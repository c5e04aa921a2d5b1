--------------------------- MODULE FileSystemProofs ----------------------------
(***************************************************************************)
(* Proofs about FileSystem for any device, any number of files and any     *)
(* sizes: no sector is shared, none is forgotten, and closing a file loses *)
(* nothing of it, as long as the inodes of the system are there.           *)
(***************************************************************************)
EXTENDS FileSystem, FiniteSetTheorems, SequenceTheorems, WellFoundedInduction, TLAPS

--------------------------------------------------------------------------------
(***************************************************************************)
(* Sets of natural numbers.                                                *)
(***************************************************************************)

\* A set of natural numbers that is not empty has a least element.
LEMMA LeastElement ==
    ASSUME NEW S \in SUBSET Nat, S # {}
    PROVE  \E i \in S : \A j \in S : i <= j
  <1>1. IsWellFoundedOn(OpToRel(<, Nat), Nat)
    BY NatLessThanWellFounded
  <1>2. PICK i \in S : \A j \in S : ~(<<j, i>> \in OpToRel(<, Nat))
    BY <1>1, WFMin
  <1>3. \A j \in S : ~(j < i)
    BY <1>2 DEF OpToRel
  <1> QED
    BY <1>3

\* A set that contains 0, and with each number the next one, contains them all.
LEMMA Induction ==
    ASSUME NEW S, 0 \in S, \A n \in Nat : n \in S => n + 1 \in S
    PROVE  \A n \in Nat : n \in S
  <1> DEFINE T == {n \in Nat : n \notin S}
  <1> SUFFICES ASSUME T # {} PROVE FALSE
    OBVIOUS
  <1>1. PICK k \in T : \A l \in T : k <= l
    BY LeastElement
  <1>2. k - 1 \in Nat /\ k - 1 \in S
    BY <1>1
  <1> QED
    BY <1>2

\* In a finite set of numbers every rank below the set's size is some element's.
LEMMA KthElement ==
    ASSUME NEW S \in SUBSET Nat, IsFiniteSet(S)
    PROVE  \A k \in Nat : k < Cardinality(S) =>
               \E e \in S : Cardinality({l \in S : l < e}) = k
  <1> DEFINE Below(e) == {l \in S : l < e}
             Ranks == {k \in Nat : k < Cardinality(S) => \E e \in S : Cardinality(Below(e)) = k}
  <1>0. Cardinality(S) \in Nat
    BY FS_CardinalityType
  <1>1. 0 \in Ranks
    <2> SUFFICES ASSUME 0 < Cardinality(S) PROVE \E e \in S : Cardinality(Below(e)) = 0
      OBVIOUS
    <2>1. S # {}
      BY FS_EmptySet
    <2>2. PICK e \in S : \A j \in S : e <= j
      BY <2>1, LeastElement
    <2>3. \A l \in S : ~(l < e)
      BY <2>2
    <2>4. Below(e) = {}
      BY <2>3
    <2> QED
      BY <2>4, FS_EmptySet
  <1>2. ASSUME NEW n \in Nat, n \in Ranks PROVE n + 1 \in Ranks
    <2> SUFFICES ASSUME n + 1 < Cardinality(S)
                 PROVE  \E e \in S : Cardinality(Below(e)) = n + 1
      OBVIOUS
    <2>1. PICK e \in S : Cardinality(Below(e)) = n
      BY <1>0, <1>2
    <2> DEFINE L == Below(e) \cup {e}
               U == S \ L
    <2>2. IsFiniteSet(Below(e))
      BY FS_Subset
    <2>3. e \notin Below(e)
      OBVIOUS
    <2>4. Cardinality(L) = n + 1
      BY <2>1, <2>2, <2>3, FS_AddElement
    <2>5. U # {}
      <3> SUFFICES ASSUME U = {} PROVE FALSE
        OBVIOUS
      <3>1. L = S
        OBVIOUS
      <3> QED
        BY <3>1, <2>4
    <2>6. PICK m \in U : \A j \in U : m <= j
      BY <2>5, LeastElement
    <2>7. \A l \in S : l < m <=> l \in L
      <3>1. e \in Nat /\ m \in Nat /\ e < m
        BY <2>6
      <3> SUFFICES ASSUME NEW l \in S PROVE l < m <=> l \in L
        OBVIOUS
      <3>2. l \in Nat
        OBVIOUS
      <3>3. l \in L => l < m
        BY <3>1, <3>2
      <3>4. l \notin L => m <= l
        BY <2>6
      <3> QED
        BY <3>1, <3>2, <3>3, <3>4
    <2>8. Below(m) = L
      BY <2>7
    <2> QED
      BY <2>4, <2>8
  <1> HIDE DEF Ranks
  <1>3. \A n \in Nat : n \in Ranks
    BY <1>1, <1>2, Induction
  <1> QED
    BY <1>3 DEF Ranks

LEMMA Counts ==
    /\ DeviceSize \in Nat \ {0} /\ BLOCK_SECTOR_SIZE \in Nat \ {0}
    /\ DIRECT_BLOCKS_COUNT \in Nat \ {0} /\ INDIRECT_BLOCKS_PER_SECTOR \in Nat \ {0}
    /\ MaxSectors \in Nat
  BY InodeAssumption DEF MaxSectors

\* The free sector of each rank, as Given computes it from the marked ones.
LEMMA SectorOfRank ==
    ASSUME NEW map \in SUBSET Bits, NEW k \in Nat, k < Cardinality(Bits \ map)
    PROVE  \E s \in Bits \ map : s = k + Cardinality({t \in map : t < s})
  <1> DEFINE F == Bits \ map
  <1>0. PICK D \in Nat : Bits = 0 .. D - 1
    BY Counts DEF Bits
  <1>1. IsFiniteSet(Bits) /\ Bits \subseteq Nat
    BY <1>0, FS_Interval
  <1>2. IsFiniteSet(F) /\ F \in SUBSET Nat
    BY <1>1, FS_Subset
  <1>3. PICK s \in F : Cardinality({l \in F : l < s}) = k
    BY <1>2, KthElement
  <1> DEFINE L == {l \in F : l < s}
             M == {t \in map : t < s}
  <1>4. s \in Nat /\ s <= D - 1
    BY <1>0, <1>1, <1>2
  <1>5. L \cup M = 0 .. s - 1 /\ L \cap M = {}
    <2>1. \A x \in L \cup M : x \in 0 .. s - 1
      BY <1>0, <1>4
    <2>2. \A x \in 0 .. s - 1 : x \in Bits
      BY <1>0, <1>4
    <2>3. \A x \in 0 .. s - 1 : x \in L \cup M
      BY <1>0, <1>4, <2>2
    <2> QED
      BY <2>1, <2>3
  <1>6. IsFiniteSet(L) /\ IsFiniteSet(M)
    <2>1. IsFiniteSet(map)
      BY <1>1, FS_Subset
    <2> QED
      BY <1>2, <2>1, FS_Subset
  <1>7. Cardinality(L \cup M) = Cardinality(L) + Cardinality(M) - Cardinality(L \cap M)
    BY <1>6, FS_Union
  <1>8. Cardinality(0 .. s - 1) = s
    BY <1>4, FS_Interval
  <1>9. Cardinality(L \cap M) = 0
    BY <1>5, FS_EmptySet
  <1>10. Cardinality(M) \in Nat
    BY <1>6, FS_CardinalityType
  <1> HIDE DEF L, M
  <1>11. s = k + Cardinality(M)
    <2>1. Cardinality(L) = k
      BY <1>3 DEF L
    <2> QED
      <3>1. PICK c : c = Cardinality(M)
        OBVIOUS
      <3>2. Cardinality(L \cup M) = s
        BY <1>5, <1>8
      <3>3. s = k + c - 0
        BY ONLY <1>7, <1>9, <2>1, <3>1, <3>2
      <3>4. c \in Nat
        BY <1>10, <3>1
      <3> QED
        BY <3>1, <3>3, <3>4
  <1> QED
    BY <1>3, <1>11 DEF M

--------------------------------------------------------------------------------
(***************************************************************************)
(* Paths: the positions an inode has for sectors.                          *)
(***************************************************************************)

LEMMA DivMod ==
    ASSUME NEW k \in Nat, NEW P \in Nat \ {0}
    PROVE  /\ k \div P \in Nat /\ k % P \in 0 .. P - 1
           /\ k - P * (k \div P) = k % P
           /\ P * (k \div P) <= k /\ k < P * (k \div P) + P
  <1>0. P \in Nat /\ P > 0
    OBVIOUS
  <1>1. k \div P \in Nat /\ k % P \in 0 .. P - 1
    BY <1>0
  <1>2. k - P * (k \div P) = k % P
    BY <1>0
  <1>3. P * (k \div P) <= k
    BY <1>0
  <1>4. k < P * (k \div P) + P
    BY <1>0
  <1> QED
    BY <1>1, <1>2, <1>3, <1>4

LEMMA DivBound ==
    ASSUME NEW k \in Nat, NEW P \in Nat \ {0}, NEW Q \in Nat, k < P * Q
    PROVE  k \div P < Q
  <1>1. PICK q \in Nat : q = k \div P
    BY DivMod
  <1>2. P * q <= k
    BY <1>1, DivMod
  <1>3. ASSUME q >= Q PROVE FALSE
    <2>1. P * q >= P * Q
      BY <1>3
    <2>2. P * q \in Nat /\ P * Q \in Nat
      OBVIOUS
    <2> QED
      BY <1>2, <2>1, <2>2
  <1> QED
    BY <1>1, <1>3

Singles == {<<i>> : i \in Pointers}

Pairs == {<<i, a>> : i \in {DIRECT_BLOCKS_COUNT, DIRECT_BLOCKS_COUNT + 1}, a \in Entries}

Triples == {<<DIRECT_BLOCKS_COUNT + 1, a, b>> : a \in Entries, b \in Entries}

AllPaths == Singles \cup Pairs \cup Triples

LEMMA PathCases ==
    ASSUME NEW p \in AllPaths
    PROVE  \/ \E i \in Pointers : p = <<i>>
           \/ \E i \in {DIRECT_BLOCKS_COUNT, DIRECT_BLOCKS_COUNT + 1}, a \in Entries : p = <<i, a>>
           \/ \E a \in Entries, b \in Entries : p = <<DIRECT_BLOCKS_COUNT + 1, a, b>>
  BY DEF AllPaths, Singles, Pairs, Triples

LEMMA TwoPointers ==
    /\ DIRECT_BLOCKS_COUNT \in Pointers /\ DIRECT_BLOCKS_COUNT + 1 \in Pointers
    /\ Pointers \subseteq Nat /\ Entries \subseteq Nat
  BY Counts DEF Pointers, Entries

\* The path of an index is one of the inode's, and no two indexes have the same.
LEMMA DataPaths ==
    ASSUME NEW k \in 0 .. MaxSectors - 1
    PROVE  DataPath(k) \in AllPaths
  <1> DEFINE D == DIRECT_BLOCKS_COUNT
             P == INDIRECT_BLOCKS_PER_SECTOR
             j == k - D - P
  <1>0. k \in Nat /\ D \in Nat /\ P \in Nat \ {0}
    BY Counts
  <1>1. CASE k < D
    BY <1>0, <1>1 DEF DataPath, AllPaths, Singles, Pointers
  <1>2. CASE ~(k < D) /\ k < D + P
    <2>1. k - D \in Entries
      BY <1>0, <1>2 DEF Entries
    <2>2. DataPath(k) = <<D, k - D>>
      BY <1>2 DEF DataPath
    <2> QED
      BY <2>1, <2>2 DEF AllPaths, Pairs
  <1>3. CASE ~(k < D + P)
    <2>1. j \in Nat /\ j < P * P
      BY <1>0, <1>3 DEF MaxSectors
    <2>2. j \div P \in Entries /\ j % P \in Entries
      <3>1. j \div P < P
        BY <1>0, <2>1, DivBound
      <3>2. j \div P \in Nat /\ j % P \in 0 .. P - 1
        BY <1>0, <2>1, DivMod
      <3> QED
        BY <1>0, <3>1, <3>2 DEF Entries
    <2>3. DataPath(k) = <<D + 1, j \div P, j % P>>
      BY <1>0, <1>3 DEF DataPath
    <2> QED
      BY <2>2, <2>3 DEF AllPaths, Triples
  <1> QED
    BY <1>1, <1>2, <1>3, <1>0

LEMMA DataPathInjective ==
    ASSUME NEW k \in 0 .. MaxSectors - 1, NEW l \in 0 .. MaxSectors - 1,
           DataPath(k) = DataPath(l)
    PROVE  k = l
  <1> DEFINE D == DIRECT_BLOCKS_COUNT
             P == INDIRECT_BLOCKS_PER_SECTOR
             J(m) == m - D - P
  <1>0. k \in Nat /\ l \in Nat /\ D \in Nat /\ P \in Nat \ {0}
    BY Counts
  <1>1. \A m \in {k, l} : m < D => DataPath(m) = <<m>>
    BY DEF DataPath
  <1>2. \A m \in {k, l} : ~(m < D) /\ m < D + P => DataPath(m) = <<D, m - D>>
    BY DEF DataPath
  <1>3. \A m \in {k, l} : ~(m < D + P) => DataPath(m) = <<D + 1, J(m) \div P, J(m) % P>>
    BY <1>0 DEF DataPath
  <1>4. CASE k < D \/ l < D
    BY <1>0, <1>1, <1>2, <1>3, <1>4
  <1>5. CASE ~(k < D) /\ ~(l < D) /\ (k < D + P \/ l < D + P)
    BY <1>0, <1>2, <1>3, <1>5
  <1>6. CASE ~(k < D + P) /\ ~(l < D + P)
    <2>1. J(k) \in Nat /\ J(l) \in Nat
      BY <1>0, <1>6
    <2>2. J(k) \div P = J(l) \div P /\ J(k) % P = J(l) % P
      BY <1>3, <1>6
    <2>3. J(k) - P * (J(k) \div P) = J(k) % P /\ J(l) - P * (J(l) \div P) = J(l) % P
      BY <1>0, <2>1, DivMod
    <2>4. J(k) = J(l)
      <3>1. PICK q, r, m, n : q = J(k) \div P /\ r = J(k) % P /\ m = J(k) /\ n = J(l)
        OBVIOUS
      <3>2. m - P * q = r /\ n - P * q = r
        BY <2>2, <2>3, <3>1
      <3>3. q \in Nat /\ r \in Nat /\ m \in Nat /\ n \in Nat
        <4>1. J(k) \div P \in Nat /\ J(k) % P \in 0 .. P - 1
          BY <1>0, <2>1, DivMod
        <4> QED
          BY <1>0, <2>1, <3>1, <4>1
      <3>4. P * q \in Nat
        BY <1>0, <3>3
      <3>5. m = n
        BY <3>2, <3>3, <3>4
      <3> QED
        BY <3>1, <3>5
    <2> QED
      BY <1>0, <2>4
  <1> QED
    BY <1>4, <1>5, <1>6

LEMMA PrefixIs ==
    ASSUME NEW S, NEW s \in Seq(S), NEW q \in Seq(S), NEW l \in Nat, Len(q) = l, l <= Len(s),
           \A i \in 1 .. l : q[i] = s[i]
    PROVE  SubSeq(s, 1, l) = q
  <1>1. Len(s) \in Nat /\ \A i \in 1 .. Len(s) : s[i] \in S
    BY ElementOfSeq, LenProperties
  <1>2. \A i \in 1 .. l : s[i] \in S
    BY <1>1
  <1>3. /\ SubSeq(s, 1, l) \in Seq(S)
        /\ Len(SubSeq(s, 1, l)) = IF 1 <= l THEN l - 1 + 1 ELSE 0
        /\ \A i \in 1 .. l - 1 + 1 : SubSeq(s, 1, l)[i] = s[1 + i - 1]
    BY <1>2, SubSeqProperties
  <1>4. Len(SubSeq(s, 1, l)) = l /\ \A i \in 1 .. l : SubSeq(s, 1, l)[i] = q[i]
    BY <1>3
  <1> QED
    BY <1>3, <1>4, SeqEqual

LEMMA PrefixesOfOne ==
    ASSUME NEW x
    PROVE  /\ \A l \in 1 .. Len(<<x>>) : SubSeq(<<x>>, 1, l) = <<x>>
           /\ \E l \in 1 .. Len(<<x>>) : <<x>> = SubSeq(<<x>>, 1, l)
  <1> DEFINE s == <<x>>
             S == {x}
  <1>1. s \in Seq(S) /\ Len(s) = 1
    OBVIOUS
  <1>a. 1 \in Nat /\ 1 <= 1 /\ \A i \in 1 .. 1 : s[i] = s[i]
    OBVIOUS
  <1>2. SubSeq(s, 1, 1) = s
    <2> HIDE DEF s, S
    <2> QED
      BY <1>1, <1>a, PrefixIs
  <1>3. \A l \in 1 .. 1 : l = 1
    OBVIOUS
  <1>4. 1 \in 1 .. 1
    OBVIOUS
  <1> QED
    BY <1>1, <1>2, <1>3, <1>4, Zenon

LEMMA PrefixesOfTwo ==
    ASSUME NEW x, NEW y
    PROVE  /\ \A l \in 1 .. Len(<<x, y>>) : SubSeq(<<x, y>>, 1, l) \in {<<x>>, <<x, y>>}
           /\ \E l \in 1 .. Len(<<x, y>>) : <<x>> = SubSeq(<<x, y>>, 1, l)
           /\ \E l \in 1 .. Len(<<x, y>>) : <<x, y>> = SubSeq(<<x, y>>, 1, l)
  <1> DEFINE s == <<x, y>>
             q == <<x>>
             S == {x, y}
  <1>1. q \in Seq(S) /\ Len(q) = 1 /\ s \in Seq(S) /\ Len(s) = 2
    OBVIOUS
  <1>a. 1 \in Nat /\ 1 <= 2 /\ \A i \in 1 .. 1 : q[i] = s[i]
    OBVIOUS
  <1>b. 2 \in Nat /\ 2 <= 2 /\ \A i \in 1 .. 2 : s[i] = s[i]
    OBVIOUS
  <1>2. SubSeq(s, 1, 1) = q
    <2> HIDE DEF s, q, S
    <2> QED
      BY <1>1, <1>a, PrefixIs
  <1>3. SubSeq(s, 1, 2) = s
    <2> HIDE DEF s, q, S
    <2> QED
      BY <1>1, <1>b, PrefixIs
  <1>4. \A l \in 1 .. 2 : l = 1 \/ l = 2
    OBVIOUS
  <1>5. 1 \in 1 .. 2 /\ 2 \in 1 .. 2
    OBVIOUS
  <1> QED
    BY <1>1, <1>2, <1>3, <1>4, <1>5, Zenon

LEMMA PrefixesOfThree ==
    ASSUME NEW x, NEW y, NEW z
    PROVE  /\ \A l \in 1 .. Len(<<x, y, z>>) :
                  SubSeq(<<x, y, z>>, 1, l) \in {<<x>>, <<x, y>>, <<x, y, z>>}
           /\ \E l \in 1 .. Len(<<x, y, z>>) : <<x>> = SubSeq(<<x, y, z>>, 1, l)
           /\ \E l \in 1 .. Len(<<x, y, z>>) : <<x, y>> = SubSeq(<<x, y, z>>, 1, l)
           /\ \E l \in 1 .. Len(<<x, y, z>>) : <<x, y, z>> = SubSeq(<<x, y, z>>, 1, l)
  <1> DEFINE s == <<x, y, z>>
             q == <<x>>
             r == <<x, y>>
             S == {x, y, z}
  <1>1. /\ q \in Seq(S) /\ Len(q) = 1 /\ r \in Seq(S) /\ Len(r) = 2
        /\ s \in Seq(S) /\ Len(s) = 3
    OBVIOUS
  <1>a. 1 \in Nat /\ 1 <= 3 /\ \A i \in 1 .. 1 : q[i] = s[i]
    OBVIOUS
  <1>b. 2 \in Nat /\ 2 <= 3 /\ \A i \in 1 .. 2 : r[i] = s[i]
    OBVIOUS
  <1>c. 3 \in Nat /\ 3 <= 3 /\ \A i \in 1 .. 3 : s[i] = s[i]
    OBVIOUS
  <1>2. SubSeq(s, 1, 1) = q
    <2> HIDE DEF s, q, r, S
    <2> QED
      BY <1>1, <1>a, PrefixIs
  <1>3. SubSeq(s, 1, 2) = r
    <2> HIDE DEF s, q, r, S
    <2> QED
      BY <1>1, <1>b, PrefixIs
  <1>4. SubSeq(s, 1, 3) = s
    <2> HIDE DEF s, q, r, S
    <2> QED
      BY <1>1, <1>c, PrefixIs
  <1>5. \A l \in 1 .. 3 : l = 1 \/ l = 2 \/ l = 3
    OBVIOUS
  <1>6. 1 \in 1 .. 3 /\ 2 \in 1 .. 3 /\ 3 \in 1 .. 3
    OBVIOUS
  <1> QED
    BY <1>1, <1>2, <1>3, <1>4, <1>5, <1>6, Zenon

\* A path is one of the file's when it is a prefix of the path of one of its
\* indexes.
LEMMA PathsMembers ==
    ASSUME NEW n \in Nat, NEW p
    PROVE  p \in Paths(n) <=>
               \E k \in 0 .. MaxSectors - 1 :
                  k < n /\ \E l \in 1 .. Len(DataPath(k)) : p = SubSeq(DataPath(k), 1, l)
  <1> DEFINE m == IF n < MaxSectors THEN n ELSE MaxSectors
  <1>1. m \in 0 .. MaxSectors
    BY Counts
  <1>2. Paths(n) = UNION {{SubSeq(DataPath(k), 1, l) : l \in 1 .. Len(DataPath(k))} :
                             k \in 0 .. m - 1}
    BY <1>1 DEF Paths, PathsOf
  <1>3. p \in Paths(n) <=>
            \E k \in 0 .. m - 1 : \E l \in 1 .. Len(DataPath(k)) : p = SubSeq(DataPath(k), 1, l)
    BY <1>2
  <1>4. \A k : k \in 0 .. m - 1 <=> k \in 0 .. MaxSectors - 1 /\ k < n
    BY Counts
  <1> HIDE DEF m
  <1> QED
    BY <1>3, <1>4

LEMMA PathsGrow ==
    ASSUME NEW n \in Nat, NEW m \in Nat, n <= m
    PROVE  Paths(n) \subseteq Paths(m)
  <1> SUFFICES ASSUME NEW p \in Paths(n) PROVE p \in Paths(m)
    OBVIOUS
  <1>1. PICK k \in 0 .. MaxSectors - 1 :
            k < n /\ \E l \in 1 .. Len(DataPath(k)) : p = SubSeq(DataPath(k), 1, l)
    BY PathsMembers
  <1>2. k < m
    BY <1>1, Counts
  <1> QED
    BY <1>1, <1>2, PathsMembers

LEMMA PathsMost ==
    ASSUME NEW n \in Nat
    PROVE  Paths(n) \subseteq Paths(MaxSectors)
  <1> SUFFICES ASSUME NEW p \in Paths(n) PROVE p \in Paths(MaxSectors)
    OBVIOUS
  <1>1. PICK k \in 0 .. MaxSectors - 1 :
            k < n /\ \E l \in 1 .. Len(DataPath(k)) : p = SubSeq(DataPath(k), 1, l)
    BY PathsMembers
  <1>2. k < MaxSectors
    BY <1>1, Counts
  <1> QED
    BY <1>1, <1>2, PathsMembers, Counts

\* The sector of an index has a path of the file.
LEMMA DataIsPath ==
    ASSUME NEW n \in Nat, NEW k \in 0 .. MaxSectors - 1, k < n
    PROVE  DataPath(k) \in Paths(n)
  <1>1. DataPath(k) \in AllPaths
    BY DataPaths
  <1>2. \E l \in 1 .. Len(DataPath(k)) : DataPath(k) = SubSeq(DataPath(k), 1, l)
    <2>1. CASE \E i \in Pointers : DataPath(k) = <<i>>
      BY <2>1, PrefixesOfOne, Zenon
    <2>2. CASE \E i \in {DIRECT_BLOCKS_COUNT, DIRECT_BLOCKS_COUNT + 1}, a \in Entries :
                  DataPath(k) = <<i, a>>
      <3>1. PICK i \in {DIRECT_BLOCKS_COUNT, DIRECT_BLOCKS_COUNT + 1}, a \in Entries :
                  DataPath(k) = <<i, a>>
        BY <2>2
      <3>2. \E l \in 1 .. Len(<<i, a>>) : <<i, a>> = SubSeq(<<i, a>>, 1, l)
        BY PrefixesOfTwo
      <3> QED
        BY <3>1, <3>2, Zenon
    <2>3. CASE \E a \in Entries, b \in Entries :
                  DataPath(k) = <<DIRECT_BLOCKS_COUNT + 1, a, b>>
      <3>1. PICK i, a, b : DataPath(k) = <<i, a, b>>
        BY <2>3
      <3>2. \E l \in 1 .. Len(<<i, a, b>>) : <<i, a, b>> = SubSeq(<<i, a, b>>, 1, l)
        BY PrefixesOfThree
      <3> QED
        BY <3>1, <3>2, Zenon
    <2> QED
      BY <1>1, <2>1, <2>2, <2>3, PathCases
  <1> QED
    BY <1>2, PathsMembers

\* All of a file's paths are positions, and with a path the blocks on the way
\* are among them.
LEMMA PathsClosed ==
    ASSUME NEW n \in Nat, NEW p \in Paths(n)
    PROVE  /\ p \in AllPaths
           /\ \A i, a : p = <<i, a>> => <<i>> \in Paths(n)
           /\ \A i, a, b : p = <<i, a, b>> => <<i, a>> \in Paths(n)
  <1>1. PICK k \in 0 .. MaxSectors - 1 :
            k < n /\ \E l \in 1 .. Len(DataPath(k)) : p = SubSeq(DataPath(k), 1, l)
    BY PathsMembers
  <1>2. PICK d : d = DataPath(k)
    OBVIOUS
  <1>3. PICK l \in 1 .. Len(d) : p = SubSeq(d, 1, l)
    BY <1>1, <1>2
  <1>4. \A m \in 1 .. Len(d) : SubSeq(d, 1, m) \in Paths(n)
    BY <1>1, <1>2, PathsMembers
  <1>5. d \in AllPaths
    BY <1>2, DataPaths
  <1>6. CASE \E i \in Pointers : d = <<i>>
    <2>1. PICK i \in Pointers : d = <<i>>
      BY <1>6
    <2>2. p = <<i>>
      BY <1>3, <2>1, PrefixesOfOne, Zenon
    <2> QED
      BY <2>2 DEF AllPaths, Singles
  <1>7. CASE \E i \in {DIRECT_BLOCKS_COUNT, DIRECT_BLOCKS_COUNT + 1}, a \in Entries : d = <<i, a>>
    <2>1. PICK i \in {DIRECT_BLOCKS_COUNT, DIRECT_BLOCKS_COUNT + 1}, a \in Entries : d = <<i, a>>
      BY <1>7
    <2>2. p \in {<<i>>, <<i, a>>}
      BY <1>3, <2>1, PrefixesOfTwo, Zenon
    <2>3. <<i>> \in Paths(n)
      <3>1. PICK j \in 1 .. Len(<<i, a>>) : <<i>> = SubSeq(<<i, a>>, 1, j)
        BY PrefixesOfTwo
      <3> QED
        BY <1>4, <2>1, <3>1, Zenon
    <2>4. i \in Pointers
      BY TwoPointers
    <2> QED
      BY <2>2, <2>3, <2>4 DEF AllPaths, Singles, Pairs
  <1>8. CASE \E a \in Entries, b \in Entries : d = <<DIRECT_BLOCKS_COUNT + 1, a, b>>
    <2>1. PICK a \in Entries, b \in Entries : d = <<DIRECT_BLOCKS_COUNT + 1, a, b>>
      BY <1>8
    <2> DEFINE i == DIRECT_BLOCKS_COUNT + 1
    <2>2. p \in {<<i>>, <<i, a>>, <<i, a, b>>}
      BY <1>3, <2>1, PrefixesOfThree, Zenon
    <2>3. <<i>> \in Paths(n) /\ <<i, a>> \in Paths(n)
      <3>1. PICK j \in 1 .. Len(<<i, a, b>>) : <<i>> = SubSeq(<<i, a, b>>, 1, j)
        BY PrefixesOfThree
      <3>2. PICK m \in 1 .. Len(<<i, a, b>>) : <<i, a>> = SubSeq(<<i, a, b>>, 1, m)
        BY PrefixesOfThree
      <3> QED
        BY <1>4, <2>1, <3>1, <3>2, Zenon
    <2>4. i \in Pointers
      BY TwoPointers
    <2> QED
      BY <2>2, <2>3, <2>4 DEF AllPaths, Singles, Pairs, Triples
  <1> QED
    BY <1>5, <1>6, <1>7, <1>8, PathCases

--------------------------------------------------------------------------------
(***************************************************************************)
(* The order of the paths, and the sectors that are given to them.         *)
(***************************************************************************)

\* A path's index at a depth, 0 where the path has ended.
Index(p, l) == IF l <= Len(p) THEN p[l] + 1 ELSE 0

Earlier(q, p) ==
    \/ Index(q, 1) < Index(p, 1)
    \/ Index(q, 1) = Index(p, 1) /\ Index(q, 2) < Index(p, 2)
    \/ Index(q, 1) = Index(p, 1) /\ Index(q, 2) = Index(p, 2) /\ Index(q, 3) < Index(p, 3)

LEMMA PathShape ==
    ASSUME NEW p \in AllPaths
    PROVE  /\ Len(p) \in 1 .. 3 /\ DOMAIN p = 1 .. Len(p)
           /\ \A i \in 1 .. Len(p) : p[i] \in Nat
           /\ Index(p, 1) \in Nat /\ Index(p, 2) \in Nat /\ Index(p, 3) \in Nat
  <1>1. /\ Len(p) \in 1 .. 3 /\ DOMAIN p = 1 .. Len(p)
        /\ \A i \in 1 .. Len(p) : p[i] \in Nat
    <2>1. CASE \E i \in Pointers : p = <<i>>
      BY <2>1, TwoPointers
    <2>2. CASE \E i \in {DIRECT_BLOCKS_COUNT, DIRECT_BLOCKS_COUNT + 1}, a \in Entries : p = <<i, a>>
      BY <2>2, TwoPointers
    <2>3. CASE \E a \in Entries, b \in Entries : p = <<DIRECT_BLOCKS_COUNT + 1, a, b>>
      BY <2>3, TwoPointers
    <2> QED
      BY <2>1, <2>2, <2>3, PathCases
  <1>2. ASSUME NEW l \in {1, 2, 3} PROVE Index(p, l) \in Nat
    <2>1. CASE l <= Len(p)
      BY <1>1, <2>1 DEF Index
    <2>2. CASE ~(l <= Len(p))
      BY <2>2 DEF Index
    <2> QED
      BY <2>1, <2>2
  <1> QED
    BY <1>1, <1>2

LEMMA SameIndexes ==
    ASSUME NEW p \in AllPaths, NEW q \in AllPaths,
           Index(p, 1) = Index(q, 1), Index(p, 2) = Index(q, 2), Index(p, 3) = Index(q, 3)
    PROVE  p = q
  <1> DEFINE IsPath(r) ==
        \/ \E i \in Nat : r = <<i>> /\ Index(r, 1) = i + 1 /\ Index(r, 2) = 0 /\ Index(r, 3) = 0
        \/ \E i \in Nat, a \in Nat : r = <<i, a>> /\ Index(r, 1) = i + 1 /\ Index(r, 2) = a + 1
                                     /\ Index(r, 3) = 0
        \/ \E i \in Nat, a \in Nat, b \in Nat :
              r = <<i, a, b>> /\ Index(r, 1) = i + 1 /\ Index(r, 2) = a + 1 /\ Index(r, 3) = b + 1
  <1>1. ASSUME NEW r \in AllPaths PROVE IsPath(r)
    <2>1. CASE \E i \in Pointers : r = <<i>>
      BY <2>1, TwoPointers DEF Index
    <2>2. CASE \E i \in {DIRECT_BLOCKS_COUNT, DIRECT_BLOCKS_COUNT + 1}, a \in Entries : r = <<i, a>>
      BY <2>2, TwoPointers DEF Index
    <2>3. CASE \E a \in Entries, b \in Entries : r = <<DIRECT_BLOCKS_COUNT + 1, a, b>>
      BY <2>3, TwoPointers DEF Index
    <2> QED
      BY <2>1, <2>2, <2>3, PathCases
  <1>2. IsPath(p) /\ IsPath(q)
    BY <1>1
  <1> QED
    BY <1>2

\* What is served before a path comes earlier in the order of the indexes.
LEMMA BeforeIsEarlier ==
    ASSUME NEW p \in Paths(MaxSectors), NEW q \in Paths(MaxSectors)
    PROVE  q \in Before[p] <=> Earlier(q, p)
  <1>0. p \in AllPaths /\ q \in AllPaths
    BY Counts, PathsClosed
  <1>1. PICK m, n : m = Len(p) /\ n = Len(q)
    OBVIOUS
  <1>2. /\ m \in 1 .. 3 /\ n \in 1 .. 3 /\ DOMAIN p = 1 .. m /\ DOMAIN q = 1 .. n
        /\ \A i \in 1 .. m : p[i] \in Nat
        /\ \A i \in 1 .. n : q[i] \in Nat
    BY <1>0, <1>1, PathShape
  <1>3. q \in Before[p] <=>
            \/ n < m /\ \A i \in 1 .. n : p[i] = q[i]
            \/ \E l \in 1 .. m \cap 1 .. n : q[l] < p[l] /\ \A i \in 1 .. l - 1 : p[i] = q[i]
    BY <1>1, <1>2 DEF Before, Agree
  <1>4. Earlier(q, p) <=>
           LET I(r, k, l) == IF l <= k THEN r[l] + 1 ELSE 0
           IN \/ I(q, n, 1) < I(p, m, 1)
              \/ I(q, n, 1) = I(p, m, 1) /\ I(q, n, 2) < I(p, m, 2)
              \/ I(q, n, 1) = I(p, m, 1) /\ I(q, n, 2) = I(p, m, 2) /\ I(q, n, 3) < I(p, m, 3)
    BY <1>1 DEF Earlier, Index
  <1>5. \A k \in 1 .. 3 : k = 1 \/ k = 2 \/ k = 3
    OBVIOUS
  <1>6. (n < m /\ \A i \in 1 .. n : p[i] = q[i])
           <=> n < m /\ p[1] = q[1] /\ (n >= 2 => p[2] = q[2])
    BY ONLY <1>2
  <1>7. ASSUME NEW l \in {1, 2, 3}
        PROVE  (\A i \in 1 .. l - 1 : p[i] = q[i])
                  <=> (l >= 2 => p[1] = q[1]) /\ (l >= 3 => p[2] = q[2])
    <2>1. CASE l = 1
      BY <2>1
    <2>2. CASE l = 2
      BY <2>2
    <2>3. CASE l = 3
      BY <2>3
    <2> QED
      BY <2>1, <2>2, <2>3
  <1>8. q \in Before[p] <=>
            \/ n < m /\ p[1] = q[1] /\ (n >= 2 => p[2] = q[2])
            \/ q[1] < p[1]
            \/ 2 \in 1 .. m \cap 1 .. n /\ q[2] < p[2] /\ p[1] = q[1]
            \/ 3 \in 1 .. m \cap 1 .. n /\ q[3] < p[3] /\ p[1] = q[1] /\ p[2] = q[2]
    <2>1. 1 \in 1 .. m \cap 1 .. n
      BY <1>2
    <2>2. \A l \in 1 .. m \cap 1 .. n : l \in {1, 2, 3}
      BY <1>2
    <2> QED
      BY ONLY <1>3, <1>6, <1>7, <2>1, <2>2
  <1>9. CASE m = 1
    BY ONLY <1>2, <1>4, <1>5, <1>8, <1>9
  <1>10. CASE m = 2
    BY ONLY <1>2, <1>4, <1>5, <1>8, <1>10
  <1>11. CASE m = 3
    <2>1. CASE n = 1
      BY ONLY <1>2, <1>4, <1>8, <1>11, <2>1
    <2>2. CASE n = 2
      BY ONLY <1>2, <1>4, <1>8, <1>11, <2>2
    <2>3. CASE n = 3
      BY ONLY <1>2, <1>4, <1>8, <1>11, <2>3
    <2> QED
      BY <1>2, <1>5, <2>1, <2>2, <2>3
  <1> QED
    BY <1>2, <1>5, <1>9, <1>10, <1>11

LEMMA FiniteImage ==
    ASSUME NEW S, IsFiniteSet(S), NEW f, DOMAIN f = S, f = [x \in S |-> f[x]]
    PROVE  IsFiniteSet({f[x] : x \in S})
  <1> DEFINE T == {f[x] : x \in S}
  <1>1. f \in [S -> T]
    OBVIOUS
  <1>2. f \in Surjection(S, T)
    BY <1>1 DEF Surjection
  <1> QED
    BY <1>2, FS_Surjection

LEMMA FinitePaths == IsFiniteSet(AllPaths)
  <1>1. IsFiniteSet(Pointers) /\ IsFiniteSet(Entries)
    BY Counts, FS_Interval DEF Pointers, Entries
  <1>2. IsFiniteSet(Singles)
    <2>1. PICK f : f = [i \in Pointers |-> <<i>>]
      OBVIOUS
    <2>2. DOMAIN f = Pointers /\ f = [i \in Pointers |-> f[i]]
      BY <2>1
    <2>3. IsFiniteSet({f[i] : i \in Pointers})
      BY <1>1, <2>2, FiniteImage
    <2>4. Singles = {f[i] : i \in Pointers}
      BY <2>1 DEF Singles
    <2> QED
      BY <2>3, <2>4
  <1>3. IsFiniteSet(Pairs)
    <2>1. IsFiniteSet(Pointers \X Entries)
      BY <1>1, FS_Product
    <2>2. Pairs \in SUBSET (Pointers \X Entries)
      BY TwoPointers DEF Pairs
    <2> QED
      BY <2>1, <2>2, FS_Subset
  <1>4. IsFiniteSet(Triples)
    <2>1. PICK S : S = Entries \X Entries
      OBVIOUS
    <2>2. IsFiniteSet(S)
      BY <1>1, <2>1, FS_Product
    <2>3. PICK f : f = [z \in S |-> <<DIRECT_BLOCKS_COUNT + 1, z[1], z[2]>>]
      OBVIOUS
    <2>4. DOMAIN f = S /\ f = [z \in S |-> f[z]]
      BY <2>3
    <2>5. IsFiniteSet({f[z] : z \in S})
      BY <2>2, <2>4, FiniteImage
    <2>6. Triples \subseteq {f[z] : z \in S}
      <3> SUFFICES ASSUME NEW a \in Entries, NEW b \in Entries
                   PROVE  <<DIRECT_BLOCKS_COUNT + 1, a, b>> \in {f[z] : z \in S}
        BY DEF Triples
      <3>1. <<a, b>> \in S
        BY <2>1
      <3>2. f[<<a, b>>] = <<DIRECT_BLOCKS_COUNT + 1, a, b>>
        BY <2>3, <3>1
      <3> QED
        BY <3>1, <3>2
    <2> QED
      BY <2>5, <2>6, FS_Subset
  <1> QED
    BY <1>2, <1>3, <1>4, FS_Union DEF AllPaths

LEMMA PathsFinite ==
    ASSUME NEW n \in Nat
    PROVE  IsFiniteSet(Paths(n))
  BY FinitePaths, PathsClosed, FS_Subset

\* No two lacking paths have the same rank among them.
LEMMA RankInjective ==
    ASSUME NEW lacking \in SUBSET Paths(MaxSectors), NEW p \in lacking, NEW q \in lacking,
           Cardinality(lacking \cap Before[p]) = Cardinality(lacking \cap Before[q])
    PROVE  p = q
  <1>1. \A r \in lacking : r \in AllPaths
    BY Counts, PathsClosed
  <1>2. \A r, t \in lacking : r \in Before[t] <=> Earlier(r, t)
    BY BeforeIsEarlier
  <1>3. IsFiniteSet(lacking)
    BY Counts, PathsFinite, FS_Subset
  <1>4. ASSUME NEW r \in lacking, NEW t \in lacking, Earlier(r, t)
        PROVE  Cardinality(lacking \cap Before[r]) # Cardinality(lacking \cap Before[t])
    <2> DEFINE R == lacking \cap Before[r]
               T == lacking \cap Before[t]
    <2>1. ASSUME NEW u \in R PROVE u \in T
      <3>1. Earlier(u, r)
        BY <1>2
      <3>2. Earlier(u, t)
        <4>1. \A v \in {u, r, t} :
                  Index(v, 1) \in Nat /\ Index(v, 2) \in Nat /\ Index(v, 3) \in Nat
          BY <1>1, PathShape
        <4> QED
          BY ONLY <1>4, <3>1, <4>1 DEF Earlier
      <3> QED
        BY <1>2, <3>2
    <2>2. r \in T
      BY <1>2, <1>4
    <2>3. r \notin R
      <3>1. ~Earlier(r, r)
        BY <1>1, PathShape DEF Earlier
      <3> QED
        BY <1>2, <3>1
    <2>4. IsFiniteSet(T) /\ R \in SUBSET T
      BY <1>3, <2>1, FS_Subset
    <2> HIDE DEF R, T
    <2>5. Cardinality(T) = Cardinality(R) => T = R
      BY <2>4, FS_Subset
    <2>6. T # R
      BY <2>2, <2>3
    <2> QED
      BY <2>5, <2>6 DEF R, T
  <1>5. p = q \/ Earlier(p, q) \/ Earlier(q, p)
    BY <1>1, SameIndexes, PathShape DEF Earlier
  <1> QED
    BY <1>4, <1>5

\* The sectors Given hands out are free, and no two paths get the same.
FreeSectors(map, lacking, given) ==
    /\ DOMAIN given \subseteq lacking
    /\ \A p \in DOMAIN given : given[p] \in Bits \ map
    /\ \A p, q \in DOMAIN given : given[p] = given[q] => p = q
    /\ Cardinality(lacking) <= Cardinality(Bits \ map) => DOMAIN given = lacking

LEMMA GivenSectors ==
    ASSUME NEW map \in SUBSET Bits, NEW lacking \in SUBSET Paths(MaxSectors),
           NEW given, given = Given(map, lacking)
    PROVE  FreeSectors(map, lacking, given)
  <1> DEFINE Rank(p) == Cardinality(lacking \cap Before[p])
             Ranked(s, k) == s = k + Cardinality({t \in map : t < s})
  <1>1. DOMAIN given = {p \in lacking : Rank(p) < Cardinality(Bits \ map)}
    BY DEF Given
  <1>2. \A p \in DOMAIN given : given[p] = CHOOSE s \in Bits \ map : Ranked(s, Rank(p))
    BY DEF Given
  <1>3. IsFiniteSet(lacking)
    BY Counts, PathsFinite, FS_Subset
  <1>4. ASSUME NEW p \in lacking PROVE Rank(p) \in Nat
    BY <1>3, FS_Subset, FS_CardinalityType
  <1>5. IsFiniteSet(map)
    <2>1. IsFiniteSet(Bits)
      BY Counts, FS_Interval DEF Bits
    <2> QED
      BY <2>1, FS_Subset
  <1>6. ASSUME NEW p \in DOMAIN given
        PROVE  given[p] \in Bits \ map /\ Ranked(given[p], Rank(p))
    <2>1. Rank(p) \in Nat /\ Rank(p) < Cardinality(Bits \ map)
      BY <1>1, <1>4
    <2>2. PICK k : k = Rank(p)
      OBVIOUS
    <2>4. \E s \in Bits \ map : Ranked(s, k)
      BY <2>1, <2>2, SectorOfRank
    <2> QED
      BY <1>2, <2>2, <2>4
  <1>7. ASSUME NEW p \in DOMAIN given, NEW q \in DOMAIN given, given[p] = given[q]
        PROVE  p = q
    <2>1. PICK s, c, k, l : /\ s = given[p] /\ c = Cardinality({t \in map : t < s})
                            /\ k = Rank(p) /\ l = Rank(q)
      OBVIOUS
    <2>2. c \in Nat
      BY <1>5, <2>1, FS_Subset, FS_CardinalityType
    <2>3. k \in Nat /\ l \in Nat
      BY <1>1, <1>4, <2>1
    <2>4. s = k + c /\ s = l + c
      BY <1>6, <1>7, <2>1
    <2>5. k = l
      BY <2>2, <2>3, <2>4
    <2> QED
      BY <1>1, <2>1, <2>5, RankInjective
  <1>8. ASSUME Cardinality(lacking) <= Cardinality(Bits \ map), NEW p \in lacking
        PROVE  p \in DOMAIN given
    <2>1. p \notin Before[p]
      <3>1. p \in AllPaths
        BY Counts, PathsClosed
      <3> QED
        BY <3>1, BeforeIsEarlier, PathShape DEF Earlier
    <2>2. lacking \cap Before[p] \in SUBSET (lacking \ {p})
      BY <2>1
    <2>3. IsFiniteSet(lacking \ {p}) /\ Cardinality(lacking \ {p}) = Cardinality(lacking) - 1
      BY <1>3, FS_RemoveElement
    <2>4. Rank(p) <= Cardinality(lacking \ {p})
      BY <2>2, <2>3, FS_Subset
    <2>5. Cardinality(lacking) \in Nat
      BY <1>3, FS_CardinalityType
    <2>6. Cardinality(Bits \ map) \in Nat
      <3>1. IsFiniteSet(Bits)
        BY Counts, FS_Interval DEF Bits
      <3> QED
        BY <3>1, FS_Subset, FS_CardinalityType
    <2>7. Rank(p) < Cardinality(Bits \ map)
      BY <1>4, <1>8, <2>3, <2>4, <2>5, <2>6
    <2> QED
      BY <1>1, <2>7
  <1> QED
    BY <1>1, <1>6, <1>7, <1>8 DEF FreeSectors

--------------------------------------------------------------------------------
(***************************************************************************)
(* The tree of an inode: the sectors at its paths.                         *)
(***************************************************************************)

Contents == {Zeros} \cup {Block(b) : b \in [Entries -> Sector]}
                \cup {Inode(p, l) : p \in [Pointers -> Sector], l \in Nat}

FileSystems == [map : SUBSET Bits, at : [Sector -> Contents]]

\* Entry a of the block at p is at q.
Child(p, a, q) == /\ p \in AllPaths /\ q \in AllPaths /\ a \in Entries
                  /\ IsBlock(p) /\ q = Append(p, a)
                  /\ \/ \E i \in {DIRECT_BLOCKS_COUNT, DIRECT_BLOCKS_COUNT + 1} :
                           p = <<i>> /\ q = <<i, a>>
                     \/ \E c \in Entries : /\ p = <<DIRECT_BLOCKS_COUNT + 1, c>>
                                           /\ q = <<DIRECT_BLOCKS_COUNT + 1, c, a>>

LEMMA ZeroSector == 0 \in Sector /\ Sector \subseteq Nat /\ Bits \subseteq Sector
  BY Counts DEF Sector, Bits

LEMMA SinglePath ==
    ASSUME NEW i \in Pointers
    PROVE  <<i>> \in AllPaths
  BY DEF AllPaths, Singles

\* What holds of the pointers of the inode, and of the entries of a block with the
\* block, holds of all paths.
LEMMA PathInduction ==
    ASSUME NEW S,
           \A i \in Pointers : <<i>> \in S,
           \A p, q \in AllPaths, a \in Entries : Child(p, a, q) /\ p \in S => q \in S
    PROVE  \A p \in AllPaths : p \in S
  <1> DEFINE D == DIRECT_BLOCKS_COUNT
  <1>1. ASSUME NEW i \in {D, D + 1}, NEW a \in Entries PROVE <<i, a>> \in S
    <2>1. i \in Pointers
      BY TwoPointers
    <2>2. <<i>> \in AllPaths /\ <<i, a>> \in AllPaths
      BY <2>1 DEF AllPaths, Singles, Pairs
    <2>3. IsBlock(<<i>>)
      BY Counts DEF IsBlock
    <2>4. <<i, a>> = Append(<<i>>, a)
      OBVIOUS
    <2>5. Child(<<i>>, a, <<i, a>>)
      BY <2>2, <2>3, <2>4 DEF Child
    <2> QED
      BY <2>1, <2>2, <2>5
  <1>2. ASSUME NEW a \in Entries, NEW b \in Entries PROVE <<D + 1, a, b>> \in S
    <2>1. <<D + 1, a>> \in AllPaths /\ <<D + 1, a, b>> \in AllPaths
      BY DEF AllPaths, Triples, Pairs
    <2>2. IsBlock(<<D + 1, a>>)
      BY DEF IsBlock
    <2>3. <<D + 1, a, b>> = Append(<<D + 1, a>>, b)
      OBVIOUS
    <2>4. Child(<<D + 1, a>>, b, <<D + 1, a, b>>)
      BY <2>1, <2>2, <2>3 DEF Child
    <2> QED
      BY <1>1, <2>1, <2>4
  <1> QED
    BY <1>1, <1>2, PathCases

LEMMA ChildSector ==
    ASSUME NEW p, NEW a, NEW q, Child(p, a, q), NEW at, NEW ptr
    PROVE  SectorAt(at, ptr, q) = BlocksAt(at, SectorAt(at, ptr, p))[a]
  <1>1. CASE \E i \in {DIRECT_BLOCKS_COUNT, DIRECT_BLOCKS_COUNT + 1} : p = <<i>> /\ q = <<i, a>>
    <2>1. PICK i : p = <<i>> /\ q = <<i, a>>
      BY <1>1
    <2>2. Len(p) = 1 /\ p[1] = i /\ Len(q) = 2 /\ q[1] = i /\ q[2] = a
      BY <2>1
    <2> QED
      BY <2>2 DEF SectorAt
  <1>2. CASE \E c \in Entries : /\ p = <<DIRECT_BLOCKS_COUNT + 1, c>>
                                /\ q = <<DIRECT_BLOCKS_COUNT + 1, c, a>>
    <2>1. PICK i, c : p = <<i, c>> /\ q = <<i, c, a>>
      BY <1>2
    <2>2. /\ Len(p) = 2 /\ p[1] = i /\ p[2] = c
          /\ Len(q) = 3 /\ q[1] = i /\ q[2] = c /\ q[3] = a
      BY <2>1
    <2> QED
      BY <2>2 DEF SectorAt
  <1> QED
    BY <1>1, <1>2 DEF Child

LEMMA SingleSector ==
    ASSUME NEW i, NEW at, NEW ptr
    PROVE  SectorAt(at, ptr, <<i>>) = ptr[i]
  <1>1. Len(<<i>>) = 1 /\ <<i>>[1] = i
    OBVIOUS
  <1> QED
    BY <1>1 DEF SectorAt

LEMMA ParentInPaths ==
    ASSUME NEW p, NEW a, NEW q, Child(p, a, q), NEW n \in Nat, q \in Paths(n)
    PROVE  p \in Paths(n)
  BY PathsClosed DEF Child

LEMMA BlockContents ==
    ASSUME NEW at \in [Sector -> Contents], NEW x \in Sector
    PROVE  /\ BlocksAt(at, x) \in [Entries -> Sector]
           /\ \A a \in Entries : BlocksAt(at, 0)[a] = 0
           /\ at[x] = Zeros => \A a \in Entries : BlocksAt(at, x)[a] = 0
           /\ \A b : x # 0 /\ at[x] = Block(b) => BlocksAt(at, x) = b
  <1>1. at[x] \in Contents
    OBVIOUS
  <1>2. at[x].kind = "block" => at[x].blocks \in [Entries -> Sector]
    <2>1. CASE at[x] = Zeros
      BY <2>1 DEF Zeros
    <2>2. CASE \E b \in [Entries -> Sector] : at[x] = Block(b)
      BY <2>2 DEF Block
    <2>3. CASE \E p \in [Pointers -> Sector], l \in Nat : at[x] = Inode(p, l)
      BY <2>3 DEF Inode
    <2> QED
      BY <1>1, <2>1, <2>2, <2>3 DEF Contents
  <1>3. BlocksAt(at, x) \in [Entries -> Sector]
    <2>1. CASE x # 0 /\ at[x].kind = "block"
      BY <1>2, <2>1 DEF BlocksAt
    <2>2. CASE ~(x # 0 /\ at[x].kind = "block")
      BY <2>2, ZeroSector DEF BlocksAt
    <2> QED
      BY <2>1, <2>2
  <1>4. \A a \in Entries : BlocksAt(at, 0)[a] = 0
    BY DEF BlocksAt
  <1>5. at[x] = Zeros => \A a \in Entries : BlocksAt(at, x)[a] = 0
    BY DEF BlocksAt, Zeros
  <1>6. \A b : x # 0 /\ at[x] = Block(b) => BlocksAt(at, x) = b
    BY DEF BlocksAt, Block
  <1> QED
    BY <1>3, <1>4, <1>5, <1>6

LEMMA SectorAtType ==
    ASSUME NEW at \in [Sector -> Contents], NEW ptr \in [Pointers -> Sector]
    PROVE  \A p \in AllPaths : SectorAt(at, ptr, p) \in Sector
  <1> DEFINE S == {p \in AllPaths : SectorAt(at, ptr, p) \in Sector}
  <1>1. \A i \in Pointers : <<i>> \in S
    BY SingleSector, SinglePath
  <1>2. ASSUME NEW p \in AllPaths, NEW q \in AllPaths, NEW a \in Entries,
               Child(p, a, q), p \in S
        PROVE  q \in S
    <2>1. SectorAt(at, ptr, q) = BlocksAt(at, SectorAt(at, ptr, p))[a]
      BY <1>2, ChildSector
    <2>2. BlocksAt(at, SectorAt(at, ptr, p)) \in [Entries -> Sector]
      BY <1>2, BlockContents
    <2> QED
      BY <2>1, <2>2
  <1> HIDE DEF S
  <1>3. \A p \in AllPaths : p \in S
    BY <1>1, <1>2, PathInduction
  <1> QED
    BY <1>3 DEF S

\* A tree does not change when the sectors it reaches do not.
LEMMA SameTree ==
    ASSUME NEW at \in [Sector -> Contents], NEW new \in [Sector -> Contents],
           NEW ptr \in [Pointers -> Sector],
           \A p \in AllPaths : SectorAt(at, ptr, p) # 0
                                  => new[SectorAt(at, ptr, p)] = at[SectorAt(at, ptr, p)]
    PROVE  \A p \in AllPaths : SectorAt(new, ptr, p) = SectorAt(at, ptr, p)
  <1> DEFINE S == {p \in AllPaths : SectorAt(new, ptr, p) = SectorAt(at, ptr, p)}
  <1>1. \A i \in Pointers : <<i>> \in S
    BY SingleSector, SinglePath
  <1>2. ASSUME NEW p \in AllPaths, NEW q \in AllPaths, NEW a \in Entries,
               Child(p, a, q), p \in S
        PROVE  q \in S
    <2>1. PICK x : x = SectorAt(at, ptr, p)
      OBVIOUS
    <2>2. /\ SectorAt(at, ptr, q) = BlocksAt(at, x)[a]
          /\ SectorAt(new, ptr, q) = BlocksAt(new, x)[a]
      BY <1>2, <2>1, ChildSector
    <2>3. x # 0 => new[x] = at[x]
      BY <2>1
    <2>4. BlocksAt(new, x) = BlocksAt(at, x)
      BY <2>3 DEF BlocksAt
    <2> QED
      BY <2>2, <2>4
  <1> HIDE DEF S
  <1>3. \A p \in AllPaths : p \in S
    BY <1>1, <1>2, PathInduction
  <1> QED
    BY <1>3 DEF S

\* Pointers that are a part of others, as those on disk of those in memory.
PartOf(part, ptr) == \A i \in Pointers : part[i] # 0 => part[i] = ptr[i]

\* They reach a part of the tree.
LEMMA PartTree ==
    ASSUME NEW at \in [Sector -> Contents], NEW part \in [Pointers -> Sector],
           NEW ptr \in [Pointers -> Sector], PartOf(part, ptr)
    PROVE  \A p \in AllPaths :
               SectorAt(at, part, p) = IF part[p[1]] = 0 THEN 0 ELSE SectorAt(at, ptr, p)
  <1> DEFINE S == {p \in AllPaths :
                      /\ p[1] \in Pointers
                      /\ SectorAt(at, part, p) = IF part[p[1]] = 0 THEN 0 ELSE SectorAt(at, ptr, p)}
  <1>1. ASSUME NEW i \in Pointers PROVE <<i>> \in S
    <2>1. <<i>>[1] = i
      OBVIOUS
    <2>2. SectorAt(at, part, <<i>>) = part[i] /\ SectorAt(at, ptr, <<i>>) = ptr[i]
      BY SingleSector
    <2> QED
      BY <2>1, <2>2, SinglePath DEF PartOf
  <1>2. ASSUME NEW p \in AllPaths, NEW q \in AllPaths, NEW a \in Entries,
               Child(p, a, q), p \in S
        PROVE  q \in S
    <2>1. q[1] = p[1]
      BY <1>2 DEF Child
    <2>2. /\ SectorAt(at, part, q) = BlocksAt(at, SectorAt(at, part, p))[a]
          /\ SectorAt(at, ptr, q) = BlocksAt(at, SectorAt(at, ptr, p))[a]
      BY <1>2, ChildSector
    <2>3. BlocksAt(at, 0)[a] = 0
      BY ZeroSector, BlockContents
    <2>4. CASE part[p[1]] = 0
      BY <1>2, <2>1, <2>2, <2>3, <2>4
    <2>5. CASE part[p[1]] # 0
      BY <1>2, <2>1, <2>2, <2>5
    <2> QED
      BY <2>4, <2>5
  <1> HIDE DEF S
  <1>3. \A p \in AllPaths : p \in S
    BY <1>1, <1>2, PathInduction
  <1> QED
    BY <1>3 DEF S

LEMMA PartSectors ==
    ASSUME NEW at \in [Sector -> Contents], NEW part \in [Pointers -> Sector],
           NEW ptr \in [Pointers -> Sector], PartOf(part, ptr), NEW p \in AllPaths
    PROVE  SectorAt(at, part, p) # 0 => SectorAt(at, part, p) = SectorAt(at, ptr, p)
  BY PartTree

--------------------------------------------------------------------------------
(***************************************************************************)
(* inode_reserve.                                                          *)
(***************************************************************************)

\* No two paths of the tree lead to one sector, and all its sectors are marked.
Tree(f, ptr) ==
    /\ \A p \in AllPaths : SectorAt(f.at, ptr, p) # 0 => SectorAt(f.at, ptr, p) \in f.map
    /\ \A p, q \in AllPaths :
          SectorAt(f.at, ptr, p) # 0 /\ SectorAt(f.at, ptr, p) = SectorAt(f.at, ptr, q) => p = q

\* What the answer r of inode_reserve for n sectors says of the tree: what was there
\* stays, what is new was free, and when it succeeds all sectors are there and no
\* other one was taken.
Extends(f, ptr, r, n) ==
    LET Old(p) == SectorAt(f.at, ptr, p)
        New(p) == SectorAt(r.fs.at, r.ptr, p)
    IN /\ r.ok \in BOOLEAN /\ r.fs \in FileSystems /\ r.ptr \in [Pointers -> Sector]
       /\ f.map \subseteq r.fs.map
       /\ \A p \in AllPaths : Old(p) # 0 => New(p) = Old(p)
       /\ \A p \in AllPaths : New(p) # 0 /\ Old(p) = 0 => New(p) \in r.fs.map \ f.map
       /\ \A p, q \in AllPaths : New(p) # 0 /\ New(p) = New(q) => p = q
       /\ r.ok => /\ n <= MaxSectors
                  /\ \A p \in Paths(n) : New(p) # 0
                  /\ \A x \in r.fs.map \ f.map : \E p \in Paths(n) : x = New(p)
       /\ \A x \in f.map : x # 0 /\ (\A p \in AllPaths : Old(p) # x) => r.fs.at[x] = f.at[x]

\* An inode is never written on the way, only overwritten.
KeepsInodes(f, r) == \A x \in Sector : r.fs.at[x].kind = "inode" => r.fs.at[x] = f.at[x]

\* inode_reserve, said with the sets it works with: the paths that lack a sector,
\* what they are given, the sector each path has in the end, and the blocks that are
\* written back.
Lacking(f, ptr, n) == {p \in Paths(n) : SectorAt(f.at, ptr, p) = 0}

NewSector(f, ptr, given) ==
    [p \in AllPaths |-> IF p \in DOMAIN given THEN given[p] ELSE SectorAt(f.at, ptr, p)]

Written(n, unserved) == {p \in Paths(n) : IsBlock(p) /\ \A q \in unserved : ~IsPrefix(p, q)}

NewBlock(f, ptr, given, p) ==
    [a \in Entries |-> IF Append(p, a) \in DOMAIN given THEN given[Append(p, a)]
                       ELSE IF p \in DOMAIN given THEN 0
                       ELSE SectorAt(f.at, ptr, Append(p, a))]

Fields(f, ptr, n, r, given, unserved, new, written, taken) ==
    /\ r = [ok |-> r.ok, fs |-> r.fs, ptr |-> r.ptr]
    /\ r.fs = [map |-> r.fs.map, at |-> r.fs.at]
    /\ r.ok = (unserved = {} /\ n <= MaxSectors)
    /\ r.fs.map = f.map \cup taken
    /\ r.ptr = [i \in Pointers |-> IF <<i>> \in DOMAIN given THEN given[<<i>>] ELSE ptr[i]]
    /\ DOMAIN r.fs.at = Sector /\ r.fs.at = [s \in Sector |-> r.fs.at[s]]
    /\ \A s \in Sector :
          (\E p \in written : new[p] = s) =>
             \E p \in written : new[p] = s /\ r.fs.at[s] = Block(NewBlock(f, ptr, given, p))
    /\ \A s \in Sector :
          (\A p \in written : new[p] # s) =>
              \/ r.fs.at[s] = Zeros /\ (s \in taken \/ s = 0)
              \/ r.fs.at[s] = f.at[s] /\ s \notin taken

LEMMA ReservedFields ==
    ASSUME NEW f, NEW ptr, NEW n \in Nat, NEW r, r = inode_reserve(f, ptr, n),
           NEW given, given = Given(f.map, Lacking(f, ptr, n)),
           NEW unserved, unserved = Lacking(f, ptr, n) \ DOMAIN given,
           NEW new, new = NewSector(f, ptr, given),
           NEW written, written = Written(n, unserved),
           NEW taken, taken = {given[p] : p \in DOMAIN given}
    PROVE  Fields(f, ptr, n, r, given, unserved, new, written, taken)
  <1> DEFINE New(p) == IF p \in DOMAIN given THEN given[p] ELSE SectorAt(f.at, ptr, p)
             failing == {p \in unserved : IsBlock(p) /\ unserved \cap Before[p] = {}}
             at == [s \in Sector |->
                       IF s \in {New(p) : p \in written}
                       THEN LET p == CHOOSE p \in written : New(p) = s
                            IN Block(NewBlock(f, ptr, given, p))
                       ELSE IF s \in taken \cup {0 : p \in failing} THEN Zeros
                       ELSE f.at[s]]
             ptrs == [i \in Pointers |-> IF <<i>> \in DOMAIN given THEN given[<<i>>] ELSE ptr[i]]
  <1>1. inode_reserve(f, ptr, n) =
           [[ok |-> unserved = {}, fs |-> [map |-> f.map \cup taken, at |-> at], ptr |-> ptrs]
               EXCEPT !.ok = @ /\ n <= MaxSectors]
    BY DEF inode_reserve, Reserved, Lacking, Written, NewBlock
  <1> HIDE DEF at, ptrs
  <1>2. r = [ok |-> unserved = {} /\ n <= MaxSectors,
             fs |-> [map |-> f.map \cup taken, at |-> at], ptr |-> ptrs]
    BY <1>1
  <1>3. r.fs.map = f.map \cup taken /\ r.fs.at = at /\ r.ptr = ptrs
    <2>1. PICK b, u : b = (unserved = {} /\ n <= MaxSectors) /\ u = [map |-> f.map \cup taken, at |-> at]
      OBVIOUS
    <2>2. r = [ok |-> b, fs |-> u, ptr |-> ptrs]
      BY <1>2, <2>1, Zenon
    <2>3. r.fs = u /\ r.ptr = ptrs
      BY ONLY <2>2
    <2>4. u.map = f.map \cup taken /\ u.at = at
      BY <2>1
    <2> QED
      BY <2>3, <2>4
  <1>4. \A p \in written : new[p] = New(p)
    <2>1. \A p \in written : p \in AllPaths
      BY PathsClosed DEF Written
    <2> QED
      BY <2>1 DEF NewSector
  <1>5. ASSUME NEW s \in Sector, \E p \in written : new[p] = s
        PROVE  \E p \in written : new[p] = s /\ at[s] = Block(NewBlock(f, ptr, given, p))
    <2>1. \E p \in written : New(p) = s
      BY <1>4, <1>5
    <2>2. s \in {New(p) : p \in written}
      BY <2>1
    <2>3. PICK p : p = CHOOSE q \in written : New(q) = s
      OBVIOUS
    <2>4. p \in written /\ New(p) = s
      BY <2>1, <2>3
    <2>5. at[s] = Block(NewBlock(f, ptr, given, p))
      <3> HIDE DEF New
      <3> QED
        BY <2>2, <2>3 DEF at
    <2> QED
      BY <1>4, <2>4, <2>5
  <1>6. ASSUME NEW s \in Sector, \A p \in written : new[p] # s
        PROVE  \/ at[s] = Zeros /\ (s \in taken \/ s = 0)
               \/ at[s] = f.at[s] /\ s \notin taken
    <2>1. s \notin {New(p) : p \in written}
      BY <1>4, <1>6
    <2> HIDE DEF New
    <2>2. at[s] = IF s \in taken \cup {0 : p \in failing} THEN Zeros ELSE f.at[s]
      BY <2>1 DEF at
    <2> QED
      BY <2>2
  <1>7. DOMAIN at = Sector /\ at = [s \in Sector |-> at[s]]
    BY DEF at
  <1>8. ptrs = [i \in Pointers |-> IF <<i>> \in DOMAIN given THEN given[<<i>>] ELSE ptr[i]]
    BY DEF ptrs
  <1>10. r.ptr = [i \in Pointers |-> IF <<i>> \in DOMAIN given THEN given[<<i>>] ELSE ptr[i]]
    BY <1>3, <1>8
  <1>11. DOMAIN r.fs.at = Sector /\ r.fs.at = [s \in Sector |-> r.fs.at[s]]
    BY <1>3, <1>7
  <1>12. ASSUME NEW s \in Sector, \E p \in written : new[p] = s
         PROVE  \E p \in written :
                   /\ new[p] = s
                   /\ r.fs.at[s] = Block(NewBlock(f, ptr, given, p))
    <2>1. PICK p \in written : new[p] = s /\ at[s] = Block(NewBlock(f, ptr, given, p))
      BY <1>5, <1>12
    <2>2. r.fs.at[s] = at[s]
      BY <1>3
    <2> QED
      BY <2>1, <2>2, Zenon
  <1>13. ASSUME NEW s \in Sector, \A p \in written : new[p] # s
         PROVE  \/ r.fs.at[s] = Zeros /\ (s \in taken \/ s = 0)
                \/ r.fs.at[s] = f.at[s] /\ s \notin taken
    BY <1>3, <1>6, <1>13
  <1>14. r.fs.map = f.map \cup taken
    BY <1>3
  <1>15. /\ r = [ok |-> r.ok, fs |-> r.fs, ptr |-> r.ptr]
         /\ r.fs = [map |-> r.fs.map, at |-> r.fs.at]
         /\ r.ok = (unserved = {} /\ n <= MaxSectors)
    <2>1. PICK b, u : b = (unserved = {} /\ n <= MaxSectors) /\ u = [map |-> f.map \cup taken, at |-> at]
      OBVIOUS
    <2>2. r = [ok |-> b, fs |-> u, ptr |-> ptrs]
      BY <1>2, <2>1, Zenon
    <2>3. r.fs = u /\ r.ptr = ptrs /\ r.ok = b
      BY ONLY <2>2
    <2>4. u = [map |-> u.map, at |-> u.at]
      BY <2>1
    <2> QED
      BY <2>1, <2>2, <2>3, <2>4
  <1> QED
    BY <1>10, <1>11, <1>12, <1>13, <1>14, <1>15 DEF Fields

LEMMA AppendForms ==
    ASSUME NEW i, NEW c, NEW a
    PROVE  Append(<<i>>, a) = <<i, a>> /\ Append(<<i, c>>, a) = <<i, c, a>>
  <1>1. <<i, a>> = Append(<<i>>, a)
    OBVIOUS
  <1>2. <<i, c, a>> = Append(<<i, c>>, a)
    OBVIOUS
  <1> QED
    BY <1>1, <1>2

LEMMA ReserveType ==
    ASSUME NEW f \in FileSystems, NEW ptr \in [Pointers -> Sector], NEW n \in Nat,
           NEW r, r = inode_reserve(f, ptr, n)
    PROVE  /\ r.ok \in BOOLEAN /\ r.fs \in FileSystems /\ r.ptr \in [Pointers -> Sector]
           /\ f.map \subseteq r.fs.map
           /\ KeepsInodes(f, r)
  <1>1. PICK lacking : lacking = Lacking(f, ptr, n)
    OBVIOUS
  <1>2. PICK given : given = Given(f.map, lacking)
    OBVIOUS
  <1>3. PICK unserved : unserved = lacking \ DOMAIN given
    OBVIOUS
  <1>4. PICK new : new = NewSector(f, ptr, given)
    OBVIOUS
  <1>5. PICK written : written = Written(n, unserved)
    OBVIOUS
  <1>6. PICK taken : taken = {given[p] : p \in DOMAIN given}
    OBVIOUS
  <1>7. Fields(f, ptr, n, r, given, unserved, new, written, taken)
    BY <1>1, <1>2, <1>3, <1>4, <1>5, <1>6, ReservedFields
  <1>8. f.map \in SUBSET Bits /\ f.at \in [Sector -> Contents]
    BY DEF FileSystems
  <1>9. lacking \in SUBSET Paths(MaxSectors)
    BY <1>1, PathsMost DEF Lacking
  <1>10. /\ DOMAIN given \subseteq lacking
         /\ \A p \in DOMAIN given : given[p] \in Bits \ f.map
    <2>1. PICK map \in SUBSET Bits : map = f.map
      BY <1>8
    <2>2. given = Given(map, lacking)
      BY <1>2, <2>1
    <2>3. FreeSectors(map, lacking, given)
      BY <1>9, <2>2, GivenSectors
    <2> QED
      BY <2>1, <2>3 DEF FreeSectors
  <1>11. \A p \in AllPaths : SectorAt(f.at, ptr, p) \in Sector
    BY <1>8, SectorAtType
  <1>12. ASSUME NEW p \in written, NEW a \in Entries
         PROVE  Append(p, a) \in AllPaths
    <2>1. p \in AllPaths /\ IsBlock(p)
      BY <1>5, PathsClosed DEF Written
    <2>2. CASE \E i \in Pointers : p = <<i>>
      <3>1. PICK i \in Pointers : p = <<i>>
        BY <2>2
      <3>2. i \in {DIRECT_BLOCKS_COUNT, DIRECT_BLOCKS_COUNT + 1}
        BY <2>1, <3>1 DEF IsBlock
      <3>3. Append(p, a) = <<i, a>>
        BY <3>1, AppendForms
      <3> QED
        BY <3>2, <3>3 DEF AllPaths, Pairs
    <2>3. CASE \E i \in {DIRECT_BLOCKS_COUNT, DIRECT_BLOCKS_COUNT + 1}, c \in Entries : p = <<i, c>>
      <3>1. PICK i \in {DIRECT_BLOCKS_COUNT, DIRECT_BLOCKS_COUNT + 1}, c \in Entries : p = <<i, c>>
        BY <2>3
      <3>2. i = DIRECT_BLOCKS_COUNT + 1
        BY <2>1, <3>1 DEF IsBlock
      <3>3. Append(p, a) = <<i, c, a>>
        BY <3>1, AppendForms
      <3> QED
        BY <3>2, <3>3 DEF AllPaths, Triples
    <2>4. CASE \E c \in Entries, b \in Entries : p = <<DIRECT_BLOCKS_COUNT + 1, c, b>>
      <3>1. PICK c \in Entries, b \in Entries : p = <<DIRECT_BLOCKS_COUNT + 1, c, b>>
        BY <2>4
      <3>2. Len(p) = 3 /\ p[1] = DIRECT_BLOCKS_COUNT + 1
        BY <3>1
      <3>3. p # <<DIRECT_BLOCKS_COUNT>>
        BY <3>2
      <3> QED
        BY <2>1, <3>2, <3>3 DEF IsBlock
    <2> QED
      BY <2>1, <2>2, <2>3, <2>4, PathCases
  <1>13. ASSUME NEW s \in Sector
         PROVE  /\ r.fs.at[s] \in Contents
                /\ r.fs.at[s].kind = "inode" => r.fs.at[s] = f.at[s]
    <2>1. CASE \E p \in written : new[p] = s
      <3>1. PICK p \in written : r.fs.at[s] = Block(NewBlock(f, ptr, given, p))
        BY <1>7, <2>1 DEF Fields
      <3>2. PICK b : b = NewBlock(f, ptr, given, p)
        OBVIOUS
      <3>3. b \in [Entries -> Sector]
        BY <1>10, <1>11, <1>12, <3>2, ZeroSector DEF NewBlock
      <3>4. r.fs.at[s] = Block(b)
        BY <3>1, <3>2
      <3> QED
        BY <3>3, <3>4 DEF Contents, Block
    <2>2. CASE \A p \in written : new[p] # s
      <3>1. r.fs.at[s] \in {Zeros, f.at[s]}
        BY <1>7, <2>2 DEF Fields
      <3>2. Zeros \in Contents /\ Zeros.kind # "inode"
        BY DEF Contents, Zeros
      <3> QED
        BY <1>8, <3>1, <3>2
    <2> QED
      BY <2>1, <2>2
  <1>14. r.fs.at \in [Sector -> Contents]
    BY <1>7, <1>13 DEF Fields
  <1>15. r.fs.map \in SUBSET Bits
    BY <1>6, <1>7, <1>8, <1>10 DEF Fields
  <1>16. r.fs \in FileSystems
    <2>1. r.fs = [map |-> r.fs.map, at |-> r.fs.at]
      BY <1>7 DEF Fields
    <2> QED
      BY <1>14, <1>15, <2>1 DEF FileSystems
  <1>17. r.ok \in BOOLEAN
    BY <1>7 DEF Fields
  <1>18. r.ptr \in [Pointers -> Sector]
    BY <1>7, <1>10, ZeroSector DEF Fields
  <1>19. KeepsInodes(f, r)
    BY <1>13 DEF KeepsInodes
  <1>20. f.map \subseteq r.fs.map
    BY <1>7 DEF Fields
  <1> QED
    BY <1>16, <1>17, <1>18, <1>19, <1>20

LEMMA ReserveRecord ==
    ASSUME NEW f, NEW ptr, NEW n \in Nat, NEW r, r = inode_reserve(f, ptr, n)
    PROVE  r = [ok |-> r.ok, fs |-> r.fs, ptr |-> r.ptr]
  <1>1. PICK lacking : lacking = Lacking(f, ptr, n)
    OBVIOUS
  <1>2. PICK given : given = Given(f.map, lacking)
    OBVIOUS
  <1>3. PICK unserved : unserved = lacking \ DOMAIN given
    OBVIOUS
  <1>4. PICK new : new = NewSector(f, ptr, given)
    OBVIOUS
  <1>5. PICK written : written = Written(n, unserved)
    OBVIOUS
  <1>6. PICK taken : taken = {given[p] : p \in DOMAIN given}
    OBVIOUS
  <1>7. Fields(f, ptr, n, r, given, unserved, new, written, taken)
    BY <1>1, <1>2, <1>3, <1>4, <1>5, <1>6, ReservedFields
  <1> QED
    BY <1>7 DEF Fields

LEMMA OwnPrefix ==
    ASSUME NEW p \in AllPaths
    PROVE  IsPrefix(p, p)
  <1>1. Len(p) \in Nat
    BY PathShape
  <1> QED
    BY <1>1 DEF IsPrefix

LEMMA ReserveExtends ==
    ASSUME NEW f \in FileSystems, NEW ptr \in [Pointers -> Sector], NEW n \in Nat,
           NEW r, r = inode_reserve(f, ptr, n), 0 \in f.map, Tree(f, ptr)
    PROVE  Extends(f, ptr, r, n)
  <1> DEFINE Old(p) == SectorAt(f.at, ptr, p)
             N(p) == SectorAt(r.fs.at, r.ptr, p)
  <1>1. PICK lacking : lacking = Lacking(f, ptr, n)
    OBVIOUS
  <1>2. PICK given : given = Given(f.map, lacking)
    OBVIOUS
  <1>3. PICK unserved : unserved = lacking \ DOMAIN given
    OBVIOUS
  <1>4. PICK new : new = NewSector(f, ptr, given)
    OBVIOUS
  <1>5. PICK written : written = Written(n, unserved)
    OBVIOUS
  <1>6. PICK taken : taken = {given[p] : p \in DOMAIN given}
    OBVIOUS
  <1>7. Fields(f, ptr, n, r, given, unserved, new, written, taken)
    BY <1>1, <1>2, <1>3, <1>4, <1>5, <1>6, ReservedFields
  <1>8. f.map \in SUBSET Bits /\ f.at \in [Sector -> Contents]
    BY DEF FileSystems
  <1>9. lacking \in SUBSET Paths(MaxSectors)
    BY <1>1, PathsMost DEF Lacking
  <1>10. /\ DOMAIN given \subseteq lacking
         /\ \A p \in DOMAIN given : given[p] \in Bits \ f.map
         /\ \A p, q \in DOMAIN given : given[p] = given[q] => p = q
    <2>1. PICK map \in SUBSET Bits : map = f.map
      BY <1>8
    <2>2. given = Given(map, lacking)
      BY <1>2, <2>1
    <2>3. FreeSectors(map, lacking, given)
      BY <1>9, <2>2, GivenSectors
    <2> QED
      BY <2>1, <2>3 DEF FreeSectors
  <1>11. \A p \in AllPaths : Old(p) \in Sector
    BY <1>8, SectorAtType
  <1>12. /\ r.ok \in BOOLEAN /\ r.fs \in FileSystems /\ r.ptr \in [Pointers -> Sector]
         /\ f.map \subseteq r.fs.map
    BY ReserveType
  <1>13. r.fs.at \in [Sector -> Contents]
    BY <1>12 DEF FileSystems
  \* The sectors of the paths.
  <1>14. \A p \in AllPaths : Old(p) # 0 => Old(p) \in f.map
    BY DEF Tree
  <1>15. \A p, q \in AllPaths : Old(p) # 0 /\ Old(p) = Old(q) => p = q
    BY DEF Tree
  <1>16. \A p \in DOMAIN given : p \in Paths(n) /\ p \in AllPaths /\ Old(p) = 0
    BY <1>1, <1>10, PathsClosed DEF Lacking
  <1>17. \A p \in AllPaths : new[p] = IF p \in DOMAIN given THEN given[p] ELSE Old(p)
    BY <1>4 DEF NewSector
  <1> HIDE DEF Old
  <1>18. \A p \in DOMAIN given : new[p] = given[p] /\ new[p] \in Bits \ f.map /\ new[p] # 0
    BY <1>10, <1>16, <1>17
  <1>19. \A p \in AllPaths \ DOMAIN given : new[p] = Old(p)
    BY <1>17
  <1>20. \A p, q \in AllPaths : new[p] # 0 /\ new[p] = new[q] => p = q
    <2> SUFFICES ASSUME NEW p \in AllPaths, NEW q \in AllPaths, new[p] # 0, new[p] = new[q]
                 PROVE  p = q
      OBVIOUS
    <2>1. CASE p \in DOMAIN given /\ q \in DOMAIN given
      BY <1>10, <1>18, <2>1
    <2>2. CASE p \in DOMAIN given /\ q \notin DOMAIN given
      BY <1>14, <1>18, <1>19, <2>2
    <2>3. CASE p \notin DOMAIN given /\ q \in DOMAIN given
      BY <1>14, <1>18, <1>19, <2>3
    <2>4. CASE p \notin DOMAIN given /\ q \notin DOMAIN given
      BY <1>15, <1>19, <2>4
    <2> QED
      BY <2>1, <2>2, <2>3, <2>4
  <1>21. \A p \in written : p \in AllPaths /\ p \in Paths(n) /\ p \notin unserved /\ new[p] # 0
    <2> SUFFICES ASSUME NEW p \in written
                 PROVE  p \in AllPaths /\ p \in Paths(n) /\ p \notin unserved /\ new[p] # 0
      OBVIOUS
    <2>1. p \in Paths(n) /\ p \in AllPaths /\ \A q \in unserved : ~IsPrefix(p, q)
      BY <1>5, PathsClosed DEF Written
    <2>2. p \notin unserved
      BY <2>1, OwnPrefix
    <2>3. CASE p \in DOMAIN given
      BY <1>18, <2>1, <2>2, <2>3
    <2>4. CASE p \notin DOMAIN given
      <3>1. p \notin lacking
        BY <1>3, <2>2, <2>4
      <3>2. Old(p) # 0
        BY <1>1, <2>1, <3>1 DEF Lacking, Old
      <3> QED
        BY <1>19, <2>1, <2>2, <2>4, <3>2
    <2> QED
      BY <2>3, <2>4
  <1>22. taken \cap f.map = {} /\ taken \subseteq Bits
    BY <1>6, <1>10
  \* The sectors' contents.
  <1>23. \A p \in written : r.fs.at[new[p]] = Block(NewBlock(f, ptr, given, p))
    <2> SUFFICES ASSUME NEW p \in written
                 PROVE  r.fs.at[new[p]] = Block(NewBlock(f, ptr, given, p))
      OBVIOUS
    <2>1. new[p] \in Sector
      BY <1>11, <1>18, <1>19, <1>21, ZeroSector
    <2>2. PICK q \in written : new[q] = new[p] /\ r.fs.at[new[p]] = Block(NewBlock(f, ptr, given, q))
      BY <1>7, <2>1 DEF Fields
    <2>3. q = p
      BY <1>20, <1>21, <2>2
    <2> QED
      BY <2>2, <2>3
  <1>24. ASSUME NEW p \in AllPaths, p \notin written, new[p] # 0
         PROVE  \A q \in written : new[q] # new[p]
    BY <1>20, <1>21, <1>24
  <1>25. ASSUME NEW x \in Sector, \A q \in written : new[q] # x
         PROVE  \/ r.fs.at[x] = Zeros /\ (x \in taken \/ x = 0)
                \/ r.fs.at[x] = f.at[x] /\ x \notin taken
    BY <1>7, <1>25 DEF Fields
  <1>26. ASSUME NEW p \in DOMAIN given, p \notin written
         PROVE  r.fs.at[new[p]] = Zeros
    <2>1. new[p] \in Sector /\ new[p] \in taken
      BY <1>6, <1>18, ZeroSector
    <2> QED
      BY <1>16, <1>18, <1>24, <1>25, <1>26, <2>1
  <1>27. ASSUME NEW p \in AllPaths, p \notin DOMAIN given, p \notin written, Old(p) # 0
         PROVE  r.fs.at[Old(p)] = f.at[Old(p)]
    <2>1. Old(p) \in f.map /\ Old(p) \in Sector /\ new[p] = Old(p)
      BY <1>11, <1>14, <1>19, <1>27
    <2>2. \A q \in written : new[q] # Old(p)
      BY <1>24, <1>27, <2>1
    <2> QED
      BY <1>22, <1>25, <1>27, <2>1, <2>2
  <1>28. ASSUME NEW x \in f.map, x # 0, \A p \in AllPaths : Old(p) # x
         PROVE  r.fs.at[x] = f.at[x]
    <2>1. x \in Sector
      BY <1>8, ZeroSector
    <2>2. ASSUME NEW q \in written PROVE new[q] # x
      <3>1. q \in AllPaths
        BY <1>21
      <3>2. CASE q \in DOMAIN given
        BY <1>18, <3>2
      <3>3. CASE q \notin DOMAIN given
        BY <1>19, <1>28, <3>1, <3>3
      <3> QED
        BY <3>2, <3>3
    <2> QED
      BY <1>22, <1>25, <1>28, <2>1, <2>2
  \* The tree, level by level.
  <1> DEFINE S == {q \in AllPaths : (N(q) = new[q] \/ N(q) = 0) /\ (Old(q) # 0 => N(q) = Old(q))}
  <1>30. ASSUME NEW i \in Pointers PROVE <<i>> \in AllPaths /\ N(<<i>>) = new[<<i>>]
    <2>1. <<i>> \in AllPaths /\ Old(<<i>>) = ptr[i] /\ N(<<i>>) = r.ptr[i]
      BY SinglePath, SingleSector DEF Old
    <2>2. r.ptr[i] = IF <<i>> \in DOMAIN given THEN given[<<i>>] ELSE ptr[i]
      BY <1>7 DEF Fields
    <2> QED
      BY <1>18, <1>19, <2>1, <2>2
  <1>31. \A i \in Pointers : <<i>> \in S
    BY <1>16, <1>19, <1>30
  <1>32. ASSUME NEW p \in AllPaths, NEW q \in AllPaths, NEW a \in Entries, Child(p, a, q)
         PROVE  /\ N(q) = BlocksAt(r.fs.at, N(p))[a] /\ Old(q) = BlocksAt(f.at, Old(p))[a]
                /\ Old(p) = 0 => Old(q) = 0
    <2>1. N(q) = BlocksAt(r.fs.at, N(p))[a] /\ Old(q) = BlocksAt(f.at, Old(p))[a]
      BY <1>32, ChildSector DEF Old
    <2>2. Old(p) = 0 => Old(q) = 0
      BY <1>8, <2>1, BlockContents, ZeroSector
    <2> QED
      BY <2>1, <2>2
  <1>33. ASSUME NEW p \in AllPaths, NEW q \in AllPaths, NEW a \in Entries, Child(p, a, q),
                p \in written, N(p) = new[p]
         PROVE  N(q) = new[q]
    <2>1. PICK b : b = NewBlock(f, ptr, given, p)
      OBVIOUS
    <2>2. N(p) # 0 /\ N(p) \in Sector /\ r.fs.at[N(p)] = Block(b)
      BY <1>11, <1>18, <1>19, <1>21, <1>23, <1>33, <2>1, ZeroSector
    <2>3. N(q) = b[a]
      BY <1>13, <1>32, <1>33, <2>2, BlockContents
    <2>4. q = Append(p, a)
      BY <1>33 DEF Child
    <2>5. b[a] = IF q \in DOMAIN given THEN given[q] ELSE IF p \in DOMAIN given THEN 0 ELSE Old(q)
      BY <2>1, <2>4 DEF NewBlock, Old
    <2>6. p \in DOMAIN given => Old(q) = 0
      BY <1>16, <1>32, <1>33
    <2> QED
      BY <1>18, <1>19, <2>3, <2>5, <2>6
  <1>34. ASSUME NEW p \in AllPaths, NEW q \in AllPaths, NEW a \in Entries, Child(p, a, q), p \in S
         PROVE  q \in S
    <2>1. CASE N(p) = 0
      <3>1. Old(p) = 0
        BY <1>34, <2>1
      <3>2. N(q) = 0
        BY <1>13, <1>32, <1>34, <2>1, BlockContents, ZeroSector
      <3> QED
        BY <1>32, <1>34, <3>1, <3>2
    <2>2. CASE N(p) # 0 /\ p \in written
      <3>1. N(p) = new[p]
        BY <1>34, <2>2
      <3>2. N(q) = new[q]
        BY <1>33, <1>34, <2>2, <3>1
      <3>3. Old(q) # 0 => new[q] = Old(q)
        BY <1>16, <1>19
      <3> QED
        BY <3>2, <3>3
    <2>3. CASE N(p) # 0 /\ p \notin written /\ p \in DOMAIN given
      <3>1. N(p) = new[p] /\ Old(p) = 0 /\ N(p) \in Sector
        BY <1>16, <1>18, <1>34, <2>3, ZeroSector
      <3>2. r.fs.at[N(p)] = Zeros
        BY <1>26, <2>3, <3>1
      <3>3. N(q) = 0
        BY <1>13, <1>32, <1>34, <3>1, <3>2, BlockContents
      <3> QED
        BY <1>32, <1>34, <3>1, <3>3
    <2>4. CASE N(p) # 0 /\ p \notin written /\ p \notin DOMAIN given
      <3>1. N(p) = Old(p)
        BY <1>19, <1>34, <2>4
      <3>2. r.fs.at[N(p)] = f.at[N(p)]
        BY <1>27, <2>4, <3>1
      <3>3. BlocksAt(r.fs.at, N(p)) = BlocksAt(f.at, Old(p))
        BY <3>1, <3>2 DEF BlocksAt
      <3>4. N(q) = Old(q)
        BY <1>32, <1>34, <3>3
      <3>5. Old(q) # 0 => new[q] = Old(q)
        BY <1>16, <1>19
      <3> QED
        BY <3>4, <3>5
    <2> QED
      BY <2>1, <2>2, <2>3, <2>4
  <1>35. \A p \in AllPaths : (N(p) = new[p] \/ N(p) = 0) /\ (Old(p) # 0 => N(p) = Old(p))
    <2> HIDE DEF S
    <2>1. \A p \in AllPaths : p \in S
      BY <1>31, <1>34, PathInduction
    <2> QED
      BY <2>1 DEF S
  <1>36. \A p \in AllPaths : Old(p) # 0 => N(p) = Old(p)
    BY <1>35
  <1>37. ASSUME NEW p \in AllPaths, N(p) # 0, Old(p) = 0
         PROVE  N(p) \in r.fs.map \ f.map
    <2>1. N(p) = new[p] /\ p \in DOMAIN given
      BY <1>19, <1>35, <1>37
    <2>2. N(p) \in taken
      BY <1>6, <1>18, <2>1
    <2> QED
      BY <1>7, <1>22, <2>2 DEF Fields
  <1>38. \A p, q \in AllPaths : N(p) # 0 /\ N(p) = N(q) => p = q
    BY <1>20, <1>35
  <1>39. ASSUME r.ok
         PROVE  /\ n <= MaxSectors
                /\ \A p \in Paths(n) : N(p) # 0
                /\ \A x \in r.fs.map \ f.map : \E p \in Paths(n) : x = N(p)
    <2>1. unserved = {} /\ n <= MaxSectors
      BY <1>7, <1>39 DEF Fields
    <2>2. \A p \in Paths(n) : new[p] # 0
      <3> SUFFICES ASSUME NEW p \in Paths(n) PROVE new[p] # 0
        OBVIOUS
      <3>1. p \in AllPaths
        BY PathsClosed
      <3>2. CASE p \in DOMAIN given
        BY <1>18, <3>2
      <3>3. CASE p \notin DOMAIN given
        <4>1. p \notin lacking
          BY <1>3, <2>1, <3>3
        <4>2. Old(p) # 0
          BY <1>1, <4>1 DEF Lacking, Old
        <4> QED
          BY <1>19, <3>1, <3>3, <4>2
      <3> QED
        BY <3>2, <3>3
    <2>3. \A p \in Paths(n) : IsBlock(p) => p \in written
      BY <1>5, <2>1 DEF Written
    <2> DEFINE U == {q \in AllPaths : q \in Paths(n) => N(q) = new[q]}
    <2>4. \A i \in Pointers : <<i>> \in U
      BY <1>30
    <2>5. ASSUME NEW p \in AllPaths, NEW q \in AllPaths, NEW a \in Entries, Child(p, a, q), p \in U
          PROVE  q \in U
      <3> SUFFICES ASSUME q \in Paths(n) PROVE N(q) = new[q]
        OBVIOUS
      <3>1. p \in Paths(n)
        BY <2>5, ParentInPaths
      <3>2. p \in written
        BY <2>3, <2>5, <3>1 DEF Child
      <3> QED
        BY <1>33, <2>5, <3>1, <3>2
    <2>6. \A p \in AllPaths : p \in Paths(n) => N(p) = new[p]
      <3> HIDE DEF U
      <3>1. \A p \in AllPaths : p \in U
        BY <2>4, <2>5, PathInduction
      <3> QED
        BY <3>1 DEF U
    <2>7. \A p \in Paths(n) : p \in AllPaths
      BY PathsClosed
    <2>8. \A p \in Paths(n) : N(p) # 0
      BY <2>2, <2>6, <2>7
    <2>9. ASSUME NEW x \in r.fs.map \ f.map PROVE \E p \in Paths(n) : x = N(p)
      <3>1. x \in taken
        BY <1>7 DEF Fields
      <3>2. PICK p \in DOMAIN given : x = given[p]
        BY <1>6, <3>1
      <3> QED
        BY <1>16, <1>18, <2>6, <3>2
    <2> QED
      BY <2>1, <2>8, <2>9
  <1> HIDE DEF N
  <1> QED
    BY <1>12, <1>28, <1>36, <1>37, <1>38, <1>39 DEF Extends, Old, N

--------------------------------------------------------------------------------
(***************************************************************************)
(* The trees of several inodes.                                            *)
(***************************************************************************)

\* The trees with these pointers have no sector in common, neither with each other
\* nor with the inodes, and their sectors are marked.
Apart(f, I, P) ==
    /\ \A s \in I, p \in AllPaths :
          SectorAt(f.at, P[s], p) # 0 => SectorAt(f.at, P[s], p) \in f.map \ I
    /\ \A s, t \in I : \A p, q \in AllPaths :
          SectorAt(f.at, P[s], p) # 0 /\ SectorAt(f.at, P[s], p) = SectorAt(f.at, P[t], q)
             => s = t /\ p = q

Forest(f, I, P) ==
    /\ f \in FileSystems /\ I \subseteq f.map /\ 0 \in I
    /\ P \in [I -> [Pointers -> Sector]]
    /\ Apart(f, I, P)

LEMMA FileSystemFields ==
    ASSUME NEW f \in FileSystems
    PROVE  /\ f.map \in SUBSET Bits /\ f.at \in [Sector -> Contents]
           /\ f = [map |-> f.map, at |-> f.at]
           /\ f.map \subseteq Sector
  BY ZeroSector DEF FileSystems

LEMMA ForestTree ==
    ASSUME NEW f, NEW I, NEW P, Forest(f, I, P), NEW s \in I
    PROVE  Tree(f, P[s]) /\ P[s] \in [Pointers -> Sector] /\ 0 \in f.map
  <1>1. /\ \A p \in AllPaths : SectorAt(f.at, P[s], p) # 0 => SectorAt(f.at, P[s], p) \in f.map
        /\ \A p, q \in AllPaths :
              SectorAt(f.at, P[s], p) # 0 /\ SectorAt(f.at, P[s], p) = SectorAt(f.at, P[s], q)
                 => p = q
    BY DEF Forest, Apart
  <1> QED
    BY <1>1 DEF Forest, Tree

\* inode_reserve for one of the inodes leaves the other trees and the inodes alone,
\* except the one at sector 0.
ReservedApart(f, I, P, s, r, n) ==
    /\ Extends(f, P[s], r, n)
    /\ Forest(r.fs, I, [P EXCEPT ![s] = r.ptr])
    /\ \A t \in I \ {s}, p \in AllPaths : SectorAt(r.fs.at, P[t], p) = SectorAt(f.at, P[t], p)
    /\ \A x \in I \ {0} : r.fs.at[x] = f.at[x]

LEMMA ForestReserve ==
    ASSUME NEW f, NEW I, NEW P, Forest(f, I, P), NEW s \in I, NEW n \in Nat,
           NEW r, r = inode_reserve(f, P[s], n)
    PROVE  ReservedApart(f, I, P, s, r, n)
  <1> DEFINE Old(t, p) == SectorAt(f.at, P[t], p)
             N(p) == SectorAt(r.fs.at, r.ptr, p)
             Q == [P EXCEPT ![s] = r.ptr]
  <1>1. f \in FileSystems /\ I \subseteq f.map /\ 0 \in I /\ P \in [I -> [Pointers -> Sector]]
    BY DEF Forest
  <1>2. PICK ptr : ptr = P[s]
    OBVIOUS
  <1>3. Extends(f, ptr, r, n)
    <2>1. Tree(f, ptr) /\ ptr \in [Pointers -> Sector] /\ 0 \in f.map
      BY <1>2, ForestTree
    <2> QED
      BY <1>1, <1>2, <2>1, ReserveExtends
  <1>4. /\ r.ok \in BOOLEAN /\ r.fs \in FileSystems /\ r.ptr \in [Pointers -> Sector]
        /\ f.map \subseteq r.fs.map
        /\ \A p \in AllPaths : Old(s, p) # 0 => N(p) = Old(s, p)
        /\ \A p \in AllPaths : N(p) # 0 /\ Old(s, p) = 0 => N(p) \in r.fs.map \ f.map
        /\ \A p, q \in AllPaths : N(p) # 0 /\ N(p) = N(q) => p = q
        /\ \A x \in f.map : x # 0 /\ (\A p \in AllPaths : Old(s, p) # x) => r.fs.at[x] = f.at[x]
    BY <1>2, <1>3 DEF Extends
  <1>5. /\ \A t \in I, p \in AllPaths : Old(t, p) # 0 => Old(t, p) \in f.map \ I
        /\ \A t, u \in I : \A p, q \in AllPaths :
              Old(t, p) # 0 /\ Old(t, p) = Old(u, q) => t = u /\ p = q
    BY DEF Forest, Apart
  <1>6. ASSUME NEW x \in I \ {0} PROVE r.fs.at[x] = f.at[x]
    <2>1. x \in f.map /\ \A p \in AllPaths : Old(s, p) # x
      BY <1>1, <1>5
    <2> QED
      BY <1>4, <2>1
  <1>7. ASSUME NEW t \in I \ {s}
        PROVE  \A p \in AllPaths : SectorAt(r.fs.at, P[t], p) = Old(t, p)
    <2>1. ASSUME NEW p \in AllPaths, Old(t, p) # 0
          PROVE  r.fs.at[Old(t, p)] = f.at[Old(t, p)]
      <3>1. Old(t, p) \in f.map /\ \A q \in AllPaths : Old(s, q) # Old(t, p)
        BY <1>5, <2>1
      <3> QED
        BY <1>4, <2>1, <3>1
    <2>2. f.at \in [Sector -> Contents] /\ r.fs.at \in [Sector -> Contents]
      BY <1>1, <1>4, FileSystemFields
    <2>3. P[t] \in [Pointers -> Sector]
      BY <1>1
    <2> QED
      BY <2>1, <2>2, <2>3, SameTree
  <1>8. Q \in [I -> [Pointers -> Sector]] /\ Q[s] = r.ptr /\ \A t \in I \ {s} : Q[t] = P[t]
    BY <1>1, <1>4
  <1> DEFINE T(u, p) == SectorAt(r.fs.at, Q[u], p)
  <1>9. /\ \A p \in AllPaths : T(s, p) = N(p)
        /\ \A t \in I \ {s}, p \in AllPaths : T(t, p) = Old(t, p)
    BY <1>7, <1>8
  <1> HIDE DEF Old, N, T
  <1>10. ASSUME NEW u \in I, NEW p \in AllPaths, T(u, p) # 0
         PROVE  T(u, p) \in r.fs.map \ I
    <2>1. CASE u = s /\ Old(s, p) # 0
      BY <1>4, <1>5, <1>9, <1>10, <2>1
    <2>2. CASE u = s /\ Old(s, p) = 0
      BY <1>1, <1>4, <1>9, <1>10, <2>2
    <2>3. CASE u # s
      BY <1>4, <1>5, <1>9, <1>10, <2>3
    <2> QED
      BY <2>1, <2>2, <2>3
  <1>11. ASSUME NEW u \in I \ {s}, NEW p \in AllPaths, NEW q \in AllPaths,
                N(p) # 0, N(p) = Old(u, q)
         PROVE  FALSE
    <2>1. Old(u, q) \in f.map
      BY <1>5, <1>11
    <2>2. Old(s, p) # 0
      BY <1>4, <1>11, <2>1
    <2>3. Old(s, p) = Old(u, q)
      BY <1>4, <1>11, <2>2
    <2> QED
      BY <1>5, <1>11, <2>2, <2>3
  <1>12. ASSUME NEW u \in I, NEW v \in I, NEW p \in AllPaths, NEW q \in AllPaths,
                T(u, p) # 0, T(u, p) = T(v, q)
         PROVE  u = v /\ p = q
    <2>1. CASE u = s /\ v = s
      BY <1>4, <1>9, <1>12, <2>1
    <2>2. CASE u = s /\ v # s
      BY <1>9, <1>11, <1>12, <2>2
    <2>3. CASE u # s /\ v = s
      BY <1>9, <1>11, <1>12, <2>3
    <2>4. CASE u # s /\ v # s
      BY <1>5, <1>9, <1>12, <2>4
    <2> QED
      BY <2>1, <2>2, <2>3, <2>4
  <1>13. Apart(r.fs, I, Q)
    BY <1>10, <1>12 DEF Apart, T
  <1>14. Forest(r.fs, I, Q)
    <2>1. I \subseteq r.fs.map
      BY <1>1, <1>4
    <2> QED
      BY <1>1, <1>4, <1>8, <1>13, <2>1 DEF Forest
  <1>15. \A t \in I \ {s}, p \in AllPaths : SectorAt(r.fs.at, P[t], p) = SectorAt(f.at, P[t], p)
    BY <1>7 DEF Old
  <1> QED
    BY <1>2, <1>3, <1>6, <1>14, <1>15 DEF ReservedApart

\* Writing one of the inodes changes no tree.
Overwrites(f, I, P, s, c, g) ==
    /\ Forest(g, I, P)
    /\ g.map = f.map /\ g.at[s] = c /\ \A x \in Sector \ {s} : g.at[x] = f.at[x]
    /\ \A t \in I, p \in AllPaths : SectorAt(g.at, P[t], p) = SectorAt(f.at, P[t], p)

LEMMA ForestWrite ==
    ASSUME NEW f, NEW I, NEW P, Forest(f, I, P), NEW s \in I, NEW c \in Contents,
           NEW g, g = [f EXCEPT !.at[s] = c]
    PROVE  Overwrites(f, I, P, s, c, g)
  <1>1. f \in FileSystems /\ I \subseteq f.map /\ 0 \in I /\ P \in [I -> [Pointers -> Sector]]
    BY DEF Forest
  <1>2. s \in Sector /\ f.at \in [Sector -> Contents] /\ f.map \in SUBSET Bits
    BY <1>1, FileSystemFields
  <1>3. g = [map |-> f.map, at |-> [f.at EXCEPT ![s] = c]]
    <2>1. PICK m, a : m = f.map /\ a = f.at
      OBVIOUS
    <2>2. f = [map |-> m, at |-> a]
      BY <1>1, <2>1, FileSystemFields
    <2>3. g = [map |-> m, at |-> [a EXCEPT ![s] = c]]
      BY <2>2
    <2> QED
      BY <2>1, <2>3
  <1>4. g.map = f.map /\ g.at = [f.at EXCEPT ![s] = c]
    BY <1>3
  <1>5. g \in FileSystems /\ g.at \in [Sector -> Contents]
    BY <1>2, <1>3, <1>4 DEF FileSystems
  <1>6. g.at[s] = c /\ \A x \in Sector \ {s} : g.at[x] = f.at[x]
    BY <1>2, <1>4
  <1>7. ASSUME NEW t \in I
        PROVE  \A p \in AllPaths : SectorAt(g.at, P[t], p) = SectorAt(f.at, P[t], p)
    <2>1. ASSUME NEW p \in AllPaths, SectorAt(f.at, P[t], p) # 0
          PROVE  g.at[SectorAt(f.at, P[t], p)] = f.at[SectorAt(f.at, P[t], p)]
      <3>1. SectorAt(f.at, P[t], p) \in f.map \ I
        BY <2>1 DEF Forest, Apart
      <3> QED
        BY <1>1, <1>6, <3>1, FileSystemFields
    <2>2. P[t] \in [Pointers -> Sector]
      BY <1>1
    <2> QED
      BY <1>2, <1>5, <2>1, <2>2, SameTree
  <1>8. Apart(f, I, P)
    BY DEF Forest
  <1>9. Apart(g, I, P)
    BY <1>4, <1>7, <1>8 DEF Apart
  <1> QED
    BY <1>1, <1>4, <1>5, <1>6, <1>7, <1>9 DEF Forest, Overwrites

\* Fewer pointers reach fewer sectors.
LEMMA ForestPart ==
    ASSUME NEW f, NEW I, NEW P, Forest(f, I, P), NEW Q \in [I -> [Pointers -> Sector]],
           \A s \in I : PartOf(Q[s], P[s])
    PROVE  /\ Forest(f, I, Q)
           /\ \A s \in I, p \in AllPaths :
                 SectorAt(f.at, Q[s], p) # 0 => SectorAt(f.at, Q[s], p) = SectorAt(f.at, P[s], p)
  <1>1. f \in FileSystems /\ I \subseteq f.map /\ 0 \in I /\ P \in [I -> [Pointers -> Sector]]
    BY DEF Forest
  <1>2. f.at \in [Sector -> Contents]
    BY <1>1, FileSystemFields
  <1>3. ASSUME NEW s \in I, NEW p \in AllPaths
        PROVE  SectorAt(f.at, Q[s], p) # 0 => SectorAt(f.at, Q[s], p) = SectorAt(f.at, P[s], p)
    <2>1. PICK part, ptr : part = Q[s] /\ ptr = P[s]
      OBVIOUS
    <2>2. part \in [Pointers -> Sector] /\ ptr \in [Pointers -> Sector] /\ PartOf(part, ptr)
      BY <1>1, <2>1
    <2> QED
      BY <1>2, <2>1, <2>2, PartSectors
  <1>4. Apart(f, I, P)
    BY DEF Forest
  <1>5. Apart(f, I, Q)
    BY <1>3, <1>4 DEF Apart
  <1> QED
    BY <1>1, <1>3, <1>5 DEF Forest

LEMMA NoTree ==
    ASSUME NEW at \in [Sector -> Contents]
    PROVE  /\ NoPointers \in [Pointers -> Sector]
           /\ \A p \in AllPaths : SectorAt(at, NoPointers, p) = 0
  <1>1. NoPointers \in [Pointers -> Sector] /\ \A i \in Pointers : NoPointers[i] = 0
    BY ZeroSector DEF NoPointers
  <1>2. PartOf(NoPointers, NoPointers)
    BY DEF PartOf
  <1>3. \A p \in AllPaths : p[1] \in Pointers
    BY PathCases, TwoPointers
  <1> QED
    BY <1>1, <1>2, <1>3, PartTree

\* A new inode, at a sector that was free, starts with no tree.
LEMMA ForestNew ==
    ASSUME NEW f, NEW I, NEW P, Forest(f, I, P), NEW s \in Bits \ f.map,
           NEW g, g = [f EXCEPT !.map = @ \cup {s}],
           NEW Q, Q = [t \in I \cup {s} |-> IF t = s THEN NoPointers ELSE P[t]]
    PROVE  Forest(g, I \cup {s}, Q) /\ g.at = f.at /\ g.map = f.map \cup {s}
  <1>1. f \in FileSystems /\ I \subseteq f.map /\ 0 \in I /\ P \in [I -> [Pointers -> Sector]]
    BY DEF Forest
  <1>2. PICK m, a : m = f.map /\ a = f.at
    OBVIOUS
  <1>3. m \in SUBSET Bits /\ a \in [Sector -> Contents] /\ f = [map |-> m, at |-> a]
    BY <1>1, <1>2, FileSystemFields
  <1>4. g = [map |-> m \cup {s}, at |-> a]
    BY <1>3
  <1>5. g \in FileSystems /\ g.map = m \cup {s} /\ g.at = a
    BY <1>2, <1>3, <1>4 DEF FileSystems
  <1>6. Q \in [I \cup {s} -> [Pointers -> Sector]]
    BY <1>1, <1>3, NoTree
  <1>7. /\ \A p \in AllPaths : SectorAt(a, Q[s], p) = 0
        /\ \A t \in I : Q[t] = P[t]
    <2>1. s \notin I
      BY <1>1
    <2>2. Q[s] = NoPointers
      OBVIOUS
    <2> QED
      BY <1>3, <2>1, <2>2, NoTree
  <1>8. /\ \A t \in I, p \in AllPaths : SectorAt(a, P[t], p) # 0 => SectorAt(a, P[t], p) \in m \ I
        /\ \A t, u \in I : \A p, q \in AllPaths :
              SectorAt(a, P[t], p) # 0 /\ SectorAt(a, P[t], p) = SectorAt(a, P[u], q)
                 => t = u /\ p = q
    BY <1>2 DEF Forest, Apart
  <1>9. ASSUME NEW t \in I \cup {s}, NEW p \in AllPaths, SectorAt(a, Q[t], p) # 0
        PROVE  t \in I /\ SectorAt(a, Q[t], p) = SectorAt(a, P[t], p)
    BY <1>7, <1>9
  <1>10. Apart(g, I \cup {s}, Q)
    <2>1. ASSUME NEW t \in I \cup {s}, NEW p \in AllPaths, SectorAt(a, Q[t], p) # 0
          PROVE  SectorAt(a, Q[t], p) \in (m \cup {s}) \ (I \cup {s})
      BY <1>2, <1>8, <1>9, <2>1
    <2>2. ASSUME NEW t \in I \cup {s}, NEW u \in I \cup {s}, NEW p \in AllPaths, NEW q \in AllPaths,
                 SectorAt(a, Q[t], p) # 0, SectorAt(a, Q[t], p) = SectorAt(a, Q[u], q)
          PROVE  t = u /\ p = q
      BY <1>8, <1>9, <2>2
    <2> QED
      BY ONLY <1>5, <2>1, <2>2 DEF Apart
  <1>11. I \cup {s} \subseteq g.map /\ 0 \in I \cup {s}
    BY <1>1, <1>2, <1>5
  <1> QED
    BY <1>2, <1>5, <1>6, <1>10, <1>11 DEF Forest

\* Sectors that no other tree reaches can be given back.
LEMMA ForestDrop ==
    ASSUME NEW f, NEW I, NEW P, Forest(f, I, P), NEW J \in SUBSET I, 0 \in J,
           NEW X, J \cap X = {},
           \A t \in J, p \in AllPaths : SectorAt(f.at, P[t], p) # 0 => SectorAt(f.at, P[t], p) \notin X,
           NEW g, g = free_map_release(f, X),
           NEW Q, Q = [t \in J |-> P[t]]
    PROVE  Forest(g, J, Q) /\ g.at = f.at /\ g.map = f.map \ X
  <1>1. f \in FileSystems /\ I \subseteq f.map /\ P \in [I -> [Pointers -> Sector]]
    BY DEF Forest
  <1>2. PICK m, a : m = f.map /\ a = f.at
    OBVIOUS
  <1>3. m \in SUBSET Bits /\ a \in [Sector -> Contents] /\ f = [map |-> m, at |-> a]
    BY <1>1, <1>2, FileSystemFields
  <1>4. g = [map |-> m \ X, at |-> a]
    BY <1>3 DEF free_map_release
  <1>5. g \in FileSystems /\ g.map = m \ X /\ g.at = a
    BY <1>2, <1>3, <1>4 DEF FileSystems
  <1>6. Q \in [J -> [Pointers -> Sector]] /\ \A t \in J : Q[t] = P[t]
    BY <1>1
  <1>7. /\ \A t \in I, p \in AllPaths : SectorAt(a, P[t], p) # 0 => SectorAt(a, P[t], p) \in m \ I
        /\ \A t, u \in I : \A p, q \in AllPaths :
              SectorAt(a, P[t], p) # 0 /\ SectorAt(a, P[t], p) = SectorAt(a, P[u], q)
                 => t = u /\ p = q
    BY <1>2 DEF Forest, Apart
  <1>8. Apart(g, J, Q)
    <2>1. ASSUME NEW t \in J, NEW p \in AllPaths, SectorAt(a, Q[t], p) # 0
          PROVE  SectorAt(a, Q[t], p) \in (m \ X) \ J
      BY <1>2, <1>6, <1>7, <2>1
    <2>2. ASSUME NEW t \in J, NEW u \in J, NEW p \in AllPaths, NEW q \in AllPaths,
                 SectorAt(a, Q[t], p) # 0, SectorAt(a, Q[t], p) = SectorAt(a, Q[u], q)
          PROVE  t = u /\ p = q
      BY <1>6, <1>7, <2>2
    <2> QED
      BY <1>5, <2>1, <2>2 DEF Apart
  <1>9. J \subseteq g.map
    BY <1>1, <1>2, <1>5
  <1> QED
    BY <1>2, <1>5, <1>6, <1>8, <1>9 DEF Forest

--------------------------------------------------------------------------------
(***************************************************************************)
(* Inodes that hold their files.                                           *)
(***************************************************************************)

LEMMA SectorsForBytes ==
    ASSUME NEW a \in Nat, NEW b \in Nat, a <= b
    PROVE  /\ bytes_to_sectors(a) \in Nat /\ bytes_to_sectors(b) \in Nat
           /\ bytes_to_sectors(a) <= bytes_to_sectors(b)
  <1>1. PICK B \in Nat \ {0} : B = BLOCK_SECTOR_SIZE
    BY Counts
  <1>2. PICK x \in Nat, y \in Nat : x = a + B - 1 /\ y = b + B - 1
    OBVIOUS
  <1>3. PICK q \in Nat, r \in Nat : q = x \div B /\ r = y \div B
    BY DivMod
  <1>4. /\ B * q <= x /\ x < B * q + B
        /\ B * r <= y /\ y < B * r + B
    BY <1>3, DivMod
  <1>5. x <= y
    BY <1>2
  <1>6. q <= r
    <2>1. SUFFICES ASSUME r + 1 <= q PROVE FALSE
      OBVIOUS
    <2>2. B * (r + 1) <= B * q
      BY <2>1
    <2>3. B * (r + 1) = B * r + B
      OBVIOUS
    <2> QED
      BY <1>4, <1>5, <2>2, <2>3
  <1>7. bytes_to_sectors(a) = q /\ bytes_to_sectors(b) = r
    BY <1>1, <1>2, <1>3 DEF bytes_to_sectors
  <1> QED
    BY <1>6, <1>7

\* The sectors of an inode, which Owned is for those on disk now.
OwnedBy(f, s) == {s} \cup SectorsOf(f.at, f.at[s].ptr, f.at[s].length)

\* An inode is on disk, and with it all sectors of its file.
Held(f, s) ==
    /\ f.at[s].kind = "inode"
    /\ bytes_to_sectors(f.at[s].length) <= MaxSectors
    /\ \A p \in Paths(bytes_to_sectors(f.at[s].length)) : SectorAt(f.at, f.at[s].ptr, p) # 0

LEMMA InodeFields ==
    ASSUME NEW c \in Contents, c.kind = "inode"
    PROVE  c.ptr \in [Pointers -> Sector] /\ c.length \in Nat /\ c = Inode(c.ptr, c.length)
  <1>1. c # Zeros
    BY DEF Zeros
  <1>2. ~ \E b \in [Entries -> Sector] : c = Block(b)
    BY DEF Block
  <1>3. PICK p \in [Pointers -> Sector], l \in Nat : c = Inode(p, l)
    BY <1>1, <1>2 DEF Contents
  <1> QED
    BY <1>3 DEF Inode

\* It stays so while the tree keeps its sectors.
LEMMA HeldStays ==
    ASSUME NEW f \in FileSystems, NEW g \in FileSystems, NEW s \in Sector, Held(f, s),
           g.at[s] = f.at[s],
           NEW old \in [Pointers -> Sector], NEW new \in [Pointers -> Sector],
           PartOf(f.at[s].ptr, old), PartOf(f.at[s].ptr, new),
           \A p \in AllPaths : SectorAt(f.at, old, p) # 0
                                  => SectorAt(g.at, new, p) = SectorAt(f.at, old, p)
    PROVE  Held(g, s) /\ OwnedBy(g, s) = OwnedBy(f, s)
  <1>1. f.at \in [Sector -> Contents] /\ g.at \in [Sector -> Contents]
    BY FileSystemFields
  <1>2. PICK ptr, l : ptr = f.at[s].ptr /\ l = f.at[s].length
    OBVIOUS
  <1>3. ptr \in [Pointers -> Sector] /\ l \in Nat
    BY <1>1, <1>2, InodeFields DEF Held
  <1>4. PICK n \in Nat : n = bytes_to_sectors(l)
    BY <1>3, SectorsForBytes
  <1>5. ASSUME NEW p \in Paths(n)
        PROVE  SectorAt(f.at, ptr, p) # 0 /\ SectorAt(g.at, ptr, p) = SectorAt(f.at, ptr, p)
    <2>1. p \in AllPaths
      BY PathsClosed
    <2>2. SectorAt(f.at, ptr, p) # 0
      BY <1>2, <1>4 DEF Held
    <2>3. SectorAt(f.at, ptr, p) = IF ptr[p[1]] = 0 THEN 0 ELSE SectorAt(f.at, old, p)
      BY <1>1, <1>2, <1>3, <2>1, PartTree
    <2>4. SectorAt(g.at, ptr, p) = IF ptr[p[1]] = 0 THEN 0 ELSE SectorAt(g.at, new, p)
      BY <1>1, <1>2, <1>3, <2>1, PartTree
    <2> QED
      BY <2>1, <2>2, <2>3, <2>4
  <1>6. g.at[s].ptr = ptr /\ g.at[s].length = l
    BY <1>2
  <1>7. Held(g, s)
    BY <1>2, <1>4, <1>5, <1>6 DEF Held
  <1>8. SectorsOf(g.at, ptr, l) = SectorsOf(f.at, ptr, l)
    BY <1>4, <1>5 DEF SectorsOf
  <1> QED
    BY <1>2, <1>6, <1>7, <1>8 DEF OwnedBy

\* The pointers of an inode: of the open one, else of the one on disk.
PointersOf(f, o, s) == IF s \in DOMAIN o THEN o[s].ptr
                       ELSE IF f.at[s].kind = "inode" THEN f.at[s].ptr ELSE NoPointers

Pointed(f, I, o) == [s \in I |-> PointersOf(f, o, s)]

\* An open inode has the length of the one on disk, and all of its pointers.
OpenInode(f, i, s) == /\ i = [open_cnt |-> 1, ptr |-> i.ptr, length |-> f.at[s].length]
                      /\ i.ptr \in [Pointers -> Sector]
                      /\ PartOf(f.at[s].ptr, i.ptr)

OpenInodes(f, I, o) == /\ o = [s \in DOMAIN o |-> o[s]]
                       /\ DOMAIN o \subseteq I \ {0, 1}
                       /\ \A s \in DOMAIN o : OpenInode(f, o[s], s)

\* The inodes at I, of which o are open, hold their files and share nothing.  Only the
\* inode of the free map may be gone.
Sound(f, I, o) ==
    /\ Forest(f, I, Pointed(f, I, o))
    /\ 1 \in I
    /\ \A s \in I : s # 0 \/ f.at[s].kind = "inode" => Held(f, s)
    /\ OpenInodes(f, I, o)

LEMMA SoundInode ==
    ASSUME NEW f, NEW I, NEW o, Sound(f, I, o), NEW s \in I
    PROVE  /\ s \in f.map /\ s \in Sector /\ f \in FileSystems /\ f.at \in [Sector -> Contents]
           /\ f.map \in SUBSET Bits
           /\ Pointed(f, I, o)[s] = PointersOf(f, o, s)
           /\ PointersOf(f, o, s) \in [Pointers -> Sector]
           /\ Held(f, s) => /\ f.at[s].ptr \in [Pointers -> Sector] /\ f.at[s].length \in Nat
                            /\ PartOf(f.at[s].ptr, PointersOf(f, o, s))
           /\ s # 0 \/ f.at[s].kind = "inode" => Held(f, s)
  <1>1. f \in FileSystems /\ I \subseteq f.map
    BY DEF Sound, Forest
  <1>2. s \in f.map /\ s \in Sector /\ f.at \in [Sector -> Contents] /\ f.map \in SUBSET Bits
    BY <1>1, FileSystemFields
  <1>3. Pointed(f, I, o)[s] = PointersOf(f, o, s)
    BY DEF Pointed
  <1>4. PointersOf(f, o, s) \in [Pointers -> Sector]
    <2>1. PICK P : P = Pointed(f, I, o)
      OBVIOUS
    <2>2. P \in [I -> [Pointers -> Sector]]
      BY <2>1 DEF Sound, Forest
    <2> QED
      BY <1>3, <2>1, <2>2
  <1>5. ASSUME Held(f, s)
        PROVE  /\ f.at[s].ptr \in [Pointers -> Sector] /\ f.at[s].length \in Nat
               /\ PartOf(f.at[s].ptr, PointersOf(f, o, s))
    <2>1. f.at[s].kind = "inode"
      BY <1>5 DEF Held
    <2>2. f.at[s].ptr \in [Pointers -> Sector] /\ f.at[s].length \in Nat
      BY <1>2, <2>1, InodeFields
    <2>3. PartOf(f.at[s].ptr, PointersOf(f, o, s))
      <3>1. CASE s \in DOMAIN o
        BY <3>1 DEF Sound, OpenInodes, OpenInode, PointersOf
      <3>2. CASE s \notin DOMAIN o
        BY <2>1, <3>2 DEF PointersOf, PartOf
      <3> QED
        BY <3>1, <3>2
    <2> QED
      BY <2>2, <2>3
  <1> QED
    BY <1>1, <1>2, <1>3, <1>4, <1>5 DEF Sound

\* What a step that works on the inode at s leaves alone.
Aside(f, o, g, J, Q, s) ==
    /\ \A t \in J \ {s} : Q[t] = PointersOf(f, o, t)
    /\ \A t \in J \ {s}, p \in AllPaths : SectorAt(g.at, Q[t], p) = SectorAt(f.at, Q[t], p)
    /\ \A t \in J \ {s, 0} : g.at[t] = f.at[t]
    /\ g.at[0].kind = "inode" => g.at[0] = f.at[0]

\* Open inodes stay as they are, are closed, or are read from disk.
OpenedFrom(f, o, new, J, s) ==
    /\ new = [t \in DOMAIN new |-> new[t]]
    /\ DOMAIN new \subseteq J \ {0, 1}
    /\ \A t \in DOMAIN new \ {s} : \/ t \in DOMAIN o /\ new[t] = o[t]
                                   \/ new[t] = InodeRead(f, t)

\* What becomes of the sectors of the inodes at I.
Keeps(f, g, I) == g.at[0].kind = "inode" => /\ f.at[0].kind = "inode"
                                            /\ \A t \in I : OwnedBy(f, t) \subseteq OwnedBy(g, t)

LEMMA Resound ==
    ASSUME NEW f, NEW I, NEW o, Sound(f, I, o),
           NEW g, NEW J, NEW Q, Forest(g, J, Q), 1 \in J,
           NEW s, s # 0, J \ {s} \subseteq I, Aside(f, o, g, J, Q, s),
           NEW new, OpenedFrom(f, o, new, J, s),
           s \in J => /\ Held(g, s)
                      /\ PartOf(PointersOf(g, new, s), Q[s])
                      /\ s \in DOMAIN new => OpenInode(g, new[s], s)
    PROVE  Sound(g, J, new) /\ Keeps(f, g, J \ {s})
  <1>1. g \in FileSystems /\ J \subseteq g.map /\ 0 \in J /\ Q \in [J -> [Pointers -> Sector]]
    BY DEF Forest
  <1>2. g.at \in [Sector -> Contents] /\ J \subseteq Sector
    BY <1>1, FileSystemFields
  <1>3. ASSUME NEW t \in J \ {s}
        PROVE  /\ t \in I /\ t \in Sector
               /\ Q[t] = PointersOf(f, o, t) /\ Q[t] \in [Pointers -> Sector]
               /\ f \in FileSystems
               /\ t # 0 \/ f.at[t].kind = "inode" => Held(f, t)
               /\ Held(f, t) => PartOf(f.at[t].ptr, Q[t]) /\ f.at[t].ptr \in [Pointers -> Sector]
    BY <1>1, <1>2, SoundInode DEF Aside
  <1>4. ASSUME NEW t \in J \ {s}, t # 0 \/ g.at[t].kind = "inode"
        PROVE  /\ g.at[t] = f.at[t] /\ Held(f, t) /\ Held(g, t)
               /\ OwnedBy(g, t) = OwnedBy(f, t)
    <2>1. g.at[t] = f.at[t]
      BY <1>4 DEF Aside
    <2>2. Held(f, t)
      BY <1>3, <1>4, <2>1
    <2>3. PICK old : old = Q[t]
      OBVIOUS
    <2>4. \A p \in AllPaths : SectorAt(g.at, old, p) = SectorAt(f.at, old, p)
      BY <2>3 DEF Aside
    <2>5. old \in [Pointers -> Sector] /\ PartOf(f.at[t].ptr, old) /\ f \in FileSystems /\ t \in Sector
      BY <1>3, <2>2, <2>3
    <2> QED
      BY <1>1, <2>1, <2>2, <2>4, <2>5, HeldStays
  <1>5. ASSUME NEW t \in J, t # 0 \/ g.at[t].kind = "inode" PROVE Held(g, t)
    <2>1. CASE t = s
      BY <2>1
    <2>2. CASE t # s
      BY <1>4, <1>5, <2>2
    <2> QED
      BY <2>1, <2>2
  <1>6. ASSUME NEW t \in DOMAIN new PROVE OpenInode(g, new[t], t)
    <2>0. t \in J /\ t # 0
      BY DEF OpenedFrom
    <2>1. CASE t = s
      BY <2>0, <2>1
    <2>2. CASE t # s
      <3>1. g.at[t] = f.at[t] /\ Held(f, t)
        BY <1>4, <2>0, <2>2
      <3>2. CASE t \in DOMAIN o /\ new[t] = o[t]
        BY <3>1, <3>2 DEF Sound, OpenInodes, OpenInode
      <3>3. CASE new[t] = InodeRead(f, t)
        <4>1. PICK ptr, l : ptr = f.at[t].ptr /\ l = f.at[t].length
          OBVIOUS
        <4>2. ptr \in [Pointers -> Sector]
          BY <1>3, <2>0, <2>2, <3>1, <4>1
        <4>3. new[t] = [open_cnt |-> 1, ptr |-> ptr, length |-> l]
          BY <3>3, <4>1 DEF InodeRead
        <4>4. new[t].ptr = ptr
          BY <4>3
        <4>5. g.at[t].ptr = ptr /\ g.at[t].length = l
          BY <3>1, <4>1
        <4>6. PartOf(ptr, ptr)
          BY DEF PartOf
        <4> QED
          BY <4>2, <4>3, <4>4, <4>5, <4>6 DEF OpenInode
      <3> QED
        BY <2>0, <2>2, <3>2, <3>3 DEF OpenedFrom
    <2> QED
      BY <2>1, <2>2
  <1>7. OpenInodes(g, J, new)
    BY <1>6 DEF OpenInodes, OpenedFrom
  <1>8. ASSUME NEW t \in J
        PROVE  PartOf(PointersOf(g, new, t), Q[t]) /\ PointersOf(g, new, t) \in [Pointers -> Sector]
    <2>1. PointersOf(g, new, t) \in [Pointers -> Sector]
      <3>1. CASE t \in DOMAIN new
        BY <1>6, <3>1 DEF PointersOf, OpenInode
      <3>2. CASE t \notin DOMAIN new /\ g.at[t].kind = "inode"
        BY <1>2, <3>2, InodeFields DEF PointersOf
      <3>3. CASE t \notin DOMAIN new /\ g.at[t].kind # "inode"
        BY <1>2, <3>3, NoTree DEF PointersOf
      <3> QED
        BY <3>1, <3>2, <3>3
    <2>2. CASE t = s
      BY <2>1, <2>2
    <2>3. CASE t # s /\ t \in DOMAIN new /\ t \in DOMAIN o /\ new[t] = o[t]
      BY <1>3, <2>3 DEF PointersOf, PartOf
    <2>4. CASE t # s /\ t \in DOMAIN new /\ new[t] = InodeRead(f, t)
      <3>1. t # 0
        BY <2>4 DEF OpenedFrom
      <3>2. Held(f, t)
        BY <1>4, <2>4, <3>1
      <3>3. PointersOf(g, new, t) = f.at[t].ptr
        BY <2>4 DEF PointersOf, InodeRead
      <3> QED
        BY <1>3, <2>1, <2>4, <3>2, <3>3
    <2>5. CASE t # s /\ t \notin DOMAIN new /\ g.at[t].kind = "inode"
      <3>1. g.at[t] = f.at[t] /\ Held(f, t)
        BY <1>4, <2>5
      <3> QED
        BY <1>3, <2>1, <2>5, <3>1 DEF PointersOf
    <2>6. CASE t \notin DOMAIN new /\ g.at[t].kind # "inode"
      <3>1. PointersOf(g, new, t) = NoPointers
        BY <2>6 DEF PointersOf
      <3> QED
        BY <2>1, <3>1 DEF PartOf, NoPointers
    <2> QED
      BY <2>2, <2>3, <2>4, <2>5, <2>6 DEF OpenedFrom
  <1>9. PICK R : R = Pointed(g, J, new)
    OBVIOUS
  <1>10. R \in [J -> [Pointers -> Sector]] /\ \A t \in J : PartOf(R[t], Q[t])
    BY <1>8, <1>9 DEF Pointed
  <1>11. Forest(g, J, R)
    BY <1>10, ForestPart
  <1>12. Sound(g, J, new)
    BY <1>5, <1>7, <1>9, <1>11 DEF Sound
  <1>13. Keeps(f, g, J \ {s})
    <2>1. SUFFICES ASSUME g.at[0].kind = "inode"
                   PROVE  /\ f.at[0].kind = "inode"
                          /\ \A t \in J \ {s} : OwnedBy(f, t) \subseteq OwnedBy(g, t)
      BY DEF Keeps
    <2>2. f.at[0].kind = "inode"
      BY <2>1 DEF Aside
    <2>3. \A t \in J \ {s} : OwnedBy(g, t) = OwnedBy(f, t)
      BY <1>4, <2>1
    <2> QED
      BY <2>2, <2>3
  <1> QED
    BY <1>12, <1>13

\* inode_reserve for an inode that holds its file.
Reserving(f, I, o, s, n, r, Q) ==
    /\ Extends(f, PointersOf(f, o, s), r, n)
    /\ Forest(r.fs, I, Q) /\ Q[s] = r.ptr
    /\ Aside(f, o, r.fs, I, Q, s)
    /\ r.fs.at[s] = f.at[s]
    /\ PartOf(f.at[s].ptr, r.ptr)

LEMMA ReserveSound ==
    ASSUME NEW f, NEW I, NEW o, Sound(f, I, o), NEW s \in I \ {0}, NEW n \in Nat,
           NEW r, r = inode_reserve(f, PointersOf(f, o, s), n),
           NEW Q, Q = [Pointed(f, I, o) EXCEPT ![s] = r.ptr]
    PROVE  Reserving(f, I, o, s, n, r, Q)
  <1>1. PICK P : P = Pointed(f, I, o)
    OBVIOUS
  <1>2. Forest(f, I, P) /\ P[s] = PointersOf(f, o, s) /\ \A t \in I : P[t] = PointersOf(f, o, t)
    BY <1>1, SoundInode DEF Sound
  <1>3. ReservedApart(f, I, P, s, r, n)
    BY <1>2, ForestReserve
  <1>4. /\ Extends(f, PointersOf(f, o, s), r, n)
        /\ Forest(r.fs, I, Q)
        /\ \A t \in I \ {s}, p \in AllPaths : SectorAt(r.fs.at, P[t], p) = SectorAt(f.at, P[t], p)
        /\ \A x \in I \ {0} : r.fs.at[x] = f.at[x]
    BY <1>1, <1>2, <1>3 DEF ReservedApart
  <1>5. DOMAIN P = I
    BY <1>1 DEF Pointed
  <1>6. Q[s] = r.ptr /\ \A t \in I \ {s} : Q[t] = P[t]
    BY <1>1, <1>5
  <1>7. r.fs.at[0].kind = "inode" => r.fs.at[0] = f.at[0]
    <2>1. PICK ptr : ptr = PointersOf(f, o, s)
      OBVIOUS
    <2>2. f \in FileSystems /\ ptr \in [Pointers -> Sector]
      BY <2>1, SoundInode
    <2>3. KeepsInodes(f, r)
      BY <2>1, <2>2, ReserveType
    <2> QED
      BY <2>3, ZeroSector DEF KeepsInodes
  <1>8. Aside(f, o, r.fs, I, Q, s)
    BY <1>2, <1>4, <1>6, <1>7 DEF Aside
  <1>9. PartOf(f.at[s].ptr, r.ptr)
    <2>1. ASSUME NEW i \in Pointers, f.at[s].ptr[i] # 0
          PROVE  f.at[s].ptr[i] = r.ptr[i]
      <3>1. f.at[s].ptr[i] = PointersOf(f, o, s)[i]
        BY <2>1, SoundInode DEF PartOf
      <3>2. PICK p : p = <<i>>
        OBVIOUS
      <3>3. /\ SectorAt(f.at, PointersOf(f, o, s), p) = PointersOf(f, o, s)[i]
            /\ SectorAt(r.fs.at, r.ptr, p) = r.ptr[i]
        BY <3>2, SingleSector
      <3>4. p \in AllPaths
        BY <3>2, SinglePath
      <3>5. SectorAt(r.fs.at, r.ptr, p) = SectorAt(f.at, PointersOf(f, o, s), p)
        BY <1>4, <2>1, <3>1, <3>3, <3>4 DEF Extends
      <3> QED
        BY <3>1, <3>3, <3>5
    <2> QED
      BY <2>1 DEF PartOf
  <1> QED
    BY <1>4, <1>6, <1>8, <1>9 DEF Reserving

\* The sectors a step adds to the map belong to these inodes.
Fills(f, g, I) == g.at[0].kind = "inode" => \A x \in g.map \ f.map : \E s \in I : x \in OwnedBy(g, s)

\* What a step on the inode at s does: it succeeds with the new inode, or it fails and
\* leaves the inode on disk.
GrowsTo(f, I, o, s, g, new, c) ==
    /\ Sound(g, I, new) /\ Keeps(f, g, I) /\ f.map \subseteq g.map
    /\ g.at[s] = c
    /\ \A t \in I \ {s, 0} : g.at[t] = f.at[t]
    /\ g.at[0].kind = "inode" => g.at[0] = f.at[0]

\* The open inodes when the one at s has changed.
Updated(o, new, s, ptr, length) ==
    /\ new = [t \in DOMAIN new |-> new[t]] /\ DOMAIN new = DOMAIN o
    /\ \A t \in DOMAIN o \ {s} : new[t] = o[t]
    /\ s \in DOMAIN o => new[s] = [open_cnt |-> 1, ptr |-> ptr, length |-> length]

LEMMA UpdatedOpen ==
    ASSUME NEW f, NEW I, NEW o, Sound(f, I, o), NEW s, NEW ptr \in [Pointers -> Sector], NEW length,
           NEW new, Updated(o, new, s, ptr, length), NEW g,
           PartOf(g.at[s].ptr, ptr), g.at[s].length = length, g.at[s].kind = "inode"
    PROVE  /\ OpenedFrom(f, o, new, I, s)
           /\ s \in DOMAIN new => OpenInode(g, new[s], s)
           /\ PartOf(PointersOf(g, new, s), ptr)
  <1>1. OpenedFrom(f, o, new, I, s)
    BY DEF OpenedFrom, Updated, Sound, OpenInodes
  <1>2. ASSUME s \in DOMAIN new PROVE OpenInode(g, new[s], s) /\ new[s].ptr = ptr
    <2>1. new[s] = [open_cnt |-> 1, ptr |-> ptr, length |-> length]
      BY <1>2 DEF Updated
    <2>2. new[s].ptr = ptr
      BY <2>1
    <2> QED
      BY <2>1, <2>2 DEF OpenInode
  <1>3. PartOf(PointersOf(g, new, s), ptr)
    BY <1>2 DEF PointersOf, PartOf
  <1> QED
    BY <1>1, <1>2, <1>3

LEMMA GrowFails ==
    ASSUME NEW f, NEW I, NEW o, Sound(f, I, o), NEW s \in I \ {0}, NEW n \in Nat,
           NEW r, r = inode_reserve(f, PointersOf(f, o, s), n),
           NEW new, Updated(o, new, s, r.ptr, f.at[s].length)
    PROVE  GrowsTo(f, I, o, s, r.fs, new, f.at[s])
  <1>1. PICK Q : Q = [Pointed(f, I, o) EXCEPT ![s] = r.ptr]
    OBVIOUS
  <1>2. Reserving(f, I, o, s, n, r, Q)
    BY <1>1, ReserveSound
  <1>3. PICK g : g = r.fs
    OBVIOUS
  <1>4. PICK old, ptr : old = PointersOf(f, o, s) /\ ptr = r.ptr
    OBVIOUS
  <1>5. /\ Extends(f, old, r, n)
        /\ Forest(g, I, Q) /\ Q[s] = ptr /\ Aside(f, o, g, I, Q, s)
        /\ g.at[s] = f.at[s] /\ PartOf(f.at[s].ptr, ptr)
    BY <1>2, <1>3, <1>4 DEF Reserving
  <1>6. /\ g \in FileSystems /\ ptr \in [Pointers -> Sector] /\ f.map \subseteq g.map
        /\ \A p \in AllPaths : SectorAt(f.at, old, p) # 0
                                  => SectorAt(g.at, ptr, p) = SectorAt(f.at, old, p)
    BY <1>3, <1>4, <1>5 DEF Extends
  <1>7. /\ f \in FileSystems /\ s \in Sector /\ Held(f, s)
        /\ old \in [Pointers -> Sector] /\ PartOf(f.at[s].ptr, old)
    BY <1>4, SoundInode
  <1>8. Held(g, s) /\ OwnedBy(g, s) = OwnedBy(f, s)
    BY <1>5, <1>6, <1>7, HeldStays
  <1>9. /\ OpenedFrom(f, o, new, I, s)
        /\ s \in DOMAIN new => OpenInode(g, new[s], s)
        /\ PartOf(PointersOf(g, new, s), ptr)
    <2>1. PICK length : length = f.at[s].length
      OBVIOUS
    <2>2. Updated(o, new, s, ptr, length)
      BY <1>4, <2>1
    <2>3. PartOf(g.at[s].ptr, ptr) /\ g.at[s].length = length /\ g.at[s].kind = "inode"
      BY <1>5, <1>8, <2>1 DEF Held
    <2> QED
      BY <1>6, <2>2, <2>3, UpdatedOpen
  <1>10. 1 \in I
    BY DEF Sound
  <1>11. Sound(g, I, new) /\ Keeps(f, g, I \ {s})
    BY <1>5, <1>8, <1>9, <1>10, Resound
  <1>12. Keeps(f, g, I)
    BY <1>8, <1>11 DEF Keeps
  <1> QED
    BY <1>3, <1>5, <1>6, <1>11, <1>12 DEF GrowsTo, Aside

LEMMA GrowSucceeds ==
    ASSUME NEW f, NEW I, NEW o, Sound(f, I, o), NEW s \in I \ {0},
           NEW length \in Nat, f.at[s].length <= length,
           NEW r, r = inode_reserve(f, PointersOf(f, o, s), bytes_to_sectors(length)), r.ok,
           NEW g, g = [r.fs EXCEPT !.at[s] = Inode(r.ptr, length)],
           NEW new, Updated(o, new, s, r.ptr, length)
    PROVE  /\ GrowsTo(f, I, o, s, g, new, Inode(r.ptr, length))
           /\ Fills(f, g, {s})
  <1>0. PICK n : n = bytes_to_sectors(length)
    OBVIOUS
  <1>1. PICK Q : Q = [Pointed(f, I, o) EXCEPT ![s] = r.ptr]
    OBVIOUS
  <1>a. n \in Nat
    BY <1>0, SectorsForBytes
  <1>2. Reserving(f, I, o, s, n, r, Q)
    BY <1>0, <1>1, <1>a, ReserveSound
  <1>3. PICK old, ptr, h : old = PointersOf(f, o, s) /\ ptr = r.ptr /\ h = r.fs
    OBVIOUS
  <1>4. /\ Extends(f, old, r, n)
        /\ Forest(h, I, Q) /\ Q[s] = ptr /\ Aside(f, o, h, I, Q, s)
    BY <1>2, <1>3 DEF Reserving
  <1>5. /\ h \in FileSystems /\ ptr \in [Pointers -> Sector] /\ f.map \subseteq h.map
        /\ \A p \in AllPaths : SectorAt(f.at, old, p) # 0
                                  => SectorAt(h.at, ptr, p) = SectorAt(f.at, old, p)
        /\ n <= MaxSectors
        /\ \A p \in Paths(n) : SectorAt(h.at, ptr, p) # 0
        /\ \A x \in h.map \ f.map : \E p \in Paths(n) : x = SectorAt(h.at, ptr, p)
    BY <1>3, <1>4 DEF Extends
  <1>6. PICK c : c = Inode(ptr, length)
    OBVIOUS
  <1>7. /\ c \in Contents /\ c.kind = "inode" /\ c.ptr = ptr /\ c.length = length
    BY <1>5, <1>6 DEF Contents, Inode
  <1>8. g = [h EXCEPT !.at[s] = c]
    BY <1>3, <1>6
  <1>9. /\ Forest(g, I, Q)
        /\ g.map = h.map /\ g.at[s] = c /\ \A x \in Sector \ {s} : g.at[x] = h.at[x]
        /\ \A t \in I, p \in AllPaths : SectorAt(g.at, Q[t], p) = SectorAt(h.at, Q[t], p)
    <2>1. s \in I
      OBVIOUS
    <2>2. Overwrites(h, I, Q, s, c, g)
      BY ONLY <1>4, <1>7, <1>8, <2>1, ForestWrite
    <2> QED
      BY <2>2 DEF Overwrites
  <1>10. I \subseteq Sector
    BY SoundInode
  <1>11. Aside(f, o, g, I, Q, s)
    BY <1>4, <1>9, <1>10, ZeroSector DEF Aside
  <1>12. \A p \in AllPaths : SectorAt(g.at, ptr, p) = SectorAt(h.at, ptr, p)
    BY <1>4, <1>9
  <1>13. Held(g, s)
    BY <1>0, <1>5, <1>7, <1>9, <1>12, <1>a, PathsClosed DEF Held
  <1>14. /\ OpenedFrom(f, o, new, I, s)
         /\ s \in DOMAIN new => OpenInode(g, new[s], s)
         /\ PartOf(PointersOf(g, new, s), ptr)
    <2>1. Updated(o, new, s, ptr, length)
      BY <1>3
    <2>2. PartOf(g.at[s].ptr, ptr)
      BY <1>7, <1>9 DEF PartOf
    <2>3. g.at[s].length = length /\ g.at[s].kind = "inode"
      BY <1>7, <1>9
    <2> QED
      BY ONLY <1>5, <2>1, <2>2, <2>3, Sound(f, I, o), UpdatedOpen
  <1>15. 1 \in I
    BY DEF Sound
  <1>16. Sound(g, I, new) /\ Keeps(f, g, I \ {s})
    BY <1>4, <1>9, <1>11, <1>13, <1>14, <1>15, Resound
  <1>17. OwnedBy(g, s) = {s} \cup {SectorAt(g.at, ptr, p) : p \in Paths(n)}
    BY <1>0, <1>7, <1>9 DEF OwnedBy, SectorsOf
  <1>18. OwnedBy(f, s) \subseteq OwnedBy(g, s)
    <2>1. PICK disk, l : disk = f.at[s].ptr /\ l = f.at[s].length
      OBVIOUS
    <2>2. /\ disk \in [Pointers -> Sector] /\ l \in Nat /\ PartOf(disk, old)
          /\ old \in [Pointers -> Sector] /\ Held(f, s) /\ f.at \in [Sector -> Contents]
      BY <1>3, <2>1, SoundInode
    <2>3. PICK m : m = bytes_to_sectors(l)
      OBVIOUS
    <2>4. m \in Nat /\ m <= n
      BY <1>0, <2>1, <2>2, <2>3, SectorsForBytes
    <2>5. ASSUME NEW p \in Paths(m)
          PROVE  p \in Paths(n) /\ SectorAt(f.at, disk, p) = SectorAt(g.at, ptr, p)
      <3>1. p \in Paths(n) /\ p \in AllPaths
        BY <1>a, <2>4, PathsGrow, PathsClosed
      <3>2. SectorAt(f.at, disk, p) # 0
        BY <2>1, <2>2, <2>3 DEF Held
      <3>3. SectorAt(f.at, disk, p) = SectorAt(f.at, old, p)
        BY <2>2, <3>1, <3>2, PartSectors
      <3> QED
        BY <1>5, <1>12, <3>1, <3>2, <3>3
    <2>6. OwnedBy(f, s) = {s} \cup {SectorAt(f.at, disk, p) : p \in Paths(m)}
      BY <2>1, <2>3 DEF OwnedBy, SectorsOf
    <2> QED
      BY <1>17, <2>5, <2>6
  <1>19. Keeps(f, g, I)
    BY <1>16, <1>18 DEF Keeps
  <1>20. ASSUME NEW x \in g.map \ f.map PROVE x \in OwnedBy(g, s)
    <2>1. PICK p \in Paths(n) : x = SectorAt(h.at, ptr, p)
      BY <1>5, <1>9
    <2>2. x = SectorAt(g.at, ptr, p)
      BY <1>12, <1>a, <2>1, PathsClosed
    <2> QED
      BY <1>17, <2>2
  <1>21. f.map \subseteq g.map
    BY <1>5, <1>9
  <1>22. GrowsTo(f, I, o, s, g, new, c)
    BY <1>9, <1>11, <1>16, <1>19, <1>21 DEF GrowsTo, Aside
  <1>23. c = Inode(r.ptr, length)
    BY <1>3, <1>6
  <1> QED
    BY <1>20, <1>22, <1>23 DEF Fills

\* Inodes are opened and closed.
LEMMA Reopen ==
    ASSUME NEW f, NEW I, NEW o, Sound(f, I, o),
           NEW new, new = [t \in DOMAIN new |-> new[t]], DOMAIN new \subseteq I \ {0, 1},
           \A t \in DOMAIN new : (t \in DOMAIN o /\ new[t] = o[t]) \/ new[t] = InodeRead(f, t)
    PROVE  Sound(f, I, new)
  <1>1. PICK s : s = -1
    OBVIOUS
  <1>2. s \notin I /\ s # 0
    BY <1>1, SoundInode, ZeroSector
  <1>3. OpenedFrom(f, o, new, I, s)
    BY DEF OpenedFrom
  <1>4. PICK Q : Q = Pointed(f, I, o)
    OBVIOUS
  <1>5. Forest(f, I, Q) /\ 1 \in I /\ I \ {s} \subseteq I
    BY <1>4 DEF Sound
  <1>6. Aside(f, o, f, I, Q, s)
    BY <1>4 DEF Aside, Pointed
  <1> QED
    BY <1>2, <1>3, <1>5, <1>6, Resound

\* Sectors of no other inode are given back, and with them some inodes.
GivesBack(f, I, g, new, X) ==
    /\ Sound(g, I, new) /\ Keeps(f, g, I)
    /\ g.at = f.at /\ g.map = f.map \ X

LEMMA GiveBack ==
    ASSUME NEW f, NEW J, NEW o, Sound(f, J, o), NEW I \in SUBSET J, 0 \in I, 1 \in I,
           NEW X, I \cap X = {},
           \A t \in I, p \in AllPaths : SectorAt(f.at, PointersOf(f, o, t), p) # 0
                                           => SectorAt(f.at, PointersOf(f, o, t), p) \notin X,
           NEW g, g = free_map_release(f, X),
           NEW new, new = [t \in DOMAIN new |-> new[t]], DOMAIN new \subseteq I \ {0, 1},
           \A t \in DOMAIN new : (t \in DOMAIN o /\ new[t] = o[t]) \/ new[t] = InodeRead(f, t)
    PROVE  GivesBack(f, I, g, new, X)
  <1>1. PICK s : s = -1
    OBVIOUS
  <1>2. s \notin I /\ s # 0
    BY <1>1, SoundInode, ZeroSector
  <1>3. OpenedFrom(f, o, new, I, s)
    BY DEF OpenedFrom
  <1>4. PICK P : P = Pointed(f, J, o)
    OBVIOUS
  <1>5. Forest(f, J, P) /\ \A t \in J : P[t] = PointersOf(f, o, t)
    BY <1>4, SoundInode DEF Sound
  <1>6. PICK Q : Q = [t \in I |-> P[t]]
    OBVIOUS
  <1>7. \A t \in I, p \in AllPaths : SectorAt(f.at, P[t], p) # 0 => SectorAt(f.at, P[t], p) \notin X
    BY <1>5
  <1>8. Forest(g, I, Q) /\ g.at = f.at /\ g.map = f.map \ X
    BY <1>5, <1>6, <1>7, ForestDrop
  <1>9. Aside(f, o, g, I, Q, s)
    BY <1>5, <1>6, <1>8 DEF Aside
  <1>10. Sound(g, I, new) /\ Keeps(f, g, I \ {s})
    BY <1>2, <1>3, <1>8, <1>9, Resound
  <1>11. I \ {s} = I
    BY <1>2
  <1> QED
    BY <1>8, <1>10, <1>11 DEF GivesBack

\* inode_reserve for an inode that is made at a free sector.
ReservingNew(f, I, o, s, n, r, h, Q) ==
    /\ h.map = f.map \cup {s} /\ h.at = f.at
    /\ Extends(h, NoPointers, r, n)
    /\ Forest(r.fs, I \cup {s}, Q) /\ Q[s] = r.ptr
    /\ Aside(f, o, r.fs, I \cup {s}, Q, s)
    /\ s \notin I /\ s # 0 /\ s \in Sector

LEMMA ReserveNew ==
    ASSUME NEW f, NEW I, NEW o, Sound(f, I, o), NEW s \in Bits \ f.map, NEW n \in Nat,
           NEW h, h = [f EXCEPT !.map = @ \cup {s}],
           NEW r, r = inode_reserve(h, NoPointers, n)
    PROVE  \E Q : ReservingNew(f, I, o, s, n, r, h, Q)
  <1>1. PICK P : P = Pointed(f, I, o)
    OBVIOUS
  <1>2. Forest(f, I, P) /\ \A t \in I : P[t] = PointersOf(f, o, t)
    BY <1>1, SoundInode DEF Sound
  <1>3. PICK R : R = [t \in I \cup {s} |-> IF t = s THEN NoPointers ELSE P[t]]
    OBVIOUS
  <1>4. Forest(h, I \cup {s}, R) /\ h.at = f.at /\ h.map = f.map \cup {s}
    BY <1>2, <1>3, ForestNew
  <1>5. I \subseteq f.map /\ 0 \in I
    BY <1>2 DEF Forest
  <1>6. s \notin I /\ s # 0 /\ s \in Sector
    BY <1>5, ZeroSector
  <1>7. R[s] = NoPointers /\ s \in I \cup {s} /\ \A t \in I : R[t] = P[t]
    BY <1>3, <1>6
  <1>8. PICK J : J = I \cup {s}
    OBVIOUS
  <1>9. ReservedApart(h, J, R, s, r, n)
    BY <1>4, <1>7, <1>8, ForestReserve
  <1>10. PICK Q : Q = [R EXCEPT ![s] = r.ptr]
    OBVIOUS
  <1>11. /\ Extends(h, NoPointers, r, n)
         /\ Forest(r.fs, J, Q)
         /\ \A t \in J \ {s}, p \in AllPaths : SectorAt(r.fs.at, R[t], p) = SectorAt(h.at, R[t], p)
         /\ \A x \in J \ {0} : r.fs.at[x] = h.at[x]
    BY <1>7, <1>9, <1>10 DEF ReservedApart
  <1>12. Q[s] = r.ptr /\ \A t \in J \ {s} : Q[t] = PointersOf(f, o, t) /\ Q[t] = R[t]
    BY <1>2, <1>3, <1>7, <1>8, <1>10
  <1>13. r.fs.at[0].kind = "inode" => r.fs.at[0] = h.at[0]
    <2>1. h \in FileSystems /\ NoPointers \in [Pointers -> Sector]
      BY <1>4, FileSystemFields, NoTree DEF Forest
    <2>2. KeepsInodes(h, r)
      BY <2>1, ReserveType
    <2> QED
      BY <2>2, ZeroSector DEF KeepsInodes
  <1>14. Aside(f, o, r.fs, J, Q, s)
    BY <1>4, <1>11, <1>12, <1>13 DEF Aside
  <1> QED
    BY <1>4, <1>6, <1>8, <1>11, <1>12, <1>14 DEF ReservingNew

\* The new inode is there, or nothing has changed for the others.
Adds(f, I, o, s, g, c) ==
    /\ Sound(g, I \cup {s}, o) /\ Keeps(f, g, I) /\ Fills(f, g, {s}) /\ f.map \subseteq g.map
    /\ s \notin I /\ s # 0 /\ s # 1 /\ s \in Sector
    /\ g.at[s] = c
    /\ \A t \in I \ {0} : g.at[t] = f.at[t]
    /\ g.at[0].kind = "inode" => g.at[0] = f.at[0]

LEMMA NewSucceeds ==
    ASSUME NEW f, NEW I, NEW o, Sound(f, I, o), NEW s \in Bits \ f.map, NEW length \in Nat,
           NEW r, r = inode_reserve([f EXCEPT !.map = @ \cup {s}], NoPointers,
                                    bytes_to_sectors(length)), r.ok,
           NEW g, g = [r.fs EXCEPT !.at[s] = Inode(r.ptr, length)]
    PROVE  Adds(f, I, o, s, g, Inode(r.ptr, length))
  <1>1. PICK n \in Nat : n = bytes_to_sectors(length)
    BY SectorsForBytes
  <1>2. PICK k : k = [f EXCEPT !.map = @ \cup {s}]
    OBVIOUS
  <1>3. r = inode_reserve(k, NoPointers, n)
    BY <1>1, <1>2
  <1>4. PICK Q : ReservingNew(f, I, o, s, n, r, k, Q)
    BY <1>2, <1>3, ReserveNew
  <1>5. PICK ptr, h, J : ptr = r.ptr /\ h = r.fs /\ J = I \cup {s}
    OBVIOUS
  <1>6. /\ k.map = f.map \cup {s} /\ Extends(k, NoPointers, r, n)
        /\ Forest(h, J, Q) /\ Q[s] = ptr /\ Aside(f, o, h, J, Q, s)
        /\ s \notin I /\ s # 0 /\ s \in Sector
    BY <1>4, <1>5 DEF ReservingNew
  <1>7. /\ ptr \in [Pointers -> Sector] /\ k.map \subseteq h.map
        /\ n <= MaxSectors
        /\ \A p \in Paths(n) : SectorAt(h.at, ptr, p) # 0
        /\ \A x \in h.map \ k.map : \E p \in Paths(n) : x = SectorAt(h.at, ptr, p)
    <2>1. r.ok
      OBVIOUS
    <2> QED
      BY ONLY <1>5, <1>6, <2>1 DEF Extends
  <1>8. PICK c : c = Inode(ptr, length)
    OBVIOUS
  <1>9. c \in Contents /\ c.kind = "inode" /\ c.ptr = ptr /\ c.length = length
    BY <1>7, <1>8 DEF Contents, Inode
  <1>10. g = [h EXCEPT !.at[s] = c]
    BY <1>5, <1>8
  <1>11. /\ Forest(g, J, Q)
         /\ g.map = h.map /\ g.at[s] = c /\ \A x \in Sector \ {s} : g.at[x] = h.at[x]
         /\ \A t \in J, p \in AllPaths : SectorAt(g.at, Q[t], p) = SectorAt(h.at, Q[t], p)
    <2>1. s \in J
      BY <1>5
    <2>2. Overwrites(h, J, Q, s, c, g)
      BY ONLY <1>6, <1>9, <1>10, <2>1, ForestWrite
    <2> QED
      BY <2>2 DEF Overwrites
  <1>12. J \subseteq Sector
    BY <1>5, <1>6, SoundInode
  <1>13. Aside(f, o, g, J, Q, s)
    BY <1>6, <1>11, <1>12, ZeroSector DEF Aside
  <1>14. \A p \in AllPaths : SectorAt(g.at, ptr, p) = SectorAt(h.at, ptr, p)
    BY ONLY <1>5, <1>6, <1>11
  <1>15. Held(g, s)
    BY ONLY <1>1, <1>7, <1>9, <1>11, <1>14, PathsClosed DEF Held
  <1>16. s \notin DOMAIN o
    BY <1>6 DEF Sound, OpenInodes
  <1>17. PartOf(PointersOf(g, o, s), Q[s])
    BY <1>6, <1>9, <1>11, <1>16 DEF PointersOf, PartOf
  <1>18. OpenedFrom(f, o, o, J, s)
    BY <1>5 DEF OpenedFrom, Sound, OpenInodes
  <1>19. 1 \in J /\ J \ {s} \subseteq I /\ J \ {s} = I /\ s # 1
    BY <1>5, <1>6 DEF Sound
  <1>20. Sound(g, J, o) /\ Keeps(f, g, J \ {s})
    BY <1>6, <1>11, <1>13, <1>15, <1>16, <1>17, <1>18, <1>19, Resound
  <1>21. ASSUME NEW x \in g.map \ f.map PROVE x \in OwnedBy(g, s)
    <2>1. OwnedBy(g, s) = {s} \cup {SectorAt(g.at, ptr, p) : p \in Paths(n)}
      BY ONLY <1>1, <1>9, <1>11 DEF OwnedBy, SectorsOf
    <2>2. CASE x = s
      BY <2>1, <2>2
    <2>3. CASE x # s
      <3>1. PICK p \in Paths(n) : x = SectorAt(h.at, ptr, p)
        BY <1>6, <1>7, <1>11, <2>3
      <3>2. x = SectorAt(g.at, ptr, p)
        BY <1>14, <3>1, PathsClosed
      <3> QED
        BY <2>1, <3>2
    <2> QED
      BY <2>2, <2>3
  <1>22. Fills(f, g, {s})
    BY <1>21 DEF Fills
  <1>23. f.map \subseteq g.map
    BY <1>6, <1>7, <1>11
  <1>24. \A t \in I \ {0} : g.at[t] = f.at[t]
    BY <1>13, <1>19 DEF Aside
  <1>25. g.at[0].kind = "inode" => g.at[0] = f.at[0]
    BY <1>13 DEF Aside
  <1>26. Adds(f, I, o, s, g, c)
    BY <1>5, <1>6, <1>11, <1>19, <1>20, <1>22, <1>23, <1>24, <1>25 DEF Adds
  <1> QED
    BY <1>5, <1>8, <1>26

\* A step changes no file: what it takes, it adds to the root directory, or it has
\* failed and the sectors are in nobody's file.
Leaves(f, I, o, g) ==
    /\ Sound(g, I, o) /\ Keeps(f, g, I) /\ f.map \subseteq g.map
    /\ \A t \in I \ {0, 1} : g.at[t] = f.at[t]
    /\ g.at[0].kind = "inode" => g.at[0] = f.at[0]

LEMMA NewFails ==
    ASSUME NEW f, NEW I, NEW o, Sound(f, I, o), NEW s \in Bits \ f.map, NEW n \in Nat,
           NEW r, r = inode_reserve([f EXCEPT !.map = @ \cup {s}], NoPointers, n),
           NEW g, g = free_map_release(r.fs, {s})
    PROVE  Leaves(f, I, o, g)
  <1>1. PICK k : k = [f EXCEPT !.map = @ \cup {s}]
    OBVIOUS
  <1>2. PICK Q : ReservingNew(f, I, o, s, n, r, k, Q)
    BY <1>1, ReserveNew
  <1>3. PICK h, J, X : h = r.fs /\ J = I \cup {s} /\ X = {s}
    OBVIOUS
  <1>4. /\ k.map = f.map \cup {s} /\ Extends(k, NoPointers, r, n)
        /\ Forest(h, J, Q) /\ Aside(f, o, h, J, Q, s)
        /\ s \notin I /\ s # 0 /\ s \in Sector
    BY <1>2, <1>3 DEF ReservingNew
  <1>5. k.map \subseteq h.map
    BY <1>3, <1>4 DEF Extends
  <1>6. PICK R : R = [t \in I |-> Q[t]]
    OBVIOUS
  <1>7. I \in SUBSET J /\ 0 \in I /\ 1 \in I /\ I \cap X = {} /\ J \ {s} = I
    BY <1>3, <1>4 DEF Sound, Forest
  <1>8. \A t \in I, p \in AllPaths : SectorAt(h.at, Q[t], p) # 0 => SectorAt(h.at, Q[t], p) \notin X
    BY <1>3, <1>4 DEF Forest, Apart
  <1>9. g = free_map_release(h, X)
    BY <1>3
  <1>10. Forest(g, I, R) /\ g.at = h.at /\ g.map = h.map \ X
    BY ONLY <1>4, <1>6, <1>7, <1>8, <1>9, ForestDrop
  <1>11. Aside(f, o, g, I, R, s)
    BY <1>4, <1>6, <1>7, <1>10 DEF Aside
  <1>12. OpenedFrom(f, o, o, I, s)
    BY DEF OpenedFrom, Sound, OpenInodes
  <1>13. I \ {s} \subseteq I /\ I \ {s} = I
    BY <1>4
  <1>14. Sound(g, I, o) /\ Keeps(f, g, I \ {s})
    BY <1>4, <1>7, <1>10, <1>11, <1>12, <1>13, Resound
  <1>15. f.map \subseteq g.map
    BY <1>3, <1>4, <1>5, <1>10
  <1>16. \A t \in I \ {0} : g.at[t] = f.at[t]
    BY <1>11, <1>13 DEF Aside
  <1>17. g.at[0].kind = "inode" => g.at[0] = f.at[0]
    BY <1>11 DEF Aside
  <1> QED
    BY <1>13, <1>14, <1>15, <1>16, <1>17 DEF Leaves
--------------------------------------------------------------------------------
(***************************************************************************)
(* The directory.                                                          *)
(***************************************************************************)

Used(d) == {k \in DOMAIN d \ {0} : d[k].in_use}

FilesIn(d) == {d[k].inode_sector : k \in Used(d)}

InodesIn(d) == {0, 1} \cup FilesIn(d)

EntryType == [name : Name \cup {NoName}, inode_sector : Nat, in_use : BOOLEAN]

\* Entries without gaps, the parent's first; no name and no inode is there twice, and
\* no system inode.
Directory(d) ==
    /\ d = [k \in DOMAIN d |-> d[k]] /\ \E K \in Nat : DOMAIN d = 0 .. K
    /\ \A k \in DOMAIN d : d[k] \in EntryType
    /\ d[0].in_use
    /\ \A k \in Used(d) : d[k].name \in Name /\ d[k].inode_sector \notin {0, 1}
    /\ \A k, l \in Used(d) :
          d[k].name = d[l].name \/ d[k].inode_sector = d[l].inode_sector => k = l

\* The file n has its inode at s.
Linked(d, n, s) == \E k \in Used(d) : d[k].name = n /\ d[k].inode_sector = s

LEMMA Lookup ==
    ASSUME NEW d, Directory(d)
    PROVE  /\ \A n : InDirectory(d, n) <=> Linked(d, n, InodeSector(d, n))
           /\ \A n, s : Linked(d, n, s) => InDirectory(d, n) /\ InodeSector(d, n) = s
           /\ \A n, m, s : Linked(d, n, s) /\ Linked(d, m, s) => n = m
           /\ \A n : InDirectory(d, n) => n \in Name
           /\ \A n, s : Linked(d, n, s) => s \in FilesIn(d) /\ s \notin {0, 1}
           /\ \A s \in FilesIn(d) : \E n \in Name : Linked(d, n, s)
           /\ \A n : InDirectory(d, n) => EntryOf(d, n) \in Used(d) /\ d[EntryOf(d, n)].name = n
  <1>1. \A n : EntriesOf(d, n) = {k \in Used(d) : d[k].name = n}
    BY DEF EntriesOf, Used
  <1>2. ASSUME NEW n, NEW k \in Used(d), d[k].name = n
        PROVE  EntryOf(d, n) = k /\ InDirectory(d, n)
    <2>1. EntriesOf(d, n) = {k}
      BY <1>1, <1>2 DEF Directory
    <2>2. k \in Nat
      BY DEF Used, Directory
    <2>3. k \in EntriesOf(d, n) /\ \A l \in EntriesOf(d, n) : k <= l
      BY <2>1, <2>2
    <2>4. EntryOf(d, n) \in EntriesOf(d, n)
      BY <2>3 DEF EntryOf
    <2> QED
      BY <2>1, <2>4 DEF InDirectory
  <1>3. ASSUME NEW n, InDirectory(d, n)
        PROVE  EntryOf(d, n) \in Used(d) /\ d[EntryOf(d, n)].name = n
    <2>1. PICK k \in Used(d) : d[k].name = n
      BY <1>1, <1>3 DEF InDirectory
    <2> QED
      BY <1>2, <2>1
  <1>4. ASSUME NEW n PROVE InDirectory(d, n) <=> Linked(d, n, InodeSector(d, n))
    BY <1>2, <1>3 DEF Linked, InodeSector
  <1>5. ASSUME NEW n, NEW s, Linked(d, n, s)
        PROVE  InDirectory(d, n) /\ InodeSector(d, n) = s /\ s \in FilesIn(d) /\ s \notin {0, 1}
    <2>1. PICK k \in Used(d) : d[k].name = n /\ d[k].inode_sector = s
      BY <1>5 DEF Linked
    <2> QED
      BY <1>2, <2>1 DEF InodeSector, FilesIn, Directory
  <1>6. ASSUME NEW n, NEW m, NEW s, Linked(d, n, s), Linked(d, m, s) PROVE n = m
    BY <1>6 DEF Linked, Directory
  <1>7. \A s \in FilesIn(d) : \E n \in Name : Linked(d, n, s)
    BY DEF FilesIn, Linked, Directory
  <1>8. \A n : InDirectory(d, n) => n \in Name
    BY <1>3 DEF Directory
  <1> QED
    BY <1>3, <1>4, <1>5, <1>6, <1>7, <1>8

\* The search for a free entry ends at one, or behind the last.
LEMMA FreeEntryIs ==
    ASSUME NEW d, Directory(d)
    PROVE  /\ FreeEntry(d) \in Nat \ {0}
           /\ FreeEntry(d) \notin Used(d)
           /\ \E K \in Nat : DOMAIN d = 0 .. K /\ FreeEntry(d) <= K + 1
           /\ \A l \in 0 .. FreeEntry(d) - 1 : d[l].in_use
  <1>1. PICK K \in Nat : DOMAIN d = 0 .. K
    BY DEF Directory
  <1>2. Cardinality(DOMAIN d) = K + 1
    BY <1>1, FS_Interval
  <1> DEFINE S == {k \in 0 .. K + 1 : k \in DOMAIN d => ~d[k].in_use}
             Free(k) == (k \in DOMAIN d => ~d[k].in_use) /\ \A l \in 0 .. k - 1 : d[l].in_use
  <1>3. K + 1 \in S /\ S \in SUBSET Nat
    BY <1>1
  <1>4. PICK k \in S : \A l \in S : k <= l
    BY <1>3, LeastElement
  <1>5. \A l \in 0 .. k - 1 : d[l].in_use
    <2>1. ASSUME NEW l \in 0 .. k - 1, ~d[l].in_use PROVE FALSE
      <3>1. l \in S
        BY <1>3, <1>4, <2>1
      <3> QED
        BY <1>3, <1>4, <3>1
    <2> QED
      BY <2>1
  <1>6. \E j \in 0 .. K + 1 : Free(j)
    BY <1>3, <1>4, <1>5
  <1>7. PICK j : j = FreeEntry(d)
    OBVIOUS
  <1>8. j = CHOOSE i \in 0 .. K + 1 : Free(i)
    BY <1>2, <1>7 DEF FreeEntry
  <1> HIDE DEF Free
  <1>9. j \in 0 .. K + 1 /\ Free(j)
    BY <1>6, <1>8
  <1> USE DEF Free
  <1>10. j # 0
    BY <1>1, <1>9 DEF Directory
  <1>11. j \notin Used(d)
    BY <1>9 DEF Used
  <1> QED
    BY <1>1, <1>7, <1>9, <1>10, <1>11

\* What entering the file n with its inode at s makes of the directory.
Links(d, n, s, e) ==
    /\ Directory(e)
    /\ \A m, t : Linked(e, m, t) <=> Linked(d, m, t) \/ (m = n /\ t = s)
    /\ InodesIn(e) = InodesIn(d) \cup {s}
    /\ Used(e) = Used(d) \cup {FreeEntry(d)}
    /\ DOMAIN e = DOMAIN d \cup {FreeEntry(d)}

LEMMA EntryAdded ==
    ASSUME NEW d, Directory(d), NEW n \in Name, ~InDirectory(d, n),
           NEW s \in Nat, s \notin InodesIn(d),
           NEW e, e = With(d, FreeEntry(d), [name |-> n, inode_sector |-> s, in_use |-> TRUE])
    PROVE  Links(d, n, s, e)
  <1>0. /\ \A k \in DOMAIN d : d[k] \in EntryType
        /\ d[0].in_use
        /\ \A k \in Used(d) : d[k].name \in Name /\ d[k].inode_sector \notin {0, 1}
        /\ \A k, l \in Used(d) :
              d[k].name = d[l].name \/ d[k].inode_sector = d[l].inode_sector => k = l
    BY DEF Directory
  <1>1. PICK j : j = FreeEntry(d)
    OBVIOUS
  <1>2. j \in Nat \ {0} /\ j \notin Used(d)
    BY <1>1, FreeEntryIs
  <1>3. PICK K \in Nat : DOMAIN d = 0 .. K /\ j <= K + 1
    BY <1>1, FreeEntryIs
  <1>4. PICK x : x = [name |-> n, inode_sector |-> s, in_use |-> TRUE]
    OBVIOUS
  <1>5. x \in EntryType /\ x.name = n /\ x.inode_sector = s /\ x.in_use
    BY <1>4 DEF EntryType
  <1>6. e = [k \in 0 .. K \cup {j} |-> IF k = j THEN x ELSE d[k]]
    BY <1>1, <1>3, <1>4 DEF With
  <1>7. DOMAIN e = 0 .. K \cup {j} /\ e[j] = x /\ \A k \in 0 .. K \ {j} : e[k] = d[k]
    BY <1>6
  <1>8. \E L \in Nat : DOMAIN e = 0 .. L
    <2>1. CASE j \in 0 .. K
      BY <1>7, <2>1
    <2>2. CASE j = K + 1
      <3>1. 0 .. K \cup {j} = 0 .. K + 1
        BY <2>2
      <3>2. DOMAIN e = 0 .. K + 1 /\ K + 1 \in Nat
        BY ONLY <1>7, <3>1
      <3> QED
        BY <3>2
    <2>3. j \in 0 .. K \/ j = K + 1
      BY ONLY <1>2, <1>3
    <2> QED
      BY ONLY <2>1, <2>2, <2>3
  <1>9. Used(e) = Used(d) \cup {j}
    <2>1. j \in Used(e)
      BY <1>2, <1>3, <1>5, <1>7 DEF Used
    <2>2. ASSUME NEW k, k # j PROVE k \in Used(e) <=> k \in Used(d)
      BY <1>3, <1>7, <2>2 DEF Used
    <2> QED
      BY <2>1, <2>2
  <1>10. \A k \in Used(d) : e[k] = d[k] /\ k # j
    BY <1>2, <1>3, <1>7 DEF Used
  <1>11. \A k \in Used(d) : d[k].name # n /\ d[k].inode_sector # s
    BY DEF InDirectory, EntriesOf, Used, InodesIn, FilesIn
  <1>12. Directory(e)
    <2>1. e = [k \in DOMAIN e |-> e[k]]
      BY <1>6
    <2>2. \A k \in DOMAIN e : e[k] \in EntryType
      BY <1>3, <1>5, <1>7 DEF Directory
    <2>3. e[0].in_use
      BY ONLY <1>0, <1>2, <1>3, <1>7
    <2>4. \A k \in Used(e) : e[k].name \in Name /\ e[k].inode_sector \notin {0, 1}
      <3>1. s \notin {0, 1}
        BY DEF InodesIn
      <3> QED
        BY ONLY <1>0, <1>5, <1>7, <1>9, <1>10, <3>1, n \in Name
    <2>5. \A k, l \in Used(e) :
             e[k].name = e[l].name \/ e[k].inode_sector = e[l].inode_sector => k = l
      BY ONLY <1>0, <1>5, <1>7, <1>9, <1>10, <1>11
    <2> QED
      BY <1>8, <2>1, <2>2, <2>3, <2>4, <2>5 DEF Directory
  <1>13. ASSUME NEW m, NEW t PROVE Linked(e, m, t) <=> Linked(d, m, t) \/ (m = n /\ t = s)
    BY ONLY <1>5, <1>7, <1>9, <1>10 DEF Linked
  <1>14. FilesIn(e) = FilesIn(d) \cup {s}
    BY ONLY <1>5, <1>7, <1>9, <1>10 DEF FilesIn
  <1> QED
    BY <1>1, <1>3, <1>7, <1>9, <1>12, <1>13, <1>14 DEF InodesIn, Links

Unlinks(d, n, e) ==
    /\ Directory(e)
    /\ \A m, t : Linked(e, m, t) <=> Linked(d, m, t) /\ m # n
    /\ InodesIn(e) = InodesIn(d) \ {InodeSector(d, n)}

LEMMA EntryRemoved ==
    ASSUME NEW d, Directory(d), NEW n, InDirectory(d, n),
           NEW e, e = [d EXCEPT ![EntryOf(d, n)].in_use = FALSE]
    PROVE  Unlinks(d, n, e)
  <1>0. /\ \A k \in DOMAIN d : d[k] \in EntryType
        /\ d[0].in_use
        /\ \A k \in Used(d) : d[k].name \in Name /\ d[k].inode_sector \notin {0, 1}
        /\ \A k, l \in Used(d) :
              d[k].name = d[l].name \/ d[k].inode_sector = d[l].inode_sector => k = l
    BY DEF Directory
  <1>1. PICK j : j = EntryOf(d, n)
    OBVIOUS
  <1>2. j \in Used(d) /\ d[j].name = n
    BY <1>1, Lookup
  <1>3. PICK K \in Nat : DOMAIN d = 0 .. K
    BY DEF Directory
  <1>4. j \in 0 .. K /\ j # 0
    BY <1>2, <1>3 DEF Used
  <1>5. PICK x : x = [d[j] EXCEPT !.in_use = FALSE]
    OBVIOUS
  <1>6. x \in EntryType /\ ~x.in_use
    <2>1. d[j] \in EntryType
      BY <1>3, <1>4 DEF Directory
    <2> QED
      BY <1>5, <2>1 DEF EntryType
  <1>7. DOMAIN e = 0 .. K /\ e[j] = x /\ \A k \in 0 .. K \ {j} : e[k] = d[k]
    BY <1>1, <1>3, <1>4, <1>5
  <1>8. Used(e) = Used(d) \ {j}
    BY <1>3, <1>4, <1>6, <1>7 DEF Used
  <1>9. \A k \in Used(e) : e[k] = d[k]
    BY <1>3, <1>7, <1>8 DEF Used
  <1>10. Directory(e)
    <2>1. e = [k \in DOMAIN e |-> e[k]]
      OBVIOUS
    <2>2. \A k \in DOMAIN e : e[k] \in EntryType
      BY <1>3, <1>6, <1>7 DEF Directory
    <2>3. e[0].in_use
      BY ONLY <1>0, <1>3, <1>4, <1>7
    <2>4. \A k \in Used(e) : e[k].name \in Name /\ e[k].inode_sector \notin {0, 1}
      BY <1>8, <1>9 DEF Directory
    <2>5. \A k, l \in Used(e) :
             e[k].name = e[l].name \/ e[k].inode_sector = e[l].inode_sector => k = l
      BY <1>8, <1>9 DEF Directory
    <2> QED
      BY <1>7, <2>1, <2>2, <2>3, <2>4, <2>5 DEF Directory
  <1>11. ASSUME NEW m, NEW t PROVE Linked(e, m, t) <=> Linked(d, m, t) /\ m # n
    <2>1. \A k \in Used(d) : d[k].name = n <=> k = j
      BY <1>2 DEF Directory
    <2> QED
      BY <1>8, <1>9, <2>1 DEF Linked
  <1>12. FilesIn(e) = FilesIn(d) \ {InodeSector(d, n)}
    <2>1. \A k \in Used(d) : d[k].inode_sector = InodeSector(d, n) <=> k = j
      BY <1>1, <1>2 DEF Directory, InodeSector
    <2> QED
      BY ONLY <1>8, <1>9, <2>1 DEF FilesIn
  <1>13. InodeSector(d, n) \notin {0, 1}
    BY Lookup
  <1> QED
    BY <1>10, <1>11, <1>12, <1>13 DEF InodesIn, Unlinks
--------------------------------------------------------------------------------
(***************************************************************************)
(* Creating a file.                                                        *)
(***************************************************************************)

LEMMA KeepsOn ==
    ASSUME NEW f, NEW g, NEW h, NEW I, NEW J, I \subseteq J, Keeps(f, g, I), Keeps(g, h, J)
    PROVE  Keeps(f, h, I)
  BY DEF Keeps

LEMMA FillsOn ==
    ASSUME NEW f, NEW g, NEW h, NEW I, NEW J, Fills(f, g, I), Fills(g, h, J), Keeps(g, h, I)
    PROVE  Fills(f, h, I \cup J)
  BY DEF Fills, Keeps

LEMMA FirstFreeIs ==
    ASSUME NEW map \in SUBSET Bits, ~(Bits \subseteq map)
    PROVE  FirstFree(map) \in Bits \ map
  <1>1. Bits \ map # {} /\ Bits \ map \in SUBSET Nat
    BY ZeroSector
  <1>2. \E s \in Bits \ map : \A t \in Bits \ map : s <= t
    BY <1>1, LeastElement
  <1> QED
    BY <1>2 DEF FirstFree

\* dir_add makes the entry, or changes nothing but the map.
Enters(f, J, o, d, n, s, A) ==
    /\ A.ok \in BOOLEAN
    /\ Leaves(f, J, o, A.fs)
    /\ A.ok => /\ ~InDirectory(d, n)
               /\ A.dir = With(d, FreeEntry(d), [name |-> n, inode_sector |-> s, in_use |-> TRUE])
               /\ Fills(f, A.fs, {1})
    /\ ~A.ok => A.dir = d

LEMMA DirAdd ==
    ASSUME NEW f, NEW J, NEW o, Sound(f, J, o), NEW d, Directory(d), NEW n, NEW s,
           NEW A, A = dir_add(f, d, n, s)
    PROVE  Enters(f, J, o, d, n, s, A)
  <1>1. PICK size : size = (FreeEntry(d) + 1) * EntrySize
    OBVIOUS
  <1>2. size \in Nat
    BY <1>1, FreeEntryIs, FileSystemAssumption
  <1>3. PICK r : r = inode_reserve(f, RootInode(f).ptr, bytes_to_sectors(size))
    OBVIOUS
  <1>4. PICK e : e = With(d, FreeEntry(d), [name |-> n, inode_sector |-> s, in_use |-> TRUE])
    OBVIOUS
  <1>5. PICK g : g = [r.fs EXCEPT !.at[1] = Inode(r.ptr, size)]
    OBVIOUS
  <1>6. A = IF InDirectory(d, n) THEN [ok |-> FALSE, fs |-> f, dir |-> d]
            ELSE IF size <= f.at[1].length THEN [ok |-> TRUE, fs |-> f, dir |-> e]
            ELSE IF ~r.ok THEN [ok |-> FALSE, fs |-> r.fs, dir |-> d]
            ELSE [ok |-> TRUE, dir |-> e, fs |-> g]
    BY <1>1, <1>3, <1>4, <1>5 DEF dir_add, Entered, RootInode, ROOT_DIR_SECTOR
  <1>7. Leaves(f, J, o, f)
    <2>1. Keeps(f, f, J)
      BY DEF Keeps
    <2> QED
      BY <2>1 DEF Leaves
  <1>8. Fills(f, f, {1})
    BY DEF Fills
  <1>9. 1 \in J \ {0} /\ 1 \notin DOMAIN o /\ o = [t \in DOMAIN o |-> o[t]]
    BY DEF Sound, OpenInodes
  <1>10. Held(f, 1) /\ f.at[1].length \in Nat /\ PointersOf(f, o, 1) = f.at[1].ptr
    <2>1. Held(f, 1) /\ f.at[1].length \in Nat
      BY <1>9, SoundInode
    <2> QED
      BY <1>9, <2>1 DEF PointersOf, Held
  <1>11. r = inode_reserve(f, PointersOf(f, o, 1), bytes_to_sectors(size))
    BY <1>3, <1>10 DEF RootInode, ROOT_DIR_SECTOR
  <1>12. PICK n0 : n0 = bytes_to_sectors(size)
    OBVIOUS
  <1>13. n0 \in Nat
    BY <1>2, <1>12, SectorsForBytes
  <1>14. r.ok \in BOOLEAN
    <2>1. PICK ptr : ptr = PointersOf(f, o, 1)
      OBVIOUS
    <2>2. f \in FileSystems /\ ptr \in [Pointers -> Sector]
      BY <1>9, <2>1, SoundInode
    <2> QED
      BY <1>11, <1>12, <1>13, <2>1, <2>2, ReserveType
  <1>15. ASSUME NEW ptr, NEW length PROVE Updated(o, o, 1, ptr, length)
    BY <1>9 DEF Updated
  <1>16. Leaves(f, J, o, r.fs)
    <2>1. GrowsTo(f, J, o, 1, r.fs, o, f.at[1])
      BY <1>9, <1>11, <1>12, <1>13, <1>15, GrowFails
    <2> QED
      BY <2>1 DEF GrowsTo, Leaves
  <1>17. ASSUME r.ok, ~(size <= f.at[1].length) PROVE Leaves(f, J, o, g) /\ Fills(f, g, {1})
    <2>1. f.at[1].length <= size
      BY <1>2, <1>10, <1>17
    <2>2. GrowsTo(f, J, o, 1, g, o, Inode(r.ptr, size)) /\ Fills(f, g, {1})
      BY <1>2, <1>5, <1>9, <1>11, <1>15, <1>17, <2>1, GrowSucceeds
    <2> QED
      BY <2>2 DEF GrowsTo, Leaves
  <1>18. CASE InDirectory(d, n)
    <2>1. A.ok = FALSE /\ A.fs = f /\ A.dir = d
      BY <1>6, <1>18
    <2> QED
      BY <1>7, <2>1 DEF Enters
  <1>19. CASE ~InDirectory(d, n) /\ size <= f.at[1].length
    <2>1. A.ok = TRUE /\ A.fs = f /\ A.dir = e
      BY <1>6, <1>19
    <2> QED
      BY <1>4, <1>7, <1>8, <1>19, <2>1 DEF Enters
  <1>20. CASE ~InDirectory(d, n) /\ ~(size <= f.at[1].length) /\ ~r.ok
    <2>1. A.ok = FALSE /\ A.fs = r.fs /\ A.dir = d
      BY <1>6, <1>20
    <2> QED
      BY <1>16, <2>1 DEF Enters
  <1>21. CASE ~InDirectory(d, n) /\ ~(size <= f.at[1].length) /\ r.ok
    <2>1. A.ok = TRUE /\ A.fs = g /\ A.dir = e
      BY <1>6, <1>21
    <2> QED
      BY <1>4, <1>17, <1>21, <2>1 DEF Enters
  <1> QED
    BY <1>18, <1>19, <1>20, <1>21

\* The file is there, with its size, or nothing has changed but the map.
Creates(f, o, d, n, size, R, s) ==
    /\ ~InDirectory(d, n)
    /\ Directory(R.dir) /\ InodesIn(R.dir) = InodesIn(d) \cup {s}
    /\ \A m, t : Linked(R.dir, m, t) <=> Linked(d, m, t) \/ (m = n /\ t = s)
    /\ Sound(R.fs, InodesIn(R.dir), o)
    /\ Keeps(f, R.fs, InodesIn(d)) /\ Fills(f, R.fs, InodesIn(R.dir))
    /\ s \notin InodesIn(d) /\ R.fs.at[s].length = size
    /\ \A t \in InodesIn(d) \ {0, 1} : R.fs.at[t] = f.at[t]

CreateAnswer(f, o, d, n, size, R) ==
    /\ R.ok \in BOOLEAN
    /\ R.ok => \E s : Creates(f, o, d, n, size, R, s)
    /\ ~R.ok => R.dir = d /\ Leaves(f, InodesIn(d), o, R.fs)

LEMMA FilesysCreate ==
    ASSUME NEW f, NEW o, NEW d, Directory(d), Sound(f, InodesIn(d), o),
           NEW n \in Name, NEW size \in Nat,
           NEW R, R = filesys_create(f, d, n, size)
    PROVE  CreateAnswer(f, o, d, n, size, R)
  <1>1. CASE Bits \subseteq f.map
    <2>1. R = [ok |-> FALSE, fs |-> f, dir |-> d]
      BY <1>1 DEF filesys_create
    <2>2. Keeps(f, f, InodesIn(d))
      BY DEF Keeps
    <2>3. Leaves(f, InodesIn(d), o, f)
      BY <2>2 DEF Leaves
    <2> QED
      BY <2>1, <2>3 DEF CreateAnswer
  <1>2. CASE ~(Bits \subseteq f.map)
    <2>1. PICK I : I = InodesIn(d)
      OBVIOUS
    <2>2. 0 \in I /\ 1 \in I /\ Sound(f, I, o)
      BY <2>1 DEF InodesIn
    <2>3. PICK s : s = FirstFree(f.map)
      OBVIOUS
    <2>4. s \in Bits \ f.map
      <3>1. f.map \in SUBSET Bits
        BY <2>2, SoundInode
      <3> QED
        BY <1>2, <2>3, <3>1, FirstFreeIs
    <2>5. PICK m : m = bytes_to_sectors(size)
      OBVIOUS
    <2>6. m \in Nat
      BY <2>5, SectorsForBytes
    <2>7. PICK r : r = inode_reserve([f EXCEPT !.map = @ \cup {s}], NoPointers, m)
      OBVIOUS
    <2>8. PICK made : made = Created(r, s, size)
      OBVIOUS
    <2>9. R = Filed(made, d, n, s)
      BY <1>2, <2>3, <2>5, <2>7, <2>8 DEF filesys_create, inode_create
    <2>10. r.ok \in BOOLEAN
      <3>1. PICK h : h = [f EXCEPT !.map = @ \cup {s}]
        OBVIOUS
      <3>2. \E Q : ReservingNew(f, I, o, s, m, r, h, Q)
        BY <2>2, <2>4, <2>6, <2>7, <3>1, ReserveNew
      <3> QED
        BY <3>2 DEF ReservingNew, Extends
    <2>11. CASE ~r.ok
      <3>1. made = r
        BY <2>8, <2>11 DEF Created
      <3>2. PICK g : g = free_map_release(r.fs, {s})
        OBVIOUS
      <3>3. R = [ok |-> FALSE, fs |-> g, dir |-> d]
        BY <2>9, <2>11, <3>1, <3>2 DEF Filed, OrGivenBack
      <3>4. Leaves(f, I, o, g)
        BY <2>2, <2>4, <2>6, <2>7, <3>2, NewFails
      <3> QED
        BY <2>1, <3>3, <3>4 DEF CreateAnswer
    <2>12. CASE r.ok
      <3>1. PICK h : h = [r.fs EXCEPT !.at[s] = Inode(r.ptr, size)]
        OBVIOUS
      <3>2. Adds(f, I, o, s, h, Inode(r.ptr, size))
        BY <2>2, <2>4, <2>5, <2>7, <2>12, <3>1, NewSucceeds
      <3>3. made.ok /\ made.fs = h
        <4>1. made = [r EXCEPT !.fs.at[s] = Inode(r.ptr, size)]
          BY <2>8, <2>12 DEF Created
        <4>2. r = [ok |-> r.ok, fs |-> r.fs, ptr |-> r.ptr]
          <5>1. PICK k : k = [f EXCEPT !.map = @ \cup {s}]
            OBVIOUS
          <5>2. r = inode_reserve(k, NoPointers, m)
            BY <2>7, <5>1
          <5> QED
            BY <2>6, <5>2, ReserveRecord
        <4>3. PICK b, u, q, c : b = r.ok /\ u = r.fs /\ q = r.ptr /\ c = Inode(r.ptr, size)
          OBVIOUS
        <4>4. r = [ok |-> b, fs |-> u, ptr |-> q]
          BY <4>2, <4>3
        <4>5. made = [ok |-> b, fs |-> [u EXCEPT !.at[s] = c], ptr |-> q]
          BY <4>1, <4>3, <4>4
        <4> QED
          BY <2>12, <3>1, <4>3, <4>5
      <3>4. PICK A : A = dir_add(h, d, n, s)
        OBVIOUS
      <3>5. PICK J : J = I \cup {s}
        OBVIOUS
      <3>6. /\ Sound(h, J, o) /\ Keeps(f, h, I) /\ Fills(f, h, {s}) /\ f.map \subseteq h.map
            /\ s \notin I /\ s # 0 /\ s # 1
            /\ h.at[s] = Inode(r.ptr, size)
            /\ \A t \in I \ {0} : h.at[t] = f.at[t]
            /\ h.at[0].kind = "inode" => h.at[0] = f.at[0]
        BY <3>2, <3>5 DEF Adds
      <3>7. Enters(h, J, o, d, n, s, A)
        BY <3>4, <3>6, DirAdd
      <3>8. R = OrGivenBack(A, d, s)
        BY <2>9, <3>3, <3>4 DEF Filed
      <3>9. PICK k : k = A.fs
        OBVIOUS
      <3>10. /\ A.ok \in BOOLEAN
             /\ Sound(k, J, o) /\ Keeps(h, k, J) /\ h.map \subseteq k.map
             /\ \A t \in J \ {0, 1} : k.at[t] = h.at[t]
             /\ k.at[0].kind = "inode" => k.at[0] = h.at[0]
        BY <3>7, <3>9 DEF Enters, Leaves
      <3>11. Keeps(f, k, I)
        BY <3>5, <3>6, <3>10, KeepsOn
      <3>12. CASE A.ok
        <4>1. R = A
          BY <3>8, <3>12 DEF OrGivenBack
        <4>2. /\ ~InDirectory(d, n)
              /\ A.dir = With(d, FreeEntry(d), [name |-> n, inode_sector |-> s, in_use |-> TRUE])
              /\ Fills(h, k, {1})
          BY <3>7, <3>9, <3>12 DEF Enters
        <4>3. s \in Nat
          BY <2>4, ZeroSector
        <4>4. PICK e : e = A.dir
          OBVIOUS
        <4>5. /\ Directory(e)
              /\ \A x, t : Linked(e, x, t) <=> Linked(d, x, t) \/ (x = n /\ t = s)
              /\ InodesIn(e) = J
          <5>1. s \notin InodesIn(d) /\ J = InodesIn(d) \cup {s}
            BY <2>1, <3>5, <3>6
          <5>2. /\ ~InDirectory(d, n)
                /\ e = With(d, FreeEntry(d), [name |-> n, inode_sector |-> s, in_use |-> TRUE])
            BY <4>2, <4>4
          <5>3. Links(d, n, s, e)
            BY ONLY <4>3, <5>1, <5>2, Directory(d), n \in Name, EntryAdded
          <5> QED
            BY ONLY <5>1, <5>3 DEF Links
        <4>6. Keeps(h, k, {s})
          BY <3>5, <3>10 DEF Keeps
        <4>7. Fills(f, k, {s} \cup {1})
          BY <3>6, <4>2, <4>6, FillsOn
        <4>8. Fills(f, k, J)
          BY <2>2, <3>5, <4>7 DEF Fills
        <4>9. k.at[s].length = size
          <5>1. k.at[s] = Inode(r.ptr, size)
            BY <3>5, <3>6, <3>10
          <5> QED
            BY <5>1 DEF Inode
        <4>10. \A t \in I \ {0, 1} : k.at[t] = f.at[t]
          BY <3>5, <3>6, <3>10
        <4>11. Creates(f, o, d, n, size, R, s)
          BY <2>1, <3>5, <3>6, <3>9, <3>10, <3>11, <4>1, <4>2, <4>4, <4>5, <4>8, <4>9, <4>10 DEF Creates
        <4> QED
          BY <3>12, <4>1, <4>11 DEF CreateAnswer
      <3>13. CASE ~A.ok
        <4>1. PICK g, X : X = {s} /\ g = free_map_release(k, X)
          OBVIOUS
        <4>2. R = [ok |-> FALSE, fs |-> g, dir |-> d]
          BY <3>8, <3>9, <3>13, <4>1 DEF OrGivenBack
        <4>3. /\ o = [t \in DOMAIN o |-> o[t]]
              /\ DOMAIN o \subseteq I \ {0, 1}
              /\ \A t \in DOMAIN o : (t \in DOMAIN o /\ o[t] = o[t]) \/ o[t] = InodeRead(k, t)
          BY <2>2 DEF Sound, OpenInodes
        <4>4. \A t \in I, p \in AllPaths : SectorAt(k.at, PointersOf(k, o, t), p) # 0
                                              => SectorAt(k.at, PointersOf(k, o, t), p) \notin X
          <5>1. PICK P : P = Pointed(k, J, o)
            OBVIOUS
          <5>2. Forest(k, J, P) /\ \A t \in J : P[t] = PointersOf(k, o, t)
            BY <3>10, <5>1 DEF Sound, Pointed
          <5> QED
            BY <3>5, <4>1, <5>2 DEF Forest, Apart
        <4>5. GivesBack(k, I, g, o, X)
          <5>1. I \in SUBSET J /\ I \cap X = {}
            BY <3>5, <3>6, <4>1
          <5> QED
            BY ONLY <2>2, <3>10, <4>1, <4>3, <4>4, <5>1, GiveBack
        <4>6. Sound(g, I, o) /\ Keeps(k, g, I) /\ g.at = k.at /\ g.map = k.map \ {s}
          BY <4>1, <4>5 DEF GivesBack
        <4>7. Keeps(f, g, I)
          BY <3>11, <4>6, KeepsOn
        <4>8. f.map \subseteq g.map
          BY <2>4, <3>6, <3>10, <4>6
        <4>9. /\ \A t \in I \ {0, 1} : g.at[t] = f.at[t]
              /\ g.at[0].kind = "inode" => g.at[0] = f.at[0]
          BY <3>5, <3>6, <3>10, <4>6
        <4>10. Leaves(f, I, o, g)
          BY <4>6, <4>7, <4>8, <4>9 DEF Leaves
        <4> QED
          BY <2>1, <4>2, <4>10 DEF CreateAnswer
      <3> QED
        BY <3>10, <3>12, <3>13
    <2> QED
      BY <2>10, <2>11, <2>12
  <1> QED
    BY <1>1, <1>2
--------------------------------------------------------------------------------
(***************************************************************************)
(* The inductive invariant.                                                *)
(***************************************************************************)

\* A file of the table is in the directory, and its inode is open unless it was freed.
Tabled(t, d, o) ==
    /\ t = [n \in DOMAIN t |-> t[n]]
    /\ \A n \in DOMAIN t :
          /\ t[n] = [sector |-> InodeSector(d, n), pos |-> t[n].pos, live |-> t[n].live]
          /\ t[n].pos \in Int /\ t[n].live \in BOOLEAN
          /\ InDirectory(d, n)
          /\ t[n].live => InodeSector(d, n) \in DOMAIN o

\* The marked sectors are lost or some inode's, while the map itself is still there.
Accounted(f, I, l) ==
    f.at[0].kind = "inode" => \A x \in f.map : x \in l \/ \E s \in I : x \in OwnedBy(f, s)

Good(f, d, o, t, l) ==
    /\ Directory(d)
    /\ Sound(f, InodesIn(d), o)
    /\ Tabled(t, d, o)
    /\ Accounted(f, InodesIn(d), l)

LEMMA StillAccounted ==
    ASSUME NEW f, NEW g, NEW I, NEW J, NEW l, Accounted(f, I, l), I \subseteq J,
           Keeps(f, g, I), Fills(f, g, J)
    PROVE  Accounted(g, J, l)
  BY DEF Accounted, Keeps, Fills

LEMMA LostAccounted ==
    ASSUME NEW f, NEW g, NEW I, NEW l, Accounted(f, I, l), Keeps(f, g, I)
    PROVE  Accounted(g, I, l \cup (g.map \ f.map))
  BY DEF Accounted, Keeps

LEMMA GoodFiles ==
    ASSUME NEW f, NEW d, NEW o, NEW t, NEW l, Good(f, d, o, t, l)
    PROVE  /\ DOMAIN o \subseteq FilesIn(d)
           /\ o = [s \in DOMAIN o |-> o[s]]
           /\ FilesIn(d) = InodesIn(d) \ {0, 1}
           /\ \A n : InDirectory(d, n) => InodeSector(d, n) \in FilesIn(d) /\ n \in Name
           /\ \A n, m : InDirectory(d, n) /\ InDirectory(d, m) /\ InodeSector(d, n) = InodeSector(d, m)
                          => n = m
           /\ \A s \in FilesIn(d) : Held(f, s) /\ f.at[s].length \in Nat /\ s \in Sector
           /\ \A s \in DOMAIN o : o[s].open_cnt = 1 /\ o[s].length = f.at[s].length
  <1>1. Directory(d) /\ Sound(f, InodesIn(d), o)
    BY DEF Good
  <1>2. FilesIn(d) = InodesIn(d) \ {0, 1}
    BY <1>1, Lookup DEF InodesIn
  <1>3. o = [s \in DOMAIN o |-> o[s]] /\ DOMAIN o \subseteq FilesIn(d)
    BY <1>1, <1>2 DEF Sound, OpenInodes
  <1>4. \A s \in FilesIn(d) : Held(f, s) /\ f.at[s].length \in Nat /\ s \in Sector
    BY <1>1, <1>2, SoundInode
  <1>5. ASSUME NEW s \in DOMAIN o PROVE o[s].open_cnt = 1 /\ o[s].length = f.at[s].length
    <2>1. OpenInode(f, o[s], s)
      BY <1>1 DEF Sound, OpenInodes
    <2>2. PICK i, p, x : i = o[s] /\ p = o[s].ptr /\ x = f.at[s].length
      OBVIOUS
    <2>3. i = [open_cnt |-> 1, ptr |-> p, length |-> x]
      BY <2>1, <2>2 DEF OpenInode
    <2>4. i.open_cnt = 1 /\ i.length = x
      BY ONLY <2>3
    <2> QED
      BY <2>2, <2>4
  <1>6. \A n : InDirectory(d, n) => InodeSector(d, n) \in FilesIn(d) /\ n \in Name
    BY <1>1, Lookup
  <1>7. \A n, m : InDirectory(d, n) /\ InDirectory(d, m) /\ InodeSector(d, n) = InodeSector(d, m)
                    => n = m
    BY <1>1, Lookup
  <1> QED
    BY <1>2, <1>3, <1>4, <1>5, <1>6, <1>7

\* Inodes are opened and closed, and the table agrees.
LEMMA GoodReopened ==
    ASSUME NEW f, NEW d, NEW o, NEW t, NEW l, Good(f, d, o, t, l),
           NEW new, new = [s \in DOMAIN new |-> new[s]], DOMAIN new \subseteq FilesIn(d),
           \A s \in DOMAIN new : (s \in DOMAIN o /\ new[s] = o[s]) \/ new[s] = InodeRead(f, s),
           NEW u, Tabled(u, d, new)
    PROVE  Good(f, d, new, u, l)
  <1>1. FilesIn(d) = InodesIn(d) \ {0, 1}
    BY GoodFiles
  <1>2. PICK I : I = InodesIn(d)
    OBVIOUS
  <1>3. Sound(f, I, o) /\ DOMAIN new \subseteq I \ {0, 1}
    BY <1>1, <1>2 DEF Good
  <1>4. Sound(f, I, new)
    BY <1>3, Reopen
  <1> QED
    BY <1>2, <1>4 DEF Good

LEMMA TabledMore ==
    ASSUME NEW t, NEW d, NEW o, Tabled(t, d, o), NEW new, DOMAIN o \subseteq DOMAIN new
    PROVE  Tabled(t, d, new)
  BY DEF Tabled

LEMMA TabledDangling ==
    ASSUME NEW t, NEW d, NEW o, Tabled(t, d, o), NEW new
    PROVE  /\ Tabled(Dangling(t, new), d, new)
           /\ DOMAIN Dangling(t, new) = DOMAIN t
           /\ \A n \in DOMAIN t : /\ Dangling(t, new)[n].live <=> t[n].live /\ t[n].sector \in DOMAIN new
  <1>1. PICK u : u = Dangling(t, new)
    OBVIOUS
  <1>2. DOMAIN u = DOMAIN t /\ u = [n \in DOMAIN u |-> u[n]]
    BY <1>1 DEF Dangling
  <1>3. ASSUME NEW n \in DOMAIN t
        PROVE  /\ u[n] = [sector |-> InodeSector(d, n), pos |-> u[n].pos, live |-> u[n].live]
               /\ u[n].pos \in Int /\ u[n].live \in BOOLEAN
               /\ InDirectory(d, n)
               /\ u[n].live => InodeSector(d, n) \in DOMAIN new
               /\ u[n].live <=> t[n].live /\ t[n].sector \in DOMAIN new
    <2>1. PICK s, p, b : s = InodeSector(d, n) /\ p = t[n].pos /\ b = t[n].live
      OBVIOUS
    <2>2. t[n] = [sector |-> s, pos |-> p, live |-> b] /\ p \in Int /\ b \in BOOLEAN
      BY <2>1 DEF Tabled
    <2>3. t[n].sector = s
      BY <2>2
    <2>4. u[n] = [t[n] EXCEPT !.live = b /\ s \in DOMAIN new]
      BY <1>1, <2>1, <2>3 DEF Dangling
    <2>5. PICK c : c = (b /\ s \in DOMAIN new)
      OBVIOUS
    <2>6. u[n] = [sector |-> s, pos |-> p, live |-> c]
      BY <2>2, <2>4, <2>5
    <2>7. u[n].pos = p /\ u[n].live = c
      BY <2>6
    <2>8. InDirectory(d, n)
      BY DEF Tabled
    <2>9. c \in BOOLEAN
      BY <2>5
    <2> QED
      BY <2>1, <2>2, <2>3, <2>5, <2>6, <2>7, <2>8, <2>9
  <1>4. Tabled(u, d, new)
    BY <1>2, <1>3 DEF Tabled
  <1> QED
    BY <1>1, <1>2, <1>3, <1>4

\* A file is put into the table.
LEMMA TabledWith ==
    ASSUME NEW t, NEW d, NEW o, Tabled(t, d, o), NEW n, InDirectory(d, n),
           InodeSector(d, n) \in DOMAIN o, NEW pos \in Int,
           NEW e, e = [sector |-> InodeSector(d, n), pos |-> pos, live |-> TRUE]
    PROVE  Tabled(With(t, n, e), d, o)
  <1>1. PICK u : u = With(t, n, e)
    OBVIOUS
  <1>2. /\ DOMAIN u = DOMAIN t \cup {n} /\ u = [m \in DOMAIN u |-> u[m]]
        /\ u[n] = e /\ \A m \in DOMAIN t \ {n} : u[m] = t[m]
    BY <1>1 DEF With
  <1>3. PICK s : s = InodeSector(d, n)
    OBVIOUS
  <1>4. e = [sector |-> s, pos |-> pos, live |-> TRUE]
    BY <1>3
  <1>5. e.pos = pos /\ e.live = TRUE
    BY ONLY <1>4
  <1>6. ASSUME NEW m \in DOMAIN u
        PROVE  /\ u[m] = [sector |-> InodeSector(d, m), pos |-> u[m].pos, live |-> u[m].live]
               /\ u[m].pos \in Int /\ u[m].live \in BOOLEAN
               /\ InDirectory(d, m)
               /\ u[m].live => InodeSector(d, m) \in DOMAIN o
    <2>1. CASE m = n
      BY <1>2, <1>3, <1>4, <1>5, <2>1
    <2>2. CASE m # n
      <3>1. m \in DOMAIN t /\ u[m] = t[m]
        BY <1>2, <2>2
      <3> QED
        BY <3>1 DEF Tabled
    <2> QED
      BY <2>1, <2>2
  <1> QED
    BY <1>1, <1>2, <1>6 DEF Tabled

LEMMA TabledAt ==
    ASSUME NEW t, NEW d, NEW o, Tabled(t, d, o), NEW n \in DOMAIN t, NEW pos \in Int
    PROVE  /\ Tabled([t EXCEPT ![n].pos = pos], d, o)
           /\ DOMAIN [t EXCEPT ![n].pos = pos] = DOMAIN t
  <1>1. PICK u : u = [t EXCEPT ![n].pos = pos]
    OBVIOUS
  <1>2. PICK s, p, b : s = InodeSector(d, n) /\ p = t[n].pos /\ b = t[n].live
    OBVIOUS
  <1>3. /\ t[n] = [sector |-> s, pos |-> p, live |-> b] /\ b \in BOOLEAN
        /\ InDirectory(d, n) /\ (b => s \in DOMAIN o)
    BY <1>2 DEF Tabled
  <1>4. /\ DOMAIN u = DOMAIN t /\ u = [m \in DOMAIN u |-> u[m]]
        /\ u[n] = [t[n] EXCEPT !.pos = pos] /\ \A m \in DOMAIN t \ {n} : u[m] = t[m]
    BY <1>1 DEF Tabled
  <1>5. u[n] = [sector |-> s, pos |-> pos, live |-> b]
    BY <1>3, <1>4
  <1>6. u[n].pos = pos /\ u[n].live = b
    BY <1>5
  <1>7. ASSUME NEW m \in DOMAIN u
        PROVE  /\ u[m] = [sector |-> InodeSector(d, m), pos |-> u[m].pos, live |-> u[m].live]
               /\ u[m].pos \in Int /\ u[m].live \in BOOLEAN
               /\ InDirectory(d, m)
               /\ u[m].live => InodeSector(d, m) \in DOMAIN o
    <2>1. CASE m = n
      BY <1>2, <1>3, <1>5, <1>6, <2>1
    <2>2. CASE m # n
      <3>1. m \in DOMAIN t /\ u[m] = t[m]
        BY <1>4, <2>2
      <3> QED
        BY <3>1 DEF Tabled
    <2> QED
      BY <2>1, <2>2
  <1>8. Tabled(u, d, o)
    BY <1>4, <1>7 DEF Tabled
  <1> QED
    BY <1>1, <1>4, <1>8
--------------------------------------------------------------------------------
(***************************************************************************)
(* The steps of the commands.                                              *)
(***************************************************************************)

Opens(f, d, o, t, l, s, new) ==
    /\ Good(f, d, new, t, l)
    /\ DOMAIN new = DOMAIN o \cup {s}
    /\ \A x \in DOMAIN o : new[x] = o[x]

LEMMA InodeOpen ==
    ASSUME NEW f, NEW d, NEW o, NEW t, NEW l, Good(f, d, o, t, l), NEW s \in FilesIn(d),
           NEW new, new = inode_open(o, f, s)
    PROVE  Opens(f, d, o, t, l, s, new)
  <1>1. /\ new = [x \in DOMAIN new |-> new[x]] /\ DOMAIN new = DOMAIN o \cup {s}
        /\ \A x \in DOMAIN o : new[x] = o[x]
        /\ s \notin DOMAIN o => new[s] = InodeRead(f, s)
    <2>1. CASE s \in DOMAIN o
      <3>1. new = o
        BY <2>1 DEF inode_open
      <3>2. o = [x \in DOMAIN o |-> o[x]]
        BY GoodFiles
      <3> QED
        BY ONLY <2>1, <3>1, <3>2
    <2>2. CASE s \notin DOMAIN o
      <3>1. new = [x \in DOMAIN o \cup {s} |-> IF x = s THEN InodeRead(f, s) ELSE o[x]]
        BY <2>2 DEF inode_open, With
      <3> QED
        BY <2>2, <3>1
    <2> QED
      BY <2>1, <2>2
  <1>2. DOMAIN new \subseteq FilesIn(d)
    BY <1>1, GoodFiles
  <1>3. \A x \in DOMAIN new : (x \in DOMAIN o /\ new[x] = o[x]) \/ new[x] = InodeRead(f, x)
    BY <1>1
  <1>4. Tabled(t, d, new)
    BY <1>1, TabledMore DEF Good
  <1> QED
    BY <1>1, <1>2, <1>3, <1>4, GoodReopened DEF Opens

Closes(f, d, o, t, l, s, new) ==
    /\ Good(f, d, new, Dangling(t, new), l)
    /\ new = [x \in DOMAIN o \ {s} |-> o[x]]
    /\ DOMAIN new = DOMAIN o \ {s}
    /\ Tabled(t, d, new) => Good(f, d, new, t, l)

LEMMA InodeClose ==
    ASSUME NEW f, NEW d, NEW o, NEW t, NEW l, Good(f, d, o, t, l), NEW s \in DOMAIN o,
           NEW new, new = inode_close(o, s)
    PROVE  Closes(f, d, o, t, l, s, new)
  <1>1. new = [x \in DOMAIN o \ {s} |-> o[x]]
    <2>1. o[s].open_cnt = 1
      BY GoodFiles
    <2> QED
      BY <2>1 DEF inode_close, Without
  <1>2. /\ new = [x \in DOMAIN new |-> new[x]] /\ DOMAIN new = DOMAIN o \ {s}
        /\ \A x \in DOMAIN new : (x \in DOMAIN o /\ new[x] = o[x]) \/ new[x] = InodeRead(f, x)
    BY <1>1
  <1>3. DOMAIN new \subseteq FilesIn(d)
    BY <1>2, GoodFiles
  <1>4. Tabled(Dangling(t, new), d, new)
    BY TabledDangling DEF Good
  <1>5. Good(f, d, new, Dangling(t, new), l)
    BY <1>2, <1>3, <1>4, GoodReopened
  <1>6. Tabled(t, d, new) => Good(f, d, new, t, l)
    BY <1>2, <1>3, GoodReopened
  <1> QED
    BY <1>1, <1>2, <1>5, <1>6 DEF Closes

\* inode_write_at on an open inode: the file grows to the end of what is written, or
\* keeps its length.
Writes(f, d, o, t, l, s, end, w) ==
    /\ w.ok \in BOOLEAN
    /\ Good(w.fs, d, w.open, t, IF w.ok THEN l ELSE l \cup (w.fs.map \ f.map))
    /\ DOMAIN w.open = DOMAIN o
    /\ \A x \in InodesIn(d) \ {s, 0} : w.fs.at[x] = f.at[x]
    /\ w.fs.at[s].length = IF w.ok /\ end > f.at[s].length THEN end ELSE f.at[s].length

LEMMA InodeWriteAt ==
    ASSUME NEW f, NEW d, NEW o, NEW t, NEW l, Good(f, d, o, t, l), NEW s \in DOMAIN o,
           NEW size \in Nat, NEW offset \in Int, offset >= 0,
           NEW w, w = inode_write_at(f, o, s, size, offset)
    PROVE  Writes(f, d, o, t, l, s, offset + size, w)
  <1>1. PICK end : end = offset + size
    OBVIOUS
  <1>2. end \in Nat
    BY <1>1
  <1>3. PICK I : I = InodesIn(d)
    OBVIOUS
  <1>4. /\ Directory(d) /\ Sound(f, I, o) /\ Tabled(t, d, o) /\ Accounted(f, I, l)
    BY <1>3 DEF Good
  <1>5. /\ s \in I \ {0} /\ f.at[s].length \in Nat /\ o[s].length = f.at[s].length
        /\ o = [x \in DOMAIN o |-> o[x]]
    <2>1. s \in FilesIn(d) /\ o = [x \in DOMAIN o |-> o[x]]
      BY GoodFiles
    <2> QED
      BY <1>3, <2>1, GoodFiles
  <1>6. CASE end <= f.at[s].length
    <2>1. w = [ok |-> TRUE, fs |-> f, open |-> o]
      BY <1>1, <1>5, <1>6 DEF inode_write_at
    <2>2. w.ok = TRUE /\ w.fs = f /\ w.open = o
      BY <2>1
    <2>3. ~(end > f.at[s].length)
      BY <1>2, <1>5, <1>6
    <2> QED
      BY <1>1, <2>2, <2>3 DEF Writes
  <1>7. CASE ~(end <= f.at[s].length)
    <2>1. end > f.at[s].length /\ f.at[s].length <= end
      BY <1>2, <1>5, <1>7
    <2>2. PICK m : m = bytes_to_sectors(end)
      OBVIOUS
    <2>3. m \in Nat
      BY <1>2, <2>2, SectorsForBytes
    <2>4. PointersOf(f, o, s) = o[s].ptr
      BY DEF PointersOf
    <2>5. PICK r : r = inode_reserve(f, o[s].ptr, m)
      OBVIOUS
    <2>6. r = inode_reserve(f, PointersOf(f, o, s), m)
      BY <2>4, <2>5
    <2>7. w = Grown(o, s, end, r)
      BY <1>1, <1>5, <1>7, <2>2, <2>5 DEF inode_write_at
    <2>8. r.ok \in BOOLEAN
      <3>1. PICK ptr : ptr = PointersOf(f, o, s)
        OBVIOUS
      <3>2. f \in FileSystems /\ ptr \in [Pointers -> Sector]
        BY <1>4, <1>5, <3>1, SoundInode
      <3> QED
        BY <2>3, <2>6, <3>1, <3>2, ReserveType
    <2>9. PICK i, len : i = o[s] /\ len = f.at[s].length
      OBVIOUS
    <2>10. i = [open_cnt |-> 1, ptr |-> i.ptr, length |-> len]
      BY <1>4, <2>9 DEF Sound, OpenInodes, OpenInode
    <2>11. CASE r.ok
      <3>1. PICK g : g = [r.fs EXCEPT !.at[s] = Inode(r.ptr, end)]
        OBVIOUS
      <3>2. PICK new : new = [o EXCEPT ![s].ptr = r.ptr, ![s].length = end]
        OBVIOUS
      <3>3. w.ok = TRUE /\ w.fs = g /\ w.open = new
        BY <2>7, <2>11, <3>1, <3>2 DEF Grown, Extended
      <3>4. /\ new = [x \in DOMAIN new |-> new[x]] /\ DOMAIN new = DOMAIN o
            /\ \A x \in DOMAIN o \ {s} : new[x] = o[x]
            /\ new[s] = [open_cnt |-> 1, ptr |-> r.ptr, length |-> end]
        <4>1. PICK q : q = r.ptr
          OBVIOUS
        <4>2. PICK j : j = [[i EXCEPT !.ptr = q] EXCEPT !.length = end]
          OBVIOUS
        <4>3. new = [x \in DOMAIN o |-> IF x = s THEN j ELSE o[x]]
          BY ONLY <1>5, <2>9, <3>2, <4>1, <4>2, s \in DOMAIN o
        <4>4. j = [open_cnt |-> 1, ptr |-> q, length |-> end]
          <5>1. PICK p : p = i.ptr
            OBVIOUS
          <5>2. i = [open_cnt |-> 1, ptr |-> p, length |-> len]
            BY <2>10, <5>1
          <5>3. [i EXCEPT !.ptr = q] = [open_cnt |-> 1, ptr |-> q, length |-> len]
            BY ONLY <5>2
          <5> QED
            BY ONLY <4>2, <5>3
        <4> QED
          BY ONLY <4>1, <4>3, <4>4, s \in DOMAIN o
      <3>5. Updated(o, new, s, r.ptr, end)
        BY <3>4 DEF Updated
      <3>6. GrowsTo(f, I, o, s, g, new, Inode(r.ptr, end)) /\ Fills(f, g, {s})
        BY <1>2, <1>4, <1>5, <2>1, <2>2, <2>6, <2>11, <3>1, <3>5, GrowSucceeds
      <3>7. Sound(g, I, new) /\ Keeps(f, g, I) /\ Fills(f, g, I)
        BY <1>5, <3>6 DEF GrowsTo, Fills
      <3>8. Accounted(g, I, l)
        BY <1>4, <3>7, StillAccounted
      <3>9. Tabled(t, d, new)
        BY <1>4, <3>4, TabledMore
      <3>10. Good(g, d, new, t, l)
        BY <1>3, <1>4, <3>7, <3>8, <3>9 DEF Good
      <3>11. g.at[s].length = end /\ \A x \in I \ {s, 0} : g.at[x] = f.at[x]
        <4>1. g.at[s] = Inode(r.ptr, end)
          BY <3>6 DEF GrowsTo
        <4> QED
          BY <3>6, <4>1 DEF GrowsTo, Inode
      <3> QED
        BY <1>1, <1>3, <2>1, <3>3, <3>4, <3>10, <3>11 DEF Writes
    <2>12. CASE ~r.ok
      <3>1. PICK g : g = r.fs
        OBVIOUS
      <3>2. PICK new : new = [o EXCEPT ![s].ptr = r.ptr]
        OBVIOUS
      <3>3. w.ok = FALSE /\ w.fs = g /\ w.open = new
        BY <2>7, <2>12, <3>1, <3>2 DEF Grown
      <3>4. /\ new = [x \in DOMAIN new |-> new[x]] /\ DOMAIN new = DOMAIN o
            /\ \A x \in DOMAIN o \ {s} : new[x] = o[x]
            /\ new[s] = [open_cnt |-> 1, ptr |-> r.ptr, length |-> f.at[s].length]
        <4>1. PICK q : q = r.ptr
          OBVIOUS
        <4>2. PICK j : j = [i EXCEPT !.ptr = q]
          OBVIOUS
        <4>3. new = [x \in DOMAIN o |-> IF x = s THEN j ELSE o[x]]
          BY ONLY <1>5, <2>9, <3>2, <4>1, <4>2, s \in DOMAIN o
        <4>4. j = [open_cnt |-> 1, ptr |-> q, length |-> len]
          BY ONLY <2>10, <4>2
        <4> QED
          BY ONLY <2>9, <4>1, <4>3, <4>4, s \in DOMAIN o
      <3>5. Updated(o, new, s, r.ptr, f.at[s].length)
        BY <3>4 DEF Updated
      <3>6. GrowsTo(f, I, o, s, g, new, f.at[s])
        BY <1>4, <1>5, <2>3, <2>6, <3>1, <3>5, GrowFails
      <3>7. Sound(g, I, new) /\ Keeps(f, g, I) /\ g.at[s] = f.at[s]
            /\ \A x \in I \ {s, 0} : g.at[x] = f.at[x]
        BY <3>6 DEF GrowsTo
      <3>8. Accounted(g, I, l \cup (g.map \ f.map))
        BY <1>4, <3>7, LostAccounted
      <3>9. Tabled(t, d, new)
        BY <1>4, <3>4, TabledMore
      <3>10. Good(g, d, new, t, l \cup (g.map \ f.map))
        BY <1>3, <1>4, <3>7, <3>8, <3>9 DEF Good
      <3> QED
        BY <1>1, <1>3, <3>3, <3>4, <3>7, <3>10 DEF Writes
    <2> QED
      BY <2>8, <2>11, <2>12
  <1> QED
    BY <1>6, <1>7

\* The answer of filesys_create, for the whole state.
CreateGood(f, d, o, t, l, n, size, R) ==
    /\ R.ok \in BOOLEAN
    /\ Good(R.fs, R.dir, o, t, IF R.ok THEN l ELSE l \cup (R.fs.map \ f.map))
    /\ R.ok => /\ ~InDirectory(d, n) /\ InDirectory(R.dir, n)
               /\ InodeSector(R.dir, n) \notin InodesIn(d)
               /\ InodesIn(R.dir) = InodesIn(d) \cup {InodeSector(R.dir, n)}
               /\ R.fs.at[InodeSector(R.dir, n)].length = size
               /\ \A m : m # n => /\ InDirectory(R.dir, m) <=> InDirectory(d, m)
                                  /\ InDirectory(d, m) => InodeSector(R.dir, m) = InodeSector(d, m)
    /\ ~R.ok => R.dir = d
    /\ \A x \in InodesIn(d) \ {0, 1} : R.fs.at[x] = f.at[x]

LEMMA CreateStep ==
    ASSUME NEW f, NEW d, NEW o, NEW t, NEW l, Good(f, d, o, t, l),
           NEW n \in Name, NEW size \in Nat, NEW R, R = filesys_create(f, d, n, size)
    PROVE  CreateGood(f, d, o, t, l, n, size, R)
  <1>1. PICK I : I = InodesIn(d)
    OBVIOUS
  <1>2. Directory(d) /\ Sound(f, I, o) /\ Tabled(t, d, o) /\ Accounted(f, I, l)
    BY <1>1 DEF Good
  <1>3. CreateAnswer(f, o, d, n, size, R)
    BY <1>1, <1>2, FilesysCreate
  <1>4. CASE ~R.ok
    <2>1. R.dir = d /\ Leaves(f, I, o, R.fs)
      BY <1>1, <1>3, <1>4 DEF CreateAnswer
    <2>2. PICK g : g = R.fs
      OBVIOUS
    <2>3. Sound(g, I, o) /\ Keeps(f, g, I) /\ \A x \in I \ {0, 1} : g.at[x] = f.at[x]
      BY <2>1, <2>2 DEF Leaves
    <2>4. Accounted(g, I, l \cup (g.map \ f.map))
      BY <1>2, <2>3, LostAccounted
    <2>5. Good(g, d, o, t, l \cup (g.map \ f.map))
      BY <1>1, <1>2, <2>3, <2>4 DEF Good
    <2> QED
      BY <1>1, <1>3, <1>4, <2>1, <2>2, <2>3, <2>5 DEF CreateGood, CreateAnswer
  <1>5. CASE R.ok
    <2>1. PICK s : Creates(f, o, d, n, size, R, s)
      BY <1>3, <1>5 DEF CreateAnswer
    <2>2. PICK g, e, J : g = R.fs /\ e = R.dir /\ J = InodesIn(R.dir)
      OBVIOUS
    <2>3. /\ ~InDirectory(d, n) /\ Directory(e) /\ J = I \cup {s}
          /\ \A m, x : Linked(e, m, x) <=> Linked(d, m, x) \/ (m = n /\ x = s)
          /\ Sound(g, J, o) /\ Keeps(f, g, I) /\ Fills(f, g, J)
          /\ s \notin I /\ g.at[s].length = size
          /\ \A x \in I \ {0, 1} : g.at[x] = f.at[x]
      BY <1>1, <2>1, <2>2 DEF Creates
    <2>4. Linked(e, n, s)
      BY <2>3
    <2>5. InDirectory(e, n) /\ InodeSector(e, n) = s
      BY <2>3, <2>4, Lookup
    <2>6. ASSUME NEW m, m # n
          PROVE  /\ InDirectory(e, m) <=> InDirectory(d, m)
                 /\ InDirectory(d, m) => InodeSector(e, m) = InodeSector(d, m)
      <3>1. \A x : Linked(e, m, x) <=> Linked(d, m, x)
        BY <2>3, <2>6
      <3>2. InDirectory(d, m) => Linked(d, m, InodeSector(d, m))
        BY <1>2, Lookup
      <3>3. InDirectory(e, m) => Linked(e, m, InodeSector(e, m))
        BY <2>3, Lookup
      <3>4. \A x : Linked(d, m, x) => InDirectory(d, m)
        BY <1>2, Lookup
      <3>5. \A x : Linked(e, m, x) => InDirectory(e, m) /\ InodeSector(e, m) = x
        BY <2>3, Lookup
      <3> QED
        BY <3>1, <3>2, <3>3, <3>4, <3>5
    <2>7. Accounted(g, J, l)
      BY <1>2, <2>3, StillAccounted
    <2>8. Tabled(t, e, o)
      <3>1. \A m \in DOMAIN t : InDirectory(e, m) /\ InodeSector(e, m) = InodeSector(d, m)
        BY <1>2, <2>3, <2>6 DEF Tabled
      <3> QED
        BY <1>2, <3>1 DEF Tabled
    <2>9. Good(g, e, o, t, l)
      BY <2>2, <2>3, <2>7, <2>8 DEF Good
    <2> QED
      BY <1>1, <1>5, <2>2, <2>3, <2>5, <2>6, <2>9 DEF CreateGood
  <1> QED
    BY <1>3, <1>4, <1>5 DEF CreateAnswer

\* What removing the file n leaves: the sectors of its inode, and only those, are given
\* back, and its inode is closed.
Removes(f, d, o, t, l, n, g, e, closed, u) ==
    /\ Good(g, e, closed, u, l)
    /\ g.at = f.at /\ g.map = f.map \ OwnedBy(f, InodeSector(d, n))
    /\ \A m : InDirectory(e, m) <=> InDirectory(d, m) /\ m # n
    /\ \A m : InDirectory(e, m) => InodeSector(e, m) = InodeSector(d, m)
    /\ InodesIn(e) = InodesIn(d) \ {InodeSector(d, n)}
    /\ DOMAIN u = DOMAIN t \ {n}
    /\ \A m \in DOMAIN u : u[m].live <=> t[m].live

LEMMA RemovedInode ==
    ASSUME NEW f, NEW d, NEW o, NEW t, NEW l, Good(f, d, o, t, l),
           NEW n, InDirectory(d, n), n \in DOMAIN t => t[n].live,
           NEW s, s = InodeSector(d, n),
           NEW o1, o1 = IF n \in DOMAIN t THEN inode_close(o, t[n].sector) ELSE o,
           NEW i, i = inode_open(o1, f, s)[s],
           NEW closed, closed = inode_close(inode_open(o1, f, s), s)
    PROVE  /\ closed = [x \in DOMAIN o \ {s} |-> o[x]]
           /\ {s} \cup Deallocated(f.at, i.ptr, i.length) = OwnedBy(f, s)
  <1>1. s \in FilesIn(d)
    BY GoodFiles
  <1>2. n \in DOMAIN t => t[n].sector = s /\ s \in DOMAIN o
    <2>1. SUFFICES ASSUME n \in DOMAIN t PROVE t[n].sector = s /\ s \in DOMAIN o
      OBVIOUS
    <2>2. PICK p, b : p = t[n].pos /\ b = t[n].live
      OBVIOUS
    <2>3. t[n] = [sector |-> s, pos |-> p, live |-> b] /\ s \in DOMAIN o
      BY <2>1, <2>2 DEF Good, Tabled
    <2> QED
      BY <2>3
  <1>3. Sound(f, InodesIn(d), o)
    BY DEF Good
  <1>4. o = [x \in DOMAIN o |-> o[x]]
    BY GoodFiles
  <1>5. /\ o1 = [x \in DOMAIN o1 |-> o1[x]] /\ DOMAIN o1 \subseteq DOMAIN o
        /\ \A x \in DOMAIN o1 : o1[x] = o[x]
        /\ DOMAIN o1 \ {s} = DOMAIN o \ {s}
    <2>1. CASE n \in DOMAIN t
      <3>1. o1 = inode_close(o, s)
        BY <1>2, <2>1
      <3>2. o1 = [x \in DOMAIN o \ {s} |-> o[x]]
        <4>1. s \in DOMAIN o /\ Good(f, d, o, t, l)
          BY <1>2, <2>1
        <4>2. Closes(f, d, o, t, l, s, o1)
          BY ONLY <3>1, <4>1, InodeClose
        <4> QED
          BY ONLY <4>2 DEF Closes
      <3> QED
        BY ONLY <3>2
    <2>2. CASE n \notin DOMAIN t
      <3>1. o1 = o
        BY <2>2
      <3> QED
        BY ONLY <1>4, <3>1
    <2> QED
      BY <2>1, <2>2
  <1>6. PICK o2 : o2 = inode_open(o1, f, s)
    OBVIOUS
  <1>7. /\ o2 = [x \in DOMAIN o1 \cup {s} |-> IF x \in DOMAIN o1 THEN o1[x] ELSE InodeRead(f, s)]
    <2>1. CASE s \in DOMAIN o1
      <3>1. o2 = o1
        BY <1>6, <2>1 DEF inode_open
      <3> QED
        BY ONLY <1>5, <2>1, <3>1
    <2>2. CASE s \notin DOMAIN o1
      <3>1. o2 = [x \in DOMAIN o1 \cup {s} |-> IF x = s THEN InodeRead(f, s) ELSE o1[x]]
        BY <1>6, <2>2 DEF inode_open, With
      <3> QED
        BY ONLY <2>2, <3>1
    <2> QED
      BY <2>1, <2>2
  <1>8. i = o2[s] /\ closed = inode_close(o2, s)
    BY <1>6
  <1>9. /\ i.open_cnt = 1 /\ i.length = f.at[s].length
        /\ i.ptr \in [Pointers -> Sector] /\ PartOf(f.at[s].ptr, i.ptr)
    <2>1. CASE s \in DOMAIN o1
      <3>1. i = o[s] /\ s \in DOMAIN o
        BY <1>5, <1>7, <1>8, <2>1
      <3>2. OpenInode(f, i, s)
        BY <1>3, <3>1 DEF Sound, OpenInodes
      <3>3. i.open_cnt = 1 /\ i.length = f.at[s].length
        BY <3>1, GoodFiles
      <3> QED
        BY <3>2, <3>3 DEF OpenInode
    <2>2. CASE s \notin DOMAIN o1
      <3>1. PICK p, len : p = f.at[s].ptr /\ len = f.at[s].length
        OBVIOUS
      <3>2. i = [open_cnt |-> 1, ptr |-> p, length |-> len]
        BY <1>7, <1>8, <2>2, <3>1 DEF InodeRead
      <3>3. i.open_cnt = 1 /\ i.ptr = p /\ i.length = len
        BY ONLY <3>2
      <3>4. p \in [Pointers -> Sector]
        BY <1>1, <1>3, <3>1, GoodFiles, SoundInode
      <3>5. PartOf(p, p)
        BY DEF PartOf
      <3> QED
        BY <3>1, <3>3, <3>4, <3>5
    <2> QED
      BY <2>1, <2>2
  <1>10. closed = [x \in DOMAIN o \ {s} |-> o[x]]
    <2>1. closed = [x \in DOMAIN o2 \ {s} |-> o2[x]]
      BY <1>8, <1>9 DEF inode_close, Without
    <2> QED
      BY ONLY <1>5, <1>7, <2>1
  <1>11. {s} \cup Deallocated(f.at, i.ptr, i.length) = OwnedBy(f, s)
    <2>1. PICK disk, len : disk = f.at[s].ptr /\ len = f.at[s].length
      OBVIOUS
    <2>2. /\ disk \in [Pointers -> Sector] /\ len \in Nat /\ Held(f, s)
          /\ f.at \in [Sector -> Contents]
      BY <1>1, <1>3, <2>1, GoodFiles, SoundInode
    <2>3. PICK m \in Nat : m = bytes_to_sectors(len)
      BY <2>2, SectorsForBytes
    <2>4. ASSUME NEW p \in Paths(m) PROVE SectorAt(f.at, i.ptr, p) = SectorAt(f.at, disk, p)
      <3>1. p \in AllPaths
        BY PathsClosed
      <3>2. SectorAt(f.at, disk, p) # 0
        BY <2>1, <2>2, <2>3 DEF Held
      <3>3. PICK q : q = i.ptr
        OBVIOUS
      <3>4. q \in [Pointers -> Sector] /\ PartOf(disk, q)
        BY <1>9, <2>1, <3>3
      <3>5. SectorAt(f.at, disk, p) = SectorAt(f.at, q, p)
        BY <2>2, <3>1, <3>2, <3>4, PartSectors
      <3> QED
        BY <3>3, <3>5
    <2>5. OwnedBy(f, s) = {s} \cup {SectorAt(f.at, disk, p) : p \in Paths(m)}
      BY <2>1, <2>3 DEF OwnedBy, SectorsOf
    <2>6. Deallocated(f.at, i.ptr, i.length) = {SectorAt(f.at, i.ptr, p) : p \in Paths(m)}
      BY <1>9, <2>1, <2>3 DEF Deallocated, SectorsOf
    <2> QED
      BY <2>4, <2>5, <2>6
  <1> QED
    BY <1>10, <1>11

\* The sectors of an inode are not in the others' trees.
LEMMA OwnedApart ==
    ASSUME NEW f, NEW J, NEW o, Sound(f, J, o), NEW s \in J, Held(f, s), NEW x \in OwnedBy(f, s)
    PROVE  /\ x = s \/ x \notin J
           /\ x \in f.map
           /\ \A t \in J \ {s}, p \in AllPaths :
                 SectorAt(f.at, PointersOf(f, o, t), p) # 0 => SectorAt(f.at, PointersOf(f, o, t), p) # x
  <1>1. PICK P : P = Pointed(f, J, o)
    OBVIOUS
  <1>2. /\ \A t \in J, p \in AllPaths :
              SectorAt(f.at, P[t], p) # 0 => SectorAt(f.at, P[t], p) \in f.map \ J
        /\ \A t, u \in J : \A p, q \in AllPaths :
              SectorAt(f.at, P[t], p) # 0 /\ SectorAt(f.at, P[t], p) = SectorAt(f.at, P[u], q)
                 => t = u /\ p = q
    BY <1>1 DEF Sound, Forest, Apart
  <1>3. \A t \in J : P[t] = PointersOf(f, o, t)
    BY <1>1 DEF Pointed
  <1>4. CASE x = s
    <2>1. s \in f.map
      BY SoundInode
    <2> QED
      BY <1>2, <1>3, <1>4, <2>1
  <1>5. CASE x # s
    <2>1. PICK disk, len : disk = f.at[s].ptr /\ len = f.at[s].length
      OBVIOUS
    <2>2. /\ disk \in [Pointers -> Sector] /\ len \in Nat /\ f.at \in [Sector -> Contents]
          /\ PointersOf(f, o, s) \in [Pointers -> Sector] /\ PartOf(disk, PointersOf(f, o, s))
      BY <2>1, SoundInode
    <2>3. PICK m \in Nat : m = bytes_to_sectors(len)
      BY <2>2, SectorsForBytes
    <2>4. PICK p \in Paths(m) : x = SectorAt(f.at, disk, p)
      BY <1>5, <2>1, <2>3 DEF OwnedBy, SectorsOf
    <2>5. p \in AllPaths /\ SectorAt(f.at, disk, p) # 0
      BY <2>1, <2>3, PathsClosed DEF Held
    <2>6. PICK ptr : ptr = PointersOf(f, o, s)
      OBVIOUS
    <2>7. SectorAt(f.at, disk, p) = SectorAt(f.at, ptr, p)
      BY <2>2, <2>5, <2>6, PartSectors
    <2>8. x = SectorAt(f.at, P[s], p) /\ x # 0
      BY <1>3, <2>4, <2>5, <2>6, <2>7
    <2> QED
      BY <1>2, <1>3, <2>5, <2>8
  <1> QED
    BY <1>4, <1>5

LEMMA RemoveFields ==
    ASSUME NEW f, NEW d, NEW o, NEW t, NEW l, Good(f, d, o, t, l),
           NEW n, InDirectory(d, n), n \in DOMAIN t => t[n].live,
           NEW e, e = [d EXCEPT ![EntryOf(d, n)].in_use = FALSE],
           NEW closed, closed = [x \in DOMAIN o \ {InodeSector(d, n)} |-> o[x]],
           NEW u, u = Dangling(Without(t, n), closed),
           NEW g, g = free_map_release(f, OwnedBy(f, InodeSector(d, n)))
    PROVE  Removes(f, d, o, t, l, n, g, e, closed, u)
  <1>1. PICK s, J, I, X : s = InodeSector(d, n) /\ J = InodesIn(d) /\ I = J \ {s} /\ X = OwnedBy(f, s)
    OBVIOUS
  <1>2. Directory(d) /\ Sound(f, J, o) /\ Tabled(t, d, o) /\ Accounted(f, J, l)
    BY <1>1 DEF Good
  <1>3. /\ Directory(e)
        /\ \A m, x : Linked(e, m, x) <=> Linked(d, m, x) /\ m # n
        /\ InodesIn(e) = I
    <2>1. Unlinks(d, n, e)
      BY <1>2, EntryRemoved
    <2> QED
      BY <1>1, <2>1 DEF Unlinks
  <1>4. s \in FilesIn(d) /\ s \in J /\ s # 0 /\ s # 1 /\ 0 \in I /\ 1 \in I /\ Held(f, s)
    <2>1. s \in FilesIn(d) /\ FilesIn(d) = J \ {0, 1}
      BY <1>1, GoodFiles
    <2>2. Held(f, s)
      BY <2>1, GoodFiles
    <2> QED
      BY <1>1, <2>1, <2>2 DEF InodesIn
  <1>5. \A x \in X : (x = s \/ x \notin J) /\ \A y \in J \ {s}, p \in AllPaths :
            SectorAt(f.at, PointersOf(f, o, y), p) # 0 => SectorAt(f.at, PointersOf(f, o, y), p) # x
    BY <1>1, <1>2, <1>4, OwnedApart
  <1>6. I \cap X = {} /\ \A y \in I, p \in AllPaths :
            SectorAt(f.at, PointersOf(f, o, y), p) # 0 => SectorAt(f.at, PointersOf(f, o, y), p) \notin X
    BY <1>1, <1>5
  <1>7. /\ closed = [x \in DOMAIN closed |-> closed[x]] /\ DOMAIN closed = DOMAIN o \ {s}
        /\ \A x \in DOMAIN closed : (x \in DOMAIN o /\ closed[x] = o[x]) \/ closed[x] = InodeRead(f, x)
    BY <1>1
  <1>8. DOMAIN closed \subseteq I \ {0, 1}
    BY <1>1, <1>2, <1>7 DEF Sound, OpenInodes
  <1>9. GivesBack(f, I, g, closed, X)
    <2>1. g = free_map_release(f, X) /\ I \in SUBSET J
      BY <1>1
    <2> QED
      BY ONLY <1>2, <1>4, <1>6, <1>7, <1>8, <2>1, GiveBack
  <1>10. Sound(g, I, closed) /\ g.at = f.at /\ g.map = f.map \ X
    BY <1>9 DEF GivesBack
  <1>11. ASSUME NEW m
         PROVE  /\ InDirectory(e, m) <=> InDirectory(d, m) /\ m # n
                /\ InDirectory(e, m) => InodeSector(e, m) = InodeSector(d, m)
    <2>1. /\ InDirectory(d, m) => Linked(d, m, InodeSector(d, m))
          /\ \A x : Linked(d, m, x) => InDirectory(d, m) /\ InodeSector(d, m) = x
      BY <1>2, Lookup
    <2>2. /\ InDirectory(e, m) => Linked(e, m, InodeSector(e, m))
          /\ \A x : Linked(e, m, x) => InDirectory(e, m) /\ InodeSector(e, m) = x
      BY ONLY <1>3, Lookup
    <2> QED
      BY <1>3, <2>1, <2>2
  <1>12. PICK v : v = Without(t, n)
    OBVIOUS
  <1>13. /\ DOMAIN v = DOMAIN t \ {n} /\ v = [m \in DOMAIN v |-> v[m]]
         /\ \A m \in DOMAIN v : v[m] = t[m]
    BY <1>12 DEF Without
  <1>14. Tabled(v, e, o)
    <2>1. ASSUME NEW m \in DOMAIN v
          PROVE  /\ v[m] = [sector |-> InodeSector(e, m), pos |-> v[m].pos, live |-> v[m].live]
                 /\ v[m].pos \in Int /\ v[m].live \in BOOLEAN
                 /\ InDirectory(e, m)
                 /\ v[m].live => InodeSector(e, m) \in DOMAIN o
      <3>1. m \in DOMAIN t /\ m # n /\ v[m] = t[m]
        BY <1>13
      <3>2. InDirectory(e, m) /\ InodeSector(e, m) = InodeSector(d, m)
        BY <1>2, <1>11, <3>1 DEF Tabled
      <3> QED
        BY <1>2, <3>1, <3>2 DEF Tabled
    <2> QED
      BY <1>13, <2>1 DEF Tabled
  <1>15. /\ Tabled(u, e, closed) /\ DOMAIN u = DOMAIN v
         /\ \A m \in DOMAIN v : u[m].live <=> v[m].live /\ v[m].sector \in DOMAIN closed
    BY <1>12, <1>14, TabledDangling
  <1>16. ASSUME NEW m \in DOMAIN u PROVE u[m].live <=> t[m].live
    <2>1. m \in DOMAIN t /\ m # n /\ v[m] = t[m] /\ m \in DOMAIN v
      BY <1>13, <1>15
    <2>2. PICK x, p, b : x = InodeSector(d, m) /\ p = t[m].pos /\ b = t[m].live
      OBVIOUS
    <2>3. /\ t[m] = [sector |-> x, pos |-> p, live |-> b]
          /\ InDirectory(d, m) /\ (t[m].live => x \in DOMAIN o)
      BY <1>2, <2>1, <2>2 DEF Tabled
    <2>4. v[m].sector = x
      BY <2>1, <2>3
    <2>5. x # s
      BY <1>1, <2>1, <2>2, <2>3, GoodFiles
    <2> QED
      BY <1>7, <1>15, <2>1, <2>3, <2>4, <2>5
  <1>17. Accounted(g, I, l)
    <2>1. SUFFICES ASSUME g.at[0].kind = "inode", NEW x \in g.map
                   PROVE  x \in l \/ \E y \in I : x \in OwnedBy(g, y)
      BY DEF Accounted
    <2>2. x \in f.map /\ x \notin X /\ f.at[0].kind = "inode"
      BY <1>10, <2>1
    <2>3. CASE x \in l
      BY <2>3
    <2>4. CASE \E y \in J : x \in OwnedBy(f, y)
      <3>1. PICK y \in J : x \in OwnedBy(f, y)
        BY <2>4
      <3>2. y \in I
        BY <1>1, <2>2, <3>1
      <3>3. OwnedBy(g, y) = OwnedBy(f, y)
        BY <1>10 DEF OwnedBy
      <3> QED
        BY <3>1, <3>2, <3>3
    <2> QED
      BY <1>2, <2>2, <2>3, <2>4 DEF Accounted
  <1>18. Good(g, e, closed, u, l)
    BY <1>3, <1>10, <1>15, <1>17 DEF Good
  <1> QED
    BY <1>1, <1>3, <1>10, <1>11, <1>13, <1>15, <1>16, <1>18 DEF Removes

\* The states that a longer command goes through.
GoodState(st) ==
    /\ st = [fs |-> st.fs, dir |-> st.dir, open |-> st.open, table |-> st.table, lost |-> st.lost]
    /\ Good(st.fs, st.dir, st.open, st.table, st.lost)

LEMMA RemoveStep ==
    ASSUME NEW st, GoodState(st), NEW n, InDirectory(st.dir, n),
           n \in DOMAIN st.table => st.table[n].live,
           NEW new, new = fsutil_rm(st, n)
    PROVE  /\ GoodState(new) /\ new.lost = st.lost
           /\ DOMAIN new.dir = DOMAIN st.dir
           /\ Removes(st.fs, st.dir, st.open, st.table, st.lost, n,
                      new.fs, new.dir, new.open, new.table)
  <1>1. PICK f, d, o, t, l : f = st.fs /\ d = st.dir /\ o = st.open /\ t = st.table /\ l = st.lost
    OBVIOUS
  <1>2. st = [fs |-> f, dir |-> d, open |-> o, table |-> t, lost |-> l] /\ Good(f, d, o, t, l)
    BY <1>1 DEF GoodState
  <1>3. PICK s : s = InodeSector(d, n)
    OBVIOUS
  <1>4. PICK o1 : o1 = IF n \in DOMAIN t THEN inode_close(o, t[n].sector) ELSE o
    OBVIOUS
  <1>5. PICK i : i = inode_open(o1, f, s)[s]
    OBVIOUS
  <1>6. PICK closed : closed = inode_close(inode_open(o1, f, s), s)
    OBVIOUS
  <1>7. PICK X : X = {s} \cup Deallocated(f.at, i.ptr, i.length)
    OBVIOUS
  <1>8. PICK e, u, g : /\ e = [d EXCEPT ![EntryOf(d, n)].in_use = FALSE]
                       /\ u = Dangling(Without(t, n), closed)
                       /\ g = free_map_release(f, X)
    OBVIOUS
  <1>9. new = [st EXCEPT !.dir[EntryOf(st.dir, n)].in_use = FALSE,
                         !.open = closed,
                         !.table = Dangling(Without(@, n), closed),
                         !.fs = free_map_release(@, {s} \cup Deallocated(@.at, i.ptr, i.length))]
    BY <1>1, <1>3, <1>4, <1>5, <1>6 DEF fsutil_rm
  <1>10. new = [fs |-> g, dir |-> e, open |-> closed, table |-> u, lost |-> l]
    BY ONLY <1>1, <1>2, <1>7, <1>8, <1>9
  <1>11. new.fs = g /\ new.dir = e /\ new.open = closed /\ new.table = u /\ new.lost = l
    BY ONLY <1>10
  <1>12. closed = [x \in DOMAIN o \ {s} |-> o[x]] /\ X = OwnedBy(f, s)
    <2>1. InDirectory(d, n) /\ (n \in DOMAIN t => t[n].live)
      BY <1>1
    <2> QED
      BY ONLY <1>2, <1>3, <1>4, <1>5, <1>6, <1>7, <2>1, RemovedInode
  <1>13. Removes(f, d, o, t, l, n, g, e, closed, u)
    <2>1. InDirectory(d, n) /\ (n \in DOMAIN t => t[n].live)
      BY <1>1
    <2>2. /\ closed = [x \in DOMAIN o \ {InodeSector(d, n)} |-> o[x]]
          /\ g = free_map_release(f, OwnedBy(f, InodeSector(d, n)))
      BY <1>3, <1>8, <1>12
    <2> QED
      BY ONLY <1>2, <1>8, <2>1, <2>2, RemoveFields
  <1>14. Good(g, e, closed, u, l)
    BY <1>13 DEF Removes
  <1>15. GoodState(new)
    BY <1>10, <1>11, <1>14 DEF GoodState
  <1>16. DOMAIN e = DOMAIN d
    BY ONLY <1>8
  <1> QED
    BY <1>1, <1>11, <1>13, <1>15, <1>16

LEMMA GoodTable ==
    ASSUME NEW f, NEW d, NEW o, NEW t, NEW l, Good(f, d, o, t, l), NEW u, Tabled(u, d, o)
    PROVE  Good(f, d, o, u, l)
  BY DEF Good

\* Files are put into the table, except those that are there.
LEMMA TabledJoined ==
    ASSUME NEW t, NEW d, NEW o, Tabled(t, d, o),
           NEW N, \A n \in N : InDirectory(d, n) /\ InodeSector(d, n) \in DOMAIN o,
           NEW u, u = Joined(t, [n \in N |-> NewFile(d, n)])
    PROVE  /\ Tabled(u, d, o) /\ DOMAIN u = DOMAIN t \cup N
           /\ \A n \in DOMAIN t : u[n] = t[n]
           /\ \A n \in N \ DOMAIN t : u[n].live
  <1>1. /\ u = [n \in DOMAIN u |-> u[n]] /\ DOMAIN u = DOMAIN t \cup N
        /\ \A n \in DOMAIN t : u[n] = t[n]
        /\ \A n \in N \ DOMAIN t : u[n] = NewFile(d, n)
    BY DEF Joined
  <1>2. ASSUME NEW n \in DOMAIN u
        PROVE  /\ u[n] = [sector |-> InodeSector(d, n), pos |-> u[n].pos, live |-> u[n].live]
               /\ u[n].pos \in Int /\ u[n].live \in BOOLEAN
               /\ InDirectory(d, n)
               /\ u[n].live => InodeSector(d, n) \in DOMAIN o
               /\ n \notin DOMAIN t => u[n].live
    <2>1. CASE n \in DOMAIN t
      <3>1. u[n] = t[n]
        BY <1>1, <2>1
      <3> QED
        BY <2>1, <3>1 DEF Tabled
    <2>2. CASE n \notin DOMAIN t
      <3>1. n \in N /\ u[n] = NewFile(d, n)
        BY <1>1, <2>2
      <3>2. PICK s : s = InodeSector(d, n)
        OBVIOUS
      <3>3. u[n] = [sector |-> s, pos |-> 0, live |-> TRUE]
        BY <3>1, <3>2 DEF NewFile
      <3>4. u[n].pos = 0 /\ u[n].live = TRUE
        BY ONLY <3>3
      <3>5. InDirectory(d, n) /\ s \in DOMAIN o
        BY <3>1, <3>2
      <3> QED
        BY ONLY <3>2, <3>3, <3>4, <3>5
    <2> QED
      BY <2>1, <2>2
  <1>3. Tabled(u, d, o)
    BY ONLY <1>1, <1>2 DEF Tabled
  <1> QED
    BY ONLY <1>1, <1>2, <1>3

\* Inodes are read, except those that are open.
LEMMA InodesRead ==
    ASSUME NEW f, NEW d, NEW o, NEW t, NEW l, Good(f, d, o, t, l), NEW S \in SUBSET FilesIn(d),
           NEW new, new = Joined(o, [s \in S |-> InodeRead(f, s)])
    PROVE  Good(f, d, new, t, l) /\ DOMAIN new = DOMAIN o \cup S
  <1>1. /\ new = [x \in DOMAIN new |-> new[x]] /\ DOMAIN new = DOMAIN o \cup S
        /\ \A x \in DOMAIN new : (x \in DOMAIN o /\ new[x] = o[x]) \/ new[x] = InodeRead(f, x)
    BY DEF Joined
  <1>2. DOMAIN new \subseteq FilesIn(d)
    BY <1>1, GoodFiles
  <1>3. Tabled(t, d, new)
    BY <1>1, TabledMore DEF Good
  <1>4. Good(f, d, new, t, l)
    BY ONLY <1>1, <1>2, <1>3, Good(f, d, o, t, l), GoodReopened
  <1> QED
    BY <1>1, <1>4

--------------------------------------------------------------------------------
(***************************************************************************)
(* The commands keep the invariant.                                        *)
(***************************************************************************)

Inv == Good(fs, dir, open, table, lost)

\* The inodes of the system are on disk: both were made, and no block of pointers was
\* written over them when the disk was full.
SystemIntact == /\ fs.at[FREE_MAP_SECTOR].kind = "inode"
                /\ fs.at[ROOT_DIR_SECTOR].kind = "inode"

LEMMA FileSectorsAre == FileSectors = FilesIn(dir) /\ (\A n : Exists(n) <=> InDirectory(dir, n))
  BY DEF FileSectors, FilesIn, Used, Exists

LEMMA Sizes == Size \subseteq Nat
  BY FileSystemAssumption

\* The file that a command works on is in the table and its inode is open.
OpenedFile(n) ==
    /\ Good(fs, dir, OpenedInodes(n), OpenedTable(n), lost)
    /\ InDirectory(dir, n) /\ n \in DOMAIN OpenedTable(n)
    /\ OpenedTable(n)[n].sector = InodeSector(dir, n)
    /\ OpenedTable(n)[n].pos \in Int
    /\ InodeSector(dir, n) \in DOMAIN OpenedInodes(n)

LEMMA Opened ==
    ASSUME Inv, NEW n, Usable(n)
    PROVE  OpenedFile(n)
  <1>1. CASE n \in DOMAIN table
    <2>1. table[n].live /\ OpenedTable(n) = table /\ OpenedInodes(n) = open
      BY <1>1 DEF Usable, OpenedTable, OpenedInodes
    <2>2. PICK s, p, b : s = InodeSector(dir, n) /\ p = table[n].pos /\ b = table[n].live
      OBVIOUS
    <2>3. /\ table[n] = [sector |-> s, pos |-> p, live |-> b] /\ p \in Int
          /\ InDirectory(dir, n) /\ s \in DOMAIN open
      BY <1>1, <2>1, <2>2 DEF Inv, Good, Tabled
    <2>4. table[n].sector = s
      BY <2>3
    <2> QED
      BY <1>1, <2>1, <2>2, <2>3, <2>4 DEF OpenedFile, Inv
  <1>2. CASE n \notin DOMAIN table
    <2>1. /\ InDirectory(dir, n)
          /\ OpenedTable(n) = With(table, n, NewFile(dir, n))
          /\ OpenedInodes(n) = inode_open(open, fs, InodeSector(dir, n))
      BY <1>2 DEF Usable, OpenedTable, OpenedInodes, Exists
    <2>2. PICK s, o, t, e : /\ s = InodeSector(dir, n) /\ o = OpenedInodes(n)
                            /\ t = OpenedTable(n) /\ e = NewFile(dir, n)
      OBVIOUS
    <2>3. s \in FilesIn(dir)
      BY <2>1, <2>2, GoodFiles DEF Inv
    <2>4. Good(fs, dir, o, table, lost) /\ s \in DOMAIN o
      <3>1. o = inode_open(open, fs, s) /\ Good(fs, dir, open, table, lost)
        BY <2>1, <2>2 DEF Inv
      <3>2. Opens(fs, dir, open, table, lost, s, o)
        BY ONLY <2>3, <3>1, InodeOpen
      <3> QED
        BY <3>2 DEF Opens
    <2>5. e = [sector |-> s, pos |-> 0, live |-> TRUE]
      BY <2>2 DEF NewFile
    <2>6. e.sector = s /\ e.pos = 0
      BY ONLY <2>5
    <2>7. Tabled(t, dir, o)
      <3>1. Tabled(table, dir, o)
        BY <2>4 DEF Good
      <3>2. t = With(table, n, e)
        BY <2>1, <2>2
      <3> QED
        BY <2>1, <2>2, <2>4, <2>5, <3>1, <3>2, TabledWith
    <2>8. n \in DOMAIN t /\ t[n] = e
      BY <2>1, <2>2 DEF With
    <2>9. Good(fs, dir, o, t, lost)
      BY <2>4, <2>7, GoodTable
    <2> QED
      BY <2>1, <2>2, <2>4, <2>6, <2>8, <2>9 DEF OpenedFile
  <1> QED
    BY <1>1, <1>2

LEMMA KeepsCreate ==
    ASSUME Inv, NEW n \in Name, NEW size \in Size, Create(n, size)
    PROVE  Inv'
  <1>1. PICK r : r = filesys_create(fs, dir, n, size)
    OBVIOUS
  <1>2. /\ fs' = r.fs /\ dir' = r.dir /\ lost' = Lost(r, fs)
        /\ open' = open /\ table' = table
    BY <1>1 DEF Create
  <1>3. CreateGood(fs, dir, open, table, lost, n, size, r)
    BY <1>1, Sizes, CreateStep DEF Inv
  <1> QED
    BY <1>2, <1>3 DEF CreateGood, Inv, Lost

LEMMA KeepsCopyIn ==
    ASSUME Inv, NEW n \in Name, NEW size \in Size, CopyIn(n, size)
    PROVE  Inv'
  <1>1. PICK r : r = filesys_create(fs, dir, n, size)
    OBVIOUS
  <1>2. CreateGood(fs, dir, open, table, lost, n, size, r)
    BY <1>1, Sizes, CreateStep DEF Inv
  <1>3. dir' = r.dir /\ table' = table
    BY <1>1 DEF CopyIn
  <1>4. CASE ~r.ok
    <2>1. fs' = r.fs /\ lost' = Lost(r, fs) /\ open' = open
      BY <1>1, <1>4 DEF CopyIn
    <2> QED
      BY <1>2, <1>3, <1>4, <2>1 DEF CreateGood, Inv, Lost
  <1>5. CASE r.ok
    <2>1. PICK s, f, d : s = InodeSector(r.dir, n) /\ f = r.fs /\ d = r.dir
      OBVIOUS
    <2>2. PICK o : o = inode_open(open, f, s)
      OBVIOUS
    <2>3. PICK w : w = inode_write_at(f, o, s, size + 1, 0)
      OBVIOUS
    <2>4. fs' = w.fs /\ open' = inode_close(w.open, s) /\ lost' = Lost(w, f)
      BY <1>1, <1>5, <2>1, <2>2, <2>3 DEF CopyIn
    <2>5. Good(f, d, open, table, lost) /\ InDirectory(d, n) /\ s \notin InodesIn(dir)
      BY <1>2, <1>5, <2>1 DEF CreateGood
    <2>6. s \in FilesIn(d)
      BY <2>1, <2>5, GoodFiles
    <2>7. Good(f, d, o, table, lost) /\ DOMAIN o = DOMAIN open \cup {s}
      <3>1. Opens(f, d, open, table, lost, s, o)
        BY ONLY <2>2, <2>5, <2>6, InodeOpen
      <3> QED
        BY <3>1 DEF Opens
    <2>8. Writes(f, d, o, table, lost, s, 0 + (size + 1), w)
      <3>1. PICK z \in Nat : z = size + 1
        BY Sizes
      <3>2. w = inode_write_at(f, o, s, z, 0) /\ s \in DOMAIN o
        BY <2>3, <2>7, <3>1
      <3>3. Writes(f, d, o, table, lost, s, 0 + z, w)
        BY <2>7, <3>2, InodeWriteAt
      <3> QED
        BY <3>1, <3>3
    <2>9. Good(w.fs, d, w.open, table, Lost(w, f)) /\ DOMAIN w.open = DOMAIN open \cup {s}
      BY <2>7, <2>8 DEF Writes, Lost
    <2>10. PICK g, o2, l, c : g = w.fs /\ o2 = w.open /\ l = Lost(w, f) /\ c = inode_close(w.open, s)
      OBVIOUS
    <2>11. Closes(g, d, o2, table, l, s, c)
      BY <2>9, <2>10, InodeClose
    <2>12. s \notin DOMAIN open
      <3>1. DOMAIN open \subseteq FilesIn(dir)
        BY GoodFiles DEF Inv
      <3> QED
        BY <2>5, <3>1 DEF InodesIn
    <2>13. DOMAIN c = DOMAIN open
      BY <2>9, <2>10, <2>11, <2>12 DEF Closes
    <2>14. Tabled(table, d, c)
      BY <2>5, <2>13, TabledMore DEF Good
    <2>15. Good(g, d, c, table, l)
      BY <2>11, <2>14 DEF Closes
    <2> QED
      BY <1>3, <2>1, <2>4, <2>10, <2>15 DEF Inv
  <1> QED
    BY <1>2, <1>4, <1>5 DEF CreateGood

LEMMA KeepsWrite ==
    ASSUME Inv, NEW n \in Name, NEW size \in Size, Write(n, size)
    PROVE  Inv'
  <1>1. PICK o, t, s, pos : /\ o = OpenedInodes(n) /\ t = OpenedTable(n)
                            /\ s = t[n].sector /\ pos = t[n].pos
    OBVIOUS
  <1>2. Usable(n) /\ pos >= 0
    BY <1>1 DEF Write
  <1>3. /\ Good(fs, dir, o, t, lost) /\ n \in DOMAIN t /\ pos \in Int /\ s \in DOMAIN o
    BY <1>1, <1>2, Opened DEF OpenedFile
  <1>4. PICK w : w = inode_write_at(fs, o, s, size, pos)
    OBVIOUS
  <1>5. /\ fs' = w.fs /\ open' = w.open /\ lost' = Lost(w, fs) /\ dir' = dir
        /\ table' = [t EXCEPT ![n].pos = file_write(@, w, size)]
    BY <1>1, <1>4 DEF Write
  <1>6. Writes(fs, dir, o, t, lost, s, pos + size, w)
    BY <1>2, <1>3, <1>4, Sizes, InodeWriteAt
  <1>7. w.ok \in BOOLEAN /\ Good(w.fs, dir, w.open, t, Lost(w, fs))
    BY <1>6 DEF Writes, Lost
  <1>8. PICK next : next = file_write(pos, w, size)
    OBVIOUS
  <1>9. next \in Int
    BY <1>3, <1>7, <1>8, Sizes DEF file_write
  <1>10. table' = [t EXCEPT ![n].pos = next]
    BY <1>1, <1>5, <1>8
  <1>11. Tabled([t EXCEPT ![n].pos = next], dir, w.open)
    BY <1>3, <1>7, <1>9, TabledAt DEF Good
  <1>12. Good(w.fs, dir, w.open, table', Lost(w, fs))
    BY <1>7, <1>10, <1>11, GoodTable
  <1> QED
    BY <1>5, <1>12 DEF Inv

LEMMA KeepsRead ==
    ASSUME Inv, NEW n \in Name, NEW size \in Size, Read(n, size)
    PROVE  Inv'
  <1>1. PICK o, t, s, pos : /\ o = OpenedInodes(n) /\ t = OpenedTable(n)
                            /\ s = t[n].sector /\ pos = t[n].pos
    OBVIOUS
  <1>2. Usable(n)
    BY DEF Read
  <1>3. /\ Good(fs, dir, o, t, lost) /\ n \in DOMAIN t /\ pos \in Int /\ s \in DOMAIN o
    BY <1>1, <1>2, Opened DEF OpenedFile
  <1>4. PICK next : next = pos + inode_read_at(o[s].length, size, pos)
    OBVIOUS
  <1>5. /\ fs' = fs /\ open' = o /\ lost' = lost /\ dir' = dir
        /\ table' = [t EXCEPT ![n].pos = next]
    BY <1>1, <1>4 DEF Read
  <1>6. o[s].length \in Nat
    BY <1>3, GoodFiles
  <1>7. next \in Int
    BY <1>3, <1>4, <1>6, Sizes DEF inode_read_at
  <1>8. Tabled([t EXCEPT ![n].pos = next], dir, o)
    BY <1>3, <1>7, TabledAt DEF Good
  <1> QED
    BY <1>3, <1>5, <1>8, GoodTable DEF Inv

LEMMA KeepsSeek ==
    ASSUME Inv, NEW n \in Name, NEW pos \in {0} \cup Size, Seek(n, pos)
    PROVE  Inv'
  <1>1. PICK o, t : o = OpenedInodes(n) /\ t = OpenedTable(n)
    OBVIOUS
  <1>2. Usable(n)
    BY DEF Seek
  <1>3. /\ Good(fs, dir, o, t, lost) /\ n \in DOMAIN t
    BY <1>1, <1>2, Opened DEF OpenedFile
  <1>4. /\ fs' = fs /\ open' = o /\ lost' = lost /\ dir' = dir
        /\ table' = [t EXCEPT ![n].pos = pos]
    BY <1>1 DEF Seek
  <1>5. pos \in Int
    BY Sizes
  <1>6. Tabled([t EXCEPT ![n].pos = pos], dir, o)
    BY <1>3, <1>5, TabledAt DEF Good
  <1> QED
    BY <1>3, <1>4, <1>6, GoodTable DEF Inv

LEMMA KeepsSizeOf ==
    ASSUME Inv, NEW n \in Name, SizeOf(n)
    PROVE  Inv'
  <1>1. Good(fs, dir, OpenedInodes(n), OpenedTable(n), lost)
    BY Opened DEF SizeOf, OpenedFile
  <1> QED
    BY <1>1 DEF SizeOf, Inv

\* A file that is opened and closed again.
LEMMA OpenedAndClosed ==
    ASSUME Inv, NEW n, Exists(n),
           NEW new, new = inode_close(inode_open(open, fs, InodeSector(dir, n)), InodeSector(dir, n))
    PROVE  Good(fs, dir, new, Dangling(table, new), lost)
  <1>1. PICK s, o : s = InodeSector(dir, n) /\ o = inode_open(open, fs, s)
    OBVIOUS
  <1>2. s \in FilesIn(dir)
    BY <1>1, GoodFiles DEF Inv, Exists
  <1>3. Good(fs, dir, o, table, lost) /\ s \in DOMAIN o
    <2>1. o = inode_open(open, fs, s) /\ Good(fs, dir, open, table, lost)
      BY <1>1 DEF Inv
    <2>2. Opens(fs, dir, open, table, lost, s, o)
      BY ONLY <1>2, <2>1, InodeOpen
    <2> QED
      BY <2>2 DEF Opens
  <1>4. new = inode_close(o, s)
    BY <1>1
  <1>5. Closes(fs, dir, o, table, lost, s, new)
    BY <1>3, <1>4, InodeClose
  <1> QED
    BY <1>5 DEF Closes

LEMMA KeepsCopyOut ==
    ASSUME Inv, NEW n \in Name, CopyOut(n) \/ Cat(n)
    PROVE  Inv'
  BY OpenedAndClosed DEF CopyOut, Cat, Inv

LEMMA KeepsFindFile ==
    ASSUME Inv, FindFile
    PROVE  Inv'
  <1>1. PICK new : new = [s \in DOMAIN open \ FileSectors |-> open[s]]
    OBVIOUS
  <1>2. /\ new = [s \in DOMAIN new |-> new[s]] /\ DOMAIN new \subseteq FilesIn(dir)
        /\ \A s \in DOMAIN new : (s \in DOMAIN open /\ new[s] = open[s]) \/ new[s] = InodeRead(fs, s)
    BY <1>1, GoodFiles DEF Inv
  <1>3. Tabled(Dangling(table, new), dir, new)
    BY TabledDangling DEF Inv, Good
  <1>4. Good(fs, dir, new, Dangling(table, new), lost)
    BY <1>2, <1>3, GoodReopened DEF Inv
  <1> QED
    BY <1>1, <1>4 DEF FindFile, Inv

LEMMA KeepsHiddenData ==
    ASSUME Inv, HiddenData
    PROVE  Inv'
  <1>1. PICK N : N = {n \in Name : /\ Exists(n)
                                   /\ fs.at[InodeSector(dir, n)].length % BLOCK_SECTOR_SIZE # 0}
    OBVIOUS
  <1>2. PICK o, t : /\ o = Joined(open, [s \in FilesIn(dir) |-> InodeRead(fs, s)])
                    /\ t = Joined(table, [n \in N |-> NewFile(dir, n)])
    OBVIOUS
  <1>3. open' = o /\ table' = t /\ fs' = fs /\ dir' = dir /\ lost' = lost
    BY <1>1, <1>2, FileSectorsAre DEF HiddenData
  <1>4. Good(fs, dir, o, table, lost) /\ DOMAIN o = DOMAIN open \cup FilesIn(dir)
    BY <1>2, InodesRead DEF Inv
  <1>5. \A n \in N : InDirectory(dir, n) /\ InodeSector(dir, n) \in DOMAIN o
    BY <1>1, <1>4, GoodFiles DEF Exists
  <1>6. Tabled(t, dir, o)
    BY <1>2, <1>4, <1>5, TabledJoined DEF Good
  <1> QED
    BY <1>3, <1>4, <1>6, GoodTable DEF Inv

LEMMA KeepsFragmentationDegree ==
    ASSUME Inv, FragmentationDegree
    PROVE  Inv'
  <1>1. PICK o : o = Joined(open, [s \in FilesIn(dir) |-> InodeRead(fs, s)])
    OBVIOUS
  <1>2. Good(fs, dir, o, table, lost)
    BY <1>1, InodesRead DEF Inv
  <1> QED
    BY <1>1, <1>2, FileSectorsAre DEF FragmentationDegree, Inv

LEMMA GoodNow ==
    ASSUME Inv
    PROVE  /\ GoodState(State) /\ State.fs = fs /\ State.dir = dir /\ State.open = open
           /\ State.table = table /\ State.lost = lost
  BY DEF State, GoodState, Inv

LEMMA GoodNext ==
    ASSUME NEW st, GoodState(st), Becomes(st)
    PROVE  Inv'
  BY DEF GoodState, Becomes, Inv

LEMMA KeepsRm ==
    ASSUME Inv, NEW n \in Name, Rm(n)
    PROVE  Inv'
  <1>1. PICK st : st = State
    OBVIOUS
  <1>2. PICK new : new = fsutil_rm(st, n)
    OBVIOUS
  <1>3. Becomes(new)
    BY <1>1, <1>2 DEF Rm
  <1>4. GoodState(st) /\ InDirectory(st.dir, n) /\ (n \in DOMAIN st.table => st.table[n].live)
    BY <1>1, GoodNow DEF Rm, Exists
  <1>5. GoodState(new)
    BY <1>2, <1>4, RemoveStep
  <1> QED
    BY <1>3, <1>5, GoodNext

LEMMA KeepsRestart ==
    ASSUME Inv, Restart
    PROVE  Inv'
  <1>1. fs' = fs /\ dir' = dir /\ lost' = lost /\ open' = <<>> /\ table' = <<>>
    BY DEF Restart, NoOutcome
  <1>2. PICK e : e = <<>>
    OBVIOUS
  <1>3. e = [x \in DOMAIN e |-> e[x]] /\ DOMAIN e = {}
    BY <1>2
  <1>4. Tabled(e, dir, e)
    BY <1>3 DEF Tabled
  <1>5. Good(fs, dir, e, e, lost)
    BY <1>3, <1>4, GoodReopened DEF Inv
  <1> QED
    BY <1>1, <1>2, <1>5 DEF Inv

--------------------------------------------------------------------------------
(***************************************************************************)
(* Defragment.                                                             *)
(***************************************************************************)

\* One turn of the last loop: it answers nothing, whether the file could be made or not.
LEMMA RecreateStep ==
    ASSUME NEW st, GoodState(st), NEW n \in Name, NEW size \in Nat,
           NEW new, new = Recreated(st, n, size)
    PROVE  /\ GoodState(new)
           /\ new.fs = filesys_create(st.fs, st.dir, n, size).fs
           /\ new.dir = filesys_create(st.fs, st.dir, n, size).dir
  <1>1. PICK f, d, o, t, l : f = st.fs /\ d = st.dir /\ o = st.open /\ t = st.table /\ l = st.lost
    OBVIOUS
  <1>2. st = [fs |-> f, dir |-> d, open |-> o, table |-> t, lost |-> l] /\ Good(f, d, o, t, l)
    BY <1>1 DEF GoodState
  <1>3. PICK r : r = filesys_create(f, d, n, size)
    OBVIOUS
  <1>4. CreateGood(f, d, o, t, l, n, size, r)
    BY ONLY <1>2, <1>3, n \in Name, size \in Nat, CreateStep
  <1>5. PICK g, e : g = r.fs /\ e = r.dir
    OBVIOUS
  <1>6. PICK s : s = IF r.ok THEN InodeSector(e, n) ELSE 0
    OBVIOUS
  <1>7. new = Renewed(st, n, size, r, s)
    BY <1>1, <1>3, <1>5, <1>6 DEF Recreated
  <1>8. CASE ~r.ok
    <2>1. PICK m : m = l \cup (g.map \ f.map)
      OBVIOUS
    <2>2. new = [st EXCEPT !.fs = g, !.lost = @ \cup (g.map \ f.map)]
      BY <1>1, <1>5, <1>7, <1>8 DEF Renewed
    <2>3. new = [fs |-> g, dir |-> d, open |-> o, table |-> t, lost |-> m]
      BY ONLY <1>2, <2>1, <2>2
    <2>4. new.fs = g /\ new.dir = d /\ new.open = o /\ new.table = t /\ new.lost = m
      BY ONLY <2>3
    <2>5. Good(g, d, o, t, m)
      BY <1>4, <1>5, <1>8, <2>1 DEF CreateGood
    <2>6. r.dir = d
      BY <1>4, <1>8 DEF CreateGood
    <2>7. GoodState(new)
      BY <2>3, <2>4, <2>5 DEF GoodState
    <2> QED
      BY <1>1, <1>3, <1>5, <2>4, <2>6, <2>7
  <1>9. CASE r.ok
    <2>1. Good(g, e, o, t, l) /\ InDirectory(e, n) /\ s = InodeSector(e, n)
      BY <1>4, <1>5, <1>6, <1>9 DEF CreateGood
    <2>2. PICK p, c : p = file_write(0, r, size) /\ c = inode_open(o, g, s)
      OBVIOUS
    <2>3. p \in Int
      BY <1>9, <2>2 DEF file_write
    <2>4. PICK v : v = [sector |-> s, live |-> TRUE, pos |-> p]
      OBVIOUS
    <2>5. PICK u : u = With(t, n, v)
      OBVIOUS
    <2>6. new = [st EXCEPT !.fs = g, !.dir = e, !.open = inode_open(@, g, s),
                           !.table = With(@, n, v)]
      BY <1>5, <1>7, <1>9, <2>2, <2>4 DEF Renewed
    <2>7. new = [fs |-> g, dir |-> e, open |-> c, table |-> u, lost |-> l]
      BY ONLY <1>2, <2>2, <2>5, <2>6
    <2>8. new.fs = g /\ new.dir = e /\ new.open = c /\ new.table = u /\ new.lost = l
      BY ONLY <2>7
    <2>9. s \in FilesIn(e)
      BY <2>1, GoodFiles
    <2>10. Opens(g, e, o, t, l, s, c)
      BY ONLY <2>1, <2>2, <2>9, InodeOpen
    <2>11. Good(g, e, c, t, l) /\ s \in DOMAIN c
      BY <2>10 DEF Opens
    <2>12. v = [sector |-> InodeSector(e, n), pos |-> p, live |-> TRUE]
      BY ONLY <2>1, <2>4
    <2>13. Tabled(t, e, c) /\ InodeSector(e, n) \in DOMAIN c
      BY <2>1, <2>11 DEF Good
    <2>14. Tabled(u, e, c)
      BY <2>1, <2>3, <2>5, <2>12, <2>13, TabledWith
    <2>15. Good(g, e, c, u, l)
      BY <2>11, <2>14, GoodTable
    <2>16. GoodState(new)
      BY <2>7, <2>8, <2>15 DEF GoodState
    <2> QED
      BY <1>1, <1>3, <1>5, <2>8, <2>16
  <1> QED
    BY <1>4, <1>8, <1>9 DEF CreateGood

\* The turns of the loops, counted through: first the removals, then the creations.
Turn(names, sizes, k, st) ==
    IF k <= Len(names) THEN fsutil_rm(st, names[k])
    ELSE Recreated(st, names[k - Len(names)], sizes[names[k - Len(names)]])

Stages(st, names, sizes, n, after) ==
    /\ after = [k \in 0 .. n |-> after[k]]
    /\ after[0] = st
    /\ \A k \in 1 .. n : after[k] = Turn(names, sizes, k, after[k - 1])

LEMMA StagesExist ==
    ASSUME NEW st, NEW names, NEW sizes
    PROVE  \A n \in Nat : \E after : Stages(st, names, sizes, n, after)
  <1> DEFINE S == {n \in Nat : \E after : Stages(st, names, sizes, n, after)}
  <1>1. 0 \in S
    <2>1. PICK a : a = [k \in 0 .. 0 |-> st]
      OBVIOUS
    <2>2. Stages(st, names, sizes, 0, a)
      BY <2>1 DEF Stages
    <2> QED
      BY <2>2
  <1>2. ASSUME NEW n \in Nat, n \in S PROVE n + 1 \in S
    <2>1. PICK a : Stages(st, names, sizes, n, a)
      BY <1>2
    <2>2. PICK x : x = Turn(names, sizes, n + 1, a[n])
      OBVIOUS
    <2>3. PICK b : b = [k \in 0 .. n + 1 |-> IF k = n + 1 THEN x ELSE a[k]]
      OBVIOUS
    <2>4. b[n + 1] = x /\ \A k \in 0 .. n : b[k] = a[k]
      BY <2>3
    <2>5. b = [k \in 0 .. n + 1 |-> b[k]]
      BY <2>3
    <2>6. b[0] = st
      BY <2>1, <2>4 DEF Stages
    <2>7. ASSUME NEW k \in 1 .. n + 1 PROVE b[k] = Turn(names, sizes, k, b[k - 1])
      <3>1. CASE k = n + 1
        <4>1. k - 1 = n /\ n \in 0 .. n
          BY <3>1
        <4> QED
          BY <2>2, <2>4, <3>1, <4>1
      <3>2. CASE k # n + 1
        <4>1. k \in 1 .. n /\ k \in 0 .. n /\ k - 1 \in 0 .. n
          BY <3>2
        <4>2. a[k] = Turn(names, sizes, k, a[k - 1])
          BY <2>1, <4>1 DEF Stages
        <4> QED
          BY <2>4, <4>1, <4>2
      <3> QED
        BY <3>1, <3>2
    <2>8. Stages(st, names, sizes, n + 1, b)
      BY <2>5, <2>6, <2>7 DEF Stages
    <2> QED
      BY <2>8
  <1> HIDE DEF S
  <1>3. \A n \in Nat : n \in S
    BY <1>1, <1>2, Induction
  <1> QED
    BY <1>3 DEF S

LEMMA RebuiltStages ==
    ASSUME NEW st, NEW names, NEW sizes, Len(names) \in Nat
    PROVE  \E after : /\ Stages(st, names, sizes, 2 * Len(names), after)
                      /\ \A turns : Rebuilt(st, names, sizes, turns) = after[turns]
  <1> DEFINE N == Len(names)
  <1>1. 2 * N \in Nat
    OBVIOUS
  <1>2. PICK f : f = [k \in 0 .. 2 * N |->
                         IF k = 0 THEN st
                         ELSE IF k <= N THEN fsutil_rm(f[k - 1], names[k])
                         ELSE Recreated(f[k - 1], names[k - N], sizes[names[k - N]])]
    <2>1. PICK g : Stages(st, names, sizes, 2 * N, g)
      BY <1>1, StagesExist
    <2>2. ASSUME NEW k \in 0 .. 2 * N
          PROVE  g[k] = IF k = 0 THEN st
                        ELSE IF k <= N THEN fsutil_rm(g[k - 1], names[k])
                        ELSE Recreated(g[k - 1], names[k - N], sizes[names[k - N]])
      <3>1. CASE k = 0
        BY <2>1, <3>1 DEF Stages
      <3>2. CASE k # 0
        <4>1. k \in 1 .. 2 * N
          BY <3>2
        <4>2. g[k] = Turn(names, sizes, k, g[k - 1])
          BY <2>1, <4>1 DEF Stages
        <4> QED
          BY <3>2, <4>2 DEF Turn
      <3> QED
        BY <3>1, <3>2
    <2>3. g = [k \in 0 .. 2 * N |-> g[k]]
      BY <2>1 DEF Stages
    <2> QED
      BY <2>2, <2>3
  <1> DEFINE after[k \in 0 .. 2 * N] ==
                 IF k = 0 THEN st
                 ELSE IF k <= N THEN fsutil_rm(after[k - 1], names[k])
                 ELSE Recreated(after[k - 1], names[k - N], sizes[names[k - N]])
  <1>3. after = [k \in 0 .. 2 * N |->
                    IF k = 0 THEN st
                    ELSE IF k <= N THEN fsutil_rm(after[k - 1], names[k])
                    ELSE Recreated(after[k - 1], names[k - N], sizes[names[k - N]])]
    BY <1>2
  <1>4. \A turns : Rebuilt(st, names, sizes, turns) = after[turns]
    BY DEF Rebuilt
  <1> HIDE DEF after
  <1>5. \A k \in 0 .. 2 * N :
            after[k] = IF k = 0 THEN st
                       ELSE IF k <= N THEN fsutil_rm(after[k - 1], names[k])
                       ELSE Recreated(after[k - 1], names[k - N], sizes[names[k - N]])
    BY <1>3
  <1>6. after[0] = st
    BY <1>1, <1>5
  <1>7. ASSUME NEW k \in 1 .. 2 * N PROVE after[k] = Turn(names, sizes, k, after[k - 1])
    <2>1. k \in 0 .. 2 * N /\ k # 0
      BY <1>1
    <2> QED
      BY <1>5, <2>1 DEF Turn
  <1>8. after = [k \in 0 .. 2 * N |-> after[k]]
    BY <1>3
  <1>9. Stages(st, names, sizes, 2 * N, after)
    BY <1>6, <1>7, <1>8 DEF Stages
  <1> QED
    BY <1>4, <1>9

\* What defragment is asked to do in a state: to rebuild files that are there, each
\* once, of known sizes, while no file of the table is dangling.
Rebuildable(st, names, sizes) ==
    /\ GoodState(st)
    /\ Len(names) \in Nat
    /\ \A k \in 1 .. Len(names) : /\ names[k] \in Name /\ InDirectory(st.dir, names[k])
                                  /\ sizes[names[k]] \in Nat
    /\ \A j, k \in 1 .. Len(names) : names[j] = names[k] => j = k
    /\ \A n \in DOMAIN st.table : st.table[n].live

\* After the first k removals.
Emptied(st, names, k, now) ==
    /\ GoodState(now)
    /\ \A n : InDirectory(now.dir, n) <=> InDirectory(st.dir, n) /\ \A j \in 1 .. k : names[j] # n
    /\ \A n \in DOMAIN now.table : now.table[n].live
    /\ \A n : InDirectory(now.dir, n) => InodeSector(now.dir, n) = InodeSector(st.dir, n)
    /\ now.fs.at = st.fs.at /\ DOMAIN now.dir = DOMAIN st.dir

LEMMA RemovalTurn ==
    ASSUME NEW st, NEW names, NEW sizes, Rebuildable(st, names, sizes),
           NEW k \in 1 .. Len(names), NEW now, Emptied(st, names, k - 1, now),
           NEW new, new = fsutil_rm(now, names[k])
    PROVE  Emptied(st, names, k, new)
  <1>1. PICK n : n = names[k]
    OBVIOUS
  <1>2. k \in Nat /\ k - 1 \in Nat /\ Len(names) \in Nat
    BY DEF Rebuildable
  <1>3. \A j \in 1 .. k - 1 : names[j] # n
    <2>1. ASSUME NEW j \in 1 .. k - 1 PROVE names[j] # n
      <3>1. j \in 1 .. Len(names) /\ j # k
        BY <1>2
      <3> QED
        BY <1>1, <3>1 DEF Rebuildable
    <2> QED
      BY <2>1
  <1>4. /\ GoodState(now) /\ InDirectory(now.dir, n)
        /\ n \in DOMAIN now.table => now.table[n].live
    BY <1>1, <1>3 DEF Rebuildable, Emptied
  <1>5. new = fsutil_rm(now, n)
    BY <1>1
  <1>6. /\ GoodState(new) /\ DOMAIN new.dir = DOMAIN now.dir
        /\ Removes(now.fs, now.dir, now.open, now.table, now.lost, n,
                   new.fs, new.dir, new.open, new.table)
    BY ONLY <1>4, <1>5, RemoveStep
  <1>7. /\ \A m : InDirectory(new.dir, m) <=> InDirectory(now.dir, m) /\ m # n
        /\ DOMAIN new.table = DOMAIN now.table \ {n}
        /\ \A m \in DOMAIN new.table : new.table[m].live <=> now.table[m].live
    BY <1>6 DEF Removes
  <1>8. ASSUME NEW m
        PROVE  InDirectory(new.dir, m) <=> InDirectory(st.dir, m) /\ \A j \in 1 .. k : names[j] # m
    <2>1. InDirectory(now.dir, m) <=> InDirectory(st.dir, m) /\ \A j \in 1 .. k - 1 : names[j] # m
      BY DEF Emptied
    <2>2. (\A j \in 1 .. k : names[j] # m) <=> (\A j \in 1 .. k - 1 : names[j] # m) /\ m # n
      <3>1. \A j : j \in 1 .. k <=> j \in 1 .. k - 1 \/ j = k
        BY <1>2
      <3> QED
        BY <1>1, <3>1
    <2> QED
      BY <1>7, <2>1, <2>2
  <1>9. \A m \in DOMAIN new.table : new.table[m].live
    BY <1>7 DEF Emptied
  <1>10. /\ \A m : InDirectory(new.dir, m) => InodeSector(new.dir, m) = InodeSector(st.dir, m)
         /\ new.fs.at = st.fs.at /\ DOMAIN new.dir = DOMAIN st.dir
    BY <1>6 DEF Removes, Emptied
  <1> QED
    BY <1>6, <1>8, <1>9, <1>10 DEF Emptied

LEMMA RebuildGood ==
    ASSUME NEW st, NEW names, NEW sizes, Rebuildable(st, names, sizes)
    PROVE  \A turns \in 0 .. 2 * Len(names) : GoodState(Rebuilt(st, names, sizes, turns))
  <1>1. PICK N \in Nat : N = Len(names)
    BY DEF Rebuildable
  <1>2. PICK a : /\ Stages(st, names, sizes, 2 * N, a)
                 /\ \A turns : Rebuilt(st, names, sizes, turns) = a[turns]
    BY <1>1, RebuiltStages
  <1> DEFINE S == {k \in Nat : k <= 2 * N => /\ GoodState(a[k])
                                             /\ k <= N => Emptied(st, names, k, a[k])}
  <1>3. 0 \in S
    <2>1. a[0] = st
      BY <1>2 DEF Stages
    <2>2. GoodState(st) /\ Emptied(st, names, 0, st)
      BY DEF Rebuildable, Emptied
    <2> QED
      BY <2>1, <2>2
  <1>4. ASSUME NEW i \in Nat, i \in S PROVE i + 1 \in S
    <2>1. PICK k \in Nat : k = i + 1
      OBVIOUS
    <2> SUFFICES ASSUME k <= 2 * N
                 PROVE  GoodState(a[k]) /\ (k <= N => Emptied(st, names, k, a[k]))
      BY <2>1
    <2>2. GoodState(a[i]) /\ (i <= N => Emptied(st, names, i, a[i]))
      BY <1>1, <1>4, <2>1
    <2>3. a[k] = Turn(names, sizes, k, a[k - 1]) /\ k - 1 = i
      <3>1. k \in 1 .. 2 * N /\ k - 1 = i
        BY <1>1, <2>1
      <3> QED
        BY <1>2, <3>1 DEF Stages
    <2>4. CASE k <= N
      <3>1. a[k] = fsutil_rm(a[i], names[k])
        BY <1>1, <2>3, <2>4 DEF Turn
      <3>2. Emptied(st, names, k - 1, a[i]) /\ k \in 1 .. Len(names)
        BY <1>1, <2>1, <2>2, <2>3, <2>4
      <3>3. Emptied(st, names, k, a[k])
        BY <3>1, <3>2, RemovalTurn
      <3> QED
        BY <3>3 DEF Emptied
    <2>5. CASE ~(k <= N)
      <3>1. PICK j \in 1 .. N : j = k - N
        BY <1>1, <2>1, <2>5
      <3>2. a[k] = Recreated(a[i], names[j], sizes[names[j]])
        BY <1>1, <2>3, <2>5, <3>1 DEF Turn
      <3>3. names[j] \in Name /\ sizes[names[j]] \in Nat
        BY <1>1 DEF Rebuildable
      <3>4. GoodState(a[k])
        BY <2>2, <3>2, <3>3, RecreateStep
      <3> QED
        BY <2>5, <3>4
    <2> QED
      BY <2>4, <2>5
  <1> HIDE DEF S
  <1>5. \A k \in Nat : k \in S
    BY <1>3, <1>4, Induction
  <1>6. ASSUME NEW turns \in 0 .. 2 * Len(names)
        PROVE  GoodState(Rebuilt(st, names, sizes, turns))
    <2>1. turns \in Nat /\ turns <= 2 * N
      BY <1>1
    <2> QED
      BY <1>2, <1>5, <2>1 DEF S
  <1> QED
    BY <1>6

\* The files' inodes are in memory after the first loop, with the sizes they have.
LEMMA NotedGood ==
    ASSUME NEW st, GoodState(st), NEW F, \A n \in F : InDirectory(st.dir, n),
           \A n \in DOMAIN st.table : st.table[n].live,
           NEW new, new = Noted(st, F)
    PROVE  /\ GoodState(new) /\ new.dir = st.dir /\ new.fs = st.fs
           /\ \A n \in DOMAIN new.table : new.table[n].live
           /\ \A n \in F : /\ new.table[n].sector = InodeSector(st.dir, n)
                           /\ new.open[InodeSector(st.dir, n)].length \in Nat
                           /\ new.open[InodeSector(st.dir, n)].length
                                 = st.fs.at[InodeSector(st.dir, n)].length
  <1>1. PICK f, d, o, t, l : f = st.fs /\ d = st.dir /\ o = st.open /\ t = st.table /\ l = st.lost
    OBVIOUS
  <1>2. st = [fs |-> f, dir |-> d, open |-> o, table |-> t, lost |-> l] /\ Good(f, d, o, t, l)
    BY <1>1 DEF GoodState
  <1>3. PICK R : R = {InodeSector(d, n) : n \in F \ DOMAIN t}
    OBVIOUS
  <1>4. PICK c, u : /\ c = Joined(o, [s \in R |-> InodeRead(f, s)])
                    /\ u = Joined(t, [n \in F |-> NewFile(d, n)])
    OBVIOUS
  <1>5. new = [st EXCEPT !.open = Joined(@, [s \in R |-> InodeRead(f, s)]),
                         !.table = Joined(@, [n \in F |-> NewFile(d, n)])]
    BY <1>1, <1>3 DEF Noted
  <1>6. new = [fs |-> f, dir |-> d, open |-> c, table |-> u, lost |-> l]
    BY ONLY <1>2, <1>4, <1>5
  <1>7. new.fs = f /\ new.dir = d /\ new.open = c /\ new.table = u /\ new.lost = l
    BY ONLY <1>6
  <1>8. R \in SUBSET FilesIn(d)
    BY <1>1, <1>2, <1>3, GoodFiles
  <1>9. Good(f, d, c, t, l) /\ DOMAIN c = DOMAIN o \cup R
    BY <1>2, <1>4, <1>8, InodesRead
  <1>10. \A n \in F : InDirectory(d, n) /\ InodeSector(d, n) \in DOMAIN c
    <2>1. \A n \in DOMAIN t : InodeSector(d, n) \in DOMAIN o
      BY <1>1, <1>2 DEF Good, Tabled
    <2> QED
      BY <1>1, <1>3, <1>9, <2>1
  <1>11. /\ Tabled(u, d, c) /\ DOMAIN u = DOMAIN t \cup F
         /\ \A n \in DOMAIN t : u[n] = t[n]
         /\ \A n \in F \ DOMAIN t : u[n].live
    <2>1. Tabled(t, d, c)
      BY <1>9 DEF Good
    <2> QED
      BY <1>4, <1>10, <2>1, TabledJoined
  <1>12. Good(f, d, c, u, l)
    BY <1>9, <1>11, GoodTable
  <1>13. GoodState(new)
    BY <1>6, <1>7, <1>12 DEF GoodState
  <1>14. \A n \in DOMAIN u : u[n].live
    BY <1>1, <1>11
  <1>15. ASSUME NEW n \in F
         PROVE  /\ u[n].sector = InodeSector(d, n)
                /\ c[InodeSector(d, n)].length \in Nat
                /\ c[InodeSector(d, n)].length = f.at[InodeSector(d, n)].length
    <2>1. PICK s, p, b : s = InodeSector(d, n) /\ p = u[n].pos /\ b = u[n].live
      OBVIOUS
    <2>2. u[n] = [sector |-> s, pos |-> p, live |-> b]
      BY <1>11, <2>1 DEF Tabled
    <2>3. u[n].sector = s
      BY ONLY <2>2
    <2>4. s \in DOMAIN c
      BY <1>10, <2>1
    <2>5. c[s].length = f.at[s].length /\ f.at[s].length \in Nat
      BY <1>9, <2>4, GoodFiles
    <2> QED
      BY <2>1, <2>3, <2>5
  <1> QED
    BY <1>1, <1>7, <1>13, <1>14, <1>15

\* The names in the order of the directory: all files, each once.
LEMMA InOrderIs ==
    ASSUME Directory(dir), NEW names, names = InOrder
    PROVE  /\ Len(names) \in Nat /\ Len(names) = Cardinality(Used(dir))
           /\ names \in Seq(Name)
           /\ \A k \in 1 .. Len(names) : names[k] \in Name /\ InDirectory(dir, names[k])
           /\ \A j, k \in 1 .. Len(names) : names[j] = names[k] => j = k
           /\ \A n : InDirectory(dir, n) => \E k \in 1 .. Len(names) : names[k] = n
  <1>1. PICK U : U = Used(dir)
    OBVIOUS
  <1>2. PICK K \in Nat : DOMAIN dir = 0 .. K
    BY DEF Directory
  <1>3. U \in SUBSET Nat /\ IsFiniteSet(U) /\ Cardinality(U) \in Nat
    <2>1. U \in SUBSET (0 .. K)
      BY <1>1, <1>2 DEF Used
    <2>2. IsFiniteSet(0 .. K)
      BY FS_Interval
    <2>3. IsFiniteSet(U)
      BY <2>1, <2>2, FS_Subset
    <2> QED
      BY <2>1, <2>3, FS_CardinalityType
  <1>4. PICK N \in Nat : N = Cardinality(U)
    BY <1>3
  <1> DEFINE Below(e) == {l \in U : l < e}
             Kth(k) == CHOOSE e \in U : Cardinality(Below(e)) = k - 1
  <1>5. names = [k \in 1 .. N |-> dir[Kth(k)].name]
    BY <1>1, <1>4 DEF InOrder, Used
  <1>6. ASSUME NEW k \in 1 .. N
        PROVE  Kth(k) \in U /\ Cardinality(Below(Kth(k))) = k - 1
    <2>1. k - 1 \in Nat /\ k - 1 < Cardinality(U)
      BY <1>4
    <2>2. \E e \in U : Cardinality(Below(e)) = k - 1
      BY <1>3, <2>1, KthElement
    <2> QED
      BY <2>2
  <1>7. PICK at : at = [k \in 1 .. N |-> Kth(k)]
    OBVIOUS
  <1>8. \A k \in 1 .. N : at[k] \in U /\ Cardinality(Below(at[k])) = k - 1
    BY <1>6, <1>7
  <1>9. names = [k \in 1 .. N |-> dir[at[k]].name]
    BY <1>5, <1>7
  <1> HIDE DEF Kth, Below
  <1>10. \A e \in U : /\ dir[e].name \in Name /\ InDirectory(dir, dir[e].name)
                      /\ \A x \in U : dir[e].name = dir[x].name => e = x
    <2>1. \A e \in U : dir[e].name \in Name /\ Linked(dir, dir[e].name, dir[e].inode_sector)
      BY <1>1 DEF Directory, Linked
    <2>2. \A e \in U : \A x \in U : dir[e].name = dir[x].name => e = x
      BY <1>1 DEF Directory
    <2> QED
      BY <2>1, <2>2, Lookup
  <1>11. names \in [1 .. N -> Name]
    BY <1>8, <1>9, <1>10
  <1>12. names \in Seq(Name) /\ Len(names) = N
    BY <1>11
  <1>13. ASSUME NEW j \in 1 .. N, NEW k \in 1 .. N, names[j] = names[k] PROVE j = k
    <2>1. at[j] = at[k]
      BY <1>8, <1>9, <1>10, <1>13
    <2>2. j - 1 = k - 1
      BY <1>8, <2>1
    <2> QED
      BY <2>2
  <1>14. ASSUME NEW n, InDirectory(dir, n) PROVE \E k \in 1 .. N : names[k] = n
    <2>1. PICK e \in U : dir[e].name = n
      BY <1>1, <1>14, Lookup
    <2>2. PICK r : r = Cardinality(Below(e))
      OBVIOUS
    <2>3. r \in Nat /\ r < N
      <3>1. Below(e) \in SUBSET U /\ e \notin Below(e)
        BY <1>3 DEF Below
      <3>2. IsFiniteSet(Below(e)) /\ Cardinality(Below(e)) <= Cardinality(U)
        BY <1>3, <3>1, FS_Subset
      <3>3. Below(e) # U
        BY <3>1
      <3>4. Cardinality(Below(e)) # Cardinality(U)
        BY <1>3, <3>1, <3>3, FS_Subset
      <3>5. r \in Nat
        BY <2>2, <3>2, FS_CardinalityType
      <3> QED
        BY <1>4, <2>2, <3>2, <3>4, <3>5
    <2>4. r + 1 \in 1 .. N /\ (r + 1) - 1 = r
      BY <2>3
    <2>5. at[r + 1] \in U /\ Cardinality(Below(at[r + 1])) = r
      BY <1>8, <2>4
    <2>6. at[r + 1] = e
      <3>1. ASSUME NEW x \in U, NEW y \in U, x < y PROVE Cardinality(Below(x)) # Cardinality(Below(y))
        <4>1. Below(x) \in SUBSET Below(y) /\ x \in Below(y) /\ x \notin Below(x)
          <5>1. x \in Nat /\ y \in Nat /\ \A l \in U : l \in Nat
            BY <1>3
          <5>2. ~(x < x) /\ \A l \in U : l < x => l < y
            BY <3>1, <5>1
          <5> QED
            BY <3>1, <5>2 DEF Below
        <4>2. IsFiniteSet(Below(y))
          BY <1>3, FS_Subset DEF Below
        <4> QED
          BY <4>1, <4>2, FS_Subset
      <3>2. e \in Nat /\ at[r + 1] \in Nat
        BY <1>3, <2>5
      <3> QED
        BY <2>2, <2>5, <3>1, <3>2
    <2>7. names[r + 1] = dir[at[r + 1]].name
      BY <1>9, <2>4
    <2> QED
      BY <2>1, <2>4, <2>6, <2>7
  <1>15. ASSUME NEW k \in 1 .. N PROVE names[k] \in Name /\ InDirectory(dir, names[k])
    BY <1>8, <1>9, <1>10
  <1> QED
    BY <1>1, <1>4, <1>12, <1>13, <1>14, <1>15

LEMMA FirstEmptyIs ==
    ASSUME NEW names, NEW sizes, NEW N \in Nat, N = Len(names), DOMAIN names = 1 .. N,
           NEW k, k = FirstEmpty(names, sizes)
    PROVE  k \in 1 .. N + 1 /\ (k \in DOMAIN names => sizes[names[k]] = 0)
  <1>1. PICK E : E = {i \in 1 .. N : sizes[names[i]] = 0}
    OBVIOUS
  <1>2. \E e \in 1 .. N + 1 : /\ e \in DOMAIN names => sizes[names[e]] = 0
                              /\ \A j \in 1 .. e - 1 : sizes[names[j]] # 0
    <2>1. CASE E = {}
      <3>1. N + 1 \in 1 .. N + 1 /\ N + 1 \notin 1 .. N /\ (N + 1) - 1 = N
        OBVIOUS
      <3>2. \A j \in 1 .. N : sizes[names[j]] # 0
        BY <1>1, <2>1
      <3> QED
        BY <3>1, <3>2
    <2>2. CASE E # {}
      <3>1. E \in SUBSET Nat
        BY <1>1
      <3>2. PICK e \in E : \A j \in E : e <= j
        BY <2>2, <3>1, LeastElement
      <3>3. e \in 1 .. N + 1 /\ sizes[names[e]] = 0
        BY <1>1, <3>2
      <3>4. ASSUME NEW j \in 1 .. e - 1 PROVE sizes[names[j]] # 0
        <4>1. j \in 1 .. N /\ ~(e <= j)
          BY <1>1, <3>2
        <4> QED
          BY <1>1, <3>2, <4>1
      <3> QED
        BY <3>3, <3>4
    <2> QED
      BY <2>1, <2>2
  <1> QED
    BY <1>2 DEF FirstEmpty

\* What defragment does: from a state note, in which all files to be rebuilt are open, it
\* makes Len(names) + k - 1 turns, where k is the place of an empty file or behind the end.
Defragments(note, names, sizes, k) ==
    /\ Rebuildable(note, names, sizes) /\ note.dir = dir /\ note.fs = fs
    /\ names = <<>> \/ names = InOrder
    /\ \A i \in 1 .. Len(names) : sizes[names[i]] = fs.at[InodeSector(dir, names[i])].length
    /\ k \in 1 .. Len(names) + 1 /\ (k \in 1 .. Len(names) => sizes[names[k]] = 0)
    /\ Becomes(Rebuilt(note, names, sizes, Len(names) + k - 1))
    /\ outcome' = [result |-> IF k \in 1 .. Len(names) THEN "crashed" ELSE "unchanged"]

LEMMA DefragmentParts ==
    ASSUME Inv, Defragment
    PROVE  \E note, names, sizes, k : Defragments(note, names, sizes, k)
  <1>1. PICK st : st = State
    OBVIOUS
  <1>2. GoodState(st) /\ st.dir = dir /\ st.table = table /\ st.fs = fs
    BY <1>1, GoodNow
  <1>3. PICK names \in {<<>>, InOrder} :
            \E note \in {Noted(st, ToSet(names))} :
               /\ \A n \in DOMAIN table : table[n].live
               /\ Rebuild(note, names, [n \in ToSet(names) |->
                                           note.open[note.table[n].sector].length])
    BY <1>1 DEF Defragment
  <1>4. PICK F, note : F = ToSet(names) /\ note = Noted(st, F)
    OBVIOUS
  <1>5. PICK sizes : sizes = [n \in F |-> note.open[note.table[n].sector].length]
    OBVIOUS
  <1>6. (\A n \in DOMAIN table : table[n].live) /\ Rebuild(note, names, sizes)
    BY <1>3, <1>4, <1>5
  <1>7. Directory(dir)
    BY DEF Inv, Good
  <1>8. /\ Len(names) \in Nat /\ DOMAIN names = 1 .. Len(names)
        /\ \A k \in 1 .. Len(names) : names[k] \in Name /\ InDirectory(dir, names[k])
        /\ \A j, k \in 1 .. Len(names) : names[j] = names[k] => j = k
    <2>1. CASE names = <<>>
      BY <2>1
    <2>2. CASE names = InOrder
      BY <1>7, <2>2, InOrderIs
    <2> QED
      BY <2>1, <2>2
  <1>9. F = {names[k] : k \in 1 .. Len(names)}
    BY <1>4, <1>8 DEF ToSet
  <1>10. \A n \in F : InDirectory(st.dir, n)
    BY <1>2, <1>8, <1>9
  <1>11. /\ GoodState(note) /\ note.dir = dir /\ note.fs = fs
         /\ \A n \in DOMAIN note.table : note.table[n].live
         /\ \A n \in F : /\ note.table[n].sector = InodeSector(dir, n)
                         /\ note.open[InodeSector(dir, n)].length \in Nat
                         /\ note.open[InodeSector(dir, n)].length = fs.at[InodeSector(dir, n)].length
    BY <1>2, <1>4, <1>6, <1>10, NotedGood
  <1>12. \A n \in F : sizes[n] \in Nat /\ sizes[n] = fs.at[InodeSector(dir, n)].length
    BY <1>5, <1>11
  <1>13. Rebuildable(note, names, sizes)
    BY <1>8, <1>9, <1>11, <1>12 DEF Rebuildable
  <1>14. PICK k : k = FirstEmpty(names, sizes)
    OBVIOUS
  <1>15. /\ Becomes(Rebuilt(note, names, sizes, Len(names) + k - 1))
         /\ outcome' = [result |-> IF k \in 1 .. Len(names) THEN "crashed" ELSE "unchanged"]
    BY <1>6, <1>8, <1>14 DEF Rebuild
  <1>16. k \in 1 .. Len(names) + 1 /\ (k \in 1 .. Len(names) => sizes[names[k]] = 0)
    <2>1. PICK N : N = Len(names)
      OBVIOUS
    <2>2. N \in Nat /\ DOMAIN names = 1 .. N
      BY <1>8, <2>1
    <2> QED
      BY <1>14, <2>1, <2>2, FirstEmptyIs
  <1>17. \A i \in 1 .. Len(names) : sizes[names[i]] = fs.at[InodeSector(dir, names[i])].length
    BY <1>9, <1>12
  <1>18. names = <<>> \/ names = InOrder
    BY <1>3
  <1>19. Defragments(note, names, sizes, k)
    BY <1>11, <1>13, <1>15, <1>16, <1>17, <1>18 DEF Defragments
  <1> QED
    BY <1>19

LEMMA KeepsDefragment ==
    ASSUME Inv, Defragment
    PROVE  Inv'
  <1>1. PICK note, names, sizes, k : Defragments(note, names, sizes, k)
    BY DefragmentParts
  <1>2. PICK N \in Nat : N = Len(names)
    BY <1>1 DEF Defragments, Rebuildable
  <1>3. N + k - 1 \in 0 .. 2 * N
    BY <1>1, <1>2 DEF Defragments
  <1>4. PICK turns \in 0 .. 2 * Len(names) : turns = Len(names) + k - 1
    BY <1>2, <1>3
  <1>5. GoodState(Rebuilt(note, names, sizes, turns))
    BY <1>1, RebuildGood DEF Defragments
  <1> QED
    BY <1>1, <1>4, <1>5, GoodNext DEF Defragments

--------------------------------------------------------------------------------
(***************************************************************************)
(* Formatting.                                                             *)
(***************************************************************************)

\* Without a free sector no inode can be made, and none appears.
LEMMA NoRoom ==
    ASSUME NEW f, Bits \ f.map = {}, NEW n \in Nat \ {0}, NEW r, r = inode_reserve(f, NoPointers, n)
    PROVE  /\ ~r.ok /\ r.fs.map = f.map
           /\ r.fs.at[0].kind = "inode" => r.fs.at[0] = f.at[0]
  <1>1. PICK lacking : lacking = Lacking(f, NoPointers, n)
    OBVIOUS
  <1>2. PICK given : given = Given(f.map, lacking)
    OBVIOUS
  <1>3. PICK unserved : unserved = lacking \ DOMAIN given
    OBVIOUS
  <1>4. PICK new : new = NewSector(f, NoPointers, given)
    OBVIOUS
  <1>5. PICK written : written = Written(n, unserved)
    OBVIOUS
  <1>6. PICK taken : taken = {given[p] : p \in DOMAIN given}
    OBVIOUS
  <1>7. Fields(f, NoPointers, n, r, given, unserved, new, written, taken)
    BY <1>1, <1>2, <1>3, <1>4, <1>5, <1>6, ReservedFields
  <1>8. <<0>> \in lacking
    <2>1. 0 \in 0 .. MaxSectors - 1
      <3>1. INDIRECT_BLOCKS_PER_SECTOR * INDIRECT_BLOCKS_PER_SECTOR \in Nat
        BY Counts
      <3> QED
        BY <3>1, Counts DEF MaxSectors
    <2>2. DataPath(0) = <<0>>
      BY Counts DEF DataPath
    <2>3. <<0>> \in Paths(n)
      BY <2>1, <2>2, DataIsPath
    <2>4. SectorAt(f.at, NoPointers, <<0>>) = NoPointers[0]
      <3>1. 0 \in Pointers
        BY Counts DEF Pointers
      <3> QED
        BY <3>1, SingleSector
    <2>5. NoPointers[0] = 0
      BY Counts DEF NoPointers, Pointers
    <2> QED
      BY <1>1, <2>3, <2>4, <2>5 DEF Lacking
  <1>9. DOMAIN given = {}
    <2>1. Cardinality(Bits \ f.map) = 0
      BY FS_EmptySet
    <2>2. DOMAIN given = {q \in lacking : Cardinality(lacking \cap Before[q]) < Cardinality(Bits \ f.map)}
      BY <1>2 DEF Given
    <2>3. ASSUME NEW q \in lacking PROVE ~(Cardinality(lacking \cap Before[q]) < 0)
      <3>1. IsFiniteSet(lacking)
        BY <1>1, PathsFinite, FS_Subset DEF Lacking
      <3>2. IsFiniteSet(lacking \cap Before[q])
        BY <3>1, FS_Subset
      <3>3. PICK k \in Nat : k = Cardinality(lacking \cap Before[q])
        BY <3>2, FS_CardinalityType
      <3> QED
        BY <3>3
    <2> QED
      BY <2>1, <2>2, <2>3
  <1>10. taken = {} /\ unserved # {}
    BY <1>3, <1>6, <1>8, <1>9
  <1>11. ~r.ok /\ r.fs.map = f.map
    BY <1>7, <1>10 DEF Fields
  <1>12. ASSUME r.fs.at[0].kind = "inode" PROVE r.fs.at[0] = f.at[0]
    <2>1. 0 \in Sector
      BY ZeroSector
    <2>2. CASE \E p \in written : new[p] = 0
      <3>1. PICK p \in written : r.fs.at[0] = Block(NewBlock(f, NoPointers, given, p))
        BY <1>7, <2>1, <2>2 DEF Fields
      <3>2. r.fs.at[0].kind = "block"
        BY <3>1 DEF Block
      <3> QED
        BY <1>12, <3>2
    <2>3. CASE \A p \in written : new[p] # 0
      <3>1. r.fs.at[0] = Zeros \/ r.fs.at[0] = f.at[0]
        BY <1>7, <2>1, <2>3 DEF Fields
      <3> QED
        BY <1>12, <3>1 DEF Zeros
    <2> QED
      BY <2>2, <2>3
  <1> QED
    BY <1>11, <1>12

\* The device before the inodes of the system are made.
LEMMA EmptyForest ==
    ASSUME 1 \in Bits
    PROVE  Forest(EmptyDevice, {0, 1}, [t \in {0, 1} |-> NoPointers])
  <1>1. 0 \in Bits
    BY Counts DEF Bits
  <1>2. PICK m, c : m = {0, 1} /\ c = [s \in Sector |-> Zeros]
    OBVIOUS
  <1>3. c \in [Sector -> Contents] /\ m \in SUBSET Bits
    BY <1>1, <1>2 DEF Contents
  <1>4. EmptyDevice = [map |-> m, at |-> c]
    BY <1>2 DEF EmptyDevice, FREE_MAP_SECTOR, ROOT_DIR_SECTOR
  <1>5. EmptyDevice \in FileSystems /\ EmptyDevice.map = m /\ EmptyDevice.at = c
    BY <1>3, <1>4 DEF FileSystems
  <1>6. PICK P : P = [t \in {0, 1} |-> NoPointers]
    OBVIOUS
  <1>7. P \in [{0, 1} -> [Pointers -> Sector]] /\ P[0] = NoPointers /\ P[1] = NoPointers
    BY <1>3, <1>6, NoTree
  <1>8. \A t \in {0, 1}, p \in AllPaths : SectorAt(EmptyDevice.at, P[t], p) = 0
    BY <1>3, <1>5, <1>7, NoTree
  <1>9. Apart(EmptyDevice, {0, 1}, P)
    BY <1>8 DEF Apart
  <1>10. Forest(EmptyDevice, {0, 1}, P)
    BY <1>2, <1>5, <1>7, <1>9 DEF Forest
  <1> QED
    BY <1>6, <1>10

\* One of the two inodes is made: the other's tree stays.
SystemInode(f, P, s, r, g, c) ==
    /\ r.ok \in BOOLEAN
    /\ ~r.ok /\ g.at[s].kind = "inode" => f.at[s].kind = "inode"
    /\ g.at[0].kind = "inode" /\ s = 1 => g.at[0] = f.at[0]
    /\ Forest(g, {0, 1}, [P EXCEPT ![s] = r.ptr])
    /\ \A t \in {0, 1} \ {s}, p \in AllPaths : SectorAt(g.at, P[t], p) = SectorAt(f.at, P[t], p)
    /\ \A x \in {1} \ {s} : g.at[x] = f.at[x]
    /\ f.map \subseteq g.map
    /\ r.ok => g.at[s] = c
    /\ r.ok => Held(g, s)
    /\ r.ok => \A x \in g.map \ f.map : x \in OwnedBy(g, s)

LEMMA SystemInodeCreated ==
    ASSUME NEW f, NEW P, Forest(f, {0, 1}, P), NEW s \in {0, 1}, P[s] = NoPointers,
           NEW length \in Nat,
           NEW r, r = inode_reserve(f, NoPointers, bytes_to_sectors(length)),
           NEW g, g = inode_create(f, s, length).fs
    PROVE  SystemInode(f, P, s, r, g, Inode(r.ptr, length))
  <1>1. PICK n \in Nat : n = bytes_to_sectors(length)
    BY SectorsForBytes
  <1>2. PICK I : I = {0, 1}
    OBVIOUS
  <1>3. ReservedApart(f, I, P, s, r, n)
    BY <1>1, <1>2, ForestReserve
  <1>4. PICK ptr, h, Q : ptr = r.ptr /\ h = r.fs /\ Q = [P EXCEPT ![s] = ptr]
    OBVIOUS
  <1>5. /\ Extends(f, NoPointers, r, n)
        /\ Forest(h, I, Q)
        /\ \A t \in I \ {s}, p \in AllPaths : SectorAt(h.at, P[t], p) = SectorAt(f.at, P[t], p)
        /\ \A x \in I \ {0} : h.at[x] = f.at[x]
    BY <1>3, <1>4 DEF ReservedApart
  <1>6. /\ r.ok \in BOOLEAN /\ ptr \in [Pointers -> Sector] /\ f.map \subseteq h.map
        /\ r.ok => /\ n <= MaxSectors
                   /\ \A p \in Paths(n) : SectorAt(h.at, ptr, p) # 0
                   /\ \A x \in h.map \ f.map : \E p \in Paths(n) : x = SectorAt(h.at, ptr, p)
    BY <1>4, <1>5 DEF Extends
  <1>7. h.at[0].kind = "inode" => h.at[0] = f.at[0]
    <2>1. f \in FileSystems /\ NoPointers \in [Pointers -> Sector]
      BY FileSystemFields, NoTree DEF Forest
    <2>2. KeepsInodes(f, r)
      BY <1>1, <2>1, ReserveType
    <2> QED
      BY <1>4, <2>2, ZeroSector DEF KeepsInodes
  <1>8. P \in [I -> [Pointers -> Sector]] /\ Q[s] = ptr /\ \A t \in I \ {s} : Q[t] = P[t]
    BY <1>2, <1>4 DEF Forest
  <1>9. CASE ~r.ok
    <2>1. g = h
      BY <1>4, <1>9 DEF inode_create, Created
    <2>2. h.at[s].kind = "inode" => f.at[s].kind = "inode"
      BY <1>2, <1>5, <1>7
    <2> QED
      BY <1>2, <1>4, <1>5, <1>6, <1>7, <1>9, <2>1, <2>2 DEF SystemInode
  <1>10. CASE r.ok
    <2>1. PICK c : c = Inode(ptr, length)
      OBVIOUS
    <2>2. c \in Contents /\ c.kind = "inode" /\ c.ptr = ptr /\ c.length = length
      BY <1>6, <2>1 DEF Contents, Inode
    <2>3. g = [h EXCEPT !.at[s] = c]
      <3>1. r = [ok |-> r.ok, fs |-> h, ptr |-> ptr]
        BY <1>1, <1>4, ReserveRecord
      <3>2. g = [r EXCEPT !.fs.at[s] = Inode(r.ptr, length)].fs
        BY <1>10 DEF inode_create, Created
      <3>3. g = [r EXCEPT !.fs.at[s] = c].fs
        BY <1>4, <2>1, <3>2
      <3> QED
        BY ONLY <3>1, <3>3
    <2>4. Overwrites(h, I, Q, s, c, g)
      BY <1>2, <1>5, <2>2, <2>3, ForestWrite
    <2>5. /\ Forest(g, I, Q)
          /\ g.map = h.map /\ g.at[s] = c /\ \A x \in Sector \ {s} : g.at[x] = h.at[x]
          /\ \A t \in I, p \in AllPaths : SectorAt(g.at, Q[t], p) = SectorAt(h.at, Q[t], p)
      BY <2>4 DEF Overwrites
    <2>6. \A p \in AllPaths : SectorAt(g.at, ptr, p) = SectorAt(h.at, ptr, p)
      BY <1>2, <1>8, <2>5
    <2>7. Held(g, s)
      BY ONLY <1>1, <1>6, <1>10, <2>2, <2>5, <2>6, PathsClosed DEF Held
    <2>8. OwnedBy(g, s) = {s} \cup {SectorAt(g.at, ptr, p) : p \in Paths(n)}
      BY ONLY <1>1, <2>2, <2>5 DEF OwnedBy, SectorsOf
    <2>9. ASSUME NEW x \in g.map \ f.map PROVE x \in OwnedBy(g, s)
      <3>1. PICK p \in Paths(n) : x = SectorAt(h.at, ptr, p)
        BY <1>6, <1>10, <2>5
      <3>2. x = SectorAt(g.at, ptr, p)
        BY <1>1, <2>6, <3>1, PathsClosed
      <3> QED
        BY <2>8, <3>2
    <2>10. \A t \in I \ {s}, p \in AllPaths : SectorAt(g.at, P[t], p) = SectorAt(f.at, P[t], p)
      BY <1>5, <1>8, <2>5
    <2>11. 0 \in Sector /\ 1 \in Sector
      BY <1>2, FileSystemFields DEF Forest
    <2>12. \A x \in {1} \ {s} : g.at[x] = f.at[x]
      BY <1>2, <1>5, <2>5, <2>11
    <2>13. g.at[0].kind = "inode" /\ s = 1 => g.at[0] = f.at[0]
      BY <1>7, <2>5, <2>11
    <2>14. f.map \subseteq g.map
      BY <1>6, <2>5
    <2> QED
      BY <1>2, <1>4, <1>6, <1>10, <2>1, <2>5, <2>7, <2>9, <2>10, <2>12, <2>13, <2>14
         DEF SystemInode
  <1> QED
    BY <1>6, <1>9, <1>10

LEMMA SectorNeeded ==
    ASSUME NEW a \in Nat \ {0}
    PROVE  bytes_to_sectors(a) \in Nat \ {0}
  <1>1. PICK B \in Nat \ {0} : B = BLOCK_SECTOR_SIZE
    BY Counts
  <1>2. PICK k \in Nat : k = a + B - 1
    BY <1>1
  <1>3. k \div B \in Nat /\ k < B * (k \div B) + B
    BY <1>1, <1>2, DivMod
  <1>4. k >= B
    BY <1>1, <1>2
  <1>5. k \div B # 0
    <2>1. ASSUME k \div B = 0 PROVE FALSE
      <3>1. B * (k \div B) = 0
        BY <1>1, <2>1
      <3> QED
        BY <1>1, <1>2, <1>3, <1>4, <3>1
    <2> QED
      BY <2>1
  <1> QED
    BY <1>1, <1>2, <1>3, <1>5 DEF bytes_to_sectors

LEMMA SystemSizes ==
    /\ FreeMapSize \in Nat \ {0} /\ MAX_FILES_IN_DIRECTORY \in Nat \ {0}
    /\ MAX_FILES_IN_DIRECTORY * EntrySize \in Nat \ {0}
  <1>1. /\ FreeMapSize \in Nat \ {0} /\ MAX_FILES_IN_DIRECTORY \in Nat \ {0}
        /\ EntrySize \in Nat \ {0}
    BY FileSystemAssumption
  <1>2. PICK a \in Nat \ {0}, b \in Nat \ {0} : a = MAX_FILES_IN_DIRECTORY /\ b = EntrySize
    BY <1>1
  <1>3. a * b \in Nat /\ a * b # 0
    BY SMT
  <1> QED
    BY <1>1, <1>2, <1>3

\* The sectors of the two inodes are all that is marked.
LEMMA FormattedSound ==
    ASSUME NEW f, f = Formatted, f.at[0].kind = "inode", f.at[1].kind = "inode",
           NEW o, o = [s \in DOMAIN o |-> o[s]], DOMAIN o = {}
    PROVE  /\ Sound(f, {0, 1}, o) /\ Accounted(f, {0, 1}, {})
           /\ f.at[1].length = MAX_FILES_IN_DIRECTORY * EntrySize
  <1>1. PICK size : size = MAX_FILES_IN_DIRECTORY * EntrySize
    OBVIOUS
  <1>2. PICK e, f1 : e = EmptyDevice /\ f1 = inode_create(e, 0, FreeMapSize).fs
    OBVIOUS
  <1>3. f = inode_create(f1, 1, size).fs
    BY <1>1, <1>2 DEF Formatted, FREE_MAP_SECTOR, ROOT_DIR_SECTOR
  <1>4. FreeMapSize \in Nat /\ size \in Nat
    BY <1>1, SystemSizes
  <1>5. /\ bytes_to_sectors(FreeMapSize) \in Nat \ {0}
        /\ bytes_to_sectors(size) \in Nat \ {0}
    BY <1>1, SystemSizes, SectorNeeded
  <1>6. PICK r0 : r0 = inode_reserve(e, NoPointers, bytes_to_sectors(FreeMapSize))
    OBVIOUS
  <1>7. PICK r1 : r1 = inode_reserve(f1, NoPointers, bytes_to_sectors(size))
    OBVIOUS
  <1>8. e.map = {0, 1} /\ e.at = [s \in Sector |-> Zeros]
    BY <1>2 DEF EmptyDevice, FREE_MAP_SECTOR, ROOT_DIR_SECTOR
  <1>9. \A s \in Sector : e.at[s].kind # "inode"
    BY <1>8 DEF Zeros
  <1>10. 1 \in Bits
    <2>1. SUFFICES ASSUME 1 \notin Bits PROVE FALSE
      OBVIOUS
    <2>2. Bits \ e.map = {}
      BY <1>8, <2>1, Counts DEF Bits
    <2>3. ~r0.ok /\ r0.fs.map = e.map /\ r0.fs.at[0].kind # "inode"
      <3>1. /\ ~r0.ok /\ r0.fs.map = e.map
            /\ r0.fs.at[0].kind = "inode" => r0.fs.at[0] = e.at[0]
        BY <1>5, <1>6, <2>2, NoRoom
      <3> QED
        BY <1>9, <3>1, ZeroSector
    <2>4. f1 = r0.fs
      BY <1>2, <1>6, <2>3 DEF inode_create, Created
    <2>5. Bits \ f1.map = {}
      BY <2>2, <2>3, <2>4
    <2>6. ~r1.ok /\ (r1.fs.at[0].kind = "inode" => r1.fs.at[0] = f1.at[0])
      BY <1>5, <1>7, <2>5, NoRoom
    <2>7. f = r1.fs
      BY <1>3, <1>7, <2>6 DEF inode_create, Created
    <2> QED
      BY <2>3, <2>4, <2>6, <2>7
  <1>11. PICK P0 : P0 = [t \in {0, 1} |-> NoPointers]
    OBVIOUS
  <1>12. Forest(e, {0, 1}, P0) /\ P0[0] = NoPointers /\ P0[1] = NoPointers
    BY <1>2, <1>10, <1>11, EmptyForest
  <1>13. PICK p0, p1 : p0 = r0.ptr /\ p1 = r1.ptr
    OBVIOUS
  <1>14. PICK P1, P2 : P1 = [P0 EXCEPT ![0] = p0] /\ P2 = [P1 EXCEPT ![1] = p1]
    OBVIOUS
  <1>15. P1[0] = p0 /\ P1[1] = NoPointers /\ P2[0] = p0 /\ P2[1] = p1 /\ P2 = [t \in {0, 1} |-> P2[t]]
    <2>1. P1 = [P0 EXCEPT ![0] = p0] /\ P2 = [P1 EXCEPT ![1] = p1]
      BY <1>14
    <2>2. P1 = [t \in {0, 1} |-> IF t = 0 THEN p0 ELSE NoPointers]
      BY ONLY <1>11, <2>1
    <2>3. P2 = [t \in {0, 1} |-> IF t = 1 THEN p1 ELSE p0]
      BY ONLY <2>1, <2>2
    <2> QED
      BY ONLY <2>2, <2>3
  <1>16. PICK c0, c1 : c0 = Inode(p0, FreeMapSize) /\ c1 = Inode(p1, size)
    OBVIOUS
  <1>17. SystemInode(e, P0, 0, r0, f1, c0)
    BY <1>2, <1>4, <1>6, <1>12, <1>13, <1>16, SystemInodeCreated
  <1>18. Forest(f1, {0, 1}, P1)
    BY <1>13, <1>14, <1>17 DEF SystemInode
  <1>19. SystemInode(f1, P1, 1, r1, f, c1)
    <2>1. f = inode_create(f1, 1, size).fs
      BY <1>3
    <2> QED
      BY ONLY <1>4, <1>7, <1>13, <1>15, <1>16, <1>18, <2>1, SystemInodeCreated
  <1>20. f.at[0] = f1.at[0]
    BY <1>19 DEF SystemInode
  <1>21. 0 \in Sector /\ 1 \in Sector
    BY <1>10, ZeroSector
  <1>22. r0.ok /\ f1.at[0] = c0 /\ Held(f1, 0) /\ f1.at[1] = e.at[1]
         /\ \A x \in f1.map \ e.map : x \in OwnedBy(f1, 0)
    BY <1>9, <1>17, <1>20, <1>21 DEF SystemInode
  <1>23. r1.ok /\ f.at[1] = c1 /\ Held(f, 1)
         /\ (\A x \in f.map \ f1.map : x \in OwnedBy(f, 1))
         /\ \A p \in AllPaths : SectorAt(f.at, p0, p) = SectorAt(f1.at, p0, p)
    <2>1. r1.ok
      BY <1>9, <1>19, <1>21, <1>22 DEF SystemInode
    <2> QED
      BY <1>15, <1>19, <2>1 DEF SystemInode
  <1>24. Forest(f, {0, 1}, P2)
    BY <1>13, <1>14, <1>19 DEF SystemInode
  <1>25. P2 \in [{0, 1} -> [Pointers -> Sector]] /\ f \in FileSystems /\ f1 \in FileSystems
         /\ 0 \in f.map /\ 1 \in f.map
    BY <1>18, <1>24 DEF Forest
  <1>26. p0 \in [Pointers -> Sector] /\ p1 \in [Pointers -> Sector]
    BY <1>15, <1>25
  <1>27. c0.ptr = p0 /\ c1.ptr = p1
    BY <1>16 DEF Inode
  <1>28. Held(f, 0) /\ OwnedBy(f, 0) = OwnedBy(f1, 0)
    <2>1. PartOf(f1.at[0].ptr, p0)
      BY <1>22, <1>27 DEF PartOf
    <2>2. \A p \in AllPaths : SectorAt(f1.at, p0, p) # 0
                                 => SectorAt(f.at, p0, p) = SectorAt(f1.at, p0, p)
      BY <1>23
    <2>3. Held(f1, 0) /\ 0 \in Sector /\ f.at[0] = f1.at[0]
      BY <1>20, <1>21, <1>22
    <2> QED
      BY ONLY <1>25, <1>26, <2>1, <2>2, <2>3, HeldStays
  <1>29. Pointed(f, {0, 1}, o) = P2
    <2>1. PointersOf(f, o, 0) = p0 /\ PointersOf(f, o, 1) = p1
      BY <1>20, <1>22, <1>23, <1>27 DEF PointersOf
    <2> QED
      BY <1>15, <2>1 DEF Pointed
  <1>30. OpenInodes(f, {0, 1}, o)
    BY DEF OpenInodes
  <1>31. Sound(f, {0, 1}, o)
    BY <1>23, <1>24, <1>28, <1>29, <1>30 DEF Sound
  <1>32. ASSUME NEW x \in f.map PROVE \E s \in {0, 1} : x \in OwnedBy(f, s)
    <2>1. CASE x \in f1.map
      <3>1. CASE x \in e.map
        BY <1>8, <3>1 DEF OwnedBy
      <3>2. CASE x \notin e.map
        BY <1>22, <1>28, <2>1, <3>2
      <3> QED
        BY <3>1, <3>2
    <2>2. CASE x \notin f1.map
      BY <1>23, <2>2
    <2> QED
      BY <2>1, <2>2
  <1>33. f.at[1].length = MAX_FILES_IN_DIRECTORY * EntrySize
    BY <1>1, <1>16, <1>23 DEF Inode
  <1> QED
    BY <1>31, <1>32, <1>33 DEF Accounted

LEMMA GoodInitially ==
    ASSUME Init, SystemIntact
    PROVE  Inv
  <1>1. fs = Formatted /\ open = <<>> /\ table = <<>> /\ lost = {}
        /\ dir = [k \in 0 .. MAX_FILES_IN_DIRECTORY - 1 |-> IF k = 0 THEN ParentEntry ELSE NoEntry]
    BY DEF Init
  <1>2. open = [s \in DOMAIN open |-> open[s]] /\ DOMAIN open = {}
    BY <1>1
  <1>3. fs.at[0].kind = "inode" /\ fs.at[1].kind = "inode"
    BY DEF SystemIntact, FREE_MAP_SECTOR, ROOT_DIR_SECTOR
  <1>4. Sound(fs, {0, 1}, open) /\ Accounted(fs, {0, 1}, {})
    BY <1>1, <1>2, <1>3, FormattedSound
  <1>5. PICK K \in Nat : K = MAX_FILES_IN_DIRECTORY - 1
    BY SystemSizes
  <1>6. /\ DOMAIN dir = 0 .. K /\ dir = [k \in DOMAIN dir |-> dir[k]]
        /\ dir[0] = ParentEntry
        /\ \A k \in DOMAIN dir \ {0} : dir[k] = NoEntry
    BY <1>1, <1>5
  <1>7. /\ ParentEntry \in EntryType /\ NoEntry \in EntryType
        /\ ParentEntry.in_use /\ ~NoEntry.in_use
    BY DEF ParentEntry, NoEntry, EntryType, ROOT_DIR_SECTOR
  <1>8. Used(dir) = {}
    BY <1>6, <1>7 DEF Used
  <1>9. \A k \in DOMAIN dir : dir[k] \in EntryType
    BY <1>6, <1>7
  <1>10. Directory(dir)
    BY <1>6, <1>7, <1>8, <1>9 DEF Directory
  <1>11. InodesIn(dir) = {0, 1}
    BY <1>8 DEF InodesIn, FilesIn
  <1>12. Tabled(table, dir, open)
    BY <1>1 DEF Tabled
  <1> QED
    BY <1>1, <1>4, <1>10, <1>11, <1>12 DEF Inv, Good

--------------------------------------------------------------------------------
(***************************************************************************)
(* What the invariant says.                                                *)
(***************************************************************************)

LEMMA OneToOneImage ==
    ASSUME NEW S, IsFiniteSet(S), NEW f, f = [x \in S |-> f[x]],
           \A x, y \in S : f[x] = f[y] => x = y,
           NEW T, T = {f[x] : x \in S}
    PROVE  IsFiniteSet(T) /\ Cardinality(T) = Cardinality(S)
  <1>1. f \in [S -> T] /\ \A t \in T : \E x \in S : f[x] = t
    OBVIOUS
  <1>2. f \in Surjection(S, T) /\ f \in Injection(S, T)
    BY <1>1 DEF Surjection, Injection, IsInjective
  <1> QED
    BY <1>2, FS_Surjection

\* Each file has an inode of its own.
LEMMA InodesCounted ==
    ASSUME NEW d, Directory(d)
    PROVE  Cardinality(InodesIn(d)) = 2 + Cardinality(Used(d))
  <1>1. PICK K \in Nat : DOMAIN d = 0 .. K
    BY DEF Directory
  <1>2. IsFiniteSet(Used(d))
    <2>1. IsFiniteSet(0 .. K) /\ Used(d) \in SUBSET (0 .. K)
      BY <1>1, FS_Interval DEF Used
    <2> QED
      BY <2>1, FS_Subset
  <1>3. PICK f : f = [k \in Used(d) |-> d[k].inode_sector]
    OBVIOUS
  <1>4. f = [k \in Used(d) |-> f[k]] /\ FilesIn(d) = {f[k] : k \in Used(d)}
    BY <1>3 DEF FilesIn
  <1>5. \A k, l \in Used(d) : f[k] = f[l] => k = l
    BY <1>3 DEF Directory
  <1>6. IsFiniteSet(FilesIn(d)) /\ Cardinality(FilesIn(d)) = Cardinality(Used(d))
    BY <1>2, <1>4, <1>5, OneToOneImage
  <1>7. 0 \notin FilesIn(d) /\ 1 \notin FilesIn(d)
    BY DEF FilesIn, Directory
  <1>8. PICK A, B : A = FilesIn(d) \cup {0} /\ B = A \cup {1}
    OBVIOUS
  <1>9. IsFiniteSet(A) /\ Cardinality(A) = Cardinality(FilesIn(d)) + 1
    BY <1>6, <1>7, <1>8, FS_AddElement
  <1>10. 1 \notin A
    BY <1>7, <1>8
  <1>11. Cardinality(B) = Cardinality(A) + 1
    BY <1>8, <1>9, <1>10, FS_AddElement
  <1>12. InodesIn(d) = B
    BY <1>8 DEF InodesIn
  <1>13. Cardinality(Used(d)) \in Nat
    BY <1>2, FS_CardinalityType
  <1> QED
    BY <1>6, <1>9, <1>11, <1>12, <1>13

\* The indexes of the sectors that the bytes of a file lie in.
LEMMA SectorsOfBytes ==
    ASSUME NEW len \in Nat, NEW n, n = bytes_to_sectors(len)
    PROVE  /\ n \in Nat
           /\ \A b \in 0 .. len - 1 : b \div BLOCK_SECTOR_SIZE \in 0 .. n - 1
           /\ \A k \in 0 .. n - 1 : \E b \in 0 .. len - 1 : b \div BLOCK_SECTOR_SIZE = k
  <1>1. PICK B \in Nat \ {0} : B = BLOCK_SECTOR_SIZE
    BY Counts
  <1>2. PICK m \in Nat : m = len + B - 1
    BY <1>1
  <1>3. n = m \div B
    BY <1>1, <1>2 DEF bytes_to_sectors
  <1>4. n \in Nat /\ B * n <= m /\ m < B * n + B
    BY <1>2, <1>3, DivMod
  <1>5. B * n \in Nat /\ len <= B * n
    BY <1>2, <1>4
  <1>6. ASSUME NEW b \in 0 .. len - 1 PROVE b \div B \in 0 .. n - 1
    <2>1. b \in Nat /\ b < B * n
      BY <1>5
    <2>2. b \div B \in Nat /\ b \div B < n
      BY <1>4, <2>1, DivMod, DivBound
    <2> QED
      BY <1>4, <2>2
  <1>7. ASSUME NEW k \in 0 .. n - 1 PROVE \E b \in 0 .. len - 1 : b \div B = k
    <2>1. k \in Nat /\ k + 1 <= n
      BY <1>4
    <2>2. B * (k + 1) <= B * n
      <3>1. PICK e \in Nat : n = (k + 1) + e
        <4>1. n - (k + 1) \in Nat /\ n = (k + 1) + (n - (k + 1))
          BY <1>4, <2>1
        <4> QED
          BY <4>1
      <3>2. B * n = B * (k + 1) + B * e /\ B * e \in Nat /\ B * (k + 1) \in Nat
        BY <2>1, <3>1
      <3> QED
        BY <3>2
    <2>3. PICK b \in Nat : b = B * k
      BY <2>1
    <2>4. B * (k + 1) = b + B
      BY <2>1, <2>3
    <2>5. b + B <= len + B - 1
      BY <1>2, <1>4, <1>5, <2>2, <2>3, <2>4
    <2>6. b \in 0 .. len - 1
      BY <2>3, <2>5
    <2>7. b \div B = k
      <3>1. PICK q \in Nat : q = b \div B
        BY DivMod
      <3>2. B * q <= b /\ b < B * q + B
        BY <3>1, DivMod
      <3>3. q < k + 1
        <4>1. b < B * (k + 1)
          BY <2>3, <2>4
        <4> QED
          BY <2>1, <2>3, <3>1, <4>1, DivBound
      <3>4. ~(q + 1 <= k)
        <4>1. ASSUME q + 1 <= k PROVE FALSE
          <5>1. PICK e \in Nat : k = (q + 1) + e
            <6>1. k - (q + 1) \in Nat /\ k = (q + 1) + (k - (q + 1))
              BY <2>1, <4>1
            <6> QED
              BY <6>1
          <5>2. B * k = B * q + B + B * e /\ B * e \in Nat /\ B * q \in Nat
            BY <5>1
          <5> QED
            BY <2>3, <3>2, <5>2
        <4> QED
          BY <4>1
      <3> QED
        BY <2>1, <3>1, <3>3, <3>4
    <2> QED
      BY <2>6, <2>7
  <1> QED
    BY <1>1, <1>4, <1>6, <1>7

LEMMA OwnedReached ==
    ASSUME NEW f, NEW I, NEW o, Sound(f, I, o), NEW s \in I, Held(f, s),
           NEW p \in Paths(bytes_to_sectors(f.at[s].length)),
           NEW x, x = SectorAt(f.at, f.at[s].ptr, p)
    PROVE  p \in AllPaths /\ x # 0 /\ x = SectorAt(f.at, PointersOf(f, o, s), p)
  <1>1. PICK disk, len, ptr : disk = f.at[s].ptr /\ len = f.at[s].length /\ ptr = PointersOf(f, o, s)
    OBVIOUS
  <1>2. /\ disk \in [Pointers -> Sector] /\ len \in Nat /\ f.at \in [Sector -> Contents]
        /\ ptr \in [Pointers -> Sector] /\ PartOf(disk, ptr)
    BY <1>1, SoundInode
  <1>3. PICK n \in Nat : n = bytes_to_sectors(len)
    BY <1>2, SectorsForBytes
  <1>4. p \in Paths(n) /\ p \in AllPaths /\ x = SectorAt(f.at, disk, p)
    BY <1>1, <1>3, PathsClosed
  <1>5. x # 0
    BY <1>1, <1>3, <1>4 DEF Held
  <1>6. x = SectorAt(f.at, ptr, p)
    BY <1>2, <1>4, <1>5, PartSectors
  <1> QED
    BY <1>1, <1>4, <1>5, <1>6

LEMMA NothingShared ==
    ASSUME NEW f, NEW I, NEW o, Sound(f, I, o), NEW s \in I, NEW t \in I, s # t, Held(f, s), Held(f, t)
    PROVE  OwnedBy(f, s) \cap OwnedBy(f, t) = {}
  <1>1. SUFFICES ASSUME NEW x \in OwnedBy(f, s), x \in OwnedBy(f, t) PROVE FALSE
    OBVIOUS
  <1>2. /\ x = s \/ x \notin I
        /\ \A p \in AllPaths : SectorAt(f.at, PointersOf(f, o, t), p) # 0
                                  => SectorAt(f.at, PointersOf(f, o, t), p) # x
    BY OwnedApart
  <1>3. x = t \/ x \notin I
    BY <1>1, OwnedApart
  <1>4. x # s /\ x # t
    BY <1>2, <1>3
  <1>5. PICK p \in Paths(bytes_to_sectors(f.at[t].length)) : x = SectorAt(f.at, f.at[t].ptr, p)
    BY <1>1, <1>4 DEF OwnedBy, SectorsOf
  <1>6. p \in AllPaths /\ x # 0 /\ x = SectorAt(f.at, PointersOf(f, o, t), p)
    BY <1>5, OwnedReached
  <1> QED
    BY <1>2, <1>6

\* As many different sectors as the bytes need.
LEMMA DataCounted ==
    ASSUME NEW f, NEW I, NEW o, Sound(f, I, o), NEW s \in I, Held(f, s),
           NEW ptr, ptr = f.at[s].ptr, NEW len, len = f.at[s].length
    PROVE  Cardinality({index_to_sector(f.at, ptr, b \div BLOCK_SECTOR_SIZE) : b \in 0 .. len - 1}
                           \ {0, s})
               = bytes_to_sectors(len)
  <1>1. len \in Nat
    BY SoundInode
  <1>2. PICK n \in Nat : n = bytes_to_sectors(len)
    BY <1>1, SectorsForBytes
  <1>3. n <= MaxSectors
    BY <1>2 DEF Held
  <1>4. PICK g : g = [k \in 0 .. n - 1 |-> index_to_sector(f.at, ptr, k)]
    OBVIOUS
  <1>5. PICK P : P = Pointed(f, I, o)[s]
    OBVIOUS
  <1>6. ASSUME NEW k \in 0 .. n - 1
        PROVE  /\ k \in 0 .. MaxSectors - 1 /\ DataPath(k) \in AllPaths
               /\ g[k] # 0 /\ g[k] # s /\ g[k] = SectorAt(f.at, P, DataPath(k))
    <2>1. k \in 0 .. MaxSectors - 1 /\ k < n
      BY <1>3, Counts
    <2>2. PICK p : p = DataPath(k)
      OBVIOUS
    <2>3. p \in Paths(n)
      BY <2>1, <2>2, DataIsPath
    <2>4. g[k] = SectorAt(f.at, ptr, p)
      BY <1>4, <2>2 DEF index_to_sector
    <2>5. p \in AllPaths /\ g[k] # 0 /\ g[k] = SectorAt(f.at, PointersOf(f, o, s), p)
      BY <1>2, <2>3, <2>4, OwnedReached
    <2>6. P = PointersOf(f, o, s)
      BY <1>5, SoundInode
    <2>7. g[k] # s
      <3>1. SectorAt(f.at, P, p) \in f.map \ I
        BY <1>5, <2>5, <2>6 DEF Sound, Forest, Apart
      <3> QED
        BY <2>5, <2>6, <3>1
    <2> QED
      BY <2>1, <2>2, <2>5, <2>6, <2>7
  <1>7. ASSUME NEW k \in 0 .. n - 1, NEW l \in 0 .. n - 1, g[k] = g[l] PROVE k = l
    <2>1. PICK p, q : p = DataPath(k) /\ q = DataPath(l)
      OBVIOUS
    <2>2. p \in AllPaths /\ q \in AllPaths /\ SectorAt(f.at, P, p) # 0
          /\ SectorAt(f.at, P, p) = SectorAt(f.at, P, q)
      BY <1>6, <1>7, <2>1
    <2>3. p = q
      BY <1>5, <2>2 DEF Sound, Forest, Apart
    <2> QED
      BY <1>6, <2>1, <2>3, DataPathInjective
  <1>8. PICK T : T = {g[k] : k \in 0 .. n - 1}
    OBVIOUS
  <1>9. Cardinality(T) = n
    <2>1. IsFiniteSet(0 .. n - 1) /\ Cardinality(0 .. n - 1) = n
      BY FS_Interval
    <2>2. g = [k \in 0 .. n - 1 |-> g[k]]
      BY <1>4
    <2>3. Cardinality(T) = Cardinality(0 .. n - 1)
      BY <1>7, <1>8, <2>1, <2>2, OneToOneImage
    <2> QED
      BY <2>1, <2>3
  <1>10. /\ \A b \in 0 .. len - 1 : b \div BLOCK_SECTOR_SIZE \in 0 .. n - 1
         /\ \A k \in 0 .. n - 1 : \E b \in 0 .. len - 1 : b \div BLOCK_SECTOR_SIZE = k
    BY <1>1, <1>2, SectorsOfBytes
  <1>11. {index_to_sector(f.at, ptr, b \div BLOCK_SECTOR_SIZE) : b \in 0 .. len - 1} = T
    <2>1. \A k \in 0 .. n - 1 : g[k] = index_to_sector(f.at, ptr, k)
      BY <1>4
    <2> QED
      BY <1>8, <1>10, <2>1
  <1>12. 0 \notin T /\ s \notin T
    BY <1>6, <1>8
  <1> QED
    BY <1>2, <1>9, <1>11, <1>12

LEMMA NoSharingHolds ==
    ASSUME Inv, SystemIntact
    PROVE  NoSharing
  <1>1. PICK I : I = InodesIn(dir)
    OBVIOUS
  <1>2. Directory(dir) /\ Sound(fs, I, open)
    BY <1>1 DEF Inv, Good
  <1>3. InodeSectors = I /\ InUse = Used(dir)
    BY <1>1, FileSectorsAre DEF InodeSectors, InUse, InodesIn, Used, FREE_MAP_SECTOR, ROOT_DIR_SECTOR
  <1>4. \A s \in I : Held(fs, s) /\ Owned(s) = OwnedBy(fs, s)
    BY <1>2 DEF Sound, SystemIntact, FREE_MAP_SECTOR, Owned, OwnedBy
  <1>5. Cardinality(InodeSectors) = 2 + Cardinality(InUse)
    BY <1>1, <1>2, <1>3, InodesCounted
  <1>6. ASSUME NEW s \in I
        PROVE  /\ fs.at[s].kind = "inode"
               /\ Owned(s) \subseteq fs.map
               /\ Cardinality({index_to_sector(fs.at, fs.at[s].ptr, b \div BLOCK_SECTOR_SIZE) :
                                  b \in 0 .. fs.at[s].length - 1} \ {0, s})
                     = (fs.at[s].length + BLOCK_SECTOR_SIZE - 1) \div BLOCK_SECTOR_SIZE
               /\ \A t \in I : s < t => Owned(s) \cap Owned(t) = {}
    <2>1. fs.at[s].kind = "inode"
      BY <1>4 DEF Held
    <2>2. Owned(s) \subseteq fs.map
      BY <1>2, <1>4, OwnedApart
    <2>3. PICK ptr, len : ptr = fs.at[s].ptr /\ len = fs.at[s].length
      OBVIOUS
    <2>4. Cardinality({index_to_sector(fs.at, ptr, b \div BLOCK_SECTOR_SIZE) :
                          b \in 0 .. len - 1} \ {0, s}) = bytes_to_sectors(len)
      BY <1>2, <1>4, <2>3, DataCounted
    <2>5. ASSUME NEW t \in I, s < t PROVE Owned(s) \cap Owned(t) = {}
      <3>1. s # t
        <4>1. s \in Nat
          BY <1>2, SoundInode, ZeroSector
        <4> QED
          BY <2>5, <4>1
      <3> QED
        BY <1>2, <1>4, <3>1, NothingShared
    <2> QED
      BY <2>1, <2>2, <2>3, <2>4, <2>5 DEF bytes_to_sectors
  <1> QED
    BY <1>3, <1>5, <1>6 DEF NoSharing

LEMMA OnlyFailuresLoseHolds ==
    ASSUME Inv, SystemIntact
    PROVE  OnlyFailuresLose
  <1>1. InodeSectors = InodesIn(dir)
    BY FileSectorsAre DEF InodeSectors, InodesIn, FREE_MAP_SECTOR, ROOT_DIR_SECTOR
  <1>2. \A s : Owned(s) = OwnedBy(fs, s)
    BY DEF Owned, OwnedBy
  <1>3. \A x \in fs.map : x \in lost \/ \E s \in InodesIn(dir) : x \in OwnedBy(fs, s)
    BY DEF Inv, Good, Accounted, SystemIntact, FREE_MAP_SECTOR
  <1> QED
    BY <1>1, <1>2, <1>3 DEF OnlyFailuresLose

LEMMA ClosingLosesNothingHolds ==
    ASSUME Inv
    PROVE  ClosingLosesNothing
  <1>1. PICK I : I = InodesIn(dir)
    OBVIOUS
  <1>2. Sound(fs, I, open)
    BY <1>1 DEF Inv, Good
  <1>3. ASSUME NEW s \in DOMAIN open
        PROVE  /\ open[s].length = fs.at[s].length
               /\ \A p \in Paths(bytes_to_sectors(open[s].length)) :
                     SectorAt(fs.at, open[s].ptr, p) = SectorAt(fs.at, fs.at[s].ptr, p)
    <2>1. s \in I /\ s # 0
      BY <1>2 DEF Sound, OpenInodes
    <2>2. Held(fs, s) /\ PointersOf(fs, open, s) = open[s].ptr
      BY <1>2, <2>1, SoundInode DEF PointersOf
    <2>3. open[s].length = fs.at[s].length
      BY GoodFiles DEF Inv
    <2> QED
      BY <1>2, <2>1, <2>2, <2>3, OwnedReached
  <1> QED
    BY <1>3 DEF ClosingLosesNothing

LEMMA InvStep ==
    ASSUME Inv, [Next]_vars
    PROVE  Inv'
  <1>1. CASE \E n \in Name, size \in Size : \/ Create(n, size) \/ CopyIn(n, size)
                                            \/ Write(n, size) \/ Read(n, size)
    BY <1>1, KeepsCreate, KeepsCopyIn, KeepsWrite, KeepsRead
  <1>2. CASE \E n \in Name, pos \in {0} \cup Size : Seek(n, pos)
    BY <1>2, KeepsSeek
  <1>3. CASE \E n \in Name : SizeOf(n) \/ CopyOut(n) \/ Cat(n) \/ Rm(n)
    BY <1>3, KeepsSizeOf, KeepsCopyOut, KeepsRm
  <1>4. CASE FindFile \/ HiddenData \/ FragmentationDegree \/ Defragment \/ Restart
    BY <1>4, KeepsFindFile, KeepsHiddenData, KeepsFragmentationDegree, KeepsDefragment, KeepsRestart
  <1>5. CASE UNCHANGED vars
    BY <1>5 DEF vars, Inv
  <1> QED
    BY <1>1, <1>2, <1>3, <1>4, <1>5 DEF Next, Command

--------------------------------------------------------------------------------
(***************************************************************************)
(* Room: how many sectors are free, and how many a file takes.  Defragment *)
(* removes all files before it makes them again, so there is room for all  *)
(* of them.                                                                *)
(***************************************************************************)

Free(f) == Cardinality(Bits \ f.map)

Needs(size) == 1 + Cardinality(Paths(bytes_to_sectors(size)))

LEMMA BitsFinite ==
    ASSUME NEW S \in SUBSET Bits
    PROVE  IsFiniteSet(S) /\ Cardinality(S) \in Nat
  <1>1. IsFiniteSet(Bits)
    BY Counts, FS_Interval DEF Bits
  <1>2. IsFiniteSet(S)
    BY <1>1, FS_Subset
  <1> QED
    BY <1>2, FS_CardinalityType

LEMMA NeedsSectors ==
    ASSUME NEW size \in Nat
    PROVE  Needs(size) \in Nat \ {0} /\ Cardinality(Paths(bytes_to_sectors(size))) \in Nat
  <1>1. bytes_to_sectors(size) \in Nat
    BY SectorsForBytes
  <1>2. Cardinality(Paths(bytes_to_sectors(size))) \in Nat
    BY <1>1, PathsFinite, FS_CardinalityType
  <1> QED
    BY <1>2 DEF Needs

\* What is taken from the free sectors, or given back to them, is counted.
LEMMA FreeDifference ==
    ASSUME NEW A \in SUBSET Bits, NEW B \in SUBSET A
    PROVE  Cardinality(Bits \ B) = Cardinality(Bits \ A) + Cardinality(A \ B)
  <1>1. PICK X, Y : X = Bits \ A /\ Y = A \ B
    OBVIOUS
  <1>2. IsFiniteSet(X) /\ IsFiniteSet(Y) /\ Cardinality(X) \in Nat /\ Cardinality(Y) \in Nat
    BY <1>1, BitsFinite
  <1>3. Bits \ B = X \cup Y /\ X \cap Y = {}
    BY <1>1
  <1>4. Cardinality(X \cap Y) = 0
    BY <1>3, FS_EmptySet
  <1>5. Cardinality(X \cup Y) = Cardinality(X) + Cardinality(Y) - Cardinality(X \cap Y)
    BY <1>2, FS_Union
  <1>6. Cardinality(Bits \ B) = Cardinality(X \cup Y)
    BY <1>3
  <1>7. Cardinality(X \cup Y) = Cardinality(X) + Cardinality(Y)
    BY ONLY <1>2, <1>4, <1>5
  <1> QED
    BY <1>1, <1>6, <1>7

\* inode_reserve succeeds when there is a free sector for each path.
LEMMA ReserveEnough ==
    ASSUME NEW f \in FileSystems, NEW ptr, NEW n \in Nat, n <= MaxSectors,
           Cardinality(Paths(n)) <= Free(f),
           NEW r, r = inode_reserve(f, ptr, n)
    PROVE  r.ok
  <1>1. PICK lacking : lacking = Lacking(f, ptr, n)
    OBVIOUS
  <1>2. PICK given : given = Given(f.map, lacking)
    OBVIOUS
  <1>3. lacking \in SUBSET Paths(n) /\ lacking \in SUBSET Paths(MaxSectors)
    BY <1>1, PathsMost DEF Lacking
  <1>4. f.map \in SUBSET Bits
    BY FileSystemFields
  <1>5. Cardinality(lacking) <= Cardinality(Bits \ f.map)
    <2>1. IsFiniteSet(Paths(n))
      BY PathsFinite
    <2>2. /\ Cardinality(lacking) \in Nat /\ Cardinality(Paths(n)) \in Nat
          /\ Cardinality(lacking) <= Cardinality(Paths(n))
      BY <1>3, <2>1, FS_Subset, FS_CardinalityType
    <2>3. Cardinality(Bits \ f.map) \in Nat
      BY BitsFinite
    <2> QED
      BY <2>2, <2>3 DEF Free
  <1>6. DOMAIN given = lacking
    BY <1>2, <1>3, <1>4, <1>5, GivenSectors DEF FreeSectors
  <1>7. PICK unserved : unserved = lacking \ DOMAIN given
    OBVIOUS
  <1>8. unserved = {}
    BY <1>6, <1>7
  <1>9. PICK new, written, taken : /\ new = NewSector(f, ptr, given)
                                   /\ written = Written(n, unserved)
                                   /\ taken = {given[p] : p \in DOMAIN given}
    OBVIOUS
  <1>10. Fields(f, ptr, n, r, given, unserved, new, written, taken)
    BY <1>1, <1>2, <1>7, <1>9, ReservedFields
  <1> QED
    BY <1>8, <1>10 DEF Fields

\* For a new inode it takes one sector for each path.
LEMMA ReserveCounted ==
    ASSUME NEW f \in FileSystems, NEW n \in Nat, NEW r, Extends(f, NoPointers, r, n), r.ok
    PROVE  Free(f) = Free(r.fs) + Cardinality(Paths(n))
  <1>1. r.fs \in FileSystems /\ f.map \subseteq r.fs.map
    BY DEF Extends
  <1>2. f.at \in [Sector -> Contents] /\ f.map \in SUBSET Bits /\ r.fs.map \in SUBSET Bits
    BY <1>1, FileSystemFields
  <1>3. PICK s : s = [p \in Paths(n) |-> SectorAt(r.fs.at, r.ptr, p)]
    OBVIOUS
  <1>4. PICK T : T = {s[p] : p \in Paths(n)}
    OBVIOUS
  <1>5. \A p \in Paths(n) : /\ p \in AllPaths /\ SectorAt(f.at, NoPointers, p) = 0
                            /\ s[p] = SectorAt(r.fs.at, r.ptr, p) /\ s[p] # 0
    <2>1. \A p \in Paths(n) : p \in AllPaths
      BY PathsClosed
    <2>2. \A p \in AllPaths : SectorAt(f.at, NoPointers, p) = 0
      BY <1>2, NoTree
    <2>3. \A p \in Paths(n) : SectorAt(r.fs.at, r.ptr, p) # 0
      BY DEF Extends
    <2> QED
      BY <1>3, <2>1, <2>2, <2>3
  <1>6. \A p, q \in Paths(n) : s[p] = s[q] => p = q
    BY <1>5 DEF Extends
  <1>7. T = r.fs.map \ f.map
    <2>1. \A x \in T : x \in r.fs.map \ f.map
      BY <1>4, <1>5 DEF Extends
    <2>2. \A x \in r.fs.map \ f.map : \E p \in Paths(n) : x = SectorAt(r.fs.at, r.ptr, p)
      BY DEF Extends
    <2>3. \A x \in r.fs.map \ f.map : x \in T
      BY <1>4, <1>5, <2>2
    <2> QED
      BY <2>1, <2>3
  <1>8. IsFiniteSet(Paths(n)) /\ s = [p \in Paths(n) |-> s[p]]
    BY <1>3, PathsFinite
  <1>9. Cardinality(T) = Cardinality(Paths(n))
    BY <1>4, <1>6, <1>8, OneToOneImage
  <1>10. Cardinality(Bits \ f.map) = Cardinality(Bits \ r.fs.map) + Cardinality(r.fs.map \ f.map)
    BY <1>1, <1>2, FreeDifference
  <1> QED
    BY <1>7, <1>9, <1>10 DEF Free

\* A file owns as many sectors as one of its size takes.
LEMMA OwnedCounted ==
    ASSUME NEW f, NEW I, NEW o, Sound(f, I, o), NEW s \in I, Held(f, s)
    PROVE  /\ OwnedBy(f, s) \subseteq f.map
           /\ Cardinality(OwnedBy(f, s)) = Needs(f.at[s].length)
  <1>1. PICK n : n = bytes_to_sectors(f.at[s].length)
    OBVIOUS
  <1>2. n \in Nat
    <2>1. f.at[s].length \in Nat
      BY SoundInode
    <2> QED
      BY <1>1, <2>1, SectorsForBytes
  <1>3. PICK h : h = [p \in Paths(n) |-> SectorAt(f.at, f.at[s].ptr, p)]
    OBVIOUS
  <1>4. PICK T : T = {h[p] : p \in Paths(n)}
    OBVIOUS
  <1>5. OwnedBy(f, s) = {s} \cup T
    BY <1>1, <1>3, <1>4 DEF OwnedBy, SectorsOf
  <1>6. PICK P : P = Pointed(f, I, o)
    OBVIOUS
  <1>7. P[s] = PointersOf(f, o, s) /\ Apart(f, I, P)
    BY <1>6, SoundInode DEF Sound, Forest
  <1>8. ASSUME NEW p \in Paths(n) PROVE p \in AllPaths /\ h[p] # 0 /\ h[p] = SectorAt(f.at, P[s], p)
    <2>1. PICK x : x = SectorAt(f.at, f.at[s].ptr, p)
      OBVIOUS
    <2>2. p \in AllPaths /\ x # 0 /\ x = SectorAt(f.at, PointersOf(f, o, s), p)
      BY <1>1, <2>1, OwnedReached
    <2> QED
      BY <1>3, <1>7, <2>1, <2>2
  <1>9. \A p, q \in Paths(n) : h[p] = h[q] => p = q
    BY <1>7, <1>8 DEF Apart
  <1>10. s \notin T
    BY <1>4, <1>7, <1>8 DEF Apart
  <1>11. IsFiniteSet(Paths(n)) /\ h = [p \in Paths(n) |-> h[p]]
    BY <1>2, <1>3, PathsFinite
  <1>12. IsFiniteSet(T) /\ Cardinality(T) = Cardinality(Paths(n))
    BY <1>4, <1>9, <1>11, OneToOneImage
  <1>13. Cardinality(T \cup {s}) = Cardinality(T) + 1
    BY <1>10, <1>12, FS_AddElement
  <1>14. Cardinality(Paths(n)) \in Nat
    BY <1>11, FS_CardinalityType
  <1>15. OwnedBy(f, s) = T \cup {s}
    BY <1>5
  <1>16. Cardinality(OwnedBy(f, s)) = Needs(f.at[s].length)
    BY <1>1, <1>12, <1>13, <1>14, <1>15 DEF Needs
  <1> QED
    BY <1>16, OwnedApart

(***************************************************************************)
(* The root directory has room for its entries, so an entry that was freed *)
(* is used again without growing.                                          *)
(***************************************************************************)

RootRoom(f, d) == \A k \in DOMAIN d : (k + 1) * EntrySize <= f.at[1].length

LEMMA DirAddRoot ==
    ASSUME NEW f, NEW J, NEW o, Sound(f, J, o), NEW d, Directory(d), RootRoom(f, d), NEW n, NEW s,
           NEW A, A = dir_add(f, d, n, s)
    PROVE  /\ RootRoom(A.fs, A.dir)
           /\ FreeEntry(d) \in DOMAIN d /\ ~InDirectory(d, n) => A.ok /\ A.fs = f
  <1>1. PICK size : size = (FreeEntry(d) + 1) * EntrySize
    OBVIOUS
  <1>2. size \in Nat
    BY <1>1, FreeEntryIs, FileSystemAssumption
  <1>3. PICK r : r = inode_reserve(f, RootInode(f).ptr, bytes_to_sectors(size))
    OBVIOUS
  <1>4. PICK e : e = With(d, FreeEntry(d), [name |-> n, inode_sector |-> s, in_use |-> TRUE])
    OBVIOUS
  <1>5. PICK g : g = [r.fs EXCEPT !.at[1] = Inode(r.ptr, size)]
    OBVIOUS
  <1>6. A = IF InDirectory(d, n) THEN [ok |-> FALSE, fs |-> f, dir |-> d]
            ELSE IF size <= f.at[1].length THEN [ok |-> TRUE, fs |-> f, dir |-> e]
            ELSE IF ~r.ok THEN [ok |-> FALSE, fs |-> r.fs, dir |-> d]
            ELSE [ok |-> TRUE, dir |-> e, fs |-> g]
    BY <1>1, <1>3, <1>4, <1>5 DEF dir_add, Entered, RootInode, ROOT_DIR_SECTOR
  <1>7. 1 \in J \ {0} /\ 1 \notin DOMAIN o /\ o = [t \in DOMAIN o |-> o[t]]
    BY DEF Sound, OpenInodes
  <1>8. Held(f, 1) /\ f.at[1].length \in Nat /\ PointersOf(f, o, 1) = f.at[1].ptr
    <2>1. Held(f, 1) /\ f.at[1].length \in Nat
      BY <1>7, SoundInode
    <2> QED
      BY <1>7, <2>1 DEF PointersOf, Held
  <1>9. r = inode_reserve(f, PointersOf(f, o, 1), bytes_to_sectors(size))
    BY <1>3, <1>8 DEF RootInode, ROOT_DIR_SECTOR
  <1>10. PICK m : m = bytes_to_sectors(size)
    OBVIOUS
  <1>11. m \in Nat
    BY <1>2, <1>10, SectorsForBytes
  <1>12. ASSUME NEW ptr, NEW length PROVE Updated(o, o, 1, ptr, length)
    BY <1>7 DEF Updated
  <1>13. DOMAIN e = DOMAIN d \cup {FreeEntry(d)}
    BY <1>4 DEF With
  <1>14. FreeEntry(d) \in DOMAIN d => size <= f.at[1].length
    BY <1>1 DEF RootRoom
  <1>15. ASSUME NEW h, size <= h.at[1].length, f.at[1].length <= h.at[1].length,
                h.at[1].length \in Nat
         PROVE  RootRoom(h, e)
    <2>1. ASSUME NEW k \in DOMAIN e PROVE (k + 1) * EntrySize <= h.at[1].length
      <3>1. CASE k = FreeEntry(d)
        BY <1>1, <1>15, <3>1
      <3>2. CASE k \in DOMAIN d
        <4>1. PICK a : a = (k + 1) * EntrySize
          OBVIOUS
        <4>2. a <= f.at[1].length
          BY <3>2, <4>1 DEF RootRoom
        <4>3. a \in Nat
          <5>1. k \in Nat /\ EntrySize \in Nat
            BY <3>2, FileSystemAssumption DEF Directory
          <5> QED
            BY <4>1, <5>1
        <4> QED
          BY <1>8, <1>15, <4>1, <4>2, <4>3
      <3> QED
        BY <1>13, <2>1, <3>1, <3>2
    <2> QED
      BY <2>1 DEF RootRoom
  <1>16. CASE InDirectory(d, n)
    <2>1. A.fs = f /\ A.dir = d
      BY <1>6, <1>16
    <2> QED
      BY <1>16, <2>1
  <1>17. CASE ~InDirectory(d, n) /\ size <= f.at[1].length
    <2>1. A.ok = TRUE /\ A.fs = f /\ A.dir = e
      BY <1>6, <1>17
    <2>2. RootRoom(f, e)
      BY <1>8, <1>15, <1>17
    <2> QED
      BY <2>1, <2>2
  <1>18. CASE ~InDirectory(d, n) /\ ~(size <= f.at[1].length) /\ ~r.ok
    <2>1. A.fs = r.fs /\ A.dir = d
      BY <1>6, <1>18
    <2>2. GrowsTo(f, J, o, 1, r.fs, o, f.at[1])
      BY <1>7, <1>9, <1>10, <1>11, <1>12, GrowFails
    <2>3. r.fs.at[1] = f.at[1]
      BY <2>2 DEF GrowsTo
    <2>4. RootRoom(r.fs, d)
      BY <2>3 DEF RootRoom
    <2> QED
      BY <1>14, <1>18, <2>1, <2>4
  <1>19. CASE ~InDirectory(d, n) /\ ~(size <= f.at[1].length) /\ r.ok
    <2>1. A.ok = TRUE /\ A.fs = g /\ A.dir = e
      BY <1>6, <1>19
    <2>2. f.at[1].length <= size
      BY <1>2, <1>8, <1>19
    <2>3. GrowsTo(f, J, o, 1, g, o, Inode(r.ptr, size))
      BY <1>2, <1>5, <1>7, <1>9, <1>12, <1>19, <2>2, GrowSucceeds
    <2>4. g.at[1].length = size
      BY <2>3 DEF GrowsTo, Inode
    <2>5. RootRoom(g, e)
      BY <1>2, <1>15, <2>2, <2>4
    <2> QED
      BY <1>14, <1>19, <2>1, <2>5
  <1> QED
    BY <1>16, <1>17, <1>18, <1>19

\* filesys_create, when a sector is free: the inode at s is reserved with the answer r,
\* written into h, and entered with the answer A.
CreateParts(f, o, d, n, size, R, s, r, h, A) ==
    /\ s \in Bits \ f.map /\ s # 0 /\ s # 1
    /\ r.ok \in BOOLEAN
    /\ r = inode_reserve([f EXCEPT !.map = @ \cup {s}], NoPointers, bytes_to_sectors(size))
    /\ ~r.ok => R = [ok |-> FALSE, fs |-> free_map_release(r.fs, {s}), dir |-> d]
    /\ ~r.ok => r.fs.at[1] = f.at[1]
    /\ r.ok => /\ h = [r.fs EXCEPT !.at[s] = Inode(r.ptr, size)]
               /\ Adds(f, InodesIn(d), o, s, h, Inode(r.ptr, size))
               /\ A = dir_add(h, d, n, s)
               /\ R = OrGivenBack(A, d, s)

LEMMA CreateSteps ==
    ASSUME NEW f, NEW o, NEW d, Directory(d), Sound(f, InodesIn(d), o),
           NEW n \in Name, NEW size \in Nat, ~(Bits \subseteq f.map),
           NEW R, R = filesys_create(f, d, n, size)
    PROVE  \E s, r, h, A : CreateParts(f, o, d, n, size, R, s, r, h, A)
  <1>1. PICK I : I = InodesIn(d)
    OBVIOUS
  <1>2. 0 \in I /\ 1 \in I /\ Sound(f, I, o)
    BY <1>1 DEF InodesIn
  <1>3. PICK s : s = FirstFree(f.map)
    OBVIOUS
  <1>4. s \in Bits \ f.map
    <2>1. f.map \in SUBSET Bits
      BY <1>2, SoundInode
    <2> QED
      BY <1>3, <2>1, FirstFreeIs
  <1>5. s # 0 /\ s # 1
    BY <1>2, <1>4, SoundInode
  <1>6. PICK m : m = bytes_to_sectors(size)
    OBVIOUS
  <1>7. m \in Nat
    BY <1>6, SectorsForBytes
  <1>8. PICK k : k = [f EXCEPT !.map = @ \cup {s}]
    OBVIOUS
  <1>9. PICK r : r = inode_reserve(k, NoPointers, m)
    OBVIOUS
  <1>10. PICK made : made = Created(r, s, size)
    OBVIOUS
  <1>11. R = Filed(made, d, n, s)
    BY <1>3, <1>6, <1>8, <1>9, <1>10 DEF filesys_create, inode_create
  <1>12. PICK Q : ReservingNew(f, I, o, s, m, r, k, Q)
    BY <1>2, <1>4, <1>7, <1>8, <1>9, ReserveNew
  <1>13. r.ok \in BOOLEAN /\ r.fs.at[1] = f.at[1]
    BY <1>2, <1>5, <1>12 DEF ReservingNew, Extends, Aside
  <1>14. PICK h, A : h = [r.fs EXCEPT !.at[s] = Inode(r.ptr, size)] /\ A = dir_add(h, d, n, s)
    OBVIOUS
  <1>15. CASE ~r.ok
    <2>1. made = r
      BY <1>10, <1>15 DEF Created
    <2>2. R = [ok |-> FALSE, fs |-> free_map_release(r.fs, {s}), dir |-> d]
      BY <1>11, <1>15, <2>1 DEF Filed, OrGivenBack
    <2>3. CreateParts(f, o, d, n, size, R, s, r, h, A)
      BY <1>4, <1>5, <1>6, <1>8, <1>9, <1>13, <1>15, <2>2 DEF CreateParts
    <2> QED
      BY <2>3
  <1>16. CASE r.ok
    <2>1. Adds(f, I, o, s, h, Inode(r.ptr, size))
      BY <1>2, <1>4, <1>6, <1>8, <1>9, <1>14, <1>16, NewSucceeds
    <2>2. made.ok /\ made.fs = h
      <3>1. made = [r EXCEPT !.fs.at[s] = Inode(r.ptr, size)]
        BY <1>10, <1>16 DEF Created
      <3>2. r = [ok |-> r.ok, fs |-> r.fs, ptr |-> r.ptr]
        BY <1>7, <1>9, ReserveRecord
      <3>3. PICK b, u, q, c : b = r.ok /\ u = r.fs /\ q = r.ptr /\ c = Inode(r.ptr, size)
        OBVIOUS
      <3>4. r = [ok |-> b, fs |-> u, ptr |-> q]
        BY <3>2, <3>3
      <3>5. made = [ok |-> b, fs |-> [u EXCEPT !.at[s] = c], ptr |-> q]
        BY <3>1, <3>3, <3>4
      <3> QED
        BY <1>14, <1>16, <3>3, <3>5
    <2>3. R = OrGivenBack(A, d, s)
      BY <1>11, <1>14, <2>2 DEF Filed
    <2>4. CreateParts(f, o, d, n, size, R, s, r, h, A)
      BY <1>1, <1>4, <1>5, <1>6, <1>8, <1>9, <1>13, <1>14, <1>16, <2>1, <2>3 DEF CreateParts
    <2> QED
      BY <2>4
  <1> QED
    BY <1>13, <1>15, <1>16

LEMMA CreateRoot ==
    ASSUME NEW f, NEW o, NEW d, Directory(d), Sound(f, InodesIn(d), o), RootRoom(f, d),
           NEW n \in Name, NEW size \in Nat,
           NEW R, R = filesys_create(f, d, n, size)
    PROVE  RootRoom(R.fs, R.dir)
  <1>1. CASE Bits \subseteq f.map
    <2>1. R = [ok |-> FALSE, fs |-> f, dir |-> d]
      BY <1>1 DEF filesys_create
    <2> QED
      BY <2>1
  <1>2. CASE ~(Bits \subseteq f.map)
    <2>1. PICK s, r, h, A : CreateParts(f, o, d, n, size, R, s, r, h, A)
      BY <1>2, CreateSteps
    <2>3. CASE ~r.ok
      <3>1. R.fs = free_map_release(r.fs, {s}) /\ R.dir = d /\ r.fs.at[1] = f.at[1]
        BY <2>1, <2>3 DEF CreateParts
      <3>2. R.fs.at = r.fs.at
        BY <3>1 DEF free_map_release
      <3> QED
        BY <3>1, <3>2 DEF RootRoom
    <2>4. CASE r.ok
      <3>1. Adds(f, InodesIn(d), o, s, h, Inode(r.ptr, size)) /\ A = dir_add(h, d, n, s)
            /\ R = OrGivenBack(A, d, s)
        BY <2>1, <2>4 DEF CreateParts
      <3>2. Sound(h, InodesIn(d) \cup {s}, o) /\ h.at[1] = f.at[1]
        BY <3>1 DEF Adds, InodesIn
      <3>3. RootRoom(h, d)
        BY <3>2 DEF RootRoom
      <3>4. RootRoom(A.fs, A.dir)
        BY <3>1, <3>2, <3>3, DirAddRoot
      <3>5. CASE A.ok
        BY <3>1, <3>4, <3>5 DEF OrGivenBack
      <3>6. CASE ~A.ok
        <4>1. R.fs = free_map_release(A.fs, {s}) /\ R.dir = d
          BY <3>1, <3>6 DEF OrGivenBack
        <4>2. R.fs.at = A.fs.at
          BY <4>1 DEF free_map_release
        <4>3. A.dir = d
          <5>1. PICK J : J = InodesIn(d) \cup {s}
            OBVIOUS
          <5>2. Enters(h, J, o, d, n, s, A)
            BY <3>1, <3>2, <5>1, DirAdd
          <5> QED
            BY <3>6, <5>2 DEF Enters
        <4> QED
          BY <3>4, <4>1, <4>2, <4>3 DEF RootRoom
      <3> QED
        BY <3>5, <3>6
    <2> QED
      BY <2>1, <2>3, <2>4 DEF CreateParts
  <1> QED
    BY <1>1, <1>2

\* A file is made without growing the directory when an entry and enough sectors are
\* free.
Fitting(f, d, n, size) ==
    /\ RootRoom(f, d) /\ ~InDirectory(d, n) /\ FreeEntry(d) \in DOMAIN d
    /\ bytes_to_sectors(size) <= MaxSectors /\ Needs(size) <= Free(f)

Fitted(f, d, size, g, e) ==
    /\ g.at[1] = f.at[1] /\ Free(f) = Free(g) + Needs(size)
    /\ DOMAIN e = DOMAIN d /\ Used(e) = Used(d) \cup {FreeEntry(d)}

LEMMA CreateFits ==
    ASSUME NEW f, NEW o, NEW d, Directory(d), Sound(f, InodesIn(d), o),
           NEW n \in Name, NEW size \in Nat, Fitting(f, d, n, size),
           NEW R, R = filesys_create(f, d, n, size)
    PROVE  R.ok /\ Fitted(f, d, size, R.fs, R.dir)
  <1>1. PICK I : I = InodesIn(d)
    OBVIOUS
  <1>2. 0 \in I /\ 1 \in I /\ Sound(f, I, o)
    BY <1>1 DEF InodesIn
  <1>3. f \in FileSystems /\ f.map \in SUBSET Bits
    BY <1>2, SoundInode
  <1>4. Free(f) \in Nat /\ Free(f) # 0
    <2>1. Free(f) \in Nat
      BY BitsFinite DEF Free
    <2> QED
      BY <2>1, NeedsSectors DEF Fitting
  <1>5. ~(Bits \subseteq f.map)
    <2>1. Bits \subseteq f.map => Bits \ f.map = {}
      OBVIOUS
    <2> QED
      BY <1>4, <2>1, FS_EmptySet DEF Free
  <1>6. PICK s, r, h, A : CreateParts(f, o, d, n, size, R, s, r, h, A)
    BY <1>5, CreateSteps
  <1>7. PICK k, m : k = [f EXCEPT !.map = @ \cup {s}] /\ m = bytes_to_sectors(size)
    OBVIOUS
  <1>8. m \in Nat /\ Cardinality(Paths(m)) \in Nat /\ Needs(size) = 1 + Cardinality(Paths(m))
    BY <1>7, NeedsSectors, SectorsForBytes DEF Needs
  <1>9. s \in Bits \ f.map /\ r = inode_reserve(k, NoPointers, m)
    BY <1>6, <1>7 DEF CreateParts
  <1>10. k \in FileSystems /\ k.map = f.map \cup {s}
    <2>1. PICK M, a : M = f.map \cup {s} /\ a = f.at
      OBVIOUS
    <2>2. f = [map |-> f.map, at |-> a] /\ a \in [Sector -> Contents]
      BY <1>3, <2>1, FileSystemFields
    <2>3. k = [map |-> M, at |-> a]
      BY ONLY <1>7, <2>1, <2>2
    <2>4. M \in SUBSET Bits
      BY <1>3, <1>9, <2>1
    <2> QED
      BY <2>1, <2>2, <2>3, <2>4 DEF FileSystems
  <1>11. Free(f) = Free(k) + 1 /\ Free(k) \in Nat
    <2>1. k.map \in SUBSET Bits /\ f.map \in SUBSET k.map
      BY <1>3, <1>9, <1>10
    <2>2. k.map \ f.map = {s}
      BY <1>9, <1>10
    <2>3. Cardinality({s}) = 1
      BY FS_Singleton
    <2>4. Cardinality(Bits \ f.map) = Cardinality(Bits \ k.map) + Cardinality(k.map \ f.map)
      BY <2>1, FreeDifference
    <2>5. Free(k) \in Nat
      BY BitsFinite DEF Free
    <2> QED
      BY <2>2, <2>3, <2>4, <2>5 DEF Free
  <1>12. r.ok
    <2>1. m <= MaxSectors /\ Needs(size) <= Free(f)
      BY <1>7 DEF Fitting
    <2>2. Cardinality(Paths(m)) <= Free(k)
      BY <1>8, <1>11, <2>1
    <2> QED
      BY <1>8, <1>9, <1>10, <2>1, <2>2, ReserveEnough
  <1>13. Extends(k, NoPointers, r, m)
    <2>1. \E Q : ReservingNew(f, I, o, s, m, r, k, Q)
      BY <1>2, <1>7, <1>8, <1>9, ReserveNew
    <2> QED
      BY <2>1 DEF ReservingNew
  <1>14. Free(k) = Free(r.fs) + Cardinality(Paths(m))
    BY <1>8, <1>10, <1>12, <1>13, ReserveCounted
  <1>15. /\ h = [r.fs EXCEPT !.at[s] = Inode(r.ptr, size)]
         /\ Adds(f, I, o, s, h, Inode(r.ptr, size))
         /\ A = dir_add(h, d, n, s)
         /\ R = OrGivenBack(A, d, s)
    BY <1>1, <1>6, <1>12 DEF CreateParts
  <1>16. h.map = r.fs.map
    <2>1. r.fs \in FileSystems
      BY <1>13 DEF Extends
    <2>2. PICK M, a, c : M = r.fs.map /\ a = r.fs.at /\ c = Inode(r.ptr, size)
      OBVIOUS
    <2>3. r.fs = [map |-> M, at |-> a]
      BY <2>1, <2>2, FileSystemFields
    <2>4. h = [map |-> M, at |-> [a EXCEPT ![s] = c]]
      BY ONLY <1>15, <2>2, <2>3
    <2> QED
      BY <2>2, <2>4
  <1>17. Free(f) = Free(h) + Needs(size)
    <2>1. Free(h) = Free(r.fs) /\ Free(h) \in Nat
      BY <1>16, BitsFinite DEF Free
    <2> QED
      BY <1>8, <1>11, <1>14, <2>1
  <1>18. PICK J : J = I \cup {s}
    OBVIOUS
  <1>19. Sound(h, J, o) /\ h.at[1] = f.at[1] /\ s \notin I /\ s \in Nat
    BY <1>2, <1>9, <1>15, <1>18, ZeroSector DEF Adds
  <1>20. RootRoom(h, d) /\ ~InDirectory(d, n) /\ FreeEntry(d) \in DOMAIN d
    BY <1>19 DEF Fitting, RootRoom
  <1>21. A.ok /\ A.fs = h
    BY <1>15, <1>19, <1>20, DirAddRoot
  <1>22. A.dir = With(d, FreeEntry(d), [name |-> n, inode_sector |-> s, in_use |-> TRUE])
    <2>1. Enters(h, J, o, d, n, s, A)
      BY <1>15, <1>19, DirAdd
    <2> QED
      BY <1>21, <2>1 DEF Enters
  <1>23. R = A
    BY <1>15, <1>21 DEF OrGivenBack
  <1>24. PICK e : e = A.dir
    OBVIOUS
  <1>25. Used(e) = Used(d) \cup {FreeEntry(d)} /\ DOMAIN e = DOMAIN d \cup {FreeEntry(d)}
    <2>1. Links(d, n, s, e)
      BY <1>1, <1>19, <1>20, <1>22, <1>24, EntryAdded
    <2> QED
      BY <2>1 DEF Links
  <1> QED
    BY <1>17, <1>19, <1>20, <1>21, <1>23, <1>24, <1>25 DEF Fitted

\* The sizes are those of the files, and there is an entry for each.
Resizable(st, names, sizes) ==
    /\ Rebuildable(st, names, sizes)
    /\ \A k \in 1 .. Len(names) :
          sizes[names[k]] = st.fs.at[InodeSector(st.dir, names[k])].length
    /\ \A n : InDirectory(st.dir, n) => \E k \in 1 .. Len(names) : names[k] = n
    /\ Len(names) \in DOMAIN st.dir
    /\ RootRoom(st.fs, st.dir)

\* After all removals and the first j creations.
Refilled(st, names, sizes, j, now) ==
    /\ GoodState(now)
    /\ DOMAIN now.dir = DOMAIN st.dir /\ now.fs.at[1] = st.fs.at[1]
    /\ Used(now.dir) = 1 .. j
    /\ \A n : InDirectory(now.dir, n) <=> \E i \in 1 .. j : names[i] = n
    /\ \A i \in 1 .. j : now.fs.at[InodeSector(now.dir, names[i])].length = sizes[names[i]]

LEMMA RefillTurn ==
    ASSUME NEW st, NEW names, NEW sizes, Resizable(st, names, sizes),
           NEW j \in 1 .. Len(names), NEW now, Refilled(st, names, sizes, j - 1, now),
           NEW size, size = sizes[names[j]],
           bytes_to_sectors(size) <= MaxSectors, Needs(size) <= Free(now.fs),
           NEW new, new = Recreated(now, names[j], size)
    PROVE  Refilled(st, names, sizes, j, new) /\ Free(now.fs) = Free(new.fs) + Needs(size)
  <1>1. PICK N \in Nat : N = Len(names)
    BY DEF Resizable, Rebuildable
  <1>2. j \in Nat /\ j - 1 \in Nat /\ j \in 1 .. N /\ N \in Nat
    BY <1>1
  <1>3. PICK n : n = names[j]
    OBVIOUS
  <1>4. n \in Name /\ size \in Nat
    BY <1>3 DEF Resizable, Rebuildable
  <1>5. PICK f, d, o, t, l : f = now.fs /\ d = now.dir /\ o = now.open /\ t = now.table /\ l = now.lost
    OBVIOUS
  <1>6. Good(f, d, o, t, l) /\ GoodState(now)
    BY <1>5 DEF Refilled, GoodState
  <1>7. Directory(d) /\ Sound(f, InodesIn(d), o)
    BY <1>6 DEF Good
  <1>8. PICK R : R = filesys_create(f, d, n, size)
    OBVIOUS
  <1>9. GoodState(new) /\ new.fs = R.fs /\ new.dir = R.dir
    BY <1>3, <1>4, <1>5, <1>6, <1>8, RecreateStep
  <1>10. \A i \in 1 .. j - 1 : names[i] # n
    <2>1. ASSUME NEW i \in 1 .. j - 1 PROVE names[i] # n
      <3>1. i \in 1 .. N /\ i # j
        BY <1>2
      <3> QED
        BY <1>1, <1>3, <3>1 DEF Resizable, Rebuildable
    <2> QED
      BY <2>1
  <1>11. ~InDirectory(d, n)
    BY <1>5, <1>10 DEF Refilled
  <1>12. FreeEntry(d) = j /\ j \in DOMAIN d
    <2>1. PICK e : e = FreeEntry(d)
      OBVIOUS
    <2>2. Used(d) = 1 .. j - 1 /\ N \in DOMAIN d
      BY <1>1, <1>5 DEF Refilled, Resizable
    <2>3. PICK K \in Nat : DOMAIN d = 0 .. K
      BY <1>7 DEF Directory
    <2>4. j \in DOMAIN d /\ j # 0
      BY <1>2, <2>2, <2>3
    <2>5. e \in Nat \ {0} /\ e \notin Used(d) /\ \A i \in 0 .. e - 1 : d[i].in_use
      BY <1>7, <2>1, FreeEntryIs
    <2>6. e >= j
      BY <1>2, <2>2, <2>5
    <2>7. ~d[j].in_use
      BY <1>2, <2>2, <2>4 DEF Used
    <2>8. ~(j < e)
      BY <1>2, <2>5, <2>7
    <2> QED
      BY <1>2, <2>1, <2>4, <2>5, <2>6, <2>8
  <1>13. RootRoom(f, d)
    BY <1>5 DEF Refilled, Resizable, RootRoom
  <1>14. Fitting(f, d, n, size)
    BY <1>5, <1>11, <1>12, <1>13 DEF Fitting
  <1>15. R.ok /\ Fitted(f, d, size, R.fs, R.dir)
    BY <1>4, <1>7, <1>8, <1>14, CreateFits
  <1>16. CreateGood(f, d, o, t, l, n, size, R)
    BY ONLY <1>4, <1>6, <1>8, CreateStep
  <1>17. PICK g, e : g = R.fs /\ e = R.dir
    OBVIOUS
  <1>18. /\ g.at[1] = f.at[1] /\ Free(f) = Free(g) + Needs(size)
         /\ DOMAIN e = DOMAIN d /\ Used(e) = Used(d) \cup {j}
    BY <1>12, <1>15, <1>17 DEF Fitted
  <1>19. /\ InDirectory(e, n) /\ g.at[InodeSector(e, n)].length = size
         /\ \A m : m # n => /\ InDirectory(e, m) <=> InDirectory(d, m)
                            /\ InDirectory(d, m) => InodeSector(e, m) = InodeSector(d, m)
         /\ \A x \in InodesIn(d) \ {0, 1} : g.at[x] = f.at[x]
    BY <1>15, <1>16, <1>17 DEF CreateGood
  <1>20. 1 .. j = (1 .. j - 1) \cup {j}
    BY <1>2
  <1>21. Used(e) = 1 .. j
    BY <1>5, <1>18, <1>20 DEF Refilled
  <1>22. ASSUME NEW m PROVE InDirectory(e, m) <=> \E i \in 1 .. j : names[i] = m
    <2>1. InDirectory(d, m) <=> \E i \in 1 .. j - 1 : names[i] = m
      BY <1>5 DEF Refilled
    <2> QED
      BY <1>3, <1>19, <1>20, <2>1
  <1>23. ASSUME NEW i \in 1 .. j PROVE g.at[InodeSector(e, names[i])].length = sizes[names[i]]
    <2>1. CASE i = j
      BY <1>3, <1>19, <2>1
    <2>2. CASE i # j
      <3>1. i \in 1 .. j - 1
        BY <1>20, <2>2
      <3>2. PICK m : m = names[i]
        OBVIOUS
      <3>3. InDirectory(d, m) /\ m # n /\ f.at[InodeSector(d, m)].length = sizes[m]
        BY <1>5, <1>10, <3>1, <3>2 DEF Refilled
      <3>4. InodeSector(d, m) \in InodesIn(d) \ {0, 1}
        BY <1>6, <3>3, GoodFiles
      <3> QED
        BY <1>19, <3>2, <3>3, <3>4
    <2> QED
      BY <2>1, <2>2
  <1>24. Refilled(st, names, sizes, j, new)
    BY <1>5, <1>9, <1>17, <1>18, <1>21, <1>22, <1>23 DEF Refilled
  <1> QED
    BY <1>5, <1>9, <1>17, <1>18, <1>24

\* Removing a file frees what one of its size takes.
LEMMA RemovalCounted ==
    ASSUME NEW st, NEW names, NEW sizes, Resizable(st, names, sizes),
           NEW k \in 1 .. Len(names), NEW now, Emptied(st, names, k - 1, now),
           NEW new, new = fsutil_rm(now, names[k])
    PROVE  /\ Free(new.fs) = Free(now.fs) + Needs(sizes[names[k]])
           /\ bytes_to_sectors(sizes[names[k]]) <= MaxSectors
  <1>1. PICK n, size : n = names[k] /\ size = sizes[n]
    OBVIOUS
  <1>2. k \in Nat /\ k - 1 \in Nat /\ Len(names) \in Nat
    BY DEF Resizable, Rebuildable
  <1>3. \A j \in 1 .. k - 1 : names[j] # n
    <2>1. ASSUME NEW j \in 1 .. k - 1 PROVE names[j] # n
      <3>1. j \in 1 .. Len(names) /\ j # k
        BY <1>2
      <3> QED
        BY <1>1, <3>1 DEF Resizable, Rebuildable
    <2> QED
      BY <2>1
  <1>4. PICK f, d, o, t, l : f = now.fs /\ d = now.dir /\ o = now.open /\ t = now.table /\ l = now.lost
    OBVIOUS
  <1>5. /\ GoodState(now) /\ InDirectory(now.dir, n)
        /\ n \in DOMAIN now.table => now.table[n].live
    BY <1>1, <1>3 DEF Resizable, Rebuildable, Emptied
  <1>6. Good(f, d, o, t, l) /\ InDirectory(d, n)
    BY <1>4, <1>5 DEF GoodState
  <1>7. PICK g : g = new.fs
    OBVIOUS
  <1>8. PICK s : s = InodeSector(d, n)
    OBVIOUS
  <1>9. g.map = f.map \ OwnedBy(f, s)
    <2>1. Removes(now.fs, now.dir, now.open, now.table, now.lost, n,
                  new.fs, new.dir, new.open, new.table)
      BY <1>1, <1>5, RemoveStep
    <2> QED
      BY <1>4, <1>7, <1>8, <2>1 DEF Removes
  <1>10. f.at[s].length = size
    <2>1. f.at = st.fs.at /\ s = InodeSector(st.dir, n)
      BY <1>4, <1>6, <1>8 DEF Emptied
    <2> QED
      BY <1>1, <2>1 DEF Resizable
  <1>11. Sound(f, InodesIn(d), o) /\ s \in InodesIn(d) /\ Held(f, s)
    BY <1>6, <1>8, GoodFiles DEF Good
  <1>12. OwnedBy(f, s) \subseteq f.map /\ Cardinality(OwnedBy(f, s)) = Needs(size)
    BY <1>10, <1>11, OwnedCounted
  <1>13. f.map \in SUBSET Bits
    BY <1>11, SoundInode
  <1>14. PICK X : X = OwnedBy(f, s)
    OBVIOUS
  <1>15. g.map \in SUBSET f.map /\ f.map \ g.map = X
    BY <1>9, <1>12, <1>14
  <1>16. Cardinality(Bits \ g.map) = Cardinality(Bits \ f.map) + Cardinality(f.map \ g.map)
    BY <1>13, <1>15, FreeDifference
  <1>17. Free(g) = Free(f) + Needs(size)
    BY <1>12, <1>14, <1>15, <1>16 DEF Free
  <1>18. bytes_to_sectors(size) <= MaxSectors
    BY <1>10, <1>11 DEF Held
  <1> QED
    BY <1>1, <1>4, <1>7, <1>17, <1>18

\* Every file is there again, with the length it had, and the directory is as long as
\* before.
SameFiles(f, d, g, e) ==
    \A n : /\ InDirectory(e, n) <=> InDirectory(d, n)
           /\ InDirectory(d, n) => g.at[InodeSector(e, n)].length = f.at[InodeSector(d, n)].length

LEMMA RebuildRefills ==
    ASSUME NEW st, NEW names, NEW sizes, Resizable(st, names, sizes)
    PROVE  \A last \in 0 .. Len(names) :
              Refilled(st, names, sizes, last, Rebuilt(st, names, sizes, Len(names) + last))
  <1>0. Rebuildable(st, names, sizes)
    BY DEF Resizable
  <1>1. PICK N \in Nat : N = Len(names)
    BY <1>0 DEF Rebuildable
  <1>2. PICK a : /\ Stages(st, names, sizes, 2 * N, a)
                 /\ \A turns : Rebuilt(st, names, sizes, turns) = a[turns]
    BY <1>1, RebuiltStages
  <1>3. a[0] = st
    BY <1>2 DEF Stages
  <1>4. ASSUME NEW k \in 1 .. N PROVE a[k] = fsutil_rm(a[k - 1], names[k])
    <2>1. k \in 1 .. 2 * N /\ k <= N
      BY <1>1
    <2> QED
      BY <1>1, <1>2, <2>1 DEF Stages, Turn
  <1>5. ASSUME NEW j \in 1 .. N
        PROVE  a[N + j] = Recreated(a[N + j - 1], names[j], sizes[names[j]])
    <2>1. PICK k : k = N + j
      OBVIOUS
    <2>2. k \in 1 .. 2 * N /\ ~(k <= N) /\ k - N = j
      BY <1>1, <2>1
    <2>3. a[k] = Recreated(a[k - 1], names[j], sizes[names[j]])
      BY <1>1, <1>2, <2>2 DEF Stages, Turn
    <2> QED
      BY <2>1, <2>3
  <1> DEFINE S == {k \in Nat : k <= N => Emptied(st, names, k, a[k])}
  <1>6. 0 \in S
    BY <1>0, <1>3 DEF Rebuildable, Emptied
  <1>7. ASSUME NEW i \in Nat, i \in S PROVE i + 1 \in S
    <2>1. PICK k \in Nat : k = i + 1
      OBVIOUS
    <2> SUFFICES ASSUME k <= N PROVE Emptied(st, names, k, a[k])
      BY <2>1
    <2>2. Emptied(st, names, k - 1, a[i]) /\ k \in 1 .. Len(names) /\ k \in 1 .. N /\ k - 1 = i
      BY <1>1, <1>7, <2>1
    <2>3. a[k] = fsutil_rm(a[i], names[k])
      BY <1>4, <2>2
    <2> QED
      BY <1>0, <2>2, <2>3, RemovalTurn
  <1> HIDE DEF S
  <1>8. \A k \in Nat : k \in S
    BY <1>6, <1>7, Induction
  <1>9. \A k \in 0 .. N : Emptied(st, names, k, a[k])
    BY <1>1, <1>8 DEF S
  <1>10. PICK c : c = [k \in 0 .. 2 * N |-> Free(a[k].fs)]
    OBVIOUS
  <1>11. \A k \in 0 .. 2 * N : c[k] = Free(a[k].fs)
    BY <1>10
  <1>12. \A k \in 0 .. 2 * N : c[k] \in Nat
    BY <1>11, BitsFinite DEF Free
  <1>13. PICK need : need = [k \in 1 .. N |-> Needs(sizes[names[k]])]
    OBVIOUS
  <1>14. ASSUME NEW k \in 1 .. N
         PROVE  /\ need[k] = Needs(sizes[names[k]]) /\ need[k] \in Nat
                /\ c[k] = c[k - 1] + need[k]
                /\ bytes_to_sectors(sizes[names[k]]) <= MaxSectors
    <2>1. k \in 1 .. Len(names) /\ k - 1 \in 0 .. N /\ k \in 0 .. 2 * N /\ k - 1 \in 0 .. 2 * N
      BY <1>1
    <2>2. Emptied(st, names, k - 1, a[k - 1]) /\ a[k] = fsutil_rm(a[k - 1], names[k])
      BY <1>4, <1>9, <2>1
    <2>3. /\ Free(a[k].fs) = Free(a[k - 1].fs) + Needs(sizes[names[k]])
          /\ bytes_to_sectors(sizes[names[k]]) <= MaxSectors
      BY <2>1, <2>2, RemovalCounted
    <2>4. sizes[names[k]] \in Nat
      BY <1>0, <2>1 DEF Rebuildable
    <2>5. need[k] = Needs(sizes[names[k]]) /\ need[k] \in Nat
      BY <1>13, <2>4, NeedsSectors
    <2> QED
      BY <1>11, <2>1, <2>3, <2>5
  <1>15. \A k \in 0 .. N : c[k] <= c[N]
    <2> DEFINE T == {i \in Nat : i <= N => c[N - i] <= c[N]}
    <2>1. 0 \in T
      BY <1>1, <1>12
    <2>2. ASSUME NEW i \in Nat, i \in T PROVE i + 1 \in T
      <3> SUFFICES ASSUME i + 1 <= N PROVE c[N - (i + 1)] <= c[N]
        OBVIOUS
      <3>1. PICK k : k = N - i /\ k \in 1 .. N
        <4>1. N - i \in 1 .. N
          OBVIOUS
        <4> QED
          BY <4>1
      <3>2. c[k] <= c[N]
        BY <1>1, <2>2, <3>1
      <3>3. k - 1 \in 0 .. 2 * N /\ k \in 0 .. 2 * N /\ N \in 0 .. 2 * N /\ N - (i + 1) = k - 1
        BY <1>1, <3>1
      <3>4. c[k] = c[k - 1] + need[k] /\ need[k] \in Nat
        BY <1>14, <3>1
      <3>5. c[k] \in Nat /\ c[k - 1] \in Nat /\ c[N] \in Nat
        BY <1>12, <3>3
      <3>6. c[k - 1] <= c[N]
        BY <3>2, <3>4, <3>5
      <3> QED
        BY <3>3, <3>6
    <2> HIDE DEF T
    <2>3. \A i \in Nat : i \in T
      BY <2>1, <2>2, Induction
    <2>4. ASSUME NEW k \in 0 .. N PROVE c[k] <= c[N]
      <3>1. N - k \in Nat /\ N - k <= N /\ N - (N - k) = k
        BY <1>1
      <3> QED
        BY <2>3, <3>1 DEF T
    <2> QED
      BY <2>4
  <1>16. Refilled(st, names, sizes, 0, a[N])
    <2>1. Emptied(st, names, N, a[N])
      BY <1>1, <1>9
    <2>2. GoodState(a[N])
      BY <2>1 DEF Emptied
    <2>3. \A n : ~InDirectory(a[N].dir, n)
      BY <1>1, <2>1 DEF Emptied, Resizable
    <2>4. DOMAIN a[N].dir = DOMAIN st.dir /\ a[N].fs.at[1] = st.fs.at[1]
      BY <2>1 DEF Emptied
    <2>5. Used(a[N].dir) = {}
      <3>1. PICK d : d = a[N].dir
        OBVIOUS
      <3>2. Directory(d)
        BY <2>2, <3>1 DEF GoodState, Good
      <3>3. \A k \in Used(d) : Linked(d, d[k].name, d[k].inode_sector)
        BY DEF Linked
      <3> QED
        BY <2>3, <3>1, <3>2, <3>3, Lookup
    <2>6. \A i : i \notin 1 .. 0
      OBVIOUS
    <2> QED
      BY <2>2, <2>3, <2>4, <2>5, <2>6 DEF Refilled
  <1> DEFINE U == {j \in Nat : j <= N => /\ Refilled(st, names, sizes, j, a[N + j])
                                         /\ c[N + j] + c[j] = c[N] + c[0]}
  <1>17. 0 \in U
    <2>1. N + 0 = N /\ 0 \in 0 .. 2 * N /\ N \in 0 .. 2 * N
      BY <1>1
    <2> QED
      BY <1>12, <1>16, <2>1
  <1>18. ASSUME NEW i \in Nat, i \in U PROVE i + 1 \in U
    <2>1. PICK j \in Nat : j = i + 1
      OBVIOUS
    <2> SUFFICES ASSUME j <= N
                 PROVE  /\ Refilled(st, names, sizes, j, a[N + j])
                        /\ c[N + j] + c[j] = c[N] + c[0]
      BY <2>1
    <2>2. /\ j \in 1 .. N /\ j \in 1 .. Len(names) /\ j - 1 = i /\ N + j - 1 = N + i
          /\ j \in 0 .. N
          /\ {i, j, N, N + i, N + j, 0} \subseteq 0 .. 2 * N
      BY <1>1, <2>1
    <2>3. Refilled(st, names, sizes, j - 1, a[N + i]) /\ c[N + i] + c[i] = c[N] + c[0]
      BY <1>18, <2>1, <2>2
    <2>4. PICK x, y, size : x = a[N + i] /\ y = a[N + j] /\ size = sizes[names[j]]
      OBVIOUS
    <2>5. y = Recreated(x, names[j], size)
      BY <1>5, <2>2, <2>4
    <2>6. /\ need[j] = Needs(size) /\ need[j] \in Nat /\ c[j] = c[i] + need[j]
          /\ bytes_to_sectors(size) <= MaxSectors
      BY <1>14, <2>2, <2>4
    <2>7. c[j] <= c[N]
      BY <1>15, <2>2
    <2>8. /\ c[i] \in Nat /\ c[j] \in Nat /\ c[N] \in Nat /\ c[0] \in Nat /\ c[N + i] \in Nat
          /\ c[N + j] \in Nat
      BY <1>12, <2>2
    <2>9. need[j] <= c[N + i]
      BY ONLY <2>3, <2>6, <2>7, <2>8
    <2>10. c[N + i] = Free(x.fs) /\ c[N + j] = Free(y.fs)
      BY <1>11, <2>2, <2>4
    <2>11. Refilled(st, names, sizes, j, y) /\ Free(x.fs) = Free(y.fs) + Needs(size)
      <3>1. Needs(size) <= Free(x.fs)
        BY <2>6, <2>9, <2>10
      <3> QED
        BY <2>2, <2>3, <2>4, <2>5, <2>6, <3>1, RefillTurn
    <2>12. c[N + i] = c[N + j] + need[j]
      BY <2>6, <2>10, <2>11
    <2>13. c[N + j] + c[j] = c[N] + c[0]
      BY ONLY <2>3, <2>6, <2>8, <2>12
    <2> QED
      BY <2>4, <2>11, <2>13
  <1> HIDE DEF U
  <1>19. \A j \in Nat : j \in U
    BY <1>17, <1>18, Induction
  <1>20. ASSUME NEW last \in 0 .. Len(names)
         PROVE  Refilled(st, names, sizes, last, Rebuilt(st, names, sizes, Len(names) + last))
    <2>1. last \in U /\ last <= N
      BY <1>1, <1>19
    <2> QED
      BY <1>1, <1>2, <2>1 DEF U
  <1> QED
    BY <1>20

\* After as many creations as there are files.
LEMMA RebuildKeeps ==
    ASSUME NEW st, NEW names, NEW sizes, Resizable(st, names, sizes),
           NEW new, new = Rebuilt(st, names, sizes, Len(names) + Len(names))
    PROVE  SameFiles(st.fs, st.dir, new.fs, new.dir) /\ RootRoom(new.fs, new.dir)
  <1>1. PICK N \in Nat : N = Len(names)
    BY DEF Resizable, Rebuildable
  <1>2. Refilled(st, names, sizes, N, new)
    <2>1. N \in 0 .. Len(names)
      BY <1>1
    <2> QED
      BY <1>1, <2>1, RebuildRefills
  <1>3. RootRoom(new.fs, new.dir)
    BY <1>2 DEF Refilled, Resizable, RootRoom
  <1>4. ASSUME NEW n
         PROVE  /\ InDirectory(new.dir, n) <=> InDirectory(st.dir, n)
                /\ InDirectory(st.dir, n) =>
                      new.fs.at[InodeSector(new.dir, n)].length
                         = st.fs.at[InodeSector(st.dir, n)].length
    <2>1. InDirectory(new.dir, n) <=> \E i \in 1 .. N : names[i] = n
      BY <1>2 DEF Refilled
    <2>2. InDirectory(st.dir, n) <=> \E i \in 1 .. N : names[i] = n
      BY <1>1 DEF Resizable, Rebuildable
    <2>3. ASSUME NEW i \in 1 .. N, names[i] = n
          PROVE  new.fs.at[InodeSector(new.dir, n)].length
                    = st.fs.at[InodeSector(st.dir, n)].length
      <3>1. new.fs.at[InodeSector(new.dir, n)].length = sizes[n]
        BY <1>2, <2>3 DEF Refilled
      <3>2. sizes[n] = st.fs.at[InodeSector(st.dir, n)].length
        BY <1>1, <2>3 DEF Resizable
      <3> QED
        BY <3>1, <3>2
    <2> QED
      BY <2>1, <2>2, <2>3
  <1> QED
    BY <1>3, <1>4 DEF SameFiles

--------------------------------------------------------------------------------
(***************************************************************************)
(* The commands, seen as steps of named files.                             *)
(***************************************************************************)

\* The length of each file there is.
Image(f, d) == [n \in {m \in Name : InDirectory(d, m)} |-> f.at[InodeSector(d, n)].length]

Resized(a, n, length) == [m \in DOMAIN a \cup {n} |-> IF m = n THEN length ELSE a[m]]

LEMMA ImageIs ==
    ASSUME NEW f, NEW d, Directory(d)
    PROVE  /\ \A n : n \in DOMAIN Image(f, d) <=> InDirectory(d, n)
           /\ \A n : InDirectory(d, n) => Image(f, d)[n] = f.at[InodeSector(d, n)].length
           /\ Image(f, d) = [n \in DOMAIN Image(f, d) |-> Image(f, d)[n]]
  <1>1. \A n : InDirectory(d, n) => n \in Name
    BY Lookup
  <1> QED
    BY <1>1 DEF Image

LEMMA ImagesAre == FileLengths = Image(fs, dir) /\ FileLengths' = Image(fs', dir')
  <1>1. FileLengths = Image(fs, dir)
    BY DEF FileLengths, Image, Exists
  <1>2. FileLengths' = Image(fs', dir')
    BY DEF FileLengths, Image, Exists
  <1> QED
    BY <1>1, <1>2

LEMMA SameImage ==
    ASSUME NEW f, NEW d, NEW g, NEW e, SameFiles(f, d, g, e)
    PROVE  Image(g, e) = Image(f, d)
  <1>1. PICK D : D = {m \in Name : InDirectory(d, m)}
    OBVIOUS
  <1>2. D = {m \in Name : InDirectory(e, m)}
    BY <1>1 DEF SameFiles
  <1>3. \A n \in D : g.at[InodeSector(e, n)].length = f.at[InodeSector(d, n)].length
    BY <1>1 DEF SameFiles
  <1>4. /\ Image(f, d) = [n \in D |-> f.at[InodeSector(d, n)].length]
        /\ Image(g, e) = [n \in D |-> g.at[InodeSector(e, n)].length]
    BY <1>1, <1>2 DEF Image
  <1> QED
    BY ONLY <1>3, <1>4

\* One file has this length now, the others are as before.
LEMMA ResizedImage ==
    ASSUME NEW f, NEW d, Directory(d), NEW g, NEW e, Directory(e), NEW n, NEW length,
           InDirectory(e, n), g.at[InodeSector(e, n)].length = length,
           \A m : m # n => /\ InDirectory(e, m) <=> InDirectory(d, m)
                           /\ InDirectory(d, m) => g.at[InodeSector(e, m)].length
                                                      = f.at[InodeSector(d, m)].length
    PROVE  Image(g, e) = Resized(Image(f, d), n, length)
  <1>1. PICK a, b : a = Image(f, d) /\ b = Image(g, e)
    OBVIOUS
  <1>2. /\ \A m : m \in DOMAIN a <=> InDirectory(d, m)
        /\ \A m : InDirectory(d, m) => a[m] = f.at[InodeSector(d, m)].length
    BY <1>1, ImageIs
  <1>3. /\ \A m : m \in DOMAIN b <=> InDirectory(e, m)
        /\ \A m : InDirectory(e, m) => b[m] = g.at[InodeSector(e, m)].length
        /\ b = [m \in DOMAIN b |-> b[m]]
    BY <1>1, ImageIs
  <1>4. DOMAIN b = DOMAIN a \cup {n}
    BY <1>2, <1>3
  <1>5. \A m \in DOMAIN b : b[m] = IF m = n THEN length ELSE a[m]
    BY <1>2, <1>3
  <1>6. b = [m \in DOMAIN a \cup {n} |-> IF m = n THEN length ELSE a[m]]
    BY ONLY <1>3, <1>4, <1>5
  <1> QED
    BY <1>1, <1>6 DEF Resized

\* A new file, or none.
Creation(a, b, n, length, ok) ==
    /\ ok => n \notin DOMAIN a /\ b = Resized(a, n, length)
    /\ ~ok => b = a

LEMMA CreateImage ==
    ASSUME Inv, RootRoom(fs, dir), NEW n \in Name, NEW size \in Nat,
           NEW r, r = filesys_create(fs, dir, n, size), NEW length,
           NEW g, \A x \in InodesIn(r.dir) \ {0, InodeSector(r.dir, n)} : g.at[x] = r.fs.at[x],
           r.ok => g.at[InodeSector(r.dir, n)].length = length,
           ~r.ok => g = r.fs
    PROVE  RootRoom(g, r.dir) /\ Creation(Image(fs, dir), Image(g, r.dir), n, length, r.ok)
  <1>1. CreateGood(fs, dir, open, table, lost, n, size, r)
    BY CreateStep DEF Inv
  <1>2. Directory(dir) /\ Sound(fs, InodesIn(dir), open)
    BY DEF Inv, Good
  <1>3. PICK f, d, s : f = r.fs /\ d = r.dir /\ s = InodeSector(d, n)
    OBVIOUS
  <1>4. RootRoom(f, d)
    BY <1>2, <1>3, CreateRoot
  <1>5. \A x \in InodesIn(dir) \ {0, 1} : f.at[x] = fs.at[x]
    BY <1>1, <1>3 DEF CreateGood
  <1>6. \A m : InDirectory(dir, m) => InodeSector(dir, m) \in InodesIn(dir) \ {0, 1}
    BY GoodFiles DEF Inv
  <1>7. CASE ~r.ok
    <2>1. d = dir /\ g = f
      BY <1>1, <1>3, <1>7 DEF CreateGood
    <2>2. SameFiles(fs, dir, g, d)
      BY <1>5, <1>6, <2>1 DEF SameFiles
    <2>3. Image(g, d) = Image(fs, dir)
      BY <2>2, SameImage
    <2> QED
      BY <1>3, <1>4, <1>7, <2>1, <2>3 DEF Creation
  <1>8. CASE r.ok
    <2>1. /\ ~InDirectory(dir, n) /\ InDirectory(d, n) /\ s \notin InodesIn(dir)
          /\ InodesIn(d) = InodesIn(dir) \cup {s}
          /\ \A m : m # n => /\ InDirectory(d, m) <=> InDirectory(dir, m)
                             /\ InDirectory(dir, m) => InodeSector(d, m) = InodeSector(dir, m)
          /\ Directory(d)
      BY <1>1, <1>3, <1>8 DEF CreateGood, Good
    <2>2. \A x \in InodesIn(dir) \ {0} : g.at[x] = f.at[x]
      BY <1>3, <2>1
    <2>3. RootRoom(g, d)
      BY <1>4, <2>2 DEF RootRoom, InodesIn
    <2>4. ASSUME NEW m, InDirectory(dir, m), m # n
          PROVE  g.at[InodeSector(d, m)].length = fs.at[InodeSector(dir, m)].length
      <3>1. PICK x : x = InodeSector(dir, m)
        OBVIOUS
      <3>2. InodeSector(d, m) = x
        BY <2>1, <2>4, <3>1
      <3>3. g.at[x] = f.at[x] /\ f.at[x] = fs.at[x]
        BY <1>5, <1>6, <2>2, <2>4, <3>1
      <3> QED
        BY <3>1, <3>2, <3>3
    <2>5. g.at[InodeSector(d, n)].length = length
      BY <1>3, <1>8
    <2>6. Image(g, d) = Resized(Image(fs, dir), n, length)
      BY <1>2, <2>1, <2>4, <2>5, ResizedImage
    <2>7. n \notin DOMAIN Image(fs, dir)
      BY <1>2, <2>1, ImageIs
    <2> QED
      BY <1>3, <1>8, <2>3, <2>6, <2>7 DEF Creation
  <1> QED
    BY <1>1, <1>7, <1>8 DEF CreateGood

\* A step of the files: the directory has room for its entries, and NamedFiles takes
\* the step too.
Advances == RootRoom(fs', dir') /\ [Files!Next]_<<FileLengths, outcome>>

LEMMA FailureAdvances ==
    ASSUME Running, RootRoom(fs', dir'), Image(fs', dir') = Image(fs, dir),
           outcome' \in {[result |-> "unchanged"], [result |-> "failed"]}
    PROVE  Advances
  <1>1. FileLengths' = FileLengths
    BY ImagesAre
  <1>2. Files!NoChange("unchanged") \/ Files!NoChange("failed")
    BY <1>1 DEF Files!NoChange
  <1>3. Files!Next
    BY <1>2 DEF Files!Next, Running
  <1> QED
    BY <1>3 DEF Advances

LEMMA AdvancesCreate ==
    ASSUME Inv, RootRoom(fs, dir), Running, NEW n \in Name, NEW size \in Size, Create(n, size)
    PROVE  Advances
  <1>1. PICK r : r = filesys_create(fs, dir, n, size)
    OBVIOUS
  <1>2. /\ fs' = r.fs /\ dir' = r.dir
        /\ Ends(r.ok, [command |-> "create", name |-> n, size |-> size, result |-> "done"])
    BY <1>1 DEF Create
  <1>3. CreateGood(fs, dir, open, table, lost, n, size, r) /\ size \in Nat
    BY <1>1, Sizes, CreateStep DEF Inv
  <1>4. r.ok => r.fs.at[InodeSector(r.dir, n)].length = size
    BY <1>3 DEF CreateGood
  <1>5. RootRoom(fs', dir') /\ Creation(Image(fs, dir), Image(fs', dir'), n, size, r.ok)
    BY <1>1, <1>2, <1>3, <1>4, CreateImage
  <1>6. CASE ~r.ok
    BY <1>2, <1>5, <1>6, FailureAdvances DEF Creation, Ends
  <1>7. CASE r.ok
    <2>1. Files!Create(n, size)
      BY <1>2, <1>5, <1>7, ImagesAre DEF Creation, Resized, Ends, Files!Create, Files!Set
    <2>2. Files!Next
      BY <2>1 DEF Files!Next, Running
    <2> QED
      BY <1>5, <2>2 DEF Advances
  <1> QED
    BY <1>3, <1>6, <1>7 DEF CreateGood

LEMMA AdvancesCopyIn ==
    ASSUME Inv, RootRoom(fs, dir), Running, NEW n \in Name, NEW size \in Size, CopyIn(n, size)
    PROVE  Advances
  <1>1. PICK r : r = filesys_create(fs, dir, n, size)
    OBVIOUS
  <1>2. CreateGood(fs, dir, open, table, lost, n, size, r) /\ size \in Nat
    BY <1>1, Sizes, CreateStep DEF Inv
  <1>3. dir' = r.dir
    BY <1>1 DEF CopyIn
  <1>4. CASE ~r.ok
    <2>1. fs' = r.fs /\ outcome' = [result |-> "failed"]
      BY <1>1, <1>4 DEF CopyIn
    <2>2. RootRoom(fs', dir') /\ Creation(Image(fs, dir), Image(fs', dir'), n, size, r.ok)
      BY <1>1, <1>2, <1>3, <1>4, <2>1, CreateImage
    <2> QED
      BY <1>4, <2>1, <2>2, FailureAdvances DEF Creation
  <1>5. CASE r.ok
    <2>1. PICK s, f, d : s = InodeSector(r.dir, n) /\ f = r.fs /\ d = r.dir
      OBVIOUS
    <2>2. PICK o, z : o = inode_open(open, f, s) /\ z = size + 1
      OBVIOUS
    <2>3. PICK w : w = inode_write_at(f, o, s, z, 0)
      OBVIOUS
    <2>4. /\ fs' = w.fs
          /\ outcome' = [command |-> "copy_in", name |-> n, size |-> size,
                         result |-> IF w.ok THEN "done" ELSE "half"]
      BY <1>1, <1>5, <2>1, <2>2, <2>3 DEF CopyIn
    <2>5. Good(f, d, open, table, lost) /\ InDirectory(d, n) /\ f.at[s].length = size
      BY <1>2, <1>5, <2>1 DEF CreateGood
    <2>6. s \in FilesIn(d)
      BY <2>1, <2>5, GoodFiles
    <2>7. Good(f, d, o, table, lost) /\ s \in DOMAIN o
      <3>1. Opens(f, d, open, table, lost, s, o)
        BY ONLY <2>2, <2>5, <2>6, InodeOpen
      <3> QED
        BY <3>1 DEF Opens
    <2>8. z \in Nat /\ 0 + z = z /\ z > size
      BY <1>2, <2>2
    <2>9. Writes(f, d, o, table, lost, s, z, w)
      <3>1. Writes(f, d, o, table, lost, s, 0 + z, w)
        BY <2>3, <2>7, <2>8, InodeWriteAt
      <3> QED
        BY <2>8, <3>1
    <2>10. PICK g : g = w.fs
      OBVIOUS
    <2>11. /\ \A x \in InodesIn(d) \ {0, s} : g.at[x] = f.at[x]
           /\ w.ok \in BOOLEAN /\ g.at[s].length = IF w.ok THEN z ELSE size
      BY <2>5, <2>8, <2>9, <2>10 DEF Writes
    <2>12. PICK length : length = IF w.ok THEN z ELSE size
      OBVIOUS
    <2>13. RootRoom(g, d) /\ Creation(Image(fs, dir), Image(g, d), n, length, r.ok)
      BY <1>1, <1>2, <1>5, <2>1, <2>11, <2>12, CreateImage
    <2>14. RootRoom(fs', dir') /\ n \notin DOMAIN FileLengths /\ FileLengths' = Resized(FileLengths, n, length)
      BY <1>3, <1>5, <2>1, <2>4, <2>10, <2>13, ImagesAre DEF Creation
    <2>15. Files!CopyIn(n, size, "done") \/ Files!CopyIn(n, size, "half")
      BY <2>2, <2>4, <2>11, <2>12, <2>14 DEF Resized, Files!CopyIn, Files!Set
    <2>16. Files!Next
      BY <2>15 DEF Files!Next, Running
    <2> QED
      BY <2>14, <2>16 DEF Advances
  <1> QED
    BY <1>2, <1>4, <1>5 DEF CreateGood

LEMMA AdvancesWrite ==
    ASSUME Inv, RootRoom(fs, dir), Running, NEW n \in Name, NEW size \in Size, Write(n, size)
    PROVE  Advances
  <1>1. PICK o, t, s, pos : /\ o = OpenedInodes(n) /\ t = OpenedTable(n)
                            /\ s = t[n].sector /\ pos = t[n].pos
    OBVIOUS
  <1>2. Usable(n) /\ pos >= 0
    BY <1>1 DEF Write
  <1>3. /\ Good(fs, dir, o, t, lost) /\ pos \in Int /\ s \in DOMAIN o
        /\ InDirectory(dir, n) /\ s = InodeSector(dir, n)
    BY <1>1, <1>2, Opened DEF OpenedFile
  <1>4. PICK w : w = inode_write_at(fs, o, s, size, pos)
    OBVIOUS
  <1>5. PICK g, end : g = w.fs /\ end = pos + size
    OBVIOUS
  <1>6. /\ fs' = g /\ dir' = dir
        /\ Ends(w.ok, [command |-> "write", name |-> n, size |-> size,
                       offset |-> pos, result |-> "done"])
    BY <1>1, <1>4, <1>5 DEF Write
  <1>7. Writes(fs, dir, o, t, lost, s, end, w)
    BY <1>2, <1>3, <1>4, <1>5, Sizes, InodeWriteAt
  <1>8. /\ w.ok \in BOOLEAN
        /\ \A x \in InodesIn(dir) \ {s, 0} : g.at[x] = fs.at[x]
        /\ g.at[s].length = IF w.ok /\ end > fs.at[s].length THEN end ELSE fs.at[s].length
    BY <1>5, <1>7 DEF Writes
  <1>9. /\ \A m : InDirectory(dir, m) => InodeSector(dir, m) \in InodesIn(dir) \ {0, 1}
        /\ \A m : InDirectory(dir, m) /\ InodeSector(dir, m) = s => m = n
    BY <1>3, GoodFiles DEF Inv
  <1>10. RootRoom(g, dir)
    <2>1. g.at[1] = fs.at[1]
      BY <1>3, <1>8, <1>9 DEF InodesIn
    <2> QED
      BY <2>1 DEF RootRoom
  <1>11. \A m : InDirectory(dir, m) /\ m # n => g.at[InodeSector(dir, m)] = fs.at[InodeSector(dir, m)]
    BY <1>8, <1>9
  <1>12. CASE ~w.ok
    <2>1. SameFiles(fs, dir, g, dir)
      BY <1>3, <1>8, <1>11, <1>12 DEF SameFiles
    <2>2. Image(fs', dir') = Image(fs, dir)
      BY <1>6, <2>1, SameImage
    <2> QED
      BY <1>6, <1>10, <1>12, <2>2, FailureAdvances DEF Ends
  <1>13. CASE w.ok
    <2>1. Directory(dir) /\ fs.at[s].length \in Nat
      BY <1>3, GoodFiles DEF Inv, Good
    <2>2. PICK old \in Nat, length \in Nat :
             old = fs.at[s].length /\ length = IF end > old THEN end ELSE old
      BY <1>2, <1>3, <1>5, <2>1, Sizes
    <2>3. g.at[InodeSector(dir, n)].length = length
      BY <1>3, <1>8, <1>13, <2>2
    <2>4. \A m : m # n /\ InDirectory(dir, m) => g.at[InodeSector(dir, m)].length
                                                    = fs.at[InodeSector(dir, m)].length
      BY <1>11
    <2>5. Image(g, dir) = Resized(Image(fs, dir), n, length)
      BY <1>3, <2>1, <2>3, <2>4, ResizedImage
    <2>6. n \in DOMAIN FileLengths /\ FileLengths[n] = old
      BY <1>3, <2>1, <2>2, ImageIs, ImagesAre
    <2>7. FileLengths' = Resized(FileLengths, n, length)
      BY <1>6, <2>5, ImagesAre
    <2>8. n \in DOMAIN FileLengths' /\ FileLengths'[n] = length
      BY <2>7 DEF Resized
    <2>9. pos \in 0 .. length
      BY <1>2, <1>3, <1>5, <2>2, Sizes
    <2>10. outcome' = [command |-> "write", name |-> n, size |-> size,
                       offset |-> pos, result |-> "done"]
      BY <1>6, <1>13 DEF Ends
    <2>11. length = IF pos + size > FileLengths[n] THEN pos + size ELSE FileLengths[n]
      BY <1>5, <2>2, <2>6
    <2>12. Files!Write(n, size)
      BY <2>6, <2>7, <2>8, <2>9, <2>10, <2>11 DEF Files!Write, Files!Set, Resized
    <2>13. Files!Next
      BY <2>12 DEF Files!Next, Running
    <2> QED
      BY <1>6, <1>10, <2>13 DEF Advances
  <1> QED
    BY <1>8, <1>12, <1>13

LEMMA AdvancesRm ==
    ASSUME Inv, RootRoom(fs, dir), Running, NEW n \in Name, Rm(n)
    PROVE  Advances
  <1>1. PICK st : st = State
    OBVIOUS
  <1>2. PICK new : new = fsutil_rm(st, n)
    OBVIOUS
  <1>3. PICK g, e : g = new.fs /\ e = new.dir
    OBVIOUS
  <1>4. /\ fs' = g /\ dir' = e
        /\ outcome' = [command |-> "rm", name |-> n, result |-> "done"]
    BY <1>1, <1>2, <1>3 DEF Rm, Becomes
  <1>5. /\ GoodState(st) /\ InDirectory(st.dir, n) /\ (n \in DOMAIN st.table => st.table[n].live)
        /\ st.fs = fs /\ st.dir = dir
    BY <1>1, GoodNow DEF Rm, Exists
  <1>6. /\ GoodState(new) /\ DOMAIN e = DOMAIN dir
        /\ Removes(fs, dir, st.open, st.table, st.lost, n, g, e, new.open, new.table)
    BY <1>2, <1>3, <1>5, RemoveStep
  <1>7. /\ g.at = fs.at /\ Directory(e)
        /\ \A m : InDirectory(e, m) <=> InDirectory(dir, m) /\ m # n
        /\ \A m : InDirectory(e, m) => InodeSector(e, m) = InodeSector(dir, m)
    BY <1>6 DEF Removes, Good
  <1>8. RootRoom(g, e)
    BY <1>6, <1>7 DEF RootRoom
  <1>9. PICK a, b : a = Image(fs, dir) /\ b = Image(g, e)
    OBVIOUS
  <1>10. Directory(dir)
    BY DEF Inv, Good
  <1>11. /\ \A m : m \in DOMAIN a <=> InDirectory(dir, m)
         /\ \A m : InDirectory(dir, m) => a[m] = fs.at[InodeSector(dir, m)].length
    BY <1>9, <1>10, ImageIs
  <1>12. /\ \A m : m \in DOMAIN b <=> InDirectory(e, m)
         /\ \A m : InDirectory(e, m) => b[m] = g.at[InodeSector(e, m)].length
         /\ b = [m \in DOMAIN b |-> b[m]]
    BY <1>7, <1>9, ImageIs
  <1>13. n \in DOMAIN a /\ DOMAIN b = DOMAIN a \ {n}
    BY <1>5, <1>7, <1>11, <1>12
  <1>14. \A m \in DOMAIN b : b[m] = a[m]
    BY <1>7, <1>11, <1>12
  <1>15. b = [m \in DOMAIN a \ {n} |-> a[m]]
    BY ONLY <1>12, <1>13, <1>14
  <1>16. Files!Remove(n)
    BY <1>4, <1>9, <1>13, <1>15, ImagesAre DEF Files!Remove, Files!Kept
  <1>17. Files!Next
    BY <1>16 DEF Files!Next, Running
  <1> QED
    BY <1>4, <1>8, <1>17 DEF Advances

\* Defragment makes every file again with the length it had, or crashes at an empty
\* one, when some of those before it are there again.
LEMMA AdvancesDefragment ==
    ASSUME Inv, RootRoom(fs, dir), Running, Defragment
    PROVE  Advances
  <1>1. PICK note, names, sizes, k : Defragments(note, names, sizes, k)
    BY DefragmentParts
  <1>2. PICK N \in Nat : N = Len(names)
    BY <1>1 DEF Defragments, Rebuildable
  <1>3. /\ note.dir = dir /\ note.fs = fs /\ k \in 1 .. N + 1
        /\ k \in 1 .. N => sizes[names[k]] = 0
        /\ \A i \in 1 .. N : sizes[names[i]] = fs.at[InodeSector(dir, names[i])].length
        /\ outcome' = [result |-> IF k \in 1 .. N THEN "crashed" ELSE "unchanged"]
    BY <1>1, <1>2 DEF Defragments
  <1>4. PICK new : new = Rebuilt(note, names, sizes, N + k - 1)
    OBVIOUS
  <1>5. fs' = new.fs /\ dir' = new.dir
    BY <1>1, <1>2, <1>4 DEF Defragments, Becomes
  <1>6. Directory(dir)
    BY DEF Inv, Good
  <1>7. CASE names = <<>>
    <2>1. N = 0 /\ k \notin 1 .. N /\ N + k - 1 = 0
      BY <1>2, <1>3, <1>7
    <2>2. new = note
      <3>1. PICK a : /\ Stages(note, names, sizes, 2 * Len(names), a)
                     /\ \A turns : Rebuilt(note, names, sizes, turns) = a[turns]
        BY <1>2, RebuiltStages
      <3> QED
        BY <1>4, <2>1, <3>1 DEF Stages
    <2>3. RootRoom(fs', dir') /\ Image(fs', dir') = Image(fs, dir)
      BY <1>3, <1>5, <2>2
    <2> QED
      BY <1>3, <2>1, <2>3, FailureAdvances
  <1>8. CASE names = InOrder
    <2>1. \A n : InDirectory(dir, n) => \E i \in 1 .. N : names[i] = n
      BY <1>2, <1>6, <1>8, InOrderIs
    <2>2. N \in DOMAIN dir
      <3>1. PICK K \in Nat : DOMAIN dir = 0 .. K
        BY <1>6 DEF Directory
      <3>2. Used(dir) \in SUBSET (1 .. K)
        BY <3>1 DEF Used
      <3>3. IsFiniteSet(1 .. K) /\ Cardinality(1 .. K) = K
        BY FS_Interval
      <3>4. Cardinality(Used(dir)) <= K
        BY <3>2, <3>3, FS_Subset
      <3>5. N = Cardinality(Used(dir))
        BY <1>2, <1>6, <1>8, InOrderIs
      <3> QED
        BY <3>1, <3>4, <3>5
    <2>3. Resizable(note, names, sizes)
      BY <1>1, <1>2, <1>3, <2>1, <2>2 DEF Resizable, Defragments
    <2>4. CASE k \notin 1 .. N
      <3>1. k = N + 1 /\ N + k - 1 = N + N
        BY <1>3, <2>4
      <3>2. SameFiles(fs, dir, new.fs, new.dir) /\ RootRoom(new.fs, new.dir)
        BY <1>2, <1>3, <1>4, <2>3, <3>1, RebuildKeeps
      <3>3. Image(fs', dir') = Image(fs, dir)
        BY <1>5, <3>2, SameImage
      <3> QED
        BY <1>3, <1>5, <2>4, <3>2, <3>3, FailureAdvances
    <2>5. CASE k \in 1 .. N
      <3>1. PICK j \in 0 .. N : j = k - 1 /\ N + j = N + k - 1
        BY <2>5
      <3>2. Refilled(note, names, sizes, j, new)
        BY <1>2, <1>4, <2>3, <3>1, RebuildRefills
      <3>3. RootRoom(new.fs, new.dir)
        BY <1>3, <3>2 DEF Refilled, Resizable, RootRoom
      <3>4. PICK a, b : a = Image(fs, dir) /\ b = Image(fs', dir')
        OBVIOUS
      <3>5. Directory(dir')
        BY <1>5, <3>2 DEF Refilled, GoodState, Good
      <3>6. \A i \in 1 .. N : names[i] \in DOMAIN a /\ a[names[i]] = sizes[names[i]]
        <4>1. \A i \in 1 .. N : InDirectory(dir, names[i])
          BY <1>1, <1>2, <1>3 DEF Defragments, Rebuildable
        <4> QED
          BY <1>3, <1>6, <3>4, <4>1, ImageIs
      <3>7. /\ \A m : m \in DOMAIN b <=> \E i \in 1 .. j : names[i] = m
            /\ \A i \in 1 .. j : b[names[i]] = sizes[names[i]]
            /\ b = [m \in DOMAIN b |-> b[m]]
        <4>1. /\ \A m : InDirectory(dir', m) <=> \E i \in 1 .. j : names[i] = m
              /\ \A i \in 1 .. j : fs'.at[InodeSector(dir', names[i])].length = sizes[names[i]]
          BY <1>5, <3>2 DEF Refilled
        <4> QED
          BY <3>4, <3>5, <4>1, ImageIs
      <3>8. \A i \in 1 .. j : i \in 1 .. N /\ names[i] # names[k]
        <4>1. \A i \in 1 .. j : i \in 1 .. N /\ i # k
          BY <2>5, <3>1
        <4> QED
          BY <1>1, <1>2, <2>5, <4>1 DEF Defragments, Rebuildable
      <3>9. DOMAIN b \in SUBSET (DOMAIN a \ {names[k]}) /\ \A m \in DOMAIN b : b[m] = a[m]
        BY <3>6, <3>7, <3>8
      <3>10. a[names[k]] = 0 /\ names[k] \in DOMAIN a
        BY <1>3, <2>5, <3>6
      <3>11. b = [m \in DOMAIN b |-> a[m]]
        BY ONLY <3>7, <3>9
      <3>12. Files!Crash(names[k])
        BY <1>3, <2>5, <3>4, <3>9, <3>10, <3>11, ImagesAre DEF Files!Crash, Files!Kept
      <3>13. Files!Next
        BY <3>4, <3>10, <3>12, ImagesAre DEF Files!Next, Running
      <3> QED
        BY <1>5, <3>3, <3>13 DEF Advances
    <2> QED
      BY <2>4, <2>5
  <1> QED
    BY <1>1, <1>7, <1>8 DEF Defragments

LEMMA StepAdvances ==
    ASSUME Inv, RootRoom(fs, dir), [Next]_vars
    PROVE  Advances
  <1>1. CASE Running /\ \E n \in Name, size \in Size : Create(n, size) \/ CopyIn(n, size) \/ Write(n, size)
    BY <1>1, AdvancesCreate, AdvancesCopyIn, AdvancesWrite
  <1>2. CASE Running /\ \E n \in Name : Rm(n)
    BY <1>2, AdvancesRm
  <1>3. CASE Running /\ Defragment
    BY <1>3, AdvancesDefragment
  <1>4. CASE /\ Running
             /\ \/ \E n \in Name, size \in Size : Read(n, size)
                \/ \E n \in Name, pos \in {0} \cup Size : Seek(n, pos)
                \/ \E n \in Name : SizeOf(n) \/ CopyOut(n) \/ Cat(n)
                \/ FindFile \/ HiddenData \/ FragmentationDegree \/ Restart
    <2>1. fs' = fs /\ dir' = dir /\ outcome' = [result |-> "unchanged"]
      BY <1>4 DEF Read, Seek, SizeOf, CopyOut, Cat, FindFile, HiddenData, FragmentationDegree,
                  Restart, NoOutcome
    <2>2. RootRoom(fs', dir') /\ Image(fs', dir') = Image(fs, dir)
      BY <2>1
    <2> QED
      BY <1>4, <2>1, <2>2, FailureAdvances
  <1>5. CASE UNCHANGED vars
    <2>1. fs' = fs /\ dir' = dir /\ outcome' = outcome
      BY <1>5 DEF vars
    <2>2. FileLengths' = FileLengths
      BY <2>1, ImagesAre
    <2> QED
      BY <2>1, <2>2 DEF Advances
  <1> QED
    BY <1>1, <1>2, <1>3, <1>4, <1>5 DEF Next, Command

LEMMA EntriesFit ==
    ASSUME NEW k \in Nat, NEW m \in Nat, k <= m, NEW z \in Nat
    PROVE  k * z <= m * z
  <1>1. PICK j \in Nat : m = k + j
    BY SMT
  <1>2. (k + j) * z = k * z + j * z /\ j * z >= 0
    BY SMT
  <1> QED
    BY <1>1, <1>2, SMT

\* A new disk has the directory it was asked for, and no file.
LEMMA FilesInitially ==
    ASSUME Init, SystemIntact
    PROVE  RootRoom(fs, dir) /\ Image(fs, dir) = <<>>
  <1>1. PICK e : e = <<>>
    OBVIOUS
  <1>2. e = [x \in DOMAIN e |-> e[x]] /\ DOMAIN e = {}
    BY <1>1
  <1>3. fs.at[1].length = MAX_FILES_IN_DIRECTORY * EntrySize
    <2>1. fs = Formatted /\ fs.at[0].kind = "inode" /\ fs.at[1].kind = "inode"
      BY DEF Init, SystemIntact, FREE_MAP_SECTOR, ROOT_DIR_SECTOR
    <2> QED
      BY <1>2, <2>1, FormattedSound
  <1>4. dir = [k \in 0 .. MAX_FILES_IN_DIRECTORY - 1 |-> IF k = 0 THEN ParentEntry ELSE NoEntry]
    BY DEF Init
  <1>5. PICK M \in Nat, z \in Nat : M = MAX_FILES_IN_DIRECTORY /\ z = EntrySize
    BY FileSystemAssumption
  <1>6. DOMAIN dir = 0 .. M - 1 /\ \A k \in DOMAIN dir \ {0} : dir[k] = NoEntry
    BY <1>4, <1>5
  <1>7. RootRoom(fs, dir)
    <2>1. ASSUME NEW k \in DOMAIN dir PROVE (k + 1) * z <= M * z
      <3>1. PICK l \in Nat : l = k + 1 /\ l <= M
        BY <1>5, <1>6, <2>1
      <3>2. l * z <= M * z
        BY <1>5, <3>1, EntriesFit
      <3> QED
        BY <3>1, <3>2
    <2> QED
      BY <1>3, <1>5, <2>1 DEF RootRoom
  <1>8. \A n : ~InDirectory(dir, n)
    BY <1>6 DEF InDirectory, EntriesOf, NoEntry
  <1>9. Image(fs, dir) = e
    <2>1. PICK D : D = {m \in Name : InDirectory(dir, m)}
      OBVIOUS
    <2>2. D = {}
      BY <1>8, <2>1
    <2>3. Image(fs, dir) = [n \in D |-> fs.at[InodeSector(dir, n)].length]
      BY <2>1 DEF Image
    <2> QED
      BY ONLY <1>2, <2>2, <2>3
  <1> QED
    BY <1>1, <1>7, <1>9

--------------------------------------------------------------------------------
(***************************************************************************)
(* The theorems.  do_format panics when an inode of the system cannot be   *)
(* made, so that both are there at first.  A full disk can cost the free   *)
(* map its inode when a file needs a block of pointers (inode_reserve      *)
(* ignores that failure): while both inodes are there, no sector is shared *)
(* or forgotten.                                                           *)
(***************************************************************************)

\* In every execution the inodes hold their files and share nothing, the open ones
\* agree with those on disk, and the table with the directory.
THEOREM InvAlways == Spec /\ SystemIntact => []Inv
  <1>1. Init /\ SystemIntact => Inv
    BY GoodInitially
  <1>2. Inv /\ [Next]_vars => Inv'
    BY InvStep
  <1> QED
    BY <1>1, <1>2, PTL DEF Spec

\* No sector is in two files or twice in one, and none in use is free, whatever was
\* created, written, removed, defragmented or failed before (inode_reserve,
\* inode_deallocate, free_map_release).
THEOREM NoSharingAlways == Spec /\ []SystemIntact => []NoSharing
  <1>1. Inv /\ SystemIntact => NoSharing
    BY NoSharingHolds
  <1> QED
    BY <1>1, InvAlways, PTL

\* A marked sector is some file's, or was taken by a command that failed
\* (filesys_create, inode_write_at): fsutil_rm gives everything back.
THEOREM OnlyFailuresLoseAlways == Spec /\ []SystemIntact => []OnlyFailuresLose
  <1>1. Inv /\ SystemIntact => OnlyFailuresLose
    BY OnlyFailuresLoseHolds
  <1> QED
    BY <1>1, InvAlways, PTL

\* What inode_close frees is on disk: an open inode agrees with the one there as far
\* as its file reaches (inode_open, inode_write_at).
THEOREM ClosingLosesNothingAlways == Spec /\ SystemIntact => []ClosingLosesNothing
  <1>1. Inv => ClosingLosesNothing
    BY ClosingLosesNothingHolds
  <1> QED
    BY <1>1, InvAlways, PTL

\* create, copy_in, write and rm do to the file they name, and to no other, what they
\* were asked, or fail and leave all files as they were, except that a copy_in whose
\* write fails leaves the file it has created; and a defragment that ends finds room
\* for every file again, and with the length it had, among the sectors it has just
\* given back, while one that crashes does so on an empty file (filesys_create,
\* inode_write_at, fsutil_rm, copy_in, defragment).
THEOREM ImplementsNamedFilesAlways == Spec /\ SystemIntact => ImplementsNamedFiles
  <1>1. Init /\ SystemIntact => Inv /\ RootRoom(fs, dir)
    BY GoodInitially, FilesInitially
  <1>2. Init /\ SystemIntact => Files!Init
    BY FilesInitially, ImagesAre DEF Init, Files!Init
  <1>3. Inv /\ RootRoom(fs, dir) /\ [Next]_vars
            => Inv' /\ RootRoom(fs, dir)' /\ [Files!Next]_<<FileLengths, outcome>>
    <2>1. SUFFICES ASSUME Inv, RootRoom(fs, dir), [Next]_vars
                   PROVE  /\ Inv' /\ RootRoom(fs', dir')
                          /\ [Files!Next]_<<FileLengths, outcome>>
      OBVIOUS
    <2>2. Inv'
      BY <2>1, InvStep
    <2>3. Advances
      BY <2>1, StepAdvances
    <2> QED
      BY <2>2, <2>3 DEF Advances
  <1> QED
    BY <1>1, <1>2, <1>3, PTL DEF Spec, ImplementsNamedFiles, Files!Spec, Files!vars

================================================================================
