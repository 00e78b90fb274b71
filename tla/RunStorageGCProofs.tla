------------------------- MODULE RunStorageGCProofs -------------------------
(***************************************************************************)
(* What execute_gc of storage/gc.py promises, for any runs, sizes, ages,   *)
(* quota and retention, beside any number of other writers.  First the     *)
(* operators of the plan, counted rather than summed; then the inductive   *)
(* invariant, one lemma per action; then the properties.                   *)
(***************************************************************************)
EXTENDS RunStorageGC, FiniteSetTheorems, SequenceTheorems, TLAPS

-----------------------------------------------------------------------------
(* The order of the candidates                                             *)

\* The runs are finitely many numbers, and the times of a catalog are numbers.
LEMMA CatalogTypes ==
    ASSUME NEW cat, IsCatalog(cat)
    PROVE  /\ IsFiniteSet(DOMAIN cat)
           /\ DOMAIN cat \subseteq Nat
           /\ \A r \in DOMAIN cat : cat[r].mtime \in Int /\ cat[r].files \subseteq Kinds
<1>1. DOMAIN cat \subseteq Runs /\ IsFiniteSet(Runs) /\ Runs \subseteq Nat /\ Now \in Nat
  BY GCAssumption DEF IsCatalog
<1>2. IsFiniteSet(DOMAIN cat)
  BY <1>1, FS_Subset
<1>3. ASSUME NEW r \in DOMAIN cat PROVE cat[r].mtime \in Int /\ cat[r].files \subseteq Kinds
  <2>1. cat[r] \in Entries
    BY DEF IsCatalog
  <2>2. cat[r].mtime \in 0 .. Now /\ cat[r].files \in SUBSET Kinds
    BY <2>1 DEF Entries
  <2> QED BY <1>1, <2>2
<1> QED BY <1>1, <1>2, <1>3

\* Whoever comes before another has the smaller rank, and no rank is too large.
LEMMA RankGrows ==
    ASSUME NEW cat, IsCatalog(cat), NEW S \in SUBSET (DOMAIN cat)
    PROVE  /\ IsFiniteSet(S) /\ Cardinality(S) \in Nat
           /\ \A r \in S : Rank(cat, S, r) \in 0 .. Cardinality(S) - 1
           /\ \A a, b \in S : Before(cat, a, b) => Rank(cat, S, a) < Rank(cat, S, b)
           /\ \A a, b \in S : a = b \/ Before(cat, a, b) \/ Before(cat, b, a)
<1> DEFINE Under(r) == {q \in S : Before(cat, q, r)}
<1>1. IsFiniteSet(S) /\ Cardinality(S) \in Nat
  BY CatalogTypes, FS_Subset, FS_CardinalityType
<1>2. \A r \in S : r \in Nat /\ cat[r].mtime \in Int
  BY CatalogTypes
<1>3. \A r \in S : /\ IsFiniteSet(Under(r)) /\ Cardinality(Under(r)) \in Nat
                   /\ Rank(cat, S, r) = Cardinality(Under(r))
  <2> TAKE r \in S
  <2>1. Under(r) \in SUBSET S
    OBVIOUS
  <2>2. IsFiniteSet(Under(r))
    BY <1>1, <2>1, FS_Subset
  <2> QED BY <2>2, FS_CardinalityType DEF Rank
<1>4. ASSUME NEW r \in S PROVE Rank(cat, S, r) \in 0 .. Cardinality(S) - 1
  <2>1. r \notin Under(r) /\ Under(r) \in SUBSET S
    BY <1>2 DEF Before
  <2>2. Cardinality(Under(r)) <= Cardinality(S) /\ Cardinality(S) # Cardinality(Under(r))
    BY <1>1, <2>1, FS_Subset
  <2> QED BY <1>1, <1>3, <2>2
<1>5. ASSUME NEW a \in S, NEW b \in S, Before(cat, a, b)
      PROVE  Rank(cat, S, a) < Rank(cat, S, b)
  <2>1. Under(a) \in SUBSET Under(b)
    BY <1>2, <1>5 DEF Before
  <2>2. a \in Under(b) /\ a \notin Under(a)
    BY <1>2, <1>5 DEF Before
  <2>3. /\ Cardinality(Under(a)) <= Cardinality(Under(b))
        /\ Cardinality(Under(b)) # Cardinality(Under(a))
    BY <1>3, <2>1, <2>2, FS_Subset
  <2> QED BY <1>3, <2>3
<1>6. \A a, b \in S : a = b \/ Before(cat, a, b) \/ Before(cat, b, a)
  BY <1>2 DEF Before
<1> QED BY <1>1, <1>4, <1>5, <1>6

\* Every rank below the number of the runs is taken (_sort_candidates).
LEMMA RankIsTaken ==
    ASSUME NEW cat, IsCatalog(cat), NEW S \in SUBSET (DOMAIN cat),
           NEW n \in 0 .. Cardinality(S) - 1
    PROVE  \E r \in S : Rank(cat, S, r) = n
<1> DEFINE N == 0 .. Cardinality(S) - 1
           f == [r \in S |-> Rank(cat, S, r)]
<1>1. IsFiniteSet(N) /\ Cardinality(N) = Cardinality(S)
  <2>1. Cardinality(S) \in Nat
    BY RankGrows
  <2> DEFINE top == Cardinality(S) - 1
  <2>2. /\ IsFiniteSet(0 .. top)
        /\ Cardinality(0 .. top) = IF 0 > top THEN 0 ELSE top - 0 + 1
    <3>1. top \in Int
      BY <2>1
    <3> HIDE DEF top
    <3> QED BY <3>1, FS_Interval
  <2> QED BY <2>1, <2>2
<1>2. f \in Injection(S, N)
  <2>1. f \in [S -> N]
    BY RankGrows
  <2>2. \A a, b \in S : f[a] = f[b] => a = b
    BY RankGrows
  <2> QED BY <2>1, <2>2 DEF Injection, IsInjective
<1>3. f \in Surjection(S, N)
  BY <1>1, <1>2, FS_Injection
<1> QED BY <1>3 DEF Surjection

\* The oldest first: every run once, in the order of Before.
LEMMA OldestOrders ==
    ASSUME NEW cat, IsCatalog(cat), NEW S \in SUBSET (DOMAIN cat)
    PROVE  /\ Oldest(cat, S) \in Seq(S)
           /\ Len(Oldest(cat, S)) = Cardinality(S)
           /\ Range(Oldest(cat, S)) = S
           /\ \A i, j \in 1 .. Len(Oldest(cat, S)) :
                 i < j => Before(cat, Oldest(cat, S)[i], Oldest(cat, S)[j])
<1> DEFINE s == Oldest(cat, S)
           n == Cardinality(S)
<1>0. n \in Nat
  BY RankGrows
<1>1. \A i \in 1 .. n : s[i] \in S /\ Rank(cat, S, s[i]) = i - 1
  <2> TAKE i \in 1 .. n
  <2>1. \E r \in S : Rank(cat, S, r) = i - 1
    BY <1>0, RankIsTaken
  <2>2. s[i] = CHOOSE r \in S : Rank(cat, S, r) = i - 1
    BY DEF Oldest
  <2> QED BY <2>1, <2>2
<1>2. s \in [1 .. n -> S]
  BY <1>1 DEF Oldest
<1>3. s \in Seq(S) /\ Len(s) = n
  BY <1>0, <1>2, LenProperties
<1>4. S \subseteq Range(s)
  <2> SUFFICES ASSUME NEW r \in S PROVE r \in Range(s)
    OBVIOUS
  <2>1. PICK i \in 1 .. n : i = Rank(cat, S, r) + 1
    BY <1>0, RankGrows
  <2>2. Rank(cat, S, s[i]) = Rank(cat, S, r)
    BY <1>1, <2>1, RankGrows
  <2>3. s[i] = r
    BY <1>1, <2>2, RankGrows
  <2> QED BY <1>2, <2>3 DEF Range
<1>5. Range(s) \subseteq S
  BY <1>2 DEF Range
<1>6. \A i, j \in 1 .. n : i < j => Before(cat, s[i], s[j])
  <2> TAKE i, j \in 1 .. n
  <2> HAVE i < j
  <2>1. Rank(cat, S, s[i]) < Rank(cat, S, s[j])
    BY <1>0, <1>1
  <2>2. s[i] # s[j] /\ ~Before(cat, s[j], s[i])
    BY <1>1, <2>1, RankGrows
  <2> QED BY <1>1, <2>2, RankGrows
<1> QED BY <1>3, <1>4, <1>5, <1>6

-----------------------------------------------------------------------------
(* The bytes of a catalog                                                  *)

LEMMA KindsFinite == IsFiniteSet(Kinds)
<1> DEFINE seq == <<"marker", "running", "seal", "close", "report", "authority",
                    "review", "pinned", "protected">>
<1>1. seq \in Seq(Kinds) /\ Len(seq) = 9
  BY DEF Kinds
<1>2. \A k \in Kinds : \E n \in 1 .. 9 : seq[n] = k
  BY DEF Kinds
<1> QED BY <1>1, <1>2 DEF IsFiniteSet

LEMMA BytesFinite ==
    ASSUME NEW files \in SUBSET Kinds
    PROVE  IsFiniteSet(Bytes(files)) /\ Size(files) \in Nat
<1> DEFINE OfKind(k) == {k} \X (1 .. Weight[k])
           All == {OfKind(k) : k \in files}
           f == [k \in files |-> OfKind(k)]
<1>1. IsFiniteSet(Kinds)
  BY KindsFinite
<1>2. IsFiniteSet(files)
  BY <1>1, FS_Subset
<1>3. f \in Surjection(files, All)
  BY DEF Surjection
<1>4. IsFiniteSet(All)
  BY <1>2, <1>3, FS_Surjection
<1>5. ASSUME NEW k \in files PROVE IsFiniteSet(OfKind(k))
  <2>1. Weight[k] \in Int
    BY GCAssumption
  <2>2. IsFiniteSet(1 .. Weight[k])
    BY <2>1, FS_Interval
  <2>3. IsFiniteSet({k})
    BY FS_Singleton
  <2> QED BY <2>2, <2>3, FS_Product
<1>6. IsFiniteSet(UNION All)
  BY <1>4, <1>5, FS_UNION
<1>7. IsFiniteSet(Bytes(files))
  BY <1>6 DEF Bytes
<1> QED BY <1>7, FS_CardinalityType DEF Size

\* What the total of a catalog depends on: which runs it has, and their files.
Sizable(cat) == IsFiniteSet(DOMAIN cat) /\ \A r \in DOMAIN cat : cat[r].files \subseteq Kinds

LEMMA TotalIsNat ==
    ASSUME NEW cat, Sizable(cat)
    PROVE  IsFiniteSet(BytesOf(cat)) /\ Total(cat) \in Nat
<1> DEFINE OfRun(r) == {r} \X Bytes(cat[r].files)
           All == {OfRun(r) : r \in DOMAIN cat}
           f == [r \in DOMAIN cat |-> OfRun(r)]
<1>1. f \in Surjection(DOMAIN cat, All)
  BY DEF Surjection
<1>2. IsFiniteSet(All)
  BY <1>1, FS_Surjection DEF Sizable
<1>3. ASSUME NEW r \in DOMAIN cat PROVE IsFiniteSet(OfRun(r))
  <2>1. IsFiniteSet(Bytes(cat[r].files)) /\ IsFiniteSet({r})
    BY BytesFinite, FS_Singleton DEF Sizable
  <2> QED BY <2>1, FS_Product
<1>4. IsFiniteSet(UNION All)
  BY <1>2, <1>3, FS_UNION
<1>5. IsFiniteSet(BytesOf(cat))
  BY <1>4 DEF BytesOf
<1> QED BY <1>5, FS_CardinalityType DEF Total

LEMMA TotalOfOne ==
    ASSUME NEW cat, Sizable(cat), NEW r, DOMAIN cat = {r}
    PROVE  Total(cat) = Size(cat[r].files)
<1>1. BytesOf(cat) = {r} \X Bytes(cat[r].files)
  BY DEF BytesOf
<1>2. IsFiniteSet(Bytes(cat[r].files)) /\ Size(cat[r].files) \in Nat
  BY BytesFinite DEF Sizable
<1>3. IsFiniteSet({r}) /\ Cardinality({r}) = 1
  BY FS_Singleton
<1>4. Cardinality({r} \X Bytes(cat[r].files)) = 1 * Size(cat[r].files)
  BY <1>2, <1>3, FS_Product DEF Size
<1> QED BY <1>1, <1>2, <1>4 DEF Total

\* The total of a catalog is that of any part of it and of the rest.
Splits(cat, part, rest) ==
    /\ DOMAIN part \cup DOMAIN rest = DOMAIN cat /\ DOMAIN part \cap DOMAIN rest = {}
    /\ \A r \in DOMAIN part : part[r].files = cat[r].files
    /\ \A r \in DOMAIN rest : rest[r].files = cat[r].files

LEMMA TotalSplits ==
    ASSUME NEW cat, NEW part, NEW rest, Sizable(cat), Splits(cat, part, rest)
    PROVE  /\ Sizable(part) /\ Sizable(rest)
           /\ Total(cat) = Total(part) + Total(rest)
<1>1. Sizable(part) /\ Sizable(rest)
  <2>1. DOMAIN part \in SUBSET (DOMAIN cat) /\ DOMAIN rest \in SUBSET (DOMAIN cat)
    BY DEF Splits
  <2>2. IsFiniteSet(DOMAIN part) /\ IsFiniteSet(DOMAIN rest)
    BY <2>1, FS_Subset DEF Sizable
  <2> QED BY <2>1, <2>2 DEF Sizable, Splits
<1>2. BytesOf(cat) = BytesOf(part) \cup BytesOf(rest)
  BY DEF BytesOf, Splits
<1>3. BytesOf(part) \cap BytesOf(rest) = {}
  BY DEF BytesOf, Splits
<1>4. /\ IsFiniteSet(BytesOf(part)) /\ IsFiniteSet(BytesOf(rest))
      /\ Total(part) \in Nat /\ Total(rest) \in Nat
  BY <1>1, TotalIsNat
<1>5. Cardinality(BytesOf(cat)) =
        Cardinality(BytesOf(part)) + Cardinality(BytesOf(rest)) - Cardinality(BytesOf(part) \cap BytesOf(rest))
  BY <1>2, <1>4, FS_Union
<1>6. Cardinality(BytesOf(part) \cap BytesOf(rest)) = 0
  BY <1>3, FS_EmptySet
<1> QED BY <1>1, <1>4, <1>5, <1>6 DEF Total

\* What the first candidates free grows with each by its size.
LEMMA FreedGrows ==
    ASSUME NEW cat, IsCatalog(cat), NEW s \in Seq(DOMAIN cat),
           \A i, j \in 1 .. Len(s) : s[i] = s[j] => i = j,
           NEW n \in 1 .. Len(s)
    PROVE  /\ Freed(cat, s, n - 1) \in Nat /\ Size(cat[s[n]].files) \in Nat
           /\ Freed(cat, s, n) = Freed(cat, s, n - 1) + Size(cat[s[n]].files)
<1> DEFINE first == {s[i] : i \in 1 .. n}
           whole == [r \in first |-> cat[r]]
           a == [r \in {s[i] : i \in 1 .. n - 1} |-> cat[r]]
           b == [r \in {s[n]} |-> cat[r]]
<1>1. first \in SUBSET (DOMAIN cat)
  OBVIOUS
<1>2. Sizable(whole)
  BY <1>1, CatalogTypes, FS_Subset DEF Sizable
<1>3. first = {s[i] : i \in 1 .. n - 1} \cup {s[n]} /\ s[n] \notin {s[i] : i \in 1 .. n - 1}
  OBVIOUS
<1>4. Sizable(a) /\ Sizable(b) /\ Total(whole) = Total(a) + Total(b)
  <2>1. Splits(whole, a, b)
    BY <1>3 DEF Splits
  <2> HIDE DEF whole, a, b
  <2> QED BY <1>2, <2>1, TotalSplits
<1>5. Total(b) = Size(cat[s[n]].files)
  BY <1>4, TotalOfOne
<1>6. Total(a) \in Nat /\ Total(b) \in Nat
  BY <1>4, TotalIsNat
<1> QED BY <1>4, <1>5, <1>6 DEF Freed

LEMMA FreedMonotone ==
    ASSUME NEW cat, IsCatalog(cat), NEW s \in Seq(DOMAIN cat),
           NEW n \in 0 .. Len(s), NEW m \in 0 .. n
    PROVE  /\ Freed(cat, s, m) \in Nat /\ Freed(cat, s, n) \in Nat
           /\ Freed(cat, s, m) <= Freed(cat, s, n)
<1> DEFINE part == {s[i] : i \in 1 .. m}
           all == {s[i] : i \in 1 .. n}
           whole == [r \in all |-> cat[r]]
           a == [r \in part |-> cat[r]]
           b == [r \in all \ part |-> cat[r]]
<1>1. part \subseteq all /\ all \in SUBSET (DOMAIN cat)
  OBVIOUS
<1>2. Sizable(whole)
  BY <1>1, CatalogTypes, FS_Subset DEF Sizable
<1>3. Splits(whole, a, b)
  BY <1>1 DEF Splits
<1>4. Sizable(a) /\ Sizable(b) /\ Total(whole) = Total(a) + Total(b)
  <2> HIDE DEF whole, a, b
  <2> QED BY <1>2, <1>3, TotalSplits
<1>5. Total(a) \in Nat /\ Total(b) \in Nat
  BY <1>4, TotalIsNat
<1> QED BY <1>4, <1>5 DEF Freed

-----------------------------------------------------------------------------
(* The selection of the plan                                               *)

Distinct(s) == \A i, j \in 1 .. Len(s) : s[i] = s[j] => i = j

\* The loop of _select_quota_candidates takes a prefix: the runs before which
\* not enough is freed.
LEMMA QuotaPrefix ==
    ASSUME NEW cat, IsCatalog(cat), NEW s \in Seq(DOMAIN cat), NEW over \in Int
    PROVE  \E n \in 0 .. Len(s) :
              /\ SelectQuota(cat, s, over) = SubSeq(s, 1, n)
              /\ \A i \in 1 .. Len(s) : Freed(cat, s, i - 1) < over <=> i <= n
<1> DEFINE D == {i \in 1 .. Len(s) : Freed(cat, s, i - 1) < over}
           n == Cardinality(D)
<1>1. \A i \in 1 .. Len(s) : IsFiniteSet(1 .. i) /\ Cardinality(1 .. i) = i
  <2> TAKE i \in 1 .. Len(s)
  <2>1. IsFiniteSet(1 .. i) /\ Cardinality(1 .. i) = IF 1 > i THEN 0 ELSE i - 1 + 1
    BY FS_Interval
  <2> QED BY <2>1
<1>2. IsFiniteSet(1 .. Len(s)) /\ Cardinality(1 .. Len(s)) = Len(s)
  <2>1. /\ IsFiniteSet(1 .. Len(s))
        /\ Cardinality(1 .. Len(s)) = IF 1 > Len(s) THEN 0 ELSE Len(s) - 1 + 1
    BY FS_Interval
  <2> QED BY <2>1
<1>3. D \in SUBSET (1 .. Len(s)) /\ IsFiniteSet(D) /\ n \in Nat /\ n <= Len(s)
  BY <1>2, FS_Subset, FS_CardinalityType
<1>4. \A i \in D : 1 .. i \subseteq D
  <2> SUFFICES ASSUME NEW i \in D, NEW j \in 1 .. i PROVE j \in D
    OBVIOUS
  <2>1. /\ i \in 1 .. Len(s) /\ j \in 1 .. Len(s)
        /\ Freed(cat, s, i - 1) < over
    OBVIOUS
  <2>2. /\ Freed(cat, s, j - 1) \in Nat /\ Freed(cat, s, i - 1) \in Nat
        /\ Freed(cat, s, j - 1) <= Freed(cat, s, i - 1)
    BY <2>1, FreedMonotone
  <2>3. Freed(cat, s, j - 1) < over
    BY <2>1, <2>2
  <2> QED BY <2>1, <2>3
<1>5. \A i \in D : i <= n
  <2> TAKE i \in D
  <2>1. Cardinality(1 .. i) <= n
    BY <1>3, <1>4, FS_Subset
  <2> QED BY <1>1, <2>1
<1>6. D = 1 .. n
  <2>1. D \in SUBSET (1 .. n)
    BY <1>5
  <2>2. IsFiniteSet(1 .. n) /\ Cardinality(1 .. n) = n
    <3>1. CASE n = 0
      BY <3>1, FS_EmptySet
    <3>2. CASE n # 0
      BY <1>1, <1>3, <3>2
    <3> QED BY <3>1, <3>2
  <2> QED BY <2>1, <2>2, FS_Subset
<1>7. SelectQuota(cat, s, over) = SubSeq(s, 1, n)
  BY DEF SelectQuota
<1> HIDE DEF n
<1>8. \A i \in 1 .. Len(s) : Freed(cat, s, i - 1) < over <=> i <= n
  BY <1>3, <1>6
<1> QED BY <1>3, <1>7, <1>8

SafeRuns(cat) == {r \in DOMAIN cat : SafeEligible(cat[r])}
Due(cat)      == {r \in DOMAIN cat : Classify(cat[r]) = "GC_CANDIDATE"}

\* What a plan made of a complete census selects
Chosen(cat)   == Selected(cat, TRUE)

\* Under quota pressure the selection is a prefix of the safe runs, oldest first.
LEMMA PressureSelection ==
    ASSUME NEW cat, IsCatalog(cat), Pressure(cat)
    PROVE  LET s == Oldest(cat, SafeRuns(cat)) IN
           \E n \in 0 .. Len(s) :
              /\ Chosen(cat) = SubSeq(s, 1, n)
              /\ \A i \in 1 .. Len(s) :
                    Freed(cat, s, i - 1) < Total(cat) - Quota <=> i <= n
<1> DEFINE s == Oldest(cat, SafeRuns(cat))
<1>1. SafeRuns(cat) \in SUBSET (DOMAIN cat)
  BY DEF SafeRuns
<1>2. s \in Seq(DOMAIN cat)
  BY <1>1, OldestOrders
<1>3. Sizable(cat)
  BY CatalogTypes DEF Sizable
<1>4. Total(cat) - Quota \in Int
  BY <1>3, TotalIsNat, GCAssumption
<1>5. Chosen(cat) = SelectQuota(cat, s, Total(cat) - Quota)
  BY DEF Chosen, Selected, SafeRuns
<1> HIDE DEF s
<1>6. \E n \in 0 .. Len(s) :
         /\ SelectQuota(cat, s, Total(cat) - Quota) = SubSeq(s, 1, n)
         /\ \A i \in 1 .. Len(s) : Freed(cat, s, i - 1) < Total(cat) - Quota <=> i <= n
  BY <1>2, <1>4, QuotaPrefix
<1> QED BY <1>5, <1>6 DEF s

\* Whatever is selected is selected once, and safe to remove by the catalog it
\* was selected from; nothing is selected of an incomplete census.
LEMMA SelectionIsSafe ==
    ASSUME NEW cat, IsCatalog(cat), NEW complete \in BOOLEAN
    PROVE  LET sel == Selected(cat, complete) IN
           /\ sel \in Seq(DOMAIN cat) /\ Distinct(sel)
           /\ \A i \in 1 .. Len(sel) : SafeEligible(cat[sel[i]])
           /\ sel # <<>> => complete
<1>1. CASE ~complete
  BY <1>1 DEF Selected, Distinct
<1>2. CASE complete /\ Pressure(cat)
  <2> DEFINE s == Oldest(cat, SafeRuns(cat))
  <2>1. SafeRuns(cat) \in SUBSET (DOMAIN cat)
    BY DEF SafeRuns
  <2>2. s \in Seq(SafeRuns(cat))
    BY <2>1, OldestOrders
  <2>3. \A i, j \in 1 .. Len(s) : i < j => s[i] # s[j]
    BY <2>1, <2>2, OldestOrders, CatalogTypes DEF Before
  <2>4. PICK n \in 0 .. Len(s) : Chosen(cat) = SubSeq(s, 1, n)
    BY <1>2, PressureSelection
  <2> DEFINE sel == SubSeq(s, 1, n)
  <2>5. /\ sel \in Seq(SafeRuns(cat)) /\ Len(sel) = n
        /\ \A i \in 1 .. n : sel[i] = s[i]
    <3> HIDE DEF s
    <3>1. \A i \in 1 .. n : s[i] \in SafeRuns(cat)
      BY <2>2
    <3>2. /\ SubSeq(s, 1, n) \in Seq(SafeRuns(cat))
          /\ Len(SubSeq(s, 1, n)) = IF 1 <= n THEN n - 1 + 1 ELSE 0
          /\ \A i \in 1 .. n - 1 + 1 : SubSeq(s, 1, n)[i] = s[1 + i - 1]
      BY <3>1, SubSeqProperties
    <3> QED BY <3>2
  <2> HIDE DEF s, sel
  <2>6. Distinct(sel)
    BY <2>3, <2>5 DEF Distinct
  <2>7. Selected(cat, complete) = sel
    BY <1>2, <2>4 DEF sel, Chosen
  <2>8. sel \in Seq(DOMAIN cat) /\ \A i \in 1 .. Len(sel) : SafeEligible(cat[sel[i]])
    BY <2>5 DEF SafeRuns
  <2> QED BY <1>2, <2>6, <2>7, <2>8
<1>3. CASE complete /\ ~Pressure(cat)
  <2> DEFINE s == Oldest(cat, Due(cat))
  <2>1. Due(cat) \in SUBSET (DOMAIN cat)
    BY DEF Due
  <2>2. s \in Seq(Due(cat))
    BY <2>1, OldestOrders
  <2>3. \A i, j \in 1 .. Len(s) : i < j => s[i] # s[j]
    BY <2>1, <2>2, OldestOrders, CatalogTypes DEF Before
  <2>4. Selected(cat, complete) = s
    BY <1>3 DEF Selected, Due
  <2>5. \A r \in Due(cat) : r \in DOMAIN cat /\ SafeEligible(cat[r])
    BY DEF Due, Classify
  <2> HIDE DEF s
  <2>6. s \in Seq(DOMAIN cat) /\ Distinct(s) /\ \A i \in 1 .. Len(s) : SafeEligible(cat[s[i]])
    BY <2>2, <2>3, <2>5 DEF Distinct
  <2> QED BY <1>3, <2>4, <2>6
<1> QED BY <1>1, <1>2, <1>3

\* A prefix frees what it freed of the sequence it is a prefix of.
LEMMA PrefixFrees ==
    ASSUME NEW cat, NEW S, NEW s \in Seq(S), NEW n \in 0 .. Len(s), NEW m \in 0 .. n
    PROVE  /\ SubSeq(s, 1, n) \in Seq(S) /\ Len(SubSeq(s, 1, n)) = n
           /\ \A i \in 1 .. n : SubSeq(s, 1, n)[i] = s[i]
           /\ Freed(cat, SubSeq(s, 1, n), m) = Freed(cat, s, m)
<1>1. \A i \in 1 .. n : s[i] \in S
  OBVIOUS
<1>2. /\ SubSeq(s, 1, n) \in Seq(S)
      /\ Len(SubSeq(s, 1, n)) = IF 1 <= n THEN n - 1 + 1 ELSE 0
      /\ \A i \in 1 .. n - 1 + 1 : SubSeq(s, 1, n)[i] = s[1 + i - 1]
  BY <1>1, SubSeqProperties
<1>3. \A i \in 1 .. n : SubSeq(s, 1, n)[i] = s[i]
  BY <1>2
<1>4. {SubSeq(s, 1, n)[i] : i \in 1 .. m} = {s[i] : i \in 1 .. m}
  BY <1>3
<1>5. Freed(cat, SubSeq(s, 1, n), m) = Freed(cat, s, m)
  BY <1>4, Zenon DEF Freed
<1> QED BY <1>2, <1>3, <1>5

\* A plan under pressure (build_dry_run): it takes the oldest safe runs, enough of
\* them if there are enough, and would not be enough without the last one.
LEMMA PlanIsTight ==
    ASSUME NEW cat, IsCatalog(cat), Pressure(cat),
           NEW sel, sel = Chosen(cat), sel # <<>>
    PROVE  /\ Range(sel) \subseteq SafeRuns(cat)
           /\ \/ Total(cat) - Freed(cat, sel, Len(sel)) <= Quota
              \/ Range(sel) = SafeRuns(cat)
           /\ Total(cat) - Freed(cat, sel, Len(sel)) + Size(cat[sel[Len(sel)]].files) > Quota
           /\ \A a \in Range(sel), b \in SafeRuns(cat) \ Range(sel) :
                 cat[a].mtime <= cat[b].mtime
<1> DEFINE s == Oldest(cat, SafeRuns(cat))
<1>1. SafeRuns(cat) \in SUBSET (DOMAIN cat)
  BY DEF SafeRuns
<1>2. /\ s \in Seq(SafeRuns(cat)) /\ Range(s) = SafeRuns(cat)
      /\ \A i, j \in 1 .. Len(s) : i < j => Before(cat, s[i], s[j])
  BY <1>1, OldestOrders
<1>3. PICK n \in 0 .. Len(s) :
         /\ Chosen(cat) = SubSeq(s, 1, n)
         /\ \A i \in 1 .. Len(s) : Freed(cat, s, i - 1) < Total(cat) - Quota <=> i <= n
  BY PressureSelection
<1> HIDE DEF s
<1>4. s \in Seq(DOMAIN cat)
  BY <1>1, <1>2
<1>5. /\ sel \in Seq(SafeRuns(cat)) /\ Len(sel) = n /\ \A i \in 1 .. n : sel[i] = s[i]
      /\ Freed(cat, sel, n) = Freed(cat, s, n)
  BY <1>2, <1>3, PrefixFrees
<1>6. n # 0
  BY <1>5
<1>7. Total(cat) \in Nat /\ Quota \in Nat
  <2>1. Sizable(cat)
    BY CatalogTypes DEF Sizable
  <2> QED BY <2>1, TotalIsNat, GCAssumption
<1>8. Range(sel) = {s[i] : i \in 1 .. n} /\ Range(s) = {s[i] : i \in 1 .. Len(s)}
  BY <1>4, <1>5 DEF Range
<1>9. Range(sel) \subseteq SafeRuns(cat)
  BY <1>2, <1>8
<1>10. Total(cat) - Freed(cat, sel, Len(sel)) <= Quota \/ Range(sel) = SafeRuns(cat)
  <2>1. CASE n = Len(s)
    BY <1>2, <1>8, <2>1
  <2>2. CASE n # Len(s)
    <3>1. n + 1 \in 1 .. Len(s) /\ (n + 1) - 1 = n
      BY <2>2
    <3>2. ~(Freed(cat, s, n) < Total(cat) - Quota)
      BY <1>3, <3>1
    <3>3. Freed(cat, s, n) \in Nat
      BY <1>4, FreedMonotone
    <3> QED BY <1>5, <1>7, <3>2, <3>3
  <2> QED BY <2>1, <2>2
<1>11. Total(cat) - Freed(cat, sel, Len(sel)) + Size(cat[sel[Len(sel)]].files) > Quota
  <2>1. \A i, j \in 1 .. Len(s) : s[i] = s[j] => i = j
    BY <1>1, <1>2, <1>4, CatalogTypes DEF Before
  <2>2. n \in 1 .. Len(s) /\ sel[Len(sel)] = s[n]
    BY <1>5, <1>6
  <2>3. /\ Freed(cat, s, n - 1) \in Nat /\ Size(cat[s[n]].files) \in Nat
        /\ Freed(cat, s, n) = Freed(cat, s, n - 1) + Size(cat[s[n]].files)
    BY <1>4, <2>1, <2>2, FreedGrows
  <2>4. Freed(cat, s, n - 1) < Total(cat) - Quota
    BY <1>3, <2>2
  <2> QED BY <1>5, <1>7, <2>2, <2>3, <2>4
<1>12. ASSUME NEW a \in Range(sel), NEW b \in SafeRuns(cat) \ Range(sel)
       PROVE  cat[a].mtime <= cat[b].mtime
  <2>1. PICK i \in 1 .. n : a = s[i]
    BY <1>8
  <2>2. PICK j \in 1 .. Len(s) : b = s[j]
    BY <1>2, <1>8
  <2>3. i < j
    BY <1>8, <2>2
  <2>4. Before(cat, a, b)
    BY <1>2, <2>1, <2>2, <2>3
  <2>5. cat[a].mtime \in Int /\ cat[b].mtime \in Int
    BY <1>4, <2>1, <2>2, CatalogTypes
  <2> QED BY <2>4, <2>5 DEF Before
<1> QED BY <1>9, <1>10, <1>11, <1>12

\* Once the first of the selected runs are gone, the next one is selected again
\* (_revalidate_candidate plans anew from what is left).
LEMMA SelectedAgain ==
    ASSUME NEW cat, IsCatalog(cat), NEW sel, sel = Chosen(cat),
           NEW k \in 1 .. Len(sel),
           NEW rest, IsCatalog(rest),
           DOMAIN rest = DOMAIN cat \ {sel[i] : i \in 1 .. k - 1},
           \A r \in DOMAIN rest : rest[r] = cat[r]
    PROVE  sel[k] \in Range(Chosen(rest))
<1> DEFINE gone == {sel[i] : i \in 1 .. k - 1}
           a == [r \in gone |-> cat[r]]
<1>1. /\ sel \in Seq(DOMAIN cat) /\ Distinct(sel)
      /\ \A i \in 1 .. Len(sel) : SafeEligible(cat[sel[i]])
  BY SelectionIsSafe DEF Chosen
<1>2. sel[k] \in DOMAIN rest /\ rest[sel[k]] = cat[sel[k]]
  BY <1>1 DEF Distinct
<1>3. Sizable(cat) /\ Sizable(rest)
  BY CatalogTypes DEF Sizable
<1>4. /\ Total(cat) = Total(a) + Total(rest)
      /\ Total(cat) \in Nat /\ Total(a) \in Nat /\ Total(rest) \in Nat
  <2>1. gone \subseteq DOMAIN cat
    BY <1>1
  <2>2. Splits(cat, a, rest)
    BY <2>1 DEF Splits
  <2> HIDE DEF a
  <2>3. Sizable(a) /\ Total(cat) = Total(a) + Total(rest)
    BY <1>3, <2>2, TotalSplits
  <2> QED BY <1>3, <2>3, TotalIsNat
<1>5. Total(a) = Freed(cat, sel, k - 1)
  BY DEF Freed
<1> HIDE DEF a
<1>6. CASE Pressure(cat)
  <2> DEFINE s == Oldest(cat, SafeRuns(cat))
             t == Oldest(rest, SafeRuns(rest))
  <2>1. /\ SafeRuns(cat) \in SUBSET (DOMAIN cat) /\ SafeRuns(rest) \in SUBSET (DOMAIN rest)
        /\ sel[k] \in SafeRuns(rest) /\ SafeRuns(rest) \subseteq SafeRuns(cat)
    BY <1>1, <1>2 DEF SafeRuns
  <2>2. /\ s \in Seq(SafeRuns(cat)) /\ Range(s) = SafeRuns(cat)
        /\ \A i, j \in 1 .. Len(s) : i < j => Before(cat, s[i], s[j])
    BY <2>1, OldestOrders
  <2>3. /\ t \in Seq(SafeRuns(rest)) /\ Range(t) = SafeRuns(rest)
        /\ \A i, j \in 1 .. Len(t) : i < j => Before(rest, t[i], t[j])
    BY <2>1, OldestOrders
  <2>4. PICK n \in 0 .. Len(s) :
           /\ Chosen(cat) = SubSeq(s, 1, n)
           /\ \A i \in 1 .. Len(s) : Freed(cat, s, i - 1) < Total(cat) - Quota <=> i <= n
    BY <1>6, PressureSelection
  <2> HIDE DEF s, t
  <2>5. s \in Seq(DOMAIN cat) /\ t \in Seq(DOMAIN rest)
    BY <2>1, <2>2, <2>3
  <2>6. /\ Len(sel) = n /\ \A i \in 1 .. n : sel[i] = s[i]
        /\ Freed(cat, sel, k - 1) = Freed(cat, s, k - 1)
    BY <2>4, <2>5, PrefixFrees
  <2>7. Pressure(rest)
    <3>1. k \in 1 .. Len(s) /\ k <= n
      BY <2>6
    <3>2. Freed(cat, s, k - 1) < Total(cat) - Quota
      BY <2>4, <3>1
    <3> QED BY <1>4, <1>5, <2>6, <3>2, GCAssumption DEF Pressure
  <2>8. PICK m \in 0 .. Len(t) :
           /\ Chosen(rest) = SubSeq(t, 1, m)
           /\ \A i \in 1 .. Len(t) : Freed(rest, t, i - 1) < Total(rest) - Quota <=> i <= m
    BY <2>7, PressureSelection DEF t
  <2>9. PICK j \in 1 .. Len(t) : t[j] = sel[k]
    BY <2>1, <2>3 DEF Range
  <2>10. t[1] = sel[k]
    <3> SUFFICES ASSUME j # 1 PROVE FALSE
      BY <2>9
    <3>1. Before(rest, t[1], sel[k]) /\ t[1] \in SafeRuns(rest)
      <4>1. 1 \in 1 .. Len(t) /\ 1 < j
        BY <2>9
      <4> QED BY <2>3, <2>9, <4>1
    <3>2. Before(cat, t[1], sel[k])
      BY <1>2, <2>1, <3>1 DEF Before
    <3>3. PICK i \in 1 .. Len(s) : t[1] = s[i]
      <4>1. t[1] \in Range(s)
        BY <2>1, <2>2, <3>1
      <4>2. DOMAIN s = 1 .. Len(s)
        BY <2>5
      <4> QED BY <4>1, <4>2 DEF Range
    <3>4. i \notin 1 .. k - 1
      BY <2>1, <2>6, <3>1, <3>3
    <3>5. i = k \/ Before(cat, sel[k], t[1])
      <4>1. k \in 1 .. n /\ i \in 1 .. Len(s) /\ (i = k \/ k < i)
        BY <2>6, <3>3, <3>4
      <4>2. k \in 1 .. Len(s) /\ sel[k] = s[k]
        BY <2>6, <4>1
      <4> QED BY <2>2, <3>3, <4>1, <4>2
    <3>6. sel[k] \in DOMAIN cat /\ t[1] \in DOMAIN cat
      BY <2>1, <3>1
    <3>7. i # k
      <4>1. ~Before(cat, sel[k], sel[k])
        BY <3>6, CatalogTypes DEF Before
      <4> QED BY <2>6, <3>2, <3>3, <4>1
    <3>8. ~(Before(cat, t[1], sel[k]) /\ Before(cat, sel[k], t[1]))
      BY <3>6, CatalogTypes DEF Before
    <3> QED BY <3>2, <3>5, <3>7, <3>8
  <2>11. Freed(rest, t, 0) = 0
    <3>1. {t[i] : i \in 1 .. 0} = {}
      OBVIOUS
    <3>2. BytesOf([r \in {} |-> rest[r]]) = {}
      BY DEF BytesOf
    <3> QED BY <3>1, <3>2, FS_EmptySet DEF Freed, Total
  <2>12. 1 <= m
    <3>1. 0 < Total(rest) - Quota
      BY <1>4, <2>7, GCAssumption DEF Pressure
    <3>2. 1 \in 1 .. Len(t) /\ 1 - 1 = 0
      BY <2>9
    <3>3. Freed(rest, t, 1 - 1) < Total(rest) - Quota
      BY <2>11, <3>1, <3>2
    <3> QED BY <2>8, <3>2, <3>3
  <2>13. /\ SubSeq(t, 1, m) \in Seq(DOMAIN rest) /\ Len(SubSeq(t, 1, m)) = m
         /\ \A i \in 1 .. m : SubSeq(t, 1, m)[i] = t[i]
    BY <2>5, PrefixFrees
  <2>14. 1 \in DOMAIN Chosen(rest) /\ Chosen(rest)[1] = sel[k]
    BY <2>8, <2>10, <2>12, <2>13
  <2> QED BY <2>14 DEF Range
<1>7. CASE ~Pressure(cat)
  <2>1. ~Pressure(rest)
    BY <1>4, <1>7, GCAssumption DEF Pressure
  <2>2. sel = Oldest(cat, Due(cat)) /\ Chosen(rest) = Oldest(rest, Due(rest))
    BY <1>7, <2>1 DEF Chosen, Selected, Due
  <2>3. Due(cat) \in SUBSET (DOMAIN cat) /\ Due(rest) \in SUBSET (DOMAIN rest)
    BY DEF Due
  <2>4. sel \in Seq(Due(cat)) /\ Range(Chosen(rest)) = Due(rest)
    BY <2>2, <2>3, OldestOrders
  <2> QED BY <1>2, <2>4 DEF Due
<1> QED BY <1>6, <1>7

-----------------------------------------------------------------------------
(* The counts of the plan                                                  *)

LEMMA DisjointUnion ==
    ASSUME NEW S, NEW T, IsFiniteSet(S), IsFiniteSet(T), S \cap T = {}
    PROVE  /\ IsFiniteSet(S \cup T)
           /\ Cardinality(S) \in Nat /\ Cardinality(T) \in Nat
           /\ Cardinality(S \cup T) = Cardinality(S) + Cardinality(T)
<1>1. Cardinality(S) \in Nat /\ Cardinality(T) \in Nat /\ Cardinality(S \cap T) = 0
  BY FS_CardinalityType, FS_EmptySet
<1>2. IsFiniteSet(S \cup T) /\ Cardinality(S \cup T) = Cardinality(S) + Cardinality(T) - Cardinality(S \cap T)
  BY FS_Union
<1> QED BY <1>1, <1>2

LEMMA DistinctCount ==
    ASSUME NEW S, NEW s \in Seq(S), Distinct(s)
    PROVE  IsFiniteSet(Range(s)) /\ Cardinality(Range(s)) = Len(s)
<1>1. s \in Surjection(1 .. Len(s), Range(s)) /\ s \in Injection(1 .. Len(s), Range(s))
  BY DEF Surjection, Injection, IsInjective, Range, Distinct
<1>2. IsFiniteSet(1 .. Len(s)) /\ Cardinality(1 .. Len(s)) = Len(s)
  <2>1. /\ IsFiniteSet(1 .. Len(s))
        /\ Cardinality(1 .. Len(s)) = IF 1 > Len(s) THEN 0 ELSE Len(s) - 1 + 1
    BY FS_Interval
  <2> QED BY <2>1
<1> QED BY <1>1, <1>2, FS_Surjection

NotDue(cat) == {r \in DOMAIN cat : Classify(cat[r]) # "GC_CANDIDATE"}

\* The plan counts every run once that is selected or not expired (build_dry_run):
\* the runs that get a receipt.
LEMMA PlanCounts ==
    ASSUME NEW cat, IsCatalog(cat), NEW complete \in BOOLEAN,
           NEW p, p = BuildPlan(cat, complete),
           NEW H, H = Range(p.selected) \cup NotDue(cat)
    PROVE  Cardinality(DOMAIN cat) - Cardinality(DOMAIN cat \ H)
             = p.protected + p.unknown + p.retained + Len(p.selected)
<1> DEFINE sel == p.selected
           A == {r \in DOMAIN cat : Classify(cat[r]) = "PROTECTED"}
           K == KeptUnselected(cat, Range(sel))
           U == {r \in K : cat[r].ref = "UNKNOWN"}
           R == {r \in K : cat[r].ref # "UNKNOWN"}
<1>1. /\ sel = Selected(cat, complete) /\ p.protected = Cardinality(A)
      /\ p.unknown = Cardinality(U) /\ p.retained = Cardinality(R)
  BY DEF BuildPlan
<1>2. /\ sel \in Seq(DOMAIN cat) /\ Distinct(sel)
      /\ \A i \in 1 .. Len(sel) : SafeEligible(cat[sel[i]])
  BY <1>1, SelectionIsSafe
<1>3. Range(sel) \subseteq DOMAIN cat /\ \A r \in Range(sel) : SafeEligible(cat[r])
  BY <1>2 DEF Range
<1>4. /\ \A r \in DOMAIN cat : Classify(cat[r]) \in {"PROTECTED", "GC_CANDIDATE", "KEEP"}
      /\ \A r \in Range(sel) : Classify(cat[r]) # "PROTECTED"
  BY <1>3 DEF Classify, SafeEligible
<1>5. IsFiniteSet(Range(sel)) /\ Cardinality(Range(sel)) = Len(sel)
  BY <1>2, DistinctCount
<1> HIDE DEF sel
<1>6. /\ IsFiniteSet(DOMAIN cat)
      /\ IsFiniteSet(A) /\ IsFiniteSet(U) /\ IsFiniteSet(R)
  <2>1. A \in SUBSET (DOMAIN cat) /\ U \in SUBSET (DOMAIN cat) /\ R \in SUBSET (DOMAIN cat)
    BY DEF KeptUnselected
  <2> QED BY <2>1, CatalogTypes, FS_Subset
<1>7. /\ U \cap R = {} /\ A \cap (U \cup R) = {}
      /\ (A \cup (U \cup R)) \cap Range(sel) = {}
  BY <1>4 DEF KeptUnselected
<1>8. H = (A \cup (U \cup R)) \cup Range(sel) /\ H \subseteq DOMAIN cat
  <2>1. H \subseteq DOMAIN cat
    BY <1>3 DEF NotDue, sel
  <2>2. \A r \in DOMAIN cat : r \in H <=> r \in Range(sel) \/ Classify(cat[r]) # "GC_CANDIDATE"
    BY DEF NotDue, sel
  <2>3. \A r \in DOMAIN cat : r \in (U \cup R) <=> Classify(cat[r]) = "KEEP" /\ r \notin Range(sel)
    BY DEF KeptUnselected
  <2>4. A \subseteq DOMAIN cat /\ (U \cup R) \subseteq DOMAIN cat
    BY DEF KeptUnselected
  <2> QED BY <1>3, <1>4, <2>1, <2>2, <2>3, <2>4
<1> HIDE DEF A, U, R
<1>9. /\ IsFiniteSet(H)
      /\ Cardinality(A) \in Nat /\ Cardinality(U) \in Nat /\ Cardinality(R) \in Nat
      /\ Cardinality(H) = Cardinality(A) + (Cardinality(U) + Cardinality(R)) + Len(sel)
  <2>1. /\ IsFiniteSet(U \cup R) /\ Cardinality(U) \in Nat /\ Cardinality(R) \in Nat
        /\ Cardinality(U \cup R) = Cardinality(U) + Cardinality(R)
    BY <1>6, <1>7, DisjointUnion
  <2>2. /\ IsFiniteSet(A \cup (U \cup R)) /\ Cardinality(A) \in Nat
        /\ Cardinality(A \cup (U \cup R)) = Cardinality(A) + Cardinality(U \cup R)
    BY <1>6, <1>7, <2>1, DisjointUnion
  <2>3. /\ IsFiniteSet((A \cup (U \cup R)) \cup Range(sel))
        /\ Cardinality((A \cup (U \cup R)) \cup Range(sel))
             = Cardinality(A \cup (U \cup R)) + Cardinality(Range(sel))
    BY <1>5, <1>7, <2>2, DisjointUnion
  <2> QED BY <1>5, <1>8, <2>1, <2>2, <2>3
<1>10. /\ Cardinality(DOMAIN cat) \in Nat /\ Cardinality(H) \in Nat
       /\ Cardinality(DOMAIN cat \ H) = Cardinality(DOMAIN cat) - Cardinality(DOMAIN cat \cap H)
       /\ DOMAIN cat \cap H = H
  BY <1>6, <1>8, <1>9, FS_Difference, FS_CardinalityType
<1>11. Len(sel) \in Nat
  BY <1>2
<1>12. Cardinality(DOMAIN cat) - Cardinality(DOMAIN cat \ H) = Cardinality(H)
  BY <1>10
<1>13. Cardinality(H) = p.protected + p.unknown + p.retained + Len(sel)
  BY <1>1, <1>9, <1>11
<1> QED BY <1>12, <1>13 DEF sel

-----------------------------------------------------------------------------
(* What the invariant says of the plan and of the candidate being handled  *)

LEMMA Planned ==
    ASSUME TypeOK, PlanOfCatalog
    PROVE  /\ plan.selected \in Seq(DOMAIN catalog) /\ Distinct(plan.selected)
           /\ \A i \in 1 .. Len(plan.selected) : SafeEligible(catalog[plan.selected[i]])
           /\ plan.selected # <<>> => plan.selected = Chosen(catalog)
<1>1. CASE pc \in {"list", "census"}
  <2>1. plan.selected = <<>>
    BY <1>1 DEF PlanOfCatalog, NoPlan
  <2> QED BY <2>1 DEF Distinct
<1>2. CASE pc \notin {"list", "census"}
  <2>1. PICK complete \in BOOLEAN : plan = BuildPlan(catalog, complete)
    BY <1>2 DEF PlanOfCatalog
  <2>2. plan.selected = Selected(catalog, complete)
    BY <2>1 DEF BuildPlan
  <2>3. IsCatalog(catalog)
    BY DEF TypeOK
  <2>4. /\ Selected(catalog, complete) \in Seq(DOMAIN catalog)
        /\ Distinct(Selected(catalog, complete))
        /\ \A i \in 1 .. Len(Selected(catalog, complete)) :
              SafeEligible(catalog[Selected(catalog, complete)[i]])
        /\ Selected(catalog, complete) # <<>> => complete
    BY <2>3, SelectionIsSafe
  <2>5. complete => Selected(catalog, complete) = Chosen(catalog)
    BY DEF Chosen
  <2> QED BY <2>2, <2>4, <2>5
<1> QED BY <1>1, <1>2

LEMMA AtCandidate ==
    ASSUME TypeOK, PlanOfCatalog, pc \in Handling
    PROVE  /\ index \in 1 .. Len(plan.selected)
           /\ Candidate \in DOMAIN catalog /\ Candidate \in Runs
           /\ Candidate \notin SelectedBefore(index)
           /\ SafeEligible(catalog[Candidate])
           /\ plan.selected = Chosen(catalog) /\ ~dryRun
<1>1. ~dryRun /\ plan.selected # <<>>
  BY DEF PlanOfCatalog
<1>2. index \in 1 .. Len(plan.selected)
  BY <1>1 DEF TypeOK
<1>3. DOMAIN catalog \subseteq Runs
  BY DEF TypeOK, IsCatalog
<1> QED BY <1>1, <1>2, <1>3, Planned DEF Candidate, SelectedBefore, Distinct

LEMMA TriggerType ==
    ASSUME NEW cat, NEW r
    PROVE  Trigger(cat, r) \in Triggers
BY DEF Trigger, Triggers

\* Settle: one more receipt, of a run that had none; on to the next candidate.
LEMMA SettleKeeps ==
    ASSUME TypeOK, PlanOfCatalog, Bookkeeping, pc \in Handling,
           NEW result \in Results, Settle(result), UNCHANGED <<dryRun, catalog, plan>>,
           \/ history'.touched = history.touched /\ pc # "rmtree"
           \/ /\ history'.touched \subseteq history.touched \cup {Candidate}
              /\ result \in {"DELETED", "DELETE_FAILED"}
    PROVE  /\ PlanOfCatalog' /\ Bookkeeping'
           /\ pc' \in {"recheck", "report"} /\ receipts' \subseteq Receipts
           /\ index' \in 1 .. Len(plan.selected)
           /\ Removed' = Removed \cup {Candidate}
<1>1. /\ index \in 1 .. Len(plan.selected)
      /\ Candidate \in DOMAIN catalog /\ Candidate \in Runs
      /\ Candidate \notin SelectedBefore(index) /\ ~dryRun
  BY AtCandidate
<1>2. plan.selected \in Seq(DOMAIN catalog)
  BY Planned
<1>3. Len(plan.selected) \in Nat /\ plan.selected # <<>>
  BY <1>1, <1>2
<1> DEFINE c == Receipt(Candidate, result, Trigger(catalog, Candidate))
<1>4. receipts' = receipts \cup {c} /\ c.run = Candidate /\ c.result = result /\ c \in Receipts
  <2>1. Trigger(catalog, Candidate) \in Triggers
    BY TriggerType
  <2> QED BY <1>1, <2>1 DEF Settle, Receipt, Receipts
<1> HIDE DEF c
<1>5. \/ index < Len(plan.selected) /\ index' = index + 1 /\ pc' = "recheck"
      \/ index = Len(plan.selected) /\ index' = index /\ pc' = "report"
  BY <1>1, <1>3 DEF Settle, HasNext
<1>6. SelectedBefore(index + 1) = SelectedBefore(index) \cup {Candidate}
  BY <1>1 DEF SelectedBefore, Candidate
<1>7. index = Len(plan.selected) => Range(plan.selected) = SelectedBefore(index + 1)
  BY <1>1, <1>2 DEF SelectedBefore, Range
<1>8. Handled = SelectedBefore(index) /\ Handled' = Handled \cup {Candidate}
  BY <1>4 DEF Bookkeeping, Handled
<1>9. PlanOfCatalog'
  BY <1>1, <1>3, <1>5 DEF PlanOfCatalog, Handling
<1>10. Bookkeeping'
  <2>1. \A a, b \in receipts' : a.run = b.run => a = b
    BY <1>1, <1>4, <1>8 DEF Bookkeeping, Handled
  <2>2. (pc \in Handling => Handled = SelectedBefore(index))'
    BY <1>5, <1>6, <1>8 DEF SelectedBefore, Handling
  <2>3. (pc = "report" => Handled = Range(plan.selected))'
    BY <1>5, <1>6, <1>7, <1>8
  <2>4. ASSUME NEW r \in history'.touched
        PROVE  \E d \in receipts' : d.run = r /\ d.result \in {"DELETED", "DELETE_FAILED"}
    BY <1>4, <2>4 DEF Bookkeeping
  <2> QED BY <1>1, <1>5, <2>1, <2>2, <2>3, <2>4 DEF Bookkeeping
<1>11. Removed' = Removed \cup {Candidate}
  BY <1>5, <1>6, <1>7 DEF Removed, Handling, SelectedBefore
<1>12. receipts' \subseteq Receipts
  BY <1>4 DEF TypeOK
<1>13. index' \in 1 .. Len(plan.selected)
  BY <1>1, <1>3, <1>5
<1> QED BY <1>5, <1>9, <1>10, <1>11, <1>12, <1>13

\* Steps that settle nothing leave the plan and the receipts as they are.
LEMMA PlanFrame ==
    ASSUME PlanOfCatalog, Bookkeeping,
           UNCHANGED <<dryRun, catalog, plan, index, receipts>>,
           history'.touched = history.touched,
           \/ pc' = pc
           \/ pc \in Handling \ {"rmtree"} /\ pc' \in Handling
    PROVE  PlanOfCatalog' /\ Bookkeeping' /\ Candidate' = Candidate
<1>1. Handled' = Handled /\ SelectedBefore(index)' = SelectedBefore(index) /\ Candidate' = Candidate
  BY DEF Handled, SelectedBefore, Candidate
<1>2. PlanOfCatalog'
  BY DEF PlanOfCatalog, Handling
<1>3. (\A a, b \in receipts : a.run = b.run => a = b)'
  BY DEF Bookkeeping
<1>4. /\ (pc \in Handling => Handled = SelectedBefore(index))'
      /\ (pc = "report" => Handled = Range(plan.selected))'
      /\ (pc = "done" => Handled = Range(plan.selected) \cup
                           {r \in DOMAIN catalog : Classify(catalog[r]) # "GC_CANDIDATE"})'
  BY <1>1 DEF Bookkeeping, Handling
<1>5. (dryRun => history.touched = {})'
  BY DEF Bookkeeping
<1>6. (\A r \in history.touched :
          \/ pc = "rmtree" /\ r = Candidate
          \/ \E c \in receipts : c.run = r /\ c.result \in {"DELETED", "DELETE_FAILED"})'
  BY <1>1 DEF Bookkeeping
<1> QED BY <1>1, <1>2, <1>3, <1>4, <1>5, <1>6 DEF Bookkeeping

-----------------------------------------------------------------------------
(* The invariant holds initially                                           *)

LEMMA InitHolds == Init => IInv
<1> SUFFICES ASSUME Init PROVE IInv
  OBVIOUS
<1>1. PICK w \in InitialWorlds : /\ disk = w.disk /\ refs = w.refs
                               /\ scannable = w.scannable /\ edits = w.edits
  BY DEF Init
<1>2. /\ disk \in [Runs -> Directories \cup {Absent}] /\ refs \in [Runs -> Mentions]
      /\ scannable \in BOOLEAN /\ edits \in Nat
  BY <1>1, GCAssumption
<1>3. plan.selected = <<>> /\ index = 1 /\ DOMAIN fresh = {} /\ DOMAIN catalog = {}
  BY DEF Init, NoPlan
<1>4. TypeOK
  <2>1. IsCatalog(fresh) /\ IsCatalog(catalog)
    BY <1>3 DEF IsCatalog
  <2>2. Range(plan.selected) \subseteq DOMAIN catalog
    BY <1>3 DEF Range
  <2>3. history \in [touched : SUBSET Runs, taken : SUBSET Takings,
                    raced : BOOLEAN, quiet : BOOLEAN]
    BY DEF Init
  <2>4. index \in 1 .. (IF plan.selected = <<>> THEN 1 ELSE Len(plan.selected))
    BY <1>3
  <2> QED BY <1>2, <2>1, <2>2, <2>3, <2>4 DEF Init, TypeOK
<1>5. PlanOfCatalog
  BY DEF Init, PlanOfCatalog, Handling
<1>6. Bookkeeping
  BY DEF Init, Bookkeeping, Handling
<1>7. LastLook
  BY DEF Init, LastLook
<1>8. UnsafeRemovalOnlyIfRaced
  BY DEF Init, UnsafeRemovalOnlyIfRaced
<1>9. Undisturbed
  BY DEF Init, Undisturbed
<1> QED BY <1>4, <1>5, <1>6, <1>7, <1>8, <1>9 DEF IInv

-----------------------------------------------------------------------------
(* The collector reads: List, ReadRun, MakePlan                            *)

\* What one look at a run records is an entry of a catalog.
LEMMA ObservedEntry ==
    ASSUME TypeOK, NEW r \in Runs
    PROVE  /\ Observe(r) \in Entries
           /\ Files(r) \subseteq Kinds
           /\ disk[r] # Absent => disk[r] \in Directories
           /\ Observe(r).files = Files(r) /\ Observe(r).ref = Reference(r, scan)
<1>1. disk[r] = Absent \/ disk[r] \in Directories
  BY DEF TypeOK
<1>2. Files(r) \subseteq Kinds
  BY <1>1 DEF Files, Directories
<1>3. (IF disk[r] = Absent THEN Now ELSE disk[r].mtime) \in 0 .. Now
  BY <1>1, GCAssumption DEF Directories
<1>4. Reference(r, scan) \in {"UNKNOWN", "REFERENCED", "UNREFERENCED"}
  BY DEF Reference
<1> QED BY <1>1, <1>2, <1>3, <1>4 DEF Observe, Entries

LEMMA ListKeeps == IInv /\ List => IInv'
<1> SUFFICES ASSUME IInv, List PROVE IInv'
  OBVIOUS
<1>1. /\ TypeOK /\ PlanOfCatalog /\ Bookkeeping /\ LastLook
      /\ UnsafeRemovalOnlyIfRaced /\ Undisturbed
  BY DEF IInv
<1>2. /\ (pc = "list" /\ pc' = "census") \/ (pc = "relist" /\ pc' = "recensus")
      /\ UNCHANGED <<disk, refs, scannable, edits, dryRun, catalog, plan, index, doomed, receipts>>
      /\ todo' = {r \in Runs : disk[r] # Absent} /\ scan' = ScanResult /\ fresh' = <<>>
  <2>1. /\ pc \in {"list", "relist"}
        /\ pc' = IF pc = "list" THEN "census" ELSE "recensus"
    BY Zenon DEF List
  <2>4. /\ todo' = {r \in Runs : disk[r] # Absent} /\ scan' = ScanResult /\ fresh' = <<>>
    BY Zenon DEF List
  <2>2. UNCHANGED <<disk, refs, scannable, edits, dryRun, catalog, plan, index, doomed, receipts>>
    BY DEF List, world
  <2>3. (pc = "list" /\ pc' = "census") \/ (pc = "relist" /\ pc' = "recensus")
    BY <2>1
  <2> QED BY <2>2, <2>3, <2>4, Zenon
<1>0. errors' = ~scannable
  BY Zenon DEF List
<1>3. /\ history' \in [touched : SUBSET Runs, taken : SUBSET Takings,
                       raced : BOOLEAN, quiet : BOOLEAN]
      /\ history'.touched = history.touched /\ history'.taken = history.taken
      /\ history'.quiet = history.quiet
  BY <1>1 DEF List, TypeOK
<1>4. DOMAIN fresh' = {}
  BY <1>2
<1>5. TypeOK'
  <2>1. ScanResult \in [complete : BOOLEAN, referenced : SUBSET Runs]
    BY <1>1 DEF ScanResult, TypeOK
  <2>2. IsCatalog(fresh')
    BY <1>4 DEF IsCatalog
  <2>3. pc' \in {"census", "recensus"} /\ todo' \subseteq Runs /\ errors' \in BOOLEAN
    BY <1>0, <1>1, <1>2 DEF TypeOK
  <2> QED BY <1>1, <1>2, <1>3, <2>1, <2>2, <2>3 DEF TypeOK
<1>6. PlanOfCatalog'
  BY <1>1, <1>2 DEF PlanOfCatalog, Handling
<1>7. Bookkeeping'
  <2>1. Handled' = Handled /\ SelectedBefore(index)' = SelectedBefore(index)
    BY <1>2 DEF Handled, SelectedBefore
  <2>2. \A r \in history.touched :
           \E c \in receipts : c.run = r /\ c.result \in {"DELETED", "DELETE_FAILED"}
    BY <1>1, <1>2 DEF Bookkeeping
  <2>3. (\A a, b \in receipts : a.run = b.run => a = b)'
    BY <1>1, <1>2 DEF Bookkeeping
  <2>4. (pc \in Handling => Handled = SelectedBefore(index))'
    BY <1>1, <1>2, <2>1 DEF Bookkeeping, Handling
  <2>5. (dryRun => history.touched = {})'
    BY <1>1, <1>2, <1>3 DEF Bookkeeping
  <2>6. (\A r \in history.touched :
           \E c \in receipts : c.run = r /\ c.result \in {"DELETED", "DELETE_FAILED"})'
    BY <1>2, <1>3, <2>2
  <2> QED BY <1>2, <2>3, <2>4, <2>5, <2>6 DEF Bookkeeping
<1>8. LastLook'
  <2>1. (Reference(Candidate, scan) = "UNREFERENCED" => refs[Candidate] # "text")'
        \/ pc' # "recensus"
    <3> SUFFICES ASSUME pc' = "recensus"
                 PROVE  Reference(Candidate, ScanResult) = "UNREFERENCED" => refs[Candidate] # "text"
      BY <1>2 DEF Candidate, Reference
    <3>1. Candidate \in Runs
      BY <1>1, <1>2, AtCandidate DEF Handling
    <3> QED BY <3>1 DEF Reference, ScanResult
  <2>2. (~errors => scan.complete)'
    BY <1>0, <1>2 DEF ScanResult
  <2> QED BY <1>2, <1>4, <2>1, <2>2 DEF LastLook
<1>9. UnsafeRemovalOnlyIfRaced'
  BY <1>1, <1>3 DEF UnsafeRemovalOnlyIfRaced
<1>10. Undisturbed'
  <2> SUFFICES ASSUME history.quiet PROVE Undisturbed'
    BY <1>3 DEF Undisturbed
  <2>1. scan' = ScanResult'
    BY <1>2 DEF ScanResult
  <2>2. (todo \cup DOMAIN fresh = Present)'
    BY <1>2, <1>4 DEF Present
  <2>3. pc' = "recensus" =>
           /\ pc \notin {"list", "census"} /\ ~dryRun
           /\ scan' = scan /\ Removed' = Removed /\ Present' = Present
    BY <1>1, <1>2 DEF PlanOfCatalog, Undisturbed, Handling, Removed, SelectedBefore, Present
  <2>4. pc' = "recensus" =>
           (/\ plan = BuildPlan(catalog, scannable)
            /\ Present = DOMAIN catalog \ Removed
            /\ \A r \in Present : catalog[r] = Observe(r) \/ (pc = "rmtree" /\ r = Candidate))'
    BY <1>1, <1>2, <2>3 DEF Undisturbed, Observe, Files
  <2> QED BY <1>0, <1>2, <1>4, <2>1, <2>2, <2>4 DEF Undisturbed
<1> QED BY <1>5, <1>6, <1>7, <1>8, <1>9, <1>10 DEF IInv

LEMMA ReadRunKeeps == IInv /\ ReadRun => IInv'
<1> SUFFICES ASSUME IInv, ReadRun PROVE IInv'
  OBVIOUS
<1>1. /\ TypeOK /\ PlanOfCatalog /\ Bookkeeping /\ LastLook
      /\ UnsafeRemovalOnlyIfRaced /\ Undisturbed
  BY DEF IInv
<1>2. /\ pc \in {"census", "recensus"}
      /\ UNCHANGED <<disk, refs, scannable, edits, pc, dryRun, scan, catalog, plan, index,
                     doomed, receipts, history>>
  BY DEF ReadRun, world
<1>3. PICK r \in todo : /\ fresh' = [x \in DOMAIN fresh \cup {r} |->
                                        IF x = r THEN Observe(r) ELSE fresh[x]]
                        /\ errors' = (errors \/ disk[r] = Absent)
                        /\ todo' = todo \ {r}
  BY Zenon DEF ReadRun
<1>4. r \in Runs /\ r \notin DOMAIN fresh
  BY <1>1 DEF TypeOK, LastLook
<1>5. /\ DOMAIN fresh' = DOMAIN fresh \cup {r} /\ fresh'[r] = Observe(r)
      /\ \A x \in DOMAIN fresh : fresh'[x] = fresh[x]
  BY <1>3, <1>4
<1>6. /\ Observe(r) \in Entries
      /\ Observe(r).files = Files(r) /\ Observe(r).ref = Reference(r, scan)
  BY <1>1, <1>4, ObservedEntry
<1>7. TypeOK'
  <2>1. IsCatalog(fresh')
    BY <1>1, <1>4, <1>5, <1>6 DEF TypeOK, IsCatalog
  <2>2. todo' \subseteq Runs
    BY <1>1, <1>3 DEF TypeOK
  <2>3. errors' \in BOOLEAN
    BY <1>3
  <2> QED BY <1>1, <1>2, <2>1, <2>2, <2>3 DEF TypeOK
<1>8. PlanOfCatalog' /\ Bookkeeping' /\ Candidate' = Candidate
  BY <1>1, <1>2, PlanFrame
<1>9. LastLook'
  <2>1. (todo \cap DOMAIN fresh = {})'
    BY <1>1, <1>3, <1>5 DEF LastLook
  <2>2. (pc \in {"census", "recensus"} => (~errors => scan.complete))'
    BY <1>1, <1>2, <1>3 DEF LastLook
  <2>3. ((pc = "recensus" /\ ~history.raced) =>
           /\ Candidate \in DOMAIN fresh =>
                 /\ fresh[Candidate].files = Files(Candidate)
                 /\ fresh[Candidate].ref = Reference(Candidate, scan)
           /\ Reference(Candidate, scan) = "UNREFERENCED" => refs[Candidate] # "text")'
    BY <1>1, <1>2, <1>5, <1>6, <1>8 DEF LastLook, Files, Reference
  <2> QED BY <1>2, <2>1, <2>2, <2>3 DEF LastLook
<1>10. UnsafeRemovalOnlyIfRaced'
  BY <1>1, <1>2 DEF UnsafeRemovalOnlyIfRaced
<1>11. Undisturbed'
  <2> SUFFICES ASSUME history.quiet PROVE Undisturbed'
    BY <1>2 DEF Undisturbed
  <2>1. /\ scan = ScanResult /\ errors = ~scannable /\ todo \cup DOMAIN fresh = Present
        /\ \A x \in DOMAIN fresh : fresh[x] = Observe(x)
    BY <1>1, <1>2 DEF Undisturbed
  <2>2. /\ ScanResult' = ScanResult /\ Present' = Present /\ Removed' = Removed
        /\ \A x : Observe(x)' = Observe(x)
    BY <1>2 DEF ScanResult, Present, Removed, SelectedBefore, Observe, Files, Reference
  <2>3. disk[r] # Absent
    BY <2>1 DEF Present
  <2>4. errors' = ~scannable'
    BY <1>2, <1>3, <2>1, <2>3
  <2>5. (todo \cup DOMAIN fresh = Present)'
    BY <1>3, <1>5, <2>1, <2>2
  <2>6. (\A x \in DOMAIN fresh : fresh[x] = Observe(x))'
    BY <1>5, <2>1, <2>2
  <2>7. (pc \notin {"list", "census"} /\ ~dryRun) =>
           (/\ plan = BuildPlan(catalog, scannable)
            /\ Present = DOMAIN catalog \ Removed
            /\ \A x \in Present : catalog[x] = Observe(x) \/ (pc = "rmtree" /\ x = Candidate))'
    BY <1>1, <1>2, <2>2 DEF Undisturbed
  <2> QED BY <1>2, <2>1, <2>2, <2>4, <2>5, <2>6, <2>7 DEF Undisturbed
<1> QED BY <1>7, <1>8, <1>9, <1>10, <1>11 DEF IInv

LEMMA MakePlanKeeps == IInv /\ MakePlan => IInv'
<1> SUFFICES ASSUME IInv, MakePlan PROVE IInv'
  OBVIOUS
<1>1. /\ TypeOK /\ PlanOfCatalog /\ Bookkeeping /\ LastLook
      /\ UnsafeRemovalOnlyIfRaced /\ Undisturbed
  BY DEF IInv
<1>2. /\ pc = "census" /\ todo = {} /\ catalog' = fresh
      /\ UNCHANGED <<disk, refs, scannable, edits, dryRun, scan, todo, fresh, errors, index,
                     doomed, history>>
  BY DEF MakePlan, world, census
<1>3. plan' = BuildPlan(fresh, ~errors)
  BY Zenon DEF MakePlan
<1> DEFINE sel == plan'.selected
           made == {Receipt(r, "DRY_RUN", Trigger(fresh, r)) : r \in Range(sel)}
<1>4. \/ (dryRun \/ sel = <<>>) /\ receipts' = made /\ pc' = "report"
      \/ ~dryRun /\ sel # <<>> /\ pc' = "recheck" /\ UNCHANGED receipts
  BY Zenon DEF MakePlan
<1>5. IsCatalog(fresh) /\ (~errors) \in BOOLEAN
  BY <1>1 DEF TypeOK
<1>6. sel \in Seq(DOMAIN fresh)
  <2>1. sel = Selected(fresh, ~errors)
    BY <1>3 DEF BuildPlan
  <2>2. Selected(fresh, ~errors) \in Seq(DOMAIN fresh)
    BY <1>5, SelectionIsSafe
  <2> QED BY <2>1, <2>2, Zenon
<1>7. index = 1 /\ receipts = {} /\ history.touched = {}
  BY <1>1, <1>2 DEF PlanOfCatalog, Bookkeeping
<1> HIDE DEF sel, made
<1>8. Range(sel) \subseteq DOMAIN fresh /\ DOMAIN fresh \subseteq Runs
  BY <1>5, <1>6 DEF Range, IsCatalog
<1>9. /\ made \subseteq Receipts /\ {c.run : c \in made} = Range(sel)
      /\ \A a, b \in made : a.run = b.run => a = b
  <2>1. \A r : /\ Receipt(r, "DRY_RUN", Trigger(fresh, r)).run = r
               /\ r \in Runs => Receipt(r, "DRY_RUN", Trigger(fresh, r)) \in Receipts
    BY TriggerType DEF Receipt, Receipts, Results
  <2> QED BY <1>8, <2>1 DEF made
<1>10. TypeOK'
  <2>1. IsCatalog(catalog') /\ Range(plan'.selected) \subseteq DOMAIN catalog'
    BY <1>2, <1>5, <1>8 DEF sel
  <2>2. index' \in 1 .. (IF plan'.selected = <<>> THEN 1 ELSE Len(plan'.selected))
    <3>1. CASE sel = <<>>
      BY <1>2, <1>7, <3>1 DEF sel
    <3>2. CASE sel # <<>>
      <4>1. Len(sel) \in Nat \ {0}
        BY <1>6, <3>2
      <4> QED BY <1>2, <1>7, <3>2, <4>1 DEF sel
    <3> QED BY <3>1, <3>2
  <2>3. receipts' \subseteq Receipts
    BY <1>1, <1>4, <1>9 DEF TypeOK
  <2> QED BY <1>1, <1>2, <1>4, <2>1, <2>2, <2>3 DEF TypeOK
<1>11. PlanOfCatalog'
  <2>1. (\E complete \in BOOLEAN : plan = BuildPlan(catalog, complete))'
    BY <1>2, <1>3, <1>5
  <2> QED BY <1>2, <1>4, <2>1 DEF PlanOfCatalog, Handling, sel
<1>12. Bookkeeping'
  <2>1. (\A a, b \in receipts : a.run = b.run => a = b)'
    BY <1>4, <1>7, <1>9
  <2>2. pc' = "report" => Handled' = Range(sel)
    BY <1>4, <1>9 DEF Handled
  <2>3. pc' = "recheck" => Handled' = {} /\ SelectedBefore(index)' = {}
    BY <1>2, <1>4, <1>7 DEF Handled, SelectedBefore
  <2>4. history'.touched = {}
    BY <1>2, <1>7
  <2> QED BY <1>4, <2>1, <2>2, <2>3, <2>4 DEF Bookkeeping, Handling, sel
<1>13. LastLook'
  BY <1>1, <1>2, <1>4 DEF LastLook
<1>14. UnsafeRemovalOnlyIfRaced'
  BY <1>1, <1>2 DEF UnsafeRemovalOnlyIfRaced
<1>15. Undisturbed'
  <2> SUFFICES ASSUME history.quiet PROVE Undisturbed'
    BY <1>2 DEF Undisturbed
  <2>1. /\ scan = ScanResult /\ errors = ~scannable /\ DOMAIN fresh = Present
        /\ \A x \in DOMAIN fresh : fresh[x] = Observe(x)
    BY <1>1, <1>2 DEF Undisturbed
  <2>2. /\ ScanResult' = ScanResult /\ Present' = Present
        /\ \A x : Observe(x)' = Observe(x)
    BY <1>2 DEF ScanResult, Present, Observe, Files, Reference
  <2>3. plan' = BuildPlan(catalog, scannable)'
    <3>1. scannable = ~errors
      BY <1>1, <2>1 DEF TypeOK
    <3>2. plan' = BuildPlan(fresh, scannable)
      BY <1>3, <3>1
    <3> QED BY <1>2, <3>2
  <2>4. ~dryRun => Removed' = {}
    <3>1. pc' = "recheck" => SelectedBefore(index)' = {}
      BY <1>2, <1>7 DEF SelectedBefore
    <3>2. sel = <<>> => Range(sel) = {}
      BY DEF Range
    <3> QED BY <1>4, <3>1, <3>2 DEF Removed, Handling, sel
  <2>5. ~dryRun => (Present = DOMAIN catalog \ Removed)'
    BY <1>2, <2>1, <2>2, <2>4
  <2>6. (\A x \in Present : catalog[x] = Observe(x))'
    BY <1>2, <2>1, <2>2
  <2> QED BY <1>2, <1>4, <2>1, <2>2, <2>3, <2>5, <2>6 DEF Undisturbed
<1> QED BY <1>10, <1>11, <1>12, <1>13, <1>14, <1>15 DEF IInv

-----------------------------------------------------------------------------
(* The collector revalidates: Recheck, Reselect                            *)

\* A step that settles a candidate keeps all but what is said of a quiet run.
LEMMA SettleFrame ==
    ASSUME IInv, pc \in Handling,
           NEW result \in Results, Settle(result),
           UNCHANGED <<refs, scannable, edits, dryRun, scan, todo, fresh, errors, catalog, plan>>,
           disk' \in [Runs -> Directories \cup {Absent}], doomed' \subseteq Kinds,
           history' \in [touched : SUBSET Runs, taken : SUBSET Takings,
                         raced : BOOLEAN, quiet : BOOLEAN],
           history'.taken = history.taken,
           \/ history'.touched = history.touched /\ pc # "rmtree"
           \/ /\ history'.touched \subseteq history.touched \cup {Candidate}
              /\ result \in {"DELETED", "DELETE_FAILED"}
    PROVE  /\ TypeOK' /\ PlanOfCatalog' /\ Bookkeeping' /\ LastLook'
           /\ UnsafeRemovalOnlyIfRaced'
           /\ pc' \in {"recheck", "report"} /\ Removed' = Removed \cup {Candidate}
<1>1. TypeOK /\ PlanOfCatalog /\ Bookkeeping /\ LastLook /\ UnsafeRemovalOnlyIfRaced
  BY DEF IInv
<1>2. /\ PlanOfCatalog' /\ Bookkeeping'
      /\ pc' \in {"recheck", "report"} /\ receipts' \subseteq Receipts
      /\ index' \in 1 .. Len(plan.selected)
      /\ Removed' = Removed \cup {Candidate}
  BY <1>1, SettleKeeps
<1>3. plan.selected # <<>>
  BY <1>1 DEF PlanOfCatalog
<1>4. TypeOK'
  BY <1>1, <1>2, <1>3 DEF TypeOK
<1>5. LastLook'
  BY <1>1, <1>2 DEF LastLook
<1>6. UnsafeRemovalOnlyIfRaced'
  BY <1>1 DEF UnsafeRemovalOnlyIfRaced
<1> QED BY <1>2, <1>4, <1>5, <1>6

\* In a quiet collection the candidate is there, and as the plan has it.
LEMMA QuietCandidate ==
    ASSUME IInv, pc \in Handling \ {"rmtree"}, history.quiet
    PROVE  /\ disk[Candidate] # Absent
           /\ SafeEligible(Observe(Candidate))
           /\ scan = ScanResult
<1>1. TypeOK /\ PlanOfCatalog /\ Undisturbed
  BY DEF IInv
<1>2. /\ Candidate \in DOMAIN catalog /\ Candidate \notin SelectedBefore(index)
      /\ SafeEligible(catalog[Candidate]) /\ ~dryRun
  BY <1>1, AtCandidate
<1>3. Removed = SelectedBefore(index)
  BY DEF Removed
<1>4. /\ scan = ScanResult /\ Present = DOMAIN catalog \ Removed
      /\ \A r \in Present : catalog[r] = Observe(r)
  BY <1>1, <1>2 DEF Undisturbed, Handling
<1>5. Candidate \in Present
  BY <1>2, <1>3, <1>4
<1> QED BY <1>2, <1>4, <1>5 DEF Present

\* From one station of a candidate to the next nothing changes but the station.
LEMMA StationFrame ==
    ASSUME IInv, pc \in Handling \ {"rmtree"}, pc' \in Handling \ {"recensus"},
           UNCHANGED <<disk, refs, scannable, dryRun, scan, todo, fresh, errors, catalog, plan,
                       index, receipts>>,
           history'.touched = history.touched, history'.quiet = history.quiet
    PROVE  PlanOfCatalog' /\ Bookkeeping' /\ Candidate' = Candidate /\ Undisturbed'
<1>1. TypeOK /\ PlanOfCatalog /\ Bookkeeping /\ Undisturbed
  BY DEF IInv
<1>2. PlanOfCatalog' /\ Bookkeeping' /\ Candidate' = Candidate
  BY <1>1, PlanFrame
<1>3. ~dryRun
  BY <1>1, AtCandidate
<1>4. Undisturbed'
  <2> SUFFICES ASSUME history.quiet PROVE Undisturbed'
    BY DEF Undisturbed
  <2>1. /\ ScanResult' = ScanResult /\ Present' = Present /\ Removed' = Removed
        /\ \A x : Observe(x)' = Observe(x)
    BY DEF ScanResult, Present, Removed, SelectedBefore, Observe, Files, Reference
  <2>2. /\ scan = ScanResult /\ plan = BuildPlan(catalog, scannable)
        /\ Present = DOMAIN catalog \ Removed
        /\ \A x \in Present : catalog[x] = Observe(x)
    BY <1>1, <1>3 DEF Undisturbed, Handling
  <2>3. pc' \notin {"list", "census", "recensus"}
    BY DEF Handling
  <2> QED BY <2>1, <2>2, <2>3 DEF Undisturbed
<1> QED BY <1>2, <1>4

LEMMA RecheckKeeps == IInv /\ Recheck => IInv'
<1> SUFFICES ASSUME IInv, Recheck PROVE IInv'
  OBVIOUS
<1>1. /\ TypeOK /\ PlanOfCatalog /\ Bookkeeping /\ LastLook
      /\ UnsafeRemovalOnlyIfRaced /\ Undisturbed
  BY DEF IInv
<1>2. /\ pc = "recheck" /\ pc \in Handling
      /\ UNCHANGED <<disk, refs, scannable, edits, dryRun, scan, todo, fresh, errors, catalog,
                     plan, doomed, history>>
  BY DEF Recheck, world, census, Handling
<1> DEFINE ok == /\ Status(Files(Candidate)) \notin {"ACTIVE", "RUNNING", "INCOMPLETE"}
                 /\ Guards(Files(Candidate)) = {}
                 /\ Reference(Candidate, ScanResult) = "UNREFERENCED"
<1>3. CASE pc' = "relist" /\ UNCHANGED <<receipts, index>>
  <2>1. PlanOfCatalog' /\ Bookkeeping' /\ Undisturbed'
    BY <1>2, <1>3, StationFrame DEF Handling
  <2>2. TypeOK'
    BY <1>1, <1>2, <1>3 DEF TypeOK
  <2>3. LastLook' /\ UnsafeRemovalOnlyIfRaced'
    BY <1>1, <1>2, <1>3 DEF LastLook, UnsafeRemovalOnlyIfRaced
  <2> QED BY <2>1, <2>2, <2>3 DEF IInv
<1>4. CASE ~ok /\ Settle("SKIPPED_REVALIDATION_CHANGED")
  <2>1. "SKIPPED_REVALIDATION_CHANGED" \in Results
    BY DEF Results
  <2>2. /\ TypeOK' /\ PlanOfCatalog' /\ Bookkeeping' /\ LastLook'
        /\ UnsafeRemovalOnlyIfRaced'
    BY <1>1, <1>2, <1>4, <2>1, SettleFrame DEF TypeOK
  <2>3. ~history.quiet
    <3> SUFFICES ASSUME history.quiet PROVE ok
      BY <1>4
    <3>1. SafeEligible(Observe(Candidate)) /\ scan = ScanResult
      BY <1>2, QuietCandidate
    <3> QED BY <3>1 DEF SafeEligible, Observe
  <2>4. Undisturbed'
    BY <1>2, <2>3 DEF Undisturbed
  <2> QED BY <2>2, <2>4 DEF IInv
<1> QED BY <1>3, <1>4 DEF Recheck

LEMMA ReselectKeeps == IInv /\ Reselect => IInv'
<1> SUFFICES ASSUME IInv, Reselect PROVE IInv'
  OBVIOUS
<1>1. /\ TypeOK /\ PlanOfCatalog /\ Bookkeeping /\ LastLook
      /\ UnsafeRemovalOnlyIfRaced /\ Undisturbed
  BY DEF IInv
<1>2. /\ pc = "recensus" /\ pc \in Handling /\ todo = {}
      /\ UNCHANGED <<disk, refs, scannable, edits, dryRun, scan, todo, fresh, errors, catalog,
                     plan, doomed, history>>
  BY DEF Reselect, world, census, Handling
<1>3. IsCatalog(fresh) /\ IsCatalog(catalog)
  BY <1>1 DEF TypeOK
<1>4. CASE StillSelected /\ pc' = "remove" /\ UNCHANGED <<receipts, index>>
  <2>1. PlanOfCatalog' /\ Bookkeeping' /\ Undisturbed' /\ Candidate' = Candidate
    BY <1>2, <1>4, StationFrame DEF Handling
  <2>2. TypeOK'
    BY <1>1, <1>2, <1>4 DEF TypeOK
  <2>3. /\ Candidate \in DOMAIN fresh /\ SafeEligible(fresh[Candidate])
    <3> DEFINE again == Selected(fresh, ~errors)
    <3>1. /\ again \in Seq(DOMAIN fresh)
          /\ \A i \in 1 .. Len(again) : SafeEligible(fresh[again[i]])
      BY <1>3, SelectionIsSafe
    <3>2. Candidate \in Range(again)
      BY <1>4, Zenon DEF StillSelected
    <3> HIDE DEF again
    <3> QED BY <3>1, <3>2 DEF Range
  <2>4. ~history.raced =>
           /\ Status(Files(Candidate)) = "COMPLETE" /\ Guards(Files(Candidate)) = {}
           /\ refs[Candidate] # "text"
    BY <1>1, <1>2, <2>3 DEF LastLook, SafeEligible
  <2>5. LastLook'
    BY <1>1, <1>2, <1>4, <2>1, <2>4 DEF LastLook, Files
  <2>6. UnsafeRemovalOnlyIfRaced'
    BY <1>1, <1>2 DEF UnsafeRemovalOnlyIfRaced
  <2> QED BY <2>1, <2>2, <2>5, <2>6 DEF IInv
<1>5. CASE ~StillSelected /\ Settle("SKIPPED_REVALIDATION_CHANGED")
  <2>1. "SKIPPED_REVALIDATION_CHANGED" \in Results
    BY DEF Results
  <2>2. /\ TypeOK' /\ PlanOfCatalog' /\ Bookkeeping' /\ LastLook'
        /\ UnsafeRemovalOnlyIfRaced'
    BY <1>1, <1>2, <1>5, <2>1, SettleFrame DEF TypeOK
  <2>3. ~history.quiet
    <3> SUFFICES ASSUME history.quiet PROVE StillSelected
      BY <1>5
    <3>1. /\ index \in 1 .. Len(plan.selected) /\ ~dryRun
          /\ plan.selected = Chosen(catalog) /\ plan.selected # <<>>
      BY <1>1, <1>2, AtCandidate DEF PlanOfCatalog
    <3>2. /\ errors = ~scannable /\ DOMAIN fresh = Present
          /\ \A r \in DOMAIN fresh : fresh[r] = Observe(r)
          /\ plan = BuildPlan(catalog, scannable)
          /\ Present = DOMAIN catalog \ Removed
          /\ \A r \in Present : catalog[r] = Observe(r)
      BY <1>1, <1>2, <3>1 DEF Undisturbed
    <3>3. Removed = {plan.selected[i] : i \in 1 .. index - 1}
      BY <1>2 DEF Removed, SelectedBefore
    <3>4. plan.selected[index] \in Range(Chosen(fresh))
      BY <1>3, <3>1, <3>2, <3>3, SelectedAgain
    <3>5. scannable
      <4>1. plan.selected = Selected(catalog, scannable)
        BY <3>2 DEF BuildPlan
      <4>2. scannable \in BOOLEAN
        BY <1>1 DEF TypeOK
      <4> QED BY <1>3, <3>1, <4>1, <4>2, SelectionIsSafe
    <3>6. Selected(fresh, ~errors) = Chosen(fresh)
      <4>1. (~errors) = TRUE
        BY <3>2, <3>5
      <4> QED BY <4>1, Zenon DEF Chosen
    <3> QED BY <3>4, <3>6, Zenon DEF StillSelected, Candidate
  <2>4. Undisturbed'
    BY <1>2, <2>3 DEF Undisturbed
  <2> QED BY <2>2, <2>4 DEF IInv
<1> QED BY <1>4, <1>5 DEF Reselect

-----------------------------------------------------------------------------
(* The collector removes: BeginRemoval, Unlink, RemoveDirectory,           *)
(* RemoveFails, Report                                                     *)

LEMMA BeginRemovalKeeps == IInv /\ BeginRemoval => IInv'
<1> SUFFICES ASSUME IInv, BeginRemoval PROVE IInv'
  OBVIOUS
<1>1. /\ TypeOK /\ PlanOfCatalog /\ Bookkeeping /\ LastLook
      /\ UnsafeRemovalOnlyIfRaced /\ Undisturbed
  BY DEF IInv
<1>2. /\ pc = "remove" /\ pc \in Handling
      /\ UNCHANGED <<disk, refs, scannable, edits, dryRun, scan, todo, fresh, errors, catalog, plan>>
  BY DEF BeginRemoval, world, census, Handling
<1>3. Candidate \in Runs
  BY <1>1, <1>2, AtCandidate
<1>4. CASE disk[Candidate] = Absent /\ Settle("DELETE_FAILED") /\ UNCHANGED <<doomed, history>>
  <2>1. "DELETE_FAILED" \in Results
    BY DEF Results
  <2>2. /\ TypeOK' /\ PlanOfCatalog' /\ Bookkeeping' /\ LastLook'
        /\ UnsafeRemovalOnlyIfRaced'
    BY <1>1, <1>2, <1>4, <2>1, SettleFrame DEF TypeOK
  <2>3. ~history.quiet
    BY <1>2, <1>4, QuietCandidate
  <2>4. Undisturbed'
    BY <1>4, <2>3 DEF Undisturbed
  <2> QED BY <2>2, <2>4 DEF IInv
<1> DEFINE t == [run |-> Candidate, dir |-> disk[Candidate], ref |-> refs[Candidate],
                 raced |-> history.raced]
<1>5. CASE /\ disk[Candidate] # Absent /\ doomed' = disk[Candidate].files
           /\ history' = [history EXCEPT !.taken = @ \cup {t}]
           /\ pc' = "rmtree" /\ UNCHANGED <<receipts, index>>
  <2>1. disk[Candidate] \in Directories /\ Files(Candidate) = disk[Candidate].files
    BY <1>1, <1>3, <1>5, ObservedEntry DEF Files
  <2>2. t \in Takings
    BY <1>1, <1>3, <2>1 DEF Takings, TypeOK
  <2>3. /\ t.raced = history.raced /\ t.ref = refs[Candidate] /\ t.dir.files = Files(Candidate)
    BY <2>1
  <2> HIDE DEF t
  <2>4. /\ history' \in [touched : SUBSET Runs, taken : SUBSET Takings,
                         raced : BOOLEAN, quiet : BOOLEAN]
        /\ history'.touched = history.touched /\ history'.quiet = history.quiet
        /\ history'.taken = history.taken \cup {t}
    BY <1>1, <1>5, <2>2 DEF TypeOK
  <2>5. PlanOfCatalog' /\ Bookkeeping' /\ Undisturbed'
    BY <1>2, <1>5, <2>4, StationFrame DEF Handling
  <2>6. doomed' \subseteq Kinds
    BY <1>5, <2>1 DEF Directories
  <2>7. TypeOK'
    BY <1>1, <1>2, <1>5, <2>4, <2>6 DEF TypeOK
  <2>8. LastLook'
    BY <1>1, <1>2, <1>5 DEF LastLook
  <2>9. UnsafeRemovalOnlyIfRaced'
    <3>1. \/ t.raced
          \/ /\ Status(t.dir.files) = "COMPLETE" /\ Guards(t.dir.files) = {}
             /\ t.ref # "text"
      BY <1>1, <1>2, <2>3 DEF LastLook
    <3> QED BY <1>1, <2>4, <3>1 DEF UnsafeRemovalOnlyIfRaced
  <2> QED BY <2>5, <2>7, <2>8, <2>9 DEF IInv
<1> QED BY <1>4, <1>5 DEF BeginRemoval

LEMMA UnlinkKeeps == IInv /\ Unlink => IInv'
<1> SUFFICES ASSUME IInv, Unlink PROVE IInv'
  OBVIOUS
<1>1. /\ TypeOK /\ PlanOfCatalog /\ Bookkeeping /\ LastLook
      /\ UnsafeRemovalOnlyIfRaced /\ Undisturbed
  BY DEF IInv
<1>2. /\ pc = "rmtree" /\ pc \in Handling
      /\ history' = [history EXCEPT !.touched = @ \cup {Candidate}]
      /\ UNCHANGED <<refs, scannable, edits, pc, dryRun, scan, todo, fresh, errors, catalog,
                     plan, index, receipts>>
  BY DEF Unlink, census, Handling
<1>3. PICK k \in doomed :
         /\ disk' = IF disk[Candidate] = Absent THEN disk
                    ELSE [disk EXCEPT ![Candidate] = [files |-> Files(Candidate) \ {k}, mtime |-> Now]]
         /\ doomed' = doomed \ {k}
  BY DEF Unlink
<1>4. Candidate \in Runs /\ ~dryRun
  BY <1>1, <1>2, AtCandidate
<1>5. /\ history' \in [touched : SUBSET Runs, taken : SUBSET Takings,
                       raced : BOOLEAN, quiet : BOOLEAN]
      /\ history'.touched = history.touched \cup {Candidate}
      /\ history'.taken = history.taken /\ history'.quiet = history.quiet
  BY <1>1, <1>2, <1>4 DEF TypeOK
<1>6. [files |-> Files(Candidate) \ {k}, mtime |-> Now] \in Directories
  <2>1. Files(Candidate) \subseteq Kinds /\ Now \in 0 .. Now
    BY <1>1, <1>4, ObservedEntry, GCAssumption
  <2> QED BY <2>1 DEF Directories
<1>7. /\ disk' \in [Runs -> Directories \cup {Absent}]
      /\ \A r \in Runs : disk'[r] = Absent <=> disk[r] = Absent
      /\ \A r \in Runs \ {Candidate} : disk'[r] = disk[r]
  BY <1>1, <1>3, <1>4, <1>6, GCAssumption DEF TypeOK
<1>8. doomed' \subseteq Kinds
  BY <1>1, <1>3 DEF TypeOK
<1>9. TypeOK'
  BY <1>1, <1>2, <1>5, <1>7, <1>8 DEF TypeOK
<1>10. Candidate' = Candidate /\ SelectedBefore(index)' = SelectedBefore(index) /\ Handled' = Handled
  BY <1>2 DEF Candidate, SelectedBefore, Handled
<1>11. PlanOfCatalog'
  BY <1>1, <1>2 DEF PlanOfCatalog
<1>12. Bookkeeping'
  <2>1. (\A r \in history.touched :
            \/ pc = "rmtree" /\ r = Candidate
            \/ \E c \in receipts : c.run = r /\ c.result \in {"DELETED", "DELETE_FAILED"})'
    BY <1>1, <1>2, <1>5, <1>10 DEF Bookkeeping
  <2> QED BY <1>1, <1>2, <1>4, <1>10, <2>1 DEF Bookkeeping
<1>13. LastLook'
  BY <1>1, <1>2 DEF LastLook
<1>14. UnsafeRemovalOnlyIfRaced'
  BY <1>1, <1>5 DEF UnsafeRemovalOnlyIfRaced
<1>15. Undisturbed'
  <2> SUFFICES ASSUME history.quiet PROVE Undisturbed'
    BY <1>5 DEF Undisturbed
  <2>1. /\ scan = ScanResult /\ plan = BuildPlan(catalog, scannable)
        /\ Present = DOMAIN catalog \ Removed
        /\ \A x \in Present : catalog[x] = Observe(x) \/ x = Candidate
    BY <1>1, <1>2, <1>4 DEF Undisturbed
  <2>2. /\ ScanResult' = ScanResult /\ Present' = Present /\ Removed' = Removed
        /\ \A x \in Runs \ {Candidate} : Observe(x)' = Observe(x)
    BY <1>2, <1>7, <1>10 DEF ScanResult, Present, Removed, Observe, Files, Reference
  <2>3. (\A x \in Present : catalog[x] = Observe(x) \/ (pc = "rmtree" /\ x = Candidate))'
    BY <1>2, <1>10, <2>1, <2>2 DEF Present
  <2> QED BY <1>2, <2>1, <2>2, <2>3 DEF Undisturbed
<1> QED BY <1>9, <1>11, <1>12, <1>13, <1>14, <1>15 DEF IInv

LEMMA RemoveDirectoryKeeps == IInv /\ RemoveDirectory => IInv'
<1> SUFFICES ASSUME IInv, RemoveDirectory PROVE IInv'
  OBVIOUS
<1>1. TypeOK /\ PlanOfCatalog /\ Undisturbed
  BY DEF IInv
<1>2. /\ pc = "rmtree" /\ pc \in Handling /\ Settle("DELETED")
      /\ disk' = [disk EXCEPT ![Candidate] = Absent]
      /\ history' = [history EXCEPT !.touched = @ \cup {Candidate}]
      /\ UNCHANGED <<refs, scannable, edits, dryRun, scan, todo, fresh, errors, catalog, plan, doomed>>
  BY DEF RemoveDirectory, census, Handling
<1>3. Candidate \in Runs /\ ~dryRun
  BY <1>1, <1>2, AtCandidate
<1>4. /\ history' \in [touched : SUBSET Runs, taken : SUBSET Takings,
                       raced : BOOLEAN, quiet : BOOLEAN]
      /\ history'.touched = history.touched \cup {Candidate}
      /\ history'.taken = history.taken /\ history'.quiet = history.quiet
  BY <1>1, <1>2, <1>3 DEF TypeOK
<1>5. /\ disk' \in [Runs -> Directories \cup {Absent}]
      /\ disk'[Candidate] = Absent
      /\ \A r \in Runs \ {Candidate} : disk'[r] = disk[r]
  BY <1>1, <1>2, <1>3 DEF TypeOK
<1>6. "DELETED" \in Results /\ doomed' \subseteq Kinds
  BY <1>1, <1>2 DEF Results, TypeOK
<1>7. /\ TypeOK' /\ PlanOfCatalog' /\ Bookkeeping' /\ LastLook'
      /\ UnsafeRemovalOnlyIfRaced'
      /\ pc' \in {"recheck", "report"} /\ Removed' = Removed \cup {Candidate}
  BY <1>2, <1>4, <1>5, <1>6, SettleFrame
<1>8. Undisturbed'
  <2> SUFFICES ASSUME history.quiet PROVE Undisturbed'
    BY <1>4 DEF Undisturbed
  <2>1. /\ scan = ScanResult /\ plan = BuildPlan(catalog, scannable)
        /\ Present = DOMAIN catalog \ Removed
        /\ \A x \in Present : catalog[x] = Observe(x) \/ x = Candidate
    BY <1>1, <1>2, <1>3 DEF Undisturbed
  <2>2. /\ ScanResult' = ScanResult /\ Present' = Present \ {Candidate}
        /\ \A x \in Runs \ {Candidate} : Observe(x)' = Observe(x)
    BY <1>2, <1>5 DEF ScanResult, Present, Observe, Files, Reference
  <2>3. Present' = DOMAIN catalog' \ Removed'
    BY <1>2, <1>7, <2>1, <2>2
  <2>4. \A x \in Present' : catalog'[x] = Observe(x)'
    <3>1. \A x \in Present' : x \in Runs \ {Candidate} /\ x \in Present
      BY <2>2 DEF Present
    <3> QED BY <1>2, <2>1, <2>2, <3>1
  <2> QED BY <1>2, <1>7, <2>1, <2>2, <2>3, <2>4 DEF Undisturbed
<1> QED BY <1>7, <1>8 DEF IInv

LEMMA RemoveFailsKeeps == IInv /\ RemoveFails => IInv'
<1> SUFFICES ASSUME IInv, RemoveFails PROVE IInv'
  OBVIOUS
<1>1. TypeOK
  BY DEF IInv
<1>2. /\ pc = "rmtree" /\ pc \in Handling /\ Settle("DELETE_FAILED")
      /\ history' = [history EXCEPT !.quiet = FALSE]
      /\ UNCHANGED <<disk, refs, scannable, edits, dryRun, scan, todo, fresh, errors, catalog, plan>>
      /\ doomed' = {}
  BY DEF RemoveFails, FailureResult, world, census, Handling
<1>3. /\ history' \in [touched : SUBSET Runs, taken : SUBSET Takings,
                       raced : BOOLEAN, quiet : BOOLEAN]
      /\ history'.touched = history.touched
      /\ history'.taken = history.taken /\ history'.quiet = FALSE
  BY <1>1, <1>2 DEF TypeOK
<1>4. "DELETE_FAILED" \in Results /\ disk' \in [Runs -> Directories \cup {Absent}]
  BY <1>1, <1>2 DEF Results, TypeOK
<1>5. /\ TypeOK' /\ PlanOfCatalog' /\ Bookkeeping' /\ LastLook'
      /\ UnsafeRemovalOnlyIfRaced'
  BY <1>2, <1>3, <1>4, SettleFrame
<1>6. Undisturbed'
  BY <1>3 DEF Undisturbed
<1> QED BY <1>5, <1>6 DEF IInv

LEMMA ReportKeeps == IInv /\ Report => IInv'
<1> SUFFICES ASSUME IInv, Report PROVE IInv'
  OBVIOUS
<1>1. /\ TypeOK /\ PlanOfCatalog /\ Bookkeeping /\ LastLook
      /\ UnsafeRemovalOnlyIfRaced /\ Undisturbed
  BY DEF IInv
<1> DEFINE skips == {Receipt(r, SkipResult(r), "NONE") : r \in Skipped}
<1>2. /\ pc = "report" /\ receipts' = receipts \cup skips /\ pc' = "done"
      /\ UNCHANGED <<disk, refs, scannable, edits, dryRun, scan, todo, fresh, errors, catalog,
                     plan, index, doomed, history>>
  BY DEF Report, world, census
<1>3. /\ {c.run : c \in skips} = Skipped /\ \A a, b \in skips : a.run = b.run => a = b
      /\ Skipped \subseteq Runs => skips \subseteq Receipts
  <2>1. \A r : SkipResult(r) \in Results
    BY DEF SkipResult, Results
  <2>2. \A r : /\ Receipt(r, SkipResult(r), "NONE").run = r
               /\ r \in Runs => Receipt(r, SkipResult(r), "NONE") \in Receipts
    BY <2>1 DEF Receipt, Receipts, Triggers
  <2>3. {c.run : c \in skips} = Skipped
    BY <2>2
  <2>4. \A a, b \in skips : a.run = b.run => a = b
    BY <2>2
  <2>5. Skipped \subseteq Runs => skips \subseteq Receipts
    BY <2>2
  <2> QED BY <2>3, <2>4, <2>5
<1> HIDE DEF skips
<1>4. Skipped \subseteq Runs /\ Skipped \cap Handled = {}
  BY <1>1 DEF Skipped, TypeOK, IsCatalog
<1>5. Handled' = Handled \cup Skipped
  BY <1>2, <1>3 DEF Handled
<1>6. TypeOK'
  BY <1>1, <1>2, <1>3, <1>4 DEF TypeOK
<1>7. PlanOfCatalog'
  BY <1>1, <1>2 DEF PlanOfCatalog, Handling
<1>8. Bookkeeping'
  <2>1. \A a, b \in receipts' : a.run = b.run => a = b
    BY <1>1, <1>2, <1>3, <1>4 DEF Bookkeeping, Handled
  <2>2. Handled' = Range(plan.selected) \cup
                     {r \in DOMAIN catalog : Classify(catalog[r]) # "GC_CANDIDATE"}
    BY <1>1, <1>2, <1>5 DEF Bookkeeping, Skipped
  <2>3. \A r \in history.touched :
           \E c \in receipts' : c.run = r /\ c.result \in {"DELETED", "DELETE_FAILED"}
    BY <1>1, <1>2 DEF Bookkeeping
  <2> QED BY <1>1, <1>2, <2>1, <2>2, <2>3 DEF Bookkeeping, Handling
<1>9. LastLook'
  BY <1>1, <1>2 DEF LastLook
<1>10. UnsafeRemovalOnlyIfRaced'
  BY <1>1, <1>2 DEF UnsafeRemovalOnlyIfRaced
<1>11. Undisturbed'
  <2>1. /\ ScanResult' = ScanResult /\ Present' = Present /\ Removed' = Removed
        /\ \A x : Observe(x)' = Observe(x)
    BY <1>2 DEF ScanResult, Present, Removed, Handling, Observe, Files, Reference
  <2> QED BY <1>1, <1>2, <2>1 DEF Undisturbed
<1> QED BY <1>6, <1>7, <1>8, <1>9, <1>10, <1>11 DEF IInv

-----------------------------------------------------------------------------
(* Other processes.  What they change after the last look is a race.       *)

LEMMA RaceFrame ==
    ASSUME TypeOK, NEW late \in BOOLEAN, NEW r, Race(late, r)
    PROVE  /\ history' \in [touched : SUBSET Runs, taken : SUBSET Takings,
                            raced : BOOLEAN, quiet : BOOLEAN]
           /\ history'.touched = history.touched /\ history'.taken = history.taken
           /\ history'.quiet = FALSE
           /\ ~history'.raced =>
                 /\ ~history.raced
                 /\ (late /\ plan.selected # <<>>) => r # Candidate
BY DEF Race, TypeOK

\* Whatever another process does keeps the invariant, if what it does to the
\* candidate after the last look counts as a race.
LEMMA OthersFrame ==
    ASSUME IInv,
           UNCHANGED <<pc, dryRun, scan, todo, fresh, errors, catalog, plan, index, doomed, receipts>>,
           disk' \in [Runs -> Directories \cup {Absent}], refs' \in [Runs -> Mentions],
           scannable' \in BOOLEAN, edits' \in Nat,
           history' \in [touched : SUBSET Runs, taken : SUBSET Takings,
                         raced : BOOLEAN, quiet : BOOLEAN],
           history'.touched = history.touched, history'.taken = history.taken,
           history'.quiet = FALSE,
           (pc \in {"recensus", "remove"} /\ ~history'.raced) =>
               /\ ~history.raced /\ refs'[Candidate] = refs[Candidate]
               /\ (pc = "remove" \/ Candidate \notin todo) => disk'[Candidate] = disk[Candidate]
    PROVE  IInv'
<1>1. /\ TypeOK /\ PlanOfCatalog /\ Bookkeeping /\ LastLook
      /\ UnsafeRemovalOnlyIfRaced
  BY DEF IInv
<1>2. TypeOK'
  BY <1>1 DEF TypeOK
<1>3. PlanOfCatalog' /\ Bookkeeping' /\ Candidate' = Candidate
  BY <1>1, PlanFrame
<1>4. LastLook'
  <2>1. ((pc = "recensus" /\ ~history.raced) =>
           /\ Candidate \in DOMAIN fresh =>
                 /\ fresh[Candidate].files = Files(Candidate)
                 /\ fresh[Candidate].ref = Reference(Candidate, scan)
           /\ Reference(Candidate, scan) = "UNREFERENCED" => refs[Candidate] # "text")'
    BY <1>1, <1>3 DEF LastLook, Files, Reference
  <2>2. ((pc = "remove" /\ ~history.raced) =>
           /\ Status(Files(Candidate)) = "COMPLETE"
           /\ Guards(Files(Candidate)) = {}
           /\ refs[Candidate] # "text")'
    <3> SUFFICES ASSUME pc = "remove", ~history'.raced
                 PROVE  /\ Status(Files(Candidate)') = "COMPLETE"
                        /\ Guards(Files(Candidate)') = {}
                        /\ refs'[Candidate] # "text"
      BY <1>3 DEF Status, Guards, Files
    <3>1. Files(Candidate)' = Files(Candidate)
      BY <1>3 DEF Files
    <3> QED BY <1>1, <3>1 DEF LastLook
  <2> QED BY <1>1, <2>1, <2>2 DEF LastLook
<1>5. UnsafeRemovalOnlyIfRaced'
  BY <1>1 DEF UnsafeRemovalOnlyIfRaced
<1>6. Undisturbed'
  BY DEF Undisturbed
<1> QED BY <1>2, <1>3, <1>4, <1>5, <1>6 DEF IInv

\* A write, the removal of a marker and the removal of a run change one directory.
LEMMA OthersDisk ==
    ASSUME IInv, Spend, NEW r \in Runs, NEW dir \in Directories \cup {Absent},
           disk' = [disk EXCEPT ![r] = dir], Race(LateFor(r), r),
           UNCHANGED <<refs, scannable, pc, dryRun, census, catalog, plan, index, doomed, receipts>>
    PROVE  IInv'
<1>1. TypeOK /\ PlanOfCatalog
  BY DEF IInv
<1>2. /\ history' \in [touched : SUBSET Runs, taken : SUBSET Takings,
                       raced : BOOLEAN, quiet : BOOLEAN]
      /\ history'.touched = history.touched /\ history'.taken = history.taken
      /\ history'.quiet = FALSE
      /\ ~history'.raced =>
            /\ ~history.raced
            /\ (LateFor(r) /\ plan.selected # <<>>) => r # Candidate
  <2>1. LateFor(r) \in BOOLEAN
    BY DEF LateFor
  <2> QED BY <1>1, <2>1, RaceFrame
<1>3. edits' \in Nat
  BY <1>1 DEF Spend, TypeOK
<1>4. /\ disk' \in [Runs -> Directories \cup {Absent}]
      /\ \A x \in Runs \ {r} : disk'[x] = disk[x]
  BY <1>1 DEF TypeOK
<1>5. (pc \in {"recensus", "remove"} /\ ~history'.raced) =>
          /\ ~history.raced /\ refs'[Candidate] = refs[Candidate]
          /\ (pc = "remove" \/ Candidate \notin todo) => disk'[Candidate] = disk[Candidate]
  <2> SUFFICES ASSUME pc \in {"recensus", "remove"}, ~history'.raced,
                      pc = "remove" \/ Candidate \notin todo
               PROVE  disk'[Candidate] = disk[Candidate]
    BY <1>2
  <2>1. Candidate \in Runs /\ plan.selected # <<>>
    BY <1>1, AtCandidate DEF Handling, PlanOfCatalog
  <2>2. r # Candidate
    BY <1>2, <2>1 DEF LateFor
  <2> QED BY <1>4, <2>1, <2>2
<1>6. UNCHANGED <<scan, todo, fresh, errors>> /\ refs' \in [Runs -> Mentions] /\ scannable' \in BOOLEAN
  BY <1>1 DEF census, TypeOK
<1> QED BY <1>2, <1>3, <1>4, <1>5, <1>6, OthersFrame

LEMMA WriteFileKeeps == IInv /\ WriteFile => IInv'
<1> SUFFICES ASSUME IInv, WriteFile PROVE IInv'
  OBVIOUS
<1>1. PICK r \in Runs, k \in EditKinds :
         /\ disk' = [disk EXCEPT ![r] = [files |-> {k} \cup Files(r), mtime |-> Now]]
         /\ Race(LateFor(r), r)
  BY DEF WriteFile
<1>2. [files |-> {k} \cup Files(r), mtime |-> Now] \in Directories
  <2>1. Files(r) \subseteq Kinds /\ k \in Kinds /\ Now \in 0 .. Now
    BY ObservedEntry, GCAssumption DEF IInv
  <2> QED BY <2>1 DEF Directories
<1>3. Spend /\ UNCHANGED <<refs, scannable, pc, dryRun, census, catalog, plan, index, doomed, receipts>>
  BY DEF WriteFile
<1> DEFINE dir == [files |-> {k} \cup Files(r), mtime |-> Now]
<1>4. dir \in Directories \cup {Absent} /\ disk' = [disk EXCEPT ![r] = dir] /\ Race(LateFor(r), r)
  BY <1>1, <1>2
<1> HIDE DEF dir
<1> QED BY <1>3, <1>4, OthersDisk

LEMMA RemoveMarkerKeeps == IInv /\ RemoveMarker => IInv'
<1> SUFFICES ASSUME IInv, RemoveMarker PROVE IInv'
  OBVIOUS
<1>1. PICK r \in Runs, k \in EditKinds \cap {"marker", "running", "pinned", "protected"} :
         /\ disk' = [disk EXCEPT ![r] = [files |-> Files(r) \ {k}, mtime |-> Now]]
         /\ Race(LateFor(r), r)
  BY DEF RemoveMarker
<1>2. [files |-> Files(r) \ {k}, mtime |-> Now] \in Directories
  <2>1. Files(r) \subseteq Kinds /\ Now \in 0 .. Now
    BY ObservedEntry, GCAssumption DEF IInv
  <2> QED BY <2>1 DEF Directories
<1>3. Spend /\ UNCHANGED <<refs, scannable, pc, dryRun, census, catalog, plan, index, doomed, receipts>>
  BY DEF RemoveMarker
<1> DEFINE dir == [files |-> Files(r) \ {k}, mtime |-> Now]
<1>4. dir \in Directories \cup {Absent} /\ disk' = [disk EXCEPT ![r] = dir] /\ Race(LateFor(r), r)
  BY <1>1, <1>2
<1> HIDE DEF dir
<1> QED BY <1>3, <1>4, OthersDisk

LEMMA RemoveRunKeeps == IInv /\ RemoveRun => IInv'
BY OthersDisk DEF RemoveRun

LEMMA MentionKeeps == IInv /\ Mention => IInv'
<1> SUFFICES ASSUME IInv, Mention PROVE IInv'
  OBVIOUS
<1>1. TypeOK /\ PlanOfCatalog
  BY DEF IInv
<1>2. PICK r \in Runs, m \in Mentions \ {"none"} :
         /\ refs' = [refs EXCEPT ![r] = m]
         /\ Race(pc \in {"recensus", "remove", "rmtree"}, r)
  BY DEF Mention
<1> DEFINE late == pc \in {"recensus", "remove", "rmtree"}
<1>3. /\ history' \in [touched : SUBSET Runs, taken : SUBSET Takings,
                       raced : BOOLEAN, quiet : BOOLEAN]
      /\ history'.touched = history.touched /\ history'.taken = history.taken
      /\ history'.quiet = FALSE
      /\ ~history'.raced =>
            /\ ~history.raced
            /\ (late /\ plan.selected # <<>>) => r # Candidate
  <2>1. late \in BOOLEAN
    OBVIOUS
  <2> QED BY <1>1, <1>2, <2>1, RaceFrame
<1>4. /\ UNCHANGED <<disk, scannable, pc, dryRun, scan, todo, fresh, errors, catalog, plan, index,
                     doomed, receipts>>
      /\ edits' \in Nat
  BY <1>1 DEF Mention, Spend, census, TypeOK
<1>5. /\ refs' \in [Runs -> Mentions]
      /\ \A x \in Runs \ {r} : refs'[x] = refs[x]
  BY <1>1, <1>2 DEF TypeOK
<1>6. (pc \in {"recensus", "remove"} /\ ~history'.raced) =>
          /\ ~history.raced /\ refs'[Candidate] = refs[Candidate]
          /\ (pc = "remove" \/ Candidate \notin todo) => disk'[Candidate] = disk[Candidate]
  <2> SUFFICES ASSUME pc \in {"recensus", "remove"}, ~history'.raced
               PROVE  refs'[Candidate] = refs[Candidate]
    BY <1>3, <1>4
  <2>1. Candidate \in Runs /\ plan.selected # <<>>
    BY <1>1, AtCandidate DEF Handling, PlanOfCatalog
  <2>2. r # Candidate
    BY <1>3, <2>1
  <2> QED BY <1>5, <2>1, <2>2
<1>7. disk' \in [Runs -> Directories \cup {Absent}] /\ scannable' \in BOOLEAN
  BY <1>1, <1>4 DEF TypeOK
<1> QED BY <1>3, <1>4, <1>5, <1>6, <1>7, OthersFrame

LEMMA ScanChangesKeeps == IInv /\ ScanChanges => IInv'
<1> SUFFICES ASSUME IInv, ScanChanges PROVE IInv'
  OBVIOUS
<1>1. TypeOK
  BY DEF IInv
<1>2. /\ history' \in [touched : SUBSET Runs, taken : SUBSET Takings,
                       raced : BOOLEAN, quiet : BOOLEAN]
      /\ history'.touched = history.touched /\ history'.taken = history.taken
      /\ history'.quiet = FALSE /\ history'.raced = history.raced
  BY <1>1 DEF ScanChanges, TypeOK
<1>3. /\ UNCHANGED <<disk, refs, pc, dryRun, scan, todo, fresh, errors, catalog, plan, index,
                     doomed, receipts>>
      /\ edits' \in Nat
  BY <1>1 DEF ScanChanges, Spend, census, TypeOK
<1>4. /\ disk' \in [Runs -> Directories \cup {Absent}] /\ refs' \in [Runs -> Mentions]
      /\ scannable' \in BOOLEAN
  BY <1>1, <1>3 DEF ScanChanges, TypeOK
<1> QED BY <1>2, <1>3, <1>4, OthersFrame

-----------------------------------------------------------------------------
(* The invariant, and what follows from it                                 *)

LEMMA Stutters == IInv /\ UNCHANGED vars => IInv'
<1> SUFFICES ASSUME IInv, UNCHANGED vars PROVE IInv'
  OBVIOUS
<1>1. /\ UNCHANGED <<disk, refs, scannable, edits, pc, dryRun, scan, todo, fresh, errors>>
      /\ UNCHANGED <<catalog, plan, index, doomed, receipts, history>>
  BY DEF vars, world, census
<1>2. /\ TypeOK /\ PlanOfCatalog /\ Bookkeeping /\ LastLook
      /\ UnsafeRemovalOnlyIfRaced /\ Undisturbed
  BY DEF IInv
<1>3. PlanOfCatalog' /\ Bookkeeping' /\ Candidate' = Candidate
  BY <1>1, <1>2, PlanFrame
<1>4. TypeOK' /\ UnsafeRemovalOnlyIfRaced'
  BY <1>1, <1>2 DEF TypeOK, UnsafeRemovalOnlyIfRaced
<1>5. LastLook'
  BY <1>1, <1>2, <1>3 DEF LastLook, Files, Reference
<1>6. Undisturbed'
  <2>1. /\ ScanResult' = ScanResult /\ Present' = Present /\ Removed' = Removed
        /\ \A x : Observe(x)' = Observe(x)
    BY <1>1 DEF ScanResult, Present, Removed, SelectedBefore, Observe, Files, Reference
  <2> QED BY <1>1, <1>2, <1>3, <2>1 DEF Undisturbed
<1> QED BY <1>3, <1>4, <1>5, <1>6 DEF IInv

\* The inductive invariant of one collection beside any number of other writers
\* (execute_gc): the plan is that of the catalog, every candidate handled has one
\* receipt, an unraced last look is true, and left alone the directory is as planned.
THEOREM Invariance == Spec => []IInv
<1>1. IInv /\ [Next]_vars => IInv'
  <2> SUFFICES ASSUME IInv, [Next]_vars PROVE IInv'
    OBVIOUS
  <2>1. CASE Collector
    BY <2>1, ListKeeps, ReadRunKeeps, MakePlanKeeps, RecheckKeeps, ReselectKeeps,
       BeginRemovalKeeps, UnlinkKeeps, RemoveDirectoryKeeps, RemoveFailsKeeps, ReportKeeps
       DEF Collector
  <2>2. CASE Others
    BY <2>2, WriteFileKeeps, RemoveMarkerKeeps, RemoveRunKeeps, MentionKeeps, ScanChangesKeeps
       DEF Others
  <2>3. CASE Finished \/ UNCHANGED vars
    BY <2>3, Stutters DEF Finished
  <2> QED BY <2>1, <2>2, <2>3 DEF Next
<1> QED BY <1>1, InitHolds, PTL DEF Spec

\* execute_gc never starts to remove a run that is active, guarded or mentioned in
\* a file the scan reads, unless that came after its last look (gc.py:319 to :343).
THEOREM RemovalsAreSafe == Spec => []UnsafeRemovalOnlyIfRaced
<1>1. IInv => UnsafeRemovalOnlyIfRaced
  BY DEF IInv
<1> QED BY <1>1, Invariance, PTL

\* The receipts of a finished collection: one a run at most, whatever was touched
\* reported as deleted or as a failed deletion, only expired runs without one, and
\* as many as the plan counts (execute_gc, build_dry_run).
THEOREM ReceiptsAreTrue == Spec => []ReceiptsTellTheTruth
<1>1. IInv => ReceiptsTellTheTruth
  <2> SUFFICES ASSUME IInv, pc = "done" PROVE ReceiptsTellTheTruth
    BY DEF ReceiptsTellTheTruth
  <2>1. TypeOK /\ PlanOfCatalog /\ Bookkeeping
    BY DEF IInv
  <2>2. Handled = Range(plan.selected) \cup NotDue(catalog)
    BY <2>1 DEF Bookkeeping, NotDue
  <2>3. PICK complete \in BOOLEAN : plan = BuildPlan(catalog, complete)
    BY <2>1 DEF PlanOfCatalog
  <2>4. IsCatalog(catalog)
    BY <2>1 DEF TypeOK
  <2>5. Cardinality(DOMAIN catalog) - Cardinality(DOMAIN catalog \ Handled)
           = plan.protected + plan.unknown + plan.retained + Len(plan.selected)
    BY <2>2, <2>3, <2>4, PlanCounts
  <2>6. \A r \in DOMAIN catalog \ Handled : Classify(catalog[r]) = "GC_CANDIDATE"
    BY <2>2 DEF NotDue
  <2>7. /\ \A a, b \in receipts : a.run = b.run => a = b
        /\ dryRun => history.touched = {}
        /\ \A r \in history.touched :
              \E c \in receipts : c.run = r /\ c.result \in {"DELETED", "DELETE_FAILED"}
    BY <2>1 DEF Bookkeeping
  <2> QED BY <2>5, <2>6, <2>7 DEF ReceiptsTellTheTruth
<1> QED BY <1>1, Invariance, PTL

\* Alone and without an I/O error the whole plan is carried out, and what is left
\* is what the plan projected, although every candidate is planned anew.
THEOREM PlanCarriedOut == Spec => []PlanIsCarriedOut
<1>1. IInv => PlanIsCarriedOut
  <2> SUFFICES ASSUME IInv, pc = "done", history.quiet, ~dryRun PROVE PlanIsCarriedOut
    BY DEF PlanIsCarriedOut
  <2>1. TypeOK /\ PlanOfCatalog /\ Undisturbed
    BY DEF IInv
  <2>2. /\ plan = BuildPlan(catalog, scannable)
        /\ Present = DOMAIN catalog \ Range(plan.selected)
        /\ \A r \in Present : catalog[r] = Observe(r)
    BY <2>1 DEF Undisturbed, Removed, Handling
  <2>3. /\ plan.selected \in Seq(DOMAIN catalog)
        /\ IsCatalog(catalog) /\ DOMAIN catalog \subseteq Runs
    BY <2>1, Planned DEF TypeOK, IsCatalog
  <2>4. \A i \in 1 .. Len(plan.selected) : disk[plan.selected[i]] = Absent
    BY <2>2, <2>3 DEF Present, Range
  <2> DEFINE gone == {plan.selected[i] : i \in 1 .. Len(plan.selected)}
             a == [r \in gone |-> catalog[r]]
             b == [r \in Present |-> disk[r]]
  <2>5. gone = Range(plan.selected) /\ gone \subseteq DOMAIN catalog
    BY <2>3 DEF Range
  <2>6. Sizable(catalog)
    BY <2>3, CatalogTypes DEF Sizable
  <2>7. Splits(catalog, a, b)
    <3>1. \A r \in Present : disk[r].files = catalog[r].files
      <4> SUFFICES ASSUME NEW r \in Present PROVE disk[r].files = catalog[r].files
        OBVIOUS
      <4>1. disk[r] # Absent /\ catalog[r] = Observe(r)
        BY <2>2 DEF Present
      <4>2. Observe(r).files = disk[r].files
        BY <4>1 DEF Observe, Files
      <4> QED BY <4>1, <4>2
    <3> QED BY <2>2, <2>5, <3>1 DEF Splits
  <2>8. plan.projected = Total(catalog) - Total(a)
    BY <2>2 DEF BuildPlan, Freed
  <2> HIDE DEF a, b
  <2>9. /\ Sizable(a) /\ Sizable(b) /\ Total(catalog) = Total(a) + Total(b)
    BY <2>6, <2>7, TotalSplits
  <2>10. Total(a) \in Nat /\ Total(b) \in Nat
    BY <2>9, TotalIsNat
  <2>11. Total(b) = plan.projected
    BY <2>8, <2>9, <2>10
  <2>12. Total(b) = Total([r \in {x \in Runs : disk[x] # Absent} |-> disk[r]])
    BY Zenon DEF b, Present
  <2> QED BY <2>4, <2>11, <2>12 DEF PlanIsCarriedOut
<1> QED BY <1>1, Invariance, PTL

\* A quota plan takes the oldest of the safe runs, enough of them if there are
\* enough, and not one more than needed (build_dry_run, _select_quota_candidates).
THEOREM QuotaIsTight == Spec => []QuotaPlanIsTight
<1>1. IInv => QuotaPlanIsTight
  <2> SUFFICES ASSUME IInv, plan.pressure, plan.selected # <<>> PROVE QuotaPlanIsTight
    BY DEF QuotaPlanIsTight
  <2>1. TypeOK /\ PlanOfCatalog
    BY DEF IInv
  <2>2. pc \notin {"list", "census"}
    BY <2>1 DEF PlanOfCatalog, NoPlan
  <2>3. PICK complete \in BOOLEAN : plan = BuildPlan(catalog, complete)
    BY <2>1, <2>2 DEF PlanOfCatalog
  <2>4. /\ Pressure(catalog)
        /\ plan.projected = Total(catalog) - Freed(catalog, plan.selected, Len(plan.selected))
    BY <2>3 DEF BuildPlan
  <2>5. plan.selected = Chosen(catalog) /\ IsCatalog(catalog)
    BY <2>1, Planned DEF TypeOK
  <2>6. /\ Range(plan.selected) \subseteq SafeRuns(catalog)
        /\ plan.projected <= Quota \/ Range(plan.selected) = SafeRuns(catalog)
        /\ plan.projected + Size(catalog[plan.selected[Len(plan.selected)]].files) > Quota
        /\ \A s \in Range(plan.selected), r \in SafeRuns(catalog) \ Range(plan.selected) :
              catalog[s].mtime <= catalog[r].mtime
    BY <2>4, <2>5, PlanIsTight
  <2> QED BY <2>6 DEF QuotaPlanIsTight, SafeRuns
<1> QED BY <1>1, Invariance, PTL

-----------------------------------------------------------------------------
(* The length of a collection                                              *)

LEMMA Multiples ==
    ASSUME NEW a \in Nat, NEW b \in Nat, NEW c \in Nat, a <= b
    PROVE  a * c \in Nat /\ a * c <= b * c /\ (a + 1) * c = a * c + c
<1>1. b * c = a * c + (b - a) * c /\ b - a \in Nat
  OBVIOUS
<1>2. a * c \in Nat /\ (b - a) * c \in Nat
  BY <1>1
<1> QED BY <1>1, <1>2

LEMMA Counted ==
    ASSUME TypeOK
    PROVE  /\ Cardinality(Runs) \in Nat /\ Cardinality(Kinds) \in Nat /\ Stations \in Nat
           /\ IsFiniteSet(todo) /\ Cardinality(todo) \in 0 .. Cardinality(Runs)
           /\ IsFiniteSet(doomed) /\ Cardinality(doomed) \in 0 .. Cardinality(Kinds)
<1>1. IsFiniteSet(Runs) /\ IsFiniteSet(Kinds)
  BY GCAssumption, KindsFinite
<1>2. Cardinality(Runs) \in Nat /\ Cardinality(Kinds) \in Nat
  BY <1>1, FS_CardinalityType
<1>3. todo \in SUBSET Runs /\ doomed \in SUBSET Kinds
  BY DEF TypeOK
<1>4. IsFiniteSet(todo) /\ Cardinality(todo) \in Nat /\ Cardinality(todo) <= Cardinality(Runs)
  BY <1>1, <1>3, FS_Subset, FS_CardinalityType
<1>5. IsFiniteSet(doomed) /\ Cardinality(doomed) \in Nat /\ Cardinality(doomed) <= Cardinality(Kinds)
  BY <1>1, <1>3, FS_Subset, FS_CardinalityType
<1> QED BY <1>2, <1>4, <1>5 DEF Stations

\* A plan has no more candidates than there are runs.
LEMMA PlanFits ==
    ASSUME TypeOK, PlanOfCatalog
    PROVE  Len(plan.selected) \in 0 .. Cardinality(Runs)
<1>1. plan.selected \in Seq(DOMAIN catalog) /\ Distinct(plan.selected)
  BY Planned
<1>2. Range(plan.selected) \in SUBSET Runs
  BY DEF TypeOK, IsCatalog
<1>3. Cardinality(Range(plan.selected)) = Len(plan.selected)
  BY <1>1, DistinctCount
<1>4. Cardinality(Range(plan.selected)) <= Cardinality(Runs)
  BY <1>2, FS_Subset, GCAssumption
<1>5. Len(plan.selected) \in Nat
  BY <1>1
<1> QED BY <1>3, <1>4, <1>5, Counted

\* The steps left, stage by stage.
LEMMA StepsLeftAt ==
    /\ pc = "list" => StepsLeft = MaxSteps
    /\ pc = "census" => StepsLeft = Cardinality(Runs) * Stations + 2 + Cardinality(todo)
    /\ pc \in Handling =>
         StepsLeft = (Len(plan.selected) - index) * Stations + CandidateSteps + 1
    /\ pc = "report" => StepsLeft = 1
    /\ pc = "done" => StepsLeft = 0
BY DEF StepsLeft, Handling

LEMMA CandidateStepsAt ==
    /\ pc = "recheck" => CandidateSteps = Stations
    /\ pc = "relist" => CandidateSteps = Stations - 1
    /\ pc = "recensus" => CandidateSteps = Cardinality(Kinds) + 3 + Cardinality(todo)
    /\ pc = "remove" => CandidateSteps = Cardinality(Kinds) + 2
    /\ pc = "rmtree" => CandidateSteps = 1 + Cardinality(doomed)
BY DEF CandidateSteps

LEMMA StepsLeftNext ==
    /\ pc' = "census" => StepsLeft' = (Cardinality(Runs) * Stations + 2 + Cardinality(todo))'
    /\ pc' \in Handling =>
         StepsLeft' = ((Len(plan.selected) - index) * Stations + CandidateSteps + 1)'
    /\ pc' = "report" => StepsLeft' = 1
    /\ pc' = "done" => StepsLeft' = 0
BY DEF StepsLeft, Handling

LEMMA CandidateStepsNext ==
    /\ pc' = "recheck" => CandidateSteps' = Stations
    /\ pc' = "relist" => CandidateSteps' = Stations - 1
    /\ pc' = "recensus" => CandidateSteps' = Cardinality(Kinds) + 3 + Cardinality(todo')
    /\ pc' = "remove" => CandidateSteps' = Cardinality(Kinds) + 2
    /\ pc' = "rmtree" => CandidateSteps' = 1 + Cardinality(doomed')
BY DEF CandidateSteps, Stations

\* Of the candidates still to come, each has at most Stations steps.
LEMMA CandidateStepsBounded ==
    ASSUME IInv, pc \in Handling
    PROVE  /\ CandidateSteps \in 1 .. Stations
           /\ (Len(plan.selected) - index) * Stations \in Nat
           /\ Len(plan.selected) - index \in Nat /\ index \in Nat
<1>1. TypeOK /\ PlanOfCatalog
  BY DEF IInv
<1>2. CandidateSteps \in 1 .. Stations
  BY <1>1, Counted, CandidateStepsAt DEF Handling, Stations
<1>3. Len(plan.selected) \in Nat /\ index \in 1 .. Len(plan.selected)
  BY <1>1, PlanFits, Counted, AtCandidate
<1>4. Len(plan.selected) - index \in Nat
  BY <1>3
<1>5. (Len(plan.selected) - index) * Stations \in Nat
  BY <1>1, <1>4, Counted, Multiples
<1> QED BY <1>2, <1>3, <1>4, <1>5

\* A collection of n runs has at most n * (n + 14) + n + 3 steps before it.
LEMMA StepsAreBounded == IInv => StepsLeft \in 0 .. MaxSteps
<1> SUFFICES ASSUME IInv PROVE StepsLeft \in 0 .. MaxSteps
  OBVIOUS
<1> DEFINE n == Cardinality(Runs)
<1>1. TypeOK /\ PlanOfCatalog
  BY DEF IInv
<1>2. n \in Nat /\ Stations \in Nat /\ Cardinality(todo) \in 0 .. n
  BY <1>1, Counted
<1>3. n * Stations \in Nat
  BY <1>2, Multiples
<1>4. MaxSteps = n * Stations + n + 3
  BY DEF MaxSteps
<1>5. CASE pc \in Handling
  <2> DEFINE rest == Len(plan.selected) - index
  <2>1. CandidateSteps \in 1 .. Stations /\ rest * Stations \in Nat /\ rest \in Nat
    BY <1>5, CandidateStepsBounded
  <2>2. rest + 1 <= n
    BY <1>1, <1>2, <1>5, <2>1, PlanFits, AtCandidate
  <2>3. StepsLeft = rest * Stations + CandidateSteps + 1
    BY <1>5, StepsLeftAt
  <2> HIDE DEF rest, n
  <2>4. (rest + 1) * Stations = rest * Stations + Stations
    BY <1>2, <2>1, Multiples
  <2>5. (rest + 1) * Stations <= n * Stations
    <3>1. rest + 1 \in Nat
      BY <2>1
    <3> QED BY <1>2, <2>2, <3>1, Multiples
  <2> DEFINE all == n * Stations
             some == rest * Stations
  <2>6. some + Stations <= all /\ some \in Nat /\ all \in Nat
    BY <1>3, <2>1, <2>4, <2>5
  <2>7. StepsLeft = some + CandidateSteps + 1 /\ MaxSteps = all + n + 3
    BY <1>4, <2>3
  <2> HIDE DEF some, all
  <2> QED BY <1>2, <2>1, <2>6, <2>7
<1>6. CASE pc \in {"list", "census", "report", "done"}
  <2> HIDE DEF n
  <2> DEFINE all == n * Stations
  <2>1. all \in Nat /\ MaxSteps = all + n + 3
    BY <1>3, <1>4
  <2>2. pc = "census" => StepsLeft = all + 2 + Cardinality(todo)
    BY StepsLeftAt DEF n
  <2> HIDE DEF all
  <2> QED BY <1>2, <1>6, <2>1, <2>2, StepsLeftAt
<1> QED BY <1>1, <1>5, <1>6 DEF TypeOK, Handling

\* A receipt ends the steps of its candidate.
LEMMA SettleShortens ==
    ASSUME IInv, pc \in Handling, NEW result, Settle(result), UNCHANGED plan
    PROVE  StepsLeft' < StepsLeft
<1> DEFINE rest == Len(plan.selected) - index
<1>1. TypeOK /\ PlanOfCatalog
  BY DEF IInv
<1>2. /\ CandidateSteps \in 1 .. Stations /\ rest * Stations \in Nat /\ rest \in Nat
      /\ index \in Nat
  BY CandidateStepsBounded
<1>3. StepsLeft = rest * Stations + CandidateSteps + 1
  BY StepsLeftAt
<1>4. Stations \in Nat /\ Stations' = Stations
  BY <1>1, Counted DEF Stations
<1>5. CASE HasNext
  <2>1. /\ pc' = "recheck" /\ index' = index + 1 /\ pc' \in Handling
        /\ rest - 1 \in Nat
    BY <1>2, <1>5 DEF Settle, HasNext, Handling
  <2>2. StepsLeft' = (Len(plan.selected)' - index') * Stations' + CandidateSteps' + 1
    BY <2>1, StepsLeftNext
  <2>3. CandidateSteps' = Stations
    BY <2>1, CandidateStepsNext
  <2>4. Len(plan.selected)' - index' = rest - 1
    BY <1>1, <1>2, <2>1, PlanFits, Counted
  <2> HIDE DEF rest
  <2>5. ((rest - 1) + 1) * Stations = (rest - 1) * Stations + Stations /\ (rest - 1) * Stations \in Nat
    BY <1>4, <2>1, Multiples
  <2>6. (rest - 1) + 1 = rest
    BY <1>2
  <2>7. StepsLeft' = (rest - 1) * Stations + Stations + 1
    BY <1>4, <2>2, <2>3, <2>4
  <2> DEFINE some == rest * Stations
             fewer == (rest - 1) * Stations
  <2>8. /\ some = fewer + Stations /\ fewer \in Nat
        /\ StepsLeft = some + CandidateSteps + 1 /\ StepsLeft' = fewer + Stations + 1
    BY <1>3, <2>5, <2>6, <2>7
  <2> HIDE DEF some, fewer
  <2> QED BY <1>2, <1>4, <2>8
<1>6. CASE ~HasNext
  <2>1. StepsLeft' = 1
    BY <1>6, StepsLeftNext DEF Settle
  <2> HIDE DEF rest
  <2> DEFINE some == rest * Stations
  <2>2. some \in Nat /\ StepsLeft = some + CandidateSteps + 1
    BY <1>2, <1>3
  <2> HIDE DEF some
  <2> QED BY <1>2, <1>4, <2>1, <2>2
<1> QED BY <1>5, <1>6

\* So does, within a candidate, every step to a station with fewer.
LEMMA StationShortens ==
    ASSUME IInv, pc \in Handling, pc' \in Handling, UNCHANGED <<plan, index>>,
           CandidateSteps' < CandidateSteps, CandidateSteps' \in Nat
    PROVE  StepsLeft' < StepsLeft
<1> DEFINE some == (Len(plan.selected) - index) * Stations
<1>1. CandidateSteps \in 1 .. Stations /\ some \in Nat
  BY CandidateStepsBounded
<1>2. StepsLeft = some + CandidateSteps + 1
  BY StepsLeftAt
<1>3. StepsLeft' = some + CandidateSteps' + 1
  BY StepsLeftNext DEF Stations
<1>4. Stations \in Nat
  BY Counted DEF IInv
<1>5. CandidateSteps \in Int /\ CandidateSteps' \in Int /\ some \in Int
  BY <1>1, <1>4
<1>6. some + CandidateSteps' + 1 < some + CandidateSteps + 1
  <2> DEFINE now == CandidateSteps
             next == CandidateSteps'
  <2>1. now \in Int /\ next \in Int /\ next < now /\ some \in Int
    BY <1>5
  <2> HIDE DEF now, next, some
  <2>2. some + next + 1 < some + now + 1
    BY <2>1
  <2> QED BY <2>2 DEF now, next
<1> HIDE DEF some
<1> QED BY <1>2, <1>3, <1>6, Zenon

LEMMA SetsCounted ==
    /\ \A S \in SUBSET Runs : Cardinality(S) \in 0 .. Cardinality(Runs)
    /\ \A S \in SUBSET Kinds : Cardinality(S) \in 0 .. Cardinality(Kinds)
    /\ Cardinality(Runs) \in Nat /\ Cardinality(Kinds) \in Nat
<1>1. IsFiniteSet(Runs) /\ IsFiniteSet(Kinds)
  BY GCAssumption, KindsFinite
<1>2. Cardinality(Runs) \in Nat /\ Cardinality(Kinds) \in Nat
  BY <1>1, FS_CardinalityType
<1>3. ASSUME NEW B, IsFiniteSet(B), NEW S \in SUBSET B
      PROVE  Cardinality(S) \in 0 .. Cardinality(B)
  BY <1>3, FS_Subset, FS_CardinalityType
<1> QED BY <1>1, <1>2, <1>3

\* n runs: a census or a whole plan of candidates, in numbers the provers can add.
LEMMA ListShortens == IInv /\ List => StepsLeft' < StepsLeft
<1> SUFFICES ASSUME IInv, List PROVE StepsLeft' < StepsLeft
  OBVIOUS
<1> DEFINE n == Cardinality(Runs)
           k == Cardinality(Kinds)
           all == n * Stations
           t == Cardinality(todo')
<1>1. todo' \in SUBSET Runs
  BY DEF List
<1>2. n \in Nat /\ k \in Nat /\ t \in 0 .. n
  BY <1>1, SetsCounted
<1>3. Stations = n + k + 5
  BY DEF Stations
<1>4. CASE pc = "list"
  <2>1. pc' = "census"
    BY <1>4 DEF List
  <2>2. StepsLeft = all + n + 3
    BY <1>4, StepsLeftAt DEF MaxSteps
  <2>3. StepsLeft' = all + 2 + t
    BY <2>1, StepsLeftNext DEF Stations
  <2>4. Stations \in Nat
    BY <1>2, <1>3
  <2>5. all \in Nat
    BY <1>2, <2>4, Multiples
  <2> HIDE DEF n, all, t
  <2> QED BY <1>2, <2>2, <2>3, <2>5
<1>5. CASE pc = "relist"
  <2>1. pc' = "recensus" /\ pc \in Handling /\ pc' \in Handling /\ UNCHANGED <<plan, index>>
    BY <1>5 DEF List, Handling
  <2>2. CandidateSteps = Stations - 1
    BY <1>5, CandidateStepsAt
  <2>3. CandidateSteps' = k + 3 + t
    BY <2>1, CandidateStepsNext
  <2> HIDE DEF n, k, t
  <2>4. CandidateSteps' < CandidateSteps /\ CandidateSteps' \in Nat
    BY <1>2, <1>3, <2>2, <2>3
  <2> QED BY <2>1, <2>4, StationShortens
<1> QED BY <1>4, <1>5 DEF List

LEMMA ReadRunShortens == IInv /\ ReadRun => StepsLeft' < StepsLeft
<1> SUFFICES ASSUME IInv, ReadRun PROVE StepsLeft' < StepsLeft
  OBVIOUS
<1> DEFINE all == Cardinality(Runs) * Stations
           t == Cardinality(todo)
<1>1. PICK r \in todo : todo' = todo \ {r}
  BY DEF ReadRun
<1>2. /\ IsFiniteSet(todo) /\ t \in Nat /\ Cardinality(Runs) \in Nat /\ Cardinality(Kinds) \in Nat
      /\ Stations \in Nat
  BY Counted DEF IInv
<1>3. Cardinality(todo') = t - 1 /\ Cardinality(todo') \in Nat
  <2>1. Cardinality(todo') = t - 1
    BY <1>1, <1>2, FS_RemoveElement
  <2>2. IsFiniteSet(todo')
    BY <1>1, <1>2, FS_Subset
  <2> QED BY <2>1, <2>2, FS_CardinalityType
<1>4. CASE pc = "census"
  <2>1. pc' = "census"
    BY <1>4 DEF ReadRun
  <2>2. StepsLeft = all + 2 + t
    BY <1>4, StepsLeftAt
  <2>3. StepsLeft' = all + 2 + (t - 1)
    BY <1>3, <2>1, StepsLeftNext DEF Stations
  <2>4. all \in Nat
    BY <1>2, Multiples
  <2> HIDE DEF all, t
  <2> QED BY <1>2, <2>2, <2>3, <2>4
<1>5. CASE pc = "recensus"
  <2>1. pc' = "recensus" /\ pc \in Handling /\ pc' \in Handling /\ UNCHANGED <<plan, index>>
    BY <1>5 DEF ReadRun, Handling
  <2>2. CandidateSteps = Cardinality(Kinds) + 3 + t
    BY <1>5, CandidateStepsAt
  <2>3. CandidateSteps' = Cardinality(Kinds) + 3 + (t - 1)
    BY <1>3, <2>1, CandidateStepsNext
  <2>4. t - 1 \in Nat
    BY <1>3
  <2> HIDE DEF t
  <2>5. CandidateSteps' < CandidateSteps /\ CandidateSteps' \in Nat
    BY <1>2, <2>2, <2>3, <2>4
  <2> QED BY <2>1, <2>5, StationShortens
<1> QED BY <1>4, <1>5 DEF ReadRun

LEMMA MakePlanShortens == IInv /\ MakePlan => StepsLeft' < StepsLeft
<1> SUFFICES ASSUME IInv, MakePlan PROVE StepsLeft' < StepsLeft
  OBVIOUS
<1> DEFINE n == Cardinality(Runs)
           all == n * Stations
           planned == Len(plan'.selected)
<1>1. n \in Nat /\ Stations \in Nat
  BY Counted DEF IInv
<1>2. all \in Nat
  BY <1>1, Multiples
<1>3. StepsLeft = all + 2
  <2>1. pc = "census" /\ todo = {}
    BY DEF MakePlan
  <2>2. Cardinality(todo) = 0
    BY <2>1, FS_EmptySet
  <2>3. StepsLeft = all + 2 + 0
    BY <2>1, <2>2, StepsLeftAt
  <2> HIDE DEF all
  <2> QED BY <1>2, <2>3
<1>4. CASE pc' = "report"
  <2>1. StepsLeft' = 1
    BY <1>4, StepsLeftNext
  <2> HIDE DEF all
  <2> QED BY <1>2, <1>3, <2>1
<1>5. CASE pc' = "recheck"
  <2>1. /\ index' = 1 /\ pc' \in Handling
    BY <1>5 DEF MakePlan, IInv, PlanOfCatalog, Handling
  <2>2. planned \in 1 .. n
    <3>1. IsCatalog(fresh)
      BY DEF IInv, TypeOK
    <3>2. plan' = BuildPlan(fresh, ~errors) /\ ~dryRun /\ plan'.selected # <<>>
      BY <1>5 DEF MakePlan
    <3>3. (~errors) \in BOOLEAN
      BY DEF IInv, TypeOK
    <3>4. plan'.selected = Selected(fresh, ~errors)
      BY <3>2 DEF BuildPlan
    <3>5. plan'.selected \in Seq(DOMAIN fresh) /\ Distinct(plan'.selected)
      BY <3>1, <3>3, <3>4, SelectionIsSafe
    <3>6. Cardinality(Range(plan'.selected)) = planned /\ planned \in Nat
      BY <3>5, DistinctCount
    <3>7. Range(plan'.selected) \in SUBSET Runs
      BY <3>1, <3>5 DEF IsCatalog, Range
    <3>8. planned # 0
      BY <3>2, <3>5
    <3> HIDE DEF planned
    <3> QED BY <1>1, <3>6, <3>7, <3>8, SetsCounted
  <2> HIDE DEF planned
  <2>3. StepsLeft' = (planned - 1) * Stations + Stations + 1
    <3>1. StepsLeft' = (planned - 1) * Stations + CandidateSteps' + 1
      BY <2>1, StepsLeftNext DEF planned, Stations
    <3> QED BY <1>5, <3>1, CandidateStepsNext
  <2>4. planned - 1 \in Nat /\ (planned - 1) + 1 = planned /\ planned \in Nat /\ planned <= n
    BY <1>1, <2>2
  <2> HIDE DEF n
  <2>5. /\ (planned - 1) * Stations \in Nat
        /\ planned * Stations = (planned - 1) * Stations + Stations
    BY <1>1, <2>4, Multiples
  <2>6. planned * Stations <= n * Stations
    BY <1>1, <2>4, Multiples
  <2> DEFINE some == planned * Stations
             fewer == (planned - 1) * Stations
  <2>7. some = fewer + Stations /\ fewer \in Nat /\ some <= all /\ StepsLeft' = fewer + Stations + 1
    BY <2>3, <2>5, <2>6
  <2> HIDE DEF some, fewer, all
  <2> QED BY <1>1, <1>2, <1>3, <2>7
<1> QED BY <1>4, <1>5 DEF MakePlan

\* The steps at a candidate: each goes to a station with fewer, or settles.
LEMMA CandidateShortens ==
    ASSUME IInv, Recheck \/ Reselect \/ BeginRemoval \/ Unlink \/ RemoveDirectory \/ RemoveFails
    PROVE  StepsLeft' < StepsLeft
<1> DEFINE n == Cardinality(Runs)
           k == Cardinality(Kinds)
<1>1. TypeOK
  BY DEF IInv
<1>2. n \in Nat /\ k \in Nat /\ Stations = n + k + 5
  BY SetsCounted DEF Stations
<1>3. pc \in Handling /\ UNCHANGED plan
  BY DEF Recheck, Reselect, BeginRemoval, Unlink, RemoveDirectory, RemoveFails, Handling
<1>4. ASSUME NEW result, Settle(result) PROVE StepsLeft' < StepsLeft
  BY <1>3, <1>4, SettleShortens
<1>5. ASSUME pc' \in Handling, UNCHANGED index,
             CandidateSteps' < CandidateSteps, CandidateSteps' \in Nat
      PROVE  StepsLeft' < StepsLeft
  BY <1>3, <1>5, StationShortens
<1>6. ASSUME Recheck, pc' = "relist", UNCHANGED index PROVE StepsLeft' < StepsLeft
  <2>1. CandidateSteps = Stations /\ CandidateSteps' = Stations - 1 /\ pc' \in Handling
    BY <1>6, CandidateStepsAt, CandidateStepsNext DEF Recheck, Handling
  <2> HIDE DEF n, k
  <2>2. CandidateSteps' < CandidateSteps /\ CandidateSteps' \in Nat
    BY <1>2, <2>1
  <2> QED BY <1>5, <1>6, <2>1, <2>2
<1>7. ASSUME Reselect, pc' = "remove", UNCHANGED index PROVE StepsLeft' < StepsLeft
  <2>1. CandidateSteps = k + 3 + 0 /\ CandidateSteps' = k + 2 /\ pc' \in Handling
    <3>1. pc = "recensus" /\ Cardinality(todo) = 0
      BY <1>7, FS_EmptySet DEF Reselect
    <3> QED BY <1>7, <3>1, CandidateStepsAt, CandidateStepsNext DEF Handling
  <2> HIDE DEF k
  <2>2. CandidateSteps' < CandidateSteps /\ CandidateSteps' \in Nat
    BY <1>2, <2>1
  <2> QED BY <1>5, <1>7, <2>1, <2>2
<1>8. ASSUME BeginRemoval, pc' = "rmtree", UNCHANGED index, disk[Candidate] # Absent,
             doomed' = disk[Candidate].files
      PROVE  StepsLeft' < StepsLeft
  <2>1. doomed' \in SUBSET Kinds
    <3>1. Candidate \in Runs
      BY <1>3, AtCandidate DEF IInv
    <3>2. disk[Candidate] \in Directories
      BY <1>1, <1>8, <3>1 DEF TypeOK
    <3> QED BY <1>8, <3>2 DEF Directories
  <2> DEFINE d == Cardinality(doomed')
  <2>2. d \in 0 .. k
    BY <2>1, SetsCounted
  <2>3. CandidateSteps = k + 2 /\ CandidateSteps' = 1 + d /\ pc' \in Handling
    BY <1>8, CandidateStepsAt, CandidateStepsNext DEF BeginRemoval, Handling
  <2> HIDE DEF k, d
  <2>4. CandidateSteps' < CandidateSteps /\ CandidateSteps' \in Nat
    BY <1>2, <2>2, <2>3
  <2> QED BY <1>5, <1>8, <2>3, <2>4
<1>9. CASE Unlink
  <2> DEFINE d == Cardinality(doomed)
  <2>1. PICK x \in doomed : doomed' = doomed \ {x}
    BY <1>9 DEF Unlink
  <2>2. IsFiniteSet(doomed) /\ d \in Nat
    BY <1>1, Counted
  <2>3. Cardinality(doomed') = d - 1 /\ Cardinality(doomed') \in Nat
    <3>1. Cardinality(doomed') = d - 1 /\ IsFiniteSet(doomed')
      BY <2>1, <2>2, FS_RemoveElement
    <3> QED BY <3>1, FS_CardinalityType
  <2>4. CandidateSteps = 1 + d /\ CandidateSteps' = 1 + (d - 1) /\ pc' \in Handling
    BY <1>9, <2>3, CandidateStepsAt, CandidateStepsNext DEF Unlink, Handling
  <2>5. d - 1 \in Nat
    BY <2>3
  <2> HIDE DEF d
  <2>6. CandidateSteps' < CandidateSteps /\ CandidateSteps' \in Nat
    BY <2>2, <2>4, <2>5
  <2> QED BY <1>5, <1>9, <2>4, <2>6 DEF Unlink
<1>10. CASE Recheck
  BY <1>4, <1>6, <1>10 DEF Recheck
<1>11. CASE Reselect
  BY <1>4, <1>7, <1>11 DEF Reselect
<1>12. CASE BeginRemoval
  BY <1>4, <1>8, <1>12 DEF BeginRemoval
<1>13. CASE RemoveDirectory \/ RemoveFails
  BY <1>4, <1>13 DEF RemoveDirectory, RemoveFails
<1> QED BY <1>9, <1>10, <1>11, <1>12, <1>13

LEMMA ReportShortens == Report => StepsLeft' < StepsLeft
<1> SUFFICES ASSUME Report PROVE StepsLeft' < StepsLeft
  OBVIOUS
<1>1. StepsLeft = 1 /\ StepsLeft' = 0
  BY StepsLeftAt, StepsLeftNext DEF Report
<1> QED BY <1>1

\* The collector and nobody else decides how many steps are left.
LEMMA OthersLeaveTheSteps == Others => StepsLeft' = StepsLeft
<1> SUFFICES ASSUME Others PROVE StepsLeft' = StepsLeft
  OBVIOUS
<1>1. UNCHANGED <<pc, todo, plan, index, doomed>>
  BY DEF Others, WriteFile, RemoveMarker, RemoveRun, Mention, ScanChanges, census
<1>2. CandidateSteps' = CandidateSteps
  BY <1>1 DEF CandidateSteps, Stations
<1> QED BY <1>1, <1>2 DEF StepsLeft, MaxSteps, Stations

\* A collection takes at most MaxSteps steps of its own, whatever the other
\* processes do to the runs meanwhile, and they cannot put its end off
\* (execute_gc, _revalidate_candidate): a quadratic number in the runs, because
\* every candidate is planned anew.
THEOREM CollectionIsBounded == Spec => [](StepsLeft \in 0 .. MaxSteps)
<1> QED BY StepsAreBounded, Invariance, PTL

\* Every step of the collector is one fewer to come: of Termination the part
\* that needs no fairness (execute_gc).
THEOREM CollectionEnds == Spec => CollectorComesNearer
<1>1. ASSUME IInv, [Next]_vars
      PROVE  [/\ Collector => StepsLeft' < StepsLeft
              /\ Others => StepsLeft' = StepsLeft]_vars
  <2>1. Collector => StepsLeft' < StepsLeft
    BY <1>1, ListShortens, ReadRunShortens, MakePlanShortens, CandidateShortens, ReportShortens
       DEF Collector
  <2> QED BY <2>1, OthersLeaveTheSteps
<1> QED BY <1>1, Invariance, PTL DEF Spec, CollectorComesNearer
=============================================================================
