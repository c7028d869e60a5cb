----------------------------- MODULE ReadsProofs -----------------------------
(***************************************************************************)
(* Proofs about what is read of the workspace: the pages of a read and the *)
(* windows of a blame are what was asked for, whatever the file holds and  *)
(* others write to it; a listing or a search that is not said to be cut    *)
(* names all that stood, whatever others change between two entries.       *)
(***************************************************************************)
EXTENDS WorkspaceReads, FiniteSetTheorems, SequenceTheorems, WellFoundedInduction, TLAPS

-----------------------------------------------------------------------------
(* The bytes of a text, and what of it fits into a page.                   *)
LEMMA LeastNumber ==
    ASSUME NEW N, N \subseteq Nat, NEW n \in N
    PROVE  \E k \in N : \A m \in N : k <= m
<1>1. PICK k \in N : \A m \in N : <<m, k>> \notin OpToRel(<, Nat)
  BY NatLessThanWellFounded, WFMin
<1>2. OpToRel(<, Nat) = {ss \in Nat \X Nat : ss[1] < ss[2]}  BY DEF OpToRel
<1>3. ASSUME NEW m \in N, m < k PROVE FALSE
  <2>1. <<m, k>> \in {ss \in Nat \X Nat : ss[1] < ss[2]}  BY <1>3
  <2> QED BY <1>1, <1>2, <2>1
<1> QED BY <1>3

(* Where a sequence has an element of X.                                   *)
Places(s, X) == {i \in DOMAIN s : s[i] \in X}

LEMMA PlacesFinite ==
    ASSUME NEW S, NEW s \in Seq(S), NEW X
    PROVE  /\ IsFiniteSet(Places(s, X)) /\ Cardinality(Places(s, X)) \in Nat /\ Cardinality(Places(s, X)) <= Len(s)
           /\ Len(s) \in Nat /\ DOMAIN s = 1..Len(s)
<1>1. Len(s) \in Nat /\ DOMAIN s = 1..Len(s)  BY LenProperties
<1>2. IsFiniteSet(1..Len(s)) /\ Cardinality(1..Len(s)) = Len(s)
  <2>1. IsFiniteSet(1..Len(s)) /\ Cardinality(1..Len(s)) = IF 1 > Len(s) THEN 0 ELSE Len(s) - 1 + 1
    BY <1>1, FS_Interval
  <2> QED BY <1>1, <2>1
<1>3. Places(s, X) \in SUBSET (1..Len(s))  BY <1>1 DEF Places
<1>4. IsFiniteSet(Places(s, X)) /\ Cardinality(Places(s, X)) <= Len(s)  BY <1>2, <1>3, FS_Subset
<1>5. Cardinality(Places(s, X)) \in Nat  BY <1>4, FS_CardinalityType
<1> QED BY <1>1, <1>4, <1>5

LEMMA PlacesAdd ==
    ASSUME NEW S, NEW s \in Seq(S), NEW t \in Seq(S), NEW X
    PROVE  /\ s \o t \in Seq(S) /\ Len(s \o t) = Len(s) + Len(t)
           /\ Cardinality(Places(s \o t, X)) = Cardinality(Places(s, X)) + Cardinality(Places(t, X))
<1> DEFINE n == Len(s)
           Moved == {i + n : i \in Places(t, X)}
           f == [i \in Places(t, X) |-> i + n]
<1>1. /\ s \o t \in Seq(S) /\ Len(s \o t) = n + Len(t) /\ n \in Nat /\ Len(t) \in Nat
      /\ \A i \in 1..(n + Len(t)) : (s \o t)[i] = IF i <= n THEN s[i] ELSE t[i - n]
      /\ DOMAIN s = 1..n /\ DOMAIN t = 1..Len(t) /\ DOMAIN (s \o t) = 1..(n + Len(t))
  <2>1. Len(s) \in Nat /\ Len(t) \in Nat /\ DOMAIN s = 1..Len(s) /\ DOMAIN t = 1..Len(t)  BY LenProperties
  <2>2. /\ s \o t \in Seq(S) /\ Len(s \o t) = Len(s) + Len(t)
        /\ \A i \in 1..(Len(s) + Len(t)) : (s \o t)[i] = IF i <= Len(s) THEN s[i] ELSE t[i - Len(s)]
    BY ConcatProperties
  <2>3. DOMAIN (s \o t) = 1..Len(s \o t)  BY <2>2, LenProperties
  <2> QED BY <2>1, <2>2, <2>3
<1>2. /\ IsFiniteSet(Places(s, X)) /\ IsFiniteSet(Places(t, X))
      /\ Cardinality(Places(s, X)) \in Nat /\ Cardinality(Places(t, X)) \in Nat
  BY PlacesFinite
<1> DEFINE m == Len(t)  st == s \o t
<1> HIDE DEF n, m, st
<1>3. Places(t, X) \subseteq 1..m /\ Places(s, X) \subseteq 1..n  BY <1>1 DEF Places, m
<1>4. IsFiniteSet(Moved) /\ Cardinality(Moved) = Cardinality(Places(t, X))
  <2>1. f \in Bijection(Places(t, X), Moved)
    <3>1. f \in [Places(t, X) -> Moved]  OBVIOUS
    <3>2. \A i, j \in Places(t, X) : f[i] = f[j] => i = j  BY <1>1, <1>3 DEF m
    <3>3. \A x \in Moved : \E i \in Places(t, X) : f[i] = x  OBVIOUS
    <3> HIDE DEF f, Moved
    <3>4. f \in Injection(Places(t, X), Moved) /\ f \in Surjection(Places(t, X), Moved)
      BY <3>1, <3>2, <3>3 DEF Injection, Surjection, IsInjective
    <3> QED BY <3>4 DEF Bijection
  <2>2. ExistsBijection(Places(t, X), Moved)
    <3> HIDE DEF f, Moved
    <3> QED BY <2>1 DEF ExistsBijection
  <2> HIDE DEF Moved
  <2> QED BY <1>2, <2>2, FS_Bijection
<1>5. Places(st, X) = Places(s, X) \cup Moved
  <2>1. ASSUME NEW i \in Places(st, X) PROVE i \in Places(s, X) \cup Moved
    <3>1. i \in 1..(n + m) /\ st[i] \in X  BY <2>1, <1>1 DEF Places, m, st
    <3>2. CASE i <= n
      <4>1. i \in 1..n /\ s[i] \in X  BY <3>1, <3>2, <1>1 DEF st, m
      <4> QED BY <4>1, <1>1 DEF Places
    <3>3. CASE ~(i <= n)
      <4>1. i - n \in 1..m /\ t[i - n] \in X /\ i = (i - n) + n  BY <3>1, <3>3, <1>1 DEF st, m
      <4>2. i - n \in Places(t, X)  BY <4>1, <1>1 DEF Places, m
      <4> QED BY <4>1, <4>2
    <3> QED BY <3>2, <3>3
  <2>2. ASSUME NEW i \in Places(s, X) PROVE i \in Places(st, X)
    <3>1. i \in 1..n /\ s[i] \in X /\ i \in 1..(n + m)  BY <2>2, <1>1, <1>3 DEF Places, m
    <3>2. st[i] \in X  BY <3>1, <1>1 DEF st, m
    <3> QED BY <3>1, <3>2, <1>1 DEF Places, st, m
  <2>3. ASSUME NEW i \in Places(t, X) PROVE i + n \in Places(st, X)
    <3>1. i \in 1..m /\ t[i] \in X /\ i + n \in 1..(n + m) /\ ~(i + n <= n) /\ (i + n) - n = i
      BY <2>3, <1>1, <1>3 DEF Places, m
    <3>2. st[i + n] \in X  BY <3>1, <1>1 DEF st, m
    <3> QED BY <3>1, <3>2, <1>1 DEF Places, st, m
  <2> QED BY <2>1, <2>2, <2>3
<1>6. Places(s, X) \cap Moved = {}
  <2> SUFFICES ASSUME NEW x \in Places(s, X), x \in Moved PROVE FALSE  OBVIOUS
  <2>1. PICK i \in Places(t, X) : x = i + n  OBVIOUS
  <2> QED BY <2>1, <1>1, <1>3 DEF m
<1> HIDE DEF Moved
<1>7. Cardinality(Places(st, X)) = Cardinality(Places(s, X)) + Cardinality(Places(t, X))
  <2>1. Cardinality(Places(s, X) \cup Moved) = Cardinality(Places(s, X)) + Cardinality(Moved) - Cardinality(Places(s, X) \cap Moved)
    BY <1>2, <1>4, FS_Union
  <2>2. Cardinality({}) = 0  BY FS_EmptySet
  <2>3. Cardinality(Places(s, X) \cap Moved) = 0  BY <2>2, <1>6
  <2>4. Cardinality(Places(s, X) \cup Moved) = Cardinality(Places(s, X)) + Cardinality(Places(t, X))
    BY <2>1, <2>3, <1>2, <1>4
  <2> QED BY <2>4, <1>5
<1> QED BY <1>1, <1>7 DEF st, m

Wide(s) == Places(s, {"w"})

LEMMA BytesTyped ==
    ASSUME NEW s \in Seq(Chars)
    PROVE  /\ Bytes(s) \in Nat /\ Len(s) \in Nat /\ Len(s) <= Bytes(s) /\ Bytes(s) <= Len(s) + Len(s)
           /\ Cardinality(Wide(s)) \in Nat /\ Bytes(s) = Len(s) + Cardinality(Wide(s))
<1>1. Len(s) \in Nat  BY LenProperties
<1>2. Cardinality(Wide(s)) \in Nat /\ Cardinality(Wide(s)) <= Len(s)  BY PlacesFinite DEF Wide
<1>3. {i \in DOMAIN s : s[i] = "w"} = Wide(s)  BY DEF Wide, Places
<1>4. Bytes(s) = Len(s) + Cardinality(Wide(s))  BY <1>3 DEF Bytes
<1> QED BY <1>1, <1>2, <1>4

LEMMA BytesAdd ==
    ASSUME NEW s \in Seq(Chars), NEW t \in Seq(Chars)
    PROVE  s \o t \in Seq(Chars) /\ Bytes(s \o t) = Bytes(s) + Bytes(t)
<1>1. /\ s \o t \in Seq(Chars) /\ Len(s \o t) = Len(s) + Len(t)
      /\ Cardinality(Wide(s \o t)) = Cardinality(Wide(s)) + Cardinality(Wide(t))
  BY PlacesAdd DEF Wide
<1>2. /\ Bytes(s) = Len(s) + Cardinality(Wide(s)) /\ Bytes(t) = Len(t) + Cardinality(Wide(t))
      /\ Len(s) \in Nat /\ Len(t) \in Nat /\ Cardinality(Wide(s)) \in Nat /\ Cardinality(Wide(t)) \in Nat
  BY BytesTyped
<1> DEFINE st == s \o t
<1>3. st \in Seq(Chars)  BY <1>1
<1> HIDE DEF st
<1>4. Bytes(st) = Len(st) + Cardinality(Wide(st))  BY <1>3, BytesTyped
<1> QED BY <1>1, <1>2, <1>4 DEF st

(* What the first n of s are, out of sight.                                *)
Opening(s, n) == SubSeq(s, 1, n)
Closing(s, n) == SubSeq(s, n + 1, Len(s))

LEMMA Parts ==
    ASSUME NEW S, NEW s \in Seq(S), NEW n \in 0..Len(s)
    PROVE  /\ Opening(s, n) \in Seq(S) /\ Closing(s, n) \in Seq(S) /\ s = Opening(s, n) \o Closing(s, n)
           /\ Len(Opening(s, n)) = n /\ Len(Closing(s, n)) = Len(s) - n
<1>1. Len(s) \in Nat /\ \A i \in 1..Len(s) : s[i] \in S  BY LenProperties, ElementOfSeq
<1> DEFINE L == Len(s)
<1> HIDE DEF L
<1>2. L \in Nat /\ n \in Nat /\ n <= L  BY <1>1 DEF L
<1>3. \A i \in 1..n : s[i] \in S  BY <1>1, <1>2 DEF L
<1>4. \A i \in (n + 1)..L : s[i] \in S  BY <1>1, <1>2 DEF L
<1>5. Opening(s, n) \in Seq(S) /\ Len(Opening(s, n)) = IF 1 <= n THEN n - 1 + 1 ELSE 0
  BY <1>2, <1>3, SubSeqProperties DEF Opening
<1>6. Closing(s, n) \in Seq(S) /\ Len(Closing(s, n)) = IF n + 1 <= L THEN L - (n + 1) + 1 ELSE 0
  <2>1. n + 1 \in Int /\ L \in Int  BY <1>2
  <2> QED BY <2>1, <1>4, SubSeqProperties DEF Closing, L
<1>7. Opening(s, n) \o Closing(s, n) = s
  <2>1. 1 \in 1..(L + 1) /\ n \in 0..L /\ L \in n..L /\ 1 - 1 = 0  BY <1>2
  <2>2. SubSeq(s, 1, n) \o SubSeq(s, n + 1, L) = SubSeq(s, 1, L)  BY <2>1, ConcatAdjacentSubSeq DEF L
  <2>3. SubSeq(s, 1, L) = s  BY SubSeqFull DEF L
  <2> QED BY <2>2, <2>3 DEF Opening, Closing, L
<1> QED BY <1>2, <1>5, <1>6, <1>7 DEF L

LEMMA BeginsOf ==
    ASSUME NEW S, NEW x \in Seq(S), NEW y \in Seq(S)
    PROVE  /\ x \o y \in Seq(S) /\ Len(x \o y) = Len(x) + Len(y) /\ Len(x) \in Nat /\ Len(y) \in Nat
           /\ Opening(x \o y, Len(x)) = x /\ Closing(x \o y, Len(x)) = y
<1>1. /\ x \o y \in Seq(S) /\ Len(x \o y) = Len(x) + Len(y) /\ Len(x) \in Nat /\ Len(y) \in Nat
      /\ \A i \in 1..(Len(x) + Len(y)) : (x \o y)[i] = IF i <= Len(x) THEN x[i] ELSE y[i - Len(x)]
  BY ConcatProperties, LenProperties
<1> DEFINE s == x \o y  n == Len(x)
<1>2. n \in 0..Len(s)  BY <1>1
<1> HIDE DEF s, n
<1>3. /\ Opening(s, n) \in Seq(S) /\ Closing(s, n) \in Seq(S) /\ s = Opening(s, n) \o Closing(s, n)
      /\ Len(Opening(s, n)) = n /\ Len(Closing(s, n)) = Len(s) - n
  BY <1>1, <1>2, Parts DEF s
<1>4. Opening(s, n) = x
  <2>1. \A i \in 1..n : SubSeq(s, 1, n)[i] = s[1 + i - 1]
    <3>1. \A i \in 1..n : s[i] \in S
      <4>1. \A i \in 1..n : s[i] = x[i] /\ x[i] \in S  BY <1>1, ElementOfSeq DEF s, n
      <4> QED BY <4>1
    <3>2. n \in Int /\ n - 1 + 1 = n  BY <1>1 DEF n
    <3> QED BY <3>1, <3>2, SubSeqProperties
  <2>2. \A i \in 1..n : Opening(s, n)[i] = x[i]
    <3> TAKE i \in 1..n
    <3>1. 1 + i - 1 = i /\ i <= n /\ i \in 1..(Len(x) + Len(y))  BY <1>1 DEF n
    <3>2. s[i] = x[i]  BY <3>1, <1>1 DEF s, n
    <3>3. SubSeq(s, 1, n)[i] = s[1 + i - 1]  BY <2>1
    <3> QED BY <3>1, <3>2, <3>3 DEF Opening
  <2> QED BY <1>3, <2>2, SeqEqual DEF n
<1>5. Closing(s, n) = y
  <2>1. x \o Closing(s, n) = x \o y  BY <1>3, <1>4 DEF s
  <2> QED BY <2>1, <1>3, ConcatSimplifications
<1> QED BY <1>1, <1>4, <1>5 DEF s, n

(* Joining is associative; out of sight, for the provers do not look for   *)
(* the places where it can be used.                                        *)
Associates(x, y, z) == (x \o y) \o z = x \o (y \o z)

LEMMA Joined == \A x, y, z \in Seq(Chars) : Associates(x, y, z)
<1> TAKE x, y, z \in Seq(Chars)
<1> QED BY ConcatAssociative DEF Associates

(* What fits is a beginning, and the next character would not.             *)
LEMMA FitsIs ==
    ASSUME NEW s \in Seq(Chars), NEW b \in Int
    PROVE  \E k \in 0..Len(s) : /\ FitsIn(s, b) = Opening(s, k)
                                /\ \A n \in 1..Len(s) : Bytes(Opening(s, n)) <= b <=> n <= k
<1> DEFINE L == Len(s)
           Out == {n \in 1..(L + 1) : n = L + 1 \/ ~(Bytes(Opening(s, n)) <= b)}
<1>1. L \in Nat  BY LenProperties
<1>2. L + 1 \in Out /\ Out \subseteq Nat  BY <1>1
<1>3. PICK m \in Out : \A n \in Out : m <= n
  <2> HIDE DEF Out
  <2> QED BY <1>2, LeastNumber
<1> DEFINE k == m - 1
<1>4. k \in 0..L /\ m = k + 1 /\ k \in Nat  BY <1>1, <1>3
<1>5. \A n \in 1..L : n <= k => Bytes(Opening(s, n)) <= b
  <2> TAKE n \in 1..L
  <2> HAVE n <= k
  <2>1. n \notin Out  BY <1>1, <1>3, <1>4
  <2> QED BY <1>1, <2>1
<1>6. \A n \in 1..L : n > k => ~(Bytes(Opening(s, n)) <= b)
  <2> TAKE n \in 1..L
  <2> HAVE n > k
  <2>1. m # L + 1 /\ ~(Bytes(Opening(s, m)) <= b) /\ m \in 0..L /\ n \in 0..L /\ m <= n  BY <1>1, <1>3, <1>4
  <2> HIDE DEF k, Out
  <2>2. /\ Opening(s, n) \in Seq(Chars) /\ Len(Opening(s, n)) = n  BY <2>1, Parts DEF L
  <2> DEFINE p == Opening(s, n)
  <2>3. p \in Seq(Chars) /\ Len(p) = n /\ m \in 0..Len(p)  BY <2>1, <2>2, <1>1
  <2>4. p = Opening(p, m) \o Closing(p, m) /\ Opening(p, m) \in Seq(Chars) /\ Closing(p, m) \in Seq(Chars)
    <3> HIDE DEF p
    <3> QED BY <2>3, Parts
  <2>5. Opening(p, m) = Opening(s, m)
    <3>1. CASE m = 0
      <4>1. SubSeq(p, 1, 0) = <<>> /\ SubSeq(s, 1, 0) = <<>>  BY SubSeqEmpty
      <4> QED BY <3>1, <4>1 DEF Opening
    <3>2. CASE m # 0
      <4>1. n \in 1..Len(s) /\ 1 \in 1..Len(s) /\ 1 \in 1..(n - 1 + 1) /\ m \in 1..(n - 1 + 1) /\ 1 + 1 - 1 = 1 /\ 1 + m - 1 = m
        BY <2>1, <3>2, <1>1 DEF L
      <4>2. SubSeq(SubSeq(s, 1, n), 1, m) = SubSeq(s, 1 + 1 - 1, 1 + m - 1)  BY <4>1, <2>2, SubSeqOfSubSeq
      <4> QED BY <4>1, <4>2 DEF Opening
    <3> QED BY <3>1, <3>2
  <2>6. Bytes(p) = Bytes(Opening(s, m)) + Bytes(Closing(p, m)) /\ Bytes(Closing(p, m)) \in Nat /\ Bytes(Opening(s, m)) \in Nat
    <3> HIDE DEF p
    <3>1. Bytes(Opening(p, m) \o Closing(p, m)) = Bytes(Opening(p, m)) + Bytes(Closing(p, m))  BY <2>4, BytesAdd
    <3>2. Bytes(Opening(p, m)) \in Nat /\ Bytes(Closing(p, m)) \in Nat  BY <2>4, BytesTyped
    <3> QED BY <2>4, <2>5, <3>1, <3>2
  <2> QED BY <2>1, <2>6
<1> HIDE DEF k, Out
<1>7. {n \in DOMAIN s : Bytes(SubSeq(s, 1, n)) <= b} = 1..k
  <2>1. DOMAIN s = 1..L  BY LenProperties DEF L
  <2>2. \A n \in 1..L : Bytes(SubSeq(s, 1, n)) <= b <=> n <= k
    <3> TAKE n \in 1..L
    <3>1. Bytes(Opening(s, n)) <= b <=> n <= k  BY <1>1, <1>4, <1>5, <1>6
    <3> QED BY <3>1 DEF Opening
  <2>3. \A n : n \in 1..k <=> n \in 1..L /\ n <= k  BY <1>1, <1>4
  <2> QED BY <2>1, <2>2, <2>3
<1>8. Cardinality(1..k) = k
  <2>1. Cardinality(1..k) = IF 1 > k THEN 0 ELSE k - 1 + 1  BY <1>4, FS_Interval
  <2> QED BY <2>1, <1>4
<1>9. FitsIn(s, b) = Opening(s, k)  BY <1>7, <1>8 DEF FitsIn, Opening
<1>10. \A n \in 1..L : Bytes(Opening(s, n)) <= b <=> n <= k  BY <1>1, <1>4, <1>5, <1>6
<1> QED BY <1>4, <1>9, <1>10 DEF L

LEMMA FitsSplits ==
    ASSUME NEW s \in Seq(Chars), NEW b \in Int
    PROVE  /\ FitsIn(s, b) \in Seq(Chars) /\ After(s, FitsIn(s, b)) \in Seq(Chars)
           /\ s = FitsIn(s, b) \o After(s, FitsIn(s, b))
           /\ FitsIn(s, b) = <<>> /\ s # <<>> => b <= 1
           /\ b = 0 => FitsIn(s, b) = <<>> /\ After(s, FitsIn(s, b)) = s
<1>1. PICK k \in 0..Len(s) : /\ FitsIn(s, b) = Opening(s, k)
                             /\ \A n \in 1..Len(s) : Bytes(Opening(s, n)) <= b <=> n <= k
  BY FitsIs
<1>2. /\ Opening(s, k) \in Seq(Chars) /\ Closing(s, k) \in Seq(Chars) /\ s = Opening(s, k) \o Closing(s, k)
      /\ Len(Opening(s, k)) = k
  BY Parts
<1>3. Len(s) \in Nat /\ (s # <<>> => Len(s) # 0)  BY LenProperties, EmptySeq
<1>4. After(s, FitsIn(s, b)) = Closing(s, k)  BY <1>1, <1>2 DEF After, Closing
<1>5. Len(<<>>) = 0  BY EmptySeq
<1>6. ASSUME FitsIn(s, b) = <<>>, s # <<>> PROVE b <= 1
  <2>1. k = 0  BY <1>1, <1>2, <1>6, EmptySeq
  <2>2. 1 \in 1..Len(s) /\ 1 \in 0..Len(s)  BY <1>3, <1>6
  <2>3. ~(Bytes(Opening(s, 1)) <= b)  BY <1>1, <2>1, <2>2
  <2>4. Opening(s, 1) \in Seq(Chars) /\ Len(Opening(s, 1)) = 1  BY <2>2, Parts
  <2>5. Bytes(Opening(s, 1)) \in Nat /\ Bytes(Opening(s, 1)) <= 1 + 1  BY <2>4, BytesTyped
  <2> QED BY <2>3, <2>5
<1>7. ASSUME b = 0 PROVE FitsIn(s, b) = <<>> /\ After(s, FitsIn(s, b)) = s
  <2>1. k = 0
    <3> SUFFICES ASSUME k # 0 PROVE FALSE  OBVIOUS
    <3>1. k \in 1..Len(s) /\ k \in Nat  BY <1>3
    <3>2. Bytes(Opening(s, k)) <= 0  BY <1>1, <1>7, <3>1
    <3>3. Bytes(Opening(s, k)) \in Nat /\ k <= Bytes(Opening(s, k))  BY <1>2, BytesTyped
    <3> QED BY <3>1, <3>2, <3>3
  <2>2. FitsIn(s, b) = <<>>
    <3>1. SubSeq(s, 1, 0) = <<>>  BY SubSeqEmpty
    <3> QED BY <1>1, <2>1, <3>1 DEF Opening
  <2>3. <<>> \o Closing(s, k) = Closing(s, k)  BY <1>2, ConcatEmptySeq
  <2> QED BY <1>1, <1>2, <1>4, <2>2, <2>3
<1> QED BY <1>1, <1>2, <1>4, <1>6, <1>7

LEMMA FitsPrefix ==
    ASSUME NEW x \in Seq(Chars), NEW y \in Seq(Chars)
    PROVE  FitsIn(x \o y, Bytes(x)) = x /\ After(x \o y, x) = y
<1> DEFINE s == x \o y
<1>1. s \in Seq(Chars) /\ Len(s) = Len(x) + Len(y) /\ Opening(s, Len(x)) = x /\ Closing(s, Len(x)) = y
      /\ Len(x) \in Nat /\ Len(y) \in Nat
  BY BeginsOf
<1> HIDE DEF s
<1>2. Bytes(x) \in Nat  BY BytesTyped
<1>3. PICK k \in 0..Len(s) : /\ FitsIn(s, Bytes(x)) = Opening(s, k)
                             /\ \A n \in 1..Len(s) : Bytes(Opening(s, n)) <= Bytes(x) <=> n <= k
  <2> DEFINE b == Bytes(x)
  <2>1. b \in Int  BY <1>2
  <2> HIDE DEF b
  <2>2. \E k \in 0..Len(s) : /\ FitsIn(s, b) = Opening(s, k)
                              /\ \A n \in 1..Len(s) : Bytes(Opening(s, n)) <= b <=> n <= k
    BY <1>1, <2>1, FitsIs
  <2> QED BY <2>2 DEF b
<1>4. Len(x) <= k
  <2>1. CASE Len(x) = 0  BY <2>1, <1>1, <1>3
  <2>2. CASE Len(x) # 0
    <3>1. Len(x) \in 1..Len(s)  BY <1>1, <2>2
    <3> QED BY <1>1, <1>2, <1>3, <3>1
  <2> QED BY <2>1, <2>2
<1>5. ~(Len(x) < k)
  <2> SUFFICES ASSUME Len(x) < k PROVE FALSE  OBVIOUS
  <2>1. k \in 1..Len(s)  BY <1>1, <1>3
  <2>2. Bytes(Opening(s, k)) <= Bytes(x)  BY <1>3, <2>1
  <2>3. k - Len(x) \in 0..Len(y) /\ k - Len(x) > 0  BY <1>1, <1>3
  <2> DEFINE z == Opening(y, k - Len(x))
  <2>4. z \in Seq(Chars) /\ Len(z) = k - Len(x) /\ y = z \o Closing(y, k - Len(x)) /\ Closing(y, k - Len(x)) \in Seq(Chars)
    BY <2>3, Parts
  <2> DEFINE u == Closing(y, k - Len(x))
  <2>8. u \in Seq(Chars) /\ y = z \o u /\ z \in Seq(Chars)  BY <2>4
  <2> HIDE DEF z, u
  <2>5. s = (x \o z) \o u /\ x \o z \in Seq(Chars) /\ Len(x \o z) = k /\ u \in Seq(Chars)
    <3>1. x \o (z \o u) = (x \o z) \o u
      <4>1. Associates(x, z, u)  BY <2>8, Joined
      <4> QED BY <4>1 DEF Associates
    <3>2. x \o z \in Seq(Chars) /\ Len(x \o z) = Len(x) + Len(z)  BY <2>4, ConcatProperties
    <3>3. Len(x \o z) = k
      <4> DEFINE a == Len(x)  c == Len(z)
      <4>1. a \in Nat /\ k \in Nat /\ c = k - a /\ Len(x \o z) = a + c  BY <1>1, <2>4, <3>2
      <4> HIDE DEF a, c
      <4> QED BY <4>1
    <3>4. s = x \o (z \o u)  BY <2>8 DEF s
    <3> QED BY <2>8, <3>1, <3>2, <3>3, <3>4
  <2>6. Opening(s, k) = x \o z  BY <2>5, BeginsOf
  <2>7. Bytes(x \o z) = Bytes(x) + Bytes(z) /\ Bytes(z) \in Nat /\ Len(z) <= Bytes(z)  BY <2>4, BytesAdd, BytesTyped
  <2> QED BY <1>2, <2>2, <2>3, <2>4, <2>6, <2>7
<1>6. k = Len(x)  BY <1>1, <1>3, <1>4, <1>5
<1> QED BY <1>1, <1>3, <1>6 DEF s, After, Closing

(* What is computed in steps, each from the one before, exists.            *)
IsSteps(r, step, start, L) == r[0] = start /\ \A n \in 1..L : r[n] = step[<<n, r[n - 1]>>]

LEMMA StepsExist ==
    ASSUME NEW T, NEW L \in Nat, NEW step \in [(1..L) \X T -> T], NEW start \in T
    PROVE  \E r \in [0..L -> T] : IsSteps(r, step, start, L)
<1> DEFINE Upto(m) == \E r \in [0..m -> T] : r[0] = start /\ \A n \in 1..m : r[n] = step[<<n, r[n - 1]>>]
           N == {m \in 0..L : ~Upto(m)}
<1>1. Upto(0)
  <2> DEFINE r == [n \in 0..0 |-> start]
  <2>1. r \in [0..0 -> T] /\ r[0] = start /\ \A n \in 1..0 : r[n] = step[<<n, r[n - 1]>>]  OBVIOUS
  <2> QED BY <2>1
<1>2. ASSUME NEW m \in 1..L, Upto(m - 1) PROVE Upto(m)
  <2>1. PICK r \in [0..(m - 1) -> T] : r[0] = start /\ \A n \in 1..(m - 1) : r[n] = step[<<n, r[n - 1]>>]
      BY <1>2
  <2> DEFINE s == [n \in 0..m |-> IF n = m THEN step[<<m, r[m - 1]>>] ELSE r[n]]
  <2>2. s \in [0..m -> T]  OBVIOUS
  <2>3. s[0] = start  BY <2>1
  <2>4. ASSUME NEW n \in 1..m PROVE s[n] = step[<<n, s[n - 1]>>]
    <3>1. CASE n = m
      <4>1. m \in 0..m /\ (m - 1) \in 0..m /\ m - 1 # m  OBVIOUS
      <4>2. s[m] = step[<<m, r[m - 1]>>] /\ s[m - 1] = r[m - 1]  BY <4>1
      <4> HIDE DEF s
      <4> QED BY <4>2, <3>1
    <3>2. CASE n # m
      <4>1. n \in 1..(m - 1) /\ n \in 0..m /\ (n - 1) \in 0..m /\ n - 1 # m  BY <3>2
      <4> QED BY <4>1, <3>2, <2>1
    <3> QED BY <3>1, <3>2
  <2> HIDE DEF s
  <2> QED BY <2>2, <2>3, <2>4
<1> HIDE DEF Upto
<1>3. N = {}
  <2> SUFFICES ASSUME N # {} PROVE FALSE  OBVIOUS
  <2>0. N \subseteq Nat /\ \E n \in N : TRUE  OBVIOUS
  <2>1. PICK k \in N : \A m \in N : k <= m
    <3> HIDE DEF N
    <3> QED BY <2>0, LeastNumber
  <2>2. k # 0  BY <1>1
  <2>3. k \in 1..L /\ (k - 1) \in 0..L /\ k - 1 \notin N  BY <2>1, <2>2
  <2> QED BY <1>2, <2>3
<1>4. Upto(L)  BY <1>3
<1> QED BY <1>4 DEF Upto, IsSteps

(* The lines of a text, none of them empty.                                *)
LineTexts == {s \in Seq(Chars) : s # <<>>}

LEMMA AddedLine ==
    ASSUME NEW ls \in Seq(LineTexts), NEW c \in Chars
    PROVE  AddToLines(ls, c) \in Seq(LineTexts)
<1>1. <<c>> \in LineTexts
  <2>1. <<>> \in Seq(Chars)  BY EmptySeq
  <2>2. Append(<<>>, c) \in Seq(Chars) /\ Append(<<>>, c) # <<>>  BY <2>1, AppendProperties
  <2> QED BY <2>2 DEF LineTexts
<1>2. CASE ls = <<>> \/ Last(Last(ls)) = "newline"
  BY <1>1, <1>2, AppendProperties DEF AddToLines
<1>3. CASE ~(ls = <<>> \/ Last(Last(ls)) = "newline")
  <2>1. Len(ls) \in Nat /\ Len(ls) # 0  BY <1>3, EmptySeq, LenProperties
  <2>2. Last(ls) \in LineTexts
    <3>1. Len(ls) \in 1..Len(ls)  BY <2>1
    <3> QED BY <3>1, ElementOfSeq DEF Last
  <2>3. Front(ls) \in Seq(LineTexts)
    <3>1. \A i \in 1..Len(ls) : ls[i] \in LineTexts  BY ElementOfSeq
    <3>2. \A i \in 1..(Len(ls) - 1) : ls[i] \in LineTexts  BY <2>1, <3>1
    <3>3. 1 \in Int /\ Len(ls) - 1 \in Int  BY <2>1
    <3> QED BY <3>2, <3>3, SubSeqProperties DEF Front
  <2>4. Append(Last(ls), c) \in LineTexts  BY <2>2, AppendProperties DEF LineTexts
  <2>5. Append(Front(ls), Append(Last(ls), c)) \in Seq(LineTexts)  BY <2>3, <2>4, AppendProperties
  <2> QED BY <1>3, <2>5 DEF AddToLines
<1> QED BY <1>2, <1>3

LEMMA LinesTyped ==
    ASSUME NEW t \in Seq(Chars)
    PROVE  /\ Lines(t) \in Seq(LineTexts) /\ Len(Lines(t)) \in Nat
           /\ \A i \in 1..Len(Lines(t)) : Lines(t)[i] \in Seq(Chars) /\ Lines(t)[i] # <<>>
<1> DEFINE L == Len(t)
           T == Seq(LineTexts)
           step == [x \in (1..L) \X T |-> AddToLines(x[2], t[x[1]])]
           Body(f) == [n \in 0 .. L |-> IF n = 0 THEN <<>> ELSE AddToLines(f[n - 1], t[n])]
           lines == CHOOSE f : f = Body(f)
<1>1. L \in Nat /\ \A n \in 1..L : t[n] \in Chars  BY LenProperties, ElementOfSeq
<1>2. <<>> \in T  BY EmptySeq
<1>3. ASSUME NEW x \in (1..L) \X T PROVE AddToLines(x[2], t[x[1]]) \in T
  <2>1. x[2] \in T /\ x[1] \in 1..L  OBVIOUS
  <2> HIDE DEF L
  <2>2. t[x[1]] \in Chars  BY <2>1, <1>1
  <2> QED BY <2>1, <2>2, AddedLine
<1>4. step \in [(1..L) \X T -> T]  BY <1>3
<1>5. \A n \in 1..L, u \in T : step[<<n, u>>] = AddToLines(u, t[n])  OBVIOUS
<1> HIDE DEF step, T, L
<1>6. PICK r \in [0..L -> T] : IsSteps(r, step, <<>>, L)  BY <1>1, <1>2, <1>4, StepsExist
<1>7. r = Body(r)
  <2>1. ASSUME NEW n \in 0..L
        PROVE  r[n] = IF n = 0 THEN <<>> ELSE AddToLines(r[n - 1], t[n])
    <3>1. CASE n = 0  BY <3>1, <1>6 DEF IsSteps
    <3>2. CASE n # 0
      <4>1. n \in 1..L /\ n - 1 \in 0..L  BY <3>2, <1>1
      <4>2. r[n - 1] \in T  BY <4>1
      <4>3. r[n] = step[<<n, r[n - 1]>>]  BY <4>1, <1>6 DEF IsSteps
      <4> QED BY <4>1, <4>2, <4>3, <1>5, <3>2
    <3> QED BY <3>1, <3>2
  <2> QED BY <2>1
<1>8. lines = Body(lines)
  <2> HIDE DEF Body
  <2> QED BY <1>7
<1> DEFINE Bad == {n \in 0..L : lines[n] \notin T}
<1>9. Bad = {}
  <2> SUFFICES ASSUME Bad # {} PROVE FALSE  OBVIOUS
  <2> HIDE DEF lines
  <2>0. Bad \subseteq Nat /\ \E n \in Bad : TRUE  BY <1>1
  <2>1. PICK k \in Bad : \A m \in Bad : k <= m
    <3> HIDE DEF Bad
    <3> QED BY <2>0, LeastNumber
  <2>2. k \in 0..L /\ lines[k] \notin T  OBVIOUS
  <2>3. Body(lines)[k] = IF k = 0 THEN <<>> ELSE AddToLines(lines[k - 1], t[k])  BY <2>2
  <2>4. lines[k] = IF k = 0 THEN <<>> ELSE AddToLines(lines[k - 1], t[k])
    <3> HIDE DEF Body
    <3> QED BY <2>3, <1>8
  <2>5. k # 0  BY <2>2, <2>4, <1>2
  <2>6. k \in 1..L /\ k - 1 \in 0..L /\ k - 1 \notin Bad  BY <2>1, <2>2, <2>5, <1>1
  <2>7. lines[k - 1] \in T /\ t[k] \in Chars  BY <2>6, <1>1
  <2> QED BY <2>2, <2>4, <2>5, <2>7, AddedLine DEF T
<1>10. lines[L] \in T  BY <1>1, <1>9
<1>11. Lines(t) = lines[L]  BY DEF Lines, L
<1> HIDE DEF lines
<1>12. Lines(t) \in Seq(LineTexts)  BY <1>10, <1>11 DEF T
<1>13. \A i \in 1..Len(Lines(t)) : Lines(t)[i] \in LineTexts  BY <1>12, ElementOfSeq
<1> QED BY <1>12, <1>13, LenProperties DEF LineTexts

(* Texts put together.                                                     *)
IsFlat(f, ls) ==
    /\ f[1] = ls[1]
    /\ \A i \in 1..Len(ls) : f[i] \in Seq(Chars)
    /\ \A i \in 2..Len(ls) : f[i] = f[i - 1] \o ls[i]

LEMMA FlatSteps ==
    ASSUME NEW ls \in Seq(Seq(Chars)), Len(ls) # 0
    PROVE  \E f : IsFlat(f, ls) /\ FlattenSeq(ls) = f[Len(ls)]
<1> DEFINE L == Len(ls)
           T == Seq(Chars)
           step == [x \in (1..L) \X T |-> x[2] \o ls[x[1]]]
           Body(f) == [i \in 1 .. L |-> IF i = 1 THEN ls[i] ELSE f[i - 1] \o ls[i]]
           flatten == CHOOSE f : f = Body(f)
<1>1. L \in Nat /\ \A n \in 1..L : ls[n] \in T  BY LenProperties, ElementOfSeq
<1>2. <<>> \in T  BY EmptySeq
<1>3. ASSUME NEW x \in (1..L) \X T PROVE x[2] \o ls[x[1]] \in T
  <2>1. x[2] \in T /\ x[1] \in 1..L  OBVIOUS
  <2> HIDE DEF L
  <2>2. ls[x[1]] \in T  BY <2>1, <1>1
  <2> QED BY <2>1, <2>2, ConcatProperties
<1>4. step \in [(1..L) \X T -> T]  BY <1>3
<1>5. \A n \in 1..L, u \in T : step[<<n, u>>] = u \o ls[n]  OBVIOUS
<1>14. L # 0  OBVIOUS
<1> HIDE DEF step, T, L
<1>6. PICK r \in [0..L -> T] : IsSteps(r, step, <<>>, L)  BY <1>1, <1>2, <1>4, StepsExist
<1> DEFINE g == [n \in 1..L |-> r[n]]
<1>7. g = Body(g)
  <2>1. ASSUME NEW n \in 1..L
        PROVE  r[n] = IF n = 1 THEN ls[n] ELSE r[n - 1] \o ls[n]
    <3>1. n - 1 \in 0..L /\ r[n - 1] \in T  BY <1>1
    <3>2. r[n] = step[<<n, r[n - 1]>>]  BY <1>6 DEF IsSteps
    <3>3. r[n] = r[n - 1] \o ls[n]  BY <3>1, <3>2, <1>5
    <3>4. CASE n = 1
      <4>1. r[n - 1] = <<>>  BY <3>4, <1>6 DEF IsSteps
      <4>2. <<>> \o ls[n] = ls[n]  BY <1>1, ConcatEmptySeq DEF T
      <4> QED BY <3>3, <3>4, <4>1, <4>2
    <3> QED BY <3>3, <3>4
  <2>2. ASSUME NEW n \in 1..L
        PROVE  g[n] = IF n = 1 THEN ls[n] ELSE g[n - 1] \o ls[n]
    <3>1. g[n] = r[n] /\ (n # 1 => g[n - 1] = r[n - 1])  BY <1>1
    <3> HIDE DEF g
    <3> QED BY <2>1, <3>1
  <2>3. g = [n \in 1..L |-> IF n = 1 THEN ls[n] ELSE g[n - 1] \o ls[n]]
    <3>1. g = [n \in 1..L |-> g[n]]  OBVIOUS
    <3> HIDE DEF g
    <3> QED BY <2>2, <3>1
  <2> QED BY <2>3
<1>8. flatten = Body(flatten)
  <2> HIDE DEF Body, g
  <2> QED BY <1>7
<1> DEFINE Bad == {n \in 1..L : flatten[n] \notin T}
<1>15. \A k \in 1..L : flatten[k] = IF k = 1 THEN ls[k] ELSE flatten[k - 1] \o ls[k]
  <2> HIDE DEF flatten
  <2> TAKE k \in 1..L
  <2>3. Body(flatten)[k] = IF k = 1 THEN ls[k] ELSE flatten[k - 1] \o ls[k]  OBVIOUS
  <2> HIDE DEF Body
  <2> QED BY <2>3, <1>8
<1> HIDE DEF flatten
<1>9. Bad = {}
  <2> SUFFICES ASSUME Bad # {} PROVE FALSE  OBVIOUS
  <2>0. Bad \subseteq Nat /\ \E n \in Bad : TRUE  BY <1>1
  <2>1. PICK k \in Bad : \A m \in Bad : k <= m
    <3> HIDE DEF Bad
    <3> QED BY <2>0, LeastNumber
  <2>2. k \in 1..L /\ flatten[k] \notin T  OBVIOUS
  <2>5. k # 1  BY <2>2, <1>1, <1>15
  <2>6. k - 1 \in 1..L /\ k - 1 \notin Bad  BY <2>1, <2>2, <2>5, <1>1
  <2>7. flatten[k - 1] \in T /\ ls[k] \in T  BY <2>6, <2>2, <1>1
  <2>8. flatten[k - 1] \o ls[k] \in T  BY <2>7, ConcatProperties DEF T
  <2> QED BY <2>2, <2>5, <2>8, <1>15
<1>10. IsFlat(flatten, ls)
  <2>1. flatten[1] = ls[1]  BY <1>1, <1>14, <1>15
  <2>2. \A i \in 1..L : flatten[i] \in T  BY <1>9
  <2>3. \A i \in 2..L : flatten[i] = flatten[i - 1] \o ls[i]
    <3> TAKE i \in 2..L
    <3>1. i \in 1..L /\ i # 1  BY <1>1
    <3>2. flatten[i] = IF i = 1 THEN ls[i] ELSE flatten[i - 1] \o ls[i]  BY <1>15, <3>1, Zenon
    <3> QED BY <3>1, <3>2, Zenon
  <2> QED BY <2>1, <2>2, <2>3 DEF IsFlat, L, T
<1>11. FlattenSeq(ls) = flatten[L]  BY <1>14 DEF FlattenSeq, L, flatten
<1> QED BY <1>10, <1>11 DEF L

LEMMA FlatTyped ==
    ASSUME NEW ls \in Seq(Seq(Chars))
    PROVE  FlattenSeq(ls) \in Seq(Chars) /\ (ls = <<>> => FlattenSeq(ls) = <<>>)
<1>1. Len(ls) \in Nat /\ (ls = <<>> <=> Len(ls) = 0) /\ <<>> \in Seq(Chars)  BY LenProperties, EmptySeq
<1>2. CASE Len(ls) = 0  BY <1>1, <1>2 DEF FlattenSeq
<1>3. CASE Len(ls) # 0
  <2>1. PICK f : IsFlat(f, ls) /\ FlattenSeq(ls) = f[Len(ls)]  BY <1>3, FlatSteps
  <2>2. Len(ls) \in 1..Len(ls)  BY <1>1, <1>3
  <2> QED BY <1>1, <1>3, <2>1, <2>2 DEF IsFlat
<1> QED BY <1>2, <1>3

LEMMA FlatHead ==
    ASSUME NEW s \in Seq(Seq(Chars)), NEW t \in Seq(Seq(Chars)), Len(s) = Len(t) + 1,
           \A j \in 1..Len(t) : s[j + 1] = t[j]
    PROVE  FlattenSeq(s) = s[1] \o FlattenSeq(t)
<1>1. Len(t) \in Nat /\ Len(s) # 0 /\ 1 \in 1..Len(s)  BY LenProperties
<1>2. /\ \A i \in 1..Len(s) : s[i] \in Seq(Chars)
      /\ \A i \in 1..Len(t) : t[i] \in Seq(Chars)
  BY ElementOfSeq
<1>3. PICK f : IsFlat(f, s) /\ FlattenSeq(s) = f[Len(s)]  BY <1>1, FlatSteps
<1>4. CASE Len(t) = 0
  <2>1. t = <<>>  BY <1>4, EmptySeq
  <2>2. FlattenSeq(t) = <<>>  BY <2>1, FlatTyped
  <2>3. s[1] \o <<>> = s[1]  BY <1>1, <1>2, ConcatEmptySeq
  <2>4. Len(s) = 1  BY <1>4
  <2> QED BY <1>3, <2>2, <2>3, <2>4 DEF IsFlat
<1>5. CASE Len(t) # 0
  <2>1. PICK g : IsFlat(g, t) /\ FlattenSeq(t) = g[Len(t)]  BY <1>5, FlatSteps
  <2> DEFINE L == Len(t)
             SameRest(j) == f[j + 1] = s[1] \o g[j]
             Bad == {j \in 1..L : ~SameRest(j)}
  <2>2. L \in Nat /\ L # 0 /\ Len(s) = L + 1  BY <1>1, <1>5
  <2>3. /\ f[1] = s[1] /\ g[1] = t[1]
        /\ \A i \in 1..L : g[i] \in Seq(Chars) /\ t[i] \in Seq(Chars) /\ s[i + 1] = t[i]
        /\ \A i \in 2..(L + 1) : f[i] = f[i - 1] \o s[i]
        /\ \A i \in 2..L : g[i] = g[i - 1] \o t[i]
        /\ s[1] \in Seq(Chars)
    BY <1>1, <1>2, <1>3, <2>1, <2>2 DEF IsFlat
  <2> HIDE DEF L, SameRest
  <2>4. Bad = {}
    <3> SUFFICES ASSUME Bad # {} PROVE FALSE  OBVIOUS
    <3>0. Bad \subseteq Nat /\ \E n \in Bad : TRUE  BY <2>2
    <3>1. PICK k \in Bad : \A m \in Bad : k <= m
      <4> HIDE DEF Bad
      <4> QED BY <3>0, LeastNumber
    <3>2. k \in 1..L /\ ~SameRest(k) /\ k \in Nat  BY <2>2
    <3>3. CASE k = 1
      <4>1. 2 \in 2..(L + 1) /\ 1 \in 1..L  BY <2>2
      <4>2. f[2] = f[1] \o s[2] /\ s[2] = t[1]
        <5>1. f[2] = f[2 - 1] \o s[2] /\ s[1 + 1] = t[1]  BY <4>1, <2>3
        <5> QED BY <5>1
      <4>3. 1 + 1 = 2  OBVIOUS
      <4>4. SameRest(1)  BY <4>2, <4>3, <2>3 DEF SameRest
      <4> QED BY <3>2, <3>3, <4>4
    <3>4. CASE k # 1
      <4>1. k - 1 \in 1..L /\ k - 1 \notin Bad /\ k \in 2..L /\ k + 1 \in 2..(L + 1) /\ (k + 1) - 1 = k /\ (k - 1) + 1 = k
        BY <3>1, <3>2, <3>4, <2>2
      <4>2. f[k] = s[1] \o g[k - 1]
        <5>1. SameRest(k - 1)  BY <4>1
        <5> QED BY <4>1, <5>1 DEF SameRest
      <4>3. f[k + 1] = f[k] \o s[k + 1] /\ s[k + 1] = t[k] /\ g[k] = g[k - 1] \o t[k]  BY <4>1, <3>2, <2>3
      <4>4. (s[1] \o g[k - 1]) \o t[k] = s[1] \o (g[k - 1] \o t[k])
        <5>1. g[k - 1] \in Seq(Chars) /\ t[k] \in Seq(Chars) /\ s[1] \in Seq(Chars)  BY <4>1, <3>2, <2>3
        <5>2. Associates(s[1], g[k - 1], t[k])  BY <5>1, Joined
        <5> QED BY <5>2 DEF Associates
      <4>5. SameRest(k)  BY <4>2, <4>3, <4>4 DEF SameRest
      <4> QED BY <3>2, <4>5
    <3> QED BY <3>3, <3>4
  <2>5. L \in 1..L /\ L \notin Bad
    <3>1. L \in 1..L  BY <2>2
    <3> HIDE DEF Bad
    <3> QED BY <3>1, <2>4
  <2>6. SameRest(L)  BY <2>5
  <2>7. f[L + 1] = s[1] \o g[L]  BY <2>6 DEF SameRest
  <2> QED BY <1>3, <2>1, <2>2, <2>7 DEF L
<1> QED BY <1>4, <1>5

-----------------------------------------------------------------------------
(* The pages of a text: what is left of it from a place on, and the places *)
(* a page may start at.                                                    *)
RestOf(line, o) == After(line, FitsIn(line, o))
Flat(t, i, lim) == FlattenSeq(SubSeq(Lines(t), i, lim))
LeftFrom(t, lim, i, o) == IF i >= lim THEN <<>> ELSE RestOf(Lines(t)[i + 1], o) \o Flat(t, i + 2, lim)
PlaceOK(t, lim, i, o) == i < lim /\ o < Bytes(Lines(t)[i + 1]) /\ IsBoundary(Lines(t)[i + 1], o)

LEMMA EmptyBytes == <<>> \in Seq(Chars) /\ Len(<<>>) = 0 /\ Bytes(<<>>) = 0
<1>1. <<>> \in Seq(Chars) /\ Len(<<>>) = 0  BY EmptySeq
<1>2. Bytes(<<>>) \in Nat /\ Bytes(<<>>) <= Len(<<>>) + Len(<<>>)  BY <1>1, BytesTyped
<1> QED BY <1>1, <1>2

LEMMA SomeBytes ==
    ASSUME NEW s \in Seq(Chars), s # <<>>
    PROVE  Bytes(s) \in Nat /\ Bytes(s) > 0
<1>1. Len(s) \in Nat /\ Len(s) # 0  BY EmptySeq, LenProperties
<1>2. Bytes(s) \in Nat /\ Len(s) <= Bytes(s)  BY BytesTyped
<1> QED BY <1>1, <1>2

LEMMA LineStarts ==
    ASSUME NEW line \in Seq(Chars), line # <<>>
    PROVE  RestOf(line, 0) = line /\ 0 < Bytes(line) /\ IsBoundary(line, 0)
<1>1. FitsIn(line, 0) = <<>> /\ After(line, FitsIn(line, 0)) = line  BY FitsSplits
<1> QED BY <1>1, SomeBytes, EmptyBytes DEF RestOf, IsBoundary

LEMMA RestHas ==
    ASSUME NEW line \in Seq(Chars), NEW o \in Nat
    PROVE  /\ RestOf(line, o) \in Seq(Chars) /\ FitsIn(line, o) \in Seq(Chars)
           /\ line = FitsIn(line, o) \o RestOf(line, o)
           /\ IsBoundary(line, o) /\ o < Bytes(line) => RestOf(line, o) # <<>>
<1>1. /\ FitsIn(line, o) \in Seq(Chars) /\ After(line, FitsIn(line, o)) \in Seq(Chars)
      /\ line = FitsIn(line, o) \o After(line, FitsIn(line, o))
  BY FitsSplits
<1> DEFINE f == FitsIn(line, o)  a == RestOf(line, o)
<1>2. f \in Seq(Chars) /\ a \in Seq(Chars) /\ line = f \o a  BY <1>1 DEF RestOf
<1>3. IsBoundary(line, o) => Bytes(f) = o  BY DEF IsBoundary
<1> HIDE DEF f, a
<1>4. Bytes(f \o a) = Bytes(f) + Bytes(a) /\ Bytes(f) \in Nat  BY <1>2, BytesAdd, BytesTyped
<1>5. ASSUME IsBoundary(line, o), o < Bytes(line), a = <<>> PROVE FALSE
  <2>1. Bytes(a) = 0  BY <1>5, EmptyBytes
  <2> QED BY <1>2, <1>3, <1>4, <1>5, <2>1
<1>6. IsBoundary(line, o) /\ o < Bytes(line) => a # <<>>  BY <1>5
<1> QED BY <1>2, <1>6 DEF f, a

RestSplit(line, o, b, part) ==
    /\ part \in Seq(Chars) /\ o + Bytes(part) \in Nat
    /\ RestOf(line, o + Bytes(part)) \in Seq(Chars)
    /\ RestOf(line, o) = part \o RestOf(line, o + Bytes(part))
    /\ part # RestOf(line, o) => o + Bytes(part) < Bytes(line) /\ IsBoundary(line, o + Bytes(part))
    /\ part = <<>> => b <= 1

LEMMA RestSplits ==
    ASSUME NEW line \in Seq(Chars), NEW o \in Nat, NEW b \in Int, o < Bytes(line), IsBoundary(line, o),
           NEW part, part = FitsIn(RestOf(line, o), b)
    PROVE  RestSplit(line, o, b, part)
<1> DEFINE f == FitsIn(line, o)  a == RestOf(line, o)  c == After(a, part)
<1>1. /\ f \in Seq(Chars) /\ a \in Seq(Chars) /\ line = f \o a /\ a # <<>> /\ Bytes(f) = o
  BY RestHas DEF IsBoundary
<1>2. part = FitsIn(a, b)  OBVIOUS
<1> HIDE DEF a, f
<1>3. /\ part \in Seq(Chars) /\ c \in Seq(Chars) /\ a = part \o c
      /\ part = <<>> => b <= 1
  <2>1. /\ FitsIn(a, b) \in Seq(Chars) /\ After(a, FitsIn(a, b)) \in Seq(Chars)
        /\ a = FitsIn(a, b) \o After(a, FitsIn(a, b))
        /\ FitsIn(a, b) = <<>> /\ a # <<>> => b <= 1
    BY <1>1, FitsSplits
  <2> QED BY <1>1, <1>2, <2>1
<1> HIDE DEF c
<1>4. Bytes(part) \in Nat /\ Bytes(c) \in Nat /\ Bytes(f \o part) = o + Bytes(part) /\ f \o part \in Seq(Chars)
  BY <1>1, <1>3, BytesAdd, BytesTyped
<1>5. line = (f \o part) \o c
  <2>1. Associates(f, part, c)  BY <1>1, <1>3, Joined
  <2> QED BY <1>1, <1>3, <2>1 DEF Associates
<1> DEFINE d == f \o part
<1>6. d \in Seq(Chars) /\ line = d \o c /\ Bytes(d) = o + Bytes(part)  BY <1>4, <1>5
<1> HIDE DEF d
<1>7. FitsIn(d \o c, Bytes(d)) = d /\ After(d \o c, d) = c  BY <1>3, <1>6, FitsPrefix
<1>8. FitsIn(line, o + Bytes(part)) = d /\ RestOf(line, o + Bytes(part)) = c  BY <1>6, <1>7 DEF RestOf
<1>9. IsBoundary(line, o + Bytes(part))  BY <1>6, <1>8 DEF IsBoundary
<1>10. ASSUME part # a PROVE o + Bytes(part) < Bytes(line)
  <2>1. c # <<>>
    <3>1. part \o <<>> = part  BY <1>3, ConcatEmptySeq
    <3> QED BY <3>1, <1>3, <1>10
  <2>2. Bytes(d \o c) = Bytes(d) + Bytes(c) /\ Bytes(c) > 0 /\ Bytes(d) \in Nat
    BY <1>3, <1>6, <2>1, BytesAdd, SomeBytes, BytesTyped
  <2>3. Bytes(line) = Bytes(d) + Bytes(c)  BY <1>6, <2>2
  <2>4. /\ Bytes(line) = Bytes(d) + Bytes(c) /\ Bytes(d) = o + Bytes(part) /\ Bytes(d) \in Nat
        /\ Bytes(c) \in Nat /\ Bytes(c) > 0 /\ Bytes(part) \in Nat
    BY <1>4, <1>6, <2>2, <2>3
  <2> QED BY <2>4
<1>11. a = part \o RestOf(line, o + Bytes(part)) /\ RestOf(line, o + Bytes(part)) \in Seq(Chars)  BY <1>3, <1>8
<1>12. o + Bytes(part) \in Nat  BY <1>4
<1>13. part # a => o + Bytes(part) < Bytes(line) /\ IsBoundary(line, o + Bytes(part))  BY <1>9, <1>10
<1> QED BY <1>3, <1>11, <1>12, <1>13 DEF a, RestSplit

LEMMA LinesAre ==
    ASSUME NEW t \in Seq(Chars)
    PROVE  /\ Lines(t) \in Seq(Seq(Chars)) /\ Len(Lines(t)) \in Nat
           /\ \A i \in 1..Len(Lines(t)) : Lines(t)[i] \in Seq(Chars) /\ Lines(t)[i] # <<>>
<1>1. /\ Lines(t) \in Seq(LineTexts) /\ Len(Lines(t)) \in Nat
      /\ \A i \in 1..Len(Lines(t)) : Lines(t)[i] \in Seq(Chars) /\ Lines(t)[i] # <<>>
  BY LinesTyped
<1> DEFINE ls == Lines(t)
<1> HIDE DEF ls
<1>2. Lines(t) \in Seq(Seq(Chars))
  <2>1. ls \in Seq(LineTexts) /\ \A i \in 1..Len(ls) : ls[i] \in Seq(Chars)  BY <1>1 DEF ls
  <2>2. ls \in [1..Len(ls) -> Seq(Chars)] /\ Len(ls) \in Nat  BY <2>1, LenProperties
  <2>3. ls \in Seq(Seq(Chars))  BY <2>2
  <2> QED BY <2>3 DEF ls
<1> QED BY <1>1, <1>2

LEMMA FlatNext ==
    ASSUME NEW t \in Seq(Chars), NEW lim \in 0..Len(Lines(t)), NEW i \in Nat
    PROVE  /\ Flat(t, i + 1, lim) \in Seq(Chars)
           /\ i >= lim => Flat(t, i + 1, lim) = <<>>
           /\ i < lim => Flat(t, i + 1, lim) = Lines(t)[i + 1] \o Flat(t, i + 2, lim)
<1> DEFINE ls == Lines(t)  S == Seq(Chars)
<1>1. ls \in Seq(S) /\ Len(ls) \in Nat /\ lim \in Nat /\ lim <= Len(ls) /\ \A j \in 1..Len(ls) : ls[j] \in S
  BY LinesAre
<1> HIDE DEF ls, S
<1>2. ASSUME NEW k \in Nat, k > 0
      PROVE  /\ SubSeq(ls, k, lim) \in Seq(S) /\ Len(SubSeq(ls, k, lim)) = IF k <= lim THEN lim - k + 1 ELSE 0
             /\ \A j \in 1..(lim - k + 1) : SubSeq(ls, k, lim)[j] = ls[k + j - 1]
  <2>1. \A j \in k..lim : ls[j] \in S  BY <1>1, <1>2
  <2>2. k \in Int /\ lim \in Int  BY <1>1
  <2> QED BY <2>1, <2>2, SubSeqProperties
<1> DEFINE s == SubSeq(ls, i + 1, lim)  u == SubSeq(ls, i + 2, lim)
<1>3. /\ s \in Seq(S) /\ Len(s) = IF i + 1 <= lim THEN lim - (i + 1) + 1 ELSE 0
      /\ \A j \in 1..(lim - (i + 1) + 1) : s[j] = ls[(i + 1) + j - 1]
  BY <1>2
<1>4. /\ u \in Seq(S) /\ Len(u) = IF i + 2 <= lim THEN lim - (i + 2) + 1 ELSE 0
      /\ \A j \in 1..(lim - (i + 2) + 1) : u[j] = ls[(i + 2) + j - 1]
  BY <1>2
<1> HIDE DEF s, u
<1>5. FlattenSeq(s) \in S /\ (s = <<>> => FlattenSeq(s) = <<>>)  BY <1>3, FlatTyped DEF S
<1>6. ASSUME i >= lim PROVE s = <<>>
  <2>1. Len(s) = 0  BY <1>1, <1>3, <1>6
  <2> QED BY <2>1, <1>3, EmptySeq
<1>7. ASSUME i < lim PROVE FlattenSeq(s) = ls[i + 1] \o FlattenSeq(u)
  <2>1. Len(s) = lim - i /\ Len(u) = lim - i - 1 /\ Len(s) = Len(u) + 1  BY <1>1, <1>3, <1>4, <1>7
  <2>2. \A j \in 1..Len(u) : s[j + 1] = u[j]
    <3> TAKE j \in 1..Len(u)
    <3>1. j \in 1..(lim - (i + 2) + 1) /\ j + 1 \in 1..(lim - (i + 1) + 1) /\ (i + 1) + (j + 1) - 1 = (i + 2) + j - 1
      BY <2>1, <1>1
    <3>2. s[j + 1] = ls[(i + 1) + (j + 1) - 1] /\ u[j] = ls[(i + 2) + j - 1]  BY <3>1, <1>3, <1>4
    <3> QED BY <3>1, <3>2
  <2>3. s[1] = ls[i + 1]
    <3>1. 1 \in 1..(lim - (i + 1) + 1) /\ (i + 1) + 1 - 1 = i + 1  BY <1>1, <1>7
    <3>2. s[1] = ls[(i + 1) + 1 - 1]  BY <3>1, <1>3
    <3> QED BY <3>1, <3>2
  <2>4. FlattenSeq(s) = s[1] \o FlattenSeq(u)  BY <1>3, <1>4, <2>1, <2>2, FlatHead DEF S
  <2> QED BY <2>3, <2>4
<1>8. /\ FlattenSeq(s) \in S
      /\ i >= lim => FlattenSeq(s) = <<>>
      /\ i < lim => FlattenSeq(s) = ls[i + 1] \o FlattenSeq(u)
  BY <1>5, <1>6, <1>7
<1>9. Flat(t, i + 1, lim) = FlattenSeq(s) /\ Flat(t, i + 2, lim) = FlattenSeq(u)  BY DEF Flat, s, u, ls
<1> QED BY <1>8, <1>9 DEF ls, S

LEMMA LeftAtStart ==
    ASSUME NEW t \in Seq(Chars), NEW lim \in 0..Len(Lines(t)), NEW i \in Nat
    PROVE  /\ LeftFrom(t, lim, i, 0) = Flat(t, i + 1, lim)
           /\ i < lim => PlaceOK(t, lim, i, 0)
<1>1. CASE i >= lim
  <2>1. Flat(t, i + 1, lim) = <<>>  BY <1>1, FlatNext
  <2>2. ~(i < lim)  BY <1>1, LinesAre
  <2> QED BY <1>1, <2>1, <2>2 DEF LeftFrom
<1>2. CASE i < lim
  <2>1. i + 1 \in 1..Len(Lines(t))  BY <1>2, LinesAre
  <2>2. Lines(t)[i + 1] \in Seq(Chars) /\ Lines(t)[i + 1] # <<>>  BY <2>1, LinesAre
  <2>3. RestOf(Lines(t)[i + 1], 0) = Lines(t)[i + 1] /\ 0 < Bytes(Lines(t)[i + 1]) /\ IsBoundary(Lines(t)[i + 1], 0)
    BY <2>2, LineStarts
  <2>4. ~(i >= lim)  BY <1>2, LinesAre
  <2>5. Flat(t, i + 1, lim) = Lines(t)[i + 1] \o Flat(t, i + 2, lim)  BY <1>2, FlatNext
  <2> QED BY <1>2, <2>3, <2>4, <2>5 DEF LeftFrom, PlaceOK
<1> QED BY <1>1, <1>2, LinesAre

LEMMA LeftTyped ==
    ASSUME NEW t \in Seq(Chars), NEW lim \in 0..Len(Lines(t)), NEW i \in Nat, NEW o \in Nat
    PROVE  /\ LeftFrom(t, lim, i, o) \in Seq(Chars)
           /\ PlaceOK(t, lim, i, o) => LeftFrom(t, lim, i, o) # <<>>
<1>1. CASE i >= lim
  <2>1. ~(i < lim)  BY <1>1, LinesAre
  <2> QED BY <1>1, <2>1, EmptyBytes DEF LeftFrom, PlaceOK
<1>2. CASE ~(i >= lim)
  <2>1. i + 1 \in 1..Len(Lines(t)) /\ i + 1 \in Nat  BY <1>2, LinesAre
  <2> DEFINE line == Lines(t)[i + 1]  a == RestOf(line, o)  b == Flat(t, i + 2, lim)
  <2>2. line \in Seq(Chars)  BY <2>1, LinesAre
  <2>3. b \in Seq(Chars)
    <3>1. Flat(t, (i + 1) + 1, lim) \in Seq(Chars)  BY <2>1, FlatNext
    <3>2. (i + 1) + 1 = i + 2  OBVIOUS
    <3> QED BY <3>1, <3>2
  <2>4. a \in Seq(Chars) /\ (IsBoundary(line, o) /\ o < Bytes(line) => a # <<>>)
    <3> HIDE DEF line
    <3> QED BY <2>2, RestHas
  <2>5. LeftFrom(t, lim, i, o) = a \o b  BY <1>2 DEF LeftFrom
  <2>6. PlaceOK(t, lim, i, o) => a # <<>>  BY <2>4 DEF PlaceOK
  <2> HIDE DEF a, b
  <2>7. a \o b \in Seq(Chars)  BY <2>3, <2>4, ConcatProperties
  <2>8. a # <<>> => a \o b # <<>>
    <3>1. Len(a \o b) = Len(a) + Len(b) /\ Len(a) \in Nat /\ Len(b) \in Nat  BY <2>3, <2>4, ConcatProperties, LenProperties
    <3>2. a # <<>> => Len(a) # 0  BY <2>4, EmptySeq
    <3>3. Len(<<>>) = 0  BY EmptyBytes
    <3> QED BY <3>1, <3>2, <3>3
  <2> QED BY <2>5, <2>6, <2>7, <2>8
<1> QED BY <1>1, <1>2

(* The requests and the pages under way.                                   *)
ReadReqs == [start : Nat \ {0}, end : Nat, lines : Nat \ {0}, bytes : Nat \ {0}, offset : Nat, expected : Seq(Chars) \cup {NoText}]
PageStates == [index : Nat, offset : Nat, got : Seq(Chars), stop : BOOLEAN, error : {"none", "offset", "small"}]
Settled(t, r, p) == p.error = "none" /\ p.index < Limit(t, r.end) => PlaceOK(t, Limit(t, r.end), p.index, p.offset)

(* What a page has and what is left are what was asked for, up to any line *)
(* of it.                                                                  *)
PageOK(t, r, p) ==
    /\ p.error = "none" =>
          p.got \o LeftFrom(t, Limit(t, r.end), p.index, p.offset)
              = LeftFrom(t, Limit(t, r.end), r.start - 1, r.offset)
    /\ p.error = "offset" => ~PlaceOK(t, Limit(t, r.end), r.start - 1, r.offset)
    /\ p.error = "small" => r.bytes = 1
    /\ p.error = "none" \/ p.stop \/ p.index >= Limit(t, r.end)
    /\ Settled(t, r, p) \/ (p.index = r.start - 1 /\ p.offset = r.offset /\ ~p.stop)

LEMMA BytesNat == \A s \in Seq(Chars) : Bytes(s) \in Nat
<1> TAKE s \in Seq(Chars)
<1> QED BY BytesTyped

LEMMA LimitTyped ==
    \A t \in Seq(Chars), end \in Nat :
        Limit(t, end) \in 0..Len(Lines(t)) /\ Limit(t, end) \in Nat /\ Len(Lines(t)) \in Nat
<1> TAKE t \in Seq(Chars), end \in Nat
<1> QED BY LinesAre DEF Limit, NoEnd

LEMMA ReqTyped ==
    \A r \in ReadReqs :
        /\ r.start \in Nat /\ r.start > 0 /\ r.start - 1 \in Nat /\ r.offset \in Nat /\ r.end \in Nat
        /\ r.lines \in Nat /\ r.lines > 0 /\ r.bytes \in Nat /\ r.bytes > 0
BY DEF ReadReqs

LEMMA FirstPage ==
    ASSUME NEW t \in Seq(Chars), NEW r \in ReadReqs
    PROVE  FirstOfPage(t, r) \in PageStates /\ PageOK(t, r, FirstOfPage(t, r))
<1> DEFINE p == FirstOfPage(t, r)  lim == Limit(t, r.end)
<1>1. /\ r.start \in Nat /\ r.start - 1 \in Nat /\ r.offset \in Nat /\ r.end \in Nat
      /\ lim \in 0..Len(Lines(t)) /\ lim \in Nat /\ Len(Lines(t)) \in Nat
  BY LimitTyped, ReqTyped
<1>2. /\ p.index = r.start - 1 /\ p.offset = r.offset /\ p.got = <<>> /\ p.stop = FALSE
      /\ p.error = IF r.start > Len(Lines(t)) /\ r.offset # 0 THEN "offset" ELSE "none"
  BY DEF FirstOfPage
<1>3. p \in PageStates  BY <1>1, EmptyBytes DEF FirstOfPage, PageStates
<1> HIDE DEF p
<1>4. <<>> \o LeftFrom(t, lim, r.start - 1, r.offset) = LeftFrom(t, lim, r.start - 1, r.offset)
  <2> DEFINE x == LeftFrom(t, lim, r.start - 1, r.offset)
  <2>1. x \in Seq(Chars)
    <3> HIDE DEF lim
    <3> QED BY <1>1, LeftTyped
  <2> HIDE DEF x
  <2> QED BY <2>1, ConcatEmptySeq DEF x
<1>5. ASSUME p.error # "none" PROVE p.index >= lim /\ p.error = "offset" /\ ~(r.start - 1 < lim)
  BY <1>1, <1>2, <1>5
<1> QED BY <1>2, <1>3, <1>4, <1>5 DEF PageOK, PlaceOK, p, lim

(* One line more.                                                          *)
LEMMA TakeLineOK ==
    ASSUME NEW t \in Seq(Chars), NEW r \in ReadReqs, NEW p \in PageStates, PageOK(t, r, p)
    PROVE  /\ TakeLine(t, r, p) \in PageStates
           /\ PageOK(t, r, TakeLine(t, r, p)) /\ Settled(t, r, TakeLine(t, r, p))
<1> DEFINE lim == Limit(t, r.end)  i == p.index  o == p.offset
           q == TakeLine(t, r, p)
<1>1. /\ r.start - 1 \in Nat /\ r.offset \in Nat /\ r.end \in Nat /\ r.bytes \in Nat /\ r.bytes > 0
      /\ lim \in 0..Len(Lines(t)) /\ lim \in Nat /\ Len(Lines(t)) \in Nat
      /\ i \in Nat /\ o \in Nat /\ p.got \in Seq(Chars)
  <2>1. i \in Nat /\ o \in Nat /\ p.got \in Seq(Chars)  BY DEF PageStates
  <2> QED BY <2>1, LimitTyped, ReqTyped
<1>2. CASE p.stop \/ i >= lim
  <2>1. q = p  BY <1>2 DEF TakeLine
  <2>2. Settled(t, r, p)
    <3>1. CASE p.stop  BY <3>1 DEF PageOK
    <3>2. CASE i >= lim  BY <3>2, <1>1 DEF Settled
    <3> QED BY <1>2, <3>1, <3>2
  <2> QED BY <2>1, <2>2
<1>3. CASE ~(p.stop \/ i >= lim)
  <2> DEFINE line == Lines(t)[i + 1]  rest == RestOf(line, o)  b == r.bytes - Bytes(p.got)
             part == FitsIn(rest, b)  whole == LeftFrom(t, lim, r.start - 1, r.offset)
             tail == Flat(t, i + 2, lim)
  <2>1. /\ p.error = "none" /\ i < lim /\ i + 1 \in 1..Len(Lines(t)) /\ p.stop = FALSE
        /\ i + 1 \in Nat
    BY <1>1, <1>3 DEF PageOK, PageStates
  <2>2. line \in Seq(Chars) /\ line # <<>>  BY <2>1, LinesAre
  <2>3. Bytes(p.got) \in Nat /\ b \in Int  BY <1>1, BytesNat
  <2>4. LeftFrom(t, lim, i, o) = rest \o tail  BY <1>3 DEF LeftFrom
  <2>5. p.got \o (rest \o tail) = whole  BY <2>1, <2>4 DEF PageOK
  <2>6. tail \in Seq(Chars) /\ whole \in Seq(Chars)
    <3>1. Flat(t, (i + 1) + 1, lim) \in Seq(Chars)  BY <2>1, <1>1, FlatNext
    <3>2. (i + 1) + 1 = i + 2  BY <1>1
    <3>3. tail \in Seq(Chars)  BY <3>1, <3>2
    <3>4. whole \in Seq(Chars)  BY <1>1, LeftTyped
    <3> QED BY <3>3, <3>4
  <2>7. PlaceOK(t, lim, i, o) <=> o < Bytes(line) /\ IsBoundary(line, o)  BY <2>1 DEF PlaceOK
  <2>8. CASE o >= Bytes(line) \/ ~IsBoundary(line, o)
    <3>1. q = [p EXCEPT !.stop = TRUE, !.error = "offset"]  BY <1>3, <2>8 DEF TakeLine
    <3>2. ~PlaceOK(t, lim, i, o)  BY <1>1, <2>2, <2>7, <2>8, BytesNat
    <3>3. i = r.start - 1 /\ o = r.offset  BY <2>1, <3>2 DEF PageOK, Settled
    <3>4. q \in PageStates /\ q.stop = TRUE /\ q.error = "offset"  BY <3>1 DEF PageStates
    <3>5. ~PlaceOK(t, lim, r.start - 1, r.offset)  BY <3>2, <3>3
    <3> HIDE DEF q
    <3> QED BY <3>4, <3>5 DEF PageOK, Settled, q
  <2>9. CASE ~(o >= Bytes(line) \/ ~IsBoundary(line, o))
    <3>1. o < Bytes(line) /\ IsBoundary(line, o)  BY <1>1, <2>2, <2>9, BytesNat
    <3>2. PlaceOK(t, lim, i, o)  BY <2>7, <3>1
    <3>3. /\ part \in Seq(Chars) /\ o + Bytes(part) \in Nat
          /\ RestOf(line, o + Bytes(part)) \in Seq(Chars)
          /\ rest = part \o RestOf(line, o + Bytes(part))
          /\ part # rest => o + Bytes(part) < Bytes(line) /\ IsBoundary(line, o + Bytes(part))
          /\ part = <<>> => b <= 1
      <4>1. part = FitsIn(RestOf(line, o), b)  OBVIOUS
      <4>2. line \in Seq(Chars) /\ o \in Nat /\ b \in Int  BY <1>1, <2>2, <2>3
      <4>3. rest = RestOf(line, o)  OBVIOUS
      <4> HIDE DEF part, b, line, o, rest
      <4>4. RestSplit(line, o, b, part)  BY <3>1, <4>1, <4>2, RestSplits
      <4> QED BY <4>3, <4>4 DEF RestSplit
    <3>4. q = IF part = <<>>
              THEN [p EXCEPT !.stop = TRUE, !.error = IF p.got = <<>> THEN "small" ELSE p.error]
              ELSE IF part # rest
              THEN [p EXCEPT !.stop = TRUE, !.got = p.got \o part, !.offset = o + Bytes(part)]
              ELSE [p EXCEPT !.got = p.got \o part, !.index = i + 1, !.offset = 0]
      BY <1>3, <2>9 DEF TakeLine, RestOf
    <3>5. part # <<>> => p.got \o part \in Seq(Chars)  BY <1>1, <3>3, ConcatProperties
    <3> HIDE DEF q
    <3>6. CASE part = <<>>
      <4>1. q = [p EXCEPT !.stop = TRUE, !.error = IF p.got = <<>> THEN "small" ELSE p.error]  BY <3>4, <3>6
      <4>2. q \in PageStates  BY <4>1, <2>1 DEF PageStates
      <4>3. /\ q.index = i /\ q.offset = o /\ q.got = p.got /\ q.stop = TRUE
            /\ q.error = (IF p.got = <<>> THEN "small" ELSE "none")
        BY <4>1, <2>1 DEF PageStates
      <4>4. ASSUME p.got = <<>> PROVE r.bytes = 1
        <5>1. r.bytes - Bytes(p.got) <= 1  BY <3>3, <3>6
        <5>2. Bytes(p.got) = 0  BY <4>4, EmptyBytes
        <5> QED BY <5>1, <5>2, <1>1
      <4>5. Settled(t, r, q)  BY <3>2, <4>3 DEF Settled
      <4>6. q.got \o LeftFrom(t, lim, q.index, q.offset) = whole  BY <2>4, <2>5, <4>3
      <4>7. q.error # "offset"  BY <4>3
      <4> HIDE DEF part, rest, b
      <4>8. PageOK(t, r, q)  BY <4>3, <4>4, <4>5, <4>6, <4>7 DEF PageOK
      <4> QED BY <4>2, <4>5, <4>8 DEF q
    <3>7. CASE part # <<>> /\ part # rest
      <4> DEFINE left == RestOf(line, o + Bytes(part))
      <4>1. q = [p EXCEPT !.stop = TRUE, !.got = p.got \o part, !.offset = o + Bytes(part)]  BY <3>4, <3>7
      <4>2. q \in PageStates  BY <4>1, <2>1, <3>3, <3>5, <3>7 DEF PageStates
      <4>3. /\ q.index = i /\ q.offset = o + Bytes(part) /\ q.got = p.got \o part /\ q.stop = TRUE /\ q.error = "none"
        BY <4>1, <2>1 DEF PageStates
      <4>4. PlaceOK(t, lim, q.index, q.offset)  BY <2>1, <3>3, <3>7, <4>3 DEF PlaceOK
      <4>5. Settled(t, r, q)  BY <4>4 DEF Settled
      <4>6. LeftFrom(t, lim, q.index, q.offset) = left \o tail  BY <1>3, <4>3 DEF LeftFrom
      <4>7. q.got \o LeftFrom(t, lim, q.index, q.offset) = whole
        <5> DEFINE g == p.got
        <5>1. g \in Seq(Chars) /\ part \in Seq(Chars) /\ left \in Seq(Chars) /\ tail \in Seq(Chars)
              /\ rest = part \o left
          BY <1>1, <2>6, <3>3
        <5>2. g \o (rest \o tail) = whole /\ q.got \o LeftFrom(t, lim, q.index, q.offset) = (g \o part) \o (left \o tail)
          BY <2>5, <4>3, <4>6
        <5> HIDE DEF g, part, left, tail, rest, whole
        <5>3. left \o tail \in Seq(Chars)  BY <5>1, ConcatProperties
        <5>4. (part \o left) \o tail = part \o (left \o tail)
          <6>1. Associates(part, left, tail)  BY <5>1, Joined
          <6> QED BY <6>1 DEF Associates
        <5>5. (g \o part) \o (left \o tail) = g \o (part \o (left \o tail))
          <6>1. Associates(g, part, left \o tail)  BY <5>1, <5>3, Joined
          <6> QED BY <6>1 DEF Associates
        <5> QED BY <5>1, <5>2, <5>4, <5>5
      <4> HIDE DEF part, rest, b, left, whole
      <4>8. PageOK(t, r, q)  BY <4>3, <4>5, <4>7 DEF PageOK, whole
      <4> QED BY <4>2, <4>5, <4>8 DEF q
    <3>8. CASE part # <<>> /\ part = rest
      <4>1. q = [p EXCEPT !.got = p.got \o part, !.index = i + 1, !.offset = 0]  BY <3>4, <3>8
      <4>2. q \in PageStates  BY <4>1, <2>1, <3>3, <3>5, <3>8 DEF PageStates
      <4>3. /\ q.index = i + 1 /\ q.offset = 0 /\ q.got = p.got \o part /\ q.stop = FALSE /\ q.error = "none"
        BY <4>1, <2>1 DEF PageStates
      <4>4. LeftFrom(t, lim, i + 1, 0) = tail /\ (i + 1 < lim => PlaceOK(t, lim, i + 1, 0))
        <5>1. LeftFrom(t, lim, i + 1, 0) = Flat(t, (i + 1) + 1, lim) /\ (i + 1 < lim => PlaceOK(t, lim, i + 1, 0))
          BY <1>1, <2>1, LeftAtStart
        <5>2. (i + 1) + 1 = i + 2  BY <1>1
        <5> QED BY <5>1, <5>2
      <4>5. Settled(t, r, q)  BY <4>3, <4>4 DEF Settled
      <4>6. q.got \o LeftFrom(t, lim, q.index, q.offset) = whole
        <5> DEFINE g == p.got
        <5>1. g \in Seq(Chars) /\ part \in Seq(Chars) /\ tail \in Seq(Chars)  BY <1>1, <2>6, <3>3
        <5>2. g \o (part \o tail) = whole /\ q.got \o LeftFrom(t, lim, q.index, q.offset) = (g \o part) \o tail
          BY <2>5, <3>8, <4>3, <4>4
        <5> HIDE DEF g, part, tail, rest, whole
        <5>3. Associates(g, part, tail)  BY <5>1, Joined
        <5> QED BY <5>2, <5>3 DEF Associates
      <4> HIDE DEF part, rest, b, whole
      <4>8. PageOK(t, r, q)  BY <4>3, <4>5, <4>6 DEF PageOK, whole
      <4> QED BY <4>2, <4>5, <4>8 DEF q
    <3> QED BY <3>6, <3>7, <3>8
  <2> QED BY <2>8, <2>9
<1> QED BY <1>2, <1>3

LEMMA PageIsOK ==
    ASSUME NEW t \in Seq(Chars), NEW r \in ReadReqs
    PROVE  Page(t, r) \in PageStates /\ PageOK(t, r, Page(t, r)) /\ Settled(t, r, Page(t, r))
<1> DEFINE L == r.lines
           T == {p \in PageStates : PageOK(t, r, p)}
           first == FirstOfPage(t, r)
           step == [x \in (1..L) \X T |-> TakeLine(t, r, x[2])]
           Body(f) == [n \in 0 .. L |-> IF n = 0 THEN first ELSE TakeLine(t, r, f[n - 1])]
           page == CHOOSE f : f = Body(f)
<1>1. L \in Nat /\ L > 0  BY ReqTyped
<1>2. first \in T  BY FirstPage
<1>3. \A p \in T : TakeLine(t, r, p) \in T /\ Settled(t, r, TakeLine(t, r, p))
  <2> TAKE p \in T
  <2> QED BY TakeLineOK
<1>4. step \in [(1..L) \X T -> T]  BY <1>3
<1>5. \A n \in 1..L, u \in T : step[<<n, u>>] = TakeLine(t, r, u)  OBVIOUS
<1>6. \A p \in T : p \in PageStates /\ PageOK(t, r, p)  OBVIOUS
<1> HIDE DEF step, T, L, first
<1>7. PICK s \in [0..L -> T] : IsSteps(s, step, first, L)  BY <1>1, <1>2, <1>4, StepsExist
<1>8. s = Body(s)
  <2>1. ASSUME NEW n \in 0..L
        PROVE  s[n] = IF n = 0 THEN first ELSE TakeLine(t, r, s[n - 1])
    <3>1. CASE n = 0  BY <3>1, <1>7 DEF IsSteps
    <3>2. CASE n # 0
      <4>1. n \in 1..L /\ n - 1 \in 0..L  BY <3>2, <1>1
      <4>2. s[n - 1] \in T  BY <4>1
      <4>3. s[n] = step[<<n, s[n - 1]>>]  BY <4>1, <1>7 DEF IsSteps
      <4> QED BY <4>1, <4>2, <4>3, <1>5, <3>2
    <3> QED BY <3>1, <3>2
  <2> QED BY <2>1
<1>9. page = Body(page)
  <2> HIDE DEF Body
  <2> QED BY <1>8
<1>10. \A n \in 0..L : page[n] = IF n = 0 THEN first ELSE TakeLine(t, r, page[n - 1])
  <2> HIDE DEF page
  <2> TAKE n \in 0..L
  <2>1. Body(page)[n] = IF n = 0 THEN first ELSE TakeLine(t, r, page[n - 1])  OBVIOUS
  <2> HIDE DEF Body
  <2> QED BY <2>1, <1>9
<1>11. Page(t, r) = page[L]  BY DEF Page, L, first
<1> HIDE DEF page
<1> DEFINE Bad == {n \in 0..L : page[n] \notin T}
<1>12. Bad = {}
  <2> SUFFICES ASSUME Bad # {} PROVE FALSE  OBVIOUS
  <2>0. Bad \subseteq Nat /\ \E n \in Bad : TRUE  BY <1>1
  <2>1. PICK k \in Bad : \A m \in Bad : k <= m
    <3> HIDE DEF Bad
    <3> QED BY <2>0, LeastNumber
  <2>2. k \in 0..L /\ page[k] \notin T  OBVIOUS
  <2>3. k # 0  BY <2>2, <1>2, <1>10
  <2>4. k - 1 \in 0..L /\ k - 1 \notin Bad  BY <2>1, <2>2, <2>3, <1>1
  <2>5. page[k - 1] \in T  BY <2>4
  <2> QED BY <2>2, <2>3, <2>5, <1>3, <1>10
<1>13. L \in 0..L /\ L # 0 /\ L - 1 \in 0..L  BY <1>1
<1>14. page[L] \in T /\ page[L - 1] \in T  BY <1>12, <1>13
<1>15. page[L] = TakeLine(t, r, page[L - 1])  BY <1>10, <1>13
<1> QED BY <1>3, <1>6, <1>11, <1>14, <1>15

(* What is asked for is what is left from the start of the request on.     *)
LEMMA AskedIsLeft ==
    ASSUME NEW t \in Seq(Chars), NEW r \in ReadReqs
    PROVE  /\ AskedRange(t, r) = LeftFrom(t, Limit(t, r.end), r.start - 1, r.offset)
           /\ AskedRange(t, r) \in Seq(Chars)
<1> DEFINE lim == Limit(t, r.end)  a == LeftFrom(t, lim, r.start - 1, r.offset)
<1>1. /\ r.start \in Nat /\ r.start > 0 /\ r.start - 1 \in Nat /\ r.offset \in Nat /\ (r.start - 1) + 1 = r.start
      /\ (r.start - 1) + 2 = r.start + 1
      /\ lim \in 0..Len(Lines(t)) /\ lim \in Nat /\ Len(Lines(t)) \in Nat /\ lim <= Len(Lines(t))
  <2>1. r.start \in Nat /\ r.start > 0 /\ r.start - 1 \in Nat /\ r.offset \in Nat /\ r.end \in Nat  BY ReqTyped
  <2>2. lim \in 0..Len(Lines(t)) /\ lim \in Nat /\ Len(Lines(t)) \in Nat  BY <2>1, LimitTyped
  <2> HIDE DEF lim
  <2> QED BY <2>1, <2>2
<1>2. a \in Seq(Chars)
  <2> HIDE DEF lim
  <2> QED BY <1>1, LeftTyped
<1>3. CASE r.start > lim
  <2>1. r.start - 1 >= lim  BY <1>1, <1>3
  <2> QED BY <1>2, <1>3, <2>1 DEF AskedRange, LeftFrom
<1>4. CASE ~(r.start > lim)
  <2>1. ~(r.start - 1 >= lim) /\ ~(r.start > Len(Lines(t)))  BY <1>1, <1>4
  <2>2. a = RestOf(Lines(t)[r.start], r.offset) \o FlattenSeq(SubSeq(Lines(t), r.start + 1, lim))
    <3>1. a = RestOf(Lines(t)[(r.start - 1) + 1], r.offset) \o FlattenSeq(SubSeq(Lines(t), (r.start - 1) + 2, lim))
      BY <2>1 DEF LeftFrom, Flat
    <3> QED BY <1>1, <3>1
  <2>3. AskedRange(t, r) = RestOf(Lines(t)[r.start], r.offset) \o FlattenSeq(SubSeq(Lines(t), r.start + 1, lim))
    BY <1>4, <2>1 DEF AskedRange, RestOf
  <2> QED BY <1>2, <2>2, <2>3
<1> QED BY <1>3, <1>4

LEMMA StrictPrefix == \A x, y \in Seq(Chars) : y # <<>> => IsStrictPrefix(x, x \o y)
<1> TAKE x, y \in Seq(Chars)
<1> HAVE y # <<>>
<1> DEFINE s == x \o y
<1>1. /\ s \in Seq(Chars) /\ Len(s) = Len(x) + Len(y) /\ Len(x) \in Nat /\ Len(y) \in Nat
      /\ Opening(s, Len(x)) = x
  BY BeginsOf
<1>2. Len(y) # 0  BY EmptySeq
<1>3. SubSeq(x, 1, Len(x)) = x  BY SubSeqFull
<1> HIDE DEF s
<1>4. s # x /\ Len(x) <= Len(s)  BY <1>1, <1>2
<1> QED BY <1>1, <1>3, <1>4 DEF IsStrictPrefix, IsPrefix, Opening, s

(* A page of request q of a read: the place of the next one.               *)
LEMMA NextPlace ==
    ASSUME NEW t \in Seq(Chars), NEW r \in ReadReqs, NEW got \in Seq(Chars), NEW asked \in ReadReqs,
           r.end = asked.end,
           AskedRange(t, asked) = got \o LeftFrom(t, Limit(t, r.end), r.start - 1, r.offset),
           Page(t, r).error = "none"
    PROVE  /\ got \o Page(t, r).got \in Seq(Chars)
           /\ AskedRange(t, asked) = (got \o Page(t, r).got) \o LeftFrom(t, Limit(t, r.end), Page(t, r).index, Page(t, r).offset)
           /\ Truncated(t, r) => PlaceOK(t, Limit(t, r.end), Page(t, r).index, Page(t, r).offset)
           /\ ~Truncated(t, r) => got \o Page(t, r).got = AskedRange(t, asked)
<1> DEFINE p == Page(t, r)  lim == Limit(t, r.end)  x == p.got  y == LeftFrom(t, lim, p.index, p.offset)
<1>1. p \in PageStates /\ PageOK(t, r, p) /\ Settled(t, r, p)  BY PageIsOK
<1>2. x \in Seq(Chars) /\ p.index \in Nat /\ p.offset \in Nat  BY <1>1 DEF PageStates
<1>3. lim \in 0..Len(Lines(t)) /\ lim \in Nat  BY LimitTyped, ReqTyped
<1>4. y \in Seq(Chars)
  <2> HIDE DEF lim, p
  <2> QED BY <1>2, <1>3, LeftTyped
<1>5. x \o y = LeftFrom(t, lim, r.start - 1, r.offset)  BY <1>1 DEF PageOK
<1>6. got \o x \in Seq(Chars) /\ AskedRange(t, asked) = (got \o x) \o y
  <2>1. AskedRange(t, asked) = got \o (x \o y)  BY <1>5
  <2> HIDE DEF x, y
  <2>2. Associates(got, x, y) /\ got \o x \in Seq(Chars)  BY <1>2, <1>4, Joined, ConcatProperties
  <2> QED BY <2>1, <2>2 DEF Associates
<1>7. Truncated(t, r) => PlaceOK(t, lim, p.index, p.offset)  BY <1>1 DEF Truncated, Settled
<1>8. ASSUME ~Truncated(t, r) PROVE got \o x = AskedRange(t, asked)
  <2>1. p.index >= lim  BY <1>2, <1>3, <1>8 DEF Truncated
  <2>2. y = <<>>  BY <2>1 DEF LeftFrom
  <2> DEFINE g == got \o x
  <2>3. g \in Seq(Chars) /\ AskedRange(t, asked) = g \o <<>>  BY <1>6, <2>2
  <2> HIDE DEF g
  <2>4. g \o <<>> = g  BY <2>3, ConcatEmptySeq
  <2> QED BY <2>3, <2>4 DEF g
<1> QED BY <1>6, <1>7, <1>8

-----------------------------------------------------------------------------
(* A read and a blame under way.                                           *)
PageSteps == {"look", "load", "rest", "check"}
PageEnds == {"read", "changed", "offset", "small"}
PageReaders ==
    [pc : PageSteps \cup PageEnds, request : ReadReqs, asked : ReadReqs, print : Nat, loaded : Seq(Chars),
     got : Seq(Chars), from : Seq(Chars) \cup {NoText}, since : Nat, contents : SUBSET Seq(Chars)]

(* The contents of the file since the call began, and what is known of the *)
(* one that was loaded when nobody wrote since its print was taken.        *)
SeenContents ==
    /\ text \in reader.contents
    /\ reader.since <= reader.print /\ reader.print <= writes
    /\ writes = reader.since => reader.contents = {text}
LoadedFresh ==
    reader.print = writes =>
        /\ reader.pc = "rest" => reader.loaded = Opening(text, Half)
        /\ reader.pc = "check" => reader.loaded = text

(* What was given and what is left are what was asked for, in one content. *)
GivenSoFar ==
    reader.pc \in PageSteps =>
        /\ reader.request.end = reader.asked.end
        /\ reader.from = NoText =>
              reader.got = <<>> /\ reader.request = reader.asked /\ reader.request.expected = NoText
        /\ reader.from # NoText =>
              /\ reader.from \in reader.contents /\ reader.request.expected = reader.from
              /\ AskedRange(reader.from, reader.asked)
                    = reader.got \o LeftFrom(reader.from, Limit(reader.from, reader.request.end),
                                             reader.request.start - 1, reader.request.offset)
              /\ PlaceOK(reader.from, Limit(reader.from, reader.request.end),
                         reader.request.start - 1, reader.request.offset)
GivenAtEnd ==
    /\ reader.pc = "read" =>
          reader.from \in reader.contents /\ reader.got = AskedRange(reader.from, reader.asked)
    /\ reader.pc = "changed" => writes > reader.since
    /\ reader.pc = "offset" => reader.from = NoText
    /\ reader.pc = "small" => reader.request.bytes = 1

PagesInv == reader \in PageReaders /\ SeenContents /\ LoadedFresh /\ GivenSoFar /\ GivenAtEnd

BlameSteps == {"count", "blame"}
BlameEnds == {"blamed", "failed"}
BlameReaders ==
    [pc : BlameSteps \cup BlameEnds, request : ReadReqs, asked : ReadReqs, print : Nat, loaded : Seq(Chars),
     got : Seq(Seq(Chars)), from : Seq(Chars) \cup {NoText}, since : Nat, contents : SUBSET Seq(Chars)]

(* The windows so far are the lines before the next one.                   *)
LinesOf(t, i, j) == SubSeq(Lines(t), i, j)
WindowsSoFar ==
    LET r == reader.request  a == reader.asked  last == Limit(text, reader.asked.end)
    IN  /\ reader.pc \in BlameSteps =>
              /\ reader.got = LinesOf(text, a.start, r.start - 1)
              /\ a.start <= r.start /\ (r.start = a.start \/ r.start <= last)
        /\ reader.pc = "count" => Limit(text, r.end) = last
        /\ reader.pc = "blame" => r.end = last
        /\ reader.pc = "blamed" => reader.got = LinesOf(text, a.start, last)
        /\ reader.pc # "failed"
BlameInv ==
    /\ reader \in BlameReaders
    /\ reader.since <= writes
    /\ reader.pc = "blame" => reader.request.start <= reader.request.end
    /\ writes = reader.since => WindowsSoFar

ReadInv ==
    /\ text \in Seq(Chars) /\ writes \in Nat
    /\ reader = [pc |-> "idle"] \/ PagesInv \/ BlameInv

LEMMA NoTextIsNone == NoText \notin Seq(Chars)
<1> SUFFICES ASSUME NoText \in Seq(Chars) PROVE FALSE  OBVIOUS
<1>1. Len(<<"none">>) = 1 /\ <<"none">>[1] = "none"  OBVIOUS
<1>2. <<"none">> \in Seq(Chars) /\ 1 \in 1..Len(<<"none">>)  BY <1>1 DEF NoText
<1>3. <<"none">>[1] \in Chars  BY <1>2, ElementOfSeq
<1> QED BY <1>1, <1>3 DEF Chars

LEMMA ReadInvInit == ReadInit => ReadInv
<1> SUFFICES ASSUME ReadInit PROVE ReadInv  OBVIOUS
<1>1. PICK n \in 0..MaxChars : text \in [1..n -> Chars]  BY DEF ReadInit, Texts
<1>2. n \in Nat  OBVIOUS
<1>3. text \in Seq(Chars)  BY <1>1, <1>2
<1> QED BY <1>3 DEF ReadInit, ReadInv

LEMMA ReadInvExact == ReadInv => PagesRejoin /\ BlameCovers
<1> SUFFICES ASSUME ReadInv PROVE PagesRejoin /\ BlameCovers  OBVIOUS
<1>1. CASE reader = [pc |-> "idle"]
  <2>1. reader.pc = "idle"  BY <1>1
  <2> QED BY <2>1 DEF PagesRejoin, BlameCovers
<1>2. CASE PagesInv
  <2>1. reader.pc \in PageSteps \cup PageEnds  BY <1>2 DEF PagesInv, PageReaders
  <2>2. BlameCovers  BY <2>1 DEF BlameCovers, PageSteps, PageEnds
  <2>3. ASSUME reader.pc \in PageSteps, reader.from # NoText
        PROVE  reader.from \in reader.contents /\ IsStrictPrefix(reader.got, AskedRange(reader.from, reader.asked))
    <3> DEFINE t == reader.from  r == reader.request  lim == Limit(t, r.end)
               y == LeftFrom(t, lim, r.start - 1, r.offset)
    <3>1. /\ t \in reader.contents /\ AskedRange(t, reader.asked) = reader.got \o y
          /\ PlaceOK(t, lim, r.start - 1, r.offset)
      BY <1>2, <2>3 DEF PagesInv, GivenSoFar
    <3>2. t \in Seq(Chars) /\ r \in ReadReqs /\ reader.got \in Seq(Chars)  BY <1>2, <2>3 DEF PagesInv, PageReaders
    <3>3. r.start - 1 \in Nat /\ r.offset \in Nat /\ lim \in 0..Len(Lines(t))  BY <3>2, ReqTyped, LimitTyped
    <3> DEFINE i == r.start - 1  o == r.offset
    <3>4. y \in Seq(Chars) /\ y # <<>>
      <4>1. i \in Nat /\ o \in Nat /\ PlaceOK(t, lim, i, o) /\ y = LeftFrom(t, lim, i, o)  BY <3>1, <3>3
      <4> HIDE DEF i, o, lim, t, y
      <4> QED BY <3>2, <3>3, <4>1, LeftTyped
    <3> HIDE DEF y
    <3>5. IsStrictPrefix(reader.got, reader.got \o y)  BY <3>2, <3>4, StrictPrefix
    <3> QED BY <3>1, <3>5
  <2> QED BY <1>2, <2>2, <2>3 DEF PagesRejoin, PagesInv, GivenAtEnd, PageSteps
<1>3. CASE BlameInv
  <2>1. reader.pc \in BlameSteps \cup BlameEnds  BY <1>3 DEF BlameInv, BlameReaders
  <2>2. PagesRejoin  BY <2>1 DEF PagesRejoin, BlameSteps, BlameEnds
  <2>3. BlameCovers
    <3> SUFFICES ASSUME reader.pc \in {"blamed", "failed"}, writes = reader.since
                 PROVE  reader.pc = "blamed" /\ reader.got = SubSeq(Lines(text), reader.asked.start, Limit(text, reader.asked.end))
      BY DEF BlameCovers
    <3>1. WindowsSoFar  BY <1>3 DEF BlameInv
    <3> QED BY <3>1 DEF WindowsSoFar, LinesOf
  <2> QED BY <2>2, <2>3
<1> QED BY <1>1, <1>2, <1>3 DEF ReadInv

LEMMA AskReadKeeps ==
    ASSUME ReadInv, NEW r \in Requests, AskRead(r)
    PROVE  ReadInv'
<1>1. text' = text /\ writes' = writes /\ text \in Seq(Chars) /\ writes \in Nat  BY DEF AskRead, ReadInv
<1>2. r \in ReadReqs /\ r.expected = NoText
  BY DEF Requests, ReadRequest, ReadReqs, NoEnd
<1>3. reader' = [pc |-> "look", request |-> r, asked |-> r, print |-> writes, loaded |-> <<>>,
                 got |-> <<>>, from |-> NoText, since |-> writes, contents |-> {text}]
  BY DEF AskRead
<1>4. (reader \in PageReaders)'  BY <1>1, <1>2, <1>3, EmptyBytes DEF PageReaders, PageSteps
<1>5. /\ reader'.pc = "look" /\ reader'.request = r /\ reader'.asked = r /\ reader'.print = writes
      /\ reader'.got = <<>> /\ reader'.from = NoText /\ reader'.since = writes /\ reader'.contents = {text}
  BY <1>3
<1>6. SeenContents' /\ LoadedFresh'  BY <1>1, <1>5 DEF SeenContents, LoadedFresh
<1>7. GivenSoFar' /\ GivenAtEnd'  BY <1>2, <1>5 DEF GivenSoFar, GivenAtEnd
<1> QED BY <1>1, <1>4, <1>6, <1>7 DEF ReadInv, PagesInv

LEMMA AtPageStep == ReadInv /\ reader.pc \in PageSteps => PagesInv /\ reader \in PageReaders
<1> SUFFICES ASSUME ReadInv, reader.pc \in PageSteps PROVE PagesInv /\ reader \in PageReaders  OBVIOUS
<1>1. CASE reader = [pc |-> "idle"]
  <2>1. reader.pc = "idle"  BY <1>1
  <2> QED BY <2>1 DEF PageSteps
<1>2. CASE BlameInv
  <2>1. reader.pc \in BlameSteps \cup BlameEnds  BY <1>2 DEF BlameInv, BlameReaders
  <2> QED BY <2>1 DEF PageSteps, BlameSteps, BlameEnds
<1> QED BY <1>1, <1>2 DEF ReadInv, PagesInv

LEMMA AtBlameStep == ReadInv /\ reader.pc \in BlameSteps => BlameInv /\ reader \in BlameReaders
<1> SUFFICES ASSUME ReadInv, reader.pc \in BlameSteps PROVE BlameInv /\ reader \in BlameReaders  OBVIOUS
<1>1. CASE reader = [pc |-> "idle"]
  <2>1. reader.pc = "idle"  BY <1>1
  <2> QED BY <2>1 DEF BlameSteps
<1>2. CASE PagesInv
  <2>1. reader.pc \in PageSteps \cup PageEnds  BY <1>2 DEF PagesInv, PageReaders
  <2> QED BY <2>1 DEF PageSteps, PageEnds, BlameSteps
<1> QED BY <1>1, <1>2 DEF ReadInv, BlameInv

LEMMA HalfTyped ==
    ASSUME text \in Seq(Chars)
    PROVE  Half \in 0..Len(text) /\ Len(text) \in Nat
<1>1. Len(text) \in Nat  BY LenProperties
<1> QED BY <1>1 DEF Half

LEMMA LookKeeps ==
    ASSUME ReadInv, Look
    PROVE  ReadInv'
<1>1. /\ text' = text /\ writes' = writes /\ text \in Seq(Chars) /\ writes \in Nat
      /\ reader' = [reader EXCEPT !.pc = "load", !.print = writes] /\ reader.pc = "look"
  BY DEF Look, ReadInv
<1>2. PagesInv /\ reader \in PageReaders  BY <1>1, AtPageStep DEF PageSteps
<1>3. (reader \in PageReaders)'  BY <1>1, <1>2 DEF PageReaders, PageSteps
<1>4. /\ reader'.pc = "load" /\ reader'.request = reader.request /\ reader'.asked = reader.asked
      /\ reader'.print = writes /\ reader'.got = reader.got /\ reader'.from = reader.from
      /\ reader'.since = reader.since /\ reader'.contents = reader.contents
  BY <1>1, <1>2 DEF PageReaders
<1>5. SeenContents' /\ LoadedFresh'
  <2>1. reader.since \in Nat /\ reader.print \in Nat  BY <1>2 DEF PageReaders
  <2> QED BY <1>1, <1>2, <1>4, <2>1 DEF PagesInv, SeenContents, LoadedFresh
<1>6. GivenSoFar'  BY <1>1, <1>2, <1>4 DEF PagesInv, GivenSoFar, PageSteps
<1>7. GivenAtEnd'  BY <1>4 DEF GivenAtEnd
<1> QED BY <1>1, <1>3, <1>5, <1>6, <1>7 DEF ReadInv, PagesInv

LEMMA LoadPartKeeps ==
    ASSUME ReadInv, LoadPart
    PROVE  ReadInv'
<1>1. /\ text' = text /\ writes' = writes /\ text \in Seq(Chars) /\ writes \in Nat
      /\ reader' = [reader EXCEPT !.pc = "rest", !.loaded = SubSeq(text, 1, Half)] /\ reader.pc = "load"
  BY DEF LoadPart, ReadInv
<1>2. PagesInv /\ reader \in PageReaders  BY <1>1, AtPageStep DEF PageSteps
<1>3. Opening(text, Half) \in Seq(Chars) /\ Opening(text, Half) = SubSeq(text, 1, Half)
  <2> DEFINE h == Half
  <2>1. h \in 0..Len(text)  BY <1>1, HalfTyped
  <2> HIDE DEF h
  <2>2. Opening(text, h) \in Seq(Chars)  BY <1>1, <2>1, Parts
  <2> QED BY <2>2 DEF h, Opening
<1>4. (reader \in PageReaders)'  BY <1>1, <1>2, <1>3 DEF PageReaders, PageSteps
<1>5. /\ reader'.pc = "rest" /\ reader'.request = reader.request /\ reader'.asked = reader.asked
      /\ reader'.print = reader.print /\ reader'.got = reader.got /\ reader'.from = reader.from
      /\ reader'.since = reader.since /\ reader'.contents = reader.contents
      /\ reader'.loaded = Opening(text, Half)
  BY <1>1, <1>2, <1>3 DEF PageReaders
<1>6. Half' = Half  BY <1>1 DEF Half
<1>7. SeenContents' /\ LoadedFresh'  BY <1>1, <1>2, <1>5, <1>6 DEF PagesInv, SeenContents, LoadedFresh
<1>8. GivenSoFar'  BY <1>1, <1>2, <1>5 DEF PagesInv, GivenSoFar, PageSteps
<1>9. GivenAtEnd'  BY <1>5 DEF GivenAtEnd
<1> QED BY <1>1, <1>4, <1>7, <1>8, <1>9 DEF ReadInv, PagesInv

LEMMA LoadRestKeeps ==
    ASSUME ReadInv, LoadRest
    PROVE  ReadInv'
<1> DEFINE more == SubSeq(text, Len(reader.loaded) + 1, Len(text))
<1>1. /\ text' = text /\ writes' = writes /\ text \in Seq(Chars) /\ writes \in Nat
      /\ reader' = [reader EXCEPT !.pc = "check", !.loaded = reader.loaded \o more] /\ reader.pc = "rest"
  BY DEF LoadRest, ReadInv
<1>2. PagesInv /\ reader \in PageReaders  BY <1>1, AtPageStep DEF PageSteps
<1>3. reader.loaded \in Seq(Chars)  BY <1>2 DEF PageReaders
<1>4. more \in Seq(Chars)
  <2>1. Len(reader.loaded) \in Nat /\ Len(text) \in Nat  BY <1>1, <1>3, LenProperties
  <2> DEFINE k == Len(reader.loaded) + 1  n == Len(text)
  <2>2. k \in Int /\ n \in Int /\ k > 0  BY <2>1
  <2>3. \A i \in k..n : text[i] \in Chars
    <3>1. \A i \in 1..Len(text) : text[i] \in Chars  BY <1>1, ElementOfSeq
    <3> QED BY <2>1, <3>1
  <2> HIDE DEF k, n
  <2>4. SubSeq(text, k, n) \in Seq(Chars)  BY <2>2, <2>3, SubSeqProperties
  <2> QED BY <2>4 DEF k, n
<1> DEFINE all == reader.loaded \o more
<1>5. all \in Seq(Chars)
  <2> HIDE DEF more
  <2> QED BY <1>3, <1>4, ConcatProperties
<1>6. ASSUME reader.loaded = Opening(text, Half) PROVE all = text
  <2> DEFINE h == Half
  <2>1. h \in 0..Len(text)  BY <1>1, HalfTyped
  <2> HIDE DEF h
  <2>2. text = Opening(text, h) \o Closing(text, h) /\ Len(Opening(text, h)) = h  BY <1>1, <2>1, Parts
  <2>3. reader.loaded = Opening(text, h)  BY <1>6 DEF h
  <2> QED BY <2>2, <2>3 DEF Closing
<1> HIDE DEF more
<1>7. (reader \in PageReaders)'
  <2> HIDE DEF all
  <2>1. reader' = [reader EXCEPT !.pc = "check", !.loaded = all]  BY <1>1 DEF all
  <2> QED BY <1>2, <1>5, <2>1 DEF PageReaders, PageSteps
<1>8. /\ reader'.pc = "check" /\ reader'.request = reader.request /\ reader'.asked = reader.asked
      /\ reader'.print = reader.print /\ reader'.got = reader.got /\ reader'.from = reader.from
      /\ reader'.since = reader.since /\ reader'.contents = reader.contents
      /\ reader'.loaded = all
  BY <1>1, <1>2 DEF PageReaders
<1> HIDE DEF all
<1>9. SeenContents' /\ LoadedFresh'
  BY <1>1, <1>2, <1>6, <1>8 DEF PagesInv, SeenContents, LoadedFresh
<1>10. GivenSoFar'  BY <1>1, <1>2, <1>8 DEF PagesInv, GivenSoFar, PageSteps
<1>11. GivenAtEnd'  BY <1>8 DEF GivenAtEnd
<1> QED BY <1>1, <1>7, <1>9, <1>10, <1>11 DEF ReadInv, PagesInv

(* A read ends: it says why.                                               *)
LEMMA EndsKeep ==
    ASSUME ReadInv, PagesInv, NEW e \in PageEnds, ReadEnds(e), UNCHANGED <<text, writes>>, e # "read",
           e = "changed" => writes > reader.since,
           e = "offset" => reader.from = NoText,
           e = "small" => reader.request.bytes = 1
    PROVE  ReadInv'
<1>1. /\ text' = text /\ writes' = writes /\ text \in Seq(Chars) /\ writes \in Nat
      /\ reader' = [reader EXCEPT !.pc = e] /\ reader \in PageReaders
  BY DEF ReadEnds, ReadInv, PagesInv
<1>2. (reader \in PageReaders)'  BY <1>1 DEF PageReaders
<1>3. /\ reader'.pc = e /\ reader'.request = reader.request /\ reader'.print = reader.print
      /\ reader'.from = reader.from /\ reader'.since = reader.since /\ reader'.contents = reader.contents
  BY <1>1 DEF PageReaders
<1>4. SeenContents' /\ LoadedFresh'  BY <1>1, <1>3 DEF PagesInv, SeenContents, LoadedFresh, PageEnds
<1>5. GivenSoFar'  BY <1>3 DEF GivenSoFar, PageSteps, PageEnds
<1>6. GivenAtEnd'  BY <1>1, <1>3 DEF GivenAtEnd
<1> QED BY <1>1, <1>2, <1>4, <1>5, <1>6 DEF ReadInv, PagesInv

NextOf(r, k, o, t) == [r EXCEPT !.start = k, !.offset = o, !.expected = t]

LEMMA NextRequest ==
    \A r \in ReadReqs, k \in Nat \ {0}, o \in Nat, t \in Seq(Chars) :
        /\ NextOf(r, k, o, t) \in ReadReqs /\ NextOf(r, k, o, t).start = k /\ NextOf(r, k, o, t).offset = o
        /\ NextOf(r, k, o, t).expected = t /\ NextOf(r, k, o, t).end = r.end
<1> TAKE r \in ReadReqs, k \in Nat \ {0}, o \in Nat, t \in Seq(Chars)
<1> QED BY DEF ReadReqs, NextOf

LEMMA NextWindow ==
    ASSUME NEW r \in ReadReqs, NEW k \in Nat \ {0}, NEW next, next = [r EXCEPT !.start = k]
    PROVE  next \in ReadReqs /\ next.start = k /\ next.end = r.end
BY DEF ReadReqs

LEMMA GivePageKeeps ==
    ASSUME ReadInv, GivePage
    PROVE  ReadInv'
<1> DEFINE t == reader.loaded  r == reader.request  p == Page(t, r)
           next == [r EXCEPT !.start = p.index + 1, !.offset = p.offset, !.expected = t]
           lim == Limit(t, r.end)
<1>1. /\ text' = text /\ writes' = writes /\ text \in Seq(Chars) /\ writes \in Nat /\ reader.pc = "check"
  BY DEF GivePage, ReadInv
<1>2. PagesInv /\ reader \in PageReaders /\ reader.pc \in PageSteps  BY <1>1, AtPageStep DEF PageSteps
<1>3. /\ t \in Seq(Chars) /\ r \in ReadReqs /\ reader.asked \in ReadReqs /\ reader.got \in Seq(Chars)
      /\ reader.from \in Seq(Chars) \cup {NoText} /\ reader.print \in Nat /\ reader.since \in Nat
  BY <1>2 DEF PageReaders
<1>4. p \in PageStates /\ PageOK(t, r, p)
  <2> HIDE DEF t, r
  <2> QED BY <1>3, PageIsOK
<1>5. SeenContents /\ LoadedFresh /\ GivenSoFar  BY <1>2 DEF PagesInv
<1>6. reader.from = NoText => r = reader.asked /\ reader.got = <<>> /\ r.expected = NoText
  BY <1>2, <1>5 DEF GivenSoFar
<1>7. reader.from # NoText =>
        /\ reader.from \in reader.contents /\ r.expected = reader.from
        /\ AskedRange(reader.from, reader.asked)
              = reader.got \o LeftFrom(reader.from, Limit(reader.from, r.end), r.start - 1, r.offset)
        /\ PlaceOK(reader.from, Limit(reader.from, r.end), r.start - 1, r.offset)
  BY <1>2, <1>5 DEF GivenSoFar
<1>8. CASE reader.print # writes \/ r.expected \notin {NoText, t}
  <2>1. ReadEnds("changed")  BY <1>8 DEF GivePage
  <2>2. writes > reader.since
    <3>1. CASE reader.print # writes  BY <1>1, <1>3, <1>5, <3>1 DEF SeenContents
    <3>2. CASE reader.print = writes /\ r.expected \notin {NoText, t}
      <4>1. t = text  BY <1>1, <1>5, <3>2 DEF LoadedFresh
      <4>2. reader.from # NoText  BY <1>6, <3>2
      <4>3. reader.from \in reader.contents /\ reader.from # text  BY <1>7, <3>2, <4>1, <4>2
      <4>4. writes # reader.since  BY <1>5, <4>3 DEF SeenContents
      <4> QED BY <1>1, <1>3, <1>5, <4>4 DEF SeenContents
    <3> QED BY <1>8, <3>1, <3>2
  <2>3. "changed" \in PageEnds  BY DEF PageEnds
  <2> QED BY <1>1, <1>2, <2>1, <2>2, <2>3, EndsKeep
<1>9. CASE ~(reader.print # writes \/ r.expected \notin {NoText, t})
  <2>1. t = text /\ t \in reader.contents /\ reader.print = writes  BY <1>1, <1>5, <1>9 DEF LoadedFresh, SeenContents
  <2>2. reader.from = NoText \/ reader.from = t
    <3>1. CASE reader.from # NoText  BY <1>7, <1>9, <3>1
    <3> QED BY <3>1
  <2>3. CASE p.error # "none"
    <3>1. ReadEnds(p.error)  BY <1>9, <2>3 DEF GivePage
    <3>2. p.error \in {"offset", "small"}  BY <1>4, <2>3 DEF PageStates
    <3>3. p.error = "offset" => reader.from = NoText
      <4>1. p.error = "offset" => ~PlaceOK(t, lim, r.start - 1, r.offset)  BY <1>4 DEF PageOK
      <4>2. reader.from = t /\ reader.from # NoText => PlaceOK(t, lim, r.start - 1, r.offset)
        <5> HIDE DEF t, r
        <5> QED BY <1>7 DEF lim
      <4> QED BY <2>2, <4>1, <4>2
    <3>4. p.error = "small" => reader.request.bytes = 1  BY <1>4 DEF PageOK
    <3> DEFINE e == p.error
    <3>5. e \in PageEnds /\ e # "read" /\ e # "changed" /\ ReadEnds(e)  BY <3>1, <3>2 DEF PageEnds
    <3>6. /\ e = "offset" => reader.from = NoText
          /\ e = "small" => reader.request.bytes = 1
      BY <3>3, <3>4
    <3> HIDE DEF e
    <3> QED BY <1>1, <1>2, <3>5, <3>6, EndsKeep
  <2>4. CASE p.error = "none"
    <3>1. reader' = [reader EXCEPT !.pc = IF Truncated(t, r) THEN "look" ELSE "read",
                          !.request = next, !.from = t, !.got = reader.got \o p.got]
      BY <1>9, <2>4 DEF GivePage
    <3>2. AskedRange(t, reader.asked) = reader.got \o LeftFrom(t, lim, r.start - 1, r.offset) /\ r.end = reader.asked.end
      <4>1. r.end = reader.asked.end  BY <1>2, <1>5 DEF GivenSoFar
      <4>2. CASE reader.from = NoText
        <5> DEFINE x == LeftFrom(t, lim, r.start - 1, r.offset)
        <5>1. AskedRange(t, r) = x /\ AskedRange(t, r) \in Seq(Chars)
          <6> HIDE DEF t, r
          <6> QED BY <1>3, AskedIsLeft DEF lim, x
        <5>2. <<>> \o x = x
          <6> HIDE DEF x
          <6> QED BY <5>1, ConcatEmptySeq
        <5> HIDE DEF x
        <5>3. r = reader.asked /\ reader.got = <<>>  BY <1>6, <4>2
        <5>4. AskedRange(t, reader.asked) = reader.got \o x  BY <5>1, <5>2, <5>3
        <5> QED BY <4>1, <5>4 DEF x
      <4>3. CASE reader.from # NoText  BY <1>7, <2>2, <4>1, <4>3
      <4> QED BY <4>2, <4>3
    <3>3. /\ reader.got \o p.got \in Seq(Chars)
          /\ AskedRange(t, reader.asked) = (reader.got \o p.got) \o LeftFrom(t, lim, p.index, p.offset)
          /\ Truncated(t, r) => PlaceOK(t, lim, p.index, p.offset)
          /\ ~Truncated(t, r) => reader.got \o p.got = AskedRange(t, reader.asked)
      <4> DEFINE g == reader.got  a == reader.asked
      <4>1. /\ t \in Seq(Chars) /\ r \in ReadReqs /\ g \in Seq(Chars) /\ a \in ReadReqs /\ r.end = a.end
            /\ AskedRange(t, a) = g \o LeftFrom(t, Limit(t, r.end), r.start - 1, r.offset)
            /\ Page(t, r).error = "none"
        BY <1>3, <2>4, <3>2
      <4> HIDE DEF t, r, g, a
      <4>2. /\ g \o Page(t, r).got \in Seq(Chars)
            /\ AskedRange(t, a) = (g \o Page(t, r).got) \o LeftFrom(t, Limit(t, r.end), Page(t, r).index, Page(t, r).offset)
            /\ Truncated(t, r) => PlaceOK(t, Limit(t, r.end), Page(t, r).index, Page(t, r).offset)
            /\ ~Truncated(t, r) => g \o Page(t, r).got = AskedRange(t, a)
        BY <4>1, NextPlace
      <4> QED BY <4>2 DEF g, a
    <3> DEFINE g2 == reader.got \o p.got  pc2 == IF Truncated(t, r) THEN "look" ELSE "read"
    <3>4. p.index \in Nat /\ p.offset \in Nat  BY <1>4 DEF PageStates
    <3>5. /\ next \in ReadReqs /\ next.start = p.index + 1 /\ next.offset = p.offset /\ next.expected = t /\ next.end = r.end
          /\ next.start - 1 = p.index
      <4> DEFINE i == p.index  o == p.offset
      <4> DEFINE k == i + 1
      <4>1. i \in Nat /\ o \in Nat /\ next = [r EXCEPT !.start = k, !.offset = o, !.expected = t]  BY <3>4
      <4> HIDE DEF i
      <4>0. k \in Nat \ {0}  BY <4>1
      <4> HIDE DEF next, k, o, p, t, r
      <4>2. next \in ReadReqs /\ next.start = k /\ next.offset = o /\ next.expected = t /\ next.end = r.end
        <5>1. r \in ReadReqs /\ t \in Seq(Chars) /\ o \in Nat  BY <1>3, <4>1
        <5>2. next = NextOf(r, k, o, t)  BY <4>1 DEF NextOf
        <5> QED BY <4>0, <5>1, <5>2, NextRequest
      <4>3. k - 1 = i  BY <4>1 DEF k
      <4> QED BY <4>2, <4>3 DEF i, o, k
    <3> HIDE DEF next, p
    <3>6. /\ reader' = [reader EXCEPT !.pc = pc2, !.request = next, !.from = t, !.got = g2] /\ g2 \in Seq(Chars)
          /\ pc2 \in PageSteps \cup PageEnds
      BY <3>1, <3>3 DEF PageSteps, PageEnds
    <3>7. /\ Truncated(t, r) => pc2 = "look"
          /\ ~Truncated(t, r) => pc2 = "read"
      OBVIOUS
    <3>8. /\ AskedRange(t, reader.asked) = g2 \o LeftFrom(t, lim, p.index, p.offset)
          /\ Truncated(t, r) => PlaceOK(t, lim, p.index, p.offset)
          /\ ~Truncated(t, r) => g2 = AskedRange(t, reader.asked)
      BY <3>3
    <3> HIDE DEF g2, pc2, t, r
    <3>9. (reader \in PageReaders)'  BY <1>2, <1>3, <3>5, <3>6 DEF PageReaders
    <3>10. /\ reader'.pc = pc2 /\ reader'.request = next /\ reader'.asked = reader.asked
           /\ reader'.print = reader.print /\ reader'.got = g2 /\ reader'.from = t
           /\ reader'.since = reader.since /\ reader'.contents = reader.contents
      BY <1>2, <3>6 DEF PageReaders
    <3>11. SeenContents' /\ LoadedFresh'
      BY <1>1, <1>5, <3>7, <3>10 DEF SeenContents, LoadedFresh
    <3>12. t # NoText  BY <1>3, NoTextIsNone
    <3>13. GivenSoFar'
      <4>1. CASE Truncated(t, r)
        <5>1. reader'.request.end = reader'.asked.end  BY <3>2, <3>5, <3>10
        <5>2. AskedRange(reader'.from, reader'.asked)
                 = reader'.got \o LeftFrom(reader'.from, Limit(reader'.from, reader'.request.end),
                                           reader'.request.start - 1, reader'.request.offset)
          BY <3>5, <3>8, <3>10 DEF lim
        <5>3. PlaceOK(reader'.from, Limit(reader'.from, reader'.request.end),
                      reader'.request.start - 1, reader'.request.offset)
          BY <3>5, <3>8, <3>10, <4>1 DEF lim
        <5>4. reader'.from \in reader'.contents /\ reader'.request.expected = reader'.from /\ reader'.from # NoText
          BY <2>1, <3>5, <3>10, <3>12
        <5> QED BY <5>1, <5>2, <5>3, <5>4 DEF GivenSoFar
      <4>2. CASE ~Truncated(t, r)  BY <3>7, <3>10, <4>2 DEF GivenSoFar, PageSteps
      <4> QED BY <4>1, <4>2
    <3>14. GivenAtEnd'  BY <2>1, <3>7, <3>8, <3>10 DEF GivenAtEnd
    <3> QED BY <1>1, <3>9, <3>11, <3>13, <3>14 DEF ReadInv, PagesInv
  <2> QED BY <2>3, <2>4
<1> QED BY <1>8, <1>9

LEMMA AskBlameKeeps ==
    ASSUME ReadInv, NEW start \in 1..2, NEW end \in {NoEnd, 2}, NEW lines \in 1..2, AskBlame(start, end, lines)
    PROVE  ReadInv'
<1> DEFINE r == ReadRequest(start, end, lines, 1, 0, NoText)
<1>1. text' = text /\ writes' = writes /\ text \in Seq(Chars) /\ writes \in Nat  BY DEF AskBlame, ReadInv
<1>2. r \in ReadReqs  BY DEF ReadRequest, ReadReqs, NoEnd
<1>3. reader' = [pc |-> "count", request |-> r, asked |-> r, print |-> writes, loaded |-> <<>>,
                 got |-> <<>>, from |-> NoText, since |-> writes, contents |-> {text}]
  BY DEF AskBlame
<1> HIDE DEF r
<1>4. (reader \in BlameReaders)'
  <2>1. <<>> \in Seq(Seq(Chars))  BY EmptySeq
  <2> QED BY <1>1, <1>2, <1>3, <2>1, EmptyBytes DEF BlameReaders, BlameSteps
<1>5. /\ reader'.pc = "count" /\ reader'.request = r /\ reader'.asked = r
      /\ reader'.got = <<>> /\ reader'.since = writes
  BY <1>3
<1>6. WindowsSoFar'
  <2>1. r.start \in Nat  BY <1>2, ReqTyped
  <2> DEFINE a == r.start  b == r.start - 1
  <2>2. a \in Int /\ b \in Int /\ b < a  BY <2>1
  <2>3. SubSeq(Lines(text'), a, b) = <<>>
    <3> DEFINE ls == Lines(text')
    <3> HIDE DEF a, b, ls
    <3>1. SubSeq(ls, a, b) = <<>>  BY <2>2, SubSeqEmpty
    <3> QED BY <3>1 DEF ls
  <2> QED BY <1>5, <2>1, <2>3 DEF WindowsSoFar, LinesOf, BlameSteps
<1> QED BY <1>1, <1>4, <1>5, <1>6 DEF ReadInv, BlameInv

LEMMA CountKeeps ==
    ASSUME ReadInv, CountLines
    PROVE  ReadInv'
<1> DEFINE r == reader.request  last == Limit(text, r.end)  a == reader.asked
<1>1. /\ text' = text /\ writes' = writes /\ text \in Seq(Chars) /\ writes \in Nat /\ reader.pc = "count"
  BY DEF CountLines, ReadInv
<1>2. BlameInv /\ reader \in BlameReaders  BY <1>1, AtBlameStep DEF BlameSteps
<1>3. r \in ReadReqs /\ a \in ReadReqs  BY <1>2 DEF BlameReaders
<1>4. /\ r.start \in Nat /\ r.end \in Nat /\ a.start \in Nat /\ a.end \in Nat /\ last \in Nat
      /\ Limit(text, a.end) \in Nat /\ r.start > 0
  BY <1>1, <1>3, ReqTyped, LimitTyped
<1>5. writes = reader.since => WindowsSoFar  BY <1>2 DEF BlameInv
<1>6. CASE r.start > last
  <2>1. reader' = [reader EXCEPT !.pc = "blamed"]  BY <1>6 DEF CountLines, ReadEnds
  <2>2. (reader \in BlameReaders)'  BY <1>2, <2>1 DEF BlameReaders, BlameEnds
  <2>3. /\ reader'.pc = "blamed" /\ reader'.asked = a /\ reader'.got = reader.got /\ reader'.since = reader.since
        /\ reader'.request = r
    BY <1>2, <2>1 DEF BlameReaders
  <2>4. ASSUME writes = reader.since PROVE WindowsSoFar'
    <3> DEFINE top == Limit(text, a.end)
    <3>1. /\ reader.got = LinesOf(text, a.start, r.start - 1) /\ last = top
          /\ a.start <= r.start /\ (r.start = a.start \/ r.start <= top)
      BY <1>1, <1>5, <2>4 DEF WindowsSoFar, BlameSteps
    <3>2. r.start = a.start /\ a.start > top  BY <1>4, <1>6, <3>1
    <3>3. LinesOf(text, a.start, r.start - 1) = LinesOf(text, a.start, top)
      <4> DEFINE ls == Lines(text)  k == a.start  b == r.start - 1
      <4>1. k \in Int /\ b \in Int /\ top \in Int /\ b < k /\ top < k  BY <1>4, <3>2
      <4> HIDE DEF ls, k, b, top
      <4>2. SubSeq(ls, k, b) = <<>> /\ SubSeq(ls, k, top) = <<>>  BY <4>1, SubSeqEmpty
      <4> QED BY <4>2 DEF LinesOf, ls, k, b
    <3> QED BY <1>1, <2>3, <3>1, <3>3 DEF WindowsSoFar, BlameSteps
  <2> QED BY <1>1, <1>2, <2>2, <2>3, <2>4 DEF ReadInv, BlameInv
<1>7. CASE ~(r.start > last)
  <2> DEFINE next == [r EXCEPT !.end = last]
  <2>1. reader' = [reader EXCEPT !.pc = "blame", !.request = next]  BY <1>7 DEF CountLines, Reading
  <2>2. next \in ReadReqs /\ next.start = r.start /\ next.end = last
    <3> HIDE DEF r, last
    <3> QED BY <1>3, <1>4 DEF ReadReqs
  <2> HIDE DEF next
  <2>3. (reader \in BlameReaders)'  BY <1>2, <2>1, <2>2 DEF BlameReaders, BlameSteps
  <2>4. /\ reader'.pc = "blame" /\ reader'.asked = a /\ reader'.got = reader.got /\ reader'.since = reader.since
        /\ reader'.request = next
    BY <1>2, <2>1 DEF BlameReaders
  <2>5. next.start <= next.end  BY <1>4, <1>7, <2>2
  <2>6. ASSUME writes = reader.since PROVE WindowsSoFar'
    <3>1. /\ reader.got = LinesOf(text, a.start, r.start - 1) /\ last = Limit(text, a.end)
          /\ a.start <= r.start /\ (r.start = a.start \/ r.start <= last)
      BY <1>1, <1>5, <2>6 DEF WindowsSoFar, BlameSteps
    <3> HIDE DEF r, a, last
    <3> QED BY <1>1, <2>2, <2>4, <3>1 DEF WindowsSoFar, BlameSteps
  <2> QED BY <1>1, <1>2, <2>3, <2>4, <2>5, <2>6 DEF ReadInv, BlameInv
<1> QED BY <1>6, <1>7

LEMMA BlameKeeps ==
    ASSUME ReadInv, Blame
    PROVE  ReadInv'
<1> DEFINE r == reader.request  final == FinalLine(r)  a == reader.asked  ls == Lines(text)
           window == SubSeq(ls, r.start, final)  top == Limit(text, a.end)
<1>1. /\ text' = text /\ writes' = writes /\ text \in Seq(Chars) /\ writes \in Nat /\ reader.pc = "blame"
  BY DEF Blame, ReadInv
<1>2. BlameInv /\ reader \in BlameReaders  BY <1>1, AtBlameStep DEF BlameSteps
<1>3. r \in ReadReqs /\ a \in ReadReqs /\ r.start <= r.end /\ reader.got \in Seq(Seq(Chars))
  BY <1>1, <1>2 DEF BlameReaders, BlameInv
<1>4. /\ r.start \in Nat /\ r.end \in Nat /\ a.start \in Nat /\ a.end \in Nat /\ r.start > 0 /\ r.lines \in Nat
      /\ r.lines > 0 /\ a.start > 0 /\ top \in 0..Len(ls) /\ top \in Nat
  BY <1>1, <1>3, ReqTyped, LimitTyped
<1>5. ls \in Seq(Seq(Chars)) /\ Len(ls) \in Nat /\ \A i \in 1..Len(ls) : ls[i] \in Seq(Chars)  BY <1>1, LinesAre
<1>6. final \in Nat /\ r.start <= final /\ final <= r.end
  <2> DEFINE s == r.start  e == r.end  l == r.lines
  <2>1. s \in Nat /\ e \in Nat /\ l \in Nat /\ l > 0 /\ s <= e  BY <1>3, <1>4
  <2>2. final = IF s + l - 1 < e THEN s + l - 1 ELSE e  BY DEF FinalLine
  <2> HIDE DEF final, s, e, l
  <2>3. final \in Nat /\ s <= final /\ final <= e  BY <2>1, <2>2
  <2> QED BY <2>3 DEF s, e
<1>7. writes = reader.since => WindowsSoFar  BY <1>2 DEF BlameInv
<1>8. ASSUME writes = reader.since
      PROVE  /\ reader.got = LinesOf(text, a.start, r.start - 1) /\ r.end = top
             /\ a.start <= r.start /\ final <= Len(ls)
  <2>1. /\ reader.got = LinesOf(text, a.start, r.start - 1) /\ r.end = top /\ a.start <= r.start
    BY <1>1, <1>7, <1>8 DEF WindowsSoFar, BlameSteps
  <2> QED BY <1>4, <1>5, <1>6, <2>1
<1>9. CASE final > Len(ls)
  <2>1. reader' = [reader EXCEPT !.pc = "failed"]  BY <1>9 DEF Blame, ReadEnds
  <2>2. (reader \in BlameReaders)'  BY <1>2, <2>1 DEF BlameReaders, BlameEnds
  <2>3. reader'.pc = "failed" /\ reader'.since = reader.since /\ reader'.request = r  BY <1>2, <2>1 DEF BlameReaders
  <2>4. writes # reader.since  BY <1>5, <1>6, <1>8, <1>9
  <2> QED BY <1>1, <1>2, <2>2, <2>3, <2>4 DEF ReadInv, BlameInv
<1>10. CASE ~(final > Len(ls))
  <2> DEFINE next == [r EXCEPT !.start = final + 1]  got2 == reader.got \o window
             pc2 == IF r.end > final THEN "count" ELSE "blamed"
  <2>1. reader' = [reader EXCEPT !.pc = pc2, !.got = got2, !.request = next]
    BY <1>2, <1>10 DEF Blame, BlameReaders
  <2>2. next \in ReadReqs /\ next.start = final + 1 /\ next.end = r.end
    <3> DEFINE k == final + 1
    <3>1. next = [r EXCEPT !.start = k]  OBVIOUS
    <3> HIDE DEF r, final, next
    <3>2. k \in Nat \ {0}  BY <1>6
    <3> HIDE DEF k
    <3>3. next \in ReadReqs /\ next.start = k /\ next.end = r.end  BY <1>3, <3>1, <3>2, NextWindow
    <3> QED BY <3>3 DEF k
  <2>3. window \in Seq(Seq(Chars))
    <3> DEFINE k == r.start
    <3>1. k \in Int /\ final \in Int /\ \A i \in k..final : ls[i] \in Seq(Chars)
      BY <1>4, <1>5, <1>6, <1>10
    <3> HIDE DEF k, final, ls
    <3> QED BY <3>1, SubSeqProperties DEF k
  <2>4. got2 \in Seq(Seq(Chars))
    <3> HIDE DEF window
    <3> QED BY <1>3, <2>3, ConcatProperties
  <2>5. ASSUME writes = reader.since PROVE got2 = LinesOf(text, a.start, final)
    <3> DEFINE m == a.start  k == r.start - 1
    <3>1. m \in 1..(Len(ls) + 1) /\ k \in (m - 1)..Len(ls) /\ final \in k..Len(ls) /\ k + 1 = r.start
      <4> DEFINE s == r.start  n == Len(ls)
      <4>1. s \in Nat /\ s > 0 /\ m \in Nat /\ m > 0 /\ m <= s /\ s <= final /\ final <= n /\ n \in Nat /\ final \in Nat /\ k = s - 1
        BY <1>4, <1>5, <1>6, <1>8, <2>5
      <4> HIDE DEF m, k, s, n, final
      <4>2. m \in 1..(n + 1) /\ k \in (m - 1)..n /\ final \in k..n /\ k + 1 = s  BY <4>1
      <4> QED BY <4>2 DEF s, n
    <3>2. reader.got = SubSeq(ls, m, k) /\ window = SubSeq(ls, k + 1, final)
      <4>1. reader.got = SubSeq(ls, m, k)  BY <1>8, <2>5 DEF LinesOf
      <4>2. window = SubSeq(ls, k + 1, final)  BY <3>1
      <4> QED BY <4>1, <4>2
    <3> HIDE DEF m, k, final, ls, window
    <3>3. SubSeq(ls, m, k) \o SubSeq(ls, k + 1, final) = SubSeq(ls, m, final)  BY <1>5, <3>1, ConcatAdjacentSubSeq
    <3> QED BY <3>2, <3>3 DEF LinesOf, m, ls
  <2> HIDE DEF next, got2
  <2>6. pc2 \in {"count", "blamed"}  OBVIOUS
  <2>7. (reader \in BlameReaders)'
    <3> HIDE DEF pc2
    <3> QED BY <1>2, <2>1, <2>2, <2>4, <2>6 DEF BlameReaders, BlameSteps, BlameEnds
  <2>8. /\ reader'.pc = pc2 /\ reader'.asked = a /\ reader'.got = got2 /\ reader'.since = reader.since
        /\ reader'.request = next
    BY <1>2, <2>1 DEF BlameReaders
  <2>9. ASSUME writes = reader.since PROVE WindowsSoFar'
    <3>1. reader.since' = writes' /\ Limit(text, a.end) = top  BY <1>1, <2>8, <2>9
    <3>2. CASE r.end > final
      <4>1. pc2 = "count"  BY <3>2
      <4>2. r.end = top /\ got2 = LinesOf(text, a.start, final) /\ a.start <= final + 1 /\ final + 1 <= top
            /\ (final + 1) - 1 = final
        BY <1>4, <1>6, <1>8, <2>5, <2>9, <3>2
      <4>3. Limit(text, top) = top
        <5>1. top # 0 /\ ~(top > Len(ls))  BY <1>4, <1>5, <1>6, <4>2
        <5> HIDE DEF top
        <5> QED BY <5>1 DEF Limit, NoEnd, ls
      <4> HIDE DEF pc2, final, r, a
      <4> QED BY <1>1, <2>2, <2>8, <4>1, <4>2, <4>3 DEF WindowsSoFar, BlameSteps
    <3>3. CASE ~(r.end > final)
      <4>1. pc2 = "blamed"  BY <3>3
      <4>2. final = top /\ got2 = LinesOf(text, a.start, final)  BY <1>4, <1>6, <1>8, <2>5, <2>9, <3>3
      <4> HIDE DEF pc2, final, r, a
      <4> QED BY <1>1, <2>8, <4>1, <4>2 DEF WindowsSoFar, BlameSteps
    <3> QED BY <3>2, <3>3
  <2>10. reader'.pc # "blame"  BY <2>6, <2>8
  <2> HIDE DEF pc2
  <2> QED BY <1>1, <1>2, <2>7, <2>8, <2>9, <2>10 DEF ReadInv, BlameInv
<1> QED BY <1>9, <1>10

LEMMA WriteKeeps ==
    ASSUME ReadInv, NEW t \in {<<"x">> \o text, Tail(text \o <<"x">>), <<"w", "newline">>}, OthersWrite(t)
    PROVE  ReadInv'
<1>1. /\ text' = t /\ writes' = writes + 1 /\ text \in Seq(Chars) /\ writes \in Nat
      /\ reader.pc \in PageSteps \cup BlameSteps /\ t # text
      /\ reader' = [reader EXCEPT !.contents = reader.contents \cup {t}]
  BY DEF OthersWrite, ReadInv, PageSteps, BlameSteps
<1>2. t \in Seq(Chars)
  <2>1. <<"x">> \in Seq(Chars) /\ <<"w", "newline">> \in Seq(Chars)
    <3>1. "x" \in Chars /\ "w" \in Chars /\ "newline" \in Chars  BY DEF Chars
    <3> HIDE DEF Chars
    <3> QED BY <3>1
  <2>2. <<"x">> \o text \in Seq(Chars) /\ text \o <<"x">> \in Seq(Chars)  BY <1>1, <2>1, ConcatProperties
  <2>3. Tail(text \o <<"x">>) \in Seq(Chars)
    <3> DEFINE u == text \o <<"x">>
    <3>1. Len(<<"x">>) = 1  OBVIOUS
    <3>2. Len(u) = Len(text) + Len(<<"x">>) /\ Len(text) \in Nat  BY <1>1, <2>1, ConcatProperties, LenProperties
    <3>3. Len(u) # 0 /\ u \in Seq(Chars)  BY <2>2, <3>1, <3>2
    <3> HIDE DEF u
    <3>4. u # <<>>  BY <3>3, EmptyBytes
    <3>5. Tail(u) \in Seq(Chars)  BY <3>3, <3>4, HeadTailProperties
    <3> QED BY <3>5 DEF u
  <2> QED BY <2>1, <2>2, <2>3
<1>3. CASE reader.pc \in PageSteps
  <2>1. PagesInv /\ reader \in PageReaders  BY <1>3, AtPageStep
  <2>2. (reader \in PageReaders)'  BY <1>1, <1>2, <2>1 DEF PageReaders
  <2>3. /\ reader'.pc = reader.pc /\ reader'.request = reader.request /\ reader'.asked = reader.asked
        /\ reader'.print = reader.print /\ reader'.got = reader.got /\ reader'.from = reader.from
        /\ reader'.since = reader.since /\ reader'.contents = reader.contents \cup {t}
    BY <1>1, <2>1 DEF PageReaders
  <2>4. reader.print \in Nat /\ reader.since \in Nat /\ reader.print <= writes /\ reader.since <= reader.print
    BY <2>1 DEF PageReaders, PagesInv, SeenContents
  <2>5. SeenContents' /\ LoadedFresh'
    BY <1>1, <2>3, <2>4 DEF SeenContents, LoadedFresh
  <2>6. GivenSoFar'  BY <1>3, <2>1, <2>3 DEF PagesInv, GivenSoFar
  <2>7. GivenAtEnd'  BY <1>3, <2>3 DEF GivenAtEnd, PageSteps
  <2>8. writes' \in Nat  BY <1>1
  <2> QED BY <1>1, <1>2, <2>2, <2>5, <2>6, <2>7, <2>8 DEF ReadInv, PagesInv
<1>4. CASE reader.pc \in BlameSteps
  <2>1. BlameInv /\ reader \in BlameReaders  BY <1>4, AtBlameStep
  <2>2. (reader \in BlameReaders)'  BY <1>1, <1>2, <2>1 DEF BlameReaders
  <2>3. /\ reader'.pc = reader.pc /\ reader'.request = reader.request /\ reader'.since = reader.since
    BY <1>1, <2>1 DEF BlameReaders
  <2>4. reader.since \in Nat /\ reader.since <= writes  BY <2>1 DEF BlameReaders, BlameInv
  <2>5. writes' # reader'.since /\ reader'.since <= writes' /\ writes' \in Nat  BY <1>1, <2>3, <2>4
  <2> QED BY <1>1, <1>2, <2>1, <2>2, <2>3, <2>5 DEF ReadInv, BlameInv
<1> QED BY <1>1, <1>3, <1>4

LEMMA ReadInvStep == ReadInv /\ [ReadNext]_readVars => ReadInv'
<1> SUFFICES ASSUME ReadInv, [ReadNext]_readVars PROVE ReadInv'  OBVIOUS
<1>1. CASE UNCHANGED readVars
  <2>1. text' = text /\ writes' = writes /\ reader' = reader  BY <1>1 DEF readVars
  <2>2. PagesInv => PagesInv'
    BY <2>1 DEF PagesInv, SeenContents, LoadedFresh, GivenSoFar, GivenAtEnd, Half
  <2>3. BlameInv => BlameInv'  BY <2>1 DEF BlameInv, WindowsSoFar
  <2> QED BY <2>1, <2>2, <2>3 DEF ReadInv
<1>2. ASSUME NEW r \in Requests, AskRead(r) PROVE ReadInv'  BY <1>2, AskReadKeeps
<1>3. ASSUME NEW start \in 1..2, NEW end \in {NoEnd, 2}, NEW lines \in 1..2, AskBlame(start, end, lines)
      PROVE  ReadInv'
  BY <1>3, AskBlameKeeps
<1>4. ASSUME NEW t \in {<<"x">> \o text, Tail(text \o <<"x">>), <<"w", "newline">>}, OthersWrite(t)
      PROVE  ReadInv'
  BY <1>4, WriteKeeps
<1> QED BY <1>1, <1>2, <1>3, <1>4, LookKeeps, LoadPartKeeps, LoadRestKeeps, GivePageKeeps, CountKeeps, BlameKeeps
        DEF ReadNext

LEMMA ReadsRejoin == ReadSpec => [](PagesRejoin /\ BlameCovers)
<1>1. ReadInit => ReadInv  BY ReadInvInit
<1>2. ReadInv /\ [ReadNext]_readVars => ReadInv'  BY ReadInvStep
<1>3. ReadInv => PagesRejoin /\ BlameCovers  BY ReadInvExact
<1> QED BY <1>1, <1>2, <1>3, PTL DEF ReadSpec

-----------------------------------------------------------------------------
(* The paths of the workspace.                                             *)
PathSet == ToSet(Paths)
Dirs == {<<>>, <<"d">>, <<"a">>}

LEMMA PathsAre ==
    PathSet = {<<".h">>, <<"a">>, <<"d">>, <<"d", "a">>, <<"d", "b">>, <<"d", "l">>, <<"target">>, <<"target", "b">>}
BY DEF PathSet, ToSet, Paths

LEMMA PlacesAre ==
    /\ Place(<<".h">>) = 1 /\ Place(<<"a">>) = 2 /\ Place(<<"d">>) = 3 /\ Place(<<"d", "a">>) = 4
    /\ Place(<<"d", "b">>) = 5 /\ Place(<<"d", "l">>) = 6 /\ Place(<<"target">>) = 7 /\ Place(<<"target", "b">>) = 8
<1>1. DOMAIN Paths = 1..8  BY DEF Paths
<1>2. /\ Paths[1] = <<".h">> /\ Paths[2] = <<"a">> /\ Paths[3] = <<"d">> /\ Paths[4] = <<"d", "a">>
      /\ Paths[5] = <<"d", "b">> /\ Paths[6] = <<"d", "l">> /\ Paths[7] = <<"target">> /\ Paths[8] = <<"target", "b">>
  BY DEF Paths
<1>3. ASSUME NEW m \in 1..8, NEW n \in 1..8, Paths[m] = Paths[n] PROVE m = n
  BY <1>3 DEF Paths
<1>4. ASSUME NEW n \in 1..8 PROVE Place(Paths[n]) = n  BY <1>1, <1>3 DEF Place
<1> QED BY <1>2, <1>4

LEMMA PathOrder ==
    /\ \A p \in PathSet : Place(p) \in Nat /\ Place(p) > 0
    /\ \A p, q \in PathSet : Place(p) = Place(q) => p = q
<1>1. \A p \in PathSet : Place(p) \in Nat /\ Place(p) > 0  BY PathsAre, PlacesAre
<1>2. \A p, q \in PathSet : Place(p) = Place(q) => p = q  BY PathsAre, PlacesAre
<1> QED BY <1>1, <1>2

EntryNames == {".h", "a", "b", "d", "l", "target"}

LEMMA PathsTyped == \A p \in PathSet : p \in Seq(EntryNames)
<1>1. \A x \in EntryNames : <<x>> \in Seq(EntryNames)  OBVIOUS
<1>2. \A x, y \in EntryNames : <<x, y>> \in Seq(EntryNames)  OBVIOUS
<1>3. \A x \in {".h", "a", "b", "d", "l", "target"} : x \in EntryNames  BY DEF EntryNames
<1> QED BY <1>1, <1>2, <1>3, PathsAre

LEMMA FrontOne == \A x : Front(<<x>>) = <<>>
<1> TAKE x
<1>1. Len(<<x>>) - 1 = 0  OBVIOUS
<1>2. SubSeq(<<x>>, 1, 0) = <<>>  BY SubSeqEmpty
<1> QED BY <1>1, <1>2 DEF Front

LEMMA FrontTwo == \A x, y : Front(<<x, y>>) = <<x>>
<1> TAKE x, y
<1> DEFINE s == <<x, y>>  S == {x, y}
<1>1. s \in Seq(S) /\ <<x>> \in Seq(S) /\ Len(s) = 2 /\ s[1] = x /\ s[2] = y /\ Len(<<x>>) = 1 /\ <<x>>[1] = x  OBVIOUS
<1>2. x \in S /\ y \in S  OBVIOUS
<1> HIDE DEF s, S
<1>3. \A i \in 1..1 : s[i] \in S  BY <1>1, <1>2
<1>4. 1 \in Int  OBVIOUS
<1>5. SubSeq(s, 1, 1) \in Seq(S) /\ Len(SubSeq(s, 1, 1)) = 1 /\ SubSeq(s, 1, 1)[1] = s[1]
  <2>1. /\ SubSeq(s, 1, 1) \in Seq(S) /\ Len(SubSeq(s, 1, 1)) = (IF 1 <= 1 THEN 1 - 1 + 1 ELSE 0)
        /\ \A i \in 1..(1 - 1 + 1) : SubSeq(s, 1, 1)[i] = s[1 + i - 1]
    BY <1>3, <1>4, SubSeqProperties
  <2>2. 1 \in 1..(1 - 1 + 1) /\ 1 + 1 - 1 = 1  OBVIOUS
  <2> QED BY <2>1, <2>2
<1> DEFINE u == SubSeq(s, 1, 1)  v == <<x>>
<1>6. u \in Seq(S) /\ v \in Seq(S) /\ Len(u) = 1 /\ Len(v) = 1 /\ u[1] = v[1]  BY <1>1, <1>5
<1> HIDE DEF u, v
<1>7. u = v  BY <1>6, SeqEqual
<1>8. Len(s) - 1 = 1  BY <1>1
<1> QED BY <1>7, <1>8 DEF Front, s, u, v

LEMMA ParentsAre ==
    /\ Parent(<<".h">>) = <<>> /\ Parent(<<"a">>) = <<>> /\ Parent(<<"d">>) = <<>> /\ Parent(<<"target">>) = <<>>
    /\ Parent(<<"d", "a">>) = <<"d">> /\ Parent(<<"d", "b">>) = <<"d">> /\ Parent(<<"d", "l">>) = <<"d">>
    /\ Parent(<<"target", "b">>) = <<"target">>
BY FrontOne, FrontTwo DEF Parent

LEMMA ParentOrder ==
    \A p \in PathSet :
        /\ Parent(p) = <<>> \/ (Parent(p) \in PathSet /\ Place(Parent(p)) < Place(p))
        /\ Parent(p) # <<>> => Parent(Parent(p)) = <<>>
        /\ Len(p) \in Nat /\ Len(p) > 0 /\ Len(Parent(p)) = Len(p) - 1 /\ p # <<>>
<1>1. \A p \in PathSet : Parent(p) = <<>> \/ (Parent(p) \in PathSet /\ Place(Parent(p)) < Place(p))
  BY PathsAre, PlacesAre, ParentsAre
<1>2. \A p \in PathSet : Parent(p) # <<>> => Parent(Parent(p)) = <<>>
  BY PathsAre, ParentsAre
<1>3. \A p \in PathSet : Len(p) \in Nat /\ Len(p) > 0 /\ p # <<>>  BY PathsAre
<1>4. \A p \in PathSet : Len(Parent(p)) = Len(p) - 1
  <2> TAKE p \in PathSet
  <2>1. p \in Seq(EntryNames) /\ Len(p) \in Nat /\ Len(p) > 0  BY <1>3, PathsTyped
  <2> DEFINE n == Len(p) - 1
  <2>2. n \in Nat /\ 1 \in Int /\ n \in Int /\ \A i \in 1..n : p[i] \in EntryNames  BY <2>1, ElementOfSeq
  <2> HIDE DEF n
  <2>3. Len(SubSeq(p, 1, n)) = IF 1 <= n THEN n - 1 + 1 ELSE 0  BY <2>2, SubSeqProperties
  <2>4. Len(SubSeq(p, 1, n)) = n  BY <2>2, <2>3
  <2> QED BY <2>4 DEF n, Parent, Front
<1> QED BY <1>1, <1>2, <1>3, <1>4

LEMMA ParentIsPrefix ==
    \A p \in PathSet : Parent(p) = SubSeq(p, 1, Len(p) - 1) /\ SubSeq(p, 1, Len(p)) = p
<1> TAKE p \in PathSet
<1>1. p \in Seq(EntryNames)  BY PathsTyped
<1>2. SubSeq(p, 1, Len(p)) = p  BY <1>1, SubSeqFull
<1> QED BY <1>2 DEF Parent, Front

(* What is under a path is under its parents.                              *)
LEMMA UnderParent ==
    ASSUME NEW p \in PathSet, NEW q \in PathSet
    PROVE  /\ Parent(q) = p => Under(q, p)
           /\ Under(Parent(q), p) => Under(q, p)
           /\ ~Under(q, q)
<1>1. /\ p \in Seq(EntryNames) /\ q \in Seq(EntryNames) /\ Len(p) \in Nat /\ Len(q) \in Nat /\ Len(q) > 0
      /\ Len(Parent(q)) = Len(q) - 1
  BY PathsTyped, ParentOrder
<1>2. /\ Parent(q) = SubSeq(q, 1, Len(q) - 1) /\ SubSeq(p, 1, Len(p)) = p /\ SubSeq(q, 1, Len(q)) = q
  BY ParentIsPrefix
<1>3. ASSUME Parent(q) = p PROVE Under(q, p)
  <2>1. Len(p) = Len(q) - 1 /\ Len(p) <= Len(q) /\ p # q  BY <1>1, <1>3
  <2>2. SubSeq(p, 1, Len(p)) = SubSeq(q, 1, Len(p))  BY <1>2, <1>3, <2>1
  <2> QED BY <2>1, <2>2 DEF Under, IsStrictPrefix, IsPrefix
<1>4. ASSUME Under(Parent(q), p) PROVE Under(q, p)
  <2> DEFINE u == Parent(q)  n == Len(q) - 1  k == Len(p)
  <2>1. k <= Len(u) /\ SubSeq(p, 1, k) = SubSeq(u, 1, k) /\ u = SubSeq(q, 1, n) /\ Len(u) = n
    BY <1>1, <1>2, <1>4 DEF Under, IsStrictPrefix, IsPrefix
  <2>2. k <= n /\ k <= Len(q) /\ p # q /\ n \in Nat /\ k \in Nat  BY <1>1, <2>1
  <2>3. SubSeq(SubSeq(q, 1, n), 1, k) = SubSeq(q, 1, k)
    <3>1. CASE k = 0
      <4> DEFINE v == SubSeq(q, 1, n)
      <4> HIDE DEF v, k
      <4>1. SubSeq(v, 1, 0) = <<>> /\ SubSeq(q, 1, 0) = <<>>  BY SubSeqEmpty
      <4> QED BY <3>1, <4>1 DEF v
    <3>2. CASE k # 0
      <4>1. 1 \in 1..Len(q) /\ n \in 1..Len(q) /\ 1 \in 1..(n - 1 + 1) /\ k \in 1..(n - 1 + 1)
            /\ 1 + 1 - 1 = 1 /\ 1 + k - 1 = k
        BY <1>1, <2>2, <3>2
      <4>2. SubSeq(q, 1, n) \in Seq(EntryNames)
        <5>1. \A i \in 1..n : q[i] \in EntryNames
          <6>1. \A i \in 1..Len(q) : q[i] \in EntryNames  BY <1>1, ElementOfSeq
          <6> QED BY <1>1, <6>1
        <5>2. 1 \in Int /\ n \in Int  BY <2>2
        <5> HIDE DEF n
        <5> QED BY <5>1, <5>2, SubSeqProperties
      <4> HIDE DEF n, k
      <4>3. SubSeq(SubSeq(q, 1, n), 1, k) = SubSeq(q, 1 + 1 - 1, 1 + k - 1)  BY <1>1, <4>1, <4>2, SubSeqOfSubSeq
      <4> QED BY <4>1, <4>3
    <3> QED BY <3>1, <3>2
  <2> QED BY <2>1, <2>2, <2>3 DEF Under, IsStrictPrefix, IsPrefix
<1>5. ~Under(q, q)  BY DEF Under, IsStrictPrefix
<1> QED BY <1>3, <1>4, <1>5

(* What is reached is in the directory or in one of its directories, and   *)
(* neither is left out.                                                    *)
LEMMA ReachedFrom ==
    ASSUME NEW p \in PathSet, NEW r, r.from \in Dirs, Reached(p, r)
    PROVE  /\ p = r.from \/ Parent(p) = r.from \/ (Parent(p) \in PathSet /\ Parent(Parent(p)) = r.from)
           /\ Len(p) > Len(r.from) => ~Ignored(p, r)
           /\ Len(Parent(p)) > Len(r.from) => ~Ignored(Parent(p), r)
           /\ Len(r.from) \in Nat /\ (p # r.from => Len(p) > Len(r.from))
<1> DEFINE f == r.from
<1>1. f \in Dirs /\ IsPrefix(f, p)  BY DEF Reached
<1>2. Len(p) \in Nat /\ Len(p) > 0 /\ Len(Parent(p)) = Len(p) - 1  BY ParentOrder
<1>3. Len(<<>>) = 0 /\ Len(<<"d">>) = 1 /\ Len(<<"a">>) = 1  OBVIOUS
<1>4. Len(f) \in Nat  BY <1>1, <1>3 DEF Dirs
<1>5. SubSeq(p, 1, Len(p)) = p /\ SubSeq(p, 1, Len(p) - 1) = Parent(p)  BY ParentIsPrefix
<1>6. \A n \in (Len(f) + 1)..Len(p) : ~Ignored(SubSeq(p, 1, n), r)  BY DEF Reached
<1> HIDE DEF f
<1>7. ASSUME Len(p) > Len(f) PROVE ~Ignored(p, r)
  <2>1. Len(p) \in (Len(f) + 1)..Len(p)  BY <1>2, <1>4, <1>7
  <2> QED BY <1>5, <1>6, <2>1
<1>8. ASSUME Len(Parent(p)) > Len(f) PROVE ~Ignored(Parent(p), r)
  <2>1. Len(p) - 1 \in (Len(f) + 1)..Len(p)  BY <1>2, <1>4, <1>8
  <2> QED BY <1>5, <1>6, <2>1
<1>9. p = f \/ Parent(p) = f \/ (Parent(p) \in PathSet /\ Parent(Parent(p)) = f)
  <2>1. CASE f = <<>>  BY <2>1, ParentOrder
  <2>2. CASE f # <<>>
    <3>1. f \in {<<"d">>, <<"a">>}  BY <1>1, <2>2 DEF Dirs
    <3>2. Len(f) = 1 /\ f \in PathSet  BY <1>3, <3>1, PathsAre
    <3>3. SubSeq(f, 1, 1) = SubSeq(p, 1, 1)  BY <1>1, <3>2 DEF IsPrefix
    <3>4. SubSeq(f, 1, 1) = f  BY <3>2, ParentIsPrefix
    <3>5. CASE Len(p) = 1  BY <1>5, <3>3, <3>4, <3>5
    <3>6. CASE Len(p) # 1
      <4>1. Len(p) = 2
        <5>1. \A q \in PathSet : Len(q) = 1 \/ Len(q) = 2  BY PathsAre
        <5> QED BY <3>6, <5>1
      <4>2. Len(p) - 1 = 1  BY <4>1
      <4> QED BY <1>5, <3>3, <3>4, <4>2
    <3> QED BY <3>5, <3>6
  <2> QED BY <2>1, <2>2
<1>10. ASSUME p # f PROVE Len(p) > Len(f)
  <2>1. Len(f) <= Len(p) /\ SubSeq(f, 1, Len(f)) = SubSeq(p, 1, Len(f))  BY <1>1 DEF IsPrefix
  <2>2. CASE Len(f) # Len(p)  BY <1>2, <1>4, <2>1, <2>2
  <2>3. CASE Len(f) = Len(p)
    <3>1. SubSeq(p, 1, Len(f)) = p  BY <1>5, <2>3
    <3>2. f \in PathSet
      <4>1. f # <<>>  BY <1>2, <1>3, <2>3
      <4> QED BY <1>1, <4>1, PathsAre DEF Dirs
    <3>3. SubSeq(f, 1, Len(f)) = f  BY <3>2, ParentIsPrefix
    <3> QED BY <1>10, <2>1, <3>1, <3>3
  <2> QED BY <2>2, <2>3
<1> QED BY <1>4, <1>7, <1>8, <1>9, <1>10 DEF f

-----------------------------------------------------------------------------
(* A walk over the directories under way.                                  *)
Kinds == {"none", "dir", "link", "text0", "text1", "text2", "binary"}
Listings == [path : PathSet, kind : Kinds]
Walks ==
    [pc : {"walk", "read", "done", "failed"}, call : Calls, todo : SUBSET PathSet, found : Seq(PathSet) \cup Seq(Listings),
     matches : Seq(Listings), truncated : BOOLEAN, capped : BOOLEAN, changes : Nat, was : [PathSet -> SUBSET Kinds]]

(* What is in a directory needs the directory.                             *)
TreeOK ==
    /\ tree \in [PathSet -> Kinds]
    /\ \A p \in PathSet : tree[p] # "none" /\ Parent(p) # <<>> => tree[Parent(p)] = "dir"

(* What is known was so when it was found, and nothing is gone that nobody *)
(* took away.                                                              *)
WasKept == \A p \in PathSet : tree[p] \in walk.was[p]
NothingGone ==
    walk.changes = 0 =>
        /\ tree[LinkTarget] # "none"
        /\ \A p \in walk.todo : tree[p] # "none"
        /\ walk.call.op # "list_dir" => \A p \in ToSet(walk.found) : tree[p] # "none"

Increasing(s) == \A i, j \in DOMAIN s : i < j => Place(s[i]) < Place(s[j])
EntriesIncrease(s) == \A i, j \in DOMAIN s : i < j => Place(s[i].path) < Place(s[j].path)

(* What stood all the time is listed, or still to come.                    *)
Listed(p) == [path |-> p, kind |-> tree[p]]
ToCome(p) == p \in walk.todo \/ Parent(p) \in walk.todo
ListCovers ==
    \A p \in PathSet :
        Stood(p) /\ Reached(p, walk.call) /\ Len(p) <= walk.call.depth => Listed(p) \in ToSet(walk.found) \/ ToCome(p)
ListInv ==
    /\ walk.pc # "read" /\ walk.found \in Seq(Listings)
    /\ \A i \in DOMAIN walk.found : walk.found[i].kind \in walk.was[walk.found[i].path]
    /\ EntriesIncrease(walk.found)
    /\ \A i \in DOMAIN walk.found, q \in walk.todo : Place(walk.found[i].path) < Place(q)
    /\ walk.truncated => walk.todo = {} /\ Len(walk.found) = walk.call.max
    /\ ~walk.truncated => Len(walk.found) < walk.call.max /\ ListCovers
    /\ walk.pc = "done" => walk.todo = {}

FilesCover ==
    \A p \in PathSet :
        IsText(p) /\ Reached(p, walk.call) => p \in ToSet(walk.found) \/ ToCome(p) \/ p = walk.call.from
FilesInv ==
    /\ walk.truncated = FALSE /\ walk.capped = FALSE /\ walk.matches = <<>>
    /\ Increasing(walk.found)
    /\ \A i \in DOMAIN walk.found, q \in walk.todo : Place(walk.found[i]) < Place(q)
    /\ \A p \in ToSet(walk.found) : walk.was[p] \cap PlainFiles # {}
    /\ walk.call.from = <<>> \/ (walk.call.from \in PathSet /\ "dir" \in walk.was[walk.call.from])
    /\ \A q \in walk.todo : Len(q) > Len(walk.call.from)
    /\ FilesCover

MatchKinds == \A i \in DOMAIN walk.matches : walk.matches[i].kind \in walk.was[walk.matches[i].path] \cup walk.was[LinkTarget]
MatchesOf(p) == {e \in Listings : e.path = p}
Counted ==
    \A p \in PathSet :
        IsText(p) /\ tree[p] # "binary" /\ Reached(p, walk.call) =>
            Cardinality(Places(walk.matches, MatchesOf(p))) = IF p \in ToSet(walk.found) THEN 0 ELSE Hits[tree[p]]
SearchingInv ==
    /\ walk.call.op = "search" /\ walk.truncated = FALSE
    /\ Increasing(walk.found)
    /\ MatchKinds
    /\ ~walk.capped => Counted

FilesListed ==
    /\ \A p \in ToSet(walk.found) : walk.was[p] \cap PlainFiles # {}
    /\ IF walk.truncated THEN Len(walk.found) = walk.call.max
       ELSE \A p \in PathSet : IsText(p) /\ Reached(p, walk.call) => p \in ToSet(walk.found)
SearchedAll ==
    /\ MatchKinds
    /\ IF walk.truncated THEN Len(walk.matches) = walk.call.max
       ELSE ~walk.capped =>
              \A p \in PathSet : IsText(p) /\ tree[p] # "binary" /\ Reached(p, walk.call) =>
                  Cardinality(Places(walk.matches, MatchesOf(p))) = Hits[tree[p]]
FileInv ==
    /\ walk.found \in Seq(PathSet)
    /\ walk.pc = "walk" => FilesInv
    /\ walk.pc = "read" => SearchingInv
    /\ walk.pc = "done" /\ walk.call.op = "list_files" => FilesListed
    /\ walk.pc = "done" /\ walk.call.op = "search" => SearchedAll

WalkInv ==
    /\ walk \in Walks
    /\ WasKept /\ NothingGone
    /\ walk.pc = "failed" => walk.changes > 0
    /\ walk.call.op = "list_dir" => ListInv
    /\ walk.call.op # "list_dir" => FileInv
SearchInv ==
    /\ TreeOK
    /\ (walk = [pc |-> "idle"] /\ tree[LinkTarget] # "none") \/ WalkInv

LEMMA CallsTyped ==
    \A r \in Calls :
        /\ r.op \in {"list_dir", "list_files", "search"} /\ r.from \in Dirs
        /\ r.op # "search" => r.from = <<>>
        /\ r.max \in Nat /\ r.max > 0 /\ r.depth \in Nat
        /\ r.hidden \in BOOLEAN /\ r.ignored \in BOOLEAN
<1> TAKE r \in Calls
<1>1. CASE \E max \in {1, 3, 9}, h, i \in BOOLEAN, depth \in 1..2 : r = Call("list_dir", <<>>, max, AllNames, h, i, depth)
  BY <1>1 DEF Call, Dirs
<1>2. CASE \E max \in {1, 2, 9}, inc \in {{"a"}, AllNames}, h, i \in BOOLEAN : r = Call("list_files", <<>>, max, inc, h, i, 2)
  BY <1>2 DEF Call, Dirs
<1> DEFINE Lists == {Call("list_dir", <<>>, max, AllNames, h, i, depth) : max \in {1, 3, 9}, h, i \in BOOLEAN, depth \in 1..2}
           Files == {Call("list_files", <<>>, max, inc, h, i, 2) : max \in {1, 2, 9}, inc \in {{"a"}, AllNames}, h, i \in BOOLEAN}
           Includes == {{"a"}, AllNames}
           Maxima == {1, 2, 9}
           Search(from, max, inc) == Call("search", from, max, inc, FALSE, FALSE, 2)
           Searches == {Search(from, max, inc) : from \in Dirs, max \in Maxima, inc \in Includes}
<1>3. Calls = Lists \cup Files \cup Searches  BY DEF Calls, Dirs
<1>4. CASE r \in Lists  BY <1>1, <1>4
<1>5. CASE r \in Files  BY <1>2, <1>5
<1>6. CASE r \in Searches
  <2> HIDE DEF Includes
  <2> HIDE DEF Search, Maxima, Includes
  <2>1. PICK from \in Dirs, max \in Maxima, inc \in Includes : r = Search(from, max, inc)  BY <1>6
  <2> QED BY <2>1 DEF Call, Search, Maxima
<1> HIDE DEF Lists, Files, Searches
<1> QED BY <1>3, <1>4, <1>5, <1>6

LEMMA KindsFinite == IsFiniteSet(Kinds)
<1>1. \A x : IsFiniteSet({x})  BY FS_Singleton
<1>2. \A S, T : IsFiniteSet(S) /\ IsFiniteSet(T) => IsFiniteSet(S \cup T)  BY FS_Union
<1>3. IsFiniteSet({"none"} \cup ({"dir"} \cup ({"link"} \cup ({"text0"} \cup ({"text1"} \cup ({"text2"} \cup {"binary"}))))))
  BY <1>1, <1>2
<1>4. Kinds = {"none"} \cup ({"dir"} \cup ({"link"} \cup ({"text0"} \cup ({"text1"} \cup ({"text2"} \cup {"binary"})))))
  BY DEF Kinds
<1> QED BY <1>3, <1>4

(* What stood is what it was all the time.                                 *)
LEMMA OneKind ==
    ASSUME NEW W \in SUBSET Kinds, NEW k \in W
    PROVE  Cardinality(W) = 1 /\ W # {"none"} <=> W = {k} /\ k # "none"
<1>1. IsFiniteSet(W)  BY KindsFinite, FS_Subset
<1>2. Cardinality(W) = 1 <=> \E x : W = {x}  BY <1>1, FS_Singleton
<1> QED BY <1>2

LEMMA StoodIs ==
    ASSUME TreeOK, walk \in Walks, WasKept, NEW p \in PathSet
    PROVE  Stood(p) <=> walk.was[p] = {tree[p]} /\ tree[p] # "none"
<1> DEFINE W == walk.was[p]  k == tree[p]
<1>1. walk.was \in [PathSet -> SUBSET Kinds]  BY DEF Walks
<1>2. W \in SUBSET Kinds /\ k \in W  BY <1>1 DEF WasKept
<1> HIDE DEF W, k
<1>3. Cardinality(W) = 1 /\ W # {"none"} <=> W = {k} /\ k # "none"  BY <1>2, OneKind
<1> QED BY <1>3 DEF Stood, W, k

LEMMA InSeq == \A S : \A s \in Seq(S) : /\ Len(s) \in Nat /\ DOMAIN s = 1..Len(s) /\ \A i \in DOMAIN s : s[i] \in S /\ s[i] \in ToSet(s)
<1> TAKE S
<1> TAKE s \in Seq(S)
<1>1. Len(s) \in Nat /\ DOMAIN s = 1..Len(s)  BY LenProperties
<1>2. \A i \in DOMAIN s : s[i] \in S  BY <1>1, ElementOfSeq
<1>3. \A i \in DOMAIN s : s[i] \in ToSet(s)  BY DEF ToSet
<1> QED BY <1>1, <1>2, <1>3

AppendedTo(S, s, e, t) ==
    /\ t \in Seq(S) /\ Len(t) = Len(s) + 1 /\ Len(s) \in Nat /\ DOMAIN s = 1..Len(s) /\ DOMAIN t = 1..(Len(s) + 1)
    /\ \A i \in DOMAIN s : t[i] = s[i]
    /\ t[Len(s) + 1] = e
    /\ \A x : x \in ToSet(t) <=> x \in ToSet(s) \/ x = e

LEMMA Appended == \A S : \A s \in Seq(S), e \in S : AppendedTo(S, s, e, Append(s, e))
<1> TAKE S
<1> TAKE s \in Seq(S), e \in S
<1> DEFINE t == Append(s, e)
<1>1. /\ t \in Seq(S) /\ Len(t) = Len(s) + 1 /\ Len(s) \in Nat /\ DOMAIN s = 1..Len(s) /\ DOMAIN t = 1..Len(t)
      /\ \A i \in 1..Len(s) : t[i] = s[i]
      /\ t[Len(s) + 1] = e
  <2>1. t \in Seq(S)  BY AppendProperties
  <2> QED BY <2>1, AppendProperties, LenProperties
<1>2. \A x : x \in ToSet(t) => x \in ToSet(s) \/ x = e  BY <1>1 DEF ToSet
<1>3. \A x : x \in ToSet(s) => x \in ToSet(t)
  <2> SUFFICES ASSUME NEW i \in DOMAIN s PROVE s[i] \in ToSet(t)  BY DEF ToSet
  <2>1. i \in DOMAIN t /\ t[i] = s[i]  BY <1>1
  <2> QED BY <2>1 DEF ToSet
<1>4. e \in ToSet(t)
  <2>1. Len(s) + 1 \in DOMAIN t  BY <1>1
  <2> QED BY <1>1, <2>1 DEF ToSet
<1> QED BY <1>1, <1>2, <1>3, <1>4 DEF AppendedTo

LEMMA SearchInvInit == SearchInit => SearchInv
<1> SUFFICES ASSUME SearchInit PROVE SearchInv  OBVIOUS
<1>1. PICK a \in {"text0", "text2", "binary"}, d \in {"dir", "none"} :
          tree = [p \in ToSet(Paths) |->
                    CASE p = <<"a">> -> a
                      [] p = <<"target">> -> "dir"
                      [] p \in {<<".h">>, <<"target", "b">>} -> "text1"
                      [] OTHER ->
                           IF d = "none" THEN "none"
                           ELSE CASE p = <<"d">> -> "dir" [] p = <<"d", "l">> -> "link" [] OTHER -> "text1"]
  BY DEF SearchInit
<1>2. DOMAIN tree = PathSet /\ tree = [p \in PathSet |-> tree[p]]  BY <1>1 DEF PathSet
<1>3. /\ <<".h">> \in PathSet /\ <<"a">> \in PathSet /\ <<"d">> \in PathSet /\ <<"d", "a">> \in PathSet
      /\ <<"d", "b">> \in PathSet /\ <<"d", "l">> \in PathSet /\ <<"target">> \in PathSet /\ <<"target", "b">> \in PathSet
  BY PathsAre
<1>4. /\ tree[<<".h">>] = "text1" /\ tree[<<"a">>] = a /\ tree[<<"target">>] = "dir" /\ tree[<<"target", "b">>] = "text1"
      /\ tree[<<"d">>] = (IF d = "none" THEN "none" ELSE "dir")
  BY <1>1, <1>3 DEF PathSet
<1>5. /\ tree[<<"d", "a">>] = (IF d = "none" THEN "none" ELSE "text1")
      /\ tree[<<"d", "b">>] = (IF d = "none" THEN "none" ELSE "text1")
      /\ tree[<<"d", "l">>] = (IF d = "none" THEN "none" ELSE "link")
  BY <1>1, <1>3 DEF PathSet
<1>6. \A p \in PathSet : tree[p] \in Kinds  BY <1>4, <1>5, PathsAre DEF Kinds
<1>7. tree \in [PathSet -> Kinds]  BY <1>2, <1>6
<1>8. \A p \in PathSet : tree[p] # "none" /\ Parent(p) # <<>> => tree[Parent(p)] = "dir"
  BY <1>4, <1>5, PathsAre, ParentsAre
<1>9. tree[LinkTarget] # "none"  BY <1>4 DEF LinkTarget
<1>10. walk = [pc |-> "idle"]  BY DEF SearchInit
<1> QED BY <1>7, <1>8, <1>9, <1>10 DEF SearchInv, TreeOK

LEMMA SearchInvComplete == SearchInv => ListingsComplete
<1> SUFFICES ASSUME SearchInv PROVE ListingsComplete  OBVIOUS
<1>1. CASE walk = [pc |-> "idle"]
  <2>1. walk.pc = "idle"  BY <1>1
  <2> QED BY <2>1 DEF ListingsComplete
<1>2. CASE WalkInv
  <2>0. walk \in Walks /\ walk.call \in Calls /\ walk.matches \in Seq(Listings)  BY <1>2 DEF WalkInv, Walks
  <2>1. ASSUME walk.pc = "done", walk.call.op = "list_dir"
        PROVE  /\ \A e \in ToSet(walk.found) : e.kind \in walk.was[e.path]
               /\ IsInjective(walk.found)
               /\ IF walk.truncated THEN Len(walk.found) = walk.call.max
                  ELSE \A p \in PathSet :
                     Stood(p) /\ Reached(p, walk.call) /\ Len(p) <= walk.call.depth
                         => [path |-> p, kind |-> tree[p]] \in ToSet(walk.found)
    <3>1. ListInv  BY <1>2, <2>1 DEF WalkInv
    <3>2. walk.found \in Seq(Listings)  BY <3>1 DEF ListInv
    <3>3. \A e \in ToSet(walk.found) : e.kind \in walk.was[e.path]  BY <3>1 DEF ListInv, ToSet
    <3>4. IsInjective(walk.found)
      <4> SUFFICES ASSUME NEW i \in DOMAIN walk.found, NEW j \in DOMAIN walk.found, walk.found[i] = walk.found[j], i # j
                   PROVE  FALSE
        BY DEF IsInjective
      <4>1. i \in Nat /\ j \in Nat  BY <3>2, InSeq
      <4>2. Place(walk.found[i].path) < Place(walk.found[j].path) \/ Place(walk.found[j].path) < Place(walk.found[i].path)
        BY <3>1, <4>1 DEF ListInv, EntriesIncrease
      <4>3. walk.found[i].path \in PathSet
        <5>1. walk.found[i] \in Listings  BY <3>2, InSeq
        <5> QED BY <5>1 DEF Listings
      <4>4. Place(walk.found[i].path) \in Nat  BY <4>3, PathOrder
      <4> QED BY <4>2, <4>4
    <3>5. walk.todo = {} /\ (walk.truncated => Len(walk.found) = walk.call.max) /\ (~walk.truncated => ListCovers)
      BY <2>1, <3>1 DEF ListInv
    <3>6. ASSUME ListCovers, NEW p \in PathSet, Stood(p), Reached(p, walk.call), Len(p) <= walk.call.depth
          PROVE  [path |-> p, kind |-> tree[p]] \in ToSet(walk.found)
      BY <3>5, <3>6 DEF ListCovers, ToCome, Listed
    <3> QED BY <3>3, <3>4, <3>5, <3>6
  <2>2. ASSUME walk.pc = "done", walk.call.op # "list_dir"
        PROVE  /\ walk.call.op = "list_files" => FilesListed
               /\ walk.call.op = "search" => SearchedAll
    BY <1>2, <2>2 DEF WalkInv, FileInv
  <2>3. \A p \in PathSet : {k \in DOMAIN walk.matches : walk.matches[k].path = p} = Places(walk.matches, MatchesOf(p))
    <3> TAKE p \in PathSet
    <3>1. \A k \in DOMAIN walk.matches : walk.matches[k] \in Listings  BY <2>0, InSeq
    <3> QED BY <3>1 DEF Places, MatchesOf
  <2>4. walk.pc = "failed" => walk.changes > 0  BY <1>2 DEF WalkInv
  <2>5. MatchKinds => \A m \in ToSet(walk.matches) : m.kind \in walk.was[m.path] \cup walk.was[LinkTarget]
    BY DEF MatchKinds, ToSet
  <2>6. walk.pc = "done" /\ walk.call.op = "search" =>
          /\ \A m \in ToSet(walk.matches) : m.kind \in walk.was[m.path] \cup walk.was[LinkTarget]
          /\ IF walk.truncated THEN Len(walk.matches) = walk.call.max
             ELSE ~walk.capped =>
                    \A p \in PathSet : IsText(p) /\ tree[p] # "binary" /\ Reached(p, walk.call) =>
                        Cardinality({k \in DOMAIN walk.matches : walk.matches[k].path = p}) = Hits[tree[p]]
    BY <2>2, <2>3, <2>5 DEF SearchedAll
  <2> QED BY <2>1, <2>2, <2>4, <2>6 DEF ListingsComplete, FilesListed, PathSet
<1> QED BY <1>1, <1>2 DEF SearchInv

-----------------------------------------------------------------------------
(* The steps of a walk keep its invariant.                                 *)
LEMMA WalkTyped ==
    ASSUME SearchInv, walk.pc # "idle"
    PROVE  /\ WalkInv /\ walk \in Walks /\ WasKept /\ NothingGone /\ TreeOK
           /\ tree \in [PathSet -> Kinds] /\ walk.was \in [PathSet -> SUBSET Kinds]
           /\ walk.call \in Calls /\ walk.todo \in SUBSET PathSet /\ walk.matches \in Seq(Listings) /\ walk.changes \in Nat
           /\ walk.call.max \in Nat /\ walk.call.max > 0 /\ walk.call.depth \in Nat /\ walk.call.from \in Dirs
           /\ walk.call.op \in {"list_dir", "list_files", "search"} /\ (walk.call.op # "search" => walk.call.from = <<>>)
           /\ walk.truncated \in BOOLEAN /\ walk.capped \in BOOLEAN
<1>1. walk # [pc |-> "idle"]  OBVIOUS
<1>2. WalkInv /\ TreeOK  BY <1>1 DEF SearchInv
<1>3. walk \in Walks /\ WasKept /\ NothingGone  BY <1>2 DEF WalkInv
<1>4. walk.call \in Calls  BY <1>3 DEF Walks
<1> QED BY <1>2, <1>3, <1>4, CallsTyped DEF Walks, TreeOK

(* Begin.                                                                  *)
LEMMA BeginKeeps ==
    ASSUME SearchInv, NEW r \in Calls, Begin(r)
    PROVE  SearchInv'
<1>1. TreeOK /\ tree[LinkTarget] # "none" /\ tree' = tree
  <2>1. walk.pc = "idle" /\ tree' = tree  BY DEF Begin
  <2>2. ~WalkInv  BY <2>1 DEF WalkInv, Walks
  <2> QED BY <2>1, <2>2 DEF SearchInv
<1>2. tree \in [PathSet -> Kinds]  BY <1>1 DEF TreeOK
<1>3. /\ r.op \in {"list_dir", "list_files", "search"} /\ r.from \in Dirs /\ (r.op # "search" => r.from = <<>>)
      /\ r.max \in Nat /\ r.max > 0 /\ r.depth \in Nat
  BY CallsTyped
<1> DEFINE was == [p \in PathSet |-> {tree[p]}]
<1>4. was \in [PathSet -> SUBSET Kinds] /\ \A p \in PathSet : was[p] = {tree[p]}  BY <1>2
<1> HIDE DEF was
<1>5. r.from = <<>> \/ r.from \in PathSet  BY <1>3, PathsAre DEF Dirs
<1>6. Len(<<>>) = 0 /\ <<>> \in Seq(PathSet) /\ <<>> \in Seq(Listings) /\ DOMAIN <<>> = {} /\ ToSet(<<>>) = {}  BY DEF ToSet
<1>7. TreeOK'  BY <1>1 DEF TreeOK
<1>8. \A p \in PathSet : Len(p) > Len(Parent(p)) /\ Len(p) > 0 /\ Len(p) \in Nat  BY ParentOrder
<1>9. CASE r.from = <<>> \/ tree[r.from] = "dir"
  <2>1. /\ walk'.pc = "walk" /\ walk'.call = r /\ walk'.todo = Children(r.from) /\ walk'.found = <<>> /\ walk'.matches = <<>>
        /\ walk'.truncated = FALSE /\ walk'.capped = FALSE /\ walk'.changes = 0 /\ walk'.was = was
        /\ walk' = [pc |-> "walk", call |-> r, todo |-> Children(r.from), found |-> <<>>, matches |-> <<>>, truncated |-> FALSE,
                    capped |-> FALSE, changes |-> 0, was |-> was]
    <3>1. walk' = Going(r, Children(r.from), <<>>)  BY <1>9 DEF Begin
    <3> QED BY <3>1 DEF Going, was, PathSet
  <2>2. Children(r.from) \subseteq PathSet /\ \A p \in PathSet : p \in Children(r.from) <=> Parent(p) = r.from /\ tree[p] # "none"
    <3>1. \A p \in PathSet : p # <<>>  BY ParentOrder
    <3> QED BY <3>1 DEF Children, There, PathSet
  <2>3. (walk \in Walks)'  BY <1>4, <1>6, <2>1, <2>2 DEF Walks
  <2>4. WasKept'  BY <1>1, <1>4, <2>1 DEF WasKept
  <2>5. NothingGone'  BY <1>1, <1>6, <2>1, <2>2 DEF NothingGone
  <2>6. ASSUME NEW p \in PathSet, Stood(p)', Reached(p, r)
        PROVE  p \in walk'.todo \/ Parent(p) \in walk'.todo \/ p = r.from
    <3>1. tree[p] # "none"
      <4>1. Stood(p)' <=> walk'.was[p] = {tree'[p]} /\ tree'[p] # "none"
        <5>1. walk'.was[p] \in SUBSET Kinds /\ tree'[p] \in walk'.was[p]  BY <1>1, <1>4, <2>1
        <5> DEFINE W == walk'.was[p]  k == tree'[p]
        <5>2. W \in SUBSET Kinds /\ k \in W  BY <5>1
        <5> HIDE DEF W, k
        <5>3. Cardinality(W) = 1 /\ W # {"none"} <=> W = {k} /\ k # "none"  BY <5>2, OneKind
        <5> QED BY <5>3 DEF Stood, W, k
      <4> QED BY <1>1, <2>6, <4>1
    <3>2. p = r.from \/ Parent(p) = r.from \/ (Parent(p) \in PathSet /\ Parent(Parent(p)) = r.from)
      BY <1>3, <2>6, ReachedFrom
    <3>3. Parent(p) \in PathSet => tree[Parent(p)] = "dir" \/ Parent(p) = <<>>  BY <1>1, <3>1 DEF TreeOK
    <3>4. Parent(p) \in PathSet => Parent(p) # <<>>  BY ParentOrder
    <3> QED BY <2>1, <2>2, <3>1, <3>2, <3>3, <3>4
  <2>7. r.op = "list_dir" => ListInv'
    <3> SUFFICES ASSUME r.op = "list_dir" PROVE ListInv'  OBVIOUS
    <3>1. r.from = <<>>  BY <1>3
    <3>2. ListCovers'
      <4> SUFFICES ASSUME NEW p \in PathSet, Stood(p)', Reached(p, r) PROVE ToCome(p)'  BY <2>1 DEF ListCovers
      <4>1. p # <<>>  BY <1>6, <1>8
      <4> QED BY <2>6, <3>1, <4>1 DEF ToCome
    <3> QED BY <1>3, <1>6, <2>1, <3>2 DEF ListInv, EntriesIncrease
  <2>8. r.op # "list_dir" => FileInv'
    <3> SUFFICES ASSUME r.op # "list_dir" PROVE FileInv'  OBVIOUS
    <3>1. FilesCover'
      <4> SUFFICES ASSUME NEW p \in PathSet, IsText(p)', Reached(p, r) PROVE ToCome(p)' \/ p = r.from  BY <2>1 DEF FilesCover
      <4>1. Stood(p)'  BY DEF IsText
      <4> QED BY <2>6, <4>1 DEF ToCome
    <3>2. r.from = <<>> \/ (r.from \in PathSet /\ "dir" \in was[r.from])  BY <1>4, <1>5, <1>9
    <3>3. \A q \in Children(r.from) : Len(q) > Len(r.from)  BY <1>8, <2>2
    <3>4. FilesInv'
      BY <1>6, <2>1, <3>1, <3>2, <3>3 DEF FilesInv, Increasing
    <3> QED BY <1>6, <2>1, <3>4 DEF FileInv
  <2> QED BY <1>7, <2>1, <2>3, <2>4, <2>5, <2>7, <2>8 DEF SearchInv, WalkInv
<1>10. CASE ~(r.from = <<>> \/ tree[r.from] = "dir")
  <2> DEFINE f == IF Last(r.from) \in r.include THEN <<r.from>> ELSE <<>>
  <2>1. r.from \in PathSet /\ r.op = "search" /\ tree[r.from] # "none" /\ tree[r.from] # "dir"
    BY <1>3, <1>5, <1>10 DEF Begin, There
  <2>2. f \in Seq(PathSet) /\ ToSet(f) = (IF Last(r.from) \in r.include THEN {r.from} ELSE {}) /\ DOMAIN f \subseteq {1}
    BY <2>1 DEF ToSet
  <2>3. walk' = [Going(r, {}, f) EXCEPT !.pc = "read"]  BY <1>10 DEF Begin
  <2> HIDE DEF f
  <2>4. /\ walk'.pc = "read" /\ walk'.call = r /\ walk'.todo = {} /\ walk'.found = f /\ walk'.matches = <<>>
        /\ walk'.truncated = FALSE /\ walk'.capped = FALSE /\ walk'.changes = 0 /\ walk'.was = was
        /\ walk' = [pc |-> "read", call |-> r, todo |-> {}, found |-> f, matches |-> <<>>, truncated |-> FALSE,
                    capped |-> FALSE, changes |-> 0, was |-> was]
    BY <2>3 DEF Going, was, PathSet
  <2>5. (walk \in Walks)'  BY <1>4, <1>6, <2>2, <2>4 DEF Walks
  <2>6. WasKept'  BY <1>1, <1>4, <2>4 DEF WasKept
  <2>7. NothingGone'  BY <1>1, <2>1, <2>2, <2>4 DEF NothingGone
  <2>8. Counted'
    <3> SUFFICES ASSUME NEW p \in PathSet, IsText(p)', Reached(p, r)
                 PROVE  p \in ToSet(f) /\ Cardinality(Places(<<>>, MatchesOf(p))) = 0
      BY <1>1, <2>4 DEF Counted
    <3>1. Places(<<>>, MatchesOf(p)) = {}  BY DEF Places
    <3>2. Cardinality({}) = 0  BY FS_EmptySet
    <3>3. Last(p) \in r.include /\ tree[p] \in PlainFiles  BY <1>1, <2>4 DEF IsText
    <3>4. tree[p] # "none"  BY <3>3 DEF PlainFiles, Hits
    <3>5. p = r.from \/ Parent(p) = r.from \/ (Parent(p) \in PathSet /\ Parent(Parent(p)) = r.from)
      BY <1>3, ReachedFrom
    <3>6. \A q \in PathSet : tree[q] # "none" /\ Parent(q) = r.from => FALSE
      <4>1. r.from # <<>>  BY <1>10
      <4> QED BY <1>1, <2>1, <4>1 DEF TreeOK
    <3>7. Parent(p) \in PathSet => tree[Parent(p)] # "none"
      <4>1. \A q \in PathSet : q # <<>>  BY ParentOrder
      <4> QED BY <1>1, <3>4, <4>1 DEF TreeOK
    <3>8. p = r.from  BY <3>4, <3>5, <3>6, <3>7
    <3> QED BY <2>2, <3>1, <3>2, <3>3, <3>8
  <2>9. SearchingInv'
    <3>1. Increasing(f)  BY <2>2 DEF Increasing
    <3>2. MatchKinds'  BY <1>6, <2>4 DEF MatchKinds
    <3> QED BY <2>1, <2>4, <2>8, <3>1, <3>2 DEF SearchingInv
  <2>10. FileInv'  BY <2>2, <2>4, <2>9 DEF FileInv
  <2> QED BY <1>7, <2>1, <2>4, <2>5, <2>6, <2>7, <2>10 DEF SearchInv, WalkInv
<1> QED BY <1>9, <1>10

(* One more entry of the walk is dealt with.                               *)
GoesOn(todo, found, full) ==
    /\ tree' = tree
    /\ walk' = [walk EXCEPT !.todo = todo, !.found = found, !.truncated = full]

LEMMA GoesOnIs ==
    ASSUME walk \in Walks, NEW todo, NEW found, NEW full, GoesOn(todo, found, full)
    PROVE  /\ tree' = tree /\ walk'.pc = walk.pc /\ walk'.call = walk.call /\ walk'.todo = todo /\ walk'.found = found
           /\ walk'.matches = walk.matches /\ walk'.truncated = full /\ walk'.capped = walk.capped
           /\ walk'.changes = walk.changes /\ walk'.was = walk.was
           /\ walk' = [pc |-> walk.pc, call |-> walk.call, todo |-> todo, found |-> found, matches |-> walk.matches,
                       truncated |-> full, capped |-> walk.capped, changes |-> walk.changes, was |-> walk.was]
BY DEF GoesOn, Walks

LEMMA GoesOnKeeps ==
    ASSUME SearchInv, walk.pc = "walk", NEW todo \in SUBSET PathSet, NEW found \in Seq(PathSet) \cup Seq(Listings),
           NEW full \in BOOLEAN, GoesOn(todo, found, full),
           walk.changes = 0 => \A q \in todo : tree[q] # "none",
           walk.call.op # "list_dir" => \A q \in ToSet(found) : q \in ToSet(walk.found) \/ tree[q] # "none",
           walk.call.op = "list_dir" => ListInv',
           walk.call.op # "list_dir" => FileInv'
    PROVE  SearchInv'
<1>1. WalkInv /\ walk \in Walks /\ WasKept /\ NothingGone /\ TreeOK  BY WalkTyped
<1>2. /\ tree' = tree /\ walk'.pc = walk.pc /\ walk'.call = walk.call /\ walk'.todo = todo /\ walk'.found = found
      /\ walk'.changes = walk.changes /\ walk'.was = walk.was
      /\ walk' = [pc |-> walk.pc, call |-> walk.call, todo |-> todo, found |-> found, matches |-> walk.matches,
                  truncated |-> full, capped |-> walk.capped, changes |-> walk.changes, was |-> walk.was]
  BY <1>1, GoesOnIs
<1>3. TreeOK'  BY <1>1, <1>2 DEF TreeOK
<1>4. (walk \in Walks)'  BY <1>1, <1>2 DEF Walks
<1>5. WasKept'  BY <1>1, <1>2 DEF WasKept
<1>6. NothingGone'  BY <1>1, <1>2 DEF NothingGone
<1> QED BY <1>2, <1>3, <1>4, <1>5, <1>6 DEF SearchInv, WalkInv

LEMMA FailsKeeps ==
    ASSUME SearchInv, walk.pc \in {"walk", "read"}, walk.call.op = "list_dir" => walk.pc = "walk", CallFails, walk.changes # 0
    PROVE  SearchInv'
<1>1. WalkInv /\ walk \in Walks /\ WasKept /\ NothingGone /\ TreeOK /\ walk.changes \in Nat  BY WalkTyped
<1>2. /\ tree' = tree /\ walk'.pc = "failed" /\ walk'.call = walk.call /\ walk'.todo = walk.todo /\ walk'.found = walk.found
      /\ walk'.matches = walk.matches /\ walk'.truncated = walk.truncated /\ walk'.capped = walk.capped
      /\ walk'.changes = walk.changes /\ walk'.was = walk.was
      /\ walk' = [pc |-> "failed", call |-> walk.call, todo |-> walk.todo, found |-> walk.found, matches |-> walk.matches,
                  truncated |-> walk.truncated, capped |-> walk.capped, changes |-> walk.changes, was |-> walk.was]
  BY <1>1 DEF CallFails, Step, Walks
<1>3. TreeOK'  BY <1>1, <1>2 DEF TreeOK
<1>4. (walk \in Walks)'  BY <1>1, <1>2 DEF Walks
<1>5. WasKept'  BY <1>1, <1>2 DEF WasKept
<1>6. NothingGone'  BY <1>2 DEF NothingGone
<1>7. walk'.changes > 0  BY <1>1, <1>2
<1>8. walk.call.op = "list_dir" => ListInv'
  <2> SUFFICES ASSUME walk.call.op = "list_dir" PROVE ListInv'  OBVIOUS
  <2>1. ListInv  BY <1>1 DEF WalkInv
  <2>2. ListCovers => ListCovers'  BY <1>2 DEF ListCovers, Stood, ToCome, Listed
  <2>3. EntriesIncrease(walk'.found)  BY <1>2, <2>1 DEF ListInv
  <2>4. /\ walk'.found \in Seq(Listings)
        /\ \A i \in DOMAIN walk'.found : walk'.found[i].kind \in walk'.was[walk'.found[i].path]
        /\ \A i \in DOMAIN walk'.found, q \in walk'.todo : Place(walk'.found[i].path) < Place(q)
        /\ walk'.truncated => walk'.todo = {} /\ Len(walk'.found) = walk'.call.max
    BY <1>2, <2>1 DEF ListInv
  <2>5. ~walk'.truncated => Len(walk'.found) < walk'.call.max /\ ListCovers'
    BY <1>2, <2>1, <2>2 DEF ListInv
  <2> QED BY <1>2, <2>3, <2>4, <2>5 DEF ListInv
<1>9. walk.call.op # "list_dir" => FileInv'
  <2> SUFFICES ASSUME walk.call.op # "list_dir" PROVE FileInv'  OBVIOUS
  <2>1. walk.found \in Seq(PathSet)  BY <1>1 DEF WalkInv, FileInv
  <2> QED BY <1>2, <2>1 DEF FileInv
<1> QED BY <1>2, <1>3, <1>4, <1>5, <1>6, <1>7, <1>8, <1>9 DEF SearchInv, WalkInv

(* What is in a directory comes after it.                                  *)
LEMMA NextOne ==
    ASSUME walk \in Walks, NEW p \in walk.todo, IsNext(p)
    PROVE  /\ p \in PathSet
           /\ Remaining(p) \in SUBSET PathSet /\ Children(p) \in SUBSET PathSet
           /\ \A q \in PathSet : q \in Remaining(p) <=> q \in walk.todo /\ q # p
           /\ \A q \in PathSet : q \in Children(p) <=> Parent(q) = p /\ tree[q] # "none"
           /\ \A q \in Children(p) \cup Remaining(p) : Place(p) < Place(q)
<1>1. walk.todo \in SUBSET PathSet  BY DEF Walks
<1>2. p \in PathSet /\ Remaining(p) \in SUBSET PathSet  BY <1>1 DEF Remaining
<1>3. \A q \in PathSet : q # <<>>  BY ParentOrder
<1>4. Children(p) \in SUBSET PathSet /\ \A q \in PathSet : q \in Children(p) <=> Parent(q) = p /\ tree[q] # "none"
  BY <1>3 DEF Children, There, PathSet
<1>5. ASSUME NEW q \in Children(p) PROVE Place(p) < Place(q)
  <2>1. q \in PathSet /\ Parent(q) = p /\ p # <<>>  BY <1>2, <1>3, <1>4
  <2> QED BY <2>1, ParentOrder
<1>6. ASSUME NEW q \in Remaining(p) PROVE Place(p) < Place(q)
  <2>1. q \in walk.todo /\ q # p /\ q \in PathSet  BY <1>1 DEF Remaining
  <2>2. Place(p) <= Place(q)  BY <2>1 DEF IsNext
  <2>3. Place(p) \in Nat /\ Place(q) \in Nat /\ Place(p) # Place(q)  BY <1>2, <2>1, PathOrder
  <2> QED BY <2>2, <2>3
<1> QED BY <1>2, <1>4, <1>5, <1>6 DEF Remaining

(* visit_directory.                                                        *)
LEMMA VisitEntryKeeps ==
    ASSUME SearchInv, VisitEntry
    PROVE  SearchInv'
<1>1. /\ walk.pc = "walk" /\ walk.call.op = "list_dir" /\ WalkInv /\ walk \in Walks /\ WasKept /\ NothingGone /\ TreeOK
      /\ tree \in [PathSet -> Kinds] /\ walk.was \in [PathSet -> SUBSET Kinds]
      /\ walk.call.max \in Nat /\ walk.call.max > 0 /\ walk.call.depth \in Nat /\ walk.call.from = <<>>
      /\ walk.todo \in SUBSET PathSet /\ walk.truncated \in BOOLEAN
  BY WalkTyped DEF VisitEntry
<1>2. ListInv  BY <1>1 DEF WalkInv
<1>3. walk.found \in Seq(Listings)  BY <1>2 DEF ListInv
<1> DEFINE F(p) == Append(walk.found, [path |-> p, kind |-> tree[p]])
           Full(p) == Len(F(p)) >= walk.call.max
<1>4. PICK p \in walk.todo :
          /\ IsNext(p)
          /\ IF Ignored(p, walk.call) THEN Step([walk EXCEPT !.todo = Remaining(p)])
             ELSE IF ~There(p) THEN CallFails
             ELSE Step([walk EXCEPT !.found = F(p), !.truncated = Full(p),
                        !.todo = IF Full(p) THEN {}
                                 ELSE IF tree[p] = "dir" /\ Len(p) < walk.call.depth THEN Children(p) \cup Remaining(p)
                                 ELSE Remaining(p)])
  BY DEF VisitEntry
<1> DEFINE e == [path |-> p, kind |-> tree[p]]
           t == F(p)
           full == Full(p)
<1>5. /\ p \in PathSet
      /\ Remaining(p) \in SUBSET PathSet /\ Children(p) \in SUBSET PathSet
      /\ \A q \in PathSet : q \in Remaining(p) <=> q \in walk.todo /\ q # p
      /\ \A q \in PathSet : q \in Children(p) <=> Parent(q) = p /\ tree[q] # "none"
      /\ \A q \in Children(p) \cup Remaining(p) : Place(p) < Place(q)
  BY <1>1, <1>4, NextOne
<1>6. ~walk.truncated /\ Len(walk.found) < walk.call.max /\ ListCovers
  BY <1>1, <1>2, <1>4 DEF ListInv
<1>7. p # <<>> /\ (There(p) <=> tree[p] # "none")  BY <1>5, ParentOrder DEF There
<1>8. e \in Listings /\ e.path = p /\ e.kind = tree[p] /\ tree[p] \in walk.was[p] /\ e = Listed(p) /\ t = Append(walk.found, e)
  BY <1>1, <1>5 DEF Listings, WasKept, Listed
<1>9. /\ t \in Seq(Listings) /\ Len(t) = Len(walk.found) + 1 /\ Len(walk.found) \in Nat
      /\ DOMAIN walk.found = 1..Len(walk.found) /\ DOMAIN t = 1..(Len(walk.found) + 1)
      /\ \A i \in DOMAIN walk.found : t[i] = walk.found[i]
      /\ t[Len(walk.found) + 1] = e
      /\ \A x : x \in ToSet(t) <=> x \in ToSet(walk.found) \/ x = e
  <2> DEFINE s == walk.found
  <2>1. s \in Seq(Listings) /\ e \in Listings /\ t = Append(s, e)  BY <1>3, <1>8
  <2> HIDE DEF e, t, s
  <2>2. AppendedTo(Listings, s, e, t)  BY <2>1, Appended
  <2> QED BY <2>2 DEF s, AppendedTo
<1>10. ASSUME NEW q \in PathSet, Stood(q), Reached(q, walk.call)
       PROVE  /\ tree[q] # "none" /\ Len(q) \in Nat
              /\ Parent(q) = p => tree[p] = "dir" /\ Len(q) = Len(p) + 1
              /\ q = p \/ Parent(q) = p => ~Ignored(p, walk.call)
  <2>1. tree[q] # "none"  BY <1>1, <1>10, StoodIs
  <2>2. \A x \in PathSet : Len(x) \in Nat /\ Len(x) > 0 /\ Len(Parent(x)) = Len(x) - 1  BY ParentOrder
  <2>3. Parent(q) = p => tree[p] = "dir" /\ Len(q) = Len(p) + 1
    BY <1>1, <1>5, <1>7, <2>1, <2>2 DEF TreeOK
  <2>4. Len(<<>>) = 0  OBVIOUS
  <2>5. /\ Len(q) > 0 => ~Ignored(q, walk.call)
        /\ Len(Parent(q)) > 0 => ~Ignored(Parent(q), walk.call)
    <3>1. walk.call.from \in Dirs /\ Len(walk.call.from) = 0  BY <1>1, <2>4 DEF Dirs
    <3> DEFINE r == walk.call
    <3>2. r.from \in Dirs /\ Reached(q, r) /\ Len(r.from) = 0  BY <1>10, <3>1
    <3> HIDE DEF r
    <3>3. (Len(q) > Len(r.from) => ~Ignored(q, r)) /\ (Len(Parent(q)) > Len(r.from) => ~Ignored(Parent(q), r))
      BY <3>2, ReachedFrom
    <3> QED BY <3>2, <3>3 DEF r
  <2> QED BY <1>5, <2>1, <2>2, <2>3, <2>5
<1> HIDE DEF e, t, F
<1>11. /\ \A i \in DOMAIN t : t[i].kind \in walk.was[t[i].path]
       /\ EntriesIncrease(t)
       /\ \A i \in DOMAIN t, q \in Children(p) \cup Remaining(p) : Place(t[i].path) < Place(q)
  <2>1. ASSUME NEW i \in DOMAIN t
        PROVE  \/ i \in DOMAIN walk.found /\ t[i] = walk.found[i] /\ Place(t[i].path) < Place(p)
               \/ i = Len(walk.found) + 1 /\ t[i] = e
    <3>1. i \in DOMAIN walk.found \/ i = Len(walk.found) + 1  BY <1>9
    <3> QED BY <1>2, <1>4, <1>9, <3>1 DEF ListInv
  <2>2. \A i \in DOMAIN t : t[i].kind \in walk.was[t[i].path]
    BY <1>2, <1>8, <2>1 DEF ListInv
  <2>3. EntriesIncrease(t)
    <3> SUFFICES ASSUME NEW i \in DOMAIN t, NEW j \in DOMAIN t, i < j PROVE Place(t[i].path) < Place(t[j].path)
      BY DEF EntriesIncrease
    <3>1. i \in DOMAIN walk.found  BY <1>9
    <3> QED BY <1>2, <1>8, <2>1, <3>1 DEF ListInv, EntriesIncrease
  <2>4. \A i \in DOMAIN t, q \in Children(p) \cup Remaining(p) : Place(t[i].path) < Place(q)
    <3> TAKE i \in DOMAIN t, q \in Children(p) \cup Remaining(p)
    <3>1. Place(p) < Place(q) /\ q \in PathSet /\ t[i].path \in PathSet
      <4>1. t[i] \in Listings  BY <1>9, InSeq
      <4> QED BY <1>5, <4>1 DEF Listings
    <3>2. Place(p) \in Nat /\ Place(q) \in Nat /\ Place(t[i].path) \in Nat  BY <1>5, <3>1, PathOrder
    <3> QED BY <1>8, <2>1, <3>1, <3>2
  <2> QED BY <2>2, <2>3, <2>4
<1>12. \A x : x \in ToSet(walk.found) => x \in ToSet(t)  BY <1>9
<1>13. CASE Ignored(p, walk.call)
  <2>1. GoesOn(Remaining(p), walk.found, walk.truncated)
    BY <1>1, <1>4, <1>13 DEF Step, GoesOn, Walks
  <2>2. /\ tree' = tree /\ walk'.pc = walk.pc /\ walk'.call = walk.call /\ walk'.todo = Remaining(p) /\ walk'.found = walk.found
        /\ walk'.truncated = walk.truncated /\ walk'.was = walk.was
    BY <1>1, <2>1, GoesOnIs
  <2>3. ListCovers'
    <3> SUFFICES ASSUME NEW q \in PathSet, Stood(q), Reached(q, walk.call), Len(q) <= walk.call.depth
                 PROVE  Listed(q) \in ToSet(walk.found) \/ q \in Remaining(p) \/ Parent(q) \in Remaining(p)
      BY <2>2 DEF ListCovers, Stood, ToCome, Listed
    <3>1. q # p /\ Parent(q) # p  BY <1>10, <1>13
    <3>2. Listed(q) \in ToSet(walk.found) \/ q \in walk.todo \/ Parent(q) \in walk.todo  BY <1>6 DEF ListCovers, ToCome
    <3> QED BY <3>1, <3>2 DEF Remaining
  <2>4. ListInv'
    BY <1>1, <1>2, <1>5, <1>6, <2>2, <2>3 DEF ListInv
  <2> QED BY <1>1, <1>3, <1>5, <2>1, <2>4, GoesOnKeeps DEF NothingGone
<1>14. CASE ~Ignored(p, walk.call) /\ ~There(p)
  <2>1. CallFails  BY <1>4, <1>14
  <2>2. walk.changes # 0  BY <1>1, <1>7, <1>14 DEF NothingGone
  <2> QED BY <1>1, <2>1, <2>2, FailsKeeps
<1>15. CASE ~Ignored(p, walk.call) /\ There(p)
  <2> DEFINE todo == IF full THEN {}
                     ELSE IF tree[p] = "dir" /\ Len(p) < walk.call.depth THEN Children(p) \cup Remaining(p)
                     ELSE Remaining(p)
  <2>1. Step([walk EXCEPT !.found = t, !.truncated = full, !.todo = todo])
    BY <1>4, <1>15 DEF t, full
  <2>2. full \in BOOLEAN /\ (full <=> Len(t) >= walk.call.max)  BY DEF full, t
  <2> HIDE DEF full
  <2>3. todo \in SUBSET PathSet /\ todo \subseteq Children(p) \cup Remaining(p)  BY <1>5
  <2>4. GoesOn(todo, t, full)
    <3> HIDE DEF todo
    <3> QED BY <1>1, <2>1 DEF Step, GoesOn, Walks
  <2>5. /\ tree' = tree /\ walk'.pc = walk.pc /\ walk'.call = walk.call /\ walk'.todo = todo /\ walk'.found = t
        /\ walk'.truncated = full /\ walk'.was = walk.was
    <3> HIDE DEF todo
    <3> QED BY <1>1, <2>4, GoesOnIs
  <2>6. ~full => ListCovers'
    <3> SUFFICES ASSUME ~full, NEW q \in PathSet, Stood(q), Reached(q, walk.call), Len(q) <= walk.call.depth
                 PROVE  Listed(q) \in ToSet(t) \/ q \in todo \/ Parent(q) \in todo
      <4> HIDE DEF todo
      <4> QED BY <2>5 DEF ListCovers, Stood, ToCome, Listed
    <3>1. Listed(q) \in ToSet(walk.found) \/ q \in walk.todo \/ Parent(q) \in walk.todo  BY <1>6 DEF ListCovers, ToCome
    <3>2. CASE Listed(q) \in ToSet(walk.found)  BY <1>12, <3>2
    <3>3. CASE q = p  BY <1>8, <1>9, <3>3
    <3>4. CASE Parent(q) = p
      <4>1. tree[p] = "dir" /\ Len(p) < walk.call.depth
        <5>1. Len(p) \in Nat  BY <1>5, ParentOrder
        <5> QED BY <1>1, <1>10, <3>4, <5>1
      <4>2. q \in Children(p)  BY <1>5, <1>10, <3>4
      <4> QED BY <4>1, <4>2
    <3>5. CASE q \in walk.todo /\ q # p  BY <1>5, <3>5
    <3>6. CASE Parent(q) \in walk.todo /\ Parent(q) # p  BY <3>6 DEF Remaining
    <3> QED BY <3>1, <3>2, <3>3, <3>4, <3>5, <3>6
  <2>7. full => todo = {} /\ Len(t) = walk.call.max  BY <1>1, <1>6, <1>9, <2>2
  <2>8. ~full => Len(t) < walk.call.max  BY <1>1, <1>9, <2>2
  <2>9. \A q \in todo : walk.changes = 0 => tree[q] # "none"
    <3> TAKE q \in todo
    <3>1. q \in Children(p) \/ (q \in walk.todo /\ q \in PathSet)  BY <1>1, <1>5, <2>3
    <3>2. q \in PathSet  BY <1>5, <3>1
    <3> QED BY <1>1, <1>5, <3>1, <3>2 DEF NothingGone
  <2> HIDE DEF todo
  <2>10. ListInv'
    <3>1. \A i \in DOMAIN t, q \in todo : Place(t[i].path) < Place(q)  BY <1>11, <2>3
    <3> QED BY <1>1, <1>9, <1>11, <2>5, <2>6, <2>7, <2>8, <3>1 DEF ListInv
  <2> QED BY <1>1, <1>9, <2>2, <2>3, <2>4, <2>9, <2>10, GoesOnKeeps
<1> QED BY <1>13, <1>14, <1>15

LEMMA LastIsFile == "dir" \notin PlainFiles /\ "none" \notin PlainFiles /\ "link" \notin PlainFiles
BY DEF PlainFiles, Hits

(* walk_files.                                                             *)
LEMMA WalkFileKeeps ==
    ASSUME SearchInv, WalkFile
    PROVE  SearchInv'
<1>1. /\ walk.pc = "walk" /\ walk.call.op # "list_dir" /\ WalkInv /\ walk \in Walks /\ WasKept /\ NothingGone /\ TreeOK
      /\ tree \in [PathSet -> Kinds] /\ walk.was \in [PathSet -> SUBSET Kinds] /\ walk.call.from \in Dirs
      /\ walk.todo \in SUBSET PathSet
  BY WalkTyped DEF WalkFile
<1>2. walk.found \in Seq(PathSet) /\ FilesInv  BY <1>1 DEF WalkInv, FileInv
<1> DEFINE F(p) == Append(walk.found, p)
<1>3. PICK p \in walk.todo :
          /\ IsNext(p)
          /\ IF Ignored(p, walk.call) THEN Step([walk EXCEPT !.todo = Remaining(p)])
             ELSE IF ~There(p) THEN CallFails
             ELSE IF tree[p] = "dir" THEN Step([walk EXCEPT !.todo = Children(p) \cup Remaining(p)])
             ELSE IF tree[p] \in PlainFiles /\ Last(p) \in walk.call.include
             THEN Step([walk EXCEPT !.todo = Remaining(p), !.found = F(p)])
             ELSE Step([walk EXCEPT !.todo = Remaining(p)])
  BY DEF WalkFile
<1> DEFINE t == F(p)
<1>4. /\ p \in PathSet
      /\ Remaining(p) \in SUBSET PathSet /\ Children(p) \in SUBSET PathSet
      /\ \A q \in PathSet : q \in Remaining(p) <=> q \in walk.todo /\ q # p
      /\ \A q \in PathSet : q \in Children(p) <=> Parent(q) = p /\ tree[q] # "none"
      /\ \A q \in Children(p) \cup Remaining(p) : Place(p) < Place(q)
  BY <1>1, <1>3, NextOne
<1>5. p # <<>> /\ (There(p) <=> tree[p] # "none")  BY <1>4, ParentOrder DEF There
<1>6. AppendedTo(PathSet, walk.found, p, t)
  <2> DEFINE s == walk.found
  <2>1. s \in Seq(PathSet) /\ p \in PathSet /\ t = Append(s, p)  BY <1>2, <1>4
  <2> HIDE DEF s, t
  <2>2. AppendedTo(PathSet, s, p, t)  BY <2>1, Appended
  <2> QED BY <2>2 DEF s
<1>7. ASSUME NEW q \in PathSet, IsText(q), Reached(q, walk.call)
      PROVE  /\ tree[q] # "none" /\ tree[q] # "dir"
             /\ Parent(q) = p => tree[p] = "dir"
             /\ q = p \/ Parent(q) = p => ~Ignored(p, walk.call)
             /\ q \in ToSet(walk.found) \/ q \in walk.todo \/ Parent(q) \in walk.todo \/ q = walk.call.from
  <2>1. tree[q] # "none" /\ tree[q] # "dir"  BY <1>7, LastIsFile DEF IsText
  <2>2. Parent(q) = p => tree[p] = "dir"  BY <1>1, <1>5, <2>1 DEF TreeOK
  <2> DEFINE r == walk.call
  <2>3. r.from \in Dirs /\ Reached(q, r) /\ Len(p) > Len(r.from)  BY <1>1, <1>2, <1>3, <1>7 DEF FilesInv
  <2> HIDE DEF r
  <2>4. (Len(q) > Len(r.from) => ~Ignored(q, r)) /\ (Len(Parent(q)) > Len(r.from) => ~Ignored(Parent(q), r))
    BY <2>3, ReachedFrom
  <2>5. q = p \/ Parent(q) = p => ~Ignored(p, walk.call)  BY <2>3, <2>4 DEF r
  <2>6. q \in ToSet(walk.found) \/ q \in walk.todo \/ Parent(q) \in walk.todo \/ q = walk.call.from
    BY <1>2, <1>7 DEF FilesInv, FilesCover, ToCome
  <2> QED BY <2>1, <2>2, <2>5, <2>6
<1> HIDE DEF t, F
<1>8. ASSUME NEW todo \in SUBSET PathSet, todo \subseteq Children(p) \cup Remaining(p),
             NEW found, found = walk.found \/ (found = t /\ tree[p] \in PlainFiles),
             GoesOn(todo, found, FALSE),
             \A q \in PathSet : IsText(q) /\ Reached(q, walk.call) =>
                 (q = p => p \in ToSet(found)) /\ (Parent(q) = p => q \in todo) /\ (q \in Remaining(p) => q \in todo)
                 /\ (Parent(q) \in Remaining(p) => Parent(q) \in todo)
      PROVE  SearchInv'
  <2>1. /\ tree' = tree /\ walk'.pc = walk.pc /\ walk'.call = walk.call /\ walk'.todo = todo /\ walk'.found = found
        /\ walk'.matches = walk.matches /\ walk'.truncated = FALSE /\ walk'.capped = walk.capped /\ walk'.was = walk.was
    BY <1>1, <1>8, GoesOnIs
  <2>2. found \in Seq(PathSet) /\ \A x : x \in ToSet(walk.found) => x \in ToSet(found)
    BY <1>2, <1>6, <1>8 DEF AppendedTo
  <2>3. FilesCover'
    <3> SUFFICES ASSUME NEW q \in PathSet, IsText(q), Reached(q, walk.call)
                 PROVE  q \in ToSet(found) \/ q \in todo \/ Parent(q) \in todo \/ q = walk.call.from
      BY <2>1 DEF FilesCover, IsText, Stood, ToCome
    <3>1. q \in ToSet(walk.found) \/ q \in walk.todo \/ Parent(q) \in walk.todo \/ q = walk.call.from  BY <1>7
    <3>2. (q \in walk.todo => q = p \/ q \in Remaining(p)) /\ (Parent(q) \in walk.todo => Parent(q) = p \/ Parent(q) \in Remaining(p))
      BY DEF Remaining
    <3> QED BY <1>8, <2>2, <3>1, <3>2
  <2>4. ASSUME NEW i \in DOMAIN found
        PROVE  \/ i \in DOMAIN walk.found /\ found[i] = walk.found[i] /\ Place(found[i]) < Place(p)
               \/ i = Len(walk.found) + 1 /\ found[i] = p /\ tree[p] \in PlainFiles
    <3>1. CASE found = walk.found  BY <1>2, <1>3, <3>1 DEF FilesInv
    <3>2. CASE found = t /\ tree[p] \in PlainFiles
      <4>1. i \in DOMAIN walk.found \/ i = Len(walk.found) + 1  BY <1>6, <3>2 DEF AppendedTo
      <4> QED BY <1>2, <1>3, <1>6, <3>2, <4>1 DEF AppendedTo, FilesInv
    <3> QED BY <1>8, <3>1, <3>2
  <2>5. Increasing(found)
    <3> SUFFICES ASSUME NEW i \in DOMAIN found, NEW j \in DOMAIN found, i < j PROVE Place(found[i]) < Place(found[j])
      BY DEF Increasing
    <3>1. i \in DOMAIN walk.found
      <4>1. Len(found) \in Nat /\ i \in Nat /\ j \in Nat /\ DOMAIN found = 1..Len(found)  BY <2>2, InSeq
      <4>2. DOMAIN walk.found = 1..Len(walk.found) /\ Len(walk.found) \in Nat  BY <1>2, InSeq
      <4> QED BY <2>4, <4>1, <4>2
    <3>2. Place(found[i]) < Place(p) /\ found[i] = walk.found[i]
      <4>1. Len(walk.found) + 1 \notin DOMAIN walk.found  BY <1>2, InSeq
      <4> QED BY <2>4, <3>1, <4>1
    <3> QED BY <1>2, <2>4, <3>1, <3>2 DEF FilesInv, Increasing
  <2>6. \A i \in DOMAIN found, q \in todo : Place(found[i]) < Place(q)
    <3> TAKE i \in DOMAIN found, q \in todo
    <3>1. Place(p) < Place(q) /\ q \in PathSet /\ found[i] \in PathSet  BY <1>4, <1>8, <2>2, InSeq
    <3>2. Place(p) \in Nat /\ Place(q) \in Nat /\ Place(found[i]) \in Nat  BY <1>4, <3>1, PathOrder
    <3> QED BY <2>4, <3>1, <3>2
  <2>7. \A q \in ToSet(found) : walk.was[q] \cap PlainFiles # {}
    <3> SUFFICES ASSUME NEW i \in DOMAIN found PROVE walk.was[found[i]] \cap PlainFiles # {}  BY DEF ToSet
    <3>1. tree[p] \in walk.was[p]  BY <1>1, <1>4 DEF WasKept
    <3>2. i \in DOMAIN walk.found => walk.found[i] \in ToSet(walk.found)  BY DEF ToSet
    <3> QED BY <1>2, <2>4, <3>1, <3>2 DEF FilesInv
  <2>8. \A q \in todo : Len(q) > Len(walk.call.from)
    <3> TAKE q \in todo
    <3>1. q \in PathSet /\ (Parent(q) = p \/ q \in walk.todo)  BY <1>4, <1>8
    <3>2. Len(p) > Len(walk.call.from) /\ \A x \in walk.todo : Len(x) > Len(walk.call.from)  BY <1>2, <1>3 DEF FilesInv
    <3>3. Len(p) \in Nat /\ Len(q) \in Nat /\ Len(Parent(q)) = Len(q) - 1  BY <1>4, <3>1, ParentOrder
    <3>4. Len(walk.call.from) \in Nat
      <4>1. Len(<<>>) = 0 /\ Len(<<"d">>) = 1 /\ Len(<<"a">>) = 1  OBVIOUS
      <4> QED BY <1>1, <4>1 DEF Dirs
    <3> QED BY <3>1, <3>2, <3>3, <3>4
  <2>9. FilesInv'  BY <1>2, <2>1, <2>3, <2>5, <2>6, <2>7, <2>8 DEF FilesInv
  <2>10. FileInv'  BY <1>1, <2>1, <2>2, <2>9 DEF FileInv
  <2>11. walk.changes = 0 => \A q \in todo : tree[q] # "none"
    <3> SUFFICES ASSUME walk.changes = 0, NEW q \in todo PROVE tree[q] # "none"  OBVIOUS
    <3>1. q \in PathSet /\ (q \in Children(p) \/ q \in walk.todo)  BY <1>4, <1>8
    <3> QED BY <1>1, <1>4, <3>1 DEF NothingGone
  <2>12. \A q \in ToSet(found) : q \in ToSet(walk.found) \/ tree[q] # "none"
    <3> TAKE q \in ToSet(found)
    <3>1. CASE found = walk.found  BY <3>1
    <3>2. CASE found = t /\ tree[p] \in PlainFiles
      <4>1. q \in ToSet(walk.found) \/ q = p  BY <1>6, <3>2 DEF AppendedTo
      <4> QED BY <3>2, <4>1, LastIsFile
    <3> QED BY <1>8, <3>1, <3>2
  <2> QED BY <1>1, <1>8, <2>2, <2>10, <2>11, <2>12, GoesOnKeeps
<1>9. walk.truncated = FALSE  BY <1>2 DEF FilesInv
<1>10. CASE Ignored(p, walk.call)
  <2>1. GoesOn(Remaining(p), walk.found, FALSE)
    BY <1>1, <1>3, <1>9, <1>10 DEF Step, GoesOn, Walks
  <2>2. \A q \in PathSet : IsText(q) /\ Reached(q, walk.call) => q # p /\ Parent(q) # p  BY <1>7, <1>10
  <2> QED BY <1>4, <1>8, <2>1, <2>2
<1>11. CASE ~Ignored(p, walk.call) /\ ~There(p)
  <2>1. CallFails  BY <1>3, <1>11
  <2>2. walk.changes # 0  BY <1>1, <1>5, <1>11 DEF NothingGone
  <2> QED BY <1>1, <2>1, <2>2, FailsKeeps
<1>12. CASE ~Ignored(p, walk.call) /\ There(p) /\ tree[p] = "dir"
  <2>1. Step([walk EXCEPT !.todo = Children(p) \cup Remaining(p)])  BY <1>3, <1>12
  <2>2. GoesOn(Children(p) \cup Remaining(p), walk.found, FALSE)
    BY <1>1, <1>9, <2>1 DEF Step, GoesOn, Walks
  <2>3. \A q \in PathSet : IsText(q) /\ Reached(q, walk.call) => q # p /\ (Parent(q) = p => q \in Children(p))
    BY <1>4, <1>7, <1>12
  <2>4. Children(p) \cup Remaining(p) \in SUBSET PathSet  BY <1>4
  <2> QED BY <1>8, <2>2, <2>3, <2>4
<1>13. CASE ~Ignored(p, walk.call) /\ There(p) /\ tree[p] # "dir" /\ tree[p] \in PlainFiles /\ Last(p) \in walk.call.include
  <2>1. Step([walk EXCEPT !.todo = Remaining(p), !.found = t])  BY <1>3, <1>13 DEF t
  <2>2. GoesOn(Remaining(p), t, FALSE)  BY <1>1, <1>9, <2>1 DEF Step, GoesOn, Walks
  <2>3. \A q \in PathSet : IsText(q) /\ Reached(q, walk.call) => Parent(q) # p  BY <1>7, <1>13
  <2>4. p \in ToSet(t)  BY <1>6 DEF AppendedTo
  <2> QED BY <1>4, <1>8, <1>13, <2>2, <2>3, <2>4
<1>14. CASE ~Ignored(p, walk.call) /\ There(p) /\ tree[p] # "dir" /\ ~(tree[p] \in PlainFiles /\ Last(p) \in walk.call.include)
  <2>1. Step([walk EXCEPT !.todo = Remaining(p)])  BY <1>3, <1>14
  <2>2. GoesOn(Remaining(p), walk.found, FALSE)  BY <1>1, <1>9, <2>1 DEF Step, GoesOn, Walks
  <2>3. \A q \in PathSet : IsText(q) /\ Reached(q, walk.call) => Parent(q) # p /\ q # p  BY <1>7, <1>14 DEF IsText
  <2> QED BY <1>4, <1>8, <2>2, <2>3
<1> QED BY <1>10, <1>11, <1>12, <1>13, <1>14

FirstOfSeq(S, s, n) ==
    LET f == FirstOf(s, n)
    IN /\ f \in Seq(S) /\ \A i \in DOMAIN f : i \in DOMAIN s /\ f[i] = s[i]
       /\ Len(s) <= n => f = s
       /\ Len(s) >= n => Len(f) = n
       /\ \A x \in ToSet(f) : x \in ToSet(s)

LEMMA FirstOfIs == \A S : \A s \in Seq(S), n \in Nat : FirstOfSeq(S, s, n)
<1> TAKE S
<1> TAKE s \in Seq(S), n \in Nat
<1> DEFINE m == Len(s)
           k == IF m < n THEN m ELSE n
           f == SubSeq(s, 1, k)
<1>1. m \in Nat /\ DOMAIN s = 1..m /\ \A i \in 1..m : s[i] \in S  BY LenProperties, ElementOfSeq
<1> HIDE DEF m
<1>2. k \in Nat /\ k <= m /\ 1 \in Int /\ k \in Int /\ (m <= n => k = m) /\ (m >= n => k = n)  BY <1>1
<1> HIDE DEF k
<1>3. \A i \in 1..k : i \in 1..m /\ s[i] \in S
  <2>1. \A i \in 1..k : i \in 1..m  BY <1>1, <1>2
  <2> QED BY <1>1, <2>1
<1>4. /\ f \in Seq(S) /\ Len(f) = (IF 1 <= k THEN k - 1 + 1 ELSE 0)
      /\ \A i \in 1..(k - 1 + 1) : f[i] = s[1 + i - 1]
  BY <1>2, <1>3, SubSeqProperties
<1> HIDE DEF f
<1>5. Len(f) = k /\ DOMAIN f = 1..k
  <2>1. Len(f) = k  BY <1>2, <1>4
  <2> QED BY <1>4, <2>1, LenProperties
<1>6. \A i \in DOMAIN f : i \in DOMAIN s /\ f[i] = s[i]
  <2> TAKE i \in DOMAIN f
  <2>1. i \in 1..k  BY <1>5
  <2>2. i \in 1..(k - 1 + 1) /\ 1 + i - 1 = i  BY <1>2, <2>1
  <2> QED BY <1>1, <1>3, <1>4, <2>1, <2>2
<1>7. m <= n => f = s  BY <1>2, SubSeqFull DEF f, m
<1>8. \A x \in ToSet(f) : x \in ToSet(s)  BY <1>6 DEF ToSet
<1> QED BY <1>2, <1>4, <1>5, <1>6, <1>7, <1>8 DEF FirstOfSeq, FirstOf, f, k, m

(* The walk is over.                                                       *)
LEMMA EndListingKeeps ==
    ASSUME SearchInv, EndListing
    PROVE  SearchInv'
<1>1. /\ walk.pc = "walk" /\ walk.todo = {} /\ WalkInv /\ walk \in Walks /\ WasKept /\ NothingGone /\ TreeOK
      /\ tree \in [PathSet -> Kinds] /\ walk.was \in [PathSet -> SUBSET Kinds] /\ walk.call.from \in Dirs
      /\ walk.call.op \in {"list_dir", "list_files", "search"} /\ (walk.call.op # "search" => walk.call.from = <<>>)
      /\ walk.call.max \in Nat /\ SearchCap \in Nat
  BY WalkTyped, ReadSizes DEF EndListing
<1>2. \A p \in PathSet : p # <<>>  BY ParentOrder
<1>3. CASE walk.call.op = "list_dir"
  <2>1. Step([walk EXCEPT !.pc = "done"])  BY <1>3 DEF EndListing
  <2>2. /\ tree' = tree /\ walk'.pc = "done" /\ walk'.call = walk.call /\ walk'.todo = walk.todo /\ walk'.found = walk.found
        /\ walk'.matches = walk.matches /\ walk'.truncated = walk.truncated /\ walk'.capped = walk.capped
        /\ walk'.changes = walk.changes /\ walk'.was = walk.was
        /\ walk' = [pc |-> "done", call |-> walk.call, todo |-> walk.todo, found |-> walk.found, matches |-> walk.matches,
                    truncated |-> walk.truncated, capped |-> walk.capped, changes |-> walk.changes, was |-> walk.was]
    BY <1>1, <2>1 DEF Step, Walks
  <2>3. TreeOK' /\ WasKept'  BY <1>1, <2>2 DEF TreeOK, WasKept
  <2>4. (walk \in Walks)'  BY <1>1, <2>2 DEF Walks
  <2>5. NothingGone'  BY <1>1, <2>2 DEF NothingGone
  <2>6. ListInv  BY <1>1, <1>3 DEF WalkInv
  <2>7. ListCovers => ListCovers'  BY <2>2 DEF ListCovers, Stood, ToCome, Listed
  <2>8. ListInv'
    <3>1. EntriesIncrease(walk'.found)  BY <2>2, <2>6 DEF ListInv
    <3>2. /\ walk'.found \in Seq(Listings)
          /\ \A i \in DOMAIN walk'.found : walk'.found[i].kind \in walk'.was[walk'.found[i].path]
      BY <2>2, <2>6 DEF ListInv
    <3>3. walk'.truncated => Len(walk'.found) = walk'.call.max  BY <2>2, <2>6 DEF ListInv
    <3>4. ~walk'.truncated => Len(walk'.found) < walk'.call.max /\ ListCovers'
      BY <2>2, <2>6, <2>7 DEF ListInv
    <3>5. walk'.todo = {} /\ walk'.pc = "done"  BY <1>1, <2>2
    <3> QED BY <3>1, <3>2, <3>3, <3>4, <3>5 DEF ListInv
  <2> QED BY <1>3, <2>2, <2>3, <2>4, <2>5, <2>8 DEF SearchInv, WalkInv
<1>4. CASE walk.call.op # "list_dir"
  <2>1. walk.found \in Seq(PathSet) /\ FilesInv  BY <1>1, <1>4 DEF WalkInv, FileInv
  <2> DEFINE n == IF walk.call.op = "list_files" THEN walk.call.max ELSE SearchCap
             f == FirstOf(walk.found, n)
             pc == IF walk.call.op = "list_files" THEN "done" ELSE "read"
             over == Len(walk.found) > n
             truncated == IF walk.call.op = "list_files" THEN over ELSE FALSE
             capped == IF walk.call.op = "list_files" THEN FALSE ELSE over
  <2>2. Len(walk.found) \in Nat /\ n \in Nat  BY <1>1, <2>1, InSeq
  <2>3. /\ tree' = tree
        /\ walk' = [pc |-> pc, call |-> walk.call, todo |-> walk.todo, found |-> f, matches |-> walk.matches,
                    truncated |-> truncated, capped |-> capped, changes |-> walk.changes, was |-> walk.was]
    <3>1. walk.truncated = FALSE /\ walk.capped = FALSE  BY <2>1 DEF FilesInv
    <3>2. CASE walk.call.op = "list_files"
      <4>1. Step([walk EXCEPT !.pc = "done", !.truncated = Len(walk.found) > walk.call.max,
                  !.found = FirstOf(walk.found, walk.call.max)])
        BY <3>2 DEF EndListing
      <4> QED BY <1>1, <3>1, <3>2, <4>1 DEF Step, Walks
    <3>3. CASE walk.call.op # "list_files"
      <4>1. Step([walk EXCEPT !.pc = "read", !.found = FirstOf(walk.found, SearchCap), !.capped = Len(walk.found) > SearchCap])
        BY <1>4, <3>3 DEF EndListing
      <4> QED BY <1>1, <3>1, <3>3, <4>1 DEF Step, Walks
    <3> QED BY <3>2, <3>3
  <2>4. truncated \in BOOLEAN /\ capped \in BOOLEAN
    <3>1. over \in BOOLEAN  OBVIOUS
    <3> HIDE DEF over
    <3> QED BY <3>1
  <2>5. FirstOfSeq(PathSet, walk.found, n)
    <3> DEFINE s == walk.found
    <3>1. s \in Seq(PathSet) /\ n \in Nat  BY <2>1, <2>2
    <3> HIDE DEF s, n
    <3>2. FirstOfSeq(PathSet, s, n)  BY <3>1, FirstOfIs
    <3> QED BY <3>2 DEF s
  <2> HIDE DEF f
  <2>6. /\ f \in Seq(PathSet) /\ \A i \in DOMAIN f : i \in DOMAIN walk.found /\ f[i] = walk.found[i]
        /\ (Len(walk.found) <= n => f = walk.found) /\ (Len(walk.found) >= n => Len(f) = n)
        /\ \A x \in ToSet(f) : x \in ToSet(walk.found)
    <3> HIDE DEF n
    <3> QED BY <2>5 DEF FirstOfSeq, f
  <2>7. /\ walk'.pc = pc /\ walk'.call = walk.call /\ walk'.todo = walk.todo /\ walk'.found = f /\ walk'.matches = walk.matches
        /\ walk'.truncated = truncated /\ walk'.capped = capped /\ walk'.changes = walk.changes /\ walk'.was = walk.was
    <3> HIDE DEF truncated, capped, pc
    <3> QED BY <2>3
  <2>8. TreeOK' /\ WasKept'  BY <1>1, <2>3, <2>7 DEF TreeOK, WasKept
  <2>9. (walk \in Walks)'  BY <1>1, <2>3, <2>4, <2>6 DEF Walks
  <2>10. NothingGone'  BY <1>1, <2>3, <2>6, <2>7 DEF NothingGone
  <2>11. walk.matches = <<>> /\ Increasing(walk.found) /\ (\A p \in ToSet(walk.found) : walk.was[p] \cap PlainFiles # {})
    BY <2>1 DEF FilesInv
  <2>12. ASSUME NEW p \in PathSet, IsText(p), Reached(p, walk.call) PROVE p \in ToSet(walk.found)
    <3>1. p \in ToSet(walk.found) \/ p = walk.call.from
      <4>1. p \in ToSet(walk.found) \/ ToCome(p) \/ p = walk.call.from  BY <2>1, <2>12 DEF FilesInv, FilesCover
      <4> QED BY <1>1, <4>1 DEF ToCome
    <3>2. p # walk.call.from
      <4> SUFFICES ASSUME p = walk.call.from PROVE FALSE  OBVIOUS
      <4>1. "dir" \in walk.was[p]  BY <1>2, <2>1 DEF FilesInv
      <4>2. walk.was[p] = {tree[p]}  BY <1>1, <2>12, StoodIs DEF IsText
      <4> QED BY <2>12, <4>1, <4>2, LastIsFile DEF IsText
    <3> QED BY <3>1, <3>2
  <2>13. \A p \in PathSet : IsText(p)' <=> IsText(p)  BY <2>3, <2>7 DEF IsText, Stood
  <2>14. walk.call.op = "list_files" => FilesListed'
    <3> SUFFICES ASSUME walk.call.op = "list_files" PROVE FilesListed'  OBVIOUS
    <3>1. n = walk.call.max /\ (truncated <=> Len(walk.found) > n)  OBVIOUS
    <3> HIDE DEF n, truncated
    <3>2. \A p \in ToSet(f) : walk.was[p] \cap PlainFiles # {}  BY <2>6, <2>11
    <3>3. truncated => Len(f) = walk.call.max  BY <2>2, <2>6, <3>1
    <3>4. ~truncated => \A p \in PathSet : IsText(p) /\ Reached(p, walk.call) => p \in ToSet(f)
      BY <2>2, <2>6, <2>12, <3>1
    <3> QED BY <2>7, <2>13, <3>2, <3>3, <3>4 DEF FilesListed
  <2>15. walk.call.op # "list_files" => SearchingInv'
    <3> SUFFICES ASSUME walk.call.op # "list_files" PROVE SearchingInv'  OBVIOUS
    <3>1. walk.call.op = "search" /\ truncated = FALSE /\ (capped <=> Len(walk.found) > n)  BY <1>1, <1>4
    <3> HIDE DEF n, truncated, capped
    <3>2. Increasing(f)  BY <2>6, <2>11 DEF Increasing
    <3>3. MatchKinds'  BY <2>7, <2>11 DEF MatchKinds
    <3>4. ~capped => Counted'
      <4> SUFFICES ASSUME ~capped, NEW p \in PathSet, IsText(p), Reached(p, walk.call)
                   PROVE  p \in ToSet(f) /\ Cardinality(Places(<<>>, MatchesOf(p))) = 0
        BY <2>3, <2>7, <2>11, <2>13 DEF Counted
      <4>1. Places(<<>>, MatchesOf(p)) = {} /\ Cardinality({}) = 0  BY FS_EmptySet DEF Places
      <4>2. f = walk.found  BY <2>2, <2>6, <3>1
      <4>3. p \in ToSet(walk.found)  BY <2>12
      <4> QED BY <4>1, <4>2, <4>3
    <3> QED BY <2>7, <3>1, <3>2, <3>3, <3>4 DEF SearchingInv
  <2>16. FileInv'
    <3>1. (walk.call.op = "list_files" => walk'.pc = "done") /\ (walk.call.op # "list_files" => walk'.pc = "read")  BY <2>7
    <3>2. walk'.found \in Seq(PathSet) /\ walk'.call = walk.call  BY <2>6, <2>7
    <3> QED BY <2>14, <2>15, <3>1, <3>2 DEF FileInv
  <2>17. walk'.pc # "failed" /\ walk'.call.op # "list_dir"  BY <1>4, <2>7
  <2> QED BY <2>8, <2>9, <2>10, <2>16, <2>17 DEF SearchInv, WalkInv
<1> QED BY <1>3, <1>4

RestIs(S, s) ==
    /\ Head(s) \in S /\ Tail(s) \in Seq(S)
    /\ \A x : x \in ToSet(s) <=> x = Head(s) \/ x \in ToSet(Tail(s))
    /\ \A i \in DOMAIN Tail(s) : i \in Nat /\ i + 1 \in DOMAIN s /\ Tail(s)[i] = s[i + 1]
    /\ 1 \in DOMAIN s /\ s[1] = Head(s)

LEMMA HeadAndTail == \A S : \A s \in Seq(S) : s # <<>> => RestIs(S, s)
<1> TAKE S
<1> TAKE s \in Seq(S)
<1> SUFFICES ASSUME s # <<>> PROVE RestIs(S, s)  OBVIOUS
<1> DEFINE n == Len(s)  t == Tail(s)
<1>1. n \in Nat /\ DOMAIN s = 1..n  BY LenProperties
<1>2. t \in Seq(S) /\ Len(t) = n - 1 /\ (\A i \in 1..(n - 1) : t[i] = s[i + 1]) /\ n # 0
  <2>1. n # 0  BY EmptySeq
  <2>2. Tail(s) \in Seq(S) /\ Len(Tail(s)) = Len(s) - 1 /\ \A i \in 1 .. Len(Tail(s)) : Tail(s)[i] = s[i + 1]
    BY HeadTailProperties
  <2> QED BY <2>1, <2>2
<1>3. Head(s) = s[1] /\ Head(s) \in S  BY HeadTailProperties
<1>4. DOMAIN t = 1..(n - 1)  BY <1>2, LenProperties
<1> HIDE DEF n, t
<1>5. 1 \in DOMAIN s  BY <1>1, <1>2
<1>6. \A i \in DOMAIN t : i \in Nat /\ i + 1 \in DOMAIN s /\ t[i] = s[i + 1]  BY <1>1, <1>2, <1>4
<1>7. ASSUME NEW i \in DOMAIN s PROVE s[i] = s[1] \/ s[i] \in ToSet(t)
  <2>1. CASE i = 1  BY <2>1
  <2>2. CASE i # 1
    <3>1. i - 1 \in 1..(n - 1) /\ (i - 1) + 1 = i  BY <1>1, <1>7, <2>2
    <3>2. t[i - 1] = s[i] /\ i - 1 \in DOMAIN t  BY <1>2, <1>4, <3>1
    <3> QED BY <3>2 DEF ToSet
  <2> QED BY <2>1, <2>2
<1>8. \A x : x \in ToSet(s) => x = s[1] \/ x \in ToSet(t)  BY <1>7 DEF ToSet
<1>9. \A x : x \in ToSet(t) => x \in ToSet(s)
  <2> SUFFICES ASSUME NEW i \in DOMAIN t PROVE t[i] \in ToSet(s)  BY DEF ToSet
  <2> QED BY <1>6 DEF ToSet
<1>10. s[1] \in ToSet(s)  BY <1>5 DEF ToSet
<1> QED BY <1>2, <1>3, <1>5, <1>6, <1>8, <1>9, <1>10 DEF RestIs, t

(* The lines that match of one file.                                       *)
LEMMA HitsCounted ==
    ASSUME NEW e \in Listings, NEW n \in Nat, NEW h, h = [k \in 1..n |-> e]
    PROVE  /\ h \in Seq(Listings) /\ DOMAIN h = 1..n /\ (\A k \in DOMAIN h : h[k] = e) /\ Len(h) = n
           /\ \A q : Cardinality(Places(h, MatchesOf(q))) = IF q = e.path THEN n ELSE 0
<1>1. h \in Seq(Listings) /\ DOMAIN h = 1..n /\ (\A k \in DOMAIN h : h[k] = e) /\ Len(h) = n  OBVIOUS
<1>2. \A q : Places(h, MatchesOf(q)) = IF q = e.path THEN 1..n ELSE {}  BY <1>1 DEF Places, MatchesOf
<1>3. Cardinality(1..n) = n
  <2>1. Cardinality(1..n) = IF 1 > n THEN 0 ELSE n - 1 + 1  BY FS_Interval
  <2> QED BY <2>1
<1>4. Cardinality({}) = 0  BY FS_EmptySet
<1> QED BY <1>1, <1>2, <1>3, <1>4

(* One more file of a search is read.                                      *)
LEMMA ReadOneKeeps ==
    ASSUME SearchInv, ReadOne
    PROVE  SearchInv'
<1>1. /\ walk.pc = "read" /\ WalkInv /\ walk \in Walks /\ WasKept /\ NothingGone /\ TreeOK
      /\ tree \in [PathSet -> Kinds] /\ walk.was \in [PathSet -> SUBSET Kinds]
      /\ walk.call.max \in Nat /\ walk.matches \in Seq(Listings)
  BY WalkTyped DEF ReadOne
<1>2. walk.call.op # "list_dir"  BY <1>1 DEF WalkInv, ListInv
<1>3. walk.found \in Seq(PathSet) /\ SearchingInv  BY <1>1, <1>2 DEF WalkInv, FileInv
<1>4. walk.call.op = "search" /\ walk.truncated = FALSE /\ Increasing(walk.found) /\ MatchKinds /\ (~walk.capped => Counted)
  BY <1>3 DEF SearchingInv
<1>5. ASSUME NEW pc \in {"read", "done"}, NEW found \in Seq(PathSet), NEW matches \in Seq(Listings), NEW truncated \in BOOLEAN,
             tree' = tree,
             walk' = [walk EXCEPT !.pc = pc, !.found = found, !.matches = matches, !.truncated = truncated],
             \A q \in ToSet(found) : q \in ToSet(walk.found),
             \A i \in DOMAIN matches : matches[i].kind \in walk.was[matches[i].path] \cup walk.was[LinkTarget],
             pc = "read" => Increasing(found) /\ truncated = FALSE,
             truncated => Len(matches) = walk.call.max,
             ~truncated /\ ~walk.capped =>
                 \A q \in PathSet : IsText(q) /\ tree[q] # "binary" /\ Reached(q, walk.call) =>
                     Cardinality(Places(matches, MatchesOf(q))) = IF pc = "read" /\ q \in ToSet(found) THEN 0 ELSE Hits[tree[q]]
      PROVE  SearchInv'
  <2>1. /\ walk'.pc = pc /\ walk'.call = walk.call /\ walk'.todo = walk.todo /\ walk'.found = found
        /\ walk'.matches = matches /\ walk'.truncated = truncated /\ walk'.capped = walk.capped
        /\ walk'.changes = walk.changes /\ walk'.was = walk.was
        /\ walk' = [pc |-> pc, call |-> walk.call, todo |-> walk.todo, found |-> found, matches |-> matches,
                    truncated |-> truncated, capped |-> walk.capped, changes |-> walk.changes, was |-> walk.was]
    BY <1>1, <1>5 DEF Walks
  <2>2. TreeOK' /\ WasKept'  BY <1>1, <1>5, <2>1 DEF TreeOK, WasKept
  <2>3. (walk \in Walks)'
    <3>1. pc \in {"walk", "read", "done", "failed"}  BY <1>5
    <3> QED BY <1>1, <1>5, <2>1, <3>1 DEF Walks
  <2>4. NothingGone'  BY <1>1, <1>5, <2>1 DEF NothingGone
  <2>5. MatchKinds'  BY <1>5, <2>1 DEF MatchKinds
  <2>6. \A q \in PathSet : IsText(q)' <=> IsText(q)  BY <1>5, <2>1 DEF IsText, Stood
  <2>7. pc = "read" => SearchingInv'
    <3> SUFFICES ASSUME pc = "read" PROVE SearchingInv'  OBVIOUS
    <3>1. ~walk.capped => Counted'  BY <1>5, <2>1, <2>6 DEF Counted
    <3> QED BY <1>4, <1>5, <2>1, <2>5, <3>1 DEF SearchingInv
  <2>8. pc = "done" => SearchedAll'
    <3> SUFFICES ASSUME pc = "done" PROVE SearchedAll'  OBVIOUS
    <3>1. ~truncated /\ ~walk.capped =>
              \A q \in PathSet : IsText(q)' /\ tree'[q] # "binary" /\ Reached(q, walk.call) =>
                  Cardinality(Places(matches, MatchesOf(q))) = Hits[tree'[q]]
      BY <1>5, <2>6
    <3> QED BY <1>5, <2>1, <2>5, <3>1 DEF SearchedAll
  <2>9. FileInv'  BY <1>4, <1>5, <2>1, <2>7, <2>8 DEF FileInv
  <2>10. walk'.pc # "failed" /\ walk'.call.op # "list_dir"  BY <1>2, <1>5, <2>1
  <2> QED BY <2>2, <2>3, <2>4, <2>9, <2>10 DEF SearchInv, WalkInv
<1>6. CASE walk.found = <<>>
  <2>1. tree' = tree /\ walk' = [walk EXCEPT !.pc = "done"]  BY <1>6 DEF ReadOne, Step
  <2>2. walk' = [walk EXCEPT !.pc = "done", !.found = walk.found, !.matches = walk.matches, !.truncated = FALSE]
    BY <1>1, <1>4, <2>1 DEF Walks
  <2>3. ToSet(walk.found) = {}  BY <1>6 DEF ToSet
  <2>4. ~walk.capped =>
                 \A q \in PathSet : IsText(q) /\ tree[q] # "binary" /\ Reached(q, walk.call) =>
                     Cardinality(Places(walk.matches, MatchesOf(q))) = Hits[tree[q]]
    BY <1>4, <2>3 DEF Counted
  <2>5. \A i \in DOMAIN walk.matches : walk.matches[i].kind \in walk.was[walk.matches[i].path] \cup walk.was[LinkTarget]
    BY <1>4 DEF MatchKinds
  <2> DEFINE pc == "done"  m == walk.matches  f == walk.found
  <2>6. /\ pc \in {"read", "done"} /\ pc # "read" /\ m \in Seq(Listings) /\ f \in Seq(PathSet)
        /\ walk' = [walk EXCEPT !.pc = pc, !.found = f, !.matches = m, !.truncated = FALSE]
    BY <1>1, <1>3, <2>2
  <2>7. \A i \in DOMAIN m : m[i].kind \in walk.was[m[i].path] \cup walk.was[LinkTarget]  BY <2>5
  <2>8. ~walk.capped =>
                 \A q \in PathSet : IsText(q) /\ tree[q] # "binary" /\ Reached(q, walk.call) =>
                     Cardinality(Places(m, MatchesOf(q))) = Hits[tree[q]]
    BY <2>4
  <2>9. (\A q \in ToSet(f) : q \in ToSet(walk.found)) /\ FALSE \in BOOLEAN  OBVIOUS
  <2> HIDE DEF pc, m, f
  <2>10. ~walk.capped =>
                 \A q \in PathSet : IsText(q) /\ tree[q] # "binary" /\ Reached(q, walk.call) =>
                     Cardinality(Places(m, MatchesOf(q))) = IF pc = "read" /\ q \in ToSet(f) THEN 0 ELSE Hits[tree[q]]
    BY <2>6, <2>8
  <2> QED BY <1>5, <2>1, <2>6, <2>7, <2>9, <2>10
<1>7. CASE walk.found # <<>>
  <2> DEFINE p == Head(walk.found)
             rest == Tail(walk.found)
             target == IF tree[p] = "link" THEN LinkTarget ELSE p
             kind == tree[target]
             e == [path |-> p, kind |-> kind]
             hits == IF kind \in DOMAIN Hits THEN [h \in 1..Hits[kind] |-> e] ELSE <<>>
             matches == walk.matches \o hits
  <2>1. IF ~There(p) \/ ~There(target) THEN CallFails
        ELSE IF hits # <<>> /\ Len(matches) >= walk.call.max
        THEN Step([walk EXCEPT !.pc = "done", !.matches = FirstOf(matches, walk.call.max), !.truncated = TRUE])
        ELSE Step([walk EXCEPT !.found = rest, !.matches = matches])
    BY <1>7 DEF ReadOne
  <2>2. RestIs(PathSet, walk.found)
    <3> DEFINE s == walk.found
    <3>1. s \in Seq(PathSet) /\ s # <<>>  BY <1>3, <1>7
    <3> HIDE DEF s
    <3>2. RestIs(PathSet, s)  BY <3>1, HeadAndTail
    <3> QED BY <3>2 DEF s
  <2>3. /\ p \in PathSet /\ rest \in Seq(PathSet)
        /\ \A x : x \in ToSet(walk.found) <=> x = p \/ x \in ToSet(rest)
        /\ \A i \in DOMAIN rest : i \in Nat /\ i + 1 \in DOMAIN walk.found /\ rest[i] = walk.found[i + 1]
        /\ 1 \in DOMAIN walk.found /\ walk.found[1] = p
    BY <2>2 DEF RestIs
  <2> HIDE DEF p, rest
  <2>4. Increasing(rest) /\ p \notin ToSet(rest)
    <3>1. ASSUME NEW i \in DOMAIN rest PROVE Place(p) < Place(rest[i])
      <4>1. i + 1 \in DOMAIN walk.found /\ rest[i] = walk.found[i + 1] /\ 1 < i + 1
        <5>1. rest \in Seq(PathSet) /\ i \in DOMAIN rest  BY <2>3, <3>1
        <5>2. i \in Nat /\ i > 0  BY <5>1, InSeq
        <5> QED BY <2>3, <3>1, <5>2
      <4> QED BY <1>4, <2>3, <4>1 DEF Increasing
    <3>2. p \notin ToSet(rest)
      <4> SUFFICES ASSUME NEW i \in DOMAIN rest, p = rest[i] PROVE FALSE  BY DEF ToSet
      <4>1. Place(p) \in Nat  BY <2>3, PathOrder
      <4> QED BY <3>1, <4>1
    <3>3. ASSUME NEW i \in DOMAIN rest, NEW j \in DOMAIN rest, i < j PROVE Place(rest[i]) < Place(rest[j])
      <4>1. i + 1 \in DOMAIN walk.found /\ j + 1 \in DOMAIN walk.found /\ i + 1 < j + 1
            /\ rest[i] = walk.found[i + 1] /\ rest[j] = walk.found[j + 1]
        BY <2>3, <3>3
      <4> QED BY <1>4, <4>1 DEF Increasing
    <3> QED BY <3>2, <3>3 DEF Increasing
  <2>5. LinkTarget \in PathSet  BY PathsAre DEF LinkTarget
  <2>6. target \in PathSet /\ (target = p \/ target = LinkTarget) /\ kind \in Kinds /\ kind \in walk.was[target]
    <3>1. target \in PathSet /\ (target = p \/ target = LinkTarget)  BY <2>3, <2>5
    <3> HIDE DEF target
    <3> QED BY <1>1, <3>1 DEF WasKept
  <2>7. \A k \in DOMAIN Hits : Hits[k] \in Nat  BY DEF Hits
  <2> DEFINE n == IF kind \in DOMAIN Hits THEN Hits[kind] ELSE 0
  <2>8. n \in Nat /\ e \in Listings /\ e.path = p /\ e.kind = kind
    <3> HIDE DEF target, kind
    <3> QED BY <2>3, <2>6, <2>7 DEF Listings
  <2>9. /\ hits \in Seq(Listings) /\ (\A k \in DOMAIN hits : hits[k] = e)
        /\ \A q : Cardinality(Places(hits, MatchesOf(q))) = IF q = p THEN n ELSE 0
    <3>1. hits = [k \in 1..n |-> e]
      <4> HIDE DEF kind, e
      <4>1. CASE kind \in DOMAIN Hits  BY <4>1
      <4>2. CASE kind \notin DOMAIN Hits
        <5>1. hits = <<>> /\ n = 0  BY <4>2
        <5>2. [k \in 1..0 |-> e] = <<>>  OBVIOUS
        <5> HIDE DEF hits, n
        <5> QED BY <5>1, <5>2
      <4> QED BY <4>1, <4>2
    <3> HIDE DEF hits, e, n
    <3> QED BY <2>8, <3>1, HitsCounted
  <2>10. matches \in Seq(Listings) /\ \A q : Cardinality(Places(matches, MatchesOf(q))) =
             Cardinality(Places(walk.matches, MatchesOf(q))) + Cardinality(Places(hits, MatchesOf(q)))
    <3> DEFINE m == walk.matches
    <3>1. m \in Seq(Listings) /\ hits \in Seq(Listings) /\ matches = m \o hits  BY <1>1, <2>9
    <3> HIDE DEF hits, m, matches
    <3>2. \A q : m \o hits \in Seq(Listings) /\ Cardinality(Places(m \o hits, MatchesOf(q))) =
             Cardinality(Places(m, MatchesOf(q))) + Cardinality(Places(hits, MatchesOf(q)))
      BY <3>1, PlacesAdd
    <3> QED BY <3>1, <3>2 DEF m
  <2>11. \A i \in DOMAIN matches : matches[i].kind \in walk.was[matches[i].path] \cup walk.was[LinkTarget]
    <3> DEFINE m == walk.matches
    <3>1. m \in Seq(Listings) /\ hits \in Seq(Listings) /\ matches = m \o hits  BY <1>1, <2>9
    <3>2. \A i \in DOMAIN m : m[i].kind \in walk.was[m[i].path] \cup walk.was[LinkTarget]  BY <1>4 DEF MatchKinds
    <3>3. \A i \in DOMAIN hits : hits[i].kind \in walk.was[hits[i].path] \cup walk.was[LinkTarget]
      <4>1. e.kind \in walk.was[e.path] \cup walk.was[LinkTarget]  BY <2>6, <2>8
      <4> HIDE DEF hits, e
      <4> QED BY <2>9, <4>1
    <3> HIDE DEF hits, m, matches
    <3>4. \A i \in DOMAIN (m \o hits) : (m \o hits)[i] \in ToSet(m) \cup ToSet(hits)
      <4>1. Len(m) \in Nat /\ Len(hits) \in Nat /\ DOMAIN m = 1..Len(m) /\ DOMAIN hits = 1..Len(hits)  BY <3>1, InSeq
      <4>2. /\ DOMAIN (m \o hits) = 1..(Len(m) + Len(hits))
            /\ \A i \in 1..(Len(m) + Len(hits)) : (m \o hits)[i] = IF i <= Len(m) THEN m[i] ELSE hits[i - Len(m)]
        <5>1. Len(m \o hits) = Len(m) + Len(hits) /\ m \o hits \in Seq(Listings)  BY <3>1, ConcatProperties
        <5> QED BY <3>1, <5>1, ConcatProperties, LenProperties
      <4> TAKE i \in DOMAIN (m \o hits)
      <4>3. CASE i <= Len(m)
        <5>1. i \in DOMAIN m /\ (m \o hits)[i] = m[i]  BY <4>1, <4>2, <4>3
        <5> QED BY <5>1 DEF ToSet
      <4>4. CASE ~(i <= Len(m))
        <5>1. i - Len(m) \in DOMAIN hits /\ (m \o hits)[i] = hits[i - Len(m)]  BY <4>1, <4>2, <4>4
        <5> QED BY <5>1 DEF ToSet
      <4> QED BY <4>3, <4>4
    <3>5. \A x \in ToSet(m) \cup ToSet(hits) : x.kind \in walk.was[x.path] \cup walk.was[LinkTarget]
      BY <3>2, <3>3 DEF ToSet
    <3> QED BY <3>1, <3>4, <3>5
  <2>12. ASSUME NEW q \in PathSet, IsText(q), tree[q] # "binary", Reached(q, walk.call), ~walk.capped
         PROVE  Cardinality(Places(matches, MatchesOf(q))) = IF q \in ToSet(rest) THEN 0 ELSE Hits[tree[q]]
    <3>1. Cardinality(Places(walk.matches, MatchesOf(q))) = IF q = p \/ q \in ToSet(rest) THEN 0 ELSE Hits[tree[q]]
      BY <1>4, <2>3, <2>12 DEF Counted
    <3>2. q = p => n = Hits[tree[q]]
      <4> SUFFICES ASSUME q = p PROVE n = Hits[tree[q]]  OBVIOUS
      <4>1. tree[q] \in PlainFiles /\ tree[q] # "link"  BY <2>12, LastIsFile DEF IsText
      <4>2. kind = tree[q]  BY <4>1
      <4>3. tree[q] \in DOMAIN Hits  BY <2>12, <4>1 DEF PlainFiles
      <4> QED BY <4>2, <4>3
    <3>3. Hits[tree[q]] \in Nat
      <4>1. tree[q] \in DOMAIN Hits  BY <2>12 DEF IsText, PlainFiles
      <4> QED BY <2>7, <4>1
    <3> HIDE DEF n, hits, matches
    <3>4. Cardinality(Places(matches, MatchesOf(q))) =
             Cardinality(Places(walk.matches, MatchesOf(q))) + (IF q = p THEN n ELSE 0)
      BY <2>9, <2>10
    <3> QED BY <2>4, <2>8, <3>1, <3>2, <3>3, <3>4
  <2>13. \A x : x \in ToSet(rest) => x \in ToSet(walk.found)  BY <2>3
  <2>14. p \in ToSet(walk.found) /\ p # <<>> /\ LinkTarget # <<>>
    <3>1. \A x \in PathSet : x # <<>>  BY ParentOrder
    <3> QED BY <2>3, <2>5, <3>1
  <2>15. CASE ~There(p) \/ ~There(target)
    <3>1. tree[p] = "none" \/ tree[LinkTarget] = "none"
      <4>1. tree[p] = "none" \/ tree[target] = "none"  BY <2>15 DEF There
      <4> QED BY <2>6, <4>1
    <3>2. walk.changes # 0  BY <1>1, <1>2, <2>14, <3>1 DEF NothingGone
    <3> QED BY <1>1, <1>2, <2>1, <2>15, <3>2, FailsKeeps
  <2> HIDE DEF target, kind, e, hits, matches, n
  <2>16. CASE There(p) /\ There(target) /\ hits # <<>> /\ Len(matches) >= walk.call.max
    <3> DEFINE f == FirstOf(matches, walk.call.max)
               found == walk.found
               m == walk.call.max
               pc == "done"
    <3>1. tree' = tree /\ walk' = [walk EXCEPT !.pc = "done", !.matches = f, !.truncated = TRUE]
      BY <2>1, <2>16 DEF Step
    <3>2. walk' = [walk EXCEPT !.pc = pc, !.found = found, !.matches = f, !.truncated = TRUE]
      <4> HIDE DEF f
      <4> QED BY <1>1, <3>1 DEF Walks
    <3>3. found \in Seq(PathSet) /\ pc \in {"read", "done"} /\ pc # "read" /\ m \in Nat /\ f = FirstOf(matches, m)
          /\ m = walk.call.max
      BY <1>1, <1>3
    <3> HIDE DEF f, found, m, pc
    <3>4. FirstOfSeq(Listings, matches, m)  BY <2>10, <3>3, FirstOfIs
    <3>5. f \in Seq(Listings) /\ (\A i \in DOMAIN f : i \in DOMAIN matches /\ f[i] = matches[i]) /\ Len(f) = m
      BY <2>16, <3>3, <3>4 DEF FirstOfSeq
    <3>6. \A i \in DOMAIN f : f[i].kind \in walk.was[f[i].path] \cup walk.was[LinkTarget]  BY <2>11, <3>5
    <3>7. \A q \in ToSet(found) : q \in ToSet(walk.found)  BY DEF found
    <3>8. tree' = tree /\ TRUE \in BOOLEAN  BY <3>1
    <3> QED BY <1>5, <3>2, <3>3, <3>5, <3>6, <3>7, <3>8
  <2>17. CASE There(p) /\ There(target) /\ ~(hits # <<>> /\ Len(matches) >= walk.call.max)
    <3>1. tree' = tree /\ walk' = [walk EXCEPT !.found = rest, !.matches = matches]
      BY <2>1, <2>17 DEF Step
    <3> DEFINE pc == "read"
    <3>2. walk' = [walk EXCEPT !.pc = pc, !.found = rest, !.matches = matches, !.truncated = FALSE]
      BY <1>1, <1>4, <3>1 DEF Walks
    <3>3. pc \in {"read", "done"} /\ pc = "read" /\ FALSE \in BOOLEAN  OBVIOUS
    <3> HIDE DEF pc
    <3>4. ~walk.capped =>
              \A q \in PathSet : IsText(q) /\ tree[q] # "binary" /\ Reached(q, walk.call) =>
                  Cardinality(Places(matches, MatchesOf(q))) = IF pc = "read" /\ q \in ToSet(rest) THEN 0 ELSE Hits[tree[q]]
      BY <2>12, <3>3
    <3> QED BY <1>5, <2>3, <2>4, <2>10, <2>11, <2>13, <3>1, <3>2, <3>3, <3>4
  <2> QED BY <2>15, <2>16, <2>17
<1> QED BY <1>6, <1>7

(* What others change is no longer what stood all the time.                *)
LEMMA OthersChangeKeeps ==
    ASSUME SearchInv, NEW p \in {<<"a">>, <<"d">>, <<"d", "a">>}, NEW kind \in {"none", "text1", "link"}, OthersChange(p, kind)
    PROVE  SearchInv'
<1>1. /\ walk.pc \in {"walk", "read"} /\ WalkInv /\ walk \in Walks /\ WasKept /\ NothingGone /\ TreeOK
      /\ tree \in [PathSet -> Kinds] /\ walk.was \in [PathSet -> SUBSET Kinds] /\ walk.changes \in Nat
  BY WalkTyped DEF OthersChange
<1>2. p \in PathSet /\ kind \in Kinds  BY PathsAre DEF Kinds
<1> DEFINE now == [q \in PathSet |-> IF q = p THEN kind ELSE IF kind = "none" /\ Under(q, p) THEN "none" ELSE tree[q]]
           was == [q \in PathSet |-> walk.was[q] \cup {now[q]}]
<1>3. /\ tree' = now /\ walk' = [walk EXCEPT !.changes = walk.changes + 1, !.was = was]
      /\ (tree[p] = "dir" => kind = "none") /\ (Parent(p) # <<>> => tree[Parent(p)] = "dir")
  BY DEF OthersChange, PathSet
<1>4. \A q \in PathSet : now[q] = IF q = p THEN kind ELSE IF kind = "none" /\ Under(q, p) THEN "none" ELSE tree[q]
  OBVIOUS
<1>5. "none" \in Kinds  BY DEF Kinds
<1>6. now \in [PathSet -> Kinds]  BY <1>1, <1>2, <1>5
<1> HIDE DEF now
<1>7. was \in [PathSet -> SUBSET Kinds] /\ \A q \in PathSet : was[q] = walk.was[q] \cup {now[q]}  BY <1>1, <1>6
<1> HIDE DEF was
<1>8. /\ walk'.pc = walk.pc /\ walk'.call = walk.call /\ walk'.todo = walk.todo /\ walk'.found = walk.found
      /\ walk'.matches = walk.matches /\ walk'.truncated = walk.truncated /\ walk'.capped = walk.capped
      /\ walk'.changes = walk.changes + 1 /\ walk'.was = was
      /\ walk' = [pc |-> walk.pc, call |-> walk.call, todo |-> walk.todo, found |-> walk.found, matches |-> walk.matches,
                  truncated |-> walk.truncated, capped |-> walk.capped, changes |-> walk.changes + 1, was |-> was]
  BY <1>1, <1>3 DEF Walks
<1>9. TreeOK'
  <2>1. ASSUME NEW q \in PathSet, now[q] # "none", Parent(q) # <<>> PROVE now[Parent(q)] = "dir"
    <3>1. Parent(q) \in PathSet /\ Place(Parent(q)) < Place(q)  BY <2>1, ParentOrder
    <3>2. Place(q) \in Nat  BY PathOrder
    <3>3. Parent(q) # q  BY <3>1, <3>2
    <3>4. (Parent(q) = p => Under(q, p)) /\ (Under(Parent(q), p) => Under(q, p)) /\ ~Under(p, p)  BY <1>2, UnderParent
    <3>5. CASE q = p
      <4>1. now[q] = kind /\ kind # "none"  BY <1>4, <2>1, <3>5
      <4> QED BY <1>3, <1>4, <2>1, <3>1, <3>3, <3>5, <4>1
    <3>6. CASE q # p
      <4>1. ~(kind = "none" /\ Under(q, p)) /\ tree[q] # "none"  BY <1>4, <2>1, <3>6
      <4>2. tree[Parent(q)] = "dir"  BY <1>1, <2>1, <4>1 DEF TreeOK
      <4>3. Parent(q) # p  BY <1>3, <3>4, <4>1, <4>2
      <4> QED BY <1>4, <3>1, <3>4, <4>1, <4>2, <4>3
    <3> QED BY <3>5, <3>6
  <2> QED BY <1>3, <1>6, <2>1 DEF TreeOK
<1>10. (walk \in Walks)'
  <2>1. walk.changes + 1 \in Nat  BY <1>1
  <2> QED BY <1>1, <1>7, <1>8, <2>1 DEF Walks
<1>11. WasKept'  BY <1>3, <1>7, <1>8 DEF WasKept
<1>12. NothingGone'
  <2>1. walk'.changes # 0  BY <1>1, <1>8
  <2> QED BY <2>1 DEF NothingGone
<1>13. ASSUME NEW q \in PathSet, Stood(q)' PROVE Stood(q) /\ tree'[q] = tree[q]
  <2> DEFINE W == was[q]  k == now[q]  V == walk.was[q]
  <2>1. W \in SUBSET Kinds /\ k \in W /\ tree[q] \in V /\ W = V \cup {k} /\ V \in SUBSET Kinds
    BY <1>1, <1>6, <1>7 DEF WasKept
  <2>2. Cardinality(W) = 1 /\ W # {"none"}  BY <1>8, <1>13 DEF Stood
  <2> HIDE DEF W, V, k
  <2>3. W = {k} /\ k # "none"  BY <2>1, <2>2, OneKind
  <2>4. tree[q] = k /\ V = {k}  BY <2>1, <2>3
  <2>5. walk.was[q] = {tree[q]} /\ tree[q] # "none"  BY <2>3, <2>4 DEF V
  <2>6. Stood(q)  BY <1>1, <2>5, StoodIs
  <2> QED BY <1>3, <2>4, <2>6 DEF k
<1>14. \A q \in PathSet : walk.was[q] \subseteq walk'.was[q]  BY <1>7, <1>8
<1>15. \A q \in PathSet : IsText(q)' => IsText(q) /\ tree'[q] = tree[q]  BY <1>8, <1>13 DEF IsText
<1>16. walk.call.op = "list_dir" => ListInv'
  <2> SUFFICES ASSUME walk.call.op = "list_dir" PROVE ListInv'  OBVIOUS
  <2>1. ListInv /\ walk.found \in Seq(Listings)  BY <1>1 DEF WalkInv, ListInv
  <2>2. ListCovers => ListCovers'  BY <1>8, <1>13 DEF ListCovers, ToCome, Listed
  <2>3. \A i \in DOMAIN walk.found : walk.found[i].kind \in walk'.was[walk.found[i].path]
    <3> TAKE i \in DOMAIN walk.found
    <3>1. walk.found[i] \in Listings /\ walk.found[i].kind \in walk.was[walk.found[i].path]  BY <2>1, InSeq DEF ListInv
    <3>2. walk.found[i].path \in PathSet  BY <3>1 DEF Listings
    <3> QED BY <1>14, <3>1, <3>2
  <2>4. EntriesIncrease(walk'.found)  BY <1>8, <2>1 DEF ListInv
  <2>5. \A i \in DOMAIN walk'.found, q \in walk'.todo : Place(walk'.found[i].path) < Place(q)  BY <1>8, <2>1 DEF ListInv
  <2>6. /\ walk'.pc # "read" /\ walk'.pc # "done" /\ walk'.found \in Seq(Listings)
        /\ walk'.truncated => walk'.todo = {} /\ Len(walk'.found) = walk'.call.max
    BY <1>1, <1>8, <2>1 DEF ListInv
  <2>7. ~walk'.truncated => Len(walk'.found) < walk'.call.max /\ ListCovers'
    BY <1>8, <2>1, <2>2 DEF ListInv
  <2> QED BY <1>8, <2>3, <2>4, <2>5, <2>6, <2>7 DEF ListInv
<1>17. walk.call.op # "list_dir" => FileInv'
  <2> SUFFICES ASSUME walk.call.op # "list_dir" PROVE FileInv'  OBVIOUS
  <2>1. FileInv /\ walk.found \in Seq(PathSet)  BY <1>1 DEF WalkInv, FileInv
  <2>2. walk.pc = "walk" => FilesInv'
    <3> SUFFICES ASSUME walk.pc = "walk" PROVE FilesInv'  OBVIOUS
    <3>1. FilesInv  BY <2>1 DEF FileInv
    <3>2. FilesCover'  BY <1>8, <1>15, <3>1 DEF FilesInv, FilesCover, ToCome
    <3>3. \A q \in ToSet(walk.found) : walk'.was[q] \cap PlainFiles # {}
      <4> TAKE q \in ToSet(walk.found)
      <4>1. q \in PathSet  BY <2>1, InSeq DEF ToSet
      <4>2. walk.was[q] \cap PlainFiles # {}  BY <3>1 DEF FilesInv
      <4> QED BY <1>14, <4>1, <4>2
    <3>4. walk.call.from = <<>> \/ (walk.call.from \in PathSet /\ "dir" \in walk'.was[walk.call.from])
      BY <1>14, <3>1 DEF FilesInv
    <3>5. \A i \in DOMAIN walk'.found, q \in walk'.todo : Place(walk'.found[i]) < Place(q)  BY <1>8, <3>1 DEF FilesInv
    <3>6. /\ walk'.truncated = FALSE /\ walk'.capped = FALSE /\ walk'.matches = <<>> /\ Increasing(walk'.found)
          /\ \A q \in walk'.todo : Len(q) > Len(walk'.call.from)
      BY <1>8, <3>1 DEF FilesInv
    <3> QED BY <1>8, <3>2, <3>3, <3>4, <3>5, <3>6 DEF FilesInv
  <2>3. walk.pc = "read" => SearchingInv'
    <3> SUFFICES ASSUME walk.pc = "read" PROVE SearchingInv'  OBVIOUS
    <3>1. SearchingInv  BY <2>1 DEF FileInv
    <3>2. MatchKinds'
      <4> SUFFICES ASSUME NEW i \in DOMAIN walk.matches
                   PROVE  walk.matches[i].kind \in walk'.was[walk.matches[i].path] \cup walk'.was[LinkTarget]
        BY <1>8 DEF MatchKinds
      <4>1. walk.matches[i] \in Listings
        <5>1. walk.matches \in Seq(Listings)  BY <1>1 DEF Walks
        <5> QED BY <5>1, InSeq
      <4>2. walk.matches[i].path \in PathSet /\ LinkTarget \in PathSet  BY <4>1, PathsAre DEF Listings, LinkTarget
      <4>3. walk.matches[i].kind \in walk.was[walk.matches[i].path] \cup walk.was[LinkTarget]
        BY <3>1 DEF SearchingInv, MatchKinds
      <4> QED BY <1>14, <4>2, <4>3
    <3>3. Counted => Counted'  BY <1>8, <1>15 DEF Counted
    <3> QED BY <1>8, <3>1, <3>2, <3>3 DEF SearchingInv
  <2>4. walk'.pc # "done" /\ walk'.pc = walk.pc /\ walk'.found \in Seq(PathSet)  BY <1>1, <1>8, <2>1
  <2> QED BY <2>2, <2>3, <2>4 DEF FileInv
<1>18. walk'.pc # "failed"  BY <1>1, <1>8
<1> QED BY <1>8, <1>9, <1>10, <1>11, <1>12, <1>16, <1>17, <1>18 DEF SearchInv, WalkInv

LEMMA SearchInvStep ==
    ASSUME SearchInv, [SearchNext]_searchVars
    PROVE  SearchInv'
<1>1. CASE UNCHANGED searchVars
  <2>1. tree' = tree /\ walk' = walk  BY <1>1 DEF searchVars
  <2>3. ListInv' <=> ListInv  BY <2>1 DEF ListInv, ListCovers, ToCome, Stood, Listed
  <2>4. FilesInv' <=> FilesInv  BY <2>1 DEF FilesInv, FilesCover, ToCome, IsText, Stood
  <2>5. (SearchingInv' <=> SearchingInv) /\ (SearchedAll' <=> SearchedAll)
    BY <2>1 DEF SearchingInv, SearchedAll, MatchKinds, Counted, IsText, Stood
  <2>6. FilesListed' <=> FilesListed  BY <2>1 DEF FilesListed, IsText, Stood
  <2>7. FileInv' <=> FileInv  BY <2>1, <2>4, <2>5, <2>6 DEF FileInv
  <2>8. WasKept' <=> WasKept  BY <2>1 DEF WasKept
  <2>9. NothingGone' <=> NothingGone  BY <2>1 DEF NothingGone
  <2>10. WalkInv' <=> WalkInv  BY <2>1, <2>3, <2>7, <2>8, <2>9 DEF WalkInv
  <2>11. TreeOK' <=> TreeOK  BY <2>1 DEF TreeOK
  <2> QED BY <2>1, <2>10, <2>11 DEF SearchInv
<1>2. CASE \E r \in Calls : Begin(r)  BY <1>2, BeginKeeps
<1>3. CASE VisitEntry  BY <1>3, VisitEntryKeeps
<1>4. CASE WalkFile  BY <1>4, WalkFileKeeps
<1>5. CASE EndListing  BY <1>5, EndListingKeeps
<1>6. CASE ReadOne  BY <1>6, ReadOneKeeps
<1>7. CASE \E p \in {<<"a">>, <<"d">>, <<"d", "a">>}, kind \in {"none", "text1", "link"} : OthersChange(p, kind)
  <2> DEFINE Some == {<<"a">>, <<"d">>, <<"d", "a">>}  Turned == {"none", "text1", "link"}
  <2>1. \E p \in Some, kind \in Turned : OthersChange(p, kind)  BY <1>7
  <2>2. \A p \in Some, kind \in Turned : OthersChange(p, kind) => SearchInv'  BY OthersChangeKeeps
  <2> HIDE DEF Some, Turned
  <2> QED BY <2>1, <2>2
<1> QED BY <1>1, <1>2, <1>3, <1>4, <1>5, <1>6, <1>7 DEF SearchNext

LEMMA SearchesComplete == SearchSpec => []ListingsComplete
<1>1. SearchInit => SearchInv  BY SearchInvInit
<1>2. SearchInv /\ [SearchNext]_searchVars => SearchInv'  BY SearchInvStep
<1>3. SearchInv => ListingsComplete  BY SearchInvComplete
<1> QED BY <1>1, <1>2, <1>3, PTL DEF SearchSpec

(* However others write to the file and change the directories, the pages  *)
(* of a read are what was asked for in one content, the windows of a blame *)
(* its lines, and a listing or a search that is not said to be cut is all  *)
(* that stood (read_file, git_blame, list_dir, list_files, search_text).   *)
THEOREM ReadsAlwaysExact == ReadSpec /\ SearchSpec => []ReadsExact
<1>1. ReadSpec => [](PagesRejoin /\ BlameCovers)  BY ReadsRejoin
<1>2. SearchSpec => []ListingsComplete  BY SearchesComplete
<1>3. PagesRejoin /\ BlameCovers /\ ListingsComplete => ReadsExact  BY DEF ReadsExact
<1> QED BY <1>1, <1>2, <1>3, PTL
=============================================================================
