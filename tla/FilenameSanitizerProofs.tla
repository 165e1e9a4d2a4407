----------------------- MODULE FilenameSanitizerProofs -----------------------
(***************************************************************************)
(* TLAPS proofs about SanitizeFilename, for names of any length and any    *)
(* limit: which symbols each of its steps can leave in a name, and how     *)
(* long the name then is.                                                  *)
(***************************************************************************)
EXTENDS FilenameSanitizer, FiniteSetTheorems, SequenceTheorems, TLAPS

-----------------------------------------------------------------------------
(* Least and greatest places                                               *)

LEMMA MinIsLeast ==
  ASSUME NEW S, S \subseteq Nat, S # {}
  PROVE  Min(S) \in S /\ \A n \in S : Min(S) <= n
<1>1. IsWellFoundedOn(OpToRel(<, Nat), Nat)
  BY NatLessThanWellFounded
<1>2. PICK m \in S : \A n \in S : <<n, m>> \notin OpToRel(<, Nat)
  BY <1>1, WFMin
<1>3. \A n \in S : ~(n < m)
  BY <1>2 DEF OpToRel
<1>4. \A n \in S : m <= n
  BY <1>3
<1> QED
  BY <1>4 DEF Min

LEMMA MaxIsGreatest ==
  ASSUME NEW N \in Nat, NEW S, S \subseteq 0..N, S # {}
  PROVE  Max(S) \in S /\ \A n \in S : n <= Max(S)
<1> DEFINE T == {N - x : x \in S}
<1>1. T \subseteq Nat /\ T # {}
  <2>1. \A x \in S : x \in Int /\ N - x \in Nat
    OBVIOUS
  <2> QED
    BY <2>1
<1>2. PICK m \in T : \A n \in T : m <= n
  BY <1>1, MinIsLeast
<1>3. PICK x \in S : m = N - x
  BY <1>2
<1>4. \A y \in S : y <= x
  <2> SUFFICES ASSUME NEW y \in S PROVE y <= x
    OBVIOUS
  <2>1. m <= N - y
    BY <1>2
  <2> QED
    BY <1>3, <2>1
<1>5. \A y \in S : x >= y
  BY <1>4
<1>6. Max(S) \in S /\ \A y \in S : Max(S) >= y
  BY <1>5 DEF Max
<1> QED
  BY <1>6

-----------------------------------------------------------------------------
(* Names over a set of symbols                                             *)

(* A sequence whose symbols lie in fewer, or in more.                      *)
LEMMA SymbolsOf ==
  ASSUME NEW A, NEW B, NEW s \in Seq(A), \A i \in 1..Len(s) : s[i] \in B
  PROVE  s \in Seq(B)
<1>1. Len(s) \in Nat /\ s = [i \in 1..Len(s) |-> s[i]]
  BY LenProperties
<1>2. s \in [1..Len(s) -> B]
  BY <1>1
<1> QED
  BY <1>1, <1>2, SeqDef

(* A part of a name is a name over the same symbols, and not longer.       *)
LEMMA PartOfName ==
  ASSUME NEW A, NEW s \in Seq(A), NEW m \in Nat \ {0}, NEW n \in Nat, n <= Len(s)
  PROVE  /\ SubSeq(s, m, n) \in Seq(A)
         /\ Len(SubSeq(s, m, n)) = (IF m <= n THEN n - m + 1 ELSE 0)
         /\ Len(SubSeq(s, m, n)) <= n
         /\ \A i \in 1..n - m + 1 : SubSeq(s, m, n)[i] = s[m + i - 1]
<1>1. Len(s) \in Nat
  BY LenProperties
<1>2. \A i \in m..n : s[i] \in A
  BY <1>1, ElementOfSeq
<1>3. /\ SubSeq(s, m, n) \in Seq(A)
      /\ Len(SubSeq(s, m, n)) = IF m <= n THEN n - m + 1 ELSE 0
      /\ \A i \in 1..n - m + 1 : SubSeq(s, m, n)[i] = s[m + i - 1]
  BY <1>2, SubSeqProperties
<1> QED
  BY <1>3

-----------------------------------------------------------------------------
(* Keep                                                                    *)

(* The places up to a place number it: a different number for each.        *)
UpTo(kept, i) == {j \in kept : j <= i}

LEMMA PlacesNumbered ==
  ASSUME NEW n \in Nat, NEW kept, kept \subseteq 1..n
  PROVE  /\ IsFiniteSet(kept) /\ Cardinality(kept) \in Nat /\ Cardinality(kept) <= n
         /\ \A i \in kept : /\ IsFiniteSet(UpTo(kept, i))
                            /\ Cardinality(UpTo(kept, i)) \in 1..Cardinality(kept)
         /\ \A i, j \in kept : i < j => Cardinality(UpTo(kept, i)) # Cardinality(UpTo(kept, j))
<1>1. IsFiniteSet(1..n) /\ Cardinality(1..n) = n
  <2>1. \A a, b \in Int : IsFiniteSet(a..b) /\ Cardinality(a..b) = IF a > b THEN 0 ELSE b - a + 1
    BY FS_Interval
  <2> QED
    BY <2>1
<1>2. IsFiniteSet(kept) /\ Cardinality(kept) \in Nat /\ Cardinality(kept) <= n
  BY <1>1, FS_Subset, FS_CardinalityType
<1>3. ASSUME NEW i \in kept
      PROVE  IsFiniteSet(UpTo(kept, i)) /\ Cardinality(UpTo(kept, i)) \in 1..Cardinality(kept)
  <2>1. UpTo(kept, i) \in SUBSET kept /\ i \in UpTo(kept, i)
    BY DEF UpTo
  <2>2. IsFiniteSet(UpTo(kept, i)) /\ Cardinality(UpTo(kept, i)) <= Cardinality(kept)
    BY <1>2, <2>1, FS_Subset
  <2>3. Cardinality(UpTo(kept, i)) \in Nat /\ Cardinality(UpTo(kept, i)) # 0
    BY <2>1, <2>2, FS_CardinalityType, FS_EmptySet
  <2> QED
    BY <1>2, <2>2, <2>3
<1>4. ASSUME NEW i \in kept, NEW j \in kept, i < j
      PROVE  Cardinality(UpTo(kept, i)) # Cardinality(UpTo(kept, j))
  <2>1. UpTo(kept, i) \in SUBSET UpTo(kept, j)
    <3>1. \A k \in kept : k \in Int
      OBVIOUS
    <3>2. \A k \in kept : k <= i => k <= j
      BY <1>4, <3>1
    <3> QED
      BY <3>2 DEF UpTo
  <2>2. j \in UpTo(kept, j) /\ j \notin UpTo(kept, i)
    BY <1>4 DEF UpTo
  <2> QED
    BY <1>3, <2>1, <2>2, FS_Subset
<1> QED
  BY <1>2, <1>3, <1>4

(* Every number up to their count numbers one.                             *)
LEMMA PlaceExists ==
  ASSUME NEW n \in Nat, NEW kept, kept \subseteq 1..n, NEW k \in 1..Cardinality(kept)
  PROVE  Place(kept, k) \in kept /\ Cardinality(UpTo(kept, Place(kept, k))) = k
<1> DEFINE number == [i \in kept |-> Cardinality(UpTo(kept, i))]
           numbers == {number[i] : i \in kept}
           m == Cardinality(kept)
<1>1. IsFiniteSet(kept) /\ m \in Nat
  BY PlacesNumbered
<1>2. numbers \subseteq 1..m
  <2>1. \A i \in kept : number[i] \in 1..m
    BY PlacesNumbered
  <2> QED
    BY <2>1
<1>3. number \in Bijection(kept, numbers)
  <2>1. number \in [kept -> numbers]
    OBVIOUS
  <2>2. ASSUME NEW i \in kept, NEW j \in kept, number[i] = number[j] PROVE i = j
    <3>1. ~(i < j) /\ ~(j < i)
      BY <2>2, PlacesNumbered
    <3> QED
      BY <3>1
  <2>3. \A t \in numbers : \E i \in kept : number[i] = t
    OBVIOUS
  <2> HIDE DEF number, numbers
  <2>4. DOMAIN number = kept
    BY <2>1
  <2> QED
    BY <2>1, <2>2, <2>3, <2>4 DEF Bijection, Injection, Surjection, IsInjective
<1> HIDE DEF number, numbers
<1>4. Cardinality(numbers) = m
  BY <1>1, <1>3, FS_Bijection DEF ExistsBijection
<1> HIDE DEF m
<1>5. IsFiniteSet(1..m) /\ Cardinality(1..m) = m
  <2>1. \A a, b \in Int : IsFiniteSet(a..b) /\ Cardinality(a..b) = IF a > b THEN 0 ELSE b - a + 1
    BY FS_Interval
  <2> QED
    BY <1>1, <2>1
<1>6. numbers = 1..m
  BY <1>2, <1>4, <1>5, FS_Subset
<1>7. PICK i \in kept : Cardinality(UpTo(kept, i)) = k
  BY <1>6 DEF numbers, number, m
<1> QED
  BY <1>7 DEF Place, UpTo

(* What is kept of a name: symbols of it, as many as places.               *)
LEMMA KeptName ==
  ASSUME NEW A, NEW B, NEW s \in Seq(A), NEW kept, kept \subseteq DOMAIN s,
         \A i \in kept : s[i] \in B
  PROVE  /\ Keep(s, kept) \in Seq(B)
         /\ Len(Keep(s, kept)) = Cardinality(kept) /\ Len(Keep(s, kept)) <= Len(s)
<1>1. Len(s) \in Nat /\ kept \subseteq 1..Len(s)
  BY LenProperties
<1>2. Cardinality(kept) \in Nat /\ Cardinality(kept) <= Len(s)
  BY <1>1, PlacesNumbered
<1>3. \A k \in 1..Cardinality(kept) : Place(kept, k) \in kept
  BY <1>1, PlaceExists
<1>4. Keep(s, kept) \in [1..Cardinality(kept) -> B]
  BY <1>3 DEF Keep
<1>5. Keep(s, kept) \in Seq(B)
  BY <1>2, <1>4, SeqDef
<1>6. Len(Keep(s, kept)) = Cardinality(kept)
  BY <1>2, <1>4, <1>5, LenProperties
<1> QED
  BY <1>2, <1>5, <1>6

(* If every place is kept, the first symbol stays first.                   *)
LEMMA FirstIsKept ==
  ASSUME NEW A, NEW s \in Seq(A), s # <<>>
  PROVE  Keep(s, DOMAIN s)[1] = s[1]
<1>1. Len(s) \in Nat \ {0} /\ DOMAIN s = 1..Len(s)
  BY LenProperties, EmptySeq
<1> DEFINE kept == DOMAIN s
           i == Place(kept, 1)
<1>2. Cardinality(kept) = Len(s)
  <2>1. \A a, b \in Int : Cardinality(a..b) = IF a > b THEN 0 ELSE b - a + 1
    BY FS_Interval
  <2> QED
    BY <1>1, <2>1
<1>3. i \in kept /\ Cardinality(UpTo(kept, i)) = 1
  BY <1>1, <1>2, PlaceExists
<1>4. Keep(s, kept)[1] = s[i]
  BY <1>1, <1>2 DEF Keep
<1>5. i = 1
  <2>1. IsFiniteSet(UpTo(kept, i))
    BY <1>1, <1>3, PlacesNumbered
  <2>2. PICK x : UpTo(kept, i) = {x}
    BY <1>3, <2>1, FS_Singleton
  <2>3. 1 \in UpTo(kept, i) /\ i \in UpTo(kept, i)
    BY <1>1, <1>3 DEF UpTo
  <2> QED
    BY <2>2, <2>3
<1> QED
  BY <1>4, <1>5

-----------------------------------------------------------------------------
(* The steps of SanitizeFilename                                           *)

(* The base name may be a slash, and is not longer.                        *)
LEMMA BaseName ==
  ASSUME NEW A, NEW n \in Seq(A), n # <<>>
  PROVE  Base(n) \in Seq(A \cup {Slash}) /\ Len(Base(n)) <= Len(n)
<1> DEFINE named == {i \in DOMAIN n : n[i] # Slash}
           end == Max(named)
           slashes == {0} \cup {i \in 1..end : n[i] = Slash}
           start == 1 + Max(slashes)
<1>1. Len(n) \in Nat \ {0} /\ DOMAIN n = 1..Len(n)
  BY LenProperties, EmptySeq
<1>2. CASE named = {}
  <2>1. Base(n) = <<Slash>>
    BY <1>2 DEF Base
  <2>2. <<Slash>> \in Seq(A \cup {Slash}) /\ Len(<<Slash>>) = 1
    OBVIOUS
  <2> QED
    BY <1>1, <2>1, <2>2
<1>3. CASE named # {}
  <2>1. Base(n) = SubSeq(n, start, end)
    BY <1>3 DEF Base
  <2>2. end \in 1..Len(n)
    <3>1. named \subseteq 0..Len(n)
      BY <1>1
    <3>2. end \in named
      BY <1>1, <1>3, <3>1, MaxIsGreatest
    <3> QED
      BY <1>1, <3>2
  <2> HIDE DEF named, end
  <2>3. start \in Nat \ {0}
    <3>1. slashes \subseteq 0..end /\ slashes # {} /\ end \in Nat
      BY <2>2
    <3>2. Max(slashes) \in slashes
      BY <3>1, MaxIsGreatest
    <3> QED
      BY <3>1, <3>2
  <2> HIDE DEF slashes, start
  <2>4. SubSeq(n, start, end) \in Seq(A) /\ Len(SubSeq(n, start, end)) <= end
    BY <1>1, <2>2, <2>3, PartOfName
  <2>5. SubSeq(n, start, end) \in Seq(A \cup {Slash})
    BY <2>4, SeqMonotonic
  <2>6. Len(SubSeq(n, start, end)) \in Nat
    BY <2>4, LenProperties
  <2> QED
    BY <1>1, <2>1, <2>2, <2>4, <2>5, <2>6
<1> QED
  BY <1>2, <1>3

(* No separator and no removed symbol is left.                             *)
LEMMA Stripped ==
  ASSUME NEW A, NEW s \in Seq(A)
  PROVE  Strip(s) \in Seq(A \ {Slash, Removed}) /\ Len(Strip(s)) <= Len(s)
<1> DEFINE kept == {i \in DOMAIN s : s[i] \notin {Slash, Removed}}
<1>1. DOMAIN s = 1..Len(s) /\ \A i \in 1..Len(s) : s[i] \in A
  BY LenProperties, ElementOfSeq
<1>2. kept \subseteq DOMAIN s /\ \A i \in kept : s[i] \in A \ {Slash, Removed}
  BY <1>1
<1> HIDE DEF kept
<1>3. Keep(s, kept) \in Seq(A \ {Slash, Removed}) /\ Len(Keep(s, kept)) <= Len(s)
  BY <1>2, KeptName
<1> QED
  BY <1>3 DEF Strip, kept

(* A name starts with no dot, if anything is left of it.                   *)
LEMMA Trimmed ==
  ASSUME NEW A, NEW s \in Seq(A)
  PROVE  /\ TrimDots(s) \in Seq(A) /\ Len(TrimDots(s)) <= Len(s)
         /\ TrimDots(s) # <<>> => TrimDots(s)[1] # Dot
<1> DEFINE places == {i \in DOMAIN s : s[i] # Dot} \cup {Len(s) + 1}
           m == Min(places)
<1>1. Len(s) \in Nat /\ DOMAIN s = 1..Len(s)
  BY LenProperties
<1>2. m \in places /\ m \in 1..Len(s) + 1
  <2>1. places \subseteq 1..Len(s) + 1 /\ places # {}
    BY <1>1
  <2>2. places \subseteq Nat
    BY <1>1, <2>1
  <2>3. m \in places
    BY <2>1, <2>2, MinIsLeast
  <2> QED
    BY <2>1, <2>3
<1>3. m <= Len(s) => s[m] # Dot
  BY <1>1, <1>2
<1> HIDE DEF places, m
<1>4. m \in Nat \ {0}
  BY <1>1, <1>2
<1>5. /\ SubSeq(s, m, Len(s)) \in Seq(A)
      /\ Len(SubSeq(s, m, Len(s))) = (IF m <= Len(s) THEN Len(s) - m + 1 ELSE 0)
      /\ Len(SubSeq(s, m, Len(s))) <= Len(s)
      /\ \A i \in 1..Len(s) - m + 1 : SubSeq(s, m, Len(s))[i] = s[m + i - 1]
  BY <1>1, <1>4, PartOfName
<1>6. TrimDots(s) = SubSeq(s, m, Len(s))
  BY DEF TrimDots, m, places
<1>7. ASSUME TrimDots(s) # <<>> PROVE TrimDots(s)[1] # Dot
  <2>1. m <= Len(s)
    BY <1>1, <1>4, <1>6, <1>7, SubSeqEmpty
  <2>2. 1 \in 1..Len(s) - m + 1 /\ m + 1 - 1 = m
    BY <1>1, <1>4, <2>1
  <2>3. TrimDots(s)[1] = s[m]
    BY <1>5, <1>6, <2>2
  <2> QED
    BY <1>3, <2>1, <2>3
<1> QED
  BY <1>5, <1>6, <1>7

(* A name without blanks is not changed at its start.                      *)
LEMMA Collapsed ==
  ASSUME NEW A, NEW s \in Seq(A)
  PROVE  /\ Collapse(s) \in Seq(A) /\ Len(Collapse(s)) <= Len(s)
         /\ Blank \notin A /\ Collapse(s) # <<>> => s # <<>> /\ Collapse(s)[1] = s[1]
<1> DEFINE kept == {i \in DOMAIN s :
                      \/ s[i] # Blank
                      \/ /\ i > 1 /\ s[i - 1] # Blank
                         /\ \E j \in i + 1..Len(s) : s[j] # Blank}
<1>1. Len(s) \in Nat /\ DOMAIN s = 1..Len(s) /\ \A i \in 1..Len(s) : s[i] \in A
  BY LenProperties, ElementOfSeq
<1>2. kept \subseteq DOMAIN s /\ \A i \in kept : s[i] \in A
  BY <1>1
<1>3. Blank \notin A => kept = DOMAIN s
  BY <1>1
<1>4. Collapse(s) = Keep(s, kept)
  BY DEF Collapse
<1> HIDE DEF kept
<1>5. Keep(s, kept) \in Seq(A) /\ Len(Keep(s, kept)) <= Len(s)
  BY <1>2, KeptName
<1>6. ASSUME Blank \notin A, Collapse(s) # <<>> PROVE s # <<>> /\ Collapse(s)[1] = s[1]
  <2>1. Len(Collapse(s)) \in Nat \ {0}
    BY <1>4, <1>5, <1>6, EmptySeq
  <2>2. Len(s) # 0
    BY <1>1, <1>4, <1>5, <2>1
  <2>3. s # <<>>
    BY <2>2, EmptySeq
  <2> QED
    BY <1>3, <1>4, <1>6, <2>3, FirstIsKept
<1> QED
  BY <1>4, <1>5, <1>6

(* Extension and stem are parts of a name, and make it up together.        *)
LEMMA ExtAndStem ==
  ASSUME NEW A, NEW s \in Seq(A)
  PROVE  /\ Ext(s) \in Seq(A) /\ Len(Ext(s)) \in 0..Len(s)
         /\ Stem(s) \in Seq(A) /\ Len(Stem(s)) = Len(s) - Len(Ext(s))
         /\ Stem(s) # <<>> => s # <<>> /\ Stem(s)[1] = s[1]
<1> DEFINE dots == {0} \cup {i \in DOMAIN s : s[i] = Dot}
           d == DotAt(s)
<1>1. Len(s) \in Nat /\ DOMAIN s = 1..Len(s)
  BY LenProperties
<1>2. d \in 0..Len(s)
  <2>1. dots \subseteq 0..Len(s) /\ dots # {}
    BY <1>1
  <2>2. Max(dots) \in dots
    BY <1>1, <2>1, MaxIsGreatest
  <2> QED
    BY <2>1, <2>2 DEF DotAt
<1> HIDE DEF d
<1>3. Ext(s) \in Seq(A) /\ Len(Ext(s)) \in 0..Len(s)
  <2>1. CASE d = 0
    BY <1>1, <2>1, EmptySeq DEF Ext, d
  <2>2. CASE d # 0
    <3>1. d \in Nat \ {0} /\ Len(s) <= Len(s)
      BY <1>1, <1>2, <2>2
    <3>2. SubSeq(s, d, Len(s)) \in Seq(A) /\ Len(SubSeq(s, d, Len(s))) <= Len(s)
      BY <1>1, <3>1, PartOfName
    <3>3. Len(SubSeq(s, d, Len(s))) \in Nat
      BY <3>2, LenProperties
    <3>4. Ext(s) = SubSeq(s, d, Len(s))
      BY <2>2 DEF Ext, d
    <3> QED
      BY <1>1, <3>2, <3>3, <3>4
  <2> QED
    BY <2>1, <2>2
<1> DEFINE k == Len(s) - Len(Ext(s))
<1>4. k \in 0..Len(s)
  BY <1>1, <1>3
<1>5. Stem(s) = SubSeq(s, 1, k)
  BY DEF Stem
<1> HIDE DEF k
<1>6. /\ SubSeq(s, 1, k) \in Seq(A)
      /\ Len(SubSeq(s, 1, k)) = (IF 1 <= k THEN k - 1 + 1 ELSE 0)
      /\ \A i \in 1..k - 1 + 1 : SubSeq(s, 1, k)[i] = s[1 + i - 1]
  <2>1. k \in Nat /\ k <= Len(s) /\ 1 \in Nat \ {0}
    BY <1>1, <1>4
  <2> QED
    BY <2>1, PartOfName
<1>7. Len(Stem(s)) = k
  BY <1>1, <1>4, <1>5, <1>6
<1>8. ASSUME Stem(s) # <<>> PROVE s # <<>> /\ Stem(s)[1] = s[1]
  <2>1. Len(Stem(s)) \in Nat \ {0}
    BY <1>5, <1>6, <1>8, EmptySeq
  <2>2. 1 \in 1..k - 1 + 1 /\ Len(s) # 0
    BY <1>1, <1>4, <1>7, <2>1
  <2>3. Stem(s)[1] = s[1 + 1 - 1]
    BY <1>5, <1>6, <2>2
  <2>4. s # <<>>
    BY <2>2, EmptySeq
  <2> QED
    BY <2>3, <2>4
<1> QED
  BY <1>3, <1>5, <1>6, <1>7, <1>8 DEF k

(* What was guarded is no device any more, and starts with a letter or as  *)
(* it did.                                                                 *)
LEMMA Guarded ==
  ASSUME NEW A, NEW s \in Seq(A)
  PROVE  /\ Guard(s) \in Seq(A \cup {Letter}) /\ Len(Guard(s)) <= Len(s) + 1
         /\ ~Reserved(Guard(s))
         /\ s # <<>> /\ s[1] # Dot => Guard(s)[1] # Dot
<1>1. Len(s) \in Nat
  BY LenProperties
<1>2. CASE ~Reserved(s)
  <2>1. Guard(s) = s
    BY <1>2 DEF Guard
  <2>2. s \in Seq(A \cup {Letter})
    BY SeqMonotonic
  <2> QED
    BY <1>1, <1>2, <2>1, <2>2
<1>3. CASE Reserved(s)
  <2> DEFINE B == A \cup {Letter}
             g == <<Letter>> \o s
  <2>1. Guard(s) = g
    BY <1>3 DEF Guard
  <2>2. s \in Seq(B) /\ <<Letter>> \in Seq(B) /\ Len(<<Letter>>) = 1 /\ <<Letter>>[1] = Letter
    BY SeqMonotonic
  <2>3. /\ g \in Seq(B) /\ Len(g) = 1 + Len(s)
        /\ \A i \in 1..Len(<<Letter>>) + Len(s) :
             g[i] = IF i <= Len(<<Letter>>) THEN <<Letter>>[i] ELSE s[i - Len(<<Letter>>)]
    BY <2>2, ConcatProperties
  <2>4. g[1] = Letter
    BY <1>1, <2>2, <2>3
  <2> HIDE DEF g
  <2>5. Stem(g) # <<>> => Stem(g)[1] = Letter
    BY <2>3, <2>4, ExtAndStem
  <2>6. ~Reserved(g)
    BY <2>5 DEF Reserved, Letter, Device
  <2> QED
    BY <1>1, <2>1, <2>3, <2>4, <2>6 DEF Letter, Dot
<1> QED
  BY <1>2, <1>3

(* Truncate cuts a name to the limit, and leaves one within it alone.      *)
LEMMA Truncated ==
  ASSUME NEW A, NEW s \in Seq(A)
  PROVE  /\ Truncate(s) \in Seq(A) /\ Len(Truncate(s)) <= MaxBytes
         /\ Len(s) <= MaxBytes => Truncate(s) = s
<1>1. Len(s) \in Nat /\ MaxBytes \in Nat \ {0}
  BY LenProperties, MaxBytesAssumption
<1>2. CASE Len(s) <= MaxBytes
  BY <1>2 DEF Truncate
<1>3. CASE Len(s) > MaxBytes /\ Len(Ext(s)) > MaxBytes
  <2>1. Truncate(s) = SubSeq(s, 1, MaxBytes)
    BY <1>1, <1>3 DEF Truncate
  <2>2. MaxBytes \in Nat /\ MaxBytes <= Len(s) /\ 1 \in Nat \ {0}
    BY <1>1, <1>3
  <2>3. SubSeq(s, 1, MaxBytes) \in Seq(A) /\ Len(SubSeq(s, 1, MaxBytes)) <= MaxBytes
    BY <2>2, PartOfName
  <2> QED
    BY <1>1, <1>3, <2>1, <2>3
<1>4. CASE Len(s) > MaxBytes /\ Len(Ext(s)) <= MaxBytes
  <2> DEFINE room == MaxBytes - Len(Ext(s))
             cut == SubSeq(Stem(s), 1, room)
  <2>1. /\ Ext(s) \in Seq(A) /\ Len(Ext(s)) \in 0..Len(s)
        /\ Stem(s) \in Seq(A) /\ Len(Stem(s)) = Len(s) - Len(Ext(s))
    BY ExtAndStem
  <2>2. room \in Nat /\ room <= Len(Stem(s)) /\ 1 \in Nat \ {0}
    BY <1>1, <1>4, <2>1
  <2>3. Truncate(s) = cut \o Ext(s)
    BY <1>1, <1>4, <2>1 DEF Truncate
  <2>4. cut \in Seq(A) /\ Len(cut) <= room
    <3> HIDE DEF room
    <3> QED
      BY <2>1, <2>2, PartOfName
  <2>5. Len(cut) \in Nat
    BY <2>4, LenProperties
  <2> HIDE DEF cut
  <2>6. cut \o Ext(s) \in Seq(A) /\ Len(cut \o Ext(s)) = Len(cut) + Len(Ext(s))
    BY <2>1, <2>4, ConcatProperties
  <2>7. Len(cut) + Len(Ext(s)) <= MaxBytes
    BY <1>1, <2>1, <2>2, <2>4, <2>5
  <2> QED
    BY <1>1, <1>4, <2>3, <2>6, <2>7
<1>5. Len(Ext(s)) \in Nat
  BY <1>1, ExtAndStem
<1> QED
  BY <1>1, <1>2, <1>3, <1>4, <1>5

LEMMA UnnamedIsName ==
  /\ UnnamedFile \in Seq({Letter}) /\ Len(UnnamedFile) = 1 /\ UnnamedFile # <<>>
  /\ UnnamedFile[1] = Letter /\ ~Reserved(UnnamedFile)
<1>1. UnnamedFile = <<Letter>>
  BY DEF UnnamedFile
<1>2. <<Letter>> \in Seq({Letter}) /\ Len(<<Letter>>) = 1 /\ <<Letter>>[1] = Letter
  OBVIOUS
<1>3. UnnamedFile \in Seq({Letter}) /\ Len(UnnamedFile) = 1 /\ UnnamedFile[1] = Letter
  BY <1>1, <1>2
<1>4. UnnamedFile # <<>>
  BY <1>3, EmptySeq
<1>5. Stem(UnnamedFile) # <<>> => Stem(UnnamedFile)[1] = Letter
  BY <1>3, ExtAndStem
<1>6. ~Reserved(UnnamedFile)
  BY <1>5 DEF Reserved, Letter, Device
<1> QED
  BY <1>3, <1>4, <1>6

-----------------------------------------------------------------------------
(* SanitizeFilename as a whole                                             *)

(* A name over some symbols comes out over the same, without those that    *)
(* are removed; it is not empty and keeps the limit.                       *)
THEOREM SanitizedName ==
  ASSUME NEW A, NEW n \in Seq(A)
  PROVE  /\ SanitizeFilename(n) \in Seq((A \cup {Letter}) \ {Slash, Removed})
         /\ SanitizeFilename(n) # <<>> /\ Len(SanitizeFilename(n)) <= MaxBytes
<1> DEFINE B == (A \cup {Letter}) \ {Slash, Removed}
<1>1. UnnamedFile \in Seq(B) /\ UnnamedFile # <<>> /\ Len(UnnamedFile) <= MaxBytes
  <2>1. {Letter} \subseteq B
    BY DEF Letter, Slash, Removed
  <2>2. UnnamedFile \in Seq(B)
    BY <2>1, UnnamedIsName, SeqMonotonic
  <2> QED
    BY <2>2, UnnamedIsName, MaxBytesAssumption
<1>2. CASE n = <<>>
  BY <1>1, <1>2 DEF SanitizeFilename
<1>3. CASE n # <<>>
  <2> DEFINE C == (A \cup {Slash}) \ {Slash, Removed}
  <2>1. Base(n) \in Seq(A \cup {Slash})
    BY <1>3, BaseName
  <2>2. PICK s : s = Collapse(TrimDots(Strip(Base(n))))
    OBVIOUS
  <2>3. s \in Seq(C)
    <3>1. Strip(Base(n)) \in Seq(C)
      BY <2>1, Stripped
    <3> HIDE DEF C
    <3>2. TrimDots(Strip(Base(n))) \in Seq(C)
      BY <3>1, Trimmed
    <3> QED
      BY <2>2, <3>2, Collapsed
  <2>4. Guard(s) \in Seq(B)
    <3>1. Guard(s) \in Seq(C \cup {Letter})
      BY <2>3, Guarded
    <3>2. C \cup {Letter} \subseteq B
      BY DEF Letter, Slash, Removed
    <3> HIDE DEF B, C
    <3> QED
      BY <3>1, <3>2, SeqMonotonic
  <2>5. Truncate(Guard(s)) \in Seq(B) /\ Len(Truncate(Guard(s))) <= MaxBytes
    <3> HIDE DEF B
    <3> QED
      BY <2>4, Truncated
  <2>6. SanitizeFilename(n) = OrUnnamed(Truncate(Guard(s)))
    BY <1>3, <2>2 DEF SanitizeFilename
  <2> QED
    BY <1>1, <2>5, <2>6 DEF OrUnnamed
<1> QED
  BY <1>2, <1>3

(* IsValidFilename accepts whatever SanitizeFilename returns for a name    *)
(* without control characters from 0x80 on, however long it is.            *)
THEOREM SanitizedIsValid ==
  ASSUME NEW n \in Seq(Char), \A i \in DOMAIN n : n[i] # Control
  PROVE  IsValidFilename(SanitizeFilename(n))
<1> DEFINE A == Char \ {Control}
           B == (A \cup {Letter}) \ {Slash, Removed}
<1>1. n \in Seq(A)
  <2>1. DOMAIN n = 1..Len(n) /\ \A i \in 1..Len(n) : n[i] \in Char
    BY LenProperties, ElementOfSeq
  <2>2. \A i \in 1..Len(n) : n[i] \in A
    BY <2>1
  <2> HIDE DEF A
  <2> QED
    BY <2>2, SymbolsOf
<1>2. PICK s : s = SanitizeFilename(n)
  OBVIOUS
<1>3. s \in Seq(B) /\ s # <<>> /\ Len(s) <= MaxBytes
  BY <1>1, <1>2, SanitizedName
<1>4. \A c \in B : c \notin {Slash, Removed, Control}
  BY DEF Letter, Control
<1> HIDE DEF A, B
<1>5. DOMAIN s = 1..Len(s) /\ \A i \in 1..Len(s) : s[i] \in B
  BY <1>3, LenProperties, ElementOfSeq
<1> QED
  BY <1>2, <1>3, <1>4, <1>5 DEF IsValidFilename

(* A name below the limit and without blanks comes out neither hidden (the *)
(* dot) nor reserved (a device of Windows).                                *)
THEOREM SanitizedIsHarmless ==
  ASSUME NEW n \in Seq(Char), Len(n) < MaxBytes, \A i \in DOMAIN n : n[i] # Blank
  PROVE  SanitizeFilename(n)[1] # Dot /\ ~Reserved(SanitizeFilename(n))
<1> DEFINE A == Char \ {Blank}
           C == (A \cup {Slash}) \ {Slash, Removed}
<1>1. n \in Seq(A)
  <2>1. DOMAIN n = 1..Len(n) /\ \A i \in 1..Len(n) : n[i] \in Char
    BY LenProperties, ElementOfSeq
  <2>2. \A i \in 1..Len(n) : n[i] \in A
    BY <2>1
  <2> HIDE DEF A
  <2> QED
    BY <2>2, SymbolsOf
<1>2. UnnamedFile[1] # Dot /\ ~Reserved(UnnamedFile)
  BY UnnamedIsName DEF Letter, Dot
<1>3. CASE n = <<>>
  BY <1>2, <1>3 DEF SanitizeFilename
<1>4. CASE n # <<>>
  <2>1. Base(n) \in Seq(A \cup {Slash}) /\ Len(Base(n)) <= Len(n)
    BY <1>1, <1>4, BaseName
  <2>2. PICK t : t = TrimDots(Strip(Base(n)))
    OBVIOUS
  <2>3. PICK s : s = Collapse(t)
    OBVIOUS
  <2>4. t \in Seq(C) /\ Len(t) <= Len(Base(n)) /\ (t # <<>> => t[1] # Dot)
    <3>1. Strip(Base(n)) \in Seq(C) /\ Len(Strip(Base(n))) <= Len(Base(n))
      BY <2>1, Stripped
    <3> HIDE DEF C
    <3>2. /\ t \in Seq(C) /\ Len(t) <= Len(Strip(Base(n)))
          /\ (t # <<>> => t[1] # Dot)
      BY <2>2, <3>1, Trimmed
    <3>3. Len(Base(n)) \in Nat /\ Len(Strip(Base(n))) \in Nat /\ Len(t) \in Nat
      BY <2>1, <3>1, <3>2, LenProperties
    <3> QED
      BY <3>1, <3>2, <3>3
  <2>5. Blank \notin C
    BY DEF Blank, Slash
  <2> HIDE DEF C
  <2>6. /\ s \in Seq(C) /\ Len(s) <= Len(t)
        /\ (s # <<>> => t # <<>> /\ s[1] = t[1])
    BY <2>3, <2>4, <2>5, Collapsed
  <2>7. /\ Guard(s) \in Seq(C \cup {Letter}) /\ Len(Guard(s)) <= Len(s) + 1
        /\ ~Reserved(Guard(s))
        /\ (s # <<>> => Guard(s)[1] # Dot)
    BY <2>4, <2>6, Guarded
  <2>8. Len(Guard(s)) <= MaxBytes
    <3>1. Len(n) \in Nat /\ Len(Base(n)) \in Nat /\ Len(t) \in Nat /\ Len(s) \in Nat
          /\ Len(Guard(s)) \in Nat
      BY <1>1, <2>1, <2>4, <2>6, <2>7, LenProperties
    <3> QED
      BY <2>1, <2>4, <2>6, <2>7, <3>1, MaxBytesAssumption
  <2>9. Truncate(Guard(s)) = Guard(s)
    BY <2>7, <2>8, Truncated
  <2>10. SanitizeFilename(n) = OrUnnamed(Guard(s))
    BY <1>4, <2>2, <2>3, <2>9 DEF SanitizeFilename
  <2>11. s = <<>> => Guard(s) = <<>>
    <3>1. Stem(s) # <<>> => s # <<>>
      BY <2>6, ExtAndStem
    <3> QED
      BY <3>1 DEF Guard, Reserved
  <2> QED
    BY <1>2, <2>7, <2>10, <2>11 DEF OrUnnamed
<1> QED
  BY <1>3, <1>4

=============================================================================
