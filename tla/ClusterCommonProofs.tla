------------------------- MODULE ClusterCommonProofs -------------------------
(***************************************************************************)
(* Facts about what master and worker share: how SplitPoint cuts a buffer, *)
(* and what kind of value packets, headers and parts of sequences are.     *)
(***************************************************************************)
EXTENDS ClusterCommon, SequenceTheorems, FiniteSetTheorems, TLAPS

(* Integer division, as the later steps use it. *)
LEMMA QuotientIsFloor ==
    ASSUME NEW a \in Nat, NEW d \in Nat \ {0}
    PROVE  /\ a \div d \in Nat
           /\ a % d \in 0 .. d - 1
           /\ a = d * (a \div d) + (a % d)
OBVIOUS

(* A quotient is bounded by what the multiples of the divisor say. *)
LEMMA QuotientBound ==
    ASSUME NEW a \in Nat, NEW d \in Nat \ {0}, NEW k \in Nat, a < d * (k + 1)
    PROVE  a \div d <= k
<1>. DEFINE q == a \div d
<1>1. q \in Nat /\ a >= d * q
  BY QuotientIsFloor
<1>2. d * q < d * (k + 1)
  BY <1>1
<1>3. q < k + 1
  <2>1. SUFFICES ASSUME q >= k + 1 PROVE FALSE
    BY <1>1
  <2>. DEFINE e == q - (k + 1)
  <2>2. e \in Nat /\ q = (k + 1) + e
    BY <1>1, <2>1
  <2>3. d * q = d * (k + 1) + d * e
    BY <2>2
  <2>4. d * e \in Nat
    BY <2>2
  <2>. QED BY <1>2, <2>3, <2>4
<1>. QED BY <1>1, <1>3

(* A larger dividend has no smaller quotient. *)
LEMMA QuotientMonotone ==
    ASSUME NEW a \in Nat, NEW b \in Nat, a <= b, NEW d \in Nat \ {0}
    PROVE  a \div d <= b \div d
<1>. DEFINE k == b \div d
<1>1. k \in Nat /\ b = d * k + (b % d) /\ b % d < d
  BY QuotientIsFloor
<1>2. d * (k + 1) = d * k + d
  BY <1>1
<1>3. a < d * (k + 1)
  BY <1>1, <1>2
<1>. QED BY <1>1, <1>3, QuotientBound

(* Products of naturals, kept apart from the reasoning about quotients. *)
LEMMA Distribute ==
    ASSUME NEW a \in Nat, NEW b \in Nat, NEW c \in Nat
    PROVE  /\ a * (b + c) = a * b + a * c
           /\ a * b \in Nat /\ a * c \in Nat
OBVIOUS

(***************************************************************************)
(* SplitPoint cuts any buffer without gap or overlap: the first part       *)
(* begins at 0, the last one ends at size, and every part ends, at or      *)
(* after its beginning, where the next one begins (MasterAcceptWorker).    *)
(***************************************************************************)
THEOREM SplitPointTiles ==
    ASSUME NEW size \in Nat, NEW parts \in Nat \ {0}
    PROVE  /\ SplitPoint(size, 0, parts) = 0
           /\ SplitPoint(size, parts, parts) = size
           /\ \A i \in 0 .. parts :
                 /\ SplitPoint(size, i, parts) \in 0 .. size
                 /\ i < parts => SplitPoint(size, i, parts) <= SplitPoint(size, i + 1, parts)
<1>. DEFINE q == size \div parts
            r == size % parts
            sp(i) == SplitPoint(size, i, parts)
<1>1. q \in Nat /\ r \in 0 .. parts - 1 /\ size = parts * q + r
  BY QuotientIsFloor
<1>. HIDE DEF q, r
<1>0. \A i \in Nat : SplitPoint(size, i, parts) = q * i + (r * i) \div parts
  BY DEF SplitPoint, q, r
<1>2. sp(0) = 0
  <2>1. q * 0 = 0 /\ r * 0 = 0
    BY <1>1
  <2>2. 0 \div parts = 0
    BY QuotientIsFloor
  <2>. QED BY <1>0, <2>1, <2>2
<1>3. ASSUME NEW i \in 0 .. parts, NEW j \in 0 .. parts, i <= j
      PROVE  sp(i) \in Nat /\ sp(j) \in Nat /\ sp(i) <= sp(j)
  <2>. DEFINE gap == j - i
  <2>1. gap \in Nat /\ j = i + gap
    BY <1>3
  <2>. HIDE DEF gap
  <2>2. /\ q * j = q * i + q * gap /\ q * gap \in Nat /\ q * i \in Nat
        /\ r * j = r * i + r * gap /\ r * gap \in Nat /\ r * i \in Nat
    BY <1>1, <2>1, Distribute
  <2>3. (r * i) \div parts <= (r * j) \div parts
    BY <2>2, QuotientMonotone
  <2>4. (r * i) \div parts \in Nat /\ (r * j) \div parts \in Nat
    BY <2>2, QuotientIsFloor
  <2>. QED BY <1>0, <2>2, <2>3, <2>4
<1>4. sp(parts) = size
  <2>1. (r * parts) \div parts = r
    <3>. DEFINE k == (r * parts) \div parts
    <3>1. r * parts \in Nat
      BY <1>1
    <3>2. k \in Nat /\ r * parts = parts * k + ((r * parts) % parts) /\ (r * parts) % parts \in 0 .. parts - 1
      BY <3>1, QuotientIsFloor
    <3>3. k <= r
      BY <1>1, <3>1, QuotientBound
    <3>4. r <= k
      <4>1. SUFFICES ASSUME r >= k + 1 PROVE FALSE
        BY <1>1, <3>2
      <4>. DEFINE e == r - (k + 1)
      <4>2. e \in Nat /\ r = k + 1 + e
        BY <1>1, <3>2, <4>1
      <4>3. r * parts = parts * k + parts + parts * e /\ parts * e \in Nat
        BY <3>2, <4>2
      <4>. QED BY <3>2, <4>3
    <3>. QED BY <1>1, <3>2, <3>3, <3>4
  <2>2. q * parts = parts * q
    BY <1>1
  <2>3. sp(parts) = q * parts + r
    BY <1>0, <2>1
  <2>. QED BY <1>1, <2>2, <2>3
<1>. HIDE DEF sp
<1>5. ASSUME NEW i \in 0 .. parts
      PROVE  sp(i) \in 0 .. size /\ (i < parts => sp(i) <= sp(i + 1))
  BY <1>2, <1>3, <1>4
<1>. QED BY <1>2, <1>4, <1>5 DEF sp

(* A part of a sequence is a sequence over the same set. *)
LEMMA PartOfSeq ==
    ASSUME NEW S, NEW s \in Seq(S), NEW m \in Nat \ {0}, NEW n \in Int, n <= Len(s)
    PROVE  /\ SubSeq(s, m, n) \in Seq(S)
           /\ m <= n => Len(SubSeq(s, m, n)) = n - m + 1
           /\ m > n => Len(SubSeq(s, m, n)) = 0
<1>1. Len(s) \in Nat /\ \A k \in 1 .. Len(s) : s[k] \in S
  BY LenProperties, ElementOfSeq
<1>. QED BY <1>1, SMT

(* ... and its elements are those of the sequence, from there on. *)
LEMMA PartElements ==
    ASSUME NEW S, NEW s \in Seq(S), NEW off \in Nat, NEW n \in Nat, off + n <= Len(s)
    PROVE  /\ SubSeq(s, off + 1, off + n) \in Seq(S)
           /\ Len(SubSeq(s, off + 1, off + n)) = n
           /\ \A k \in 1 .. n : SubSeq(s, off + 1, off + n)[k] = s[off + k]
<1>. DEFINE part == SubSeq(s, off + 1, off + n)
<1>1. Len(s) \in Nat /\ \A k \in 1 .. Len(s) : s[k] \in S
  BY LenProperties, ElementOfSeq
<1>2. part \in Seq(S) /\ Len(part) = n
  BY <1>1, SMT
<1>3. ASSUME NEW k \in 1 .. n PROVE part[k] = s[off + k]
  BY <1>1, SMT
<1>. QED BY <1>2, <1>3

(* The largest part is the whole. *)
LEMMA WholeSeq ==
    ASSUME NEW S, NEW s \in Seq(S)
    PROVE  SubSeq(s, 1, Len(s)) = s
<1>. DEFINE part == SubSeq(s, 0 + 1, 0 + Len(s))
<1>1. Len(s) \in Nat /\ 0 + Len(s) <= Len(s)
  BY LenProperties
<1>2. /\ part \in Seq(S) /\ Len(part) = Len(s)
      /\ \A k \in 1 .. Len(s) : part[k] = s[0 + k]
  BY <1>1, PartElements
<1>3. part = SubSeq(s, 1, Len(s))
  BY <1>1
<1>. HIDE DEF part
<1>4. \A k \in 1 .. Len(s) : part[k] = s[k]
  BY <1>1, <1>2
<1>5. part = s
  BY <1>2, <1>4, SeqEqual
<1>. QED BY <1>3, <1>5

(* Two adjacent parts make one. *)
LEMMA PartsJoin ==
    ASSUME NEW S, NEW s \in Seq(S), NEW a \in Nat, NEW b \in Nat, a + b <= Len(s)
    PROVE  SubSeq(s, 1, a) \o SubSeq(s, a + 1, a + b) = SubSeq(s, 1, a + b)
<1>. DEFINE left == SubSeq(s, 0 + 1, 0 + a)
            right == SubSeq(s, a + 1, a + b)
            whole == SubSeq(s, 0 + 1, 0 + (a + b))
<1>1. /\ left \in Seq(S) /\ Len(left) = a
      /\ \A k \in 1 .. a : left[k] = s[0 + k]
  <2>1. 0 + a <= Len(s)
    BY LenProperties
  <2>. QED BY <2>1, PartElements
<1>2. /\ right \in Seq(S) /\ Len(right) = b
      /\ \A k \in 1 .. b : right[k] = s[a + k]
  BY PartElements
<1>3. /\ whole \in Seq(S) /\ Len(whole) = a + b
      /\ \A k \in 1 .. a + b : whole[k] = s[0 + k]
  <2>1. PICK n \in Nat : n = a + b /\ 0 + n <= Len(s)
    BY LenProperties
  <2>2. /\ SubSeq(s, 0 + 1, 0 + n) \in Seq(S) /\ Len(SubSeq(s, 0 + 1, 0 + n)) = n
        /\ \A k \in 1 .. n : SubSeq(s, 0 + 1, 0 + n)[k] = s[0 + k]
    BY <2>1, PartElements
  <2>3. whole = SubSeq(s, 0 + 1, 0 + n)
    BY <2>1
  <2>. HIDE DEF whole
  <2>. QED BY <2>1, <2>2, <2>3
<1>4. left = SubSeq(s, 1, a) /\ whole = SubSeq(s, 1, a + b)
  OBVIOUS
<1>. HIDE DEF left, right, whole
<1>5. /\ left \o right \in Seq(S) /\ Len(left \o right) = a + b
      /\ \A k \in 1 .. a + b :
            (left \o right)[k] = IF k <= a THEN left[k] ELSE right[k - a]
  <2>1. /\ left \o right \in Seq(S) /\ Len(left \o right) = Len(left) + Len(right)
        /\ \A k \in 1 .. Len(left) + Len(right) :
              (left \o right)[k] = IF k <= Len(left) THEN left[k] ELSE right[k - Len(left)]
    BY <1>1, <1>2, ConcatProperties, Zenon
  <2>. QED BY <1>1, <1>2, <2>1
<1>6. ASSUME NEW k \in 1 .. a + b PROVE (left \o right)[k] = whole[k]
  <2>1. whole[k] = s[k] /\ (left \o right)[k] = IF k <= a THEN left[k] ELSE right[k - a]
    <3>1. 0 + k = k
      OBVIOUS
    <3>. QED BY <1>3, <1>5, <3>1
  <2>2. CASE k <= a
    <3>1. k \in 1 .. a /\ 0 + k = k
      BY <2>2
    <3>2. left[k] = s[k]
      BY <1>1, <3>1
    <3>. QED BY <2>1, <2>2, <3>2
  <2>3. CASE k > a
    <3>1. PICK j \in 1 .. b : j = k - a /\ a + j = k
      BY <2>3
    <3>2. right[j] = s[k]
      BY <1>2, <3>1
    <3>. QED BY <2>1, <2>3, <3>1, <3>2
  <2>4. k <= a \/ k > a
    OBVIOUS
  <2>. QED BY <2>2, <2>3, <2>4, Zenon
<1>7. left \o right = whole
  BY <1>3, <1>5, <1>6, SeqEqual
<1>. QED BY <1>4, <1>7 DEF right

(* So is the concatenation of two. *)
LEMMA ConcatOfSeqs ==
    ASSUME NEW S, NEW s \in Seq(S), NEW t \in Seq(S)
    PROVE  s \o t \in Seq(S) /\ Len(s \o t) = Len(s) + Len(t)
BY ConcatProperties, Zenon

(* Packets are the byte sequences whose length is a size_t. *)
LEMMA PacketIsSeq ==
    \A s : s \in Packets <=> s \in Seq(Byte) /\ Len(s) \in Sizes
<1>1. Sizes \subseteq Nat
  BY CodecAssumption DEF Sizes
<1>2. ASSUME NEW s, s \in Packets PROVE s \in Seq(Byte) /\ Len(s) \in Sizes
  <2>1. PICK n \in Sizes : s \in [1 .. n -> Byte]
    BY <1>2 DEF Packets
  <2>. QED BY <1>1, <2>1
<1>3. ASSUME NEW s, s \in Seq(Byte), Len(s) \in Sizes PROVE s \in Packets
  <2>1. s \in [1 .. Len(s) -> Byte]
    BY <1>3
  <2>. QED BY <1>3, <2>1 DEF Packets
<1>. QED BY <1>2, <1>3

(* A header is a sequence of HeaderSize bytes. *)
LEMMA HeaderIsSeq ==
    ASSUME NEW h \in [1 .. HeaderSize -> Byte]
    PROVE  h \in Seq(Byte) /\ Len(h) = HeaderSize
BY CodecAssumption
-----------------------------------------------------------------------------
(***************************************************************************)
(* Induction in terms of sets, for the recursive functions of the models.  *)
(***************************************************************************)
(* A set of numbers has a least element: the initial segments that end in  *)
(* it are finite sets, which inclusion orders well.                        *)
LEMMA LeastElement ==
    ASSUME NEW T, T \subseteq Nat, T # {}
    PROVE  \E m \in T : \A n \in T : m <= n
<1>. DEFINE segments == {1 .. n : n \in T}
            R == StrictSubsetOrdering(Nat)
<1>1. segments \subseteq FiniteSubsetsOf(Nat) /\ segments # {}
  <2>1. ASSUME NEW n \in T PROVE 1 .. n \in FiniteSubsetsOf(Nat)
    BY FS_Interval DEF FiniteSubsetsOf
  <2>. QED BY <2>1
<1>2. IsWellFoundedOn(R, FiniteSubsetsOf(Nat))
  BY FS_StrictSubsetOrderingWellFounded
<1>. HIDE DEF R
<1>3. PICK x \in segments : \A y \in segments : <<y, x>> \notin R
  <2>. HIDE DEF segments
  <2>. QED BY <1>1, <1>2, WFMin
<1>4. PICK m \in T : x = 1 .. m
  BY DEF segments
<1>5. ASSUME NEW n \in T, n < m PROVE FALSE
  <2>1. 1 .. n \in SUBSET Nat /\ 1 .. m \in SUBSET Nat /\ 1 .. n \subseteq 1 .. m
    BY <1>5
  <2>2. m \in 1 .. m /\ m \notin 1 .. n
    BY <1>5
  <2>3. <<1 .. n, 1 .. m>> \in R
    BY <2>1, <2>2 DEF R, StrictSubsetOrdering
  <2>. QED BY <1>3, <1>4, <2>3 DEF segments
<1>. QED BY <1>5

(* A set that 0 is in, and the successor of each of its elements, has all  *)
(* natural numbers.                                                        *)
LEMMA InductionOverNat ==
    ASSUME NEW T, 0 \in T, \A n \in Nat : n \in T => n + 1 \in T
    PROVE  \A n \in Nat : n \in T
<1>. SUFFICES ASSUME Nat \ T # {} PROVE FALSE
  OBVIOUS
<1>1. PICK m \in Nat \ T : \A n \in Nat \ T : m <= n
  BY LeastElement
<1>2. m - 1 \in Nat /\ m - 1 \notin Nat \ T
  BY <1>1
<1>. QED BY <1>1, <1>2

(* A function on 0 .. n may be given by its first value and a rule that    *)
(* leads from each value to the next.                                      *)
LEMMA RecursionExists ==
    ASSUME NEW start \in Nat, NEW n \in Nat, NEW step \in [1 .. n -> [Nat -> Nat]]
    PROVE  \E f \in [0 .. n -> Nat] :
               f[0] = start /\ \A i \in 1 .. n : f[i] = step[i][f[i - 1]]
<1>. DEFINE Runs(m, f) == /\ f \in [0 .. m -> Nat] /\ f[0] = start
                          /\ \A i \in 1 .. m : f[i] = step[i][f[i - 1]]
            T == {m \in Nat : m <= n => \E f : Runs(m, f)}
<1>1. Runs(0, [i \in 0 .. 0 |-> start])
  OBVIOUS
<1>2. ASSUME NEW m \in Nat, m + 1 <= n, NEW f, Runs(m, f)
      PROVE  \E g : Runs(m + 1, g)
  <2>. DEFINE last == step[m + 1][f[m]]
              g == [i \in 0 .. (m + 1) |-> IF i = m + 1 THEN last ELSE f[i]]
  <2>1. last \in Nat
    <3>1. f \in [0 .. m -> Nat] /\ m \in 0 .. m /\ m + 1 \in 1 .. n
      BY <1>2
    <3>2. f[m] \in Nat /\ step[m + 1] \in [Nat -> Nat]
      BY <3>1
    <3>. QED BY <3>2
  <2>. HIDE DEF last
  <2>2. g \in [0 .. (m + 1) -> Nat]
    BY <1>2, <2>1
  <2>3. ASSUME NEW i \in 1 .. (m + 1) PROVE g[i] = step[i][g[i - 1]]
    <3>1. CASE i = m + 1
      <4>1. i - 1 = m /\ i - 1 \in 0 .. (m + 1) /\ i - 1 # m + 1
        BY <3>1
      <4>2. g[i] = last /\ g[i - 1] = f[m]
        BY <3>1, <4>1
      <4>. QED BY <3>1, <4>2 DEF last
    <3>2. CASE i # m + 1
      <4>1. i \in 1 .. m /\ i - 1 \in 0 .. (m + 1) /\ i - 1 # m + 1
        BY <3>2
      <4>2. g[i] = f[i] /\ g[i - 1] = f[i - 1]
        BY <4>1
      <4>3. f[i] = step[i][f[i - 1]]
        BY <1>2, <4>1
      <4>. QED BY <4>2, <4>3
    <3>. QED BY <3>1, <3>2
  <2>4. g[0] = start
    BY <1>2
  <2>. HIDE DEF g
  <2>5. Runs(m + 1, g)
    BY <2>2, <2>3, <2>4
  <2>. HIDE DEF Runs
  <2>. QED BY <2>5
<1>3. n \in T
  <2>. HIDE DEF Runs
  <2>1. 0 \in T
    BY <1>1
  <2>2. ASSUME NEW m \in Nat, m \in T PROVE m + 1 \in T
    BY <1>2, <2>2
  <2>. HIDE DEF T
  <2>. QED BY <2>1, <2>2, InductionOverNat
<1>4. \E f : Runs(n, f)
  <2>. HIDE DEF Runs
  <2>. QED BY <1>3
<1>. QED BY <1>4

-----------------------------------------------------------------------------
(***************************************************************************)
(* The size header.                                                        *)
(***************************************************************************)
(* A quotient by ByteBase is a number again, and a larger one of a larger. *)
LEMMA ByteOff ==
    ASSUME NEW a \in Nat
    PROVE  /\ a \div ByteBase \in Nat /\ a % ByteBase \in Byte
           /\ a = (a \div ByteBase) * ByteBase + (a % ByteBase)
           /\ \A b \in Nat : a <= b => a \div ByteBase <= b \div ByteBase
<1>1. ByteBase \in Nat \ {0}
  BY CodecAssumption
<1>2. \A b \in Nat : a <= b => a \div ByteBase <= b \div ByteBase
  BY <1>1, QuotientMonotone
<1>3. /\ a \div ByteBase \in Nat /\ a % ByteBase \in 0 .. ByteBase - 1
      /\ a = ByteBase * (a \div ByteBase) + (a % ByteBase)
  BY <1>1, QuotientIsFloor
<1>4. ByteBase * (a \div ByteBase) = (a \div ByteBase) * ByteBase
  <2>1. \A q \in Nat : ByteBase * q = q * ByteBase
    BY <1>1
  <2>. QED BY <1>3, <2>1
<1>5. a = (a \div ByteBase) * ByteBase + (a % ByteBase)
  BY <1>3, <1>4, Zenon
<1>6. a % ByteBase \in Byte
  BY <1>3, Zenon DEF Byte
<1>. QED BY <1>2, <1>3, <1>5, <1>6, Zenon

(* The loop of ClusterEncodeSize can be run: there are such values.        *)
LEMMA ShiftsExist ==
    ASSUME NEW value \in Nat, NEW n \in Nat
    PROVE  \E f \in [0 .. n -> Nat] :
               f = [i \in 0 .. n |-> IF i = 0 THEN value ELSE f[i - 1] \div ByteBase]
<1>. DEFINE step == [i \in 1 .. n |-> [v \in Nat |-> v \div ByteBase]]
<1>1. step \in [1 .. n -> [Nat -> Nat]]
  BY ByteOff
<1>. HIDE DEF step
<1>2. PICK f \in [0 .. n -> Nat] :
          f[0] = value /\ \A i \in 1 .. n : f[i] = step[i][f[i - 1]]
  BY <1>1, RecursionExists
<1>3. \A i \in 1 .. n : f[i - 1] \in Nat
  OBVIOUS
<1>4. \A i \in 1 .. n : f[i] = f[i - 1] \div ByteBase
  BY <1>2, <1>3 DEF step
<1>5. f = [i \in 0 .. n |-> IF i = 0 THEN value ELSE f[i - 1] \div ByteBase]
  BY <1>2, <1>4
<1>. QED BY <1>2, <1>5

(* What value is after each of them.                                       *)
LEMMA ShiftedIs ==
    ASSUME NEW value \in Nat
    PROVE  /\ Shifted(value) \in [0 .. HeaderSize -> Nat] /\ Shifted(value)[0] = value
           /\ \A i \in 1 .. HeaderSize : Shifted(value)[i] = Shifted(value)[i - 1] \div ByteBase
<1>. DEFINE Shifts(f) ==
                f = [i \in 0 .. HeaderSize |-> IF i = 0 THEN value ELSE f[i - 1] \div ByteBase]
            shift == CHOOSE f : Shifts(f)
<1>0. HeaderSize \in Nat \ {0}
  BY CodecAssumption
<1>1. Shifted(value) = shift
  BY Zenon DEF Shifted
<1>2. PICK g \in [0 .. HeaderSize -> Nat] : Shifts(g)
  BY <1>0, ShiftsExist
<1>3. Shifts(shift)
  <2>. HIDE DEF Shifts
  <2>. QED BY <1>2
<1>. HIDE DEF shift
<1>4. /\ shift[0] = value
      /\ \A i \in 1 .. HeaderSize : shift[i] = shift[i - 1] \div ByteBase
      /\ shift = [i \in 0 .. HeaderSize |-> shift[i]]
  <2>1. ASSUME NEW i \in 0 .. HeaderSize
        PROVE  shift[i] = IF i = 0 THEN value ELSE shift[i - 1] \div ByteBase
    BY <1>3, Zenon
  <2>2. 0 \in 0 .. HeaderSize /\ \A i \in 1 .. HeaderSize : i \in 0 .. HeaderSize /\ i # 0
    BY <1>0
  <2>3. shift = [i \in 0 .. HeaderSize |-> shift[i]]
    BY <1>3
  <2>. QED BY <2>1, <2>2, <2>3, Zenon
<1>. DEFINE T == {i \in Nat : i \in 0 .. HeaderSize => shift[i] \in Nat}
<1>5. 0 \in T
  BY <1>4
<1>6. ASSUME NEW i \in Nat, i \in T PROVE i + 1 \in T
  <2>. SUFFICES ASSUME i + 1 \in 0 .. HeaderSize PROVE shift[i + 1] \in Nat
    OBVIOUS
  <2>1. shift[i] \in Nat /\ i + 1 \in 1 .. HeaderSize /\ (i + 1) - 1 = i
    BY <1>6, <1>0
  <2>2. shift[i + 1] = shift[i] \div ByteBase
    BY <1>4, <2>1
  <2>. QED BY <2>1, <2>2, ByteOff
<1>. HIDE DEF T
<1>7. \A i \in 0 .. HeaderSize : shift[i] \in Nat
  <2>1. \A i \in Nat : i \in T
    BY <1>5, <1>6, InductionOverNat
  <2>. QED BY <1>0, <2>1 DEF T
<1>. QED BY <1>1, <1>4, <1>7

(* What is shifted out of a size_t altogether leaves nothing.              *)
LEMMA NothingLeft ==
    ASSUME NEW n \in Sizes PROVE Shifted(n)[HeaderSize] = 0
<1>1. n \in Nat /\ SizeMax \in Nat /\ n <= SizeMax /\ HeaderSize \in Nat \ {0}
  BY CodecAssumption DEF Sizes
<1>. DEFINE less == Shifted(n)
            most == Shifted(SizeMax)
            T == {i \in Nat : i \in 0 .. HeaderSize => less[i] <= most[i]}
<1>2. /\ less \in [0 .. HeaderSize -> Nat] /\ most \in [0 .. HeaderSize -> Nat]
      /\ less[0] = n /\ most[0] = SizeMax
      /\ \A i \in 1 .. HeaderSize : /\ less[i] = less[i - 1] \div ByteBase
                                    /\ most[i] = most[i - 1] \div ByteBase
  BY <1>1, ShiftedIs
<1>. HIDE DEF less, most
<1>3. 0 \in T
  BY <1>1, <1>2
<1>4. ASSUME NEW i \in Nat, i \in T PROVE i + 1 \in T
  <2>. SUFFICES ASSUME i + 1 \in 0 .. HeaderSize PROVE less[i + 1] <= most[i + 1]
    OBVIOUS
  <2>1. /\ i + 1 \in 1 .. HeaderSize /\ i \in 0 .. HeaderSize /\ (i + 1) - 1 = i
        /\ less[i] <= most[i]
    BY <1>1, <1>4
  <2>2. less[i] \in Nat /\ most[i] \in Nat
    BY <1>2, <2>1
  <2>3. less[i + 1] = less[i] \div ByteBase /\ most[i + 1] = most[i] \div ByteBase
    BY <1>2, <2>1
  <2>. QED BY <2>1, <2>2, <2>3, ByteOff
<1>. HIDE DEF T
<1>5. HeaderSize \in T
  BY <1>1, <1>3, <1>4, InductionOverNat
<1>6. less[HeaderSize] <= most[HeaderSize] /\ less[HeaderSize] \in Nat
  BY <1>1, <1>2, <1>5 DEF T
<1>7. most[HeaderSize] = 0
  BY CodecAssumption DEF most
<1>. QED BY <1>6, <1>7 DEF less

(* The loop of ClusterDecodeSize has no other values than these.           *)
LEMMA DecodeIs ==
    ASSUME NEW buffer, NEW g \in [0 .. HeaderSize -> Nat], g[0] = 0,
           \A i \in 1 .. HeaderSize : g[i] = g[i - 1] * ByteBase + buffer[i]
    PROVE  ClusterDecodeSize(buffer) = g[HeaderSize]
<1>. DEFINE Decodes(f) ==
                f = [i \in 0 .. HeaderSize |->
                        IF i = 0 THEN 0 ELSE f[i - 1] * ByteBase + buffer[i]]
            value == CHOOSE f : Decodes(f)
<1>0. HeaderSize \in Nat \ {0}
  BY CodecAssumption
<1>1. ClusterDecodeSize(buffer) = value[HeaderSize]
  BY Zenon DEF ClusterDecodeSize
<1>2. Decodes(g)
  BY <1>0
<1>3. Decodes(value)
  <2>. HIDE DEF Decodes
  <2>. QED BY <1>2
<1>. HIDE DEF value
<1>4. /\ value[0] = 0
      /\ \A i \in 1 .. HeaderSize : value[i] = value[i - 1] * ByteBase + buffer[i]
  <2>1. ASSUME NEW i \in 0 .. HeaderSize
        PROVE  value[i] = IF i = 0 THEN 0 ELSE value[i - 1] * ByteBase + buffer[i]
    BY <1>3, Zenon
  <2>2. 0 \in 0 .. HeaderSize /\ \A i \in 1 .. HeaderSize : i \in 0 .. HeaderSize /\ i # 0
    BY <1>0
  <2>. QED BY <2>1, <2>2, Zenon
<1>. DEFINE T == {i \in Nat : i <= HeaderSize => value[i] = g[i]}
<1>5. 0 \in T
  BY <1>4
<1>6. ASSUME NEW i \in Nat, i \in T PROVE i + 1 \in T
  <2>. SUFFICES ASSUME i + 1 <= HeaderSize PROVE value[i + 1] = g[i + 1]
    OBVIOUS
  <2>1. value[i] = g[i] /\ i + 1 \in 1 .. HeaderSize /\ (i + 1) - 1 = i
    BY <1>0, <1>6
  <2>2. /\ value[i + 1] = value[i] * ByteBase + buffer[i + 1]
        /\ g[i + 1] = g[i] * ByteBase + buffer[i + 1]
    BY <1>4, <2>1, Zenon
  <2>. QED BY <2>1, <2>2, Zenon
<1>. HIDE DEF T
<1>7. HeaderSize \in T
  BY <1>0, <1>5, <1>6, InductionOverNat
<1>. QED BY <1>0, <1>1, <1>7 DEF T

(* Whatever numbers a header has, it stands for a number.                  *)
LEMMA DecodedIsNat ==
    ASSUME NEW buffer \in [1 .. HeaderSize -> Nat]
    PROVE  ClusterDecodeSize(buffer) \in Nat
<1>. DEFINE step == [i \in 1 .. HeaderSize |-> [v \in Nat |-> v * ByteBase + buffer[i]]]
<1>0. HeaderSize \in Nat \ {0} /\ ByteBase \in Nat
  BY CodecAssumption
<1>1. step \in [1 .. HeaderSize -> [Nat -> Nat]]
  <2>1. ASSUME NEW v \in Nat, NEW k \in 1 .. HeaderSize PROVE v * ByteBase + buffer[k] \in Nat
    BY <1>0, Distribute
  <2>. QED BY <2>1
<1>. HIDE DEF step
<1>2. PICK f \in [0 .. HeaderSize -> Nat] :
          f[0] = 0 /\ \A i \in 1 .. HeaderSize : f[i] = step[i][f[i - 1]]
  BY <1>0, <1>1, RecursionExists
<1>3. \A i \in 1 .. HeaderSize : f[i - 1] \in Nat
  BY <1>0
<1>4. \A i \in 1 .. HeaderSize : f[i] = f[i - 1] * ByteBase + buffer[i]
  BY <1>2, <1>3, Zenon DEF step
<1>5. ClusterDecodeSize(buffer) = f[HeaderSize]
  BY <1>2, <1>4, DecodeIs
<1>. QED BY <1>0, <1>5

(***************************************************************************)
(* A header is HeaderSize bytes, and ClusterDecodeSize finds in it what    *)
(* ClusterEncodeSize put there, for every size_t and every width.          *)
(***************************************************************************)
THEOREM HeaderRoundTrip ==
    ASSUME NEW n \in Sizes
    PROVE  /\ ClusterEncodeSize(n) \in [1 .. HeaderSize -> Byte]
           /\ ClusterDecodeSize(ClusterEncodeSize(n)) = n
<1>. DEFINE shift == Shifted(n)
            header == [k \in 1 .. HeaderSize |-> shift[HeaderSize - k] % ByteBase]
            g == [i \in 0 .. HeaderSize |-> shift[HeaderSize - i]]
<1>1. n \in Nat /\ HeaderSize \in Nat \ {0}
  BY CodecAssumption DEF Sizes
<1>2. /\ shift \in [0 .. HeaderSize -> Nat] /\ shift[0] = n /\ shift[HeaderSize] = 0
      /\ \A i \in 1 .. HeaderSize : shift[i] = shift[i - 1] \div ByteBase
  BY <1>1, ShiftedIs, NothingLeft
<1>3. ClusterEncodeSize(n) = header
  BY DEF ClusterEncodeSize
<1>. HIDE DEF shift
<1>4. header \in [1 .. HeaderSize -> Byte]
  <2>1. ASSUME NEW k \in 1 .. HeaderSize PROVE shift[HeaderSize - k] % ByteBase \in Byte
    <3>1. HeaderSize - k \in 0 .. HeaderSize
      BY <1>1
    <3>2. shift[HeaderSize - k] \in Nat
      BY <1>2, <3>1
    <3>. QED BY <3>2, ByteOff
  <2>. QED BY <2>1
<1>5. g \in [0 .. HeaderSize -> Nat] /\ g[0] = 0 /\ g[HeaderSize] = n
  BY <1>1, <1>2
<1>6. ASSUME NEW i \in 1 .. HeaderSize PROVE g[i] = g[i - 1] * ByteBase + header[i]
  <2>. DEFINE j == HeaderSize - i
  <2>1. /\ j \in 0 .. HeaderSize /\ j + 1 \in 1 .. HeaderSize /\ (j + 1) - 1 = j
        /\ HeaderSize - (i - 1) = j + 1 /\ i - 1 \in 0 .. HeaderSize /\ i \in 0 .. HeaderSize
    BY <1>1
  <2>2. g[i] = shift[j] /\ g[i - 1] = shift[j + 1] /\ header[i] = shift[j] % ByteBase
    BY <2>1
  <2>3. shift[j + 1] = shift[j] \div ByteBase /\ shift[j] \in Nat
    BY <1>2, <2>1
  <2>4. PICK q, r : /\ q = shift[j] \div ByteBase /\ r = shift[j] % ByteBase
                    /\ shift[j] = q * ByteBase + r
    BY <2>3, ByteOff
  <2>. HIDE DEF g, header, j
  <2>5. g[i] = q * ByteBase + r /\ g[i - 1] = q /\ header[i] = r
    BY <2>2, <2>3, <2>4, Zenon
  <2>. QED BY <2>5, Zenon
<1>. HIDE DEF g, header
<1>7. ClusterDecodeSize(header) = g[HeaderSize]
  BY <1>5, <1>6, DecodeIs
<1>. QED BY <1>3, <1>4, <1>5, <1>7
=============================================================================
