------------------------------ MODULE IkbProofs ------------------------------
(***************************************************************************)
(* What TLAPS proves of IkbCode.                                           *)
(***************************************************************************)
EXTENDS IkbCode, TLAPS, FiniteSetTheorems, FunctionTheorems, WellFoundedInduction

\* Division: the quotient and its remainder.
LEMMA Division ==
  ASSUME NEW a \in Nat, NEW b \in Nat \ {0}
  PROVE  /\ a \div b \in Nat
         /\ a % b \in 0..(b - 1)
         /\ a = b * (a \div b) + (a % b)
  OBVIOUS

\* A quotient is the only number whose multiple is that close.
LEMMA Quotient ==
  ASSUME NEW a \in Nat, NEW b \in Nat \ {0}, NEW q \in Nat,
         b * q <= a, a < b * q + b
  PROVE  a \div b = q
<1>1. /\ a \div b \in Nat
      /\ a % b \in 0..(b - 1)
      /\ a = b * (a \div b) + (a % b)
  BY Division
<1>2. CASE a \div b < q
  <2>1. q = (a \div b) + (q - (a \div b))
    BY <1>1
  <2>2. b * (a \div b) + b <= b * q
    BY <1>1, <1>2
  <2>. QED
    BY <1>1, <2>2
<1>3. CASE a \div b > q
  <2>1. b * q + b <= b * (a \div b)
    BY <1>1, <1>3
  <2>. QED
    BY <1>1, <2>1
<1>. QED
  BY <1>1, <1>2, <1>3

\* ikb_encode rounds the chips of a message up, by one bit at least and by the
\* bits of one chip at most.
LEMMA ChipsCover ==
  ASSUME NEW n \in Nat \ {0}, NEW e \in Nat \ {0}
  PROVE  /\ TxChips(n, e) \in Nat
         /\ 8 * n < e * TxChips(n, e)
         /\ e * TxChips(n, e) <= 8 * n + e
<1>. DEFINE bits == 8 * n
            d == bits \div e
<1>1. /\ d \in Nat
      /\ bits % e \in 0..(e - 1)
      /\ bits = e * d + (bits % e)
  <2>1. bits \in Nat
    OBVIOUS
  <2>. HIDE DEF bits
  <2>. QED
    BY <2>1, Division
<1>2. TxChips(n, e) = d + 1
  BY <1>1 DEF TxChips, BITS_IN_BYTE
<1>3. e * (d + 1) = e * d + e
  BY <1>1
<1>. QED
  BY <1>1, <1>2, <1>3

\* ikb_encode rounds the bytes of the chips up in the same way.
LEMMA BytesCover ==
  ASSUME NEW n \in Nat \ {0}, NEW e \in Nat \ {0}, NEW len \in Nat \ {0}
  PROVE  /\ CodeBytes(n, e, len) \in Nat
         /\ TxChips(n, e) * len < 8 * CodeBytes(n, e, len)
         /\ 8 * CodeBytes(n, e, len) <= TxChips(n, e) * len + 8
<1>. DEFINE bits == TxChips(n, e) * len
<1>1. bits \in Nat
  BY ChipsCover
<1>2. CodeBytes(n, e, len) = bits \div 8 + 1
  BY DEF CodeBytes, BITS_IN_BYTE
<1>. HIDE DEF bits
<1>3. /\ bits \div 8 \in Nat
      /\ bits % 8 \in 0..7
      /\ bits = 8 * (bits \div 8) + (bits % 8)
  BY <1>1, Division
<1>4. bits < 8 * CodeBytes(n, e, len) /\ 8 * CodeBytes(n, e, len) <= bits + 8
  BY <1>2, <1>3
<1>. QED
  BY <1>2, <1>3, <1>4 DEF bits

\* ikb_decode finds as many chips as ikb_encode wrote if a chip is longer than
\* a byte, and at most one more if it is not much shorter.
LEMMA ChipsFound ==
  ASSUME NEW n \in Nat \ {0}, NEW e \in Nat \ {0}, NEW len \in Nat \ {0}
  PROVE  /\ RxChips(CodeBytes(n, e, len), len) \in Nat
         /\ len > 8 => RxChips(CodeBytes(n, e, len), len) = TxChips(n, e)
         /\ len \in 5..8 => RxChips(CodeBytes(n, e, len), len)
                              \in {TxChips(n, e), TxChips(n, e) + 1}
<1>. DEFINE c == TxChips(n, e)
            s == CodeBytes(n, e, len)
<1>1. c \in Nat /\ s \in Nat /\ c * len < 8 * s /\ 8 * s <= c * len + 8
  BY BytesCover, ChipsCover
<1>2. RxChips(s, len) = (8 * s) \div len
  BY <1>1 DEF RxChips, BITS_IN_BYTE
<1>. HIDE DEF c, s
<1>3. (8 * s) \div len \in Nat
  BY <1>1, Division
<1>4. c * len = len * c /\ len * (c + 1) = len * c + len /\ len * c \in Nat
  BY <1>1
<1>5. ASSUME len > 8 PROVE (8 * s) \div len = c
  <2>1. len * c <= 8 * s /\ 8 * s < len * c + len
    BY <1>1, <1>4, <1>5
  <2>. QED
    BY <1>1, <2>1, Quotient
<1>6. ASSUME len \in 5..8 PROVE (8 * s) \div len \in {c, c + 1}
  <2>1. CASE 8 * s < len * c + len
    BY <1>1, <1>4, <2>1, Quotient
  <2>2. CASE 8 * s >= len * c + len
    <3>1. len * (c + 1) <= 8 * s /\ 8 * s < len * (c + 1) + len
      BY <1>1, <1>4, <1>6, <2>2
    <3>. QED
      BY <1>1, <3>1, Quotient
  <2>. QED
    BY <1>1, <1>4, <2>1, <2>2
<1>. QED
  BY <1>2, <1>3, <1>5, <1>6 DEF c, s

\* ikb_decode gives message_size the value ikb_encode was called with, for every
\* size a uint8_t has, with chips longer than a byte, cut or not, that stand for
\* fewer than 8 bits, and with chips of 5 to 8 bits that stand for at most 3.
\* This covers the five bundles of ikb_codes_init uncut. It takes the length of
\* the code as a number: a code of 256 bytes and more does not get through
\* channel_write.
THEOREM SizeRoundTrip ==
  ASSUME NEW n \in 1..255, NEW e \in 1..7, NEW len \in Nat,
         len > 8 \/ (len \in 5..8 /\ e <= 3)
  PROVE  MsgBytes(CodeBytes(n, e, len), e, len) = n
<1>. DEFINE c == TxChips(n, e)
            r == RxChips(CodeBytes(n, e, len), len)
<1>. n \in Nat \ {0} /\ e \in Nat \ {0} /\ len \in Nat \ {0}
  OBVIOUS
<1>1. c \in Nat /\ 8 * n < e * c /\ e * c <= 8 * n + e
  BY ChipsCover
<1>2. r \in Nat /\ (r = c \/ (r = c + 1 /\ e <= 3))
  BY <1>1, ChipsFound
<1>. HIDE DEF c, r
<1>3. e * c \in Nat /\ e * (c + 1) = e * c + e /\ r * e = e * r /\ e * r \in Nat
  BY <1>1, <1>2
<1>4. 8 * n <= e * r /\ e * r < 8 * n + 8
  BY <1>1, <1>2, <1>3
<1>5. (r * e) \div 8 = n
  BY <1>3, <1>4, Quotient
<1>6. n % 256 = n
  OBVIOUS
<1>. QED
  BY <1>5, <1>6 DEF MsgBytes, u8, BITS_IN_BYTE, r

\* At most 255 bytes hold fewer than 255 chips that are longer than a byte.
LEMMA FewLongChips ==
  ASSUME NEW a \in Nat, NEW b \in Nat \ {0}
  PROVE  a <= 2040 /\ b > 8 => a \div b \in 0..254
<1>1. /\ a \div b \in Nat
      /\ a % b \in 0..(b - 1)
      /\ a = b * (a \div b) + (a % b)
  BY Division
<1>. DEFINE q == a \div b
<1>2. q \in Nat /\ b * q <= a
  BY <1>1
<1>. HIDE DEF q
<1>. SUFFICES ASSUME a <= 2040, b > 8
              PROVE  q \in 0..254
  BY DEF q
<1>3. 9 * q <= b * q
  BY <1>2
<1>. QED
  BY <1>2, <1>3

\* A chip counter that is a uint8_t gets through ikb_noise_restore for every buffer
\* that arrives, if chips are longer than a byte.
LEMMA LongChipsEnd ==
  ASSUME NEW s \in 0..255, NEW len \in Nat, len > 8
  PROVE  RestoredChips(s, len) \in 0..255
<1>1. s * 8 \in Nat /\ s * 8 <= 2040 /\ len \in Nat \ {0}
  OBVIOUS
<1>2. (s * 8) \div len \in 0..254
  BY <1>1, FewLongChips
<1>. QED
  BY <1>2 DEF RestoredChips, BITS_IN_BYTE

\* A receiver with the settings of the sender gets through ikb_noise_restore, if
\* the sender got through ikb_encode: with chips longer than a byte, and with those
\* of 5 to 8 bits that stand for 2, as {1, 1, 2, 3} has them. These are the five
\* bundles uncut; that it fails for chips of 1 bit is the run CodecStuck.
THEOREM RestoringEnds ==
  ASSUME NEW n \in 1..255, NEW e \in 1..7, NEW len \in Nat,
         TxChips(n, e) <= 255,
         len > 8 \/ (len \in 5..8 /\ e = 2)
  PROVE  RestoredChips(u8(CodeBytes(n, e, len)), len) \in 0..255
<1>. DEFINE s == CodeBytes(n, e, len)
<1>. n \in Nat \ {0} /\ e \in Nat \ {0} /\ len \in Nat \ {0}
  OBVIOUS
<1>1. s \in Nat /\ 8 * s <= TxChips(n, e) * len + 8 /\ TxChips(n, e) \in Nat
  BY BytesCover, ChipsCover
<1>2. CASE len > 8
  <2>1. u8(s) \in 0..255
    BY <1>1 DEF u8
  <2>. QED
    BY <1>2, <2>1, LongChipsEnd
<1>3. CASE len \in 5..8 /\ e = 2
  <2>1. TxChips(n, e) = 4 * n + 1
    BY <1>3 DEF TxChips, BITS_IN_BYTE
  <2>2. TxChips(n, e) <= 253
    BY <2>1
  <2>3. TxChips(n, e) * len <= 253 * 8
    <3>1. CASE len = 5
      BY <1>1, <2>2, <3>1
    <3>2. CASE len = 6
      BY <1>1, <2>2, <3>2
    <3>3. CASE len = 7
      BY <1>1, <2>2, <3>3
    <3>4. CASE len = 8
      BY <1>1, <2>2, <3>4
    <3>. QED
      BY <1>3, <3>1, <3>2, <3>3, <3>4
  <2>4. s <= 254
    BY <1>1, <2>3
  <2>5. u8(s) = s
    BY <1>1, <2>4 DEF u8
  <2>6. RxChips(s, len) \in {TxChips(n, e), TxChips(n, e) + 1}
    BY <1>3, ChipsFound
  <2>7. RestoredChips(s, len) = RxChips(s, len) + 1
    BY DEF RestoredChips, RxChips
  <2>. QED
    BY <1>1, <2>2, <2>5, <2>6, <2>7
<1>. QED
  BY <1>2, <1>3

-----------------------------------------------------------------------------
(* Bundles and chips.                                                      *)

\* Every bundle starts with a 1, so that its power is not 0 and its sum is there.
LEMMA SumType ==
  ASSUME NEW k \in Ikbs
  PROVE  sum(k) \in Nat \ {0}
<1> DEFINE ones == {i \in DOMAIN ikb_db[k] : ikb_db[k][i] = 1}
<1>1. k \in 1..5
  BY DEF Ikbs, ikb_db
<1>2. Len(ikb_db[k]) \in Nat /\ DOMAIN ikb_db[k] = 1..Len(ikb_db[k]) /\ Len(ikb_db[k]) > 0
      /\ ikb_db[k][1] = 1
  BY <1>1 DEF ikb_db
<1>3. IsFiniteSet(ones) /\ 1 \in ones
  <2>1. IsFiniteSet(DOMAIN ikb_db[k]) /\ ones \in SUBSET DOMAIN ikb_db[k]
    BY <1>2, FS_Interval
  <2>2. IsFiniteSet(ones)
    BY <2>1, FS_Subset
  <2> QED
    BY <1>2, <2>2
<1>4. Cardinality(ones) \in Nat \ {0}
  BY <1>3, FS_CardinalityType, FS_EmptySet
<1>5. degree(k) * (degree(k) - 1) \in Nat
  BY <1>2 DEF degree
<1>6. (degree(k) * (degree(k) - 1)) \div power(k) \in Nat
  BY <1>4, <1>5, Division DEF power
<1> QED
  BY <1>6 DEF sum

\* The bundles and what ikb_init makes of them.
LEMMA Parameters ==
  /\ power(1) = 1 /\ power(2) = 2 /\ power(3) = 3 /\ power(4) = 4 /\ power(5) = 5
  /\ sum(1) = 13 /\ sum(2) = 7 /\ sum(3) = 11 /\ sum(4) = 15 /\ sum(5) = 23
<1> DEFINE ones(k) == {i \in DOMAIN ikb_db[k] : ikb_db[k][i] = 1}
<1>1. /\ ones(1) = {} \cup {1}
      /\ ones(2) = {1} \cup {2}
      /\ ones(3) = {1, 2} \cup {4}
      /\ ones(4) = {1, 2, 3} \cup {6}
      /\ ones(5) = {1, 2, 3, 6} \cup {8}
  BY DEF ikb_db
<1>2. /\ {1, 2} = {1} \cup {2} /\ {1, 2, 3} = {1, 2} \cup {3}
      /\ {1, 2, 3, 6} = {1, 2, 3} \cup {6} /\ {1, 2, 4} = {1, 2} \cup {4}
      /\ {1, 2, 3, 6, 8} = {1, 2, 3, 6} \cup {8}
  OBVIOUS
<1>3. IsFiniteSet({1}) /\ Cardinality({1}) = 1
  BY FS_Singleton
<1>4. IsFiniteSet({1, 2}) /\ Cardinality({1, 2}) = 2
  BY <1>2, <1>3, FS_AddElement
<1>5. IsFiniteSet({1, 2, 3}) /\ Cardinality({1, 2, 3}) = 3
  BY <1>2, <1>4, FS_AddElement
<1>6. IsFiniteSet({1, 2, 3, 6}) /\ Cardinality({1, 2, 3, 6}) = 4
  BY <1>2, <1>5, FS_AddElement
<1>7. Cardinality({1, 2, 4}) = 3
  BY <1>2, <1>4, FS_AddElement
<1>8. Cardinality({1, 2, 3, 6, 8}) = 5
  BY <1>2, <1>6, FS_AddElement
<1>9. power(1) = 1 /\ power(2) = 2 /\ power(3) = 3 /\ power(4) = 4 /\ power(5) = 5
  BY <1>1, <1>2, <1>3, <1>4, <1>6, <1>7, <1>8 DEF power
<1>10. degree(1) = 4 /\ degree(2) = 4 /\ degree(3) = 6 /\ degree(4) = 8 /\ degree(5) = 11
  BY DEF degree, ikb_db
<1> QED
  BY <1>9, <1>10 DEF sum

\* A code stands for as many bits as there are codes for, and chips of at most 8 bits
\* are those of the bundle for 2 bits.
LEMMA AbilityIs ==
  ASSUME NEW k \in Ikbs
  PROVE  /\ encode_ability(k) \in 2..4 /\ 2^encode_ability(k) <= sum(k)
         /\ sum(k) > 8 \/ (sum(k) \in 5..8 /\ encode_ability(k) <= 3)
         /\ err_fixed(k) \in Nat
<1>1. 2^2 = 4 /\ 2^3 = 8 /\ 2^4 = 16 /\ 2^5 = 32 /\ 2^0 = 1 /\ 2^1 = 2
  OBVIOUS
<1>2. k \in 1..5
  BY DEF Ikbs, ikb_db
<1>3. sum(k) \in {13, 7, 11, 15, 23}
  BY <1>2, Parameters
<1>4. \E e \in 2..4 : 2^e <= sum(k) /\ sum(k) < 2^(e + 1)
  BY <1>1, <1>3
<1>5. encode_ability(k) \in 2..4 /\ 2^encode_ability(k) <= sum(k)
  BY <1>1, <1>3, <1>4 DEF encode_ability
<1>6. encode_ability(k) = 4 => sum(k) >= 16
  BY <1>1, <1>3, <1>5
<1>7. err_fixed(k) \in Nat
  <2>1. degree(1) = 4 /\ degree(2) = 4 /\ degree(3) = 6 /\ degree(4) = 8 /\ degree(5) = 11
    BY DEF degree, ikb_db
  <2>2. k = 1 \/ k = 2 \/ k = 3 \/ k = 4 \/ k = 5
    BY <1>2
  <2> QED
    BY <2>1, <2>2, Parameters DEF err_fixed
<1> QED
  BY <1>3, <1>5, <1>6, <1>7

LEMMA AbilityType ==
  ASSUME NEW k \in Ikbs
  PROVE  encode_ability(k) \in 2..4
  BY AbilityIs

\* A set of numbers that is not empty has a least one.
LEMMA LeastOf ==
  ASSUME NEW S \in SUBSET Nat, S # {}
  PROVE  \E x \in S : \A y \in S : x <= y
<1> DEFINE R == {ss \in Nat \X Nat : ss[1] < ss[2]}
<1>1. IsWellFoundedOn(R, Nat)
  BY NatLessThanWellFounded, Zenon DEF OpToRel
<1>2. PICK x \in S : \A y \in S : ~ (<<y, x>> \in R)
  BY <1>1, WFMin
<1>3. ASSUME NEW y \in S PROVE x <= y
  <2>1. y \in Nat /\ x \in Nat /\ <<y, x>> \notin R
    BY <1>2
  <2>2. y < x => <<y, x>> \in R
    BY <2>1
  <2> QED
    BY <2>1, <2>2
<1> QED
  BY <1>3

\* Min gives it.
LEMMA MinOf ==
  ASSUME NEW S \in SUBSET Nat, S # {}
  PROVE  Min(S) \in S /\ \A y \in S : Min(S) <= y
<1>1. \E x \in S : \A y \in S : x <= y
  BY LeastOf
<1> QED
  BY <1>1, Zenon DEF Min

\* FirstWith gives the first index with that value, if there is one.
LEMMA FirstWithType ==
  ASSUME NEW n \in Nat, NEW f, DOMAIN f = 0..(n - 1), NEW v, NEW a \in DOMAIN f, f[a] = v
  PROVE  /\ FirstWith(f, v) \in DOMAIN f
         /\ f[FirstWith(f, v)] = v
         /\ \A j \in 0..(FirstWith(f, v) - 1) : f[j] # v
<1> DEFINE I == {i \in DOMAIN f : f[i] = v}
<1>1. I \in SUBSET Nat /\ I # {} /\ I \subseteq 0..(n - 1)
  OBVIOUS
<1>2. PICK i \in I : \A j \in I : i <= j
  BY <1>1, LeastOf
<1>3. ASSUME NEW j \in 0..(i - 1) PROVE f[j] # v
  <2>1. j \in 0..(n - 1) /\ j < i
    BY <1>1
  <2>2. j \notin I
    BY <1>1, <1>2, <2>1
  <2> QED
    BY <2>1, <2>2
<1>4. i \in DOMAIN f /\ f[i] = v
  OBVIOUS
<1> QED
  BY <1>3, <1>4, Zenon DEF FirstWith

\* The number of bits in which two chips differ is a number.
LEMMA MissedType ==
  ASSUME NEW n \in Nat, NEW x \in SUBSET (0..(n - 1)), NEW y \in SUBSET (0..(n - 1))
  PROVE  Missed(x, y) \in Nat
<1>1. IsFiniteSet(0..(n - 1))
  BY FS_Interval
<1>2. (x \ y) \cup (y \ x) \in SUBSET (0..(n - 1))
  OBVIOUS
<1>3. IsFiniteSet((x \ y) \cup (y \ x))
  BY <1>1, <1>2, FS_Subset
<1> QED
  BY <1>3, FS_CardinalityType DEF Missed

\* What ikb_noise_restore makes of a chip is a code, or zeroes: ikb_decode can read it.
LEMMA RestoredIsDecodable ==
  ASSUME NEW k \in Ikbs, NEW n \in Nat, NEW chip \in SUBSET (0..(n - 1))
  PROVE  Restored(k, n, chip) \in SUBSET (0..(n - 1)) /\ Decodable(k, n, Restored(k, n, chip))
<1> DEFINE missed == Misses(k, n, chip)
           M == {missed[i] : i \in DOMAIN missed}
           best == Min(M)
           first == FirstWith(missed, best)
<1>1. DOMAIN missed = 0..(sum(k) - 1) /\ DOMAIN codes[k] = 0..(sum(k) - 1)
      /\ \A i \in DOMAIN missed : missed[i] = Missed(Cut(codes[k][i], n), chip)
  BY DEF Misses, codes
<1>2. \A i \in DOMAIN missed : Cut(codes[k][i], n) \in SUBSET (0..(n - 1))
  BY DEF Cut
<1>3. \A i \in DOMAIN missed : missed[i] \in Nat
  BY <1>1, <1>2, MissedType
<1>4. M \in SUBSET Nat /\ M # {}
  <2>1. 0 \in DOMAIN missed
    BY <1>1, SumType
  <2> QED
    BY <1>3, <2>1
<1>5. best \in M
  <2> HIDE DEF M
  <2> QED
    BY <1>4, MinOf
<1>6. first \in DOMAIN missed
  <2>1. PICK a \in DOMAIN missed : missed[a] = best
    BY <1>5
  <2>2. sum(k) \in Nat
    BY SumType
  <2> HIDE DEF missed, best
  <2> QED
    BY <1>1, <2>1, <2>2, FirstWithType
<1>7. Restored(k, n, chip) \in {Cut(codes[k][first], n), {}}
  BY DEF Restored
<1>8. Cut(codes[k][first], n) \in SUBSET (0..(n - 1))
  BY <1>2, <1>6
<1>9. first \in Matching(k, n, Cut(codes[k][first], n))
  BY <1>1, <1>6 DEF Matching
<1> HIDE DEF first
<1> QED
  BY <1>7, <1>8, <1>9 DEF Decodable

-----------------------------------------------------------------------------
(* Sums.                                                                   *)

\* g gives every part of T the sum of the values that f has on it.
IsSum(g, f, T) ==
  /\ g \in [SUBSET T -> Nat]
  /\ g[{}] = 0
  /\ \A s \in SUBSET T : \A x \in s : g[s] = f[x] + g[s \ {x}]

LEMMA SumIs ==
  ASSUME NEW T, IsFiniteSet(T), NEW f, NEW g, IsSum(g, f, T)
  PROVE  SumFunctionOnSet(f, T) = g[T]
<1> USE DEF IsSum
<1> DEFINE Body(h) == [s \in SUBSET T |->
                        IF s = {} THEN 0
                        ELSE f[CHOOSE x \in s : TRUE] + h[s \ {CHOOSE x \in s : TRUE}]]
           iter == CHOOSE h : h = Body(h)
<1>1. SumFunctionOnSet(f, T) = iter[T]
  BY DEF SumFunctionOnSet, FoldFunctionOnSet, MapThenFoldSet
<1>2. g = Body(g)
  <2>1. \A s \in SUBSET T : g[s] = Body(g)[s]
    OBVIOUS
  <2> QED
    BY <2>1
<1>3. iter = Body(iter)
  <2>1. \E h : h = Body(h)
    BY <1>2, Zenon
  <2> HIDE DEF Body
  <2> QED
    BY <2>1
<1> HIDE DEF iter
<1>4. ASSUME NEW s \in SUBSET T, iter[s] # g[s] PROVE FALSE
  <2> DEFINE Wrong == {v \in SUBSET T : iter[v] # g[v]}
             Bad == {Cardinality(u) : u \in Wrong}
  <2>1. Bad \in SUBSET Nat /\ Bad # {}
    <3>1. \A u \in SUBSET T : Cardinality(u) \in Nat
      BY FS_Subset, FS_CardinalityType
    <3>2. s \in Wrong /\ Wrong \subseteq SUBSET T
      BY <1>4
    <3> HIDE DEF Wrong
    <3> QED
      BY <3>1, <3>2
  <2>2. PICK n \in Bad : \A m \in Bad : n <= m
    BY <2>1, LeastOf
  <2>3. PICK u \in SUBSET T : iter[u] # g[u] /\ n = Cardinality(u)
    BY <2>2
  <2>4. u # {}
    BY <1>3, <2>3
  <2> DEFINE x == CHOOSE x \in u : TRUE
             v == u \ {x}
  <2>5. x \in u /\ v \in SUBSET T
    BY <2>4
  <2>6. iter[u] = f[x] + iter[v]
    BY <1>3, <2>4
  <2>7. g[u] = f[x] + g[v]
    BY <2>5
  <2>8. iter[v] # g[v]
    BY <2>3, <2>6, <2>7
  <2>9. Cardinality(v) \in Bad
    BY <2>5, <2>8
  <2>10. IsFiniteSet(u) /\ Cardinality(u) \in Nat
    BY FS_Subset, FS_CardinalityType
  <2>11. Cardinality(v) = Cardinality(u) - 1
    BY <2>5, <2>10, FS_RemoveElement
  <2>12. n <= Cardinality(v)
    BY <2>2, <2>9
  <2> HIDE DEF v, Bad
  <2> QED
    BY <2>3, <2>10, <2>11, <2>12
<1> QED
  BY <1>1, <1>4

-----------------------------------------------------------------------------
(* The codes.                                                              *)

\* What the i-th number of a bundle adds to the sum of those in s.
Share(f, s, i) == IF i \in s THEN f[i] ELSE 0

\* The sum of the first numbers of a bundle, of which there are 11 at most.
LEMMA PartialSum ==
  ASSUME NEW f, NEW j \in 0..10, \A i \in 1..j : f[i] \in Nat
  PROVE  SumFunctionOnSet(f, 1..j) =
           Share(f, 1..j, 1) + Share(f, 1..j, 2) + Share(f, 1..j, 3) + Share(f, 1..j, 4)
           + Share(f, 1..j, 5) + Share(f, 1..j, 6) + Share(f, 1..j, 7) + Share(f, 1..j, 8)
           + Share(f, 1..j, 9) + Share(f, 1..j, 10)
<1> DEFINE T == 1..j
           total(s) == Share(f, s, 1) + Share(f, s, 2) + Share(f, s, 3) + Share(f, s, 4)
                       + Share(f, s, 5) + Share(f, s, 6) + Share(f, s, 7) + Share(f, s, 8)
                       + Share(f, s, 9) + Share(f, s, 10)
           g == [s \in SUBSET T |-> total(s)]
<1>1. \A s \in SUBSET T : \A i \in 1..10 : Share(f, s, i) \in Nat
  BY DEF Share
<1>2. ASSUME NEW s \in SUBSET T, NEW x \in s PROVE total(s) = f[x] + total(s \ {x})
  <2>1. x \in 1..10 /\ s \ {x} \in SUBSET T
    OBVIOUS
  <2>2. \A i \in 1..10 : i # x => Share(f, s \ {x}, i) = Share(f, s, i)
    BY DEF Share
  <2>3. Share(f, s, x) = f[x] /\ Share(f, s \ {x}, x) = 0
    BY DEF Share
  <2>4. \A i \in 1..10 : Share(f, s, i) \in Nat /\ Share(f, s \ {x}, i) \in Nat
    BY <1>1, <2>1
  <2> DEFINE at(i) == Share(f, s, i)
             rest(i) == Share(f, s \ {x}, i)
             here(i) == IF i = x THEN f[x] ELSE 0
  <2>5. \A i \in 1..10 : at(i) = rest(i) + here(i) /\ rest(i) \in Nat
    BY <2>2, <2>3, <2>4
  <2>6. here(1) + here(2) + here(3) + here(4) + here(5) + here(6) + here(7) + here(8)
        + here(9) + here(10) = f[x] /\ \A i \in 1..10 : here(i) \in Nat
    BY <2>1, <2>3, <2>4
  <2>7. total(s) = at(1) + at(2) + at(3) + at(4) + at(5) + at(6) + at(7) + at(8) + at(9) + at(10)
    OBVIOUS
  <2>8. total(s \ {x}) = rest(1) + rest(2) + rest(3) + rest(4) + rest(5) + rest(6) + rest(7)
                         + rest(8) + rest(9) + rest(10)
    OBVIOUS
  <2> HIDE DEF T, at, rest, here, total
  <2> QED
    BY <2>5, <2>6, <2>7, <2>8
<1>3. \A s \in SUBSET T : total(s) \in Nat
  <2> SUFFICES ASSUME NEW s \in SUBSET T PROVE total(s) \in Nat
    OBVIOUS
  <2> DEFINE at(i) == Share(f, s, i)
  <2>1. \A i \in 1..10 : at(i) \in Nat
    BY <1>1
  <2>2. total(s) = at(1) + at(2) + at(3) + at(4) + at(5) + at(6) + at(7) + at(8) + at(9) + at(10)
    OBVIOUS
  <2> HIDE DEF at, total, T
  <2> QED
    BY <2>1, <2>2
<1>4. total({}) = 0
  BY DEF Share
<1>5. IsFiniteSet(T)
  BY FS_Interval
<1> HIDE DEF total, T
<1>6. g[{}] = 0 /\ g \in [SUBSET T -> Nat]
  BY <1>3, <1>4
<1>7. \A s \in SUBSET T : \A x \in s : g[s] = f[x] + g[s \ {x}]
  BY <1>2
<1>8. g[T] = total(T)
  OBVIOUS
<1> HIDE DEF g
<1>9. IsSum(g, f, T)
  BY <1>6, <1>7, Zenon DEF IsSum
<1>10. SumFunctionOnSet(f, T) = total(T)
  BY <1>5, <1>8, <1>9, SumIs
<1> QED
  BY <1>10 DEF total, T

\* The one-bits of the first code of every bundle.
Offsets == << {0, 1, 3, 6},
              {0, 1, 2, 4},
              {0, 1, 2, 4, 5, 7},
              {0, 1, 2, 3, 5, 7, 8, 11},
              {0, 1, 2, 3, 5, 7, 8, 11, 12, 15, 17} >>

LEMMA OffsetsOf ==
  ASSUME NEW k \in Ikbs
  PROVE  Offsets[k] = {SumFunctionOnSet(ikb_db[k], 1..j) : j \in 0..(degree(k) - 1)}
<1> DEFINE f == ikb_db[k]
           at(j) == SumFunctionOnSet(f, 1..j)
           sums(n) == {at(j) : j \in 0..n}
<1>0. SUFFICES Offsets[k] = sums(degree(k) - 1)
  OBVIOUS
<1>1. k \in 1..5
  BY DEF Ikbs, ikb_db
<1>2. /\ k = 1 => f = <<1, 2, 3, 7>> /\ degree(k) = 4
      /\ k = 2 => f = <<1, 1, 2, 3>> /\ degree(k) = 4
      /\ k = 3 => f = <<1, 1, 2, 1, 2, 4>> /\ degree(k) = 6
      /\ k = 4 => f = <<1, 1, 1, 2, 2, 1, 3, 4>> /\ degree(k) = 8
      /\ k = 5 => f = <<1, 1, 1, 2, 2, 1, 3, 1, 3, 2, 6>> /\ degree(k) = 11
  BY DEF degree, ikb_db
<1> HIDE DEF f
<1>3. degree(k) \in 4..11 /\ \A i \in 1..(degree(k) - 1) : f[i] \in Nat
  BY <1>1, <1>2
<1>4. ASSUME NEW j \in 0..(degree(k) - 1)
      PROVE  at(j) = Share(f, 1..j, 1) + Share(f, 1..j, 2) + Share(f, 1..j, 3) + Share(f, 1..j, 4)
           + Share(f, 1..j, 5) + Share(f, 1..j, 6) + Share(f, 1..j, 7) + Share(f, 1..j, 8)
           + Share(f, 1..j, 9) + Share(f, 1..j, 10)
  <2>1. j \in 0..10 /\ \A i \in 1..j : f[i] \in Nat
    BY <1>3
  <2> QED
    BY <2>1, PartialSum
<1> HIDE DEF at, sums
<1>5. CASE k = 1
  <2>1. sums(3) = {at(0), at(1), at(2), at(3)}
    BY DEF sums
  <2>2. at(0) = 0 /\ at(1) = 1 /\ at(2) = 3 /\ at(3) = 6
    BY <1>2, <1>4, <1>5 DEF Share
  <2> QED
    BY <1>2, <1>5, <2>1, <2>2 DEF Offsets
<1>6. CASE k = 2
  <2>1. sums(3) = {at(0), at(1), at(2), at(3)}
    BY DEF sums
  <2>2. at(0) = 0 /\ at(1) = 1 /\ at(2) = 2 /\ at(3) = 4
    BY <1>2, <1>4, <1>6 DEF Share
  <2> QED
    BY <1>2, <1>6, <2>1, <2>2 DEF Offsets
<1>7. CASE k = 3
  <2>1. sums(5) = {at(0), at(1), at(2), at(3), at(4), at(5)}
    BY DEF sums
  <2>2. at(0) = 0 /\ at(1) = 1 /\ at(2) = 2 /\ at(3) = 4
    BY <1>2, <1>4, <1>7 DEF Share
  <2>3. at(4) = 5 /\ at(5) = 7
    BY <1>2, <1>4, <1>7 DEF Share
  <2> QED
    BY <1>2, <1>7, <2>1, <2>2, <2>3 DEF Offsets
<1>8. CASE k = 4
  <2>1. sums(7) = {at(0), at(1), at(2), at(3), at(4), at(5), at(6), at(7)}
    BY DEF sums
  <2>2. at(0) = 0 /\ at(1) = 1 /\ at(2) = 2 /\ at(3) = 3
    BY <1>2, <1>4, <1>8 DEF Share
  <2>3. at(4) = 5 /\ at(5) = 7 /\ at(6) = 8 /\ at(7) = 11
    BY <1>2, <1>4, <1>8 DEF Share
  <2> QED
    BY <1>2, <1>8, <2>1, <2>2, <2>3 DEF Offsets
<1>9. CASE k = 5
  <2>1. sums(10) = {at(0), at(1), at(2), at(3), at(4), at(5), at(6), at(7), at(8), at(9),
                at(10)}
    BY DEF sums
  <2>2. at(0) = 0 /\ at(1) = 1 /\ at(2) = 2 /\ at(3) = 3
    BY <1>2, <1>4, <1>9 DEF Share
  <2>3. at(4) = 5 /\ at(5) = 7 /\ at(6) = 8 /\ at(7) = 11
    BY <1>2, <1>4, <1>9 DEF Share
  <2>4. at(8) = 12 /\ at(9) = 15 /\ at(10) = 17
    BY <1>2, <1>4, <1>9 DEF Share
  <2> QED
    BY <1>2, <1>9, <2>1, <2>2, <2>3, <2>4 DEF Offsets
<1> QED
  BY <1>1, <1>5, <1>6, <1>7, <1>8, <1>9

\* Counting: the elements up to m are those up to m - 1, and m if it is one.
Has(E, m) == IF m \in E THEN 1 ELSE 0

LEMMA CountTo ==
  ASSUME NEW E, NEW m \in Nat
  PROVE  /\ Cardinality(E \cap 0..(m - 1)) \in Nat
         /\ Cardinality(E \cap 0..m) = Cardinality(E \cap 0..(m - 1)) + Has(E, m)
<1> DEFINE S == E \cap 0..(m - 1)
<1>1. IsFiniteSet(S) /\ Cardinality(S) \in Nat
  <2>1. IsFiniteSet(0..(m - 1)) /\ S \in SUBSET (0..(m - 1))
    BY FS_Interval
  <2> HIDE DEF S
  <2>2. IsFiniteSet(S)
    BY <2>1, FS_Subset
  <2> QED
    BY <2>2, FS_CardinalityType
<1>2. m \notin S /\ E \cap 0..m = IF m \in E THEN S \cup {m} ELSE S
  OBVIOUS
<1> HIDE DEF S
<1>3. Cardinality(S \cup {m}) = Cardinality(S) + 1
  BY <1>1, <1>2, FS_AddElement
<1> QED
  BY <1>1, <1>2, <1>3 DEF Has, S

LEMMA Count ==
  ASSUME NEW E \in SUBSET (0..17)
  PROVE  Cardinality(E) = Has(E, 0) + Has(E, 1) + Has(E, 2) + Has(E, 3) + Has(E, 4) + Has(E, 5)
                          + Has(E, 6) + Has(E, 7) + Has(E, 8) + Has(E, 9) + Has(E, 10)
                          + Has(E, 11) + Has(E, 12) + Has(E, 13) + Has(E, 14) + Has(E, 15)
                          + Has(E, 16) + Has(E, 17)
<1> DEFINE to(m) == Cardinality(E \cap 0..m)
<1>1. \A m \in 0..17 : to(m - 1) \in Nat /\ to(m) = to(m - 1) + Has(E, m)
  BY CountTo
<1>2. to(0 - 1) = 0
  <2>1. E \cap 0..(0 - 1) = {}
    OBVIOUS
  <2> QED
    BY <2>1, FS_EmptySet
<1>3. to(17) = Cardinality(E)
  <2>1. E \cap 0..17 = E
    OBVIOUS
  <2> QED
    BY <2>1
<1>4. \A m \in 0..17 : Has(E, m) \in Nat
  BY DEF Has
<1> HIDE DEF to
<1>5. /\ to(0) = Has(E, 0) /\ to(1) = to(0) + Has(E, 1) /\ to(2) = to(1) + Has(E, 2)
      /\ to(3) = to(2) + Has(E, 3) /\ to(4) = to(3) + Has(E, 4) /\ to(5) = to(4) + Has(E, 5)
      /\ to(6) = to(5) + Has(E, 6) /\ to(7) = to(6) + Has(E, 7) /\ to(8) = to(7) + Has(E, 8)
  BY <1>1, <1>2, <1>4
<1>6. /\ to(9) = to(8) + Has(E, 9) /\ to(10) = to(9) + Has(E, 10) /\ to(11) = to(10) + Has(E, 11)
      /\ to(12) = to(11) + Has(E, 12) /\ to(13) = to(12) + Has(E, 13) /\ to(14) = to(13) + Has(E, 14)
      /\ to(15) = to(14) + Has(E, 15) /\ to(16) = to(15) + Has(E, 16) /\ to(17) = to(16) + Has(E, 17)
  BY <1>1, <1>4
<1> QED
  BY <1>3, <1>4, <1>5, <1>6

\* A remainder below twice the divisor.
LEMMA Turn ==
  ASSUME NEW n \in Nat \ {0}, NEW a \in Nat, a < 2 * n
  PROVE  a % n = IF a < n THEN a ELSE a - n
<1>1. a \div n = IF a < n THEN 0 ELSE 1
  BY Quotient
<1>2. a = n * (a \div n) + (a % n) /\ a % n \in 0..(n - 1)
  BY Division
<1> QED
  BY <1>1, <1>2

\* Where position d is after the ring is turned by i.
At(n, i, d) == IF i + d < n THEN i + d ELSE i + d - n

LEMMA TurnAt ==
  ASSUME NEW n \in Nat \ {0}, NEW i \in 0..(n - 1), NEW d \in 0..(n - 1)
  PROVE  (i + d) % n = At(n, i, d)
<1> DEFINE a == i + d
<1>1. a \in Nat /\ a < 2 * n
  OBVIOUS
<1> HIDE DEF a
<1>2. a % n = IF a < n THEN a ELSE a - n
  BY <1>1, Turn
<1> QED
  BY <1>2 DEF a, At

\* An injective function maps a set to one of as many elements.
LEMMA ImageCard ==
  ASSUME NEW S, IsFiniteSet(S), NEW f, DOMAIN f = S, f = [x \in S |-> f[x]],
         \A x, y \in S : f[x] = f[y] => x = y
  PROVE  Cardinality({f[x] : x \in S}) = Cardinality(S)
<1> DEFINE T == {f[x] : x \in S}
<1>1. f \in [S -> T] /\ \A t \in T : \E x \in S : f[x] = t
  OBVIOUS
<1> HIDE DEF T
<1>2. f \in Bijection(S, T)
  BY <1>1, Fun_IsBij
<1> QED
  BY <1>2, FS_Bijection DEF ExistsBijection, T

\* The positions that those in S take when the ring is turned by i.
Turned(n, i, S) == {(i + d) % n : d \in S}

LEMMA TurnedCard ==
  ASSUME NEW n \in Nat \ {0}, NEW i \in 0..(n - 1), NEW S \in SUBSET (0..(n - 1))
  PROVE  /\ Turned(n, i, S) \in SUBSET (0..(n - 1))
         /\ IsFiniteSet(S)
         /\ Cardinality(Turned(n, i, S)) = Cardinality(S)
<1> DEFINE f == [d \in S |-> (i + d) % n]
<1>1. \A d \in S : (i + d) % n = At(n, i, d)
  BY TurnAt
<1>2. \A x, y \in S : f[x] = f[y] => x = y
  BY <1>1 DEF At
<1>3. IsFiniteSet(S)
  <2>1. IsFiniteSet(0..(n - 1))
    BY FS_Interval
  <2> QED
    BY <2>1, FS_Subset
<1>4. {f[x] : x \in S} = Turned(n, i, S)
  BY DEF Turned
<1>5. f = [x \in S |-> f[x]] /\ DOMAIN f = S
  OBVIOUS
<1>6. Turned(n, i, S) \in SUBSET (0..(n - 1))
  BY <1>1 DEF At, Turned
<1> HIDE DEF f
<1> QED
  BY <1>2, <1>3, <1>4, <1>5, <1>6, ImageCard

\* Where the one-bit stands in the second of two codes that are t apart.
Back(n, t, d) == IF d >= t THEN d - t ELSE d - t + n

\* The one-bits of the first code that are one-bits of the code t further on.
Common(k, t) == {d \in Offsets[k] : Back(sum(k), t, d) \in Offsets[k]}

LEMMA Ones ==
  ASSUME NEW k \in Ikbs
  PROVE  /\ degree(k) \in 4..11 /\ power(k) \in 1..5 /\ sum(k) \in 7..23
         /\ Offsets[k] \in SUBSET (0..(sum(k) - 1))
         /\ Cardinality(Offsets[k]) = degree(k)
<1>1. k \in 1..5
  BY DEF Ikbs, ikb_db
<1>2. /\ degree(k) \in 4..11 /\ power(k) \in 1..5 /\ sum(k) \in 7..23
      /\ Offsets[k] \in SUBSET (0..(sum(k) - 1)) /\ Offsets[k] \in SUBSET (0..17)
  BY <1>1, Parameters DEF degree, ikb_db, Offsets
<1> DEFINE has(m) == Has(Offsets[k], m)
<1>3. Cardinality(Offsets[k]) = has(0) + has(1) + has(2) + has(3) + has(4) + has(5)
                          + has(6) + has(7) + has(8) + has(9) + has(10)
                          + has(11) + has(12) + has(13) + has(14) + has(15)
                          + has(16) + has(17)
  BY <1>2, Count
<1>4. k = 1 => Cardinality(Offsets[k]) = 4
  BY <1>3 DEF Has, Offsets
<1>5. k = 2 => Cardinality(Offsets[k]) = 4
  BY <1>3 DEF Has, Offsets
<1>6. k = 3 => Cardinality(Offsets[k]) = 6
  BY <1>3 DEF Has, Offsets
<1>7. k = 4 => Cardinality(Offsets[k]) = 8
  BY <1>3 DEF Has, Offsets
<1>8. k = 5 => Cardinality(Offsets[k]) = 11
  BY <1>3 DEF Has, Offsets
<1>9. /\ k = 1 => degree(k) = 4
      /\ k = 2 => degree(k) = 4
      /\ k = 3 => degree(k) = 6
      /\ k = 4 => degree(k) = 8
      /\ k = 5 => degree(k) = 11
  BY DEF degree, ikb_db
<1> QED
  BY <1>1, <1>2, <1>4, <1>5, <1>6, <1>7, <1>8, <1>9

\* What makes a bundle an ideal one: every turn of the ring leaves power one-bits
\* on one-bits. All but the first are ideal.
LEMMA IdealBundle ==
  ASSUME NEW k \in 2..5, NEW t \in 1..(sum(k) - 1)
  PROVE  Cardinality(Common(k, t)) = power(k)
<1>1. k \in Ikbs
  BY DEF Ikbs, ikb_db
<1> DEFINE has(m) == Has(Common(k, t), m)
<1>2. Cardinality(Common(k, t)) = has(0) + has(1) + has(2) + has(3) + has(4) + has(5)
                          + has(6) + has(7) + has(8) + has(9) + has(10)
                          + has(11) + has(12) + has(13) + has(14) + has(15)
                          + has(16) + has(17)
  <2>1. Common(k, t) \in SUBSET (0..17)
    BY <1>1 DEF Common, Offsets
  <2> QED
    BY <2>1, Count
<1>3. ASSUME NEW m \in 0..17
      PROVE  has(m) = IF m \in Offsets[k] /\ Back(sum(k), t, m) \in Offsets[k] THEN 1 ELSE 0
  BY DEF Common, Has
<1> HIDE DEF has
<1>5. CASE k = 2
  <2>1. sum(k) = 7 /\ power(k) = 2 /\ Offsets[k] = {0, 1, 2, 4}
    BY <1>5, Parameters DEF Offsets
  <2> QED
    BY <1>2, <1>3, <2>1 DEF Back
<1>6. CASE k = 3
  <2>1. sum(k) = 11 /\ power(k) = 3 /\ Offsets[k] = {0, 1, 2, 4, 5, 7}
    BY <1>6, Parameters DEF Offsets
  <2> QED
    BY <1>2, <1>3, <2>1 DEF Back
<1>7. CASE k = 4
  <2>1. sum(k) = 15 /\ power(k) = 4 /\ Offsets[k] = {0, 1, 2, 3, 5, 7, 8, 11}
    BY <1>7, Parameters DEF Offsets
  <2> QED
    BY <1>2, <1>3, <2>1 DEF Back
<1>8. CASE k = 5
  <2>1. sum(k) = 23 /\ power(k) = 5 /\ Offsets[k] = {0, 1, 2, 3, 5, 7, 8, 11, 12, 15, 17}
    BY <1>8, Parameters DEF Offsets
  <2> QED
    BY <1>2, <1>3, <2>1 DEF Back
<1> QED
  BY <1>5, <1>6, <1>7, <1>8

\* {1, 2, 3, 7} has the sum 3 twice, and 4 never: turned by 3 or 10, two of its
\* one-bits are on one-bits, turned by 4 or 9, none.
LEMMA FirstBundle ==
  ASSUME NEW t \in 1..12
  PROVE  Cardinality(Common(1, t)) = IF t \in {3, 10} THEN 2 ELSE IF t \in {4, 9} THEN 0 ELSE 1
<1> DEFINE has(m) == Has(Common(1, t), m)
<1>1. sum(1) = 13 /\ Offsets[1] = {0, 1, 3, 6}
  BY Parameters DEF Offsets
<1>2. Cardinality(Common(1, t)) = has(0) + has(1) + has(2) + has(3) + has(4) + has(5)
                          + has(6) + has(7) + has(8) + has(9) + has(10)
                          + has(11) + has(12) + has(13) + has(14) + has(15)
                          + has(16) + has(17)
  <2>1. Common(1, t) \in SUBSET (0..17)
    BY <1>1 DEF Common
  <2> QED
    BY <2>1, Count
<1>3. ASSUME NEW m \in 0..17
      PROVE  has(m) = IF m \in Offsets[1] /\ Back(13, t, m) \in Offsets[1] THEN 1 ELSE 0
  BY <1>1 DEF Common, Has
<1> HIDE DEF has
<1> QED
  BY <1>1, <1>2, <1>3 DEF Back

\* A code of a bundle is the first one, turned.
LEMMA CodeIs ==
  ASSUME NEW k \in Ikbs, NEW i \in 0..(sum(k) - 1)
  PROVE  /\ codes[k][i] = Turned(sum(k), i, Offsets[k])
         /\ codes[k][i] \in SUBSET (0..(sum(k) - 1))
         /\ IsFiniteSet(codes[k][i]) /\ Cardinality(codes[k][i]) = degree(k)
<1> DEFINE n == sum(k)
           at(j) == SumFunctionOnSet(ikb_db[k], 1..j)
           S == {at(j) : j \in 0..(degree(k) - 1)}
<1>1. codes[k][i] = {(i + at(j)) % n : j \in 0..(degree(k) - 1)}
  BY DEF codes, Code
<1>2. S = Offsets[k]
  BY OffsetsOf
<1>3. {(i + at(j)) % n : j \in 0..(degree(k) - 1)} = {(i + d) % n : d \in S}
  <2> HIDE DEF at, n
  <2> QED
    OBVIOUS
<1> HIDE DEF at, n
<1>4. codes[k][i] = Turned(n, i, Offsets[k])
  BY <1>1, <1>2, <1>3 DEF Turned
<1>5. n \in Nat \ {0} /\ i \in 0..(n - 1) /\ Offsets[k] \in SUBSET (0..(n - 1))
      /\ Cardinality(Offsets[k]) = degree(k)
  BY Ones DEF n
<1>6. /\ Turned(n, i, Offsets[k]) \in SUBSET (0..(n - 1))
      /\ Cardinality(Turned(n, i, Offsets[k])) = degree(k)
  BY <1>5, TurnedCard
<1>7. IsFiniteSet(codes[k][i])
  <2>1. IsFiniteSet(0..(n - 1))
    BY <1>5, FS_Interval
  <2> QED
    BY <1>4, <1>6, <2>1, FS_Subset
<1> QED
  BY <1>4, <1>6, <1>7 DEF n

\* How far the ring is turned from one code to another.
Between(n, i, j) == IF j > i THEN j - i ELSE j - i + n

\* Two codes have the bits in common that the first code has with one that is as far on.
LEMMA CommonOnes ==
  ASSUME NEW k \in Ikbs, NEW i \in 0..(sum(k) - 1), NEW j \in 0..(sum(k) - 1), i # j
  PROVE  Cardinality(codes[k][i] \cap codes[k][j])
           = Cardinality(Common(k, Between(sum(k), i, j)))
<1> DEFINE n == sum(k)
           t == Between(n, i, j)
           D == Offsets[k]
<1>1. n \in Nat \ {0} /\ i \in 0..(n - 1) /\ j \in 0..(n - 1) /\ D \in SUBSET (0..(n - 1))
      /\ t \in 1..(n - 1)
  BY Ones DEF Between
<1>2. \A a \in 0..(n - 1) : \A d \in 0..(n - 1) : (a + d) % n = At(n, a, d)
  <2> HIDE DEF n
  <2> QED
    BY <1>1, TurnAt
<1>3. codes[k][i] = Turned(n, i, D) /\ codes[k][j] = Turned(n, j, D)
  BY CodeIs
<1>4. Common(k, t) = {d \in D : Back(n, t, d) \in D}
  BY DEF Common
<1>5. t = Between(n, i, j)
  OBVIOUS
<1> HIDE DEF n, t, D
<1>6. \A a \in 0..(n - 1) : Turned(n, a, D) = {At(n, a, d) : d \in D}
  <2> SUFFICES ASSUME NEW a \in 0..(n - 1) PROVE Turned(n, a, D) = {At(n, a, d) : d \in D}
    OBVIOUS
  <2>1. \A d \in D : (a + d) % n = At(n, a, d)
    BY <1>1, <1>2
  <2> QED
    BY <2>1 DEF Turned
<1>7. Turned(n, i, Common(k, t)) = {At(n, i, d) : d \in Common(k, t)}
  <2>1. \A d \in Common(k, t) : (i + d) % n = At(n, i, d)
    BY <1>1, <1>2, <1>4
  <2> QED
    BY <2>1 DEF Turned
<1>8. ASSUME NEW d \in 0..(n - 1), NEW c \in 0..(n - 1)
      PROVE  At(n, i, d) = At(n, j, c) <=> c = Back(n, t, d)
  BY <1>1, <1>5 DEF At, Between, Back
<1>9. \A d \in 0..(n - 1) : Back(n, t, d) \in 0..(n - 1)
  BY <1>1 DEF Back
<1>10. Turned(n, i, D) \cap Turned(n, j, D) = Turned(n, i, Common(k, t))
  <2>1. ASSUME NEW x \in Turned(n, i, D), x \in Turned(n, j, D)
        PROVE  x \in Turned(n, i, Common(k, t))
    <3>1. PICK d \in D : x = At(n, i, d)
      BY <1>1, <1>6
    <3>2. PICK c \in D : x = At(n, j, c)
      BY <1>1, <1>6, <2>1
    <3>3. c = Back(n, t, d)
      BY <1>1, <1>8, <3>1, <3>2
    <3> QED
      BY <1>4, <1>7, <3>1, <3>3
  <2>2. ASSUME NEW x \in Turned(n, i, Common(k, t))
        PROVE  x \in Turned(n, i, D) /\ x \in Turned(n, j, D)
    <3>1. PICK d \in D : x = At(n, i, d) /\ Back(n, t, d) \in D
      BY <1>4, <1>7
    <3>2. At(n, i, d) = At(n, j, Back(n, t, d))
      BY <1>1, <1>8, <3>1
    <3> QED
      BY <1>1, <1>6, <3>1, <3>2
  <2> QED
    BY <2>1, <2>2
<1>11. Cardinality(Turned(n, i, Common(k, t))) = Cardinality(Common(k, t))
  <2>1. Common(k, t) \in SUBSET (0..(n - 1))
    BY <1>1, <1>4
  <2> QED
    BY <1>1, <2>1, TurnedCard
<1> QED
  BY <1>3, <1>5, <1>10, <1>11 DEF n

\* Two chips differ in the bits that only one of them has.
LEMMA MissedIs ==
  ASSUME NEW x, NEW y, IsFiniteSet(x), IsFiniteSet(y)
  PROVE  Missed(x, y) = Cardinality(x) + Cardinality(y) - 2 * Cardinality(x \cap y)
<1>1. IsFiniteSet(x \ y) /\ Cardinality(x \ y) = Cardinality(x) - Cardinality(x \cap y)
  BY FS_Difference
<1>2. IsFiniteSet(y \ x) /\ Cardinality(y \ x) = Cardinality(y) - Cardinality(y \cap x)
  BY FS_Difference
<1>3. (x \ y) \cap (y \ x) = {} /\ x \cap y = y \cap x
  OBVIOUS
<1>4. Cardinality((x \ y) \cup (y \ x)) = Cardinality(x \ y) + Cardinality(y \ x) - 0
  BY <1>1, <1>2, <1>3, FS_Union, FS_EmptySet
<1>5. Cardinality(x) \in Nat /\ Cardinality(y) \in Nat /\ Cardinality(x \cap y) \in Nat
  BY FS_Intersection, FS_CardinalityType
<1> DEFINE p == Cardinality(x)
           q == Cardinality(y)
           r == Cardinality(x \cap y)
<1>6. Cardinality(x \ y) = p - r /\ Cardinality(y \ x) = q - r
  BY <1>1, <1>2, <1>3
<1>7. Missed(x, y) = (p - r) + (q - r) - 0
  BY <1>4, <1>6 DEF Missed
<1> HIDE DEF p, q, r
<1> QED
  BY <1>5, <1>7 DEF p, q, r

LEMMA CodesDiffer ==
  ASSUME NEW k \in Ikbs, NEW i \in 0..(sum(k) - 1), NEW j \in 0..(sum(k) - 1), i # j
  PROVE  Missed(codes[k][i], codes[k][j])
           = 2 * (degree(k) - Cardinality(Common(k, Between(sum(k), i, j))))
<1> DEFINE c == Cardinality(Common(k, Between(sum(k), i, j)))
<1>1. /\ IsFiniteSet(codes[k][i]) /\ Cardinality(codes[k][i]) = degree(k)
      /\ IsFiniteSet(codes[k][j]) /\ Cardinality(codes[k][j]) = degree(k)
      /\ degree(k) \in Nat
  BY CodeIs, Ones
<1>2. Cardinality(codes[k][i] \cap codes[k][j]) = c
  BY CommonOnes
<1>3. c \in Nat
  BY <1>1, <1>2, FS_Intersection, FS_CardinalityType
<1>4. Missed(codes[k][i], codes[k][j])
        = Cardinality(codes[k][i]) + Cardinality(codes[k][j]) - 2 * Cardinality(codes[k][i] \cap codes[k][j])
  BY <1>1, MissedIs
<1> HIDE DEF c
<1> QED
  BY <1>1, <1>2, <1>3, <1>4 DEF c

-----------------------------------------------------------------------------
(* What the codes are good for.                                            *)

LEMMA DistanceIs ==
  ASSUME NEW k \in Ikbs
  PROVE  /\ distance[k] \in Nat
         /\ \A i, j \in 0..(sum(k) - 1) : i # j => distance[k] <= Missed(codes[k][i], codes[k][j])
         /\ \E i, j \in 0..(sum(k) - 1) : i # j /\ distance[k] = Missed(codes[k][i], codes[k][j])
<1> DEFINE n == sum(k)
           apart(p) == Missed(codes[k][p[1]], codes[k][p[2]])
           S == {apart(p) : p \in Pairs(k)}
<1>1. Pairs(k) = {p \in (0..(n - 1)) \X (0..(n - 1)) : p[1] # p[2]}
  <2>1. DOMAIN codes[k] = 0..(n - 1)
    BY DEF codes
  <2> QED
    BY <2>1 DEF Pairs
<1>2. n \in Nat /\ n > 1
  BY Ones
<1>3. \A p \in Pairs(k) : apart(p) \in Nat
  <2>1. \A p \in Pairs(k) : p[1] \in 0..(n - 1) /\ p[2] \in 0..(n - 1)
    BY <1>1
  <2>2. \A i \in 0..(n - 1) : codes[k][i] \in SUBSET (0..(n - 1))
    BY CodeIs
  <2> HIDE DEF n
  <2> QED
    BY <1>2, <2>1, <2>2, MissedType
<1>4. S \in SUBSET Nat /\ S # {}
  <2>1. <<0, 1>> \in Pairs(k)
    BY <1>1, <1>2
  <2> QED
    BY <1>3, <2>1
<1>5. distance[k] = Min(S)
  BY DEF distance
<1> HIDE DEF S
<1>6. distance[k] \in S /\ \A y \in S : distance[k] <= y
  BY <1>4, <1>5, MinOf
<1>7. ASSUME NEW i \in 0..(n - 1), NEW j \in 0..(n - 1), i # j
      PROVE  Missed(codes[k][i], codes[k][j]) \in S
  <2>1. <<i, j>> \in Pairs(k) /\ apart(<<i, j>>) = Missed(codes[k][i], codes[k][j])
    BY <1>1, <1>7
  <2> HIDE DEF apart
  <2> QED
    BY <2>1 DEF S
<1>8. PICK p \in Pairs(k) : distance[k] = apart(p)
  BY <1>6 DEF S
<1> QED
  BY <1>1, <1>4, <1>6, <1>7, <1>8

\* The bundles of ikb_codes_init that are ideal ones: any two of their codes differ in
\* so many bits that err_fixed errors are fewer than half of them, as ikb_init takes it.
THEOREM IdealDistance ==
  ASSUME NEW k \in 2..5
  PROVE  /\ \A i, j \in 0..(sum(k) - 1) : i # j =>
              Missed(codes[k][i], codes[k][j]) = 2 * (degree(k) - power(k))
         /\ distance[k] = 2 * (err_fixed(k) + 1)
<1>1. k \in Ikbs
  BY DEF Ikbs, ikb_db
<1>2. degree(k) \in Nat /\ power(k) \in Nat /\ sum(k) \in Nat
  BY <1>1, Ones
<1>3. ASSUME NEW i \in 0..(sum(k) - 1), NEW j \in 0..(sum(k) - 1), i # j
      PROVE  Missed(codes[k][i], codes[k][j]) = 2 * (degree(k) - power(k))
  <2>1. Between(sum(k), i, j) \in 1..(sum(k) - 1)
    BY <1>2, <1>3 DEF Between
  <2> QED
    BY <1>1, <1>3, <2>1, IdealBundle, CodesDiffer
<1>4. distance[k] = 2 * (degree(k) - power(k))
  BY <1>1, <1>3, DistanceIs
<1> QED
  BY <1>2, <1>3, <1>4 DEF err_fixed

\* The first bundle is not: two of its codes differ in 4 bits only, and a chip with the
\* 2 errors that ikb_init takes for corrected can be as near to another code.
THEOREM FirstDistance == distance[1] = 4 /\ err_fixed(1) = 2
<1>1. 1 \in Ikbs /\ degree(1) = 4 /\ sum(1) = 13 /\ power(1) = 1
  BY Parameters DEF Ikbs, ikb_db, degree
<1>2. ASSUME NEW i \in 0..12, NEW j \in 0..12, i # j
      PROVE  /\ Missed(codes[1][i], codes[1][j]) \in {4, 6, 8}
             /\ Between(13, i, j) = 3 => Missed(codes[1][i], codes[1][j]) = 4
  <2>1. Between(13, i, j) \in 1..12
    BY <1>2 DEF Between
  <2>2. Missed(codes[1][i], codes[1][j]) = 2 * (4 - Cardinality(Common(1, Between(13, i, j))))
    BY <1>1, <1>2, CodesDiffer
  <2> QED
    BY <2>1, <2>2, FirstBundle
<1>3. Missed(codes[1][0], codes[1][3]) = 4
  <2>1. Between(13, 0, 3) = 3
    BY DEF Between
  <2> QED
    BY <1>2, <2>1
<1>4. distance[1] = 4
  <2>1. /\ distance[1] \in Nat
        /\ distance[1] <= Missed(codes[1][0], codes[1][3])
        /\ \E i, j \in 0..12 : i # j /\ distance[1] = Missed(codes[1][i], codes[1][j])
    BY <1>1, DistanceIs
  <2> QED
    BY <1>2, <1>3, <2>1
<1> QED
  BY <1>1, <1>4 DEF err_fixed

\* Errors add up.
LEMMA MissedSum ==
  ASSUME NEW n \in Nat, NEW x \in SUBSET (0..(n - 1)), NEW y \in SUBSET (0..(n - 1)),
         NEW z \in SUBSET (0..(n - 1))
  PROVE  /\ Missed(x, z) <= Missed(x, y) + Missed(y, z)
         /\ Missed(x, y) = Missed(y, x)
         /\ Missed(x, y) = 0 => x = y
<1> DEFINE xy == (x \ y) \cup (y \ x)
           yz == (y \ z) \cup (z \ y)
           xz == (x \ z) \cup (z \ x)
<1>1. IsFiniteSet(xy) /\ IsFiniteSet(yz)
  <2>1. IsFiniteSet(0..(n - 1)) /\ xy \in SUBSET (0..(n - 1)) /\ yz \in SUBSET (0..(n - 1))
    BY FS_Interval
  <2> HIDE DEF xy, yz
  <2> QED
    BY <2>1, FS_Subset
<1>2. xz \in SUBSET (xy \cup yz) /\ xy = (y \ x) \cup (x \ y) /\ (xy = {} => x = y)
  OBVIOUS
<1>3. Missed(x, y) = Cardinality(xy) /\ Missed(y, z) = Cardinality(yz) /\ Missed(x, z) = Cardinality(xz)
      /\ Missed(y, x) = Cardinality(xy)
  BY <1>2 DEF Missed
<1> HIDE DEF xy, yz, xz
<1>4. /\ IsFiniteSet(xy \cup yz)
      /\ Cardinality(xy \cup yz) = Cardinality(xy) + Cardinality(yz) - Cardinality(xy \cap yz)
  BY <1>1, FS_Union
<1>5. Cardinality(xz) <= Cardinality(xy \cup yz)
  BY <1>2, <1>4, FS_Subset
<1>6. /\ Cardinality(xy) \in Nat /\ Cardinality(yz) \in Nat /\ Cardinality(xy \cap yz) \in Nat
      /\ IsFiniteSet(xz) /\ Cardinality(xz) \in Nat
  BY <1>1, <1>2, <1>4, FS_Intersection, FS_Subset, FS_CardinalityType
<1>7. Cardinality(xy) = 0 => xy = {}
  BY <1>1, FS_EmptySet
<1> QED
  BY <1>2, <1>3, <1>4, <1>5, <1>6, <1>7

\* Restoring takes the first of the codes that miss the fewest bits.
LEMMA RestoredIs ==
  ASSUME NEW k \in Ikbs, NEW n \in Nat, NEW chip \in SUBSET (0..(n - 1))
  PROVE  \/ /\ Restored(k, n, chip) = {}
            /\ \A i \in 0..(sum(k) - 1) : Missed(Cut(codes[k][i], n), chip) > err_fixed(k)
         \/ \E f \in 0..(sum(k) - 1) :
              /\ Restored(k, n, chip) = Cut(codes[k][f], n)
              /\ Missed(Cut(codes[k][f], n), chip) <= err_fixed(k)
              /\ \A i \in 0..(sum(k) - 1) :
                   /\ Missed(Cut(codes[k][f], n), chip) <= Missed(Cut(codes[k][i], n), chip)
                   /\ i < f => Missed(Cut(codes[k][f], n), chip) # Missed(Cut(codes[k][i], n), chip)
<1> DEFINE missed == Misses(k, n, chip)
           M == {missed[i] : i \in DOMAIN missed}
           best == Min(M)
           f == FirstWith(missed, best)
<1>1. DOMAIN missed = 0..(sum(k) - 1)
      /\ \A i \in DOMAIN missed : missed[i] = Missed(Cut(codes[k][i], n), chip)
  BY DEF Misses, codes
<1>2. \A i \in DOMAIN missed : Cut(codes[k][i], n) \in SUBSET (0..(n - 1))
  BY DEF Cut
<1>3. \A i \in DOMAIN missed : missed[i] \in Nat
  BY <1>1, <1>2, MissedType
<1>4. sum(k) \in Nat \ {0}
  BY SumType
<1>5. M \in SUBSET Nat /\ M # {}
  <2>1. 0 \in DOMAIN missed
    BY <1>1, <1>4
  <2> QED
    BY <1>3, <2>1
<1>6. best \in M /\ \A y \in M : best <= y
  <2> HIDE DEF M
  <2> QED
    BY <1>5, MinOf
<1>7. /\ f \in DOMAIN missed
      /\ missed[f] = best
      /\ \A j \in 0..(f - 1) : missed[j] # best
  <2>1. PICK a \in DOMAIN missed : missed[a] = best
    BY <1>6
  <2> HIDE DEF missed, best
  <2> QED
    BY <1>1, <1>4, <2>1, FirstWithType
<1>8. Restored(k, n, chip) = IF best <= err_fixed(k) THEN Cut(codes[k][f], n) ELSE {}
  BY DEF Restored
<1>9. \A i \in DOMAIN missed : best <= missed[i]
  BY <1>6
<1>10. best \in Nat /\ err_fixed(k) \in Int
  BY <1>5, <1>6, Ones DEF err_fixed
<1>11. \A i \in 0..(sum(k) - 1) : i < f => i \in 0..(f - 1)
  BY <1>1, <1>4, <1>7
<1> HIDE DEF missed, best, f, M
<1>12. CASE best <= err_fixed(k)
  <2>1. Missed(Cut(codes[k][f], n), chip) = best /\ f \in 0..(sum(k) - 1)
    BY <1>1, <1>7
  <2> QED
    BY <1>1, <1>7, <1>8, <1>9, <1>11, <1>12, <2>1
<1>13. CASE ~ (best <= err_fixed(k))
  BY <1>1, <1>3, <1>8, <1>9, <1>10, <1>13
<1> QED
  BY <1>12, <1>13

\* A whole chip is a code, its own cut, and only its own.
LEMMA WholeCode ==
  ASSUME NEW k \in Ikbs, NEW u \in 0..(sum(k) - 1)
  PROVE  /\ Cut(codes[k][u], sum(k)) = codes[k][u]
         /\ codes[k][u] # {}
<1>1. codes[k][u] \in SUBSET (0..(sum(k) - 1)) /\ Cardinality(codes[k][u]) = degree(k)
      /\ degree(k) \in 4..11
  BY CodeIs, Ones
<1>2. codes[k][u] # {}
  BY <1>1, FS_EmptySet
<1> QED
  BY <1>1, <1>2 DEF Cut

\* Restoring corrects fewer errors than half the distance, up to err_fixed.
LEMMA Corrected ==
  ASSUME NEW k \in Ikbs, NEW u \in 0..(sum(k) - 1), NEW chip \in SUBSET (0..(sum(k) - 1)),
         Missed(codes[k][u], chip) <= err_fixed(k),
         2 * Missed(codes[k][u], chip) < distance[k]
  PROVE  Restored(k, sum(k), chip) = codes[k][u]
<1> DEFINE n == sum(k)
           miss(i) == Missed(codes[k][i], chip)
<1>1. n \in Nat /\ err_fixed(k) \in Int
  BY Ones DEF err_fixed
<1>2. \A i \in 0..(n - 1) : codes[k][i] \in SUBSET (0..(n - 1)) /\ Cut(codes[k][i], n) = codes[k][i]
  BY CodeIs, WholeCode
<1>3. \A i \in 0..(n - 1) : miss(i) \in Nat
  <2> HIDE DEF n
  <2> QED
    BY <1>1, <1>2, MissedType DEF n
<1>4. ASSUME NEW i \in 0..(n - 1), i # u PROVE miss(u) < miss(i)
  <2>1. distance[k] \in Nat /\ distance[k] <= Missed(codes[k][u], codes[k][i])
    BY <1>4, DistanceIs
  <2>2. Missed(codes[k][u], codes[k][i]) <= Missed(codes[k][u], chip) + Missed(chip, codes[k][i])
    BY <1>1, <1>2, MissedSum
  <2>3. Missed(chip, codes[k][i]) = miss(i)
    BY <1>1, <1>2, MissedSum
  <2>4. Missed(codes[k][u], codes[k][i]) \in Nat
    BY <1>1, <1>2, MissedType
  <2> QED
    BY <1>3, <2>1, <2>2, <2>3, <2>4
<1>5. miss(u) <= err_fixed(k)
  OBVIOUS
<1>6. \/ \A i \in 0..(n - 1) : miss(i) > err_fixed(k)
      \/ \E f \in 0..(n - 1) : Restored(k, n, chip) = codes[k][f] /\ miss(f) <= miss(u)
  <2>1. chip \in SUBSET (0..(n - 1))
    OBVIOUS
  <2> HIDE DEF n
  <2> QED
    BY <1>1, <1>2, <2>1, RestoredIs DEF n
<1> HIDE DEF miss
<1>7. PICK f \in 0..(n - 1) : Restored(k, n, chip) = codes[k][f] /\ miss(f) <= miss(u)
  BY <1>1, <1>3, <1>5, <1>6
<1>8. f = u
  BY <1>3, <1>4, <1>7
<1> QED
  BY <1>7, <1>8

\* Together with err_fixed, fewer errors than the distance are noticed.
LEMMA Noticed ==
  ASSUME NEW k \in Ikbs, NEW u \in 0..(sum(k) - 1), NEW chip \in SUBSET (0..(sum(k) - 1)),
         Missed(codes[k][u], chip) + err_fixed(k) < distance[k]
  PROVE  Restored(k, sum(k), chip) \in {codes[k][u], {}}
<1> DEFINE n == sum(k)
           miss(i) == Missed(codes[k][i], chip)
<1>1. n \in Nat /\ err_fixed(k) \in Int
  BY Ones DEF err_fixed
<1>2. \A i \in 0..(n - 1) : codes[k][i] \in SUBSET (0..(n - 1)) /\ Cut(codes[k][i], n) = codes[k][i]
  BY CodeIs, WholeCode
<1>3. \A i \in 0..(n - 1) : miss(i) \in Nat
  <2> HIDE DEF n
  <2> QED
    BY <1>1, <1>2, MissedType DEF n
<1>4. ASSUME NEW i \in 0..(n - 1), i # u PROVE miss(i) > err_fixed(k)
  <2>1. distance[k] \in Nat /\ distance[k] <= Missed(codes[k][u], codes[k][i])
    BY <1>4, DistanceIs
  <2>2. Missed(codes[k][u], codes[k][i]) <= Missed(codes[k][u], chip) + Missed(chip, codes[k][i])
    BY <1>1, <1>2, MissedSum
  <2>3. Missed(chip, codes[k][i]) = miss(i)
    BY <1>1, <1>2, MissedSum
  <2>4. Missed(codes[k][u], codes[k][i]) \in Nat
    BY <1>1, <1>2, MissedType
  <2> QED
    BY <1>1, <1>3, <2>1, <2>2, <2>3, <2>4
<1>5. \/ Restored(k, n, chip) = {}
      \/ \E f \in 0..(n - 1) : Restored(k, n, chip) = codes[k][f] /\ miss(f) <= err_fixed(k)
  <2>1. chip \in SUBSET (0..(n - 1))
    OBVIOUS
  <2> HIDE DEF n
  <2> QED
    BY <1>1, <1>2, <2>1, RestoredIs DEF n
<1> HIDE DEF miss
<1> QED
  BY <1>1, <1>3, <1>4, <1>5

\* A cut chip without an error, of which no smaller code has the beginning, is restored
\* as it is and read as the unit it was made from.
LEMMA CleanChip ==
  ASSUME NEW k \in Ikbs, NEW n \in Nat, NEW u \in 0..(sum(k) - 1),
         \A j \in 0..(u - 1) : Cut(codes[k][j], n) # Cut(codes[k][u], n)
  PROVE  /\ Restored(k, n, Cut(codes[k][u], n)) = Cut(codes[k][u], n)
         /\ DecodedUnit(k, n, Cut(codes[k][u], n)) = u
<1> DEFINE chip == Cut(codes[k][u], n)
<1>1. sum(k) \in Nat /\ err_fixed(k) \in Nat
  <2>1. k \in 1..5
    BY DEF Ikbs, ikb_db
  <2>2. /\ k = 1 => degree(k) = 4
        /\ k = 2 => degree(k) = 4
        /\ k = 3 => degree(k) = 6
        /\ k = 4 => degree(k) = 8
        /\ k = 5 => degree(k) = 11
    BY DEF degree, ikb_db
  <2> QED
    BY <2>1, <2>2, Parameters, Ones DEF err_fixed
<1>2. \A i \in 0..(sum(k) - 1) : Cut(codes[k][i], n) \in SUBSET (0..(n - 1))
  BY DEF Cut
<1>3. chip \in SUBSET (0..(n - 1))
  BY <1>2
<1>4. Missed(chip, chip) = 0
  <2>1. (chip \ chip) \cup (chip \ chip) = {}
    OBVIOUS
  <2> QED
    BY <2>1, FS_EmptySet DEF Missed
<1>5. \A i \in 0..(sum(k) - 1) : Missed(Cut(codes[k][i], n), chip) \in Nat
  BY <1>2, <1>3, MissedType
<1>6. Restored(k, n, chip) = chip
  <2>1. ASSUME NEW f \in 0..(sum(k) - 1), Missed(Cut(codes[k][f], n), chip) <= Missed(chip, chip)
        PROVE  Cut(codes[k][f], n) = chip
    <3>1. Missed(Cut(codes[k][f], n), chip) = 0
      BY <1>4, <1>5, <2>1
    <3> HIDE DEF chip
    <3> QED
      BY <1>2, <1>3, <3>1, MissedSum
  <2>2. ~ (Missed(Cut(codes[k][u], n), chip) > err_fixed(k))
    BY <1>1, <1>4
  <2>3. \/ \A i \in 0..(sum(k) - 1) : Missed(Cut(codes[k][i], n), chip) > err_fixed(k)
        \/ \E f \in 0..(sum(k) - 1) :
             /\ Restored(k, n, chip) = Cut(codes[k][f], n)
             /\ Missed(Cut(codes[k][f], n), chip) <= Missed(Cut(codes[k][u], n), chip)
    <3> HIDE DEF chip
    <3> QED
      BY <1>3, RestoredIs
  <2> QED
    BY <2>1, <2>2, <2>3
<1>7. DecodedUnit(k, n, chip) = u
  <2> DEFINE M == Matching(k, n, chip)
  <2>1. M = {i \in 0..(sum(k) - 1) : Cut(codes[k][i], n) = chip}
    BY DEF Matching, codes
  <2>2. M \in SUBSET Nat /\ u \in M
    BY <1>1, <2>1
  <2>3. Min(M) \in M /\ \A y \in M : Min(M) <= y
    <3> HIDE DEF M
    <3> QED
      BY <2>2, MinOf
  <2>4. Min(M) = u
    <3>1. Min(M) \in Nat /\ Min(M) <= u /\ Cut(codes[k][Min(M)], n) = chip
      BY <2>1, <2>2, <2>3
    <3>2. ~ (Min(M) \in 0..(u - 1))
      BY <3>1
    <3> HIDE DEF M
    <3> QED
      BY <1>1, <3>1, <3>2
  <2> QED
    BY <2>2, <2>4 DEF DecodedUnit
<1> QED
  BY <1>6, <1>7

\* Codes are told apart if their distance is not 0,
LEMMA WholeChip ==
  ASSUME NEW k \in Ikbs, NEW u \in 0..(sum(k) - 1), distance[k] > 0
  PROVE  DecodedUnit(k, sum(k), codes[k][u]) = u
<1>1. sum(k) \in Nat /\ Cut(codes[k][u], sum(k)) = codes[k][u]
  BY Ones, WholeCode
<1>2. ASSUME NEW j \in 0..(u - 1) PROVE Cut(codes[k][j], sum(k)) # Cut(codes[k][u], sum(k))
  <2>1. j \in 0..(sum(k) - 1) /\ j # u
    BY <1>1
  <2>2. Missed(codes[k][j], codes[k][u]) > 0
    <3>1. distance[k] \in Nat /\ distance[k] <= Missed(codes[k][j], codes[k][u])
      BY <2>1, DistanceIs
    <3>2. Missed(codes[k][j], codes[k][u]) \in Nat
      BY <1>1, <2>1, CodeIs, MissedType
    <3> QED
      BY <3>1, <3>2
  <2>3. Cut(codes[k][j], sum(k)) = codes[k][j]
    BY <2>1, WholeCode
  <2>4. codes[k][j] # codes[k][u]
    <3>1. Missed(codes[k][u], codes[k][u]) = 0
      <4>1. (codes[k][u] \ codes[k][u]) \cup (codes[k][u] \ codes[k][u]) = {}
        OBVIOUS
      <4> QED
        BY <4>1, FS_EmptySet DEF Missed
    <3> QED
      BY <2>2, <3>1
  <2> QED
    BY <1>1, <2>3, <2>4
<1> QED
  BY <1>1, <1>2, CleanChip

\* and zeroes are read as 0.
LEMMA Zeroes ==
  ASSUME NEW k \in Ikbs
  PROVE  DecodedUnit(k, sum(k), {}) = 0
<1>1. DOMAIN codes[k] = 0..(sum(k) - 1)
  BY DEF codes
<1>2. Matching(k, sum(k), {}) = {}
  BY <1>1, WholeCode DEF Matching
<1> QED
  BY <1>2 DEF DecodedUnit

-----------------------------------------------------------------------------
(* Units of a message.                                                     *)

LEMMA UnitSum ==
  ASSUME NEW bits, NEW from \in Nat, NEW to \in Nat
  PROVE  LET T == bits \cap from..(to - 1)
         IN  UnitAt(bits, from, to) = SumFunctionOnSet([b \in T |-> 2^(to - 1 - b)], T)
<1> DEFINE T == bits \cap from..(to - 1)
           w == [b \in T |-> 2^(to - 1 - b)]
           first(s) == CHOOSE x \in s : TRUE
           Unit(h) == [s \in SUBSET T |->
                         IF s = {} THEN 0
                         ELSE 2^(to - 1 - (CHOOSE x \in s : TRUE)) + h[s \ {CHOOSE x \in s : TRUE}]]
           Sum(h)  == [s \in SUBSET T |->
                         IF s = {} THEN 0
                         ELSE w[CHOOSE x \in s : TRUE] + h[s \ {CHOOSE x \in s : TRUE}]]
<1>1. UnitAt(bits, from, to) = (CHOOSE h : h = Unit(h))[T]
  BY DEF UnitAt, MapThenSumSet, MapThenFoldSet
<1>2. SumFunctionOnSet(w, T) = (CHOOSE h : h = Sum(h))[T]
  BY DEF SumFunctionOnSet, FoldFunctionOnSet, MapThenFoldSet
<1>3. ASSUME NEW h PROVE Unit(h) = Sum(h)
  <2>1. ASSUME NEW s \in SUBSET T, s # {} PROVE w[CHOOSE x \in s : TRUE] = 2^(to - 1 - (CHOOSE x \in s : TRUE))
    <3>1. (CHOOSE x \in s : TRUE) \in T
      BY <2>1
    <3> HIDE DEF T
    <3> QED
      BY <3>1
  <2> HIDE DEF w, T
  <2> QED
    BY <2>1
<1> HIDE DEF Unit, Sum
<1>4. (CHOOSE h : h = Unit(h)) = (CHOOSE h : h = Sum(h))
  BY <1>3
<1> QED
  BY <1>1, <1>2, <1>4

LEMMA Powers == /\ 2^0 = 1 /\ 2^1 = 2 /\ 2^2 = 4 /\ 2^3 = 8 /\ 2^4 = 16
  OBVIOUS

\* What the i-th bit after position from contributes to a unit of m bits.
Weight(bits, from, m, i) == IF i < m /\ from + i \in bits THEN 2^(m - 1 - i) ELSE 0

LEMMA UnitIs ==
  ASSUME NEW bits, NEW from \in Nat, NEW m \in 0..4
  PROVE  UnitAt(bits, from, from + m) = Weight(bits, from, m, 0) + Weight(bits, from, m, 1)
                                        + Weight(bits, from, m, 2) + Weight(bits, from, m, 3)
<1> DEFINE to == from + m
           T == bits \cap from..(to - 1)
           w == [b \in T |-> 2^(to - 1 - b)]
           at(s, i) == IF from + i \in s THEN 2^(m - 1 - i) ELSE 0
           g == [s \in SUBSET T |-> at(s, 0) + at(s, 1) + at(s, 2) + at(s, 3)]
<1>1. ASSUME NEW i \in 0..3, i < m PROVE 2^(m - 1 - i) \in Nat
  <2>1. m - 1 - i \in {0, 1, 2, 3}
    BY <1>1
  <2>2. \A e \in {0, 1, 2, 3} : 2^e \in Nat
    <3>1. 2^0 \in Nat /\ 2^1 \in Nat /\ 2^2 \in Nat /\ 2^3 \in Nat
      OBVIOUS
    <3> QED
      BY <3>1, Zenon
  <2> QED
    BY <2>1, <2>2, Zenon
<1>2. ASSUME NEW s \in SUBSET T, NEW i \in 0..3 PROVE at(s, i) \in Nat
  BY <1>1
<1>3. ASSUME NEW s \in SUBSET T, NEW x \in s PROVE g[s] = w[x] + g[s \ {x}]
  <2>1. PICK i \in 0..3 : x = from + i /\ i < m
    <3>1. x - from \in 0..3 /\ x = from + (x - from) /\ x - from < m
      OBVIOUS
    <3> QED
      BY <3>1
  <2>2. w[x] = 2^(m - 1 - i)
    <3>1. to - 1 - x = m - 1 - i /\ x \in T
      BY <2>1
    <3> QED
      BY <3>1
  <2>3. at(s, i) = w[x] /\ at(s \ {x}, i) = 0
    BY <2>1, <2>2
  <2>4. \A j \in 0..3 : j # i => at(s \ {x}, j) = at(s, j)
    BY <2>1
  <2>5. s \ {x} \in SUBSET T
    OBVIOUS
  <2>6. \A j \in 0..3 : at(s, j) \in Nat /\ at(s \ {x}, j) \in Nat
    BY <1>2, <2>5
  <2>7. g[s] = at(s, 0) + at(s, 1) + at(s, 2) + at(s, 3)
        /\ g[s \ {x}] = at(s \ {x}, 0) + at(s \ {x}, 1) + at(s \ {x}, 2) + at(s \ {x}, 3)
    BY <2>5
  <2> HIDE DEF at, g, w
  <2> QED
    BY <2>3, <2>4, <2>6, <2>7
<1>4. g[{}] = 0
  OBVIOUS
<1>5. IsFiniteSet(T)
  <2>1. IsFiniteSet(from..(to - 1))
    BY FS_Interval
  <2> QED
    BY <2>1, FS_Subset
<1>6. SumFunctionOnSet(w, T) = g[T]
  <2>1. g \in [SUBSET T -> Nat]
    <3>1. ASSUME NEW s \in SUBSET T
          PROVE  at(s, 0) + at(s, 1) + at(s, 2) + at(s, 3) \in Nat
      <4>1. at(s, 0) \in Nat /\ at(s, 1) \in Nat /\ at(s, 2) \in Nat /\ at(s, 3) \in Nat
        BY <1>2
      <4> HIDE DEF at
      <4> QED
        BY <4>1
    <3> HIDE DEF at, T
    <3> QED
      BY <3>1
  <2> HIDE DEF w, T, at
  <2> HIDE DEF g
  <2>2. \A s \in SUBSET T : \A x \in s : g[s] = w[x] + g[s \ {x}]
    BY <1>3
  <2> QED
    <3>1. IsSum(g, w, T)
      BY <1>4, <2>1, <2>2, Zenon DEF IsSum
    <3> QED
      BY <1>5, <3>1, SumIs
<1>7. UnitAt(bits, from, to) = SumFunctionOnSet(w, T)
  <2>1. to \in Nat
    OBVIOUS
  <2> QED
    BY <2>1, UnitSum
<1>8. \A i \in 0..3 : at(T, i) = Weight(bits, from, m, i)
  BY DEF Weight
<1>9. g[T] = at(T, 0) + at(T, 1) + at(T, 2) + at(T, 3)
  OBVIOUS
<1> HIDE DEF g, at, T
<1> QED
  BY <1>6, <1>7, <1>8, <1>9

\* Decoding a unit gives the bits back that were encoded.
LEMMA UnitBits ==
  ASSUME NEW bits, NEW from \in Nat, NEW m \in 0..4
  PROVE  /\ UnitAt(bits, from, from + m) \in 0..(2^m - 1)
         /\ BitsOf(UnitAt(bits, from, from + m), from, from + m) = bits \cap from..(from + m - 1)
<1> DEFINE u == UnitAt(bits, from, from + m)
           bit(i) == Weight(bits, from, m, i)
<1>1. u = bit(0) + bit(1) + bit(2) + bit(3)
  BY UnitIs
<1>2. u \in 0..(2^m - 1) /\ \A i \in 0..3 : i < m => ((u \div 2^(m - 1 - i)) % 2 = 1 <=> from + i \in bits)
  <2> HIDE DEF u
  <2>1. CASE m = 0
    BY <1>1, <2>1, Powers DEF Weight
  <2>2. CASE m = 1
    BY <1>1, <2>2, Powers DEF Weight
  <2>3. CASE m = 2
    BY <1>1, <2>3, Powers DEF Weight
  <2>4. CASE m = 3
    BY <1>1, <2>4, Powers DEF Weight
  <2>5. CASE m = 4
    BY <1>1, <2>5, Powers DEF Weight
  <2> QED
    BY <2>1, <2>2, <2>3, <2>4, <2>5
<1>3. ASSUME NEW b \in from..(from + m - 1) PROVE b \in bits <=> (u \div 2^(from + m - 1 - b)) % 2 = 1
  <2>1. b - from \in 0..3 /\ b - from < m /\ from + (b - from) = b
        /\ m - 1 - (b - from) = from + m - 1 - b
    OBVIOUS
  <2> HIDE DEF u
  <2> QED
    BY <1>2, <2>1
<1> HIDE DEF u
<1>4. BitsOf(u, from, from + m) = bits \cap from..(from + m - 1)
  BY <1>3 DEF BitsOf
<1> QED
  BY <1>2, <1>4 DEF u

=============================================================================
