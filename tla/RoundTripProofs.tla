-------------------------- MODULE RoundTripProofs --------------------------
(***************************************************************************)
(* What TLAPS proves of the way of a message through Codec: a text comes   *)
(* back when its chips get through (RoundTrip), and a chip with more       *)
(* errors is not taken for another one (NotMisread).                       *)
(***************************************************************************)
EXTENDS CodecProofs

-----------------------------------------------------------------------------
(* Slices.                                                                 *)

LEMMA SliceIs ==
  ASSUME NEW B, NEW a \in Nat, NEW n \in Nat
  PROVE  Slice(B, a, a + n) = {x \in 0..(n - 1) : a + x \in B}
<1>1. ASSUME NEW x \in Slice(B, a, a + n) PROVE x \in 0..(n - 1) /\ a + x \in B
  BY DEF Slice
<1>2. ASSUME NEW x \in 0..(n - 1), a + x \in B PROVE x \in Slice(B, a, a + n)
  <2>1. a + x \in B \cap a..((a + n) - 1) /\ x = (a + x) - a
    BY <1>2
  <2> QED
    BY <2>1 DEF Slice
<1> QED
  BY <1>1, <1>2

\* Chips do not overlap.
LEMMA Apart ==
  ASSUME NEW n \in Nat, NEW i \in Nat, NEW j \in Nat, NEW x \in 0..(n - 1), NEW b \in 0..(n - 1),
         i * n + x = j * n + b
  PROVE  i = j /\ x = b
<1>0. n \in Nat \ {0}
  OBVIOUS
<1>1. /\ i * n \in Nat /\ j * n \in Nat
      /\ i < j => i * n + n <= j * n
      /\ j < i => j * n + n <= i * n
  BY <1>0, Positions
<1> DEFINE p == i * n
           q == j * n
<1>2. p \in Nat /\ q \in Nat /\ (i < j => p + n <= q) /\ (j < i => q + n <= p) /\ p + x = q + b
  BY <1>1
<1>3. i = j => p = q
  OBVIOUS
<1> HIDE DEF p, q
<1> QED
  BY <1>2, <1>3

\* Chip i of a buffer that is long enough, and a buffer to which the bits of
\* chip j are added.
ChipOf(B, i, n) == Slice(B, i * n, i * n + n)
Added(B, j, n, chip) == B \cup {j * n + b : b \in chip}

\* A chip that is added to a buffer is the only one that changes.
LEMMA AddedSlice ==
  ASSUME NEW B, NEW n \in Nat, NEW i \in Nat, NEW j \in Nat, NEW chip \in SUBSET (0..(n - 1))
  PROVE  ChipOf(Added(B, j, n, chip), i, n)
           = IF i = j THEN ChipOf(B, i, n) \cup chip ELSE ChipOf(B, i, n)
<1> DEFINE new == Added(B, j, n, chip)
<1>1. i * n \in Nat
  OBVIOUS
<1>2. /\ ChipOf(new, i, n) = {x \in 0..(n - 1) : i * n + x \in new}
      /\ ChipOf(B, i, n) = {x \in 0..(n - 1) : i * n + x \in B}
  <2> HIDE DEF new
  <2> QED
    BY <1>1, SliceIs DEF ChipOf
<1>3. ASSUME NEW x \in 0..(n - 1)
      PROVE  i * n + x \in new <=> i * n + x \in B \/ (i = j /\ x \in chip)
  <2>1. ASSUME NEW b \in chip, i * n + x = j * n + b PROVE i = j /\ x = b
    BY <2>1, Apart
  <2>2. i = j /\ x \in chip => i * n + x \in new
    BY DEF Added
  <2> QED
    BY <2>1, <2>2 DEF Added
<1> HIDE DEF new
<1>4. ChipOf(new, i, n)
        = IF i = j THEN ChipOf(B, i, n) \cup chip ELSE ChipOf(B, i, n)
  BY <1>2, <1>3
<1> QED
  BY <1>4 DEF new

\* A slice of the beginning of a buffer is one of the buffer.
LEMMA SliceSlice ==
  ASSUME NEW B, NEW m \in Nat, NEW a \in Nat, NEW n \in Nat, a + n <= m
  PROVE  Slice(Slice(B, 0, m), a, a + n) = Slice(B, a, a + n)
<1>1. Slice(B, 0, m) = {x \in 0..(m - 1) : x \in B}
  <2>1. Slice(B, 0, 0 + m) = {x \in 0..(m - 1) : 0 + x \in B}
    BY SliceIs
  <2>2. 0 + m = m /\ \A x \in 0..(m - 1) : 0 + x = x
    OBVIOUS
  <2> QED
    BY <2>1, <2>2
<1> DEFINE A == Slice(B, 0, m)
<1>2. \A x \in 0..(n - 1) : a + x \in A <=> a + x \in B
  BY <1>1
<1> HIDE DEF A
<1>3. Slice(A, a, a + n) = {x \in 0..(n - 1) : a + x \in A}
  BY SliceIs
<1>4. Slice(B, a, a + n) = {x \in 0..(n - 1) : a + x \in B}
  BY SliceIs
<1>5. Slice(A, a, a + n) = Slice(B, a, a + n)
  BY <1>2, <1>3, <1>4
<1> QED
  BY <1>5 DEF A

\* Chips that are whole are slices of the length of a chip.
LEMMA WholeSlice ==
  ASSUME NEW s \in Nat, s = size, NEW n \in Nat \ {0}, NEW i \in Nat, i * n + n <= s * BITS_IN_BYTE,
         NEW B
  PROVE  ChipAt(B, i, n) = ChipOf(B, i, n)
<1>1. (i + 1) * n = i * n + n /\ i * n + n \in Nat /\ s * BITS_IN_BYTE \in Nat
  BY Positions DEF BITS_IN_BYTE
<1>2. Least((i + 1) * n, size * BITS_IN_BYTE) = i * n + n
  BY <1>1 DEF Least, BITS_IN_BYTE
<1> QED
  BY <1>2 DEF ChipAt, ChipOf

\* Storing chip j leaves the chips behind it alone.
LEMMA StoredLater ==
  ASSUME size \in Nat, NEW n \in Nat \ {0}, NEW j \in Nat, NEW chip \in SUBSET (0..(n - 1)),
         NEW old, NEW i \in Nat, j < i
  PROVE  ChipAt(Stored(old, j, n, chip), i, n) = ChipAt(old, i, n)
<1> DEFINE from == j * n
           to == Least(from + n, size * BITS_IN_BYTE)
           new == Stored(old, j, n, chip)
           f == i * n
           t == Least((i + 1) * n, size * BITS_IN_BYTE)
<1>1. from \in Nat /\ to \in Nat /\ f \in Nat /\ t \in Nat /\ to <= f
  <2>1. from \in Nat /\ f \in Nat /\ from + n <= f /\ (i + 1) * n = f + n
    BY Positions
  <2> HIDE DEF from, f
  <2> QED
    BY <2>1 DEF Least, BITS_IN_BYTE
<1>2. new = (old \ from..(to - 1)) \cup {from + b : b \in Slice(chip, 0, to - from)}
  BY DEF Stored
<1> HIDE DEF from, to, new, f, t
<1>3. \A b \in Slice(chip, 0, to - from) : from + b \notin f..(t - 1)
  BY <1>1 DEF Slice
<1>4. \A b \in f..(t - 1) : b \notin from..(to - 1)
  BY <1>1
<1>5. new \cap f..(t - 1) = old \cap f..(t - 1)
  BY <1>2, <1>3, <1>4
<1>6. Slice(new, f, t) = Slice(old, f, t)
  BY <1>5 DEF Slice
<1> QED
  BY <1>6 DEF ChipAt, f, t, new

-----------------------------------------------------------------------------
(* The way of a message.                                                   *)

\* The bits of a unit.
unit_bits == encode_ability(ikb)

\* Chip i as it is encoded, as it arrives and as it is restored, and the unit that
\* it is read as.
Encoded(i) == Cut(codes[ikb][Sent(i)], len)
Arrived(i) == ChipOf(noised_code, i, len)
Repaired(i) == Restored(ikb, len, Arrived(i))
Read(i) == DecodedUnit(ikb, len, Repaired(i))

Chips == 0..(tx_chips - 1)

\* The loop of ikb_encode writes chip by chip what has to be there. If its counter
\* wraps around, it writes the same again.
Encoding ==
  /\ pc = "idle" => chip_id = 0
  /\ pc = "encode" => \A i \in Chips :
       /\ ChipOf(code, i, len) \subseteq Encoded(i)
       /\ i < chip_id => ChipOf(code, i, len) = Encoded(i)
  /\ pc \notin {"idle", "encode"} =>
       \A i \in Chips : ChipOf(code, i, len) = Encoded(i)

\* What arrives, while the settings of both sides agree,
Arrival == pc = "arrived" /\ Agreed => \A i \in Chips : ChipAt(buffer, i, len) = Arrived(i)

\* is restored chip by chip by the loop of ikb_noise_restore. With 256 chips and
\* more it does not end.
Restoration ==
  /\ pc = "restore" /\ Agreed /\ chips_num <= 255 => \A i \in Chips :
       ChipAt(buffer, i, len) = IF i < chip_id THEN Repaired(i) ELSE Arrived(i)
  /\ pc \in {"restored", "sized", "decode"} /\ Agreed =>
       /\ RxChips(size, len) <= 254
       /\ \A i \in Chips : ChipAt(buffer, i, len) = Repaired(i)
  /\ pc \in {"restored", "sized"} => chip_id = 0

\* The positions in the text of the unit of chip i, and what is written there.
Place(i) == (i * unit_bits)..(Least(i * unit_bits + unit_bits, msg_size * BITS_IN_BYTE) - 1)
Written(i) ==
  text \cap Place(i) = BitsOf(Read(i), i * unit_bits,
                             Least(i * unit_bits + unit_bits, msg_size * BITS_IN_BYTE))

\* The loop of ikb_decode writes unit by unit.
Decoding ==
  /\ pc = "decode" /\ Agreed =>
       /\ msg_size = MsgBytes(size, unit_bits, len)
       /\ text \subseteq 0..(chip_id * unit_bits - 1)
       /\ \A i \in Chips : i < chip_id => Written(i)
  /\ Decoded /\ Agreed =>
       /\ msg_size = MsgBytes(size, unit_bits, len)
       /\ RxChips(size, len) <= 254
       /\ \A i \in Chips : Written(i)

MessageInv == TypeInv /\ ReaderInv /\ Encoding /\ Arrival /\ Restoration /\ Decoding

\* What is used of the settings of the sender.
LEMMA SenderNumbers ==
  ASSUME Numbers
  PROVE  /\ unit_bits \in 2..4 /\ len \in Nat \ {0} /\ tx_chips \in Nat /\ code_size \in Nat
         /\ msg_bits \in Nat
         /\ \A i \in Chips : i \in Nat /\ i < tx_chips /\ i * len \in Nat
                             /\ i * len + len <= code_size * BITS_IN_BYTE
<1>1. unit_bits \in 2..4 /\ len \in Nat \ {0} /\ msg.size \in Nat
  BY AbilityType, SumType DEF Numbers, unit_bits, len, CuttedLen
<1>2. tx_chips \in Nat /\ code_size \in Nat
        /\ \A i \in Nat : i < tx_chips => i * len + len <= code_size * BITS_IN_BYTE
  <2>1. CASE msg.size = 0
    BY <2>1, CodeBounds DEF tx_chips, TxChips
  <2>2. CASE msg.size # 0
    BY <1>1, <2>2, ChipsCover, CodeBounds DEF tx_chips, unit_bits
  <2> QED
    BY <2>1, <2>2
<1>3. msg_bits \in Nat
  BY <1>1 DEF msg_bits, BITS_IN_BYTE
<1>4. ASSUME NEW i \in Chips PROVE i \in Nat /\ i < tx_chips /\ i * len \in Nat
  BY <1>1, <1>2, <1>4 DEF Chips
<1> QED
  BY <1>1, <1>2, <1>3, <1>4

\* The chips of the sender are the same while its settings are.
LEMMA SenderStays ==
  ASSUME UNCHANGED <<ikb, cut, msg>>
  PROVE  /\ len' = len /\ tx_chips' = tx_chips /\ code_size' = code_size /\ unit_bits' = unit_bits
         /\ msg_bits' = msg_bits /\ Chips' = Chips
         /\ \A i \in Nat : Encoded(i)' = Encoded(i)
  BY DEF len, tx_chips, code_size, unit_bits, msg_bits, Chips, Encoded, Sent

-----------------------------------------------------------------------------
(* The sender.                                                             *)

LEMMA EncodingInit == ASSUME Init PROVE Encoding
  BY DEF Init, Encoding

LEMMA EncodingStays ==
  ASSUME Encoding, UNCHANGED <<ikb, cut, msg, code>>,
         \/ pc' = pc /\ chip_id' = chip_id
         \/ pc \notin {"idle", "encode"} /\ pc' \notin {"idle", "encode"},
         Numbers
  PROVE  Encoding'
<1>1. Chips' = Chips /\ len' = len /\ \A i \in Chips : Encoded(i)' = Encoded(i)
  BY SenderStays, SenderNumbers
<1>2. CASE pc' = pc /\ chip_id' = chip_id
  BY <1>1, <1>2 DEF Encoding
<1>3. CASE pc \notin {"idle", "encode"} /\ pc' \notin {"idle", "encode"}
  BY <1>1, <1>3 DEF Encoding
<1> QED
  BY <1>2, <1>3

\* ikb_encode writes the code of the next unit behind the chips that are there.
LEMMA EncodeChipNext ==
  ASSUME TypeInv, ReaderInv, Encoding, EncodeChip
  PROVE  Encoding'
<1>1. Numbers /\ chip_id \in 0..255
  BY DEF ReaderInv, TypeInv, ReceiverType
<1>2. /\ unit_bits \in 2..4 /\ len \in Nat \ {0} /\ tx_chips \in Nat
      /\ Chips' = Chips /\ len' = len /\ \A i \in Chips : i \in Nat /\ i < tx_chips
      /\ \A i \in Nat : Encoded(i)' = Encoded(i)
  BY <1>1, SenderNumbers, SenderStays DEF EncodeChip
<1>3. pc = "encode" /\ pc' = "encode" /\ chip_id < tx_chips /\ chip_id' = NextChip(chip_id)
      /\ code' = code \cup {chip_id * len + b : b \in Encoded(chip_id)}
  <2>1. Least(chip_id * unit_bits + unit_bits, msg_bits) = Least((chip_id + 1) * unit_bits, msg_bits)
    <3>1. (chip_id + 1) * unit_bits = chip_id * unit_bits + unit_bits
      BY <1>1, <1>2, Positions
    <3> QED
      BY <3>1
  <2> QED
    BY <2>1 DEF EncodeChip, Encoded, Sent, unit_bits
<1>4. Encoded(chip_id) \in SUBSET (0..(len - 1))
  BY DEF Encoded, Cut
<1> HIDE DEF len, Chips, Encoded
<1>5. \A i \in Chips : i < chip_id' => i <= chip_id
  <2>1. chip_id' <= chip_id + 1 /\ chip_id' \in Nat
    BY <1>1, <1>3 DEF NextChip, u8
  <2> QED
    BY <1>1, <1>2, <2>1
<1>6. ASSUME NEW i \in Chips
      PROVE  /\ ChipOf(code', i, len) \subseteq Encoded(i)
             /\ i < chip_id' => ChipOf(code', i, len) = Encoded(i)
  <2>1. ChipOf(code', i, len)
          = IF i = chip_id THEN ChipOf(code, i, len) \cup Encoded(chip_id)
                           ELSE ChipOf(code, i, len)
    <3>1. i \in Nat /\ len \in Nat /\ chip_id \in Nat
      BY <1>1, <1>2
    <3>2. ChipOf(Added(code, chip_id, len, Encoded(chip_id)), i, len)
            = IF i = chip_id THEN ChipOf(code, i, len) \cup Encoded(chip_id)
                             ELSE ChipOf(code, i, len)
      BY <1>4, <3>1, AddedSlice
    <3> QED
      BY <1>3, <3>2 DEF Added
  <2>2. /\ ChipOf(code, i, len) \subseteq Encoded(i)
        /\ i < chip_id => ChipOf(code, i, len) = Encoded(i)
    BY <1>3, <1>6 DEF Encoding
  <2>3. i < chip_id' => i < chip_id \/ i = chip_id
    BY <1>1, <1>2, <1>5, <1>6
  <2> QED
    BY <2>1, <2>2, <2>3
<1> QED
  BY <1>2, <1>3, <1>6 DEF Encoding

LEMMA EncodingNext ==
  ASSUME TypeInv, ReaderInv, Encoding, Next
  PROVE  Encoding'
<1>1. Numbers /\ chip_id \in 0..255
  BY DEF ReaderInv, TypeInv, ReceiverType
<1>2. CASE Send
  <2>1. code' = {} /\ chip_id' = 0 /\ pc' = "encode"
    BY <1>2 DEF Send, Goto, TypeInv, Encoding
  <2>2. \A i \in Chips' : ChipOf(code', i, len') = {} /\ ~ (i < chip_id')
    BY <2>1 DEF ChipOf, Slice, Chips
  <2> QED
    BY <2>1, <2>2 DEF Encoding
<1>3. CASE EncodeChip
  BY <1>3, EncodeChipNext
<1>4. CASE EncodeEnd
  <2>1. chip_id >= tx_chips /\ pc = "encode" /\ pc' = "noise" /\ UNCHANGED <<ikb, cut, msg, code>>
    BY <1>4 DEF EncodeEnd, Goto, sender
  <2>2. \A i \in Chips : i < chip_id
    BY <1>1, <2>1, SenderNumbers
  <2>3. \A i \in Chips : ChipOf(code, i, len) = Encoded(i)
    BY <2>1, <2>2 DEF Encoding
  <2>4. Chips' = Chips /\ len' = len /\ \A i \in Chips : Encoded(i)' = Encoded(i)
    BY <1>1, <2>1, SenderStays, SenderNumbers
  <2> QED
    BY <2>1, <2>3, <2>4 DEF Encoding
<1>5. CASE (\E b : NoiseBit(b)) \/ Write \/ ReaderStep \/ Show
  <2>1. pc \notin {"idle", "encode"} /\ pc' \notin {"idle", "encode"} /\ UNCHANGED <<ikb, cut, msg, code>>
    BY <1>5 DEF NoiseBit, Write, Goto, ReaderStep, RestoreCall, RestoreChip, RestoreEnd, SizeCall,
       DecodeCall, DecodeChip, DecodeEnd, Show, sender
  <2> QED
    BY <1>1, <2>1, EncodingStays
<1>6. CASE StartUp \/ CommitCut \/ UpdateCut \/ Change
  <2>1. pc' = pc /\ chip_id' = chip_id /\ UNCHANGED <<ikb, cut, msg, code>>
    BY <1>6 DEF StartUp, CommitCut, UpdateCut, Change, sender
  <2> QED
    BY <1>1, <2>1, EncodingStays
<1> QED
  BY <1>2, <1>3, <1>4, <1>5, <1>6
  DEF Next, SenderStep, MainStep, UserStep, StepCut, TypeCut, ChangeIkb

-----------------------------------------------------------------------------
(* The receiver.                                                           *)

\* All chips that were sent are found.
LEMMA ChipsArrive ==
  ASSUME Numbers, size = code_size
  PROVE  /\ RxChips(size, len) \in Nat
         /\ tx_chips <= RxChips(size, len)
         /\ \A i \in Chips : i < RxChips(size, len)
<1>1. len \in Nat \ {0} /\ tx_chips \in Nat /\ code_size \in Nat
      /\ \A i \in Chips : i \in Nat /\ i < tx_chips
  BY SenderNumbers
<1>2. tx_chips = 0 \/ tx_chips * len < 8 * code_size
  <2>1. CASE msg.size = 0
    BY <2>1 DEF tx_chips, TxChips
  <2>2. CASE msg.size # 0
    <3>1. msg.size \in Nat \ {0} /\ encode_ability(ikb) \in Nat \ {0}
      BY <2>2, AbilityType DEF Numbers
    <3> QED
      BY <1>1, <3>1, BytesCover DEF code_size, tx_chips
  <2> QED
    BY <2>1, <2>2
<1> DEFINE bits == size * BITS_IN_BYTE
           d == bits \div len
<1>3. bits \in Nat /\ bits = 8 * code_size
  BY <1>1 DEF BITS_IN_BYTE
<1>4. RxChips(size, len) = d
  BY DEF RxChips
<1> HIDE DEF bits, len, tx_chips, Chips
<1>5. d \in Nat /\ bits % len \in 0..(len - 1) /\ bits = len * d + (bits % len)
  BY <1>1, <1>3, Division
<1> HIDE DEF d
<1>6. tx_chips <= d
  <2>1. SUFFICES ASSUME d < tx_chips PROVE FALSE
    BY <1>1, <1>5
  <2>2. d * len + len <= tx_chips * len
    BY <1>1, <1>5, <2>1, Positions
  <2>3. d * len = len * d /\ d * len \in Nat /\ tx_chips * len \in Nat
    BY <1>1, <1>5
  <2> DEFINE p == d * len
             q == tx_chips * len
  <2>4. p \in Nat /\ q \in Nat /\ p + len <= q /\ bits = p + (bits % len) /\ q < bits
    BY <1>1, <1>2, <1>3, <1>5, <2>1, <2>2, <2>3
  <2> HIDE DEF p, q
  <2> QED
    BY <1>1, <1>5, <2>4
<1> QED
  BY <1>1, <1>4, <1>5, <1>6

\* The chips are the same as long as the sender does nothing, and while the receiver's
\* settings are, the two sides agree as they did.
LEMMA WayStays ==
  ASSUME UNCHANGED sender
  PROVE  /\ len' = len /\ code_size' = code_size /\ unit_bits' = unit_bits /\ Chips' = Chips
         /\ \A i \in Nat : /\ Arrived(i)' = Arrived(i)
                           /\ Repaired(i)' = Repaired(i)
                           /\ Read(i)' = Read(i)
         /\ UNCHANGED <<size, active, cutted, moved>> => Agreed' = Agreed
<1>1. UNCHANGED <<ikb, cut, msg, code, flipped>>
  BY DEF sender
<1>2. len' = len /\ code_size' = code_size /\ unit_bits' = unit_bits /\ Chips' = Chips
  BY <1>1, SenderStays
<1>3. \A i \in Nat : Arrived(i)' = Arrived(i)
  BY <1>1, <1>2 DEF Arrived, noised_code
<1>4. \A i \in Nat : Repaired(i)' = Repaired(i)
  BY <1>1, <1>2, <1>3 DEF Repaired
<1>5. \A i \in Nat : Read(i)' = Read(i)
  BY <1>1, <1>2, <1>4 DEF Read
<1>6. UNCHANGED <<size, active, cutted, moved>> => Agreed' = Agreed
  BY <1>1, <1>2 DEF Agreed
<1> QED
  BY <1>2, <1>3, <1>4, <1>5, <1>6

\* All chips arrive in a buffer that is as long as the code.
LEMMA ArrivalNext ==
  ASSUME MessageInv, Next
  PROVE  Arrival'
<1>0. Numbers
  BY DEF MessageInv, ReaderInv
<1>1. CASE Write
  <2>1. SUFFICES ASSUME pc' = "arrived", Agreed', NEW i \in Chips'
        PROVE  ChipAt(buffer, i, len)' = Arrived(i)'
    BY DEF Arrival
  <2>2. UNCHANGED sender /\ size' = u8(code_size)
        /\ buffer' = Slice(noised_code, 0, size' * BITS_IN_BYTE)
    BY <1>1, <2>1 DEF Write, Goto
  <2>3. size' = code_size /\ i \in Chips /\ len' = len /\ i \in Nat /\ i * len \in Nat
        /\ len \in Nat \ {0} /\ code_size \in Nat /\ i * len + len <= code_size * BITS_IN_BYTE
        /\ Arrived(i)' = Arrived(i)
    BY <1>0, <2>1, <2>2, WayStays, SenderNumbers DEF Agreed
  <2>4. ChipAt(buffer, i, len)' = ChipOf(buffer', i, len)
    <3>1. (i + 1) * len = i * len + len
      BY <2>3, Positions
    <3>2. Least((i + 1) * len, code_size * BITS_IN_BYTE) = i * len + len
      BY <2>3, <3>1 DEF Least, BITS_IN_BYTE
    <3> QED
      BY <2>3, <3>2 DEF ChipAt, ChipOf, Least, BITS_IN_BYTE
  <2>5. ChipOf(buffer', i, len) = ChipOf(noised_code, i, len)
    <3>1. code_size * BITS_IN_BYTE \in Nat /\ buffer' = Slice(noised_code, 0, code_size * BITS_IN_BYTE)
      BY <2>2, <2>3 DEF BITS_IN_BYTE
    <3> DEFINE m == code_size * BITS_IN_BYTE
               a == i * len
    <3>2. m \in Nat /\ a \in Nat /\ len \in Nat /\ a + len <= m
      BY <2>3, <3>1
    <3> HIDE DEF m, a
    <3>3. Slice(Slice(noised_code, 0, m), a, a + len) = Slice(noised_code, a, a + len)
      BY <3>2, SliceSlice
    <3> QED
      BY <3>1, <3>3 DEF m, a, ChipOf
  <2> QED
    BY <2>3, <2>4, <2>5 DEF Arrived
<1>2. CASE UNCHANGED <<sender, pc, buffer, size, active, cutted, moved>>
  <2>1. SUFFICES ASSUME pc' = "arrived", Agreed', NEW i \in Chips'
        PROVE  ChipAt(buffer, i, len)' = Arrived(i)'
    BY DEF Arrival
  <2>2. Agreed' = Agreed /\ len' = len /\ Chips' = Chips /\ \A j \in Nat : Arrived(j)' = Arrived(j)
    BY <1>2, WayStays
  <2>3. i \in Nat /\ ChipAt(buffer, i, len) = Arrived(i)
    BY <1>0, <1>2, <2>1, <2>2, SenderNumbers DEF MessageInv, Arrival
  <2> QED
    BY <1>2, <2>2, <2>3 DEF ChipAt
<1>3. CASE Change \/ UpdateCut
  BY <1>3 DEF Change, UpdateCut, Arriving, Arrival, Agreed
<1>4. CASE StartUp \/ CommitCut
  BY <1>2, <1>4 DEF StartUp, CommitCut, sender, settings
<1>5. CASE (SenderStep /\ ~ Write) \/ ReaderStep \/ Show \/ Send
  <2>1. pc' # "arrived"
    BY <1>5 DEF SenderStep, EncodeChip, EncodeEnd, NoiseBit, Goto, ReaderStep, RestoreCall,
       RestoreChip, RestoreEnd, SizeCall, DecodeCall, DecodeChip, DecodeEnd, Show, Send
  <2> QED
    BY <2>1 DEF Arrival
<1> QED
  BY <1>1, <1>3, <1>4, <1>5 DEF Next, MainStep, UserStep, StepCut, TypeCut, ChangeIkb

\* A step of the receiver that leaves the buffer and the settings alone.
LEMMA RestorationStays ==
  ASSUME Numbers, UNCHANGED <<sender, buffer, size, active, cutted, moved>>
  PROVE  /\ Agreed' = Agreed /\ RxChips(size, len)' = RxChips(size, len)
         /\ (\A i \in Chips : ChipAt(buffer, i, len) = Repaired(i))' =
              (\A i \in Chips : ChipAt(buffer, i, len) = Repaired(i))
<1>1. /\ Agreed' = Agreed /\ len' = len /\ Chips' = Chips
      /\ \A i \in Nat : Repaired(i)' = Repaired(i)
  BY WayStays
<1>2. \A i \in Chips : i \in Nat
  BY SenderNumbers
<1>3. \A i \in Chips : ChipAt(buffer, i, len)' = ChipAt(buffer, i, len)
  BY <1>1 DEF ChipAt
<1> QED
  BY <1>1, <1>2, <1>3

\* While the settings agree, ikb_noise_restore works on the bundle and on the chips
\* that were sent, and so does ikb_decode.
LEMMA SameChips ==
  ASSUME MessageInv, Agreed
  PROVE  /\ active = ikb /\ cutted[active] = len /\ size = code_size /\ ~ moved
         /\ pc = "restore" => used = ikb /\ chips_num = RxChips(size, len) + 1
         /\ pc = "decode" => used = ikb /\ chips_num = RxChips(size, len)
<1>1. active = ikb /\ cutted[active] = len /\ size = code_size /\ ~ moved
  BY DEF Agreed
<1>2. Restoring /\ Numbers
  BY <1>1 DEF MessageInv, ReaderInv
<1>3. RestoredChips(size, len) = RxChips(size, len) + 1
  BY DEF RestoredChips, RxChips
<1> QED
  BY <1>1, <1>2, <1>3 DEF Restoring

LEMMA RestoreChipNext ==
  ASSUME MessageInv, RestoreChip
  PROVE  Restoration'
<1>0. /\ Numbers /\ chip_id \in 0..255 /\ pc = "restore" /\ pc' = "restore"
      /\ UNCHANGED <<sender, size, active, cutted, moved, used, chips_num>>
      /\ chip_id' = NextChip(chip_id) /\ chip_id < chips_num
  BY DEF MessageInv, ReaderInv, TypeInv, ReceiverType, RestoreChip, settings
<1>1. SUFFICES ASSUME Agreed, chips_num <= 255, NEW i \in Chips
      PROVE  ChipAt(buffer', i, len) = IF i < chip_id' THEN Repaired(i) ELSE Arrived(i)
  <2>1. Agreed' = Agreed /\ chips_num' = chips_num /\ len' = len /\ Chips' = Chips
        /\ \A i \in Nat : Repaired(i)' = Repaired(i) /\ Arrived(i)' = Arrived(i)
    BY <1>0, WayStays
  <2>2. \A i \in Chips : i \in Nat /\ ChipAt(buffer, i, len)' = ChipAt(buffer', i, len)
    BY <1>0, <2>1, SenderNumbers DEF ChipAt
  <2> QED
    BY <1>0, <1>1, <2>1, <2>2 DEF Restoration
<1>2. /\ used = ikb /\ cutted[used] = len /\ size = code_size /\ chips_num = RxChips(size, len) + 1
      /\ len \in Nat \ {0} /\ size \in Nat /\ i \in Nat /\ i < RxChips(size, len)
      /\ RxChips(size, len) \in Nat
  BY <1>0, <1>1, SameChips, SenderNumbers, ChipsArrive
<1>3. ChipAt(buffer, i, len) = IF i < chip_id THEN Repaired(i) ELSE Arrived(i)
  BY <1>0, <1>1 DEF MessageInv, Restoration
<1>4. chip_id' = chip_id + 1
  BY <1>0, <1>1, <1>2 DEF NextChip, u8
<1> DEFINE chip == Restored(ikb, len, ChipAt(buffer, chip_id, len))
<1>5. buffer' = Stored(buffer, chip_id, len, chip)
  BY <1>2 DEF RestoreChip, Stored
<1>6. chip \in SUBSET (0..(len - 1))
  BY <1>0, <1>2, ChipType, RestoredIsDecodable DEF Numbers
<1>7. i = chip_id => chip = Repaired(i)
  BY <1>0, <1>3 DEF Repaired
<1> HIDE DEF chip, len, Chips
<1>8. /\ \A j \in Nat : j < chip_id => ChipAt(buffer', j, len) = ChipAt(buffer, j, len)
      /\ chip_id < RxChips(size, len) => ChipAt(buffer', chip_id, len) = chip
  <2>1. chip_id \in Nat /\ size \in Nat
    BY <1>0, <1>2
  <2>2. len \in Nat \ {0} /\ chip \in SUBSET (0..(len - 1))
    BY <1>2, <1>6
  <2>3. /\ \A j \in Nat : j < chip_id =>
              ChipAt(Stored(buffer, chip_id, len, chip), j, len) = ChipAt(buffer, j, len)
        /\ chip_id < RxChips(size, len) =>
              ChipAt(Stored(buffer, chip_id, len, chip), chip_id, len) = chip
    BY <2>1, <2>2, StoredChip
  <2> QED
    BY <1>5, <2>3
<1>9. CASE i < chip_id
  BY <1>0, <1>2, <1>3, <1>4, <1>8, <1>9
<1>10. CASE i = chip_id
  BY <1>0, <1>2, <1>4, <1>7, <1>8, <1>10
<1>11. CASE i > chip_id
  <2>1. ChipAt(buffer', i, len) = ChipAt(buffer, i, len)
    BY <1>0, <1>2, <1>5, <1>6, <1>11, StoredLater
  <2> QED
    BY <1>0, <1>2, <1>3, <1>4, <1>11, <2>1
<1> QED
  BY <1>0, <1>2, <1>9, <1>10, <1>11

\* What has arrived is restored chip by chip, and stays as it was restored.
LEMMA RestorationNext ==
  ASSUME MessageInv, Next
  PROVE  Restoration'
<1>0. Numbers /\ chip_id \in 0..255 /\ Fresh /\ Restoration
  BY DEF MessageInv, ReaderInv, TypeInv, ReceiverType
<1>1. CASE RestoreCall
  <2>1. CASE pc' # "restore"
    BY <1>1, <2>1 DEF RestoreCall, Goto, Restoration
  <2>2. CASE pc' = "restore"
    <3>1. pc = "arrived" /\ chip_id' = 0
          /\ UNCHANGED <<sender, buffer, size, active, cutted, moved>>
      BY <1>0, <1>1, <2>2 DEF RestoreCall, Goto, Fresh, settings
    <3>2. Agreed' = Agreed /\ len' = len /\ Chips' = Chips
          /\ \A i \in Nat : Repaired(i)' = Repaired(i) /\ Arrived(i)' = Arrived(i)
      BY <3>1, WayStays
    <3>3. ASSUME Agreed, NEW i \in Chips
          PROVE  i \in Nat /\ ~ (i < chip_id') /\ ChipAt(buffer, i, len)' = Arrived(i)
      <4>1. i \in Nat /\ ChipAt(buffer, i, len) = Arrived(i)
        BY <1>0, <3>1, <3>3, SenderNumbers DEF MessageInv, Arrival
      <4> QED
        BY <3>1, <3>2, <4>1 DEF ChipAt
    <3> QED
      BY <2>2, <3>2, <3>3 DEF Restoration
  <2> QED
    BY <2>1, <2>2
<1>2. CASE RestoreChip
  BY <1>2, RestoreChipNext
<1>3. CASE RestoreEnd
  <2>1. pc = "restore" /\ pc' = "restored" /\ chip_id >= chips_num /\ chip_id' = 0
        /\ UNCHANGED <<sender, buffer, size, active, cutted, moved>>
    BY <1>3 DEF RestoreEnd, Goto, settings
  <2>2. ASSUME Agreed
        PROVE  RxChips(size, len) <= 254 /\ \A i \in Chips : ChipAt(buffer, i, len) = Repaired(i)
    <3>1. chips_num = RxChips(size, len) + 1 /\ RxChips(size, len) \in Nat
          /\ \A i \in Chips : i \in Nat /\ i < RxChips(size, len)
      BY <1>0, <2>1, <2>2, SameChips, ChipsArrive, SenderNumbers
    <3>2. chips_num <= 255 /\ RxChips(size, len) <= 254 /\ \A i \in Chips : i < chip_id
      BY <1>0, <2>1, <3>1
    <3> QED
      BY <1>0, <2>1, <2>2, <3>2 DEF Restoration
  <2>3. /\ Agreed' = Agreed /\ RxChips(size, len)' = RxChips(size, len)
        /\ (\A i \in Chips : ChipAt(buffer, i, len) = Repaired(i))' =
             (\A i \in Chips : ChipAt(buffer, i, len) = Repaired(i))
    BY <1>0, <2>1, RestorationStays
  <2> QED
    BY <2>1, <2>2, <2>3 DEF Restoration
<1>4. CASE SizeCall \/ DecodeCall \/ DecodeChip
  <2>1. /\ UNCHANGED <<sender, buffer, size, active, cutted, moved>>
        /\ pc \in {"restored", "sized", "decode"} /\ pc' \in {"sized", "decode", "failed"}
        /\ pc' = "sized" => chip_id' = chip_id /\ pc = "restored"
    BY <1>4 DEF SizeCall, DecodeCall, DecodeChip, Goto, settings
  <2>2. /\ Agreed' = Agreed /\ RxChips(size, len)' = RxChips(size, len)
        /\ (\A i \in Chips : ChipAt(buffer, i, len) = Repaired(i))' =
             (\A i \in Chips : ChipAt(buffer, i, len) = Repaired(i))
    BY <1>0, <2>1, RestorationStays
  <2> QED
    BY <1>0, <2>1, <2>2 DEF Restoration
<1>5. CASE StartUp \/ CommitCut
  <2>1. UNCHANGED <<sender, buffer, size, active, cutted, moved, pc, chip_id, chips_num>>
    BY <1>5 DEF StartUp, CommitCut, settings
  <2>2. /\ Agreed' = Agreed /\ RxChips(size, len)' = RxChips(size, len)
        /\ (\A i \in Chips : ChipAt(buffer, i, len) = Repaired(i))' =
             (\A i \in Chips : ChipAt(buffer, i, len) = Repaired(i))
    BY <1>0, <2>1, RestorationStays
  <2>3. len' = len /\ Chips' = Chips
        /\ \A i \in Nat : Repaired(i)' = Repaired(i) /\ Arrived(i)' = Arrived(i)
    BY <2>1, WayStays
  <2>4. \A i \in Chips : i \in Nat /\ ChipAt(buffer, i, len)' = ChipAt(buffer, i, len)
    BY <1>0, <2>1, <2>3, SenderNumbers DEF ChipAt
  <2> QED
    BY <1>0, <2>1, <2>2, <2>3, <2>4 DEF Restoration
<1>6. CASE Change \/ UpdateCut
  <2>1. pc' = pc /\ chip_id' = chip_id /\ (moved' \/ pc \in {"idle", "encode", "noise"})
    BY <1>6 DEF Change, UpdateCut, Arriving
  <2> QED
    BY <1>0, <2>1 DEF Restoration, Agreed
<1>7. CASE SenderStep \/ DecodeEnd \/ Show \/ Send
  <2>1. pc' \notin {"restore", "restored", "sized", "decode"}
    BY <1>7 DEF SenderStep, EncodeChip, EncodeEnd, NoiseBit, Write, DecodeEnd, Show, Send, Goto
  <2> QED
    BY <2>1 DEF Restoration
<1> QED
  BY <1>1, <1>2, <1>3, <1>4, <1>5, <1>6, <1>7
  DEF Next, ReaderStep, MainStep, UserStep, StepCut, TypeCut, ChangeIkb

\* Units that are apart are at places that are.
LEMMA PlacesApart ==
  ASSUME NEW n \in Nat \ {0}, NEW i \in Nat, NEW j \in Nat, i < j, NEW m \in Nat
  PROVE  /\ i * n \in Nat /\ j * n \in Nat /\ (j + 1) * n = j * n + n
         /\ \A b \in (i * n)..(Least(i * n + n, m) - 1) : b < j * n
<1>1. i * n \in Nat /\ j * n \in Nat /\ (j + 1) * n = j * n + n /\ i * n + n <= j * n
  BY Positions
<1> DEFINE p == i * n
           q == j * n
<1>2. p \in Nat /\ q \in Nat /\ p + n <= q
  BY <1>1
<1> HIDE DEF p, q
<1>3. \A b \in p..(Least(p + n, m) - 1) : b < q
  BY <1>2 DEF Least
<1> QED
  BY <1>1, <1>3 DEF p, q

\* ikb_decode writes the unit of the next chip behind the bits that are there.
LEMMA DecodeChipNext ==
  ASSUME MessageInv, DecodeChip, pc' = pc, Agreed
  PROVE  /\ pc = "decode" /\ Agreed' = Agreed
         /\ msg_size' = MsgBytes(size, unit_bits, len)
         /\ text' \subseteq 0..(chip_id' * unit_bits - 1)
         /\ \A i \in Chips : i < chip_id' =>
              text' \cap Place(i) = BitsOf(Read(i), i * unit_bits,
                                      Least(i * unit_bits + unit_bits, msg_size * BITS_IN_BYTE))
<1> DEFINE from == chip_id * unit_bits
           to == Least(from + unit_bits, msg_size * BITS_IN_BYTE)
           chip == ChipAt(buffer, chip_id, len)
           unit == DecodedUnit(ikb, len, chip)
<1>1. /\ Numbers /\ chip_id \in 0..255 /\ pc = "decode" /\ chip_id < chips_num
      /\ UNCHANGED <<sender, size, active, cutted, moved, msg_size>>
      /\ chip_id' = NextChip(chip_id)
  BY DEF MessageInv, ReaderInv, TypeInv, ReceiverType, DecodeChip, Goto, settings
<1>2. /\ used = ikb /\ cutted[used] = len /\ chips_num = RxChips(size, len)
      /\ RxChips(size, len) <= 254 /\ RxChips(size, len) \in Nat
      /\ msg_size = MsgBytes(size, unit_bits, len)
      /\ text \subseteq 0..(from - 1)
      /\ \A i \in Chips : /\ ChipAt(buffer, i, len) = Repaired(i)
                          /\ i < chip_id => Written(i)
  BY <1>1, SameChips, ChipsArrive DEF MessageInv, Restoration, Decoding
<1>3. text' = text \cup BitsOf(unit, from, to)
  BY <1>1, <1>2 DEF DecodeChip, Goto, unit_bits
<1>4. unit_bits \in Nat \ {0} /\ msg_size * BITS_IN_BYTE \in Nat /\ \A i \in Chips : i \in Nat
  BY <1>1, SenderNumbers DEF Numbers, BITS_IN_BYTE
<1>5. chip_id' = chip_id + 1
  BY <1>1, <1>2 DEF NextChip, u8
<1>6. Agreed' = Agreed
  BY <1>1, WayStays
<1>7. from \in Nat /\ chip_id' * unit_bits = from + unit_bits
  BY <1>1, <1>4, <1>5, Positions
<1>8. to <= from + unit_bits /\ to \in Nat
  <2> HIDE DEF from
  <2> QED
    BY <1>4, <1>7 DEF Least
<1>9. \A i \in Chips : i = chip_id => unit = Read(i)
  BY <1>2 DEF Read
<1> HIDE DEF from, to, unit, chip, Chips, unit_bits, len
<1>10. BitsOf(unit, from, to) \subseteq from..(to - 1)
  BY DEF BitsOf
<1>11. text' \subseteq 0..(chip_id' * unit_bits - 1)
  <2>1. \A b \in text : b \in 0..((from + unit_bits) - 1)
    BY <1>2, <1>4, <1>7
  <2>2. \A b \in BitsOf(unit, from, to) : b \in 0..((from + unit_bits) - 1)
    BY <1>4, <1>7, <1>8, <1>10
  <2> QED
    BY <1>3, <1>7, <2>1, <2>2
<1>12. ASSUME NEW i \in Chips, i < chip_id
       PROVE  text' \cap Place(i) = text \cap Place(i)
  <2>1. \A b \in Place(i) : b < from
    <3> DEFINE m == msg_size * BITS_IN_BYTE
    <3>1. m \in Nat /\ i \in Nat /\ chip_id \in Nat
      BY <1>1, <1>4
    <3> HIDE DEF m
    <3>2. \A b \in (i * unit_bits)..(Least(i * unit_bits + unit_bits, m) - 1) : b < chip_id * unit_bits
      BY <1>4, <1>12, <3>1, PlacesApart
    <3> QED
      BY <3>2 DEF Place, from, m
  <2>2. \A b \in BitsOf(unit, from, to) : ~ (b < from)
    BY <1>7, <1>8, <1>10
  <2> QED
    BY <1>3, <2>1, <2>2
<1>13. ASSUME NEW i \in Chips, i = chip_id
       PROVE  text' \cap Place(i) = BitsOf(Read(i), from, to)
  <2>1. Place(i) = from..(to - 1)
    BY <1>13 DEF Place, from, to
  <2>2. \A b \in text : b \notin from..(to - 1)
    BY <1>2, <1>7, <1>8
  <2>3. unit = Read(i)
    BY <1>9, <1>13
  <2> QED
    BY <1>3, <1>10, <2>1, <2>2, <2>3
<1>14. ASSUME NEW i \in Chips, i < chip_id'
       PROVE  text' \cap Place(i) = BitsOf(Read(i), i * unit_bits,
                                      Least(i * unit_bits + unit_bits, msg_size * BITS_IN_BYTE))
  <2>1. i < chip_id \/ i = chip_id
    BY <1>1, <1>4, <1>5, <1>14
  <2>2. CASE i < chip_id
    BY <1>2, <1>12, <1>14, <2>2 DEF Written
  <2>3. CASE i = chip_id
    BY <1>13, <1>14, <2>3 DEF from, to
  <2> QED
    BY <2>1, <2>2, <2>3
<1> QED
  BY <1>1, <1>2, <1>6, <1>11, <1>14

\* What is written does not change as long as the text and the settings do not.
LEMMA DecodingStays ==
  ASSUME Numbers, UNCHANGED <<sender, size, active, cutted, moved, msg_size, text>>
  PROVE  /\ Agreed' = Agreed /\ RxChips(size, len)' = RxChips(size, len) /\ Chips' = Chips
         /\ unit_bits' = unit_bits /\ MsgBytes(size, unit_bits, len)' = MsgBytes(size, unit_bits, len)
         /\ \A i \in Chips : i \in Nat /\ Written(i)' = Written(i)
<1>1. /\ Agreed' = Agreed /\ len' = len /\ Chips' = Chips /\ unit_bits' = unit_bits
      /\ \A i \in Nat : Read(i)' = Read(i)
  BY WayStays
<1>2. \A i \in Chips : i \in Nat
  BY SenderNumbers
<1>3. \A i \in Nat : Place(i)' = Place(i)
  BY <1>1 DEF Place
<1>4. \A i \in Nat : Written(i)' = Written(i)
  BY <1>1, <1>3 DEF Written
<1> QED
  BY <1>1, <1>2, <1>4

\* The units are written one by one, and stay as they were written.
LEMMA DecodingNext ==
  ASSUME MessageInv, Next
  PROVE  Decoding'
<1>0. Numbers /\ chip_id \in 0..255 /\ Fresh /\ Restoration /\ Decoding
  BY DEF MessageInv, ReaderInv, TypeInv, ReceiverType
<1>1. CASE DecodeCall
  <2>1. /\ pc = "sized" /\ pc' = "decode" /\ chip_id' = 0 /\ text' = {}
        /\ UNCHANGED <<sender, size, active, cutted, moved>>
        /\ msg_size' = MsgBytes(size, encode_ability(active), cutted[active])
    BY <1>0, <1>1 DEF DecodeCall, Goto, Fresh, Restoration, settings, results
  <2>2. Agreed' = Agreed /\ unit_bits' = unit_bits /\ len' = len /\ Chips' = Chips
    BY <2>1, WayStays
  <2>3. \A i \in Chips : ~ (i < chip_id')
    BY <1>0, <2>1, SenderNumbers
  <2>4. Agreed => msg_size' = MsgBytes(size, unit_bits, len)
    BY <2>1 DEF Agreed, unit_bits
  <2> QED
    BY <2>1, <2>2, <2>3, <2>4 DEF Decoding, Decoded
<1>2. CASE DecodeChip
  <2>1. CASE pc' # pc
    BY <1>2, <2>1 DEF DecodeChip, Goto, Decoding, Decoded
  <2>2. CASE pc' = pc
    <3>1. UNCHANGED <<sender, size, active, cutted, moved, msg_size>> /\ pc' = "decode"
      BY <1>2, <2>2 DEF DecodeChip, Goto, settings
    <3>2. /\ Agreed' = Agreed /\ unit_bits' = unit_bits /\ len' = len /\ Chips' = Chips
          /\ \A i \in Nat : Read(i)' = Read(i)
      BY <3>1, WayStays
    <3>3. \A i \in Chips : i \in Nat /\ Place(i)' = Place(i)
      BY <1>0, <3>1, <3>2, SenderNumbers DEF Place
    <3>4. Agreed => /\ msg_size' = MsgBytes(size, unit_bits, len)
                    /\ text' \subseteq 0..(chip_id' * unit_bits - 1)
                    /\ \A i \in Chips : i < chip_id' => Written(i)'
      <4>1. SUFFICES ASSUME Agreed
            PROVE  /\ msg_size' = MsgBytes(size, unit_bits, len)
                   /\ text' \subseteq 0..(chip_id' * unit_bits - 1)
                   /\ \A i \in Chips : i < chip_id' => Written(i)'
        OBVIOUS
      <4>2. /\ msg_size' = MsgBytes(size, unit_bits, len)
            /\ text' \subseteq 0..(chip_id' * unit_bits - 1)
            /\ \A i \in Chips : i < chip_id' =>
                 text' \cap Place(i) = BitsOf(Read(i), i * unit_bits,
                                         Least(i * unit_bits + unit_bits, msg_size * BITS_IN_BYTE))
        BY <1>2, <2>2, <4>1, DecodeChipNext
      <4> QED
        BY <3>1, <3>2, <3>3, <4>2 DEF Written
    <3> QED
      BY <3>1, <3>2, <3>4 DEF Decoding, Decoded
  <2> QED
    BY <2>1, <2>2
<1>3. CASE DecodeEnd
  <2>1. pc = "decode" /\ pc' = "posted" /\ chip_id >= chips_num
        /\ UNCHANGED <<sender, size, active, cutted, moved, msg_size, text>>
    BY <1>3 DEF DecodeEnd, Goto, settings
  <2>2. /\ Agreed' = Agreed /\ RxChips(size, len)' = RxChips(size, len) /\ Chips' = Chips
        /\ unit_bits' = unit_bits /\ MsgBytes(size, unit_bits, len)' = MsgBytes(size, unit_bits, len)
        /\ \A i \in Chips : i \in Nat /\ Written(i)' = Written(i)
    BY <1>0, <2>1, DecodingStays
  <2>3. ASSUME Agreed
        PROVE  /\ msg_size = MsgBytes(size, unit_bits, len) /\ RxChips(size, len) <= 254
               /\ \A i \in Chips : Written(i)
    <3>1. chips_num = RxChips(size, len) /\ RxChips(size, len) \in Nat
          /\ \A i \in Chips : i \in Nat /\ i < RxChips(size, len)
      BY <1>0, <2>1, <2>3, SameChips, ChipsArrive, SenderNumbers
    <3>2. \A i \in Chips : i < chip_id
      BY <1>0, <2>1, <3>1
    <3> QED
      BY <1>0, <2>1, <2>3, <3>2 DEF Decoding, Restoration
  <2> QED
    BY <2>1, <2>2, <2>3 DEF Decoding, Decoded
<1>4. CASE StartUp \/ CommitCut \/ Show
  <2>1. /\ UNCHANGED <<sender, size, active, cutted, moved, msg_size, text, chip_id>>
        /\ pc' = pc \/ (pc = "posted" /\ pc' = "shown")
    BY <1>4 DEF StartUp, CommitCut, Show, Goto, settings, results
  <2>2. /\ Agreed' = Agreed /\ RxChips(size, len)' = RxChips(size, len) /\ Chips' = Chips
        /\ unit_bits' = unit_bits /\ MsgBytes(size, unit_bits, len)' = MsgBytes(size, unit_bits, len)
        /\ \A i \in Chips : i \in Nat /\ Written(i)' = Written(i)
    BY <1>0, <2>1, DecodingStays
  <2> QED
    BY <1>0, <2>1, <2>2 DEF Decoding, Decoded
<1>5. CASE Change \/ UpdateCut
  <2>1. pc' = pc /\ (moved' \/ pc \in {"idle", "encode", "noise"})
    BY <1>5 DEF Change, UpdateCut, Arriving
  <2> QED
    BY <2>1 DEF Decoding, Decoded, Agreed
<1>6. CASE SenderStep \/ Send \/ RestoreCall \/ RestoreChip \/ RestoreEnd \/ SizeCall
  <2>1. pc' \notin {"decode", "posted", "shown"}
    BY <1>6 DEF SenderStep, EncodeChip, EncodeEnd, NoiseBit, Write, Send, Goto, RestoreCall,
       RestoreChip, RestoreEnd, SizeCall
  <2> QED
    BY <2>1 DEF Decoding, Decoded
<1> QED
  BY <1>1, <1>2, <1>3, <1>4, <1>5, <1>6
  DEF Next, ReaderStep, MainStep, UserStep, StepCut, TypeCut, ChangeIkb

\* While nothing happens, the message stays where it is.
LEMMA MessageStutters ==
  ASSUME MessageInv, UNCHANGED vars
  PROVE  Encoding' /\ Arrival' /\ Restoration' /\ Decoding'
<1>0. Numbers /\ Encoding /\ Arrival /\ Restoration /\ Decoding
  BY DEF MessageInv, ReaderInv
<1>1. UNCHANGED <<sender, ikb, cut, msg, code, pc, chip_id, buffer, size, active, cutted, moved, msg_size,
                  text, chips_num>>
  BY DEF vars, sender, settings, results
<1>2. Encoding'
  BY <1>0, <1>1, EncodingStays
<1>3. Agreed' = Agreed /\ len' = len /\ Chips' = Chips
      /\ \A i \in Nat : Repaired(i)' = Repaired(i) /\ Arrived(i)' = Arrived(i)
  BY <1>1, WayStays
<1>4. \A i \in Chips : i \in Nat /\ ChipAt(buffer, i, len)' = ChipAt(buffer, i, len)
  BY <1>0, <1>1, <1>3, SenderNumbers DEF ChipAt
<1>5. Arrival'
  BY <1>0, <1>1, <1>3, <1>4 DEF Arrival
<1>6. Restoration'
  <2>1. /\ Agreed' = Agreed /\ RxChips(size, len)' = RxChips(size, len)
        /\ (\A i \in Chips : ChipAt(buffer, i, len) = Repaired(i))' =
             (\A i \in Chips : ChipAt(buffer, i, len) = Repaired(i))
    BY <1>0, <1>1, RestorationStays
  <2> QED
    BY <1>0, <1>1, <1>3, <1>4, <2>1 DEF Restoration
<1>7. Decoding'
  <2>1. /\ Agreed' = Agreed /\ RxChips(size, len)' = RxChips(size, len) /\ Chips' = Chips
        /\ unit_bits' = unit_bits /\ MsgBytes(size, unit_bits, len)' = MsgBytes(size, unit_bits, len)
        /\ \A i \in Chips : i \in Nat /\ Written(i)' = Written(i)
    BY <1>0, <1>1, DecodingStays
  <2> QED
    BY <1>0, <1>1, <2>1 DEF Decoding, Decoded
<1> QED
  BY <1>2, <1>5, <1>6, <1>7

LEMMA MessageInit == ASSUME Init PROVE Encoding /\ Arrival /\ Restoration /\ Decoding
  BY DEF Init, Encoding, Arrival, Restoration, Decoding, Decoded

LEMMA MessageInvariant == Spec => []MessageInv
<1> DEFINE Way == Encoding /\ Arrival /\ Restoration /\ Decoding
<1>1. Init => Way
  BY MessageInit
<1>2. TypeInv /\ ReaderInv /\ Way /\ [Next]_vars => Way'
  <2>1. ASSUME MessageInv, [Next]_vars PROVE Way'
    <3>1. CASE Next
      BY <2>1, <3>1, EncodingNext, ArrivalNext, RestorationNext, DecodingNext DEF MessageInv
    <3>2. CASE UNCHANGED vars
      BY <2>1, <3>2, MessageStutters
    <3> QED
      BY <2>1, <3>1, <3>2
  <2> QED
    BY <2>1 DEF MessageInv
<1>3. TypeInv /\ ReaderInv /\ Way => MessageInv
  BY DEF MessageInv
<1> HIDE DEF Way
<1> QED
  BY <1>1, <1>2, <1>3, TypeInvariant, ReaderInvariant, PTL DEF Spec

-----------------------------------------------------------------------------
(* One chip on its way.                                                    *)

\* The bits in which the chip that arrives differs from the one that was sent are
\* those that noise has turned over.
LEMMA ErrorsAre ==
  ASSUME MessageInv, pc \notin {"idle", "encode"}, NEW i \in Chips
  PROVE  /\ Errors(i) \in Nat /\ Errors(i) = Missed(Encoded(i), Arrived(i))
         /\ Encoded(i) \in SUBSET (0..(len - 1)) /\ Arrived(i) \in SUBSET (0..(len - 1))
<1> DEFINE at == i * len
           F == {x \in 0..(len - 1) : at + x \in flipped}
           G == flipped \cap at..(at + len - 1)
           x0 == Encoded(i)
           y0 == Arrived(i)
<1>1. len \in Nat /\ at \in Nat /\ (i + 1) * len = at + len
  BY SenderNumbers, Positions DEF MessageInv, ReaderInv
<1>2. x0 = {x \in 0..(len - 1) : at + x \in code}
  <2>1. x0 = Slice(code, at, at + len)
    BY DEF MessageInv, Encoding, ChipOf
  <2> HIDE DEF at, x0
  <2> QED
    BY <1>1, <2>1, SliceIs
<1>3. y0 = {x \in 0..(len - 1) : at + x \in noised_code}
  <2>1. y0 = Slice(noised_code, at, at + len)
    BY DEF Arrived, ChipOf
  <2> HIDE DEF at, y0
  <2> QED
    BY <1>1, <2>1, SliceIs
<1>4. Errors(i) = Cardinality(G)
  <2>1. (i + 1) * len - 1 = at + len - 1
    BY <1>1
  <2> QED
    BY <2>1 DEF Errors
<1> HIDE DEF at, x0, y0, len
<1>5. (x0 \ y0) \cup (y0 \ x0) = F
  BY <1>2, <1>3 DEF noised_code
<1>6. G = {at + x : x \in F}
  <2>1. ASSUME NEW g \in G PROVE g \in {at + x : x \in F}
    <3>1. g - at \in F /\ at + (g - at) = g
      BY <1>1
    <3> QED
      BY <3>1
  <2>2. ASSUME NEW x \in F PROVE at + x \in G
    BY <1>1
  <2> HIDE DEF F, G
  <2> QED
    BY <2>1, <2>2
<1>7. IsFiniteSet(F) /\ Cardinality(F) \in Nat
  <2>1. IsFiniteSet(0..(len - 1)) /\ F \in SUBSET (0..(len - 1))
    BY <1>1, FS_Interval
  <2> HIDE DEF F
  <2> QED
    BY <2>1, FS_Subset, FS_CardinalityType
<1>8. Cardinality(G) = Cardinality(F)
  <2> DEFINE f == [x \in F |-> at + x]
  <2>1. \A x \in F : f[x] = at + x
    OBVIOUS
  <2>2. \A x, y \in F : f[x] = f[y] => x = y
    <3>1. \A x, y \in F : x \in Nat /\ y \in Nat
      OBVIOUS
    <3> HIDE DEF F
    <3> QED
      BY <1>1, <3>1
  <2>3. DOMAIN f = F /\ f = [x \in F |-> f[x]]
    OBVIOUS
  <2> HIDE DEF f, F
  <2>4. Cardinality({f[x] : x \in F}) = Cardinality(F)
    BY <1>7, <2>2, <2>3, ImageCard
  <2>5. {f[x] : x \in F} = {at + x : x \in F}
    BY <2>1
  <2> QED
    BY <1>6, <2>4, <2>5
<1>9. x0 \in SUBSET (0..(len - 1)) /\ y0 \in SUBSET (0..(len - 1))
  BY <1>2, <1>3
<1> HIDE DEF F, G
<1> QED
  BY <1>4, <1>5, <1>7, <1>8, <1>9 DEF Missed, x0, y0

LEMMA PowersGrow ==
  ASSUME NEW a \in 0..4, NEW b \in 2..4, a <= b
  PROVE  2^a \in Nat /\ 2^b \in Nat /\ 2^a <= 2^b
<1>1. a = 0 \/ a = 1 \/ a = 2 \/ a = 3 \/ a = 4
  OBVIOUS
<1>2. b = 2 \/ b = 3 \/ b = 4
  OBVIOUS
<1>3. /\ a = 0 => 2^a = 1
      /\ a = 1 => 2^a = 2
      /\ a = 2 => 2^a = 4
      /\ a = 3 => 2^a = 8
      /\ a = 4 => 2^a = 16
  BY Powers
<1>4. /\ b = 2 => 2^b = 4
      /\ b = 3 => 2^b = 8
      /\ b = 4 => 2^b = 16
  BY Powers
<1> DEFINE p == 2^a
           q == 2^b
<1>5. /\ a = 0 => p = 1
      /\ a = 1 => p = 2
      /\ a = 2 => p = 4
      /\ a = 3 => p = 8
      /\ a = 4 => p = 16
      /\ b = 2 => q = 4
      /\ b = 3 => q = 8
      /\ b = 4 => q = 16
  BY <1>3, <1>4
<1> HIDE DEF p, q
<1>6. p \in Nat /\ q \in Nat /\ p <= q
  BY <1>1, <1>2, <1>5
<1> QED
  BY <1>6 DEF p, q

\* Where the unit of chip i stands in the message, and what it is.
LEMMA SentIs ==
  ASSUME Numbers, NEW i \in Chips
  PROVE  /\ i * unit_bits <= msg_bits
         /\ Sent(i) \in 0..(sum(ikb) - 1)
         /\ BitsOf(Sent(i), i * unit_bits, Least(i * unit_bits + unit_bits, msg_bits))
              = msg.bits \cap (i * unit_bits)..(Least(i * unit_bits + unit_bits, msg_bits) - 1)
<1> DEFINE from == i * unit_bits
           to == Least(from + unit_bits, msg_bits)
           m == to - from
           d == msg_bits \div unit_bits
<1>1. /\ ikb \in Ikbs /\ unit_bits \in 2..4 /\ msg_bits \in Nat /\ i \in Nat /\ i < tx_chips /\ from \in Nat
      /\ (i + 1) * unit_bits = from + unit_bits
  BY SenderNumbers, Positions DEF Numbers
<1>2. tx_chips <= d + 1 /\ d \in Nat /\ msg_bits % unit_bits \in Nat
      /\ msg_bits = unit_bits * d + (msg_bits % unit_bits)
  <2>1. unit_bits \in Nat \ {0}
    BY <1>1
  <2>2. d \in Nat /\ msg_bits % unit_bits \in 0..(unit_bits - 1)
        /\ msg_bits = unit_bits * d + (msg_bits % unit_bits)
    BY <1>1, <2>1, Division
  <2>3. tx_chips = IF msg.size > 0 THEN d + 1 ELSE 0
    BY DEF tx_chips, TxChips, msg_bits, unit_bits
  <2> HIDE DEF d
  <2> QED
    BY <1>1, <2>2, <2>3
<1>3. from <= msg_bits
  <2>1. i <= d
    <3> HIDE DEF d
    <3> QED
      BY <1>1, <1>2, SenderNumbers
  <2>2. from <= unit_bits * d
    <3> HIDE DEF d
    <3>1. unit_bits = 2 \/ unit_bits = 3 \/ unit_bits = 4
      BY <1>1
    <3> HIDE DEF unit_bits
    <3> QED
      BY <1>1, <1>2, <2>1, <3>1
  <2>3. unit_bits * d \in Nat
    BY <1>1, <1>2
  <2> HIDE DEF d, from
  <2> QED
    BY <1>1, <1>2, <2>2, <2>3
<1>4. m \in 0..4 /\ m <= unit_bits /\ from + m = to
  <2> HIDE DEF from
  <2> QED
    BY <1>1, <1>3 DEF Least
<1>5. Sent(i) = UnitAt(msg.bits, from, to)
  BY <1>1 DEF Sent, unit_bits
<1>11. to \in Int
  <2> HIDE DEF from
  <2> QED
    BY <1>1 DEF Least
<1> HIDE DEF from, m, to
<1>6. /\ UnitAt(msg.bits, from, from + m) \in 0..(2^m - 1)
      /\ BitsOf(UnitAt(msg.bits, from, from + m), from, from + m) = msg.bits \cap from..(from + m - 1)
  BY <1>1, <1>4, UnitBits
<1>7. 2^m <= sum(ikb) /\ 2^m \in Nat /\ sum(ikb) \in Nat
  <2>1. 2^unit_bits <= sum(ikb) /\ sum(ikb) \in Nat
    BY <1>1, AbilityIs, SumType DEF unit_bits
  <2>3. 2^m \in Nat /\ 2^unit_bits \in Nat /\ 2^m <= 2^unit_bits
    BY <1>1, <1>4, PowersGrow
  <2> QED
    BY <2>1, <2>3
<1>8. Sent(i) \in 0..(sum(ikb) - 1)
  BY <1>4, <1>5, <1>6, <1>7
<1>9. from + m - 1 = to - 1
  BY <1>1, <1>4, <1>11
<1>10. BitsOf(Sent(i), from, to) = msg.bits \cap from..(to - 1)
  BY <1>4, <1>5, <1>6, <1>9
<1> QED
  BY <1>3, <1>8, <1>10 DEF from, to

\* A chip that gets through is read as the unit that was sent.
LEMMA GetsThroughIs ==
  ASSUME MessageInv, pc \notin {"idle", "encode"}, NEW i \in Chips, GetsThrough(i)
  PROVE  Read(i) = Sent(i)
<1> DEFINE u == Sent(i)
<1>1. ikb \in Ikbs /\ u \in 0..(sum(ikb) - 1) /\ len \in Nat
  BY SentIs, SenderNumbers DEF MessageInv, ReaderInv, Numbers
<1>2. /\ Errors(i) \in Nat /\ Errors(i) = Missed(Encoded(i), Arrived(i))
      /\ Encoded(i) \in SUBSET (0..(len - 1)) /\ Arrived(i) \in SUBSET (0..(len - 1))
  BY ErrorsAre
<1>3. Encoded(i) = Cut(codes[ikb][u], len)
  BY DEF Encoded
<1> HIDE DEF u
<1>4. CASE len = sum(ikb) /\ Errors(i) <= err_fixed(ikb) /\ 2 * Errors(i) < distance[ikb]
  <2>1. Encoded(i) = codes[ikb][u]
    BY <1>1, <1>3, <1>4, WholeCode
  <2> DEFINE chip == Arrived(i)
  <2>2. /\ chip \in SUBSET (0..(sum(ikb) - 1)) /\ Missed(codes[ikb][u], chip) <= err_fixed(ikb)
        /\ 2 * Missed(codes[ikb][u], chip) < distance[ikb]
    BY <1>2, <1>4, <2>1
  <2> HIDE DEF chip
  <2>3. Restored(ikb, sum(ikb), chip) = codes[ikb][u]
    BY <1>1, <2>2, Corrected
  <2>4. distance[ikb] > 0
    BY <1>1, <1>2, <1>4, DistanceIs
  <2>5. DecodedUnit(ikb, sum(ikb), codes[ikb][u]) = u
    BY <1>1, <2>4, WholeChip
  <2> QED
    BY <1>4, <2>3, <2>5 DEF Read, Repaired, chip, u
<1>5. CASE /\ Errors(i) = 0
           /\ \A j \in 0..(u - 1) : Cut(codes[ikb][j], len) # Cut(codes[ikb][u], len)
  <2>1. Arrived(i) = Encoded(i)
    <3> DEFINE x == Encoded(i)
               y == Arrived(i)
    <3>1. x \in SUBSET (0..(len - 1)) /\ y \in SUBSET (0..(len - 1)) /\ Missed(x, y) = 0
      BY <1>2, <1>5
    <3> HIDE DEF x, y
    <3>2. Missed(x, y) = 0 => x = y
      BY <1>1, <3>1, MissedSum
    <3> QED
      BY <3>1, <3>2 DEF x, y
  <2> HIDE DEF len
  <2>2. /\ Restored(ikb, len, Cut(codes[ikb][u], len)) = Cut(codes[ikb][u], len)
        /\ DecodedUnit(ikb, len, Cut(codes[ikb][u], len)) = u
    BY <1>1, <1>5, CleanChip
  <2> QED
    BY <1>3, <2>1, <2>2 DEF Read, Repaired, u
<1> QED
  BY <1>4, <1>5 DEF GetsThrough, u

\* A whole chip with fewer errors than the distance leaves for them is read as the unit
\* that was sent, or as zeroes.
LEMMA NoticedIs ==
  ASSUME MessageInv, pc \notin {"idle", "encode"}, NEW i \in Chips,
         len = sum(ikb), Errors(i) + err_fixed(ikb) < distance[ikb]
  PROVE  Read(i) \in {Sent(i), 0}
<1> DEFINE u == Sent(i)
           chip == Arrived(i)
<1>1. ikb \in Ikbs /\ u \in 0..(sum(ikb) - 1) /\ err_fixed(ikb) \in Nat
  BY SentIs, AbilityIs DEF MessageInv, ReaderInv, Numbers
<1>2. /\ Errors(i) \in Nat /\ Errors(i) = Missed(Encoded(i), chip)
      /\ chip \in SUBSET (0..(sum(ikb) - 1))
  BY ErrorsAre
<1>3. Encoded(i) = codes[ikb][u]
  BY <1>1, WholeCode DEF Encoded
<1> HIDE DEF u, chip
<1>4. Restored(ikb, sum(ikb), chip) \in {codes[ikb][u], {}}
  BY <1>1, <1>2, <1>3, Noticed
<1>5. distance[ikb] > 0
  BY <1>1, <1>2, DistanceIs
<1>6. DecodedUnit(ikb, sum(ikb), codes[ikb][u]) = u /\ DecodedUnit(ikb, sum(ikb), {}) = 0
  BY <1>1, <1>5, WholeChip, Zeroes
<1> QED
  BY <1>4, <1>6 DEF Read, Repaired, u, chip

\* The receiver finds the size of the message, or more room.
LEMMA RoomIs ==
  ASSUME MessageInv, Decoded, Agreed
  PROVE  /\ msg_size \in Nat /\ msg_size >= msg.size /\ msg.size \in Nat
         /\ len = sum(ikb) => msg_size = msg.size
<1> DEFINE rx == RxChips(size, len)
           room == (rx * unit_bits) \div 8
<1>1. /\ Numbers /\ msg.size \in Nat /\ unit_bits \in 2..4 /\ tx_chips \in Nat /\ len \in Nat \ {0}
      /\ ikb \in Ikbs /\ size = code_size
  BY SenderNumbers DEF MessageInv, ReaderInv, Numbers, Agreed
<1>2. rx \in 0..254 /\ tx_chips <= rx /\ msg_size = MsgBytes(size, unit_bits, len)
  BY <1>1, ChipsArrive DEF MessageInv, Decoding
<1>3. msg_size = u8(room)
  BY <1>2 DEF MsgBytes, BITS_IN_BYTE
<1> HIDE DEF rx
<1>4. rx * unit_bits \in 0..1016 /\ tx_chips * unit_bits <= rx * unit_bits
      /\ tx_chips * unit_bits \in Nat
  <2>1. unit_bits = 2 \/ unit_bits = 3 \/ unit_bits = 4
    BY <1>1
  <2> QED
    BY <1>1, <1>2, <2>1
<1>5. msg_size = room /\ room \in 0..127
  <2>1. room \in 0..127
    BY <1>4
  <2> HIDE DEF room
  <2> QED
    BY <1>3, <2>1 DEF u8
<1>6. msg.size <= room
  <2>1. CASE msg.size = 0
    BY <1>1, <1>5, <2>1
  <2>2. CASE msg.size # 0
    <3>1. 8 * msg.size < unit_bits * tx_chips
      <4>1. tx_chips = TxChips(msg.size, unit_bits)
        BY DEF tx_chips, unit_bits
      <4>2. msg.size \in Nat \ {0} /\ unit_bits \in Nat \ {0}
        BY <1>1, <2>2
      <4> QED
        BY <4>1, <4>2, ChipsCover
    <3>2. 8 * msg.size < rx * unit_bits
      BY <1>1, <1>4, <3>1
    <3> DEFINE a == rx * unit_bits
    <3>3. a \in Nat /\ 8 * msg.size < a
      BY <1>4, <3>2
    <3> HIDE DEF a
    <3>4. msg.size <= a \div 8
      BY <1>1, <3>3
    <3> QED
      BY <3>4 DEF a
  <2> QED
    BY <2>1, <2>2
<1>7. ASSUME len = sum(ikb) PROVE msg_size = msg.size
  <2>1. CASE msg.size = 0
    <3>1. tx_chips = 0 /\ size = 0
      BY <1>1, <2>1 DEF tx_chips, TxChips, code_size, CodeBytes
    <3>2. rx = 0
      BY <1>1, <3>1 DEF rx, RxChips, BITS_IN_BYTE
    <3> QED
      BY <1>1, <1>5, <2>1, <3>2
  <2>2. CASE msg.size # 0
    <3>1. msg.size \in 1..255
      BY <1>1, <1>5, <1>6, <2>2
    <3>2. unit_bits \in 1..7 /\ len \in Nat /\ (len > 8 \/ (len \in 5..8 /\ unit_bits <= 3))
      BY <1>1, <1>7, AbilityIs DEF unit_bits
    <3>3. MsgBytes(CodeBytes(msg.size, unit_bits, len), unit_bits, len) = msg.size
      BY <3>1, <3>2, SizeRoundTrip
    <3> QED
      BY <1>1, <1>2, <3>3 DEF code_size, unit_bits
  <2> QED
    BY <2>1, <2>2
<1> QED
  BY <1>1, <1>5, <1>6, <1>7

\* A position that comes back is one of a unit that is sent and written with the same
\* number of bits.
LEMMA BackIs ==
  ASSUME MessageInv, Decoded, Agreed, NEW b \in 0..(BitsBack - 1)
  PROVE  \E i \in Chips :
           LET from == i * unit_bits
               to   == Least(from + unit_bits, msg_bits)
           IN  /\ b \in from..(to - 1)
               /\ to = Least(from + unit_bits, msg_size * BITS_IN_BYTE)
<1> DEFINE q == msg_bits \div unit_bits
           i == b \div unit_bits
           room == msg_size * BITS_IN_BYTE
<1>1. /\ msg_bits \in Nat /\ unit_bits \in 2..4 /\ unit_bits \in Nat \ {0} /\ room \in Nat
      /\ msg.size \in Nat /\ msg_bits <= room /\ (msg_size = msg.size => msg_bits = room)
  BY RoomIs, SenderNumbers DEF MessageInv, ReaderInv, msg_bits, BITS_IN_BYTE
<1> HIDE DEF room
<1>2. q \in Nat /\ msg_bits % unit_bits \in 0..(unit_bits - 1)
      /\ msg_bits = unit_bits * q + (msg_bits % unit_bits)
  BY <1>1, Division
<1>3. BitsBack = IF msg_size = msg.size THEN msg_bits ELSE q * unit_bits
  BY DEF BitsBack, unit_bits
<1>4. tx_chips = IF msg.size > 0 THEN q + 1 ELSE 0
  BY DEF tx_chips, TxChips, msg_bits, unit_bits
<1> HIDE DEF q
<1>5. q * unit_bits = unit_bits * q /\ q * unit_bits \in Nat /\ q * unit_bits <= msg_bits
      /\ msg_bits < q * unit_bits + unit_bits
  BY <1>1, <1>2
<1>6. b \in Nat /\ b < msg_bits
  BY <1>1, <1>3, <1>5
<1>7. i \in Nat /\ b % unit_bits \in 0..(unit_bits - 1) /\ b = unit_bits * i + (b % unit_bits)
  BY <1>1, <1>6, Division
<1> HIDE DEF i
<1> DEFINE from == i * unit_bits
           to == Least(from + unit_bits, msg_bits)
<1>8. from = unit_bits * i /\ from \in Nat /\ from <= b /\ b < from + unit_bits
  BY <1>1, <1>6, <1>7
<1>9. i <= q
  <2>1. SUFFICES ASSUME q < i PROVE FALSE
    BY <1>2, <1>7
  <2>2. q * unit_bits + unit_bits <= from
    BY <1>1, <1>2, <1>7, <2>1, Positions
  <2> HIDE DEF from
  <2> QED
    BY <1>1, <1>5, <1>6, <1>8, <2>2
<1>10. i \in Chips
  <2>1. msg.size > 0
    BY <1>1, <1>6 DEF msg_bits, BITS_IN_BYTE
  <2> QED
    BY <1>2, <1>4, <1>7, <1>9, <2>1 DEF Chips
<1>11. b \in from..(to - 1)
  <2> HIDE DEF from
  <2> QED
    BY <1>1, <1>6, <1>8 DEF Least
<1>12. to = Least(from + unit_bits, room)
  <2>1. CASE msg_size = msg.size
    BY <1>1, <2>1
  <2>2. CASE msg_size # msg.size
    <3>1. b < q * unit_bits
      BY <1>3, <1>5, <2>2
    <3>2. i # q
      BY <1>5, <1>6, <1>8, <3>1
    <3>3. from + unit_bits <= q * unit_bits
      BY <1>1, <1>2, <1>7, <1>9, <3>2, Positions
    <3> HIDE DEF from
    <3>4. from + unit_bits <= msg_bits
      BY <1>1, <1>5, <1>8, <3>3
    <3> QED
      BY <1>1, <1>8, <3>4 DEF Least
  <2> QED
    BY <2>1, <2>2
<1> QED
  BY <1>10, <1>11, <1>12 DEF room

LEMMA RoundTripHolds ==
  ASSUME MessageInv
  PROVE  RoundTrip
<1>1. SUFFICES ASSUME Decoded, Agreed, \A i \in 0..(tx_chips - 1) : GetsThrough(i)
      PROVE  /\ text \cap 0..(BitsBack - 1) = msg.bits \cap 0..(BitsBack - 1)
             /\ msg_size >= msg.size
             /\ len = sum(ikb) => msg_size = msg.size
  BY DEF RoundTrip
<1>2. Numbers /\ pc \notin {"idle", "encode"} /\ \A i \in Chips : Written(i)
  BY <1>1 DEF MessageInv, ReaderInv, Decoded, Decoding
<1>3. \A i \in Chips : Read(i) = Sent(i)
  BY <1>1, <1>2, GetsThroughIs DEF Chips
<1>4. ASSUME NEW b \in 0..(BitsBack - 1)
      PROVE  b \in text <=> b \in msg.bits
  <2>1. PICK i \in Chips :
          /\ b \in (i * unit_bits)..(Least(i * unit_bits + unit_bits, msg_bits) - 1)
          /\ Least(i * unit_bits + unit_bits, msg_bits)
               = Least(i * unit_bits + unit_bits, msg_size * BITS_IN_BYTE)
    BY <1>1, BackIs
  <2>2. b \in Place(i)
    BY <2>1 DEF Place
  <2>3. text \cap Place(i) = BitsOf(Sent(i), i * unit_bits, Least(i * unit_bits + unit_bits, msg_bits))
    BY <1>2, <1>3, <2>1 DEF Written
  <2>4. BitsOf(Sent(i), i * unit_bits, Least(i * unit_bits + unit_bits, msg_bits))
          = msg.bits \cap (i * unit_bits)..(Least(i * unit_bits + unit_bits, msg_bits) - 1)
    BY <1>2, SentIs
  <2> QED
    BY <2>1, <2>2, <2>3, <2>4
<1> QED
  BY <1>1, <1>4, RoomIs

\* Whatever the text, the settings and the noise, and whatever the user of the receiver
\* does before the message arrives: a message whose chips get through comes back.
THEOREM RoundTripAlways == Spec => []RoundTrip
  BY RoundTripHolds, MessageInvariant, PTL

\* Units of which the same bits are 1 are the same, and one without them is 0.
LEMMA UnitOf ==
  ASSUME NEW from \in Nat, NEW m \in 0..4, NEW x, NEW y,
         x \cap from..(from + m - 1) = y \cap from..(from + m - 1)
  PROVE  UnitAt(x, from, from + m) = UnitAt(y, from, from + m)
<1>1. ASSUME NEW i \in 0..3 PROVE Weight(x, from, m, i) = Weight(y, from, m, i)
  <2>1. i < m => from + i \in from..(from + m - 1)
    OBVIOUS
  <2>2. i < m => (from + i \in x <=> from + i \in y)
    BY <2>1
  <2> QED
    BY <2>2 DEF Weight
<1>2. /\ UnitAt(x, from, from + m) = Weight(x, from, m, 0) + Weight(x, from, m, 1)
                                     + Weight(x, from, m, 2) + Weight(x, from, m, 3)
      /\ UnitAt(y, from, from + m) = Weight(y, from, m, 0) + Weight(y, from, m, 1)
                                     + Weight(y, from, m, 2) + Weight(y, from, m, 3)
  BY UnitIs
<1> QED
  BY <1>1, <1>2

LEMMA UnitOfNone ==
  ASSUME NEW from \in Nat, NEW m \in 0..4
  PROVE  UnitAt({}, from, from + m) = 0 /\ BitsOf(0, from, from + m) = {}
<1>1. Weight({}, from, m, 0) = 0 /\ Weight({}, from, m, 1) = 0 /\ Weight({}, from, m, 2) = 0
      /\ Weight({}, from, m, 3) = 0
  BY DEF Weight
<1>2. UnitAt({}, from, from + m) = Weight({}, from, m, 0) + Weight({}, from, m, 1)
                                   + Weight({}, from, m, 2) + Weight({}, from, m, 3)
  BY UnitIs
<1>3. UnitAt({}, from, from + m) = 0
  BY <1>1, <1>2
<1>4. BitsOf(UnitAt({}, from, from + m), from, from + m) = {} \cap from..(from + m - 1)
  BY UnitBits
<1> QED
  BY <1>3, <1>4

\* The unit of a whole chip that the text holds is the one that the chip is read as.
LEMMA GotIs ==
  ASSUME MessageInv, Decoded, Agreed, len = sum(ikb), NEW i \in Chips
  PROVE  /\ Read(i) = Sent(i) => Got(i) = Sent(i)
         /\ Read(i) = 0 => Got(i) = 0
<1> DEFINE from == i * unit_bits
           to == Least(from + unit_bits, msg_bits)
           m == to - from
<1>1. Numbers /\ Written(i)
  BY DEF MessageInv, ReaderInv, Decoding
<1>2. /\ i \in Nat /\ unit_bits \in 2..4 /\ from \in Nat /\ msg_bits \in Nat /\ from <= msg_bits
      /\ (i + 1) * unit_bits = from + unit_bits
  BY <1>1, SenderNumbers, SentIs, Positions
<1>3. Sent(i) = UnitAt(msg.bits, from, to) /\ Got(i) = UnitAt(text, from, to)
  BY <1>2 DEF Sent, Got, unit_bits
<1>4. to = Least(from + unit_bits, msg_size * BITS_IN_BYTE)
  BY RoomIs DEF msg_bits
<1>5. text \cap from..(to - 1) = BitsOf(Read(i), from, to)
  BY <1>1, <1>4 DEF Written, Place
<1>6. BitsOf(Sent(i), from, to) = msg.bits \cap from..(to - 1)
  BY <1>1, SentIs
<1>7. m \in 0..4 /\ from + m = to /\ from + m - 1 = to - 1
  <2> HIDE DEF from
  <2> QED
    BY <1>2 DEF Least
<1> HIDE DEF from, to, m
<1>8. ASSUME Read(i) = Sent(i) PROVE Got(i) = Sent(i)
  <2>1. text \cap from..(from + m - 1) = msg.bits \cap from..(from + m - 1)
    BY <1>5, <1>6, <1>7, <1>8
  <2>2. UnitAt(text, from, from + m) = UnitAt(msg.bits, from, from + m)
    BY <1>2, <1>7, <2>1, UnitOf
  <2> QED
    BY <1>3, <1>7, <2>2
<1>9. ASSUME Read(i) = 0 PROVE Got(i) = 0
  <2>1. text \cap from..(from + m - 1) = {} \cap from..(from + m - 1)
    BY <1>2, <1>5, <1>7, <1>9, UnitOfNone
  <2>2. UnitAt(text, from, from + m) = UnitAt({}, from, from + m)
    BY <1>2, <1>7, <2>1, UnitOf
  <2> QED
    BY <1>2, <1>3, <1>7, <2>2, UnitOfNone
<1> QED
  BY <1>8, <1>9

LEMMA NotMisreadHolds ==
  ASSUME MessageInv
  PROVE  NotMisread
<1>1. SUFFICES ASSUME Decoded, Agreed, len = sum(ikb), NEW i \in 0..(tx_chips - 1),
                      Errors(i) + err_fixed(ikb) < distance[ikb]
      PROVE  Got(i) \in {Sent(i), 0}
  BY DEF NotMisread
<1>2. pc \notin {"idle", "encode"} /\ i \in Chips
  BY <1>1 DEF Decoded, Chips
<1>3. Read(i) \in {Sent(i), 0}
  BY <1>1, <1>2, NoticedIs
<1> QED
  BY <1>1, <1>2, <1>3, GotIs

\* Whatever the text, the settings and the noise: a whole chip whose errors the
\* distance of the codes leaves room for is read as the unit that was sent, or as
\* zeroes, and never as another unit.
THEOREM NotMisreadAlways == Spec => []NotMisread
  BY NotMisreadHolds, MessageInvariant, PTL

LEMMA OthersFix ==
  ASSUME MessageInv, ikb # 1
  PROVE  ErrorsAreFixed
<1>1. SUFFICES ASSUME Decoded, Agreed, len = sum(ikb), NEW i \in 0..(tx_chips - 1),
                      Errors(i) <= err_fixed(ikb)
      PROVE  Got(i) = Sent(i)
  BY DEF ErrorsAreFixed
<1>2. pc \notin {"idle", "encode"} /\ i \in Chips
  BY <1>1 DEF Decoded, Chips
<1>3. ikb \in 2..5
  BY DEF MessageInv, ReaderInv, Numbers, Ikbs, ikb_db
<1>4. 2 * Errors(i) < distance[ikb]
  <2>1. distance[ikb] = 2 * (err_fixed(ikb) + 1)
    BY <1>3, IdealDistance
  <2>2. Errors(i) \in Nat /\ err_fixed(ikb) \in Nat
    BY <1>2, ErrorsAre, AbilityIs DEF MessageInv, ReaderInv, Numbers
  <2> QED
    BY <1>1, <2>1, <2>2
<1>5. Read(i) = Sent(i)
  BY <1>1, <1>2, <1>4, GetsThroughIs DEF GetsThrough
<1> QED
  BY <1>1, <1>2, <1>5, GotIs

\* What client.c:250 shows of a bundle is true of all of them but the first: each whole
\* chip with at most err_fixed errors is read as it was sent, whatever happens to the
\* others. The first bundle does not keep it (run codec_first_bundle).
THEOREM OthersFixErrors == Spec => [](ikb # 1 => ErrorsAreFixed)
<1>1. MessageInv => (ikb # 1 => ErrorsAreFixed)
  BY OthersFix
<1> QED
  BY <1>1, MessageInvariant, PTL

=============================================================================
