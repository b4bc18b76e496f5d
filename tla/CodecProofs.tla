---------------------------- MODULE CodecProofs ----------------------------
(***************************************************************************)
(* What TLAPS proves of Codec: its types, that the panel shows the bundle  *)
(* and the chip length in force, and that what ikb_noise_restore leaves,   *)
(* ikb_decode can read.                                                    *)
(***************************************************************************)
EXTENDS Codec, IkbProofs

-----------------------------------------------------------------------------
(* The settings of the receiver.                                           *)

SettingsInv ==
  /\ active \in Ikbs
  /\ spin \in Nat /\ entry \in Nat
  /\ cutted \in [Ikbs -> Nat]
  /\ \A k \in Ikbs : cutted[k] > 0
  /\ CutInForce

\* A cut that update_chip_cut_length reads is the one in force.
LEMMA CutIsSet ==
  ASSUME SettingsInv, active' \in Ikbs, NEW value \in Nat, NEW number \in Nat,
         SetCut(active', value, number)
  PROVE  SettingsInv'
<1>1. sum(active') \in Nat \ {0}
  BY SumType
<1>2. CuttedLen(active', value) \in Nat \ {0} /\ Least(value, sum(active') - 1) \in Nat
      /\ CuttedLen(active', value) = sum(active') - Least(value, sum(active') - 1)
      /\ sum(active') - 1 \in Nat
  BY <1>1 DEF CuttedLen, Least
<1>3. cutted'[active'] = CuttedLen(active', value) /\ cutted' \in [Ikbs -> Nat]
      /\ \A k \in Ikbs : cutted'[k] > 0
  BY <1>2 DEF SetCut, SettingsInv
<1>4. entry' \in Nat /\ spin' = Least(value, sum(active') - 1)
      /\ panel' = Panel(active', CuttedLen(active', value))
  BY <1>2 DEF SetCut
<1>5. CutInForce'
  BY <1>2, <1>3, <1>4 DEF CutInForce
<1> QED
  BY <1>2, <1>3, <1>4, <1>5 DEF SettingsInv

LEMMA SettingsNext ==
  ASSUME SettingsInv, Next
  PROVE  SettingsInv'
<1>1. CASE UNCHANGED <<active, spin, entry, cutted, panel, gui, unread>>
  BY <1>1 DEF SettingsInv, CutInForce
<1>2. ASSUME NEW c \in Cuts, StepCut(c) \/ TypeCut(c) PROVE SettingsInv'
  <2>1. c \in Nat /\ spin \in Nat /\ active' \in Ikbs
    BY <1>2, CodecAssumption DEF StepCut, TypeCut, SettingsInv
  <2>2. SetCut(active', c, c) \/ SetCut(active', spin, c)
    BY <1>2 DEF StepCut, TypeCut
  <2> QED
    BY <2>1, <2>2, CutIsSet
<1>3. CASE CommitCut
  BY <1>3 DEF CommitCut, SettingsInv, CutInForce
<1>4. CASE \E k \in UsedIkbs : ChangeIkb(k)
  BY <1>4, CodecAssumption DEF ChangeIkb, SettingsInv, CutInForce
<1>5. CASE UpdateCut
  <2>1. active' = active /\ SetCut(active', spin, entry)
    BY <1>5 DEF UpdateCut
  <2> QED
    BY <2>1, CutIsSet DEF SettingsInv
<1>6. CASE SenderStep
  BY <1>1, <1>6 DEF SenderStep, EncodeChip, EncodeEnd, NoiseBit, Write, settings
<1>7. CASE ReaderStep
  BY <1>1, <1>7 DEF ReaderStep, RestoreCall, RestoreChip, RestoreEnd, SizeCall, DecodeCall,
     DecodeChip, DecodeEnd, settings
<1>8. CASE StartUp \/ Show \/ Send
  BY <1>1, <1>8 DEF StartUp, Show, Send, settings
<1> QED
  BY <1>2, <1>3, <1>4, <1>5, <1>6, <1>7, <1>8 DEF Next, MainStep, UserStep

\* The client has just started, or its user has made cuts before.
LEMMA FirstSettings ==
  ASSUME Init
  PROVE  /\ active \in Ikbs /\ spin \in {0} \cup Cuts \cup {sum(k) - 1 : k \in Ikbs}
         /\ spin \in Nat /\ entry = spin
         /\ cutted \in [Ikbs -> Nat] /\ \A k \in Ikbs : cutted[k] \in 1..sum(k)
         /\ cutted[active] = sum(active) - spin
<1>1. \A k \in Ikbs : sum(k) \in Nat \ {0}
  BY SumType
<1>2. \A k \in Ikbs, c \in Nat :
         /\ CuttedLen(k, c) \in 1..sum(k) /\ Least(c, sum(k) - 1) \in Nat
         /\ CuttedLen(k, c) = sum(k) - Least(c, sum(k) - 1)
         /\ Least(c, sum(k) - 1) \in {c, sum(k) - 1}
  BY <1>1 DEF CuttedLen, Least
<1>3. CASE active = 1 /\ spin = 0 /\ cutted = [k \in Ikbs |-> sum(k)]
  <2>1. active \in Ikbs
    BY <1>3 DEF Ikbs, ikb_db
  <2> QED
    BY <1>1, <1>3, <2>1 DEF Init
<1>4. ASSUME active \in UsedIkbs, NEW cuts \in [UsedIkbs -> FirstCuts],
             spin = Least(cuts[active], sum(active) - 1),
             cutted = [k \in Ikbs |-> IF k \in UsedIkbs THEN CuttedLen(k, cuts[k]) ELSE sum(k)]
      PROVE  /\ active \in Ikbs /\ spin \in {0} \cup Cuts \cup {sum(k) - 1 : k \in Ikbs}
             /\ spin \in Nat
             /\ cutted \in [Ikbs -> Nat] /\ \A k \in Ikbs : cutted[k] \in 1..sum(k)
             /\ cutted[active] = sum(active) - spin
  <2>1. active \in Ikbs /\ UsedIkbs \subseteq Ikbs
        /\ \A k \in UsedIkbs : cuts[k] \in Nat /\ cuts[k] \in Cuts
    BY <1>4, CodecAssumption
  <2>2. \A k \in Ikbs : cutted[k] \in 1..sum(k)
    BY <1>1, <1>2, <1>4, <2>1
  <2>3. cutted \in [Ikbs -> Nat]
    BY <1>1, <1>4, <2>2
  <2>4. spin \in Nat /\ spin \in {cuts[active], sum(active) - 1}
        /\ cutted[active] = sum(active) - spin
    BY <1>2, <1>4, <2>1
  <2> QED
    BY <1>4, <2>1, <2>2, <2>3, <2>4
<1> QED
  BY <1>3, <1>4 DEF Init

LEMMA SettingsInit == ASSUME Init PROVE SettingsInv
<1>1. CutInForce
  BY FirstSettings DEF Init, CutInForce
<1>2. \A k \in Ikbs : cutted[k] > 0
  BY FirstSettings, SumType
<1> QED
  BY <1>1, <1>2, FirstSettings DEF SettingsInv

\* Between two events the panel shows the bundle and the chip length in force, and
\* this is the one that the value of the spin button makes, for any bundles, any cuts
\* and any order in which they are chosen: except after a typed number was taken over,
\* until the next event (Codec.CommitCut).
THEOREM CutInForceAlways == Spec => []CutInForce
<1>1. SettingsInv /\ UNCHANGED vars => SettingsInv'
  BY DEF SettingsInv, CutInForce, vars, settings
<1>2. SettingsInv => CutInForce
  BY DEF SettingsInv
<1> QED
  BY <1>1, <1>2, SettingsInit, SettingsNext, PTL DEF Spec

-----------------------------------------------------------------------------
(* Positions.                                                              *)

\* What is restored and read for chip i starts behind chip i - 1.
LEMMA Positions ==
  ASSUME NEW n \in Nat \ {0}, NEW i \in Nat, NEW j \in Nat
  PROVE  /\ i * n \in Nat
         /\ (i + 1) * n = i * n + n
         /\ i < j => i * n + n <= j * n
<1>1. i * n \in Nat /\ j * n \in Nat /\ (i + 1) * n = i * n + n
  OBVIOUS
<1>2. ASSUME i < j PROVE i * n + n <= j * n
  <2>1. PICK d \in Nat : j = i + 1 + d
    <3>1. j - i - 1 \in Nat /\ j = i + 1 + (j - i - 1)
      BY <1>2
    <3> QED
      BY <3>1
  <2>2. j * n = (i + 1) * n + d * n /\ d * n \in Nat
    BY <2>1
  <2> QED
    BY <1>1, <2>2
<1> QED
  BY <1>1, <1>2

\* The chips that ikb_decode reads are whole.
LEMMA WholeChips ==
  ASSUME size \in Nat, NEW n \in Nat \ {0}, NEW i \in Nat, i < RxChips(size, n)
  PROVE  i * n + n <= size * BITS_IN_BYTE
<1> DEFINE bits == size * BITS_IN_BYTE
           d == bits \div n
<1>1. bits \in Nat
  BY DEF BITS_IN_BYTE
<1> HIDE DEF bits
<1>0. RxChips(size, n) = d
  BY DEF RxChips, bits
<1>2. d \in Nat /\ bits % n \in Nat /\ bits = n * d + (bits % n) /\ i < d
  BY <1>0, <1>1, Division
<1> HIDE DEF d
<1>3. i * n + n <= d * n
  BY <1>2, Positions
<1>4. d * n = n * d /\ i * n \in Nat /\ d * n \in Nat
  BY <1>2
<1> QED
  BY <1>1, <1>2, <1>3, <1>4 DEF bits

\* A chip is in its range, whatever the buffer holds.
LEMMA ChipType ==
  ASSUME size \in Nat, NEW n \in Nat \ {0}, NEW i \in Nat, NEW bits
  PROVE  ChipAt(bits, i, n) \in SUBSET (0..(n - 1))
<1> DEFINE from == i * n
           to == Least((i + 1) * n, size * BITS_IN_BYTE)
<1>1. from \in Nat /\ to \in Nat /\ to <= from + n
  BY Positions DEF Least, BITS_IN_BYTE
<1> HIDE DEF from, to
<1>2. ASSUME NEW b \in from..(to - 1) PROVE b - from \in 0..(n - 1)
  BY <1>1, <1>2
<1>3. Slice(bits, from, to) \in SUBSET (0..(n - 1))
  BY <1>2 DEF Slice
<1> QED
  BY <1>3 DEF ChipAt, from, to

\* A buffer in which a chip is stored as chip j.
Stored(old, j, n, chip) ==
  LET from == j * n
      to == Least(from + n, size * BITS_IN_BYTE)
  IN  (old \ from..(to - 1)) \cup {from + b : b \in Slice(chip, 0, to - from)}

\* Storing chip j leaves the chips before it alone, and reads back as it was stored.
LEMMA StoredChip ==
  ASSUME size \in Nat, NEW n \in Nat \ {0}, NEW j \in Nat, NEW chip \in SUBSET (0..(n - 1)),
         NEW old
  PROVE  /\ \A i \in Nat : i < j => ChipAt(Stored(old, j, n, chip), i, n) = ChipAt(old, i, n)
         /\ j < RxChips(size, n) => ChipAt(Stored(old, j, n, chip), j, n) = chip
<1> DEFINE from == j * n
           to == Least(from + n, size * BITS_IN_BYTE)
           new == Stored(old, j, n, chip)
<1>1. from \in Nat /\ to \in Nat
  BY Positions DEF Least, BITS_IN_BYTE
<1>5. from = j * n /\ to = Least(from + n, size * BITS_IN_BYTE)
  OBVIOUS
<1>6. new = (old \ from..(to - 1)) \cup {from + b : b \in Slice(chip, 0, to - from)}
  BY DEF Stored
<1> HIDE DEF from, to, new
<1>2. ASSUME NEW i \in Nat, i < j
      PROVE  ChipAt(new, i, n) = ChipAt(old, i, n)
  <2> DEFINE f == i * n
             t == Least((i + 1) * n, size * BITS_IN_BYTE)
  <2>1. f \in Nat /\ t \in Nat /\ t <= from
    BY <1>1, <1>2, <1>5, Positions DEF Least, BITS_IN_BYTE
  <2> HIDE DEF f, t
  <2>2. \A b \in Slice(chip, 0, to - from) : from + b \notin f..(t - 1)
    BY <1>1, <2>1 DEF Slice
  <2>3. \A b \in f..(t - 1) : b \notin from..(to - 1)
    BY <1>1, <2>1
  <2>4. new \cap f..(t - 1) = old \cap f..(t - 1)
    BY <1>6, <2>2, <2>3
  <2>5. Slice(new, f, t) = Slice(old, f, t)
    BY <2>4 DEF Slice
  <2> QED
    BY <2>5 DEF ChipAt, f, t
<1>3. ASSUME j < RxChips(size, n)
      PROVE  ChipAt(new, j, n) = chip
  <2>1. from + n <= size * BITS_IN_BYTE /\ (j + 1) * n = from + n
    BY <1>3, <1>5, WholeChips, Positions
  <2>2. to = from + n /\ Least((j + 1) * n, size * BITS_IN_BYTE) = to
    BY <1>1, <1>5, <2>1 DEF Least, BITS_IN_BYTE
  <2>3. \A b \in chip : /\ b \in Nat /\ b - 0 = b /\ (from + b) - from = b
                        /\ b \in 0..(to - from - 1)
                        /\ from + b \in from..(to - 1)
    BY <1>1, <2>2
  <2>4. Slice(chip, 0, to - from) = chip
    <3>1. chip \cap 0..((to - from) - 1) = chip
      BY <2>3
    <3>2. {b - 0 : b \in chip} = chip
      BY <2>3
    <3> QED
      BY <3>1, <3>2 DEF Slice
  <2> DEFINE stored == {from + b : b \in chip}
  <2>5. new \cap from..(to - 1) = stored
    <3>1. stored \subseteq from..(to - 1)
      BY <2>3
    <3>2. new = (old \ from..(to - 1)) \cup stored
      BY <1>6, <2>4
    <3> HIDE DEF stored
    <3> QED
      BY <3>1, <3>2
  <2>6. {c - from : c \in stored} = chip
    <3>1. \A c \in stored : c - from \in chip
      BY <2>3
    <3>2. \A b \in chip : \E c \in stored : b = c - from
      BY <2>3
    <3> HIDE DEF stored
    <3> QED
      BY <3>1, <3>2
  <2>7. Slice(new, from, to) = chip
    BY <2>5, <2>6 DEF Slice
  <2> QED
    BY <1>5, <2>2, <2>7 DEF ChipAt
<1> QED
  BY <1>2, <1>3 DEF new

-----------------------------------------------------------------------------
(* The receiver.                                                           *)

\* ikb_decode can read the first m chips of the restored buffer.
Readable(m) == \A i \in Nat :
  i < m /\ i < RxChips(size, cutted[active]) =>
    Decodable(active, cutted[active], ChipAt(buffer, i, cutted[active]))

\* While the settings stay, the calls of rx_reader agree on the bundle and on the
\* chips, and what has been restored can be read.
Restoring ==
  /\ pc = "restore" => /\ used = active
                       /\ chips_num = RestoredChips(size, cutted[active])
                       /\ Readable(chip_id)
  /\ pc \in {"restored", "sized", "decode"} => Readable(RxChips(size, cutted[active]))
  /\ pc = "decode" => used = active /\ chips_num = RxChips(size, cutted[active])

Numbers ==
  /\ ikb \in Ikbs /\ cut \in Nat /\ msg.size \in Nat
  /\ size \in Nat /\ chip_id \in Nat /\ msg_size \in Nat

\* Before restoring, nothing is counted, and before decoding, nothing is written.
Fresh ==
  /\ pc \in {"noise", "arrived"} => chip_id = 0
  /\ pc \in {"idle", "encode", "noise", "arrived"} => chips_num = 0
  /\ pc \notin {"decode", "posted", "shown", "failed"} => text = {}

ReaderInv ==
  /\ SettingsInv
  /\ Numbers
  /\ Fresh
  /\ moved \/ Restoring
  /\ RestoredDecodes

\* The numbers of chips and bytes are numbers.
LEMMA CountsType ==
  ASSUME NEW s \in Nat, NEW n \in Nat \ {0}, NEW k \in Ikbs
  PROVE  /\ RxChips(s, n) \in Nat
         /\ RestoredChips(s, n) = RxChips(s, n) + 1
         /\ MsgBytes(s, encode_ability(k), n) \in Nat
<1>1. s * BITS_IN_BYTE \in Nat
  BY DEF BITS_IN_BYTE
<1>2. RxChips(s, n) \in Nat
  BY <1>1, Division DEF RxChips
<1>3. RxChips(s, n) * encode_ability(k) \in Nat
  BY <1>2, AbilityType
<1>4. (RxChips(s, n) * encode_ability(k)) \div 8 \in Nat
  BY <1>3, Division
<1> QED
  BY <1>2, <1>4 DEF RestoredChips, RxChips, MsgBytes, BITS_IN_BYTE, u8

\* channel_write is given a number, and so is the receiver.
LEMMA CodeType ==
  ASSUME Numbers
  PROVE  u8(code_size) \in Nat
<1>1. encode_ability(ikb) \in Nat \ {0}
  BY AbilityType DEF Numbers
<1>2. len \in Nat \ {0}
  BY SumType DEF Numbers, len, CuttedLen
<1>3. CodeBytes(msg.size, encode_ability(ikb), len) \in Nat
  <2>1. CASE msg.size = 0
    BY <2>1 DEF CodeBytes
  <2>2. CASE msg.size # 0
    BY <1>1, <1>2, <2>2, BytesCover DEF Numbers
  <2> QED
    BY <2>1, <2>2
<1> QED
  BY <1>3 DEF code_size, u8

LEMMA ReaderInit == ASSUME Init PROVE ReaderInv
<1>1. SettingsInv
  BY SettingsInit
<1>2. Numbers
  BY DEF Init, Numbers, Ikbs, ikb_db
<1>3. Fresh /\ Restoring /\ RestoredDecodes
  BY DEF Init, Fresh, Restoring, RestoredDecodes
<1> QED
  BY <1>1, <1>2, <1>3 DEF ReaderInv

\* As long as none of the receiver's data change:
Reader == <<pc, size, buffer, used, chips_num, msg_size, allocated, text>>

LEMMA ReaderStays ==
  ASSUME ReaderInv, Numbers', Fresh', SettingsInv', UNCHANGED Reader, chip_id' = chip_id,
         moved' \/ (moved' = moved /\ UNCHANGED <<active, cutted>>)
         \/ pc \in {"idle", "encode", "noise"}
  PROVE  ReaderInv'
<1>1. (moved \/ Restoring)'
  <2>1. CASE moved'
    BY <2>1
  <2>2. CASE moved' = moved /\ UNCHANGED <<active, cutted>>
    BY <2>2 DEF ReaderInv, Restoring, Readable, ChipAt, Reader
  <2>3. CASE pc \in {"idle", "encode", "noise"}
    BY <2>3 DEF Restoring, Reader
  <2> QED
    BY <2>1, <2>2, <2>3
<1>2. RestoredDecodes'
  BY DEF ReaderInv, RestoredDecodes, Reader
<1> QED
  BY <1>1, <1>2 DEF ReaderInv

\* The sender, until the code is there
LEMMA SenderNext ==
  ASSUME ReaderInv, SettingsInv', Send \/ SenderStep
  PROVE  ReaderInv'
<1> USE DEF ReaderInv
<1>1. ASSUME Send PROVE ReaderInv'
  <2>1. Numbers'
    BY <1>1, CodecAssumption DEF Numbers, Send
  <2> QED
    BY <1>1, <2>1 DEF Send, Goto, Fresh, Restoring, RestoredDecodes,
       results, settings
<1>2. ASSUME EncodeChip PROVE ReaderInv'
  <2>1. Numbers'
    BY <1>2 DEF Numbers, EncodeChip, NextChip, u8
  <2> QED
    BY <1>2, <2>1 DEF EncodeChip, Fresh, Restoring, RestoredDecodes,
       results, settings
<1>3. ASSUME EncodeEnd PROVE ReaderInv'
  BY <1>3 DEF EncodeEnd, Goto, Numbers, Fresh, Restoring, RestoredDecodes,
     results, settings, sender
<1>4. ASSUME NEW b, NoiseBit(b) PROVE ReaderInv'
  BY <1>4 DEF NoiseBit, Numbers, Fresh, Restoring, RestoredDecodes,
     results, settings
<1>5. ASSUME Write PROVE ReaderInv'
  <2>1. Numbers'
    BY <1>5, CodeType DEF Numbers, Write, sender
  <2> QED
    BY <1>5, <2>1 DEF Write, Goto, Fresh, Restoring, RestoredDecodes,
       results, settings
<1> QED
  BY <1>1, <1>2, <1>3, <1>4, <1>5 DEF SenderStep

\* ikb_noise_restore
LEMMA RestoreNext ==
  ASSUME ReaderInv, SettingsInv', RestoreCall \/ RestoreChip \/ RestoreEnd
  PROVE  ReaderInv'
<1>1. /\ active \in Ikbs /\ cutted[active] \in Nat \ {0}
      /\ size \in Nat /\ chip_id \in Nat
  BY DEF ReaderInv, SettingsInv, Numbers
<1>2. /\ RxChips(size, cutted[active]) \in Nat
      /\ RestoredChips(size, cutted[active]) = RxChips(size, cutted[active]) + 1
  BY <1>1, CountsType
<1> USE DEF ReaderInv
<1>3. ASSUME RestoreCall PROVE ReaderInv'
  <2>1. Numbers' /\ Fresh' /\ RestoredDecodes'
    BY <1>3 DEF RestoreCall, Goto, Numbers, Fresh, RestoredDecodes, sender, settings
  <2>2. (moved \/ Restoring)'
    BY <1>1, <1>3 DEF RestoreCall, Goto, Fresh, Restoring, Readable, settings
  <2> QED
    BY <2>1, <2>2
<1>4. ASSUME RestoreChip PROVE ReaderInv'
  <2>1. Numbers' /\ Fresh' /\ RestoredDecodes'
    BY <1>4 DEF RestoreChip, NextChip, u8, Numbers, Fresh, RestoredDecodes,
       sender, settings, results
  <2>2. ASSUME ~ moved PROVE Restoring'
    <3> DEFINE n == cutted[active]
               chip == Restored(active, n, ChipAt(buffer, chip_id, n))
    <3>1. /\ used = active /\ chips_num = RestoredChips(size, n) /\ Readable(chip_id)
          /\ pc = "restore" /\ pc' = pc
          /\ UNCHANGED <<used, chips_num, size, active, cutted>>
      BY <1>4, <2>2 DEF RestoreChip, Restoring, settings
    <3>2. chip \in SUBSET (0..(n - 1)) /\ Decodable(active, n, chip)
      BY <1>1, ChipType, RestoredIsDecodable
    <3>3. /\ \A i \in Nat : i < chip_id => ChipAt(buffer', i, n) = ChipAt(buffer, i, n)
          /\ chip_id < RxChips(size, n) => ChipAt(buffer', chip_id, n) = chip
      <4>1. buffer' = Stored(buffer, chip_id, n, chip)
        BY <1>4, <3>1 DEF RestoreChip, Stored
      <4>2. n \in Nat \ {0} /\ chip \in SUBSET (0..(n - 1))
        BY <1>1, <3>2
      <4> HIDE DEF n, chip
      <4>3. size \in Nat /\ chip_id \in Nat
        BY <1>1
      <4>4. /\ \A i \in Nat : i < chip_id =>
                 ChipAt(Stored(buffer, chip_id, n, chip), i, n) = ChipAt(buffer, i, n)
            /\ chip_id < RxChips(size, n) =>
                 ChipAt(Stored(buffer, chip_id, n, chip), chip_id, n) = chip
        BY <4>2, <4>3, StoredChip
      <4> QED
        BY <4>1, <4>4
    <3>4. \A i \in Nat : i < chip_id' => i <= chip_id
      BY <1>1, <1>4 DEF RestoreChip, NextChip, u8
    <3>5. \A i \in Nat : ChipAt(buffer, i, n)' = ChipAt(buffer', i, n)
      BY <3>1 DEF ChipAt
    <3>6. ASSUME NEW i \in Nat, i < chip_id', i < RxChips(size, n)
          PROVE  Decodable(active, n, ChipAt(buffer', i, n))
      <4>1. CASE i < chip_id
        BY <3>1, <3>3, <3>6, <4>1 DEF Readable
      <4>2. CASE i = chip_id
        BY <3>2, <3>3, <3>6, <4>2
      <4> QED
        BY <1>1, <3>4, <3>6, <4>1, <4>2
    <3>7. Readable(chip_id)'
      BY <3>1, <3>5, <3>6 DEF Readable
    <3> QED
      BY <3>1, <3>7 DEF Restoring
  <2> QED
    BY <1>4, <2>1, <2>2 DEF RestoreChip, settings
<1>5. ASSUME RestoreEnd PROVE ReaderInv'
  <2>1. Numbers' /\ Fresh' /\ RestoredDecodes'
    BY <1>5 DEF RestoreEnd, Goto, Numbers, Fresh, RestoredDecodes,
       sender, settings, results
  <2>2. ASSUME ~ moved PROVE Restoring'
    <3>1. RxChips(size, cutted[active]) < chip_id
      BY <1>1, <1>2, <1>5, <2>2 DEF RestoreEnd, Goto, Restoring
    <3>2. Readable(RxChips(size, cutted[active]))
      BY <1>1, <1>2, <1>5, <2>2, <3>1 DEF RestoreEnd, Goto, Restoring, Readable
    <3> QED
      BY <1>5, <3>2 DEF RestoreEnd, Goto, Restoring, Readable, ChipAt, settings
  <2> QED
    BY <1>5, <2>1, <2>2 DEF RestoreEnd, settings
<1> QED
  BY <1>3, <1>4, <1>5

\* ikb_decode, first for the size and then for the text
LEMMA DecodeNext ==
  ASSUME ReaderInv, SettingsInv', SizeCall \/ DecodeCall \/ DecodeChip \/ DecodeEnd
  PROVE  ReaderInv'
<1>1. /\ active \in Ikbs /\ cutted[active] \in Nat \ {0}
      /\ size \in Nat /\ chip_id \in Nat /\ msg_size \in Nat
  BY DEF ReaderInv, SettingsInv, Numbers
<1>2. /\ RxChips(size, cutted[active]) \in Nat
      /\ MsgBytes(size, encode_ability(active), cutted[active]) \in Nat
  BY <1>1, CountsType
<1> USE DEF ReaderInv
<1>3. ASSUME SizeCall PROVE ReaderInv'
  <2>1. Numbers' /\ Fresh' /\ RestoredDecodes'
    BY <1>3 DEF SizeCall, Goto, Numbers, Fresh, RestoredDecodes, sender, settings,
       results
  <2>2. (moved \/ Restoring)'
    BY <1>3 DEF SizeCall, Goto, Restoring, Readable, ChipAt, settings
  <2> QED
    BY <2>1, <2>2
<1>4. ASSUME DecodeCall PROVE ReaderInv'
  <2>1. Numbers' /\ Fresh' /\ RestoredDecodes'
    BY <1>2, <1>4 DEF DecodeCall, Goto, Numbers, Fresh, RestoredDecodes, sender,
       settings, results
  <2>2. (moved \/ Restoring)'
    BY <1>4 DEF DecodeCall, Goto, Restoring, Readable, ChipAt, settings
  <2> QED
    BY <2>1, <2>2
<1>5. ASSUME DecodeChip PROVE ReaderInv'
  <2>1. Numbers' /\ Fresh'
    BY <1>5 DEF DecodeChip, Goto, NextChip, u8, Numbers, Fresh, sender, settings
  <2>2. (moved \/ Restoring)'
    BY <1>5 DEF DecodeChip, Goto, Restoring, Readable, ChipAt, settings
  <2>3. RestoredDecodes'
    <3>1. CASE pc' = "failed" /\ ~ moved
      <4>1. /\ pc = "decode" /\ used = active /\ chips_num = RxChips(size, cutted[active])
            /\ Readable(RxChips(size, cutted[active]))
            /\ chip_id < chips_num
            /\ ~ Decodable(used, cutted[used], ChipAt(buffer, chip_id, cutted[used]))
        BY <1>5, <3>1 DEF DecodeChip, Goto, Restoring
      <4> QED
        BY <1>1, <4>1 DEF Readable
    <3> QED
      BY <1>5, <3>1 DEF DecodeChip, RestoredDecodes, settings
  <2> QED
    BY <2>1, <2>2, <2>3
<1>6. ASSUME DecodeEnd PROVE ReaderInv'
  BY <1>6 DEF DecodeEnd, Goto, Numbers, Fresh, Restoring, RestoredDecodes,
     sender, settings
<1> QED
  BY <1>3, <1>4, <1>5, <1>6

LEMMA ReaderNext ==
  ASSUME ReaderInv, Next
  PROVE  ReaderInv'
<1>1. SettingsInv'
  BY SettingsNext DEF ReaderInv
<1>2. CASE Send \/ SenderStep
  BY <1>1, <1>2, SenderNext
<1>3. CASE ReaderStep
  BY <1>1, <1>3, RestoreNext, DecodeNext DEF ReaderStep
<1>4. ASSUME Change \/ UpdateCut PROVE ReaderInv'
  <2>1. UNCHANGED Reader /\ chip_id' = chip_id /\ Numbers' /\ Fresh'
    BY <1>4 DEF Change, UpdateCut, Reader, ReaderInv, Numbers, Fresh, sender, results
  <2>2. moved' \/ pc \in {"idle", "encode", "noise"}
    BY <1>4 DEF Change, UpdateCut, Arriving
  <2> QED
    BY <1>1, <2>1, <2>2, ReaderStays
<1>5. CASE StartUp \/ CommitCut
  <2>1. UNCHANGED Reader /\ chip_id' = chip_id /\ Numbers' /\ Fresh'
        /\ moved' = moved /\ UNCHANGED <<active, cutted>>
    BY <1>5 DEF StartUp, CommitCut, Reader, ReaderInv, Numbers, Fresh, sender, results, settings
  <2> QED
    BY <1>1, <2>1, ReaderStays
<1>6. CASE Show
  BY <1>1, <1>6 DEF Show, Goto, ReaderInv, Numbers, Fresh, Restoring, RestoredDecodes,
     sender, settings
<1> QED
  BY <1>2, <1>3, <1>4, <1>5, <1>6 DEF Next, MainStep, UserStep, StepCut, TypeCut, ChangeIkb

LEMMA ReaderInvariant == Spec => []ReaderInv
<1>1. ReaderInv /\ UNCHANGED vars => ReaderInv'
  <2>1. ASSUME ReaderInv, UNCHANGED vars PROVE ReaderInv'
    <3>1. /\ UNCHANGED Reader /\ chip_id' = chip_id /\ moved' = moved
          /\ UNCHANGED <<active, cutted>>
          /\ Numbers' /\ Fresh' /\ SettingsInv'
      BY <2>1 DEF vars, Reader, ReaderInv, Numbers, Fresh, SettingsInv, CutInForce, sender,
         settings, results
    <3> QED
      BY <2>1, <3>1, ReaderStays
  <2> QED
    BY <2>1
<1> QED
  BY <1>1, ReaderInit, ReaderNext, PTL DEF Spec

\* Whatever arrives, and whatever settings it was sent with, what ikb_noise_restore
\* makes of it can be decoded, while the receiver's settings stay.
THEOREM RestoredDecodesAlways == Spec => []RestoredDecodes
<1>1. ReaderInv => RestoredDecodes
  BY DEF ReaderInv
<1> QED
  BY <1>1, ReaderInvariant, PTL

-----------------------------------------------------------------------------
(* The buffers.                                                            *)

\* What TypeOK says of the settings, of the sender and of the receiver.
SettingsType ==
  /\ stage \in DOMAIN Stages
  /\ active \in Ikbs
  /\ \A k \in Ikbs : cutted[k] \in 1..sum(k)
  /\ {spin, entry} \subseteq {0} \cup Cuts \cup {sum(k) - 1 : k \in Ikbs}
  /\ panel \in [ikb : Ikbs, len : Nat]
  /\ gui \in {"idle", "update"}
  /\ changes \in 0..MaxChanges
  /\ moved \in BOOLEAN /\ unread \in BOOLEAN

SenderType ==
  /\ ikb \in Ikbs /\ cut \in {0} \cup Cuts /\ noise \in {0} \cup Noises
  /\ code \subseteq 0..(code_size * BITS_IN_BYTE - 1)
  /\ flipped \subseteq 0..(code_size * BITS_IN_BYTE - 1)

ReceiverType ==
  /\ pc \in {"idle", "encode", "noise", "refused", "arrived", "restore", "restored",
             "sized", "decode", "posted", "shown", "failed", "fault"}
  /\ chip_id \in 0..255
  /\ size \in 0..255
  /\ buffer \subseteq 0..(size * BITS_IN_BYTE - 1)
  /\ used \in Ikbs
  /\ chips_num \in Nat
  /\ msg_size \in 0..255 /\ allocated \in 0..255
  /\ text \subseteq 0..(msg_size * BITS_IN_BYTE - 1)
  /\ reply \in {"none", "text", "error"}
  /\ view \in {"blank", "text", "error"}
  /\ target \in BOOLEAN

TypeInv ==
  /\ SettingsType /\ SenderType /\ ReceiverType
  /\ pc = "idle" => code = {} /\ flipped = {}
  /\ pc = "posted" => reply = "text"

LEMMA TypeInvOK == TypeInv => TypeOK
  BY DEF TypeInv, SettingsType, SenderType, ReceiverType, TypeOK

LEMMA TypeInit == ASSUME Init PROVE TypeInv
<1>1. active \in Ikbs /\ 1 \in Ikbs
  BY FirstSettings DEF Ikbs, ikb_db
<1>2. SettingsType
  <2>1. cutted[active] \in Nat
    BY <1>1, FirstSettings
  <2>2. panel \in [ikb : Ikbs, len : Nat]
    BY <1>1, <2>1 DEF Init, Panel
  <2>3. stage \in DOMAIN Stages /\ changes \in 0..MaxChanges
    BY CodecAssumption DEF Init
  <2>4. gui = "idle" /\ moved = FALSE /\ unread = FALSE
    BY DEF Init
  <2> QED
    BY <1>1, <2>2, <2>3, <2>4, FirstSettings DEF SettingsType
<1>3. SenderType /\ code = {} /\ flipped = {}
  BY <1>1 DEF Init, SenderType
<1>4. buffer = {} /\ text = {} /\ size = 0 /\ msg_size = 0
  BY DEF Init
<1>5. ReceiverType
  <2>1. buffer \subseteq 0..(size * BITS_IN_BYTE - 1) /\ text \subseteq 0..(msg_size * BITS_IN_BYTE - 1)
    BY <1>4
  <2>2. /\ pc = "idle" /\ chip_id = 0 /\ used = 1 /\ chips_num = 0 /\ allocated = 0
        /\ reply = "none" /\ view = "blank" /\ target = FALSE
    BY DEF Init
  <2>3. /\ chip_id \in 0..255 /\ size \in 0..255 /\ msg_size \in 0..255 /\ allocated \in 0..255
        /\ used \in Ikbs /\ chips_num \in Nat
    BY <1>1, <1>4, <2>2
  <2> QED
    BY <2>1, <2>2, <2>3 DEF ReceiverType
<1> QED
  BY <1>2, <1>3, <1>5 DEF Init, TypeInv

\* A bundle keeps at least one bit of its chips, whatever the cut.
LEMMA CutType ==
  ASSUME SettingsType, SettingsInv, active' \in Ikbs,
         NEW value \in Cuts \cup {spin}, NEW number \in Cuts \cup {entry},
         SetCut(active', value, number)
  PROVE  /\ \A k \in Ikbs : cutted'[k] \in 1..sum(k)
         /\ {spin', entry'} \subseteq {0} \cup Cuts \cup {sum(k) - 1 : k \in Ikbs}
         /\ panel' \in [ikb : Ikbs, len : Nat]
         /\ unread' \in BOOLEAN
<1>1. \A k \in Ikbs : sum(k) \in Nat \ {0}
  BY SumType
<1>2. value \in Nat /\ {value, number} \subseteq {0} \cup Cuts \cup {sum(k) - 1 : k \in Ikbs}
  BY CodecAssumption DEF SettingsType, SettingsInv
<1>3. CuttedLen(active', value) \in 1..sum(active')
  BY <1>1, <1>2 DEF CuttedLen
<1>4. Least(value, sum(active') - 1) \in {0} \cup Cuts \cup {sum(k) - 1 : k \in Ikbs}
  BY <1>2 DEF Least
<1>5. CuttedLen(active', value) \in Nat
  BY <1>1, <1>3
<1>6. entry' \in {0} \cup Cuts \cup {sum(k) - 1 : k \in Ikbs}
  BY <1>2 DEF SetCut
<1> QED
  BY <1>3, <1>4, <1>5, <1>6 DEF SetCut, SettingsType, SettingsInv, Panel

LEMMA SettingsTypeNext ==
  ASSUME SettingsType, SettingsInv, Next
  PROVE  SettingsType'
<1>1. CASE UNCHANGED <<stage, settings>>
  BY <1>1 DEF SettingsType, settings
<1>2. CASE SenderStep \/ ReaderStep \/ Show \/ Send
  BY <1>1, <1>2 DEF SenderStep, EncodeChip, EncodeEnd, NoiseBit, Write,
     ReaderStep, RestoreCall, RestoreChip, RestoreEnd, SizeCall, DecodeCall,
     DecodeChip, DecodeEnd, Show, Send
<1>3. CASE StartUp
  BY <1>3 DEF StartUp, SettingsType, settings, Stages
<1>4. ASSUME NEW c \in Cuts, StepCut(c) \/ TypeCut(c) PROVE SettingsType'
  <2>0. Change /\ active' = active /\ gui' = gui
    BY <1>4 DEF StepCut, TypeCut
  <2>1. active' = active /\ gui' = gui /\ stage' = stage
        /\ changes' \in 0..MaxChanges /\ moved' \in BOOLEAN
    BY <2>0, CodecAssumption DEF Change, SettingsType, Arriving
  <2>2. SetCut(active', c, c) \/ SetCut(active', spin, c)
    BY <1>4 DEF StepCut, TypeCut
  <2> QED
    BY <2>1, <2>2, CutType DEF SettingsType, SettingsInv
<1>7. CASE CommitCut
  BY <1>7 DEF CommitCut, SettingsType
<1>5. ASSUME NEW k \in UsedIkbs, ChangeIkb(k) PROVE SettingsType'
  BY <1>5, CodecAssumption DEF ChangeIkb, Change, SettingsType, Arriving
<1>6. CASE UpdateCut
  <2>1. active' = active /\ SetCut(active', spin, entry) /\ gui' = "idle" /\ stage' = stage
        /\ changes' = changes /\ moved' \in BOOLEAN
    BY <1>6 DEF UpdateCut, Arriving
  <2> QED
    BY <2>1, CutType DEF SettingsType, SettingsInv
<1> QED
  BY <1>2, <1>3, <1>4, <1>5, <1>6, <1>7 DEF Next, MainStep, UserStep

LEMMA Multiple ==
  ASSUME NEW a \in Nat, NEW b \in Nat \ {0}
  PROVE  (a \div b) * b <= a
<1>1. a \div b \in Nat /\ a % b \in Nat /\ a = b * (a \div b) + (a % b)
  BY Division
<1> QED
  BY <1>1

\* The chips of a message, and the bits that noise may turn over, are in the code buffer.
LEMMA CodeBounds ==
  ASSUME Numbers
  PROVE  /\ encode_ability(ikb) \in Nat \ {0} /\ len \in Nat \ {0}
         /\ code_size \in Nat
         /\ \A i \in Nat : i < tx_chips => i * len + len <= code_size * BITS_IN_BYTE
         /\ NoisedBits(code_size, len) <= code_size * BITS_IN_BYTE
<1>1. encode_ability(ikb) \in Nat \ {0} /\ len \in Nat \ {0} /\ msg.size \in Nat
  BY AbilityType, SumType DEF Numbers, len, CuttedLen
<1>2. code_size \in Nat /\ tx_chips \in Nat /\ (tx_chips > 0 => tx_chips * len < 8 * code_size)
  <2>1. CASE msg.size = 0
    BY <2>1 DEF code_size, tx_chips, CodeBytes, TxChips
  <2>2. CASE msg.size # 0
    BY <1>1, <2>2, ChipsCover, BytesCover DEF code_size, tx_chips
  <2> QED
    BY <2>1, <2>2
<1>3. ASSUME NEW i \in Nat, i < tx_chips PROVE i * len + len <= code_size * BITS_IN_BYTE
  <2>1. i * len + len <= tx_chips * len /\ i * len \in Nat /\ tx_chips * len \in Nat
    BY <1>1, <1>2, <1>3, Positions
  <2> HIDE DEF len, tx_chips, code_size
  <2> QED
    BY <1>1, <1>2, <1>3, <2>1 DEF BITS_IN_BYTE
<1>4. NoisedBits(code_size, len) <= code_size * BITS_IN_BYTE
  <2>1. code_size * BITS_IN_BYTE \in Nat
    BY <1>2 DEF BITS_IN_BYTE
  <2> HIDE DEF len, code_size
  <2> QED
    BY <1>1, <2>1, Multiple DEF NoisedBits
<1> QED
  BY <1>1, <1>2, <1>3, <1>4

\* One action changes only a few of the buffers.
LEMMA SenderTypeNext ==
  ASSUME TypeInv, ReaderInv, Next
  PROVE  SenderType' /\ (pc' = "idle" => code' = {} /\ flipped' = {})
<1> USE DEF TypeInv
<1>1. Numbers
  BY DEF ReaderInv
<1>2. /\ encode_ability(ikb) \in Nat \ {0} /\ len \in Nat \ {0} /\ code_size \in Nat
      /\ \A i \in Nat : i < tx_chips => i * len + len <= code_size * BITS_IN_BYTE
      /\ NoisedBits(code_size, len) <= code_size * BITS_IN_BYTE
  BY <1>1, CodeBounds
<1>3. ASSUME UNCHANGED sender, pc' = pc \/ pc' # "idle"
      PROVE  SenderType' /\ (pc' = "idle" => code' = {} /\ flipped' = {})
  BY <1>3 DEF SenderType, sender, code_size, len
<1>4. CASE Send
  <2>1. code' = {} /\ flipped' = {}
    BY <1>4 DEF Send, Goto
  <2> QED
    BY <1>4, <2>1, CodecAssumption DEF Send, Goto, SenderType
<1>5. CASE EncodeChip
  <2> DEFINE chip == Cut(codes[ikb][UnitAt(msg.bits, chip_id * encode_ability(ikb),
                       Least(chip_id * encode_ability(ikb) + encode_ability(ikb), msg_bits))], len)
  <2>1. code' = code \cup {chip_id * len + b : b \in chip} /\ chip_id < tx_chips
        /\ pc' = "encode" /\ UNCHANGED <<ikb, cut, noise, msg, flipped>>
    BY <1>5 DEF EncodeChip
  <2>2. chip \subseteq 0..(len - 1)
    BY DEF Cut
  <2> HIDE DEF chip
  <2>3. chip_id \in Nat /\ chip_id * len \in Nat
        /\ chip_id * len + len <= code_size * BITS_IN_BYTE
    BY <1>1, <1>2, <2>1 DEF Numbers
  <2>4. \A b \in chip : chip_id * len + b \in 0..(code_size * BITS_IN_BYTE - 1)
    <3> DEFINE start == chip_id * len
               bound == code_size * BITS_IN_BYTE
    <3>1. bound \in Nat
      BY <1>2 DEF BITS_IN_BYTE
    <3> HIDE DEF start, bound
    <3>2. \A b \in chip : start + b \in 0..(bound - 1)
      BY <1>2, <2>2, <2>3, <3>1 DEF start, bound
    <3> QED
      BY <3>2 DEF start, bound
  <2>5. code' \subseteq 0..(code_size * BITS_IN_BYTE - 1)
    BY <2>1, <2>4 DEF SenderType
  <2>6. code_size' = code_size
    BY <2>1 DEF code_size, len
  <2> QED
    BY <2>1, <2>5, <2>6 DEF SenderType
<1>6. ASSUME NEW b \in 0..(NoisedBits(code_size, len) - 1), NoiseBit(b)
      PROVE  SenderType' /\ (pc' = "idle" => code' = {} /\ flipped' = {})
  <2>1. flipped' = flipped \cup {b} /\ pc' = "noise" /\ UNCHANGED <<ikb, cut, noise, msg, code>>
    BY <1>6 DEF NoiseBit
  <2>2. code_size' = code_size
    BY <2>1 DEF code_size, len
  <2>3. NoisedBits(code_size, len) \in Int /\ code_size * BITS_IN_BYTE \in Nat
    <3>1. code_size * BITS_IN_BYTE \in Nat
      BY <1>2 DEF BITS_IN_BYTE
    <3>2. (code_size * BITS_IN_BYTE) \div len \in Nat
      <4> HIDE DEF len, code_size
      <4> QED
        BY <1>2, <3>1, Division
    <3> QED
      BY <1>2, <3>1, <3>2 DEF NoisedBits
  <2>4. b \in 0..(code_size * BITS_IN_BYTE - 1)
    BY <1>2, <1>6, <2>3
  <2> QED
    BY <2>1, <2>2, <2>4 DEF SenderType
<1>7. CASE EncodeEnd \/ Write \/ ReaderStep \/ MainStep \/ CommitCut
  <2>1. UNCHANGED sender /\ (pc' = pc \/ pc' # "idle")
    BY <1>7 DEF EncodeEnd, Write, Goto, ReaderStep, RestoreCall, RestoreChip, RestoreEnd, SizeCall,
       DecodeCall, DecodeChip, DecodeEnd, MainStep, StartUp, Show, UpdateCut, CommitCut
  <2> QED
    BY <1>3, <2>1
<1>8. CASE Change
  BY <1>3, <1>8 DEF Change
<1> QED
  BY <1>4, <1>5, <1>6, <1>7, <1>8 DEF Next, SenderStep, UserStep, StepCut, TypeCut, ChangeIkb

LEMMA ReceiverTypeNext ==
  ASSUME TypeInv, ReaderInv, Next
  PROVE  ReceiverType'
<1>1. /\ Numbers /\ active \in Ikbs /\ cutted[active] \in Nat \ {0}
      /\ (pc \notin {"decode", "posted", "shown", "failed"} => text = {})
  BY DEF ReaderInv, SettingsInv, Fresh
<1>2. ReceiverType
  BY DEF TypeInv
<1>3. \A s \in Nat : /\ RxChips(s, cutted[active]) \in Nat
                     /\ RestoredChips(s, cutted[active]) \in Nat
                     /\ MsgBytes(s, encode_ability(active), cutted[active]) \in 0..255
  <2>1. ASSUME NEW s \in Nat
        PROVE  /\ RxChips(s, cutted[active]) \in Nat
               /\ RestoredChips(s, cutted[active]) \in Nat
               /\ MsgBytes(s, encode_ability(active), cutted[active]) \in 0..255
    <3>1. RxChips(s, cutted[active]) \in Nat
          /\ RestoredChips(s, cutted[active]) = RxChips(s, cutted[active]) + 1
      BY <1>1, CountsType
    <3>2. RxChips(s, cutted[active]) * encode_ability(active) \in Nat
      BY <1>1, <3>1, AbilityType
    <3>3. (RxChips(s, cutted[active]) * encode_ability(active)) \div 8 \in Nat
      BY <3>2, Division
    <3> QED
      BY <3>1, <3>3 DEF MsgBytes, BITS_IN_BYTE, u8
  <2> QED
    BY <2>1
<1>4. NextChip(chip_id) \in 0..255
  BY <1>2 DEF ReceiverType, NextChip, u8
<1>5. CASE UNCHANGED <<size, buffer, used, chips_num, msg_size, allocated, text, reply, view, target>>
           /\ chip_id' \in {chip_id, 0, NextChip(chip_id)}
           /\ pc' \in {pc, "encode", "noise", "refused", "fault", "restored"}
  BY <1>2, <1>4, <1>5 DEF ReceiverType
<1>6. CASE SenderStep \/ Send \/ Change \/ CommitCut \/ UpdateCut \/ StartUp
  <2>1. CASE \/ EncodeChip \/ EncodeEnd \/ (\E b : NoiseBit(b)) \/ Send
              \/ Change \/ CommitCut \/ UpdateCut \/ StartUp
    BY <1>5, <2>1 DEF EncodeChip, EncodeEnd, NoiseBit, Send, Goto, Change, CommitCut, UpdateCut, StartUp, results
  <2>2. CASE Write
    <3>1. u8(code_size) \in 0..255
      <4>1. code_size \in Nat
        BY <1>1, CodeBounds
      <4> QED
        BY <4>1 DEF u8
    <3>2. \A n \in Nat : Slice(noised_code, 0, n) \subseteq 0..(n - 1)
      BY DEF Slice
    <3>3. size' \in 0..255 /\ buffer' \subseteq 0..(size' * BITS_IN_BYTE - 1) /\ target' \in BOOLEAN
          /\ pc' \in {"refused", "arrived"}
          /\ UNCHANGED <<chip_id, used, chips_num, msg_size, allocated, text, reply, view>>
      <4>1. u8(code_size) * BITS_IN_BYTE \in Nat
        BY <3>1 DEF BITS_IN_BYTE
      <4> QED
        BY <1>2, <2>2, <3>1, <3>2, <4>1 DEF Write, Goto, ReceiverType, results
    <3> QED
      BY <1>2, <3>3 DEF ReceiverType
  <2> QED
    BY <1>6, <2>1, <2>2 DEF SenderStep
<1>7. CASE Show
  <2>1. /\ pc' = "shown" /\ (view' = reply \/ view' = view)
        /\ UNCHANGED <<chip_id, size, buffer, used, chips_num, msg_size, allocated, text, reply, target>>
    BY <1>7 DEF Show, Goto
  <2>2. reply = "text"
    BY <1>7 DEF Show, Goto, TypeInv
  <2> QED
    BY <1>2, <2>1, <2>2 DEF ReceiverType
<1>8. CASE RestoreCall
  <2>1. size \in Nat
    BY <1>1 DEF Numbers
  <2> QED
    BY <1>1, <1>2, <1>3, <1>8, <2>1 DEF RestoreCall, Goto, ReceiverType
<1>9. CASE RestoreChip
  <2> DEFINE n == cutted[used]
             from == chip_id * n
             to == Least(from + n, size * BITS_IN_BYTE)
             chip == Restored(used, n, ChipAt(buffer, chip_id, n))
  <2>1. /\ buffer' = (buffer \ from..(to - 1)) \cup {from + b : b \in Slice(chip, 0, to - from)}
        /\ chip_id' = NextChip(chip_id) /\ pc' = pc
        /\ UNCHANGED <<size, used, chips_num, msg_size, allocated, text, reply, view, target>>
    BY <1>9 DEF RestoreChip, results
  <2>2. n \in Nat /\ from \in Nat /\ to \in Nat /\ to <= size * BITS_IN_BYTE
    <3>1. n \in Nat
      BY <1>2 DEF ReaderInv, SettingsInv, ReceiverType
    <3>2. from \in Nat
      BY <1>1, <3>1 DEF Numbers
    <3> HIDE DEF n, from
    <3> QED
      BY <1>1, <3>1, <3>2 DEF Numbers, Least, BITS_IN_BYTE
  <2> HIDE DEF n, from, to, chip
  <2>3. \A b \in Slice(chip, 0, to - from) : from + b \in 0..(size * BITS_IN_BYTE - 1)
    <3>1. size * BITS_IN_BYTE \in Nat
      BY <1>1 DEF Numbers, BITS_IN_BYTE
    <3>2. \A b \in Slice(chip, 0, to - from) : b \in 0..((to - from) - 1)
      BY <2>2 DEF Slice
    <3> QED
      BY <2>2, <3>1, <3>2
  <2>4. buffer' \subseteq 0..(size * BITS_IN_BYTE - 1)
    BY <1>2, <2>1, <2>3 DEF ReceiverType
  <2> QED
    BY <1>2, <1>4, <2>1, <2>4 DEF ReceiverType
<1>10. CASE RestoreEnd
  BY <1>5, <1>10 DEF RestoreEnd, Goto, results
<1>11. CASE SizeCall
  <2>1. size \in Nat
    BY <1>1 DEF Numbers
  <2> QED
    BY <1>2, <1>3, <1>11, <2>1 DEF SizeCall, Goto, ReceiverType, results
<1>12. CASE DecodeCall
  <2>1. size \in Nat /\ text = {}
    BY <1>1, <1>12 DEF Numbers, DecodeCall, Goto
  <2> QED
    BY <1>1, <1>2, <1>3, <1>12, <2>1 DEF DecodeCall, Goto, ReceiverType, results
<1>13. CASE DecodeChip
  <2> DEFINE e == encode_ability(used)
             from == chip_id * e
             to == Least(from + e, msg_size * BITS_IN_BYTE)
             unit == DecodedUnit(used, cutted[used], ChipAt(buffer, chip_id, cutted[used]))
  <2>1. /\ text' \in {text, text \cup BitsOf(unit, from, to)}
        /\ chip_id' \in {chip_id, NextChip(chip_id)} /\ pc' \in {pc, "failed"}
        /\ reply' \in {reply, "error"}
        /\ UNCHANGED <<size, buffer, used, chips_num, msg_size, allocated, view, target>>
    BY <1>13 DEF DecodeChip, Goto
  <2>2. from \in Nat /\ to \in Nat /\ to <= msg_size * BITS_IN_BYTE
    <3>1. e \in Nat
      BY <1>2, AbilityType DEF ReceiverType
    <3>2. from \in Nat
      BY <1>1, <3>1 DEF Numbers
    <3> HIDE DEF e, from
    <3> QED
      BY <1>1, <3>1, <3>2 DEF Numbers, Least, BITS_IN_BYTE
  <2> HIDE DEF e, from, to, unit
  <2>3. BitsOf(unit, from, to) \subseteq 0..(msg_size * BITS_IN_BYTE - 1)
    <3>1. msg_size * BITS_IN_BYTE \in Nat
      BY <1>1 DEF Numbers, BITS_IN_BYTE
    <3>2. BitsOf(unit, from, to) \subseteq from..(to - 1)
      BY DEF BitsOf
    <3> QED
      BY <2>2, <3>1, <3>2
  <2>4. text' \subseteq 0..(msg_size * BITS_IN_BYTE - 1)
    BY <1>2, <2>1, <2>3 DEF ReceiverType
  <2> QED
    BY <1>2, <1>4, <2>1, <2>4 DEF ReceiverType
<1>14. CASE DecodeEnd
  <2>1. /\ pc' = "posted" /\ reply' = "text"
        /\ UNCHANGED <<chip_id, size, buffer, used, chips_num, msg_size, allocated, text, view, target>>
    BY <1>14 DEF DecodeEnd, Goto
  <2> QED
    BY <1>2, <2>1 DEF ReceiverType
<1> QED
  BY <1>6, <1>7, <1>8, <1>9, <1>10, <1>11, <1>12, <1>13, <1>14
  DEF Next, ReaderStep, MainStep, UserStep, StepCut, TypeCut, ChangeIkb

LEMMA TypeInvariant == Spec => []TypeInv
<1>1. TypeInv /\ ReaderInv /\ Next => TypeInv'
  <2>1. TypeInv /\ Next => (pc' = "posted" => reply' = "text")
    BY DEF TypeInv, Next, SenderStep, EncodeChip, EncodeEnd, NoiseBit, Write, ReaderStep,
       RestoreCall, RestoreChip, RestoreEnd, SizeCall, DecodeCall, DecodeChip, DecodeEnd,
       MainStep, StartUp, Show, UpdateCut, UserStep, Send, StepCut, TypeCut, CommitCut, ChangeIkb,
       Change, Goto, results
  <2> QED
    BY <2>1, SettingsTypeNext, SenderTypeNext, ReceiverTypeNext DEF TypeInv, ReaderInv
<1>2. TypeInv /\ UNCHANGED vars => TypeInv'
  BY DEF TypeInv, SettingsType, SenderType, ReceiverType, vars, sender, settings, results,
     code_size, len
<1> QED
  BY <1>1, <1>2, TypeInit, ReaderInvariant, PTL DEF Spec

\* The types of Codec, for any texts, settings and changes of them: encoding, noise and
\* restoring stay within the code they work on, decoding within the size of message that
\* the decoding call itself computes. This is not the size that was allocated: Codec's
\* TextFits says that it is, and the code breaks it.
THEOREM CodecTypeCorrect == Spec => []TypeOK
  BY TypeInvOK, TypeInvariant, PTL

=============================================================================
