------------------------------ MODULE IkbCode ------------------------------
(***************************************************************************)
(* The code of ikb.c: Ideal Key Bundles, their encoding tables, the sizes  *)
(* of messages and codes, and what encoding, restoring and decoding do to  *)
(* one chip.                                                               *)
(*                                                                         *)
(* A buffer, a code and a chip are sets of bit positions, those of the     *)
(* bits that are 1. Position 0 is the most significant bit of byte 0.      *)
(***************************************************************************)
EXTENDS Integers, Sequences, FiniteSets, FiniteSetsExt

BITS_IN_BYTE == 8

u8(n) == n % 256                      \* conversion to uint8_t

\* The bundles that ikb_codes_init knows.
ikb_db == << <<1, 2, 3, 7>>,
             <<1, 1, 2, 3>>,
             <<1, 1, 2, 1, 2, 4>>,
             <<1, 1, 1, 2, 2, 1, 3, 4>>,
             <<1, 1, 1, 2, 2, 1, 3, 1, 3, 2, 6>> >>

Ikbs == DOMAIN ikb_db

-----------------------------------------------------------------------------
(* ikb_init: parameters and encoding table of the k-th bundle.             *)

degree(k) == Len(ikb_db[k])
power(k) == Cardinality({i \in DOMAIN ikb_db[k] : ikb_db[k][i] = 1})
sum(k) == (degree(k) * (degree(k) - 1)) \div power(k) + 1
err_fixed(k) == degree(k) - power(k) - 1

\* bits_encode_ability: the bits that one code can stand for.
encode_ability(k) == CHOOSE e \in 0..7 : 2^e <= sum(k) /\ sum(k) < 2^(e + 1)

\* One-bits stand where the partial sums of the sequence, started at i, end.
Code(k, i) ==
  {(i + SumFunctionOnSet(ikb_db[k], 1..j)) % sum(k) : j \in 0..(degree(k) - 1)}

codes == [k \in Ikbs |-> [i \in 0..(sum(k) - 1) |-> Code(k, i)]]

\* update_chip_cut_length: chips lose their last bits, at least one bit stays.
CuttedLen(k, cut) == IF cut >= sum(k) THEN 1 ELSE sum(k) - cut
Cut(code, len) == code \cap 0..(len - 1)

-----------------------------------------------------------------------------
(* Sizes: n bytes of message, e bits to a chip, chips of len bits.         *)

\* Mutant: no chip for the bits that are left over.
TxWholeChips(n, e) == (n * BITS_IN_BYTE) \div e

TxChips(n, e) == IF n > 0 THEN (n * BITS_IN_BYTE) \div e + 1 ELSE 0

CodeBytes(n, e, len) ==
  IF n > 0 THEN (TxChips(n, e) * len) \div BITS_IN_BYTE + 1 ELSE 0

\* Mutant: noise reaches into the chip that the code buffer has only a part of.
NoisedBitsUp(size, len) == ((size * BITS_IN_BYTE) \div len + 1) * len

\* send_msg_cb: noise stays within whole chips of the code buffer.
NoisedBits(size, len) == ((size * BITS_IN_BYTE) \div len) * len

RestoredChips(size, len) == (size * BITS_IN_BYTE) \div len + 1

RxChips(size, len) == (size * BITS_IN_BYTE) \div len

MsgBytes(size, e, len) == u8((RxChips(size, len) * e) \div BITS_IN_BYTE)

-----------------------------------------------------------------------------
(* One chip.                                                               *)

Least(x, y) == IF x < y THEN x ELSE y

\* The bits of a buffer from one position up to another, moved to the front.
Slice(buffer, from, to) == {b - from : b \in buffer \cap from..(to - 1)}

\* ikb_encode, step 1: the bits of a message as a number, first bit highest.
UnitAt(message, from, to) ==
  MapThenSumSet(LAMBDA b : 2^(to - 1 - b), message \cap from..(to - 1))

\* ikb_decode, step 3: the low bits of a number, highest bit first.
BitsOf(unit, from, to) ==
  {b \in from..(to - 1) : (unit \div 2^(to - 1 - b)) % 2 = 1}

\* The number of bits in which two chips differ.
Missed(x, y) == Cardinality((x \ y) \cup (y \ x))

\* ikb_noise_restore, step 2: the codes that miss the fewest bits, and of these
\* the first. Some code always misses less than the whole chip.
Misses(k, len, chip) == [i \in DOMAIN codes[k] |-> Missed(Cut(codes[k][i], len), chip)]

FirstWith(missed, n) == CHOOSE i \in DOMAIN missed :
                          missed[i] = n /\ \A j \in 0..(i - 1) : missed[j] # n

\* Mutants: the nearest code is taken however far it is; a chip with too many
\* errors stays as it arrived.
RestoredNearest(k, len, chip) ==
  LET missed == Misses(k, len, chip)
  IN  Cut(codes[k][FirstWith(missed, Min({missed[i] : i \in DOMAIN missed}))], len)

RestoredOrKept(k, len, chip) ==
  IF Min({Misses(k, len, chip)[i] : i \in DOMAIN codes[k]}) <= err_fixed(k)
  THEN RestoredNearest(k, len, chip)
  ELSE chip

\* A chip with too many errors becomes zeroes.
Restored(k, len, chip) ==
  LET missed == Misses(k, len, chip)
      best == Min({missed[i] : i \in DOMAIN missed})
  IN  IF best <= err_fixed(k) THEN Cut(codes[k][FirstWith(missed, best)], len) ELSE {}

\* ikb_decode, step 2: the codes a chip equals. A chip of zeroes stands for 0.
Matching(k, len, chip) == {i \in DOMAIN codes[k] : Cut(codes[k][i], len) = chip}

Decodable(k, len, chip) == Matching(k, len, chip) # {} \/ chip = {}

\* Mutant: the search goes on after a code that the chip equals.
DecodedUnitLast(k, len, chip) ==
  IF Matching(k, len, chip) # {} THEN Max(Matching(k, len, chip)) ELSE 0

DecodedUnit(k, len, chip) ==
  IF Matching(k, len, chip) # {} THEN Min(Matching(k, len, chip)) ELSE 0

-----------------------------------------------------------------------------
(* What a table is good for: the number of bits in which two codes of it   *)
(* differ at least. (min_code_dist of ikb.c:95, which nothing reads, is    *)
(* another number.)                                                        *)

Pairs(k) == {p \in (DOMAIN codes[k]) \X (DOMAIN codes[k]) : p[1] # p[2]}

distance == [k \in Ikbs |-> Min({Missed(codes[k][p[1]], codes[k][p[2]]) : p \in Pairs(k)})]

=============================================================================
