------------------------------- MODULE Codec -------------------------------
(***************************************************************************)
(* One message on its way from the entry of one client to the view of the  *)
(* other. The sender is one thread: send_msg_cb encodes the text chip by   *)
(* chip (ikb_encode), turns bits over (ikb_noise_apply) and hands the code *)
(* to channel_write, which takes its length as a uint8_t.                  *)
(*                                                                         *)
(* The receiver is two threads. rx_reader runs on the polling thread: it   *)
(* restores the code chip by chip (ikb_noise_restore), asks ikb_decode for *)
(* the size of the message, decodes chip by chip (ikb_decode) and leaves   *)
(* the text to an idle callback of the event loop. The main thread starts  *)
(* the client after the polling thread (client_init), and then changes the *)
(* bundle and the cut that rx_reader reads, without a lock. The settings   *)
(* are read once for every call and once for every chip.                   *)
(***************************************************************************)
EXTENDS IkbCode

CONSTANTS
  UsedIkbs,     \* bundles the users select
  Cuts,         \* values of the spin button "cut" (0..10 in the program)
  Noises,       \* values of the spin button "noise" (0..10 in the program)
  Messages,     \* texts the user enters: records of a size in bytes and bits
  FirstStages,  \* how far the receiver has started when the run begins,
  FirstCuts,    \* and what its user has already cut the chips of a bundle by
  MaxChanges    \* bound: changes of the receiver's settings

\* How far the main thread of the receiver is: g_ikb_db is NULL, zeroed, has
\* an encoding ability but not all codes, is complete, and the window is up.
Stages == <<"null", "zeroed", "partial", "table", "gui">>

ASSUME CodecAssumption ==
  /\ UsedIkbs \subseteq Ikbs
  /\ Cuts \subseteq Nat
  /\ Noises \subseteq Nat
  /\ \A m \in Messages : m.size \in 0..255 /\ m.bits \subseteq 0..(m.size * BITS_IN_BYTE - 1)
  /\ FirstStages \subseteq DOMAIN Stages
  /\ FirstCuts \subseteq Cuts
  /\ MaxChanges \in Nat

VARIABLES
  pc,         \* the loop that runs, first of the sender, then of rx_reader
  \* Sender: settings and buffers
  ikb, cut, noise, msg,
  chip_id,    \* the counter of the loop, a uint8_t
  code,       \* the code buffer
  flipped,    \* the bits of it that noise turned over
  \* Polling thread of the receiver: local variables of rx_reader
  size,       \* the length of the buffer that arrived
  buffer,     \* restored_buffer_p
  used,       \* the bundle of the current call
  chips_num,
  msg_size, allocated,   \* message_size, and the size message_p got
  text,       \* message_p
  reply,      \* data->message_p
  target,     \* data->buffer_p is not NULL
  \* Main thread of the receiver
  stage,      \* index in Stages
  active,     \* g_active_ikb_id
  cutted,     \* cutted_len_bits of every bundle
  spin,       \* the value of the spin button "cut"
  entry,      \* the number that the spin button shows
  panel,      \* the bundle and the chip length that the values panel shows
  gui,        \* "idle", or "update" in ikb_changed_cb
  view,       \* what the receive window shows
  changes,    \* changes of settings so far
  \* History: settings changed since the message arrived; the spin button took a
  \* typed number over, and update_chip_cut_length has not read its value since
  moved, unread

sender   == <<ikb, cut, noise, msg, code, flipped>>
settings == <<active, cutted, spin, entry, panel, gui, changes, moved, unread>>
results  == <<text, reply, view>>
vars == <<pc, sender, chip_id, size, buffer, used, chips_num, msg_size, allocated,
          results, target, stage, settings>>

len == CuttedLen(ikb, cut)
msg_bits == msg.size * BITS_IN_BYTE
code_size == CodeBytes(msg.size, encode_ability(ikb), len)
tx_chips == TxChips(msg.size, encode_ability(ikb))
noised_code == (code \ flipped) \cup (flipped \ code)

\* Mutant: a counter of seven bits.
NextChipShort(i) == (i + 1) % 128

NextChip(i) == u8(i + 1)

\* update_values_panel: what its labels are made of.
Panel(k, n) == [ikb |-> k, len |-> n]

Init ==
  /\ pc = "idle"
  /\ ikb = 1
  /\ cut = 0
  /\ noise = 0
  /\ msg = [size |-> 0, bits |-> {}]
  /\ chip_id = 0
  /\ code = {}
  /\ flipped = {}
  /\ size = 0
  /\ buffer = {}
  /\ used = 1
  /\ chips_num = 0
  /\ msg_size = 0
  /\ allocated = 0
  /\ text = {}
  /\ reply = "none"
  /\ target = FALSE
  /\ stage \in FirstStages
  /\ \/ /\ Stages[stage] # "gui"
        /\ active = 1
        /\ spin = 0
        /\ cutted = [k \in Ikbs |-> sum(k)]
     \/ /\ Stages[stage] = "gui"
        /\ active \in UsedIkbs
        /\ \E cuts \in [UsedIkbs -> FirstCuts] :
             /\ spin = Least(cuts[active], sum(active) - 1)
             /\ cutted = [k \in Ikbs |-> IF k \in UsedIkbs THEN CuttedLen(k, cuts[k]) ELSE sum(k)]
  /\ entry = spin
  /\ panel = Panel(active, cutted[active])
  /\ gui = "idle"
  /\ view = "blank"
  /\ changes = 0
  /\ moved = FALSE
  /\ unread = FALSE

Goto(from, to) ==
  /\ pc = from
  /\ pc' = to

-----------------------------------------------------------------------------
(* send_msg_cb                                                             *)

\* The user chooses the settings, enters a text and presses "send".
Send ==
  /\ Goto("idle", "encode")
  /\ ikb' \in UsedIkbs
  /\ cut' \in Cuts
  /\ noise' \in Noises
  /\ msg' \in Messages
  /\ UNCHANGED <<chip_id, code, flipped, size, buffer, used, chips_num, msg_size,
                 allocated, results, target, stage, settings>>

EncodeChip ==
  LET from == chip_id * encode_ability(ikb)
      unit == UnitAt(msg.bits, from, Least(from + encode_ability(ikb), msg_bits))
  IN
  /\ pc = "encode"
  /\ chip_id < tx_chips
  /\ code' = code \cup {chip_id * len + b : b \in Cut(codes[ikb][unit], len)}
  /\ chip_id' = NextChip(chip_id)
  /\ UNCHANGED <<pc, ikb, cut, noise, msg, flipped, size, buffer, used, chips_num,
                 msg_size, allocated, results, target, stage, settings>>

EncodeEnd ==
  /\ Goto("encode", "noise")
  /\ chip_id >= tx_chips
  /\ chip_id' = 0
  /\ UNCHANGED <<sender, size, buffer, used, chips_num, msg_size, allocated, results,
                 target, stage, settings>>

\* The loop over the bits, from one bit it turns over to the next.
NoiseBit(b) ==
  /\ pc = "noise"
  /\ Cardinality(flipped) < noise
  /\ \A f \in flipped : f < b
  /\ flipped' = flipped \cup {b}
  /\ UNCHANGED <<pc, ikb, cut, noise, msg, code, chip_id, size, buffer, used, chips_num,
                 msg_size, allocated, results, target, stage, settings>>

\* channel_write refuses a length of 0; else that many bytes arrive, and the
\* polling thread of the receiver calls rx_reader.
Write ==
  /\ \/ /\ Goto("noise", "refused")
        /\ u8(code_size) = 0
        /\ UNCHANGED <<size, buffer, target>>
     \/ /\ Goto("noise", "arrived")
        /\ u8(code_size) # 0
        /\ size' = u8(code_size)
        /\ buffer' = Slice(noised_code, 0, u8(code_size) * BITS_IN_BYTE)
        /\ target' = (Stages[stage] = "gui")
  /\ UNCHANGED <<sender, chip_id, used, chips_num, msg_size, allocated, results, stage,
                 settings>>

-----------------------------------------------------------------------------
(* rx_reader                                                               *)

ChipAt(bits, i, n) == Slice(bits, i * n, Least((i + 1) * n, size * BITS_IN_BYTE))

\* The start of ikb_noise_restore: a table that is not there is a fault, a
\* zeroed one cannot be used.
RestoreCall ==
  /\ \/ /\ Goto("arrived", "fault")
        /\ Stages[stage] \in {"null", "partial"}
        /\ UNCHANGED <<used, chips_num, reply>>
     \/ /\ Goto("arrived", "failed")
        /\ Stages[stage] = "zeroed"
        /\ reply' = "error"
        /\ UNCHANGED <<used, chips_num>>
     \/ /\ Goto("arrived", "restore")
        /\ Stages[stage] \in {"table", "gui"}
        /\ used' = active
        /\ chips_num' = RestoredChips(size, cutted[active])
        /\ UNCHANGED reply
  /\ UNCHANGED <<sender, chip_id, size, buffer, msg_size, allocated, text, view, target,
                 stage, settings>>

RestoreChip ==
  LET n == cutted[used]
      from == chip_id * n
      to == Least(from + n, size * BITS_IN_BYTE)
      chip == Restored(used, n, ChipAt(buffer, chip_id, n))
  IN
  /\ pc = "restore"
  /\ chip_id < chips_num
  /\ buffer' = (buffer \ from..(to - 1)) \cup {from + b : b \in Slice(chip, 0, to - from)}
  /\ chip_id' = NextChip(chip_id)
  /\ UNCHANGED <<pc, sender, size, used, chips_num, msg_size, allocated, results, target,
                 stage, settings>>

RestoreEnd ==
  /\ Goto("restore", "restored")
  /\ chip_id >= chips_num
  /\ chip_id' = 0
  /\ UNCHANGED <<sender, size, buffer, used, chips_num, msg_size, allocated, results,
                 target, stage, settings>>

\* The first call of ikb_decode, without a buffer, and the allocation.
SizeCall ==
  /\ Goto("restored", "sized")
  /\ allocated' = MsgBytes(size, encode_ability(active), cutted[active])
  /\ UNCHANGED <<sender, chip_id, size, buffer, used, chips_num, msg_size, results, target,
                 stage, settings>>

\* The start of the second call of ikb_decode.
DecodeCall ==
  /\ Goto("sized", "decode")
  /\ used' = active
  /\ chips_num' = RxChips(size, cutted[active])
  /\ msg_size' = MsgBytes(size, encode_ability(active), cutted[active])
  /\ UNCHANGED <<sender, chip_id, size, buffer, allocated, results, target, stage, settings>>

\* A chip that is neither a code nor zeroes ends the call, and rx_reader.
DecodeChip ==
  LET n == cutted[used]
      from == chip_id * encode_ability(used)
      to == Least(from + encode_ability(used), msg_size * BITS_IN_BYTE)
      chip == ChipAt(buffer, chip_id, n)
  IN
  /\ chip_id < chips_num
  /\ \/ /\ pc = "decode"
        /\ Decodable(used, n, chip)
        /\ text' = text \cup BitsOf(DecodedUnit(used, n, chip), from, to)
        /\ chip_id' = NextChip(chip_id)
        /\ UNCHANGED <<pc, reply>>
     \/ /\ Goto("decode", "failed")
        /\ ~ Decodable(used, n, chip)
        /\ reply' = "error"
        /\ UNCHANGED <<chip_id, text>>
  /\ UNCHANGED <<sender, size, buffer, used, chips_num, msg_size, allocated, view, target,
                 stage, settings>>

\* Mutant: rx_reader ends without gdk_threads_add_idle.
DecodeEndSilent ==
  /\ Goto("decode", "failed")
  /\ chip_id >= chips_num
  /\ reply' = "text"
  /\ UNCHANGED <<sender, chip_id, size, buffer, used, chips_num, msg_size, allocated, text,
                 view, target, stage, settings>>

\* The text goes to the event loop with gdk_threads_add_idle.
DecodeEnd ==
  /\ Goto("decode", "posted")
  /\ chip_id >= chips_num
  /\ reply' = "text"
  /\ UNCHANGED <<sender, chip_id, size, buffer, used, chips_num, msg_size, allocated, text,
                 view, target, stage, settings>>

-----------------------------------------------------------------------------
(* Main thread of the receiver                                             *)

\* ikb_codes_init and gui_init, which run after channel_init has created the
\* polling thread.
\* gui_init ends with ikb_changed_cb for the bundle and the cut it starts with:
\* the first one and 0, the values they have before.
StartUp ==
  /\ stage < Len(Stages)
  /\ stage' = stage + 1
  /\ UNCHANGED <<pc, sender, chip_id, size, buffer, used, chips_num, msg_size, allocated,
                 results, target, settings>>

\* rx_buffer_update, when the event loop is idle.
Show ==
  /\ Goto("posted", "shown")
  /\ Stages[stage] = "gui"
  /\ gui = "idle"
  /\ view' = IF target THEN reply ELSE view
  /\ UNCHANGED <<sender, chip_id, size, buffer, used, chips_num, msg_size, allocated, text,
                 reply, target, stage, settings>>

Arriving == pc \in {"idle", "encode", "noise"}

\* The user changes a setting: the event loop runs and takes one event at a time.
Change ==
  /\ Stages[stage] = "gui"
  /\ gui = "idle"
  /\ changes < MaxChanges
  /\ changes' = changes + 1
  /\ moved' = ~ Arriving
  /\ UNCHANGED <<pc, sender, chip_id, size, buffer, used, chips_num, msg_size, allocated,
                 results, target, stage>>

\* update_chip_cut_length, when the spin button has the value and shows a number: a
\* value that is too large is changed, and then that is what it shows.
SetCut(k, value, number) ==
  /\ cutted' = [cutted EXCEPT ![k] = CuttedLen(k, value)]
  /\ spin' = Least(value, sum(k) - 1)
  /\ entry' = IF value < sum(k) THEN number ELSE sum(k) - 1
  /\ panel' = Panel(k, CuttedLen(k, value))
  /\ unread' = FALSE

\* The arrows of the spin button set its value, and then what it shows: "changed".
StepCut(value) ==
  /\ Change
  /\ value # entry
  /\ SetCut(active, value, value)
  /\ UNCHANGED <<active, gui>>

\* The user types: "changed" comes at once, and the value is still the old one.
TypeCut(number) ==
  /\ Change
  /\ number # entry
  /\ SetCut(active, spin, number)
  /\ UNCHANGED <<active, gui>>

\* Enter, or the focus leaves: the value becomes the number, which stays as it is.
CommitCut ==
  /\ Stages[stage] = "gui"
  /\ gui = "idle"
  /\ entry # spin
  /\ spin' = entry
  /\ unread' = TRUE
  /\ UNCHANGED <<pc, sender, chip_id, size, buffer, used, chips_num, msg_size, allocated,
                 results, target, stage, active, cutted, entry, panel, gui, changes, moved>>

\* Mutant: ikb_changed_cb does not call update_chip_cut_length.
ChangeIkbOnly(k) ==
  /\ Change
  /\ active' = k
  /\ UNCHANGED <<cutted, spin, entry, panel, gui, unread>>

\* ikb_changed_cb: the bundle first, then its length.
ChangeIkb(k) ==
  /\ Change
  /\ active' = k
  /\ gui' = "update"
  /\ UNCHANGED <<cutted, spin, entry, panel, unread>>

UpdateCut ==
  /\ gui = "update"
  /\ gui' = "idle"
  /\ SetCut(active, spin, entry)
  /\ moved' = ~ Arriving
  /\ UNCHANGED <<pc, sender, chip_id, size, buffer, used, chips_num, msg_size, allocated,
                 results, target, stage, active, changes>>

ReaderStep == RestoreCall \/ RestoreChip \/ RestoreEnd \/ SizeCall \/ DecodeCall
              \/ DecodeChip \/ DecodeEnd
SenderStep == EncodeChip \/ EncodeEnd \/ Write
              \/ (\E b \in 0..(NoisedBits(code_size, len) - 1) : NoiseBit(b))
MainStep   == StartUp \/ Show \/ UpdateCut
UserStep   == Send \/ (\E c \in Cuts : StepCut(c) \/ TypeCut(c)) \/ CommitCut
              \/ (\E k \in UsedIkbs : ChangeIkb(k))

Next == SenderStep \/ ReaderStep \/ MainStep \/ UserStep

Spec == Init /\ [][Next]_vars

\* The threads run when they can; the user may do nothing.
Fairness == WF_vars(SenderStep) /\ WF_vars(ReaderStep) /\ WF_vars(MainStep)

FairSpec == Spec /\ Fairness

-----------------------------------------------------------------------------
(* Properties.                                                             *)

TypeOK ==
  /\ pc \in {"idle", "encode", "noise", "refused", "arrived", "restore", "restored",
             "sized", "decode", "posted", "shown", "failed", "fault"}
  /\ ikb \in Ikbs /\ cut \in {0} \cup Cuts /\ noise \in {0} \cup Noises
  /\ chip_id \in 0..255
  /\ code \subseteq 0..(code_size * BITS_IN_BYTE - 1)
  /\ flipped \subseteq 0..(code_size * BITS_IN_BYTE - 1)
  /\ size \in 0..255
  /\ buffer \subseteq 0..(size * BITS_IN_BYTE - 1)
  /\ used \in Ikbs
  /\ chips_num \in Nat
  /\ msg_size \in 0..255 /\ allocated \in 0..255
  /\ text \subseteq 0..(msg_size * BITS_IN_BYTE - 1)
  /\ reply \in {"none", "text", "error"}
  /\ view \in {"blank", "text", "error"}
  /\ target \in BOOLEAN
  /\ stage \in DOMAIN Stages
  /\ active \in Ikbs
  /\ \A k \in Ikbs : cutted[k] \in 1..sum(k)
  /\ {spin, entry} \subseteq {0} \cup Cuts \cup {sum(k) - 1 : k \in Ikbs}
  /\ panel \in [ikb : Ikbs, len : Nat]
  /\ gui \in {"idle", "update"}
  /\ changes \in 0..MaxChanges
  /\ moved \in BOOLEAN /\ unread \in BOOLEAN

\* Between two events the panel shows the active bundle and the length of its chips
\* in force, and this is the one the value of the spin button makes, also when a cut
\* was entered for another bundle, or was too long for one: unless the number was
\* typed, because its taking over is no event of update_chip_cut_length.
CutInForce ==
  gui = "idle" => /\ panel = Panel(active, cutted[active])
                  /\ unread \/ cutted[active] = sum(active) - spin

\* The receiver read the whole message with the settings of the sender, and
\* the length of the code fitted into a uint8_t.
Decoded == pc \in {"posted", "shown"}
Agreed == ~ moved /\ active = ikb /\ cutted[active] = len /\ size = code_size

Errors(i) == Cardinality(flipped \cap (i * len)..((i + 1) * len - 1))
Sent(i) == UnitAt(msg.bits, i * encode_ability(ikb),
                  Least((i + 1) * encode_ability(ikb), msg_bits))
Got(i) == UnitAt(text, i * encode_ability(ikb),
                 Least((i + 1) * encode_ability(ikb), msg_bits))

\* A chip gets through if it is whole and its errors are err_fixed at most and less
\* than half the distance of the codes, or if it is cut, has none and no code of a
\* smaller number has the same beginning.
GetsThrough(i) ==
  \/ len = sum(ikb) /\ Errors(i) <= err_fixed(ikb) /\ 2 * Errors(i) < distance[ikb]
  \/ /\ Errors(i) = 0
     /\ \A j \in 0..(Sent(i) - 1) : Cut(codes[ikb][j], len) # Cut(codes[ikb][Sent(i)], len)

\* The bits that come back. The last unit of a message is a number of fewer bits
\* if the message does not fill it; cut so far that the receiver finds room for
\* more bytes, it is written as one of more bits, and only full units come back.
BitsBack ==
  IF msg_size = msg.size THEN msg_bits
  ELSE (msg_bits \div encode_ability(ikb)) * encode_ability(ikb)

\* Encoding, noise, restoring and decoding give back the text when every chip
\* gets through: ikb_encode and ikb_decode agree on sizes and on bit positions,
\* and err_fixed errors in every single chip are corrected, by all bundles but the
\* first. Whole chips give back all of it and its size; cut ones may have room
\* for more.
RoundTrip ==
  Decoded /\ Agreed /\ (\A i \in 0..(tx_chips - 1) : GetsThrough(i)) =>
    /\ text \cap 0..(BitsBack - 1) = msg.bits \cap 0..(BitsBack - 1)
    /\ msg_size >= msg.size
    /\ len = sum(ikb) => msg_size = msg.size

\* More errors in a whole chip are noticed, one more than err_fixed by all bundles
\* but the first: the chip is made zeroes, and it is never taken for another code.
NotMisread ==
  Decoded /\ Agreed /\ len = sum(ikb) =>
    \A i \in 0..(tx_chips - 1) :
      Errors(i) + err_fixed(ikb) < distance[ikb] => Got(i) \in {Sent(i), 0}

\* What ikb_noise_restore leaves, ikb_decode can read, whatever arrived and
\* whatever settings the sender had: decoding fails only in a client whose
\* settings changed since the message arrived, or that had no table.
RestoredDecodes ==
  pc = "failed" => moved \/ chips_num = 0

\* The loops over the chips end when there are no more of them than chip_id can
\* count, whatever the user does to the settings meanwhile.
InLoop == pc \in {"encode", "restore", "decode"}
Countable == (IF pc = "encode" THEN tx_chips ELSE chips_num) <= 255

LoopsEnd == InLoop /\ Countable ~> ~ InLoop

\* A message that arrives when the window is up is shown, unless the settings
\* change meanwhile or have made more chips of it than chip_id can count.
ShownInTheEnd ==
  pc = "arrived" /\ target ~> view = "text" \/ moved \/ chips_num > 255

-----------------------------------------------------------------------------
(* What documentation and comments say of the program and the code does    *)
(* not do.                                                                 *)

\* README.md:22-23 lists as mended that memory lacks for the received text, and
\* ikb.c:319 calls what the first call of ikb_decode computes the required size of its
\* buffer: the second writes into message_size + 1 bytes. The user who makes chips
\* shorter, or chooses another bundle, between the two calls breaks it.
TextFits == text \subseteq 0..((allocated + 1) * BITS_IN_BYTE - 1)

\* README.md:7 lists as done: show decoding error message in the buffer. The
\* error paths of rx_reader leave before the idle callback is installed.
ErrorIsShown == pc = "failed" ~> view = "error"

\* client.c:250 shows err_fixed as the number of errors that a bundle corrects. The
\* first bundle breaks it: two of its codes differ in only 4 bits, so that a chip
\* with 2 errors can be as near to another code.
ErrorsAreFixed ==
  Decoded /\ Agreed /\ len = sum(ikb) =>
    \A i \in 0..(tx_chips - 1) : Errors(i) <= err_fixed(ikb) => Got(i) = Sent(i)

=============================================================================
