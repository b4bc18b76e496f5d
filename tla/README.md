# ikb_np in TLA+

ikb_np is a GTK program with which two users exchange short messages. The text
is encoded with an Ideal Key Bundle, the sender turns some bits over as noise,
the code travels through shared memory, and the receiver corrects and decodes
it. This directory models the program, checks the models with TLC and proves
theorems about them with TLAPS.

Paths below are relative to the repository (`src/`); line numbers are those of
the commit the models were written from.

## The system

| Component | State | Operations | Hard parts |
|---|---|---|---|
| Shared-memory channel, `channel.c`, `channel.h` | the object behind the name `/physical_channel`: `clients_attached`, and for each of two clients `client_id`, `mode`, `buffer_size` and a buffer; in each process `channel_g` | `channel_init`, `channel_write`, `__channel_polling` (a thread), `channel_deinit` | two threads in each of two processes, no lock, crashes, restarts, retries |
| IKB code, `ikb.c`, `ikb.h` | the parameters and the encoding table of each bundle | `ikb_init`, `ikb_encode`, `ikb_noise_apply`, `ikb_noise_restore`, `ikb_decode` | uint8_t counters and sizes, chips that do not end at byte boundaries, rounding, error correction |
| Sending and receiving, `client.c` | `g_ikb_db`, `g_active_ikb_id`, `cutted_len_bits` of each bundle, the two text views | `send_msg_cb`, `rx_reader`, `rx_buffer_update`, `ikb_changed_cb`, `update_chip_cut_length` | `rx_reader` runs on the polling thread and reads what the event loop writes |
| Life cycle, `client.c` | the event loop and its idle callbacks; `rx_text_view`, which is there from `gui_init` to the closing of the window | `main`, `client_init`, `client_deinit` | the polling thread starts before the tables and the window exist, and outlives the window |
| Window layout and labels, `client.c` | widgets; the values panel | `gui_init`, `update_values_panel`, `enc_table_set` ... | the panel and the spin button have to follow two settings; the rest only formats and is not modelled |
| Logger, status codes, `logger.*`, `status.*`, `common.h` | a log level | macros, names of codes | not modelled: nothing depends on them |

How they interact. The main thread calls `channel_init`, which maps the object
and creates the polling thread, then `ikb_codes_init` and `gui_init`, then
`gtk_main`. "Send" calls `send_msg_cb`: `ikb_encode`, `ikb_noise_apply`,
`channel_write`. `channel_write` looks at the mode of the destination's line up
to ten times and, when it is empty, writes the buffer into it. The polling
thread of the destination takes the buffer and calls `rx_reader`, which calls
`ikb_noise_restore` and `ikb_decode` (first for the size, then for the text) and
leaves the text to `rx_buffer_update`, an idle callback of the event loop.
Closing the window ends `gtk_main`, and the destructor `client_deinit` calls
`channel_deinit`.

What makes the components correct:

- channel: nobody writes into a line while its owner reads from it; a message is
  delivered whole, once and in the order of its sender; a message that was
  declared ready stays until it is taken, and is taken; sending and leaving end.
- IKB code: what was encoded is decoded again; `err_fixed` errors per chip are
  corrected, one more is noticed; the sizes of both sides agree.
- client: what arrives is shown, or its error is; a setting that changes does no
  harm to a message on its way; the cut shown is the one in force.
- the program: what the two users see is a chat. Messages may be lost, or decoded to
  something else, but a text is shown for a message that was sent, in order and once.

## Modules

| Module | What it is |
|---|---|
| `Mailbox` | abstract: a mailbox with room for one message |
| `Chat` | abstract: what users see of what was said to them |
| `Channel` | `channel.c` and the threads that run it; implements one `Mailbox` per line |
| `Client` | `client.c` around the channel: tables, window, idle callbacks; every step of `Channel` is a step of it; implements `Chat` |
| `IkbCode` | the operators of `ikb.c`: bundles, tables, sizes, what happens to one chip |
| `Codec` | one message from entry to view, bit by bit: sender, polling thread and event loop of the receiver |
| `MCChannel`, `MCClient`, `MCCodec` | values for the constants |
| `ChannelProofs` | theorems about `Channel`: types, the mode word |
| `ChannelMessageProofs` | theorems about `Channel`: the messages in a line, and that it is a mailbox |
| `ChannelOrderProofs` | theorems about `Channel`: the messages of all objects together |
| `ClientProofs` | a client is a channel |
| `ChatProofs` | a client is a chat |
| `IkbProofs` | theorems about `IkbCode`: sizes, the distances of the codes, one chip |
| `CodecProofs` | theorems about `Codec`: types, settings, restoring and decoding |
| `RoundTripProofs` | theorems about `Codec`: what comes back of a message |

The two levels of the receiver meet in `rx_reader`. `Client` has any number of
messages and takes what comes of a call (the text, another one, an error, a loop
without end, a fault) as an outcome; `Codec` has one message and computes that
outcome from the bits and the settings.

**Channel.** `mpc` and `ppc` are the program counters of the main and the polling
thread of every process; the suffixes of the actions follow the code: `InitLoad`
and `InitStore` are `clients_attached++`, `WriteTry` is one turn of the attempt
loop, `PollTake` stores `CM_READING`, `DeinitTest` is the second load of the
counter. One action is one load or store of shared memory with the local
computation around it, because the Makefile builds with `-O0` and the code has no
lock and no atomic. `memcpy` is two steps, for the two halves of the buffer; a
message is a pair of its sender and a number, and a half of a buffer holds the
message it was copied from, so that a torn buffer has two different halves.
`Kill` ends a process without its destructor, and so does a fault in the reader
callback (`CallbackFaults`): threads and mapping go, shared memory stays. `InitSpawn`
may find that `pthread_create` fails, which `channel_init` does not look at: the
client goes on without a polling thread, and its `pthread_join` of an identifier that
was never stored returns (`DeinitJoin`) or faults (`JoinFaults`). `Close`
is the end of `gtk_main`. A name that was unlinked keeps its object alive for those who have
it mapped, so the lines belong to objects, and `linked` is the one the name
stands for. `accepted`, `delivered` and `wiped` are history; `wiped` says of a line
whether its owner, starting or stopping, has cleared the size since it was last
stored, which is the only reason for which a message may be delivered with size 0.

**Client.** The actions of `Channel` in which `client.c` has a part are conjoined
with what it adds; all others leave the window alone. `MakeTables` and
`MakeWindow` are `ikb_codes_init` and `gui_init`, with the polling thread already
running. `ReaderCalled` is the start of `rx_reader`, which takes `rx_text_view` as
it is at that moment; `ReaderPosts` ends it with `gdk_threads_add_idle`, a queue
(`idle`), with the text that was sent or with another one (`Decoded`: the two ends
need not have the same settings, and there may be too many errors), and `ShowMessage`
is the first callback of that queue, which runs only
when the main thread is in the event loop. `ReaderFails` is the error path, which
installs no callback; `ReaderHangs` is the loop of `ikb_noise_restore` with a
counter that never gets there: the thread stays in the callback, and the join of
`channel_deinit` waits for it; `ReaderFaults` is the use of tables that were not
made, or of a window that was destroyed. `main` goes on after a `client_init` that
failed; such a process reaches `stuck`, where only a kill ends it. `seen` is
history.

**IkbCode.** A buffer is the set of the positions of its 1-bits. The bundles are
the five of `ikb_codes_init`, the encoding table is computed as `ikb_init` does.
The copying loops over bits are `Slice`, `UnitAt` and `BitsOf`; the search of
`ikb_noise_restore` is the first of the codes that miss the fewest bits.

**Codec.** One action is one turn of a chip loop, one call in `rx_reader`, or
one callback of the event loop. The settings `rx_reader` uses are read once at
the start of every call (the bundle, `chips_num`, the size) and once for every
chip (`cutted_len_bits`); the code reads the length several times within a
chip, and a change exactly there, which would write past `chip_code_p`, is left
out. The start-up of the receiver has five stages; at the stage `partial` the
table has an `encode_ability` but not all its rows, and the model takes the
reader to meet a missing row, a fault (a row that is there but not finished is
left out). The sender chooses its settings when it sends; the receiver's
settings are those of another process and change at any time. `active`, `cutted`,
`spin` and `panel` are the bundle, the lengths, the spin button and the values
panel; `ikb_changed_cb` sets the bundle and then, a step later, calls
`update_chip_cut_length` (`UpdateCut`), and the polling thread can run in between.
The spin button has a value and an entry with a number. `update_chip_cut_length` is
connected to "changed" of the entry (`client.c:761`) and reads the value. An arrow
sets the value and then the entry (`StepCut`). Typing changes the entry, and the value
that is read is still the old one (`TypeCut`); Enter, or the loss of the focus, makes
the value what the entry shows already, and nothing is called (`CommitCut`). `unread`
is history: the value was taken over and has not been read. `text` is what the second
call of `ikb_decode` writes, which the size it computes bounds, and not `allocated`.

Operators whose comment says *Mutant* are variants of the definition that
follows, with the bug the comment names. No specification uses them: put in its
place, each makes one property fail, which shows that the property is about it.

## Checks

Passing runs:

| Run | Question | Bounds | Distinct states |
|---|---|---|---|
| `channel_mailbox` | `Exclusive` and its inductive `LineInv`; `InOrder`, `Intact`, `ReadyIsKept`; `IsMailbox`: every line implements `Mailbox` | one sender, two messages, 2 attempts, 1 object, restarts, 1 mishap | 1.4 million |
| `channel_reopen` | the inductive invariants `MessageInv` and `OrderInv`, while the name is unlinked and made again under clients that use the old object | one sender, two messages, 1 attempt, 2 objects, restarts | 1.8 million |
| `client` | `TypeOK`, `ChatInv`; `IsChat`: the program implements `Chat` | one sender, three messages, one of 256 bytes, 1 attempt, 1 object, restarts, 1 mishap | 1.7 million |
| `client_live` | `SendReturns`, `LineIsFreed`, `ReadyIsShown`, `CloseEnds` | one sender, one message, 1 attempt, 1 object, restarts, no mishap | 58 thousand |
| `codec_noise` | `TypeOK`, `RoundTrip`, `NotMisread`, `RestoredDecodes` | bundles {1,1,2,3} and {1,1,2,1,2,4}, uncut and cut by 2, one letter or none, every choice of up to 2 noise bits, one change of the receiver's settings | 1.2 million |
| `codec_live` | `CutInForce`, `RoundTrip`, `LoopsEnd`, `ShownInTheEnd` | bundles {1,2,3,7} and {1,1,2,3}, cuts of 0 and 10 (more than the second bundle has), no noise; no text, two bytes whose chips get through when they are cut to 3 bits, or eight letters, of which the receiver makes up to 289 chips; receiver at the start, or with a window in which both bundles have been cut by 10; one change, and any number of typed cuts taken over | 99 thousand |

Runs that find a disagreement between the code and what is said of it:

| Run | Said | Done |
|---|---|---|
| `channel_two_writers` | `channel.h:54`, a `CM_READY` buffer is ready for reading | two senders with one destination: one still writes into it |
| `channel_silent_loss` | `status.h:16`, `SC_OK` means done successfully | after the last busy attempt nothing is written and `SC_OK` returned |
| `channel_split` | `channel.h:16`, one shared memory between two clients | a client that starts while the last one leaves is cut off |
| `codec_overrun` | `ikb.c:319`, `ikb_decode` calculates the required size of the message buffer; `README.md:22`, the lack of memory for the buffers is mended | the user makes the chips shorter between the two calls (`client.c:334`, `:349`): the second one writes behind the end of what the first one asked for |
| `codec_error_lost` | `README.md:7`, decoding errors are shown | the error path leaves before the idle callback is installed |
| `codec_first_bundle` | `client.c:250`, `err_fixed` is shown as the number of errors that are corrected; `README.md:2`, Ideal Key Bundle | {1,2,3,7} is not ideal: modulo 13 it makes the sum 3 twice and the sum 4 never, two of its codes differ in 4 bits only, and a chip with 2 errors may be taken for another code |

Known without a run of its own: `ikb.c:35` says that a bundle is initialized before
it is used, and the polling thread starts before `ikb_codes_init` (`client.c:802`).
`codec_live` reaches the fault that follows (`RestoreCall` with the stage
`partial`), and in `Client` it is `ReaderFaults`. `README.md:17` says that the program
gets stuck with 97 symbols and more, depending on the bundle, and supposes a wrong
buffer size. The loops of `ikb_encode` and `ikb_noise_restore` count chips in a
`uint8_t` (`ikb.c:231`, `:531`) and do not end when there are more than 255: of eight
letters already when the receiver has cut its chips to one bit. `LoopsEnd` says that
this is the only reason. A number typed as the cut is shown, and then is the value of
the spin button, without being in force until the next event: `CutInForce` says that
this is the only exception, and only for the value.

Bounds, and why they are enough.

- `MaxAttempts` is 10 in the code. The attempts differ only in their number; one
  covers the loop ending, two the loop going on. The theorems hold for any number.
- `CodeSize` gives each process its messages and their sizes. The sizes 5 and 10
  are those of one and two letters under {1,2,3,7}; 256 is the one whose length
  becomes 0.
- `CounterSize` stands for 2^32: the counter is only compared with 0. Lost updates
  and crashes make it drift without bound; 3 values keep zero, one and two clients
  apart, and the drift goes through all of them. `channel_reopen`, `client` and
  `client_live` make do with 2: the comparison comes after a client has left, when
  the true count is 0 or 1.
- `MaxObjects` is the number of objects ever created: one for the protocol of a
  line, two for what the unlinked name does. `MaxMishaps` is the number of processes
  that are killed and of polling threads that are not created: one in every state, in
  any order with restarts. Two objects and a mishap are never in one run, and
  `client_live` has none, so that neither a sender that dies in the middle of a message
  nor a client without a thread is in a run with liveness properties. Restarts are not
  bounded, and the faults of the reader callback are not either.
- In the passing runs messages go from one client to the other only. The two lines
  share nothing but the threads that serve them, and the theorems below hold for
  traffic in both directions, any number of objects, mishaps and messages. What no run
  shows is therefore a receiver that sends: how long `channel_write` keeps its idle
  callbacks waiting is not covered by a liveness property.
- `Noises` up to 2: {1,1,2,3} corrects one error and notices two, {1,1,2,1,2,4}
  corrects two, and both kinds of chip occur in every position of the message. The
  theorems hold for any noise and all five bundles.
- `MCLoopLetters` has two bytes of which the units are chosen so that their chips are
  told apart by 3 bits: without them no cut chip would ever get through. Its eight
  letters make 289 chips at a receiver with chips of one bit when they were sent with
  the first bundle, which is too many for `chip_id`, and 233 with the second.
- `FirstCuts` are the cuts that the receiver's user has made for his bundles before
  the run begins. With 10 for both, `codec_live` needs one change for what otherwise
  takes several: a cut that was clamped for the second bundle, and a bundle chosen with
  the cut of another.
- `MaxChanges`: one change can come at any step of sending and receiving.

Deadlock is not checked: clients stop for good, and in `Codec` the one message
is all that happens.

Fairness. `Client!ClientFairness` gives weak fairness to the main thread while it is
inside `channel_init`, `channel_write`, `channel_deinit` or a callback of the event
loop, and to every polling thread: the scheduler runs a thread that can run, and
neither holds a lock. Users and kills get none: nobody has to open or close a
window or send. `Codec!Fairness` does so for the sender, the polling thread and the
event loop. The liveness properties of `Client` name the outcomes of `rx_reader`
that keep them from their goal: a reader that hangs keeps the line and the join,
and the message of one that fails is never shown. `SendReturns` names none: the
sender is not kept even then.

What `RoundTrip` and `NotMisread` say is measured by `distance`, the least number
of bits in which two codes of a table differ, which `IkbCode` computes; the
`min_code_dist` of `ikb.c:95` is another number that nothing reads. A chip that is
cut to few bits gets through if no code of a smaller number begins like it. The
receiver may then find room for more bytes than were sent, since it only has the
size of the code, and `ikb_decode` writes the last unit, of which the message has
used some bits only, with all its bits (`ikb.c:414-424`): its value lands shifted.
`BitsBack` leaves that unit out. `RoundTrip` without it fails in `codec_live`.

What the properties do not say: a chip with more than `err_fixed + 1` errors may
be taken for another code, and under {1,2,3,7} already one with `err_fixed`. The
window shows `err_found` (`2 * err_fixed + 1`) as
the number of errors that are found (`client.c:247`), which would hold if the
receiver did not correct to the nearest code first.

## Proofs

All theorems hold for any number of processes, lines, objects, attempts, messages
and mishaps, under `ConstantsAssumption` (the constants have their types and the
counter has at least one value) and, for `Client`, `ClientAssumption` (an empty
window shows no message). `OneReader` and `OneWriter` say that no two processes
have one identifier, and no two one destination; where a theorem needs them they
are in its statement.

`ChannelProofs`:

- `TypeCorrect`: `Spec => []TypeOK`, with any identifiers.
- `LineInvariant`: `TypeOK` and `LineInv` always, under `OneReader` and `OneWriter`.
- `ExclusiveAlways`: `Exclusive` always, under the same conditions.

`Exclusive` is not inductive: that a reader and a writer are not at one line
follows from the mode that each has left there, and that mode can be overwritten
by the owner of the line when it starts or stops. `LineInv` says what is left:
between `CM_READING` and `CM_EMPTY` the line of a polling thread is in
`CM_READING`, because its own main thread waits in the join before it touches the
line and the writer waits for `CM_EMPTY`; the line of a writer is in `CM_WRITING`,
or in what the owner's coming and going stores, which a reader does not take.
`Attached`, `Polled` and `Sending` tie the program counters of the two threads
together. The lemma `ModeNext` has a case for every action; `Separate` is where
the identifiers come in: without `OneWriter`, `channel_two_writers` is the
counterexample. `TypeOK` alone is not inductive either, since a step uses the
mapping and the current message, so `TypeNext` and `SituationNext` go together.

`ChannelMessageProofs` adds the contents of a line:

- `MessageInvariant`, and from it `IntactAlways`, `InOrderAlways`,
  `ReadyIsKeptAlways` and `MailboxAlways` (every line implements `Mailbox`).

`MessageInv` follows a message through the line: so much of it is there while
`channel_write` copies it (`Copied`), it is whole while it is ready or being read
(`Kept`) and has its size while it waits (`Measured`), so much of it has the callback
(`Taken`); what waits was sent earlier
than the next call of `channel_write` (`Dated`) and later than all that was
delivered (`Newer`). Each part needs `LineInv` of the state before the step, to
know that nobody else is at the line. The size
has an exception: the owner of a line clears it while starting or stopping, without
looking at the mode. `wiped` records that, and a size that is 0 for any other reason
(the polling thread clearing it after it has freed the line, say) breaks `Measured`,
`Intact` and the mailbox, which hands out nothing only when `spoilt`.

`ChannelOrderProofs` proves `OrderInvariant`, over all objects the name has stood
for: a client that starts anew is on the object created last (`Onward`), so that
what was put into the lines of a client is ordered as its objects are (`Ages`), and
what came out was put in (`Came`). `InOrder` of one line does not say this, and
`Chat` needs it.

`ClientProofs` proves `ClientIsChannel` (`ClientSpec => Spec`), so that all theorems
above hold of a client.

`ChatProofs` proves that `Client` implements `Chat`:

- `ChatInvAlways`: what was shown, what waits in the idle queue and what the
  callback holds are in order. The lemmas `Orderly...` say what a message that
  comes, is copied, posted, shown or dropped does to this order; that a message
  which is copied is newer than all before is `OrderInv` and `Newer`.
- `ChatAlways`: the initial states and every step of `ClientSpec` are those of
  `Chat`, or leave it as it is. `Chat` promises order and that no message is shown
  twice. It does not promise the right text: `Garbled` is any other one, and when the
  text is right is what `RoundTrip` says.

`IkbProofs`, about the operators:

- `SizeRoundTrip`: the size that `ikb_decode` computes from the size of the code is
  the size of the message, for all 255 sizes, all chips of more than 8 bits that
  stand for fewer than 8 bits, and those of 5 to 8 bits that stand for at most 3.
  `ChipsCover` and `BytesCover` bound the two roundings of `ikb_encode`,
  `ChipsFound` shows that `ikb_decode` finds as many chips or one more. The length
  is taken as a number: that a code of 256 bytes and more does not get through the
  `uint8_t` of `channel_write` is in `Codec` (`Write`).
- `RestoringEnds`: where the sender gets through `ikb_encode`, the receiver gets
  through `ikb_noise_restore`, if their settings agree and the chips are long
  enough. With chips of one bit it fails, as the eight letters of `codec_live` show.
- `IdealDistance`: any two codes of the bundles 2 to 5 differ in exactly
  `2 * (err_fixed + 1)` bits. A code is the first one turned (`CodeIs`), so the ones
  that two codes have in common are the pairs of marks whose difference is the turn
  (`CommonOnes`), and the marks are the partial sums of the bundle: `IdealBundle`
  shows from the numbers of `client.c` that every sum is made equally often.
  `CodesDiffer` counts what is left.
- `FirstDistance`: for {1,2,3,7} the distance is 4 while `err_fixed` is 2. That is why
  `IdealDistance` leaves this bundle out; `codec_first_bundle` shows what follows for
  a message.
- For one chip: `Corrected` and `Noticed` (a code with few errors is restored, with
  some more it is restored or made zeroes; by the triangle inequality `MissedSum`),
  `WholeChip` and `CleanChip` (what is decoded from a whole chip and from a cut one),
  `UnitBits` (a unit that is read from a text and written again has the same bits).

`CodecProofs` proves, for any texts, any settings and any number of changes:

- `CutInForceAlways`: from `SettingsInv`, which also bounds the lengths: a chip
  keeps one bit at least, whatever cut is entered, for whichever bundle.
- `RestoredDecodesAlways`: from `ReaderInv`. As long as no setting has changed since
  the message arrived (`moved` is false), the calls in `rx_reader` read the same bundle
  and length, and the chips before `chip_id` in the loop of `ikb_noise_restore` are
  codes or zeroes, which is what `ikb_decode` can read. `RestoredIsDecodable` is this
  for one chip: the search ends with a code of the table, or with zeroes. A setting
  that changes meanwhile breaks it (`codec_error_lost`).
- `CodecTypeCorrect`: the types, for any changes of the settings. Of the text it says
  only that it fits the size which the decoding call computes; that it does not always
  fit what was allocated is `codec_overrun`.

`RoundTripProofs` proves, for any texts, bundles, cuts, noise and changes, the
`uint8_t` counters and lengths included:

- `RoundTripAlways`: a message whose chips get through comes back.
- `NotMisreadAlways`: a whole chip is read as it was sent or as zeroes as long as its
  errors and `err_fixed` are together fewer than the distance, whatever happens to
  the other chips.
- `OthersFixErrors`: all bundles but the first correct `err_fixed` errors in every
  whole chip. It is `ErrorsAreFixed` with the hypothesis `ikb # 1`, which
  `codec_first_bundle` shows to be needed.

Neither property says anything of a message on its way, so the invariant
`MessageInv` does: which bits a chip has at every place of the program. `Encoding`
says it of the chips the sender has done and of those it has not, `Arrival` of the
buffer that comes out of the channel (as sent, with the bits turned that the noise
chose), `Restoration` of the chips before and after `chip_id`, and `Decoding` of the
bits of the text, unit by unit. The first is of the sender alone; the others hold
while the settings agree. They rest on `TypeInv` and `ReaderInv`, and on the lemmas
about `Slice`: chips do not overlap (`Apart`), and what is stored in one leaves the
others alone (`StoredLater`). That the receiver has as many chips as were sent, or
one more, is `ChipsArrive`, from the sizes. When the text is there, `ErrorsAre`
identifies the noise of a chip with the bits it misses, `GetsThroughIs` and
`NoticedIs` apply the lemmas for one chip, `RoomIs` compares the sizes, and `BackIs`
collects the units.

Only model-checked: the liveness properties `SendReturns`, `CloseEnds`,
`LineIsFreed`, `ReadyIsShown`, `LoopsEnd` and `ShownInTheEnd`, which are out of the prover's
reach. Every invariant and every action property that a passing run checks is a
theorem.

## Not modelled

- The contents of labels, the table dialog, the layout of the window;
  `ikb_seq_to_str`, the logger, the names of status codes. No other part reads them.
- `ikb_deinit`, which nothing calls.
- Texts of 256 bytes and more, and a settings change within one chip: both write
  past a buffer, and what happens then is undefined. Nor is what happens after the
  overrun of `codec_overrun`: `text` keeps the bits that belong behind the end.
- What a garbled text says: `Client` only knows that it is not the one that was sent.
- `munmap` failing, and `calloc` returning NULL.

## Plan

The order is that of importance: first the channel, which everything depends on,
then one message, then what several messages and settings do together.

1. Done: `Mailbox`, `Channel` with its runs; every safety property of it is proved.
2. Done: `IkbCode`, `Codec` with its runs; all its safety properties are proved, the
   distances of the codes and the way of a message through the code included.
3. Done: `Chat` and `Client`, several messages with the start and the end of a
   client and its idle callbacks; proved but for liveness.
4. Done by proof: the two largest bundles, more noise, and cut chips whose codes
   remain distinct, which are too large for TLC.
5. Left: the liveness arguments, of which the safety half (what a waiting thread
   waits for) could be stated and proved; and that an outcome of `rx_reader` in
   `Client` is one that `Codec` computes, as a refinement between the two.
