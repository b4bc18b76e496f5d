--------------------------- MODULE ChannelProofs ---------------------------
(***************************************************************************)
(* What TLAPS proves of Channel, for any number of clients, messages,      *)
(* objects, restarts and deaths.                                           *)
(***************************************************************************)
EXTENDS Channel, TLAPS

\* Remainders are below the divisor.
LEMMA ModRange ==
  ASSUME NEW n \in Nat, NEW d \in Nat \ {0}
  PROVE  n % d \in 0..(d - 1)
OBVIOUS

\* A length that channel_write takes fits its uint8_t parameter.
LEMMA WireSizeType ==
  ASSUME NEW m \in Msgs
  PROVE  WireSize(m) \in Bytes
<1>1. PICK p \in Procs : m \in {p} \X (1..Len(CodeSize[p]))
  BY DEF Msgs
<1>2. m[1] = p /\ m[2] \in 1..Len(CodeSize[p])
  BY <1>1
<1>3. CodeSize[p] \in Seq(Nat)
  BY ConstantsAssumption
<1>4. CodeSize[p][m[2]] \in Nat
  BY <1>2, <1>3
<1>5. PICK n \in Nat : n = CodeSize[m[1]][m[2]]
  BY <1>2, <1>4
<1>6. n % 256 \in 0..255
  BY <1>5
<1>7. WireSize(m) = n % 256
  BY <1>5 DEF WireSize, u8
<1> QED
  BY <1>6, <1>7 DEF Bytes

\* clients_attached++ and clients_attached-- stay in the counter's range.
LEMMA WrapType ==
  ASSUME NEW n \in Counts
  PROVE  Wrap(n + 1) \in Counts /\ Wrap(n + CounterSize - 1) \in Counts
<1>1. n + 1 \in Nat /\ n + CounterSize - 1 \in Nat /\ CounterSize \in Nat \ {0}
  BY ConstantsAssumption DEF Counts
<1> QED
  BY <1>1, ModRange DEF Wrap, Counts

\* What memset, channel_init and channel_deinit store is in its type.
LEMMA Zeros == 0 \in Bytes /\ 0 \in Counts /\ 0 \in Clients
  BY ConstantsAssumption DEF Bytes, Counts, Clients

\* A process that has the shared memory mapped reads and writes lines of it.
LEMMA LineTypes ==
  ASSUME NEW p \in Procs, stream[p] \in Objects
  PROVE  RxLine(p) \in Lines /\ TxLine(p) \in Lines
  BY ConstantsAssumption DEF RxLine, TxLine, Lines

\* Appending to one of a family of sequences.
LEMMA AppendEach ==
  ASSUME NEW I, NEW S, NEW f \in [I -> Seq(S)], NEW i, NEW x \in S
  PROVE  [f EXCEPT ![i] = Append(@, x)] \in [I -> Seq(S)]
<1>1. \A j \in I : Append(f[j], x) \in Seq(S)
  OBVIOUS
<1> QED
  BY <1>1

\* The buffer of size 0, which the callback is given when a message arrives while
\* its receiver starts, is a buffer.
LEMMA BlankType == Blank \in Buffers
  BY Zeros DEF Blank, Buffers

\* shm_open leaves the name and the number of objects in their types.
LEMMA OpenType ==
  ASSUME TypeOK, NEW o \in Objects, OpenObject(o)
  PROVE  linked' \in Objects \cup {NoObject} /\ created' \in 0..MaxObjects
<1>1. CASE UNCHANGED names
  BY <1>1 DEF TypeOK, names
<1>2. CASE linked = NoObject /\ created < MaxObjects /\ o = created + 1 /\ created' = o /\ linked' = o
  BY <1>2, ConstantsAssumption DEF TypeOK
<1> QED
  BY <1>1, <1>2 DEF OpenObject

\* Every step of every thread keeps every variable in its type.
LEMMA TypeNext ==
  ASSUME TypeOK, Attached, Polled, Sending, Next
  PROVE  TypeOK'
<1> USE DEF names, headers, lines, mains, pollers, history, Goto, PollGoto
<1> USE ConstantsAssumption, Zeros
<1>1. PICK p \in Procs :
        \/ UserStep(p) \/ InitStep(p) \/ WriteStep(p) \/ PollStep(p) \/ DeinitStep(p)
        \/ CallbackFaults(p) \/ JoinFaults(p)
  BY DEF Next
<1>2. CASE UserStep(p)
  <2>1. CASE InitOpen(p)
    <3>1. PICK o \in Objects : OpenObject(o) /\ stream' = [stream EXCEPT ![p] = o]
      BY <2>1 DEF InitOpen
    <3>2. linked' \in Objects \cup {NoObject} /\ created' \in 0..MaxObjects
      BY <3>1, OpenType
    <3> QED
      BY <2>1, <3>1, <3>2 DEF InitOpen, TypeOK, MainSteps, InitSteps
  <2>2. CASE InitFails(p)
    <3>1. linked' \in Objects \cup {NoObject} /\ created' \in 0..MaxObjects
      BY <2>2, OpenType DEF InitFails, TypeOK
    <3> QED
      BY <2>2, <3>1 DEF InitFails, TypeOK, MainSteps
  <2>3. CASE WriteEnter(p)
    <3>1. Len(CodeSize[p]) \in Nat /\ sent'[p] \in Nat /\ sent'[p] <= Len(CodeSize[p])
      BY <2>3 DEF WriteEnter, TypeOK
    <3>2. sent' \in [Procs -> Nat] /\ \A q \in Procs : sent'[q] <= Len(CodeSize[q])
      BY <2>3, <3>1 DEF WriteEnter, TypeOK
    <3>3. /\ mpc' \in [Procs -> MainSteps]
          /\ attempt' \in [Procs -> 0..MaxAttempts]
          /\ status' \in [Procs -> Statuses]
      <4>1. CASE \E s \in Statuses : Return(p, "gtk_main", s)
        BY <4>1 DEF Return, TypeOK, MainSteps
      <4>2. CASE Goto(p, "gtk_main", "w_try") /\ UNCHANGED <<attempt, status>>
        BY <4>2 DEF TypeOK, MainSteps, WriteSteps
      <4> QED
        BY <2>3, <4>1, <4>2 DEF WriteEnter, Statuses
    <3> QED
      BY <2>3, <3>2, <3>3 DEF WriteEnter, TypeOK
  <2>4. CASE Close(p)
    BY <2>4 DEF Close, TypeOK, MainSteps, DeinitSteps
  <2>5. CASE Kill(p)
    BY <2>5 DEF Kill, Dies, TypeOK, Gone, MainSteps, PollSteps, Statuses
  <2> QED
    BY <1>2, <2>1, <2>2, <2>3, <2>4, <2>5 DEF UserStep
<1>3. CASE InitStep(p)
  <2>1. CASE InitLoad(p)
    <3>1. stream[p] \in Objects
      BY <2>1 DEF InitLoad, Attached
    <3>2. clients_attached[stream[p]] \in Counts
      BY <3>1 DEF TypeOK
    <3> QED
      BY <2>1, <3>2 DEF InitLoad, TypeOK, MainSteps, InitSteps, WriteSteps, DeinitSteps
  <2>2. CASE InitStore(p)
    <3>1. count[p] \in Counts
      BY DEF TypeOK
    <3>2. Wrap(count[p] + 1) \in Counts /\ Wrap(count[p] + CounterSize - 1) \in Counts
      BY <3>1, WrapType
    <3> QED
      BY <2>2, <3>2 DEF InitStore, TypeOK, MainSteps, InitSteps, WriteSteps, DeinitSteps
  <2>3. CASE InitId(p)
    BY <2>3 DEF InitId, TypeOK, MainSteps, InitSteps
  <2>4. CASE InitMode(p)
    BY <2>4 DEF InitMode, TypeOK, MainSteps, InitSteps, Modes
  <2>5. CASE InitSize(p)
    BY <2>5 DEF InitSize, Wipe, TypeOK, MainSteps, InitSteps
  <2>6. CASE InitSpawn(p)
    <3>1. ppc' \in [Procs -> PollSteps]
      BY <2>6 DEF InitSpawn, TypeOK, PollSteps
    <3>2. mishaps' \in 0..MaxMishaps
      BY <2>6 DEF InitSpawn, TypeOK
    <3> QED
      BY <2>6, <3>1, <3>2 DEF InitSpawn, TypeOK, MainSteps, InitSteps
  <2>7. CASE InitSetup(p)
    BY <2>7 DEF InitSetup, TypeOK, MainSteps
  <2> QED
    BY <1>3, <2>1, <2>2, <2>3, <2>4, <2>5, <2>6, <2>7 DEF InitStep
<1>4. CASE WriteStep(p)
  <2>1. CASE WriteTry(p)
    <3>1. attempt' \in [Procs -> 0..MaxAttempts]
      <4>1. CASE attempt' = [attempt EXCEPT ![p] = NextAttempt(@)] /\ AttemptsLeft(attempt[p])
        BY <4>1 DEF NextAttempt, AttemptsLeft, TypeOK
      <4>2. CASE attempt' = [attempt EXCEPT ![p] = 0]
        BY <4>2 DEF TypeOK
      <4>3. CASE UNCHANGED attempt
        BY <4>3 DEF TypeOK
      <4> QED
        BY <2>1, <4>1, <4>2, <4>3 DEF WriteTry, Return
    <3>2. mpc' \in [Procs -> MainSteps] /\ status' \in [Procs -> Statuses]
      BY <2>1 DEF WriteTry, Return, TypeOK, MainSteps, WriteSteps, Statuses
    <3> QED
      BY <2>1, <3>1, <3>2 DEF WriteTry, TypeOK
  <2>2. CASE WriteMark(p)
    BY <2>2 DEF WriteMark, TypeOK, MainSteps, WriteSteps, Modes
  <2>3. CASE WriteHead(p)
    <3>1. Current(p) \in Msgs
      BY <2>3 DEF WriteHead, Sending, WriteSteps
    <3> QED
      BY <2>3, <3>1 DEF WriteHead, TypeOK, MainSteps, WriteSteps
  <2>4. CASE WriteTail(p)
    <3>1. Current(p) \in Msgs
      BY <2>4 DEF WriteTail, Sending, WriteSteps
    <3> QED
      BY <2>4, <3>1 DEF WriteTail, TypeOK, MainSteps, WriteSteps
  <2>5. CASE WriteSize(p)
    <3>1. WireSize(Current(p)) \in Bytes
      BY <2>5, WireSizeType DEF WriteSize, Sending, WriteSteps
    <3> QED
      BY <2>5, <3>1 DEF WriteSize, TypeOK, MainSteps, WriteSteps
  <2>6. CASE WriteReady(p)
    <3>1. Current(p) \in Msgs
      BY <2>6 DEF WriteReady, Placed, Return, Sending, WriteSteps
    <3>2. accepted' \in [Lines -> Seq(Msgs)]
      BY <2>6, <3>1, AppendEach DEF WriteReady, TypeOK
    <3> QED
      BY <2>6, <3>2 DEF WriteReady, Placed, Return, TypeOK, MainSteps, Modes, Statuses
  <2> QED
    BY <1>4, <2>1, <2>2, <2>3, <2>4, <2>5, <2>6 DEF WriteStep
<1>5. CASE PollStep(p)
  <2>1. CASE PollStart(p)
    BY <2>1 DEF PollStart, TypeOK, PollSteps
  <2>2. CASE PollLoop(p)
    BY <2>2 DEF PollLoop, TypeOK, PollSteps
  <2>3. CASE PollLook(p)
    BY <2>3 DEF PollLook, TypeOK, PollSteps
  <2>4. CASE PollTake(p)
    BY <2>4 DEF PollTake, TypeOK, PollSteps, Modes
  <2>5. CASE PollCall(p)
    <3>1. stream[p] \in Objects
      BY <2>5 DEF PollCall, Attached, Polled, TypeOK, WriteSteps
    <3>2. RxLine(p) \in Lines
      BY <3>1, LineTypes
    <3>3. delivered' \in [Lines -> Seq(Buffers)]
      <4>1. CASE Deliver(p, Blank)
        BY <4>1, BlankType, AppendEach DEF Deliver, TypeOK
      <4>2. CASE UNCHANGED delivered
        BY <4>2 DEF TypeOK
      <4> QED
        BY <2>5, <4>1, <4>2 DEF PollCall
    <3>4. rsize' \in [Procs -> Bytes]
      <4>1. buffer_size[RxLine(p)] \in Bytes /\ rsize \in [Procs -> Bytes]
        BY <3>2 DEF TypeOK
      <4>2. rsize' = rsize \/ rsize' = [rsize EXCEPT ![p] = buffer_size[RxLine(p)]]
        BY <2>5 DEF PollCall
      <4> QED
        BY <4>1, <4>2
    <3> QED
      BY <2>5, <3>3, <3>4 DEF PollCall, TypeOK, PollSteps
  <2>6. CASE PollHead(p)
    <3>1. stream[p] \in Objects
      BY <2>6 DEF PollHead, Attached, Polled, TypeOK, WriteSteps
    <3>2. RxLine(p) \in Lines
      BY <3>1, LineTypes
    <3> QED
      BY <2>6, <3>2 DEF PollHead, TypeOK, PollSteps
  <2>7. CASE PollTail(p)
    <3>1. stream[p] \in Objects
      BY <2>7 DEF PollTail, Attached, Polled, TypeOK, WriteSteps
    <3>2. RxLine(p) \in Lines
      BY <3>1, LineTypes
    <3>3. PICK b \in Buffers : Deliver(p, b)
      BY <2>7, <3>2 DEF PollTail, TypeOK, Buffers
    <3>4. delivered' \in [Lines -> Seq(Buffers)]
      BY <3>3, AppendEach DEF Deliver, TypeOK
    <3> QED
      BY <2>7, <3>4 DEF PollTail, TypeOK, PollSteps
  <2>8. CASE PollClear(p)
    BY <2>8 DEF PollClear, TypeOK, PollSteps
  <2>9. CASE PollFree(p)
    BY <2>9 DEF PollFree, TypeOK, PollSteps, Modes
  <2> QED
    BY <1>5, <2>1, <2>2, <2>3, <2>4, <2>5, <2>6, <2>7, <2>8, <2>9 DEF PollStep
<1>6. CASE DeinitStep(p)
  <2>1. CASE DeinitJoin(p)
    BY <2>1 DEF DeinitJoin, TypeOK, MainSteps, DeinitSteps, PollSteps
  <2>2. CASE DeinitLoad(p)
    <3>1. stream[p] \in Objects
      BY <2>2 DEF DeinitLoad, Attached
    <3>2. clients_attached[stream[p]] \in Counts
      BY <3>1 DEF TypeOK
    <3> QED
      BY <2>2, <3>2 DEF DeinitLoad, TypeOK, MainSteps, InitSteps, WriteSteps, DeinitSteps
  <2>3. CASE DeinitStore(p)
    <3>1. count[p] \in Counts
      BY DEF TypeOK
    <3>2. Wrap(count[p] + 1) \in Counts /\ Wrap(count[p] + CounterSize - 1) \in Counts
      BY <3>1, WrapType
    <3> QED
      BY <2>3, <3>2 DEF DeinitStore, TypeOK, MainSteps, InitSteps, WriteSteps, DeinitSteps
  <2>4. CASE DeinitTest(p)
    <3>1. stream[p] \in Objects
      BY <2>4 DEF DeinitTest, Attached
    <3>2. clients_attached[stream[p]] \in Counts
      BY <3>1 DEF TypeOK
    <3> QED
      BY <2>4, <3>2 DEF DeinitTest, TypeOK, MainSteps, InitSteps, WriteSteps, DeinitSteps
  <2>5. CASE DeinitId(p)
    BY <2>5 DEF DeinitId, TypeOK, MainSteps, DeinitSteps
  <2>6. CASE DeinitMode(p)
    BY <2>6 DEF DeinitMode, TypeOK, MainSteps, DeinitSteps, Modes
  <2>7. CASE DeinitSize(p)
    BY <2>7 DEF DeinitSize, Wipe, TypeOK, MainSteps, DeinitSteps
  <2>8. CASE DeinitUnmap(p)
    <3>1. mpc' \in [Procs -> MainSteps]
      BY <2>8 DEF DeinitUnmap, Gone, TypeOK, MainSteps, DeinitSteps
    <3>2. stream' \in [Procs -> Objects \cup {NoObject}]
      BY <2>8 DEF DeinitUnmap, Gone, TypeOK
    <3>3. /\ polling' \in [Procs -> BOOLEAN]
          /\ count' \in [Procs -> Counts]
          /\ attempt' \in [Procs -> 0..MaxAttempts]
          /\ status' \in [Procs -> Statuses]
      <4>1. CASE Gone(p, "d_unmap")
        BY <4>1 DEF Gone, TypeOK, Statuses
      <4>2. CASE UNCHANGED <<polling, count, attempt, status>>
        BY <4>2 DEF TypeOK
      <4> QED
        BY <2>8, <4>1, <4>2 DEF DeinitUnmap
    <3> QED
      BY <2>8, <3>1, <3>2, <3>3 DEF DeinitUnmap, TypeOK
  <2>9. CASE DeinitUnlink(p)
    BY <2>9 DEF DeinitUnlink, TypeOK, Gone, MainSteps, Statuses
  <2>10. CASE DeinitStop(p)
    BY <2>10 DEF DeinitStop, TypeOK, MainSteps, DeinitSteps
  <2> QED
    BY <1>6, <2>1, <2>2, <2>3, <2>4, <2>5, <2>6, <2>7, <2>8, <2>9, <2>10 DEF DeinitStep
<1>7. CASE CallbackFaults(p) \/ JoinFaults(p)
  <2>1. Dies(p) /\ UNCHANGED mishaps
    BY <1>7 DEF CallbackFaults, JoinFaults
  <2> QED
    BY <2>1 DEF Dies, TypeOK, Gone, MainSteps, PollSteps, Statuses
<1> QED
  BY <1>1, <1>2, <1>3, <1>4, <1>5, <1>6, <1>7

\* Where the threads are: the steps that start, end or kill a process or a
\* thread keep the memory mapped, the polling thread inside the life of the
\* mapping, and a message in every channel_write.
LEMMA SituationNext ==
  ASSUME TypeOK, Attached, Polled, Sending, Next
  PROVE  Attached' /\ Polled' /\ Sending'
<1> USE DEF names, headers, lines, mains, pollers, history, Goto, PollGoto
<1> USE DEF TypeOK, Attached, Polled, Sending, WriteSteps, Current
<1>1. PICK p \in Procs :
        \/ UserStep(p) \/ InitStep(p) \/ WriteStep(p) \/ PollStep(p) \/ DeinitStep(p)
        \/ CallbackFaults(p) \/ JoinFaults(p)
  BY DEF Next
<1>2. CASE UserStep(p)
  <2>1. CASE InitOpen(p)
    BY <2>1 DEF InitOpen
  <2>2. CASE InitFails(p)
    BY <2>2 DEF InitFails
  <2>3. CASE WriteEnter(p)
    <3>1. Attached' /\ Polled'
      BY <2>3 DEF WriteEnter, Return
    <3>2. <<p, sent'[p]>> \in Msgs
      BY <2>3, ConstantsAssumption DEF WriteEnter, Msgs
    <3> QED
      BY <2>3, <3>1, <3>2 DEF WriteEnter, Return
  <2>4. CASE Close(p)
    BY <2>4 DEF Close
  <2>5. CASE Kill(p)
    BY <2>5 DEF Kill, Dies, Gone
  <2> QED
    BY <1>2, <2>1, <2>2, <2>3, <2>4, <2>5 DEF UserStep
<1>3. CASE InitStep(p)
  <2>1. CASE InitLoad(p)
    BY <2>1 DEF InitLoad
  <2>2. CASE InitStore(p)
    BY <2>2 DEF InitStore
  <2>3. CASE InitId(p)
    BY <2>3 DEF InitId
  <2>4. CASE InitMode(p)
    BY <2>4 DEF InitMode
  <2>5. CASE InitSize(p)
    BY <2>5 DEF InitSize
  <2>6. CASE InitSpawn(p)
    BY <2>6 DEF InitSpawn
  <2>7. CASE InitSetup(p)
    BY <2>7 DEF InitSetup
  <2> QED
    BY <1>3, <2>1, <2>2, <2>3, <2>4, <2>5, <2>6, <2>7 DEF InitStep
<1>4. CASE WriteStep(p)
  <2>1. CASE WriteTry(p)
    BY <2>1 DEF WriteTry, Return
  <2>2. CASE WriteMark(p)
    BY <2>2 DEF WriteMark
  <2>3. CASE WriteHead(p)
    BY <2>3 DEF WriteHead
  <2>4. CASE WriteTail(p)
    BY <2>4 DEF WriteTail
  <2>5. CASE WriteSize(p)
    BY <2>5 DEF WriteSize
  <2>6. CASE WriteReady(p)
    BY <2>6 DEF WriteReady, Placed, Return
  <2> QED
    BY <1>4, <2>1, <2>2, <2>3, <2>4, <2>5, <2>6 DEF WriteStep
<1>5. CASE PollStep(p)
  <2>1. CASE PollStart(p)
    BY <2>1 DEF PollStart
  <2>2. CASE PollLoop(p)
    BY <2>2 DEF PollLoop
  <2>3. CASE PollLook(p)
    BY <2>3 DEF PollLook
  <2>4. CASE PollTake(p)
    BY <2>4 DEF PollTake
  <2>5. CASE PollCall(p)
    BY <2>5 DEF PollCall
  <2>6. CASE PollHead(p)
    BY <2>6 DEF PollHead
  <2>7. CASE PollTail(p)
    BY <2>7 DEF PollTail
  <2>8. CASE PollClear(p)
    BY <2>8 DEF PollClear
  <2>9. CASE PollFree(p)
    BY <2>9 DEF PollFree
  <2> QED
    BY <1>5, <2>1, <2>2, <2>3, <2>4, <2>5, <2>6, <2>7, <2>8, <2>9 DEF PollStep
<1>6. CASE DeinitStep(p)
  <2>1. CASE DeinitJoin(p)
    BY <2>1 DEF DeinitJoin
  <2>2. CASE DeinitLoad(p)
    BY <2>2 DEF DeinitLoad
  <2>3. CASE DeinitStore(p)
    BY <2>3 DEF DeinitStore
  <2>4. CASE DeinitTest(p)
    BY <2>4 DEF DeinitTest
  <2>5. CASE DeinitId(p)
    BY <2>5 DEF DeinitId
  <2>6. CASE DeinitMode(p)
    BY <2>6 DEF DeinitMode
  <2>7. CASE DeinitSize(p)
    BY <2>7 DEF DeinitSize
  <2>8. CASE DeinitUnmap(p)
    BY <2>8 DEF DeinitUnmap, Gone
  <2>9. CASE DeinitUnlink(p)
    BY <2>9 DEF DeinitUnlink, Gone
  <2>10. CASE DeinitStop(p)
    BY <2>10 DEF DeinitStop
  <2> QED
    BY <1>6, <2>1, <2>2, <2>3, <2>4, <2>5, <2>6, <2>7, <2>8, <2>9, <2>10 DEF DeinitStep
<1>7. CASE CallbackFaults(p) \/ JoinFaults(p)
  BY <1>7 DEF CallbackFaults, JoinFaults, Dies, Gone
<1> QED
  BY <1>1, <1>2, <1>3, <1>4, <1>5, <1>6, <1>7

\* With one reader and one writer to a line, two processes never share one end.
LEMMA Separate ==
  ASSUME OneReader, OneWriter, NEW p \in Procs, NEW q \in Procs \ {p}
  PROVE  RxLine(p) # RxLine(q) /\ TxLine(p) # TxLine(q)
  BY DEF OneReader, OneWriter, RxLine, TxLine

\* The mode word keeps readers and writers apart. A step writes the mode of one
\* line only; with one reader and one writer to a line, that is the line of the
\* thread that takes the step or the one its peer is at.
LEMMA ModeNext ==
  ASSUME OneReader, OneWriter, TypeOK, Attached, Polled, ReaderMode, WriterMode, Next
  PROVE  ReaderMode' /\ WriterMode'
<1> USE DEF names, headers, lines, mains, pollers, history, Goto, PollGoto
<1>1. PICK p \in Procs :
        \/ UserStep(p) \/ InitStep(p) \/ WriteStep(p) \/ PollStep(p) \/ DeinitStep(p)
        \/ CallbackFaults(p) \/ JoinFaults(p)
  BY DEF Next
<1>2. CASE UserStep(p)
  <2>1. CASE InitOpen(p)
    BY <2>1 DEF InitOpen, TypeOK, Polled, ReaderMode, WriterMode, RxLine, TxLine, WriteSteps
  <2>2. CASE InitFails(p)
    BY <2>2 DEF InitFails, TypeOK, Polled, ReaderMode, WriterMode, RxLine, TxLine, WriteSteps
  <2>3. CASE WriteEnter(p)
    BY <2>3 DEF WriteEnter, Return, TypeOK, Polled, ReaderMode, WriterMode, RxLine, TxLine, WriteSteps
  <2>4. CASE Close(p)
    BY <2>4 DEF Close, TypeOK, Polled, ReaderMode, WriterMode, RxLine, TxLine, WriteSteps
  <2>5. CASE Kill(p)
    BY <2>5 DEF Kill, Dies, Gone, TypeOK, Polled, ReaderMode, WriterMode, RxLine, TxLine, WriteSteps
  <2> QED
    BY <1>2, <2>1, <2>2, <2>3, <2>4, <2>5 DEF UserStep
<1>3. CASE InitStep(p)
  <2>1. CASE InitLoad(p)
    BY <2>1 DEF InitLoad, TypeOK, Polled, ReaderMode, WriterMode, RxLine, TxLine, WriteSteps
  <2>2. CASE InitStore(p)
    BY <2>2 DEF InitStore, TypeOK, Polled, ReaderMode, WriterMode, RxLine, TxLine, WriteSteps
  <2>3. CASE InitId(p)
    BY <2>3 DEF InitId, TypeOK, Polled, ReaderMode, WriterMode, RxLine, TxLine, WriteSteps
  <2>4. CASE InitMode(p)
    <3>1. /\ stream' = stream /\ \A q \in Procs : RxLine(q)' = RxLine(q) /\ TxLine(q)' = TxLine(q)
          /\ \A q \in Procs \ {p} : mpc'[q] = mpc[q] /\ ppc'[q] = ppc[q]
      BY <2>4 DEF InitMode, RxLine, TxLine, TypeOK
    <3>2. ppc[p] = "none" /\ ppc' = ppc /\ mpc[p] \in {"i_mode", "d_mode"} /\ mpc'[p] \in {"i_size", "d_size"}
      BY <2>4 DEF InitMode, TypeOK, Polled, WriteSteps
    <3>3. \A q \in Procs \ {p} : RxLine(q) # RxLine(p)
      BY Separate
    <3>4. /\ mode \in [Lines -> Modes] /\ RxLine(p) \in Lines
          /\ mode' = [mode EXCEPT ![RxLine(p)] = "CM_EMPTY"]
      BY <2>4, LineTypes DEF InitMode, TypeOK, Attached, Polled, WriteSteps
    <3>5. ReaderMode'
      BY <3>1, <3>2, <3>3, <3>4 DEF ReaderMode
    <3>6. WriterMode'
      BY <3>1, <3>2, <3>4 DEF WriterMode
    <3> QED
      BY <3>5, <3>6
  <2>5. CASE InitSize(p)
    BY <2>5 DEF InitSize, TypeOK, Polled, ReaderMode, WriterMode, RxLine, TxLine, WriteSteps
  <2>6. CASE InitSpawn(p)
    BY <2>6 DEF InitSpawn, TypeOK, Polled, ReaderMode, WriterMode, RxLine, TxLine, WriteSteps
  <2>7. CASE InitSetup(p)
    BY <2>7 DEF InitSetup, TypeOK, Polled, ReaderMode, WriterMode, RxLine, TxLine, WriteSteps
  <2> QED
    BY <1>3, <2>1, <2>2, <2>3, <2>4, <2>5, <2>6, <2>7 DEF InitStep
<1>4. CASE WriteStep(p)
  <2>1. CASE WriteTry(p)
    BY <2>1 DEF WriteTry, Return, MayWrite, TypeOK, Polled, ReaderMode, WriterMode, RxLine, TxLine, WriteSteps
  <2>2. CASE WriteMark(p)
    <3>1. /\ stream' = stream /\ \A q \in Procs : RxLine(q)' = RxLine(q) /\ TxLine(q)' = TxLine(q)
          /\ \A q \in Procs \ {p} : mpc'[q] = mpc[q] /\ ppc'[q] = ppc[q]
      BY <2>2 DEF WriteMark, RxLine, TxLine, TypeOK
    <3>2. mpc[p] = "w_mark" /\ mpc'[p] = "w_head" /\ ppc' = ppc
      BY <2>2 DEF WriteMark, TypeOK
    <3>3. \A q \in Procs \ {p} : TxLine(q) # TxLine(p)
      BY Separate
    <3>4. /\ mode \in [Lines -> Modes] /\ TxLine(p) \in Lines
          /\ mode' = [mode EXCEPT ![TxLine(p)] = "CM_WRITING"]
      BY <2>2, <3>2, LineTypes DEF WriteMark, TypeOK, Attached
    <3>5. mode[TxLine(p)] \notin {"CM_READY", "CM_READING"}
      BY <3>2 DEF WriterMode
    <3>6. ReaderMode'
      BY <3>1, <3>2, <3>4, <3>5 DEF ReaderMode
    <3>7. WriterMode'
      BY <3>1, <3>2, <3>3, <3>4 DEF WriterMode
    <3> QED
      BY <3>6, <3>7
  <2>3. CASE WriteHead(p)
    BY <2>3 DEF WriteHead, TypeOK, Polled, ReaderMode, WriterMode, RxLine, TxLine, WriteSteps
  <2>4. CASE WriteTail(p)
    BY <2>4 DEF WriteTail, TypeOK, Polled, ReaderMode, WriterMode, RxLine, TxLine, WriteSteps
  <2>5. CASE WriteSize(p)
    BY <2>5 DEF WriteSize, TypeOK, Polled, ReaderMode, WriterMode, RxLine, TxLine, WriteSteps
  <2>6. CASE WriteReady(p)
    <3>1. /\ stream' = stream /\ \A q \in Procs : RxLine(q)' = RxLine(q) /\ TxLine(q)' = TxLine(q)
          /\ \A q \in Procs \ {p} : mpc'[q] = mpc[q] /\ ppc'[q] = ppc[q]
      BY <2>6 DEF WriteReady, RxLine, TxLine, TypeOK, Placed, Return
    <3>2. mpc[p] = "w_ready" /\ mpc'[p] = "gtk_main" /\ ppc' = ppc
      BY <2>6 DEF WriteReady, TypeOK, Placed, Return
    <3>3. \A q \in Procs \ {p} : TxLine(q) # TxLine(p)
      BY Separate
    <3>4. /\ mode \in [Lines -> Modes] /\ TxLine(p) \in Lines
          /\ mode' = [mode EXCEPT ![TxLine(p)] = "CM_READY"]
      BY <2>6, <3>2, LineTypes DEF WriteReady, TypeOK, Placed, Return, Attached
    <3>5. mode[TxLine(p)] \notin {"CM_READY", "CM_READING"}
      BY <3>2 DEF WriterMode
    <3>6. ReaderMode'
      BY <3>1, <3>2, <3>4, <3>5 DEF ReaderMode
    <3>7. WriterMode'
      BY <3>1, <3>2, <3>3, <3>4 DEF WriterMode
    <3> QED
      BY <3>6, <3>7
  <2> QED
    BY <1>4, <2>1, <2>2, <2>3, <2>4, <2>5, <2>6 DEF WriteStep
<1>5. CASE PollStep(p)
  <2>1. CASE PollStart(p)
    BY <2>1 DEF PollStart, TypeOK, Polled, ReaderMode, WriterMode, RxLine, TxLine, WriteSteps
  <2>2. CASE PollLoop(p)
    BY <2>2 DEF PollLoop, TypeOK, Polled, ReaderMode, WriterMode, RxLine, TxLine, WriteSteps
  <2>3. CASE PollLook(p)
    BY <2>3 DEF PollLook, MayRead, TypeOK, Polled, ReaderMode, WriterMode, RxLine, TxLine, WriteSteps
  <2>4. CASE PollTake(p)
    <3>1. /\ stream' = stream /\ \A q \in Procs : RxLine(q)' = RxLine(q) /\ TxLine(q)' = TxLine(q)
          /\ \A q \in Procs \ {p} : mpc'[q] = mpc[q] /\ ppc'[q] = ppc[q]
      BY <2>4 DEF PollTake, RxLine, TxLine, TypeOK
    <3>2. ppc[p] = "take" /\ ppc'[p] = "call" /\ mpc' = mpc
      BY <2>4 DEF PollTake, TypeOK
    <3>3. \A q \in Procs \ {p} : RxLine(q) # RxLine(p)
      BY Separate
    <3>4. /\ mode \in [Lines -> Modes] /\ RxLine(p) \in Lines
          /\ mode' = [mode EXCEPT ![RxLine(p)] = "CM_READING"]
      BY <2>4, LineTypes DEF PollTake, TypeOK, Attached, Polled, WriteSteps
    <3>5. mode[RxLine(p)] = "CM_READY"
      BY <3>2 DEF ReaderMode
    <3>6. ReaderMode'
      BY <3>1, <3>2, <3>3, <3>4 DEF ReaderMode
    <3>7. WriterMode'
      BY <3>1, <3>2, <3>4, <3>5 DEF WriterMode
    <3> QED
      BY <3>6, <3>7
  <2>5. CASE PollCall(p)
    BY <2>5 DEF PollCall, TypeOK, Polled, ReaderMode, WriterMode, RxLine, TxLine, WriteSteps
  <2>6. CASE PollHead(p)
    BY <2>6 DEF PollHead, TypeOK, Polled, ReaderMode, WriterMode, RxLine, TxLine, WriteSteps
  <2>7. CASE PollTail(p)
    BY <2>7 DEF PollTail, TypeOK, Polled, ReaderMode, WriterMode, RxLine, TxLine, WriteSteps
  <2>8. CASE PollClear(p)
    BY <2>8 DEF PollClear, TypeOK, Polled, ReaderMode, WriterMode, RxLine, TxLine, WriteSteps
  <2>9. CASE PollFree(p)
    <3>1. /\ stream' = stream /\ \A q \in Procs : RxLine(q)' = RxLine(q) /\ TxLine(q)' = TxLine(q)
          /\ \A q \in Procs \ {p} : mpc'[q] = mpc[q] /\ ppc'[q] = ppc[q]
      BY <2>9 DEF PollFree, RxLine, TxLine, TypeOK
    <3>2. ppc'[p] = "loop" /\ mpc' = mpc
      BY <2>9 DEF PollFree, TypeOK
    <3>3. \A q \in Procs \ {p} : RxLine(q) # RxLine(p)
      BY Separate
    <3>4. /\ mode \in [Lines -> Modes] /\ RxLine(p) \in Lines
          /\ mode' = [mode EXCEPT ![RxLine(p)] = "CM_EMPTY"]
      BY <2>9, LineTypes DEF PollFree, TypeOK, Attached, Polled, WriteSteps
    <3>5. ReaderMode'
      BY <3>1, <3>2, <3>3, <3>4 DEF ReaderMode
    <3>6. WriterMode'
      BY <3>1, <3>2, <3>4 DEF WriterMode
    <3> QED
      BY <3>5, <3>6
  <2> QED
    BY <1>5, <2>1, <2>2, <2>3, <2>4, <2>5, <2>6, <2>7, <2>8, <2>9 DEF PollStep
<1>6. CASE DeinitStep(p)
  <2>1. CASE DeinitJoin(p)
    BY <2>1 DEF DeinitJoin, TypeOK, Polled, ReaderMode, WriterMode, RxLine, TxLine, WriteSteps
  <2>2. CASE DeinitLoad(p)
    BY <2>2 DEF DeinitLoad, TypeOK, Polled, ReaderMode, WriterMode, RxLine, TxLine, WriteSteps
  <2>3. CASE DeinitStore(p)
    BY <2>3 DEF DeinitStore, TypeOK, Polled, ReaderMode, WriterMode, RxLine, TxLine, WriteSteps
  <2>4. CASE DeinitTest(p)
    BY <2>4 DEF DeinitTest, TypeOK, Polled, ReaderMode, WriterMode, RxLine, TxLine, WriteSteps
  <2>5. CASE DeinitId(p)
    BY <2>5 DEF DeinitId, TypeOK, Polled, ReaderMode, WriterMode, RxLine, TxLine, WriteSteps
  <2>6. CASE DeinitMode(p)
    <3>1. /\ stream' = stream /\ \A q \in Procs : RxLine(q)' = RxLine(q) /\ TxLine(q)' = TxLine(q)
          /\ \A q \in Procs \ {p} : mpc'[q] = mpc[q] /\ ppc'[q] = ppc[q]
      BY <2>6 DEF DeinitMode, RxLine, TxLine, TypeOK
    <3>2. ppc[p] = "none" /\ ppc' = ppc /\ mpc[p] \in {"i_mode", "d_mode"} /\ mpc'[p] \in {"i_size", "d_size"}
      BY <2>6 DEF DeinitMode, TypeOK, Polled, WriteSteps
    <3>3. \A q \in Procs \ {p} : RxLine(q) # RxLine(p)
      BY Separate
    <3>4. /\ mode \in [Lines -> Modes] /\ RxLine(p) \in Lines
          /\ mode' = [mode EXCEPT ![RxLine(p)] = "CM_INVALID"]
      BY <2>6, LineTypes DEF DeinitMode, TypeOK, Attached, Polled, WriteSteps
    <3>5. ReaderMode'
      BY <3>1, <3>2, <3>3, <3>4 DEF ReaderMode
    <3>6. WriterMode'
      BY <3>1, <3>2, <3>4 DEF WriterMode
    <3> QED
      BY <3>5, <3>6
  <2>7. CASE DeinitSize(p)
    BY <2>7 DEF DeinitSize, TypeOK, Polled, ReaderMode, WriterMode, RxLine, TxLine, WriteSteps
  <2>8. CASE DeinitUnmap(p)
    <3>1. \A q \in Procs \ {p} : RxLine(q)' = RxLine(q) /\ TxLine(q)' = TxLine(q) /\ mpc'[q] = mpc[q]
      BY <2>8 DEF DeinitUnmap, Gone, TypeOK, RxLine, TxLine
    <3>2. mpc[p] = "d_unmap" /\ mpc'[p] \in {"down", "d_unlink"} /\ mode' = mode /\ ppc' = ppc
      BY <2>8 DEF DeinitUnmap, Gone, TypeOK
    <3>3. ppc[p] = "none"
      BY <3>2 DEF Polled, WriteSteps
    <3>4. ReaderMode'
      BY <3>1, <3>2, <3>3 DEF ReaderMode
    <3>5. WriterMode'
      BY <3>1, <3>2 DEF WriterMode
    <3> QED
      BY <3>4, <3>5
  <2>9. CASE DeinitUnlink(p)
    BY <2>9 DEF DeinitUnlink, Gone, TypeOK, Polled, ReaderMode, WriterMode, RxLine, TxLine, WriteSteps
  <2>10. CASE DeinitStop(p)
    BY <2>10 DEF DeinitStop, TypeOK, Polled, ReaderMode, WriterMode, RxLine, TxLine, WriteSteps
  <2> QED
    BY <1>6, <2>1, <2>2, <2>3, <2>4, <2>5, <2>6, <2>7, <2>8, <2>9, <2>10 DEF DeinitStep
<1>7. CASE CallbackFaults(p) \/ JoinFaults(p)
  <2>1. Dies(p)
    BY <1>7 DEF CallbackFaults, JoinFaults
  <2> QED
    BY <2>1 DEF Dies, Gone, TypeOK, Polled, ReaderMode, WriterMode, RxLine, TxLine, WriteSteps
<1> QED
  BY <1>1, <1>2, <1>3, <1>4, <1>5, <1>6, <1>7

\* Before the first client starts, the line invariant holds.
LEMMA InitInv == ASSUME Init PROVE TypeOK /\ LineInv
<1> USE DEF Init
<1>1. TypeOK
  <2>1. /\ linked \in Objects \cup {NoObject}
        /\ created \in 0..MaxObjects
        /\ mishaps \in 0..MaxMishaps
        /\ attempt \in [Procs -> 0..MaxAttempts]
    BY ConstantsAssumption
  <2>2. sent \in [Procs -> Nat] /\ \A p \in Procs : sent[p] <= Len(CodeSize[p])
    BY ConstantsAssumption
  <2>3. /\ clients_attached \in [Objects -> Counts]
        /\ client_id \in [Lines -> Clients]
        /\ buffer_size \in [Lines -> Bytes]
        /\ count \in [Procs -> Counts]
        /\ rsize \in [Procs -> Bytes]
    BY Zeros
  <2> QED
    BY <2>1, <2>2, <2>3 DEF TypeOK, Modes, MainSteps, PollSteps, Statuses
<1>2. LineInv
  BY DEF LineInv, Attached, Polled, Sending, ReaderMode, WriterMode, WriteSteps
<1> QED
  BY <1>1, <1>2

\* A step that changes nothing keeps the invariants.
LEMMA StutterInv ==
  ASSUME TypeOK, LineInv, UNCHANGED vars
  PROVE  TypeOK' /\ LineInv'
<1> USE DEF vars, names, headers, lines, mains, pollers, history
<1>1. TypeOK'
  BY DEF TypeOK
<1>2. LineInv'
  BY DEF LineInv, Attached, Polled, Sending, Current, ReaderMode, WriterMode, RxLine, TxLine
<1> QED
  BY <1>1, <1>2

\* Every variable stays in its type, for clients with any identifiers: also with
\* the clashing ones that channel_init does not refuse.
THEOREM TypeCorrect == Spec => []TypeOK
<1> DEFINE Inv == TypeOK /\ Attached /\ Polled /\ Sending
<1>1. Init => Inv
  BY InitInv DEF LineInv
<1>2. Inv /\ [Next]_vars => Inv'
  <2>1. Inv /\ Next => Inv'
    BY TypeNext, SituationNext
  <2>2. Inv /\ UNCHANGED vars => Inv'
    BY DEF TypeOK, Attached, Polled, Sending, Current, vars, names, headers, lines, mains, pollers, history
  <2> QED
    BY <2>1, <2>2
<1>3. Inv => TypeOK
  OBVIOUS
<1> QED
  BY <1>1, <1>2, <1>3, PTL DEF Spec

\* LineInv is inductive when no two clients read the same line and no two write
\* to the same one.
THEOREM LineInvariant == ASSUME OneReader, OneWriter PROVE Spec => [](TypeOK /\ LineInv)
<1>1. Init => TypeOK /\ LineInv
  BY InitInv
<1>2. TypeOK /\ LineInv /\ [Next]_vars => (TypeOK /\ LineInv)'
  <2>1. TypeOK /\ LineInv /\ Next => (TypeOK /\ LineInv)'
    BY TypeNext, SituationNext, ModeNext DEF LineInv
  <2>2. TypeOK /\ LineInv /\ UNCHANGED vars => (TypeOK /\ LineInv)'
    BY StutterInv
  <2> QED
    BY <2>1, <2>2
<1> QED
  BY <1>1, <1>2, PTL DEF Spec

\* Nobody writes into a line while its owner reads from it, whoever starts, stops
\* and dies: a reader has seen CM_READY and a writer CM_EMPTY, and neither lets the
\* line become what the other has seen.
THEOREM ExclusiveAlways == ASSUME OneReader, OneWriter PROVE Spec => []Exclusive
<1>1. TypeOK /\ LineInv => Exclusive
  BY DEF LineInv, ReaderMode, WriterMode, Exclusive, Reading, Writing
<1> QED
  BY <1>1, LineInvariant, PTL

====
