------------------------ MODULE ChannelMessageProofs ------------------------
(***************************************************************************)
(* What TLAPS proves of the messages in the lines of Channel: they arrive  *)
(* whole and in order, and a line is a mailbox.                            *)
(***************************************************************************)
EXTENDS ChannelProofs, SequenceTheorems

Step(p) ==
  \/ UserStep(p) \/ InitStep(p) \/ WriteStep(p) \/ PollStep(p) \/ DeinitStep(p)
  \/ CallbackFaults(p) \/ JoinFaults(p)

\* The threads of q stay where they are.
Still(q) ==
  /\ mpc'[q] = mpc[q] /\ ppc'[q] = ppc[q]
  /\ stream'[q] = stream[q] /\ polling'[q] = polling[q] /\ sent'[q] = sent[q]
  /\ rsize'[q] = rsize[q] /\ rhead'[q] = rhead[q]

\* A step moves the threads of one process.
LEMMA OneMoves ==
  ASSUME TypeOK, NEW p \in Procs, Step(p)
  PROVE  \A q \in Procs \ {p} : Still(q)
<1> USE DEF names, headers, lines, mains, pollers, history, Goto, PollGoto, TypeOK, Still
<1>1. CASE UserStep(p)
  BY <1>1 DEF UserStep, InitOpen, InitFails, WriteEnter, Close, Kill, Dies, Gone, Return
<1>2. CASE InitStep(p)
  BY <1>2 DEF InitStep, InitLoad, InitStore, InitId, InitMode, InitSize, InitSpawn, InitSetup
<1>3. CASE WriteStep(p)
  BY <1>3 DEF WriteStep, WriteTry, WriteMark, WriteHead, WriteTail, WriteSize, WriteReady, Placed, Return
<1>4. CASE PollStep(p)
  BY <1>4 DEF PollStep, PollStart, PollLoop, PollLook, PollTake, PollCall, PollHead, PollTail,
              PollClear, PollFree
<1>5. CASE DeinitStep(p)
  BY <1>5 DEF DeinitStep, DeinitStop, DeinitJoin, DeinitLoad, DeinitStore, DeinitTest, DeinitId,
              DeinitMode, DeinitSize, DeinitUnmap, DeinitUnlink, Gone
<1>6. CASE CallbackFaults(p) \/ JoinFaults(p)
  BY <1>6 DEF CallbackFaults, JoinFaults, Dies, Gone
<1> QED
  BY <1>1, <1>2, <1>3, <1>4, <1>5, <1>6 DEF Step

\* The steps that write into a line, copy from it or number a message.
Loud(p) ==
  \/ WriteEnter(p) \/ InitMode(p) \/ InitSize(p)
  \/ WriteMark(p) \/ WriteHead(p) \/ WriteTail(p) \/ WriteSize(p) \/ WriteReady(p)
  \/ PollTake(p) \/ PollCall(p) \/ PollHead(p) \/ PollTail(p) \/ PollClear(p) \/ PollFree(p)
  \/ DeinitMode(p) \/ DeinitSize(p)

\* The others do none of that, and lead into the middle of none of it.
Quiet(p) ==
  /\ UNCHANGED <<lines, sent, accepted, delivered, wiped>>
  /\ mpc'[p] \in WriteSteps => mpc[p] \in WriteSteps /\ stream'[p] = stream[p]
  /\ mpc'[p] \in {"w_tail", "w_size", "w_ready"} => mpc'[p] = mpc[p]
  /\ ppc'[p] \in {"call", "head", "tail"} =>
       ppc'[p] = ppc[p] /\ stream'[p] = stream[p] /\ rsize'[p] = rsize[p] /\ rhead'[p] = rhead[p]
  /\ ppc[p] \in {"call", "head", "tail"} =>
       ppc'[p] = "none" \/ (ppc'[p] = ppc[p] /\ stream'[p] = stream[p])

LEMMA LoudOrQuiet ==
  ASSUME TypeOK, Polled, NEW p \in Procs, Step(p)
  PROVE  Loud(p) \/ Quiet(p)
<1>7. Dies(p) => Quiet(p)
  <2> SUFFICES ASSUME Dies(p) PROVE Quiet(p)
    OBVIOUS
  <2>1. UNCHANGED <<lines, sent, accepted, delivered, wiped>>
    BY DEF Dies
  <2>2. mpc'[p] = "down" /\ ppc'[p] = "none"
    BY DEF Dies, Gone, Goto, TypeOK
  <2> QED
    BY <2>1, <2>2 DEF Quiet, WriteSteps
<1> USE DEF names, headers, lines, mains, pollers, history, Goto, PollGoto, TypeOK, Quiet,
            WriteSteps
<1>1. CASE UserStep(p)
  <2>1. CASE InitOpen(p)
    BY <2>1 DEF InitOpen, Polled
  <2>2. CASE InitFails(p) \/ Close(p)
    BY <2>2 DEF InitFails, Close
  <2>3. CASE Kill(p)
    BY <1>7, <2>3 DEF Kill
  <2> QED
    BY <1>1, <2>1, <2>2, <2>3 DEF UserStep, Loud
<1>2. CASE InitStep(p)
  BY <1>2 DEF InitStep, Loud, InitLoad, InitStore, InitId, InitSpawn, InitSetup
<1>3. CASE WriteStep(p)
  BY <1>3 DEF WriteStep, Loud, WriteTry, Return
<1>4. CASE PollStep(p)
  BY <1>4 DEF PollStep, Loud, PollStart, PollLoop, PollLook
<1>5. CASE DeinitStep(p)
  BY <1>5 DEF DeinitStep, Loud, DeinitStop, DeinitJoin, DeinitLoad, DeinitStore, DeinitTest,
              DeinitId, DeinitUnmap, DeinitUnlink, Gone, Polled
<1>6. CASE CallbackFaults(p) \/ JoinFaults(p)
  BY <1>6, <1>7 DEF CallbackFaults, JoinFaults
<1> QED
  BY <1>1, <1>2, <1>3, <1>4, <1>5, <1>6 DEF Step

-----------------------------------------------------------------------------
\* The messages in the lines. A step that writes into a line is taken where the
\* mode of the line keeps everyone else out of it, or where what it writes does
\* not matter to them.
LEMMA KeptNext ==
  ASSUME OneReader, OneWriter, TypeOK, LineInv, Kept, Measured, Copied, Taken, Next
  PROVE  Kept' /\ Copied' /\ Taken'
<1> USE DEF names, headers, lines, mains, pollers, history, Goto, PollGoto
<1>1. PICK p \in Procs : Step(p)
  BY DEF Next, Step
<1>2. \A q \in Procs \ {p} :
        /\ Still(q) /\ RxLine(q)' = RxLine(q) /\ TxLine(q)' = TxLine(q) /\ Current(q)' = Current(q)
        /\ RxLine(q) # RxLine(p) /\ TxLine(q) # TxLine(p)
  BY <1>1, OneMoves, Separate DEF Still, RxLine, TxLine, Current
<1>3. \A q \in Procs :
        /\ mpc[q] \in WriteSteps => TxLine(q) \in Lines
        /\ ppc[q] # "none" => RxLine(q) \in Lines
        /\ mpc[q] \in {"i_mode", "i_size", "d_mode", "d_size"} => RxLine(q) \in Lines
  BY LineTypes DEF LineInv, Attached, Polled, WriteSteps
<1>4. /\ mode \in [Lines -> Modes] /\ buffer_size \in [Lines -> Bytes]
      /\ head \in [Lines -> Msgs \cup {NoMsg}] /\ tail \in [Lines -> Msgs \cup {NoMsg}]
      /\ wiped \in [Lines -> BOOLEAN]
  BY DEF TypeOK
<1>5. Quiet(p) => Kept' /\ Copied' /\ Taken'
  <2> SUFFICES ASSUME Quiet(p) PROVE Kept' /\ Copied' /\ Taken'
    OBVIOUS
  <2>1. Kept'
    BY DEF Quiet, Kept
  <2>2. Copied'
    BY <1>2 DEF Quiet, Copied, Sized, Still, TxLine, Current, WriteSteps
  <2>3. Taken'
    BY <1>2 DEF Quiet, Taken, Still, RxLine
  <2> QED
    BY <2>1, <2>2, <2>3
<1>6. CASE WriteEnter(p)
  <2>1. /\ UNCHANGED <<lines, wiped>> /\ UNCHANGED <<ppc, rsize, rhead>> /\ RxLine(p)' = RxLine(p)
        /\ mpc'[p] \in {"gtk_main", "w_try"}
    BY <1>6, <1>3 DEF WriteEnter, Return, TypeOK, RxLine
  <2>2. Kept'
    BY <1>4, <2>1 DEF Kept
  <2>3. Copied'
    BY <1>2, <1>3, <1>4, <2>1 DEF Copied, Sized, Still, WriteSteps
  <2>4. Taken'
    BY <1>2, <1>3, <1>4, <2>1 DEF Taken, Still
  <2> QED
    BY <2>2, <2>3, <2>4
<1>7. CASE InitMode(p) \/ DeinitMode(p)
  <2>1. /\ \E m \in {"CM_EMPTY", "CM_INVALID"} : mode' = [mode EXCEPT ![RxLine(p)] = m]
        /\ RxLine(p) \in Lines /\ UNCHANGED <<buffer_size, head, tail, wiped, ppc, rsize, rhead>>
        /\ mpc'[p] \in {"i_size", "d_size"}
        /\ RxLine(p)' = RxLine(p) /\ TxLine(p)' = TxLine(p) /\ Current(p)' = Current(p)
    BY <1>7, <1>3 DEF InitMode, DeinitMode, TypeOK, RxLine, TxLine, Current, WriteSteps
  <2>2. Kept'
    BY <1>4, <2>1 DEF Kept
  <2>3. Copied'
    BY <1>2, <1>3, <1>4, <2>1 DEF Copied, Sized, Still, WriteSteps
  <2>4. Taken'
    BY <1>2, <1>3, <1>4, <2>1 DEF Taken, Still
  <2> QED
    BY <2>2, <2>3, <2>4
<1>8. CASE InitSize(p) \/ DeinitSize(p)
  <2>1. /\ buffer_size' = [buffer_size EXCEPT ![RxLine(p)] = 0] /\ RxLine(p) \in Lines
        /\ wiped' = [wiped EXCEPT ![RxLine(p)] = TRUE] /\ ppc[p] = "none"
        /\ UNCHANGED <<mode, head, tail, ppc, rsize, rhead>>
        /\ mpc'[p] \in {"i_spawn", "d_unmap"}
        /\ RxLine(p)' = RxLine(p) /\ TxLine(p)' = TxLine(p) /\ Current(p)' = Current(p)
    BY <1>8, <1>3 DEF InitSize, DeinitSize, Wipe, TypeOK, RxLine, TxLine, Current, WriteSteps,
                      LineInv, Polled
  <2>2. Kept'
    BY <1>4, <2>1 DEF Kept
  <2>3. Copied'
    BY <1>2, <1>3, <1>4, <2>1 DEF Copied, Sized, Still, WriteSteps
  <2>4. Taken'
    BY <1>2, <1>3, <1>4, <2>1 DEF Taken, Still
  <2> QED
    BY <2>2, <2>3, <2>4
<1>19. CASE PollClear(p)
  <2>1. /\ buffer_size' = [buffer_size EXCEPT ![RxLine(p)] = 0] /\ RxLine(p) \in Lines
        /\ UNCHANGED <<mode, head, tail, wiped, mpc, rsize, rhead>>
        /\ ppc'[p] = "free" /\ mode[RxLine(p)] = "CM_READING"
        /\ RxLine(p)' = RxLine(p) /\ TxLine(p)' = TxLine(p) /\ Current(p)' = Current(p)
    BY <1>19, <1>3 DEF PollClear, TypeOK, RxLine, TxLine, Current, LineInv, ReaderMode
  <2>2. Kept'
    BY <1>4, <2>1 DEF Kept
  <2>3. Copied'
    <3>1. \A q \in Procs : mpc[q] = "w_ready" => TxLine(q) # RxLine(p)
      BY <2>1 DEF LineInv, WriterMode
    <3>2. \A q \in Procs : TxLine(q)' = TxLine(q) /\ Current(q)' = Current(q)
      BY <1>2, <2>1
    <3> QED
      BY <1>3, <1>4, <2>1, <3>1, <3>2 DEF Copied, Sized, WriteSteps
  <2>4. Taken'
    BY <1>2, <1>3, <1>4, <2>1 DEF Taken, Still
  <2> QED
    BY <2>2, <2>3, <2>4
<1>9. CASE WriteMark(p)
  <2>1. /\ mode' = [mode EXCEPT ![TxLine(p)] = "CM_WRITING"] /\ TxLine(p) \in Lines
        /\ UNCHANGED <<buffer_size, head, tail, wiped, ppc, rsize, rhead>> /\ mpc'[p] = "w_head"
        /\ RxLine(p)' = RxLine(p) /\ TxLine(p)' = TxLine(p) /\ Current(p)' = Current(p)
    BY <1>9, <1>3 DEF WriteMark, TypeOK, RxLine, TxLine, Current, WriteSteps
  <2>2. Kept'
    BY <1>4, <2>1 DEF Kept
  <2>3. Copied'
    BY <1>2, <1>3, <1>4, <2>1 DEF Copied, Sized, Still, WriteSteps
  <2>4. Taken'
    BY <1>2, <1>3, <1>4, <2>1 DEF Taken, Still
  <2> QED
    BY <2>2, <2>3, <2>4
<1>10. CASE WriteHead(p)
  <2>1. /\ head' = [head EXCEPT ![TxLine(p)] = Current(p)]
        /\ UNCHANGED <<mode, buffer_size, tail, wiped, ppc, rsize, rhead>> /\ mpc'[p] = "w_tail"
        /\ mode[TxLine(p)] \notin {"CM_READY", "CM_READING"} /\ TxLine(p) \in Lines
        /\ RxLine(p)' = RxLine(p) /\ TxLine(p)' = TxLine(p) /\ Current(p)' = Current(p)
    BY <1>10, <1>3 DEF WriteHead, TypeOK, RxLine, TxLine, Current, WriteSteps, LineInv, WriterMode
  <2>2. Kept'
    BY <1>4, <2>1 DEF Kept
  <2>3. Copied'
    BY <1>2, <1>3, <1>4, <2>1 DEF Copied, Sized, Still, WriteSteps
  <2>4. Taken'
    BY <1>2, <1>3, <1>4, <2>1 DEF Taken, Still, LineInv, ReaderMode
  <2> QED
    BY <2>2, <2>3, <2>4
<1>11. CASE WriteTail(p)
  <2>1. /\ tail' = [tail EXCEPT ![TxLine(p)] = Current(p)]
        /\ UNCHANGED <<mode, buffer_size, head, wiped, ppc, rsize, rhead>>
        /\ mpc[p] = "w_tail" /\ mpc'[p] = "w_size"
        /\ mode[TxLine(p)] \notin {"CM_READY", "CM_READING"} /\ TxLine(p) \in Lines
        /\ RxLine(p)' = RxLine(p) /\ TxLine(p)' = TxLine(p) /\ Current(p)' = Current(p)
    BY <1>11, <1>3 DEF WriteTail, TypeOK, RxLine, TxLine, Current, WriteSteps, LineInv, WriterMode
  <2>2. Kept'
    BY <1>4, <2>1 DEF Kept
  <2>3. Copied'
    BY <1>2, <1>3, <1>4, <2>1 DEF Copied, Sized, Still, WriteSteps
  <2>4. Taken'
    BY <1>2, <1>3, <1>4, <2>1 DEF Taken, Still
  <2> QED
    BY <2>2, <2>3, <2>4
<1>12. CASE WriteSize(p)
  <2>1. /\ buffer_size' = [buffer_size EXCEPT ![TxLine(p)] = WireSize(Current(p))]
        /\ wiped' = [wiped EXCEPT ![TxLine(p)] = FALSE]
        /\ UNCHANGED <<mode, head, tail, ppc, rsize, rhead>>
        /\ mpc[p] = "w_size" /\ mpc'[p] = "w_ready"
        /\ mode[TxLine(p)] \notin {"CM_READY", "CM_READING"} /\ TxLine(p) \in Lines
        /\ RxLine(p)' = RxLine(p) /\ TxLine(p)' = TxLine(p) /\ Current(p)' = Current(p)
    BY <1>12, <1>3 DEF WriteSize, TypeOK, RxLine, TxLine, Current, WriteSteps, LineInv, WriterMode
  <2>2. Kept'
    BY <1>4, <2>1 DEF Kept
  <2>3. Copied'
    BY <1>2, <1>3, <1>4, <2>1, WireSizeType DEF Copied, Sized, Still, WriteSteps
  <2>4. Taken'
    BY <1>2, <1>3, <1>4, <2>1 DEF Taken, Still
  <2> QED
    BY <2>2, <2>3, <2>4
<1>13. CASE WriteReady(p)
  <2>1. /\ mode' = [mode EXCEPT ![TxLine(p)] = "CM_READY"] /\ TxLine(p) \in Lines
        /\ UNCHANGED <<buffer_size, head, tail, wiped, ppc, rsize, rhead>>
        /\ mpc[p] = "w_ready" /\ mpc'[p] = "gtk_main"
        /\ RxLine(p)' = RxLine(p) /\ TxLine(p)' = TxLine(p) /\ Current(p)' = Current(p)
    BY <1>13, <1>3 DEF WriteReady, TypeOK, RxLine, TxLine, Current, WriteSteps, Placed, Return
  <2>2. Kept'
    BY <1>4, <2>1 DEF Kept, Copied, LineInv, Sending, WriteSteps
  <2>3. Copied'
    BY <1>2, <1>3, <1>4, <2>1 DEF Copied, Sized, Still, WriteSteps
  <2>4. Taken'
    BY <1>2, <1>3, <1>4, <2>1 DEF Taken, Still
  <2> QED
    BY <2>2, <2>3, <2>4
<1>14. CASE PollTake(p)
  <2>1. /\ mode' = [mode EXCEPT ![RxLine(p)] = "CM_READING"] /\ RxLine(p) \in Lines
        /\ mode[RxLine(p)] = "CM_READY"
        /\ UNCHANGED <<buffer_size, head, tail, wiped, mpc, rsize, rhead>> /\ ppc'[p] = "call"
        /\ RxLine(p)' = RxLine(p) /\ TxLine(p)' = TxLine(p) /\ Current(p)' = Current(p)
    BY <1>14, <1>3 DEF PollTake, TypeOK, RxLine, TxLine, Current, WriteSteps, LineInv, ReaderMode
  <2>2. Kept'
    BY <1>4, <2>1 DEF Kept
  <2>3. Copied'
    BY <1>2, <1>3, <1>4, <2>1 DEF Copied, Sized, Still, WriteSteps
  <2>4. Taken'
    BY <1>2, <1>3, <1>4, <2>1 DEF Taken, Still
  <2> QED
    BY <2>2, <2>3, <2>4
<1>15. CASE PollCall(p)
  <2>1. /\ UNCHANGED <<lines, wiped>> /\ UNCHANGED <<mpc, rhead>>
        /\ mode[RxLine(p)] = "CM_READING" /\ RxLine(p) \in Lines /\ ppc[p] = "call"
        /\ \/ ppc'[p] = "clear"
           \/ buffer_size[RxLine(p)] # 0 /\ ppc'[p] = "head" /\ rsize'[p] = buffer_size[RxLine(p)]
        /\ RxLine(p)' = RxLine(p) /\ TxLine(p)' = TxLine(p) /\ Current(p)' = Current(p)
    BY <1>15, <1>3 DEF PollCall, TypeOK, RxLine, TxLine, Current, WriteSteps, LineInv, ReaderMode
  <2>2. Kept'
    BY <1>4, <2>1 DEF Kept
  <2>3. Copied'
    BY <1>2, <1>3, <1>4, <2>1 DEF Copied, Sized, Still, WriteSteps
  <2>4. Taken'
    BY <1>2, <1>3, <1>4, <2>1 DEF Taken, Still, Measured, Waiting, Sized
  <2> QED
    BY <2>2, <2>3, <2>4
<1>16. CASE PollHead(p)
  <2>1. /\ UNCHANGED <<lines, wiped>> /\ UNCHANGED <<mpc, rsize>>
        /\ ppc[p] = "head" /\ ppc'[p] = "tail" /\ rhead'[p] = head[RxLine(p)]
        /\ RxLine(p)' = RxLine(p) /\ TxLine(p)' = TxLine(p) /\ Current(p)' = Current(p)
    BY <1>16, <1>3 DEF PollHead, TypeOK, RxLine, TxLine, Current, WriteSteps
  <2>2. Kept'
    BY <1>4, <2>1 DEF Kept
  <2>3. Copied'
    BY <1>2, <1>3, <1>4, <2>1 DEF Copied, Sized, Still, WriteSteps
  <2>4. Taken'
    BY <1>2, <1>3, <1>4, <2>1 DEF Taken, Still
  <2> QED
    BY <2>2, <2>3, <2>4
<1>17. CASE PollTail(p)
  <2>1. /\ UNCHANGED <<lines, wiped>> /\ UNCHANGED mpc /\ ppc'[p] = "clear"
        /\ RxLine(p)' = RxLine(p) /\ TxLine(p)' = TxLine(p) /\ Current(p)' = Current(p)
    BY <1>17, <1>3 DEF PollTail, TypeOK, RxLine, TxLine, Current, WriteSteps
  <2>2. Kept'
    BY <1>4, <2>1 DEF Kept
  <2>3. Copied'
    BY <1>2, <1>3, <1>4, <2>1 DEF Copied, Sized, Still, WriteSteps
  <2>4. Taken'
    BY <1>2, <1>3, <1>4, <2>1 DEF Taken, Still
  <2> QED
    BY <2>2, <2>3, <2>4
<1>18. CASE PollFree(p)
  <2>1. /\ mode' = [mode EXCEPT ![RxLine(p)] = "CM_EMPTY"] /\ RxLine(p) \in Lines
        /\ UNCHANGED <<buffer_size, head, tail, wiped, mpc, rsize, rhead>> /\ ppc'[p] = "loop"
        /\ RxLine(p)' = RxLine(p) /\ TxLine(p)' = TxLine(p) /\ Current(p)' = Current(p)
    BY <1>18, <1>3 DEF PollFree, TypeOK, RxLine, TxLine, Current, WriteSteps
  <2>2. Kept'
    BY <1>4, <2>1 DEF Kept
  <2>3. Copied'
    BY <1>2, <1>3, <1>4, <2>1 DEF Copied, Sized, Still, WriteSteps
  <2>4. Taken'
    BY <1>2, <1>3, <1>4, <2>1 DEF Taken, Still
  <2> QED
    BY <2>2, <2>3, <2>4
<1> QED
  BY <1>1, <1>5, <1>6, <1>7, <1>8, <1>9, <1>10, <1>11, <1>12, <1>13, <1>14, <1>15, <1>16, <1>17, <1>18, <1>19, LoudOrQuiet DEF Loud, LineInv

-----------------------------------------------------------------------------
\* What a step can do to a line as a mailbox: at most lose what is in it,
Keeps(l) ==
  /\ accepted'[l] = accepted[l] /\ delivered'[l] = delivered[l]
  /\ Waiting(l)' => Waiting(l) /\ head'[l] = head[l]

\* put the message of its writer into it, which is empty,
Puts(p, l) ==
  /\ ~ Waiting(l) /\ Waiting(l)' /\ head'[l] = Current(p)
  /\ mpc[p] \in WriteSteps /\ mpc'[p] = "gtk_main" /\ l = TxLine(p) /\ l[2] = DstOf[p]
  /\ sent' = sent
  /\ accepted'[l] = Append(accepted[l], Current(p)) /\ delivered'[l] = delivered[l]
  /\ Sized(l, head[l])'

\* or hand over what is in it, whole or as nothing.
HandsOver(p, l) ==
  /\ l = RxLine(p) /\ ppc[p] # "none" /\ Waiting(l) /\ ~ Waiting(l)' /\ accepted'[l] = accepted[l]
  /\ \E b \in Buffers : /\ delivered'[l] = Append(delivered[l], b)
                        /\ \/ b = Blank /\ wiped[l]
                           \/ /\ b.head = head[l] /\ b.tail = tail[l] /\ b.size = WireSize(head[l])
                              /\ ~ wiped[l]

LEMMA LineStep ==
  ASSUME OneReader, OneWriter, TypeOK, LineInv, Kept, Measured, Copied, Taken,
         NEW p \in Procs, Step(p), NEW l \in Lines
  PROVE  Keeps(l) \/ Puts(p, l) \/ HandsOver(p, l)
<1> USE DEF names, headers, lines, mains, pollers, history, Goto, PollGoto
<1>2. \A q \in Procs \ {p} :
        /\ Still(q) /\ RxLine(q)' = RxLine(q) /\ TxLine(q)' = TxLine(q)
        /\ RxLine(q) # RxLine(p) /\ TxLine(q) # TxLine(p)
  BY OneMoves, Separate DEF Still, RxLine, TxLine
<1>3. /\ mpc[p] \in WriteSteps => TxLine(p) \in Lines /\ TxLine(p)[2] = DstOf[p]
      /\ ppc[p] # "none" => RxLine(p) \in Lines
      /\ mpc[p] \in {"i_mode", "i_size", "d_mode", "d_size"} => RxLine(p) \in Lines
  BY LineTypes DEF LineInv, Attached, Polled, WriteSteps, TxLine
<1>4. /\ mode \in [Lines -> Modes] /\ head \in [Lines -> Msgs \cup {NoMsg}]
      /\ tail \in [Lines -> Msgs \cup {NoMsg}]
      /\ accepted \in [Lines -> Seq(Msgs)] /\ delivered \in [Lines -> Seq(Buffers)]
  BY DEF TypeOK
<1>5. Waiting(l) => mode[l] \in {"CM_READY", "CM_READING"}
  BY DEF Waiting, LineInv, ReaderMode
<1>6. Quiet(p) => Keeps(l)
  BY <1>2 DEF Keeps, Quiet, Waiting, Still, RxLine
<1>7. WriteEnter(p) => Keeps(l)
  BY DEF Keeps, WriteEnter, Waiting, RxLine
<1>8. InitMode(p) \/ DeinitMode(p) => Keeps(l)
  BY <1>3, <1>4 DEF Keeps, InitMode, DeinitMode, Waiting, RxLine
<1>9. InitSize(p) \/ DeinitSize(p) \/ PollClear(p) => Keeps(l)
  BY <1>2 DEF Keeps, InitSize, DeinitSize, Wipe, PollClear, Waiting, RxLine, TypeOK
<1>10. WriteMark(p) => Keeps(l)
  BY <1>3, <1>4 DEF Keeps, WriteMark, Waiting, RxLine, WriteSteps
<1>11. WriteHead(p) => Keeps(l)
  <2> SUFFICES ASSUME WriteHead(p) PROVE Keeps(l)
    OBVIOUS
  <2>1. mode[TxLine(p)] \notin {"CM_READY", "CM_READING"}
    BY DEF WriteHead, LineInv, WriterMode
  <2>2. Waiting(l) => l # TxLine(p)
    BY <1>5, <2>1
  <2>3. Waiting(l)' => Waiting(l)
    BY DEF WriteHead, Waiting, RxLine
  <2> QED
    BY <1>4, <2>2, <2>3 DEF WriteHead, Keeps
<1>12. WriteTail(p) \/ WriteSize(p) => Keeps(l)
  BY DEF Keeps, WriteTail, WriteSize, Waiting, RxLine
<1>13. PollTake(p) => Keeps(l)
  <2> SUFFICES ASSUME PollTake(p) PROVE Keeps(l)
    OBVIOUS
  <2>1. UNCHANGED <<head, accepted, delivered, stream>>
    BY DEF PollTake
  <2>2. CASE l = RxLine(p)
    BY <2>1, <2>2 DEF Keeps, PollTake, Waiting, LineInv, ReaderMode
  <2>3. CASE l # RxLine(p)
    <3>1. mode'[l] = mode[l]
      BY <1>4, <2>3 DEF PollTake
    <3>2. \A q \in Procs : RxLine(q)' = l => q # p /\ RxLine(q) = l /\ ppc'[q] = ppc[q]
      BY <1>2, <2>1, <2>3 DEF RxLine, Still
    <3> QED
      BY <2>1, <3>1, <3>2 DEF Keeps, Waiting
  <2> QED
    BY <2>2, <2>3
<1>14. PollHead(p) => Keeps(l)
  BY <1>2 DEF Keeps, PollHead, Waiting, RxLine, TypeOK
<1>15. PollFree(p) => Keeps(l)
  BY <1>2, <1>3, <1>4 DEF Keeps, PollFree, Waiting, RxLine, TypeOK
<1>16. CASE WriteReady(p) /\ l = TxLine(p)
  <2>1. /\ mpc[p] = "w_ready" /\ mpc'[p] = "gtk_main" /\ l[2] = DstOf[p] /\ sent' = sent
        /\ head'[l] = head[l] /\ delivered' = delivered /\ UNCHANGED <<buffer_size, wiped>>
    BY <1>16, <1>3 DEF WriteReady, Placed, Return, TypeOK, WriteSteps
  <2>2. accepted'[l] = Append(accepted[l], Current(p)) /\ mode'[l] = "CM_READY"
    BY <1>16, <1>4 DEF WriteReady
  <2>3. head[l] = Current(p)
    BY <1>16, <2>1 DEF Copied
  <2>4. ~ Waiting(l)
    BY <1>16, <1>5, <2>1 DEF LineInv, WriterMode
  <2> QED
    BY <1>16, <2>1, <2>2, <2>3, <2>4 DEF Puts, Waiting, WriteSteps, Copied, Sized
<1>17. CASE WriteReady(p) /\ l # TxLine(p)
  BY <1>17, <1>4 DEF Keeps, WriteReady, Waiting, RxLine
<1>18. CASE (PollCall(p) \/ PollTail(p)) /\ delivered' # delivered /\ l = RxLine(p)
  <2>1. /\ UNCHANGED <<lines, accepted>> /\ UNCHANGED stream
        /\ ppc[p] \in {"call", "tail"} /\ ppc'[p] = "clear"
    BY <1>18 DEF PollCall, PollTail, TypeOK
  <2>2. mode[l] = "CM_READING"
    BY <1>18, <2>1 DEF LineInv, ReaderMode
  <2>3. Waiting(l)
    BY <1>18, <2>1 DEF Waiting
  <2>4. ~ Waiting(l)'
    <3>1. \A q \in Procs : RxLine(q)' = l => q = p
      BY <1>18, <1>2
    <3> QED
      BY <2>1, <2>2, <3>1 DEF Waiting
  <2>5. \E b \in Buffers : /\ delivered' = [delivered EXCEPT ![l] = Append(@, b)]
                           /\ \/ b = Blank /\ wiped[l]
                              \/ /\ b.head = head[l] /\ b.tail = tail[l] /\ b.size = WireSize(head[l])
                                 /\ ~ wiped[l]
    <3>1. CASE PollCall(p)
      <4>1. buffer_size[l] = 0 /\ Deliver(p, Blank)
        BY <1>18, <3>1 DEF PollCall
      <4>2. wiped[l]
        BY <2>2, <2>3, <4>1 DEF Kept, Measured, Sized
      <4> QED
        BY <1>18, <4>1, <4>2, BlankType DEF Deliver
    <3>2. CASE PollTail(p)
      <4> DEFINE b == [size |-> rsize[p], head |-> rhead[p], tail |-> tail[RxLine(p)]]
      <4>1. b \in Buffers
        BY <1>3, <1>4, <2>1 DEF TypeOK, Buffers
      <4>2. b.head = head[l] /\ b.tail = tail[l] /\ b.size = WireSize(head[l]) /\ ~ wiped[l]
        BY <1>18, <3>2 DEF PollTail, Taken
      <4> QED
        BY <1>18, <3>2, <4>1, <4>2 DEF PollTail, Deliver
    <3> QED
      BY <1>18, <3>1, <3>2
  <2>6. PICK b \in Buffers : /\ delivered' = [delivered EXCEPT ![l] = Append(@, b)]
                             /\ \/ b = Blank /\ wiped[l]
                                \/ /\ b.head = head[l] /\ b.tail = tail[l] /\ b.size = WireSize(head[l])
                                   /\ ~ wiped[l]
    BY <2>5
  <2>7. delivered'[l] = Append(delivered[l], b)
    BY <1>4, <2>6
  <2> QED
    BY <1>18, <2>1, <2>3, <2>4, <2>6, <2>7 DEF HandsOver
<1>19. CASE (PollCall(p) \/ PollTail(p)) /\ ~ (delivered' # delivered /\ l = RxLine(p))
  <2>1. UNCHANGED <<lines, accepted>> /\ delivered'[l] = delivered[l]
    BY <1>19, <1>4 DEF PollCall, PollTail, Deliver
  <2>2. \A q \in Procs : /\ RxLine(q)' = RxLine(q)
                         /\ ppc'[q] \in {"call", "head", "tail"} => ppc[q] \in {"call", "head", "tail"}
    BY <1>19, <1>2 DEF PollCall, PollTail, RxLine, TypeOK, Still
  <2>3. Waiting(l)' => Waiting(l)
    BY <2>1, <2>2 DEF Waiting
  <2> QED
    BY <2>1, <2>3 DEF Keeps
<1>20. Loud(p) \/ Quiet(p)
  BY LoudOrQuiet DEF LineInv
<1> QED
  BY <1>6, <1>7, <1>8, <1>9, <1>10, <1>11, <1>12, <1>13, <1>14, <1>15, <1>16,
     <1>17, <1>18, <1>19, <1>20 DEF Loud

\* Who can spoil a message or lose it: the owner of the line, while no thread of it
\* takes messages.
LEMMA OwnerStep ==
  ASSUME OneReader, OneWriter, TypeOK, LineInv, NEW p \in Procs, Step(p), NEW l \in Lines
  PROVE  /\ \/ wiped'[l] = wiped[l]
            \/ (Served(l)' <=> Served(l)) /\ wiped'[l] = TRUE /\ ~ Served(l)
            \/ (Served(l)' <=> Served(l)) /\ wiped'[l] = FALSE /\ ~ Waiting(l)
         /\ accepted'[l] # accepted[l] \/ delivered'[l] # delivered[l] =>
              wiped'[l] = wiped[l] /\ (Served(l)' <=> Served(l))
         /\ Waiting(l) /\ ~ Waiting(l)' /\ delivered'[l] = delivered[l] =>
              wiped'[l] = wiped[l] /\ ~ Served(l)'
<1> USE DEF names, headers, lines, mains, pollers, history, Goto, PollGoto
<1>1. \A q \in Procs \ {p} :
        Still(q) /\ RxLine(q)' = RxLine(q) /\ RxLine(q) # RxLine(p) /\ TxLine(q) # TxLine(p)
  BY OneMoves, Separate DEF Still, RxLine
<1>2. /\ mpc[p] \in WriteSteps => TxLine(p) \in Lines
      /\ ppc[p] # "none" => RxLine(p) \in Lines
      /\ mpc[p] \in {"i_mode", "i_size", "d_mode", "d_size"} =>
           RxLine(p) \in Lines /\ ppc[p] = "none"
  BY LineTypes DEF LineInv, Attached, Polled, WriteSteps
<1>3. /\ mode \in [Lines -> Modes] /\ wiped \in [Lines -> BOOLEAN]
      /\ ppc \in [Procs -> PollSteps] /\ delivered \in [Lines -> Seq(Buffers)]
  BY DEF TypeOK
<1>4. CASE Quiet(p)
  <2>1. UNCHANGED <<lines, accepted, delivered, wiped>>
    BY <1>4 DEF Quiet
  <2>2. ASSUME Waiting(l), ~ Waiting(l)' PROVE ~ Served(l)'
    <3>1. PICK q \in Procs : RxLine(q) = l /\ ppc[q] \in {"call", "head", "tail"}
      BY <2>1, <2>2 DEF Waiting
    <3>2. q = p
      BY <1>1, <2>2, <3>1 DEF Waiting, Still
    <3>3. ppc'[p] = "none"
      BY <1>4, <2>2, <3>1, <3>2 DEF Quiet, Waiting, RxLine
    <3> QED
      BY <1>1, <3>1, <3>2, <3>3 DEF Served
  <2> QED
    BY <2>1, <2>2
<1>5. CASE Loud(p)
  <2>1. stream' = stream /\ (ppc'[p] = "none" <=> ppc[p] = "none")
    BY <1>3, <1>5 DEF Loud, WriteEnter, InitMode, InitSize, WriteMark, WriteHead, WriteTail,
       WriteSize, WriteReady, Placed, Return, PollTake, PollCall, PollHead, PollTail, PollClear,
       PollFree, DeinitMode, DeinitSize
  <2>2. Served(l)' <=> Served(l)
    <3>1. \A q \in Procs : RxLine(q)' = RxLine(q) /\ (ppc'[q] = "none" <=> ppc[q] = "none")
      BY <1>1, <2>1 DEF Still, RxLine
    <3> QED
      BY <3>1 DEF Served
  <2>3. ppc[p] = "none" /\ l = RxLine(p) => ~ Served(l)
    BY <1>1 DEF Served
  <2>4. \/ wiped'[l] = wiped[l]
        \/ wiped'[l] = TRUE /\ ~ Served(l)
        \/ wiped'[l] = FALSE /\ ~ Waiting(l)
    <3>1. CASE InitSize(p) \/ DeinitSize(p)
      <4>1. ppc[p] = "none" /\ wiped' = [wiped EXCEPT ![RxLine(p)] = TRUE]
        BY <1>2, <3>1 DEF InitSize, DeinitSize, Wipe
      <4>2. CASE l = RxLine(p)
        BY <1>3, <2>3, <4>1, <4>2
      <4>3. CASE l # RxLine(p)
        <5>1. wiped'[l] = wiped[l]
          BY <1>3, <4>1, <4>3
        <5> QED
          BY <5>1
      <4> QED
        BY <4>2, <4>3
    <3>2. CASE WriteSize(p)
      <4>1. ~ Waiting(TxLine(p))
        BY <3>2 DEF WriteSize, LineInv, WriterMode, ReaderMode, Waiting
      <4>2. wiped' = [wiped EXCEPT ![TxLine(p)] = FALSE]
        BY <3>2 DEF WriteSize
      <4>3. CASE l = TxLine(p)
        BY <1>3, <4>1, <4>2, <4>3
      <4>4. CASE l # TxLine(p)
        <5>1. wiped'[l] = wiped[l]
          BY <1>3, <4>2, <4>4
        <5> QED
          BY <5>1
      <4> QED
        BY <4>3, <4>4
    <3>3. CASE wiped' = wiped
      <4>1. wiped'[l] = wiped[l]
        BY <3>3
      <4> QED
        BY <4>1
    <3> QED
      BY <1>5, <3>1, <3>2, <3>3 DEF Loud, WriteEnter, InitMode, WriteMark, WriteHead, WriteTail,
         WriteReady, PollTake, PollCall, PollHead, PollTail, PollClear, PollFree, DeinitMode
  <2>5. accepted'[l] # accepted[l] \/ delivered'[l] # delivered[l] => wiped'[l] = wiped[l]
    BY <1>5 DEF Loud, WriteEnter, InitMode, InitSize, WriteMark, WriteHead, WriteTail,
       WriteSize, WriteReady, PollTake, PollCall, PollHead, PollTail, PollClear,
       PollFree, DeinitMode, DeinitSize
  <2>6. ASSUME Waiting(l), ~ Waiting(l)', delivered'[l] = delivered[l] PROVE ~ Served(l)
    <3>1. CASE InitMode(p) \/ DeinitMode(p)
      <4>1. l = RxLine(p)
        BY <1>2, <1>3, <2>6, <3>1 DEF InitMode, DeinitMode, Waiting, RxLine
      <4> QED
        BY <1>2, <2>3, <3>1, <4>1 DEF InitMode, DeinitMode
    <3>2. CASE WriteEnter(p) \/ InitSize(p) \/ DeinitSize(p) \/ WriteHead(p) \/ WriteTail(p) \/ WriteSize(p)
      BY <2>6, <3>2 DEF WriteEnter, InitSize, DeinitSize, WriteHead, WriteTail, WriteSize, Waiting, RxLine
    <3>3. CASE WriteMark(p) \/ WriteReady(p)
      <4>1. mode[TxLine(p)] # "CM_READY" /\ ppc' = ppc
        BY <3>3 DEF WriteMark, WriteReady, Placed, Return, LineInv, WriterMode
      <4> QED
        BY <1>3, <2>1, <2>6, <3>3, <4>1 DEF WriteMark, WriteReady, Waiting, RxLine
    <3>4. CASE PollTake(p)
      BY <1>1, <1>2, <1>3, <2>1, <2>6, <3>4 DEF PollTake, Waiting, RxLine, Still
    <3>5. CASE PollCall(p) \/ PollHead(p) \/ PollTail(p)
      <4>1. ppc'[p] \in {"head", "tail"} \/ l # RxLine(p)
        <5>1. \A b : Append(delivered[l], b) # delivered[l]
          <6>1. delivered[l] \in Seq(Buffers)
            BY <1>3
          <6> QED
            BY <6>1
        <5> QED
          BY <1>3, <2>6, <3>5, <5>1 DEF PollCall, PollHead, PollTail, Deliver
      <4>2. UNCHANGED lines
        BY <3>5 DEF PollCall, PollHead, PollTail
      <4> QED
        BY <1>1, <2>1, <2>6, <4>1, <4>2 DEF Waiting, RxLine, Still
    <3>6. CASE PollClear(p) \/ PollFree(p)
      <4>1. ppc[p] \in {"clear", "free"} /\ mode[RxLine(p)] = "CM_READING"
        BY <3>6 DEF PollClear, PollFree, LineInv, ReaderMode
      <4>2. mode[l] = "CM_READY" => mode'[l] = "CM_READY"
        BY <1>3, <3>6, <4>1 DEF PollClear, PollFree
      <4> QED
        BY <1>1, <2>1, <2>6, <4>1, <4>2 DEF Waiting, RxLine, Still
    <3> QED
      BY <1>5, <3>1, <3>2, <3>3, <3>4, <3>5, <3>6 DEF Loud
  <2>7. ASSUME Waiting(l), ~ Waiting(l)' PROVE wiped'[l] = wiped[l]
    <3>1. ~ (InitSize(p) \/ DeinitSize(p) \/ WriteSize(p))
      BY <2>7 DEF InitSize, DeinitSize, WriteSize, Waiting, RxLine
    <3> QED
      BY <1>5, <3>1 DEF Loud, WriteEnter, InitMode, WriteMark, WriteHead, WriteTail,
         WriteReady, PollTake, PollCall, PollHead, PollTail, PollClear, PollFree, DeinitMode
  <2> QED
    BY <2>2, <2>4, <2>5, <2>6, <2>7
<1> QED
  BY <1>4, <1>5, LoudOrQuiet DEF LineInv

\* A message that waits keeps its size, or loses it to the owner of its line.
LEMMA MeasuredNext ==
  ASSUME OneReader, OneWriter, TypeOK, LineInv, Kept, Measured, Copied, Taken, Next
  PROVE  Measured'
<1> USE DEF names, headers, lines, mains, pollers, history, Goto, PollGoto
<1>1. PICK p \in Procs : Step(p)
  BY DEF Next, Step
<1>2. SUFFICES ASSUME NEW l \in Lines, Waiting(l)' PROVE Sized(l, head[l])'
  BY DEF Measured
<1>3. Keeps(l) \/ Puts(p, l)
  BY <1>1, <1>2, LineStep DEF HandsOver
<1>4. CASE Keeps(l)
  <2>1. Waiting(l) /\ head'[l] = head[l] /\ Sized(l, head[l])
    BY <1>2, <1>4 DEF Keeps, Measured
  <2>2. \/ buffer_size'[l] = buffer_size[l] /\ wiped'[l] = wiped[l]
        \/ buffer_size'[l] = 0 /\ wiped'[l] = TRUE
    <3>1. buffer_size \in [Lines -> Bytes] /\ wiped \in [Lines -> BOOLEAN]
      BY DEF TypeOK
    <3>2. CASE WriteSize(p)
      <4>1. l # TxLine(p)
        BY <2>1, <3>2 DEF WriteSize, LineInv, WriterMode, ReaderMode, Waiting
      <4> QED
        BY <3>1, <3>2, <4>1 DEF WriteSize
    <3>3. CASE PollClear(p)
      <4>1. l # RxLine(p)
        <5>1. ppc[p] = "clear" /\ mode[RxLine(p)] = "CM_READING"
          BY <3>3 DEF PollClear, LineInv, ReaderMode
        <5>2. \A q \in Procs : RxLine(q) = RxLine(p) => q = p
          BY Separate
        <5> QED
          BY <2>1, <5>1, <5>2 DEF Waiting
      <4> QED
        BY <3>1, <3>3, <4>1 DEF PollClear
    <3>4. CASE InitSize(p) \/ DeinitSize(p)
      BY <3>1, <3>4 DEF InitSize, DeinitSize, Wipe
    <3>5. Loud(p) \/ Quiet(p)
      BY <1>1, LoudOrQuiet DEF LineInv
    <3> QED
      BY <3>2, <3>3, <3>4, <3>5 DEF Quiet, Loud, WriteEnter, InitMode, WriteMark, WriteHead,
         WriteTail, WriteReady, PollTake, PollCall, PollHead, PollTail, PollFree, DeinitMode
  <2> QED
    BY <2>1, <2>2 DEF Sized
<1>5. CASE Puts(p, l)
  BY <1>5 DEF Puts
<1> QED
  BY <1>3, <1>4, <1>5

\* What Append adds is at the end.
LEMMA AtTheEnd ==
  ASSUME NEW S, NEW s \in Seq(S), NEW x \in S
  PROVE  \A k \in DOMAIN Append(s, x) : \/ k \in DOMAIN s /\ Append(s, x)[k] = s[k]
                                        \/ k = Len(s) + 1 /\ Append(s, x)[k] = x
  OBVIOUS

\* Past, after a step.
PastThen(m, l) ==
  /\ DstOf[m[1]] = l[2]
  /\ m[2] <= sent'[m[1]]
  /\ mpc'[m[1]] \in WriteSteps => m[2] < sent'[m[1]]

\* A message that its sender has left behind stays behind.
LEMMA PastStays ==
  ASSUME TypeOK, Polled, NEW p \in Procs, Step(p), NEW m \in Msgs, NEW l, Past(m, l)
  PROVE  PastThen(m, l)
<1> USE DEF names, headers, lines, mains, pollers, history, Goto, PollGoto
<1>1. m[1] \in Procs /\ m[2] \in Nat
  BY DEF Msgs
<1>2. CASE m[1] # p
  <2>1. Still(m[1])
    BY <1>1, <1>2, OneMoves
  <2> QED
    BY <2>1 DEF Past, PastThen, Still
<1>3. CASE m[1] = p
  <2>1. sent[p] \in Nat
    BY DEF TypeOK
  <2>2. CASE WriteEnter(p)
    <3>1. sent'[p] = sent[p] + 1
      BY <2>2 DEF WriteEnter, TypeOK
    <3> QED
      BY <1>1, <1>3, <2>1, <3>1 DEF Past, PastThen
  <2>3. CASE ~ WriteEnter(p)
    <3>1. sent' = sent /\ (mpc'[p] \in WriteSteps => mpc[p] \in WriteSteps)
      BY <2>3, LoudOrQuiet DEF Quiet, Loud, InitMode, InitSize, WriteMark, WriteHead, WriteTail,
         WriteSize, WriteReady, Placed, Return, PollTake, PollCall, PollHead, PollTail, PollClear,
         PollFree, DeinitMode, DeinitSize, TypeOK, WriteSteps
    <3> QED
      BY <1>3, <3>1 DEF Past, PastThen
  <2> QED
    BY <2>2, <2>3
<1> QED
  BY <1>2, <1>3

\* What waits in a line is a message.
LEMMA WaitingIsWhole ==
  ASSUME LineInv, Kept, NEW l \in Lines, Waiting(l)
  PROVE  head[l] \in Msgs /\ tail[l] = head[l]
  BY DEF LineInv, ReaderMode, Kept, Waiting

\* The messages of a line: nothing is from the future, what the callback gets is
\* whole, and it comes in order.
Entire == \A l \in Lines : \A i \in DOMAIN delivered[l] : Whole(delivered[l][i])

LEMMA DeliveredNext ==
  ASSUME OneReader, OneWriter, TypeOK, LineInv, Kept, Measured, Copied, Taken, Dated, Newer,
         Entire, InOrder, Next
  PROVE  Dated' /\ Newer' /\ Entire' /\ InOrder'
<1>1. PICK p \in Procs : Step(p)
  BY DEF Next, Step
<1>2. \A m \in Msgs : \A l \in Lines : Past(m, l) => PastThen(m, l)
  BY <1>1, PastStays DEF LineInv
<1>3. \A l \in Lines : Keeps(l) \/ Puts(p, l) \/ HandsOver(p, l)
  BY <1>1, LineStep
<1>4. \A l \in Lines : accepted[l] \in Seq(Msgs) /\ delivered[l] \in Seq(Buffers)
  BY DEF TypeOK
<1>5. ASSUME NEW l \in Lines, Puts(p, l)
      PROVE  Current(p) \in Msgs /\ PastThen(Current(p), l)
  <2>1. Current(p) \in Msgs /\ Current(p)[1] = p /\ Current(p)[2] = sent[p] /\ sent[p] \in Nat
    BY <1>5 DEF Puts, LineInv, Sending, Current, TypeOK
  <2> QED
    BY <1>5, <2>1 DEF Puts, PastThen, WriteSteps
<1>6. ASSUME NEW l \in Lines, HandsOver(p, l)
      PROVE  /\ head[l] \in Msgs /\ PastThen(head[l], l)
             /\ \E b : /\ \A i \in DOMAIN delivered'[l] :
                            \/ i \in DOMAIN delivered[l] /\ delivered'[l][i] = delivered[l][i]
                            \/ i = Len(delivered[l]) + 1 /\ delivered'[l][i] = b
                       /\ \/ b = Blank /\ b.head \notin Msgs
                          \/ b.head = head[l] /\ b.tail = b.head /\ b.size = WireSize(b.head)
  <2>1. head[l] \in Msgs /\ tail[l] = head[l]
    BY <1>6, WaitingIsWhole DEF HandsOver
  <2>2. PastThen(head[l], l)
    BY <1>2, <1>6, <2>1 DEF HandsOver, Dated
  <2>3. PICK b \in Buffers :
          /\ delivered'[l] = Append(delivered[l], b)
          /\ \/ b = Blank
             \/ b.head = head[l] /\ b.tail = tail[l] /\ b.size = WireSize(head[l])
    BY <1>6 DEF HandsOver
  <2>4. \A i \in DOMAIN Append(delivered[l], b) :
          \/ i \in DOMAIN delivered[l] /\ Append(delivered[l], b)[i] = delivered[l][i]
          \/ i = Len(delivered[l]) + 1 /\ Append(delivered[l], b)[i] = b
    BY <1>4, AtTheEnd
  <2>5. Blank.head \notin Msgs
    BY ConstantsAssumption DEF Blank
  <2> QED
    BY <2>1, <2>2, <2>3, <2>4, <2>5
<1>7. Dated'
  <2>1. ASSUME NEW l \in Lines, Waiting(l)' PROVE PastThen(head'[l], l)
    BY <1>2, <1>3, <1>5, <2>1, WaitingIsWhole DEF Keeps, Puts, HandsOver, Dated
  <2>2. ASSUME NEW l \in Lines, NEW i \in DOMAIN accepted'[l] PROVE PastThen(accepted'[l][i], l)
    <3>1. CASE accepted'[l] = accepted[l]
      BY <1>2, <1>4, <2>2, <3>1 DEF Dated
    <3>2. CASE Puts(p, l)
      BY <1>2, <1>4, <1>5, <2>2, <3>2, AtTheEnd DEF Puts, Dated
    <3> QED
      BY <1>3, <3>1, <3>2 DEF Keeps, HandsOver
  <2>3. ASSUME NEW l \in Lines, NEW i \in DOMAIN delivered'[l], delivered'[l][i].head \in Msgs
        PROVE  PastThen(delivered'[l][i].head, l)
    <3>1. CASE delivered'[l] = delivered[l]
      BY <1>2, <2>3, <3>1 DEF Dated
    <3>2. CASE HandsOver(p, l)
      BY <1>2, <1>6, <2>3, <3>2 DEF Dated
    <3> QED
      BY <1>3, <3>1, <3>2 DEF Keeps, Puts
  <2> QED
    BY <2>1, <2>2, <2>3 DEF Dated, Past, PastThen
<1>8. ASSUME NEW l \in Lines, Waiting(l)', NEW i \in DOMAIN delivered'[l],
             delivered'[l][i].head \in Msgs
      PROVE  delivered'[l][i].head[2] < head'[l][2]
  <2>1. CASE Keeps(l)
    BY <1>8, <2>1 DEF Keeps, Newer
  <2>2. CASE Puts(p, l)
    <3> DEFINE m == delivered[l][i].head
    <3>1. m \in Msgs /\ Past(m, l) /\ head'[l] = Current(p) /\ delivered'[l] = delivered[l]
      BY <1>8, <2>2 DEF Puts, Dated
    <3>2. m[1] \in Procs /\ DstOf[m[1]] = DstOf[p]
      BY <2>2, <3>1 DEF Puts, Past, Msgs
    <3>3. m[1] = p
      BY <3>2 DEF OneWriter
    <3> QED
      BY <2>2, <3>1, <3>3 DEF Puts, Past, Current
  <2> QED
    BY <1>3, <1>8, <2>1, <2>2 DEF HandsOver
<1>9. Newer'
  BY <1>8 DEF Newer
<1>10. ASSUME NEW l \in Lines, NEW i \in DOMAIN delivered'[l]
       PROVE  Whole(delivered'[l][i])
  <2>1. CASE delivered'[l] = delivered[l]
    BY <1>10, <2>1 DEF Entire
  <2>2. CASE HandsOver(p, l)
    BY <1>6, <1>10, <2>2 DEF Entire, Whole
  <2> QED
    BY <1>3, <2>1, <2>2 DEF Keeps, Puts
<1>11. Entire'
  BY <1>10 DEF Entire, Whole
<1>12. ASSUME NEW l \in Lines, NEW i \in DOMAIN delivered'[l], NEW j \in DOMAIN delivered'[l], i < j,
              delivered'[l][i].head \in Msgs, delivered'[l][j].head \in Msgs
       PROVE  delivered'[l][i].head[2] < delivered'[l][j].head[2]
  <2>1. CASE delivered'[l] = delivered[l]
    BY <1>12, <2>1 DEF InOrder
  <2>2. CASE HandsOver(p, l)
    <3>1. DOMAIN delivered[l] = 1..Len(delivered[l]) /\ Len(delivered[l]) \in Nat
      BY <1>4
    <3>2. PICK b : \A k \in DOMAIN delivered'[l] :
            \/ k \in DOMAIN delivered[l] /\ delivered'[l][k] = delivered[l][k]
            \/ /\ k = Len(delivered[l]) + 1 /\ delivered'[l][k] = b
               /\ b.head \in Msgs => b.head = head[l]
      BY <1>6, <2>2
    <3>3. i \in DOMAIN delivered[l] /\ delivered'[l][i] = delivered[l][i]
      <4>1. CASE i = Len(delivered[l]) + 1
        BY <1>12, <3>1, <3>2, <4>1
      <4> QED
        BY <3>2, <4>1, <1>12
    <3>4. CASE j \in DOMAIN delivered[l] /\ delivered'[l][j] = delivered[l][j]
      BY <1>12, <3>3, <3>4 DEF InOrder
    <3>5. CASE delivered'[l][j] = b /\ b.head = head[l]
      BY <1>12, <2>2, <3>3, <3>5 DEF Newer, HandsOver
    <3> QED
      BY <1>12, <3>2, <3>4, <3>5
  <2> QED
    BY <1>3, <2>1, <2>2 DEF Keeps, Puts
<1>13. InOrder'
  BY <1>12 DEF InOrder
<1> QED
  BY <1>7, <1>9, <1>11, <1>13

-----------------------------------------------------------------------------
\* A ready message is touched by its receiver only, or goes with the line.
LEMMA ReadyNext ==
  ASSUME TypeOK, LineInv, Next, NEW l \in Lines, mode[l] = "CM_READY"
  PROVE  /\ head'[l] = head[l]
         /\ tail'[l] = tail[l]
         /\ \/ buffer_size'[l] = buffer_size[l]
            \/ \E p \in Procs : RxLine(p) = l /\ mpc[p] \in {"i_size", "d_size"}
         /\ \/ mode'[l] = "CM_READY"
            \/ \E p \in Procs : /\ RxLine(p) = l
                               /\ \/ ppc[p] = "take" /\ mode'[l] = "CM_READING"
                                  \/ mpc[p] \in {"i_mode", "d_mode"}
<1> USE DEF names, headers, lines, mains, pollers, history, Goto, PollGoto
<1>1. PICK p \in Procs : Step(p)
  BY DEF Next, Step
<1>2. CASE Quiet(p) \/ WriteEnter(p) \/ PollCall(p) \/ PollHead(p) \/ PollTail(p)
  BY <1>2 DEF Quiet, WriteEnter, PollCall, PollHead, PollTail
<1>3. CASE InitMode(p) \/ DeinitMode(p)
  BY <1>3 DEF InitMode, DeinitMode, TypeOK
<1>4. CASE InitSize(p) \/ DeinitSize(p) \/ PollClear(p)
  <2>1. PollClear(p) => RxLine(p) # l
    BY DEF PollClear, LineInv, ReaderMode
  <2> QED
    BY <1>4, <2>1 DEF InitSize, DeinitSize, Wipe, PollClear, TypeOK
<1>5. CASE WriteMark(p) \/ WriteHead(p) \/ WriteTail(p) \/ WriteSize(p) \/ WriteReady(p)
  <2>1. TxLine(p) # l
    BY <1>5 DEF WriteMark, WriteHead, WriteTail, WriteSize, WriteReady, Placed, Return,
                LineInv, WriterMode
  <2> QED
    BY <1>5, <2>1 DEF WriteMark, WriteHead, WriteTail, WriteSize, WriteReady, TypeOK
<1>6. CASE PollTake(p)
  BY <1>6 DEF PollTake, TypeOK
<1>7. CASE PollFree(p)
  <2>1. RxLine(p) # l
    BY <1>7 DEF PollFree, LineInv, ReaderMode
  <2> QED
    BY <1>7, <2>1 DEF PollFree, TypeOK
<1>8. Loud(p) \/ Quiet(p)
  BY <1>1, LoudOrQuiet DEF LineInv
<1> QED
  BY <1>2, <1>3, <1>4, <1>5, <1>6, <1>7, <1>8 DEF Loud

\* Appending to what was handed over appends to its messages.
LEMMA HeadsAppend ==
  ASSUME NEW s \in Seq(Buffers), NEW b \in Buffers
  PROVE  [i \in DOMAIN Append(s, b) |-> Append(s, b)[i].head]
           = Append([i \in DOMAIN s |-> s[i].head], b.head)
<1> DEFINE t == [i \in DOMAIN s |-> s[i].head]
           u == [i \in DOMAIN Append(s, b) |-> Append(s, b)[i].head]
           M == Msgs \cup {NoMsg}
<1>1. /\ Len(s) \in Nat /\ DOMAIN s = 1..Len(s) /\ \A i \in 1..Len(s) : s[i] \in Buffers
      /\ DOMAIN Append(s, b) = 1..(Len(s) + 1)
      /\ \A i \in 1..Len(s) : Append(s, b)[i] = s[i]
      /\ Append(s, b)[Len(s) + 1] = b
  OBVIOUS
<1>2. t \in [1..Len(s) -> M] /\ b.head \in M
  BY <1>1 DEF Buffers
<1>3. t \in Seq(M) /\ Len(t) = Len(s)
  BY <1>1, <1>2, LenProperties, IsASeq
<1>4. /\ DOMAIN Append(t, b.head) = 1..(Len(s) + 1)
      /\ \A i \in 1..Len(s) : Append(t, b.head)[i] = t[i]
      /\ Append(t, b.head)[Len(s) + 1] = b.head
      /\ Append(t, b.head) \in Seq(M)
  BY <1>2, <1>3, AppendProperties
<1>5. u = Append(t, b.head)
  <2>1. \A i \in 1..(Len(s) + 1) : u[i] = Append(t, b.head)[i]
    BY <1>1, <1>4
  <2>2. DOMAIN u = 1..(Len(s) + 1)
    BY <1>1
  <2>3. u = [i \in 1..(Len(s) + 1) |-> u[i]]
    BY <2>2
  <2>4. Append(t, b.head) = [i \in 1..(Len(s) + 1) |-> Append(t, b.head)[i]]
    BY <1>4
  <2> QED
    BY <2>1, <2>3, <2>4
<1> QED
  BY <1>5

\* Every step is for every line a step of its mailbox, or none.
LEMMA BoxNext ==
  ASSUME OneReader, OneWriter, TypeOK, LineInv, MessageInv, Next, NEW l \in Lines
  PROVE  Box(l)!Next \/ UNCHANGED Box(l)!vars
<1>1. PICK p \in Procs : Step(p)
  BY DEF Next, Step
<1>2. Waiting(l) => head[l] \in Msgs /\ head[l] # NoMsg
  BY WaitingIsWhole, ConstantsAssumption DEF MessageInv
<1>3. accepted[l] \in Seq(Msgs) /\ delivered[l] \in Seq(Buffers)
  BY DEF TypeOK
<1>7. /\ Served(l) \in BOOLEAN /\ Served(l)' \in BOOLEAN
      /\ (Served(l)' <=> Served(l)) => Served(l)' = Served(l)
  BY DEF Served
<1>4. CASE Keeps(l)
  <2>1. CASE Waiting(l) /\ ~ Waiting(l)'
    <3>1. Slot(l) # NoMsg /\ Slot(l)' = NoMsg
      BY <1>2, <2>1 DEF Slot
    <3>2. ~ Served(l)' /\ wiped'[l] = wiped[l]
      BY <1>1, <1>4, <2>1, OwnerStep DEF Keeps
    <3> QED
      BY <1>4, <3>1, <3>2 DEF Keeps, Box!Next, Box!Lose
  <2>2. CASE ~ (Waiting(l) /\ ~ Waiting(l)')
    <3>1. Slot(l)' = Slot(l)
      BY <1>4, <2>2 DEF Keeps, Slot
    <3>2. CASE wiped'[l] = wiped[l]
      BY <1>4, <1>7, <3>1, <3>2 DEF Keeps, Box!Next, Box!Attend
    <3>3. CASE (Served(l)' <=> Served(l)) /\ wiped'[l] = TRUE /\ ~ Served(l)
      BY <1>4, <1>7, <3>1, <3>3 DEF Keeps, Box!Next, Box!Spoil
    <3>4. CASE (Served(l)' <=> Served(l)) /\ wiped'[l] = FALSE /\ ~ Waiting(l)
      BY <1>4, <1>7, <3>1, <3>4 DEF Keeps, Slot, Box!Next, Box!Renew
    <3> QED
      BY <1>1, <3>2, <3>3, <3>4, OwnerStep
  <2> QED
    BY <2>1, <2>2
<1>5. CASE Puts(p, l)
  <2>1. Slot(l) = NoMsg /\ Slot(l)' = Current(p) /\ Current(p) \in Msgs
    BY <1>5 DEF Puts, Slot, LineInv, Sending
  <2>2. \A i \in DOMAIN accepted[l] : accepted[l][i][1] = Current(p)[1] =>
          accepted[l][i][2] < Current(p)[2]
    BY <1>5 DEF Puts, MessageInv, Dated, Past, Current
  <2>4. wiped'[l] = wiped[l] /\ Served(l)' = Served(l)
    <3>1. accepted'[l] # accepted[l]
      BY <1>3, <1>5, <2>1 DEF Puts
    <3> QED
      BY <1>1, <1>7, <3>1, OwnerStep
  <2>3. Box(l)!Put(Current(p))
    BY <1>5, <2>1, <2>2, <2>4 DEF Puts, Box!Put, Box!Fresh
  <2> QED
    BY <2>1, <2>3 DEF Box!Next
<1>6. CASE HandsOver(p, l)
  <2>1. PICK b \in Buffers : /\ delivered'[l] = Append(delivered[l], b)
                             /\ \/ b = Blank /\ wiped[l]
                                \/ b.head = head[l] /\ ~ wiped[l]
    BY <1>6 DEF HandsOver
  <2>2. Slot(l) = head[l] /\ Slot(l) # NoMsg /\ Slot(l)' = NoMsg
    BY <1>2, <1>6 DEF HandsOver, Slot
  <2>3. [i \in DOMAIN delivered'[l] |-> delivered'[l][i].head]
          = Append([i \in DOMAIN delivered[l] |-> delivered[l][i].head], b.head)
    BY <1>3, <2>1, HeadsAppend
  <2>4. Served(l) /\ wiped'[l] = wiped[l] /\ Served(l)' = Served(l)
    <3>1. delivered'[l] # delivered[l]
      BY <1>3, <2>1
    <3> QED
      BY <1>1, <1>6, <1>7, <3>1, OwnerStep DEF HandsOver, Served
  <2>5. Box(l)!HandOver(b.head)
    BY <1>6, <2>2, <2>3, <2>4 DEF HandsOver, Box!HandOver
  <2>6. CASE b = Blank /\ wiped[l]
    <3>1. Box(l)!TakeNothing
      BY <2>5, <2>6 DEF Box!TakeNothing, Blank
    <3> QED
      BY <3>1 DEF Box!Next
  <2>7. CASE b.head = head[l] /\ ~ wiped[l]
    <3>1. Box(l)!Take
      BY <2>2, <2>5, <2>7 DEF Box!Take, Box!HandOver
    <3> QED
      BY <3>1 DEF Box!Next
  <2> QED
    BY <2>1, <2>6, <2>7
<1> QED
  BY <1>1, <1>4, <1>5, <1>6, LineStep DEF MessageInv

-----------------------------------------------------------------------------
(* The theorems.                                                           *)

\* A reader finds size 0 where the owner of its line has cleared it, only.
LEMMA ReaderSize ==
  ASSUME TypeOK, LineInv, Kept, Measured, NEW p \in Procs, ppc[p] = "call"
  PROVE  buffer_size[RxLine(p)] = 0 <=> wiped[RxLine(p)]
<1>1. RxLine(p) \in Lines /\ Waiting(RxLine(p)) /\ mode[RxLine(p)] = "CM_READING"
  BY LineTypes DEF LineInv, Attached, Polled, ReaderMode, Waiting, WriteSteps
<1> QED
  BY <1>1 DEF Kept, Measured, Sized

\* The invariant behind the properties of the messages.
THEOREM MessageInvariant ==
  ASSUME OneReader, OneWriter
  PROVE  Spec => [](TypeOK /\ LineInv /\ MessageInv /\ Intact /\ InOrder)
<1> DEFINE Inv == TypeOK /\ LineInv /\ MessageInv /\ Entire /\ InOrder
<1>1. Init => Inv
  <2> SUFFICES ASSUME Init PROVE Inv
    OBVIOUS
  <2>1. TypeOK /\ LineInv
    BY InitInv
  <2>2. Kept /\ Measured /\ Copied /\ Taken
    BY DEF Init, Kept, Measured, Copied, Taken, Waiting
  <2>3. Dated /\ Newer /\ Entire /\ InOrder
    BY DEF Init, Dated, Newer, Entire, InOrder, Waiting
  <2> QED
    BY <2>1, <2>2, <2>3 DEF MessageInv
<1>2. Inv /\ [Next]_vars => Inv'
  <2>1. Inv /\ Next => Inv'
    <3> SUFFICES ASSUME Inv, Next PROVE Inv'
      OBVIOUS
    <3>1. TypeOK' /\ LineInv'
      BY TypeNext, SituationNext, ModeNext DEF LineInv
    <3>2. Measured'
      BY MeasuredNext DEF MessageInv
    <3>3. Kept' /\ Copied' /\ Taken'
      BY KeptNext DEF MessageInv
    <3>4. Dated' /\ Newer' /\ Entire' /\ InOrder'
      BY DeliveredNext DEF MessageInv
    <3> QED
      BY <3>1, <3>2, <3>3, <3>4 DEF MessageInv
  <2>2. Inv /\ UNCHANGED vars => Inv'
    <3> SUFFICES ASSUME Inv, UNCHANGED vars PROVE Inv'
      OBVIOUS
    <3>1. TypeOK' /\ LineInv'
      BY StutterInv
    <3>2. MessageInv'
      BY DEF MessageInv, Kept, Measured, Sized, Copied, Taken, Dated, Newer, Past, Waiting, Current, RxLine,
             TxLine, vars, names, headers, lines, mains, pollers, history
    <3>3. Entire' /\ InOrder'
      BY DEF Entire, InOrder, vars, history
    <3> QED
      BY <3>1, <3>2, <3>3
  <2> QED
    BY <2>1, <2>2
<1>3. Inv => Intact
  BY ReaderSize DEF Intact, Entire, MessageInv
<1> QED
  BY <1>1, <1>2, <1>3, PTL DEF Spec

\* The reader callback never sees half of one message and half of another, nor one
\* message under the size of another.
THEOREM IntactAlways == ASSUME OneReader, OneWriter PROVE Spec => []Intact
  BY MessageInvariant, PTL

\* Messages arrive in the order of their channel_write calls, and once at most.
THEOREM InOrderAlways == ASSUME OneReader, OneWriter PROVE Spec => []InOrder
  BY MessageInvariant, PTL

\* What is ready stays as it is until its receiver takes it, starts or stops.
THEOREM ReadyIsKeptAlways == ASSUME OneReader, OneWriter PROVE Spec => ReadyIsKept
<1>1. TypeOK /\ LineInv /\ [Next]_vars =>
        [\A l \in Lines : mode[l] = "CM_READY" =>
           /\ head'[l] = head[l]
           /\ tail'[l] = tail[l]
           /\ \/ buffer_size'[l] = buffer_size[l]
              \/ \E p \in Procs : RxLine(p) = l /\ mpc[p] \in {"i_size", "d_size"}
           /\ \/ mode'[l] = "CM_READY"
              \/ \E p \in Procs : /\ RxLine(p) = l
                                 /\ \/ ppc[p] = "take" /\ mode'[l] = "CM_READING"
                                    \/ mpc[p] \in {"i_mode", "d_mode"}]_vars
  BY ReadyNext
<1> QED
  BY <1>1, LineInvariant, PTL DEF Spec, ReadyIsKept

\* Every line implements the mailbox, for any number of clients, objects, messages,
\* restarts and deaths.
THEOREM MailboxAlways == ASSUME OneReader, OneWriter PROVE Spec => IsMailbox
<1> DEFINE Inv == TypeOK /\ LineInv /\ MessageInv
<1>1. Init => \A l \in Lines : Box(l)!Init
  <2> SUFFICES ASSUME Init, NEW l \in Lines PROVE Box(l)!Init
    OBVIOUS
  <2>1. ~ Waiting(l) /\ accepted[l] = <<>> /\ delivered[l] = <<>>
    BY DEF Init, Waiting
  <2>2. [i \in DOMAIN delivered[l] |-> delivered[l][i].head] = <<>>
    <3> DEFINE got == [i \in DOMAIN delivered[l] |-> delivered[l][i].head]
    <3>1. DOMAIN got = 1..0 /\ got = [i \in 1..0 |-> got[i]]
      BY <2>1
    <3>2. got \in Seq(Msgs) /\ Len(got) = 0
      BY <3>1, IsASeq, LenProperties
    <3> QED
      BY <3>2, EmptySeq
  <2> QED
    BY <2>1, <2>2 DEF Init, Box!Init, Slot, Served
<1>2. Inv /\ [Next]_vars => [\A l \in Lines : Box(l)!Next \/ UNCHANGED Box(l)!vars]_vars
  BY BoxNext
<1>3. Spec => []Inv
  BY MessageInvariant, PTL
<1> QED
  BY <1>1, <1>2, <1>3, PTL DEF Spec, IsMailbox

=============================================================================
