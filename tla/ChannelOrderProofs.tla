------------------------- MODULE ChannelOrderProofs -------------------------
(***************************************************************************)
(* What TLAPS proves of the order of the messages over all the objects     *)
(* that the name of the channel has stood for.                             *)
(***************************************************************************)
EXTENDS ChannelMessageProofs

\* A step moves at most its own process to another object: to none, or to the one
\* the name stands for; and an object is created when the name stands for none.
LEMMA ObjectStep ==
  ASSUME TypeOK, NEW p \in Procs, Step(p)
  PROVE  /\ \A q \in Procs : stream'[q] # stream[q] => q = p /\ stream'[q] \in {NoObject, linked'}
         /\ \/ created' = created /\ linked' \in {linked, NoObject}
            \/ created' = created + 1 /\ linked' = created'
<1> USE DEF names, headers, lines, mains, pollers, history, Goto, PollGoto, TypeOK
<1>1. CASE UserStep(p)
  <2>1. CASE InitOpen(p)
    BY <2>1 DEF InitOpen, OpenObject
  <2>2. CASE InitFails(p)
    BY <2>2 DEF InitFails, OpenObject
  <2>3. CASE WriteEnter(p) \/ Close(p) \/ Kill(p)
    BY <2>3 DEF WriteEnter, Return, Close, Kill, Dies, Gone
  <2> QED
    BY <1>1, <2>1, <2>2, <2>3 DEF UserStep
<1>2. CASE InitStep(p)
  BY <1>2 DEF InitStep, InitLoad, InitStore, InitId, InitMode, InitSize, InitSpawn, InitSetup
<1>3. CASE WriteStep(p)
  BY <1>3 DEF WriteStep, WriteTry, WriteMark, WriteHead, WriteTail, WriteSize, WriteReady, Placed, Return
<1>4. CASE PollStep(p)
  BY <1>4 DEF PollStep, PollStart, PollLoop, PollLook, PollTake, PollCall, PollHead, PollTail,
              PollClear, PollFree
<1>5. CASE DeinitStep(p)
  BY <1>5 DEF DeinitStep, DeinitStop, DeinitJoin, DeinitLoad, DeinitStore, DeinitTest, DeinitId,
              DeinitMode, DeinitSize, DeinitUnmap, DeinitUnlink, Gone
<1>6. CASE CallbackFaults(p) \/ JoinFaults(p)
  BY <1>6 DEF CallbackFaults, JoinFaults, Dies, Gone
<1> QED
  BY <1>1, <1>2, <1>3, <1>4, <1>5, <1>6 DEF Step

\* What a step puts into a line or hands over from it, it does to the line of its
\* process, in an object that is in use.
LEMMA InUse ==
  ASSUME OneReader, OneWriter, TypeOK, LineInv, MessageInv, NEW p \in Procs, Step(p), NEW l \in Lines
  PROVE  /\ accepted'[l] # accepted[l] =>
              Puts(p, l) /\ stream[p] \in Objects /\ l[1] = stream[p]
         /\ delivered'[l] # delivered[l] =>
              /\ HandsOver(p, l) /\ stream[p] \in Objects
              /\ l[1] = stream[p] /\ l[2] = ClientOf[p]
<1>1. Keeps(l) \/ Puts(p, l) \/ HandsOver(p, l)
  BY LineStep DEF MessageInv
<1>2. Puts(p, l) => stream[p] \in Objects /\ l[1] = stream[p]
  BY DEF Puts, TxLine, LineInv, Attached, WriteSteps
<1>3. HandsOver(p, l) => l[1] = stream[p] /\ l[2] = ClientOf[p] /\ stream[p] \in Objects
  BY DEF HandsOver, RxLine, Lines
<1> QED
  BY <1>1, <1>2, <1>3 DEF Keeps, Puts, HandsOver

LEMMA OnwardNext ==
  ASSUME OneReader, OneWriter, TypeOK, LineInv, MessageInv, Onward, NEW p \in Procs, Step(p)
  PROVE  Onward'
<1>1. /\ created \in Nat /\ linked \in Nat /\ \A q \in Procs : stream[q] \in Nat
      /\ \A l \in Lines : l[1] \in Nat
  BY ConstantsAssumption DEF TypeOK, Objects, NoObject, Lines
<1>2. /\ \A q \in Procs : stream'[q] # stream[q] => q = p /\ stream'[q] \in {NoObject, linked'}
      /\ \/ created' = created /\ linked' \in {linked, NoObject}
         \/ created' = created + 1 /\ linked' = created'
  BY ObjectStep
<1>3. linked' \in {NoObject, created'} /\ created' \in Nat /\ created' >= created
  BY <1>1, <1>2 DEF Onward
<1>4. \A q \in Procs : stream'[q] <= created'
  BY <1>1, <1>2, <1>3 DEF Onward, NoObject
<1>5. ASSUME NEW l \in Lines, l[1] > created'
      PROVE  accepted'[l] = <<>> /\ delivered'[l] = <<>>
  <2>1. l[1] > created
    BY <1>1, <1>3, <1>5
  <2>2. l[1] # stream[p]
    BY <1>1, <2>1 DEF Onward
  <2> QED
    BY <2>1, <2>2, InUse DEF Onward
<1>6. ASSUME NEW l \in Lines, NEW q \in Procs, stream'[q] # NoObject, l[1] > stream'[q]
      PROVE  /\ l[2] = DstOf[q] => accepted'[l] = <<>>
             /\ l[2] = ClientOf[q] => delivered'[l] = <<>>
  <2>1. CASE stream'[q] = stream[q]
    <3>1. /\ l[2] = DstOf[q] => accepted[l] = <<>>
          /\ l[2] = ClientOf[q] => delivered[l] = <<>>
      BY <1>6, <2>1 DEF Onward
    <3>2. q = p => l[1] # stream[p]
      BY <1>1, <1>6, <2>1
    <3>3. l[2] = DstOf[q] => accepted'[l] = <<>>
      BY <3>1, <3>2, InUse DEF Puts, OneWriter
    <3>4. l[2] = ClientOf[q] => delivered'[l] = <<>>
      BY <3>1, <3>2, InUse DEF OneReader
    <3> QED
      BY <3>3, <3>4
  <2>2. CASE stream'[q] # stream[q]
    <3>1. stream'[q] = created'
      BY <1>2, <1>3, <1>6, <2>2
    <3> QED
      BY <1>5, <1>6, <3>1
  <2> QED
    BY <2>1, <2>2
<1> QED
  BY <1>3, <1>4, <1>5, <1>6 DEF Onward

LEMMA AgesNext ==
  ASSUME OneReader, OneWriter, TypeOK, LineInv, MessageInv, Onward, Ages, NEW p \in Procs, Step(p)
  PROVE  Ages'
<1>1. SUFFICES ASSUME NEW l \in Lines, NEW k \in Lines, l[2] = k[2], l[1] < k[1],
                      NEW i \in DOMAIN accepted'[l], NEW j \in DOMAIN accepted'[k]
               PROVE  accepted'[l][i][2] < accepted'[k][j][2]
  BY DEF Ages
<1>2. accepted[l] \in Seq(Msgs) /\ accepted[k] \in Seq(Msgs)
  BY DEF TypeOK
<1>3. l[1] \in Nat /\ k[1] \in Nat /\ l # k
  BY <1>1, ConstantsAssumption DEF Lines, Objects
<1>4. CASE accepted'[l] = accepted[l] /\ accepted'[k] = accepted[k]
  BY <1>1, <1>4 DEF Ages
<1>5. CASE Puts(p, l)
  <2>1. l[1] = stream[p] /\ stream[p] # NoObject /\ k[2] = DstOf[p]
    BY <1>1, <1>5 DEF Puts, TxLine, LineInv, Attached, WriteSteps, Objects, NoObject
  <2>2. accepted[k] = <<>>
    BY <1>1, <1>3, <2>1 DEF Onward
  <2>3. accepted'[k] = accepted[k]
    BY <1>1, <1>3, <2>1, InUse
  <2> QED
    BY <2>2, <2>3
<1>6. CASE Puts(p, k)
  <2>1. accepted'[l] = accepted[l]
    BY <1>3, <1>6, InUse DEF Puts
  <2>2. accepted'[k] = Append(accepted[k], Current(p)) /\ Current(p) \in Msgs
    BY <1>6 DEF Puts, LineInv, Sending
  <2>3. \/ j \in DOMAIN accepted[k] /\ accepted'[k][j] = accepted[k][j]
        \/ accepted'[k][j] = Current(p)
    BY <1>2, <2>2, AtTheEnd
  <2>4. CASE j \in DOMAIN accepted[k] /\ accepted'[k][j] = accepted[k][j]
    BY <1>1, <2>1, <2>4 DEF Ages
  <2>5. CASE accepted'[k][j] = Current(p)
    <3> DEFINE m == accepted[l][i]
    <3>1. m \in Msgs /\ Past(m, l)
      BY <1>2, <2>1 DEF MessageInv, Dated
    <3>2. m[1] \in Procs /\ DstOf[m[1]] = DstOf[p]
      BY <1>1, <1>6, <3>1 DEF Puts, Past, Msgs
    <3>3. m[1] = p
      BY <3>2 DEF OneWriter
    <3> QED
      BY <1>6, <2>1, <2>5, <3>1, <3>3 DEF Puts, Past, Current
  <2> QED
    BY <2>3, <2>4, <2>5
<1> QED
  BY <1>4, <1>5, <1>6, InUse

LEMMA CameNext ==
  ASSUME OneReader, OneWriter, TypeOK, LineInv, MessageInv, Came, NEW p \in Procs, Step(p)
  PROVE  Came'
<1>1. ASSUME NEW l \in Lines
      PROVE  /\ Waiting(l)' => \E j \in DOMAIN accepted'[l] : accepted'[l][j] = head'[l]
             /\ \A i \in DOMAIN delivered'[l] : delivered'[l][i].head \in Msgs =>
                  \E j \in DOMAIN accepted'[l] : accepted'[l][j] = delivered'[l][i].head
  <2>1. accepted[l] \in Seq(Msgs) /\ delivered[l] \in Seq(Buffers)
    BY DEF TypeOK
  <2>2. CASE Keeps(l)
    BY <2>2 DEF Keeps, Came
  <2>3. CASE Puts(p, l)
    <3>1. /\ Current(p) \in Msgs /\ head'[l] = Current(p) /\ delivered'[l] = delivered[l]
          /\ accepted'[l] = Append(accepted[l], Current(p))
      BY <2>3 DEF Puts, LineInv, Sending
    <3>2. /\ DOMAIN accepted[l] \subseteq DOMAIN accepted'[l]
          /\ \A j \in DOMAIN accepted[l] : accepted'[l][j] = accepted[l][j]
          /\ Len(accepted[l]) + 1 \in DOMAIN accepted'[l]
          /\ accepted'[l][Len(accepted[l]) + 1] = Current(p)
      BY <2>1, <3>1
    <3>3. Waiting(l)' => \E j \in DOMAIN accepted'[l] : accepted'[l][j] = head'[l]
      BY <3>1, <3>2
    <3> QED
      BY <3>1, <3>2, <3>3 DEF Came
  <2>4. CASE HandsOver(p, l)
    <3>1. PICK b \in Buffers : delivered'[l] = Append(delivered[l], b) /\ (b = Blank \/ b.head = head[l])
      BY <2>4 DEF HandsOver
    <3>2. Waiting(l) /\ ~ Waiting(l)' /\ accepted'[l] = accepted[l]
      BY <2>4 DEF HandsOver
    <3>3. b.head \in Msgs => b.head = head[l]
      BY <3>1, ConstantsAssumption DEF Blank
    <3>4. \A i \in DOMAIN delivered'[l] :
            \/ i \in DOMAIN delivered[l] /\ delivered'[l][i] = delivered[l][i]
            \/ delivered'[l][i] = b
      BY <2>1, <3>1, AtTheEnd
    <3> QED
      BY <3>2, <3>3, <3>4 DEF Came
  <2> QED
    BY <2>2, <2>3, <2>4, LineStep DEF MessageInv
<1> QED
  BY <1>1 DEF Came

\* Over all objects, messages to a client are put and come out in the order of
\* their sender, whoever unlinks the name and starts anew.
THEOREM OrderInvariant ==
  ASSUME OneReader, OneWriter
  PROVE  Spec => [](TypeOK /\ LineInv /\ MessageInv /\ OrderInv)
<1> DEFINE Lower == TypeOK /\ LineInv /\ MessageInv
<1>1. Init => OrderInv
  BY DEF Init, OrderInv, Onward, Ages, Came, Waiting, NoObject
<1>2. Lower /\ OrderInv /\ [Next]_vars => OrderInv'
  <2>1. ASSUME Lower, OrderInv, NEW p \in Procs, Step(p) PROVE OrderInv'
    BY <2>1, OnwardNext, AgesNext, CameNext DEF OrderInv
  <2>2. OrderInv /\ UNCHANGED vars => OrderInv'
    BY DEF OrderInv, Onward, Ages, Came, Waiting, RxLine, vars, names, headers, lines, mains,
           pollers, history
  <2> QED
    BY <2>1, <2>2 DEF Next, Step
<1>3. Spec => []Lower
  BY MessageInvariant, PTL
<1> QED
  BY <1>1, <1>2, <1>3, PTL DEF Spec

=============================================================================
