----------------------------- MODULE ChatProofs -----------------------------
(***************************************************************************)
(* What TLAPS proves of the two users: the client implements Chat.         *)
(***************************************************************************)
EXTENDS ClientProofs, ChannelOrderProofs

\* What a text on its way may do to the order of the texts. More messages come to q:
LEMMA OrderlyGrows ==
  ASSUME NEW G, NEW H, G \subseteq H, NEW s, NEW d, NEW w, Orderly(G, s, d, w)
  PROVE  Orderly(H, s, d, w)
  BY DEF Orderly

\* nothing is on its way any more,
LEMMA OrderlyDropped ==
  ASSUME NEW G, NEW s, NEW d, NEW w, Orderly(G, s, d, w)
  PROVE  Orderly(G, s, NoMsg, w) /\ Orderly(G, s, NoMsg, <<>>)
  BY DEF Orderly

\* a message newer than all others is copied,
LEMMA OrderlyCopied ==
  ASSUME NEW G \in SUBSET Msgs, NEW s \in [Procs -> Nat], NEW d, NEW w, Orderly(G, s, d, w),
         NEW m \in Msgs, \A g \in G : g[2] < m[2]
  PROVE  Orderly(G \cup {m}, s, m, w)
<1>1. m # NoMsg /\ m[1] \in Procs /\ m[2] \in Nat /\ m[2] > 0
  BY ConstantsAssumption DEF Msgs
<1>2. s[m[1]] < m[2]
  <2>1. CASE s[m[1]] = 0
    BY <1>1, <2>1
  <2>2. CASE s[m[1]] # 0
    <3>1. <<m[1], s[m[1]]>> \in G
      BY <1>1, <2>2 DEF Orderly
    <3> QED
      BY <3>1
  <2> QED
    BY <2>1, <2>2
<1> QED
  BY <1>1, <1>2 DEF Orderly

\* it is left to a callback,
LEMMA OrderlyPosted ==
  ASSUME NEW G, NEW s, NEW w \in Seq(Updates), NEW u \in Updates, Orderly(G, s, u.text, w)
  PROVE  Orderly(G, s, NoMsg, Append(w, u))
<1>1. \A k \in DOMAIN Append(w, u) : \/ k \in DOMAIN w /\ Append(w, u)[k] = w[k]
                                     \/ k = Len(w) + 1 /\ Append(w, u)[k] = u
  BY AtTheEnd
<1>2. \A k \in DOMAIN w : k \in Nat /\ k < Len(w) + 1
  OBVIOUS
<1> QED
  BY <1>1, <1>2 DEF Orderly

\* and the first callback shows it.
LEMMA OrderlyShown ==
  ASSUME NEW G \in SUBSET Msgs, NEW s \in [Procs -> Nat], NEW d \in Texts, NEW w \in Seq(Updates),
         w # <<>>, Orderly(G, s, d, w)
  PROVE  /\ Orderly(G, s, d, Tail(w))
         /\ Head(w).text # NoMsg =>
              Orderly(G, [s EXCEPT ![Head(w).text[1]] = Head(w).text[2]], d, Tail(w))
<1> DEFINE m == Head(w).text
<1>1. /\ Len(w) \in Nat /\ DOMAIN w = 1..Len(w) /\ 1 \in DOMAIN w /\ Head(w) = w[1]
      /\ DOMAIN Tail(w) = 1..(Len(w) - 1)
      /\ \A i \in DOMAIN Tail(w) : Tail(w)[i] = w[i + 1]
  OBVIOUS
<1>2. \A i \in DOMAIN Tail(w) : i + 1 \in DOMAIN w /\ 1 < i + 1
  BY <1>1
<1>3. Orderly(G, s, d, Tail(w))
  BY <1>1, <1>2 DEF Orderly
<1>4. ASSUME m # NoMsg PROVE Orderly(G, [s EXCEPT ![m[1]] = m[2]], d, Tail(w))
  <2> DEFINE t == [s EXCEPT ![m[1]] = m[2]]
  <2>1. m \in G /\ m \in Msgs
    BY <1>1, <1>4 DEF Orderly
  <2>2. m = <<m[1], m[2]>> /\ m[1] \in Procs
    BY <2>1 DEF Msgs
  <2>3. \A p \in Procs : t[p] # 0 => <<p, t[p]>> \in G
    BY <2>1, <2>2 DEF Orderly
  <2>4. d # NoMsg => d \in G /\ t[d[1]] < d[2]
    <3>1. d # NoMsg => d \in G /\ s[d[1]] < d[2] /\ m[2] < d[2]
      BY <1>1, <1>4 DEF Orderly
    <3>2. d # NoMsg => d[1] \in Procs
      BY <3>1 DEF Msgs
    <3> QED
      BY <3>1, <3>2
  <2>5. ASSUME NEW i \in DOMAIN Tail(w), Tail(w)[i].text # NoMsg
        PROVE  t[Tail(w)[i].text[1]] < Tail(w)[i].text[2]
    <3> DEFINE n == Tail(w)[i].text
    <3>1. i + 1 \in DOMAIN w /\ 1 < i + 1 /\ n = w[i + 1].text
      BY <1>1, <1>2
    <3>2. n \in G /\ s[n[1]] < n[2]
      BY <2>5, <3>1 DEF Orderly
    <3>3. m[2] < n[2]
      BY <1>1, <1>4, <2>5, <3>1 DEF Orderly
    <3>4. n[1] \in Procs
      BY <3>2 DEF Msgs
    <3> QED
      BY <3>2, <3>3, <3>4
  <2> QED
    BY <1>3, <2>3, <2>4, <2>5 DEF Orderly
<1> QED
  BY <1>3, <1>4

-----------------------------------------------------------------------------
\* What the callback of q has copied, it has copied.
LEMMA GotGrows ==
  ASSUME OneReader, OneWriter, TypeOK, LineInv, MessageInv, NEW p \in Procs, Step(p), NEW q \in Procs
  PROVE  Got(q) \subseteq Got(q)'
<1>1. ASSUME NEW l \in Lines, NEW i \in DOMAIN delivered[l]
      PROVE  i \in DOMAIN delivered'[l] /\ delivered'[l][i] = delivered[l][i]
  <2>1. delivered[l] \in Seq(Buffers)
    BY DEF TypeOK
  <2>2. CASE HandsOver(p, l)
    <3>1. PICK b \in Buffers : delivered'[l] = Append(delivered[l], b)
      BY <2>2 DEF HandsOver
    <3> QED
      BY <1>1, <2>1, <3>1
  <2>3. CASE delivered'[l] = delivered[l]
    BY <1>1, <2>3
  <2> QED
    BY <2>2, <2>3, InUse
<1> QED
  BY <1>1 DEF Got

\* What it has copied was sent to q, and before now.
LEMMA GotIsPast ==
  ASSUME MessageInv, NEW q \in Procs, NEW m \in Got(q)
  PROVE  m[1] \in Procs /\ DstOf[m[1]] = ClientOf[q] /\ m[2] <= sent[m[1]]
<1>1. PICK l \in Lines : /\ l[2] = ClientOf[q]
                         /\ \E i \in DOMAIN delivered[l] : delivered[l][i].head = m
  BY DEF Got
<1>2. m \in Msgs
  BY DEF Got
<1>3. Past(m, l)
  BY <1>1, <1>2 DEF MessageInv, Dated
<1> QED
  BY <1>1, <1>2, <1>3 DEF Past, Msgs

\* The message the callback is copying is newer than all it has copied, from this
\* object or from another.
LEMMA CopyIsNew ==
  ASSUME TypeOK, LineInv, MessageInv, OrderInv, NEW q \in Procs, ppc[q] = "tail"
  PROVE  rhead[q] \in Msgs /\ \A g \in Got(q) : g[2] < rhead[q][2]
<1> DEFINE k == RxLine(q)
<1>1. k \in Lines /\ k[1] = stream[q] /\ k[2] = ClientOf[q] /\ stream[q] # NoObject
  BY LineTypes DEF LineInv, Attached, Polled, WriteSteps, RxLine, Objects, NoObject
<1>2. Waiting(k)
  BY DEF Waiting
<1>3. rhead[q] = head[k] /\ head[k] \in Msgs
  BY <1>1, <1>2, WaitingIsWhole DEF MessageInv, Taken
<1>4. ASSUME NEW g \in Got(q) PROVE g[2] < head[k][2]
  <2>1. PICK l \in Lines : /\ l[2] = ClientOf[q]
                           /\ \E i \in DOMAIN delivered[l] : delivered[l][i].head = g
    BY DEF Got
  <2>2. PICK i \in DOMAIN delivered[l] : delivered[l][i].head = g
    BY <2>1
  <2>3. g \in Msgs
    BY DEF Got
  <2>4. l[1] \in Nat /\ k[1] \in Nat
    BY <1>1, ConstantsAssumption DEF Lines, Objects
  <2>5. CASE l = k
    BY <1>1, <1>2, <2>2, <2>3, <2>5 DEF MessageInv, Newer
  <2>6. CASE l[1] > k[1]
    BY <1>1, <2>1, <2>2, <2>6 DEF OrderInv, Onward
  <2>7. CASE l[1] < k[1]
    <3>1. PICK a \in DOMAIN accepted[l] : accepted[l][a] = g
      BY <2>2, <2>3 DEF OrderInv, Came
    <3>2. PICK b \in DOMAIN accepted[k] : accepted[k][b] = head[k]
      BY <1>1, <1>2 DEF OrderInv, Came
    <3> QED
      BY <1>1, <2>1, <2>7, <3>1, <3>2 DEF OrderInv, Ages
  <2>8. l = k \/ l[1] # k[1]
    BY <1>1, <2>1 DEF Lines
  <2> QED
    BY <2>4, <2>5, <2>6, <2>7, <2>8
<1> QED
  BY <1>3, <1>4

LEMMA CopyIsGot ==
  ASSUME TypeOK, LineInv, NEW q \in Procs, PollTail(q), rhead[q] \in Msgs
  PROVE  rhead[q] \in Got(q)'
<1> DEFINE k == RxLine(q)
           b == [size |-> rsize[q], head |-> rhead[q], tail |-> tail[k]]
<1>1. k \in Lines /\ k[2] = ClientOf[q]
  BY LineTypes DEF PollTail, PollGoto, LineInv, Attached, Polled, WriteSteps, RxLine
<1>2. delivered'[k] = Append(delivered[k], b) /\ delivered[k] \in Seq(Buffers)
  BY <1>1 DEF PollTail, Deliver, TypeOK
<1>3. Len(delivered[k]) + 1 \in DOMAIN delivered'[k] /\ delivered'[k][Len(delivered[k]) + 1] = b
  BY <1>2
<1> QED
  BY <1>1, <1>3 DEF Got

-----------------------------------------------------------------------------
\* Every step keeps the texts in order.
LEMMA ChatInvNext ==
  ASSUME OneReader, OneWriter, TypeOK, LineInv, MessageInv, OrderInv, ChatInv,
         NEW p \in Procs, ClientStep(p)
  PROVE  ChatInv'
<1> USE DEF Goto, PollGoto
<1>6. ClientTypeOK /\ ClientTypeOK'
  BY ClientTypeNext DEF ChatInv
<1>1. \A q \in Procs : Got(q) \subseteq Got(q)' /\ Got(q)' \in SUBSET Msgs
  <2>1. UNCHANGED vars => \A q \in Procs : Got(q)' = Got(q)
    BY DEF Got, vars, history
  <2> QED
    BY <2>1, ClientStepIsStep, GotGrows DEF Got
<1>2. ASSUME NEW q \in Procs \ {p}
      PROVE  /\ Orderly(Got(q)', seen'[q], data'[q].text, idle'[q])
             /\ data'[q].text # NoMsg => ppc'[q] = "clear"
  <2>1. ppc'[q] = ppc[q]
    BY ClientStepIsStep, OneMoves DEF Still, vars, pollers
  <2>2. data'[q] = data[q] /\ idle'[q] = idle[q] /\ seen'[q] = seen[q]
    BY <1>6, OneWindow
  <2> QED
    BY <1>1, <2>1, <2>2, OrderlyGrows DEF ChatInv
<1>3. /\ Orderly(Got(p), seen[p], data[p].text, idle[p])
      /\ data[p].text # NoMsg => ppc[p] = "clear"
  BY DEF ChatInv
<1>4. /\ data[p] \in Updates /\ idle[p] \in Seq(Updates) /\ seen[p] \in [Procs -> Nat]
      /\ data[p].text \in Texts
  BY <1>6 DEF ClientTypeOK, Updates
<1>5. /\ Orderly(Got(p)', seen'[p], data'[p].text, idle'[p])
      /\ data'[p].text # NoMsg => ppc'[p] = "clear"
  <2>1. CASE UNCHANGED <<data, idle, seen>> /\ (ppc[p] = "clear" => ppc'[p] = "clear")
    BY <1>6, <1>1, <1>3, <2>1, OrderlyGrows
  <2>2. CASE Forgets(p)
    <3>1. data'[p].text = NoMsg /\ idle'[p] = <<>> /\ seen'[p] = seen[p]
      BY <1>6, <2>2 DEF Forgets, NoUpdate, ClientTypeOK
    <3> QED
      BY <1>1, <1>3, <3>1, OrderlyGrows, OrderlyDropped
  <2>3. CASE ShowMessage(p)
    <3> DEFINE m == Head(idle[p]).text
    <3>1. /\ idle[p] # <<>> /\ idle'[p] = Tail(idle[p]) /\ data'[p] = data[p] /\ ppc'[p] = ppc[p]
          /\ \/ seen'[p] = seen[p]
             \/ m # NoMsg /\ seen'[p] = [seen[p] EXCEPT ![m[1]] = m[2]]
      BY <1>6, <2>3 DEF ShowMessage, ClientTypeOK, vars, pollers
    <3>2. Orderly(Got(p), seen'[p], data[p].text, Tail(idle[p]))
      <4>1. Got(p) \in SUBSET Msgs
        BY DEF Got
      <4>2. /\ Orderly(Got(p), seen[p], data[p].text, Tail(idle[p]))
            /\ m # NoMsg =>
                 Orderly(Got(p), [seen[p] EXCEPT ![m[1]] = m[2]], data[p].text, Tail(idle[p]))
        BY <1>3, <1>4, <3>1, <4>1, OrderlyShown
      <4> QED
        BY <3>1, <4>2
    <3> QED
      BY <1>1, <1>3, <3>1, <3>2, OrderlyGrows
  <2>4. CASE ReaderCalled(p)
    <3>1. ppc[p] = "call" /\ data'[p].text = data[p].text /\ UNCHANGED <<idle, seen>>
      BY <1>6, <1>4, <2>4 DEF ReaderCalled, PollCall, ClientTypeOK, Updates
    <3> QED
      BY <1>1, <1>3, <3>1, OrderlyGrows
  <2>5. CASE ReaderCopied(p)
    <3>1. /\ PollTail(p) /\ ppc[p] = "tail" /\ ppc'[p] = "clear" /\ data'[p].text = rhead[p]
          /\ UNCHANGED <<idle, seen>>
      BY <1>6, <1>4, <2>5 DEF ReaderCopied, PollTail, ClientTypeOK, Updates, TypeOK
    <3>2. rhead[p] \in Msgs /\ \A g \in Got(p) : g[2] < rhead[p][2]
      BY <3>1, CopyIsNew
    <3>3. Orderly(Got(p) \cup {rhead[p]}, seen[p], rhead[p], idle[p])
      BY <1>3, <1>4, <3>2, OrderlyCopied DEF Got
    <3>4. Got(p) \cup {rhead[p]} \subseteq Got(p)'
      BY <1>1, <3>1, <3>2, CopyIsGot
    <3> QED
      BY <3>1, <3>3, <3>4, OrderlyGrows
  <2>6. CASE ReaderPosts(p)
    <3>1. PICK d \in Decoded(data[p]) :
            /\ idle'[p] = Append(idle[p], d) /\ data'[p].text = NoMsg /\ seen' = seen
      BY <1>6, <2>6 DEF ReaderPosts, Returns, Post, NoUpdate, ClientTypeOK
    <3>2. Orderly(Got(p), seen[p], NoMsg, Append(idle[p], d))
      BY <1>3, <1>4, DecodedType, OrderlyPosted
    <3> QED
      BY <1>1, <3>1, <3>2, OrderlyGrows
  <2>7. CASE ReaderFails(p)
    <3>1. data'[p].text = NoMsg /\ UNCHANGED <<idle, seen>>
      BY <1>6, <2>7 DEF ReaderFails, Returns, NoUpdate, ClientTypeOK
    <3> QED
      BY <1>1, <1>3, <3>1, OrderlyGrows, OrderlyDropped
  <2>8. CASE MakeTables(p) \/ ReaderHangs(p)
    BY <2>1, <2>8 DEF MakeTables, ReaderHangs, vars, pollers
  <2>9. CASE /\ UNCHANGED window
             /\ \/ ChannelStarts(p) \/ WriteStep(p) \/ ChannelStops(p) \/ ChannelPolls(p)
                \/ InitOpen(p) \/ InitFails(p) \/ WriteEnter(p) \/ InitSetup(p)
    <3>1. ppc[p] = "clear" => ppc'[p] = "clear"
      <4> USE DEF pollers, names, TypeOK
      <4>1. CASE ChannelStarts(p)
        BY <4>1 DEF ChannelStarts, InitLoad, InitStore, InitId, InitMode, InitSize, InitSpawn,
           LineInv, Polled, WriteSteps
      <4>2. CASE WriteStep(p)
        BY <4>2 DEF WriteStep, WriteTry, WriteMark, WriteHead, WriteTail, WriteSize, WriteReady
      <4>3. CASE ChannelStops(p)
        BY <4>3 DEF ChannelStops, DeinitStop, DeinitLoad, DeinitStore, DeinitTest, DeinitId,
           DeinitMode, DeinitSize, DeinitUnmap, DeinitUnlink
      <4>4. CASE ChannelPolls(p)
        BY <4>4 DEF ChannelPolls, PollStart, PollLoop, PollLook, PollTake, PollHead, PollFree
      <4>5. CASE InitOpen(p) \/ InitFails(p) \/ WriteEnter(p) \/ InitSetup(p)
        BY <4>5 DEF InitOpen, InitFails, WriteEnter, InitSetup
      <4> QED
        BY <2>9, <4>1, <4>2, <4>3, <4>4, <4>5
    <3> QED
      BY <2>1, <2>9, <3>1 DEF window
  <2>10. CASE CloseWindow(p)
    BY <2>1, <2>10 DEF CloseWindow, Close, pollers
  <2> QED
    BY <2>2, <2>3, <2>4, <2>5, <2>6, <2>7, <2>8, <2>9, <2>10 DEF ClientStep, MainThread,
       PollingThread, User, MakeWindow, Joined, JoinFaulted, ReaderFaults, Killed
<1> QED
  BY <1>2, <1>5, <1>6 DEF ChatInv

\* Only WriteEnter numbers a message.
LEMMA SaysNothing ==
  ASSUME TypeOK, Polled, NEW p \in Procs, Step(p), ~ WriteEnter(p)
  PROVE  sent' = sent
<1> USE DEF lines, history
<1> QED
  BY LoudOrQuiet DEF Quiet, Loud, InitMode, InitSize, WriteMark, WriteHead, WriteTail, WriteSize,
     WriteReady, PollTake, PollCall, PollHead, PollTail, PollClear, PollFree, DeinitMode, DeinitSize

\* Every step of a client is a step of the chat, or none.
LEMMA ChatNext ==
  ASSUME TypeOK, LineInv, MessageInv, ChatInv, NEW p \in Procs, ClientStep(p)
  PROVE  ChatOf!Next \/ UNCHANGED ChatOf!vars
<1>9. ClientTypeOK
  BY DEF ChatInv
<1>1. ~ WriteEnter(p) => sent' = sent
  BY ClientStepIsStep, SaysNothing DEF LineInv, vars, history
<1>2. CASE WriteEnter(p) /\ UNCHANGED window
  <2>1. sent' = [sent EXCEPT ![p] = @ + 1] /\ UNCHANGED <<seen, view>>
    BY <1>2 DEF WriteEnter, window
  <2>2. ChatOf!Say(p)
    BY <2>1 DEF ChatOf!Say
  <2> QED
    BY <2>2 DEF ChatOf!Next
<1>3. CASE UNCHANGED <<seen, view, sent>>
  BY <1>3 DEF ChatOf!vars
<1>4. CASE UNCHANGED <<seen, sent>> /\ view' = [view EXCEPT ![p] = Nothing]
  <2>1. ChatOf!Show(p, Nothing)
    BY <1>4 DEF ChatOf!Show
  <2> QED
    BY <2>1 DEF ChatOf!Next
<1>5. CASE ShowMessage(p)
  <2> DEFINE d == Head(idle[p])
             m == d.text
  <2>1. /\ idle[p] # <<>> /\ UNCHANGED sent
        /\ view' = IF d.live THEN [view EXCEPT ![p] = Reads(d)] ELSE view
        /\ seen' = IF d.live /\ m # NoMsg THEN [seen EXCEPT ![p][m[1]] = m[2]] ELSE seen
    BY <1>5 DEF ShowMessage, vars, history
  <2>2. CASE ~ d.live
    BY <2>1, <2>2 DEF ChatOf!vars
  <2>3. CASE d.live /\ m = NoMsg
    <3>1. ChatOf!Show(p, NoMsg)
      BY <2>1, <2>3 DEF ChatOf!Show, Reads
    <3> QED
      BY <3>1 DEF ChatOf!Next
  <2>4. CASE d.live /\ m # NoMsg
    <3>1. 1 \in DOMAIN idle[p] /\ d = idle[p][1]
      BY <1>9, <2>1 DEF ClientTypeOK
    <3>2. m \in Got(p) /\ seen[p][m[1]] < m[2]
      BY <2>4, <3>1 DEF ChatInv, Orderly
    <3>3. /\ m = <<m[1], m[2]>> /\ m[1] \in Procs /\ m[2] \in Nat
          /\ DstOf[m[1]] = ClientOf[p] /\ m[2] <= sent[m[1]]
      BY <3>2, GotIsPast DEF Got, Msgs
    <3>4. m[1] \in WritersTo[p]
      BY <3>3 DEF WritersTo
    <3>5. seen[p][m[1]] \in Nat /\ sent[m[1]] \in Nat
      BY <1>9, <3>3 DEF ClientTypeOK, TypeOK
    <3>6. m[2] \in (seen[p][m[1]] + 1)..sent[m[1]]
      BY <3>2, <3>3, <3>5
    <3>7. seen' = [seen EXCEPT ![p][m[1]] = m[2]] /\ view' \in {[view EXCEPT ![p] = x] : x \in {<<m[1], m[2]>>, Garbled}}
      BY <2>1, <2>4, <3>3 DEF Reads
    <3>8. ChatOf!See(p, m[1])
      BY <2>1, <3>6, <3>7 DEF ChatOf!See
    <3> QED
      BY <3>4, <3>8 DEF ChatOf!Next
  <2> QED
    BY <2>2, <2>3, <2>4
<1>6. CASE MainThread(p)
  <2>1. CASE UNCHANGED window /\ ~ WriteEnter(p)
    BY <1>1, <1>3, <2>1 DEF window
  <2>2. CASE MakeTables(p)
    BY <1>3, <2>2 DEF MakeTables, vars, history
  <2>3. CASE Joined(p) \/ JoinFaulted(p)
    BY <1>4, <2>3 DEF Joined, JoinFaulted, Forgets, DeinitJoin, JoinFaults, Dies, history
  <2> QED
    BY <1>2, <1>5, <1>6, <2>1, <2>2, <2>3 DEF MainThread, MakeWindow
<1>7. CASE PollingThread(p)
  <2>1. CASE ChannelPolls(p) /\ UNCHANGED window
    BY <1>1, <1>2, <1>3, <2>1 DEF window
  <2>2. CASE ReaderCalled(p) \/ ReaderCopied(p) \/ ReaderPosts(p) \/ ReaderFails(p) \/ ReaderHangs(p)
    BY <1>3, <2>2 DEF ReaderCalled, ReaderCopied, ReaderPosts, ReaderFails, Returns, ReaderHangs,
       PollCall, PollTail, PollClear, vars, history
  <2>3. CASE ReaderFaults(p)
    BY <1>4, <2>3 DEF ReaderFaults, Forgets, CallbackFaults, Dies
  <2> QED
    BY <1>7, <2>1, <2>2, <2>3 DEF PollingThread
<1>8. CASE User(p)
  <2>1. CASE (InitOpen(p) \/ InitFails(p) \/ WriteEnter(p)) /\ UNCHANGED window
    BY <1>1, <1>2, <1>3, <2>1 DEF window
  <2>2. CASE CloseWindow(p)
    BY <1>4, <2>2 DEF CloseWindow, Close, history
  <2>3. CASE Killed(p)
    BY <1>4, <2>3 DEF Killed, Forgets, Kill, Dies
  <2> QED
    BY <1>8, <2>1, <2>2, <2>3 DEF User
<1> QED
  BY <1>6, <1>7, <1>8 DEF ClientStep

\* What was shown, what waits and what is on its way is in order.
THEOREM ChatInvAlways == ASSUME OneReader, OneWriter PROVE ClientSpec => []ChatInv
<1> DEFINE Lower == TypeOK /\ LineInv /\ MessageInv /\ OrderInv
           Inv == Lower /\ ChatInv
<1>1. ClientInit => ChatInv
  BY DEF ClientInit, ChatInv, Orderly, ClientTypeOK, NoUpdate, Updates, Texts, Outcomes
<1>2. Inv /\ [ClientNext]_allVars => ChatInv'
  <2>1. ASSUME Inv, NEW p \in Procs, ClientStep(p) PROVE ChatInv'
    BY <2>1, ChatInvNext
  <2>2. ChatInv /\ UNCHANGED allVars => ChatInv'
    <3>1. ClientTypeOK /\ UNCHANGED allVars => ClientTypeOK'
      BY DEF ClientTypeOK, allVars, window
    <3> QED
      BY <3>1 DEF ChatInv, Orderly, Got, allVars, window, vars, pollers, history
  <2> QED
    BY <2>1, <2>2 DEF ClientNext, ClientStep
<1>3. ClientSpec => []Lower
  BY ClientIsChannel, OrderInvariant, PTL
<1> QED
  BY <1>1, <1>2, <1>3, PTL DEF ClientSpec

\* What the two users see is a chat: whoever has a window open is shown, of those who
\* write to him, one text at most for what they said, in the order they said it, right,
\* empty or garbled; whatever starts, stops, fails and dies, as long as no two clients
\* have one identifier or one destination.
THEOREM ChatAlways == ASSUME OneReader, OneWriter PROVE ClientSpec => IsChat
<1> DEFINE Inv == TypeOK /\ LineInv /\ MessageInv /\ ChatInv
<1>1. ClientInit => ChatOf!Init
  BY DEF ClientInit, Init, ChatOf!Init
<1>2. Inv /\ [ClientNext]_allVars => [ChatOf!Next]_(ChatOf!vars)
  <2>1. ASSUME Inv, NEW p \in Procs, ClientStep(p) PROVE ChatOf!Next \/ UNCHANGED ChatOf!vars
    BY <2>1, ChatNext
  <2>2. UNCHANGED allVars => UNCHANGED ChatOf!vars
    BY DEF allVars, window, vars, history, ChatOf!vars
  <2> QED
    BY <2>1, <2>2 DEF ClientNext, ClientStep
<1>3. ClientSpec => [](TypeOK /\ LineInv /\ MessageInv)
  BY ClientIsChannel, OrderInvariant, PTL
<1>5. ClientSpec => []ChatInv
  BY ChatInvAlways
<1> QED
  BY <1>1, <1>2, <1>3, <1>5, PTL DEF ClientSpec, IsChat, ChatOf!Spec

=============================================================================
