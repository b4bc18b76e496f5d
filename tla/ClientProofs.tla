---------------------------- MODULE ClientProofs ----------------------------
(***************************************************************************)
(* What TLAPS proves of Client: it is a channel, so that what is proved of *)
(* Channel holds of it, and that what it adds keeps its type.              *)
(***************************************************************************)
EXTENDS Client, ChannelMessageProofs

ClientStep(p) == MainThread(p) \/ PollingThread(p) \/ User(p)

\* What a step of the client is for the channel: a step of its, or nothing.
LEMMA ClientStepIsStep ==
  ASSUME NEW p \in Procs, ClientStep(p)
  PROVE  Step(p) \/ UNCHANGED vars
<1>1. CASE MainThread(p)
  <2>1. CASE ChannelStarts(p) \/ WriteStep(p) \/ ChannelStops(p) \/ MakeWindow(p) \/ Joined(p)
            \/ JoinFaulted(p)
    BY <2>1 DEF ChannelStarts, ChannelStops, MakeWindow, Joined, JoinFaulted, Step, InitStep, DeinitStep
  <2>2. CASE MakeTables(p) \/ ShowMessage(p)
    BY <2>2 DEF MakeTables, ShowMessage
  <2> QED
    BY <1>1, <2>1, <2>2 DEF MainThread
<1>2. CASE PollingThread(p)
  <2>1. CASE \/ ChannelPolls(p) \/ ReaderCalled(p) \/ ReaderCopied(p)
             \/ ReaderPosts(p) \/ ReaderFails(p)
    BY <2>1 DEF ChannelPolls, ReaderCalled, ReaderCopied, ReaderPosts, ReaderFails, Returns, Step,
       PollStep
  <2>2. CASE ReaderHangs(p)
    BY <2>2 DEF ReaderHangs
  <2>3. CASE ReaderFaults(p)
    BY <2>3 DEF ReaderFaults, Step
  <2> QED
    BY <1>2, <2>1, <2>2, <2>3 DEF PollingThread
<1>3. CASE User(p)
  BY <1>3 DEF User, CloseWindow, Killed, Step, UserStep
<1> QED
  BY <1>1, <1>2, <1>3 DEF ClientStep

\* The client is a channel: what its window and its callbacks do, the channel does
\* not see.
THEOREM ClientIsChannel == ClientSpec => Spec
<1>1. ClientInit => Init
  BY DEF ClientInit
<1>2. [ClientNext]_allVars => [Next]_vars
  <2>1. ASSUME NEW p \in Procs, ClientStep(p) PROVE [Next]_vars
    BY <2>1, ClientStepIsStep DEF Next, Step
  <2>2. UNCHANGED allVars => UNCHANGED vars
    BY DEF allVars
  <2> QED
    BY <2>1, <2>2 DEF ClientNext, ClientStep
<1> QED
  BY <1>1, <1>2, PTL DEF ClientSpec, Spec

\* A step changes the window of one process.
LEMMA OneWindow ==
  ASSUME ClientTypeOK, NEW p \in Procs, ClientStep(p), NEW q \in Procs \ {p}
  PROVE  /\ tables'[q] = tables[q] /\ data'[q] = data[q] /\ outcome'[q] = outcome[q]
         /\ idle'[q] = idle[q] /\ view'[q] = view[q] /\ seen'[q] = seen[q]
<1> USE DEF ClientTypeOK, window
<1>1. CASE MainThread(p)
  BY <1>1 DEF MainThread, MakeTables, MakeWindow, ShowMessage, Joined, JoinFaulted,
     Forgets
<1>2. CASE PollingThread(p)
  BY <1>2 DEF PollingThread, ReaderCalled, ReaderCopied, ReaderPosts, ReaderFails, Returns, Post,
     ReaderHangs, ReaderFaults, Forgets
<1>3. CASE User(p)
  BY <1>3 DEF User, CloseWindow, Killed, Forgets
<1> QED
  BY <1>1, <1>2, <1>3 DEF ClientStep

\* What a process forgets is in its type.
LEMMA ForgetsType ==
  ASSUME ClientTypeOK, NEW p \in Procs, Forgets(p)
  PROVE  ClientTypeOK'
<1>1. NoUpdate \in Updates
  BY DEF NoUpdate, Updates, Texts
<1>2. /\ tables' \in [Procs -> BOOLEAN] /\ data' \in [Procs -> Updates]
      /\ outcome' \in [Procs -> Outcomes]
  BY <1>1 DEF Forgets, ClientTypeOK, Outcomes
<1>3. /\ idle' \in [Procs -> Seq(Updates)] /\ view' \in [Procs -> Texts \cup {Nothing, Garbled}]
      /\ seen' \in [Procs -> [Procs -> Nat]]
  BY DEF Forgets, ClientTypeOK
<1> QED
  BY <1>2, <1>3 DEF ClientTypeOK

\* A text that is decoded, right or wrong, is in its type.
LEMMA DecodedType ==
  ASSUME NEW u \in Updates, NEW d \in Decoded(u)
  PROVE  d \in Updates /\ d.text = u.text
<1>1. u \in [text : Texts, live : BOOLEAN, right : BOOLEAN]
  BY DEF Updates
<1>2. PICK r \in BOOLEAN : d = [u EXCEPT !.right = r]
  BY DEF Decoded
<1> QED
  BY <1>1, <1>2 DEF Updates

\* Every step keeps the window of its process in its type.
LEMMA ClientTypeNext ==
  ASSUME TypeOK, ClientTypeOK, NEW p \in Procs, ClientStep(p)
  PROVE  ClientTypeOK'
<1>1. CASE UNCHANGED window
  BY <1>1 DEF ClientTypeOK, window
<1>2. CASE Forgets(p)
  BY <1>2, ForgetsType
<1>3. CASE MakeTables(p)
  BY <1>3 DEF MakeTables, ClientTypeOK
<1>4. CASE ShowMessage(p)
  <2> DEFINE d == Head(idle[p])
  <2>1. d \in Updates /\ Tail(idle[p]) \in Seq(Updates)
    BY <1>4 DEF ShowMessage, ClientTypeOK
  <2>2. d.text # NoMsg => d.text[1] \in Procs /\ d.text[2] \in Nat
    BY <2>1 DEF Updates, Texts, Msgs
  <2>3. view' \in [Procs -> Texts \cup {Nothing, Garbled}] /\ seen' \in [Procs -> [Procs -> Nat]]
    BY <1>4, <2>1, <2>2 DEF ShowMessage, Reads, Updates, ClientTypeOK
  <2> QED
    BY <1>4, <2>1, <2>3 DEF ShowMessage, ClientTypeOK
<1>5. CASE ReaderCalled(p)
  <2>1. data[p] \in [text : Texts, live : BOOLEAN, right : BOOLEAN]
    BY DEF ClientTypeOK, Updates
  <2>2. [data[p] EXCEPT !.live = mpc[p] # "i_setup"] \in Updates
    BY <2>1 DEF Updates
  <2>3. data' \in [Procs -> Updates]
    BY <1>5, <2>2 DEF ReaderCalled, ClientTypeOK
  <2> QED
    BY <1>5, <2>3 DEF ReaderCalled, ClientTypeOK
<1>6. CASE ReaderCopied(p)
  <2>1. data[p] \in [text : Texts, live : BOOLEAN, right : BOOLEAN]
    BY DEF ClientTypeOK, Updates
  <2>2. [data[p] EXCEPT !.text = rhead[p]] \in Updates
    BY <2>1 DEF Updates, Texts, TypeOK
  <2>3. data' \in [Procs -> Updates]
    BY <1>6, <2>2 DEF ReaderCopied, ClientTypeOK
  <2> QED
    BY <1>6, <2>3 DEF ReaderCopied, ClientTypeOK
<1>7. CASE ReaderPosts(p) \/ ReaderFails(p)
  <2>1. NoUpdate \in Updates
    BY DEF NoUpdate, Updates, Texts
  <2>2. UNCHANGED <<tables, view, seen>> /\ data' \in [Procs -> Updates]
    BY <1>7, <2>1 DEF ReaderPosts, ReaderFails, Returns, ClientTypeOK
  <2>3. outcome' \in [Procs -> Outcomes]
    BY <1>7 DEF ReaderPosts, ReaderFails, Returns, Outcomes, ClientTypeOK
  <2>4. idle' \in [Procs -> Seq(Updates)]
    <3>1. CASE ReaderPosts(p)
      <4>1. data[p] \in Updates
        BY DEF ClientTypeOK
      <4> QED
        BY <3>1, <4>1, DecodedType, AppendEach DEF ReaderPosts, Post, ClientTypeOK
    <3>2. CASE ReaderFails(p)
      BY <3>2 DEF ReaderFails, ClientTypeOK
    <3> QED
      BY <1>7, <3>1, <3>2
  <2> QED
    BY <2>2, <2>3, <2>4 DEF ClientTypeOK
<1>8. CASE ReaderHangs(p)
  BY <1>8 DEF ReaderHangs, Outcomes, ClientTypeOK
<1>9. CASE CloseWindow(p)
  BY <1>9 DEF CloseWindow, ClientTypeOK
<1> QED
  BY <1>1, <1>2, <1>3, <1>4, <1>5, <1>6, <1>7, <1>8, <1>9 DEF ClientStep, MainThread,
     PollingThread, User, MakeWindow, Joined, JoinFaulted, ReaderFaults, Killed

=============================================================================
