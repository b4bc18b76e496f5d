------------------------------- MODULE Client -------------------------------
(***************************************************************************)
(* The client around the channel (client.c): what its main thread makes    *)
(* after channel_init, what rx_reader does with a message on the polling   *)
(* thread, and the idle callbacks with which the event loop shows it.      *)
(*                                                                         *)
(* Every step of the channel is a step of the client. Those that client.c  *)
(* has a part in say here what else they need and do; of a call of         *)
(* rx_reader only the outcome matters here, Codec has where it comes from. *)
(***************************************************************************)
EXTENDS Channel

CONSTANTS
  Nothing,    \* what the receive view shows before the first message
  Garbled     \* any text but the one that was sent

ASSUME ClientAssumption == Nothing \notin Msgs \cup {NoMsg, Garbled}

VARIABLES
  tables,     \* ikb_codes_init has filled g_ikb_db
  data,       \* data of rx_reader: whose text, was rx_text_view there, is it right
  outcome,    \* what came of the latest call of rx_reader
  idle,       \* the idle callbacks that gdk_threads_add_idle installed
  view,       \* what the receive view shows; NoMsg is an empty text
  seen        \* history: seen[q][p] is the latest message of p that q was shown

window  == <<tables, data, outcome, idle, view, seen>>
allVars == <<vars, window>>

Outcomes == {"none", "text", "error", "never"}
Texts == Msgs \cup {NoMsg}
Updates == [text : Texts, live : BOOLEAN, right : BOOLEAN]     \* rx_update_t
NoUpdate == [text |-> NoMsg, live |-> FALSE, right |-> TRUE]

\* The event loop runs, or will when send_msg_cb has returned.
Open(p) == mpc[p] \in {"gtk_main"} \cup WriteSteps

ClientInit ==
  /\ Init
  /\ tables = [p \in Procs |-> FALSE]
  /\ data = [p \in Procs |-> NoUpdate]
  /\ outcome = [p \in Procs |-> "none"]
  /\ idle = [p \in Procs |-> <<>>]
  /\ view = [p \in Procs |-> Nothing]
  /\ seen = [q \in Procs |-> [p \in Procs |-> 0]]

-----------------------------------------------------------------------------
(* client_init, after channel_init                                         *)

MakeTables(p) ==                      \* ikb_codes_init
  /\ mpc[p] = "i_setup"
  /\ ~ tables[p]
  /\ tables' = [tables EXCEPT ![p] = TRUE]
  /\ UNCHANGED <<vars, data, outcome, idle, view, seen>>

MakeWindow(p) ==                      \* gui_init, then gtk_main
  /\ tables[p]
  /\ InitSetup(p)
  /\ UNCHANGED window

-----------------------------------------------------------------------------
(* rx_reader                                                               *)

\* It asks rx_text_view for its buffer first: gui_init may not have made it.
ReaderCalled(p) ==
  /\ PollCall(p)
  /\ data' = [data EXCEPT ![p].live = mpc[p] # "i_setup"]
  /\ UNCHANGED <<tables, outcome, idle, view, seen>>

ReaderCopied(p) ==
  /\ PollTail(p)
  /\ data' = [data EXCEPT ![p].text = rhead[p]]
  /\ UNCHANGED <<tables, outcome, idle, view, seen>>

Returns(p, how) ==
  /\ outcome[p] # "never"
  /\ PollClear(p)
  /\ outcome' = [outcome EXCEPT ![p] = how]
  /\ data' = [data EXCEPT ![p] = NoUpdate]
  /\ UNCHANGED <<tables, view, seen>>

\* Decoding leaves the text that was sent, or another one: the settings of the two
\* ends differ, or there were too many errors.
Decoded(d) == {[d EXCEPT !.right = r] : r \in BOOLEAN}

\* Mutants: the callback is not installed; it comes before those that wait already.
PostForgotten(p) == UNCHANGED idle
PostFirst(p) == \E d \in Decoded(data[p]) : idle' = [idle EXCEPT ![p] = <<d>> \o @]

\* gdk_threads_add_idle: callbacks of one priority run in this order.
Post(p) == \E d \in Decoded(data[p]) : idle' = [idle EXCEPT ![p] = Append(@, d)]

\* The message is restored, decoded and left to an idle callback.
ReaderPosts(p) ==
  /\ tables[p]
  /\ Returns(p, "text")
  /\ Post(p)

\* Restoring or decoding fails: g_ikb_db is still zeroed, or its user has changed
\* the settings meanwhile. No callback is installed.
ReaderFails(p) ==
  /\ tables[p] => mpc[p] # "i_setup"
  /\ Returns(p, "error")
  /\ UNCHANGED idle

\* With more than 255 chips the loop of ikb_noise_restore never ends. It takes a
\* cut that only the user can have set.
ReaderHangs(p) ==
  /\ ppc[p] = "clear"
  /\ outcome[p] # "never"
  /\ mpc[p] # "i_setup"
  /\ outcome' = [outcome EXCEPT ![p] = "never"]
  /\ UNCHANGED <<vars, tables, data, idle, view, seen>>

-----------------------------------------------------------------------------
(* rx_buffer_update, when the event loop has nothing else to do. It         *)
(* returns 0: GLib takes the callback out and does not call it again.       *)

\* Nothing decodes to nothing.
Reads(d) == IF d.right \/ d.text = NoMsg THEN d.text ELSE Garbled

ShowMessage(p) ==
  /\ mpc[p] = "gtk_main"
  /\ idle[p] # <<>>
  /\ idle' = [idle EXCEPT ![p] = Tail(@)]
  /\ LET d == Head(idle[p]) IN
     /\ view' = IF d.live THEN [view EXCEPT ![p] = Reads(d)] ELSE view
     /\ seen' = IF d.live /\ d.text # NoMsg
                THEN [seen EXCEPT ![p][d.text[1]] = d.text[2]] ELSE seen
  /\ UNCHANGED <<vars, tables, data, outcome>>

-----------------------------------------------------------------------------
(* The end                                                                 *)

\* The window and what it showed are gone; callbacks that wait will not run.
CloseWindow(p) ==
  /\ Close(p)
  /\ view' = [view EXCEPT ![p] = Nothing]
  /\ UNCHANGED <<tables, data, outcome, idle, seen>>

\* Nothing of the process is left, or nothing that another step uses.
Forgets(p) ==
  /\ tables' = [tables EXCEPT ![p] = FALSE]
  /\ data' = [data EXCEPT ![p] = NoUpdate]
  /\ outcome' = [outcome EXCEPT ![p] = "none"]
  /\ idle' = [idle EXCEPT ![p] = <<>>]
  /\ view' = [view EXCEPT ![p] = Nothing]
  /\ UNCHANGED seen

\* A polling thread that still runs ikb_noise_restore is not joined.
Joined(p) == DeinitJoin(p) /\ Forgets(p)

JoinFaulted(p) == JoinFaults(p) /\ Forgets(p)

Killed(p) == Kill(p) /\ Forgets(p)

\* rx_reader needs the tables; a window that was closed is there no more.
ReaderFaults(p) ==
  /\ ~ (ppc[p] = "clear" /\ tables[p])
  /\ CallbackFaults(p)
  /\ Forgets(p)

-----------------------------------------------------------------------------

\* Steps of the channel that nothing in the window depends on.
ChannelStarts(p) == InitLoad(p) \/ InitStore(p) \/ InitId(p) \/ InitMode(p) \/ InitSize(p)
                    \/ InitSpawn(p)
ChannelPolls(p)  == PollStart(p) \/ PollLoop(p) \/ PollLook(p) \/ PollTake(p) \/ PollHead(p)
                    \/ PollFree(p)
ChannelStops(p)  == DeinitStop(p) \/ DeinitLoad(p) \/ DeinitStore(p) \/ DeinitTest(p)
                    \/ DeinitId(p) \/ DeinitMode(p) \/ DeinitSize(p) \/ DeinitUnmap(p)
                    \/ DeinitUnlink(p)

MainThread(p) ==
  \/ (ChannelStarts(p) \/ WriteStep(p) \/ ChannelStops(p)) /\ UNCHANGED window
  \/ MakeTables(p) \/ MakeWindow(p) \/ ShowMessage(p) \/ Joined(p) \/ JoinFaulted(p)

PollingThread(p) ==
  \/ ChannelPolls(p) /\ UNCHANGED window
  \/ ReaderCalled(p) \/ ReaderCopied(p)
  \/ ReaderPosts(p) \/ ReaderFails(p) \/ ReaderHangs(p) \/ ReaderFaults(p)

User(p) ==
  \/ (InitOpen(p) \/ InitFails(p) \/ WriteEnter(p)) /\ UNCHANGED window
  \/ CloseWindow(p) \/ Killed(p)

ClientNext == \E p \in Procs : MainThread(p) \/ PollingThread(p) \/ User(p)

ClientSpec == ClientInit /\ [][ClientNext]_allVars

\* The scheduler runs the threads that can run; the event loop runs its callbacks.
ClientFairness == \A p \in Procs : WF_allVars(MainThread(p)) /\ WF_allVars(PollingThread(p))

FairClientSpec == ClientSpec /\ ClientFairness

-----------------------------------------------------------------------------
(* Properties                                                              *)

ClientTypeOK ==
  /\ tables \in [Procs -> BOOLEAN]
  /\ data \in [Procs -> Updates]
  /\ outcome \in [Procs -> Outcomes]
  /\ idle \in [Procs -> Seq(Updates)]
  /\ view \in [Procs -> Texts \cup {Nothing, Garbled}]
  /\ seen \in [Procs -> [Procs -> Nat]]

\* What the two users see is a chat: one text for one message, in order, none twice.
WritersTo == [q \in Procs |-> {p \in Procs : DstOf[p] = ClientOf[q]}]

ChatOf == INSTANCE Chat WITH Users <- Procs, Empty <- NoMsg, said <- sent
IsChat == ChatOf!Spec

\* Why it is one. The messages that the callback of q has copied:
Got(q) == {m \in Msgs : \E l \in Lines : /\ l[2] = ClientOf[q]
                                         /\ \E i \in DOMAIN delivered[l] : delivered[l][i].head = m}

\* What was shown is of G, and so are the text d that is on its way and those of the
\* callbacks w that wait; and these are in order and newer than what was shown.
Orderly(G, shown, d, w) ==
  /\ \A p \in Procs : shown[p] # 0 => <<p, shown[p]>> \in G
  /\ d # NoMsg => d \in G /\ shown[d[1]] < d[2]
  /\ \A i \in DOMAIN w : w[i].text # NoMsg =>
       /\ w[i].text \in G
       /\ shown[w[i].text[1]] < w[i].text[2]
       /\ d # NoMsg => w[i].text[2] < d[2]
       /\ \A j \in DOMAIN w : i < j /\ w[j].text # NoMsg => w[i].text[2] < w[j].text[2]

ChatInv ==
  /\ ClientTypeOK
  /\ \A q \in Procs :
       /\ Orderly(Got(q), seen[q], data[q].text, idle[q])
       /\ data[q].text # NoMsg => ppc[q] = "clear"

\* The attempt loop ends, whatever state the line is in, also when the receiver's
\* reader hangs: the main thread gets back to the event loop (or the process dies).
SendReturns == \A p \in Procs : mpc[p] \in WriteSteps ~> mpc[p] \notin WriteSteps

\* A message that is ready under its size when its receiver's window is up reaches the
\* window, unless the window goes, or the reader fails or hangs.
ReadyIsShown ==
  \A q \in Procs : \A m \in Msgs :
    /\ Open(q)
    /\ ppc[q] # "none"
    /\ mode[RxLine(q)] = "CM_READY"
    /\ head[RxLine(q)] = m
    /\ ~ wiped[RxLine(q)]
    ~> seen[q][m[1]] >= m[2] \/ ~ Open(q) \/ outcome[q] \in {"error", "never"}

\* A client that is closed ends, unless its reader hangs: the polling thread sees
\* the flag and the join does not wait for ever.
CloseEnds == \A p \in Procs : mpc[p] = "d_stop" ~> mpc[p] = "down" \/ outcome[p] = "never"

\* A line that is ready is taken and freed for the next message, unless its owner has
\* no thread, is told to stop, dies, or hangs in its reader.
LineIsFreed ==
  \A p \in Procs :
    polling[p] /\ ppc[p] # "none" /\ mode[RxLine(p)] = "CM_READY"
      ~> ~ polling[p] \/ mode[RxLine(p)] = "CM_EMPTY" \/ outcome[p] = "never"

=============================================================================
