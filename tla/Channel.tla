------------------------------ MODULE Channel ------------------------------
(***************************************************************************)
(* The shared-memory channel between the clients (channel.c, channel.h)    *)
(* and the life cycle client.c gives it: a client process attaches with    *)
(* channel_init, its main thread sends with channel_write and leaves with  *)
(* channel_deinit, its polling thread takes the messages out of its line.  *)
(*                                                                         *)
(* One action is one access to memory that another thread or process can   *)
(* see, with the local computation around it: the code holds no lock and   *)
(* is built with -O0, so every access is a load or a store of its own.     *)
(* memcpy is two steps, one for each half of the buffer, so that a buffer  *)
(* that changes while it is copied shows.                                  *)
(***************************************************************************)
EXTENDS Integers, Sequences, FiniteSets

CONSTANTS
  Procs,            \* client processes; one that ended may be started again
  ClientOf,         \* the <clid> argument of each process
  DstOf,            \* the <dstclid> argument of each process
  MAX_CLIENTS_NUM,  \* client slots in the shared memory
  MaxAttempts,      \* attempts of one channel_write (10 in the code)
  CodeSize,         \* bound: the sizes in bytes of the codes each process sends
  CounterSize,      \* clients_attached counts modulo this (2^32 in the code)
  MaxObjects,       \* bound: shared memory objects ever created
  MaxMishaps,       \* bound: processes killed and threads that could not be created
  NoMsg             \* contents of a buffer nobody has written

Clients == 0..(MAX_CLIENTS_NUM - 1)
Objects == 1..MaxObjects
Lines   == Objects \X Clients
Msgs    == UNION {{p} \X (1..Len(CodeSize[p])) : p \in Procs}
                                      \* <<p, k>>: the k-th message of p

NoObject == 0
Bytes == 0..255                       \* the sizes a channel_write can announce
Counts == 0..(CounterSize - 1)
u8(n) == n % 256                      \* conversion to uint8_t
Wrap(n) == n % CounterSize            \* arithmetic on clients_attached

ASSUME ConstantsAssumption ==
  /\ MAX_CLIENTS_NUM \in Nat \ {0}
  /\ ClientOf \in [Procs -> Clients]
  /\ DstOf \in [Procs -> Clients]
  /\ MaxAttempts \in Nat
  /\ MaxObjects \in Nat
  /\ MaxMishaps \in Nat
  /\ CounterSize \in Nat \ {0}
  /\ CodeSize \in [Procs -> Seq(Nat)]
  /\ NoMsg \notin Msgs

VARIABLES
  \* The name CHANNEL_ID and the objects behind it
  linked,            \* the object the name stands for, or NoObject
  created,           \* how many objects have been created
  \* Shared memory, by object and by line
  clients_attached, client_id, mode, buffer_size, head, tail,
  \* Main threads: program counter, channel_g and local variables
  mpc, stream, polling, count, attempt, status,
  \* Polling threads
  ppc, rsize, rhead,
  \* History: messages sent by each process, processes killed and threads not
  \* created; by line, buffers declared ready, buffers handed to the reader
  \* callback, and whether the owner has cleared the size that was stored last
  sent, mishaps, accepted, delivered, wiped

names   == <<linked, created>>
headers == <<clients_attached, client_id>>
lines   == <<mode, buffer_size, head, tail>>
mains   == <<stream, polling, count, attempt, status>>
pollers == <<ppc, rsize, rhead>>
history == <<sent, mishaps, accepted, delivered, wiped>>
vars    == <<names, headers, lines, mpc, mains, pollers, history>>

Modes == {"CM_INVALID", "CM_EMPTY", "CM_READING", "CM_WRITING", "CM_READY"}

\* What the last channel_write of the process returned, if it has sent any.
Statuses == {"none", "SC_OK", "SC_UNKNOWN_ERROR", "SC_PARAM_NULL"}

InitSteps   == {"i_load", "i_store", "i_id", "i_mode", "i_size", "i_spawn", "i_setup"}
WriteSteps  == {"w_try", "w_mark", "w_head", "w_tail", "w_size", "w_ready"}
DeinitSteps == {"d_stop", "d_join", "d_load", "d_store", "d_test", "d_id", "d_mode",
                "d_size", "d_unmap", "d_unlink"}
MainSteps   == {"down", "stuck", "gtk_main"} \cup InitSteps \cup WriteSteps \cup DeinitSteps

PollSteps   == {"none", "start", "loop", "poll", "take", "call", "head", "tail",
                "clear", "free", "exited"}

RxLine(p) == <<stream[p], ClientOf[p]>>
TxLine(p) == <<stream[p], DstOf[p]>>
Current(p) == <<p, sent[p]>>          \* the message p is sending

Buffers == [size : Bytes, head : Msgs \cup {NoMsg}, tail : Msgs \cup {NoMsg}]
Blank == [size |-> 0, head |-> NoMsg, tail |-> NoMsg]

-----------------------------------------------------------------------------
(* The initial state: no process runs and no object exists. An object that *)
(* shm_open creates is all zeros, and 0 is CM_INVALID.                     *)

Init ==
  /\ linked = NoObject
  /\ created = 0
  /\ clients_attached = [o \in Objects |-> 0]
  /\ client_id = [l \in Lines |-> 0]
  /\ mode = [l \in Lines |-> "CM_INVALID"]
  /\ buffer_size = [l \in Lines |-> 0]
  /\ head = [l \in Lines |-> NoMsg]
  /\ tail = [l \in Lines |-> NoMsg]
  /\ mpc = [p \in Procs |-> "down"]
  /\ stream = [p \in Procs |-> NoObject]
  /\ polling = [p \in Procs |-> FALSE]
  /\ count = [p \in Procs |-> 0]
  /\ attempt = [p \in Procs |-> 0]
  /\ status = [p \in Procs |-> "none"]
  /\ ppc = [p \in Procs |-> "none"]
  /\ rsize = [p \in Procs |-> 0]
  /\ rhead = [p \in Procs |-> NoMsg]
  /\ sent = [p \in Procs |-> 0]
  /\ mishaps = 0
  /\ accepted = [l \in Lines |-> <<>>]
  /\ delivered = [l \in Lines |-> <<>>]
  /\ wiped = [l \in Lines |-> FALSE]

Goto(p, from, to) ==
  /\ mpc[p] = from
  /\ mpc' = [mpc EXCEPT ![p] = to]

PollGoto(p, from, to) ==
  /\ ppc[p] = from
  /\ ppc' = [ppc EXCEPT ![p] = to]

Wipe(l) ==                            \* by the owner, not after a message
  /\ buffer_size' = [buffer_size EXCEPT ![l] = 0]
  /\ wiped' = [wiped EXCEPT ![l] = TRUE]

-----------------------------------------------------------------------------
(* channel_init                                                            *)

\* shm_open with O_CREAT: the linked object, or a new one of zeros.
OpenObject(o) ==
  \/ /\ linked # NoObject
     /\ o = linked
     /\ UNCHANGED names
  \/ /\ linked = NoObject
     /\ created < MaxObjects
     /\ o = created + 1
     /\ created' = o
     /\ linked' = o

\* The process starts: shm_open, ftruncate and mmap succeed.
InitOpen(p) ==
  /\ Goto(p, "down", "i_load")
  /\ \E o \in Objects : /\ OpenObject(o)
                        /\ stream' = [stream EXCEPT ![p] = o]
  /\ UNCHANGED <<headers, lines, polling, count, attempt, status, pollers, history>>

\* shm_open fails, or it succeeds and ftruncate or mmap fails. main ignores
\* the status of client_init and enters gtk_main without a window to close.
InitFails(p) ==
  /\ Goto(p, "down", "stuck")
  /\ \/ UNCHANGED names
     \/ \E o \in Objects : OpenObject(o)
  /\ UNCHANGED <<headers, lines, mains, pollers, history>>

\* clients_attached++ is a load and a store.
InitLoad(p) ==
  /\ Goto(p, "i_load", "i_store")
  /\ count' = [count EXCEPT ![p] = clients_attached[stream[p]]]
  /\ UNCHANGED <<names, headers, lines, stream, polling, attempt, status, pollers, history>>

InitStore(p) ==
  /\ Goto(p, "i_store", "i_id")
  /\ clients_attached' = [clients_attached EXCEPT ![stream[p]] = Wrap(count[p] + 1)]
  /\ count' = [count EXCEPT ![p] = 0]
  /\ UNCHANGED <<names, client_id, lines, stream, polling, attempt, status, pollers, history>>

\* Mutant: channel_init leaves the identity in the header as it is.
InitIdSkipped(p) ==
  /\ Goto(p, "i_id", "i_mode")
  /\ UNCHANGED <<names, headers, lines, mains, pollers, history>>

InitId(p) ==
  /\ Goto(p, "i_id", "i_mode")
  /\ client_id' = [client_id EXCEPT ![RxLine(p)] = ClientOf[p]]
  /\ UNCHANGED <<names, clients_attached, lines, mains, pollers, history>>

InitMode(p) ==
  /\ Goto(p, "i_mode", "i_size")
  /\ mode' = [mode EXCEPT ![RxLine(p)] = "CM_EMPTY"]
  /\ UNCHANGED <<names, headers, buffer_size, head, tail, mains, pollers, history>>

InitSize(p) ==
  /\ Goto(p, "i_size", "i_spawn")
  /\ Wipe(RxLine(p))
  /\ UNCHANGED <<names, headers, mode, head, tail, mains, pollers,
                 sent, mishaps, accepted, delivered>>

\* pthread_create may fail: nobody looks, and the client goes on without a thread.
InitSpawn(p) ==
  /\ Goto(p, "i_spawn", "i_setup")
  /\ polling' = [polling EXCEPT ![p] = TRUE]
  /\ \/ /\ PollGoto(p, "none", "start")
        /\ UNCHANGED mishaps
     \/ /\ mishaps < MaxMishaps
        /\ mishaps' = mishaps + 1
        /\ UNCHANGED ppc
  /\ UNCHANGED <<names, headers, lines, stream, count, attempt, status, rsize, rhead,
                 sent, accepted, delivered, wiped>>

\* ikb_codes_init and gui_init, then the event loop.
InitSetup(p) ==
  /\ Goto(p, "i_setup", "gtk_main")
  /\ UNCHANGED <<names, headers, lines, mains, pollers, history>>

-----------------------------------------------------------------------------
(* channel_write, called by send_msg_cb on the main thread                 *)

WireSize(m) == u8(CodeSize[m[1]][m[2]])     \* buffer_size is a uint8_t parameter

\* Mutants: the test before a write looks only for a message nobody has read, or
\* only for a reader at work.
MayWriteUnlessReady(l) == mode[l] # "CM_READY"
MayWriteUnlessReading(l) == mode[l] # "CM_READING"

MayWrite(l) == mode[l] = "CM_EMPTY"

\* Mutant: an eleventh turn.
AttemptsLeftTooMany(n) == n <= MaxAttempts

AttemptsLeft(n) == n < MaxAttempts

\* Mutant: a turn that finds the line busy does not count as an attempt.
NextAttemptUncounted(n) == n

NextAttempt(n) == n + 1

Return(p, from, s) ==
  /\ Goto(p, from, "gtk_main")
  /\ status' = [status EXCEPT ![p] = s]
  /\ attempt' = [attempt EXCEPT ![p] = 0]

\* The call with the next message up to the first look at the line: an empty
\* buffer and an INVALID receiver are refused.
WriteEnter(p) ==
  LET m == <<p, sent[p] + 1>> IN
  /\ mpc[p] = "gtk_main"
  /\ sent[p] < Len(CodeSize[p])
  /\ sent' = [sent EXCEPT ![p] = @ + 1]
  /\ \/ /\ WireSize(m) = 0
        /\ Return(p, "gtk_main", "SC_PARAM_NULL")
     \/ /\ WireSize(m) # 0
        /\ mode[TxLine(p)] = "CM_INVALID"
        /\ Return(p, "gtk_main", "SC_UNKNOWN_ERROR")
     \/ /\ WireSize(m) # 0
        /\ mode[TxLine(p)] # "CM_INVALID"
        /\ Goto(p, "gtk_main", "w_try")
        /\ UNCHANGED <<attempt, status>>
  /\ UNCHANGED <<names, headers, lines, stream, polling, count, pollers,
                 mishaps, accepted, delivered, wiped>>

\* One turn of the attempt loop: the line is empty, or sleep 100 ms; when the
\* attempts are used up the loop ends and the function returns SC_OK.
WriteTry(p) ==
  /\ \/ /\ Goto(p, "w_try", "w_mark")
        /\ AttemptsLeft(attempt[p])
        /\ MayWrite(TxLine(p))
        /\ UNCHANGED <<attempt, status>>
     \/ /\ Goto(p, "w_try", "w_try")
        /\ AttemptsLeft(attempt[p])
        /\ ~ MayWrite(TxLine(p))
        /\ attempt' = [attempt EXCEPT ![p] = NextAttempt(@)]
        /\ UNCHANGED status
     \/ /\ Return(p, "w_try", "SC_OK")
        /\ ~ AttemptsLeft(attempt[p])
  /\ UNCHANGED <<names, headers, lines, stream, polling, count, pollers, history>>

WriteMark(p) ==
  /\ Goto(p, "w_mark", "w_head")
  /\ mode' = [mode EXCEPT ![TxLine(p)] = "CM_WRITING"]
  /\ UNCHANGED <<names, headers, buffer_size, head, tail, mains, pollers, history>>

WriteHead(p) ==
  /\ Goto(p, "w_head", "w_tail")
  /\ head' = [head EXCEPT ![TxLine(p)] = Current(p)]
  /\ UNCHANGED <<names, headers, mode, buffer_size, tail, mains, pollers, history>>

WriteTail(p) ==
  /\ Goto(p, "w_tail", "w_size")
  /\ tail' = [tail EXCEPT ![TxLine(p)] = Current(p)]
  /\ UNCHANGED <<names, headers, mode, buffer_size, head, mains, pollers, history>>

WriteSize(p) ==
  /\ Goto(p, "w_size", "w_ready")
  /\ buffer_size' = [buffer_size EXCEPT ![TxLine(p)] = WireSize(Current(p))]
  /\ wiped' = [wiped EXCEPT ![TxLine(p)] = FALSE]
  /\ UNCHANGED <<names, headers, mode, head, tail, mains, pollers,
                 sent, mishaps, accepted, delivered>>

\* Mutant: the loop is not left when the message has been placed.
PlacedAgain(p) ==
  /\ Goto(p, "w_ready", "w_try")
  /\ attempt' = [attempt EXCEPT ![p] = NextAttempt(@)]
  /\ UNCHANGED status

Placed(p) == Return(p, "w_ready", "SC_OK")     \* the loop is left by a break

WriteReady(p) ==
  /\ Placed(p)
  /\ mode' = [mode EXCEPT ![TxLine(p)] = "CM_READY"]
  /\ accepted' = [accepted EXCEPT ![TxLine(p)] = Append(@, Current(p))]
  /\ UNCHANGED <<names, headers, buffer_size, head, tail, stream, polling, count,
                 pollers, sent, mishaps, delivered, wiped>>

-----------------------------------------------------------------------------
(* __channel_polling and the reader callback it calls                      *)

\* Mutant: the polling thread also takes a message that is still being written.
MayReadEarly(l) == mode[l] \in {"CM_READY", "CM_WRITING"}

MayRead(l) == mode[l] = "CM_READY"

\* The thread gives up when the header is not its client's.
PollStart(p) ==
  /\ \/ /\ PollGoto(p, "start", "loop")
        /\ client_id[RxLine(p)] = ClientOf[p]
     \/ /\ PollGoto(p, "start", "exited")
        /\ client_id[RxLine(p)] # ClientOf[p]
  /\ UNCHANGED <<names, headers, lines, mpc, mains, rsize, rhead, history>>

PollLoop(p) ==
  /\ \/ /\ PollGoto(p, "loop", "poll")
        /\ polling[p]
     \/ /\ PollGoto(p, "loop", "exited")
        /\ ~ polling[p]
  /\ UNCHANGED <<names, headers, lines, mpc, mains, rsize, rhead, history>>

PollLook(p) ==
  /\ \/ /\ PollGoto(p, "poll", "take")
        /\ MayRead(RxLine(p))
     \/ /\ PollGoto(p, "poll", "loop")
        /\ ~ MayRead(RxLine(p))
  /\ UNCHANGED <<names, headers, lines, mpc, mains, rsize, rhead, history>>

PollTake(p) ==
  /\ PollGoto(p, "take", "call")
  /\ mode' = [mode EXCEPT ![RxLine(p)] = "CM_READING"]
  /\ UNCHANGED <<names, headers, buffer_size, head, tail, mpc, mains, rsize, rhead, history>>

Deliver(p, b) == delivered' = [delivered EXCEPT ![RxLine(p)] = Append(@, b)]

\* The callback's argument buffer_size is loaded; it copies that many bytes.
PollCall(p) ==
  /\ \/ /\ PollGoto(p, "call", "clear")
        /\ buffer_size[RxLine(p)] = 0
        /\ Deliver(p, Blank)
        /\ UNCHANGED rsize
     \/ /\ PollGoto(p, "call", "head")
        /\ buffer_size[RxLine(p)] # 0
        /\ rsize' = [rsize EXCEPT ![p] = buffer_size[RxLine(p)]]
        /\ UNCHANGED delivered
  /\ UNCHANGED <<names, headers, lines, mpc, mains, rhead, sent, mishaps, accepted, wiped>>

PollHead(p) ==
  /\ PollGoto(p, "head", "tail")
  /\ rhead' = [rhead EXCEPT ![p] = head[RxLine(p)]]
  /\ UNCHANGED <<names, headers, lines, mpc, mains, rsize, history>>

PollTail(p) ==
  /\ PollGoto(p, "tail", "clear")
  /\ Deliver(p, [size |-> rsize[p], head |-> rhead[p], tail |-> tail[RxLine(p)]])
  /\ rsize' = [rsize EXCEPT ![p] = 0]
  /\ rhead' = [rhead EXCEPT ![p] = NoMsg]
  /\ UNCHANGED <<names, headers, lines, mpc, mains, sent, mishaps, accepted, wiped>>

PollClear(p) ==
  /\ PollGoto(p, "clear", "free")
  /\ buffer_size' = [buffer_size EXCEPT ![RxLine(p)] = 0]
  /\ UNCHANGED <<names, headers, mode, head, tail, mpc, mains, rsize, rhead, history>>

\* Mutant: the line is made empty before its size is cleared.
PollFreeFirst(p) ==
  /\ \/ /\ PollGoto(p, "free", "free")
        /\ mode[RxLine(p)] = "CM_READING"
        /\ mode' = [mode EXCEPT ![RxLine(p)] = "CM_EMPTY"]
        /\ UNCHANGED buffer_size
     \/ /\ PollGoto(p, "free", "loop")
        /\ mode[RxLine(p)] # "CM_READING"
        /\ buffer_size' = [buffer_size EXCEPT ![RxLine(p)] = 0]
        /\ UNCHANGED mode
  /\ UNCHANGED <<names, headers, head, tail, mpc, mains, rsize, rhead, history>>

PollFree(p) ==
  /\ PollGoto(p, "free", "loop")
  /\ mode' = [mode EXCEPT ![RxLine(p)] = "CM_EMPTY"]
  /\ UNCHANGED <<names, headers, buffer_size, head, tail, mpc, mains, rsize, rhead, history>>

-----------------------------------------------------------------------------
(* channel_deinit, the destructor that runs when gtk_main has returned     *)

\* The user closes the window: its widgets are destroyed and gtk_main returns.
Close(p) ==
  /\ Goto(p, "gtk_main", "d_stop")
  /\ UNCHANGED <<names, headers, lines, mains, pollers, history>>

\* Mutant: channel_deinit joins the polling thread without telling it to stop.
DeinitWaits(p) ==
  /\ Goto(p, "d_stop", "d_join")
  /\ UNCHANGED <<names, headers, lines, mains, pollers, history>>

\* The polling thread is told to stop.
DeinitStop(p) ==
  /\ Goto(p, "d_stop", "d_join")
  /\ polling' = [polling EXCEPT ![p] = FALSE]
  /\ UNCHANGED <<names, headers, lines, stream, count, attempt, status, pollers, history>>

\* Without a thread to join, pthread_join fails; or it faults, see JoinFaults.
DeinitJoin(p) ==
  /\ Goto(p, "d_join", "d_load")
  /\ ppc[p] \in {"exited", "none"}
  /\ ppc' = [ppc EXCEPT ![p] = "none"]
  /\ UNCHANGED <<names, headers, lines, mains, rsize, rhead, history>>

DeinitLoad(p) ==
  /\ Goto(p, "d_load", "d_store")
  /\ count' = [count EXCEPT ![p] = clients_attached[stream[p]]]
  /\ UNCHANGED <<names, headers, lines, stream, polling, attempt, status, pollers, history>>

DeinitStore(p) ==
  /\ Goto(p, "d_store", "d_test")
  /\ clients_attached' =
       [clients_attached EXCEPT ![stream[p]] = Wrap(count[p] + CounterSize - 1)]
  /\ UNCHANGED <<names, client_id, lines, mains, pollers, history>>

\* close_shmem is TRUE from here on exactly when count is 0.
DeinitTest(p) ==
  /\ Goto(p, "d_test", "d_id")
  /\ count' = [count EXCEPT ![p] = clients_attached[stream[p]]]
  /\ UNCHANGED <<names, headers, lines, stream, polling, attempt, status, pollers, history>>

DeinitId(p) ==
  /\ Goto(p, "d_id", "d_mode")
  /\ client_id' = [client_id EXCEPT ![RxLine(p)] = 0]
  /\ UNCHANGED <<names, clients_attached, lines, mains, pollers, history>>

DeinitMode(p) ==
  /\ Goto(p, "d_mode", "d_size")
  /\ mode' = [mode EXCEPT ![RxLine(p)] = "CM_INVALID"]
  /\ UNCHANGED <<names, headers, buffer_size, head, tail, mains, pollers, history>>

DeinitSize(p) ==
  /\ Goto(p, "d_size", "d_unmap")
  /\ Wipe(RxLine(p))
  /\ UNCHANGED <<names, headers, mode, head, tail, mains, pollers,
                 sent, mishaps, accepted, delivered>>

Gone(p, from) ==                      \* the process has ended
  /\ Goto(p, from, "down")
  /\ stream' = [stream EXCEPT ![p] = NoObject]
  /\ polling' = [polling EXCEPT ![p] = FALSE]
  /\ count' = [count EXCEPT ![p] = 0]
  /\ attempt' = [attempt EXCEPT ![p] = 0]
  /\ status' = [status EXCEPT ![p] = "none"]

DeinitUnmap(p) ==
  /\ \/ /\ count[p] # 0
        /\ Gone(p, "d_unmap")
     \/ /\ count[p] = 0
        /\ Goto(p, "d_unmap", "d_unlink")
        /\ stream' = [stream EXCEPT ![p] = NoObject]
        /\ UNCHANGED <<polling, count, attempt, status>>
  /\ UNCHANGED <<names, headers, lines, pollers, history>>

\* shm_unlink takes away whatever the name stands for now. When it stands for
\* nothing the call fails, and channel_deinit returns an error nobody acts on.
DeinitUnlink(p) ==
  /\ Gone(p, "d_unlink")
  /\ linked' = NoObject
  /\ UNCHANGED <<created, headers, lines, pollers, history>>

-----------------------------------------------------------------------------
\* A process dies without its destructor. Its threads and its mapping are gone,
\* the shared memory stays as it is.
Dies(p) ==
  /\ Gone(p, mpc[p])
  /\ ppc' = [ppc EXCEPT ![p] = "none"]
  /\ rsize' = [rsize EXCEPT ![p] = 0]
  /\ rhead' = [rhead EXCEPT ![p] = NoMsg]
  /\ UNCHANGED <<names, headers, lines, sent, accepted, delivered, wiped>>

\* A signal ends the process.
Kill(p) ==
  /\ mpc[p] # "down"
  /\ mishaps < MaxMishaps
  /\ mishaps' = mishaps + 1
  /\ Dies(p)

\* rx_reader faults: it asks rx_text_view for its buffer when the window has been
\* destroyed (it may get away with it), or, with the bytes copied, it uses g_ikb_db
\* when ikb_codes_init has not made it.
CallbackFaults(p) ==
  /\ \/ ppc[p] = "call" /\ mpc[p] \in {"d_stop", "d_join"}
     \/ ppc[p] = "clear" /\ mpc[p] = "i_setup"
  /\ Dies(p)
  /\ UNCHANGED mishaps

\* pthread_join of an identifier that pthread_create has not stored is undefined.
JoinFaults(p) ==
  /\ mpc[p] = "d_join"
  /\ ppc[p] = "none"
  /\ Dies(p)
  /\ UNCHANGED mishaps

InitStep(p) ==
  \/ InitLoad(p) \/ InitStore(p) \/ InitId(p) \/ InitMode(p) \/ InitSize(p)
  \/ InitSpawn(p) \/ InitSetup(p)

WriteStep(p) ==
  \/ WriteTry(p) \/ WriteMark(p) \/ WriteHead(p) \/ WriteTail(p) \/ WriteSize(p)
  \/ WriteReady(p)

PollStep(p) ==
  \/ PollStart(p) \/ PollLoop(p) \/ PollLook(p) \/ PollTake(p) \/ PollCall(p)
  \/ PollHead(p) \/ PollTail(p) \/ PollClear(p) \/ PollFree(p)

DeinitStep(p) ==
  \/ DeinitStop(p) \/ DeinitJoin(p) \/ DeinitLoad(p) \/ DeinitStore(p) \/ DeinitTest(p)
  \/ DeinitId(p) \/ DeinitMode(p) \/ DeinitSize(p) \/ DeinitUnmap(p) \/ DeinitUnlink(p)

\* What the user or the operating system does, at any time or never.
UserStep(p) == InitOpen(p) \/ InitFails(p) \/ WriteEnter(p) \/ Close(p) \/ Kill(p)

Next == \E p \in Procs :
          \/ UserStep(p) \/ InitStep(p) \/ WriteStep(p) \/ PollStep(p) \/ DeinitStep(p)
          \/ CallbackFaults(p) \/ JoinFaults(p)

Spec == Init /\ [][Next]_vars

-----------------------------------------------------------------------------
(* Properties. channel.h:16-17 has two clients, each the destination of the *)
(* other; the protocol relies on more than it checks, namely:              *)

OneReader == \A p, q \in Procs : ClientOf[p] = ClientOf[q] => p = q
OneWriter == \A p, q \in Procs : DstOf[p] = DstOf[q] => p = q

TypeOK ==
  /\ linked \in Objects \cup {NoObject}
  /\ created \in 0..MaxObjects
  /\ clients_attached \in [Objects -> Counts]
  /\ client_id \in [Lines -> Clients]
  /\ mode \in [Lines -> Modes]
  /\ buffer_size \in [Lines -> Bytes]
  /\ head \in [Lines -> Msgs \cup {NoMsg}]
  /\ tail \in [Lines -> Msgs \cup {NoMsg}]
  /\ mpc \in [Procs -> MainSteps]
  /\ stream \in [Procs -> Objects \cup {NoObject}]
  /\ polling \in [Procs -> BOOLEAN]
  /\ count \in [Procs -> Counts]
  /\ attempt \in [Procs -> 0..MaxAttempts]
  /\ status \in [Procs -> Statuses]
  /\ ppc \in [Procs -> PollSteps]
  /\ rsize \in [Procs -> Bytes]
  /\ rhead \in [Procs -> Msgs \cup {NoMsg}]
  /\ sent \in [Procs -> Nat]
  /\ \A p \in Procs : sent[p] <= Len(CodeSize[p])
  /\ mishaps \in 0..MaxMishaps
  /\ accepted \in [Lines -> Seq(Msgs)]
  /\ delivered \in [Lines -> Seq(Buffers)]
  /\ wiped \in [Lines -> BOOLEAN]

\* A main thread between the test of the line and CM_READY, a polling thread
\* between the test of the line and CM_EMPTY.
Writing(p) == mpc[p] \in {"w_mark", "w_head", "w_tail", "w_size", "w_ready"}
Reading(p) == ppc[p] \in {"take", "call", "head", "tail", "clear", "free"}

\* The mode word is the only lock there is: whatever clients start, stop and
\* die, nobody writes into a line while its owner reads from it.
Exclusive ==
  \A p, q \in Procs : Writing(p) /\ Reading(q) => TxLine(p) # RxLine(q)

\* The reader callback never sees half of one message and half of another, nor
\* one message under the size of another. It finds size 0 only where the owner of
\* the line, when it started or stopped, has cleared the size of that message.
Whole(b) ==
  \/ b = Blank
  \/ b.head \in Msgs /\ b.tail = b.head /\ b.size = WireSize(b.head)

Intact ==
  /\ \A l \in Lines : \A i \in DOMAIN delivered[l] : Whole(delivered[l][i])
  /\ \A p \in Procs : ppc[p] = "call" => (buffer_size[RxLine(p)] = 0 <=> wiped[RxLine(p)])

\* The messages of one sender reach a line in the order of their channel_write
\* calls and no message is delivered twice, restarts of both ends included.
InOrder ==
  \A l \in Lines : \A i, j \in DOMAIN delivered[l] :
    /\ i < j
    /\ delivered[l][i].head \in Msgs
    /\ delivered[l][j].head \in Msgs
    => delivered[l][i].head[2] < delivered[l][j].head[2]

\* A message that is ready stays as it is until its receiver takes it: the line
\* leaves CM_READY by the polling thread's hand, or because the client that owns
\* the line starts or stops; and nobody but that client, then, clears its size.
ReadyIsKept ==
  [][\A l \in Lines : mode[l] = "CM_READY" =>
       /\ head'[l] = head[l]
       /\ tail'[l] = tail[l]
       /\ \/ buffer_size'[l] = buffer_size[l]
          \/ \E p \in Procs : RxLine(p) = l /\ mpc[p] \in {"i_size", "d_size"}
       /\ \/ mode'[l] = "CM_READY"
          \/ \E p \in Procs : /\ RxLine(p) = l
                             /\ \/ ppc[p] = "take" /\ mode'[l] = "CM_READING"
                                \/ mpc[p] \in {"i_mode", "d_mode"}]_vars

\* The line as a mailbox: the message is in it from CM_READY until the callback
\* has copied it.
Waiting(l) ==
  \/ mode[l] = "CM_READY"
  \/ \E p \in Procs : RxLine(p) = l /\ ppc[p] \in {"call", "head", "tail"}

Slot(l) == IF Waiting(l) THEN head[l] ELSE NoMsg
Served(l) == \E p \in Procs : RxLine(p) = l /\ ppc[p] # "none"

Box(l) == INSTANCE Mailbox WITH
            slot   <- Slot(l),
            spoilt <- wiped[l],
            served <- Served(l),
            put    <- accepted[l],
            got    <- [i \in DOMAIN delivered[l] |-> delivered[l][i].head]

\* Every line of the channel implements the mailbox, Box(l)!Spec: no message is
\* made up, taken twice, overwritten before it is taken or put out of order; none
\* is lost, or taken as nothing, but by the coming and going of the line's owner.
IsMailbox ==
  /\ \A l \in Lines : Box(l)!Init
  /\ [][\A l \in Lines : Box(l)!Next \/ UNCHANGED Box(l)!vars]_vars

-----------------------------------------------------------------------------
(* The inductive invariant behind Exclusive.                               *)

\* A process that runs has the shared memory mapped.
Attached == \A p \in Procs : mpc[p] \notin {"down", "stuck", "d_unlink"} => stream[p] \in Objects

\* A polling thread lives from its creation to the join.
Polled == \A p \in Procs :
  ppc[p] # "none" => mpc[p] \in {"i_setup", "gtk_main", "d_stop", "d_join"} \cup WriteSteps

\* A channel_write that is under way has a message, and not an empty one.
Sending == \A p \in Procs : mpc[p] \in WriteSteps =>
  Current(p) \in Msgs /\ WireSize(Current(p)) # 0

\* While a client is between its test of a line and the end of its access, the
\* mode of the line is one that keeps the other side out, or one that only the
\* coming or going of the owner of the line can have written.
ReaderMode == \A p \in Procs :
  /\ ppc[p] = "take" => mode[RxLine(p)] = "CM_READY"
  /\ ppc[p] \in {"call", "head", "tail", "clear", "free"} => mode[RxLine(p)] = "CM_READING"

WriterMode == \A p \in Procs :
  /\ mpc[p] = "w_mark" => mode[TxLine(p)] \in {"CM_EMPTY", "CM_INVALID"}
  /\ mpc[p] \in {"w_head", "w_tail", "w_size", "w_ready"} =>
       mode[TxLine(p)] \in {"CM_WRITING", "CM_EMPTY", "CM_INVALID"}

LineInv == Attached /\ Polled /\ Sending /\ ReaderMode /\ WriterMode

-----------------------------------------------------------------------------
(* What makes Intact, InOrder and IsMailbox inductive with it.             *)

\* The size of m in line l, or 0 when the receiver has started or stopped meanwhile.
Sized(l, m) == buffer_size[l] = IF wiped[l] THEN 0 ELSE WireSize(m)

\* A message that is ready or being read is whole and not empty,
Kept == \A l \in Lines :
  mode[l] \in {"CM_READY", "CM_READING"} =>
    head[l] \in Msgs /\ tail[l] = head[l] /\ WireSize(head[l]) # 0

\* and has its size as long as it waits,
Measured == \A l \in Lines : Waiting(l) => Sized(l, head[l])

\* so much of a message is in the line while channel_write puts it there,
Copied == \A p \in Procs :
  /\ mpc[p] \in {"w_tail", "w_size", "w_ready"} => head[TxLine(p)] = Current(p)
  /\ mpc[p] \in {"w_size", "w_ready"} => tail[TxLine(p)] = Current(p)
  /\ mpc[p] = "w_ready" => Sized(TxLine(p), Current(p))

\* and so much of it has the callback while it copies.
Taken == \A p \in Procs :
  /\ ppc[p] \in {"head", "tail"} =>
       rsize[p] = WireSize(head[RxLine(p)]) /\ ~ wiped[RxLine(p)]
  /\ ppc[p] = "tail" => rhead[p] = head[RxLine(p)]

\* m is a message to line l that its sender has left behind.
Past(m, l) ==
  /\ DstOf[m[1]] = l[2]
  /\ m[2] <= sent[m[1]]
  /\ mpc[m[1]] \in WriteSteps => m[2] < sent[m[1]]

\* Nothing that waits in a line, was put into it or was delivered is from the future,
Dated == \A l \in Lines :
  /\ Waiting(l) => Past(head[l], l)
  /\ \A i \in DOMAIN accepted[l] : Past(accepted[l][i], l)
  /\ \A i \in DOMAIN delivered[l] :
       delivered[l][i].head \in Msgs => Past(delivered[l][i].head, l)

\* and what waits is newer than all that was delivered.
Newer == \A l \in Lines : Waiting(l) =>
  \A i \in DOMAIN delivered[l] :
    delivered[l][i].head \in Msgs => delivered[l][i].head[2] < head[l][2]

MessageInv == Kept /\ Measured /\ Copied /\ Taken /\ Dated /\ Newer

\* A process that starts anew is never behind where it was: the name stands for the
\* object created last, and nobody has used a later one.
Onward ==
  /\ linked \in {NoObject, created}
  /\ \A p \in Procs : stream[p] <= created
  /\ \A l \in Lines :
       /\ l[1] > created => accepted[l] = <<>> /\ delivered[l] = <<>>
       /\ \A p \in Procs : stream[p] # NoObject /\ l[1] > stream[p] =>
            /\ l[2] = DstOf[p] => accepted[l] = <<>>
            /\ l[2] = ClientOf[p] => delivered[l] = <<>>

\* So what was put into a line of one object is older than what was put into the
\* same line of a later object,
Ages == \A l, k \in Lines : l[2] = k[2] /\ l[1] < k[1] =>
  \A i \in DOMAIN accepted[l] : \A j \in DOMAIN accepted[k] : accepted[l][i][2] < accepted[k][j][2]

\* and nothing comes out of a line that was not put into it.
Came == \A l \in Lines :
  /\ Waiting(l) => \E j \in DOMAIN accepted[l] : accepted[l][j] = head[l]
  /\ \A i \in DOMAIN delivered[l] : delivered[l][i].head \in Msgs =>
       \E j \in DOMAIN accepted[l] : accepted[l][j] = delivered[l][i].head

OrderInv == Onward /\ Ages /\ Came

-----------------------------------------------------------------------------
(* What comments say of the program and the code does not do.              *)

\* channel.h:54, of CM_READY: the buffer is ready for reading data, so nobody is
\* writing into it. Two clients with the same destination break it.
ReadyForReading ==
  \A l \in Lines : mode[l] = "CM_READY" =>
    \A p \in Procs : TxLine(p) = l => mpc[p] \notin {"w_head", "w_tail", "w_size", "w_ready"}

\* status.h:16, of SC_OK: the operation has been done successfully, so the
\* message of a channel_write that returned SC_OK has been placed. A line that
\* stays busy for all the attempts breaks it.
OkMeansPlaced ==
  \A p \in Procs : mpc[p] = "gtk_main" /\ status[p] = "SC_OK" =>
    \E l \in Lines : \E i \in DOMAIN accepted[l] : accepted[l][i] = Current(p)

\* channel.h:16-17: the channel is a shared memory used for data transmission
\* between two clients, so two clients that run share one object. A client that
\* starts while the last one unlinks the name breaks it.
OneObject ==
  \A p, q \in Procs : mpc[p] = "gtk_main" /\ mpc[q] = "gtk_main" => stream[p] = stream[q]

=============================================================================
