------------------------------ MODULE Mailbox ------------------------------
(***************************************************************************)
(* What one line of the shared-memory channel promises (channel.h:12-36),  *)
(* without modes, headers or threads: it is a mailbox with room for one    *)
(* message. A message is put into the empty mailbox and taken from the     *)
(* full one; the messages of a sender are put in order, each at most once. *)
(* Only when its owner comes or goes is a message lost or spoilt; a spoilt *)
(* one is taken as nothing.                                                *)
(***************************************************************************)
EXTENDS Integers, Sequences

CONSTANTS
  Msgs,       \* messages <<s, k>>: the k-th of sender s
  NoMsg

VARIABLES
  slot,       \* the message in the mailbox, or NoMsg
  spoilt,     \* what is in the mailbox, or is being put there, has lost its size
  served,     \* somebody is there to take messages
  put,        \* the messages ever put into it
  got         \* what its owner was handed: messages, or NoMsg for nothing

vars == <<slot, spoilt, served, put, got>>

Init ==
  /\ slot = NoMsg
  /\ spoilt = FALSE
  /\ served = FALSE
  /\ put = <<>>
  /\ got = <<>>

Fresh(m) == \A i \in DOMAIN put : put[i][1] = m[1] => put[i][2] < m[2]

Put(m) ==
  /\ slot = NoMsg
  /\ Fresh(m)
  /\ slot' = m
  /\ put' = Append(put, m)
  /\ UNCHANGED <<spoilt, served, got>>

HandOver(x) ==
  /\ served
  /\ slot # NoMsg
  /\ slot' = NoMsg
  /\ got' = Append(got, x)
  /\ UNCHANGED <<spoilt, served, put>>

Take == ~ spoilt /\ HandOver(slot)
TakeNothing == spoilt /\ HandOver(NoMsg)

\* The owner restarts and forgets the message, or stops or dies over it.
Lose ==
  /\ slot # NoMsg
  /\ slot' = NoMsg
  /\ ~ served'
  /\ UNCHANGED <<spoilt, put, got>>

\* A starting or stopping owner spoils a message that comes at that moment.
Spoil ==
  /\ ~ served
  /\ spoilt' = TRUE
  /\ UNCHANGED <<slot, served, put, got>>

\* The next message is whole again.
Renew ==
  /\ slot = NoMsg
  /\ spoilt' = FALSE
  /\ UNCHANGED <<slot, served, put, got>>

Attend ==
  /\ served' \in BOOLEAN
  /\ UNCHANGED <<slot, spoilt, put, got>>

Next ==
  \/ \E m \in Msgs : Put(m)
  \/ Take \/ TakeNothing \/ Lose \/ Spoil \/ Renew \/ Attend

Spec == Init /\ [][Next]_vars

=============================================================================
