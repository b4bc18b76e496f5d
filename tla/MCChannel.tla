----------------------------- MODULE MCChannel -----------------------------
(* Values for the constants of Channel.                                    *)
EXTENDS Channel, TLC

CONSTANTS alice, bob                        \* client processes

MCTwo == {alice, bob}

\* ./client 0 1 and ./client 1 0
MCCrossedClient == (alice :> 0) @@ (bob :> 1)
MCCrossedDst == (alice :> 1) @@ (bob :> 0)

\* ./client 0 1 and ./client 1 1: the second one sends to itself
MCBothToOne == (alice :> 1) @@ (bob :> 1)

\* The code of a one-character message under {1, 2, 3, 7} has 5 bytes, that of
\* a two-character one 10. A code of 256 bytes has its length cut to 0.
MCOneEach == (alice :> <<5>>) @@ (bob :> <<10>>)
MCTwoAndNone == (alice :> <<5, 10>>) @@ (bob :> <<>>)
MCOneAndNone == (alice :> <<5>>) @@ (bob :> <<>>)

=============================================================================
