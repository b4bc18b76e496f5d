------------------------------ MODULE MCClient ------------------------------
(* Values for the constants of Client.                                     *)
EXTENDS Client, MCChannel

MCThreeAndNone == (alice :> <<5, 256, 10>>) @@ (bob :> <<>>)

=============================================================================
