------------------------------ MODULE MCCodec ------------------------------
(* Values for the constants of Codec.                                      *)
EXTENDS Codec

\* The letter "i" is 01101001, "Q" 01010001.
MCLetters == {[size |-> 1, bits |-> {1, 2, 4, 7}], [size |-> 0, bits |-> {}]}

\* No text; two bytes of which each chip gets through with the first bundle cut by 10:
\* the units are 1, 3, 7, 2 and 0, and the last bit is alone in its chip; and eight
\* letters "A", 01000001. A receiver that cuts its chips to one bit makes 289 chips of
\* them when they were sent with the first bundle, and 233 with the second.
MCLoopLetters == {[size |-> 0, bits |-> {}],
                  [size |-> 2, bits |-> {2, 4, 5, 6, 7, 8, 10, 15}],
                  [size |-> 8, bits |-> {8 * i + b : i \in 0..7, b \in {1, 7}}]}

MCStarted == {5}
MCAnyStage == {1, 5}
=============================================================================
