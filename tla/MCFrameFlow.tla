---------------------------- MODULE MCFrameFlow -----------------------------
(* Small instances of FrameFlow: two and three buffers where the program has *)
(* four or more in each pool, queues of one or two entries where it has      *)
(* eight.                                                                    *)
EXTENDS FrameFlow, TLC

\* The buffers of a pool are interchangeable: for the safety properties only.
Symmetry == Permutations(Captures) \cup Permutations(Outputs)
=============================================================================
