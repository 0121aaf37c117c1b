------------------------------- MODULE MCEmds -------------------------------
(* Instances of Emds for TLC: one static entry of one block, a dynamic one *)
(* of two blocks and an empty one, over a few small areas.                 *)
EXTENDS Emds, TLC

MCStatic == <<1>>
MCDynamic == {2, 3}
MCBlocks == (1 :> 1) @@ (2 :> 2) @@ (3 :> 0)

\* A new device, and one whose area holds the remains of something else.
MCFlashes == {[a \in Addresses |-> Erased], [a \in Addresses |-> Plain("junk")]}
=============================================================================
