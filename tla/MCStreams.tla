------------------------------ MODULE MCStreams ------------------------------
(***************************************************************************)
(* Two users and two adapters; which is which does not matter.             *)
(***************************************************************************)
EXTENDS Streams, TLC

CONSTANTS ann, bob, twitch, kick

Alike == Permutations({ann, bob}) \cup Permutations({twitch, kick})
===============================================================================
