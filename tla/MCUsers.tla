--------------------------------- MODULE MCUsers ---------------------------------
(***************************************************************************)
(* Two accounts, one of which may be created, two channels, and two        *)
(* connections that block.                                                 *)
(***************************************************************************)
EXTENDS UserDirectory, TLC

CONSTANTS ann, bob, twitch, kick, tui, mods

Accounts == Permutations({ann, bob}) \cup Permutations({twitch, kick})
================================================================================
