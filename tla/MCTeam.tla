------------------------------- MODULE MCTeam -------------------------------
(***************************************************************************)
(* Small instances of Team for TLC.                                        *)
(***************************************************************************)
EXTENDS Team, TLC

CONSTANTS a, b, c, u, x, y

TwoIds   == 1..2
ThreeIds == 1..3

AllPairs   == Sessions \X Sessions
AnyPolicy  == {AllPairs}
OpenOrShut == {AllPairs, {}}

(* Sessions of one engine are interchangeable: none of them is named.      *)
Symmetric == Permutations(Sessions \ Harness)
=============================================================================
