---------------------------- MODULE MCRigelAdopt ----------------------------
(* Instances of RigelAdopt for TLC. *)
EXTENDS RigelAdopt, TLC

CONSTANTS c1, h1, s1,  \* core (rigel-verify), harness, seed
          v1, v2,      \* contents Rigel may ship
          mine,        \* content only the owner writes
          cut          \* half a file

ThreePaths == {c1, h1, s1}
CoreOnly == {c1}
HarnessOnly == {h1}
CoreAndHarness == {c1, h1}
CoreAndSeed == {c1, s1}
NoPaths == {}
OneVersion == {v1}
TwoVersions == {v1, v2}
OneVersionContent == {v1, mine, cut}
TwoVersionContent == {v1, v2, mine, cut}
=============================================================================
