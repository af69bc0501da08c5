--------------------------- MODULE MCRigelUpdate ---------------------------
(* Instances of RigelUpdate for TLC. *)
EXTENDS RigelUpdate, TLC

CONSTANTS p1, p2, s1,  \* managed, managed, seed
          v1, v2,      \* contents Rigel may ship
          mine         \* content only the owner writes

OneManaged == {p1}
TwoManaged == {p1, p2}
ManagedAndSeed == {p1, s1}
Shipped == {v1, v2}
AllContent == {v1, v2, mine}
NoPaths == {}

NoLayer == {EmptyTree}
SomeLayers == {EmptyTree, [p \in Path |-> IF p = p1 THEN v2 ELSE Absent]}
OneMode == {"sidecar"}
BothModes == {"sidecar", "theirs"}

Symmetry == Permutations(Shipped) \cup Permutations(TwoManaged)
VersionSymmetry == Permutations(Shipped)
=============================================================================
