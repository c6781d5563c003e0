---------------------------- MODULE MCCloudDrive ----------------------------
(* The cloud drive on small trees: two files side by side, or two folders  *)
(* with a file in each.  Clients are interchangeable.                      *)
EXTENDS CloudDrive, TLC

CONSTANTS x, y, a, b

FlatPaths == {<<x>>, <<y>>}
\* A name that is a file or a folder, a second name to move it to, and a file in it.
TreePaths == {<<a>>, <<b>>, <<a, x>>, <<b, x>>}
TreeDirs == {<<a>>, <<b>>}
TreeFiles == {<<a, x>>, <<b, x>>}
MixedFiles == {<<a>>, <<a, x>>}
OneDir == {<<a>>}
OnePath == {<<x>>}
\* A file may be moved to a name that ends in ".part".
PartName == {<<b>>}
NoPaths == {}

Symmetry == Permutations(Clients)
=============================================================================
