------------------------- MODULE MCWorkspaceTransfer -------------------------
(* o1 and o3 import a package which two exports write, o2 initializes a     *)
(* workspace of another name that shares a directory with them; all are     *)
(* entered into one registry.                                               *)
EXTENDS WorkspaceTransfer, TLC

CONSTANTS o1, o2, o3, d1, d2, e1, e2, f1, f2

MCConfig == [o \in Operations |-> "workspaces.yaml"]
MCNames == [o \in Operations |-> IF o = o2 THEN "b" ELSE "a"]
MCRoots == [o \in Operations |-> IF o = o2 THEN {d1, d2} ELSE {d1}]
Symmetric == Permutations(Importing)
=============================================================================
