--------------------------- MODULE MCSourceCapture ---------------------------
(* A small instance of SourceCapture: four runs of one workspace and one of *)
(* another, which capture or backfill one date; both workspaces also have a *)
(* flat file of that date.                                                  *)
EXTENDS SourceCapture, TLC

CONSTANTS r1, r2, r3, r4, r5, w1, w2, c1, c2, s1, s2

MCWorkspaceOf == [r \in Runs |-> IF r = r5 THEN w2 ELSE w1]
MCDateOf == [c \in Captures |-> "day1"]
MCLegacyFiles == [w \in Workspaces |-> [d \in Dates |-> {s1}]]
Symmetric == Permutations(Runs \ {r5}) \cup Permutations(Captures)
=============================================================================
