-------------------------- MODULE MCBronzeIngestion --------------------------
(* Small instances of BronzeIngestion: archive z1 adds a member to z2, so   *)
(* z2 after z1 has nothing to extract and z1 after z2 has one member; x is  *)
(* a workbook batch of another stream, f a flat file of the stream of the   *)
(* archives.                                                                *)
EXTENDS BronzeIngestion, TLC

CONSTANTS z1, z2, x, f, c1, c2, c3

MCStreamOf == [a \in Assets |-> IF a = x THEN "tables" ELSE "archive"]
MCKind == [a \in Assets |-> IF a = x THEN "batch" ELSE IF a = f THEN "flat" ELSE "zip"]
MCPeriodOf == [a \in Assets |-> 2024]
MCMembers == [a \in Assets |->
    CASE a = z1 -> {<<"m", 1>>, <<"n", 1>>}
      [] a = z2 -> {<<"m", 1>>}
      [] a = x -> {<<"x", 1>>}
      [] OTHER -> {<<"f", 1>>}]
MCAssetsOf == [c \in Captures |->
    CASE c = c1 -> <<x, z2>> [] c = c2 -> <<z1>> [] OTHER -> <<f>>]
Symmetric == Permutations(Runs)
=============================================================================
