--------------------------- MODULE MCArtifactCache ---------------------------
(* Instances of ArtifactCache for TLC: each key has an object of its own, and  *)
(* the module with debug symbols is archived under another digest.            *)
EXTENDS ArtifactCache

CONSTANTS keyA, keyB, keyC, digX, digY, digZ, digS

MCDigestOf == [k \in Key |-> CASE k = keyA -> digX [] k = keyB -> digY [] OTHER -> digZ]
MCStrippedOf == [k \in Debug |-> digS]

=============================================================================
