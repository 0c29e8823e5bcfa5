------------------------------ MODULE MCPipes ------------------------------
(***************************************************************************)
(* Instances of Pipes: two hubs in a ring, and two frames of one kind, so  *)
(* that a loop finds the queue of the other hub full.                      *)
(***************************************************************************)
EXTENDS Pipes

CONSTANTS a, b, there, back, p1, p2, b1

MCHubs == {a, b}
MCPipes == {there, back}
MCSrc == [p \in MCPipes |-> IF p = there THEN a ELSE b]
MCDst == [p \in MCPipes |-> IF p = there THEN b ELSE a]
MCFrames == {p1, p2, b1}
MCBatches == {{p1, p2}, {b1}}
MCKindOf == [f \in MCFrames |-> IF f \in {p1, p2} THEN "published" ELSE "broadcast"]

=============================================================================
