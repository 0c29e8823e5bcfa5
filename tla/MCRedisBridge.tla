--------------------------- MODULE MCRedisBridge ---------------------------
(* Instances of RedisBridge for TLC.                                        *)
EXTENDS RedisBridge

CONSTANTS bridgeA, bridgeB, a1, a2, b1

\* Bridge A can be started twice, B once.
MCOwner == [s \in Starts |-> IF s = b1 THEN bridgeB ELSE bridgeA]

\* A bridge is stopped once, or never.
MCOneStop == [x \in Bridges |-> 1]
MCNoStop == [x \in Bridges |-> 0]
=============================================================================
