--------------------------- MODULE MCHubDelivery ---------------------------
(* Instances of HubDelivery for TLC.                                        *)
EXTENDS HubDeliveryRefinement, TLC

CONSTANTS c1, c2, p1, named, star, none, onNamed, onStar, onPublished, onBroadcast

MCChannels == {named, star}

MCHandlerOf ==
  [h \in Handlers |->
     CASE h = onNamed -> [kind |-> "channel", channel |-> named]
       [] h = onStar -> [kind |-> "channel", channel |-> star]
       [] h = onPublished -> [kind |-> "published", channel |-> none]
       [] h = onBroadcast -> [kind |-> "broadcast", channel |-> none]]

\* A peer and a handler through a shutdown; a handler through a restart; frames
\* enough for a spawned goroutine to be overtaken; two handlers that both take a
\* frame of the named channel; and the taps of bridges and pipes, which a
\* bridge's call passes by.
MCBounds ==
  { [peers |-> {p1}, handlers |-> {onStar}, notify |-> {TRUE}, frames |-> 2, runs |-> 1],
    [peers |-> {}, handlers |-> {onStar}, notify |-> {TRUE}, frames |-> 2, runs |-> 2],
    [peers |-> {}, handlers |-> {onStar}, notify |-> {TRUE}, frames |-> 3, runs |-> 1],
    [peers |-> {}, handlers |-> {onNamed, onStar}, notify |-> {TRUE}, frames |-> 1, runs |-> 1],
    [peers |-> {}, handlers |-> {onPublished, onBroadcast}, notify |-> BOOLEAN,
     frames |-> 2, runs |-> 1] }

\* The peer follows the named channel and the wildcard both.
MCPeerChannels == [p \in Peers |-> {named, star}]
=============================================================================
