----------------------------- MODULE HubQueries -----------------------------
(***************************************************************************)
(* What stream.Hub (src/go/hub.go) answers when it is asked about itself.  *)
(* Stats, ChannelCount and AllChannels each walk hub.channels and          *)
(* hub.channelHandlers in their own way, with or without a test for empty  *)
(* entries; this module is about whether they agree.                       *)
(*                                                                         *)
(* The registry is that of HubPeers.  handlers stands for                  *)
(* hub.channelHandlers: the number of handlers for each channel that has   *)
(* any, since SubscribeWithError makes an entry and its unsubscribe        *)
(* function deletes the entry with the last handler (HubDelivery).         *)
(***************************************************************************)
EXTENDS HubPeers

HandlerCount(handlers, ch) == IF ch \in DOMAIN handlers THEN handlers[ch] ELSE 0

\* len(peers) + len(hub.channelHandlers[channel])
ChannelSubscriberCount(handlers, ch) ==
  Cardinality(Subscribers(ch)) + HandlerCount(handlers, ch)

\* Both loops of Stats: the index first, then the handlers of channels that
\* the index does not have.
SubscriberCount(handlers) ==
  [ch \in (DOMAIN channels \cup DOMAIN handlers) \ {Wildcard} |->
     IF ch \in DOMAIN channels
     THEN Cardinality(channels[ch]) + HandlerCount(handlers, ch)
     ELSE handlers[ch]]

Stats(handlers) ==
  [Peers |-> Cardinality(peers),
   Channels |-> Cardinality(DOMAIN SubscriberCount(handlers)),
   SubscriberCount |-> SubscriberCount(handlers)]

PeerCount == Cardinality(peers)

\* The two loops of ChannelCount add up.
ChannelCount(handlers) ==
  Cardinality({ch \in DOMAIN channels \ {Wildcard} :
                 channels[ch] # {} \/ HandlerCount(handlers, ch) # 0})
  + Cardinality({ch \in DOMAIN handlers \ {Wildcard} :
                   handlers[ch] # 0 /\ Subscribers(ch) = {}})

AllChannels(handlers) ==
  {ch \in DOMAIN channels \ {Wildcard} :
     channels[ch] # {} \/ HandlerCount(handlers, ch) # 0}
  \cup {ch \in DOMAIN handlers \ {Wildcard} : handlers[ch] # 0}

\* "Channels is the number of active named channels with at least one
\* subscriber" (docs/RFC.md:1055), and it is the same number whichever method
\* is asked, at every moment between two sections under hub.mutex, whatever
\* channels have handlers: peers that come and go leave no entry behind that
\* one method counts and another one passes over.
QueriesAgree ==
  \A hs \in SUBSET Channels :
    LET handlers == [ch \in hs |-> 1]
    IN  /\ Stats(handlers).Channels = ChannelCount(handlers)
        /\ Stats(handlers).Channels = Cardinality(AllChannels(handlers))
        /\ \A ch \in DOMAIN Stats(handlers).SubscriberCount :
             /\ ch \in AllChannels(handlers)
             /\ ChannelSubscriberCount(handlers, ch) = Stats(handlers).SubscriberCount[ch]

=============================================================================
