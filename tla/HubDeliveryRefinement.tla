----------------------- MODULE HubDeliveryRefinement -----------------------
(***************************************************************************)
(* HubDelivery implements DeliveryService: the two queues, the goroutines  *)
(* of a full one, the copies of the handler maps and the restarts do no    *)
(* more than the abstract service allows.  HubDeliveryProofs proves it.    *)
(***************************************************************************)
EXTENDS HubDelivery

\* A frame was taken in promptly if its queue had room for it; the loop and the
\* callers owe theirs to the peers they have not come to yet; and a peer got
\* what its send queue took.
Calling == [c \in Callers |-> offer[c].then]
Taken(i) == [caller |-> call[i.frame].caller, message |-> i,
             prompt |-> call[i.frame].fate = "queued"]
TakenIn == {Taken(i) : i \in Waiting}
Owed == UNION {{<<w.frame, p>> : p \in w.peers} : w \in {work} \cup {offer[c] : c \in Callers}}
Gotten == [p \in Peers |-> received[p] \o inbox[p]]

Service == INSTANCE DeliveryService WITH
  open <- running,
  halting <- draining,
  stopped <- done,
  calling <- Calling,
  waiting <- TakenIn,
  current <- work.frame,
  audience <- Members(work.groups),
  owed <- Owed,
  got <- Gotten

\* However frames travel, callers, handlers and peers see the service of
\* DeliveryService: a frame that the hub took in has one turn, in which the
\* handlers subscribed at its beginning are called once each, frames of one
\* sender have their turns in order unless a queue was full, no turn is cut
\* short, and what is given up is given up after a shutdown, by a goroutine.
ImplementsService == Service!Spec

=============================================================================
