----------------------------- MODULE MCHubPeers -----------------------------
(* Instances of HubPeers for TLC.                                           *)
EXTENDS HubPeersRefinement, HubQueries, TLC

CONSTANTS p1, p2, named, star

MCChannels == {named, star}

\* The authoriser lets p1 alone subscribe to the named channel: p2 can only
\* use the wildcard, which the authoriser is never asked about.
MCAuthorised == {<<p1, named>>}

MCSymmetry == Permutations(Callers)
=============================================================================
