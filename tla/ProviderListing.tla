-------------------------- MODULE ProviderListing ---------------------------
(***************************************************************************)
(* What the provider registry promises to those who use it: a list of      *)
(* backends with distinct instance names, that grows at its end and loses  *)
(* one backend at a time, keeping the order of the others.  The registry   *)
(* of ProviderRegistry.tla is shown to implement this specification, and   *)
(* KeyOrchestrator.tla takes the registry for such a list.                 *)
(***************************************************************************)
EXTENDS ProviderMatching

VARIABLE listing

ListingInit == listing = <<>>

Added(b) ==
    /\ Registered(listing, Desc[b].name) = {}
    /\ listing' = Append(listing, b)

Without(s, i) == [j \in 1..(Len(s) - 1) |-> IF j < i THEN s[j] ELSE s[j + 1]]

Removed(i) == listing' = Without(listing, i)

ListingNext ==
    \/ \E b \in Backends : Added(b)
    \/ \E i \in DOMAIN listing : Removed(i)

ListingSpec == ListingInit /\ [][ListingNext]_listing

=============================================================================
