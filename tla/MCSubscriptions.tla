-------------------------- MODULE MCSubscriptions --------------------------
(***************************************************************************)
(* Small instances of the profile store and the subscriptions for TLC.     *)
(***************************************************************************)
EXTENDS SubscriptionsProps

CONSTANTS u1, u2, c1, c2

MCUrls == {u1, u2}
OneClient == {c1}
TwoClients == {c1, c2}
ByHand == {-1}
=============================================================================
