---------------------------- MODULE MCUserListing ----------------------------
(* UserListing of "sort=-username" with three names, one not searched for.  *)
EXTENDS UserListing

MCSort == <<[key |-> "username", sign |-> "-"]>>
=============================================================================
