---------------------------- MODULE MCUserAccounts ----------------------------
(* UserAccounts with two addresses, one of them in two spellings, and two   *)
(* roles.                                                                   *)
EXTENDS UserAccounts, TLC

MCSpellings == {"a@x", "A@x", "b@x"}
MCLower     == ("A@x" :> "a@x") @@ [s \in MCSpellings |-> s]
MCRoleNames == {"USER", "ADMIN"}
MCUpper     == [r \in MCRoleNames |-> r]

\* Asked for are the default role, no role, or another one; a number or an id
\* comes with the default.
MCCreations == {b \in CreateBody :
  b.roles = None \/ (b.id = None /\ b.waId = None /\ b.roles \in {{}, {"ADMIN"}})}

Symmetry == Permutations(Requests)
=============================================================================
