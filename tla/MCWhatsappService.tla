------------------------- MODULE MCWhatsappService -------------------------
(***************************************************************************)
(* Instances of WhatsappService for TLC.                                   *)
(***************************************************************************)
EXTENDS WhatsappService, TLC

\* Users are interchangeable.
Symmetry == Permutations(Users)
=============================================================================
