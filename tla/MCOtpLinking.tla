----------------------------- MODULE MCOtpLinking -----------------------------
(* OtpLinking with symmetric users, numbers, codes, handlers and requests.  *)
EXTENDS OtpLinking, TLC

Symmetry == Permutations(Users) \cup Permutations(Numbers) \cup Permutations(Codes)
            \cup Permutations(Handlers) \cup Permutations(Requests)
=============================================================================
