------------------------------ MODULE MCInvites ------------------------------
(* Model values and bounds for checking Invites with TLC.                  *)
EXTENDS Invites, TLC

CONSTANTS adm, usr

MCAdmins == {adm}
MCUsers == {adm, usr}
MCTTLs == {-1, 0, 1}

Symmetry == Permutations(Handlers) \cup Permutations(Ids) \cup Permutations(Emails)
=============================================================================
