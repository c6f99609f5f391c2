-------------------------- MODULE ServerConstants --------------------------
(***************************************************************************)
(* What the modules of the state that the server keeps for its users have  *)
(* in common: the users, the one among them who hosts the match, and a     *)
(* value that is none of theirs.                                           *)
(***************************************************************************)
CONSTANTS
  Users,
  Host,
  None

ASSUME ServerAssumption == Host \in Users /\ None \notin Users
=============================================================================
