---------------------------- MODULE MCCoalesce ----------------------------
(***************************************************************************)
(* Instances of Coalesce for TLC.  Every caller sends the same request, so *)
(* that its identity sees every interleaving of attaching, leaving and     *)
(* ending; runs of different identities share nothing.                     *)
(***************************************************************************)
EXTENDS Coalesce

OneIdentity == [c \in Callers |-> CHOOSE k \in Keys : TRUE]
OneChar     == [e \in Deltas |-> 1]
=============================================================================
