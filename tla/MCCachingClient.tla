------------------------- MODULE MCCachingClient -------------------------
(***************************************************************************)
(* An instance of CachingClient for TLC: all callers but one share a key.  *)
(***************************************************************************)
EXTENDS CachingClient

OneOdd ==
  LET odd == CHOOSE c \in Callers : TRUE
      k   == CHOOSE k \in Keys : TRUE
  IN  [c \in Callers |-> IF c = odd THEN k ELSE CHOOSE l \in Keys \ {k} : TRUE]
=============================================================================
