-------------------------- MODULE MCRunEnsemble --------------------------
(***************************************************************************)
(* Instances of RunEnsemble for TLC: the plans a run may have been given.  *)
(***************************************************************************)
EXTENDS RunEnsemble

Base == [skip |-> FALSE, detach |-> FALSE, cache |-> FALSE, tools |-> FALSE,
         deadline |-> FALSE, quorum |-> 1, width |-> 2, backstops |-> {1}]

\* With and without detaching, with a deadline, with two seats short of slots.
Panels ==
  {[Base EXCEPT !.detach = d, !.cache = d, !.deadline = TRUE, !.tools = TRUE,
                !.quorum = q] : d \in BOOLEAN, q \in {0, 2}}

\* A passthrough turn, caching or not.
Passthroughs == {[Base EXCEPT !.skip = TRUE, !.detach = TRUE, !.cache = c] : c \in BOOLEAN}

AllPlans == Panels \union Passthroughs

\* A panel that is not detached when the client leaves.
SlowPanels == {Base}
=============================================================================
