----------------------------- MODULE RunPromise -----------------------------
(***************************************************************************)
(* What a run of the pipeline promises those who depend on it, with none   *)
(* of its tasks, queues and generators: the client, which is told once how *)
(* the run ended; the watchers of its feed, who are shown it once; and the *)
(* ledger, in which each call of a member is booked once, or given up.     *)
(***************************************************************************)
CONSTANTS
  Members,      \* the seats of the panel
  Terms,        \* the terms a run may be given
  SharedCalls   \* may a call end because another request was cancelled

VARIABLES
  terms,   \* does it ask the panel, does it keep calls; which answers are a quorum
  stage,   \* "new", "on" or "over"
  call,    \* what became of each member's call
  told,    \* the end the client was told
  shown    \* the end the watchers were shown

vars == <<terms, stage, call, told, shown>>

Booked == {m \in Members : call[m] = "booked"}
Enough == terms.asks => Booked \in terms.quorums

Init ==
  /\ terms \in Terms
  /\ stage = "new" /\ call = [m \in Members |-> "none"]
  /\ told = "none" /\ shown = "open"

\* The run begins, or is never pulled.
Begin ==
  /\ stage = "new" /\ stage' \in {"on", "over"}
  /\ UNCHANGED <<terms, call, told, shown>>

-----------------------------------------------------------------------------
(* The calls                                                               *)

\* All members are asked, once.
Ask ==
  /\ stage = "on" /\ terms.asks
  /\ \A m \in Members : call[m] = "none"
  /\ call' = [m \in Members |-> "out"]

Return(m) ==
  /\ call[m] = "out"
  /\ call' = [call EXCEPT ![m] = "answered"]

\* The one call that is coalesced with another request's ends with that one.
Lose(m) ==
  /\ SharedCalls
  /\ call[m] = "out"
  /\ call' = [call EXCEPT ![m] = "lost"]

\* After the run only what was kept is booked.
Book(m) ==
  /\ call[m] = "answered"
  /\ stage = "over" => terms.keeps
  /\ call' = [call EXCEPT ![m] = "booked"]

Calls ==
  /\ Ask \/ \E m \in Members : Return(m) \/ Lose(m) \/ Book(m)
  /\ UNCHANGED <<terms, stage, told, shown>>

\* Whoever does not keep calls cancels all that are out.
Recall ==
  /\ ~terms.keeps
  /\ call' = [m \in Members |-> IF call[m] = "out" THEN "lost" ELSE call[m]]

-----------------------------------------------------------------------------
(* The end                                                                 *)

\* The client is told what the watchers are shown, at once.
Fail ==
  /\ stage = "on" /\ told = "none" /\ shown = "open"
  /\ told' = "failed" /\ shown' = "failed"
  /\ UNCHANGED stage

Succeed ==
  /\ stage = "on" /\ told = "none" /\ shown = "open"
  /\ Enough
  /\ told' = "completed" /\ shown' = "completed"
  /\ UNCHANGED stage

\* A tool call the members agreed on is told first, and shown later.
Vote ==
  /\ stage = "on" /\ terms.asks /\ told = "none" /\ shown = "open"
  /\ Enough
  /\ told' = "completed"
  /\ UNCHANGED <<stage, shown>>

\* No run is over before its watchers were shown an end; one that is left
\* before it had one is shown as failed.
End ==
  /\ stage = "on" /\ stage' = "over"
  /\ \/ shown # "open" /\ UNCHANGED shown
     \/ shown = "open" /\ told = "completed" /\ shown' = "completed"
     \/ shown = "open" /\ told # "failed" /\ shown' = "failed"
  /\ UNCHANGED told

Ends ==
  /\ Fail \/ Succeed \/ Vote \/ End \/ UNCHANGED <<stage, told, shown>>
  /\ Recall \/ UNCHANGED call
  /\ UNCHANGED terms

Next == Begin \/ Calls \/ Ends

Spec == Init /\ [][Next]_vars
=============================================================================
