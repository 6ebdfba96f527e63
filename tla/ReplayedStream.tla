--------------------------- MODULE ReplayedStream ---------------------------
(***************************************************************************)
(* What request coalescing promises its callers, with none of its          *)
(* machinery: each run is a log of stream events that closes with its      *)
(* terminal event, and a caller that opened a run reads that log from the  *)
(* first event on, one event at a time, whenever it opened it.             *)
(***************************************************************************)
EXTENDS Naturals, Sequences

CONSTANTS Callers, Deltas, Completed, Failed, None

VARIABLES
  log,     \* the events of each run so far
  source,  \* the run each caller reads, or None
  got      \* the events each caller has been given

vars == <<log, source, got>>

Terminals == {Completed, Failed}

Closed(r) == log[r] # <<>> /\ log[r][Len(log[r])] \in Terminals

Init ==
  /\ log = [r \in Callers |-> <<>>]
  /\ source = [c \in Callers |-> None]
  /\ got = [c \in Callers |-> <<>>]

\* A caller opens a run that is still open: its own, or one in flight.
Open(c, r) ==
  /\ source[c] = None
  /\ ~Closed(r)
  /\ source' = [source EXCEPT ![c] = r]
  /\ UNCHANGED <<log, got>>

\* A run produces its next event; nothing follows a terminal event.
Emit(r, e) ==
  /\ ~Closed(r)
  /\ log' = [log EXCEPT ![r] = Append(@, e)]
  /\ UNCHANGED <<source, got>>

\* A caller is given the event that follows the ones it has.
Take(c) ==
  /\ source[c] # None
  /\ Len(got[c]) < Len(log[source[c]])
  /\ got' = [got EXCEPT ![c] = Append(@, log[source[c]][Len(@) + 1])]
  /\ UNCHANGED <<log, source>>

Next ==
  \/ \E c, r \in Callers : Open(c, r)
  \/ \E r \in Callers, e \in Deltas \union Terminals : Emit(r, e)
  \/ \E c \in Callers : Take(c)

Spec == Init /\ [][Next]_vars
=============================================================================
