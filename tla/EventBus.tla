----------------------------- MODULE EventBus -----------------------------
(***************************************************************************)
(* The progress feed of a process: InMemoryEventBus inside RunIndexBus     *)
(* (adapters/eventbus.py), as build_bus puts them together.                *)
(*                                                                         *)
(* An event is its position in what was ever published under its request   *)
(* id; `log` keeps the kinds.  Time is the age of a channel and of an      *)
(* index entry since its last activity, counted in ticks up to Ttl, where  *)
(* both expire.  Nothing ticks them away: they are swept by whatever       *)
(* touches the bus next.                                                   *)
(*                                                                         *)
(* A reader runs the generator of `subscribe`.  The pump of the endpoint   *)
(* (api/routers/progress.py) never suspends between two events that are    *)
(* there, so it holds the loop until its replay is over; another consumer, *)
(* a Staller, may suspend after any event.                                 *)
(***************************************************************************)
EXTENDS Naturals, Sequences, FiniteSets

CONSTANTS
  Requests,    \* request ids
  Readers,     \* subscriptions
  Vocabulary,  \* the kinds of events the runs publish
  Ttl,         \* ttl_seconds of both, in ticks
  MaxRuns,     \* max_runs of the index
  Stallers,    \* those whose consumer may suspend in the middle of the replay
  MaxTries,    \* bound: runs under one request id
  MaxEvents    \* bound: events in all

Finals == {"completed", "failed"}
Kinds  == {"fanout_started", "member_completed", "synthesis_started"} \union Finals

ASSUME BusAssumption ==
  /\ Vocabulary \subseteq Kinds
  /\ Ttl \in Nat \ {0}
  /\ MaxRuns \in Nat /\ MaxTries \in Nat /\ MaxEvents \in Nat
  /\ Stallers \subseteq Readers

VARIABLES
  log,       \* the kinds published under an id so far
  channels,  \* _channels
  at,        \* where the generator of a reader stands
  of,        \* the id it subscribed to
  replay,    \* what is left of its `replay`
  queue,     \* its queue; 0 is the sentinel
  closed,    \* the `closed` flag of the channel it holds
  got,       \* what it has yielded
  runs,      \* _runs
  down       \* has the bus been closed

readerVars == <<at, of, replay, queue, closed, got>>
vars == <<log, channels, at, of, replay, queue, closed, got, runs, down>>

Channels == [history : Seq(Nat \ {0}), subscribers : SUBSET Readers, closed : BOOLEAN, idle : 0 .. Ttl]
States   == {"running", "synthesizing"} \union Finals
Entries  == [state : States, idle : 0 .. Ttl]
Reading  == {"replaying", "live"}

TypeOK ==
  /\ log \in [Requests -> Seq(Vocabulary)]
  /\ DOMAIN channels \subseteq Requests
  /\ \A q \in DOMAIN channels : channels[q] \in Channels
  /\ at \in [Readers -> Reading \union {"away", "ended", "over", "shut", "cut", "left"}]
  /\ of \in [Readers -> Requests]
  /\ replay \in [Readers -> Seq(Nat \ {0})] /\ got \in [Readers -> Seq(Nat \ {0})]
  /\ queue \in [Readers -> Seq(Nat)]
  /\ closed \in [Readers -> BOOLEAN]
  /\ DOMAIN runs \subseteq Requests
  /\ \A q \in DOMAIN runs : runs[q] \in Entries
  /\ down \in BOOLEAN

Empty == [q \in {} |-> 0]

Init ==
  /\ log = [q \in Requests |-> <<>>]
  /\ channels = Empty /\ runs = Empty
  /\ at = [r \in Readers |-> "away"]
  /\ of \in [Readers -> Requests]
  /\ replay = [r \in Readers |-> <<>>] /\ queue = [r \in Readers |-> <<>>]
  /\ got = [r \in Readers |-> <<>>]
  /\ closed = [r \in Readers |-> FALSE]
  /\ down = FALSE

-----------------------------------------------------------------------------
(* InMemoryEventBus                                                        *)

\* Whoever holds the loop, and whether r may have it.
Pumps   == Readers \ Stallers
Holding == {r \in Pumps : at[r] = "replaying"}
Free    == Holding = {}
Mine(r) == Holding \subseteq {r}

\* Mutant of Touched: the sweep comes first, as it once did.
TouchedLate(q) ==
  [p \in DOMAIN channels \union {q} |->
     IF p # q THEN channels[p]
     ELSE IF q \in DOMAIN channels /\ channels[q].idle < Ttl THEN [channels[q] EXCEPT !.idle = 0]
     ELSE [history |-> <<>>, subscribers |-> {}, closed |-> FALSE, idle |-> 0]]

\* _touch: the channel of the id, made if need be, and young again.
Touched(q) ==
  [p \in DOMAIN channels \union {q} |->
     IF p # q THEN channels[p]
     ELSE IF q \in DOMAIN channels THEN [channels[q] EXCEPT !.idle = 0]
     ELSE [history |-> <<>>, subscribers |-> {}, closed |-> FALSE, idle |-> 0]]

\* _evict_expired drops the expired channels ...
Expired(chs) == {p \in DOMAIN chs : chs[p].idle = Ttl}
Kept(chs)    == [p \in DOMAIN chs \ Expired(chs) |-> chs[p]]
\* Mutant of Dropped: the subscribers are not told.
DroppedSilently(chs) == {}

\* ... and their subscribers get the sentinel.
Dropped(chs) == UNION {chs[p].subscribers : p \in Expired(chs)}

\* Mutant of Deliver: the final event closes the channel and is not sent.
DeliverUnsaid(q, n, final) ==
  LET chs  == Touched(q)
      kept == Kept(chs)
      subs == chs[q].subscribers
  IN  /\ channels' = [kept EXCEPT ![q].history = Append(@, n), ![q].closed = @ \/ final]
      /\ queue' = [r \in Readers |-> IF r \in subs /\ ~final THEN Append(queue[r], n)
                                     ELSE IF r \in Dropped(chs) THEN Append(queue[r], 0)
                                     ELSE queue[r]]
      /\ closed' = [r \in Readers |-> closed[r] \/ (r \in subs /\ final)]

\* publish, under its channel's id: touch, sweep the others, keep and send.
Deliver(q, n, final) ==
  LET chs  == Touched(q)
      kept == Kept(chs)
      subs == chs[q].subscribers
  IN  /\ channels' = [kept EXCEPT ![q].history = Append(@, n), ![q].closed = @ \/ final]
      /\ queue' = [r \in Readers |-> IF r \in subs THEN Append(queue[r], n)
                                     ELSE IF r \in Dropped(chs) THEN Append(queue[r], 0)
                                     ELSE queue[r]]
      /\ closed' = [r \in Readers |-> closed[r] \/ (r \in subs /\ final)]

\* Mutant of Subscribe: a closed channel is not replayed.
SubscribeClosed(r) ==
  LET q   == of[r]
      chs == Touched(q)
  IN  /\ Free /\ ~down /\ at[r] = "away"
      /\ channels' = [Kept(chs) EXCEPT ![q].subscribers = @ \union {r}]
      /\ queue' = [s \in Readers |-> IF s \in Dropped(chs) THEN Append(queue[s], 0) ELSE queue[s]]
      /\ at' = [at EXCEPT ![r] = "replaying"]
      /\ replay' = [replay EXCEPT ![r] = IF chs[q].closed THEN <<>> ELSE chs[q].history]
      /\ closed' = [closed EXCEPT ![r] = chs[q].closed]
      /\ UNCHANGED <<log, of, got, runs, down>>

\* The first pull of `subscribe`: registering and the snapshot are one step.
Subscribe(r) ==
  LET q   == of[r]
      chs == Touched(q)
  IN  /\ Free /\ ~down /\ at[r] = "away"
      /\ channels' = [Kept(chs) EXCEPT ![q].subscribers = @ \union {r}]
      /\ queue' = [s \in Readers |-> IF s \in Dropped(chs) THEN Append(queue[s], 0) ELSE queue[s]]
      /\ at' = [at EXCEPT ![r] = "replaying"]
      /\ replay' = [replay EXCEPT ![r] = chs[q].history]
      /\ closed' = [closed EXCEPT ![r] = chs[q].closed]
      /\ UNCHANGED <<log, of, got, runs, down>>

\* The `finally` of subscribe; a channel that was evicted has forgotten r.
Exit(r, how) ==
  /\ at' = [at EXCEPT ![r] = how]
  /\ channels' = [q \in DOMAIN channels |-> [channels[q] EXCEPT !.subscribers = @ \ {r}]]
  /\ replay' = [replay EXCEPT ![r] = <<>>] /\ queue' = [queue EXCEPT ![r] = <<>>]
  /\ UNCHANGED <<log, of, closed, got, runs, down>>

IsFinal(q, n) == log[q][n] \in Finals

Yield(r, n) ==
  /\ got' = [got EXCEPT ![r] = Append(@, n)]
  /\ at' = [at EXCEPT ![r] = IF IsFinal(of[r], n) THEN "ended" ELSE @]

Replay(r) ==
  /\ Mine(r) /\ at[r] = "replaying" /\ replay[r] # <<>>
  /\ Yield(r, Head(replay[r]))
  /\ replay' = [replay EXCEPT ![r] = Tail(@)]
  /\ UNCHANGED <<log, channels, of, queue, closed, runs, down>>

\* `if channel.closed: return`, and otherwise the reader goes live.
ReplayOver(r) ==
  /\ Mine(r) /\ at[r] = "replaying" /\ replay[r] = <<>>
  /\ \/ closed[r] /\ Exit(r, "shut")
     \/ /\ ~closed[r]
        /\ at' = [at EXCEPT ![r] = "live"]
        /\ UNCHANGED <<log, channels, of, replay, queue, closed, got, runs, down>>

Get(r) ==
  /\ Free /\ at[r] = "live" /\ queue[r] # <<>>
  /\ \/ Head(queue[r]) = 0 /\ Exit(r, "cut")
     \/ /\ Head(queue[r]) # 0
        /\ Yield(r, Head(queue[r]))
        /\ queue' = [queue EXCEPT ![r] = Tail(@)]
        /\ UNCHANGED <<log, channels, of, replay, closed, runs, down>>

\* The generator is closed after the last event it yields, ...
Finish(r) == Free /\ at[r] = "ended" /\ Exit(r, "over")

\* ... or cancelled, because whoever watches has gone.
Leave(r) == Free /\ at[r] \in Reading /\ Exit(r, "left")

-----------------------------------------------------------------------------
(* RunIndexBus                                                             *)

Over(entry) == entry.state \in Finals

\* _RunState.apply
Fold(state, kind) ==
  IF kind = "synthesis_started" THEN "synthesizing"
  ELSE IF kind \in Finals THEN kind ELSE state

Observed(q, kind) ==
  LET state == IF q \in DOMAIN runs THEN runs[q].state ELSE "running"
  IN  [p \in DOMAIN runs \union {q} |->
         IF p = q THEN [state |-> Fold(state, kind), idle |-> 0] ELSE runs[p]]

\* Mutant of Evicted: over the limit, the oldest go whatever they do.
EvictedOldest(rs) ==
  LET fresh  == {p \in DOMAIN rs : ~(Over(rs[p]) /\ rs[p].idle = Ttl)}
      excess == IF Cardinality(fresh) > MaxRuns THEN Cardinality(fresh) - MaxRuns ELSE 0
      Due(V) == /\ Cardinality(V) = excess
                /\ \A v \in V, p \in fresh \ V : rs[v].idle >= rs[p].idle
  IN  {[p \in fresh \ V |-> rs[p]] : V \in {W \in SUBSET fresh : Due(W)}}

\* _evict: what is over and past its time goes, and then the oldest of what is
\* over, as far as the limit asks for.  Entries of one tick go in any order.
Evicted(rs) ==
  LET fresh  == {p \in DOMAIN rs : ~(Over(rs[p]) /\ rs[p].idle = Ttl)}
      over   == {p \in fresh : Over(rs[p])}
      excess == IF Cardinality(fresh) > MaxRuns THEN Cardinality(fresh) - MaxRuns ELSE 0
      Due(V) == /\ Cardinality(V) = excess \/ (V = over /\ Cardinality(V) < excess)
                /\ \A v \in V, p \in over \ V : rs[v].idle >= rs[p].idle
  IN  {[p \in fresh \ V |-> rs[p]] : V \in {W \in SUBSET over : Due(W)}}

\* What a run may publish next: its milestones in order, one final one.  The id
\* is the client's, which may use it for another run once that one is over.
Last(q)    == IF log[q] = <<>> THEN "none" ELSE log[q][Len(log[q])]
InFlight(q) == Last(q) \notin Finals \union {"none"}
Tries(q)   == Cardinality({n \in 1 .. Len(log[q]) : log[q][n] \in Finals})
Published  == Cardinality(UNION {{q} \X DOMAIN log[q] : q \in Requests})

Follows(kind) ==
  CASE kind \in {"fanout_started", "member_completed"} -> Kinds \ {"fanout_started"}
    [] kind = "synthesis_started" -> Finals
    [] OTHER -> {"fanout_started"}

Publish(q, kind) ==
  /\ Free
  /\ Published < MaxEvents /\ Tries(q) < MaxTries
  /\ kind \in Follows(Last(q)) \intersect Vocabulary
  /\ log' = [log EXCEPT ![q] = Append(@, kind)]
  /\ runs' \in Evicted(Observed(q, kind))
  /\ Deliver(q, Len(log[q]) + 1, kind \in Finals)
  /\ UNCHANGED <<at, of, replay, got, down>>

Snapshot ==
  /\ Free
  /\ runs' \in Evicted(runs)
  /\ UNCHANGED <<log, channels, readerVars, down>>

\* aclose of both; runs that are still working may publish afterwards.
Close ==
  /\ Free /\ ~down
  /\ down' = TRUE
  /\ runs' = Empty /\ channels' = Empty
  /\ queue' = [r \in Readers |->
                 IF \E q \in DOMAIN channels : r \in channels[q].subscribers
                 THEN Append(queue[r], 0) ELSE queue[r]]
  /\ UNCHANGED <<log, at, of, replay, closed, got>>

Older(n) == IF n < Ttl THEN n + 1 ELSE Ttl

Tick ==
  /\ Free
  /\ channels' = [q \in DOMAIN channels |-> [channels[q] EXCEPT !.idle = Older(@)]]
  /\ runs' = [q \in DOMAIN runs |-> [runs[q] EXCEPT !.idle = Older(@)]]
  /\ UNCHANGED <<log, readerVars, down>>

ReaderStep(r) == Replay(r) \/ ReplayOver(r) \/ Get(r) \/ Finish(r)

Next ==
  \/ \E q \in Requests, kind \in Vocabulary : Publish(q, kind)
  \/ \E r \in Readers : Subscribe(r) \/ ReaderStep(r) \/ Leave(r)
  \/ Snapshot \/ Close \/ Tick

Spec     == Init /\ [][Next]_vars
FairSpec == Spec /\ \A r \in Readers : WF_vars(ReaderStep(r))

-----------------------------------------------------------------------------
(* Properties                                                              *)

Succeeds(s) == \A i \in 1 .. Len(s) - 1 : s[i + 1] = s[i] + 1
Whole(r)    == got[r] \o replay[r] \o queue[r]

\* The comment in subscribe: registering and the snapshot are one step, so that
\* nothing is missed and nothing is replayed twice; and nothing is put into a
\* queue after its sentinel.
NoGap ==
  \A r \in Readers :
    \A i \in 1 .. Len(Whole(r)) - 1 :
      Whole(r)[i] # 0 /\ Whole(r)[i + 1] \in {Whole(r)[i] + 1, 0}

\* The port's promise, kept to the endpoint: a stream that was not cut off
\* completes with the final event of a run as the last it yields.
SeesTheEnd ==
  \A r \in Pumps :
    at[r] \in {"ended", "over", "shut"} =>
      got[r] # <<>> /\ IsFinal(of[r], got[r][Len(got[r])])

\* A reader is told what its channel has, in order, once and to the end.
Faithful == NoGap /\ SeesTheEnd

\* Nobody waits on a queue that nothing puts into any more: a reader is
\* registered with the channel publishers of its id use, or has its sentinel.
NeverDeaf ==
  \A r \in Readers :
    at[r] \in Reading =>
      \/ of[r] \in DOMAIN channels /\ r \in channels[of[r]].subscribers
      \/ \E i \in DOMAIN queue[r] : queue[r][i] = 0

\* Each reader is served to the end or let go.
ReadersServed == Faithful /\ NeverDeaf

\* What the two regression tests of the sweep ask for: the history of a run is
\* lost only by closing the bus, or when it has been silent for its whole time
\* to live and something touches another channel.
TouchedOnly(p) == p \in DOMAIN channels' /\ channels'[p].idle = 0
Retained(q) ==
  /\ q \in DOMAIN channels'
  /\ Len(channels[q].history) <= Len(channels'[q].history)
  /\ \A n \in DOMAIN channels[q].history : channels'[q].history[n] = channels[q].history[n]
HistoryKept ==
  [][\A q \in DOMAIN channels :
       \/ Retained(q)
       \/ down' # down
       \/ channels[q].idle = Ttl /\ \E p \in Requests \ {q} : TouchedOnly(p)]_vars

\* The index lists every run in flight as such, and exceeds its limit only by
\* runs in flight.
FirstRun(q) == Tries(q) = 0
RunsListed ==
  ~down =>
    /\ \A q \in Requests :
         InFlight(q) /\ FirstRun(q) => q \in DOMAIN runs /\ ~Over(runs[q])
    /\ Cardinality(DOMAIN runs) > MaxRuns => \A q \in DOMAIN runs : ~Over(runs[q])

\* A watcher that is registered when its run ends is released.
WatcherReleased ==
  \A r \in Readers : (at[r] \in Reading /\ closed[r]) ~> at[r] \notin Reading
-----------------------------------------------------------------------------
(* The inductive invariant behind the safety properties                    *)

\* Where a reader stands, and what it may still hold; it has heard of no event
\* that was not published.
Standing ==
  \A r \in Readers :
    /\ at[r] = "away" => got[r] = <<>> /\ replay[r] = <<>> /\ queue[r] = <<>>
    /\ at[r] = "live" => replay[r] = <<>>
    /\ \A i \in 1 .. Len(Whole(r)) : Whole(r)[i] <= Len(log[of[r]])

\* A channel holds events of its own id, the newest included, without a gap; one
\* that is closed holds a final event.
Histories ==
  \A q \in DOMAIN channels :
    LET h == channels[q].history
    IN  /\ Succeeds(h)
        /\ h # <<>> => h[Len(h)] = Len(log[q])
        /\ \A i \in 1 .. Len(h) : h[i] <= Len(log[q])
        /\ channels[q].closed => \E i \in 1 .. Len(h) : IsFinal(q, h[i])

\* A channel's subscribers are readers of its id that have not left it, and what
\* they have, if anything, goes up to the newest event.
Subscribed ==
  \A q \in DOMAIN channels : \A r \in channels[q].subscribers :
    /\ of[r] = q
    /\ at[r] \in Reading \union {"ended"}
    /\ Whole(r) # <<>> => Whole(r)[Len(Whole(r))] = Len(log[q]) /\ log[q] # <<>>

\* A pump that has joined a closed channel has a final event yet to yield.
EndAhead ==
  \A r \in Pumps :
    at[r] = "replaying" /\ closed[r] =>
      \E i \in 1 .. Len(replay[r]) : IsFinal(of[r], replay[r][i])

\* The index is finite, and calls over only a run that is.
Indexed ==
  /\ IsFiniteSet(DOMAIN runs)
  /\ \A q \in DOMAIN runs : Over(runs[q]) => ~FirstRun(q)

IInv ==
  /\ TypeOK
  /\ Standing
  /\ Histories
  /\ Subscribed
  /\ EndAhead
  /\ Indexed
  /\ ReadersServed
  /\ RunsListed
=============================================================================
