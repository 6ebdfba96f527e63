------------------------------ MODULE Coalesce ------------------------------
(***************************************************************************)
(* CoalesceRegistry (engine/coalesce.py): identical concurrent requests    *)
(* share one run of the pipeline.                                          *)
(*                                                                         *)
(* A caller is one request.  The caller that finds nothing in flight for   *)
(* its identity leads a run, and the run is known by the leader's request  *)
(* id, so a run is named here by the caller that leads it.  A detached     *)
(* task per run (`_drive`) appends the generator's events to the run's     *)
(* history and to every subscriber's queue; every caller, the leader       *)
(* included, is a subscriber that folds a replay and then its queue.       *)
(*                                                                         *)
(* asyncio runs one callback at a time, so an action is the code between   *)
(* two suspension points.  Closing the generator is part of the step that  *)
(* ends the run: the `finally` of run_ensemble awaits nothing, so the      *)
(* `await aclose()` of `_drive` never gives the loop back.                 *)
(***************************************************************************)
EXTENDS Naturals, Sequences

CONSTANTS
  Callers,     \* the requests; also the names of the runs they may lead
  Keys,        \* request identities (domain/requestkey.py)
  Identity,    \* the identity of each caller's request
  Deltas,      \* the non-terminal stream events
  Chars,       \* the buffered characters of each of them
  Completed,   \* the terminal success event
  Failed,      \* the terminal PipelineFailed event
  MaxBuffer,   \* max_buffer_chars
  MaxEvents,   \* bound: non-terminal events one run produces
  None         \* no run

ASSUME CoalesceAssumption ==
  /\ None \notin Callers
  /\ Identity \in [Callers -> Keys]
  /\ Chars \in [Deltas -> Nat]
  /\ Completed \notin Deltas
  /\ Failed \notin Deltas
  /\ MaxBuffer \in Nat
  /\ MaxEvents \in Nat

VARIABLES
  runs,         \* _runs: the run offered to new attachers of each identity
  stage,        \* the leader task of each run
  history,      \* _Run.history
  terminal,     \* _Run.terminal
  buffered,     \* _Run.buffered_chars
  subscribers,  \* _Run.subscribers, as the callers that own the queues
  grace,        \* is the orphan timer of the run armed (_Run.grace_handle)
  client,       \* what each caller is doing with its event iterator
  leader,       \* the run each caller attached to
  inbox,        \* the replay still to be yielded, then the queue
  sentinel,     \* has None been put at the end of the queue
  seen          \* the events the caller has been given

runVars    == <<runs, stage, history, terminal, buffered, subscribers, grace>>
callerVars == <<client, leader, inbox, sentinel, seen>>
vars       == <<runs, stage, history, terminal, buffered, subscribers, grace,
                client, leader, inbox, sentinel, seen>>

Terminals == {Completed, Failed}
Events    == Deltas \union Terminals

Stages  == {"none", "driving", "cancelling", "ended"}
Clients == {"idle",      \* has not called attach
            "attached",  \* holds the iterator, has not pulled it yet
            "reading",   \* the iterator is running
            "answered",  \* was given a terminal event
            "cut",       \* the stream ended on the sentinel, with no terminal
            "left"}      \* went away first

TypeOK ==
  /\ runs \in [Keys -> Callers \union {None}]
  /\ stage \in [Callers -> Stages]
  /\ history \in [Callers -> Seq(Events)]
  /\ terminal \in [Callers -> BOOLEAN]
  /\ buffered \in [Callers -> Nat]
  /\ subscribers \in [Callers -> SUBSET Callers]
  /\ grace \in [Callers -> BOOLEAN]
  /\ client \in [Callers -> Clients]
  /\ leader \in [Callers -> Callers \union {None}]
  /\ inbox \in [Callers -> Seq(Events)]
  /\ sentinel \in [Callers -> BOOLEAN]
  /\ seen \in [Callers -> Seq(Events)]

Init ==
  /\ runs = [k \in Keys |-> None]
  /\ stage = [r \in Callers |-> "none"]
  /\ history = [r \in Callers |-> <<>>]
  /\ terminal = [r \in Callers |-> FALSE]
  /\ buffered = [r \in Callers |-> 0]
  /\ subscribers = [r \in Callers |-> {}]
  /\ grace = [r \in Callers |-> FALSE]
  /\ client = [c \in Callers |-> "idle"]
  /\ leader = [c \in Callers |-> None]
  /\ inbox = [c \in Callers |-> <<>>]
  /\ sentinel = [c \in Callers |-> FALSE]
  /\ seen = [c \in Callers |-> <<>>]

-----------------------------------------------------------------------------
(* attach and the caller's side                                            *)

\* attach finds a run it may join.
Joinable(k) ==
  /\ runs[k] # None
  /\ ~terminal[runs[k]]

\* Mutant of Subscribe: the queue is registered, the history is not replayed.
SubscribeNoReplay(c, r) ==
  /\ client' = [client EXCEPT ![c] = "attached"]
  /\ leader' = [leader EXCEPT ![c] = r]
  /\ subscribers' = [subscribers EXCEPT ![r] = @ \union {c}]
  /\ grace' = [grace EXCEPT ![r] = FALSE]
  /\ UNCHANGED <<history, terminal, buffered, inbox, sentinel, seen>>

\* _subscribe: disarm the orphan timer, register the queue and snapshot the
\* history, with no suspension in between.
Subscribe(c, r) ==
  /\ client' = [client EXCEPT ![c] = "attached"]
  /\ leader' = [leader EXCEPT ![c] = r]
  /\ subscribers' = [subscribers EXCEPT ![r] = @ \union {c}]
  /\ inbox' = [inbox EXCEPT ![c] = history[r]]
  /\ grace' = [grace EXCEPT ![r] = FALSE]
  /\ UNCHANGED <<history, terminal, buffered, sentinel, seen>>

\* attach, coalescing onto the run in flight.
Join(c) ==
  /\ client[c] = "idle"
  /\ Joinable(Identity[c])
  /\ Subscribe(c, runs[Identity[c]])
  /\ UNCHANGED <<runs, stage>>

\* attach, starting a fresh run.
Lead(c) ==
  /\ client[c] = "idle"
  /\ ~Joinable(Identity[c])
  /\ runs' = [runs EXCEPT ![Identity[c]] = c]
  /\ stage' = [stage EXCEPT ![c] = "driving"]
  /\ Subscribe(c, c)

\* The first pull of the iterator: only from here on does its `finally` run.
Start(c) ==
  /\ client[c] = "attached"
  /\ client' = [client EXCEPT ![c] = "reading"]
  /\ UNCHANGED <<runVars, leader, inbox, sentinel, seen>>

\* Mutant of Detach: the queue is given back and no timer is armed.
DetachUntimed(c) ==
  /\ subscribers' = [subscribers EXCEPT ![leader[c]] = @ \ {c}]
  /\ UNCHANGED <<runs, stage, history, terminal, buffered, grace, leader, sentinel>>

\* The `finally` of _events: give the queue back, and arm the orphan timer
\* when it was the last one of an unfinished run.
Detach(c) ==
  LET r    == leader[c]
      rest == subscribers[r] \ {c}
  IN  /\ subscribers' = [subscribers EXCEPT ![r] = rest]
      /\ grace' = [grace EXCEPT ![r] = @ \/ (rest = {} /\ ~terminal[r])]
      /\ UNCHANGED <<runs, stage, history, terminal, buffered, leader, sentinel>>

\* _events yields the next replayed or queued event.
Receive(c) ==
  /\ client[c] = "reading"
  /\ inbox[c] # <<>>
  /\ seen' = [seen EXCEPT ![c] = Append(@, Head(inbox[c]))]
  /\ inbox' = [inbox EXCEPT ![c] = Tail(@)]
  /\ \/ /\ Head(inbox[c]) \in Terminals
        /\ client' = [client EXCEPT ![c] = "answered"]
        /\ Detach(c)
     \/ /\ Head(inbox[c]) \notin Terminals
        /\ UNCHANGED <<runVars, client, leader, sentinel>>

\* _events takes the sentinel and returns with no terminal event.
ReceiveSentinel(c) ==
  /\ client[c] = "reading"
  /\ inbox[c] = <<>>
  /\ sentinel[c]
  /\ client' = [client EXCEPT ![c] = "cut"]
  /\ Detach(c)
  /\ UNCHANGED <<inbox, seen>>

\* The client goes away while its iterator is suspended: the iterator is
\* closed and its `finally` runs.
Leave(c) ==
  /\ client[c] = "reading"
  /\ client' = [client EXCEPT ![c] = "left"]
  /\ Detach(c)
  /\ UNCHANGED <<inbox, seen>>

\* The client goes away before the first pull.  A generator that was never
\* started has no `finally` to run, so its queue stays registered.
Vanish(c) ==
  /\ client[c] = "attached"
  /\ client' = [client EXCEPT ![c] = "left"]
  /\ UNCHANGED <<runVars, leader, inbox, sentinel, seen>>

-----------------------------------------------------------------------------
(* The leader task                                                         *)

\* Mutant of Broadcast: only the iterators that were pulled already get it.
BroadcastToReading(r, e) ==
  /\ history' = [history EXCEPT ![r] = Append(@, e)]
  /\ inbox' = [c \in Callers |->
                 IF c \in subscribers[r] /\ client[c] = "reading"
                 THEN Append(inbox[c], e) ELSE inbox[c]]

\* Append an event to the history and to every subscriber's queue.
Broadcast(r, e) ==
  /\ history' = [history EXCEPT ![r] = Append(@, e)]
  /\ inbox' = [c \in Callers |->
                 IF c \in subscribers[r] THEN Append(inbox[c], e) ELSE inbox[c]]

\* Mutants of EndRun: without the `is run_state` test, without the removal
\* from the registry, and without the sentinel.
EndRunUnguarded(r) ==
  /\ stage' = [stage EXCEPT ![r] = "ended"]
  /\ grace' = [grace EXCEPT ![r] = FALSE]
  /\ sentinel' = [c \in Callers |-> sentinel[c] \/ c \in subscribers[r]]
  /\ runs' = [runs EXCEPT ![Identity[r]] = None]

EndRunLingering(r) ==
  /\ stage' = [stage EXCEPT ![r] = "ended"]
  /\ grace' = [grace EXCEPT ![r] = FALSE]
  /\ sentinel' = [c \in Callers |-> sentinel[c] \/ c \in subscribers[r]]
  /\ UNCHANGED runs

EndRunSilent(r) ==
  /\ stage' = [stage EXCEPT ![r] = "ended"]
  /\ grace' = [grace EXCEPT ![r] = FALSE]
  /\ runs' = [k \in Keys |-> IF runs[k] = r THEN None ELSE runs[k]]
  /\ UNCHANGED sentinel

\* The last lines of _drive's `finally`.
EndRun(r) ==
  /\ stage' = [stage EXCEPT ![r] = "ended"]
  /\ grace' = [grace EXCEPT ![r] = FALSE]
  /\ sentinel' = [c \in Callers |-> sentinel[c] \/ c \in subscribers[r]]
  /\ runs' = [k \in Keys |-> IF runs[k] = r THEN None ELSE runs[k]]

\* The generator yields a non-terminal event; a run whose buffer passes the
\* cap is withdrawn from the registry and carries on.
Produce(r, e) ==
  /\ stage[r] = "driving"
  /\ Len(history[r]) < MaxEvents
  /\ Broadcast(r, e)
  /\ buffered' = [buffered EXCEPT ![r] = @ + Chars[e]]
  /\ runs' = [k \in Keys |->
                IF runs[k] = r /\ buffered'[r] > MaxBuffer THEN None ELSE runs[k]]
  /\ UNCHANGED <<stage, terminal, subscribers, grace,
                 client, leader, sentinel, seen>>

\* Mutants of Finish: the crash is not broadcast, and the loop goes on after
\* the terminal event.
FinishUnsaid(r, e) ==
  /\ stage[r] = "driving"
  /\ terminal' = [terminal EXCEPT ![r] = TRUE]
  /\ EndRun(r)
  /\ UNCHANGED <<history, buffered, subscribers, client, leader, inbox, seen>>

FinishAndGoOn(r, e) ==
  /\ stage[r] = "driving"
  /\ Broadcast(r, e)
  /\ terminal' = [terminal EXCEPT ![r] = TRUE]
  /\ UNCHANGED <<runs, stage, buffered, subscribers, grace,
                 client, leader, sentinel, seen>>

\* The generator yields its terminal event, or raises and _drive makes a
\* PipelineFailed event up.
Finish(r, e) ==
  /\ stage[r] = "driving"
  /\ Broadcast(r, e)
  /\ terminal' = [terminal EXCEPT ![r] = TRUE]
  /\ EndRun(r)
  /\ UNCHANGED <<buffered, subscribers, client, leader, seen>>

\* CancelledError comes out of the generator: raised inside it, or the
\* cancellation the orphan timer asked for.  No terminal event is made.
Unwind(r) ==
  /\ EndRun(r)
  /\ UNCHANGED <<history, terminal, buffered, subscribers,
                 client, leader, inbox, seen>>

GeneratorCancelled(r) == stage[r] = "driving" /\ Unwind(r)

DeliverCancel(r) == stage[r] = "cancelling" /\ Unwind(r)

\* Mutant of Expire: the task is not cancelled.
ExpireIdly(r) ==
  /\ grace[r]
  /\ grace' = [grace EXCEPT ![r] = FALSE]
  /\ UNCHANGED <<runs, stage, history, terminal, buffered, subscribers, callerVars>>

\* _expire: the orphan timer fires.  Cancelling the task only schedules the
\* CancelledError (DeliverCancel) and does nothing to a finished task.
Expire(r) ==
  /\ grace[r]
  /\ grace' = [grace EXCEPT ![r] = FALSE]
  /\ stage' = [stage EXCEPT ![r] =
                 IF subscribers[r] = {} /\ ~terminal[r] /\ @ = "driving"
                 THEN "cancelling" ELSE @]
  /\ UNCHANGED <<runs, history, terminal, buffered, subscribers, callerVars>>

-----------------------------------------------------------------------------
CallerStep(c) ==
  \/ Start(c)
  \/ Receive(c)
  \/ ReceiveSentinel(c)

RunStep(r) ==
  \/ \E e \in Deltas : Produce(r, e)
  \/ \E e \in Terminals : Finish(r, e)
  \/ GeneratorCancelled(r)

Next ==
  \/ \E c \in Callers : Join(c) \/ Lead(c) \/ CallerStep(c)
                        \/ Leave(c) \/ Vanish(c)
  \/ \E r \in Callers : RunStep(r) \/ DeliverCancel(r) \/ Expire(r)

Spec == Init /\ [][Next]_vars

\* The event loop runs what is ready: timers that are due, the cancellation
\* of a task, and the pulls of a client that is still there.
LoopFairness ==
  \A c \in Callers :
    WF_vars(CallerStep(c)) /\ WF_vars(Expire(c)) /\ WF_vars(DeliverCancel(c))

\* Every upstream call has a timeout, so a run that is left alone ends.
PipelineFairness == \A r \in Callers : WF_vars(RunStep(r))

FairSpec == Spec /\ LoopFairness

-----------------------------------------------------------------------------
(* Properties                                                              *)

Subscribed(c) == client[c] \in {"attached", "reading"}

\* Every attached caller is owed exactly what its run has buffered and it has
\* not been given, in order: attach's register-and-snapshot misses no event of
\* _drive's broadcast and replays none twice.
OwedExactly ==
  \A c \in Callers :
    Subscribed(c) => seen[c] \o inbox[c] = history[leader[c]]

\* A caller that was given a terminal event was given the run's whole history
\* from the first event on: a follower and the leader get the same answer.
SameAnswer ==
  \A c \in Callers : client[c] = "answered" => seen[c] = history[leader[c]]

\* No subscriber of _events misses an event, gets one twice, or is answered with
\* less than its leader was, wherever it attaches and whoever leaves.
Delivered == OwedExactly /\ SameAnswer

\* At most one run per identity can take attachers: every live run is either
\* the registered one or was withdrawn because of its size.
OneLiveRun ==
  \A r \in Callers :
    stage[r] \in {"driving", "cancelling"} /\ buffered[r] <= MaxBuffer
      => runs[Identity[r]] = r

\* A registered run is live: a run leaves the registry when it ends, so a
\* regenerate after completion never replays a stale answer.
RegistryLive ==
  \A k \in Keys :
    runs[k] # None => /\ stage[runs[k]] \in {"driving", "cancelling"}
                      /\ ~terminal[runs[k]]
                      /\ Identity[runs[k]] = k

\* The registry of attach has the live run of each identity and nothing else: an
\* ending run never removes its successor and never outstays its end.
RegistryExact == OneLiveRun /\ RegistryLive

\* A stream that ends with no terminal event is one whose run was cancelled:
\* a run that finished never cuts a subscriber off.
CutMeansCancelled ==
  \A c \in Callers :
    client[c] = "cut" => ~terminal[leader[c]] /\ stage[leader[c]] = "ended"

\* A run nobody reads is on its way out: the orphan timer is armed unless a
\* queue is still registered.
OrphanTimed ==
  \A r \in Callers :
    stage[r] = "driving" /\ subscribers[r] = {} => grace[r]

\* If upstream calls end, a caller that stays is answered or cut off: no
\* subscriber waits forever on a queue nothing will fill.
ReaderReleased ==
  PipelineFairness =>
    \A c \in Callers :
      Subscribed(c) ~> client[c] \in {"answered", "cut", "left"}

\* A run without subscribers ends or gets a new one, even when its upstream
\* never answers.
OrphanReaped ==
  \A r \in Callers :
    stage[r] = "driving" /\ subscribers[r] = {}
      ~> stage[r] = "ended" \/ subscribers[r] # {}

\* Nothing waits for ever on either side: not a subscriber on its queue, not a
\* run on subscribers that are gone.
Released == ReaderReleased /\ OrphanReaped

-----------------------------------------------------------------------------
(* The inductive invariant behind the safety properties                    *)

\* A caller is linked to the one run it attached to, and a queue is registered
\* exactly with the run of a caller that has not given it back.
Linked ==
  \A c \in Callers :
    /\ client[c] = "idle" => leader[c] = None /\ stage[c] = "none" /\ seen[c] = <<>>
    /\ client[c] # "idle" => leader[c] \in Callers /\ stage[leader[c]] # "none"
    /\ Subscribed(c) => c \in subscribers[leader[c]]
    /\ \A r \in Callers :
         c \in subscribers[r] =>
           leader[c] = r /\ client[c] \in {"attached", "reading", "left"}

\* A history is empty until its run starts, and its terminal event is its last
\* and ends the run.
LogShape ==
  \A r \in Callers :
    /\ stage[r] = "none" => history[r] = <<>> /\ ~terminal[r]
    /\ terminal[r] => /\ stage[r] = "ended"
                      /\ history[r] # <<>>
                      /\ history[r][Len(history[r])] \in Terminals
    /\ \A i \in 1 .. Len(history[r]) :
         history[r][i] \in Terminals => terminal[r] /\ i = Len(history[r])

\* The sentinel follows the end of the run, only a terminal event answers a
\* caller, and it answers it at once.
Queues ==
  \A c \in Callers :
    /\ sentinel[c] => client[c] # "idle" /\ stage[leader[c]] = "ended"
    /\ client[c] = "answered" => terminal[leader[c]]
    /\ Subscribed(c) => \A i \in 1 .. Len(seen[c]) : seen[c][i] \notin Terminals

IInv ==
  /\ TypeOK
  /\ Linked
  /\ LogShape
  /\ Queues
  /\ RegistryLive
  /\ OneLiveRun
  /\ OwedExactly
  /\ SameAnswer
  /\ CutMeansCancelled
  /\ OrphanTimed

\* What coalescing promises: every caller reads the log of one run from its
\* first event, and a log closes with its terminal event.
Promise == INSTANCE ReplayedStream
             WITH log <- history, source <- leader, got <- seen

PromiseKept == Promise!Spec
=============================================================================
