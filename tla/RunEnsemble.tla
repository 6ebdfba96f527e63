----------------------------- MODULE RunEnsemble -----------------------------
(***************************************************************************)
(* run_ensemble, _fan_out and _SynthesisPump (engine/pipeline.py): one run *)
(* of the orchestration pipeline, from the first pull of its event stream  *)
(* to the last of the background work it leaves behind.                    *)
(*                                                                         *)
(* run_ensemble is an async generator.  It stands still at a `yield`,      *)
(* where its consumer pulls again or closes it, or at an `await`, where    *)
(* the consumer's task may be cancelled.  An action is the code from one   *)
(* of these points to the next; `at` names the point.  _fan_out is a       *)
(* generator of its own inside it: cancellation unwinds both, but closing  *)
(* the outer one only drops the inner one, which the event loop finalises  *)
(* in a task of its own, later.                                            *)
(*                                                                         *)
(* Members are numbered in plan order.  An answer is a usable completion   *)
(* ("ok"), an empty answer, a time-out or an error of the request ("bad"), *)
(* or an error of the route ("route"), which a member with a backstop      *)
(* retries there.                                                          *)
(***************************************************************************)
EXTENDS Naturals, Sequences, FiniteSets

CONSTANTS
  N,            \* members of the panel
  Plans,        \* the ExecutionPlans this run may have been given
  SharedCalls,  \* does the client coalesce calls (cache.coalesce)
  MaxChunks     \* bound: chunks of the synthesizer's stream

Members == 1 .. N

ASSUME RunAssumption ==
  /\ N \in Nat \ {0}
  /\ Plans \subseteq [skip : BOOLEAN, detach : BOOLEAN, cache : BOOLEAN,
                      tools : BOOLEAN, deadline : BOOLEAN, quorum : 0 .. N,
                      width : Nat \ {0}, backstops : SUBSET Members]
  /\ SharedCalls \in BOOLEAN
  /\ MaxChunks \in Nat

VARIABLES
  plan,                \* the ExecutionPlan
  at,                  \* where run_ensemble stands
  answer,              \* the terminal stream event it has yielded
  terminal_published,  \* the flag of that name
  feed,                \* the ProgressEvents published
  fan,                 \* the _fan_out generator
  task,                \* the task of each member
  result,              \* the outcome of each finished task
  pending,             \* _fan_out's `pending`
  round,               \* what is left of its `done`
  stragglers,          \* pending members not yet announced as abandoned
  outcomes,            \* members whose outcome was reported
  detached,            \* members with a _detach_member callback to come
  seatRows,            \* metric rows of each member's outcome
  deadRows,            \* metric rows of each member's dead route
  synthRows,           \* metric rows of the synthesis
  pump,                \* the _SynthesisPump task
  kept,                \* is that task in _DETACHED_STREAMS
  read,                \* chunks the pump has queued
  taken                \* chunks the consumer side has dequeued

streamVars == <<at, answer, terminal_published, feed>>
fanVars    == <<fan, pending, round, stragglers, outcomes>>
callVars   == <<task, result, deadRows>>
bookVars   == <<detached, seatRows>>
synthVars  == <<synthRows, pump, kept, read, taken>>
vars       == <<plan, at, answer, terminal_published, feed, fan, pending, round,
                stragglers, outcomes, task, result, deadRows, detached, seatRows,
                synthRows, pump, kept, read, taken>>

AtYield == {"announcing", "skipped", "reporting", "abandoning", "shorting",
            "shortDone", "opening", "answering", "completed", "failed"}
AtAwait == {"waiting", "reading"}
Over    == {"unused",     \* closed before the first pull
            "returned",   \* ran to its end
            "closed",     \* closed by the consumer at a yield
            "cancelled",  \* the consumer was cancelled at an await
            "raised"}     \* an exception came out of it

Live       == {"queued", "primary", "backstop"}
Calling    == {"primary", "backstop"}
TaskStates == {"none", "done", "cancelled"} \union Live
Answers    == {"ok", "bad"}
Finals     == {"completed", "failed"}
Milestones ==
  [kind : {"fanout_started", "synthesis_started", "member_completed"} \union Finals,
   member : 0 .. N, status : {"", "reported", "detached", "aborted"}]

TypeOK ==
  /\ plan \in Plans
  /\ at \in {"start"} \union AtYield \union AtAwait \union Over
  /\ answer \in {"none"} \union Finals
  /\ terminal_published \in BOOLEAN
  /\ feed \in Seq(Milestones)
  /\ fan \in {"none", "open", "dropped", "closed"}
  /\ task \in [Members -> TaskStates]
  /\ result \in [Members -> {"none"} \union Answers]
  /\ pending \subseteq Members /\ round \subseteq Members
  /\ stragglers \subseteq Members /\ outcomes \subseteq Members
  /\ detached \subseteq Members
  /\ seatRows \in [Members -> Nat] /\ deadRows \in [Members -> Nat]
  /\ synthRows \in Nat
  /\ pump \in {"none", "running", "finished", "broken", "cancelled"}
  /\ kept \in BOOLEAN
  /\ read \in 0 .. MaxChunks /\ taken \in 0 .. MaxChunks

Init ==
  /\ plan \in Plans
  /\ at = "start" /\ answer = "none"
  /\ terminal_published = FALSE /\ feed = <<>>
  /\ fan = "none" /\ pending = {} /\ round = {} /\ stragglers = {} /\ outcomes = {}
  /\ task = [m \in Members |-> "none"] /\ result = [m \in Members |-> "none"]
  /\ detached = {}
  /\ seatRows = [m \in Members |-> 0] /\ deadRows = [m \in Members |-> 0]
  /\ synthRows = 0
  /\ pump = "none" /\ kept = FALSE /\ read = 0 /\ taken = 0

Milestone(kind)  == [kind |-> kind, member |-> 0, status |-> ""]
Card(m, status)  == [kind |-> "member_completed", member |-> m, status |-> status]
Finished(m)      == task[m] \in {"done", "cancelled"}
Succeeded(S)     == {m \in S : result[m] = "ok"}
Quorate          == Cardinality(Succeeded(outcomes)) >= plan.quorum
Published(k)     == \E i \in DOMAIN feed : feed[i].kind = k
Carded           == {feed[i].member : i \in DOMAIN feed}
ReportedCard(m)  == \E i \in DOMAIN feed : feed[i] = Card(m, "reported")

-----------------------------------------------------------------------------
(* The member tasks                                                        *)

\* The semaphore admits the waiters in the order of the plan.
Dispatch(m) ==
  /\ task[m] = "queued"
  /\ \A n \in 1 .. m - 1 : task[n] # "queued"
  /\ Cardinality({n \in Members : task[n] \in Calling}) < plan.width
  /\ task' = [task EXCEPT ![m] = "primary"]
  /\ UNCHANGED <<plan, streamVars, fanVars, result, deadRows, bookVars, synthVars>>

\* _run_member returns, and `run` returns its outcome.
Answer(m) ==
  /\ task[m] \in Calling
  /\ task' = [task EXCEPT ![m] = "done"]
  /\ \E a \in Answers : result' = [result EXCEPT ![m] = a]
  /\ UNCHANGED <<plan, streamVars, fanVars, deadRows, bookVars, synthVars>>

\* The route failed and the member has a backstop: the dead route is recorded
\* and the call goes out again, under the same slot of the semaphore.
FallBack(m) ==
  /\ task[m] = "primary"
  /\ m \in plan.backstops
  /\ deadRows' = [deadRows EXCEPT ![m] = @ + 1]
  /\ task' = [task EXCEPT ![m] = "backstop"]
  /\ UNCHANGED <<plan, streamVars, fanVars, result, bookVars, synthVars>>

\* The call was coalesced by CachingClient onto one of another request, and
\* the leader of it was cancelled: its CancelledError is the future's
\* exception, and no handler of _run_member catches it.
LeaderCancelled(m) ==
  /\ SharedCalls
  /\ task[m] \in Calling
  /\ task' = [task EXCEPT ![m] = "cancelled"]
  /\ UNCHANGED <<plan, streamVars, fanVars, result, deadRows, bookVars, synthVars>>

\* Mutant of DetachedDone: the callback only drops the reference.
DetachedDoneUnbooked(m) ==
  /\ m \in detached
  /\ Finished(m)
  /\ detached' = detached \ {m}
  /\ UNCHANGED <<plan, streamVars, fanVars, callVars, seatRows, synthVars>>

\* The completion callback of a detached member.
DetachedDone(m) ==
  /\ m \in detached
  /\ Finished(m)
  /\ detached' = detached \ {m}
  /\ seatRows' = [seatRows EXCEPT ![m] = IF task[m] = "done" THEN @ + 1 ELSE @]
  /\ UNCHANGED <<plan, streamVars, fanVars, callVars, synthVars>>

-----------------------------------------------------------------------------
(* Ends of the two generators                                              *)

\* Mutants of LeaveFanOut: tasks that are done are skipped, and nothing is
\* cancelled.
LeaveFanOutSkipsDone(left) ==
  /\ fan' = "closed" /\ pending' = {} /\ round' = {} /\ stragglers' = {}
  /\ detached' = IF plan.detach THEN detached \union {m \in left : task[m] \in Live}
                 ELSE detached
  /\ task' = IF plan.detach THEN task
             ELSE [m \in Members |->
                     IF m \in left /\ task[m] \in Live THEN "cancelled" ELSE task[m]]

LeaveFanOutRunning(left) ==
  /\ fan' = "closed" /\ pending' = {} /\ round' = {} /\ stragglers' = {}
  /\ detached' = IF plan.detach THEN detached \union left ELSE detached
  /\ UNCHANGED task

\* _fan_out's `finally`: what is pending is detached or cancelled, and
\* cancelling a task that is done does nothing.
LeaveFanOut(left) ==
  /\ fan' = "closed" /\ pending' = {} /\ round' = {} /\ stragglers' = {}
  /\ detached' = IF plan.detach THEN detached \union left ELSE detached
  /\ task' = IF plan.detach THEN task
             ELSE [m \in Members |->
                     IF m \in left /\ task[m] \in Live THEN "cancelled" ELSE task[m]]

\* Mutant of Leave: the flag is not consulted.
LeaveRepublishing(how) ==
  /\ at' = how
  /\ kept' = (kept \/ (pump = "running" /\ plan.detach /\ plan.cache))
  /\ pump' = IF pump = "running" /\ ~kept' THEN "cancelled" ELSE pump
  /\ feed' = Append(feed, Milestone("failed"))
  /\ UNCHANGED <<plan, answer, terminal_published, synthRows, read, taken>>

\* run_ensemble's `finally`.
Leave(how) ==
  /\ at' = how
  /\ kept' = (kept \/ (pump = "running" /\ plan.detach /\ plan.cache))
  /\ pump' = IF pump = "running" /\ ~kept' THEN "cancelled" ELSE pump
  /\ feed' = IF terminal_published THEN feed ELSE Append(feed, Milestone("failed"))
  /\ UNCHANGED <<plan, answer, terminal_published, synthRows, read, taken>>

\* _publish_terminal.
PublishTerminal(kind) ==
  /\ terminal_published' = TRUE
  /\ feed' = Append(feed, Milestone(kind))

\* Mutant of Fail: the failure is yielded, and published when the run is left.
FailUnpublished ==
  /\ UNCHANGED <<feed, terminal_published>>
  /\ answer' = "failed"
  /\ at' = "failed"

\* The exception handlers: the failure is published and yielded.
Fail ==
  /\ PublishTerminal("failed")
  /\ answer' = "failed"
  /\ at' = "failed"

-----------------------------------------------------------------------------
(* The consumer pulls                                                      *)

\* The first pull: the run is announced, then the panel or its absence.
Start ==
  /\ at = "start"
  /\ feed' = Append(feed, Milestone("fanout_started"))
  /\ at' = IF plan.skip THEN "skipped" ELSE "announcing"
  /\ fan' = IF plan.skip THEN "none" ELSE "open"
  /\ UNCHANGED <<plan, answer, terminal_published, pending, round, stragglers,
                 outcomes, callVars, bookVars, synthVars>>

\* _fan_out creates the tasks and waits for the first of them.
StartTasks ==
  /\ at = "announcing"
  /\ at' = "waiting"
  /\ task' = [m \in Members |-> "queued"]
  /\ pending' = Members
  /\ UNCHANGED <<plan, answer, terminal_published, feed, fan, round, stragglers,
                 outcomes, result, deadRows, bookVars, synthVars>>

\* Mutant of Report: the task stays pending.
ReportStillPending(m, rest) ==
  /\ at' = "reporting"
  /\ round' = rest \ {m}
  /\ outcomes' = outcomes \union {m}
  /\ seatRows' = [seatRows EXCEPT ![m] = @ + 1]
  /\ feed' = Append(feed, Card(m, "reported"))
  /\ UNCHANGED <<plan, answer, terminal_published, fan, pending, stragglers,
                 callVars, detached, synthVars>>

\* _fan_out yields a member's outcome: it is recorded, published and yielded.
Report(m, rest) ==
  /\ at' = "reporting"
  /\ pending' = pending \ {m}
  /\ round' = rest \ {m}
  /\ outcomes' = outcomes \union {m}
  /\ seatRows' = [seatRows EXCEPT ![m] = @ + 1]
  /\ feed' = Append(feed, Card(m, "reported"))
  /\ UNCHANGED <<plan, answer, terminal_published, fan, stragglers, callVars,
                 detached, synthVars>>

\* `await task` raises the CancelledError of a task that ended with one; it
\* unwinds both generators.
Raise(m) ==
  /\ LeaveFanOut(pending \ {m})
  /\ Leave("raised")
  /\ UNCHANGED <<outcomes, result, deadRows, seatRows>>

Handle(m, rest) ==
  \/ task[m] = "done" /\ Report(m, rest)
  \/ task[m] = "cancelled" /\ Raise(m)

\* asyncio.wait returns with the tasks that are done.
Collect ==
  /\ at = "waiting"
  /\ LET done == {m \in pending : Finished(m)}
     IN  \E m \in done : Handle(m, done)

\* The next task of `done`.
ReportNext ==
  /\ at = "reporting"
  /\ \E m \in round : Handle(m, round)

\* Nothing left of `done`: _fan_out waits again.
WaitAgain ==
  /\ at = "reporting"
  /\ round = {}
  /\ pending # {}
  /\ at' = "waiting"
  /\ UNCHANGED <<plan, answer, terminal_published, feed, fanVars, callVars,
                 bookVars, synthVars>>

\* Mutant of Abandon: only the first straggler is announced.
AbandonOnce(S) ==
  \E m \in S :
    /\ \A n \in S : m <= n
    /\ at' = "abandoning"
    /\ stragglers' = {}
    /\ feed' = Append(feed, Card(m, IF plan.detach THEN "detached" ELSE "aborted"))
    /\ UNCHANGED <<plan, answer, terminal_published, fan, pending, round, outcomes,
                   callVars, bookVars, synthVars>>

\* MemberAbandoned for the first of the stragglers, in plan order.
Abandon(S) ==
  \E m \in S :
    /\ \A n \in S : m <= n
    /\ at' = "abandoning"
    /\ stragglers' = S \ {m}
    /\ feed' = Append(feed, Card(m, IF plan.detach THEN "detached" ELSE "aborted"))
    /\ UNCHANGED <<plan, answer, terminal_published, fan, pending, round, outcomes,
                   callVars, bookVars, synthVars>>

\* The deadline passes with nothing new.
DeadlineExceeded ==
  /\ at = "waiting"
  /\ plan.deadline
  /\ \A m \in pending : ~Finished(m)
  /\ Abandon(pending)

AbandonNext ==
  /\ at = "abandoning"
  /\ stragglers # {}
  /\ Abandon(stragglers)

\* Mutant of Conclude: the quorum counts answers that came after the deadline.
ConcludeOnResults ==
  /\ \/ at = "reporting" /\ round = {} /\ pending = {}
     \/ at = "abandoning" /\ stragglers = {}
  /\ LeaveFanOut(pending)
  /\ Cardinality(Succeeded(Members)) >= plan.quorum
  /\ at' = "opening"
  /\ UNCHANGED <<answer, terminal_published, feed>>
  /\ UNCHANGED <<plan, outcomes, result, deadRows, seatRows, synthVars>>

\* The fan-out is over: quorum, then the members' own tool call, then the
\* synthesis.  Assembling its messages may raise.
Conclude ==
  /\ \/ at = "reporting" /\ round = {} /\ pending = {}
     \/ at = "abandoning" /\ stragglers = {}
  /\ LeaveFanOut(pending)
  /\ \/ Fail
     \/ /\ Quorate
        /\ plan.tools
        /\ Succeeded(outcomes) # {}
        /\ at' = "shorting"
        /\ UNCHANGED <<answer, terminal_published, feed>>
     \/ /\ Quorate
        /\ at' = "opening"
        /\ UNCHANGED <<answer, terminal_published, feed>>
  /\ UNCHANGED <<plan, outcomes, result, deadRows, seatRows, synthVars>>

\* A vote/first tool call is yielded, and the Completed event after it.
ShortCircuit ==
  /\ at = "shorting"
  /\ at' = "shortDone"
  /\ answer' = "completed"
  /\ UNCHANGED <<plan, terminal_published, feed, fanVars, callVars, bookVars, synthVars>>

\* Only the pull after that event publishes the end of the run.
ShortCircuitEnd ==
  /\ at = "shortDone"
  /\ at' = "returned"
  /\ PublishTerminal("completed")
  /\ UNCHANGED <<plan, answer, fanVars, callVars, bookVars, synthVars>>

\* A passthrough or relay turn goes on to the synthesis, unless its messages
\* cannot be assembled.
PassThrough ==
  /\ at = "skipped"
  /\ \/ Fail
     \/ at' = "opening" /\ UNCHANGED <<answer, terminal_published, feed>>
  /\ UNCHANGED <<plan, fanVars, callVars, bookVars, synthVars>>

\* The synthesizer is called, by a task that reads its stream into a queue.
OpenSynthesis ==
  /\ at = "opening"
  /\ at' = "reading"
  /\ feed' = Append(feed, Milestone("synthesis_started"))
  /\ pump' = "running"
  /\ UNCHANGED <<plan, answer, terminal_published, fanVars, callVars, bookVars,
                 synthRows, kept, read, taken>>

\* The next chunk yields events, or only sets usage and finish.
TakeChunk ==
  /\ at = "reading"
  /\ taken < read
  /\ taken' = taken + 1
  /\ at' \in {"answering", "reading"}
  /\ UNCHANGED <<plan, answer, terminal_published, feed, fanVars, callVars,
                 bookVars, synthRows, pump, kept, read>>

ReadOn ==
  /\ at = "answering"
  /\ at' = "reading"
  /\ UNCHANGED <<plan, answer, terminal_published, feed, fanVars, callVars,
                 bookVars, synthVars>>

\* The stream ran out: record, publish and yield the end.
Complete ==
  /\ at = "reading"
  /\ taken = read /\ pump = "finished"
  /\ synthRows' = synthRows + 1
  /\ PublishTerminal("completed")
  /\ answer' = "completed"
  /\ at' = "completed"
  /\ UNCHANGED <<plan, fanVars, callVars, bookVars, pump, kept, read, taken>>

\* Mutant of SynthesisFails: a failed synthesis call is recorded nowhere.
SynthesisFailsUnbooked ==
  /\ Fail
  /\ UNCHANGED <<plan, fanVars, callVars, bookVars, synthRows, pump, kept, read>>

\* The failed call has a row of its own.
SynthesisFails ==
  /\ synthRows' = synthRows + 1
  /\ Fail
  /\ UNCHANGED <<plan, fanVars, callVars, bookVars, pump, kept, read>>

\* The pump hands over the exception that broke the stream.
StreamBroken ==
  /\ at = "reading"
  /\ taken = read /\ pump = "broken"
  /\ SynthesisFails
  /\ UNCHANGED taken

\* A chunk that cannot be read, while the pump may still be running.
ChunkUnreadable ==
  /\ \/ at = "reading" /\ taken < read /\ taken' = taken + 1
     \/ at = "answering" /\ taken' = taken
  /\ SynthesisFails

\* The pull after the terminal event: the generator returns.
Return ==
  /\ at \in {"completed", "failed"}
  /\ Leave("returned")
  /\ UNCHANGED <<fanVars, callVars, bookVars>>

Pull ==
  \/ Start \/ StartTasks \/ ReportNext \/ WaitAgain \/ AbandonNext \/ Conclude
  \/ ShortCircuit \/ ShortCircuitEnd \/ PassThrough \/ OpenSynthesis \/ ReadOn
  \/ Return

\* What an awaiting generator is woken by.
Wake == \/ Collect \/ DeadlineExceeded \/ TakeChunk \/ Complete \/ StreamBroken
        \/ ChunkUnreadable

-----------------------------------------------------------------------------
(* The consumer goes away                                                  *)

\* Closed before the first pull, the body never runs.
Discard ==
  /\ at = "start"
  /\ at' = "unused"
  /\ UNCHANGED <<plan, answer, terminal_published, feed, fanVars, callVars,
                 bookVars, synthVars>>

\* GeneratorExit at a yield.
Close ==
  /\ at \in AtYield
  /\ Leave("closed")
  /\ fan' = IF fan = "open" THEN "dropped" ELSE fan
  /\ UNCHANGED <<pending, round, stragglers, outcomes, callVars, bookVars>>

\* The event loop finalises the _fan_out that Close dropped.
FinalizeFanOut ==
  /\ fan = "dropped"
  /\ LeaveFanOut(pending)
  /\ UNCHANGED <<plan, streamVars, outcomes, result, deadRows, seatRows, synthVars>>

\* CancelledError at an await.
CancelWaiting ==
  /\ at = "waiting"
  /\ LeaveFanOut(pending)
  /\ Leave("cancelled")
  /\ UNCHANGED <<outcomes, result, deadRows, seatRows>>

CancelReading ==
  /\ at = "reading"
  /\ Leave("cancelled")
  /\ UNCHANGED <<fanVars, callVars, bookVars>>

-----------------------------------------------------------------------------
(* The synthesis pump                                                      *)

PumpChunk ==
  /\ pump = "running"
  /\ read < MaxChunks
  /\ read' = read + 1
  /\ UNCHANGED <<plan, streamVars, fanVars, callVars, bookVars, synthRows, pump,
                 kept, taken>>

\* Mutant of PumpEnd: a failure ends the task and is not handed over.
PumpEndSilently ==
  /\ pump = "running"
  /\ pump' \in {"finished", "cancelled"}
  /\ UNCHANGED <<plan, streamVars, fanVars, callVars, bookVars, synthRows, kept,
                 read, taken>>

\* The stream ends, fails or stalls past its timeout.
PumpEnd ==
  /\ pump = "running"
  /\ pump' \in {"finished", "broken"}
  /\ UNCHANGED <<plan, streamVars, fanVars, callVars, bookVars, synthRows, kept,
                 read, taken>>

MemberStep(m) == Dispatch(m) \/ Answer(m) \/ FallBack(m) \/ LeaderCancelled(m)
PumpStep      == PumpChunk \/ PumpEnd
GoAway        == Discard \/ Close \/ CancelWaiting \/ CancelReading

Next ==
  \/ Pull \/ Wake \/ GoAway \/ FinalizeFanOut \/ PumpStep
  \/ \E m \in Members : MemberStep(m) \/ DetachedDone(m)

Spec == Init /\ [][Next]_vars

\* The event loop runs what is ready and every upstream call ends: wait_for
\* bounds a member's call, and the idle time-out and the provider's own limit
\* bound a stream.
LoopFairness ==
  /\ WF_vars(Wake) /\ WF_vars(FinalizeFanOut) /\ WF_vars(PumpEnd)
  /\ \A m \in Members :
       WF_vars(Dispatch(m)) /\ WF_vars(Answer(m)) /\ WF_vars(DetachedDone(m))

\* A consumer does not sit on a yield for ever: it pulls or closes.  Nothing
\* makes it cancel an await.
FairSpec == Spec /\ LoopFairness /\ WF_vars(Pull \/ Close)

-----------------------------------------------------------------------------
(* Properties                                                              *)

\* A member's spend is recorded once, whether the run reported it or the
\* callback of a detached task did, and a dead route once beside it.
BookedOnce ==
  \A m \in Members :
    /\ seatRows[m] <= 1
    /\ deadRows[m] <= 1
    /\ seatRows[m] = 1 => task[m] = "done" /\ m \notin pending \union detached

\* With detach_on_disconnect no finished outcome is dropped: it is recorded,
\* or somebody who will record it still holds the task, also when the client
\* leaves between two reports of one round.
NothingDropped ==
  plan.detach =>
    \A m \in Members :
      task[m] = "done" => seatRows[m] = 1 \/ m \in pending \union detached

\* No running call is lost sight of: a member's belongs to the run, or is
\* detached and strongly referenced, and without detaching none outlives the
\* fan-out; a synthesis reader outlives the run only when it was left to fill
\* the cache.
CallsOwned ==
  /\ \A m \in Members :
       task[m] \in Live =>
         (m \in pending /\ fan # "closed") \/ (m \in detached /\ plan.detach)
  /\ at \in Over /\ pump = "running" => kept /\ plan.detach /\ plan.cache

\* Whatever is owed for a call is owed by somebody: a finished one reaches the
\* ledger or has a callback left to put it there, a running one has an owner to
\* await or to cancel it (pipeline.py:598-608).
CallsHeld == NothingDropped /\ CallsOwned

\* The progress feed has one terminal milestone, nothing follows it, and every
\* run that was started and is over has it: no watcher waits on a dead run.
FeedCloses ==
  /\ \A i \in DOMAIN feed : feed[i].kind \in Finals => i = Len(feed)
  /\ at \in Over \ {"unused"} => feed # <<>> /\ feed[Len(feed)].kind \in Finals

\* Every seat has at most one card in the feed, an abandoned one is not filled
\* again, and when the synthesis starts all of them are filled.
CardsFilled ==
  /\ \A i, j \in DOMAIN feed :
       feed[i].member = feed[j].member /\ feed[i].member # 0 => i = j
  /\ Published("synthesis_started") /\ ~plan.skip => Members \subseteq Carded

\* Nothing is answered from a thin panel, and what counts for the quorum was
\* reported to the client and recorded.
QuorumHeld ==
  answer = "completed" /\ ~plan.skip =>
    /\ Quorate
    /\ \A m \in outcomes : seatRows[m] = 1 /\ ReportedCard(m)

\* A synthesis has its row exactly when its client was told how it ended, and
\* then one.  One that ended without an answer was left by the client, detached
\* or not: it was paid for and no row says so (pipeline.py:1103).  And the stream
\* never says completed after the feed has said failed.
SynthesisBooked ==
  /\ synthRows = IF pump # "none" /\ answer # "none" THEN 1 ELSE 0
  /\ at \in Over /\ pump # "none" /\ answer = "none" => at \in {"closed", "cancelled"}
  /\ answer = "failed" => ~Published("completed")
  /\ Published("completed") => answer = "completed"

\* No call has two rows of the ledger however the run ends; a member's is there
\* once its outcome was reported or its detached task is done, the synthesizer's
\* once the client was told the end, and only then (_record_member, _record_synth).
SpendOnce == BookedOnce /\ SynthesisBooked

\* What a watcher of the progress feed is shown: each seat's card once, all of
\* them before the synthesis, and one terminal milestone at the end.
FeedWhole == FeedCloses /\ CardsFilled

\* What the comment on `pending` says, whatever detach_on_disconnect: a task that
\* finished and was not yielded when the consumer closed the run is not dropped.
FinishedBooked ==
  at = "closed" =>
    \A m \in Members :
      task[m] = "done" => seatRows[m] = 1 \/ m \in pending \union detached

\* A run that is started ends, and its feed with it.
RunEnds == at # "start" ~> at \in Over

\* A detached member's spend reaches the ledger although nobody waits for it.
SpendBooked ==
  \A m \in Members : plan.detach /\ task[m] = "done" ~> seatRows[m] = 1

-----------------------------------------------------------------------------
(* The inductive invariant behind the safety properties                    *)

Before    == {"start", "announcing"}                  \* no task exists yet
InFanOut  == {"announcing", "waiting", "reporting", "abandoning"}
Concluded == {"shorting", "shortDone", "opening", "reading", "answering", "completed"}

\* _fan_out is open exactly while run_ensemble stands inside it, only an open
\* or dropped one has something pending, and it waits for something.
FanShape ==
  /\ fan = "open" <=> at \in InFanOut
  /\ fan \in {"none", "closed"} => pending = {}
  /\ round \subseteq pending /\ \A m \in round : Finished(m)
  /\ stragglers \subseteq pending
  /\ at \in {"waiting", "reporting"} => stragglers = {}
  /\ at = "waiting" => pending # {}
  /\ at \in {"start", "skipped"} => fan = "none"
  /\ plan.skip => fan = "none"
  /\ at = "skipped" => plan.skip

\* The tasks exist from StartTasks on, all of them.
TaskShape ==
  \A m \in Members :
    /\ at \in Before => task[m] = "none"
    /\ at \in InFanOut \ Before => m \in pending \union outcomes
    /\ task[m] = "none" => m \notin pending \union outcomes \union detached
    /\ task[m] \in Live \union {"none"} => seatRows[m] = 0
    /\ task[m] \in {"none", "queued", "primary"} => deadRows[m] = 0
    /\ task[m] = "done" => result[m] # "none"

\* Pending, detached and recorded exclude one another.
Books ==
  \A m \in Members :
    /\ m \in pending => m \notin detached \union outcomes /\ seatRows[m] = 0
    /\ m \in detached => plan.detach /\ m \notin outcomes /\ seatRows[m] = 0
    /\ m \in outcomes => seatRows[m] = 1

\* The flag says that a terminal milestone was published in the run's body;
\* until the run is over, that is when the feed has one.
FeedShape ==
  /\ terminal_published => /\ at \in {"completed", "failed"} \union Over
                           /\ feed # <<>> /\ feed[Len(feed)].kind \in Finals
  /\ at \in {"completed", "failed"} => terminal_published
  /\ at \notin Over /\ ~terminal_published =>
       \A i \in DOMAIN feed : feed[i].kind \notin Finals
  /\ at \in {"start", "unused"} => feed = <<>>

\* Whose cards the feed holds, at each stage.
CardShape ==
  /\ at \in InFanOut =>
       /\ Carded \subseteq {0} \union outcomes
                           \union (IF at = "abandoning" THEN pending \ stragglers ELSE {})
       /\ ~Published("synthesis_started")
  /\ at = "abandoning" => pending \ stragglers \subseteq Carded
  /\ \A m \in outcomes : ReportedCard(m)
  /\ at \in Concluded /\ ~plan.skip => Members \subseteq Carded

\* Which stages have a pump, and why one may be kept.
PumpShape ==
  /\ at \in {"start", "skipped", "opening", "shorting", "shortDone"} \union InFanOut =>
       pump = "none"
  /\ kept => plan.detach /\ plan.cache

\* What the synthesis has done, at each stage.
SynthShape ==
  /\ at \in Concluded /\ ~plan.skip => Quorate
  /\ at \in {"reading", "answering"} => answer = "none" /\ synthRows = 0 /\ pump # "none"
  /\ pump = "none" => synthRows = 0
  /\ at \in {"start", "skipped", "opening", "shorting"} \union InFanOut => answer = "none"
  /\ at \in {"shortDone", "completed"} => answer = "completed"
  /\ at = "failed" => answer = "failed"

\* Who holds each call and its spend.
Ledger ==
  /\ TypeOK
  /\ FanShape
  /\ TaskShape
  /\ Books
  /\ PumpShape
  /\ BookedOnce
  /\ NothingDropped
  /\ CallsOwned

\* What the consumer and the watchers of the feed were told.
Told ==
  /\ FeedShape
  /\ CardShape
  /\ SynthShape
  /\ FeedCloses
  /\ CardsFilled
  /\ QuorumHeld
  /\ SynthesisBooked

IInv == Ledger /\ Told

-----------------------------------------------------------------------------
(* What a run promises                                                     *)

\* What became of a member's call, by its rows in the ledger and its task.
Fate(rows, status) ==
  CASE rows = 1                              -> "booked"
    [] rows > 1                              -> "overbooked"
    [] rows = 0 /\ status \in Live           -> "out"
    [] rows = 0 /\ status = "done"           -> "answered"
    [] rows = 0 /\ status = "cancelled"      -> "lost"
    [] rows = 0 /\ status = "none"           -> "none"
Fates == [m \in Members |-> Fate(seatRows[m], task[m])]

\* What was agreed, how far the run is, and the end its watchers were shown.
Agreed == [asks |-> ~plan.skip, keeps |-> plan.detach,
           quorums |-> {S \in SUBSET Members : Cardinality(S) >= plan.quorum}]
Stage  == IF at = "start" THEN "new" ELSE IF at \in Over THEN "over" ELSE "on"
Shown  == IF feed # <<>> /\ feed[Len(feed)].kind \in Finals THEN feed[Len(feed)].kind ELSE "open"

Promise == INSTANCE RunPromise
             WITH Terms <- [asks : BOOLEAN, keeps : BOOLEAN, quorums : SUBSET SUBSET Members],
                  terms <- Agreed, stage <- Stage, call <- Fates, told <- answer, shown <- Shown

\* What the client is told, the watchers are shown and the ledger books is one
\* story, wherever the client leaves and whatever the members do: the client is
\* told one end, at the same step as the watchers (a vote apart) and never
\* without a quorum of booked answers; a run is not over before its watchers
\* have the end; members are asked once, no call is booked twice, and only
\* calls that were kept are booked after the run.
RunPromiseKept == Promise!Spec
=============================================================================
