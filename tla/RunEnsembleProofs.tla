-------------------------- MODULE RunEnsembleProofs --------------------------
(***************************************************************************)
(* Theorems about RunEnsemble, for a panel of any width, any set of plans  *)
(* and a synthesis of any length.                                          *)
(***************************************************************************)
EXTENDS RunEnsemble, FiniteSetTheorems, TLAPS

-----------------------------------------------------------------------------
(* Type correctness                                                        *)

LEMMA InitType == Init => TypeOK
<1> SUFFICES ASSUME Init PROVE TypeOK  OBVIOUS
<1>1. <<>> \in Seq(Milestones)  OBVIOUS
<1>2. 0 \in 0 .. MaxChunks  BY RunAssumption
<1>3. QED  BY <1>1, <1>2 DEF Init, TypeOK, TaskStates

\* What the records published are.
LEMMA MilestoneType ==
  /\ \A k \in {"fanout_started", "synthesis_started"} \union Finals : Milestone(k) \in Milestones
  /\ \A m \in Members, s \in {"reported", "detached", "aborted"} : Card(m, s) \in Milestones
BY RunAssumption DEF Milestone, Card, Milestones, Members, Finals

\* Publishing keeps the type of the feed.
LEMMA FeedAppend ==
  ASSUME NEW s \in Seq(Milestones), NEW e \in Milestones
  PROVE  /\ Append(s, e) \in Seq(Milestones)
         /\ Len(Append(s, e)) = Len(s) + 1
         /\ Append(s, e) # <<>>
         /\ DOMAIN Append(s, e) = DOMAIN s \union {Len(s) + 1}
         /\ DOMAIN s = 1 .. Len(s)
         /\ \A i \in DOMAIN s : Append(s, e)[i] = s[i]
         /\ Append(s, e)[Len(s) + 1] = e
OBVIOUS

\* The helpers that end the generators keep the types of what they assign.
LEMMA LeaveFanOutType ==
  ASSUME TypeOK, NEW left \in SUBSET Members, LeaveFanOut(left)
  PROVE  /\ fan' = "closed" /\ pending' = {} /\ round' = {} /\ stragglers' = {}
         /\ detached' \subseteq Members
         /\ task' \in [Members -> TaskStates]
BY DEF TypeOK, LeaveFanOut, TaskStates, Live

LEMMA LeaveType ==
  ASSUME TypeOK, NEW how \in Over, Leave(how)
  PROVE  /\ at' \in Over /\ kept' \in BOOLEAN
         /\ pump' \in {"none", "running", "finished", "broken", "cancelled"}
         /\ feed' \in Seq(Milestones)
         /\ UNCHANGED <<plan, answer, terminal_published, synthRows, read, taken>>
<1>1. Append(feed, Milestone("failed")) \in Seq(Milestones)
  BY MilestoneType, FeedAppend DEF TypeOK, Finals
<1>2. QED  BY <1>1 DEF TypeOK, Leave

LEMMA FailType ==
  ASSUME TypeOK, Fail
  PROVE  /\ terminal_published' = TRUE /\ answer' = "failed" /\ at' = "failed"
         /\ feed' \in Seq(Milestones)
BY MilestoneType, FeedAppend DEF TypeOK, Fail, PublishTerminal, Finals

LEMMA StepType == TypeOK /\ [Next]_vars => TypeOK'
<1> SUFFICES ASSUME TypeOK, [Next]_vars PROVE TypeOK'  OBVIOUS
<1>a. /\ \A k \in {"fanout_started", "synthesis_started"} \union Finals :
           Append(feed, Milestone(k)) \in Seq(Milestones)
      /\ \A m \in Members, s \in {"reported", "detached", "aborted"} :
           Append(feed, Card(m, s)) \in Seq(Milestones)
  BY MilestoneType, FeedAppend DEF TypeOK
<1>b. pending \in SUBSET Members  BY DEF TypeOK
<1> USE DEF streamVars, fanVars, callVars, bookVars, synthVars
<1>1. CASE UNCHANGED vars  BY <1>1 DEF TypeOK, vars
<1>2. ASSUME NEW m \in Members, Dispatch(m) \/ LeaderCancelled(m)  PROVE TypeOK'
  BY <1>2 DEF TypeOK, Dispatch, LeaderCancelled, TaskStates, Live
<1>3. ASSUME NEW m \in Members, Answer(m)  PROVE TypeOK'
  BY <1>3 DEF TypeOK, Answer, TaskStates
<1>4. ASSUME NEW m \in Members, FallBack(m)  PROVE TypeOK'
  <2>1. deadRows' \in [Members -> Nat]  BY <1>4 DEF TypeOK, FallBack
  <2>2. QED  BY <1>4, <2>1 DEF TypeOK, FallBack, TaskStates, Live
<1>5. ASSUME NEW m \in Members, DetachedDone(m)  PROVE TypeOK'
  <2>1. seatRows' \in [Members -> Nat]  BY <1>5 DEF TypeOK, DetachedDone
  <2>2. QED  BY <1>5, <2>1 DEF TypeOK, DetachedDone
<1>6. CASE Start  BY <1>6, <1>a DEF TypeOK, Start, AtYield
<1>7. CASE StartTasks  BY <1>7 DEF TypeOK, StartTasks, AtAwait, TaskStates, Live
<1>8. CASE WaitAgain  BY <1>8 DEF TypeOK, WaitAgain, AtAwait
<1>9. ASSUME NEW m \in Members, NEW rest \in SUBSET Members, Report(m, rest)
      PROVE  TypeOK'
  <2>1. seatRows' \in [Members -> Nat]  BY <1>9 DEF TypeOK, Report
  <2>2. QED  BY <1>9, <1>a, <2>1 DEF TypeOK, Report, AtYield
<1>10. ASSUME NEW m \in Members, Raise(m)  PROVE TypeOK'
  <2>1. pending \ {m} \in SUBSET Members  BY DEF TypeOK
  <2>2. "raised" \in Over  BY DEF Over
  <2>3. QED  BY <1>10, <2>1, <2>2, LeaveFanOutType, LeaveType DEF TypeOK, Raise
<1>11. CASE Collect
  <2>1. PICK m \in Members, done \in SUBSET Members : Handle(m, done)
    BY <1>11 DEF Collect, TypeOK
  <2>2. QED  BY <1>9, <1>10, <2>1 DEF Handle
<1>12. CASE ReportNext
  <2>1. PICK m \in Members : Handle(m, round)  BY <1>12 DEF ReportNext, TypeOK
  <2>2. round \in SUBSET Members  BY DEF TypeOK
  <2>3. QED  BY <1>9, <1>10, <2>1, <2>2 DEF Handle
<1>13. CASE DeadlineExceeded \/ AbandonNext
  <2>1. PICK S \in SUBSET Members : Abandon(S)
    BY <1>13 DEF DeadlineExceeded, AbandonNext, TypeOK
  <2>2. PICK m \in S : /\ at' = "abandoning"
                       /\ stragglers' = S \ {m}
                       /\ feed' = Append(feed, Card(m, IF plan.detach THEN "detached" ELSE "aborted"))
                       /\ UNCHANGED <<plan, answer, terminal_published, fan, pending, round,
                                      outcomes, callVars, bookVars, synthVars>>
    BY <2>1 DEF Abandon
  <2>3. feed' \in Seq(Milestones)  BY <1>a, <2>2
  <2>4. QED  BY <2>2, <2>3 DEF TypeOK, AtYield
<1>14. CASE Conclude
  <2>1. plan' = plan /\ outcomes' = outcomes /\ result' = result /\ deadRows' = deadRows
        /\ seatRows' = seatRows /\ UNCHANGED synthVars
    BY <1>14 DEF Conclude
  <2>2. LeaveFanOut(pending)  BY <1>14 DEF Conclude
  <2>3. /\ at' \in {"shorting", "opening", "failed"} /\ answer' \in {"none"} \union Finals
        /\ terminal_published' \in BOOLEAN /\ feed' \in Seq(Milestones)
    BY <1>14, FailType DEF Conclude, TypeOK, Finals
  <2>4. QED  BY <1>b, <2>1, <2>2, <2>3, LeaveFanOutType DEF TypeOK, AtYield
<1>15. CASE ShortCircuit  BY <1>15 DEF TypeOK, ShortCircuit, AtYield, Finals
<1>16. CASE ShortCircuitEnd
  BY <1>16, <1>a DEF TypeOK, ShortCircuitEnd, PublishTerminal, Over, Finals
<1>17. CASE PassThrough  BY <1>17, FailType DEF TypeOK, PassThrough, AtYield, Finals
<1>18. CASE OpenSynthesis  BY <1>18, <1>a DEF TypeOK, OpenSynthesis, AtAwait
<1>19. CASE TakeChunk
  <2>1. taken' \in 0 .. MaxChunks  BY <1>19, RunAssumption DEF TypeOK, TakeChunk
  <2>2. QED  BY <1>19, <2>1 DEF TypeOK, TakeChunk, AtYield, AtAwait
<1>20. CASE ReadOn  BY <1>20 DEF TypeOK, ReadOn, AtAwait
<1>21. CASE Complete
  BY <1>21, <1>a DEF TypeOK, Complete, PublishTerminal, AtYield, Finals
<1>22. ASSUME SynthesisFails, taken' \in 0 .. MaxChunks  PROVE TypeOK'
  <2>1. synthRows' \in Nat  BY <1>22 DEF TypeOK, SynthesisFails
  <2>2. Fail /\ UNCHANGED <<plan, fanVars, callVars, bookVars, pump, kept, read>>
    BY <1>22 DEF SynthesisFails
  <2>3. QED  BY <1>22, <2>1, <2>2, FailType DEF TypeOK, AtYield, Finals
<1>23. CASE StreamBroken  BY <1>22, <1>23 DEF StreamBroken, TypeOK
<1>24. CASE ChunkUnreadable
  <2>1. taken' \in 0 .. MaxChunks  BY <1>24, RunAssumption DEF TypeOK, ChunkUnreadable
  <2>2. QED  BY <1>22, <1>24, <2>1 DEF ChunkUnreadable
<1>25. ASSUME NEW how \in Over, Leave(how), UNCHANGED <<callVars, bookVars, outcomes>>,
              pending' \subseteq Members, round' \subseteq Members, stragglers' \subseteq Members,
              fan' \in {"none", "open", "dropped", "closed"}
       PROVE  TypeOK'
  BY <1>25, LeaveType DEF TypeOK
<1>26. CASE Return \/ Close \/ CancelReading
  BY <1>25, <1>26 DEF TypeOK, Return, Close, CancelReading, Over
<1>27. CASE Discard  BY <1>27 DEF TypeOK, Discard, Over
<1>28. CASE FinalizeFanOut
  BY <1>28, <1>b, LeaveFanOutType DEF TypeOK, FinalizeFanOut
<1>29. CASE CancelWaiting
  <2>1. "cancelled" \in Over  BY DEF Over
  <2>2. QED  BY <1>29, <1>b, <2>1, LeaveFanOutType, LeaveType DEF TypeOK, CancelWaiting
<1>30. CASE PumpChunk
  <2>1. read' \in 0 .. MaxChunks  BY <1>30, RunAssumption DEF TypeOK, PumpChunk
  <2>2. QED  BY <1>30, <2>1 DEF TypeOK, PumpChunk
<1>31. CASE PumpEnd  BY <1>31 DEF TypeOK, PumpEnd
<1>32. QED
  BY <1>1, <1>2, <1>3, <1>4, <1>5, <1>6, <1>7, <1>8, <1>11, <1>12, <1>13, <1>14, <1>15, <1>16,
     <1>17, <1>18, <1>19, <1>20, <1>21, <1>23, <1>24, <1>26, <1>27, <1>28, <1>29, <1>30, <1>31
  DEF Next, Pull, Wake, GoAway, MemberStep, PumpStep

\* Every variable of a run keeps its type, however its consumer, its members
\* and its synthesizer behave (run_ensemble and what it leaves behind).
THEOREM TypeCorrect == Spec => []TypeOK
BY InitType, StepType, PTL DEF Spec

-----------------------------------------------------------------------------
(* Who holds each call and its spend                                       *)

LEMMA InitLedger == Init => Ledger
<1> SUFFICES ASSUME Init PROVE Ledger  OBVIOUS
<1>1. TypeOK  BY InitType
<1>2. QED
  BY <1>1 DEF Init, Ledger, FanShape, TaskShape, Books, PumpShape, BookedOnce, NothingDropped,
     CallsOwned, InFanOut, Before, Live, Finished, Over

LEMMA StepLedger == Ledger /\ [Next]_vars => Ledger'
<1> SUFFICES ASSUME Ledger, [Next]_vars PROVE Ledger'  OBVIOUS
<1> DEFINE Held == FanShape /\ TaskShape /\ Books /\ PumpShape /\ BookedOnce /\ NothingDropped
                   /\ CallsOwned
<1>0. TypeOK /\ TypeOK' /\ Held  BY StepType DEF Ledger
<1> SUFFICES Held'  BY <1>0 DEF Ledger
<1> USE <1>0 DEF TypeOK, streamVars, fanVars, callVars, bookVars, synthVars, FanShape, TaskShape, Books,
        PumpShape, BookedOnce, NothingDropped, CallsOwned, Finished, Live, InFanOut, Before, Over
<1>1. ASSUME UNCHANGED vars  PROVE Held'
  BY <1>1 DEF vars
<1>2. ASSUME NEW m \in Members, Dispatch(m)  PROVE Held'
  BY <1>2 DEF Dispatch
<1>3. ASSUME NEW m \in Members, Answer(m)  PROVE Held'
  BY <1>3 DEF Answer, Answers, Calling
<1>4. ASSUME NEW m \in Members, FallBack(m)  PROVE Held'
  BY <1>4 DEF FallBack
<1>5. ASSUME NEW m \in Members, LeaderCancelled(m)  PROVE Held'
  BY <1>5 DEF LeaderCancelled, Calling
<1>6. ASSUME NEW m \in Members, DetachedDone(m)  PROVE Held'
  BY <1>6 DEF DetachedDone
<1>7. ASSUME Start  PROVE Held'
  BY <1>7 DEF Start
<1>8. ASSUME StartTasks  PROVE Held'
  <2>1. 1 \in Members  BY RunAssumption DEF Members
  <2>2. \A m \in Members : task[m] = "none" /\ m \notin pending \union outcomes \union detached
    BY <1>8 DEF StartTasks
  <2>3. QED  BY <1>8, <2>1, <2>2 DEF StartTasks
<1>9. ASSUME WaitAgain  PROVE Held'
  BY <1>9 DEF WaitAgain
<1>10. ASSUME NEW m \in pending, NEW rest \in SUBSET pending, \A n \in rest : Finished(n), task[m] = "done", at \in {"waiting", "reporting"}, Report(m, rest)  PROVE Held'
  BY <1>10 DEF Report
<1>11. ASSUME NEW m \in pending, task[m] = "cancelled", at \in {"waiting", "reporting"}, Raise(m)  PROVE Held'
  BY <1>11 DEF Raise, LeaveFanOut, Leave
<1>14. ASSUME NEW S \in SUBSET pending, Abandon(S), at = "abandoning" \/ at = "waiting"  PROVE Held'
  BY <1>14 DEF Abandon
<1>15. ASSUME Conclude  PROVE Held'
  BY <1>15 DEF Conclude, LeaveFanOut, Fail, PublishTerminal
<1>16. ASSUME ShortCircuit  PROVE Held'
  BY <1>16 DEF ShortCircuit
<1>17. ASSUME ShortCircuitEnd  PROVE Held'
  BY <1>17 DEF ShortCircuitEnd
<1>18. ASSUME PassThrough  PROVE Held'
  BY <1>18 DEF PassThrough, Fail, PublishTerminal
<1>19. ASSUME OpenSynthesis  PROVE Held'
  BY <1>19 DEF OpenSynthesis
<1>20. ASSUME TakeChunk  PROVE Held'
  BY <1>20 DEF TakeChunk
<1>21. ASSUME ReadOn  PROVE Held'
  BY <1>21 DEF ReadOn
<1>22. ASSUME Complete  PROVE Held'
  BY <1>22 DEF Complete
<1>23. ASSUME StreamBroken  PROVE Held'
  BY <1>23 DEF StreamBroken, SynthesisFails, Fail
<1>24. ASSUME ChunkUnreadable  PROVE Held'
  BY <1>24 DEF ChunkUnreadable, SynthesisFails, Fail
<1>25. ASSUME Return  PROVE Held'
  BY <1>25 DEF Return, Leave
<1>26. ASSUME Close  PROVE Held'
  BY <1>26 DEF Close, Leave, AtYield
<1>27. ASSUME CancelReading  PROVE Held'
  BY <1>27 DEF CancelReading, Leave
<1>28. ASSUME Discard  PROVE Held'
  BY <1>28 DEF Discard
<1>29. ASSUME FinalizeFanOut  PROVE Held'
  BY <1>29 DEF FinalizeFanOut, LeaveFanOut
<1>30. ASSUME CancelWaiting  PROVE Held'
  BY <1>30 DEF CancelWaiting, LeaveFanOut, Leave
<1>31. ASSUME PumpChunk \/ PumpEnd  PROVE Held'
  BY <1>31 DEF PumpChunk, PumpEnd
<1>32. CASE Collect
  <2>1. PICK m \in pending : Handle(m, {n \in pending : Finished(n)})
    BY <1>32 DEF Collect
  <2>2. QED  BY <1>10, <1>11, <1>32, <2>1 DEF Handle, Collect
<1>33. CASE ReportNext
  <2>1. PICK m \in round : Handle(m, round)  BY <1>33 DEF ReportNext
  <2>2. QED  BY <1>10, <1>11, <1>33, <2>1 DEF Handle, ReportNext
<1>34. CASE DeadlineExceeded  BY <1>14, <1>34 DEF DeadlineExceeded
<1>35. CASE AbandonNext  BY <1>14, <1>35 DEF AbandonNext
<1>36. QED
  BY <1>2, <1>3, <1>4, <1>5, <1>6, <1>7, <1>8, <1>9, <1>15, <1>16, <1>17, <1>18, <1>19, <1>20,
     <1>21, <1>22, <1>23, <1>24, <1>25, <1>26, <1>27, <1>28, <1>29, <1>30, <1>31, <1>32, <1>33,
     <1>34, <1>35, <1>1
  DEF Next, Pull, Wake, GoAway, MemberStep, PumpStep

LEMMA LedgerKept == Spec => []Ledger
BY InitLedger, StepLedger, PTL DEF Spec

\* A member's spend is recorded once, and a dead route once beside it, whoever
\* records it: run_ensemble or the callback of _detach_member.
THEOREM SpendBookedOnce == Spec => []BookedOnce
<1>1. Ledger => BookedOnce  BY DEF Ledger
<1>2. QED  BY <1>1, LedgerKept, PTL

\* With detach_on_disconnect no finished outcome is dropped, wherever the
\* client leaves (_fan_out's `finally`).
THEOREM NothingIsDropped == Spec => []NothingDropped
<1>1. Ledger => NothingDropped  BY DEF Ledger
<1>2. QED  BY <1>1, LedgerKept, PTL

\* Every running call has an owner, and outlives the run only where the plan
\* says so (_fan_out's and run_ensemble's `finally`).
THEOREM EveryCallOwned == Spec => []CallsOwned
<1>1. Ledger => CallsOwned  BY DEF Ledger
<1>2. QED  BY <1>1, LedgerKept, PTL

\* Whatever is owed for a call is owed by somebody (_fan_out's finally and the
\* callbacks of _detach_member).
THEOREM CallsAreHeld == Spec => []CallsHeld
BY NothingIsDropped, EveryCallOwned, PTL DEF CallsHeld

-----------------------------------------------------------------------------
(* The feed                                                                *)

Ending == {"completed", "failed"} \union Over   \* the last milestone may be out

\* What a step may do to the feed: nothing, publish a milestone that is not the
\* last, publish the last one, or leave a run whose last one is published.
Quiet == /\ UNCHANGED <<feed, terminal_published>>
         /\ at' = at \/ (at \notin Ending \union {"start"} /\ at' \notin Ending \union {"start"})
Speaks  == /\ \E e \in Milestones : e.kind \notin Finals /\ feed' = Append(feed, e)
         /\ UNCHANGED terminal_published
         /\ at \notin Ending /\ at' \notin Ending \union {"start"}
Closes == /\ \E e \in Milestones : e.kind \in Finals /\ feed' = Append(feed, e)
          /\ at \notin Over /\ ~terminal_published
          /\ \/ at' \in Ending \ {"unused"} /\ terminal_published'
             \/ at' \in Over \ {"unused"} /\ UNCHANGED terminal_published
Departs == /\ UNCHANGED <<feed, terminal_published>>
          /\ at \notin Over /\ terminal_published /\ at' \in Over \ {"unused"}
Unused == UNCHANGED <<feed, terminal_published>> /\ at = "start" /\ at' = "unused"

LEMMA FeedSteps ==
  ASSUME Ledger, FeedShape, [Next]_vars
  PROVE  Quiet \/ Speaks \/ Closes \/ Departs \/ Unused
<1>0. TypeOK /\ FanShape  BY DEF Ledger
<1>a. at \notin Ending => ~terminal_published  BY DEF FeedShape, Ending
<1>b. ASSUME NEW how \in Over \ {"unused"}, at \notin Over, Leave(how)
      PROVE  Closes \/ Departs
  BY <1>0, <1>b, MilestoneType DEF Leave, Closes, Departs, Finals, Milestone, TypeOK
<1>c. ASSUME at \notin Ending, Fail  PROVE Closes
  BY <1>a, <1>c, MilestoneType DEF Fail, PublishTerminal, Closes, Finals, Milestone, Ending
<1>d. \A m \in Members, s \in {"reported", "detached", "aborted"} :
        Card(m, s) \in Milestones /\ Card(m, s).kind \notin Finals
  BY MilestoneType DEF Card, Finals
<1> USE DEF streamVars, fanVars, callVars, bookVars, synthVars
<1>1. CASE UNCHANGED vars  BY <1>1 DEF vars, Quiet
<1>2. CASE \E m \in Members : MemberStep(m) \/ DetachedDone(m)
  BY <1>2 DEF MemberStep, Dispatch, Answer, FallBack, LeaderCancelled, DetachedDone, Quiet
<1>3. CASE Start
  BY <1>3, MilestoneType DEF Start, Speaks, Milestone, Finals, Ending, Over
<1>4. CASE StartTasks \/ WaitAgain \/ ShortCircuit \/ TakeChunk \/ ReadOn
  BY <1>4 DEF StartTasks, WaitAgain, ShortCircuit, TakeChunk, ReadOn, Quiet, Ending, Over
<1>5. CASE Collect \/ ReportNext
  <2>1. PICK m \in Members, rest \in SUBSET Members : Handle(m, rest)
    BY <1>0, <1>5 DEF Collect, ReportNext, TypeOK
  <2>2. at \notin Ending \union {"start"}
    BY <1>5 DEF Collect, ReportNext, Ending, Over
  <2>3. CASE Report(m, rest)  BY <1>d, <2>2, <2>3 DEF Report, Speaks, Ending, Over
  <2>4. CASE Raise(m)
    <3>1. Leave("raised")  BY <2>4 DEF Raise
    <3>2. QED  BY <1>b, <2>2, <3>1 DEF Ending, Over
  <2>5. QED  BY <2>1, <2>3, <2>4 DEF Handle
<1>6. CASE DeadlineExceeded \/ AbandonNext
  <2>1. PICK m \in Members, s \in {"detached", "aborted"} : feed' = Append(feed, Card(m, s))
    BY <1>0, <1>6 DEF DeadlineExceeded, AbandonNext, Abandon, TypeOK
  <2>2. QED  BY <1>6, <1>d, <2>1 DEF DeadlineExceeded, AbandonNext, Abandon, Speaks, Ending, Over
<1>7. CASE Conclude \/ PassThrough
  BY <1>7, <1>c DEF Conclude, PassThrough, Quiet, Ending, Over
<1>8. CASE ShortCircuitEnd
  BY <1>8, <1>a, MilestoneType DEF ShortCircuitEnd, PublishTerminal, Closes, Milestone, Finals, Ending, Over
<1>9. CASE OpenSynthesis
  BY <1>9, MilestoneType DEF OpenSynthesis, Speaks, Milestone, Finals, Ending, Over
<1>10. CASE Complete
  BY <1>10, <1>a, MilestoneType DEF Complete, PublishTerminal, Closes, Milestone, Finals, Ending, Over
<1>11. CASE StreamBroken \/ ChunkUnreadable
  BY <1>11, <1>c DEF StreamBroken, ChunkUnreadable, SynthesisFails, Ending, Over
<1>12. CASE Return \/ Close \/ CancelReading \/ CancelWaiting
  BY <1>12, <1>b DEF Return, Close, CancelReading, CancelWaiting, AtYield, Over
<1>13. CASE Discard  BY <1>13 DEF Discard, Unused
<1>14. CASE FinalizeFanOut \/ PumpStep
  BY <1>14 DEF FinalizeFanOut, PumpStep, PumpChunk, PumpEnd, Quiet
<1>15. QED
  BY <1>1, <1>2, <1>3, <1>4, <1>5, <1>6, <1>7, <1>8, <1>9, <1>10, <1>11, <1>12, <1>13, <1>14
  DEF Next, Pull, Wake, GoAway

LEMMA StepFeed == Ledger /\ FeedShape /\ FeedCloses /\ [Next]_vars => FeedShape' /\ FeedCloses'
<1> SUFFICES ASSUME Ledger, FeedShape, FeedCloses, [Next]_vars
             PROVE  FeedShape' /\ FeedCloses'
  OBVIOUS
<1>0. feed \in Seq(Milestones) /\ terminal_published \in BOOLEAN /\ terminal_published' \in BOOLEAN
  BY StepType DEF Ledger, TypeOK
<1>1. CASE Quiet  BY <1>1 DEF Quiet, FeedShape, FeedCloses, Ending, Over
<1>2. CASE Departs  BY <1>0, <1>2 DEF Departs, FeedShape, FeedCloses, Ending, Over
<1>3. CASE Unused  BY <1>0, <1>3 DEF Unused, FeedShape, FeedCloses, Ending, Over
<1>4. ASSUME NEW e \in Milestones, feed' = Append(feed, e)
      PROVE  /\ feed' # <<>> /\ Len(feed') = Len(feed) + 1
             /\ DOMAIN feed' = DOMAIN feed \union {Len(feed')}
             /\ \A i \in DOMAIN feed : feed'[i] = feed[i] /\ i # Len(feed')
             /\ feed'[Len(feed')] = e
  BY <1>0, <1>4, FeedAppend
<1>5. CASE Speaks
  <2>1. PICK e \in Milestones : e.kind \notin Finals /\ feed' = Append(feed, e)  BY <1>5 DEF Speaks
  <2>2. \A i \in DOMAIN feed : feed[i].kind \notin Finals  BY <1>5 DEF Speaks, FeedShape, Ending
  <2>3. \A i \in DOMAIN feed' : feed'[i].kind \notin Finals  BY <1>4, <2>1, <2>2
  <2>4. QED  BY <1>5, <2>3 DEF Speaks, FeedShape, FeedCloses, Ending, Over
<1>6. CASE Closes
  <2>1. PICK e \in Milestones : e.kind \in Finals /\ feed' = Append(feed, e)  BY <1>6 DEF Closes
  <2>2. \A i \in DOMAIN feed : feed[i].kind \notin Finals  BY <1>6 DEF Closes, FeedShape
  <2>3. \A i \in DOMAIN feed' : feed'[i].kind \in Finals => i = Len(feed')  BY <1>4, <2>1, <2>2
  <2>4. feed' # <<>> /\ feed'[Len(feed')].kind \in Finals  BY <1>4, <2>1
  <2>5. QED  BY <1>6, <2>3, <2>4 DEF Closes, FeedShape, FeedCloses, Ending, Over
<1>7. QED  BY <1>1, <1>2, <1>3, <1>5, <1>6, FeedSteps

-----------------------------------------------------------------------------
(* The cards of the seats                                                  *)

OneCardEach == \A i, j \in DOMAIN feed :
                 feed[i].member = feed[j].member /\ feed[i].member # 0 => i = j

LEMMA FeedGrows ==
  ASSUME feed \in Seq(Milestones), NEW e \in Milestones, feed' = Append(feed, e)
  PROVE  /\ Carded' = Carded \union {e.member}
         /\ \A k : Published(k)' <=> Published(k) \/ e.kind = k
         /\ \A m : ReportedCard(m) \/ e = Card(m, "reported") => ReportedCard(m)'
         /\ OneCardEach /\ e.member \notin Carded \ {0} => OneCardEach'
<1>1. /\ DOMAIN feed' = DOMAIN feed \union {Len(feed')}
      /\ \A i \in DOMAIN feed : feed'[i] = feed[i] /\ i # Len(feed')
      /\ feed'[Len(feed')] = e
  BY FeedAppend
<1>2. Carded' = Carded \union {e.member}  BY <1>1 DEF Carded
<1>3. ASSUME NEW k  PROVE Published(k)' <=> Published(k) \/ e.kind = k  BY <1>1 DEF Published
<1>4. ASSUME NEW m, ReportedCard(m) \/ e = Card(m, "reported")  PROVE ReportedCard(m)'
  BY <1>1, <1>4 DEF ReportedCard, Card
<1>5. ASSUME OneCardEach, e.member \notin Carded \ {0}  PROVE OneCardEach'
  BY <1>1, <1>5 DEF OneCardEach, Carded
<1>6. QED  BY <1>2, <1>3, <1>4, <1>5

LEMMA StepCards ==
  Ledger /\ CardShape /\ CardsFilled /\ FeedShape /\ [Next]_vars => CardShape' /\ CardsFilled'
<1> SUFFICES ASSUME Ledger, CardShape, CardsFilled, FeedShape, [Next]_vars
             PROVE  CardShape' /\ CardsFilled'
  OBVIOUS
<1> DEFINE Goal == CardShape' /\ CardsFilled'
           Zero(e) == e \in Milestones /\ e.member = 0 /\ e.kind # "synthesis_started"
           Plain == UNCHANGED feed \/ \E e : Zero(e) /\ feed' = Append(feed, e)
<1>0. /\ feed \in Seq(Milestones) /\ outcomes \subseteq Members /\ pending \subseteq Members
      /\ 0 \notin Members /\ plan \in Plans
  BY RunAssumption DEF Ledger, TypeOK, Members
<1>s. FanShape /\ TaskShape /\ Books  BY DEF Ledger
<1>a. ASSUME Plain
      PROVE  /\ Carded' \ {0} = Carded \ {0}
             /\ Published("synthesis_started")' <=> Published("synthesis_started")
             /\ \A m : ReportedCard(m) => ReportedCard(m)'
             /\ OneCardEach => OneCardEach'
  <2>1. CASE UNCHANGED feed  BY <2>1 DEF Carded, Published, ReportedCard, OneCardEach
  <2>2. CASE \E e : Zero(e) /\ feed' = Append(feed, e)  BY <1>0, <2>2, FeedGrows
  <2>3. QED  BY <1>a, <2>1, <2>2
<1>b. OneCardEach  BY DEF CardsFilled, OneCardEach
<1>c. \A k \in {"fanout_started"} \union Finals : Zero(Milestone(k))
  BY MilestoneType DEF Milestone, Finals
\* Steps outside the fan-out.
<1>d. ASSUME Plain, UNCHANGED <<plan, outcomes>>, at' \notin InFanOut,
             at' \in Concluded => at \in Concluded \/ plan.skip
      PROVE  Goal
  BY <1>0, <1>a, <1>b, <1>d DEF CardShape, CardsFilled, OneCardEach, InFanOut
\* Steps that leave the fan-out where it is.
<1>e. ASSUME Plain, UNCHANGED <<plan, outcomes, at, pending, stragglers>>
      PROVE  Goal
  BY <1>0, <1>a, <1>b, <1>e DEF CardShape, CardsFilled, OneCardEach
<1>f. ASSUME NEW how \in Over, Leave(how), UNCHANGED outcomes  PROVE Goal
  <2>1. Plain  BY <1>c, <1>f DEF Leave, Finals
  <2>2. at' = how /\ how \notin InFanOut /\ how \notin Concluded /\ UNCHANGED plan
    BY <1>f DEF Leave, Over, InFanOut, Concluded
  <2>3. QED  BY <1>d, <1>f, <2>1, <2>2
<1>g. ASSUME Fail, UNCHANGED <<plan, outcomes>>  PROVE Goal
  <2>1. Plain  BY <1>c, <1>g DEF Fail, PublishTerminal, Finals
  <2>2. QED  BY <1>d, <1>g, <2>1 DEF Fail, InFanOut, Concluded
<1> USE DEF streamVars, fanVars, callVars, bookVars, synthVars
<1>1. CASE UNCHANGED vars  BY <1>1, <1>e DEF vars
<1>2. CASE \E m \in Members : MemberStep(m) \/ DetachedDone(m)
  BY <1>2, <1>e DEF MemberStep, Dispatch, Answer, FallBack, LeaderCancelled, DetachedDone
<1>3. CASE PumpStep  BY <1>3, <1>e DEF PumpStep, PumpChunk, PumpEnd
<1>4. CASE Start
  <2>1. Plain  BY <1>4, <1>c DEF Start
  <2>2. Carded = {} /\ ~Published("synthesis_started")
    BY <1>4 DEF Start, FeedShape, Carded, Published
  <2>3. Carded' \subseteq {0} /\ ~Published("synthesis_started")'  BY <1>a, <2>1, <2>2
  <2>4. QED  BY <1>4, <1>a, <1>b, <2>1, <2>3 DEF Start, CardShape, CardsFilled, OneCardEach, Concluded
<1>5. CASE StartTasks
  BY <1>0, <1>5, <1>a, <1>b DEF StartTasks, CardShape, CardsFilled, OneCardEach, InFanOut, Concluded
<1>6. CASE WaitAgain
  BY <1>0, <1>6, <1>a, <1>b DEF WaitAgain, CardShape, CardsFilled, OneCardEach, InFanOut, Concluded
<1>7. ASSUME NEW m \in pending, NEW rest, at \in {"waiting", "reporting"}, Report(m, rest)
      PROVE  Goal
  <2>1. /\ Card(m, "reported") \in Milestones /\ Card(m, "reported").member = m
        /\ Card(m, "reported").kind # "synthesis_started" /\ m # 0
    BY <1>0, MilestoneType DEF Card
  <2>2. m \notin Carded  BY <1>0, <1>7, <1>s, <2>1 DEF Books, CardShape, InFanOut
  <2>3. /\ Carded' = Carded \union {m} /\ ~Published("synthesis_started")'
        /\ \A n : ReportedCard(n) \/ n = m => ReportedCard(n)'
        /\ OneCardEach'
    BY <1>0, <1>7, <1>b, <2>1, <2>2, FeedGrows DEF Report, CardShape, InFanOut
  <2>4. QED  BY <1>7, <2>3 DEF Report, CardShape, CardsFilled, OneCardEach, InFanOut, Concluded
<1>8. CASE Collect
  <2>1. PICK m \in pending, rest \in SUBSET pending : Handle(m, rest)  BY <1>8 DEF Collect
  <2>2. at = "waiting"  BY <1>8 DEF Collect
  <2>3. Raise(m) => Goal  BY <1>f DEF Raise, Over
  <2>4. QED  BY <1>7, <2>1, <2>2, <2>3 DEF Handle
<1>9. CASE ReportNext
  <2>1. PICK m \in pending, rest \in SUBSET pending : Handle(m, rest)
    BY <1>9, <1>s DEF ReportNext, FanShape
  <2>2. at = "reporting"  BY <1>9 DEF ReportNext
  <2>3. Raise(m) => Goal  BY <1>f DEF Raise, Over
  <2>4. QED  BY <1>7, <2>1, <2>2, <2>3 DEF Handle
<1>10. ASSUME NEW S \in SUBSET pending, Abandon(S),
              \/ at = "waiting" /\ S = pending
              \/ at = "abandoning" /\ S = stragglers
       PROVE  Goal
  <2>1. PICK m \in S, s \in {"detached", "aborted"} :
          at' = "abandoning" /\ stragglers' = S \ {m} /\ feed' = Append(feed, Card(m, s))
    BY <1>10 DEF Abandon
  <2>2. UNCHANGED <<plan, pending, outcomes>>  BY <1>10 DEF Abandon
  <2>3. /\ Card(m, s) \in Milestones /\ Card(m, s).member = m /\ m # 0
        /\ Card(m, s).kind # "synthesis_started"
    BY <1>0, MilestoneType DEF Card
  <2>4. m \notin Carded  BY <1>0, <1>10, <1>s, <2>3 DEF Books, CardShape, InFanOut
  <2>5. /\ Carded' = Carded \union {m} /\ ~Published("synthesis_started")'
        /\ \A n : ReportedCard(n) => ReportedCard(n)'
        /\ OneCardEach'
    BY <1>0, <1>10, <1>b, <2>1, <2>3, <2>4, FeedGrows DEF CardShape, InFanOut
  <2>6. pending \ S \subseteq Carded /\ Carded \subseteq {0} \union outcomes \union (pending \ S)
    BY <1>10 DEF CardShape, InFanOut
  <2>7. QED  BY <2>1, <2>2, <2>5, <2>6 DEF CardShape, CardsFilled, OneCardEach, InFanOut, Concluded
<1>11. CASE DeadlineExceeded \/ AbandonNext
  BY <1>10, <1>11, <1>s DEF DeadlineExceeded, AbandonNext, FanShape
<1>12. CASE Conclude
  <2>1. UNCHANGED <<plan, outcomes>>  BY <1>12 DEF Conclude
  <2>2. CASE Fail  BY <1>g, <2>1, <2>2
  <2>3. CASE at' \in {"shorting", "opening"} /\ UNCHANGED feed
    <3>1. \A m \in outcomes : m \in Carded  BY <1>0 DEF CardShape, ReportedCard, Carded, Card
    <3>2. Members \subseteq Carded  BY <1>12, <1>s, <3>1 DEF Conclude, TaskShape, CardShape, InFanOut, Before
    <3>3. QED  BY <1>a, <1>b, <2>1, <2>3, <3>2 DEF CardShape, CardsFilled, OneCardEach, InFanOut, Carded
  <2>4. QED  BY <1>12, <2>2, <2>3 DEF Conclude
<1>13. CASE ShortCircuit \/ ShortCircuitEnd \/ TakeChunk \/ ReadOn \/ Complete \/ Discard
  <2>1. Plain
    BY <1>13, <1>c DEF ShortCircuit, ShortCircuitEnd, TakeChunk, ReadOn, Complete, Discard,
       PublishTerminal, Finals
  <2>2. QED
    BY <1>13, <1>d, <2>1 DEF ShortCircuit, ShortCircuitEnd, TakeChunk, ReadOn, Complete, Discard,
       PublishTerminal, InFanOut, Concluded
<1>14. CASE PassThrough
  <2>1. plan.skip  BY <1>14, <1>s DEF PassThrough, FanShape
  <2>2. QED  BY <1>14, <1>d, <1>g, <2>1 DEF PassThrough, InFanOut
<1>15. CASE OpenSynthesis
  <2>1. Milestone("synthesis_started") \in Milestones /\ Milestone("synthesis_started").member = 0
    BY MilestoneType DEF Milestone
  <2>2. Carded' = Carded \union {0} /\ (\A m : ReportedCard(m) => ReportedCard(m)') /\ OneCardEach'
    BY <1>0, <1>15, <1>b, <2>1, FeedGrows DEF OpenSynthesis
  <2>3. QED  BY <1>15, <2>2 DEF OpenSynthesis, CardShape, CardsFilled, OneCardEach, InFanOut, Concluded
<1>16. CASE StreamBroken \/ ChunkUnreadable
  BY <1>16, <1>g DEF StreamBroken, ChunkUnreadable, SynthesisFails
<1>17. CASE Return \/ Close \/ CancelReading \/ CancelWaiting
  BY <1>17, <1>f DEF Return, Close, CancelReading, CancelWaiting, Over
<1>18. CASE FinalizeFanOut
  <2>1. at \notin InFanOut  BY <1>18, <1>s DEF FinalizeFanOut, FanShape
  <2>2. QED  BY <1>18, <1>d, <2>1 DEF FinalizeFanOut
<1>19. QED
  BY <1>1, <1>2, <1>3, <1>4, <1>5, <1>6, <1>8, <1>9, <1>11, <1>12, <1>13, <1>14, <1>15, <1>16,
     <1>17, <1>18
  DEF Next, Pull, Wake, GoAway

-----------------------------------------------------------------------------
(* The quorum and the synthesis                                            *)

\* Once the fan-out is over, no answer that comes in late changes the quorum.
LEMMA QuorateStable ==
  ASSUME Ledger, [Next]_vars, at \notin {"waiting", "reporting"}
  PROVE  UNCHANGED plan /\ (Quorate' <=> Quorate)
<1>0. TypeOK /\ Books /\ BookedOnce  BY DEF Ledger
<1> USE DEF streamVars, fanVars, callVars, bookVars, synthVars
<1>1. CASE \E m \in Members : Answer(m)
  <2>1. PICK m \in Members : Answer(m)  BY <1>1
  <2>2. m \notin outcomes  BY <1>0, <2>1 DEF Answer, Calling, Books, BookedOnce
  <2>3. /\ UNCHANGED <<plan, outcomes>>
        /\ \A n \in outcomes : result'[n] = result[n]
    BY <1>0, <2>1, <2>2 DEF Answer, TypeOK
  <2>4. Succeeded(outcomes)' = Succeeded(outcomes)  BY <2>3 DEF Succeeded
  <2>5. QED  BY <2>3, <2>4 DEF Quorate
<1>2. CASE UNCHANGED <<plan, outcomes, result>>  BY <1>2 DEF Quorate, Succeeded
<1>3. ASSUME ~ \E m \in Members : Answer(m)  PROVE UNCHANGED <<plan, outcomes, result>>
  <2>1. CASE UNCHANGED vars  BY <2>1 DEF vars
  <2>2. CASE \E m \in Members : Dispatch(m) \/ FallBack(m) \/ LeaderCancelled(m) \/ DetachedDone(m)
    BY <2>2 DEF Dispatch, FallBack, LeaderCancelled, DetachedDone
  <2>3. CASE Start \/ StartTasks \/ AbandonNext \/ Conclude \/ ShortCircuit \/ ShortCircuitEnd \/ PassThrough
             \/ OpenSynthesis \/ ReadOn \/ Return
    BY <2>3 DEF Start, StartTasks, AbandonNext, Abandon, Conclude, ShortCircuit,
       ShortCircuitEnd, PassThrough, OpenSynthesis, ReadOn, Return, Leave
  <2>4. CASE TakeChunk \/ Complete \/ StreamBroken \/ ChunkUnreadable \/ Discard \/ Close \/ CancelReading
             \/ FinalizeFanOut \/ PumpStep
    BY <2>4 DEF TakeChunk, Complete, StreamBroken, ChunkUnreadable, SynthesisFails, Discard, Close,
       CancelReading, Leave, FinalizeFanOut, PumpStep, PumpChunk, PumpEnd
  <2>5. ~(WaitAgain \/ DeadlineExceeded \/ Collect \/ ReportNext \/ CancelWaiting)
    BY DEF WaitAgain, DeadlineExceeded, Collect, ReportNext, CancelWaiting
  <2>6. QED  BY <1>3, <2>1, <2>2, <2>3, <2>4, <2>5 DEF Next, Pull, Wake, GoAway, MemberStep
<1>4. QED  BY <1>1, <1>2, <1>3

QuorumShape == answer = "completed" /\ ~plan.skip => Quorate
Synthesis   == SynthShape /\ QuorumShape /\ SynthesisBooked

LEMMA StepSynthesis == Ledger /\ Synthesis /\ [Next]_vars => Synthesis'
<1> SUFFICES ASSUME Ledger, Synthesis, [Next]_vars PROVE Synthesis'  OBVIOUS
<1> DEFINE Plain == UNCHANGED feed \/ \E e \in Milestones : e.kind # "completed" /\ feed' = Append(feed, e)
<1>0. TypeOK /\ FanShape /\ PumpShape /\ SynthShape /\ QuorumShape /\ SynthesisBooked
  BY DEF Ledger, Synthesis
<1>a. Plain => (Published("completed")' <=> Published("completed"))
  <2>1. CASE UNCHANGED feed  BY <2>1 DEF Published
  <2>2. CASE \E e \in Milestones : e.kind # "completed" /\ feed' = Append(feed, e)
    BY <1>0, <2>2, FeedGrows DEF TypeOK
  <2>3. QED  BY <2>1, <2>2
<1>b. feed' = Append(feed, Milestone("completed")) => Published("completed")'
  <2>1. Milestone("completed") \in Milestones /\ Milestone("completed").kind = "completed"
    BY MilestoneType DEF Finals, Milestone
  <2>2. feed \in Seq(Milestones)  BY <1>0 DEF TypeOK
  <2>3. QED  BY <2>1, <2>2, FeedGrows
<1>c. \A k \in {"fanout_started", "synthesis_started", "failed"} :
        feed' = Append(feed, Milestone(k)) => Plain
  BY MilestoneType DEF Milestone, Finals
\* Steps that neither answer nor start or end the synthesis.
<1>d. ASSUME Plain, UNCHANGED <<plan, answer, synthRows>>, pump' = "none" <=> pump = "none",
             at \notin {"waiting", "reporting"},
             \/ at' = at
             \/ at' \in Over /\ (pump # "none" /\ answer = "none" => at' \in {"closed", "cancelled"})
             \/ at' = "reading" /\ at = "answering"
             \/ at' = "answering" /\ at = "reading"
      PROVE  Synthesis'
  <2>1. Quorate' <=> Quorate  BY <1>d, QuorateStable
  <2>2. QED
    BY <1>0, <1>a, <1>d, <2>1 DEF Synthesis, SynthShape, QuorumShape, SynthesisBooked, Concluded,
       InFanOut, Over
\* Steps inside the fan-out, and those that leave it with nothing said.
<1>e. ASSUME Plain, UNCHANGED <<plan, answer, synthRows>>, pump' = "none", pump = "none",
             at \in {"start", "skipped"} \union InFanOut,
             at' \in {"skipped"} \union InFanOut \union Over
      PROVE  Synthesis'
  BY <1>0, <1>a, <1>e DEF Synthesis, SynthShape, QuorumShape, SynthesisBooked, Concluded, InFanOut, Over
<1>f. ASSUME NEW how \in Over, Leave(how)
      PROVE  Plain /\ at' = how /\ UNCHANGED <<plan, answer, synthRows>> /\ (pump' = "none" <=> pump = "none")
  BY <1>0, <1>c, <1>f DEF Leave, TypeOK
<1>g. ASSUME Fail, answer = "none", UNCHANGED <<plan, pump>>,
             synthRows' = (IF pump = "none" THEN 0 ELSE 1)
      PROVE  Synthesis'
  <2>1. Plain /\ at' = "failed" /\ answer' = "failed"  BY <1>c, <1>g DEF Fail, PublishTerminal
  <2>2. QED
    BY <1>0, <1>a, <1>g, <2>1 DEF Synthesis, SynthShape, QuorumShape, SynthesisBooked, Concluded,
       InFanOut, Over
<1> USE DEF streamVars, fanVars, callVars, bookVars, synthVars
<1>1. CASE at \in {"waiting", "reporting"} /\ UNCHANGED <<plan, answer, feed, synthRows, pump, at>>
  BY <1>0, <1>1, <1>a DEF Synthesis, SynthShape, QuorumShape, SynthesisBooked, Concluded, InFanOut, Over
<1>2. CASE UNCHANGED <<plan, answer, feed, synthRows, pump, at>>  BY <1>1, <1>2, <1>d
<1>3. CASE UNCHANGED vars  BY <1>2, <1>3 DEF vars
<1>4. CASE \E m \in Members : MemberStep(m) \/ DetachedDone(m)
  BY <1>2, <1>4 DEF MemberStep, Dispatch, Answer, FallBack, LeaderCancelled, DetachedDone
<1>5. CASE PumpChunk \/ FinalizeFanOut  BY <1>2, <1>5 DEF PumpChunk, FinalizeFanOut
<1>6. CASE PumpEnd
  <2>1. at \notin {"waiting", "reporting"}  BY <1>0, <1>6 DEF PumpEnd, PumpShape, InFanOut
  <2>2. QED  BY <1>6, <1>d, <2>1 DEF PumpEnd
<1>7. CASE Start
  BY <1>0, <1>7, <1>c, <1>e DEF Start, PumpShape, InFanOut
<1>8. CASE StartTasks \/ WaitAgain
  BY <1>0, <1>8, <1>e DEF StartTasks, WaitAgain, PumpShape, InFanOut
<1>9. CASE Collect \/ ReportNext
  <2>1. PICK m \in Members, rest \in SUBSET Members : Handle(m, rest)
    BY <1>0, <1>9 DEF Collect, ReportNext, TypeOK
  <2>2. at \in {"waiting", "reporting"} /\ pump = "none"
    BY <1>0, <1>9 DEF Collect, ReportNext, PumpShape, InFanOut
  <2>3. CASE Report(m, rest)
    <3>1. Plain  BY <2>3, MilestoneType DEF Report, Card
    <3>2. QED  BY <1>e, <2>2, <2>3, <3>1 DEF Report, InFanOut
  <2>4. CASE Raise(m)
    <3>1. Leave("raised") /\ "raised" \in Over  BY <2>4 DEF Raise, Over
    <3>2. QED  BY <1>e, <1>f, <2>2, <3>1 DEF InFanOut
  <2>5. QED  BY <2>1, <2>3, <2>4 DEF Handle
<1>10. CASE DeadlineExceeded \/ AbandonNext
  <2>1. PICK m \in Members, s \in {"detached", "aborted"} : feed' = Append(feed, Card(m, s))
    BY <1>0, <1>10 DEF DeadlineExceeded, AbandonNext, Abandon, TypeOK
  <2>2. Plain  BY <2>1, MilestoneType DEF Card
  <2>3. QED  BY <1>0, <1>10, <1>e, <2>2 DEF DeadlineExceeded, AbandonNext, Abandon, PumpShape, InFanOut
<1>11. CASE Conclude
  <2>1. answer = "none" /\ pump = "none" /\ synthRows = 0 /\ UNCHANGED <<plan, pump, synthRows, outcomes, result>>
    BY <1>0, <1>11 DEF Conclude, SynthShape, PumpShape, InFanOut
  <2>2. CASE Fail  BY <1>g, <2>1, <2>2
  <2>3. CASE Quorate /\ at' \in {"shorting", "opening"} /\ UNCHANGED <<answer, feed>>
    <3>1. Quorate'  BY <2>1, <2>3 DEF Quorate, Succeeded
    <3>2. QED
      BY <1>0, <1>a, <2>1, <2>3, <3>1 DEF Synthesis, SynthShape, QuorumShape, SynthesisBooked, InFanOut, Over
  <2>4. QED  BY <1>11, <2>2, <2>3 DEF Conclude
<1>12. CASE ShortCircuit
  <2>1. Quorate' <=> Quorate  BY <1>12, QuorateStable DEF ShortCircuit
  <2>2. at = "shorting" /\ pump = "none"  BY <1>0, <1>12 DEF ShortCircuit, PumpShape
  <2>3. QED
    BY <1>0, <1>12, <1>a, <2>1, <2>2 DEF ShortCircuit, Synthesis, SynthShape, QuorumShape, SynthesisBooked,
       Concluded, InFanOut, Over
<1>13. CASE ShortCircuitEnd
  <2>1. Quorate' <=> Quorate  BY <1>13, QuorateStable DEF ShortCircuitEnd
  <2>2. at = "shortDone" /\ pump = "none" /\ answer = "completed"
    BY <1>0, <1>13 DEF ShortCircuitEnd, PumpShape, SynthShape
  <2>3. QED
    BY <1>0, <1>13, <2>1, <2>2 DEF ShortCircuitEnd, Synthesis, SynthShape, QuorumShape,
       SynthesisBooked, Concluded, InFanOut, Over
<1>14. CASE PassThrough
  <2>1. answer = "none" /\ pump = "none" /\ synthRows = 0 /\ plan.skip /\ UNCHANGED <<plan, pump, synthRows>>
    BY <1>0, <1>14 DEF PassThrough, SynthShape, PumpShape, FanShape
  <2>2. CASE Fail  BY <1>g, <2>1, <2>2
  <2>3. CASE at' = "opening" /\ UNCHANGED <<answer, feed>>
    BY <1>0, <1>a, <2>1, <2>3 DEF Synthesis, SynthShape, QuorumShape, SynthesisBooked, InFanOut, Over
  <2>4. QED  BY <1>14, <2>2, <2>3 DEF PassThrough
<1>15. CASE OpenSynthesis
  <2>1. Quorate' <=> Quorate  BY <1>15, QuorateStable DEF OpenSynthesis
  <2>2. Plain  BY <1>15, <1>c DEF OpenSynthesis
  <2>3. at = "opening" /\ answer = "none" /\ pump = "none"
    BY <1>0, <1>15 DEF OpenSynthesis, SynthShape, PumpShape
  <2>4. QED
    BY <1>0, <1>15, <1>a, <2>1, <2>2, <2>3 DEF OpenSynthesis, Synthesis, SynthShape, QuorumShape,
       SynthesisBooked, Concluded, InFanOut, Over
<1>16. CASE TakeChunk \/ ReadOn
  BY <1>16, <1>d DEF TakeChunk, ReadOn
<1>17. CASE Complete
  <2>1. Quorate' <=> Quorate  BY <1>17, QuorateStable DEF Complete
  <2>2. at = "reading" /\ synthRows = 0 /\ pump = "finished"  BY <1>0, <1>17 DEF Complete, SynthShape
  <2>3. synthRows' = 1 /\ at' = "completed" /\ answer' = "completed" /\ UNCHANGED <<plan, pump>>
    BY <1>17, <2>2 DEF Complete
  <2>4. QED
    BY <1>0, <2>1, <2>2, <2>3 DEF Synthesis, SynthShape, QuorumShape, SynthesisBooked, Concluded, InFanOut, Over
<1>18. CASE StreamBroken \/ ChunkUnreadable
  <2>1. at \in {"reading", "answering"} /\ SynthesisFails
    BY <1>18 DEF StreamBroken, ChunkUnreadable
  <2>2. answer = "none" /\ synthRows = 0 /\ pump # "none"  BY <1>0, <2>1 DEF SynthShape
  <2>3. QED  BY <1>g, <2>1, <2>2 DEF SynthesisFails
<1>19. CASE Return \/ Close \/ CancelReading \/ CancelWaiting
  <2>1. PICK how \in Over : Leave(how)
    BY <1>19 DEF Return, Close, CancelReading, CancelWaiting, Over
  <2>2. CASE at \in {"waiting", "reporting"}
    BY <1>0, <1>e, <1>f, <2>1, <2>2 DEF PumpShape, InFanOut
  <2>3. pump # "none" /\ answer = "none" => at' \in {"closed", "cancelled"}
    BY <1>0, <1>19 DEF Return, Close, CancelReading, CancelWaiting, Leave, SynthShape
  <2>4. QED  BY <1>d, <1>f, <2>1, <2>2, <2>3
<1>20. CASE Discard
  <2>1. pump = "none"  BY <1>0, <1>20 DEF Discard, PumpShape
  <2>2. QED  BY <1>20, <1>d, <2>1 DEF Discard, Over
<1>21. QED
  BY <1>3, <1>4, <1>5, <1>6, <1>7, <1>8, <1>9, <1>10, <1>11, <1>12, <1>13, <1>14, <1>15, <1>16,
     <1>17, <1>18, <1>19, <1>20
  DEF Next, Pull, Wake, GoAway, PumpStep

-----------------------------------------------------------------------------
(* What the consumer and the watchers were told                            *)

Stated == FeedShape /\ FeedCloses /\ CardShape /\ CardsFilled /\ Synthesis

LEMMA InitStated == Init => Stated
<1> SUFFICES ASSUME Init PROVE Stated  OBVIOUS
<1>1. FeedShape /\ FeedCloses  BY DEF Init, FeedShape, FeedCloses, Over
<1>2. CardShape /\ CardsFilled
  BY <1>1 DEF Init, CardShape, CardsFilled, Published, Carded, InFanOut, Concluded
<1>3. Synthesis
  BY DEF Init, Synthesis, SynthShape, QuorumShape, SynthesisBooked, Published, InFanOut, Concluded, Over
<1>4. QED  BY <1>1, <1>2, <1>3 DEF Stated

LEMMA StepStated == Ledger /\ Stated /\ [Next]_vars => Stated'
BY StepFeed, StepCards, StepSynthesis DEF Stated

\* What Books and CardShape say of the reported seats completes the quorum.
LEMMA QuorumFollows == Ledger /\ Stated => QuorumHeld
<1> SUFFICES ASSUME Ledger, Stated PROVE QuorumHeld  OBVIOUS
<1>1. outcomes \subseteq Members  BY DEF Ledger, TypeOK
<1>2. \A m \in outcomes : seatRows[m] = 1 /\ ReportedCard(m)
  BY <1>1 DEF Ledger, Stated, Books, CardShape
<1>3. QED  BY <1>2 DEF Stated, Synthesis, QuorumShape, QuorumHeld

LEMMA Inductive == Spec => []IInv
<1>1. Ledger /\ Stated => IInv
  BY QuorumFollows DEF Stated, Synthesis, Told, IInv
<1>2. QED
  BY <1>1, LedgerKept, InitStated, StepStated, PTL DEF Spec

\* A run that is over has one terminal milestone, its last, on every way out of
\* run_ensemble (its `finally` and the flag terminal_published).
THEOREM WatchersReleased == Spec => []FeedCloses
<1>1. IInv => FeedCloses  BY DEF IInv, Told
<1>2. QED  BY <1>1, Inductive, PTL

\* Each seat has one card at most, and all have one when the synthesis starts.
THEOREM SeatsCarded == Spec => []CardsFilled
<1>1. IInv => CardsFilled  BY DEF IInv, Told
<1>2. QED  BY <1>1, Inductive, PTL

\* Both: the progress feed has every card once and one terminal milestone.
THEOREM FeedIsWhole == Spec => []FeedWhole
BY WatchersReleased, SeatsCarded, PTL DEF FeedWhole

\* A completed run had its quorum among the members reported in time, and they
\* are recorded and shown.
THEOREM QuorumIsHeld == Spec => []QuorumHeld
<1>1. IInv => QuorumHeld  BY DEF IInv, Told
<1>2. QED  BY <1>1, Inductive, PTL

\* The synthesis has one row if the client was told its end and none if the
\* client left it, and stream and feed do not contradict each other.
THEOREM SynthesisIsBooked == Spec => []SynthesisBooked
<1>1. IInv => SynthesisBooked  BY DEF IInv, Told
<1>2. QED  BY <1>1, Inductive, PTL

\* Both: in a panel of any width no call is booked twice, and the synthesis is
\* booked exactly when its client was told how it ended.
THEOREM SpendIsOnce == Spec => []SpendOnce
BY SpendBookedOnce, SynthesisIsBooked, PTL DEF SpendOnce

-----------------------------------------------------------------------------
(* What a run promises                                                     *)

\* The fate of a call that has a row is that it is booked; of another, what its
\* task says.
LEMMA FateIs ==
  ASSUME NEW rows \in {0, 1}, NEW status \in TaskStates
  PROVE  /\ Fate(rows, status) = "booked" <=> rows = 1
         /\ Fate(rows, status) = "out" <=> rows = 0 /\ status \in Live
         /\ Fate(rows, status) = "answered" <=> rows = 0 /\ status = "done"
         /\ Fate(rows, status) = "lost" <=> rows = 0 /\ status = "cancelled"
         /\ Fate(rows, status) = "none" <=> rows = 0 /\ status = "none"
<1>1. CASE rows = 1  BY <1>1 DEF Fate
<1>2. CASE rows = 0
  <2>1. CASE status \in Live  BY <1>2, <2>1 DEF Fate, Live
  <2>2. CASE status \in {"done", "cancelled", "none"}  BY <1>2, <2>2 DEF Fate, Live
  <2>3. QED  BY <2>1, <2>2 DEF TaskStates
<1>3. QED  BY <1>1, <1>2

\* Before and after a step every call has one of these.
LEMMA FateFacts ==
  ASSUME Ledger, [Next]_vars, NEW m \in Members
  PROVE  /\ seatRows[m] \in {0, 1} /\ task[m] \in TaskStates
         /\ seatRows'[m] \in {0, 1} /\ task'[m] \in TaskStates
         /\ Fates[m] = Fate(seatRows[m], task[m])
         /\ Fates'[m] = Fate(seatRows'[m], task'[m])
<1>1. Ledger'  BY StepLedger
<1>2. seatRows[m] \in {0, 1} /\ task[m] \in TaskStates  BY DEF Ledger, TypeOK, BookedOnce
<1>3. seatRows'[m] \in {0, 1} /\ task'[m] \in TaskStates  BY <1>1 DEF Ledger, TypeOK, BookedOnce
<1>4. Fates[m] = Fate(seatRows[m], task[m]) /\ Fates'[m] = Fate(seatRows'[m], task'[m])
  BY Zenon DEF Fates
<1>5. QED  BY <1>2, <1>3, <1>4

\* A step that touches neither tasks nor rows keeps the fates.
LEMMA FatesKept ==
  ASSUME UNCHANGED <<task, seatRows>>
  PROVE  Fates' = Fates
BY DEF Fates

\* A step that touches those of one member settles that member's.
LEMMA FateMoves ==
  ASSUME NEW n \in Members, NEW f, Fates'[n] = f,
         \A m \in Members \ {n} : task'[m] = task[m] /\ seatRows'[m] = seatRows[m]
  PROVE  Fates' = [Fates EXCEPT ![n] = f]
<1>1. Fates' = [m \in Members |-> Fate(seatRows'[m], task'[m])]  BY DEF Fates
<1>2. \A m \in Members \ {n} : Fates'[m] = Fates[m]  BY <1>1 DEF Fates
<1>3. QED  BY <1>1, <1>2 DEF Fates

\* Leaving _fan_out recalls every call that is out, or none.
LEMMA LeaveRecalls ==
  ASSUME Ledger, [Next]_vars, NEW left, LeaveFanOut(left), UNCHANGED <<plan, seatRows>>,
         \A m \in Members : ~plan.detach /\ task[m] \in Live => m \in left
  PROVE  Promise!Recall \/ Fates' = Fates
<1>1. CASE plan.detach
  <2>1. UNCHANGED task  BY <1>1 DEF LeaveFanOut
  <2>2. QED  BY <2>1, FatesKept
<1>2. CASE ~plan.detach
  <2>1. task' = [m \in Members |-> IF m \in left /\ task[m] \in Live THEN "cancelled" ELSE task[m]]
    BY <1>2 DEF LeaveFanOut
  <2>2. ASSUME NEW m \in Members
        PROVE  Fates'[m] = IF Fates[m] = "out" THEN "lost" ELSE Fates[m]
    <3>1. /\ seatRows[m] \in {0, 1} /\ task[m] \in TaskStates
          /\ seatRows'[m] \in {0, 1} /\ task'[m] \in TaskStates
          /\ Fates[m] = Fate(seatRows[m], task[m])
          /\ Fates'[m] = Fate(seatRows'[m], task'[m])
      BY FateFacts
    <3>2. CASE task[m] \in Live
      <4>1. seatRows[m] = 0 /\ seatRows'[m] = 0  BY <3>2 DEF Ledger, TaskShape
      <4>2. task'[m] = "cancelled"  BY <1>2, <2>1, <3>2
      <4>3. Fates[m] = "out"  BY <3>1, <3>2, <4>1, FateIs
      <4>4. Fates'[m] = "lost"  BY <3>1, <4>1, <4>2, FateIs
      <4>5. QED  BY <4>3, <4>4
    <3>3. CASE task[m] \notin Live
      <4>1. task'[m] = task[m]  BY <2>1, <3>3
      <4>2. Fates[m] # "out"  BY <3>1, <3>3, FateIs
      <4>3. QED  BY <3>1, <4>1, <4>2
    <3>4. QED  BY <3>2, <3>3
  <2>3. Fates' = [m \in Members |-> IF Fates[m] = "out" THEN "lost" ELSE Fates[m]]
    BY <2>2 DEF Fates
  <2>4. ~Agreed.keeps  BY <1>2 DEF Agreed
  <2>5. QED  BY <2>3, <2>4 DEF Promise!Recall
<1>3. QED  BY <1>1, <1>2

\* A milestone shows the watchers an end if it is one.
LEMMA ShownNext ==
  ASSUME TypeOK, NEW e \in Milestones, feed' = Append(feed, e)
  PROVE  Shown' = IF e.kind \in Finals THEN e.kind ELSE "open"
BY FeedAppend DEF TypeOK, Shown

\* A run that is going on has shown an end only where the flag says so.
LEMMA ShownOpen ==
  ASSUME Ledger, FeedShape, at \notin Over
  PROVE  Shown = "open" <=> ~terminal_published
<1>1. feed \in Seq(Milestones) /\ terminal_published \in BOOLEAN  BY DEF Ledger, TypeOK
<1>2. feed # <<>> => Len(feed) \in DOMAIN feed  BY <1>1
<1>3. QED  BY <1>1, <1>2 DEF FeedShape, Shown, Finals

\* Leaving run_ensemble shows the watchers an end, if they were shown none.
LEMMA LeaveEnds ==
  ASSUME Ledger, FeedShape, at \notin Over \union {"start"}, NEW how \in Over, Leave(how),
         answer = "failed" => terminal_published
  PROVE  Promise!End /\ Agreed' = Agreed
<1>1. Stage = "on" /\ Stage' = "over"  BY DEF Stage, Leave, Over
<1>2. UNCHANGED answer /\ Agreed' = Agreed  BY DEF Leave, Agreed
<1>3. CASE terminal_published
  <2>1. Shown # "open" /\ Shown' = Shown  BY <1>3, ShownOpen DEF Leave, Shown
  <2>2. QED  BY <1>1, <1>2, <2>1 DEF Promise!End
<1>4. CASE ~terminal_published
  <2>1. Shown = "open"  BY <1>4, ShownOpen
  <2>2. Milestone("failed") \in Milestones /\ Milestone("failed").kind = "failed" /\ "failed" \in Finals
    BY MilestoneType DEF Milestone, Finals
  <2>3. Shown' = "failed"  BY <1>4, <2>2, ShownNext DEF Leave, Ledger
  <2>4. QED  BY <1>1, <1>2, <1>4, <2>1, <2>3 DEF Promise!End
<1>5. QED  BY <1>3, <1>4

\* A failure is told and shown at once.
LEMMA FailFails ==
  ASSUME Ledger, FeedShape, at \notin Over \union {"start"}, ~terminal_published, answer = "none", Fail
  PROVE  Promise!Fail
<1>1. Shown = "open"  BY ShownOpen
<1>2. Milestone("failed") \in Milestones /\ Milestone("failed").kind = "failed" /\ "failed" \in Finals
  BY MilestoneType DEF Milestone, Finals
<1>3. Shown' = "failed"  BY <1>2, ShownNext DEF Fail, PublishTerminal, Ledger
<1>4. Stage = "on" /\ Stage' = "on"  BY DEF Stage, Fail, Over
<1>5. QED  BY <1>1, <1>3, <1>4 DEF Promise!Fail, Fail

\* Whoever goes on after the panel has the quorum, in booked answers.
LEMMA EnoughBooked ==
  ASSUME Ledger, SynthShape, at \in Concluded
  PROVE  Promise!Enough
<1> DEFINE booked == {m \in Members : Fates[m] = "booked"}
<1>1. /\ Agreed.asks => ~plan.skip
      /\ Agreed.quorums = {S \in SUBSET Members : Cardinality(S) >= plan.quorum}
      /\ Promise!Booked = booked
  BY DEF Agreed, Promise!Booked
<1>2. Succeeded(outcomes) \subseteq booked
  <2>1. ASSUME NEW m \in outcomes  PROVE m \in Members /\ Fates[m] = "booked"
    <3>1. m \in Members /\ seatRows[m] = 1 /\ task[m] \in TaskStates  BY DEF Ledger, TypeOK, Books
    <3>2. Fates[m] = Fate(seatRows[m], task[m])  BY <3>1 DEF Fates
    <3>3. QED  BY <3>1, <3>2, FateIs
  <2>2. QED  BY <2>1 DEF Succeeded
<1>3. IsFiniteSet(Members)  BY FS_Interval, RunAssumption DEF Members
<1>4. IsFiniteSet(booked)  BY <1>3, FS_Subset
<1>5. /\ Cardinality(Succeeded(outcomes)) <= Cardinality(booked) /\ Cardinality(booked) \in Nat
      /\ Cardinality(Succeeded(outcomes)) \in Nat
  BY <1>2, <1>4, FS_Subset, FS_CardinalityType
<1>6. ~plan.skip => Cardinality(Succeeded(outcomes)) >= plan.quorum
  BY DEF SynthShape, Quorate
<1>7. plan.quorum \in Nat  BY RunAssumption DEF Ledger, TypeOK
<1> HIDE DEF booked
<1>8. ~plan.skip => Cardinality(booked) >= plan.quorum  BY <1>5, <1>6, <1>7
<1>9. booked \in SUBSET Members  BY DEF booked
<1>10. QED  BY <1>1, <1>8, <1>9 DEF Promise!Enough

\* A vote is a panel's: passthrough turns are not asked for one.
Votes == at \in {"shorting", "shortDone"} => ~plan.skip

\* Only a panel that concludes is asked for a vote.
LEMMA VotesKept == Ledger /\ Votes /\ [Next]_vars => Votes'
<1> SUFFICES ASSUME Ledger, Votes, [Next]_vars, at' \in {"shorting", "shortDone"} PROVE ~plan'.skip
  BY DEF Votes
<1> USE DEF streamVars, fanVars, callVars, bookVars, synthVars, Ledger, FanShape, InFanOut
<1>1. CASE Conclude  BY <1>1 DEF Conclude
<1>2. CASE ShortCircuit  BY <1>2 DEF ShortCircuit, Votes
<1>3. CASE UNCHANGED <<plan, at>>  BY <1>3 DEF Votes
<1>4. at' # at => Conclude \/ ShortCircuit
  BY DEF Next, Pull, Wake, GoAway, MemberStep, PumpStep, Start, StartTasks, ReportNext, Collect, Handle, Report,
     Raise, WaitAgain, AbandonNext, DeadlineExceeded, Abandon, ShortCircuitEnd, PassThrough,
     OpenSynthesis, ReadOn, Return, TakeChunk, Complete, StreamBroken, ChunkUnreadable,
     SynthesisFails, Fail, Leave, Discard, Close, CancelWaiting, CancelReading, FinalizeFanOut,
     PumpChunk, PumpEnd, Dispatch, Answer, FallBack, LeaderCancelled, DetachedDone, vars
<1>5. plan' = plan
  BY DEF Next, Pull, Wake, GoAway, MemberStep, PumpStep, Start, StartTasks, ReportNext, Collect, Handle, Report,
     Raise, WaitAgain, AbandonNext, DeadlineExceeded, Abandon, Conclude, ShortCircuit, ShortCircuitEnd,
     PassThrough, OpenSynthesis, ReadOn, Return, TakeChunk, Complete, StreamBroken, ChunkUnreadable,
     SynthesisFails, Leave, Discard, Close, CancelWaiting, CancelReading, FinalizeFanOut,
     PumpChunk, PumpEnd, Dispatch, Answer, FallBack, LeaderCancelled, DetachedDone, vars
<1>6. QED  BY <1>1, <1>2, <1>3, <1>4, <1>5

\* Steps of the members' tasks and of the callbacks of those that were detached.
LEMMA CallsRefine ==
  ASSUME Ledger, [Next]_vars, NEW m \in Members, MemberStep(m) \/ DetachedDone(m)
  PROVE  Promise!Calls \/ UNCHANGED Promise!vars
<1> DEFINE Goal == Promise!Calls \/ UNCHANGED Promise!vars
<1> SUFFICES Goal  OBVIOUS
<1>1. UNCHANGED <<plan, at, answer, feed>>
  BY DEF MemberStep, Dispatch, Answer, FallBack, LeaderCancelled, DetachedDone, streamVars
<1>2. Agreed' = Agreed /\ Stage' = Stage /\ answer' = answer /\ Shown' = Shown
  BY <1>1 DEF Agreed, Stage, Shown
<1>3. /\ seatRows[m] \in {0, 1} /\ task[m] \in TaskStates
      /\ seatRows'[m] \in {0, 1} /\ task'[m] \in TaskStates
      /\ Fates[m] = Fate(seatRows[m], task[m])
      /\ Fates'[m] = Fate(seatRows'[m], task'[m])
  BY FateFacts
<1>4. \A n \in Members \ {m} : task'[n] = task[n] /\ seatRows'[n] = seatRows[n]
  BY DEF MemberStep, Dispatch, Answer, FallBack, LeaderCancelled, DetachedDone, Ledger, TypeOK,
         callVars, bookVars
<1>5. task[m] \in Live => seatRows[m] = 0  BY DEF Ledger, TaskShape
<1>6. task \in [Members -> TaskStates] /\ seatRows \in [Members -> Nat]  BY DEF Ledger, TypeOK
<1>7. \A f : Fates'[m] = f => Fates' = [Fates EXCEPT ![m] = f]  BY <1>4, FateMoves
<1>8. Fates = [Fates EXCEPT ![m] = Fates[m]]  BY DEF Fates
<1>9. ASSUME Fates'[m] = Fates[m]  PROVE Goal
  BY <1>2, <1>7, <1>8, <1>9 DEF Promise!vars
<1>10. CASE Dispatch(m) \/ FallBack(m)
  <2>1. task[m] \in Live /\ task'[m] \in Live /\ seatRows'[m] = seatRows[m]
    BY <1>6, <1>10 DEF Dispatch, FallBack, Live, bookVars
  <2>2. Fates[m] = "out" /\ Fates'[m] = "out"  BY <1>3, <1>5, <2>1, FateIs
  <2>3. QED  BY <1>9, <2>2
<1>11. CASE Answer(m)
  <2>1. task[m] \in Live /\ task'[m] = "done" /\ seatRows'[m] = seatRows[m]
    BY <1>6, <1>11 DEF Answer, Calling, Live, bookVars
  <2>2. Fates[m] = "out" /\ Fates'[m] = "answered"  BY <1>3, <1>5, <2>1, FateIs
  <2>3. Promise!Return(m)  BY <1>7, <2>2 DEF Promise!Return
  <2>4. QED  BY <1>2, <2>3 DEF Promise!Calls
<1>12. CASE LeaderCancelled(m)
  <2>1. task[m] \in Live /\ task'[m] = "cancelled" /\ seatRows'[m] = seatRows[m] /\ SharedCalls
    BY <1>6, <1>12 DEF LeaderCancelled, Calling, Live, bookVars
  <2>2. Fates[m] = "out" /\ Fates'[m] = "lost"  BY <1>3, <1>5, <2>1, FateIs
  <2>3. Promise!Lose(m)  BY <1>7, <2>1, <2>2 DEF Promise!Lose
  <2>4. QED  BY <1>2, <2>3 DEF Promise!Calls
<1>13. CASE DetachedDone(m)
  <2>1. /\ plan.detach /\ seatRows[m] = 0 /\ task'[m] = task[m]
        /\ task[m] = "done" => seatRows'[m] = 1
        /\ task[m] = "cancelled" => seatRows'[m] = 0
        /\ task[m] \in {"done", "cancelled"}
    BY <1>6, <1>13 DEF DetachedDone, Finished, Ledger, Books, callVars
  <2>2. CASE task[m] = "done"
    <3>1. Fates[m] = "answered" /\ Fates'[m] = "booked"  BY <1>3, <2>1, <2>2, FateIs
    <3>2. Agreed.keeps  BY <2>1 DEF Agreed
    <3>3. Promise!Book(m)  BY <1>7, <3>1, <3>2 DEF Promise!Book
    <3>4. QED  BY <1>2, <3>3 DEF Promise!Calls
  <2>3. CASE task[m] = "cancelled"
    <3>1. Fates'[m] = Fates[m]  BY <1>3, <2>1, <2>3
    <3>2. QED  BY <1>9, <3>1
  <2>4. QED  BY <2>1, <2>2, <2>3
<1>14. QED  BY <1>10, <1>11, <1>12, <1>13 DEF MemberStep

\* What holds of a run besides its ledger when a step is taken.
Going == FeedShape /\ SynthShape /\ Votes

\* Before a run has an end nothing was told or shown.
LEMMA NothingTold ==
  ASSUME Ledger, Going
  PROVE  /\ at \in InFanOut \union {"skipped", "opening", "shorting"} =>
              answer = "none" /\ ~terminal_published
         /\ at \in {"reading", "answering"} => answer = "none" /\ ~terminal_published
         /\ at = "shortDone" => answer = "completed" /\ ~terminal_published
         /\ at \in AtYield \union AtAwait /\ answer = "failed" => terminal_published
BY DEF Going, SynthShape, FeedShape, Ledger, TypeOK, InFanOut, AtYield, AtAwait, Over

\* A step that says nothing of the end, and does nothing to the calls.
LEMMA Stutters ==
  ASSUME Ledger, Going, UNCHANGED <<plan, answer, task, seatRows>>,
         at \notin Over \union {"start"}, at' \notin Over \union {"start"},
         \/ UNCHANGED feed
         \/ /\ ~terminal_published
            /\ \E e \in Milestones : e.kind \notin Finals /\ feed' = Append(feed, e)
  PROVE  UNCHANGED Promise!vars
<1>1. Agreed' = Agreed /\ Stage' = Stage  BY DEF Agreed, Stage
<1>2. Fates' = Fates  BY FatesKept
<1>3. Shown' = Shown
  <2>1. CASE UNCHANGED feed  BY <2>1 DEF Shown
  <2>2. CASE ~terminal_published /\ \E e \in Milestones : e.kind \notin Finals /\ feed' = Append(feed, e)
    <3>1. Shown = "open"  BY <2>2, ShownOpen DEF Going
    <3>2. Shown' = "open"  BY <2>2, ShownNext DEF Ledger
    <3>3. QED  BY <3>1, <3>2
  <2>3. QED  BY <2>1, <2>2
<1>4. QED  BY <1>1, <1>2, <1>3 DEF Promise!vars

\* The panel: it is asked at once, and each answer that is reported is booked.
LEMMA PanelRefines ==
  ASSUME Ledger, Going, [Next]_vars,
         Start \/ StartTasks \/ WaitAgain \/ DeadlineExceeded \/ AbandonNext \/ Discard
  PROVE  Promise!Next \/ UNCHANGED Promise!vars
<1> USE DEF streamVars, fanVars, callVars, bookVars, synthVars
<1>1. CASE Start
  <2>1. Fates' = Fates /\ Agreed' = Agreed  BY <1>1, FatesKept DEF Start, Agreed
  <2>2. feed = <<>>  BY <1>1 DEF Start, Going, FeedShape
  <2>3. Shown = "open"  BY <2>2 DEF Shown
  <2>4. Shown' = "open"
    <3>1. Milestone("fanout_started") \in Milestones /\ Milestone("fanout_started").kind \notin Finals
      BY MilestoneType DEF Milestone, Finals
    <3>2. QED  BY <1>1, <3>1, ShownNext DEF Start, Ledger
  <2>5. Stage = "new" /\ Stage' = "on"  BY <1>1 DEF Stage, Start, Over
  <2>6. Promise!Begin  BY <1>1, <2>1, <2>3, <2>4, <2>5 DEF Promise!Begin, Start
  <2>7. QED  BY <2>6 DEF Promise!Next
<1>2. CASE Discard
  <2>1. Fates' = Fates /\ Agreed' = Agreed /\ Shown' = Shown  BY <1>2, FatesKept DEF Discard, Agreed, Shown
  <2>2. Stage = "new" /\ Stage' = "over"  BY <1>2 DEF Stage, Discard, Over
  <2>3. Promise!Begin  BY <1>2, <2>1, <2>2 DEF Promise!Begin, Discard
  <2>4. QED  BY <2>3 DEF Promise!Next
<1>3. CASE StartTasks
  <2>1. Agreed' = Agreed /\ Shown' = Shown /\ answer' = answer  BY <1>3 DEF StartTasks, Agreed, Shown
  <2>2. Stage = "on" /\ Stage' = "on"  BY <1>3 DEF Stage, StartTasks, Over
  <2>3. Agreed.asks
    <3>1. ~plan.skip  BY <1>3 DEF StartTasks, Ledger, FanShape, InFanOut
    <3>2. QED  BY <3>1 DEF Agreed
  <2>4. ASSUME NEW m \in Members  PROVE Fates[m] = "none" /\ Fates'[m] = "out"
    <3>1. /\ seatRows[m] \in {0, 1} /\ task[m] \in TaskStates
          /\ seatRows'[m] \in {0, 1} /\ task'[m] \in TaskStates
          /\ Fates[m] = Fate(seatRows[m], task[m])
          /\ Fates'[m] = Fate(seatRows'[m], task'[m])
      BY FateFacts
    <3>2. task[m] = "none" /\ seatRows[m] = 0 /\ seatRows'[m] = 0 /\ task'[m] = "queued"
      BY <1>3 DEF StartTasks, Ledger, TaskShape, Before
    <3>3. QED  BY <3>1, <3>2, FateIs DEF Live
  <2>5. Fates' = [m \in Members |-> "out"]  BY <2>4 DEF Fates
  <2>6. Promise!Ask  BY <2>2, <2>3, <2>4, <2>5 DEF Promise!Ask
  <2>7. QED  BY <2>1, <2>2, <2>6 DEF Promise!Next, Promise!Calls
<1>4. CASE WaitAgain
  BY <1>4, Stutters DEF WaitAgain, Over
<1>5. CASE DeadlineExceeded \/ AbandonNext
  <2>1. PICK m \in Members, s \in {"detached", "aborted"} : feed' = Append(feed, Card(m, s))
    BY <1>5 DEF DeadlineExceeded, AbandonNext, Abandon, Ledger, TypeOK
  <2>2. Card(m, s) \in Milestones /\ Card(m, s).kind \notin Finals
    BY MilestoneType DEF Card, Finals
  <2>3. at \in {"waiting", "abandoning"} /\ at' = "abandoning"
    BY <1>5 DEF DeadlineExceeded, AbandonNext, Abandon
  <2>4. UNCHANGED <<plan, answer, task, seatRows>>
    BY <1>5 DEF DeadlineExceeded, AbandonNext, Abandon
  <2>5. ~terminal_published  BY <2>3, NothingTold DEF InFanOut
  <2>6. QED  BY <2>1, <2>2, <2>3, <2>4, <2>5, Stutters DEF Over
<1>6. QED  BY <1>1, <1>2, <1>3, <1>4, <1>5

\* A cancelled call of another request's ends the run, which shows it failed.
LEMMA HandleRefines ==
  ASSUME Ledger, Going, [Next]_vars, at \in {"waiting", "reporting"},
         NEW m \in pending, NEW rest, Handle(m, rest)
  PROVE  Promise!Next
<1> USE DEF streamVars, fanVars, callVars, bookVars, synthVars
<1>0. m \in Members /\ seatRows[m] = 0 /\ ~terminal_published /\ answer = "none"
      /\ at \notin Over \union {"start"}
  BY NothingTold DEF Ledger, TypeOK, Books, InFanOut, Over
<1>1. CASE task[m] = "done" /\ Report(m, rest)
  <2>1. Agreed' = Agreed /\ answer' = answer  BY <1>1 DEF Report, Agreed
  <2>2. Stage = "on" /\ Stage' = "on"  BY <1>0, <1>1 DEF Stage, Report, Over
  <2>3. Shown' = Shown
    <3>1. Card(m, "reported") \in Milestones /\ Card(m, "reported").kind \notin Finals
      BY <1>0, MilestoneType DEF Card, Finals
    <3>2. Shown' = "open"  BY <1>1, <3>1, ShownNext DEF Report, Ledger
    <3>3. Shown = "open"  BY <1>0, ShownOpen DEF Going
    <3>4. QED  BY <3>2, <3>3
  <2>4. /\ seatRows[m] \in {0, 1} /\ task[m] \in TaskStates
        /\ seatRows'[m] \in {0, 1} /\ task'[m] \in TaskStates
        /\ Fates[m] = Fate(seatRows[m], task[m])
        /\ Fates'[m] = Fate(seatRows'[m], task'[m])
    BY <1>0, FateFacts
  <2>5. seatRows'[m] = 1 /\ \A n \in Members \ {m} : task'[n] = task[n] /\ seatRows'[n] = seatRows[n]
    BY <1>0, <1>1 DEF Report, Ledger, TypeOK
  <2>6. Fates[m] = "answered" /\ Fates'[m] = "booked"  BY <1>0, <1>1, <2>4, <2>5, FateIs
  <2>7. Fates' = [Fates EXCEPT ![m] = "booked"]  BY <1>0, <2>5, <2>6, FateMoves
  <2>8. Promise!Book(m)  BY <2>2, <2>6, <2>7 DEF Promise!Book
  <2>9. QED  BY <1>0, <2>1, <2>2, <2>3, <2>8 DEF Promise!Next, Promise!Calls
<1>2. CASE task[m] = "cancelled" /\ Raise(m)
  <2>1. /\ LeaveFanOut(pending \ {m}) /\ Leave("raised") /\ UNCHANGED <<plan, seatRows>>
    BY <1>2 DEF Raise, Leave
  <2>2. \A n \in Members : ~plan.detach /\ task[n] \in Live => n \in pending \ {m}
    BY <1>2 DEF Ledger, CallsOwned, Live
  <2>3. Promise!Recall \/ Fates' = Fates  BY <2>1, <2>2, LeaveRecalls
  <2>4. "raised" \in Over  BY DEF Over
  <2>5. Promise!End /\ Agreed' = Agreed  BY <1>0, <2>1, <2>4, LeaveEnds DEF Going
  <2>6. QED  BY <2>3, <2>5 DEF Promise!Next, Promise!Ends
<1>3. QED  BY <1>1, <1>2 DEF Handle

\* The end of the fan-out, and the turns without one.
LEMMA ConcludeRefines ==
  ASSUME Ledger, Going, [Next]_vars, Conclude \/ PassThrough \/ FinalizeFanOut
  PROVE  Promise!Next
<1> USE DEF streamVars, fanVars, callVars, bookVars, synthVars
<1>1. CASE Conclude \/ PassThrough
  <2>1. /\ ~terminal_published /\ answer = "none" /\ at \notin Over \union {"start"}
        /\ at \in InFanOut \union {"skipped"}
    BY <1>1, NothingTold DEF Conclude, PassThrough, InFanOut, Over
  <2>2. Agreed' = Agreed  BY <1>1 DEF Conclude, PassThrough, Agreed
  <2>3. Promise!Recall \/ Fates' = Fates
    <3>1. CASE Conclude
      <4>1. LeaveFanOut(pending) /\ UNCHANGED <<plan, seatRows>>  BY <3>1 DEF Conclude
      <4>2. \A n \in Members : ~plan.detach /\ task[n] \in Live => n \in pending
        BY DEF Ledger, CallsOwned
      <4>3. QED  BY <4>1, <4>2, LeaveRecalls
    <3>2. CASE PassThrough  BY <3>2, FatesKept DEF PassThrough
    <3>3. QED  BY <1>1, <3>1, <3>2
  <2>4. CASE Fail
    <3>1. Promise!Fail  BY <2>1, <2>4, FailFails DEF Going
    <3>2. QED  BY <2>2, <2>3, <3>1 DEF Promise!Next, Promise!Ends
  <2>5. CASE UNCHANGED <<answer, feed>> /\ at' \in {"shorting", "opening"}
    <3>1. Stage' = Stage  BY <2>1, <2>5 DEF Stage, Over
    <3>2. Shown' = Shown /\ answer' = answer  BY <2>5 DEF Shown
    <3>3. QED  BY <2>2, <2>3, <3>1, <3>2 DEF Promise!Next, Promise!Ends
  <2>6. QED  BY <1>1, <2>4, <2>5 DEF Conclude, PassThrough
<1>2. CASE FinalizeFanOut
  <2>1. LeaveFanOut(pending) /\ UNCHANGED <<plan, seatRows, at, answer, feed>>
    BY <1>2 DEF FinalizeFanOut
  <2>2. \A n \in Members : ~plan.detach /\ task[n] \in Live => n \in pending
    BY DEF Ledger, CallsOwned
  <2>3. Promise!Recall \/ Fates' = Fates  BY <2>1, <2>2, LeaveRecalls
  <2>4. Agreed' = Agreed /\ Stage' = Stage /\ Shown' = Shown /\ answer' = answer
    BY <2>1 DEF Agreed, Stage, Shown
  <2>5. QED  BY <2>3, <2>4 DEF Promise!Next, Promise!Ends
<1>3. QED  BY <1>1, <1>2

\* A vote, and the synthesis: told and shown.
LEMMA AnswerRefines ==
  ASSUME Ledger, Going, [Next]_vars,
         \/ ShortCircuit \/ ShortCircuitEnd \/ OpenSynthesis \/ TakeChunk \/ ReadOn \/ Complete
         \/ StreamBroken \/ ChunkUnreadable
  PROVE  Promise!Next \/ UNCHANGED Promise!vars
<1> USE DEF streamVars, fanVars, callVars, bookVars, synthVars
<1>1. CASE ShortCircuit
  <2>1. at = "shorting" /\ answer = "none" /\ ~terminal_published
    BY <1>1, NothingTold DEF ShortCircuit
  <2>2. Stage = "on" /\ Stage' = "on"  BY <1>1 DEF Stage, ShortCircuit, Over
  <2>3. Shown = "open" /\ Shown' = "open"
    <3>1. Shown = "open"  BY <2>1, ShownOpen DEF Going, Over
    <3>2. Shown' = Shown  BY <1>1 DEF ShortCircuit, Shown
    <3>3. QED  BY <3>1, <3>2
  <2>4. Agreed.asks
    <3>1. ~plan.skip  BY <2>1 DEF Going, Votes
    <3>2. QED  BY <3>1 DEF Agreed
  <2>5. Promise!Enough  BY <2>1, EnoughBooked DEF Going, Concluded
  <2>6. Promise!Vote  BY <1>1, <2>1, <2>2, <2>3, <2>4, <2>5 DEF Promise!Vote, ShortCircuit
  <2>7. Agreed' = Agreed /\ Fates' = Fates  BY <1>1, FatesKept DEF ShortCircuit, Agreed
  <2>8. QED  BY <2>6, <2>7 DEF Promise!Next, Promise!Ends
<1>2. CASE ShortCircuitEnd
  <2>1. at = "shortDone" /\ answer = "completed" /\ ~terminal_published
    BY <1>2, NothingTold DEF ShortCircuitEnd
  <2>2. Stage = "on" /\ Stage' = "over"  BY <1>2 DEF Stage, ShortCircuitEnd, Over
  <2>3. Shown = "open"  BY <2>1, ShownOpen DEF Going, Over
  <2>4. Shown' = "completed"
    <3>1. Milestone("completed") \in Milestones /\ Milestone("completed").kind = "completed"
          /\ "completed" \in Finals
      BY MilestoneType DEF Milestone, Finals
    <3>2. QED  BY <1>2, <3>1, ShownNext DEF ShortCircuitEnd, PublishTerminal, Ledger
  <2>5. Promise!End  BY <1>2, <2>1, <2>2, <2>3, <2>4 DEF Promise!End, ShortCircuitEnd
  <2>6. Agreed' = Agreed /\ Fates' = Fates  BY <1>2, FatesKept DEF ShortCircuitEnd, Agreed
  <2>7. QED  BY <2>5, <2>6 DEF Promise!Next, Promise!Ends
<1>3. CASE OpenSynthesis
  <2>1. ~terminal_published /\ at = "opening"  BY <1>3, NothingTold DEF OpenSynthesis
  <2>2. Milestone("synthesis_started") \in Milestones /\ Milestone("synthesis_started").kind \notin Finals
    BY MilestoneType DEF Milestone, Finals
  <2>3. QED  BY <1>3, <2>1, <2>2, Stutters DEF OpenSynthesis, Over
<1>4. CASE TakeChunk  BY <1>4, Stutters DEF TakeChunk, Over
<1>5. CASE ReadOn  BY <1>5, Stutters DEF ReadOn, Over
<1>6. CASE Complete
  <2>1. at = "reading" /\ answer = "none" /\ ~terminal_published  BY <1>6, NothingTold DEF Complete
  <2>2. Stage = "on" /\ Stage' = "on"  BY <1>6 DEF Stage, Complete, Over
  <2>3. Shown = "open"  BY <2>1, ShownOpen DEF Going, Over
  <2>4. Shown' = "completed"
    <3>1. Milestone("completed") \in Milestones /\ Milestone("completed").kind = "completed"
          /\ "completed" \in Finals
      BY MilestoneType DEF Milestone, Finals
    <3>2. QED  BY <1>6, <3>1, ShownNext DEF Complete, PublishTerminal, Ledger
  <2>5. Promise!Enough  BY <2>1, EnoughBooked DEF Going, Concluded
  <2>6. Promise!Succeed  BY <1>6, <2>1, <2>2, <2>3, <2>4, <2>5 DEF Promise!Succeed, Complete
  <2>7. Agreed' = Agreed /\ Fates' = Fates  BY <1>6, FatesKept DEF Complete, Agreed
  <2>8. QED  BY <2>6, <2>7 DEF Promise!Next, Promise!Ends
<1>7. CASE StreamBroken \/ ChunkUnreadable
  <2>1. at \in {"reading", "answering"} /\ SynthesisFails
    BY <1>7 DEF StreamBroken, ChunkUnreadable
  <2>2. answer = "none" /\ ~terminal_published /\ at \notin Over \union {"start"}
    BY <2>1, NothingTold DEF Over
  <2>3. Promise!Fail  BY <2>1, <2>2, FailFails DEF SynthesisFails, Going
  <2>4. Agreed' = Agreed /\ Fates' = Fates  BY <2>1, FatesKept DEF SynthesisFails, Agreed
  <2>5. QED  BY <2>3, <2>4 DEF Promise!Next, Promise!Ends
<1>8. QED  BY <1>1, <1>2, <1>3, <1>4, <1>5, <1>6, <1>7

\* However run_ensemble is left.
LEMMA LeavingRefines ==
  ASSUME Ledger, Going, [Next]_vars, Return \/ Close \/ CancelWaiting \/ CancelReading
  PROVE  Promise!Next
<1> USE DEF streamVars, fanVars, callVars, bookVars, synthVars
<1>1. /\ at \in AtYield \union AtAwait /\ at \notin Over \union {"start"}
      /\ answer = "failed" => terminal_published
  <2>1. at \in AtYield \union AtAwait
    BY DEF Return, Close, CancelWaiting, CancelReading, AtYield, AtAwait
  <2>2. answer = "failed" => terminal_published  BY <2>1, NothingTold
  <2>3. QED  BY <2>1, <2>2 DEF AtYield, AtAwait, Over
<1>2. PICK how \in Over : Leave(how)
  BY DEF Return, Close, CancelWaiting, CancelReading, Over
<1>3. Promise!End /\ Agreed' = Agreed  BY <1>1, <1>2, LeaveEnds DEF Going
<1>4. Promise!Recall \/ Fates' = Fates
  <2>1. CASE Return \/ Close \/ CancelReading
    BY <2>1, FatesKept DEF Return, Close, CancelReading
  <2>2. CASE CancelWaiting
    <3>1. LeaveFanOut(pending) /\ UNCHANGED <<plan, seatRows>>  BY <2>2 DEF CancelWaiting, Leave
    <3>2. \A n \in Members : ~plan.detach /\ task[n] \in Live => n \in pending
      BY DEF Ledger, CallsOwned
    <3>3. QED  BY <3>1, <3>2, LeaveRecalls
  <2>3. QED  BY <2>1, <2>2
<1>5. QED  BY <1>3, <1>4 DEF Promise!Next, Promise!Ends

\* Every step of a run is one the promise allows, or is not seen.
LEMMA RefinedStep ==
  ASSUME Ledger, Going, [Next]_vars
  PROVE  Promise!Next \/ UNCHANGED Promise!vars
<1>1. CASE \E m \in Members : MemberStep(m) \/ DetachedDone(m)
  BY <1>1, CallsRefine DEF Promise!Next
<1>2. CASE PumpStep \/ UNCHANGED vars
  <2>1. UNCHANGED <<plan, at, answer, feed, task, seatRows>>
    BY <1>2 DEF PumpStep, PumpChunk, PumpEnd, vars, streamVars, callVars, bookVars
  <2>2. Agreed' = Agreed /\ Stage' = Stage /\ Fates' = Fates /\ answer' = answer /\ Shown' = Shown
    BY <2>1, FatesKept DEF Agreed, Stage, Shown
  <2>3. QED  BY <2>2 DEF Promise!vars
<1>3. CASE Start \/ StartTasks \/ WaitAgain \/ DeadlineExceeded \/ AbandonNext \/ Discard
  BY <1>3, PanelRefines
<1>4. CASE Collect
  <2>1. at \in {"waiting", "reporting"}  BY <1>4 DEF Collect
  <2>2. PICK m \in pending, rest \in SUBSET pending : Handle(m, rest)  BY <1>4 DEF Collect
  <2>3. QED  BY <2>1, <2>2, HandleRefines
<1>5. CASE ReportNext
  <2>1. at \in {"waiting", "reporting"}  BY <1>5 DEF ReportNext
  <2>2. PICK m \in pending, rest \in {round} : Handle(m, rest)  BY <1>5 DEF ReportNext, Ledger, FanShape
  <2>3. QED  BY <2>1, <2>2, HandleRefines
<1>6. CASE Conclude \/ PassThrough \/ FinalizeFanOut  BY <1>6, ConcludeRefines
<1>7. CASE \/ ShortCircuit \/ ShortCircuitEnd \/ OpenSynthesis \/ TakeChunk \/ ReadOn \/ Complete
           \/ StreamBroken \/ ChunkUnreadable
  BY <1>7, AnswerRefines
<1>8. CASE Return \/ Close \/ CancelWaiting \/ CancelReading  BY <1>8, LeavingRefines
<1>9. QED
  BY <1>1, <1>2, <1>3, <1>4, <1>5, <1>6, <1>7, <1>8 DEF Next, Pull, Wake, GoAway

\* A run starts as the promise does.
LEMMA RefinedInit == Init => Promise!Init
<1> SUFFICES ASSUME Init PROVE Promise!Init  OBVIOUS
<1>1. Agreed \in [asks : BOOLEAN, keeps : BOOLEAN, quorums : SUBSET SUBSET Members]
  BY RunAssumption DEF Init, Agreed
<1>2. Stage = "new" /\ Shown = "open"  BY DEF Init, Stage, Shown
<1>3. Fates = [m \in Members |-> "none"]
  <2>1. ASSUME NEW m \in Members  PROVE Fate(seatRows[m], task[m]) = "none"
    <3>1. seatRows[m] = 0 /\ task[m] = "none" /\ task[m] \in TaskStates  BY DEF Init, TaskStates
    <3>2. QED  BY <3>1, FateIs
  <2>2. QED  BY <2>1 DEF Fates
<1>4. QED  BY <1>1, <1>2, <1>3 DEF Init, Promise!Init

\* For a panel of any width and any plan a run keeps its promise, of which
\* every step of run_ensemble, its members and its pump is one step or none.
THEOREM RunKeepsPromise == Spec => RunPromiseKept
<1>1. Init => Votes  BY DEF Init, Votes
<1>2. IInv /\ Votes => Ledger /\ Going  BY DEF IInv, Told, Going
<1>3. Ledger /\ Going /\ [Next]_vars => [Promise!Next]_(Promise!vars)
  BY RefinedStep
<1>4. QED
  BY <1>1, <1>2, <1>3, Inductive, VotesKept, RefinedInit, PTL DEF Spec, RunPromiseKept, Promise!Spec
=============================================================================
