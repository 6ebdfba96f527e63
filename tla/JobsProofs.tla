----------------------------- MODULE JobsProofs -----------------------------
(***************************************************************************)
(* Proofs about Jobs for any number of jobs, of calls of _stop and of      *)
(* milestones.                                                             *)
(***************************************************************************)
EXTENDS Jobs, FiniteSetTheorems, TLAPS

\* What FileWhole says of the file itself.
FileRead ==
  \A j \in Jobs :
    ~cut[j] => /\ FileSays(j) \notin {"empty", "torn"}
               /\ FileSays(j) \in Terminal => FileSays(j) = mem[j]

(***************************************************************************)
(* Savers and threads                                                      *)
(***************************************************************************)
\* A save writes the file of a job: the saver's own, or the one it is ending.
LEMMA WriteOf ==
    ASSUME TypeOK, Stopping, NEW v \in Savers, v \in Stops => stop[v] = "closing"
    PROVE  /\ Write(v) \in Jobs \X Kinds
           /\ v \in Jobs => Write(v)[1] = v /\ v \notin Stops
           /\ v \in Stops => Write(v) = <<curr[v], "end">> /\ curr[v] \in Jobs /\ v \notin Jobs
<1> USE JobsAssumption
<1>1. CASE v \in Jobs
  BY <1>1 DEF Write, Kinds
<1>2. CASE v \in Stops
  BY <1>2 DEF Write, Kinds, Stopping, TypeOK
<1> QED
  BY <1>1, <1>2 DEF Savers

\* Nobody writes the file of a job that the holder of the lock does not save.
LEMMA Quiet ==
    ASSUME TypeOK, Stopping, LockHeld, OneWriter,
           NEW j \in Jobs, ~cut[j], lock # j, \A s \in Stops : lock = s => curr[s] # j
    PROVE  \A k \in Kinds : thread[<<j, k>>].phase = "idle"
<1> USE JobsAssumption
<1>1. CASE lock = None
  BY <1>1 DEF OneWriter, Awaited
<1>2. CASE lock \in Savers
  <2>1. lock \in Stops => stop[lock] = "closing"
    BY DEF LockHeld
  <2>2. Write(lock)[1] # j
    <3>1. CASE lock \in Jobs
      BY <1>2, <2>1, <3>1, WriteOf
    <3>2. CASE lock \in Stops
      <4>1. Write(lock) = <<curr[lock], "end">>
        BY <1>2, <2>1, <3>2, WriteOf
      <4> QED
        BY <3>2, <4>1
    <3> QED
      BY <1>2, <3>1, <3>2 DEF Savers
  <2> QED
    BY <2>2 DEF OneWriter, Awaited
<1> QED
  BY <1>1, <1>2 DEF TypeOK, Savers

\* Nor that of a job that runs and does not save: nobody is ending it.
LEMMA QuietRun ==
    ASSUME IInv, NEW j \in Jobs, mem[j] \notin Terminal, pos[j] \notin Saving, ~cut[j]
    PROVE  \A k \in Kinds : thread[<<j, k>>].phase = "idle"
<1>1. lock # j
  BY DEF IInv, LockHeld
<1>2. \A s \in Stops : lock = s => curr[s] # j
  BY DEF IInv, LockHeld, Stopping, Terminal
<1> QED
  BY <1>1, <1>2, Quiet DEF IInv

\* A save that is cut leaves the lock free and its job marked, and touches no
\* other thread; if it was still waiting for the lock, nothing.
LEMMA CutSaveDoes ==
    ASSUME TypeOK, Stopping, LockHeld, NEW v \in Savers, CutSave(v)
    PROVE  /\ lock = v => /\ lock' = None
                          /\ Write(v) \in Jobs \X Kinds
                          /\ cut' = [cut EXCEPT ![Write(v)[1]] = TRUE]
                          /\ thread' \in [Jobs \X Kinds -> Threads]
                          /\ \A w \in Jobs \X Kinds : w # Write(v) => thread'[w] = thread[w]
           /\ lock # v => UNCHANGED <<lock, thread, cut>>
<1>1. CASE lock = v
  <2>1. Write(v) \in Jobs \X Kinds
    BY <1>1, WriteOf DEF LockHeld
  <2>2. Idle \in Threads
    BY DEF Idle, Threads, Data, Active
  <2>3. PICK gone \in {thread[Write(v)], Idle} : thread' = [thread EXCEPT ![Write(v)] = gone]
    BY <1>1 DEF CutSave
  <2>4. gone \in Threads
    BY <2>1, <2>2 DEF TypeOK
  <2> QED
    BY <1>1, <2>1, <2>3, <2>4 DEF CutSave, TypeOK
<1>2. CASE lock # v
  BY <1>2 DEF CutSave
<1> QED
  BY <1>1, <1>2

\* What is left of a save that is cut concerns only its job.
LEMMA CutQuiet ==
    ASSUME IInv, NEW v \in Savers, v \in Stops => stop[v] = "closing", CutSave(v)
    PROVE  /\ lock' # v /\ lock' \in {lock, None} /\ (lock # v => lock' = lock)
           /\ thread' \in [Jobs \X Kinds -> Threads] /\ cut' \in [Jobs -> BOOLEAN]
           /\ \A i \in Jobs : cut[i] => cut'[i]
           /\ \A i \in Jobs, k \in Kinds : ~cut'[i] => thread'[<<i, k>>] = thread[<<i, k>>]
           /\ \A i \in Jobs, k \in Kinds : ~cut'[i] /\ lock = v => thread[<<i, k>>].phase = "idle"
           /\ lock = v => cut'[Write(v)[1]]
<1> USE JobsAssumption
<1>0. TypeOK /\ Stopping /\ LockHeld /\ OneWriter
  BY DEF IInv
<1>1. CASE lock = v
  <2>1. /\ lock' = None
        /\ Write(v) \in Jobs \X Kinds
        /\ cut' = [cut EXCEPT ![Write(v)[1]] = TRUE]
        /\ thread' \in [Jobs \X Kinds -> Threads]
        /\ \A w \in Jobs \X Kinds : w # Write(v) => thread'[w] = thread[w]
    BY <1>0, <1>1, CutSaveDoes
  <2> DEFINE j == Write(v)[1]
  <2>2. j \in Jobs
    BY <2>1
  <2>3. /\ cut' \in [Jobs -> BOOLEAN] /\ cut'[j]
        /\ \A i \in Jobs : cut[i] => cut'[i]
        /\ \A i \in Jobs : ~cut'[i] => i # j /\ ~cut[i]
    BY <1>0, <2>1, <2>2 DEF TypeOK
  <2>4. ASSUME NEW i \in Jobs, NEW k \in Kinds, ~cut'[i]
        PROVE  thread'[<<i, k>>] = thread[<<i, k>>] /\ thread[<<i, k>>].phase = "idle"
    <3>1. <<i, k>> # Write(v) /\ ~cut[i]
      BY <2>3, <2>4
    <3>2. thread[<<i, k>>].phase = "idle"
      BY <1>0, <1>1, <3>1 DEF OneWriter, Awaited
    <3> QED
      BY <2>1, <3>1, <3>2
  <2>5. lock' # v
    BY <2>1 DEF Savers
  <2>6. lock' \in {lock, None}
    BY <2>1
  <2> QED
    BY <1>1, <2>1, <2>3, <2>4, <2>5, <2>6
<1>2. CASE lock # v
  <2>1. UNCHANGED <<lock, thread, cut>>
    BY <1>0, <1>2, CutSaveDoes
  <2> QED
    BY <1>0, <1>2, <2>1 DEF TypeOK
<1> QED
  BY <1>1, <1>2

\* A set with no two elements has at most one.
LEMMA AtMostOne ==
    ASSUME NEW S, NEW x, S \subseteq {x}
    PROVE  Cardinality(S) <= 1
<1>1. IsFiniteSet({x}) /\ Cardinality({x}) = 1
  BY FS_Singleton
<1> QED
  BY <1>1, FS_Subset, FS_CardinalityType

\* The parts of the invariant that imply the rest of it, after a step.
LEMMA Together ==
    ASSUME TypeOK', Placed', Stopping', LockHeld', OneWriter', Files',
           DoneMeansSaved', FileRead', StopComplete', NeverStuck'
    PROVE  IInv'
<1>1. ASSUME NEW j \in Jobs, ~cut'[j]
      PROVE  (Cardinality({k \in Kinds : thread[<<j, k>>].phase # "idle"}) <= 1)'
  <2>1. \A k \in Kinds : thread'[<<j, k>>].phase # "idle" => <<j, k>> = Write(lock)'
    BY <1>1 DEF OneWriter, Awaited
  <2>2. {k \in Kinds : thread'[<<j, k>>].phase # "idle"} \subseteq {Write(lock)'[2]}
    BY <2>1
  <2> QED
    BY <2>2, AtMostOne
<1>2. FileWhole'
  BY <1>1 DEF FileWhole, FileRead
<1> QED
  BY <1>2 DEF IInv, FileHonest, StopEnds

(***************************************************************************)
(* The inductive invariant                                                 *)
(***************************************************************************)
\* The invariant holds at first.
LEMMA InitInv == Init => IInv
<1> SUFFICES ASSUME Init
             PROVE  IInv
  OBVIOUS
<1> USE JobsAssumption DEF Init, Idle
<1>1. TypeOK
  BY DEF TypeOK, Threads, Data, Active
<1>2. Placed /\ Stopping /\ LockHeld
  BY DEF Placed, Stopping, LockHeld, Saving, Terminal
<1>3. OneWriter /\ Files
  BY DEF OneWriter, Files
<1>4. DoneMeansSaved /\ StopComplete /\ NeverStuck
  BY DEF DoneMeansSaved, StopComplete, NeverStuck, Active
<1>5. ASSUME NEW j \in Jobs
      PROVE  /\ FileSays(j) = "none"
             /\ Cardinality({k \in Kinds : thread[<<j, k>>].phase # "idle"}) <= 1
  <2>1. {k \in Kinds : thread[<<j, k>>].phase # "idle"} \subseteq {None}
    OBVIOUS
  <2> QED
    BY <2>1, AtMostOne DEF FileSays
<1>6. FileWhole
  BY <1>5 DEF FileWhole, Terminal
<1> QED
  BY <1>1, <1>2, <1>3, <1>4, <1>6 DEF IInv, FileHonest, StopEnds

\* A task that first runs changes only its place.
LEMMA BeginInv ==
    ASSUME IInv, NEW j \in Jobs, Begin(j)
    PROVE  IInv'
<1> USE JobsAssumption DEF Begin, jobVars, stopVars, diskVars
<1> TypeOK /\ Placed /\ Stopping /\ LockHeld /\ OneWriter /\ Files
    /\ DoneMeansSaved /\ FileRead /\ StopComplete /\ NeverStuck
  BY DEF IInv, FileHonest, FileWhole, FileRead, StopEnds
<1>20. TypeOK'
  BY DEF TypeOK, Data, Active, Terminal, Saving
<1>21. Placed'
  BY DEF TypeOK, Placed, Saving, Active, Terminal
<1>22. Stopping'
  BY DEF TypeOK, Placed, Stopping, Active
<1>23. LockHeld'
  BY DEF TypeOK, LockHeld, Saving
<1>24. OneWriter'
  BY DEF TypeOK, OneWriter, Awaited, Write, LockHeld
<1>25. Files'
  BY DEF TypeOK, Files, FileSays
<1>26. DoneMeansSaved'
  BY DEF TypeOK, DoneMeansSaved, FileSays
<1>27. FileRead'
  BY DEF TypeOK, FileRead, FileSays
<1>28. StopComplete'
  BY DEF TypeOK, Stopping, StopComplete, Active, Data, Terminal
<1>29. NeverStuck'
  BY DEF TypeOK, Placed, Stopping, NeverStuck, Active, Terminal
<1> QED
  BY <1>20, <1>21, <1>22, <1>23, <1>24, <1>25, <1>26, <1>27, <1>28, <1>29, Together

\* A new job is saved by its submitter, and has no file yet.
LEMMA SubmitInv ==
    ASSUME IInv, NEW j \in Jobs, Submit(j)
    PROVE  IInv'
<1> USE JobsAssumption DEF Submit, stopVars, diskVars
<1> TypeOK /\ Placed /\ Stopping /\ LockHeld /\ OneWriter /\ Files
    /\ DoneMeansSaved /\ FileRead /\ StopComplete /\ NeverStuck
  BY DEF IInv, FileHonest, FileWhole, FileRead, StopEnds
<1>1. ~cut[j] => \A k \in Kinds : thread[<<j, k>>].phase = "idle"
  BY QuietRun DEF Placed, Active, Terminal, Saving
<1>2. lock # j
  BY DEF LockHeld, Saving, Placed, Active
<1>20. TypeOK'
  BY DEF TypeOK, Data, Active, Terminal, Saving
<1>21. Placed'
  BY DEF TypeOK, Placed, Saving, Active, Terminal
<1>22. Stopping'
  BY DEF TypeOK, Placed, Stopping, Active
<1>23. LockHeld'
  BY DEF TypeOK, LockHeld, Saving
<1>24. OneWriter'
  <2>1. Write(lock)' = Write(lock)
    BY <1>2 DEF Write, TypeOK
  <2> QED
    BY <1>1, <2>1 DEF OneWriter, Awaited, TypeOK
<1>25. Files'
  BY DEF TypeOK, Files, FileSays
<1>26. DoneMeansSaved'
  <2> SUFFICES ASSUME NEW i \in Jobs, done[i]
               PROVE  mem'[i] \in Terminal /\ (cut[i] \/ FileSays(i) = mem'[i])
    BY DEF DoneMeansSaved, FileSays
  <2>1. i # j
    BY DEF Placed, Active, Terminal
  <2> QED
    BY <2>1 DEF DoneMeansSaved, TypeOK
<1>27. FileRead'
  <2> SUFFICES ASSUME NEW i \in Jobs, ~cut[i]
               PROVE  /\ FileSays(i) \notin {"empty", "torn"}
                      /\ FileSays(i) \in Terminal => FileSays(i) = mem'[i]
    BY DEF FileRead, FileSays
  <2>1. CASE i = j
    BY <2>1 DEF FileRead, Placed, Active, Terminal
  <2>2. CASE i # j
    BY <2>2 DEF FileRead, TypeOK
  <2> QED
    BY <2>1, <2>2
<1>28. StopComplete'
  BY DEF TypeOK, StopComplete, Placed, Active, Terminal
<1>29. NeverStuck'
  BY DEF TypeOK, Placed, Stopping, NeverStuck, Active, Terminal
<1> QED
  BY <1>20, <1>21, <1>22, <1>23, <1>24, <1>25, <1>26, <1>27, <1>28, <1>29, Together

\* A milestone keeps the job active, while nobody writes its file.
LEMMA MilestoneInv ==
    ASSUME IInv, NEW j \in Jobs, Milestone(j)
    PROVE  IInv'
<1> USE JobsAssumption DEF Milestone, stopVars, diskVars
<1> TypeOK /\ Placed /\ Stopping /\ LockHeld /\ OneWriter /\ Files
    /\ DoneMeansSaved /\ FileRead /\ StopComplete /\ NeverStuck
  BY DEF IInv, FileHonest, FileWhole, FileRead, StopEnds
<1>1. ~cut[j] => \A k \in Kinds : thread[<<j, k>>].phase = "idle"
  BY QuietRun DEF Placed, Active, Terminal, Saving
<1>2. lock # j
  BY DEF LockHeld, Saving, Placed, Active
<1>20. TypeOK'
  BY DEF TypeOK, Data, Active, Terminal, Saving
<1>21. Placed'
  BY DEF TypeOK, Placed, Saving, Active, Terminal
<1>22. Stopping'
  BY DEF TypeOK, Placed, Stopping, Active
<1>23. LockHeld'
  BY DEF TypeOK, LockHeld, Saving
<1>24. OneWriter'
  <2>1. Write(lock)' = Write(lock)
    BY <1>2 DEF Write, TypeOK
  <2> QED
    BY <1>1, <2>1 DEF OneWriter, Awaited, TypeOK
<1>25. Files'
  BY DEF TypeOK, Files, FileSays
<1>26. DoneMeansSaved'
  <2> SUFFICES ASSUME NEW i \in Jobs, done[i]
               PROVE  mem'[i] \in Terminal /\ (cut[i] \/ FileSays(i) = mem'[i])
    BY DEF DoneMeansSaved, FileSays
  <2>1. i # j
    BY DEF Placed, Active, Terminal
  <2> QED
    BY <2>1 DEF DoneMeansSaved, TypeOK
<1>27. FileRead'
  <2> SUFFICES ASSUME NEW i \in Jobs, ~cut[i]
               PROVE  /\ FileSays(i) \notin {"empty", "torn"}
                      /\ FileSays(i) \in Terminal => FileSays(i) = mem'[i]
    BY DEF FileRead, FileSays
  <2>1. CASE i = j
    BY <2>1 DEF FileRead, Placed, Active, Terminal
  <2>2. CASE i # j
    BY <2>2 DEF FileRead, TypeOK
  <2> QED
    BY <2>1, <2>2
<1>28. StopComplete'
  <2> SUFFICES ASSUME NEW s \in Stops, stop[s] = "over", NEW i \in targets[s]
               PROVE  pos'[i] = "over" /\ mem'[i] \in Terminal
    BY DEF StopComplete
  <2>1. i \in Jobs /\ pos[i] = "over" /\ mem[i] \in Terminal
    BY DEF StopComplete, TypeOK
  <2>2. i # j
    BY <2>1
  <2> QED
    BY <2>1, <2>2 DEF TypeOK
<1>29. NeverStuck'
  BY DEF TypeOK, Placed, Stopping, NeverStuck, Active, Terminal
<1> QED
  BY <1>20, <1>21, <1>22, <1>23, <1>24, <1>25, <1>26, <1>27, <1>28, <1>29, Together

\* A job ends while nobody writes its file.
LEMMA FinishInv ==
    ASSUME IInv, NEW j \in Jobs, Finish(j)
    PROVE  IInv'
<1> USE JobsAssumption DEF Finish, stopVars, diskVars
<1> TypeOK /\ Placed /\ Stopping /\ LockHeld /\ OneWriter /\ Files
    /\ DoneMeansSaved /\ FileRead /\ StopComplete /\ NeverStuck
  BY DEF IInv, FileHonest, FileWhole, FileRead, StopEnds
<1>1. ~cut[j] => \A k \in Kinds : thread[<<j, k>>].phase = "idle"
  BY QuietRun DEF Placed, Active, Terminal, Saving
<1>2. lock # j
  BY DEF LockHeld, Saving, Placed, Active
<1>20. TypeOK'
  BY DEF TypeOK, Data, Active, Terminal, Saving
<1>21. Placed'
  BY DEF TypeOK, Placed, Saving, Active, Terminal
<1>22. Stopping'
  BY DEF TypeOK, Placed, Stopping, Active
<1>23. LockHeld'
  BY DEF TypeOK, LockHeld, Saving
<1>24. OneWriter'
  <2>1. Write(lock)' = Write(lock)
    BY <1>2 DEF Write, TypeOK
  <2> QED
    BY <1>1, <2>1 DEF OneWriter, Awaited, TypeOK
<1>25. Files'
  BY DEF TypeOK, Files, FileSays
<1>26. DoneMeansSaved'
  <2> SUFFICES ASSUME NEW i \in Jobs, done[i]
               PROVE  mem'[i] \in Terminal /\ (cut[i] \/ FileSays(i) = mem'[i])
    BY DEF DoneMeansSaved, FileSays
  <2>1. i # j
    BY DEF Placed, Active, Terminal
  <2> QED
    BY <2>1 DEF DoneMeansSaved, TypeOK
<1>27. FileRead'
  <2> SUFFICES ASSUME NEW i \in Jobs, ~cut[i]
               PROVE  /\ FileSays(i) \notin {"empty", "torn"}
                      /\ FileSays(i) \in Terminal => FileSays(i) = mem'[i]
    BY DEF FileRead, FileSays
  <2>1. CASE i = j
    BY <2>1 DEF FileRead, Placed, Active, Terminal
  <2>2. CASE i # j
    BY <2>2 DEF FileRead, TypeOK
  <2> QED
    BY <2>1, <2>2
<1>28. StopComplete'
  BY DEF TypeOK, StopComplete, Placed, Active, Terminal
<1>29. NeverStuck'
  BY DEF TypeOK, Placed, Stopping, NeverStuck, Active, Terminal
<1> QED
  BY <1>20, <1>21, <1>22, <1>23, <1>24, <1>25, <1>26, <1>27, <1>28, <1>29, Together

\* Tasks not over are cancelled, and wait to be told.
LEMMA StopBeginInv ==
    ASSUME IInv, NEW s \in Stops, StopBegin(s)
    PROVE  IInv'
<1> USE JobsAssumption DEF StopBegin, diskVars
<1> TypeOK /\ Placed /\ Stopping /\ LockHeld /\ OneWriter /\ Files
    /\ DoneMeansSaved /\ FileRead /\ StopComplete /\ NeverStuck
  BY DEF IInv, FileHonest, FileWhole, FileRead, StopEnds
<1>1. PICK J \in {{j} : j \in Registered} \union {Registered} :
         /\ targets' = [targets EXCEPT ![s] = J]
         /\ hit' = [j \in Jobs |-> hit[j] \/ (j \in J /\ pos[j] # "over")]
  OBVIOUS
<1>2. J \subseteq Jobs /\ \A j \in J : pos[j] \notin {"none", "submitting", "refused"}
  BY DEF Registered
<1>20. TypeOK'
  <2>1. targets' \in [Stops -> SUBSET Jobs]
    BY <1>1, <1>2 DEF TypeOK
  <2>2. hit' \in [Jobs -> BOOLEAN]
    BY <1>1
  <2>3. stop' \in [Stops -> {"idle", "waiting", "closing", "ending", "over", "left"}]
    BY DEF TypeOK
  <2> QED
    BY <2>1, <2>2, <2>3 DEF TypeOK
<1>21. Placed'
  <2>1. ASSUME NEW j \in Jobs, hit'[j]
        PROVE  pos[j] \in {"unstarted", "working", "reporting", "closing"}
    BY <1>1, <1>2, <2>1 DEF Placed, TypeOK, Saving
  <2> QED
    BY <2>1 DEF Placed
<1>22. Stopping'
  <2>1. \A z \in Stops : z # s => stop'[z] = stop[z] /\ targets'[z] = targets[z]
    BY <1>1 DEF TypeOK
  <2>2. stop'[s] = "waiting" /\ targets'[s] = J
    BY <1>1 DEF TypeOK
  <2>3. ASSUME NEW z \in Stops
        PROVE  /\ stop'[z] \in {"closing", "ending", "over"} => \A j \in targets'[z] : pos[j] = "over"
               /\ stop'[z] = "closing" =>
                    /\ curr[z] \in targets'[z] /\ mem[curr[z]] = "cancelled" /\ ~done[curr[z]]
                    /\ \A y \in Stops : stop'[y] = "closing" /\ curr[y] = curr[z] => y = z
    BY <2>1, <2>2 DEF Stopping
  <2>4. ASSUME NEW j \in Jobs, hit'[j]
        PROVE  \E z \in Stops : j \in targets'[z] /\ stop'[z] \in {"waiting", "left"}
    <3>1. CASE hit[j]
      <4>1. PICK z \in Stops : j \in targets[z] /\ stop[z] \in {"waiting", "left"}
        BY <3>1 DEF Stopping
      <4> QED
        BY <2>1, <4>1
    <3>2. CASE ~hit[j]
      BY <1>1, <2>2, <2>4, <3>2
    <3> QED
      BY <3>1, <3>2
  <2> QED
    BY <2>3, <2>4 DEF Stopping
<1>23. LockHeld'
  BY DEF TypeOK, LockHeld, Saving
<1>24. OneWriter'
  BY DEF TypeOK, OneWriter, Awaited, Write, LockHeld
<1>25. Files'
  BY DEF TypeOK, Files, FileSays
<1>26. DoneMeansSaved'
  BY DEF TypeOK, DoneMeansSaved, FileSays
<1>27. FileRead'
  BY DEF TypeOK, FileRead, FileSays
<1>28. StopComplete'
  BY DEF TypeOK, Stopping, StopComplete, Active, Data, Terminal
<1>29. NeverStuck'
  BY DEF TypeOK, Placed, Stopping, NeverStuck, Active, Terminal
<1> QED
  BY <1>20, <1>21, <1>22, <1>23, <1>24, <1>25, <1>26, <1>27, <1>28, <1>29, Together

\* A _stop returns when its jobs are over and ended.
LEMMA StopReturnInv ==
    ASSUME IInv, NEW s \in Stops, StopReturn(s)
    PROVE  IInv'
<1> USE JobsAssumption DEF StopReturn, jobVars, diskVars
<1> TypeOK /\ Placed /\ Stopping /\ LockHeld /\ OneWriter /\ Files
    /\ DoneMeansSaved /\ FileRead /\ StopComplete /\ NeverStuck
  BY DEF IInv, FileHonest, FileWhole, FileRead, StopEnds
<1>20. TypeOK'
  BY DEF TypeOK, Data, Active, Terminal, Saving
<1>21. Placed'
  BY DEF TypeOK, Placed, Saving, Active, Terminal
<1>22. Stopping'
  BY DEF TypeOK, Placed, Stopping, Active
<1>23. LockHeld'
  BY DEF TypeOK, LockHeld, Saving
<1>24. OneWriter'
  BY DEF TypeOK, OneWriter, Awaited, Write, LockHeld
<1>25. Files'
  BY DEF TypeOK, Files, FileSays
<1>26. DoneMeansSaved'
  BY DEF TypeOK, DoneMeansSaved, FileSays
<1>27. FileRead'
  BY DEF TypeOK, FileRead, FileSays
<1>28. StopComplete'
  <2>1. \A j \in Jobs : pos[j] = "over" /\ mem[j] \notin Active => mem[j] \in Terminal
    BY DEF TypeOK, Placed, Data
  <2> QED
    BY <2>1 DEF TypeOK, StopComplete
<1>29. NeverStuck'
  BY DEF TypeOK, Placed, Stopping, NeverStuck, Active, Terminal
<1> QED
  BY <1>20, <1>21, <1>22, <1>23, <1>24, <1>25, <1>26, <1>27, <1>28, <1>29, Together

\* A _stop ends a job that no one else is ending.
LEMMA StopEndInv ==
    ASSUME IInv, NEW s \in Stops, NEW j \in Jobs, StopEnd(s, j)
    PROVE  IInv'
<1> USE JobsAssumption DEF StopEnd, diskVars
<1> TypeOK /\ Placed /\ Stopping /\ LockHeld /\ OneWriter /\ Files
    /\ DoneMeansSaved /\ FileRead /\ StopComplete /\ NeverStuck
  BY DEF IInv, FileHonest, FileWhole, FileRead, StopEnds
<1>1. \A z \in Stops : stop[z] = "closing" => curr[z] # j
  BY DEF Stopping, Active
<1>2. pos[j] = "over" /\ ~hit[j] /\ ~done[j]
  BY DEF Placed, Active, Terminal, TypeOK
<1>3. lock # j /\ lock # s
  BY <1>2 DEF LockHeld, Saving
<1>4. ~cut[j] => \A k \in Kinds : thread[<<j, k>>].phase = "idle"
  BY <1>2, QuietRun DEF Active, Terminal, Saving
<1>20. TypeOK'
  BY DEF TypeOK, Data, Active, Terminal, Saving
<1>21. Placed'
  BY DEF TypeOK, Placed, Saving, Active, Terminal
<1>22. Stopping'
  <2>1. \A z \in Stops : z # s => stop'[z] = stop[z] /\ curr'[z] = curr[z]
    BY DEF TypeOK
  <2>2. stop'[s] = "closing" /\ curr'[s] = j /\ mem'[j] = "cancelled"
    BY DEF TypeOK
  <2>3. \A i \in Jobs : i # j => mem'[i] = mem[i]
    BY DEF TypeOK
  <2>4. \A z \in Stops : z # s /\ stop[z] = "closing" => curr[z] \in Jobs
    BY DEF Stopping, TypeOK
  <2>5. ASSUME NEW z \in Stops
        PROVE  /\ stop'[z] \in {"closing", "ending", "over"} => \A i \in targets[z] : pos[i] = "over"
               /\ stop'[z] = "closing" =>
                    /\ curr'[z] \in targets[z] /\ mem'[curr'[z]] = "cancelled" /\ ~done[curr'[z]]
                    /\ \A y \in Stops : stop'[y] = "closing" /\ curr'[y] = curr'[z] => y = z
    BY <1>1, <1>2, <2>1, <2>2, <2>3, <2>4 DEF Stopping
  <2>6. ASSUME NEW i \in Jobs, hit[i]
        PROVE  \E z \in Stops : i \in targets[z] /\ stop'[z] \in {"waiting", "left"}
    <3>1. PICK z \in Stops : i \in targets[z] /\ stop[z] \in {"waiting", "left"}
      BY <2>6 DEF Stopping
    <3>2. pos[i] # "over"
      BY <2>6 DEF Placed
    <3> QED
      BY <2>1, <3>1, <3>2
  <2> QED
    BY <2>5, <2>6 DEF Stopping
<1>23. LockHeld'
  BY DEF TypeOK, LockHeld, Saving
<1>24. OneWriter'
  <2>1. Write(lock)' = Write(lock)
    BY <1>3 DEF Write, TypeOK
  <2> QED
    BY <1>4, <2>1 DEF OneWriter, Awaited, TypeOK
<1>25. Files'
  BY DEF TypeOK, Files, FileSays
<1>26. DoneMeansSaved'
  <2> SUFFICES ASSUME NEW i \in Jobs, done[i]
               PROVE  mem'[i] \in Terminal /\ (cut[i] \/ FileSays(i) = mem'[i])
    BY DEF DoneMeansSaved, FileSays
  <2>1. i # j
    BY <1>2
  <2> QED
    BY <2>1 DEF DoneMeansSaved, TypeOK
<1>27. FileRead'
  <2> SUFFICES ASSUME NEW i \in Jobs, ~cut[i]
               PROVE  /\ FileSays(i) \notin {"empty", "torn"}
                      /\ FileSays(i) \in Terminal => FileSays(i) = mem'[i]
    BY DEF FileRead, FileSays
  <2>1. CASE i = j
    BY <2>1 DEF FileRead, Placed, Active, Terminal
  <2>2. CASE i # j
    BY <2>2 DEF FileRead, TypeOK
  <2> QED
    BY <2>1, <2>2
<1>28. StopComplete'
  BY DEF TypeOK, Stopping, StopComplete, Active, Data, Terminal
<1>29. NeverStuck'
  BY DEF TypeOK, Placed, Stopping, NeverStuck, Active, Terminal
<1> QED
  BY <1>20, <1>21, <1>22, <1>23, <1>24, <1>25, <1>26, <1>27, <1>28, <1>29, Together

\* A submission that is given up leaves the job refused.
LEMMA AbandonSubmitInv ==
    ASSUME IInv, NEW j \in Jobs, AbandonSubmit(j)
    PROVE  IInv'
<1> USE JobsAssumption DEF AbandonSubmit, stopVars, diskVars
<1> TypeOK /\ Placed /\ Stopping /\ LockHeld /\ OneWriter /\ Files
    /\ DoneMeansSaved /\ FileRead /\ StopComplete /\ NeverStuck
  BY DEF IInv, FileHonest, FileWhole, FileRead, StopEnds
<1>1. /\ lock' # j /\ lock' \in {lock, None} /\ (lock # j => lock' = lock)
      /\ thread' \in [Jobs \X Kinds -> Threads] /\ cut' \in [Jobs -> BOOLEAN]
      /\ \A i \in Jobs : cut[i] => cut'[i]
      /\ \A i \in Jobs, k \in Kinds : ~cut'[i] => thread'[<<i, k>>] = thread[<<i, k>>]
      /\ \A i \in Jobs, k \in Kinds : ~cut'[i] /\ lock = j => thread[<<i, k>>].phase = "idle"
  BY CutQuiet DEF Savers
<1>2. ASSUME NEW k \in Kinds, ~cut[j], lock # j
      PROVE  thread[<<j, k>>].phase = "idle"
  <2>1. \A s \in Stops : lock = s => curr[s] # j
    BY DEF LockHeld, Stopping, Placed, Active
  <2> QED
    BY <1>2, <2>1, Quiet
<1>3. ~done'[j]
  BY DEF Placed, TypeOK
<1>4. mem[j] \in Active
  BY DEF Placed
<1>20. TypeOK'
  <2>1. mem' \in [Jobs -> {"none"} \union Data]
    BY DEF TypeOK, Data, Active, Terminal
  <2>2. pos' \in [Jobs -> {"none", "unstarted", "working", "over", "refused"} \union Saving]
    BY DEF TypeOK, Saving
  <2>3. hit' \in [Jobs -> BOOLEAN] /\ done' \in [Jobs -> BOOLEAN]
    BY DEF TypeOK
  <2> QED
    BY <1>1, <2>1, <2>2, <2>3, SMTT(30) DEF TypeOK
<1>21. Placed'
  BY DEF TypeOK, Placed, Saving, Active, Terminal
<1>22. Stopping'
  BY DEF TypeOK, Placed, Stopping, Active
<1>23. LockHeld'
  BY <1>1 DEF LockHeld, TypeOK
<1>24. OneWriter'
  <2> SUFFICES ASSUME NEW i \in Jobs, NEW k \in Kinds, ~cut'[i], thread'[<<i, k>>].phase # "idle"
               PROVE  Awaited(<<i, k>>)' /\ thread'[<<i, k>>].data = mem'[i]
    BY DEF OneWriter
  <2>1. thread'[<<i, k>>] = thread[<<i, k>>] /\ ~cut[i] /\ lock # j
    BY <1>1
  <2>2. i # j /\ lock' = lock /\ lock # None
    BY <1>1, <1>2, <2>1 DEF OneWriter, Awaited
  <2>3. Write(lock)' = Write(lock) /\ mem'[i] = mem[i]
    <3>1. mem'[i] = mem[i]
      BY <2>2 DEF TypeOK
    <3>2. curr' = curr
      OBVIOUS
    <3>3. lock \notin Stops => pos'[lock] = pos[lock]
      <4>1. \A m \in Jobs : m # j => pos'[m] = pos[m]
        BY DEF TypeOK
      <4>2. lock \notin Stops => lock \in Jobs /\ lock # j
        BY <2>1, <2>2 DEF TypeOK
      <4> QED
        BY <4>1, <4>2
    <3> QED
      BY <2>2, <3>1, <3>2, <3>3 DEF Write
  <2> QED
    BY <2>1, <2>2, <2>3 DEF OneWriter, Awaited
<1>25. Files'
  <2>1. \A i \in Jobs : ~cut'[i] => ~cut[i]
    BY <1>1
  <2>2. \A i \in Jobs : FileSays(i)' = FileSays(i)
    BY DEF FileSays
  <2> QED
    BY <1>1, <2>1, <2>2 DEF Files
<1>26. DoneMeansSaved'
  <2> SUFFICES ASSUME NEW i \in Jobs, done'[i]
               PROVE  mem'[i] \in Terminal /\ (cut'[i] \/ FileSays(i) = mem'[i])
    BY DEF DoneMeansSaved, FileSays
  <2>1. i # j
    BY <1>3
  <2> QED
    BY <1>1, <2>1 DEF DoneMeansSaved, TypeOK
<1>27. FileRead'
  <2> SUFFICES ASSUME NEW i \in Jobs, ~cut'[i]
               PROVE  /\ FileSays(i) \notin {"empty", "torn"}
                      /\ FileSays(i) \in Terminal => FileSays(i) = mem'[i]
    BY DEF FileRead, FileSays
  <2>0. ~cut[i]
    BY <1>1
  <2>1. CASE i = j
    BY <1>1, <1>4, <2>0, <2>1 DEF FileRead, Placed, Active, Terminal
  <2>2. CASE i # j
    BY <1>1, <2>0, <2>2 DEF FileRead, TypeOK
  <2> QED
    BY <2>1, <2>2
<1>28. StopComplete'
  BY DEF TypeOK, Stopping, StopComplete, Active, Data, Terminal
<1>29. NeverStuck'
  BY DEF TypeOK, Placed, Stopping, NeverStuck, Active, Terminal
<1> QED
  BY <1>20, <1>21, <1>22, <1>23, <1>24, <1>25, <1>26, <1>27, <1>28, <1>29, Together

\* A task that never ran is over, and a _stop is there to end its job.
LEMMA CancelledUnstartedInv ==
    ASSUME IInv, NEW j \in Jobs, Cancelled(j), pos[j] = "unstarted"
    PROVE  IInv'
<1> USE JobsAssumption DEF Cancelled, stopVars, diskVars
<1> TypeOK /\ Placed /\ Stopping /\ LockHeld /\ OneWriter /\ Files
    /\ DoneMeansSaved /\ FileRead /\ StopComplete /\ NeverStuck
  BY DEF IInv, FileHonest, FileWhole, FileRead, StopEnds
<1>1. \A k \in Kinds : ~cut[j] => thread[<<j, k>>].phase = "idle"
  BY QuietRun DEF Placed, Active, Terminal, Saving
<1>2. lock # j /\ mem[j] \in Active
  BY DEF LockHeld, Saving, Placed
<1>3. PICK s \in Stops : j \in targets[s] /\ stop[s] \in {"waiting", "left"}
  BY DEF Stopping
<1>20. TypeOK'
  <2>1. mem' \in [Jobs -> {"none"} \union Data]
    BY DEF TypeOK, Data, Active, Terminal
  <2>2. pos' \in [Jobs -> {"none", "unstarted", "working", "over", "refused"} \union Saving]
    BY DEF TypeOK, Saving
  <2>3. hit' \in [Jobs -> BOOLEAN] /\ done' \in [Jobs -> BOOLEAN]
    BY DEF TypeOK
  <2> QED
    BY <2>1, <2>2, <2>3, SMTT(30) DEF TypeOK
<1>21. Placed'
  BY DEF TypeOK, Placed, Saving, Active, Terminal
<1>22. Stopping'
  BY DEF TypeOK, Placed, Stopping, Active
<1>23. LockHeld'
  BY DEF TypeOK, LockHeld, Saving
<1>24. OneWriter'
  <2>1. pos' = [pos EXCEPT ![j] = "over"] /\ UNCHANGED <<lock, curr>>
    BY DEF Saving
  <2>2. Write(lock)' = Write(lock)
    BY <1>2, <2>1 DEF Write, TypeOK
  <2> QED
    BY <1>1, <2>2 DEF OneWriter, Awaited, TypeOK
<1>25. Files'
  BY DEF TypeOK, Files, FileSays
<1>26. DoneMeansSaved'
  BY DEF TypeOK, DoneMeansSaved, FileSays
<1>27. FileRead'
  BY DEF TypeOK, FileRead, FileSays
<1>28. StopComplete'
  BY DEF TypeOK, Stopping, StopComplete, Active, Data, Terminal
<1>29. NeverStuck'
  <2> SUFFICES ASSUME NEW i \in Jobs, pos'[i] = "over", mem[i] \in Active
               PROVE  \E z \in Stops : i \in targets[z] /\ stop[z] \in {"waiting", "ending", "closing", "left"}
    BY DEF NeverStuck
  <2>1. CASE i = j
    BY <1>3, <2>1
  <2>2. CASE i # j
    BY <2>2 DEF NeverStuck, TypeOK
  <2> QED
    BY <2>1, <2>2
<1> QED
  BY <1>20, <1>21, <1>22, <1>23, <1>24, <1>25, <1>26, <1>27, <1>28, <1>29, Together

\* A running consult is ended as cancelled; if it was saving, the save is cut.
LEMMA CancelledWorkingInv ==
    ASSUME IInv, NEW j \in Jobs, Cancelled(j), pos[j] \in {"working", "reporting"}
    PROVE  IInv'
<1> USE JobsAssumption DEF Cancelled, stopVars, diskVars
<1> TypeOK /\ Placed /\ Stopping /\ LockHeld /\ OneWriter /\ Files
    /\ DoneMeansSaved /\ FileRead /\ StopComplete /\ NeverStuck
  BY DEF IInv, FileHonest, FileWhole, FileRead, StopEnds
<1>1. /\ lock' # j /\ lock' \in {lock, None} /\ (lock # j => lock' = lock)
      /\ thread' \in [Jobs \X Kinds -> Threads] /\ cut' \in [Jobs -> BOOLEAN]
      /\ \A i \in Jobs : cut[i] => cut'[i]
      /\ \A i \in Jobs, k \in Kinds : ~cut'[i] => thread'[<<i, k>>] = thread[<<i, k>>]
      /\ \A i \in Jobs, k \in Kinds : ~cut'[i] /\ lock = j => thread[<<i, k>>].phase = "idle"
  BY CutQuiet, JobsAssumption DEF Savers
<1>2. ASSUME NEW k \in Kinds, ~cut[j], lock # j
      PROVE  thread[<<j, k>>].phase = "idle"
  <2>1. \A s \in Stops : lock = s => curr[s] # j
    BY DEF LockHeld, Stopping, Placed, Active
  <2> QED
    BY <1>2, <2>1, Quiet
<1>3. ~done'[j]
  BY DEF Placed, TypeOK
<1>4. mem[j] \in Active
  BY DEF Placed
<1>20. TypeOK'
  <2>1. mem' \in [Jobs -> {"none"} \union Data]
    BY DEF TypeOK, Data, Active, Terminal
  <2>2. pos' \in [Jobs -> {"none", "unstarted", "working", "over", "refused"} \union Saving]
    BY DEF TypeOK, Saving
  <2>3. hit' \in [Jobs -> BOOLEAN] /\ done' \in [Jobs -> BOOLEAN]
    BY DEF TypeOK
  <2> QED
    BY <1>1, <2>1, <2>2, <2>3, SMTT(30) DEF TypeOK
<1>21. Placed'
  BY DEF TypeOK, Placed, Saving, Active, Terminal
<1>22. Stopping'
  BY DEF TypeOK, Placed, Stopping, Active
<1>23. LockHeld'
  BY <1>1 DEF LockHeld, TypeOK
<1>24. OneWriter'
  <2> SUFFICES ASSUME NEW i \in Jobs, NEW k \in Kinds, ~cut'[i], thread'[<<i, k>>].phase # "idle"
               PROVE  Awaited(<<i, k>>)' /\ thread'[<<i, k>>].data = mem'[i]
    BY DEF OneWriter
  <2>1. thread'[<<i, k>>] = thread[<<i, k>>] /\ ~cut[i] /\ lock # j
    BY <1>1
  <2>2. i # j /\ lock' = lock /\ lock # None
    BY <1>1, <1>2, <2>1 DEF OneWriter, Awaited
  <2>3. Write(lock)' = Write(lock) /\ mem'[i] = mem[i]
    <3>1. mem'[i] = mem[i]
      BY <2>2 DEF TypeOK
    <3>2. curr' = curr
      OBVIOUS
    <3>3. lock \notin Stops => pos'[lock] = pos[lock]
      <4>1. \A m \in Jobs : m # j => pos'[m] = pos[m]
        BY DEF TypeOK
      <4>2. lock \notin Stops => lock \in Jobs /\ lock # j
        BY <2>1, <2>2 DEF TypeOK
      <4> QED
        BY <4>1, <4>2
    <3> QED
      BY <2>2, <3>1, <3>2, <3>3 DEF Write
  <2> QED
    BY <2>1, <2>2, <2>3 DEF OneWriter, Awaited
<1>25. Files'
  <2>1. \A i \in Jobs : ~cut'[i] => ~cut[i]
    BY <1>1
  <2>2. \A i \in Jobs : FileSays(i)' = FileSays(i)
    BY DEF FileSays
  <2> QED
    BY <1>1, <2>1, <2>2 DEF Files
<1>26. DoneMeansSaved'
  <2> SUFFICES ASSUME NEW i \in Jobs, done'[i]
               PROVE  mem'[i] \in Terminal /\ (cut'[i] \/ FileSays(i) = mem'[i])
    BY DEF DoneMeansSaved, FileSays
  <2>1. i # j
    BY <1>3
  <2> QED
    BY <1>1, <2>1 DEF DoneMeansSaved, TypeOK
<1>27. FileRead'
  <2> SUFFICES ASSUME NEW i \in Jobs, ~cut'[i]
               PROVE  /\ FileSays(i) \notin {"empty", "torn"}
                      /\ FileSays(i) \in Terminal => FileSays(i) = mem'[i]
    BY DEF FileRead, FileSays
  <2>0. ~cut[i]
    BY <1>1
  <2>1. CASE i = j
    BY <1>1, <1>4, <2>0, <2>1 DEF FileRead, Placed, Active, Terminal
  <2>2. CASE i # j
    BY <1>1, <2>0, <2>2 DEF FileRead, TypeOK
  <2> QED
    BY <2>1, <2>2
<1>28. StopComplete'
  BY DEF TypeOK, Stopping, StopComplete, Active, Data, Terminal
<1>29. NeverStuck'
  BY DEF TypeOK, Placed, Stopping, NeverStuck, Active, Terminal
<1> QED
  BY <1>20, <1>21, <1>22, <1>23, <1>24, <1>25, <1>26, <1>27, <1>28, <1>29, Together

\* A job that saves how it ended is left as it is, and its waiters are woken.
LEMMA CancelledClosingInv ==
    ASSUME IInv, NEW j \in Jobs, Cancelled(j), pos[j] = "closing"
    PROVE  IInv'
<1> USE JobsAssumption DEF Cancelled, stopVars, diskVars
<1> TypeOK /\ Placed /\ Stopping /\ LockHeld /\ OneWriter /\ Files
    /\ DoneMeansSaved /\ FileRead /\ StopComplete /\ NeverStuck
  BY DEF IInv, FileHonest, FileWhole, FileRead, StopEnds
<1>1. /\ lock' # j /\ lock' \in {lock, None} /\ (lock # j => lock' = lock)
      /\ thread' \in [Jobs \X Kinds -> Threads] /\ cut' \in [Jobs -> BOOLEAN]
      /\ \A i \in Jobs : cut[i] => cut'[i]
      /\ \A i \in Jobs, k \in Kinds : ~cut'[i] => thread'[<<i, k>>] = thread[<<i, k>>]
      /\ \A i \in Jobs, k \in Kinds : ~cut'[i] /\ lock = j => thread[<<i, k>>].phase = "idle"
      /\ cut'[j]
  <2>1. CASE lock = j
    <3>1. CutSave(j)
      BY <2>1
    <3>2. Write(j)[1] = j
      BY WriteOf DEF Savers
    <3> QED
      BY <2>1, <3>1, <3>2, CutQuiet DEF Savers
  <2>2. CASE lock # j
    <3>1. cut' = [cut EXCEPT ![j] = TRUE] /\ UNCHANGED <<lock, thread>>
      BY <2>2
    <3> QED
      BY <2>2, <3>1 DEF TypeOK
  <2> QED
    BY <2>1, <2>2
<1>2. mem[j] \in Terminal
  BY DEF Placed
<1>3. done' = [done EXCEPT ![j] = TRUE] /\ pos' = [pos EXCEPT ![j] = "over"] /\ UNCHANGED mem
  OBVIOUS
<1>20. TypeOK'
  <2>1. mem' \in [Jobs -> {"none"} \union Data]
    BY <1>3 DEF TypeOK
  <2>2. pos' \in [Jobs -> {"none", "unstarted", "working", "over", "refused"} \union Saving]
    BY <1>3 DEF TypeOK
  <2>3. hit' \in [Jobs -> BOOLEAN] /\ done' \in [Jobs -> BOOLEAN]
    BY DEF TypeOK
  <2> QED
    BY <1>1, <2>1, <2>2, <2>3, SMTT(30) DEF TypeOK
<1>21. Placed'
  BY <1>2 DEF TypeOK, Placed, Saving, Active, Terminal
<1>22. Stopping'
  <2>1. \A z \in Stops : stop[z] = "closing" => curr[z] # j
    BY DEF Stopping
  <2>2. \A i \in Jobs : i # j => done'[i] = done[i] /\ hit'[i] = hit[i]
    BY DEF TypeOK
  <2>3. ~hit'[j]
    BY DEF TypeOK
  <2>4. \A i \in Jobs : pos[i] = "over" => pos'[i] = "over"
    BY DEF TypeOK
  <2> QED
    BY <2>1, <2>2, <2>3, <2>4 DEF TypeOK, Stopping
<1>23. LockHeld'
  BY <1>1 DEF LockHeld, TypeOK
<1>24. OneWriter'
  <2> SUFFICES ASSUME NEW i \in Jobs, NEW k \in Kinds, ~cut'[i], thread'[<<i, k>>].phase # "idle"
               PROVE  Awaited(<<i, k>>)' /\ thread'[<<i, k>>].data = mem'[i]
    BY DEF OneWriter
  <2>1. thread'[<<i, k>>] = thread[<<i, k>>] /\ ~cut[i] /\ lock # j
    BY <1>1
  <2>2. lock' = lock /\ lock # None
    BY <1>1, <1>2, <2>1 DEF OneWriter, Awaited
  <2>3. Write(lock)' = Write(lock)
    <3>1. lock' = lock /\ curr' = curr
      BY <2>2
    <3> QED
      BY <1>3, <2>1, <3>1 DEF Write, TypeOK
  <2> QED
    BY <2>1, <2>2, <2>3 DEF OneWriter, Awaited
<1>25. Files'
  <2>1. \A i \in Jobs : ~cut'[i] => ~cut[i]
    BY <1>1
  <2>2. \A i \in Jobs : FileSays(i)' = FileSays(i)
    BY DEF FileSays
  <2> QED
    BY <1>1, <2>1, <2>2 DEF Files
<1>26. DoneMeansSaved'
  BY <1>1, <1>2, <1>3 DEF TypeOK, DoneMeansSaved, FileSays
<1>27. FileRead'
  BY <1>1 DEF FileRead, FileSays
<1>28. StopComplete'
  BY DEF TypeOK, Stopping, StopComplete, Active, Data, Terminal
<1>29. NeverStuck'
  BY DEF TypeOK, Placed, Stopping, NeverStuck, Active, Terminal
<1> QED
  BY <1>20, <1>21, <1>22, <1>23, <1>24, <1>25, <1>26, <1>27, <1>28, <1>29, Together

\* A cancellation that is delivered preserves the invariant, wherever the task is.
LEMMA CancelledInv ==
    ASSUME IInv, NEW j \in Jobs, Cancelled(j)
    PROVE  IInv'
<1>1. pos[j] \in {"unstarted", "working", "reporting", "closing"}
  BY DEF IInv, Placed, Cancelled
<1> QED
  BY <1>1, CancelledUnstartedInv, CancelledWorkingInv, CancelledClosingInv

\* A call of _stop that goes away while it waits leaves its jobs to themselves.
LEMMA StopLeftWaitingInv ==
    ASSUME IInv, NEW s \in Stops, StopLeft(s), stop[s] = "waiting"
    PROVE  IInv'
<1> USE JobsAssumption DEF StopLeft, diskVars
<1> TypeOK /\ Placed /\ Stopping /\ LockHeld /\ OneWriter /\ Files
    /\ DoneMeansSaved /\ FileRead /\ StopComplete /\ NeverStuck
  BY DEF IInv, FileHonest, FileWhole, FileRead, StopEnds
<1>20. TypeOK'
  BY DEF TypeOK, Data, Active, Terminal, Saving
<1>21. Placed'
  BY DEF TypeOK, Placed, Saving, Active, Terminal
<1>22. Stopping'
  <2>1. \A z \in Stops : stop'[z] = IF z = s THEN "left" ELSE stop[z]
    BY DEF TypeOK
  <2> QED
    BY <2>1 DEF Stopping
<1>23. LockHeld'
  BY DEF TypeOK, LockHeld, Saving
<1>24. OneWriter'
  BY DEF TypeOK, OneWriter, Awaited, Write, LockHeld
<1>25. Files'
  BY DEF TypeOK, Files, FileSays
<1>26. DoneMeansSaved'
  BY DEF TypeOK, DoneMeansSaved, FileSays
<1>27. FileRead'
  BY DEF TypeOK, FileRead, FileSays
<1>28. StopComplete'
  BY DEF TypeOK, Stopping, StopComplete, Active, Data, Terminal
<1>29. NeverStuck'
  BY DEF TypeOK, Placed, Stopping, NeverStuck, Active, Terminal
<1> QED
  BY <1>20, <1>21, <1>22, <1>23, <1>24, <1>25, <1>26, <1>27, <1>28, <1>29, Together

\* One that goes away while it saves leaves the job done, and its write cut off.
LEMMA StopLeftClosingInv ==
    ASSUME IInv, NEW s \in Stops, StopLeft(s), stop[s] = "closing"
    PROVE  IInv'
<1> USE JobsAssumption DEF StopLeft, diskVars
<1> TypeOK /\ Placed /\ Stopping /\ LockHeld /\ OneWriter /\ Files
    /\ DoneMeansSaved /\ FileRead /\ StopComplete /\ NeverStuck
  BY DEF IInv, FileHonest, FileWhole, FileRead, StopEnds
<1>0. /\ curr[s] \in Jobs /\ pos[curr[s]] = "over" /\ mem[curr[s]] = "cancelled" /\ ~done[curr[s]]
      /\ \A z \in Stops : z # s /\ stop[z] = "closing" => curr[z] # curr[s]
      /\ Write(s)[1] = curr[s]
  BY WriteOf DEF Savers, Stopping, TypeOK
<1> DEFINE j == curr[s]
<1>1. /\ lock' # s /\ lock' \in {lock, None} /\ (lock # s => lock' = lock)
      /\ thread' \in [Jobs \X Kinds -> Threads] /\ cut' \in [Jobs -> BOOLEAN]
      /\ \A i \in Jobs : cut[i] => cut'[i]
      /\ \A i \in Jobs, k \in Kinds : ~cut'[i] => thread'[<<i, k>>] = thread[<<i, k>>]
      /\ \A i \in Jobs, k \in Kinds : ~cut'[i] /\ lock = s => thread[<<i, k>>].phase = "idle"
      /\ cut'[j]
  <2>1. CASE lock = s
    <3>1. CutSave(s)
      BY <2>1
    <3> QED
      BY <1>0, <2>1, <3>1, CutQuiet DEF Savers
  <2>2. CASE lock # s
    <3>1. cut' = [cut EXCEPT ![j] = TRUE] /\ UNCHANGED <<lock, thread>>
      BY <2>2
    <3> QED
      BY <1>0, <2>2, <3>1 DEF TypeOK
  <2> QED
    BY <2>1, <2>2
<1>2. done' = [done EXCEPT ![j] = TRUE] /\ stop' = [stop EXCEPT ![s] = "left"]
  OBVIOUS
<1> HIDE DEF j
<1>3. j \in Jobs /\ pos[j] = "over" /\ mem[j] = "cancelled"
  BY <1>0 DEF j
<1>20. TypeOK'
  <2>1. done' \in [Jobs -> BOOLEAN]
    BY <1>2 DEF TypeOK
  <2>2. stop' \in [Stops -> {"idle", "waiting", "closing", "ending", "over", "left"}]
    BY <1>2 DEF TypeOK
  <2>3. lock' \in Jobs \union Stops \union {None}
    BY <1>1 DEF TypeOK
  <2>4. UNCHANGED <<mem, pos, hit, reports, targets, curr, temp, path, content>>
    OBVIOUS
  <2> QED
    BY <1>1, <2>1, <2>2, <2>3, <2>4 DEF TypeOK
<1>21. Placed'
  BY <1>2, <1>3 DEF TypeOK, Placed, Terminal
<1>22. Stopping'
  <2>1. \A z \in Stops : z # s /\ stop[z] = "closing" => curr[z] # j
    BY <1>0 DEF j
  <2>2. \A i \in Jobs : i # j => done'[i] = done[i]
    BY <1>2 DEF TypeOK
  <2>3. \A z \in Stops : stop'[z] = IF z = s THEN "left" ELSE stop[z]
    BY <1>2 DEF TypeOK
  <2>4. \A z \in Stops : stop[z] = "closing" => curr[z] \in Jobs
    BY DEF Stopping, TypeOK
  <2> QED
    BY <2>1, <2>2, <2>3, <2>4 DEF Stopping
<1>23. LockHeld'
  <2>1. lock' \in Stops => lock' # s /\ lock' = lock
    BY <1>1
  <2> QED
    BY <1>1, <1>2, <2>1 DEF LockHeld, TypeOK
<1>24. OneWriter'
  <2> SUFFICES ASSUME NEW i \in Jobs, NEW k \in Kinds, ~cut'[i], thread'[<<i, k>>].phase # "idle"
               PROVE  Awaited(<<i, k>>)' /\ thread'[<<i, k>>].data = mem'[i]
    BY DEF OneWriter
  <2>1. thread'[<<i, k>>] = thread[<<i, k>>] /\ ~cut[i] /\ lock # s
    BY <1>1
  <2>2. lock' = lock /\ Write(lock)' = Write(lock)
    BY <1>1, <2>1 DEF Write
  <2> QED
    BY <2>1, <2>2 DEF OneWriter, Awaited
<1>25. Files'
  <2>1. \A i \in Jobs : ~cut'[i] => ~cut[i]
    BY <1>1
  <2>2. \A i \in Jobs : FileSays(i)' = FileSays(i)
    BY DEF FileSays
  <2> QED
    BY <1>1, <2>1, <2>2 DEF Files
<1>26. DoneMeansSaved'
  BY <1>1, <1>2, <1>3 DEF TypeOK, DoneMeansSaved, FileSays, Terminal
<1>27. FileRead'
  BY <1>1 DEF FileRead, FileSays
<1>28. StopComplete'
  BY <1>2 DEF TypeOK, StopComplete
<1>29. NeverStuck'
  BY <1>2 DEF TypeOK, NeverStuck
<1> QED
  BY <1>20, <1>21, <1>22, <1>23, <1>24, <1>25, <1>26, <1>27, <1>28, <1>29, Together

\* With the lock free nobody writes an uncut job's file: its record is what is
\* handed to the new thread.
LEMMA AcquireInv ==
    ASSUME IInv, NEW v \in Savers, Acquire(v)
    PROVE  IInv'
<1> USE JobsAssumption DEF Acquire, jobVars, stopVars, diskVars
<1> TypeOK /\ Placed /\ Stopping /\ LockHeld /\ OneWriter /\ Files
    /\ DoneMeansSaved /\ FileRead /\ StopComplete /\ NeverStuck
  BY DEF IInv, FileHonest, FileWhole, FileRead, StopEnds
<1> DEFINE w == Write(v)
<1>1. w \in Jobs \X Kinds
  BY WriteOf DEF Savers, Saves
<1>2. mem[w[1]] \in Data
  <2>1. CASE v \in Jobs
    <3>1. w[1] = v /\ pos[v] \in Saving
      BY <2>1, WriteOf DEF Savers, Saves
    <3> QED
      BY <2>1, <3>1 DEF TypeOK, Placed, Saving
  <2>2. CASE v \in Stops
    <3>1. w[1] = curr[v] /\ stop[v] = "closing" /\ v \notin Jobs
      BY <2>2, WriteOf DEF Savers, Saves
    <3> QED
      BY <2>2, <3>1 DEF Stopping, Data, Terminal
  <2> QED
    BY <2>1, <2>2 DEF Savers
<1>3. \A i \in Jobs, k \in Kinds : ~cut[i] => thread[<<i, k>>].phase = "idle"
  BY DEF OneWriter, Awaited
<1>4. Write(v)' = w
  BY DEF Write
<1> DEFINE t == [phase |-> "queued", data |-> mem[w[1]], inode |-> 0]
<1>5. thread' = [thread EXCEPT ![w] = t] /\ t \in Threads
  BY <1>2 DEF Threads
<1>6. t.phase = "queued" /\ t.data = mem[w[1]] /\ t.inode = 0
  OBVIOUS
<1> HIDE DEF w, t
<1>7. \A u \in Jobs \X Kinds : thread'[u] = IF u = w THEN t ELSE thread[u]
  BY <1>1, <1>5 DEF TypeOK
<1>20. TypeOK'
  <2>1. thread' \in [Jobs \X Kinds -> Threads]
    <3>1. thread \in [Jobs \X Kinds -> Threads]
      BY DEF TypeOK
    <3> HIDE DEF Acquire
    <3> QED
      BY <1>1, <1>5, <3>1
  <2>2. lock' \in Jobs \union Stops \union {None}
    BY DEF Savers
  <2> QED
    BY <2>1, <2>2 DEF TypeOK
<1>21. Placed'
  BY DEF TypeOK, Placed, Saving, Active, Terminal
<1>22. Stopping'
  BY DEF TypeOK, Placed, Stopping, Active
<1>23. LockHeld'
  BY DEF LockHeld, Saves
<1>24. OneWriter'
  <2> SUFFICES ASSUME NEW i \in Jobs, NEW k \in Kinds, ~cut[i], thread'[<<i, k>>].phase # "idle"
               PROVE  Awaited(<<i, k>>)' /\ thread'[<<i, k>>].data = mem[i]
    BY DEF OneWriter
  <2>1. <<i, k>> = w
    BY <1>3, <1>7
  <2>2. thread'[<<i, k>>].data = mem[i]
    BY <1>6, <1>7, <2>1
  <2>3. lock' # None /\ Write(lock)' = w
    BY <1>4 DEF Savers
  <2> QED
    BY <2>1, <2>2, <2>3 DEF Awaited
<1>25. Files'
  <2> SUFFICES ASSUME NEW i \in Jobs, ~cut[i]
               PROVE  /\ path[i] # 0 => content[i][path[i]] \in Data
                      /\ temp[i] = 0
                      /\ \A k \in Kinds : /\ thread'[<<i, k>>].phase \in {"idle", "queued"}
                                          /\ thread'[<<i, k>>].inode = 0
    BY DEF Files, FileSays
  <2> QED
    BY <1>3, <1>6, <1>7 DEF Files
<1>26. DoneMeansSaved'
  BY DEF TypeOK, DoneMeansSaved, FileSays
<1>27. FileRead'
  BY DEF TypeOK, FileRead, FileSays
<1>28. StopComplete'
  BY DEF TypeOK, Stopping, StopComplete, Active, Data, Terminal
<1>29. NeverStuck'
  BY DEF TypeOK, Placed, Stopping, NeverStuck, Active, Terminal
<1> QED
  BY <1>20, <1>21, <1>22, <1>23, <1>24, <1>25, <1>26, <1>27, <1>28, <1>29, Together

\* A job that is woken after its last save is done, and the file says how it ended.
LEMMA ReleaseJobInv ==
    ASSUME IInv, NEW v \in Jobs, Release(v)
    PROVE  IInv'
<1> USE JobsAssumption DEF Release, diskVars
<1> TypeOK /\ Placed /\ Stopping /\ LockHeld /\ OneWriter /\ Files
    /\ DoneMeansSaved /\ FileRead /\ StopComplete /\ NeverStuck
  BY DEF IInv, FileHonest, FileWhole, FileRead, StopEnds
<1> DEFINE w == Write(v)
<1>1. w \in Jobs \X Kinds /\ thread[w].phase \in {"done", "failed"}
  BY WriteOf DEF Savers, Saves
<1>2. thread' \in [Jobs \X Kinds -> Threads]
  <2>1. Idle \in Threads
    BY DEF Idle, Threads, Data, Active
  <2> QED
    BY <1>1, <2>1 DEF TypeOK
<1>3. \A u \in Jobs \X Kinds : thread'[u] = IF u = w THEN Idle ELSE thread[u]
  BY <1>1 DEF TypeOK
<1>4. \A i \in Jobs, k \in Kinds : ~cut[i] => thread'[<<i, k>>].phase = "idle"
  BY <1>3 DEF OneWriter, Awaited, Idle
<1>5. ~cut[w[1]] => FileSays(w[1]) = mem[w[1]]
  <2>1. w = <<w[1], w[2]>> /\ w[1] \in Jobs /\ w[2] \in Kinds
    BY <1>1
  <2>2. ~cut[w[1]] => thread[w].phase # "failed" /\ (thread[w].phase = "done" => FileSays(w[1]) = thread[w].data)
    BY <2>1 DEF Files
  <2>3. ~cut[w[1]] => thread[w].data = mem[w[1]]
    BY <1>1, <2>1 DEF OneWriter
  <2> QED
    BY <1>1, <2>2, <2>3
<1>6. w[1] = v /\ v \notin Stops /\ pos[v] \in Saving /\ ~hit[v]
  BY WriteOf DEF Savers, Saves
<1>7. PICK ok \in BOOLEAN : Proceed(v, ok)
  BY <1>6
<1>8. UNCHANGED <<mem, hit, reports, stop, targets, curr, temp, path, content, cut>> /\ lock' = None
  BY <1>6
<1>9. /\ \A i \in Jobs : i # v => pos'[i] = pos[i] /\ done'[i] = done[i]
      /\ pos'[v] = CASE pos[v] = "submitting" -> IF ok THEN "unstarted" ELSE "refused"
                     [] pos[v] = "reporting"  -> "working"
                     [] OTHER                 -> "over"
      /\ done'[v] = (done[v] \/ pos[v] = "closing")
      /\ pos' \in [Jobs -> {"none", "unstarted", "working", "over", "refused"} \union Saving]
      /\ done' \in [Jobs -> BOOLEAN]
  BY <1>7 DEF Proceed, TypeOK
<1> HIDE DEF w, Release
<1>20. TypeOK'
  BY <1>2, <1>8, <1>9 DEF TypeOK
<1>21. Placed'
  BY <1>6, <1>8, <1>9 DEF Placed, Saving, Active, Terminal
<1>22. Stopping'
  <2>1. \A i \in Jobs : pos[i] = "over" => pos'[i] = "over" /\ done'[i] = done[i]
    BY <1>6, <1>9 DEF Saving
  <2>2. \A z \in Stops : stop[z] = "closing" => curr[z] \in Jobs /\ pos[curr[z]] = "over"
    BY DEF Stopping, TypeOK
  <2> QED
    BY <1>8, <2>1, <2>2 DEF Stopping, TypeOK
<1>23. LockHeld'
  BY <1>8 DEF LockHeld
<1>24. OneWriter'
  BY <1>4, <1>8 DEF OneWriter
<1>25. Files'
  <2> SUFFICES ASSUME NEW i \in Jobs, ~cut[i]
               PROVE  /\ path[i] # 0 => content[i][path[i]] \in Data
                      /\ temp[i] = 0
                      /\ \A k \in Kinds : /\ thread'[<<i, k>>].phase = "idle"
                                          /\ thread'[<<i, k>>].inode = 0
    BY <1>8 DEF Files, FileSays
  <2>1. ASSUME NEW k \in Kinds
        PROVE  /\ thread[<<i, k>>].phase \notin {"opened", "written"}
               /\ thread'[<<i, k>>].inode = 0
    <3>1. CASE <<i, k>> = w
      BY <1>1, <1>3, <3>1 DEF Idle
    <3>2. CASE <<i, k>> # w
      <4>1. thread'[<<i, k>>] = thread[<<i, k>>]
        BY <1>3, <3>2
      <4> QED
        BY <1>4, <4>1 DEF Files
    <3> QED
      BY <3>1, <3>2
  <2> QED
    BY <1>4, <2>1 DEF Files
<1>26. DoneMeansSaved'
  <2> SUFFICES ASSUME NEW i \in Jobs, done'[i]
               PROVE  mem[i] \in Terminal /\ (cut[i] \/ FileSays(i) = mem[i])
    BY <1>8 DEF DoneMeansSaved, FileSays
  <2>1. CASE i = v /\ ~done[v]
    BY <1>5, <1>6, <1>9, <2>1 DEF Placed
  <2>2. CASE done[i]
    BY <2>2 DEF DoneMeansSaved
  <2> QED
    BY <1>9, <2>1, <2>2
<1>27. FileRead'
  BY <1>8 DEF FileRead, FileSays
<1>28. StopComplete'
  BY <1>6, <1>8, <1>9 DEF StopComplete, Saving, TypeOK
<1>29. NeverStuck'
  <2>1. \A i \in Jobs : pos'[i] = "over" /\ mem[i] \in Active => pos[i] = "over"
    BY <1>6, <1>9 DEF Placed, Saving, Active, Terminal
  <2> QED
    BY <1>8, <2>1 DEF NeverStuck
<1> QED
  BY <1>20, <1>21, <1>22, <1>23, <1>24, <1>25, <1>26, <1>27, <1>28, <1>29, Together

\* A _stop that is woken has ended its job, and the file says so.
LEMMA ReleaseStopInv ==
    ASSUME IInv, NEW v \in Stops, Release(v)
    PROVE  IInv'
<1> USE JobsAssumption DEF Release, diskVars
<1> TypeOK /\ Placed /\ Stopping /\ LockHeld /\ OneWriter /\ Files
    /\ DoneMeansSaved /\ FileRead /\ StopComplete /\ NeverStuck
  BY DEF IInv, FileHonest, FileWhole, FileRead, StopEnds
<1> DEFINE w == Write(v)
<1>1. w \in Jobs \X Kinds /\ thread[w].phase \in {"done", "failed"}
  BY WriteOf DEF Savers, Saves
<1>2. thread' \in [Jobs \X Kinds -> Threads]
  <2>1. Idle \in Threads
    BY DEF Idle, Threads, Data, Active
  <2> QED
    BY <1>1, <2>1 DEF TypeOK
<1>3. \A u \in Jobs \X Kinds : thread'[u] = IF u = w THEN Idle ELSE thread[u]
  BY <1>1 DEF TypeOK
<1>4. \A i \in Jobs, k \in Kinds : ~cut[i] => thread'[<<i, k>>].phase = "idle"
  BY <1>3 DEF OneWriter, Awaited, Idle
<1>5. ~cut[w[1]] => FileSays(w[1]) = mem[w[1]]
  <2>1. w = <<w[1], w[2]>> /\ w[1] \in Jobs /\ w[2] \in Kinds
    BY <1>1
  <2>2. ~cut[w[1]] => thread[w].phase # "failed" /\ (thread[w].phase = "done" => FileSays(w[1]) = thread[w].data)
    BY <2>1 DEF Files
  <2>3. ~cut[w[1]] => thread[w].data = mem[w[1]]
    BY <1>1, <2>1 DEF OneWriter
  <2> QED
    BY <1>1, <2>2, <2>3
<1>6. /\ stop[v] = "closing" /\ v \notin Jobs /\ w[1] = curr[v] /\ curr[v] \in Jobs
      /\ pos[curr[v]] = "over" /\ mem[curr[v]] = "cancelled" /\ ~done[curr[v]]
  BY WriteOf DEF Savers, Saves, Stopping
<1>7. UNCHANGED <<mem, pos, hit, reports, targets, curr, temp, path, content, cut>> /\ lock' = None
  BY <1>6
<1>8. /\ \A z \in Stops : stop'[z] = IF z = v THEN "ending" ELSE stop[z]
      /\ stop' \in [Stops -> {"idle", "waiting", "closing", "ending", "over", "left"}]
      /\ \A i \in Jobs : done'[i] = IF i = curr[v] THEN TRUE ELSE done[i]
      /\ done' \in [Jobs -> BOOLEAN]
  BY <1>6 DEF TypeOK
<1> HIDE DEF w, Release
<1>20. TypeOK'
  BY <1>2, <1>7, <1>8 DEF TypeOK
<1>21. Placed'
  BY <1>6, <1>7, <1>8 DEF Placed, Terminal
<1>22. Stopping'
  <2>1. \A z \in Stops : z # v /\ stop[z] = "closing" => curr[z] \in Jobs /\ curr[z] # curr[v]
    BY <1>6 DEF Stopping, TypeOK
  <2>2. v \in Stops /\ \A i \in targets[v] : pos[i] = "over"
    BY <1>6 DEF Stopping
  <2>3. ASSUME NEW z \in Stops
        PROVE  /\ stop'[z] \in {"closing", "ending", "over"} => \A i \in targets[z] : pos[i] = "over"
               /\ stop'[z] = "closing" =>
                    /\ curr[z] \in targets[z] /\ mem[curr[z]] = "cancelled" /\ ~done'[curr[z]]
                    /\ \A y \in Stops : stop'[y] = "closing" /\ curr[y] = curr[z] => y = z
    <3>1. CASE z = v
      BY <1>8, <2>2, <3>1
    <3>2. CASE z # v
      <4>1. stop'[z] = stop[z]
        BY <1>8, <3>2
      <4>2. stop[z] = "closing" => curr[z] \in Jobs /\ done'[curr[z]] = done[curr[z]]
        BY <1>8, <2>1, <3>2
      <4>3. \A y \in Stops : stop'[y] = "closing" => stop[y] = "closing"
        BY <1>8
      <4> QED
        BY <4>1, <4>2, <4>3 DEF Stopping
    <3> QED
      BY <3>1, <3>2
  <2>4. ASSUME NEW i \in Jobs, hit[i]
        PROVE  \E z \in Stops : i \in targets[z] /\ stop'[z] \in {"waiting", "left"}
    <3>1. PICK z \in Stops : i \in targets[z] /\ stop[z] \in {"waiting", "left"}
      BY <2>4 DEF Stopping
    <3> QED
      BY <1>6, <1>8, <3>1
  <2> QED
    BY <1>7, <2>3, <2>4 DEF Stopping
<1>23. LockHeld'
  BY <1>7 DEF LockHeld
<1>24. OneWriter'
  BY <1>4, <1>7 DEF OneWriter
<1>25. Files'
  <2> SUFFICES ASSUME NEW i \in Jobs, ~cut[i]
               PROVE  /\ path[i] # 0 => content[i][path[i]] \in Data
                      /\ temp[i] = 0
                      /\ \A k \in Kinds : /\ thread'[<<i, k>>].phase = "idle"
                                          /\ thread'[<<i, k>>].inode = 0
    BY <1>7 DEF Files, FileSays
  <2>1. ASSUME NEW k \in Kinds
        PROVE  /\ thread[<<i, k>>].phase \notin {"opened", "written"}
               /\ thread'[<<i, k>>].inode = 0
    <3>1. CASE <<i, k>> = w
      BY <1>1, <1>3, <3>1 DEF Idle
    <3>2. CASE <<i, k>> # w
      <4>1. thread'[<<i, k>>] = thread[<<i, k>>]
        BY <1>3, <3>2
      <4> QED
        BY <1>4, <4>1 DEF Files
    <3> QED
      BY <3>1, <3>2
  <2> QED
    BY <1>4, <2>1 DEF Files
<1>26. DoneMeansSaved'
  <2> SUFFICES ASSUME NEW i \in Jobs, done'[i]
               PROVE  mem[i] \in Terminal /\ (cut[i] \/ FileSays(i) = mem[i])
    BY <1>7 DEF DoneMeansSaved, FileSays
  <2>1. CASE i = curr[v]
    BY <1>5, <1>6, <2>1 DEF Terminal
  <2>2. CASE i # curr[v]
    BY <1>8, <2>2 DEF DoneMeansSaved
  <2> QED
    BY <2>1, <2>2
<1>27. FileRead'
  BY <1>7 DEF FileRead, FileSays
<1>28. StopComplete'
  BY <1>7, <1>8 DEF StopComplete, TypeOK
<1>29. NeverStuck'
  BY <1>7, <1>8 DEF NeverStuck
<1> QED
  BY <1>20, <1>21, <1>22, <1>23, <1>24, <1>25, <1>26, <1>27, <1>28, <1>29, Together

\* The temporary file of an uncut job is a new one.
LEMMA ThreadOpenInv ==
    ASSUME IInv, NEW w \in Jobs \X Kinds, ThreadOpen(w)
    PROVE  IInv'
<1> USE JobsAssumption DEF ThreadOpen, jobVars, stopVars
<1> TypeOK /\ Placed /\ Stopping /\ LockHeld /\ OneWriter /\ Files
    /\ DoneMeansSaved /\ FileRead /\ StopComplete /\ NeverStuck
  BY DEF IInv, FileHonest, FileWhole, FileRead, StopEnds
<1> DEFINE j == w[1]
<1>0. w = <<j, w[2]>> /\ j \in Jobs /\ w[2] \in Kinds
  OBVIOUS
<1>1. ~cut[j] => /\ lock # None /\ w = Write(lock) /\ thread[w].data = mem[j]
                 /\ \A k \in Kinds : <<j, k>> # w => thread[<<j, k>>].phase = "idle"
  BY <1>0 DEF OneWriter, Awaited
<1> DEFINE used == {temp[j], path[j]} \union {thread[<<j, k>>].inode : k \in Kinds}
           i    == IF temp[j] # 0 THEN temp[j] ELSE CHOOSE n \in Inodes \ used : TRUE
<1>2. i \in Inodes /\ i # 0 /\ (~cut[j] => temp[j] = 0 /\ i # path[j])
  <2>1. temp[j] \in Inodes \union {0} /\ path[j] \in Inodes \union {0}
    BY <1>0 DEF TypeOK
  <2>2. CASE temp[j] # 0
    <3>1. cut[j]
      BY <1>0, <1>1, <2>2 DEF Files
    <3> QED
      BY <2>1, <2>2, <3>1 DEF Inodes
  <2>3. CASE temp[j] = 0
    <3> DEFINE a == thread[<<j, "submit">>].inode
               b == thread[<<j, "report">>].inode
               c == thread[<<j, "end">>].inode
    <3>1. used = {0, path[j], a, b, c}
      BY <2>3 DEF Kinds
    <3>2. a \in Inodes \union {0} /\ b \in Inodes \union {0} /\ c \in Inodes \union {0}
      BY <1>0 DEF TypeOK, Threads, Kinds
    <3> HIDE DEF a, b, c, used
    <3>4. \E n \in Inodes : n \notin used
      BY <2>1, <3>1, <3>2 DEF Inodes
    <3>5. i \in Inodes \ used
      BY <2>3, <3>4
    <3> QED
      BY <2>3, <3>1, <3>5 DEF Inodes
  <2> QED
    BY <2>2, <2>3
<1> HIDE DEF i, used
<1>3. \A u \in Jobs \X Kinds :
         thread'[u] = IF u = w THEN [thread[w] EXCEPT !.phase = "opened", !.inode = i] ELSE thread[u]
  BY DEF TypeOK, i, used
<1>4. /\ temp' = [temp EXCEPT ![j] = i] /\ content' = [content EXCEPT ![j][i] = "empty"]
      /\ thread' = [thread EXCEPT ![w].phase = "opened", ![w].inode = i]
      /\ UNCHANGED <<mem, pos, hit, done, reports, stop, targets, curr, lock, path, cut>>
      /\ thread[w].phase = "queued"
  BY DEF i, used
<1>5. /\ thread'[w].phase = "opened" /\ thread'[w].inode = i /\ thread'[w].data = thread[w].data
      /\ thread'[w] \in Threads
  <2>1. thread[w] \in Threads
    BY DEF TypeOK
  <2>2. thread'[w] = [thread[w] EXCEPT !.phase = "opened", !.inode = i]
    BY <1>3
  <2> HIDE DEF ThreadOpen
  <2>3. i \in Inodes \union {0}
    BY <1>2
  <2> DEFINE t == thread[w]
             u == thread'[w]
  <2> HIDE DEF t, u
  <2>4. t \in Threads /\ u = [t EXCEPT !.phase = "opened", !.inode = i]
    BY <2>1, <2>2 DEF t, u
  <2>5. u \in Threads /\ u.phase = "opened" /\ u.inode = i /\ u.data = t.data
    BY <2>3, <2>4 DEF Threads
  <2> QED
    BY <2>5 DEF t, u
<1> HIDE DEF ThreadOpen
<1>6. ASSUME NEW m \in Jobs, ~cut[m]
      PROVE  FileSays(m)' = FileSays(m)
  BY <1>2, <1>4, <1>6 DEF FileSays, TypeOK
<1>20. TypeOK'
  <2>1. thread' \in [Jobs \X Kinds -> Threads]
    BY <1>4, <1>5 DEF TypeOK
  <2>2. temp' \in [Jobs -> Inodes \union {0}]
    BY <1>2, <1>4 DEF TypeOK
  <2>3. content' \in [Jobs -> [Inodes -> Data \union {"empty", "torn"}]]
    BY <1>4 DEF TypeOK
  <2> QED
    BY <1>4, <2>1, <2>2, <2>3 DEF TypeOK
<1>21. Placed'
  BY <1>4 DEF Placed
<1>22. Stopping'
  BY <1>4 DEF Stopping
<1>23. LockHeld'
  BY <1>4 DEF LockHeld
<1>24. OneWriter'
  <2>1. Write(lock)' = Write(lock) /\ lock' = lock
    BY <1>4 DEF Write
  <2>2. ASSUME NEW m \in Jobs, NEW k \in Kinds, ~cut[m], thread'[<<m, k>>].phase # "idle"
        PROVE  thread[<<m, k>>].phase # "idle" /\ thread'[<<m, k>>].data = thread[<<m, k>>].data
    BY <1>3, <1>4, <1>5, <2>2
  <2>3. ASSUME NEW m \in Jobs, NEW k \in Kinds, ~cut'[m], thread'[<<m, k>>].phase # "idle"
        PROVE  Awaited(<<m, k>>)' /\ thread'[<<m, k>>].data = mem'[m]
    <3>1. thread[<<m, k>>].phase # "idle" /\ thread'[<<m, k>>].data = thread[<<m, k>>].data /\ ~cut[m]
      BY <1>4, <2>2, <2>3
    <3> QED
      BY <1>4, <2>1, <3>1 DEF OneWriter, Awaited
  <2> QED
    BY <2>3 DEF OneWriter
<1>25. Files'
  <2> SUFFICES ASSUME NEW m \in Jobs, ~cut'[m]
               PROVE  /\ path'[m] # 0 => content'[m][path'[m]] \in Data
                      /\ (\A k \in Kinds : thread'[<<m, k>>].phase \notin {"opened", "written"}) => temp'[m] = 0
                      /\ \A k \in Kinds :
                           LET t == thread'[<<m, k>>]
                           IN  /\ t.phase # "failed"
                               /\ t.phase \notin {"opened", "written"} => t.inode = 0
                               /\ t.phase \in {"opened", "written"} =>
                                    temp'[m] = t.inode /\ t.inode # 0 /\ t.inode # path'[m]
                               /\ t.phase = "opened" => content'[m][t.inode] = "empty"
                               /\ t.phase = "written" => content'[m][t.inode] = t.data
                               /\ t.phase = "done" => FileSays(m)' = t.data
    BY DEF Files
  <2>0. ~cut[m] /\ path' = path
    BY <1>4
  <2>1. CASE m # j
    <3>1. /\ \A k \in Kinds : thread'[<<m, k>>] = thread[<<m, k>>]
          /\ temp'[m] = temp[m] /\ content'[m] = content[m] /\ FileSays(m)' = FileSays(m)
      BY <1>3, <1>4, <1>6, <2>0, <2>1 DEF TypeOK
    <3> QED
      BY <2>0, <3>1 DEF Files
  <2>2. CASE m = j
    <3>1. temp'[j] = i /\ content'[j][i] = "empty" /\ i # 0 /\ i # path[j]
          /\ (path[j] # 0 => content'[j][path[j]] = content[j][path[j]])
      BY <1>0, <1>2, <1>4, <2>0, <2>2 DEF TypeOK
    <3>2. \A k \in Kinds : <<j, k>> # w =>
            thread'[<<j, k>>] = thread[<<j, k>>] /\ thread[<<j, k>>].phase = "idle" /\ thread[<<j, k>>].inode = 0
      BY <1>1, <1>3, <2>0, <2>2 DEF Files
    <3> QED
      BY <1>0, <1>5, <2>0, <2>2, <3>1, <3>2 DEF Files
  <2> QED
    BY <2>1, <2>2
<1>26. DoneMeansSaved'
  BY <1>4, <1>6 DEF DoneMeansSaved
<1>27. FileRead'
  BY <1>4, <1>6 DEF FileRead
<1>28. StopComplete'
  BY <1>4 DEF StopComplete
<1>29. NeverStuck'
  BY <1>4 DEF NeverStuck
<1> QED
  BY <1>20, <1>21, <1>22, <1>23, <1>24, <1>25, <1>26, <1>27, <1>28, <1>29, Together

\* The temporary file of an uncut job is empty when it is written.
LEMMA ThreadWriteInv ==
    ASSUME IInv, NEW w \in Jobs \X Kinds, ThreadWrite(w)
    PROVE  IInv'
<1> USE JobsAssumption DEF ThreadWrite, jobVars, stopVars
<1> TypeOK /\ Placed /\ Stopping /\ LockHeld /\ OneWriter /\ Files
    /\ DoneMeansSaved /\ FileRead /\ StopComplete /\ NeverStuck
  BY DEF IInv, FileHonest, FileWhole, FileRead, StopEnds
<1> DEFINE j == w[1]
<1>0. w = <<j, w[2]>> /\ j \in Jobs /\ w[2] \in Kinds
  OBVIOUS
<1>1. ~cut[j] => /\ lock # None /\ w = Write(lock) /\ thread[w].data = mem[j]
                 /\ \A k \in Kinds : <<j, k>> # w => thread[<<j, k>>].phase = "idle"
  BY <1>0 DEF OneWriter, Awaited
<1>2. PICK text \in Data \union {"torn"} :
         /\ content' = [content EXCEPT ![j][thread[w].inode] = text]
         /\ ~cut[j] => text = thread[w].data
  <2>1. thread[w].data \in Data
    BY DEF TypeOK, Threads
  <2>2. ~cut[j] => content[j][thread[w].inode] = "empty"
    BY <1>0 DEF Files
  <2> QED
    BY <2>1, <2>2
<1>3. \A u \in Jobs \X Kinds : thread'[u] = IF u = w THEN [thread[w] EXCEPT !.phase = "written"] ELSE thread[u]
  BY DEF TypeOK
<1>4. /\ thread' = [thread EXCEPT ![w].phase = "written"]
      /\ UNCHANGED <<mem, pos, hit, done, reports, stop, targets, curr, lock, temp, path, cut>>
      /\ thread[w].phase = "opened"
  OBVIOUS
<1>5. /\ thread'[w].phase = "written" /\ thread'[w].inode = thread[w].inode
      /\ thread'[w].data = thread[w].data /\ thread'[w] \in Threads
  <2> DEFINE t == thread[w]
             u == thread'[w]
  <2> HIDE DEF t, u
  <2>1. t \in Threads /\ u = [t EXCEPT !.phase = "written"]
    BY <1>3 DEF t, u, TypeOK
  <2>2. u \in Threads /\ u.phase = "written" /\ u.inode = t.inode /\ u.data = t.data
    BY <2>1 DEF Threads
  <2> QED
    BY <2>2 DEF t, u
<1> HIDE DEF ThreadWrite
<1>6. ASSUME NEW m \in Jobs, ~cut[m]
      PROVE  FileSays(m)' = FileSays(m)
  <2>1. m = j => thread[w].inode # path[j]
    BY <1>0, <1>4, <1>6 DEF Files
  <2> QED
    BY <1>2, <1>4, <2>1 DEF FileSays, TypeOK
<1>7. ~cut[j] => /\ temp[j] = thread[w].inode /\ thread[w].inode # 0 /\ thread[w].inode # path[j]
                 /\ content'[j][thread[w].inode] = thread[w].data
                 /\ path[j] # 0 => content'[j][path[j]] = content[j][path[j]]
  <2>1. ~cut[j] => temp[j] = thread[w].inode /\ thread[w].inode # 0 /\ thread[w].inode # path[j]
    BY <1>0, <1>4 DEF Files
  <2> QED
    BY <1>0, <1>2, <2>1 DEF TypeOK
<1>20. TypeOK'
  <2>1. thread' \in [Jobs \X Kinds -> Threads]
    BY <1>4, <1>5 DEF TypeOK
  <2>2. content' \in [Jobs -> [Inodes -> Data \union {"empty", "torn"}]]
    BY <1>2 DEF TypeOK
  <2> QED
    BY <1>4, <2>1, <2>2 DEF TypeOK
<1>21. Placed'
  BY <1>4 DEF Placed
<1>22. Stopping'
  BY <1>4 DEF Stopping
<1>23. LockHeld'
  BY <1>4 DEF LockHeld
<1>24. OneWriter'
  <2>1. Write(lock)' = Write(lock) /\ lock' = lock /\ mem' = mem
    BY <1>4 DEF Write
  <2>2. ASSUME NEW m \in Jobs, NEW k \in Kinds, ~cut'[m], thread'[<<m, k>>].phase # "idle"
        PROVE  Awaited(<<m, k>>)' /\ thread'[<<m, k>>].data = mem'[m]
    <3>1. thread[<<m, k>>].phase # "idle" /\ thread'[<<m, k>>].data = thread[<<m, k>>].data /\ ~cut[m]
      BY <1>1, <1>3, <1>4, <1>5, <2>2
    <3> QED
      BY <2>1, <3>1 DEF OneWriter, Awaited
  <2> QED
    BY <2>2 DEF OneWriter
<1>25. Files'
  <2> SUFFICES ASSUME NEW m \in Jobs, ~cut'[m]
               PROVE  /\ path'[m] # 0 => content'[m][path'[m]] \in Data
                      /\ (\A k \in Kinds : thread'[<<m, k>>].phase \notin {"opened", "written"}) => temp'[m] = 0
                      /\ \A k \in Kinds :
                           LET t == thread'[<<m, k>>]
                           IN  /\ t.phase # "failed"
                               /\ t.phase \notin {"opened", "written"} => t.inode = 0
                               /\ t.phase \in {"opened", "written"} =>
                                    temp'[m] = t.inode /\ t.inode # 0 /\ t.inode # path'[m]
                               /\ t.phase = "opened" => content'[m][t.inode] = "empty"
                               /\ t.phase = "written" => content'[m][t.inode] = t.data
                               /\ t.phase = "done" => FileSays(m)' = t.data
    BY DEF Files
  <2>0. ~cut[m]
    BY <1>4
  <2>1. CASE m # j
    <3>1. /\ \A k \in Kinds : thread'[<<m, k>>] = thread[<<m, k>>]
          /\ temp'[m] = temp[m] /\ path'[m] = path[m] /\ content'[m] = content[m]
          /\ FileSays(m)' = FileSays(m)
      BY <1>2, <1>3, <1>4, <1>6, <2>0, <2>1 DEF TypeOK
    <3> QED
      BY <2>0, <3>1 DEF Files
  <2>2. CASE m = j
    <3>2. \A k \in Kinds : <<j, k>> # w =>
            thread'[<<j, k>>] = thread[<<j, k>>] /\ thread[<<j, k>>].phase = "idle" /\ thread[<<j, k>>].inode = 0
      BY <1>1, <1>3, <2>0, <2>2 DEF Files
    <3> QED
      BY <1>0, <1>4, <1>5, <1>7, <2>0, <2>2, <3>2 DEF Files
  <2> QED
    BY <2>1, <2>2
<1>26. DoneMeansSaved'
  BY <1>4, <1>6 DEF DoneMeansSaved
<1>27. FileRead'
  BY <1>4, <1>6 DEF FileRead
<1>28. StopComplete'
  BY <1>4 DEF StopComplete
<1>29. NeverStuck'
  BY <1>4 DEF NeverStuck
<1> QED
  BY <1>20, <1>21, <1>22, <1>23, <1>24, <1>25, <1>26, <1>27, <1>28, <1>29, Together

\* What an uncut job's thread renames is the whole record it was given.
LEMMA ThreadReplaceInv ==
    ASSUME IInv, NEW w \in Jobs \X Kinds, ThreadReplace(w)
    PROVE  IInv'
<1> USE JobsAssumption DEF ThreadReplace, ThreadEnds, jobVars, stopVars
<1> TypeOK /\ Placed /\ Stopping /\ LockHeld /\ OneWriter /\ Files
    /\ DoneMeansSaved /\ FileRead /\ StopComplete /\ NeverStuck
  BY DEF IInv, FileHonest, FileWhole, FileRead, StopEnds
<1> DEFINE j == w[1]
<1>0. w = <<j, w[2]>> /\ j \in Jobs /\ w[2] \in Kinds
  OBVIOUS
<1>1. ~cut[j] => /\ lock # None /\ w = Write(lock) /\ thread[w].data = mem[j]
                 /\ \A k \in Kinds : <<j, k>> # w => thread[<<j, k>>].phase = "idle"
  BY <1>0 DEF OneWriter, Awaited
<1>2. \A u \in Jobs \X Kinds : u # w => thread'[u] = thread[u]
  BY DEF TypeOK
<1>3. /\ thread'[w] \in Threads
      /\ thread' \in [Jobs \X Kinds -> Threads]
      /\ ~cut[j] => thread'[w] = [thread[w] EXCEPT !.phase = "done", !.inode = 0]
  <2>1. Idle \in Threads
    BY DEF Idle, Threads, Data, Active
  <2>2. [thread[w] EXCEPT !.phase = "done", !.inode = 0] \in Threads
    <3> DEFINE t == thread[w]
    <3>1. t \in Threads
      BY DEF TypeOK
    <3> HIDE DEF t
    <3>2. [t EXCEPT !.phase = "done", !.inode = 0] \in Threads
      BY <3>1 DEF Threads
    <3> QED
      BY <3>2 DEF t
  <2>3. ~cut[j] => Awaited(w)
    BY <1>1 DEF Awaited
  <2> QED
    BY <2>1, <2>2, <2>3 DEF TypeOK
<1>4. /\ path' = [path EXCEPT ![j] = temp[j]] /\ temp' = [temp EXCEPT ![j] = 0]
      /\ UNCHANGED <<mem, pos, hit, done, reports, stop, targets, curr, lock, content, cut>>
      /\ thread[w].phase = "written" /\ temp[j] # 0
  OBVIOUS
<1>5. ~cut[j] => thread'[w].phase = "done" /\ thread'[w].inode = 0 /\ thread'[w].data = thread[w].data
  <2> DEFINE t == thread[w]
             u == thread'[w]
  <2> HIDE DEF t, u
  <2>1. t \in Threads /\ (~cut[j] => u = [t EXCEPT !.phase = "done", !.inode = 0])
    BY <1>3 DEF t, u, TypeOK
  <2>2. ~cut[j] => u.phase = "done" /\ u.inode = 0 /\ u.data = t.data
    BY <2>1 DEF Threads
  <2> QED
    BY <2>2 DEF t, u
<1> HIDE DEF ThreadReplace, ThreadEnds
<1>6. \A m \in Jobs : m # j => FileSays(m)' = FileSays(m)
  BY <1>4 DEF FileSays, TypeOK
<1>7. /\ path'[j] = temp[j] /\ temp'[j] = 0
      /\ ~cut[j] => FileSays(j)' = mem[j] /\ mem[j] \in Data /\ thread[w].data = mem[j]
  <2>1. path'[j] = temp[j] /\ temp'[j] = 0
    BY <1>0, <1>4 DEF TypeOK
  <2>2. ~cut[j] => temp[j] = thread[w].inode /\ content[j][thread[w].inode] = thread[w].data
    BY <1>0, <1>4 DEF Files
  <2>3. thread[w].data \in Data
    BY DEF TypeOK, Threads
  <2> QED
    BY <1>1, <1>4, <2>1, <2>2, <2>3 DEF FileSays
<1>20. TypeOK'
  <2>1. path' \in [Jobs -> Inodes \union {0}] /\ temp' \in [Jobs -> Inodes \union {0}]
    BY <1>0, <1>4 DEF TypeOK
  <2> QED
    BY <1>3, <1>4, <2>1 DEF TypeOK
<1>21. Placed'
  BY <1>4 DEF Placed
<1>22. Stopping'
  BY <1>4 DEF Stopping
<1>23. LockHeld'
  BY <1>4 DEF LockHeld
<1>24. OneWriter'
  <2>1. Write(lock)' = Write(lock) /\ lock' = lock /\ mem' = mem
    BY <1>4 DEF Write
  <2>2. ASSUME NEW m \in Jobs, NEW k \in Kinds, ~cut'[m], thread'[<<m, k>>].phase # "idle"
        PROVE  Awaited(<<m, k>>)' /\ thread'[<<m, k>>].data = mem'[m]
    <3>1. thread[<<m, k>>].phase # "idle" /\ thread'[<<m, k>>].data = thread[<<m, k>>].data /\ ~cut[m]
      BY <1>0, <1>1, <1>2, <1>4, <1>5, <2>2
    <3> QED
      BY <2>1, <3>1 DEF OneWriter, Awaited
  <2> QED
    BY <2>2 DEF OneWriter
<1>25. Files'
  <2> SUFFICES ASSUME NEW m \in Jobs, ~cut'[m]
               PROVE  /\ path'[m] # 0 => content'[m][path'[m]] \in Data
                      /\ (\A k \in Kinds : thread'[<<m, k>>].phase \notin {"opened", "written"}) => temp'[m] = 0
                      /\ \A k \in Kinds :
                           LET t == thread'[<<m, k>>]
                           IN  /\ t.phase # "failed"
                               /\ t.phase \notin {"opened", "written"} => t.inode = 0
                               /\ t.phase \in {"opened", "written"} =>
                                    temp'[m] = t.inode /\ t.inode # 0 /\ t.inode # path'[m]
                               /\ t.phase = "opened" => content'[m][t.inode] = "empty"
                               /\ t.phase = "written" => content'[m][t.inode] = t.data
                               /\ t.phase = "done" => FileSays(m)' = t.data
    BY DEF Files
  <2>0. ~cut[m]
    BY <1>4
  <2>1. CASE m # j
    <3>1. /\ \A k \in Kinds : thread'[<<m, k>>] = thread[<<m, k>>]
          /\ temp'[m] = temp[m] /\ path'[m] = path[m] /\ content'[m] = content[m]
          /\ FileSays(m)' = FileSays(m)
      BY <1>2, <1>4, <1>6, <2>0, <2>1 DEF TypeOK
    <3> QED
      BY <2>0, <3>1 DEF Files
  <2>2. CASE m = j
    <3>2. \A k \in Kinds : <<j, k>> # w =>
            thread'[<<j, k>>] = thread[<<j, k>>] /\ thread[<<j, k>>].phase = "idle" /\ thread[<<j, k>>].inode = 0
      BY <1>1, <1>2, <1>4, <2>0, <2>2 DEF Files
    <3> QED
      BY <1>0, <1>4, <1>5, <1>7, <2>0, <2>2, <3>2 DEF FileSays
  <2> QED
    BY <2>1, <2>2
<1>26. DoneMeansSaved'
  <2> SUFFICES ASSUME NEW m \in Jobs, done[m]
               PROVE  mem[m] \in Terminal /\ (cut[m] \/ FileSays(m)' = mem[m])
    BY <1>4 DEF DoneMeansSaved
  <2> QED
    BY <1>6, <1>7 DEF DoneMeansSaved
<1>27. FileRead'
  <2> SUFFICES ASSUME NEW m \in Jobs, ~cut[m]
               PROVE  /\ FileSays(m)' \notin {"empty", "torn"}
                      /\ FileSays(m)' \in Terminal => FileSays(m)' = mem[m]
    BY <1>4 DEF FileRead
  <2> QED
    BY <1>6, <1>7 DEF FileRead, Data, Active, Terminal
<1>28. StopComplete'
  BY <1>4 DEF StopComplete
<1>29. NeverStuck'
  BY <1>4 DEF NeverStuck
<1> QED
  BY <1>20, <1>21, <1>22, <1>23, <1>24, <1>25, <1>26, <1>27, <1>28, <1>29, Together

\* A thread that fails marks its job.
LEMMA ThreadFailsInv ==
    ASSUME IInv, NEW w \in Jobs \X Kinds, ThreadFails(w)
    PROVE  IInv'
<1> USE JobsAssumption DEF ThreadFails, ThreadEnds, jobVars, stopVars, diskVars
<1> TypeOK /\ Placed /\ Stopping /\ LockHeld /\ OneWriter /\ Files
    /\ DoneMeansSaved /\ FileRead /\ StopComplete /\ NeverStuck
  BY DEF IInv, FileHonest, FileWhole, FileRead, StopEnds
<1> DEFINE j == w[1]
<1>0. w = <<j, w[2]>> /\ j \in Jobs /\ w[2] \in Kinds
  OBVIOUS
<1>1. \A u \in Jobs \X Kinds : u # w => thread'[u] = thread[u]
  BY DEF TypeOK
<1>2. thread' \in [Jobs \X Kinds -> Threads]
  <2>1. Idle \in Threads
    BY DEF Idle, Threads, Data, Active
  <2>2. [thread[w] EXCEPT !.phase = "failed", !.inode = 0] \in Threads
    <3> DEFINE t == thread[w]
    <3>1. t \in Threads
      BY DEF TypeOK
    <3> HIDE DEF t
    <3>2. [t EXCEPT !.phase = "failed", !.inode = 0] \in Threads
      BY <3>1 DEF Threads
    <3> QED
      BY <3>2 DEF t
  <2> QED
    BY <2>1, <2>2 DEF TypeOK
<1>3. /\ UNCHANGED <<mem, pos, hit, done, reports, stop, targets, curr, lock, temp, path, content>>
      /\ cut' \in [Jobs -> BOOLEAN]
      /\ \A m \in Jobs : cut[m] => cut'[m]
      /\ \A m \in Jobs : ~cut'[m] => m # j /\ ~cut[m]
  BY <1>0 DEF TypeOK
<1>4. \A m \in Jobs, k \in Kinds : ~cut'[m] => thread'[<<m, k>>] = thread[<<m, k>>] /\ ~cut[m]
  BY <1>0, <1>1, <1>3
<1> HIDE DEF ThreadFails, ThreadEnds
<1>5. \A m \in Jobs : FileSays(m)' = FileSays(m)
  BY <1>3 DEF FileSays
<1>20. TypeOK'
  BY <1>2, <1>3 DEF TypeOK
<1>21. Placed'
  BY <1>3 DEF Placed
<1>22. Stopping'
  BY <1>3 DEF Stopping
<1>23. LockHeld'
  BY <1>3 DEF LockHeld
<1>24. OneWriter'
  <2>1. Write(lock)' = Write(lock) /\ lock' = lock
    BY <1>3 DEF Write
  <2>2. ASSUME NEW m \in Jobs, NEW k \in Kinds, ~cut'[m], thread'[<<m, k>>].phase # "idle"
        PROVE  Awaited(<<m, k>>)' /\ thread'[<<m, k>>].data = mem'[m]
    BY <1>3, <1>4, <2>1, <2>2 DEF OneWriter, Awaited
  <2> QED
    BY <2>2 DEF OneWriter
<1>25. Files'
  BY <1>3, <1>4, <1>5 DEF Files
<1>26. DoneMeansSaved'
  BY <1>3, <1>5 DEF DoneMeansSaved
<1>27. FileRead'
  BY <1>3, <1>5 DEF FileRead
<1>28. StopComplete'
  BY <1>3 DEF StopComplete
<1>29. NeverStuck'
  BY <1>3 DEF NeverStuck
<1> QED
  BY <1>20, <1>21, <1>22, <1>23, <1>24, <1>25, <1>26, <1>27, <1>28, <1>29, Together

\* Every step preserves the invariant.
LEMMA StepInv == IInv /\ [Next]_vars => IInv'
<1> SUFFICES ASSUME IInv, [Next]_vars
             PROVE  IInv'
  OBVIOUS
<1>1. ASSUME NEW v \in Savers, Save(v)
      PROVE  IInv'
  BY <1>1, AcquireInv, ReleaseJobInv, ReleaseStopInv DEF Save, Savers
<1>2. ASSUME NEW w \in Jobs \X Kinds, Thread(w) \/ ThreadFails(w)
      PROVE  IInv'
  BY <1>2, ThreadOpenInv, ThreadWriteInv, ThreadReplaceInv, ThreadFailsInv DEF Thread
<1>3. ASSUME NEW j \in Jobs, Submit(j) \/ AbandonSubmit(j) \/ Run(j)
      PROVE  IInv'
  BY <1>3, SubmitInv, AbandonSubmitInv, BeginInv, MilestoneInv, FinishInv, CancelledInv DEF Run
<1>4. ASSUME NEW s \in Stops, StopBegin(s) \/ Stop(s) \/ StopLeft(s)
      PROVE  IInv'
  <2>1. StopLeft(s) => stop[s] \in {"waiting", "closing"}
    BY DEF StopLeft
  <2> QED
    BY <1>4, <2>1, StopBeginInv, StopReturnInv, StopEndInv, StopLeftWaitingInv, StopLeftClosingInv DEF Stop
<1>5. CASE UNCHANGED vars
  <2> USE <1>5 DEF vars
  <2>0. TypeOK /\ Placed /\ Stopping /\ LockHeld /\ OneWriter /\ Files
        /\ DoneMeansSaved /\ FileRead /\ StopComplete /\ NeverStuck
    BY DEF IInv, FileHonest, FileWhole, FileRead, StopEnds
  <2>1. TypeOK' /\ Placed' /\ Stopping' /\ LockHeld'
    BY <2>0 DEF TypeOK, Placed, Stopping, LockHeld
  <2>2. OneWriter' /\ Files'
    BY <2>0 DEF OneWriter, Awaited, Write, Files, FileSays
  <2>3. DoneMeansSaved' /\ FileRead' /\ StopComplete' /\ NeverStuck'
    BY <2>0 DEF DoneMeansSaved, FileRead, FileSays, StopComplete, NeverStuck
  <2> QED
    BY <2>1, <2>2, <2>3, Together
<1> QED
  BY <1>1, <1>2, <1>3, <1>4, <1>5 DEF Next

\* The invariant holds in every reachable state.
LEMMA Inductive == Spec => []IInv
  BY InitInv, StepInv, PTL DEF Spec

(***************************************************************************)
(* The results                                                             *)
(***************************************************************************)
\* Every variable keeps its type: what TypeOK says holds of every run.
THEOREM TypeCorrect == Spec => []TypeOK
<1>1. IInv => TypeOK
  BY DEF IInv
<1> QED
  BY <1>1, Inductive, PTL

\* Whoever is told that a job is done reads in its file how it ended, and a
\* reader never sees half a record or an end that did not happen, unless a write
\* of the job was cut off or failed (_end, save and _write_atomic).
THEOREM FilesCanBeRead == Spec => []FileHonest
<1>1. IInv => FileHonest
  BY DEF IInv
<1> QED
  BY <1>1, Inductive, PTL

\* A _stop that returns has ended its jobs, and a job whose task is over is
\* ended or has a _stop that was to end it.
THEOREM StoppedIsEnded == Spec => []StopEnds
<1>1. IInv => StopEnds
  BY DEF IInv
<1> QED
  BY <1>1, Inductive, PTL

\* A finished job stays as it ended: its task no longer runs when a _stop looks
\* at it, and a cancelled last save does not end it again.
THEOREM EndedOnce == Spec => EndsOnce
<1>1. ASSUME IInv, [Next]_vars, NEW j \in Jobs, mem[j] \in Terminal
      PROVE  mem'[j] = mem[j]
  <2> USE <1>1 DEF Terminal, Active
  <2>0. TypeOK /\ Placed
    BY DEF IInv
  <2>1. ASSUME NEW v \in Savers, Save(v)
        PROVE  mem' = mem
    BY <2>1 DEF Save, Acquire, Release, jobVars
  <2>2. ASSUME NEW w \in Jobs \X Kinds, Thread(w) \/ ThreadFails(w)
        PROVE  mem' = mem
    BY <2>2 DEF Thread, ThreadOpen, ThreadWrite, ThreadReplace, ThreadFails, jobVars
  <2>3. ASSUME NEW i \in Jobs, Submit(i) \/ AbandonSubmit(i) \/ Begin(i)
        PROVE  mem'[j] = mem[j]
    BY <2>0, <2>3 DEF Submit, AbandonSubmit, Begin, TypeOK
  <2>4. ASSUME NEW i \in Jobs, Milestone(i) \/ Finish(i)
        PROVE  mem'[j] = mem[j]
    <3>1. i # j
      BY <2>0, <2>4 DEF Milestone, Finish, Placed
    <3> QED
      BY <2>0, <2>4, <3>1 DEF Milestone, Finish, TypeOK
  <2>5. ASSUME NEW i \in Jobs, Cancelled(i)
        PROVE  mem'[j] = mem[j]
    <3>1. CASE pos[i] \in {"working", "reporting"}
      <4>1. i # j
        BY <2>0, <3>1 DEF Placed
      <4> QED
        BY <2>0, <2>5, <3>1, <4>1 DEF Cancelled, TypeOK
    <3>2. CASE pos[i] \notin {"working", "reporting"}
      BY <2>5, <3>2 DEF Cancelled
    <3> QED
      BY <3>1, <3>2
  <2>6. ASSUME NEW s \in Stops, StopBegin(s) \/ StopReturn(s) \/ StopLeft(s)
        PROVE  mem' = mem
    BY <2>6 DEF StopBegin, StopReturn, StopLeft, jobVars
  <2>7. ASSUME NEW s \in Stops, NEW i \in Jobs, StopEnd(s, i)
        PROVE  mem'[j] = mem[j]
    BY <2>0, <2>7 DEF StopEnd, TypeOK
  <2> QED
    BY <2>1, <2>2, <2>3, <2>4, <2>5, <2>6, <2>7 DEF Next, Run, Stop, vars
<1>2. IInv /\ [Next]_vars => [\A j \in Jobs : mem[j] \in Terminal => mem'[j] = mem[j]]_vars
  BY <1>1
<1> QED
  BY <1>2, Inductive, PTL DEF Spec, EndsOnce
=============================================================================
