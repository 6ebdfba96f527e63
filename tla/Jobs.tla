------------------------------- MODULE Jobs -------------------------------
(***************************************************************************)
(* JobRegistry (api/mcp/jobs.py): the background jobs of one process, each *)
(* mirrored in a file that other processes read.                           *)
(*                                                                         *)
(* A job is a coroutine; `pos` is where it stands.  Saving takes the write *)
(* lock, snapshots the record and hands it to a thread, which opens a      *)
(* temporary file, writes it and renames it.  Cancelling the saver gives   *)
(* the lock back at once: a thread that has started cannot be stopped and  *)
(* goes on without it.  The temporary name is the same for every write of  *)
(* a job, so files are told apart by inode.                                *)
(*                                                                         *)
(* Not modelled: pruning and forgetting of finished jobs past their time   *)
(* to live, and `record`, which saves a consult that is already over.      *)
(***************************************************************************)
EXTENDS Naturals, FiniteSets

CONSTANTS
  Jobs,        \* jobs submitted
  Stops,       \* calls of _stop, by `cancel` or `aclose`
  None,        \* nobody, no job
  MaxReports,  \* bound: milestones each job's run reports
  MaxActors    \* bound: jobs submitted and calls of _stop begun, together

ASSUME JobsAssumption ==
  /\ None \notin Jobs \union Stops
  /\ Jobs \intersect Stops = {}
  /\ MaxReports \in [Jobs -> Nat]
  /\ MaxActors \in Nat

VARIABLES
  mem,      \* record.status.state
  pos,      \* where the job's coroutine stands
  hit,      \* was its task cancelled, and not told yet
  done,     \* job.done
  reports,  \* milestones reported
  stop,     \* where each call of _stop stands
  targets,  \* its `jobs`
  curr,     \* the job it is ending
  lock,     \* the holder of _write_lock
  thread,   \* the _write_atomic calls in the thread pool
  temp,     \* the inode under the temporary name of a job, 0 if absent
  path,     \* the inode under its real name
  content,  \* what the inodes hold
  cut       \* was a write of the job cut off or did one fail

jobVars  == <<mem, pos, hit, done, reports>>
stopVars == <<stop, targets, curr>>
diskVars == <<temp, path, content>>
vars     == <<mem, pos, hit, done, reports, stop, targets, curr, lock, thread,
              temp, path, content, cut>>

Active   == {"running", "synthesizing"}
Terminal == {"completed", "failed", "cancelled"}
Saving   == {"submitting", "reporting", "closing"}
Kinds    == {"submit", "report", "end"}
Inodes   == 1 .. 5
Data     == Active \union Terminal
Idle     == [phase |-> "idle", data |-> "running", inode |-> 0]
Threads  == [phase : {"idle", "queued", "opened", "written", "done", "failed"},
             data : Data, inode : Inodes \union {0}]

TypeOK ==
  /\ mem \in [Jobs -> {"none"} \union Data]
  /\ pos \in [Jobs -> {"none", "unstarted", "working", "over", "refused"} \union Saving]
  /\ hit \in [Jobs -> BOOLEAN] /\ done \in [Jobs -> BOOLEAN]
  /\ reports \in [Jobs -> Nat] /\ \A j \in Jobs : reports[j] <= MaxReports[j]
  /\ stop \in [Stops -> {"idle", "waiting", "closing", "ending", "over", "left"}]
  /\ targets \in [Stops -> SUBSET Jobs]
  /\ curr \in [Stops -> Jobs \union {None}]
  /\ lock \in Jobs \union Stops \union {None}
  /\ thread \in [Jobs \X Kinds -> Threads]
  /\ temp \in [Jobs -> Inodes \union {0}] /\ path \in [Jobs -> Inodes \union {0}]
  /\ content \in [Jobs -> [Inodes -> Data \union {"empty", "torn"}]]
  /\ cut \in [Jobs -> BOOLEAN]

Init ==
  /\ mem = [j \in Jobs |-> "none"] /\ pos = [j \in Jobs |-> "none"]
  /\ hit = [j \in Jobs |-> FALSE] /\ done = [j \in Jobs |-> FALSE]
  /\ reports = [j \in Jobs |-> 0]
  /\ stop = [s \in Stops |-> "idle"] /\ targets = [s \in Stops |-> {}]
  /\ curr = [s \in Stops |-> None]
  /\ lock = None
  /\ thread = [w \in Jobs \X Kinds |-> Idle]
  /\ temp = [j \in Jobs |-> 0] /\ path = [j \in Jobs |-> 0]
  /\ content = [j \in Jobs |-> [i \in Inodes |-> "empty"]]
  /\ cut = [j \in Jobs |-> FALSE]

Registered == {j \in Jobs : pos[j] \notin {"none", "submitting", "refused"}}
FileSays(j) == IF path[j] = 0 THEN "none" ELSE content[j][path[j]]

\* Who saves what: the job itself, or the _stop that ends a job in its place.
Savers     == Jobs \union Stops
Saves(v)   == IF v \in Jobs THEN pos[v] \in Saving /\ ~hit[v] ELSE stop[v] = "closing"
Write(v)   == IF v \in Stops THEN <<curr[v], "end">>
              ELSE <<v, CASE pos[v] = "submitting" -> "submit"
                          [] pos[v] = "reporting"  -> "report"
                          [] OTHER                 -> "end">>
Awaited(w) == lock # None /\ w = Write(lock)

-----------------------------------------------------------------------------
(* Saving                                                                  *)

\* The lock is free: the record is snapshotted and a thread is asked to write.
Acquire(v) ==
  /\ Saves(v)
  /\ lock = None
  /\ lock' = v
  /\ thread' = [thread EXCEPT ![Write(v)] =
                 [phase |-> "queued", data |-> mem[Write(v)[1]], inode |-> 0]]
  /\ UNCHANGED <<jobVars, stopVars, diskVars, cut>>

\* Mutant of ThreadOpen: the job's file itself is opened.
ThreadOpenInPlace(w) ==
  LET j == w[1]
      i == IF path[j] # 0 THEN path[j] ELSE CHOOSE n \in Inodes : TRUE
  IN  /\ thread[w].phase = "queued"
      /\ path' = [path EXCEPT ![j] = i]
      /\ content' = [content EXCEPT ![j][i] = "empty"]
      /\ thread' = [thread EXCEPT ![w].phase = "opened", ![w].inode = i]
      /\ UNCHANGED <<jobVars, stopVars, lock, temp, cut>>

\* os.open of the temporary name: the file there is truncated, or created.
ThreadOpen(w) ==
  LET j    == w[1]
      used == {temp[j], path[j]} \union {thread[<<j, k>>].inode : k \in Kinds}
      i    == IF temp[j] # 0 THEN temp[j] ELSE CHOOSE n \in Inodes \ used : TRUE
  IN  /\ thread[w].phase = "queued"
      /\ temp' = [temp EXCEPT ![j] = i]
      /\ content' = [content EXCEPT ![j][i] = "empty"]
      /\ thread' = [thread EXCEPT ![w].phase = "opened", ![w].inode = i]
      /\ UNCHANGED <<jobVars, stopVars, lock, path, cut>>

\* The write, from the start of the file; over another text it may leave the
\* end of that one behind.
ThreadWrite(w) ==
  LET j == w[1]
      i == thread[w].inode
  IN  /\ thread[w].phase = "opened"
      /\ \E text \in {thread[w].data} \union
                     (IF content[j][i] = "empty" THEN {} ELSE {"torn"}) :
           content' = [content EXCEPT ![j][i] = text]
      /\ thread' = [thread EXCEPT ![w].phase = "written"]
      /\ UNCHANGED <<jobVars, stopVars, lock, temp, path, cut>>

\* The call ends: its awaiter is to be woken, if there still is one.
ThreadEnds(w, phase) ==
  thread' = [thread EXCEPT ![w] = IF Awaited(w) THEN [@ EXCEPT !.phase = phase, !.inode = 0]
                                  ELSE Idle]

\* os.replace, of whatever file has the temporary name by now.
ThreadReplace(w) ==
  LET j == w[1]
  IN  /\ thread[w].phase = "written"
      /\ temp[j] # 0
      /\ path' = [path EXCEPT ![j] = temp[j]]
      /\ temp' = [temp EXCEPT ![j] = 0]
      /\ ThreadEnds(w, "done")
      /\ UNCHANGED <<jobVars, stopVars, lock, content, cut>>

\* The disk refuses, or the temporary file is gone.
ThreadFails(w) ==
  /\ thread[w].phase \in {"queued", "opened", "written"}
  /\ ThreadEnds(w, "failed")
  /\ cut' = [cut EXCEPT ![w[1]] = TRUE]
  /\ UNCHANGED <<jobVars, stopVars, lock, diskVars>>

\* Mutant of Proceed: the waiters are not woken.
ProceedUnsaid(j, ok) ==
  /\ pos' = [pos EXCEPT ![j] =
       CASE @ = "submitting" -> IF ok THEN "unstarted" ELSE "refused"
         [] @ = "reporting"  -> "working"
         [] OTHER            -> "over"]
  /\ done' = done

\* What follows a save: `submit` starts the task or refuses the job, a
\* milestone's failure is suppressed, and after the last one the job is done.
Proceed(j, ok) ==
  /\ pos' = [pos EXCEPT ![j] =
       CASE @ = "submitting" -> IF ok THEN "unstarted" ELSE "refused"
         [] @ = "reporting"  -> "working"
         [] OTHER            -> "over"]
  /\ done' = [done EXCEPT ![j] = @ \/ pos[j] = "closing"]

\* The saver is woken, and gives the lock back.
Release(v) ==
  /\ lock = v
  /\ Saves(v)
  /\ thread[Write(v)].phase \in {"done", "failed"}
  /\ lock' = None
  /\ thread' = [thread EXCEPT ![Write(v)] = Idle]
  /\ \/ /\ v \in Jobs
        /\ Proceed(v, thread[Write(v)].phase = "done")
        /\ UNCHANGED stop
     \/ /\ v \in Stops
        /\ stop' = [stop EXCEPT ![v] = "ending"]
        /\ done' = [done EXCEPT ![curr[v]] = TRUE]
        /\ UNCHANGED pos
  /\ UNCHANGED <<mem, hit, reports, targets, curr, diskVars, cut>>

\* A saver is cancelled: waiting for the lock, or holding it, and then the
\* thread is dropped if no worker took it yet, and left alone otherwise.
CutSave(v) ==
  IF lock = v
  THEN /\ lock' = None
       /\ LET w == Write(v)
          IN  \E gone \in {t \in {thread[w], Idle} :
                             \/ t = thread[w] /\ t.phase \notin {"done", "failed"}
                             \/ t = Idle /\ thread[w].phase \in {"queued", "done", "failed"}} :
                thread' = [thread EXCEPT ![w] = gone]
       /\ cut' = [cut EXCEPT ![Write(v)[1]] = TRUE]
  ELSE UNCHANGED <<lock, thread, cut>>

-----------------------------------------------------------------------------
(* The job                                                                 *)

Room == Cardinality({j \in Jobs : mem[j] # "none"} \union {s \in Stops : stop[s] # "idle"})
          < MaxActors

Submit(j) ==
  /\ Room
  /\ mem[j] = "none"
  /\ mem' = [mem EXCEPT ![j] = "running"]
  /\ pos' = [pos EXCEPT ![j] = "submitting"]
  /\ UNCHANGED <<hit, done, reports, stopVars, lock, thread, diskVars, cut>>

\* The tool call that submits it goes away before the job is registered.
AbandonSubmit(j) ==
  /\ pos[j] = "submitting"
  /\ CutSave(j)
  /\ pos' = [pos EXCEPT ![j] = "refused"]
  /\ UNCHANGED <<mem, hit, done, reports, stopVars, diskVars>>

\* Its task first runs.
Begin(j) ==
  /\ pos[j] = "unstarted" /\ ~hit[j]
  /\ pos' = [pos EXCEPT ![j] = "working"]
  /\ UNCHANGED <<mem, hit, done, reports, stopVars, lock, thread, diskVars, cut>>

\* report_progress: refresh, then save.
Milestone(j) ==
  /\ pos[j] = "working" /\ ~hit[j]
  /\ reports[j] < MaxReports[j]
  /\ reports' = [reports EXCEPT ![j] = @ + 1]
  /\ \E s \in (IF mem[j] = "running" THEN Active ELSE {"synthesizing"}) :
       mem' = [mem EXCEPT ![j] = s]
  /\ pos' = [pos EXCEPT ![j] = "reporting"]
  /\ UNCHANGED <<hit, done, stopVars, lock, thread, diskVars, cut>>

\* Mutant of Finish: a waiter is woken before the file says so.
FinishSaidFirst(j) ==
  /\ pos[j] = "working" /\ ~hit[j]
  /\ \E s \in {"completed", "failed"} : mem' = [mem EXCEPT ![j] = s]
  /\ pos' = [pos EXCEPT ![j] = "closing"]
  /\ done' = [done EXCEPT ![j] = TRUE]
  /\ UNCHANGED <<hit, reports, stopVars, lock, thread, diskVars, cut>>

\* The consult returns or crashes: _end.
Finish(j) ==
  /\ pos[j] = "working" /\ ~hit[j]
  /\ \E s \in {"completed", "failed"} : mem' = [mem EXCEPT ![j] = s]
  /\ pos' = [pos EXCEPT ![j] = "closing"]
  /\ UNCHANGED <<hit, done, reports, stopVars, lock, thread, diskVars, cut>>

\* Mutant of Cancelled: the last save is inside the `try`, so that its
\* cancellation ends the job again.
CancelledAgain(j) ==
  /\ hit[j]
  /\ hit' = [hit EXCEPT ![j] = FALSE]
  /\ \/ /\ pos[j] = "unstarted"
        /\ pos' = [pos EXCEPT ![j] = "over"]
        /\ UNCHANGED <<mem, done, lock, thread, cut>>
     \/ /\ pos[j] \in {"working", "reporting", "closing"}
        /\ mem' = [mem EXCEPT ![j] = "cancelled"]
        /\ pos' = [pos EXCEPT ![j] = "closing"]
        /\ CutSave(j)
        /\ UNCHANGED done
  /\ UNCHANGED <<reports, stopVars, diskVars>>

\* CancelledError is delivered: a task that never ran never runs, a running
\* consult is ended as cancelled, and the save of _end is cut off.
Cancelled(j) ==
  /\ hit[j]
  /\ hit' = [hit EXCEPT ![j] = FALSE]
  /\ \/ /\ pos[j] = "unstarted"
        /\ pos' = [pos EXCEPT ![j] = "over"]
        /\ UNCHANGED <<mem, done, lock, thread, cut>>
     \/ /\ pos[j] \in {"working", "reporting"}
        /\ mem' = [mem EXCEPT ![j] = "cancelled"]
        /\ pos' = [pos EXCEPT ![j] = "closing"]
        /\ CutSave(j)
        /\ UNCHANGED done
     \/ /\ pos[j] = "closing"
        /\ pos' = [pos EXCEPT ![j] = "over"]
        /\ done' = [done EXCEPT ![j] = TRUE]
        /\ IF lock = j THEN CutSave(j)
           ELSE cut' = [cut EXCEPT ![j] = TRUE] /\ UNCHANGED <<lock, thread>>
        /\ UNCHANGED mem
  /\ UNCHANGED <<reports, stopVars, diskVars>>

-----------------------------------------------------------------------------
(* _stop                                                                   *)

\* `cancel` of one job, or `aclose` of all: the tasks not done are cancelled.
StopBegin(s) ==
  /\ Room
  /\ stop[s] = "idle"
  /\ \E J \in {{j} : j \in Registered} \union {Registered} :
       /\ targets' = [targets EXCEPT ![s] = J]
       /\ hit' = [j \in Jobs |-> hit[j] \/ (j \in J /\ pos[j] # "over")]
  /\ stop' = [stop EXCEPT ![s] = "waiting"]
  /\ UNCHANGED <<mem, pos, done, reports, curr, lock, thread, diskVars, cut>>

\* The tasks are done, and the next job still active is ended here.
StopEnd(s, j) ==
  /\ stop[s] \in {"waiting", "ending"}
  /\ \A t \in targets[s] : pos[t] = "over"
  /\ j \in targets[s]
  /\ mem[j] \in Active
  /\ mem' = [mem EXCEPT ![j] = "cancelled"]
  /\ curr' = [curr EXCEPT ![s] = j]
  /\ stop' = [stop EXCEPT ![s] = "closing"]
  /\ UNCHANGED <<pos, hit, done, reports, targets, lock, thread, diskVars, cut>>

\* Mutants of StopReturn: the tasks are cancelled and not awaited; they are
\* awaited, and none is ended here.
StopReturnAtOnce(s) ==
  /\ stop[s] \in {"waiting", "ending"}
  /\ stop' = [stop EXCEPT ![s] = "over"]
  /\ UNCHANGED <<jobVars, targets, curr, lock, thread, diskVars, cut>>

StopReturnUnended(s) ==
  /\ stop[s] \in {"waiting", "ending"}
  /\ \A t \in targets[s] : pos[t] = "over"
  /\ stop' = [stop EXCEPT ![s] = "over"]
  /\ UNCHANGED <<jobVars, targets, curr, lock, thread, diskVars, cut>>

\* None is left active.
StopReturn(s) ==
  /\ stop[s] \in {"waiting", "ending"}
  /\ \A t \in targets[s] : pos[t] = "over" /\ mem[t] \notin Active
  /\ stop' = [stop EXCEPT ![s] = "over"]
  /\ UNCHANGED <<jobVars, targets, curr, lock, thread, diskVars, cut>>

\* The call of `cancel` goes away while it waits or saves.
StopLeft(s) ==
  /\ \/ /\ stop[s] = "waiting"
        /\ UNCHANGED <<done, lock, thread, cut>>
     \/ /\ stop[s] = "closing"
        /\ done' = [done EXCEPT ![curr[s]] = TRUE]
        /\ IF lock = s THEN CutSave(s)
           ELSE cut' = [cut EXCEPT ![curr[s]] = TRUE] /\ UNCHANGED <<lock, thread>>
  /\ stop' = [stop EXCEPT ![s] = "left"]
  /\ UNCHANGED <<mem, pos, hit, reports, targets, curr, diskVars>>

Thread(w) == ThreadOpen(w) \/ ThreadWrite(w) \/ ThreadReplace(w)
Save(v)   == Acquire(v) \/ Release(v)
Run(j)    == Begin(j) \/ Milestone(j) \/ Finish(j) \/ Cancelled(j)
Stop(s)   == StopReturn(s) \/ \E j \in Jobs : StopEnd(s, j)

Next ==
  \/ \E v \in Savers : Save(v)
  \/ \E w \in Jobs \X Kinds : Thread(w) \/ ThreadFails(w)
  \/ \E j \in Jobs : Submit(j) \/ AbandonSubmit(j) \/ Run(j)
  \/ \E s \in Stops : StopBegin(s) \/ Stop(s) \/ StopLeft(s)

Spec == Init /\ [][Next]_vars

\* What is ready runs, threads end, and a consult ends, within the limits of its
\* members' calls.  Nothing makes a milestone or a second cancellation happen.
FairSpec ==
  /\ Spec
  /\ \A j \in Jobs :
       /\ WF_vars(Save(j) \/ Begin(j) \/ Finish(j) \/ Cancelled(j))
       /\ WF_vars(\E k \in Kinds : Thread(<<j, k>>) \/ ThreadFails(<<j, k>>))
  /\ \A s \in Stops : WF_vars(Save(s) \/ Stop(s))

-----------------------------------------------------------------------------
(* Properties                                                              *)

\* A finished job is left as it is: no later cancellation, of its last save or
\* by a second _stop, changes how it ended.
EndsOnce == [][\A j \in Jobs : mem[j] \in Terminal => mem'[j] = mem[j]]_vars

\* What the comment in _end says: a waiter is woken only after the file says how
\* the job ended, unless a write of the job was cut off or failed.
DoneMeansSaved ==
  \A j \in Jobs :
    done[j] => mem[j] \in Terminal /\ (cut[j] \/ FileSays(j) = mem[j])

\* A reader never sees half a job, nor an end the process does not stand by,
\* unless a write of the job was cut off or failed; and until a write is cut
\* off, at most one thread is writing the job's file.
FileWhole ==
  \A j \in Jobs :
    ~cut[j] => /\ FileSays(j) \notin {"empty", "torn"}
               /\ FileSays(j) \in Terminal => FileSays(j) = mem[j]
               /\ Cardinality({k \in Kinds : thread[<<j, k>>].phase # "idle"}) <= 1

\* What other processes read of a job in its file can be relied on.
FileHonest == DoneMeansSaved /\ FileWhole

\* A `cancel` or an `aclose` that returns leaves nothing running: the tasks it
\* was given are over, and every one of the jobs is recorded as ended.
StopComplete ==
  \A s \in Stops :
    stop[s] = "over" => \A j \in targets[s] : pos[j] = "over" /\ mem[j] \in Terminal

\* A job whose task is over is recorded as ended, or there is a _stop that will
\* record it; only one that was itself cancelled leaves it running for ever.
NeverStuck ==
  \A j \in Jobs :
    pos[j] = "over" /\ mem[j] \in Active =>
      \E s \in Stops : j \in targets[s] /\ stop[s] \in {"waiting", "ending", "closing", "left"}

\* Stopping jobs ends them, in the registry as in fact.
StopEnds == StopComplete /\ NeverStuck

\* Whoever waits for the result of a job is woken once it has ended.
WaitersWoken == \A j \in Jobs : mem[j] \in Terminal ~> done[j]

\* What the comment in save says: a slow write never lands after a newer one and
\* rolls the file back.
NoRollback ==
  [][\A j \in Jobs : FileSays(j) \in Terminal => FileSays(j)' \notin Active]_vars

-----------------------------------------------------------------------------
(* The inductive invariant behind the safety properties                    *)

\* What a job's record says, by where its coroutine stands; a job is not done
\* before its coroutine is over, and only a registered one is cancelled.
Placed ==
  \A j \in Jobs :
    /\ pos[j] = "none" <=> mem[j] = "none"
    /\ pos[j] \in {"submitting", "unstarted", "working", "reporting", "refused"} => mem[j] \in Active
    /\ pos[j] = "closing" => mem[j] \in Terminal
    /\ done[j] => pos[j] = "over" /\ mem[j] \in Terminal
    /\ hit[j] => pos[j] \in {"unstarted", "working", "reporting", "closing"}

\* A _stop goes on only when all of its tasks are over, ends one job at a time,
\* one that nobody else has ended or is ending, and is not past waiting while a
\* task it cancelled has still to be told.
Stopping ==
  /\ \A s \in Stops :
       /\ stop[s] \in {"closing", "ending", "over"} => \A j \in targets[s] : pos[j] = "over"
       /\ stop[s] = "closing" =>
            /\ curr[s] \in targets[s] /\ mem[curr[s]] = "cancelled" /\ ~done[curr[s]]
            /\ \A z \in Stops : stop[z] = "closing" /\ curr[z] = curr[s] => z = s
  /\ \A j \in Jobs :
       hit[j] => \E s \in Stops : j \in targets[s] /\ stop[s] \in {"waiting", "left"}

\* The write lock is held by a save.
LockHeld ==
  /\ lock \in Jobs => pos[lock] \in Saving
  /\ lock \in Stops => stop[lock] = "closing"

\* As long as no write of a job was cut off, the one thread that writes it is
\* the one the holder of the lock awaits, and writes what the record says.
OneWriter ==
  \A j \in Jobs, k \in Kinds :
    ~cut[j] /\ thread[<<j, k>>].phase # "idle" =>
      Awaited(<<j, k>>) /\ thread[<<j, k>>].data = mem[j]

\* As long as no write of a job was cut off, its temporary file is the thread's
\* own, and its real file has a whole record.
Files ==
  \A j \in Jobs :
    ~cut[j] =>
      /\ path[j] # 0 => content[j][path[j]] \in Data
      /\ (\A k \in Kinds : thread[<<j, k>>].phase \notin {"opened", "written"}) => temp[j] = 0
      /\ \A k \in Kinds :
           LET t == thread[<<j, k>>]
           IN  /\ t.phase # "failed"
               /\ t.phase \notin {"opened", "written"} => t.inode = 0
               /\ t.phase \in {"opened", "written"} =>
                    temp[j] = t.inode /\ t.inode # 0 /\ t.inode # path[j]
               /\ t.phase = "opened" => content[j][t.inode] = "empty"
               /\ t.phase = "written" => content[j][t.inode] = t.data
               /\ t.phase = "done" => FileSays(j) = t.data

IInv ==
  /\ TypeOK
  /\ Placed
  /\ Stopping
  /\ LockHeld
  /\ OneWriter
  /\ Files
  /\ FileHonest
  /\ StopEnds
=============================================================================
