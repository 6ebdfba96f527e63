------------------------------- MODULE MCCall -------------------------------
(***************************************************************************)
(* The two machines a call upstream meets, for one run of TLC: the seat    *)
(* that makes it (Upstream), and the recorder its rows go to (Recorder).   *)
(* They share no state but the rows, which the one hands over and the      *)
(* other numbers, so that each behaviour moves one of them and leaves the  *)
(* other where it starts; `part` says which.                               *)
(***************************************************************************)
EXTENDS Upstream, Recorder

VARIABLE part

callVars == <<part, seatVars, recorderVars>>

Seated    == part = "seat" /\ UNCHANGED <<part, recorderVars>>
Recording == part = "recorder" /\ UNCHANGED <<part, seatVars>>

Init ==
    /\ SeatInit /\ RecorderInit
    /\ part \in {"seat", "recorder"}
    /\ part = "recorder" => plan = CHOOSE p \in Plans : TRUE

Next ==
    \/ Seated /\ Call
    \/ Seated /\ NoProxy
    \/ Seated /\ CallFails
    \/ Seated /\ Wake
    \/ Seated /\ Answered
    \/ Seated /\ Malformed
    \/ Seated /\ Expire
    \/ Seated /\ Established
    \/ Seated /\ Part
    \/ Seated /\ StreamEnds
    \/ Seated /\ StreamBreaks
    \/ Seated /\ Leave
    \/ Recording /\ Record
    \/ Recording /\ PullBatch
    \/ Recording /\ Execute
    \/ Recording /\ Commit
    \/ Recording /\ InsertFails
    \/ Recording /\ Resume
    \/ Recording /\ Stop
    \/ Recording /\ TaskCancelled
    \/ Recording /\ Flush
    \/ Recording /\ FlushExecute
    \/ Recording /\ FlushCommit
    \/ Recording /\ FlushFails
    \/ Recording /\ CloseStore

\* The fairness of SeatFairSpec and of RecorderFairSpec.
FairSpec ==
    /\ Init /\ [][Next]_callVars
    /\ WF_callVars(Seated /\ (Call \/ NoProxy \/ Wake)) /\ WF_callVars(Seated /\ Expire)
    /\ WF_callVars(Recording /\ Task) /\ WF_callVars(Recording /\ Closing)
=============================================================================
