------------------------ MODULE CachingClientProofs ------------------------
(***************************************************************************)
(* Proofs about CachingClient for any callers, keys, limits and times.     *)
(***************************************************************************)
EXTENDS CachingClient, FiniteSetTheorems, TLAPS

-----------------------------------------------------------------------------
(* Types                                                                   *)

LEMMA InitType == Init => TypeOK
  BY CachingAssumption DEF Init, TypeOK, Row, NoRow, Futures

LEMMA StepType == TypeOK /\ [Next]_vars => TypeOK'
<1> SUFFICES ASSUME TypeOK, [Next]_vars
             PROVE  TypeOK'
  OBVIOUS
<1> USE CachingAssumption
    DEF TypeOK, Row, NoRow, Futures, Looking, Leading, Putting, Ended, Goto, Resolve, Deliver
<1>1. CASE Tick
  BY <1>1 DEF Tick
<1>2. ASSUME NEW c \in Callers, Begin(c)
      PROVE  TypeOK'
  BY <1>2 DEF Begin
<1>3. ASSUME NEW c \in Callers, Select(c)
      PROVE  TypeOK'
  BY <1>3 DEF Select
<1>4. ASSUME NEW c \in Callers, Hit(c)
      PROVE  TypeOK'
  <2>1. found[c].from \in Callers \union {None}
    BY <1>4
  <2>2. now[c] \in 0 .. MaxClock
    BY <1>4
  <2>3. rows' \in [Keys -> Row]
    BY <1>4, <2>2, SMTT(20) DEF Hit
  <2> QED
    BY <1>4, <2>1, <2>3 DEF Hit
<1>5. ASSUME NEW c \in Callers, DropExpired(c)
      PROVE  TypeOK'
  BY <1>5 DEF DropExpired
<1>6. ASSUME NEW c \in Callers, Follow(c)
      PROVE  TypeOK'
  BY <1>6 DEF Follow
<1>7. ASSUME NEW c \in Callers, Lead(c)
      PROVE  TypeOK'
  BY <1>7 DEF Lead
<1>8. ASSUME NEW c \in Callers, Upstream(c)
      PROVE  TypeOK'
  <2>1. CASE Deliver(c)
    BY <1>8, <2>1 DEF Upstream
  <2>2. CASE Goto(c, "inserting") /\ UNCHANGED <<inflight, future, answer>>
    BY <1>8, <2>2 DEF Upstream
  <2> QED
    BY <1>8, <2>1, <2>2 DEF Upstream
<1>9. ASSUME NEW c \in Callers, Fails(c)
      PROVE  TypeOK'
  BY <1>9 DEF Fails
<1>10. ASSUME NEW c \in Callers, Insert(c)
       PROVE  TypeOK'
  BY <1>10 DEF Insert
<1>11. ASSUME NEW c \in Callers, Measure(c)
       PROVE  TypeOK'
  BY <1>11 DEF Measure
<1>12. ASSUME NEW c \in Callers, Evict(c)
       PROVE  TypeOK'
  <2>1. PICK keep \in SUBSET Stored : rows' = [k \in Keys |-> IF k \in keep THEN rows[k] ELSE NoRow]
    BY <1>12 DEF Evict
  <2>2. rows' \in [Keys -> Row]
    BY <2>1
  <2>3. /\ call' = [call EXCEPT ![c] = "stored"]
        /\ UNCHANGED <<clock, inflight, now, found, follows, future, answer, cached, paid>>
    BY <1>12 DEF Evict
  <2> QED
    BY <2>2, <2>3
<1>13. ASSUME NEW c \in Callers, Commit(c) \/ Cancel(c)
       PROVE  TypeOK'
  <2>1. CASE Commit(c)
    BY <2>1 DEF Commit
  <2>2. CASE Cancel(c)
    BY <2>2 DEF Cancel
  <2> QED
    BY <1>13, <2>1, <2>2
<1>14. ASSUME NEW c \in Callers, Wake(c)
       PROVE  TypeOK'
  <2>1. CASE future[follows[c]] = "value"
    <3>1. /\ answer' = [answer EXCEPT ![c] = follows[c]] /\ cached' = [cached EXCEPT ![c] = TRUE]
          /\ call' = [call EXCEPT ![c] = "answered"]
          /\ UNCHANGED <<clock, rows, inflight, now, found, follows, future, paid>>
      BY <1>14, <2>1 DEF Wake
    <3> QED
      BY <3>1
  <2>2. CASE future[follows[c]] = "error"
    BY <1>14, <2>2, SMTT(20) DEF Wake
  <2>3. CASE future[follows[c]] = "cancelled"
    BY <1>14, <2>3, SMTT(20) DEF Wake
  <2> QED
    BY <1>14, <2>1, <2>2, <2>3 DEF Wake
<1>15. CASE UNCHANGED vars
  BY <1>15 DEF vars
<1> QED
  BY <1>1, <1>2, <1>3, <1>4, <1>5, <1>6, <1>7, <1>8, <1>9, <1>10, <1>11, <1>12,
     <1>13, <1>14, <1>15
     DEF Next, Step

\* Every variable of the client, of its store and of its callers keeps its type.
THEOREM TypeCorrect == Spec => []TypeOK
  BY InitType, StepType, PTL DEF Spec

-----------------------------------------------------------------------------
(* The inductive invariant                                                 *)

LEMMA InitInv == Init => IInv
<1> SUFFICES ASSUME Init
             PROVE  IInv
  OBVIOUS
<1> USE CachingAssumption DEF Init
<1>1. TypeOK
  BY InitType
<1>2. Stored = {}
  BY DEF Stored
<1>3. IsFiniteSet(Stored) /\ Cardinality(Stored) = 0
  BY <1>2, FS_EmptySet
<1>4. RowsWritten /\ CapKept
  BY <1>3 DEF RowsWritten, CapKept
<1>5. Registered /\ FutureTells /\ Standing
  BY DEF Registered, FutureTells, Standing, Leading, Putting, Looking
<1>6. PaidOnce /\ FollowersShare /\ ServedFresh
  BY DEF PaidOnce, OneUpstream, ChargedOnce, FollowersShare, ServedFresh, Leading, Putting
<1> QED
  BY <1>1, <1>4, <1>5, <1>6 DEF IInv

\* What the table and the lookups hold stays true when a step writes nothing
\* new: a call that has inserted keeps its start and its payment, a row is
\* touched or removed, and what is read is read from the table.
LEMMA RowsKept ==
  ASSUME TypeOK, RowsWritten,
         \A d \in Callers :
           call[d] \in (Putting \ {"inserting"}) \union Ended =>
             /\ call'[d] \in (Putting \ {"inserting"}) \union Ended
             /\ now'[d] = now[d] /\ (paid[d] => paid'[d]),
         \A k \in Keys :
           rows'[k] # NoRow => /\ rows[k] # NoRow
                               /\ rows'[k].from = rows[k].from
                               /\ rows'[k].created = rows[k].created,
         \A c \in Callers :
           found'[c] # NoRow => found'[c] = found[c] \/ found'[c] = rows[KeyOf[c]]
  PROVE  RowsWritten'
<1>1. ASSUME NEW k \in Keys, NEW old, Written(old, k)
      PROVE  /\ old.from \in Callers /\ KeyOf[old.from] = k
             /\ call'[old.from] \in (Putting \ {"inserting"}) \union Ended
             /\ paid'[old.from] /\ old.created = now'[old.from]
  BY <1>1 DEF Written
<1>2. IsFiniteSet(Stored')
  <2>1. Stored' \in SUBSET Stored
    BY DEF Stored
  <2>2. IsFiniteSet(Stored)
    BY DEF RowsWritten
  <2> QED
    BY <2>1, <2>2, FS_Subset
<1>3. ASSUME NEW k \in Keys, rows'[k] # NoRow
      PROVE  Written(rows[k], k)'
  <2>1. Written(rows[k], k)
    BY <1>3 DEF RowsWritten
  <2> QED
    BY <1>1, <1>3, <2>1 DEF Written
<1>4. ASSUME NEW c \in Callers, found'[c] # NoRow
      PROVE  Written(found[c], KeyOf[c])'
  <2>1. KeyOf[c] \in Keys
    BY CachingAssumption
  <2>2. Written(found'[c], KeyOf[c])
    BY <1>4, <2>1 DEF RowsWritten
  <2> QED
    BY <1>1, <2>1, <2>2 DEF Written
<1> QED
  BY <1>2, <1>3, <1>4 DEF RowsWritten

\* A table that does not grow stays accounted for while whoever is on its way
\* to evict, or was cut off before it could, stays so.
LEMMA CapStays ==
  ASSUME RowsWritten, CapKept, CachingAssumption,
         \A k \in Keys : rows'[k] # NoRow => rows[k] # NoRow,
         \A d \in Callers :
           \/ call[d] \in {"measuring", "evicting"}
           \/ call[d] \in {"cancelled", "errored"} /\ paid[d]
           => \/ call'[d] \in {"measuring", "evicting"}
              \/ call'[d] \in {"cancelled", "errored"} /\ paid'[d]
  PROVE  CapKept'
<1>1. Stored' \in SUBSET Stored
  BY DEF Stored
<1>2. /\ Cardinality(Stored) \in Nat /\ Cardinality(Stored') \in Nat
      /\ Cardinality(Stored') <= Cardinality(Stored)
  BY <1>1, FS_Subset, FS_CardinalityType DEF RowsWritten
<1>3. Cardinality(Stored') > Cap => Cardinality(Stored) > Cap
  BY <1>2 DEF CachingAssumption
<1> QED
  BY <1>3 DEF CapKept

\* A caller that starts, or reads the table, has nothing yet to be wrong about.
LEMMA LookingInv ==
  ASSUME IInv, NEW c \in Callers, Begin(c) \/ Select(c)
  PROVE  IInv'
<1> USE CachingAssumption DEF Begin, Select, Goto, Looking, Leading, Putting, Ended
<1>1. TypeOK /\ TypeOK'
  BY StepType DEF IInv, Next, Step
<1>2. RowsWritten'
  BY <1>1, RowsKept DEF IInv, TypeOK
<1>3. Registered'
  BY <1>1 DEF IInv, TypeOK, Registered
<1>4. FutureTells'
  BY <1>1 DEF IInv, TypeOK, FutureTells, Registered, Standing
<1>5. Standing'
  BY <1>1 DEF IInv, TypeOK, Standing, Registered, FutureTells, RowsWritten, Written
<1>6. OneUpstream'
  BY <1>1 DEF IInv, TypeOK, PaidOnce, OneUpstream, Registered
<1>7. ChargedOnce'
  BY <1>1 DEF IInv, TypeOK, PaidOnce, ChargedOnce, Standing, FutureTells, RowsWritten, Written
<1>8. FollowersShare'
  BY <1>1 DEF IInv, TypeOK, FollowersShare, Standing, FutureTells
<1>9. CapKept'
  BY CapStays DEF IInv, TypeOK
<1>10. ServedFresh'
  <2>1. ASSUME NEW d \in Callers, call'[d] = "answered"
        PROVE  call[d] = "answered" /\ now'[d] = now[d] /\ answer[d] \in Callers
    BY <1>1, <2>1 DEF IInv, TypeOK, Standing
  <2>2. ASSUME NEW d \in Callers, call[d] = "answered"
        PROVE  call[answer[d]] # "idle"
    BY <1>1, <2>2 DEF IInv, TypeOK, Standing, PaidOnce, ChargedOnce
  <2> QED
    BY <1>1, <2>1, <2>2 DEF IInv, TypeOK, ServedFresh, Standing
<1> QED
  BY <1>1, <1>2, <1>3, <1>4, <1>5, <1>6, <1>7, <1>8, <1>9, <1>10 DEF IInv, PaidOnce

\* A hit hands out a row another call has paid for, in time.
LEMMA HitInv ==
  ASSUME IInv, NEW c \in Callers, Hit(c)
  PROVE  IInv'
<1> USE CachingAssumption DEF Hit, Goto, Looking, Leading, Putting, Ended
<1>1. TypeOK /\ TypeOK'
  BY StepType DEF IInv, Next, Step
<1>2. RowsWritten'
  <2>1. \A k \in Keys : rows'[k] # NoRow => /\ rows[k] # NoRow
                                            /\ rows'[k].from = rows[k].from
                                            /\ rows'[k].created = rows[k].created
    BY <1>1 DEF IInv, TypeOK, Row, NoRow
  <2> QED
    BY <1>1, <2>1, RowsKept DEF IInv, TypeOK
<1>3. Registered'
  BY <1>1 DEF IInv, TypeOK, Registered
<1>4. FutureTells'
  BY <1>1 DEF IInv, TypeOK, FutureTells, Registered, Standing
<1>5. Standing'
  BY <1>1 DEF IInv, TypeOK, Standing, Registered, FutureTells, RowsWritten, Written
<1>6. OneUpstream'
  BY <1>1 DEF IInv, TypeOK, PaidOnce, OneUpstream, Registered
<1>7. ChargedOnce'
  BY <1>1 DEF IInv, TypeOK, PaidOnce, ChargedOnce, Standing, FutureTells, RowsWritten, Written
<1>8. FollowersShare'
  BY <1>1 DEF IInv, TypeOK, FollowersShare, Standing, FutureTells
<1>9. CapKept'
  <2>1. \A k \in Keys : rows'[k] # NoRow => rows[k] # NoRow
    BY <1>1 DEF IInv, TypeOK, Row, NoRow
  <2> QED
    BY <2>1, CapStays DEF IInv, TypeOK
<1>10. ServedFresh'
  BY <1>1 DEF IInv, TypeOK, ServedFresh, RowsWritten, Written, Standing, Expired
<1> QED
  BY <1>1, <1>2, <1>3, <1>4, <1>5, <1>6, <1>7, <1>8, <1>9, <1>10 DEF IInv, PaidOnce

\* An expired row goes, whatever it is by now.
LEMMA DropInv ==
  ASSUME IInv, NEW c \in Callers, DropExpired(c)
  PROVE  IInv'
<1> USE CachingAssumption DEF DropExpired, Goto, Looking, Leading, Putting, Ended
<1>1. TypeOK /\ TypeOK'
  BY StepType DEF IInv, Next, Step
<1>2. RowsWritten'
  BY <1>1, RowsKept DEF IInv, TypeOK
<1>3. Registered'
  BY <1>1 DEF IInv, TypeOK, Registered
<1>4. FutureTells'
  BY <1>1 DEF IInv, TypeOK, FutureTells, Registered, Standing
<1>5. Standing'
  BY <1>1 DEF IInv, TypeOK, Standing, Registered, FutureTells, RowsWritten, Written
<1>6. OneUpstream'
  BY <1>1 DEF IInv, TypeOK, PaidOnce, OneUpstream, Registered
<1>7. ChargedOnce'
  BY <1>1 DEF IInv, TypeOK, PaidOnce, ChargedOnce, Standing, FutureTells, RowsWritten, Written
<1>8. FollowersShare'
  BY <1>1 DEF IInv, TypeOK, FollowersShare, Standing, FutureTells
<1>9. CapKept'
  BY CapStays DEF IInv, TypeOK
<1>10. ServedFresh'
  BY <1>1 DEF IInv, TypeOK, ServedFresh, RowsWritten, Written, Standing, Expired
<1> QED
  BY <1>1, <1>2, <1>3, <1>4, <1>5, <1>6, <1>7, <1>8, <1>9, <1>10 DEF IInv, PaidOnce

\* A caller that finds its key led follows the leader.
LEMMA FollowInv ==
  ASSUME IInv, NEW c \in Callers, Follow(c)
  PROVE  IInv'
<1> USE CachingAssumption DEF Follow, Missed, Goto, Looking, Leading, Putting, Ended
<1>1. TypeOK /\ TypeOK'
  BY StepType DEF IInv, Next, Step
<1>2. RowsWritten'
  BY <1>1 DEF IInv, TypeOK, RowsWritten, Written, Stored
<1>3. Registered'
  BY <1>1 DEF IInv, TypeOK, Registered
<1>4. FutureTells'
  BY <1>1 DEF IInv, TypeOK, FutureTells, Registered, Standing
<1>5. Standing'
  BY <1>1 DEF IInv, TypeOK, Standing, Registered, FutureTells, RowsWritten, Written
<1>6. OneUpstream'
  BY <1>1 DEF IInv, TypeOK, PaidOnce, OneUpstream, Registered
<1>7. ChargedOnce'
  BY <1>1 DEF IInv, TypeOK, PaidOnce, ChargedOnce, Standing, FutureTells, RowsWritten, Written
<1>8. FollowersShare'
  BY <1>1 DEF IInv, TypeOK, FollowersShare, Standing, FutureTells
<1>9. CapKept'
  BY <1>1 DEF IInv, TypeOK, CapKept, Stored
<1>10. ServedFresh'
  BY <1>1 DEF IInv, TypeOK, ServedFresh, RowsWritten, Written, Standing, Expired
<1> QED
  BY <1>1, <1>2, <1>3, <1>4, <1>5, <1>6, <1>7, <1>8, <1>9, <1>10 DEF IInv, PaidOnce

\* A caller that finds nobody leads: nobody else leads its key.
LEMMA LeadInv ==
  ASSUME IInv, NEW c \in Callers, Lead(c)
  PROVE  IInv'
<1> USE CachingAssumption DEF Lead, Missed, Goto, Looking, Leading, Putting, Ended
<1>1. TypeOK /\ TypeOK'
  BY StepType DEF IInv, Next, Step
<1>2. RowsWritten'
  BY <1>1 DEF IInv, TypeOK, RowsWritten, Written, Stored
<1>3. Registered'
  BY <1>1 DEF IInv, TypeOK, Registered
<1>4. FutureTells'
  BY <1>1 DEF IInv, TypeOK, FutureTells, Registered, Standing
<1>5. Standing'
  BY <1>1 DEF IInv, TypeOK, Standing, Registered, FutureTells, RowsWritten, Written
<1>6. OneUpstream'
  BY <1>1 DEF IInv, TypeOK, PaidOnce, OneUpstream, Registered
<1>7. ChargedOnce'
  BY <1>1 DEF IInv, TypeOK, PaidOnce, ChargedOnce, Standing, FutureTells, RowsWritten, Written
<1>8. FollowersShare'
  BY <1>1 DEF IInv, TypeOK, FollowersShare, Standing, FutureTells
<1>9. CapKept'
  BY <1>1 DEF IInv, TypeOK, CapKept, Stored
<1>10. ServedFresh'
  BY <1>1 DEF IInv, TypeOK, ServedFresh, RowsWritten, Written, Standing, Expired
<1> QED
  BY <1>1, <1>2, <1>3, <1>4, <1>5, <1>6, <1>7, <1>8, <1>9, <1>10 DEF IInv, PaidOnce

\* An answer is paid for by the leader, whether it is stored or not.
LEMMA UpstreamInv ==
  ASSUME IInv, NEW c \in Callers, Upstream(c)
  PROVE  IInv'
<1> USE CachingAssumption DEF Upstream, Resolve, Deliver, Goto, Looking, Leading, Putting, Ended
<1>1. TypeOK /\ TypeOK'
  BY StepType DEF IInv, Next, Step
<1>2. RowsWritten'
  BY <1>1 DEF IInv, TypeOK, RowsWritten, Written, Stored
<1>3. Registered'
  BY <1>1 DEF IInv, TypeOK, Registered
<1>4. FutureTells'
  BY <1>1 DEF IInv, TypeOK, FutureTells, Registered, Standing
<1>5. Standing'
  BY <1>1 DEF IInv, TypeOK, Standing, Registered, FutureTells, RowsWritten, Written
<1>6. OneUpstream'
  BY <1>1 DEF IInv, TypeOK, PaidOnce, OneUpstream, Registered
<1>7. ChargedOnce'
  BY <1>1 DEF IInv, TypeOK, PaidOnce, ChargedOnce, Standing, FutureTells, RowsWritten, Written
<1>8. FollowersShare'
  BY <1>1 DEF IInv, TypeOK, FollowersShare, Standing, FutureTells
<1>9. CapKept'
  BY <1>1 DEF IInv, TypeOK, CapKept, Stored
<1>10. ServedFresh'
  BY <1>1 DEF IInv, TypeOK, ServedFresh, RowsWritten, Written, Standing, Expired
<1> QED
  BY <1>1, <1>2, <1>3, <1>4, <1>5, <1>6, <1>7, <1>8, <1>9, <1>10 DEF IInv, PaidOnce

\* A leader that fails or is cancelled leaves the registry, and its future says so.
LEMMA FailsInv ==
  ASSUME IInv, NEW c \in Callers, Fails(c) \/ Cancel(c)
  PROVE  IInv'
<1> USE CachingAssumption DEF Fails, Cancel, Resolve, Goto, Looking, Leading, Putting, Ended
<1>1. TypeOK /\ TypeOK'
  BY StepType DEF IInv, Next, Step
<1>2. RowsWritten'
  BY <1>1, RowsKept DEF IInv, TypeOK
<1>3. Registered'
  BY <1>1 DEF IInv, TypeOK, Registered
<1>4. FutureTells'
  BY <1>1 DEF IInv, TypeOK, FutureTells, Registered, Standing
<1>5. Standing'
  BY <1>1 DEF IInv, TypeOK, Standing, Registered, FutureTells, RowsWritten, Written
<1>6. OneUpstream'
  BY <1>1 DEF IInv, TypeOK, PaidOnce, OneUpstream, Registered
<1>7. ChargedOnce'
  BY <1>1 DEF IInv, TypeOK, PaidOnce, ChargedOnce, Standing, FutureTells, RowsWritten, Written
<1>8. FollowersShare'
  BY <1>1 DEF IInv, TypeOK, FollowersShare, Standing, FutureTells
<1>9. CapKept'
  BY CapStays DEF IInv, TypeOK, Standing
<1>10. ServedFresh'
  BY <1>1 DEF IInv, TypeOK, ServedFresh, RowsWritten, Written, Standing, Expired
<1> QED
  BY <1>1, <1>2, <1>3, <1>4, <1>5, <1>6, <1>7, <1>8, <1>9, <1>10 DEF IInv, PaidOnce

\* An inserted row is its leader's, who is now on its way to measure the table.
LEMMA InsertInv ==
  ASSUME IInv, NEW c \in Callers, Insert(c)
  PROVE  IInv'
<1> USE CachingAssumption DEF Insert, Goto, Looking, Leading, Putting, Ended
<1>1. TypeOK /\ TypeOK'
  BY StepType DEF IInv, Next, Step
<1>2. RowsWritten'
  <2>1. Stored' \in SUBSET (Stored \union {KeyOf[c]})
    BY <1>1 DEF IInv, TypeOK, Stored
  <2>2. IsFiniteSet(Stored')
    BY <2>1, FS_AddElement, FS_Subset DEF IInv, RowsWritten
  <2>3. ASSUME NEW k \in Keys, rows'[k] # NoRow
        PROVE  Written(rows[k], k)'
    <3>1. CASE k = KeyOf[c]
      BY <1>1, <3>1 DEF IInv, TypeOK, Written, Standing
    <3>2. CASE k # KeyOf[c]
      <4>1. Written(rows[k], k) /\ rows'[k] = rows[k]
        BY <2>3, <3>2 DEF IInv, TypeOK, RowsWritten
      <4> QED
        BY <1>1, <4>1 DEF IInv, TypeOK, Written
    <3> QED
      BY <3>1, <3>2
  <2>4. ASSUME NEW d \in Callers, found'[d] # NoRow
        PROVE  Written(found[d], KeyOf[d])'
    <3>1. Written(found[d], KeyOf[d]) /\ found'[d] = found[d]
      BY <2>4 DEF IInv, RowsWritten
    <3> QED
      BY <1>1, <3>1 DEF IInv, TypeOK, Written
  <2> QED
    BY <2>2, <2>3, <2>4 DEF RowsWritten
<1>3. Registered'
  BY <1>1 DEF IInv, TypeOK, Registered
<1>4. FutureTells'
  BY <1>1 DEF IInv, TypeOK, FutureTells, Registered, Standing
<1>5. Standing'
  BY <1>1 DEF IInv, TypeOK, Standing, Registered, FutureTells, RowsWritten, Written
<1>6. OneUpstream'
  BY <1>1 DEF IInv, TypeOK, PaidOnce, OneUpstream, Registered
<1>7. ChargedOnce'
  BY <1>1 DEF IInv, TypeOK, PaidOnce, ChargedOnce, Standing, FutureTells, RowsWritten, Written
<1>8. FollowersShare'
  BY <1>1 DEF IInv, TypeOK, FollowersShare, Standing, FutureTells
<1>9. CapKept'
  BY <1>1 DEF IInv, TypeOK, CapKept, Stored
<1>10. ServedFresh'
  BY <1>1 DEF IInv, TypeOK, ServedFresh, RowsWritten, Written, Standing, Expired
<1> QED
  BY <1>1, <1>2, <1>3, <1>4, <1>5, <1>6, <1>7, <1>8, <1>9, <1>10 DEF IInv, PaidOnce

\* Whoever measured a table within its limit need not evict.
LEMMA MeasureInv ==
  ASSUME IInv, NEW c \in Callers, Measure(c)
  PROVE  IInv'
<1> USE CachingAssumption DEF Measure, Goto, Looking, Leading, Putting, Ended
<1>1. TypeOK /\ TypeOK'
  BY StepType DEF IInv, Next, Step
<1>2. RowsWritten'
  BY <1>1 DEF IInv, TypeOK, RowsWritten, Written, Stored
<1>3. Registered'
  BY <1>1 DEF IInv, TypeOK, Registered
<1>4. FutureTells'
  BY <1>1 DEF IInv, TypeOK, FutureTells, Registered, Standing
<1>5. Standing'
  BY <1>1 DEF IInv, TypeOK, Standing, Registered, FutureTells, RowsWritten, Written
<1>6. OneUpstream'
  BY <1>1 DEF IInv, TypeOK, PaidOnce, OneUpstream, Registered
<1>7. ChargedOnce'
  BY <1>1 DEF IInv, TypeOK, PaidOnce, ChargedOnce, Standing, FutureTells, RowsWritten, Written
<1>8. FollowersShare'
  BY <1>1 DEF IInv, TypeOK, FollowersShare, Standing, FutureTells
<1>9. CapKept'
  BY <1>1 DEF IInv, TypeOK, CapKept, Stored
<1>10. ServedFresh'
  BY <1>1 DEF IInv, TypeOK, ServedFresh, RowsWritten, Written, Standing, Expired
<1> QED
  BY <1>1, <1>2, <1>3, <1>4, <1>5, <1>6, <1>7, <1>8, <1>9, <1>10 DEF IInv, PaidOnce

\* Eviction leaves no more than its target.
LEMMA EvictInv ==
  ASSUME IInv, NEW c \in Callers, Evict(c)
  PROVE  IInv'
<1> USE CachingAssumption DEF Evict, Goto, Looking, Leading, Putting, Ended
<1>1. TypeOK /\ TypeOK'
  BY StepType DEF IInv, Next, Step
<1>2. RowsWritten'
  BY <1>1, RowsKept DEF IInv, TypeOK
<1>3. Registered'
  BY <1>1 DEF IInv, TypeOK, Registered
<1>4. FutureTells'
  BY <1>1 DEF IInv, TypeOK, FutureTells, Registered, Standing
<1>5. Standing'
  BY <1>1 DEF IInv, TypeOK, Standing, Registered, FutureTells, RowsWritten, Written
<1>6. OneUpstream'
  BY <1>1 DEF IInv, TypeOK, PaidOnce, OneUpstream, Registered
<1>7. ChargedOnce'
  BY <1>1 DEF IInv, TypeOK, PaidOnce, ChargedOnce, Standing, FutureTells, RowsWritten, Written
<1>8. FollowersShare'
  BY <1>1 DEF IInv, TypeOK, FollowersShare, Standing, FutureTells
<1>9. CapKept'
  <2>1. PICK keep \in SUBSET Stored :
          /\ Cardinality(keep) = IF Cardinality(Stored) < Target THEN Cardinality(Stored) ELSE Target
          /\ rows' = [k \in Keys |-> IF k \in keep THEN rows[k] ELSE NoRow]
    OBVIOUS
  <2>2. Stored' = keep
    BY <2>1 DEF Stored
  <2>3. Cardinality(Stored) \in Nat
    BY FS_CardinalityType DEF IInv, RowsWritten
  <2>4. ~(Cardinality(Stored') > Cap)
    BY <2>1, <2>2, <2>3 DEF CachingAssumption
  <2> QED
    BY <2>4 DEF CapKept
<1>10. ServedFresh'
  BY <1>1 DEF IInv, TypeOK, ServedFresh, RowsWritten, Written, Standing, Expired
<1> QED
  BY <1>1, <1>2, <1>3, <1>4, <1>5, <1>6, <1>7, <1>8, <1>9, <1>10 DEF IInv, PaidOnce

\* The leader hands its answer over, as a value of its future.
LEMMA CommitInv ==
  ASSUME IInv, NEW c \in Callers, Commit(c)
  PROVE  IInv'
<1> USE CachingAssumption DEF Commit, Deliver, Resolve, Goto, Looking, Leading, Putting, Ended
<1>1. TypeOK /\ TypeOK'
  BY StepType DEF IInv, Next, Step
<1>2. RowsWritten'
  BY <1>1 DEF IInv, TypeOK, RowsWritten, Written, Stored
<1>3. Registered'
  BY <1>1 DEF IInv, TypeOK, Registered
<1>4. FutureTells'
  BY <1>1 DEF IInv, TypeOK, FutureTells, Registered, Standing
<1>5. Standing'
  BY <1>1 DEF IInv, TypeOK, Standing, Registered, FutureTells, RowsWritten, Written
<1>6. OneUpstream'
  BY <1>1 DEF IInv, TypeOK, PaidOnce, OneUpstream, Registered
<1>7. ChargedOnce'
  BY <1>1 DEF IInv, TypeOK, PaidOnce, ChargedOnce, Standing, FutureTells, RowsWritten, Written
<1>8. FollowersShare'
  BY <1>1 DEF IInv, TypeOK, FollowersShare, Standing, FutureTells
<1>9. CapKept'
  BY <1>1 DEF IInv, TypeOK, CapKept, Stored
<1>10. ServedFresh'
  BY <1>1 DEF IInv, TypeOK, ServedFresh, RowsWritten, Written, Standing, Expired
<1> QED
  BY <1>1, <1>2, <1>3, <1>4, <1>5, <1>6, <1>7, <1>8, <1>9, <1>10 DEF IInv, PaidOnce

\* A follower ends as its leader has.
LEMMA WakeInv ==
  ASSUME IInv, NEW c \in Callers, Wake(c)
  PROVE  IInv'
<1> USE CachingAssumption DEF Wake, Goto, Looking, Leading, Putting, Ended
<1>1. TypeOK /\ TypeOK'
  BY StepType DEF IInv, Next, Step
<1>2. RowsWritten'
  BY <1>1, RowsKept DEF IInv, TypeOK
<1>3. Registered'
  BY <1>1 DEF IInv, TypeOK, Registered
<1>4. FutureTells'
  BY <1>1 DEF IInv, TypeOK, FutureTells, Registered, Standing
<1>5. Standing'
  BY <1>1 DEF IInv, TypeOK, Standing, Registered, FutureTells, RowsWritten, Written
<1>6. OneUpstream'
  BY <1>1 DEF IInv, TypeOK, PaidOnce, OneUpstream, Registered
<1>7. ChargedOnce'
  BY <1>1 DEF IInv, TypeOK, PaidOnce, ChargedOnce, Standing, FutureTells, RowsWritten, Written
<1>8. FollowersShare'
  BY <1>1 DEF IInv, TypeOK, FollowersShare, Standing, FutureTells
<1>9. CapKept'
  BY <1>1 DEF IInv, TypeOK, CapKept, Stored
<1>10. ServedFresh'
  BY <1>1 DEF IInv, TypeOK, ServedFresh, RowsWritten, Written, Standing, Expired
<1> QED
  BY <1>1, <1>2, <1>3, <1>4, <1>5, <1>6, <1>7, <1>8, <1>9, <1>10 DEF IInv, PaidOnce

\* The clock concerns nobody: every caller keeps the time it started at.
LEMMA StepInv == IInv /\ [Next]_vars => IInv'
<1> SUFFICES ASSUME IInv, [Next]_vars
             PROVE  IInv'
  OBVIOUS
<1>1. ASSUME Tick \/ UNCHANGED vars
      PROVE  IInv'
  <2>1. TypeOK'
    BY <1>1, StepType DEF IInv, Next
  <2>2. /\ rows' = rows /\ inflight' = inflight /\ call' = call /\ now' = now
        /\ found' = found /\ follows' = follows /\ future' = future
        /\ answer' = answer /\ cached' = cached /\ paid' = paid
    BY <1>1 DEF Tick, vars
  <2>3. RowsWritten' /\ Registered' /\ FutureTells' /\ Standing'
    BY <2>2 DEF IInv, RowsWritten, Written, Stored, Registered, FutureTells, Standing
  <2>4. PaidOnce' /\ FollowersShare' /\ CapKept' /\ ServedFresh'
    BY <2>2 DEF IInv, PaidOnce, OneUpstream, ChargedOnce, FollowersShare, CapKept, Stored, ServedFresh
  <2> QED
    BY <2>1, <2>3, <2>4 DEF IInv
<1> QED
  BY <1>1, LookingInv, HitInv, DropInv, FollowInv, LeadInv, UpstreamInv, FailsInv,
     InsertInv, MeasureInv, EvictInv, CommitInv, WakeInv
     DEF Next, Step

LEMMA Inductive == Spec => []IInv
  BY InitInv, StepInv, PTL DEF Spec

-----------------------------------------------------------------------------
(* What follows for every instance                                         *)

\* With coalescing at most one call per key is upstream, and an answer is
\* charged to the caller that paid for it and to nobody else, however many
\* callers share it or find it stored (adapters/caching.py:88, :111).
THEOREM AnswersPaidOnce == Spec => []PaidOnce
<1>1. IInv => PaidOnce
  BY DEF IInv
<1> QED
  BY Inductive, <1>1, PTL

\* A follower returns its leader's answer or raises its leader's failure, and
\* is never given an answer of a call that failed (adapters/caching.py:88).
THEOREM FollowersShareFate == Spec => []FollowersShare
<1>1. IInv => FollowersShare
  BY DEF IInv
<1> QED
  BY Inductive, <1>1, PTL

\* The table outgrows its limit only on the way to an eviction, or after a put
\* was cut off before it (store/cache.py:81).
THEOREM TableKeptSmall == Spec => []CapKept
<1>1. IInv => CapKept
  BY DEF IInv
<1> QED
  BY Inductive, <1>1, PTL

\* No stored answer is served past its time to live, whatever a concurrent put
\* or delete does between the read of a row and its use (store/cache.py:51).
THEOREM ServedInTime == Spec => []ServedFresh
<1>1. IInv => ServedFresh
  BY DEF IInv
<1> QED
  BY Inductive, <1>1, PTL
=============================================================================
