--------------------------- MODULE CachingClient ---------------------------
(***************************************************************************)
(* CachingClient.complete (adapters/caching.py) over SqliteCacheStore      *)
(* (store/cache.py): identical concurrent calls share one upstream call,   *)
(* and its answer is stored for later ones.                                *)
(*                                                                         *)
(* A caller is one call of `complete`.  All callers share one connection,  *)
(* and every statement on it is awaited, so the steps of several callers   *)
(* interleave statement by statement.  An answer is known by the caller    *)
(* whose upstream call it came from.  Rows have one size: the byte limits  *)
(* are numbers of rows.  The in-flight future of a leader is named by the  *)
(* leader, and outlives its registration for those who hold it.            *)
(***************************************************************************)
EXTENDS Naturals, FiniteSets

CONSTANTS
  Callers,   \* calls of complete
  Keys,      \* cache keys
  KeyOf,     \* the key of each call
  Coalesce,  \* is coalescing on
  TTL,       \* ttl_seconds, 0 for none
  Cap,       \* max_bytes, in rows
  Target,    \* what eviction leaves, in rows
  MaxClock,  \* bound: the last instant
  None       \* no caller

ASSUME CachingAssumption ==
  /\ KeyOf \in [Callers -> Keys]
  /\ None \notin Callers
  /\ Coalesce \in BOOLEAN
  /\ TTL \in Nat /\ Cap \in Nat /\ Target \in 0 .. Cap /\ MaxClock \in Nat

VARIABLES
  clock,     \* the time
  rows,      \* the entries table: key -> answer and its two timestamps
  inflight,  \* _inflight: the leader registered for each key
  call,      \* where each caller stands
  now,       \* the time each caller started at
  found,     \* the row its SELECT read
  follows,   \* the leader it awaits
  future,    \* the in-flight future of each leader
  answer,    \* the answer it returned
  cached,    \* is that answer marked as cached
  paid       \* did its upstream call return an answer

vars  == <<clock, rows, inflight, call, now, found, follows, future, answer,
           cached, paid>>

NoRow   == [from |-> None, created |-> 0, used |-> 0]
Row     == [from : Callers \union {None}, created : 0 .. MaxClock, used : 0 .. MaxClock]
Stored  == {k \in Keys : rows[k] # NoRow}

Putting == {"inserting", "measuring", "evicting", "stored"}
Leading == {"calling"} \union Putting
Looking == {"selecting", "looked", "missed"}
Ended   == {"answered", "errored", "cancelled"}
Futures == {"none", "pending", "value", "error", "cancelled"}

TypeOK ==
  /\ clock \in 0 .. MaxClock
  /\ rows \in [Keys -> Row]
  /\ inflight \in [Keys -> Callers \union {None}]
  /\ call \in [Callers -> {"idle", "following"} \union Looking \union Leading \union Ended]
  /\ now \in [Callers -> 0 .. MaxClock]
  /\ found \in [Callers -> Row]
  /\ follows \in [Callers -> Callers \union {None}]
  /\ future \in [Callers -> Futures]
  /\ answer \in [Callers -> Callers \union {None}]
  /\ cached \in [Callers -> BOOLEAN]
  /\ paid \in [Callers -> BOOLEAN]

Init ==
  /\ clock = 0
  /\ rows = [k \in Keys |-> NoRow]
  /\ inflight = [k \in Keys |-> None]
  /\ call = [c \in Callers |-> "idle"]
  /\ now = [c \in Callers |-> 0]
  /\ found = [c \in Callers |-> NoRow]
  /\ follows = [c \in Callers |-> None]
  /\ future = [c \in Callers |-> "none"]
  /\ answer = [c \in Callers |-> None]
  /\ cached = [c \in Callers |-> FALSE]
  /\ paid = [c \in Callers |-> FALSE]

Goto(c, s) == call' = [call EXCEPT ![c] = s]

Expired(c) == TTL # 0 /\ now[c] - found[c].created > TTL

Tick ==
  /\ clock < MaxClock
  /\ clock' = clock + 1
  /\ UNCHANGED <<rows, inflight, call, now, found, follows, future, answer, cached, paid>>

-----------------------------------------------------------------------------
(* The lookup                                                              *)

Begin(c) ==
  /\ call[c] = "idle"
  /\ Goto(c, "selecting")
  /\ now' = [now EXCEPT ![c] = clock]
  /\ UNCHANGED <<clock, rows, inflight, found, follows, future, answer, cached, paid>>

\* SELECT.
Select(c) ==
  /\ call[c] = "selecting"
  /\ Goto(c, "looked")
  /\ found' = [found EXCEPT ![c] = rows[KeyOf[c]]]
  /\ UNCHANGED <<clock, rows, inflight, now, follows, future, answer, cached, paid>>

\* A live row: UPDATE its use, and return it.
Hit(c) ==
  /\ call[c] = "looked"
  /\ found[c] # NoRow
  /\ ~Expired(c)
  /\ rows' = [rows EXCEPT ![KeyOf[c]].used = IF rows[KeyOf[c]] = NoRow THEN @ ELSE now[c]]
  /\ Goto(c, "answered")
  /\ answer' = [answer EXCEPT ![c] = found[c].from]
  /\ cached' = [cached EXCEPT ![c] = TRUE]
  /\ UNCHANGED <<clock, inflight, now, found, follows, future, paid>>

\* An expired row: DELETE whatever the key holds by now.
DropExpired(c) ==
  /\ call[c] = "looked"
  /\ found[c] # NoRow
  /\ Expired(c)
  /\ rows' = [rows EXCEPT ![KeyOf[c]] = NoRow]
  /\ Goto(c, "missed")
  /\ UNCHANGED <<clock, inflight, now, found, follows, future, answer, cached, paid>>

Missed(c) == call[c] = "missed" \/ (call[c] = "looked" /\ found[c] = NoRow)

\* A miss with an identical call in flight: await its future.
Follow(c) ==
  /\ Missed(c)
  /\ Coalesce
  /\ inflight[KeyOf[c]] # None
  /\ follows' = [follows EXCEPT ![c] = inflight[KeyOf[c]]]
  /\ Goto(c, "following")
  /\ UNCHANGED <<clock, rows, inflight, now, found, future, answer, cached, paid>>

\* Mutant of Lead: the registry was consulted before the lookup was awaited.
LeadUnchecked(c) ==
  /\ Missed(c)
  /\ inflight' = [inflight EXCEPT ![KeyOf[c]] = c]
  /\ future' = [future EXCEPT ![c] = "pending"]
  /\ Goto(c, "calling")
  /\ UNCHANGED <<clock, rows, now, found, follows, answer, cached, paid>>

\* A miss with none: register, and call upstream.
Lead(c) ==
  /\ Missed(c)
  /\ inflight[KeyOf[c]] = None
  /\ inflight' = [inflight EXCEPT ![KeyOf[c]] = IF Coalesce THEN c ELSE None]
  /\ future' = [future EXCEPT ![c] = IF Coalesce THEN "pending" ELSE "none"]
  /\ Goto(c, "calling")
  /\ UNCHANGED <<clock, rows, now, found, follows, answer, cached, paid>>

-----------------------------------------------------------------------------
(* The leader                                                              *)

\* Mutants of Resolve: `except Exception` for `except BaseException`, and a
\* failure handed on as a result.
ResolveUncancelled(c, how) ==
  /\ future' = [future EXCEPT ![c] = IF @ = "pending" /\ how # "cancelled" THEN how ELSE @]
  /\ inflight' = [k \in Keys |-> IF inflight[k] = c THEN None ELSE inflight[k]]

ResolveBlindly(c, how) ==
  /\ future' = [future EXCEPT ![c] = IF @ = "pending" THEN "value" ELSE @]
  /\ inflight' = [k \in Keys |-> IF inflight[k] = c THEN None ELSE inflight[k]]

\* The `except`/`else`/`finally` of _coalesced_complete.
Resolve(c, how) ==
  /\ future' = [future EXCEPT ![c] = IF @ = "pending" THEN how ELSE @]
  /\ inflight' = [k \in Keys |-> IF inflight[k] = c THEN None ELSE inflight[k]]

\* The leader returns its own answer.
Deliver(c) ==
  /\ Resolve(c, "value")
  /\ Goto(c, "answered")
  /\ answer' = [answer EXCEPT ![c] = c]

\* The upstream call returns an answer; a tool call, an empty or a truncated
\* one is not stored.
Upstream(c) ==
  /\ call[c] = "calling"
  /\ paid' = [paid EXCEPT ![c] = TRUE]
  /\ \/ Deliver(c)
     \/ Goto(c, "inserting") /\ UNCHANGED <<inflight, future, answer>>
  /\ UNCHANGED <<clock, rows, now, found, follows, cached>>

\* The upstream call fails, or a statement of the store does.
Fails(c) ==
  /\ \/ call[c] \in {"selecting", "calling"} \union Putting
     \/ call[c] = "looked" /\ found[c] # NoRow
  /\ Resolve(c, "error")
  /\ Goto(c, "errored")
  /\ UNCHANGED <<clock, rows, now, found, follows, answer, cached, paid>>

\* Mutant of Insert: the row is stamped with the time it is written.
InsertLate(c) ==
  /\ call[c] = "inserting"
  /\ rows' = [rows EXCEPT ![KeyOf[c]] = [from |-> c, created |-> clock, used |-> clock]]
  /\ Goto(c, "measuring")
  /\ UNCHANGED <<clock, inflight, now, found, follows, future, answer, cached, paid>>

\* INSERT OR REPLACE, stamped with the time the request started.
Insert(c) ==
  /\ call[c] = "inserting"
  /\ rows' = [rows EXCEPT ![KeyOf[c]] = [from |-> c, created |-> now[c], used |-> now[c]]]
  /\ Goto(c, "measuring")
  /\ UNCHANGED <<clock, inflight, now, found, follows, future, answer, cached, paid>>

\* Mutant of Measure: the limit is off by one.
MeasureLate(c) ==
  /\ call[c] = "measuring"
  /\ Goto(c, IF Cardinality(Stored) > Cap + 1 THEN "evicting" ELSE "stored")
  /\ UNCHANGED <<clock, rows, inflight, now, found, follows, future, answer, cached, paid>>

\* SELECT SUM.
Measure(c) ==
  /\ call[c] = "measuring"
  /\ Goto(c, IF Cardinality(Stored) > Cap THEN "evicting" ELSE "stored")
  /\ UNCHANGED <<clock, rows, inflight, now, found, follows, future, answer, cached, paid>>

\* DELETE all but the most recently used rows.
Evict(c) ==
  /\ call[c] = "evicting"
  /\ \E keep \in SUBSET Stored :
       /\ Cardinality(keep) = IF Cardinality(Stored) < Target THEN Cardinality(Stored) ELSE Target
       /\ \A k \in keep, l \in Stored \ keep : rows[k].used >= rows[l].used
       /\ rows' = [k \in Keys |-> IF k \in keep THEN rows[k] ELSE NoRow]
  /\ Goto(c, "stored")
  /\ UNCHANGED <<clock, inflight, now, found, follows, future, answer, cached, paid>>

\* COMMIT, and the answer is handed over.
Commit(c) ==
  /\ call[c] = "stored"
  /\ Deliver(c)
  /\ UNCHANGED <<clock, rows, now, found, follows, cached, paid>>

-----------------------------------------------------------------------------
(* The followers, and cancellation                                         *)

\* Mutant of Wake: the shared answer is not marked as cached.
WakeCharged(c) ==
  /\ call[c] = "following"
  /\ future[follows[c]] = "value"
  /\ Goto(c, "answered")
  /\ answer' = [answer EXCEPT ![c] = follows[c]]
  /\ UNCHANGED <<clock, rows, inflight, now, found, follows, future, cached, paid>>

\* The shielded future is done: its value is returned as cached, its
\* exception is raised, and so is the CancelledError of a cancelled leader.
Wake(c) ==
  /\ call[c] = "following"
  /\ \/ /\ future[follows[c]] = "value"
        /\ Goto(c, "answered")
        /\ answer' = [answer EXCEPT ![c] = follows[c]]
        /\ cached' = [cached EXCEPT ![c] = TRUE]
     \/ /\ future[follows[c]] = "error"
        /\ Goto(c, "errored")
        /\ UNCHANGED <<answer, cached>>
     \/ /\ future[follows[c]] = "cancelled"
        /\ Goto(c, "cancelled")
        /\ UNCHANGED <<answer, cached>>
  /\ UNCHANGED <<clock, rows, inflight, now, found, follows, future, paid>>

\* The caller's time-out, or its request's teardown, cancels it at an await.
Cancel(c) ==
  /\ call[c] \in {"following"} \union Looking \union Leading
  /\ Resolve(c, "cancelled")
  /\ Goto(c, "cancelled")
  /\ UNCHANGED <<clock, rows, now, found, follows, answer, cached, paid>>

Step(c) ==
  \/ Select(c) \/ Hit(c) \/ DropExpired(c) \/ Follow(c) \/ Lead(c)
  \/ Upstream(c) \/ Fails(c) \/ Insert(c) \/ Measure(c) \/ Evict(c) \/ Commit(c)
  \/ Wake(c)

Next ==
  \/ Tick
  \/ \E c \in Callers : Begin(c) \/ Step(c) \/ Cancel(c)

\* Statements end, upstream calls have a time-out, and what is ready runs.
Spec     == Init /\ [][Next]_vars
FairSpec == Spec /\ \A c \in Callers : WF_vars(Step(c))

-----------------------------------------------------------------------------
(* Properties                                                              *)

\* At most one upstream call per key is in flight: whoever calls upstream is
\* the one registered, and nobody else can register over it.
OneUpstream ==
  Coalesce =>
    /\ \A c \in Callers : call[c] \in Leading => inflight[KeyOf[c]] = c
    /\ \A k \in Keys :
         inflight[k] # None => call[inflight[k]] \in Leading /\ future[inflight[k]] = "pending"

\* An upstream call is charged to the caller that made it and to nobody else:
\* every other caller that was given its answer has it marked as cached.
ChargedOnce ==
  \A c \in Callers :
    call[c] = "answered" => /\ paid[answer[c]]
                            /\ cached[c] <=> answer[c] # c
                            /\ KeyOf[answer[c]] = KeyOf[c]

\* Coalescing saves what it promises: of the calls of one key in flight one goes
\* upstream, and its price is booked once.
PaidOnce == OneUpstream /\ ChargedOnce

\* A follower ends as its leader did, unless it was cancelled itself: it is
\* never given an answer of a call that failed.
FollowersShare ==
  \A c \in Callers :
    follows[c] # None =>
      /\ call[c] \in {"following", "answered", "errored", "cancelled"}
      /\ call[c] = "answered" => call[follows[c]] = "answered" /\ answer[c] = follows[c]
      /\ call[c] = "errored" => call[follows[c]] = "errored"

\* The table is over its limit only while a put is on its way to evict, or
\* after one was cut off before it could.
CapKept ==
  Cardinality(Stored) > Cap =>
    \E c \in Callers :
      \/ call[c] \in {"measuring", "evicting"}
      \/ call[c] \in {"cancelled", "errored"} /\ paid[c]

\* No answer is served past its time to live, counted from the start of the
\* call that produced it to the start of the call it is served to.
ServedFresh ==
  \A c \in Callers :
    call[c] = "answered" /\ follows[c] = None /\ cached[c] /\ TTL # 0
      => now[c] <= now[answer[c]] + TTL

\* A follower does not wait for ever on a future nobody will resolve.
FollowersReleased == \A c \in Callers : call[c] = "following" ~> call[c] \in Ended

-----------------------------------------------------------------------------
(* The inductive invariant behind the safety properties                    *)

\* A row, in the table or read from it, is the answer of a call of its key
\* that was paid for, stamped with the start of that call.
Written(row, k) ==
  /\ row.from \in Callers /\ KeyOf[row.from] = k
  /\ call[row.from] \in (Putting \ {"inserting"}) \union Ended
  /\ paid[row.from]
  /\ row.created = now[row.from]

RowsWritten ==
  /\ IsFiniteSet(Stored)
  /\ \A k \in Keys : rows[k] # NoRow => Written(rows[k], k)
  /\ \A c \in Callers : found[c] # NoRow => Written(found[c], KeyOf[c])

\* Who is registered leads its key, and its future is open.
Registered ==
  \A k \in Keys :
    inflight[k] # None => /\ Coalesce /\ KeyOf[inflight[k]] = k
                          /\ call[inflight[k]] \in Leading
                          /\ future[inflight[k]] = "pending"

\* A future is made when its leader registers, is open while it leads, and
\* tells how it ended.
FutureTells ==
  \A c \in Callers :
    /\ call[c] \in {"idle", "following"} \union Looking => future[c] = "none"
    /\ future[c] = "pending" => call[c] \in Leading
    /\ future[c] = "value" => call[c] = "answered" /\ answer[c] = c
    /\ future[c] = "error" => call[c] = "errored"
    /\ future[c] = "cancelled" => call[c] = "cancelled"

\* What a caller has, by where it stands; it follows a leader of its own key.
Standing ==
  \A c \in Callers :
    /\ call[c] \in Putting => paid[c]
    /\ paid[c] => call[c] \in Putting \union Ended
    /\ cached[c] => call[c] = "answered"
    /\ call[c] \in {"idle"} \union Looking \union Leading => follows[c] = None
    /\ call[c] = "following" => follows[c] # None
    /\ follows[c] # None => KeyOf[follows[c]] = KeyOf[c] /\ future[follows[c]] # "none"
    /\ call[c] = "answered" => answer[c] \in Callers

IInv ==
  /\ TypeOK
  /\ RowsWritten
  /\ Registered
  /\ FutureTells
  /\ Standing
  /\ PaidOnce
  /\ FollowersShare
  /\ CapKept
  /\ ServedFresh
=============================================================================
