------------------------------ MODULE CallProofs ------------------------------
(***************************************************************************)
(* Proofs about Upstream for any number of retries, any backoff and any    *)
(* length of a stream, and about Recorder for any size of the queue and of *)
(* a batch and any number of records.                                      *)
(***************************************************************************)
EXTENDS Upstream, Recorder, FiniteSetTheorems, SequenceTheorems, TLAPS

(***************************************************************************)
(* What an exception says                                                  *)
(***************************************************************************)
\* It shows a class or a status or neither, never a class and a status.
LEMMA FailureShape ==
    ASSUME NEW e \in Failures
    PROVE  /\ e.class \in DOMAIN ByClass \cup {None}
           /\ e.name \in DOMAIN ByName \cup {None}
           /\ e.class # None => e.status = None
           /\ e.status \in Int \cup {None}
           /\ e.text \in {"plain", "exhausted", "truncated"}
<1>0. DOMAIN ByStatus \subseteq Int /\ "ReadTimeout" \in DOMAIN ByName /\ "ConnectionReset" \in DOMAIN ByName
      /\ "BadRequestError" \in DOMAIN ByClass /\ "InvalidRequest" \in DOMAIN ByName
  BY DEF ByStatus, ByName, ByClass
<1>1. CASE \E s \in Signs, t \in {"plain", "exhausted"} : e = Failure(s[1], s[2], s[3], t)
  <2>1. PICK s \in Signs, t \in {"plain", "exhausted"} : e = Failure(s[1], s[2], s[3], t)
    BY <1>1
  <2>2. e.class = s[1] /\ e.status = s[2] /\ e.name = s[3] /\ e.text = t
    BY <2>1 DEF Failure
  <2>3. /\ s[1] \in DOMAIN ByClass \cup {None} /\ s[3] \in DOMAIN ByName \cup {None}
        /\ s[1] # None => s[2] = None
        /\ s[2] \in Int \cup {None}
    BY <1>0 DEF Signs
  <2> QED
    BY <2>2, <2>3
<1>2. CASE e \in {Failure("BadRequestError", None, None, "truncated"),
                 Failure(None, 400, None, "truncated"), Failure(None, None, "InvalidRequest", "truncated")}
  BY <1>0, <1>2 DEF Failure
<1> QED
  BY <1>1, <1>2 DEF Failures

\* The tables know these kinds and no other.
LEMMA Tables ==
    /\ \A c \in DOMAIN ByClass : ByClass[c] \in Kinds /\ ByClass[c] # "unknown"
    /\ \A n \in DOMAIN ByStatus : ByStatus[n] \in Kinds
    /\ \A m \in DOMAIN ByName : ByName[m] \in Kinds
    /\ {400, 401, 402, 403, 422} \subseteq DOMAIN ByStatus
    /\ ByStatus[401] = "auth" /\ ByStatus[403] = "auth" /\ ByStatus[402] = "quota"
    /\ ByStatus[400] = "bad_request" /\ ByStatus[422] = "bad_request"
    /\ {"AuthenticationError", "PermissionDeniedError", "ContextWindowExceededError",
        "ContentPolicyViolationError", "BadRequestError"} \subseteq DOMAIN ByClass
    /\ ByClass["AuthenticationError"] = "auth" /\ ByClass["PermissionDeniedError"] = "auth"
    /\ ByClass["ContextWindowExceededError"] = "context_length"
    /\ ByClass["ContentPolicyViolationError"] = "content_filter"
    /\ ByClass["BadRequestError"] = "bad_request"
<1>1. \A c \in DOMAIN ByClass : ByClass[c] \in Kinds /\ ByClass[c] # "unknown"
  BY DEF ByClass, Kinds, RetryableKinds, FallbackKinds
<1>2. \A n \in DOMAIN ByStatus : ByStatus[n] \in Kinds
  BY DEF ByStatus, Kinds, RetryableKinds, FallbackKinds
<1>3. \A m \in DOMAIN ByName : ByName[m] \in Kinds
  BY DEF ByName, Kinds, RetryableKinds, FallbackKinds
<1>4. /\ {400, 401, 402, 403, 422} \subseteq DOMAIN ByStatus
      /\ ByStatus[401] = "auth" /\ ByStatus[403] = "auth" /\ ByStatus[402] = "quota"
      /\ ByStatus[400] = "bad_request" /\ ByStatus[422] = "bad_request"
  BY DEF ByStatus
<1>5. /\ {"AuthenticationError", "PermissionDeniedError", "ContextWindowExceededError",
          "ContentPolicyViolationError", "BadRequestError"} \subseteq DOMAIN ByClass
      /\ ByClass["AuthenticationError"] = "auth" /\ ByClass["PermissionDeniedError"] = "auth"
      /\ ByClass["ContextWindowExceededError"] = "context_length"
      /\ ByClass["ContentPolicyViolationError"] = "content_filter"
      /\ ByClass["BadRequestError"] = "bad_request"
  BY DEF ByClass
<1> QED
  BY <1>1, <1>2, <1>3, <1>4, <1>5

\* What the ladder makes of a failure that no further attempt can mend.
LEMMA ClassifyDoes ==
    ASSUME NEW e \in Failures
    PROVE  /\ Classify(e) \in Kinds
           /\ OutOfResource(e) => Classify(e) = "quota"
           /\ Refused(e) /\ ~ OutOfResource(e) => Classify(e) = "auth"
           /\ Rejected(e) => Classify(e) \in {"context_length", "content_filter", "bad_request"}
<1> USE NoneAssumption
<1>1. /\ e.class \in DOMAIN ByClass \cup {None}
      /\ e.name \in DOMAIN ByName \cup {None}
      /\ e.class # None => e.status = None
      /\ e.text \in {"plain", "exhausted", "truncated"}
  BY FailureShape
<1>2. \A k \in Kinds : Fault(k, e) \in Kinds /\ (k # "bad_request" \/ e.text # "truncated" => Fault(k, e) = k)
  BY DEF Fault, Kinds, RetryableKinds
<1>3. {"quota", "unknown", "auth", "context_length", "content_filter", "bad_request"} \subseteq Kinds
  BY DEF Kinds, FallbackKinds
<1>8. None \notin {"AuthenticationError", "PermissionDeniedError", "ContextWindowExceededError",
                   "ContentPolicyViolationError", "BadRequestError"}
  BY Tables
<1>4. CASE e.text = "exhausted"
  BY <1>3, <1>4 DEF Classify, OutOfResource, Rejected
<1>5. CASE e.text # "exhausted" /\ e.class # None
  <2>1. Classify(e) = Fault(ByClass[e.class], e) /\ e.class \in DOMAIN ByClass
    BY <1>1, <1>5 DEF Classify
  <2>2. ByClass[e.class] \in Kinds
    BY <2>1, Tables
  <2>3. ~ OutOfResource(e) /\ e.status \notin {400, 401, 403, 422}
    BY <1>1, <1>5, Tables DEF OutOfResource
  <2>4. Refused(e) => ByClass[e.class] = "auth"
    BY <2>3, Tables DEF Refused
  <2>5. Rejected(e) => \/ ByClass[e.class] \in {"context_length", "content_filter"}
                       \/ ByClass[e.class] = "bad_request" /\ e.text # "truncated"
    BY <2>3, Tables DEF Rejected
  <2> QED
    BY <1>2, <1>3, <2>1, <2>2, <2>3, <2>4, <2>5
<1>6. CASE e.text # "exhausted" /\ e.class = None /\ e.status \in DOMAIN ByStatus
  <2>1. Classify(e) = Fault(ByStatus[e.status], e)
    BY <1>6 DEF Classify
  <2>2. ByStatus[e.status] \in Kinds
    BY <1>6, Tables
  <2>3. OutOfResource(e) => ByStatus[e.status] = "quota"
    BY <1>6, Tables DEF OutOfResource
  <2>4. Refused(e) => ByStatus[e.status] = "auth"
    BY <1>6, <1>8, Tables DEF Refused
  <2>5. Rejected(e) => ByStatus[e.status] = "bad_request" /\ e.text # "truncated"
    BY <1>6, <1>8, Tables DEF Rejected
  <2> QED
    BY <1>2, <1>3, <2>1, <2>2, <2>3, <2>4, <2>5
<1>7. CASE e.text # "exhausted" /\ e.class = None /\ e.status \notin DOMAIN ByStatus
  <2>1. ~ OutOfResource(e) /\ ~ Refused(e) /\ ~ Rejected(e)
    BY <1>7, <1>8, Tables DEF OutOfResource, Refused, Rejected
  <2>2. CASE e.name # None
    <3>1. Classify(e) = Fault(ByName[e.name], e) /\ e.name \in DOMAIN ByName
      BY <1>1, <1>7, <2>2 DEF Classify
    <3> QED
      BY <1>2, <2>1, <3>1, Tables
  <2>3. CASE e.name = None
    <3>1. Classify(e) = "unknown"
      BY <1>7, <2>3 DEF Classify
    <3> QED
      BY <1>3, <2>1, <3>1
  <2> QED
    BY <2>2, <2>3
<1> QED
  BY <1>4, <1>5, <1>6, <1>7

\* A failure another attempt may mend, or another route, is none of those.
LEMMA WorthIt ==
    ASSUME NEW e \in Failures
    PROVE  /\ Classify(e) \in RetryableKinds => ~ OutOfResource(e) /\ ~ Refused(e) /\ ~ Rejected(e)
           /\ Classify(e) \in FallbackKinds => ~ Rejected(e)
  BY ClassifyDoes DEF RetryableKinds, FallbackKinds

(***************************************************************************)
(* The inductive invariant                                                 *)
(***************************************************************************)
\* What a plan is made of.
LEMMA PlanShape ==
    ASSUME plan \in Plans
    PROVE  /\ plan.retries \in 0 .. MaxRetries /\ MaxAttempts \in 1 .. MaxRetries + 1
           /\ plan.mode \in {"complete", "stream"}
           /\ plan.backstop \in BOOLEAN /\ (plan.mode = "stream" => plan.backstop = FALSE)
<1> USE UpstreamAssumption
<1>1. plan.retries \in 0 .. MaxRetries /\ plan.mode \in {"complete", "stream"}
      /\ plan.backstop \in BOOLEAN /\ (plan.mode = "stream" => plan.backstop = FALSE)
  BY DEF Plans
<1> QED
  BY <1>1 DEF MaxAttempts

\* Nothing was called, booked or streamed yet.
LEMMA SeatStarts == SeatInit => SeatInv
<1> SUFFICES ASSUME SeatInit
             PROVE  SeatInv
  OBVIOUS
<1> USE UpstreamAssumption DEF SeatInit
<1>1. rows = <<>> /\ chunks = <<>> /\ Len(rows) = 0 /\ DOMAIN rows = {} /\ DOMAIN chunks = {}
  BY EmptySeq, LenProperties
<1>2. made \in [Routes -> 0 .. MaxRetries + 1] /\ \A r \in Routes : made[r] = 0
  OBVIOUS
<1>3. SeatTypeOK
  BY <1>1, <1>2, EmptySeq DEF SeatTypeOK, Routes, RetryAfterCap
<1>4. Counts /\ Shape /\ Pending /\ Booked
  BY <1>1, <1>2 DEF Counts, Shape, Pending, Booked, Routes
<1>5. AttemptsHonest
  BY <1>1 DEF AttemptsHonest
<1> QED
  BY <1>3, <1>4, <1>5 DEF SeatInv

\* A route is left with a row that claims the calls made on it, or with one of
\* the defaults; the seat hops to its backstop only for a failure that another
\* route can mend.
LEMMA SettleInv ==
    ASSUME SeatInv, NEW status \in {"ok", "error", "timeout"}, NEW kind \in Kinds \cup {None},
           NEW n \in 0 .. MaxRetries + 1, Settle(status, kind, n),
           pc \in {"new", "calling", "sleeping", "streaming"},
           UNCHANGED <<plan, delay, chunks, parts, made>>, failure' \in Failures \cup {None},
           plan.mode = "complete" /\ status # "timeout" /\ kind \notin {"unknown", "proxy"} => n = made[route],
           plan.mode = "stream" /\ status = "ok" /\ chunks # <<>> => n = made[route],
           FallsBack(status, kind) => failure' \in Failures /\ ~ Rejected(failure')
    PROVE  SeatInv'
<1> USE UpstreamAssumption
<1>0. SeatTypeOK /\ Counts /\ Shape /\ Pending /\ Booked /\ AttemptsHonest
  BY DEF SeatInv
<1> DEFINE row == Row(status, kind, n)
<1>1. /\ row \in Rows /\ row.route = route /\ row.status = status /\ row.kind = kind /\ row.attempts = n
  BY <1>0 DEF Row, Rows, SeatTypeOK
<1>2. rows' = Append(rows, row) /\ rows \in Seq(Rows)
  BY <1>0 DEF Settle, SeatTypeOK
<1> HIDE DEF row
<1>3. /\ rows' \in Seq(Rows) /\ Len(rows) \in Nat /\ Len(rows') = Len(rows) + 1
      /\ DOMAIN rows = 1 .. Len(rows) /\ DOMAIN rows' = 1 .. Len(rows) + 1
      /\ rows'[Len(rows) + 1] = row
      /\ \A i \in 1 .. Len(rows) : rows'[i] = rows[i]
  <2>1. Append(rows, row) \in Seq(Rows) /\ Len(Append(rows, row)) = Len(rows) + 1
        /\ Append(rows, row)[Len(rows) + 1] = row
        /\ \A i \in 1 .. Len(rows) : Append(rows, row)[i] = rows[i]
    BY <1>1, <1>2, AppendProperties
  <2>2. Len(rows) \in Nat /\ DOMAIN rows = 1 .. Len(rows) /\ rows' \in Seq(Rows)
    BY <1>2, <2>1, LenProperties
  <2>3. DOMAIN rows' = 1 .. Len(rows')
    BY <2>2, LenProperties
  <2> QED
    BY <1>2, <2>1, <2>2, <2>3
<1>4. Len(rows) = IF route = "backstop" THEN 1 ELSE 0
  BY <1>0 DEF Booked
<1>5. /\ FallsBack(status, kind) =>
           route = "primary" /\ plan.backstop /\ route' = "backstop" /\ pc' = "new" /\ attempt' = 0
      /\ ~ FallsBack(status, kind) => pc' = "settled" /\ route' = route /\ attempt' = attempt
  BY DEF Settle, FallsBack
<1>6. plan \in Plans /\ route \in Routes /\ made \in [Routes -> 0 .. MaxRetries + 1]
  BY <1>0 DEF SeatTypeOK
<1>20. SeatTypeOK'
  BY <1>0, <1>3, <1>5 DEF SeatTypeOK, Routes
<1>21. Counts'
  <2>1. CASE FallsBack(status, kind)
    BY <1>0, <1>5, <2>1 DEF Counts
  <2>2. CASE ~ FallsBack(status, kind)
    BY <1>0, <1>5, <2>2 DEF Counts
  <2> QED
    BY <2>1, <2>2
<1>22. Shape'
  <2>1. plan.backstop => chunks = <<>>
    BY <1>0, <1>6, PlanShape DEF Shape
  <2>2. CASE FallsBack(status, kind)
    BY <1>0, <1>5, <2>1, <2>2 DEF Shape
  <2>3. CASE ~ FallsBack(status, kind)
    BY <1>0, <1>5, <2>3 DEF Shape
  <2> QED
    BY <2>2, <2>3
<1>23. Pending'
  BY <1>5 DEF Pending
<1>24. Booked'
  <2>1. Len(rows') = (IF route' = "backstop" THEN 1 ELSE 0) + (IF pc' = "settled" THEN 1 ELSE 0)
    BY <1>3, <1>4, <1>5
  <2>2. ASSUME NEW i \in DOMAIN rows'
        PROVE  rows'[i].route = IF i = 1 THEN "primary" ELSE "backstop"
    <3>1. i \in 1 .. Len(rows) \/ i = Len(rows) + 1
      BY <1>3
    <3>2. CASE i \in 1 .. Len(rows)
      BY <1>0, <1>3, <3>2 DEF Booked
    <3>3. CASE i = Len(rows) + 1
      <4>1. rows'[i].route = route
        BY <1>1, <1>3, <3>3
      <4> QED
        BY <1>4, <1>6, <3>3, <4>1 DEF Routes
    <3> QED
      BY <3>1, <3>2, <3>3
  <2> QED
    BY <2>1, <2>2 DEF Booked
<1>25. AttemptsHonest'
  <2>1. ASSUME NEW i \in DOMAIN rows', Counted(rows'[i])
        PROVE  rows'[i].attempts = made[rows'[i].route]
    <3>1. i \in 1 .. Len(rows) \/ i = Len(rows) + 1
      BY <1>3
    <3>2. CASE i \in 1 .. Len(rows)
      BY <1>0, <1>3, <2>1, <3>2 DEF AttemptsHonest
    <3>3. CASE i = Len(rows) + 1
      <4>1. rows'[i] = row /\ Counted(row)
        BY <1>3, <2>1, <3>3
      <4>2. n = made[route]
        BY <1>1, <1>6, <4>1, PlanShape DEF Counted
      <4> QED
        BY <1>1, <4>1, <4>2
    <3> QED
      BY <3>1, <3>2, <3>3
  <2>2. \A i \in DOMAIN rows' :
           (IF plan.mode = "complete"
            THEN rows'[i].status # "timeout" /\ rows'[i].kind \notin {"unknown", "proxy"}
            ELSE rows'[i].status = "ok" /\ chunks # <<>>)
              => rows'[i].attempts = made[rows'[i].route]
    BY <2>1 DEF Counted
  <2>3. ASSUME NEW i \in DOMAIN chunks
        PROVE  chunks[i] = IF i = 1 THEN made[route'] ELSE None
    <3>1. chunks # <<>>
      BY <2>3, EmptySeq
    <3>2. ~ plan.backstop
      BY <1>0, <1>6, <3>1, PlanShape DEF Shape
    <3>3. route' = route
      BY <1>5, <3>2
    <3> QED
      BY <1>0, <3>3 DEF AttemptsHonest
  <2>4. ASSUME pc' = "settled", NEW r \in Routes, made[r] > 0
        PROVE  \E i \in DOMAIN rows' : rows'[i].route = r
    <3>1. route' = route
      BY <1>5, <2>4
    <3>2. CASE r = route
      <4>1. Len(rows) + 1 \in DOMAIN rows' /\ rows'[Len(rows) + 1].route = r
        BY <1>1, <1>3, <3>2
      <4> QED
        BY <4>1
    <3>3. CASE r # route
      <4>1. route = "backstop" /\ r = "primary"
        BY <1>0, <1>6, <2>4, <3>3 DEF Counts, Routes
      <4>2. 1 \in DOMAIN rows' /\ rows'[1].route = "primary"
        <5>1. 1 \in DOMAIN rows'
          BY <1>3
        <5> QED
          BY <1>24, <5>1 DEF Booked
      <4> QED
        BY <4>1, <4>2
    <3> QED
      BY <3>2, <3>3
  <2> QED
    BY <2>2, <2>3, <2>4 DEF AttemptsHonest, Counted
<1> QED
  BY <1>20, <1>21, <1>22, <1>23, <1>24, <1>25 DEF SeatInv

\* A call goes out, where the counter allows for one more.
LEMMA SendInv ==
    ASSUME SeatInv, Send, pc \in {"new", "sleeping"}, attempt < MaxAttempts,
           plan.proxy[route] # "unusable",
           UNCHANGED <<plan, route, chunks, parts, rows>>, delay' \in {delay, 0},
           failure' \in Failures \cup {None}
    PROVE  SeatInv'
<1> USE UpstreamAssumption
<1>0. SeatTypeOK /\ Counts /\ Shape /\ Pending /\ Booked /\ AttemptsHonest
  BY DEF SeatInv
<1>1. /\ pc' = "calling" /\ attempt' = attempt + 1
      /\ made' = [made EXCEPT ![route] = @ + 1]
  BY DEF Send
<1>2. /\ plan \in Plans /\ route \in Routes /\ made \in [Routes -> 0 .. MaxRetries + 1]
      /\ attempt \in 0 .. MaxRetries + 1 /\ attempt = made[route]
      /\ MaxAttempts \in 1 .. MaxRetries + 1
  BY <1>0, PlanShape DEF SeatTypeOK, Counts
<1>3. /\ attempt + 1 \in 1 .. MaxAttempts /\ attempt + 1 \in 0 .. MaxRetries + 1
      /\ made' \in [Routes -> 0 .. MaxRetries + 1]
      /\ made'[route] = attempt + 1 /\ \A r \in Routes : r # route => made'[r] = made[r]
  BY <1>1, <1>2
<1>4. SeatTypeOK'
  <2>1. delay' \in 0 .. RetryAfterCap \cup {Backoff * 2 ^ (n - 1) : n \in 1 .. MaxRetries}
    BY <1>0 DEF SeatTypeOK, RetryAfterCap
  <2> QED
    BY <1>0, <1>1, <1>3, <2>1 DEF SeatTypeOK
<1>5. Counts'
  BY <1>0, <1>1, <1>2, <1>3 DEF Counts, MaxAttempts, Routes
<1>6. Shape' /\ Pending'
  BY <1>0, <1>1 DEF Shape, Pending
<1>7. Booked'
  BY <1>0, <1>1 DEF Booked
<1>8. AttemptsHonest'
  <2>1. chunks = <<>> /\ DOMAIN chunks = {}
    BY <1>0, EmptySeq DEF Shape
  <2>2. \A i \in DOMAIN rows : rows[i].route # route /\ rows[i].route \in Routes
    <3>1. rows \in Seq(Rows) /\ Len(rows) = (IF route = "backstop" THEN 1 ELSE 0)
          /\ \A i \in DOMAIN rows : rows[i].route = IF i = 1 THEN "primary" ELSE "backstop"
      BY <1>0 DEF SeatTypeOK, Booked
    <3>2. DOMAIN rows = 1 .. Len(rows)
      BY <3>1, LenProperties
    <3> QED
      BY <1>2, <3>1, <3>2 DEF Routes
  <2>3. \A i \in DOMAIN rows : made'[rows[i].route] = made[rows[i].route]
    BY <1>3, <2>2
  <2> QED
    BY <1>0, <1>1, <2>1, <2>3 DEF AttemptsHonest, Counted
<1> QED
  BY <1>4, <1>5, <1>6, <1>7, <1>8 DEF SeatInv

(***************************************************************************)
(* One lemma for each action                                               *)
(***************************************************************************)
\* The first call of a route.
LEMMA CallInv ==
    ASSUME SeatInv, Call
    PROVE  SeatInv'
<1> USE UpstreamAssumption
<1>1. SeatTypeOK /\ Counts
  BY DEF SeatInv
<1>2. attempt < MaxAttempts
  BY <1>1, PlanShape DEF Call, Ready, Counts, SeatTypeOK
<1>3. plan.proxy[route] # "unusable"
  BY DEF Call, Ready
<1> QED
  BY <1>2, <1>3, SendInv DEF Call, Ready

\* The next call, after the wait.
LEMMA WakeInv ==
    ASSUME SeatInv, Wake
    PROVE  SeatInv'
<1>1. SeatTypeOK /\ Counts /\ Pending
  BY DEF SeatInv
<1>2. attempt < MaxAttempts /\ plan.proxy[route] # "unusable"
  BY <1>1 DEF Wake, Counts, Pending
<1>3. failure' \in Failures \cup {None}
  BY <1>1 DEF Wake, SeatTypeOK
<1> QED
  BY <1>2, <1>3, SendInv DEF Wake

\* A route whose client cannot be built.
LEMMA NoProxyInv ==
    ASSUME SeatInv, NoProxy
    PROVE  SeatInv'
<1> USE UpstreamAssumption
<1>1. SeatTypeOK
  BY DEF SeatInv
<1>2. "proxy" \in Kinds /\ "proxy" \notin FallbackKinds /\ 1 \in 0 .. MaxRetries + 1
  BY DEF Kinds, FallbackKinds
<1>3. ~ FallsBack("error", "proxy")
  BY <1>2 DEF FallsBack
<1>4. failure' \in Failures \cup {None}
  BY <1>1 DEF NoProxy, SeatTypeOK
<1> QED
  BY <1>2, <1>3, <1>4, SettleInv DEF NoProxy

\* Whatever the header holds, the wait has a bound.
LEMMA DelayBound ==
    ASSUME NEW header \in Headers, header # "nan"
    PROVE  /\ RetryAfter(header) \in 0 .. RetryAfterCap \cup {None}
           /\ \A n \in Nat : Delay(header, n) \in 0 .. RetryAfterCap \/ Delay(header, n) = Backoff * 2 ^ (n - 1)
<1>1. RetryAfter(header) \in 0 .. RetryAfterCap \cup {None}
  BY DEF RetryAfter, Headers, Seconds, RetryAfterCap
<1> QED
  BY <1>1 DEF Delay

\* The call goes to sleep before another attempt.
LEMMA SleepInv ==
    ASSUME SeatInv, pc = "calling", NEW e \in Failures, WorthRetrying(e), NEW header \in Headers, header # "nan",
           pc' = "sleeping", delay' = Delay(header, attempt), failure' = e,
           UNCHANGED <<plan, route, attempt, rows, chunks, parts, made>>
    PROVE  SeatInv'
<1> USE UpstreamAssumption
<1>0. SeatTypeOK /\ Counts /\ Shape /\ Pending /\ Booked /\ AttemptsHonest
  BY DEF SeatInv
<1>1. Classify(e) \in RetryableKinds /\ attempt < MaxAttempts
  BY DEF WorthRetrying
<1>2. attempt \in 1 .. MaxRetries
  BY <1>0, <1>1, PlanShape DEF Counts, SeatTypeOK, MaxAttempts
<1>3. delay' \in 0 .. RetryAfterCap \/ delay' = Backoff * 2 ^ (attempt - 1)
  BY <1>2, DelayBound
<1>4. SeatTypeOK'
  BY <1>0, <1>2, <1>3 DEF SeatTypeOK
<1>5. Counts'
  BY <1>0 DEF Counts, MaxAttempts
<1>6. Shape'
  BY <1>0 DEF Shape
<1>7. Pending'
  BY <1>1, <1>3 DEF Pending, MaxAttempts
<1>8. Booked'
  BY <1>0 DEF Booked
<1>9. AttemptsHonest'
  BY <1>0 DEF AttemptsHonest, Counted
<1> QED
  BY <1>4, <1>5, <1>6, <1>7, <1>8, <1>9 DEF SeatInv

\* A call that fails: the route is left, or tried again later.
LEMMA CallFailsInv ==
    ASSUME SeatInv, CallFails
    PROVE  SeatInv'
<1> USE UpstreamAssumption
<1>0. SeatTypeOK /\ Counts
  BY DEF SeatInv
<1>1. PICK e \in Failures : failure' = e /\ (GiveUp(e) \/ \E header \in Headers : Sleep(e, header))
  BY DEF CallFails
<1>2. pc = "calling" /\ UNCHANGED <<plan, chunks, parts, made>>
  BY DEF CallFails
<1>3. attempt = made[route] /\ attempt \in 0 .. MaxRetries + 1 /\ chunks \in Seq(0 .. MaxRetries + 1 \cup {None})
  BY <1>0, <1>2 DEF Counts, SeatTypeOK
<1>4. CASE GiveUp(e)
  <2>1. Classify(e) \in Kinds
    BY ClassifyDoes
  <2>2. FallsBack("error", Classify(e)) => ~ Rejected(e)
    BY WorthIt DEF FallsBack
  <2>3. Settle("error", Classify(e), attempt) /\ UNCHANGED delay
    BY <1>4 DEF GiveUp
  <2> QED
    BY <1>1, <1>2, <1>3, <2>1, <2>2, <2>3, SettleInv
<1>5. ASSUME NEW header \in Headers, Sleep(e, header)
      PROVE  SeatInv'
  <2>1. CASE header = "nan"
    <3>1. Settle("error", "unknown", 1) /\ UNCHANGED delay
      BY <1>5, <2>1 DEF Sleep
    <3>2. "unknown" \in Kinds /\ "unknown" \notin FallbackKinds /\ 1 \in 0 .. MaxRetries + 1
      BY DEF Kinds, FallbackKinds
    <3>3. ~ FallsBack("error", "unknown")
      BY <3>2 DEF FallsBack
    <3> QED
      BY <1>1, <1>2, <3>1, <3>2, <3>3, SettleInv
  <2>2. CASE header # "nan"
    <3>1. /\ WorthRetrying(e) /\ pc' = "sleeping" /\ delay' = Delay(header, attempt)
          /\ UNCHANGED <<route, attempt, rows>>
      BY <1>5, <2>2 DEF Sleep
    <3> QED
      BY <1>1, <1>2, <2>2, <3>1, SleepInv
  <2> QED
    BY <2>1, <2>2
<1> QED
  BY <1>1, <1>4, <1>5

\* An answer claims the calls of its route.
LEMMA AnsweredInv ==
    ASSUME SeatInv, Answered
    PROVE  SeatInv'
<1>0. SeatTypeOK /\ Counts
  BY DEF SeatInv
<1>1. attempt = made[route] /\ attempt \in 0 .. MaxRetries + 1 /\ failure' \in Failures \cup {None}
  BY <1>0 DEF Answered, Counts, SeatTypeOK
<1>2. ~ FallsBack("ok", None)
  BY DEF FallsBack
<1> QED
  BY <1>1, <1>2, SettleInv DEF Answered

\* An answer that cannot be read, and a timeout, are booked by the defaults.
LEMMA DefaultsInv ==
    ASSUME SeatInv, Malformed \/ Expire
    PROVE  SeatInv'
<1> USE UpstreamAssumption
<1>0. SeatTypeOK
  BY DEF SeatInv
<1>1. {"unknown", "timeout"} \subseteq Kinds /\ "unknown" \notin FallbackKinds /\ "timeout" \notin FallbackKinds
      /\ 1 \in 0 .. MaxRetries + 1
  BY DEF Kinds, FallbackKinds, RetryableKinds
<1>2. ~ FallsBack("error", "unknown")
  BY <1>1 DEF FallsBack
<1>3. failure' \in Failures \cup {None}
  BY <1>0 DEF Malformed, Expire, SeatTypeOK
<1>4. CASE Malformed
  BY <1>1, <1>2, <1>3, <1>4, SettleInv DEF Malformed
<1>5. CASE Expire
  <2> DEFINE status == IF plan.mode = "complete" THEN "timeout" ELSE "error"
  <2>1. /\ status \in {"ok", "error", "timeout"} /\ (plan.mode = "complete" => status = "timeout")
        /\ status # "ok" /\ Settle(status, "timeout", 1)
    BY <1>5 DEF Expire
  <2>2. pc \in {"new", "calling", "sleeping", "streaming"} /\ UNCHANGED <<plan, delay, chunks, parts, made>>
    BY <1>5 DEF Expire, Timed
  <2> HIDE DEF status
  <2>3. ~ FallsBack(status, "timeout")
    BY <1>1 DEF FallsBack
  <2> QED
    BY <1>1, <1>3, <2>1, <2>2, <2>3, SettleInv
<1> QED
  BY <1>4, <1>5

\* The stream is open: nothing was delivered yet.
LEMMA EstablishedInv ==
    ASSUME SeatInv, Established
    PROVE  SeatInv'
<1>0. SeatTypeOK /\ Counts /\ Shape /\ Pending /\ Booked /\ AttemptsHonest
  BY DEF SeatInv
<1>1. SeatTypeOK' /\ Counts'
  BY <1>0 DEF Established, SeatTypeOK, Counts, MaxAttempts
<1>2. Shape' /\ Pending' /\ Booked'
  BY <1>0 DEF Established, Shape, Pending, Booked
<1>3. AttemptsHonest'
  BY <1>0 DEF Established, AttemptsHonest, Counted
<1> QED
  BY <1>1, <1>2, <1>3 DEF SeatInv

\* The chunks of one part: the first of all carries the attempts.
LEMMA StampDoes ==
    ASSUME attempt \in 0 .. MaxRetries + 1, chunks \in Seq(0 .. MaxRetries + 1 \cup {None}), NEW n \in Nat,
           \A i \in DOMAIN chunks : chunks[i] = IF i = 1 THEN attempt ELSE None
    PROVE  /\ Stamp(n) \in Seq(0 .. MaxRetries + 1 \cup {None})
           /\ \A i \in DOMAIN Stamp(n) : Stamp(n)[i] = IF i = 1 THEN attempt ELSE None
<1> DEFINE S == 0 .. MaxRetries + 1 \cup {None}
<1> DEFINE more == [i \in 1 .. n |-> IF chunks = <<>> /\ i = 1 THEN attempt ELSE None]
<1>1. more \in Seq(S) /\ Len(more) = n
  BY DEF S
<1>2. \A i \in 1 .. n : more[i] = IF chunks = <<>> /\ i = 1 THEN attempt ELSE None
  OBVIOUS
<1>3. Stamp(n) = chunks \o more
  BY DEF Stamp
<1>4. chunks \in Seq(S)
  BY DEF S
<1> HIDE DEF more, S
<1>5. /\ chunks \o more \in Seq(S) /\ Len(chunks \o more) = Len(chunks) + Len(more)
      /\ \A i \in 1 .. Len(chunks) + Len(more) :
           (chunks \o more)[i] = IF i <= Len(chunks) THEN chunks[i] ELSE more[i - Len(chunks)]
  BY <1>1, <1>4, ConcatProperties
<1>6. Len(chunks) \in Nat /\ DOMAIN chunks = 1 .. Len(chunks) /\ (chunks = <<>> <=> Len(chunks) = 0)
  BY <1>4, LenProperties, EmptySeq
<1>7. DOMAIN (chunks \o more) = 1 .. Len(chunks) + n
  BY <1>1, <1>5, LenProperties
<1>8. ASSUME NEW i \in 1 .. Len(chunks) + n
      PROVE  (chunks \o more)[i] = IF i = 1 THEN attempt ELSE None
  <2>1. CASE i <= Len(chunks)
    BY <1>1, <1>5, <1>6, <2>1
  <2>2. CASE i > Len(chunks)
    <3>1. i - Len(chunks) \in 1 .. n /\ (chunks \o more)[i] = more[i - Len(chunks)]
      BY <1>1, <1>5, <1>6, <2>2
    <3>2. more[i - Len(chunks)] = IF chunks = <<>> /\ i - Len(chunks) = 1 THEN attempt ELSE None
      BY <1>2, <3>1
    <3>3. chunks = <<>> /\ i - Len(chunks) = 1 <=> i = 1
      BY <1>6, <2>2
    <3> QED
      BY <3>1, <3>2, <3>3
  <2>3. i <= Len(chunks) \/ i > Len(chunks)
    BY <1>6
  <2> QED
    BY <2>1, <2>2, <2>3
<1> QED
  BY <1>3, <1>5, <1>7, <1>8 DEF S

\* A part of the stream.
LEMMA PartInv ==
    ASSUME SeatInv, Part
    PROVE  SeatInv'
<1> USE UpstreamAssumption
<1>0. SeatTypeOK /\ Counts /\ Shape /\ Pending /\ Booked /\ AttemptsHonest
  BY DEF SeatInv
<1>1. PICK n \in Nat : chunks' = Stamp(n)
  BY DEF Part, ChunksOf
<1>2. /\ pc = "streaming" /\ parts' = parts + 1 /\ parts < MaxParts
      /\ UNCHANGED <<plan, route, pc, attempt, delay, failure, rows, made>>
  BY DEF Part
<1>3. attempt = made[route] /\ attempt \in 0 .. MaxRetries + 1 /\ plan.mode = "stream"
  BY <1>0, <1>2 DEF Counts, Shape, SeatTypeOK
<1>4. /\ chunks' \in Seq(0 .. MaxRetries + 1 \cup {None})
      /\ \A i \in DOMAIN chunks' : chunks'[i] = IF i = 1 THEN made[route] ELSE None
  <2>1. chunks \in Seq(0 .. MaxRetries + 1 \cup {None})
    BY <1>0 DEF SeatTypeOK
  <2>2. \A i \in DOMAIN chunks : chunks[i] = IF i = 1 THEN attempt ELSE None
    BY <1>0, <1>3 DEF AttemptsHonest
  <2>3. /\ Stamp(n) \in Seq(0 .. MaxRetries + 1 \cup {None})
        /\ \A i \in DOMAIN Stamp(n) : Stamp(n)[i] = IF i = 1 THEN attempt ELSE None
    BY <1>3, <2>1, <2>2, StampDoes
  <2> QED
    BY <1>1, <1>3, <2>3
<1>5. SeatTypeOK'
  <2>1. parts' \in 0 .. MaxParts
    BY <1>0, <1>2 DEF SeatTypeOK
  <2> QED
    BY <1>0, <1>2, <1>4, <2>1 DEF SeatTypeOK
<1>6. Counts' /\ Shape' /\ Pending' /\ Booked'
  BY <1>0, <1>2, <1>3 DEF Counts, Shape, Pending, Booked, MaxAttempts
<1>7. rows = <<>> \/ DOMAIN rows = {}
  <2>1. plan \in Plans /\ rows \in Seq(Rows)
    BY <1>0 DEF SeatTypeOK
  <2>2. route # "backstop"
    BY <1>0, <1>3, <2>1, PlanShape DEF Shape
  <2>3. Len(rows) = 0
    BY <1>0, <1>2, <2>2 DEF Booked
  <2> QED
    BY <2>1, <2>3, EmptySeq
<1>8. AttemptsHonest'
  <2>1. DOMAIN rows = {}
    BY <1>7, EmptySeq
  <2> QED
    BY <1>2, <1>4, <2>1 DEF AttemptsHonest
<1> QED
  BY <1>5, <1>6, <1>8 DEF SeatInv

\* The stream ends, or breaks.
LEMMA StreamEndsInv ==
    ASSUME SeatInv, StreamEnds
    PROVE  SeatInv'
<1> USE UpstreamAssumption
<1>0. SeatTypeOK /\ Counts /\ Shape /\ AttemptsHonest
  BY DEF SeatInv
<1>1. plan.mode = "stream" /\ failure' \in Failures \cup {None} /\ pc = "streaming"
  BY <1>0 DEF StreamEnds, Shape, SeatTypeOK
<1>2. attempt = made[route] /\ attempt \in 0 .. MaxRetries + 1
  BY <1>0, <1>1 DEF Counts, SeatTypeOK
<1>3. chunks # <<>> => SynthAttempts = made[route]
  <2>1. ASSUME chunks # <<>>
        PROVE  Head(chunks) = made[route]
    <3>1. chunks \in Seq(0 .. MaxRetries + 1 \cup {None})
      BY <1>0 DEF SeatTypeOK
    <3>2. Head(chunks) = chunks[1] /\ 1 \in DOMAIN chunks
      BY <2>1, <3>1, EmptySeq, LenProperties, HeadTailProperties
    <3> QED
      BY <1>0, <3>2 DEF AttemptsHonest
  <2> QED
    BY <2>1 DEF SynthAttempts
<1>4. SynthAttempts \in 0 .. MaxRetries + 1
  <2>1. CASE chunks = <<>>
    BY <2>1 DEF SynthAttempts
  <2>2. CASE chunks # <<>>
    BY <1>2, <1>3, <2>2
  <2> QED
    BY <2>1, <2>2
<1>5. ~ FallsBack("ok", None)
  BY DEF FallsBack
<1> QED
  BY <1>1, <1>3, <1>4, <1>5, SettleInv DEF StreamEnds

LEMMA StreamBreaksInv ==
    ASSUME SeatInv, StreamBreaks
    PROVE  SeatInv'
<1> USE UpstreamAssumption
<1>0. SeatTypeOK /\ Shape
  BY DEF SeatInv
<1>1. PICK e \in Failures : failure' = e /\ Settle("error", Classify(e), 1)
  BY DEF StreamBreaks
<1>2. pc = "streaming" /\ UNCHANGED <<plan, delay, chunks, parts, made>>
  BY DEF StreamBreaks
<1>3. plan.mode = "stream" /\ plan \in Plans
  BY <1>0, <1>2 DEF Shape, SeatTypeOK
<1>4. Classify(e) \in Kinds /\ 1 \in 0 .. MaxRetries + 1
  BY ClassifyDoes
<1>5. FallsBack("error", Classify(e)) => ~ Rejected(e)
  BY WorthIt DEF FallsBack
<1> QED
  BY <1>1, <1>2, <1>3, <1>4, <1>5, SettleInv

\* The consumer is gone.
LEMMA LeaveInv ==
    ASSUME SeatInv, Leave
    PROVE  SeatInv'
<1>0. SeatTypeOK /\ Counts /\ Shape /\ Pending /\ Booked /\ AttemptsHonest
  BY DEF SeatInv
<1>1. SeatTypeOK' /\ Counts'
  BY <1>0 DEF Leave, SeatTypeOK, Counts
<1>2. Shape' /\ Pending' /\ Booked'
  BY <1>0 DEF Leave, Shape, Pending, Booked
<1>3. AttemptsHonest'
  BY <1>0 DEF Leave, AttemptsHonest, Counted
<1> QED
  BY <1>1, <1>2, <1>3 DEF SeatInv

\* Every step keeps the invariant.
LEMMA SeatSteps == SeatInv /\ [SeatNext]_seatVars => SeatInv'
<1> SUFFICES ASSUME SeatInv, [SeatNext]_seatVars
             PROVE  SeatInv'
  OBVIOUS
<1>1. CASE UNCHANGED seatVars
  BY <1>1 DEF seatVars, SeatInv, SeatTypeOK, Counts, Shape, Pending, Booked, AttemptsHonest, Counted, MaxAttempts
<1> QED
  BY <1>1, CallInv, NoProxyInv, CallFailsInv, WakeInv, AnsweredInv, DefaultsInv, EstablishedInv, PartInv,
     StreamEndsInv, StreamBreaksInv, LeaveInv DEF SeatNext

LEMMA SeatInductive == SeatSpec => []SeatInv
  BY SeatStarts, SeatSteps, PTL DEF SeatSpec

(***************************************************************************)
(* The theorems                                                            *)
(***************************************************************************)
\* The seat keeps its shape: the counter of the retry loop stays within the
\* configured retries, and so do the calls made and the attempts claimed.
\* (_call_with_retries, _run_member.)
THEOREM SeatTypeCorrect == SeatSpec => []SeatTypeOK
<1>1. SeatInv => SeatTypeOK
  BY DEF SeatInv
<1> QED
  BY <1>1, SeatInductive, PTL

\* The attempts of a ledger row are the calls that were made on its route, each
\* route that was called is booked, and a stream tells its attempts once.
\* (_call_with_retries, _upstream_error, _record_member before the hop.)
THEOREM AttemptsAreHonest == SeatSpec => []AttemptsHonest
<1>1. SeatInv => AttemptsHonest
  BY DEF SeatInv
<1> QED
  BY <1>1, SeatInductive, PTL

\* A call that goes out is justified by the state it goes out in.
LEMMA SendJustified ==
    ASSUME SeatInv, Call \/ Wake, NEW r \in Routes, made'[r] > made[r]
    PROVE  /\ plan.proxy[r] # "unusable"
           /\ made[r] <= plan.retries /\ chunks = <<>>
           /\ (made[r] > 0) =>
                /\ ~ OutOfResource(failure) /\ ~ Refused(failure) /\ ~ Rejected(failure)
                /\ delay <= RetryAfterCap \/ delay = Backoff * 2 ^ (made[r] - 1)
           /\ (r = "backstop" /\ made[r] = 0) => failure # None /\ ~ Rejected(failure)
<1> USE UpstreamAssumption, NoneAssumption
<1>0. SeatTypeOK /\ Counts /\ Shape /\ Pending
  BY DEF SeatInv
<1>1. made' = [made EXCEPT ![route] = @ + 1] /\ route \in Routes /\ made \in [Routes -> 0 .. MaxRetries + 1]
  BY <1>0 DEF Call, Wake, Send, SeatTypeOK
<1>2. r = route
  BY <1>1
<1>3. pc \in {"new", "sleeping"} /\ plan.proxy[r] # "unusable" /\ plan.retries \in Nat
  BY <1>0, <1>2, PlanShape DEF Call, Wake, Ready, Counts, SeatTypeOK
<1>4. chunks = <<>>
  BY <1>0, <1>3 DEF Shape
<1>5. CASE pc = "new"
  <2>1. made[r] = 0
    BY <1>0, <1>2, <1>5 DEF Counts
  <2>2. r = "backstop" => failure \in Failures /\ ~ Rejected(failure)
    BY <1>0, <1>2, <1>5 DEF Pending
  <2> QED
    BY <1>3, <1>4, <2>1, <2>2
<1>6. CASE pc = "sleeping"
  <2>1. made[r] = attempt /\ attempt >= 1 /\ attempt <= plan.retries
    BY <1>0, <1>2, <1>3, <1>6 DEF Counts, Pending, MaxAttempts
  <2>2. /\ failure \in Failures /\ Classify(failure) \in RetryableKinds
        /\ delay \in 0 .. RetryAfterCap \/ delay = Backoff * 2 ^ (attempt - 1)
    BY <1>0, <1>6 DEF Pending
  <2>3. ~ OutOfResource(failure) /\ ~ Refused(failure) /\ ~ Rejected(failure)
    BY <2>2, WorthIt
  <2> QED
    BY <1>3, <1>4, <2>1, <2>2, <2>3
<1> QED
  BY <1>3, <1>5, <1>6

\* A call is sent only on a route whose proxy can be used, never more often
\* than configured, never again for a failure that no attempt can mend, never
\* after a chunk, and after a wait that has a bound; the backstop is called
\* only for a failure another route may mend.  (_should_retry, retry_delay,
\* _FALLBACK_KINDS in _run_member.)
THEOREM CallsAreJustified == SeatSpec => CallsJustified
<1> DEFINE A == \A r \in Routes : made'[r] > made[r] =>
        /\ plan.proxy[r] # "unusable"
        /\ made[r] <= plan.retries /\ chunks = <<>>
        /\ (made[r] > 0) =>
            /\ ~ OutOfResource(failure) /\ ~ Refused(failure) /\ ~ Rejected(failure)
            /\ delay <= RetryAfterCap \/ delay = Backoff * 2 ^ (made[r] - 1)
        /\ (r = "backstop" /\ made[r] = 0) => failure # None /\ ~ Rejected(failure)
<1>1. SeatInv /\ [SeatNext]_seatVars => [A]_seatVars
  <2> SUFFICES ASSUME SeatInv, SeatNext
               PROVE  A
    OBVIOUS
  <2>1. CASE Call \/ Wake
    BY <2>1, SendJustified
  <2>2. CASE ~ (Call \/ Wake)
    <3>1. made' = made
      BY <2>2 DEF SeatNext, NoProxy, CallFails, Answered, Malformed, Expire, Established, Part, StreamEnds,
                  StreamBreaks, Leave
    <3>2. \A r \in Routes : made[r] \in Int
      BY DEF SeatInv, SeatTypeOK
    <3> QED
      BY <3>1, <3>2
  <2> QED
    BY <2>1, <2>2
<1> QED
  BY <1>1, SeatInductive, PTL DEF SeatSpec, CallsJustified

(***************************************************************************)
(*                              THE RECORDER                               *)
(***************************************************************************)

(***************************************************************************)
(* Queues and what is on them                                              *)
(***************************************************************************)
\* A queue holds no more rows than it is long.
LEMMA RangeFinite ==
    ASSUME NEW S, NEW s \in Seq(S)
    PROVE  IsFiniteSet(Range(s)) /\ Cardinality(Range(s)) <= Len(s)
<1>1. Len(s) \in Nat /\ s \in [1..Len(s) -> S] /\ DOMAIN s = 1..Len(s)
  BY LenProperties
<1>2. s \in Surjection(1..Len(s), Range(s))
  BY <1>1 DEF Surjection, Range
<1>3. IsFiniteSet(1..Len(s)) /\ Cardinality(1..Len(s)) = Len(s)
  BY <1>1, FS_Interval
<1> QED
  BY <1>2, <1>3, FS_Surjection

\* What is on a queue is of the queue's type.
LEMMA RangeType ==
    ASSUME NEW S, NEW s \in Seq(S)
    PROVE  Range(s) \subseteq S
  BY LenProperties, ElementOfSeq DEF Range

\* A row is appended, and nothing else changes.
LEMMA RangeAppend ==
    ASSUME NEW S, NEW s \in Seq(S), NEW e \in S
    PROVE  /\ Append(s, e) \in Seq(S) /\ Len(Append(s, e)) = Len(s) + 1
           /\ Range(Append(s, e)) = Range(s) \cup {e}
<1>1. Len(s) \in Nat /\ DOMAIN s = 1..Len(s)
  BY LenProperties
<1>2. /\ Append(s, e) \in Seq(S) /\ Len(Append(s, e)) = Len(s) + 1
      /\ \A i \in 1..Len(s) : Append(s, e)[i] = s[i]
      /\ Append(s, e)[Len(s) + 1] = e
  BY AppendProperties
<1>3. DOMAIN Append(s, e) = 1..(Len(s) + 1)
  BY <1>2, LenProperties
<1> QED
  BY <1>1, <1>2, <1>3 DEF Range

\* Cutting a queue in two loses no row.
LEMMA RangeCut ==
    ASSUME NEW S, NEW s \in Seq(S), NEW n \in 0..Len(s)
    PROVE  /\ SubSeq(s, 1, n) \in Seq(S) /\ Len(SubSeq(s, 1, n)) = n
           /\ SubSeq(s, n + 1, Len(s)) \in Seq(S) /\ Len(SubSeq(s, n + 1, Len(s))) <= Len(s)
           /\ Range(s) = Range(SubSeq(s, 1, n)) \cup Range(SubSeq(s, n + 1, Len(s)))
<1>0. Len(s) \in Nat /\ n \in Nat /\ n <= Len(s)
  BY LenProperties
<1>1. Len(s) \in Nat /\ DOMAIN s = 1..Len(s) /\ n \in Nat /\ \A i \in 1..Len(s) : s[i] \in S
  BY LenProperties, ElementOfSeq
<1> DEFINE a == SubSeq(s, 1, n)
           b == SubSeq(s, n + 1, Len(s))
<1>2. a \in Seq(S) /\ Len(a) = n /\ \A i \in 1..n : a[i] = s[i]
  BY <1>1, SubSeqProperties
<1>3. b \in Seq(S) /\ Len(b) = Len(s) - n /\ \A i \in 1..(Len(s) - n) : b[i] = s[n + i]
  <2>1. \A i \in (n + 1)..Len(s) : s[i] \in S
    BY <1>1
  <2>2. /\ b \in Seq(S)
        /\ Len(b) = IF n + 1 <= Len(s) THEN Len(s) - (n + 1) + 1 ELSE 0
        /\ \A i \in 1..(Len(s) - (n + 1) + 1) : b[i] = s[(n + 1) + i - 1]
    BY <1>1, <2>1, SubSeqProperties
  <2> HIDE DEF b
  <2>3. Len(b) = Len(s) - n
    <3>1. CASE n = Len(s)
      BY <1>0, <2>2, <3>1
    <3>2. CASE n + 1 <= Len(s)
      BY <1>0, <2>2, <3>2
    <3> QED
      BY <1>0, <3>1, <3>2
  <2>4. ASSUME NEW i \in 1..(Len(s) - n)
        PROVE  b[i] = s[n + i]
    <3>1. i \in 1..(Len(s) - (n + 1) + 1) /\ (n + 1) + i - 1 = n + i
      BY <1>1
    <3>2. b[i] = s[(n + 1) + i - 1]
      BY <2>2, <3>1
    <3> QED
      BY <3>1, <3>2
  <2> QED
    BY <2>2, <2>3, <2>4
<1> HIDE DEF a, b
<1>4. DOMAIN a = 1..n /\ DOMAIN b = 1..(Len(s) - n)
  BY <1>2, <1>3, LenProperties
<1>5. ASSUME NEW i \in 1..Len(s)
      PROVE  s[i] \in Range(a) \cup Range(b)
  <2>1. CASE i <= n
    BY <1>1, <1>2, <1>4, <2>1 DEF Range
  <2>2. CASE i > n
    <3>1. i - n \in 1..(Len(s) - n) /\ b[i - n] = s[i]
      BY <1>1, <1>3, <2>2
    <3> QED
      BY <1>4, <3>1 DEF Range
  <2> QED
    BY <1>1, <2>1, <2>2
<1>6. ASSUME NEW e \in Range(a) \cup Range(b)
      PROVE  e \in Range(s)
  <2>1. CASE e \in Range(a)
    BY <1>1, <1>2, <1>4, <2>1 DEF Range
  <2>2. CASE e \in Range(b)
    <3>1. PICK i \in 1..(Len(s) - n) : e = b[i]
      BY <1>4, <2>2 DEF Range
    <3>2. n + i \in 1..Len(s) /\ e = s[n + i]
      BY <1>1, <1>3, <3>1
    <3> QED
      BY <1>1, <3>2 DEF Range
  <2> QED
    BY <1>6, <2>1, <2>2
<1>7. Range(s) = Range(a) \cup Range(b)
  BY <1>1, <1>5, <1>6 DEF Range
<1>8. Len(a) = n /\ Len(b) <= Len(s)
  BY <1>1, <1>2, <1>3
<1> QED
  BY <1>2, <1>3, <1>7, <1>8 DEF a, b

(***************************************************************************)
(* The inductive invariant                                                 *)
(***************************************************************************)
LEMMA RecorderStarts == RecorderInit => RecorderInv
<1> SUFFICES ASSUME RecorderInit
             PROVE  RecorderInv
  OBVIOUS
<1> USE RecorderAssumption DEF RecorderInit
<1>1. RecorderTypeOK
  BY DEF RecorderTypeOK
<1>2. IsFiniteSet({}) /\ Cardinality({}) = 0
  BY FS_EmptySet
<1>3. Handed
  BY <1>2 DEF Handed
<1>4. Accounted
  BY DEF Accounted, Waiting, Late
<1> QED
  BY <1>1, <1>3, <1>4 DEF RecorderInv

\* What the rows in hand belong to grows with what is recorded.
LEMMA RecordInv ==
    ASSUME RecorderInv, Record
    PROVE  RecorderInv'
<1> USE RecorderAssumption DEF dbVars, lossVars
<1>1. /\ recorded \in Nat /\ recorded' = recorded + 1 /\ recorded' \in 0..MaxRecords
      /\ UNCHANGED <<batch, writer, stop, cut, seen, dbVars>>
  BY DEF Record, RecorderInv, RecorderTypeOK
<1>2. queue \in Seq(1..recorded) /\ queue \in Seq(1..recorded') /\ Len(queue) \in Nat
  BY <1>1, SeqMonotonic, LenProperties DEF RecorderInv, RecorderTypeOK
<1>3. \/ /\ Len(queue) < MaxSize /\ queue' = Append(queue, recorded') /\ dropped' = dropped
      \/ queue' = queue /\ dropped' = dropped \cup {recorded'}
  BY DEF Record
<1>4. /\ Append(queue, recorded') \in Seq(1..recorded')
      /\ Len(Append(queue, recorded')) = Len(queue) + 1
      /\ Range(Append(queue, recorded')) = Range(queue) \cup {recorded'}
  BY <1>1, <1>2, RangeAppend
<1>5. RecorderTypeOK'
  <2>1. queue' \in Seq(1..recorded') /\ Len(queue') <= MaxSize
    BY <1>2, <1>3, <1>4 DEF RecorderInv, RecorderTypeOK
  <2>2. \A s \in {batch', open', written', dropped', cut'} : s \subseteq 1..recorded'
    BY <1>1, <1>3 DEF RecorderInv, RecorderTypeOK
  <2> QED
    BY <1>1, <2>1, <2>2 DEF RecorderInv, RecorderTypeOK
<1>6. Handed'
  BY <1>1 DEF RecorderInv, Handed
<1>7. Accounted'
  <2>1. 1..recorded' = (1..recorded) \cup {recorded'}
    BY <1>1
  <2>2. Range(queue') \cup dropped' = Range(queue) \cup dropped \cup {recorded'}
    BY <1>3, <1>4
  <2>3. Late' \subseteq Late \cup {recorded'} /\ Late \subseteq Late'
    BY <1>1 DEF Late, RecorderInv, RecorderTypeOK
  <2>4. CASE stop \in {"no", "cancelling"}
    BY <1>1, <2>1, <2>2, <2>3, <2>4 DEF RecorderInv, Accounted, Waiting, Late
  <2>5. CASE stop \notin {"no", "cancelling"}
    <3>1. recorded' \in Late'
      BY <1>1, <2>5 DEF Late, RecorderInv, RecorderTypeOK
    <3>2. /\ 1..recorded \subseteq batch \cup written \cup dropped \cup cut \cup Late
          /\ Late \subseteq Range(queue) \cup dropped
      BY <2>5 DEF RecorderInv, Accounted, Waiting
    <3>3. /\ 1..recorded' \subseteq batch' \cup written' \cup dropped' \cup cut' \cup Late'
          /\ Late' \subseteq Range(queue') \cup dropped'
      BY <1>1, <1>3, <2>1, <2>2, <2>3, <3>1, <3>2
    <3> QED
      BY <1>1, <3>3 DEF RecorderInv, Accounted
  <2> QED
    BY <2>4, <2>5
<1> QED
  BY <1>5, <1>6, <1>7 DEF RecorderInv

\* The batch is the head of the queue, and no larger than a batch may be.
LEMMA PullBatchInv ==
    ASSUME RecorderInv, PullBatch
    PROVE  RecorderInv'
<1> USE RecorderAssumption DEF dbVars, lossVars
<1>1. queue \in Seq(1..recorded) /\ Len(queue) \in Nat
  BY LenProperties DEF RecorderInv, RecorderTypeOK
<1>2. PICK n \in 0..Len(queue) :
        /\ n <= Batch
        /\ batch' = Range(SubSeq(queue, 1, n)) /\ queue' = SubSeq(queue, n + 1, Len(queue))
  <2> DEFINE n == IF Len(queue) < Batch THEN Len(queue) ELSE Batch
  <2>1. n \in 0..Len(queue) /\ n <= Batch
    BY <1>1
  <2>2. batch' = Range(SubSeq(queue, 1, n)) /\ queue' = SubSeq(queue, n + 1, Len(queue))
    BY DEF PullBatch
  <2> QED
    BY <2>1, <2>2
<1>3. /\ writer = "waiting" /\ stop = "no" /\ writer' = "executing"
      /\ UNCHANGED <<recorded, stop, dropped, cut, seen, open, written>>
  BY DEF PullBatch
<1>4. /\ SubSeq(queue, 1, n) \in Seq(1..recorded) /\ Len(SubSeq(queue, 1, n)) = n
      /\ queue' \in Seq(1..recorded) /\ Len(queue') <= Len(queue)
      /\ Range(queue) = batch' \cup Range(queue')
  BY <1>1, <1>2, RangeCut
<1>5. IsFiniteSet(batch') /\ Cardinality(batch') <= n
  BY <1>2, <1>4, RangeFinite
<1>6. batch' \subseteq 1..recorded
  BY <1>2, <1>4, RangeType
<1>7. RecorderTypeOK'
  BY <1>1, <1>3, <1>4, <1>6, LenProperties DEF RecorderInv, RecorderTypeOK
<1>8. Handed'
  <2>1. Cardinality(batch') \in Nat /\ n \in Nat
    BY <1>1, <1>5, FS_CardinalityType
  <2>2. Cardinality(batch') <= Batch
    BY <1>2, <1>5, <2>1
  <2> QED
    BY <1>3, <1>5, <2>2 DEF RecorderInv, Handed
<1>9. Accounted'
  BY <1>3, <1>4 DEF RecorderInv, Accounted, Handed, Waiting, Late
<1> QED
  BY <1>7, <1>8, <1>9 DEF RecorderInv

\* The flush takes all the queue has, when the task has nothing in its hands.
LEMMA FlushInv ==
    ASSUME RecorderInv, Flush
    PROVE  RecorderInv'
<1> USE RecorderAssumption DEF dbVars, lossVars
<1>1. queue \in Seq(1..recorded) /\ Range(queue) \subseteq 1..recorded
  BY RangeType DEF RecorderInv, RecorderTypeOK
<1>2. /\ stop = "cancelling" /\ writer = "ended" /\ batch = {}
      /\ stop' = IF queue = <<>> THEN "flushed" ELSE "executing"
      /\ batch' = Range(queue) /\ queue' = <<>>
      /\ seen' = recorded
      /\ UNCHANGED <<recorded, writer, dropped, cut, open, written>>
  BY DEF Flush, RecorderInv, Handed
<1>3. Range(<<>>) = {} /\ <<>> \in Seq(1..recorded) /\ Len(<<>>) = 0
  BY DEF Range
<1>4. RecorderTypeOK'
  BY <1>1, <1>2, <1>3 DEF RecorderInv, RecorderTypeOK
<1>5. Handed'
  <2>1. Len(queue) \in Nat /\ Len(queue) <= MaxSize
    BY LenProperties DEF RecorderInv, RecorderTypeOK
  <2>2. IsFiniteSet(batch') /\ Cardinality(batch') <= Len(queue)
    BY <1>1, <1>2, RangeFinite
  <2>3. Cardinality(batch') \in Nat
    BY <2>2, FS_CardinalityType
  <2>4. IsFiniteSet(batch') /\ Cardinality(batch') <= MaxSize
    BY <2>1, <2>2, <2>3
  <2>5. queue = <<>> => batch' = {}
    BY <1>2, <1>3
  <2> QED
    BY <1>2, <2>4, <2>5 DEF RecorderInv, Handed
<1>6. Accounted'
  <2>1. Late' = {} /\ Waiting = Range(queue) /\ Late = {}
    BY <1>2 DEF Late, Waiting, RecorderInv, RecorderTypeOK
  <2>2. 1..recorded \subseteq Range(queue) \cup written \cup dropped \cup cut
    BY <1>2, <2>1 DEF RecorderInv, Accounted
  <2>3. queue = <<>> => batch' = {}
    BY <1>2, <1>3
  <2>4. Cardinality(cut) <= Batch
    BY <1>2 DEF RecorderInv, Handed
  <2> QED
    BY <1>2, <2>1, <2>2, <2>3, <2>4 DEF RecorderInv, Accounted
<1> QED
  BY <1>4, <1>5, <1>6 DEF RecorderInv

\* What the task writes is committed with the transaction it is in, or dropped.
LEMMA WriteInv ==
    ASSUME RecorderInv, Execute \/ Commit \/ InsertFails \/ Resume
    PROVE  RecorderInv'
<1> USE RecorderAssumption DEF Execute, Commit, InsertFails, Resume, dbVars, lossVars
<1>1. RecorderTypeOK'
  BY DEF RecorderInv, RecorderTypeOK
<1>2. Handed'
  BY DEF RecorderInv, Handed, RecorderTypeOK
<1>3. Accounted'
  BY DEF RecorderInv, Accounted, Handed, RecorderTypeOK, Waiting, Late
<1> QED
  BY <1>1, <1>2, <1>3 DEF RecorderInv

\* The task is cut off once, with the one batch it has.
LEMMA CancelInv ==
    ASSUME RecorderInv, Stop \/ TaskCancelled
    PROVE  RecorderInv'
<1> USE RecorderAssumption DEF Stop, TaskCancelled, dbVars, lossVars
<1>1. RecorderTypeOK'
  BY DEF RecorderInv, RecorderTypeOK
<1>2. Handed'
  BY DEF RecorderInv, Handed, RecorderTypeOK
<1>3. Accounted'
  BY DEF RecorderInv, Accounted, Handed, RecorderTypeOK, Waiting, Late
<1> QED
  BY <1>1, <1>2, <1>3 DEF RecorderInv

\* The flush commits what it has or loses it, and the store is closed after.
LEMMA CloseInv ==
    ASSUME RecorderInv, FlushExecute \/ FlushCommit \/ FlushFails \/ CloseStore
    PROVE  RecorderInv'
<1> USE RecorderAssumption DEF FlushExecute, FlushCommit, FlushFails, CloseStore, dbVars, lossVars
<1>1. RecorderTypeOK'
  BY DEF RecorderInv, RecorderTypeOK
<1>2. CASE FlushFails
  <2>1. /\ stop \in {"executing", "committing"} /\ stop' = "failed"
        /\ cut' = cut \cup batch /\ batch' = {}
        /\ UNCHANGED <<recorded, queue, writer, dropped, seen, open, written>>
    BY <1>2
  <2>2. /\ IsFiniteSet(cut) /\ Cardinality(cut) <= Batch
        /\ IsFiniteSet(batch) /\ Cardinality(batch) <= MaxSize
    BY <2>1 DEF RecorderInv, Handed
  <2>3. /\ Cardinality(cut) \in Nat /\ Cardinality(batch) \in Nat
        /\ Cardinality(cut \cap batch) \in Nat
    BY <2>2, FS_CardinalityType, FS_Intersection
  <2>4. /\ IsFiniteSet(cut')
        /\ Cardinality(cut') = Cardinality(cut) + Cardinality(batch) - Cardinality(cut \cap batch)
    BY <2>1, <2>2, FS_Union
  <2>5. Cardinality(cut') <= Batch + MaxSize
    BY <2>2, <2>3, <2>4
  <2>6. Handed'
    BY <2>1, <2>4 DEF RecorderInv, Handed
  <2>7. Accounted'
    BY <2>1, <2>5 DEF RecorderInv, Accounted, Waiting, Late
  <2> QED
    BY <1>1, <2>6, <2>7 DEF RecorderInv
<1>3. CASE FlushExecute \/ FlushCommit \/ CloseStore
  <2>1. Handed'
    BY <1>3 DEF RecorderInv, Handed, RecorderTypeOK
  <2>2. Accounted'
    BY <1>3 DEF RecorderInv, Accounted, Handed, RecorderTypeOK, Waiting, Late
  <2> QED
    BY <1>1, <2>1, <2>2 DEF RecorderInv
<1> QED
  BY <1>2, <1>3

LEMMA RecorderSteps == RecorderInv /\ [RecorderNext]_recorderVars => RecorderInv'
<1>1. ASSUME RecorderInv, UNCHANGED recorderVars
      PROVE  RecorderInv'
  BY <1>1 DEF recorderVars, dbVars, lossVars, RecorderInv, RecorderTypeOK, Handed, Accounted, Waiting, Late
<1> QED
  BY <1>1, RecordInv, PullBatchInv, FlushInv, WriteInv, CancelInv, CloseInv
     DEF RecorderNext, Task, Closing

LEMMA RecorderInductive == RecorderSpec => []RecorderInv
  BY RecorderStarts, RecorderSteps, PTL DEF RecorderSpec

(***************************************************************************)
(* What follows for every instance                                         *)
(***************************************************************************)
\* Every variable of the recorder keeps its type, and the queue its limit.
THEOREM RecorderTypeCorrect == RecorderSpec => []RecorderTypeOK
<1>1. RecorderInv => RecorderTypeOK
  BY DEF RecorderInv
<1> QED
  BY RecorderInductive, <1>1, PTL

\* Every row ever recorded will be read from the queue, is being written, is
\* written or counted as dropped, however many writes fail.  A shutdown alone
\* loses rows unsaid: the batch it interrupts, those of a flush that fails, and
\* those recorded after the flush took the queue (store/metrics.py:350, 376).
THEOREM RowsAccounted == RecorderSpec => []Accounted
<1>1. RecorderInv => Accounted
  BY DEF RecorderInv
<1> QED
  BY RecorderInductive, <1>1, PTL
===============================================================================
