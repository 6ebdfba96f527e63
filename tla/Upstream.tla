------------------------------ MODULE Upstream ------------------------------
(***************************************************************************)
(* One seat of a plan as the adapter calls it: the retry loop over a       *)
(* provider that fails in every shape litellm gives to a failure, the      *)
(* proxy a model must go through, the one hop to the backstop route of a   *)
(* panel member, the stream of the synthesizer, and the timers around both *)
(* (every call that is planned has one).                                   *)
(*                                                                         *)
(* `made` counts the calls that really went out.  It is what the ledger    *)
(* rows and the attempts they claim are compared with.                     *)
(***************************************************************************)
EXTENDS Integers, Sequences

CONSTANTS MaxRetries,   \* the largest `retries` of a plan
          Backoff,      \* retry_backoff_seconds
          MaxParts,     \* bound: the parts a stream sends
          None

ASSUME UpstreamAssumption ==
    /\ MaxRetries \in Nat /\ Backoff \in Nat \ {0} /\ MaxParts \in Nat

VARIABLES plan,      \* what the seat asks for
          route,     \* "primary" or "backstop"
          pc,        \* "new", "calling", "sleeping", "streaming", "settled" or "left"
          attempt,   \* the retry loop's counter
          delay,     \* how long it sleeps
          failure,   \* the last exception of this route
          chunks,    \* the attempts each chunk carries; None after the first
          parts,     \* how many parts the provider has sent
          rows,      \* the ledger: one row for each route that was left
          made       \* calls sent, by route

seatVars == <<plan, route, pc, attempt, delay, failure, chunks, parts, rows, made>>

Routes == {"primary", "backstop"}

(***************************************************************************)
(* What an exception shows of itself: its litellm class, or a status code, *)
(* or only the name of its class; and what its text gives away.            *)
(***************************************************************************)
ByClass ==
    [Timeout |-> "timeout", RateLimitError |-> "rate_limit",
     AuthenticationError |-> "auth", PermissionDeniedError |-> "auth",
     ContextWindowExceededError |-> "context_length", ContentPolicyViolationError |-> "content_filter",
     APIConnectionError |-> "connection", InternalServerError |-> "server_error",
     ServiceUnavailableError |-> "server_error", BadRequestError |-> "bad_request"]

ByStatus ==
    [n \in {400, 401, 402, 403, 408, 422, 429, 503} |->
       CASE n \in {401, 403} -> "auth"
         [] n = 402 -> "quota"
         [] n = 408 -> "timeout"
         [] n = 429 -> "rate_limit"
         [] n \in {400, 422} -> "bad_request"
         [] n = 503 -> "server_error"]

ByName ==
    [ReadTimeout |-> "timeout", RateLimited |-> "rate_limit", NotAuthenticated |-> "auth",
     ContextLength |-> "context_length", ContentFilter |-> "content_filter",
     ConnectionReset |-> "connection", InvalidRequest |-> "bad_request",
     InternalServer |-> "server_error"]

Failure(class, status, name, text) ==
    [class |-> class, status |-> status, name |-> name, text |-> text]

\* Who is told by the class, by the status (whatever the name), or by the name
\* when the ladder does not know the status (404); an exception may show
\* nothing at all.  Only what says "bad request" may be a broken stream.
Signs ==
    {<<c, None, None>> : c \in DOMAIN ByClass} \cup {<<None, n, None>> : n \in DOMAIN ByStatus}
        \cup {<<None, 404, n>> : n \in DOMAIN ByName \cup {None}}
        \cup {<<None, None, "ConnectionReset">>, <<None, 401, "ReadTimeout">>}
Failures ==
    {Failure(s[1], s[2], s[3], t) : s \in Signs, t \in {"plain", "exhausted"}}
        \cup {Failure("BadRequestError", None, None, "truncated"),
              Failure(None, 400, None, "truncated"), Failure(None, None, "InvalidRequest", "truncated")}

ASSUME NoneAssumption ==
    None \notin DOMAIN ByClass /\ None \notin DOMAIN ByStatus /\ None \notin Failures

\* A request is only at fault when the text does not speak of a broken stream.
Fault(kind, e) == IF kind = "bad_request" /\ e.text = "truncated" THEN "connection" ELSE kind

\* Mutant of Classify: the text is asked after the class, as a last resort.
ClassifyByClassFirst(e) ==
    CASE e.class # None                                -> Fault(ByClass[e.class], e)
      [] e.class = None /\ e.status \in DOMAIN ByStatus -> Fault(ByStatus[e.status], e)
      [] e.class = None /\ e.status \notin DOMAIN ByStatus /\ e.name # None -> Fault(ByName[e.name], e)
      [] OTHER -> IF e.text = "exhausted" THEN "quota" ELSE "unknown"

Classify(e) ==
    CASE e.text = "exhausted"           -> "quota"
      [] e.text # "exhausted" /\ e.class # None -> Fault(ByClass[e.class], e)
      [] e.text # "exhausted" /\ e.class = None /\ e.status \in DOMAIN ByStatus
                                        -> Fault(ByStatus[e.status], e)
      [] e.text # "exhausted" /\ e.class = None /\ e.status \notin DOMAIN ByStatus /\ e.name # None
                                        -> Fault(ByName[e.name], e)
      [] OTHER                          -> "unknown"

RetryableKinds == {"rate_limit", "connection", "server_error", "timeout"}
FallbackKinds == {"quota", "auth", "connection", "server_error", "rate_limit"}

(***************************************************************************)
(* Waiting between two attempts                                            *)
(***************************************************************************)
RetryAfterCap == 30

\* What a Retry-After header holds: nothing or what no number can be read
\* from (None), seconds, or "nan", which float() reads, which is not below
\* zero, and which min() keeps.
Seconds == [negative |-> -1, soon |-> 1, late |-> 120]
Headers == DOMAIN Seconds \cup {None, "nan"}

RetryAfter(header) ==
    IF header \in {None, "negative"} THEN None
    ELSE IF Seconds[header] < RetryAfterCap THEN Seconds[header] ELSE RetryAfterCap

Delay(header, n) == IF RetryAfter(header) = None THEN Backoff * 2 ^ (n - 1) ELSE RetryAfter(header)

(***************************************************************************)
(* Seats                                                                   *)
(***************************************************************************)
\* A proxy that is configured is usable when its variable holds an http(s) URL
\* with a host: unset and malformed are the same refusal.
Proxies == {"none", "unusable", "valid"}

\* A panel member is one complete() under wait_for; the synthesizer is a stream,
\* each chunk of which is waited for under a timer.  Only members have a backstop.
Plans ==
    [mode : {"complete"}, api : {"chat", "responses"}, retries : 0 .. MaxRetries,
     proxy : [Routes -> Proxies], backstop : BOOLEAN]
        \cup
    [mode : {"stream"}, api : {"chat", "responses"}, retries : 0 .. MaxRetries,
     proxy : {[r \in Routes |-> p] : p \in Proxies}, backstop : {FALSE}]

MaxAttempts == plan.retries + 1

SeatInit ==
    /\ plan \in Plans
    /\ route = "primary" /\ pc = "new"
    /\ attempt = 0 /\ delay = 0 /\ failure = None
    /\ chunks = <<>> /\ parts = 0
    /\ rows = <<>>
    /\ made = [r \in Routes |-> 0]

Row(status, kind, n) == [route |-> route, status |-> status, kind |-> kind, attempts |-> n]

FallsBack(status, kind) ==
    /\ plan.backstop /\ route = "primary"
    /\ status = "error" /\ kind \in FallbackKinds

\* Mutant of Settle: the dead route leaves no row behind.
SettleUnrecorded(status, kind, n) ==
    IF FallsBack(status, kind)
    THEN /\ route' = "backstop" /\ pc' = "new" /\ attempt' = 0
         /\ UNCHANGED rows
    ELSE /\ pc' = "settled" /\ rows' = Append(rows, Row(status, kind, n))
         /\ UNCHANGED <<route, attempt>>

\* The outcome is booked; a member whose route has failed starts afresh on its
\* backstop, with a client, a retry loop and a timeout of its own.
Settle(status, kind, n) ==
    /\ rows' = Append(rows, Row(status, kind, n))
    /\ IF FallsBack(status, kind)
       THEN route' = "backstop" /\ pc' = "new" /\ attempt' = 0
       ELSE pc' = "settled" /\ UNCHANGED <<route, attempt>>

(***************************************************************************)
(* The call                                                                *)
(***************************************************************************)
Send ==
    /\ pc' = "calling"
    /\ attempt' = attempt + 1
    /\ made' = [made EXCEPT ![route] = @ + 1]

Ready == pc = "new" /\ plan.proxy[route] \in {"none", "valid"}

Call ==
    /\ Ready
    /\ Send
    /\ failure' = None
    /\ UNCHANGED <<plan, route, delay, chunks, parts, rows>>

\* The client of a proxied model cannot be built: no call is made, and the
\* error claims the one attempt every error has by default.
NoProxy ==
    /\ pc = "new" /\ plan.proxy[route] = "unusable"
    /\ Settle("error", "proxy", 1)
    /\ UNCHANGED <<plan, delay, failure, chunks, parts, made>>

\* Mutant of WorthRetrying: one attempt too many.
WorthRetryingOnce(e) == Classify(e) \in RetryableKinds /\ attempt <= MaxAttempts

WorthRetrying(e) == Classify(e) \in RetryableKinds /\ attempt < MaxAttempts

GiveUp(e) ==
    /\ ~ WorthRetrying(e)
    /\ Settle("error", Classify(e), attempt)
    /\ UNCHANGED delay

\* asyncio.sleep of a delay that is not a number raises, out of the retry loop
\* and past its classification.
Sleep(e, header) ==
    /\ WorthRetrying(e)
    /\ IF header = "nan"
       THEN Settle("error", "unknown", 1) /\ UNCHANGED delay
       ELSE /\ pc' = "sleeping" /\ delay' = Delay(header, attempt)
            /\ UNCHANGED <<route, attempt, rows>>

CallFails ==
    /\ pc = "calling"
    /\ \E e \in Failures :
        /\ failure' = e
        /\ \/ GiveUp(e)
           \/ \E header \in Headers : Sleep(e, header)
    /\ UNCHANGED <<plan, chunks, parts, made>>

Wake ==
    /\ pc = "sleeping"
    /\ Send
    /\ delay' = 0
    /\ UNCHANGED <<plan, route, failure, chunks, parts, rows>>

Answered ==
    /\ pc = "calling" /\ plan.mode = "complete"
    /\ Settle("ok", None, attempt)
    /\ UNCHANGED <<plan, delay, failure, chunks, parts, made>>

\* A Chat answer without choices is read past its end, outside the retry loop:
\* a plain exception, for which the member is booked by the defaults.
Malformed ==
    /\ pc = "calling" /\ plan.mode = "complete" /\ plan.api = "chat"
    /\ Settle("error", "unknown", 1)
    /\ UNCHANGED <<plan, delay, failure, chunks, parts, made>>

\* Mutant of Timed: only the first route runs under wait_for.
TimedPrimary == pc \in {"calling", "sleeping", "streaming"} /\ route = "primary"

\* Mutant of Timed: the timer of a stream ends when the stream is open.
TimedOpening == pc \in {"calling", "sleeping"}

\* The first chunk is waited for while the stream is being opened, which is what
\* the calls and the sleeps of its retry loop are.
Timed == pc \in {"calling", "sleeping", "streaming"}

\* wait_for cancels whatever the call is waiting for, the sleep between two
\* attempts included, and so does the timer around the wait for a chunk; both
\* are booked by the defaults and end the seat.
Expire ==
    /\ Timed
    /\ Settle(IF plan.mode = "complete" THEN "timeout" ELSE "error", "timeout", 1)
    /\ UNCHANGED <<plan, delay, failure, chunks, parts, made>>

(***************************************************************************)
(* The stream of the synthesizer                                           *)
(***************************************************************************)
Established ==
    /\ pc = "calling" /\ plan.mode = "stream"
    /\ pc' = "streaming"
    /\ UNCHANGED <<plan, route, attempt, delay, failure, chunks, parts, rows, made>>

\* How many chunks a part becomes.  A Chat part holds fragments of several
\* calls, one chunk each, and one more chunk for what else it has; an event of
\* a Responses stream is one chunk or is skipped (response.failed is).
ChunksOf(api) == IF api = "chat" THEN 0 .. 3 ELSE 0 .. 1

\* The first chunk of all carries the attempts it took to establish the stream.
Stamp(n) == chunks \o [i \in 1 .. n |-> IF chunks = <<>> /\ i = 1 THEN attempt ELSE None]

Part ==
    /\ pc = "streaming" /\ parts < MaxParts
    /\ parts' = parts + 1
    /\ \E n \in ChunksOf(plan.api) : chunks' = Stamp(n)
    /\ UNCHANGED <<plan, route, pc, attempt, delay, failure, rows, made>>

\* What run_ensemble books for the synthesizer: 1 until a chunk says otherwise.
SynthAttempts == IF chunks = <<>> THEN 1 ELSE Head(chunks)

StreamEnds ==
    /\ pc = "streaming"
    /\ Settle("ok", None, SynthAttempts)
    /\ UNCHANGED <<plan, delay, failure, chunks, parts, made>>

\* Never retried, and reported as one attempt.
StreamBreaks ==
    /\ pc = "streaming"
    /\ \E e \in Failures :
        /\ failure' = e
        /\ Settle("error", Classify(e), 1)
    /\ UNCHANGED <<plan, delay, chunks, parts, made>>

\* The consumer cancels the call or closes the stream.
Leave ==
    /\ pc \in {"calling", "sleeping", "streaming"}
    /\ pc' = "left"
    /\ UNCHANGED <<plan, route, attempt, delay, failure, chunks, parts, rows, made>>

SeatNext ==
    \/ Call \/ NoProxy \/ CallFails \/ Wake \/ Answered \/ Malformed \/ Expire
    \/ Established \/ Part \/ StreamEnds \/ StreamBreaks
    \/ Leave

\* The event loop runs what is ready and fires the timers: a sleep ends, a
\* timeout fires, the one of a stream after its last part.  Nothing is asked of
\* the provider.
SeatSpec == SeatInit /\ [][SeatNext]_seatVars
SeatFairSpec == SeatSpec /\ WF_seatVars(Call \/ NoProxy \/ Wake) /\ WF_seatVars(Expire)

(***************************************************************************)
(* Properties                                                              *)
(***************************************************************************)
Kinds == RetryableKinds \cup FallbackKinds \cup
           {"context_length", "content_filter", "bad_request", "unknown", "proxy"}
Rows  == [route : Routes, status : {"ok", "error", "timeout"},
          kind : Kinds \cup {None}, attempts : 0 .. MaxRetries + 1]

SeatTypeOK ==
    /\ plan \in Plans /\ route \in Routes
    /\ pc \in {"new", "calling", "sleeping", "streaming", "settled", "left"}
    /\ attempt \in 0 .. MaxRetries + 1
    /\ delay \in 0 .. RetryAfterCap \cup {Backoff * 2 ^ (n - 1) : n \in 1 .. MaxRetries}
    /\ failure \in Failures \cup {None}
    /\ chunks \in Seq(0 .. MaxRetries + 1 \cup {None}) /\ parts \in 0 .. MaxParts
    /\ rows \in Seq(Rows)
    /\ made \in [Routes -> 0 .. MaxRetries + 1]

\* What a failure says of its cause, whatever class it wears.
OutOfResource(e) == e.text = "exhausted" \/ (e.class = None /\ e.status = 402)
Refused(e) == e.class \in {"AuthenticationError", "PermissionDeniedError"} \/ e.status \in {401, 403}
Rejected(e) ==
    /\ ~ OutOfResource(e)
    /\ \/ e.class \in {"ContextWindowExceededError", "ContentPolicyViolationError"}
       \/ /\ e.text # "truncated"
          /\ e.class = "BadRequestError" \/ e.status \in {400, 422}

\* The outcomes that carry a count of their own.  The others (a timeout, a
\* broken stream, an answer that cannot be read, a delay that is no number, a
\* client that was not built) are booked with the one attempt of the defaults.
Counted(row) ==
    IF plan.mode = "complete"
    THEN row.status # "timeout" /\ row.kind \notin {"unknown", "proxy"}
    ELSE row.status = "ok" /\ chunks # <<>>

\* The ledger has a row for each route a call went out by, the attempts of a
\* row are the calls that were made on that route, and a stream says so on its
\* first chunk and only there.  (_call_with_retries, _upstream_error, the
\* stamps, and _record_member before the hop.)
AttemptsHonest ==
    /\ \A n \in DOMAIN rows : Counted(rows[n]) => rows[n].attempts = made[rows[n].route]
    /\ \A n \in DOMAIN chunks : chunks[n] = IF n = 1 THEN made[route] ELSE None
    /\ pc = "settled" => \A r \in Routes : made[r] > 0 => \E n \in DOMAIN rows : rows[n].route = r

\* A model whose proxy cannot be used is not called at all.  (_proxy_client.)
\* A call is sent again only for a failure another attempt can mend: never for
\* an account out of resource or a refused credential, never for a request the
\* provider has rejected (which no other route is tried for either), never
\* after a chunk was delivered, and never more often than configured; no wait
\* between two calls is longer than the cap or the doubled backoff.
CallsJustified ==
    [][\A r \in Routes : made'[r] > made[r] =>
        /\ plan.proxy[r] # "unusable"
        /\ made[r] <= plan.retries /\ chunks = <<>>
        /\ (made[r] > 0) =>
            /\ ~ OutOfResource(failure) /\ ~ Refused(failure) /\ ~ Rejected(failure)
            /\ delay <= RetryAfterCap \/ delay = Backoff * 2 ^ (made[r] - 1)
        /\ (r = "backstop" /\ made[r] = 0) => failure # None /\ ~ Rejected(failure)]_seatVars

\* A seat that was called is answered for even if no provider ever answers: a
\* member on either route, and a stream whose provider goes silent before it is
\* open or after any part.  (wait_for in _run_member, entered again for the hop;
\* _stream_with_timeout.)
SeatSettles == (pc # "new") ~> (pc \in {"settled", "left"})

(***************************************************************************)
(* The inductive invariant behind the safety properties                    *)
(***************************************************************************)
\* The counter of the retry loop is the number of calls sent on this route; a
\* route is called only when its proxy can be used, and the backstop last.
Counts ==
    /\ pc = "new" => attempt = 0 /\ made[route] = 0
    /\ pc \in {"calling", "sleeping", "streaming"} =>
         /\ attempt = made[route] /\ attempt \in 1 .. MaxAttempts
         /\ plan.proxy[route] # "unusable"
    /\ route = "primary" => made["backstop"] = 0

\* Only a stream has chunks, and only a member a backstop.
Shape ==
    /\ route = "backstop" => plan.backstop
    /\ pc = "streaming" => plan.mode = "stream"
    /\ chunks # <<>> => plan.mode = "stream" /\ pc \in {"streaming", "settled", "left"}

\* What a sleep, and a hop to the backstop, are for.
Pending ==
    /\ pc = "sleeping" =>
         /\ failure \in Failures /\ Classify(failure) \in RetryableKinds
         /\ attempt < MaxAttempts
         /\ delay \in 0 .. RetryAfterCap \/ delay = Backoff * 2 ^ (attempt - 1)
    /\ route = "backstop" /\ pc = "new" => failure \in Failures /\ ~ Rejected(failure)

\* The ledger has the rows of the routes that were left, in their order.
Booked ==
    /\ Len(rows) = (IF route = "backstop" THEN 1 ELSE 0) + (IF pc = "settled" THEN 1 ELSE 0)
    /\ \A n \in DOMAIN rows : rows[n].route = IF n = 1 THEN "primary" ELSE "backstop"

SeatInv ==
    /\ SeatTypeOK
    /\ Counts
    /\ Shape
    /\ Pending
    /\ Booked
    /\ AttemptsHonest
=============================================================================
