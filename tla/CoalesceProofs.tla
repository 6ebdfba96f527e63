--------------------------- MODULE CoalesceProofs ---------------------------
(***************************************************************************)
(* Proofs about Coalesce for any callers, identities, events and caps.     *)
(***************************************************************************)
EXTENDS Coalesce, SequenceTheorems, TLAPS

-----------------------------------------------------------------------------
(* Queues                                                                  *)

\* An event appended to the queue is appended to what the caller is owed.
LEMMA OwedAppend ==
  ASSUME NEW S, NEW s \in Seq(S), NEW t \in Seq(S), NEW e \in S
  PROVE  s \o Append(t, e) = Append(s \o t, e)
<1>1. s \o t \in Seq(S)
  BY ConcatProperties
<1>2. <<e>> \in Seq(S)
  OBVIOUS
<1>3. Append(t, e) = t \o <<e>> /\ Append(s \o t, e) = (s \o t) \o <<e>>
  BY <1>1, AppendIsConcat
<1> QED
  BY <1>2, <1>3, ConcatAssociative

\* Taking the head of the queue leaves what the caller was given and is owed
\* unchanged, and the head is the event that follows the ones it has.
LEMMA OwedTake ==
  ASSUME NEW S, NEW s \in Seq(S), NEW t \in Seq(S), t # <<>>
  PROVE  /\ Append(s, Head(t)) \o Tail(t) = s \o t
         /\ Len(s) < Len(s \o t)
         /\ (s \o t)[Len(s) + 1] = Head(t)
<1>1. Head(t) \in S /\ Tail(t) \in Seq(S) /\ t = <<Head(t)>> \o Tail(t)
  BY HeadTailProperties
<1>2. Append(s, Head(t)) = s \o <<Head(t)>>
  BY <1>1, AppendIsConcat
<1>3. (s \o <<Head(t)>>) \o Tail(t) = s \o (<<Head(t)>> \o Tail(t))
  BY <1>1, ConcatAssociative
<1>4. Append(s, Head(t)) \o Tail(t) = s \o t
  BY <1>1, <1>2, <1>3
<1>5. Len(t) \in Nat \ {0}
  BY EmptySeq
<1>6. Len(s) < Len(s \o t)
  BY <1>5, ConcatProperties, LenProperties
<1>7. (s \o t)[Len(s) + 1] = Head(t)
  BY <1>5, ConcatProperties, LenProperties
<1> QED
  BY <1>4, <1>6, <1>7

\* When what was given is as long as all there is, nothing is owed.
LEMMA OwedNothing ==
  ASSUME NEW S, NEW s \in Seq(S), NEW t \in Seq(S), Len(s \o t) = Len(s)
  PROVE  s \o t = s
<1>1. Len(s) \in Nat /\ Len(t) \in Nat /\ Len(s \o t) = Len(s) + Len(t)
  BY ConcatProperties, LenProperties
<1>2. Len(t) = 0
  BY <1>1
<1>3. t = <<>>
  BY <1>2, EmptySeq
<1> QED
  BY <1>3, ConcatEmptySeq

-----------------------------------------------------------------------------
(* Types                                                                   *)

LEMMA InitType == Init => TypeOK
  BY CoalesceAssumption DEF Init, TypeOK, Stages, Clients, Events

LEMMA StepType == TypeOK /\ [Next]_vars => TypeOK'
<1> SUFFICES ASSUME TypeOK, [Next]_vars
             PROVE  TypeOK'
  OBVIOUS
<1> USE CoalesceAssumption DEF TypeOK, Stages, Clients, Events, Terminals
<1>1. ASSUME NEW c \in Callers, Join(c)
      PROVE  TypeOK'
  BY <1>1 DEF Join, Joinable, Subscribe
<1>2. ASSUME NEW c \in Callers, Lead(c)
      PROVE  TypeOK'
  BY <1>2 DEF Lead, Joinable, Subscribe
<1>3. ASSUME NEW c \in Callers, Start(c)
      PROVE  TypeOK'
  BY <1>3 DEF Start, runVars
<1>4. ASSUME NEW c \in Callers, Receive(c)
      PROVE  TypeOK'
  <2>1. inbox[c] \in Seq(Events) /\ inbox[c] # <<>>
    BY <1>4 DEF Receive
  <2>2. Head(inbox[c]) \in Events /\ Tail(inbox[c]) \in Seq(Events)
    BY <2>1, HeadTailProperties
  <2>3. Append(seen[c], Head(inbox[c])) \in Seq(Events)
    BY <2>2, AppendProperties
  <2>4. seen' \in [Callers -> Seq(Events)] /\ inbox' \in [Callers -> Seq(Events)]
    BY <1>4, <2>2, <2>3 DEF Receive
  <2>5. CASE Head(inbox[c]) \in Terminals
    <3>1. client' = [client EXCEPT ![c] = "answered"] /\ Detach(c)
      BY <1>4, <2>5 DEF Receive
    <3> QED
      BY <2>4, <3>1 DEF Detach
  <2>6. CASE Head(inbox[c]) \notin Terminals
    BY <1>4, <2>4, <2>6 DEF Receive, runVars
  <2> QED
    BY <2>5, <2>6
<1>5. ASSUME NEW c \in Callers, ReceiveSentinel(c)
      PROVE  TypeOK'
  BY <1>5 DEF ReceiveSentinel, Detach
<1>6. ASSUME NEW c \in Callers, Leave(c)
      PROVE  TypeOK'
  BY <1>6 DEF Leave, Detach
<1>7. ASSUME NEW c \in Callers, Vanish(c)
      PROVE  TypeOK'
  BY <1>7 DEF Vanish, runVars
<1>8. ASSUME NEW r \in Callers, NEW e \in Deltas, Produce(r, e)
      PROVE  TypeOK'
  <2>1. /\ history' \in [Callers -> Seq(Events)]
        /\ inbox' \in [Callers -> Seq(Events)]
    <3>1. history' \in [Callers -> Seq(Events)]
      BY <1>8, SMTT(20) DEF Produce, Broadcast
    <3>2. inbox' \in [Callers -> Seq(Events)]
      BY <1>8, SMTT(20) DEF Produce, Broadcast
    <3> QED
      BY <3>1, <3>2
  <2>2. /\ buffered' \in [Callers -> Nat]
        /\ runs' \in [Keys -> Callers \union {None}]
    BY <1>8 DEF Produce
  <2>3. UNCHANGED <<stage, terminal, subscribers, grace, client, leader, sentinel, seen>>
    BY <1>8 DEF Produce
  <2>4. QED  BY <2>1, <2>2, <2>3
<1>9. ASSUME NEW r \in Callers, NEW e \in Terminals, Finish(r, e)
      PROVE  TypeOK'
  BY <1>9 DEF Finish, Broadcast, EndRun
<1>10. ASSUME NEW r \in Callers, Unwind(r)
       PROVE  TypeOK'
  BY <1>10 DEF Unwind, EndRun
<1>11. ASSUME NEW r \in Callers, Expire(r)
       PROVE  TypeOK'
  BY <1>11 DEF Expire, callerVars
<1>12. CASE UNCHANGED vars
  BY <1>12 DEF vars
<1> QED
  BY <1>1, <1>2, <1>3, <1>4, <1>5, <1>6, <1>7, <1>8, <1>9, <1>10, <1>11, <1>12
     DEF Next, CallerStep, RunStep, GeneratorCancelled, DeliverCancel

\* Every variable of the registry and of its callers keeps its type.
THEOREM TypeCorrect == Spec => []TypeOK
  BY InitType, StepType, PTL DEF Spec

-----------------------------------------------------------------------------
(* The inductive invariant                                                 *)

LEMMA InitInv == Init => IInv
<1> SUFFICES ASSUME Init
             PROVE  IInv
  OBVIOUS
<1> USE CoalesceAssumption DEF Init
<1>1. TypeOK
  BY InitType
<1>2. Linked /\ LogShape /\ Queues
  BY DEF Linked, LogShape, Queues, Subscribed
<1>3. RegistryLive /\ OneLiveRun /\ CutMeansCancelled /\ OrphanTimed
  BY DEF RegistryLive, OneLiveRun, CutMeansCancelled, OrphanTimed
<1>4. OwedExactly /\ SameAnswer
  BY DEF OwedExactly, SameAnswer, Subscribed
<1> QED
  BY <1>1, <1>2, <1>3, <1>4 DEF IInv

\* What attach does to the bookkeeping of a caller, whichever run it is given.
LEMMA SubscribeLinks ==
  ASSUME IInv, NEW c \in Callers, NEW r \in Callers, client[c] = "idle",
         Subscribe(c, r), stage'[r] # "none",
         \A q \in Callers : stage[q] # "none" => stage'[q] # "none",
         \A q \in Callers : q # c => (stage'[q] = "none" <=> stage[q] = "none")
  PROVE  /\ Linked'
         /\ OwedExactly'
         /\ SameAnswer'
<1>0. TypeOK /\ Linked /\ Queues /\ OwedExactly /\ SameAnswer
  BY DEF IInv
<1>1. /\ client' = [client EXCEPT ![c] = "attached"]
      /\ leader' = [leader EXCEPT ![c] = r]
      /\ subscribers' = [subscribers EXCEPT ![r] = @ \union {c}]
      /\ inbox' = [inbox EXCEPT ![c] = history[r]]
      /\ seen' = seen /\ history' = history
  BY DEF Subscribe
<1>2. leader[c] = None /\ seen[c] = <<>> /\ \A q \in Callers : c \notin subscribers[q]
  BY <1>0 DEF Linked
<1>3. ASSUME NEW d \in Callers, d # c
      PROVE  /\ client'[d] = client[d] /\ leader'[d] = leader[d]
             /\ inbox'[d] = inbox[d] /\ seen'[d] = seen[d]
             /\ \A q \in Callers : d \in subscribers'[q] <=> d \in subscribers[q]
  BY <1>0, <1>1, <1>3 DEF TypeOK
<1>4. /\ client'[c] = "attached" /\ leader'[c] = r /\ inbox'[c] = history[r]
      /\ \A q \in Callers : c \in subscribers'[q] <=> q = r
  BY <1>0, <1>1, <1>2 DEF TypeOK
<1>5. Linked'
  <2>1. ASSUME NEW d \in Callers, d # c, client[d] = "idle"
        PROVE  leader'[d] = None /\ stage'[d] = "none" /\ seen'[d] = <<>>
    BY <1>0, <1>3, <2>1 DEF Linked
  <2>2. ASSUME NEW d \in Callers, d # c, client[d] # "idle"
        PROVE  leader'[d] \in Callers /\ stage'[leader'[d]] # "none"
    BY <1>0, <1>3, <2>2 DEF Linked
  <2>3. ASSUME NEW d \in Callers, d # c, Subscribed(d)
        PROVE  d \in subscribers'[leader'[d]]
    BY <1>0, <1>3, <2>3 DEF Linked, Subscribed
  <2>4. ASSUME NEW d \in Callers, d # c, NEW q \in Callers, d \in subscribers'[q]
        PROVE  leader'[d] = q /\ client'[d] \in {"attached", "reading", "left"}
    BY <1>0, <1>3, <2>4 DEF Linked
  <2> QED
    BY <1>3, <1>4, <2>1, <2>2, <2>3, <2>4 DEF Linked, Subscribed
<1>6. OwedExactly'
  <2>1. seen'[c] \o inbox'[c] = history'[leader'[c]]
    BY <1>0, <1>1, <1>2, <1>4, ConcatEmptySeq DEF TypeOK
  <2>2. ASSUME NEW d \in Callers, d # c, Subscribed(d)
        PROVE  seen'[d] \o inbox'[d] = history'[leader'[d]]
    BY <1>0, <1>1, <1>3, <2>2 DEF OwedExactly
  <2> QED
    BY <1>3, <2>1, <2>2 DEF OwedExactly, Subscribed
<1>7. SameAnswer'
  BY <1>0, <1>1, <1>3, <1>4 DEF SameAnswer
<1> QED
  BY <1>5, <1>6, <1>7

\* Coalescing onto the run in flight.
LEMMA JoinInv == ASSUME IInv, NEW c \in Callers, Join(c)
                 PROVE  IInv'
<1> DEFINE r == runs[Identity[c]]
<1> USE CoalesceAssumption DEF IInv
<1>0. TypeOK'
  BY StepType DEF Next
<1>1. /\ r \in Callers /\ ~terminal[r] /\ stage[r] \in {"driving", "cancelling"}
      /\ client[c] = "idle" /\ Subscribe(c, r) /\ UNCHANGED <<runs, stage>>
  BY DEF Join, Joinable, RegistryLive, TypeOK
<1>2. Linked' /\ OwedExactly' /\ SameAnswer'
  BY <1>1, SubscribeLinks
<1> USE <1>1 DEF TypeOK, Subscribe
<1>3. LogShape'
  BY DEF LogShape
<1>4. Queues'
  <2>1. ~sentinel[c] /\ seen[c] = <<>>
    BY DEF Queues, Linked
  <2>2. ASSUME NEW d \in Callers, d # c
        PROVE  client'[d] = client[d] /\ leader'[d] = leader[d]
    BY <2>2
  <2> QED
    BY <2>1, <2>2 DEF Queues, Subscribed
<1>5. RegistryLive' /\ OneLiveRun'
  BY DEF RegistryLive, OneLiveRun
<1>6. CutMeansCancelled' /\ OrphanTimed'
  BY DEF CutMeansCancelled, OrphanTimed
<1> QED
  BY <1>0, <1>2, <1>3, <1>4, <1>5, <1>6

\* Starting a fresh run.
LEMMA LeadInv == ASSUME IInv, NEW c \in Callers, Lead(c)
                 PROVE  IInv'
<1> USE CoalesceAssumption DEF IInv
<1>0. TypeOK'
  BY StepType DEF Next
<1>1. /\ client[c] = "idle" /\ stage[c] = "none" /\ Subscribe(c, c)
      /\ stage' = [stage EXCEPT ![c] = "driving"]
      /\ runs[Identity[c]] = None
      /\ runs' = [runs EXCEPT ![Identity[c]] = c]
  BY DEF Lead, Joinable, Linked, RegistryLive
<1>2. Linked' /\ OwedExactly' /\ SameAnswer'
  <2>1. /\ \A q \in Callers : stage[q] # "none" => stage'[q] # "none"
        /\ \A q \in Callers : q # c => (stage'[q] = "none" <=> stage[q] = "none")
        /\ stage'[c] # "none"
    BY <1>1 DEF TypeOK
  <2> QED
    BY <1>1, <2>1, SubscribeLinks
<1> USE <1>1 DEF TypeOK, Subscribe
<1>3. LogShape'
  <2>1. history' = history /\ terminal' = terminal
    OBVIOUS
  <2>2. history[c] = <<>> /\ ~terminal[c]
    BY DEF LogShape
  <2>3. ASSUME NEW q \in Callers, q # c
        PROVE  stage'[q] = stage[q]
    BY <2>3
  <2> QED
    BY <2>1, <2>2, <2>3 DEF LogShape
<1>4. Queues'
  BY DEF Queues, Linked, Subscribed
<1>5. RegistryLive' /\ OneLiveRun'
  BY DEF RegistryLive, OneLiveRun, LogShape
<1>6. CutMeansCancelled' /\ OrphanTimed'
  BY DEF CutMeansCancelled, OrphanTimed, Linked
<1> QED
  BY <1>0, <1>2, <1>3, <1>4, <1>5, <1>6

\* The first pull of an iterator, and a client that goes away before it, only
\* change what the caller is doing.
LEMMA StartInv == ASSUME IInv, NEW c \in Callers, Start(c) \/ Vanish(c)
                  PROVE  IInv'
<1> USE CoalesceAssumption DEF IInv
<1>0. TypeOK'
  BY StepType DEF Next, CallerStep
<1>1. /\ client[c] = "attached" /\ client' \in {[client EXCEPT ![c] = "reading"],
                                                [client EXCEPT ![c] = "left"]}
      /\ UNCHANGED <<runVars, leader, inbox, sentinel, seen>>
  BY DEF Start, Vanish
<1>2. Linked'
  <2>1. ASSUME NEW d \in Callers
        PROVE  /\ client'[d] = "idle" <=> client[d] = "idle"
               /\ Subscribed(d)' => Subscribed(d)
               /\ client[d] \in {"attached", "reading", "left"}
                    => client'[d] \in {"attached", "reading", "left"}
    BY <1>1 DEF TypeOK, Subscribed
  <2> QED
    BY <1>1, <2>1 DEF Linked, runVars
<1> USE <1>1 DEF TypeOK, runVars
<1>3. LogShape' /\ Queues'
  BY DEF LogShape, Queues, Subscribed
<1>4. RegistryLive' /\ OneLiveRun' /\ OrphanTimed'
  BY DEF RegistryLive, OneLiveRun, OrphanTimed
<1>5. OwedExactly' /\ SameAnswer' /\ CutMeansCancelled'
  <2>1. \A d \in Callers :
          /\ client'[d] \in {"attached", "reading"} => client[d] \in {"attached", "reading"}
          /\ client'[d] \in {"answered", "cut"} => client[d] = client'[d]
    OBVIOUS
  <2>2. ASSUME NEW d \in Callers, Subscribed(d)'
        PROVE  (seen[d] \o inbox[d] = history[leader[d]])'
    <3>1. Subscribed(d)  BY <2>1, <2>2 DEF Subscribed
    <3>2. seen[d] \o inbox[d] = history[leader[d]]  BY <3>1 DEF OwedExactly
    <3>3. QED  BY <3>2
  <2>3. SameAnswer'  BY <2>1 DEF SameAnswer
  <2>4. CutMeansCancelled'  BY <2>1 DEF CutMeansCancelled
  <2>5. QED  BY <2>2, <2>3, <2>4 DEF OwedExactly
<1> QED
  BY <1>0, <1>2, <1>3, <1>4, <1>5

\* What giving its queue back does, however the caller came to do so.
LEMMA DetachKeeps ==
  ASSUME IInv, NEW c \in Callers, client[c] = "reading", Detach(c),
         NEW x \in {"answered", "cut", "left"}, client' = [client EXCEPT ![c] = x],
         \A d \in Callers : d # c => seen'[d] = seen[d]
  PROVE  /\ Linked'
         /\ LogShape'
         /\ RegistryLive'
         /\ OneLiveRun'
         /\ OrphanTimed'
<1>0. TypeOK /\ Linked /\ LogShape /\ RegistryLive /\ OneLiveRun /\ OrphanTimed
  BY DEF IInv
<1>1. leader[c] \in Callers
  BY <1>0 DEF Linked
<1>2. /\ UNCHANGED <<runs, stage, history, terminal, buffered, leader>>
      /\ subscribers' = [subscribers EXCEPT ![leader[c]] = @ \ {c}]
      /\ grace' = [grace EXCEPT ![leader[c]] =
                     @ \/ (subscribers[leader[c]] \ {c} = {} /\ ~terminal[leader[c]])]
  BY DEF Detach
<1>3. ASSUME NEW d \in Callers, d # c
      PROVE  /\ client'[d] = client[d]
             /\ \A q \in Callers : d \in subscribers'[q] <=> d \in subscribers[q]
  BY <1>0, <1>1, <1>2, <1>3 DEF TypeOK
<1>4. client'[c] = x /\ \A q \in Callers : c \notin subscribers'[q]
  <2>1. \A q \in Callers : c \in subscribers[q] => q = leader[c]
    BY <1>0 DEF Linked
  <2> QED
    BY <1>0, <1>1, <1>2, <2>1 DEF TypeOK
<1>5. Linked'
  BY <1>0, <1>1, <1>2, <1>3, <1>4 DEF Linked, Subscribed
<1>6. LogShape' /\ RegistryLive' /\ OneLiveRun'
  BY <1>0, <1>2 DEF LogShape, RegistryLive, OneLiveRun
<1>7. OrphanTimed'
  <2>1. ASSUME NEW r \in Callers, r = leader[c], stage[r] = "driving",
               subscribers'[r] = {}
        PROVE  grace'[r]
    <3>1. ~terminal[r]
      BY <1>0, <2>1 DEF LogShape
    <3>2. subscribers[r] \ {c} = {}
      BY <1>0, <1>2, <2>1 DEF TypeOK
    <3> QED
      BY <1>0, <1>2, <2>1, <3>1, <3>2 DEF TypeOK
  <2>2. ASSUME NEW r \in Callers, r # leader[c]
        PROVE  grace'[r] = grace[r] /\ subscribers'[r] = subscribers[r]
    BY <1>0, <1>2, <2>2 DEF TypeOK
  <2> QED
    BY <1>0, <1>2, <2>1, <2>2 DEF OrphanTimed
<1> QED
  BY <1>5, <1>6, <1>7

\* The next replayed or queued event.
LEMMA ReceiveInv == ASSUME IInv, NEW c \in Callers, Receive(c)
                    PROVE  IInv'
<1> DEFINE r == leader[c]
           h == Head(inbox[c])
<1>0. TypeOK /\ TypeOK'
  BY StepType DEF IInv, Next, CallerStep
<1>1. /\ client[c] = "reading" /\ inbox[c] # <<>>
      /\ seen' = [seen EXCEPT ![c] = Append(@, h)]
      /\ inbox' = [inbox EXCEPT ![c] = Tail(@)]
  BY DEF Receive
<1>2. /\ r \in Callers /\ seen[c] \in Seq(Events) /\ inbox[c] \in Seq(Events)
      /\ h \in Events /\ Tail(inbox[c]) \in Seq(Events)
      /\ history[r] \in Seq(Events)
  BY <1>0, <1>1, HeadTailProperties DEF IInv, TypeOK, Linked
<1>3. seen[c] \o inbox[c] = history[r]
  BY <1>1 DEF IInv, OwedExactly, Subscribed
<1>4. /\ Append(seen[c], h) \o Tail(inbox[c]) = history[r]
      /\ Len(seen[c]) + 1 \in 1 .. Len(history[r])
      /\ history[r][Len(seen[c]) + 1] = h
  <2>1. /\ Append(seen[c], h) \o Tail(inbox[c]) = seen[c] \o inbox[c]
        /\ Len(seen[c]) < Len(seen[c] \o inbox[c])
        /\ (seen[c] \o inbox[c])[Len(seen[c]) + 1] = h
    BY <1>1, <1>2, OwedTake
  <2>2. Len(seen[c]) \in Nat /\ Len(history[r]) \in Nat
    BY <1>2, LenProperties
  <2>3. Append(seen[c], h) \o Tail(inbox[c]) = history[r]
    BY <1>3, <2>1, Zenon
  <2>4. Len(seen[c]) < Len(history[r]) /\ history[r][Len(seen[c]) + 1] = h
    BY <1>3, <2>1, Zenon
  <2>5. Len(seen[c]) + 1 \in 1 .. Len(history[r])
    BY <2>2, <2>4
  <2> QED
    BY <2>3, <2>4, <2>5, Zenon
<1>5. seen'[c] = Append(seen[c], h) /\ inbox'[c] = Tail(inbox[c])
  BY <1>0, <1>1 DEF TypeOK
<1>6. ASSUME NEW d \in Callers, d # c
      PROVE  seen'[d] = seen[d] /\ inbox'[d] = inbox[d]
  BY <1>0, <1>1, <1>6 DEF TypeOK
<1>7. CASE h \in Terminals
  <2>1. client' = [client EXCEPT ![c] = "answered"] /\ Detach(c)
    BY <1>7 DEF Receive
  <2>2. UNCHANGED <<stage, history, terminal, leader, sentinel>>
    BY <2>1 DEF Detach
  <2>3. terminal[r] /\ Len(seen[c]) + 1 = Len(history[r])
    BY <1>2, <1>4, <1>7 DEF IInv, LogShape
  <2>4. Append(seen[c], h) = history[r]
    <3>1. /\ Append(seen[c], h) \in Seq(Events)
          /\ Len(Append(seen[c], h)) = Len(seen[c]) + 1
      BY <1>2, AppendProperties
    <3>2. Len(Append(seen[c], h) \o Tail(inbox[c])) = Len(Append(seen[c], h))
      <4>1. Len(history[r]) = Len(Append(seen[c], h))
        BY <2>3, <3>1
      <4> QED
        BY <1>4, <4>1, Zenon
    <3>3. Append(seen[c], h) \o Tail(inbox[c]) = Append(seen[c], h)
      BY <1>2, <3>1, <3>2, OwedNothing
    <3> QED
      BY <1>4, <3>3, Zenon
  <2>5. Linked' /\ LogShape' /\ RegistryLive' /\ OneLiveRun' /\ OrphanTimed'
    BY <1>1, <1>6, <2>1, DetachKeeps
  <2>6. ASSUME NEW d \in Callers, d # c
        PROVE  client'[d] = client[d]
    BY <2>1, <2>6
  <2>7. client'[c] = "answered"
    BY <1>0, <2>1 DEF TypeOK
  <2>8. Queues'
    BY <1>1, <1>6, <2>2, <2>3, <2>6, <2>7 DEF IInv, Queues, Subscribed
  <2>9. OwedExactly' /\ SameAnswer'
    BY <1>5, <1>6, <2>2, <2>4, <2>6, <2>7 DEF IInv, OwedExactly, SameAnswer, Subscribed
  <2>10. CutMeansCancelled'
    BY <2>2, <2>6, <2>7 DEF IInv, CutMeansCancelled
  <2> QED
    BY <1>0, <2>5, <2>8, <2>9, <2>10 DEF IInv
<1>8. CASE h \notin Terminals
  <2>1. UNCHANGED <<runVars, client, leader, sentinel>>
    BY <1>8 DEF Receive
  <2>2. Linked' /\ LogShape' /\ RegistryLive' /\ OneLiveRun' /\ OrphanTimed'
    BY <1>1, <1>6, <2>1
       DEF IInv, Linked, LogShape, RegistryLive, OneLiveRun, OrphanTimed, runVars, Subscribed
  <2>3. \A i \in 1 .. Len(seen'[c]) : seen'[c][i] \notin Terminals
    <3>1. \A i \in 1 .. Len(seen[c]) : seen[c][i] \notin Terminals
      BY <1>1 DEF IInv, Queues, Subscribed
    <3>2. /\ Len(seen'[c]) = Len(seen[c]) + 1
          /\ \A i \in 1 .. Len(seen[c]) : seen'[c][i] = seen[c][i]
          /\ seen'[c][Len(seen[c]) + 1] = h
      BY <1>2, <1>5, AppendProperties
    <3> QED
      BY <1>2, <1>8, <3>1, <3>2, LenProperties, SMTT(20)
  <2>4. Queues'
    BY <1>6, <2>1, <2>3 DEF IInv, Queues, Subscribed, runVars
  <2>5. OwedExactly'
    BY <1>1, <1>4, <1>5, <1>6, <2>1 DEF IInv, OwedExactly, Subscribed, runVars
  <2>6. SameAnswer'
    BY <1>1, <1>4, <1>5, <1>6, <2>1 DEF IInv, SameAnswer, Subscribed, runVars
  <2>7. CutMeansCancelled'
    BY <1>1, <1>4, <1>5, <1>6, <2>1 DEF IInv, CutMeansCancelled, Subscribed, runVars
  <2> QED
    BY <1>0, <2>2, <2>4, <2>5, <2>6, <2>7 DEF IInv
<1> QED
  BY <1>7, <1>8

\* The sentinel, or the client going away: the caller is given nothing more.
LEMMA StopInv == ASSUME IInv, NEW c \in Callers, ReceiveSentinel(c) \/ Leave(c)
                 PROVE  IInv'
<1>0. TypeOK /\ TypeOK'
  BY StepType DEF IInv, Next, CallerStep
<1>1. client[c] = "reading" /\ Detach(c) /\ UNCHANGED <<inbox, seen>>
  BY DEF ReceiveSentinel, Leave
<1>2. PICK x \in {"cut", "left"} :
        /\ client' = [client EXCEPT ![c] = x]
        /\ x = "cut" => inbox[c] = <<>> /\ sentinel[c]
  BY DEF ReceiveSentinel, Leave
<1>3. Linked' /\ LogShape' /\ RegistryLive' /\ OneLiveRun' /\ OrphanTimed'
  BY <1>1, <1>2, DetachKeeps
<1>4. UNCHANGED <<stage, history, terminal, leader, sentinel>>
  BY <1>1 DEF Detach
<1>5. client'[c] = x /\ \A d \in Callers : d # c => client'[d] = client[d]
  BY <1>0, <1>2 DEF TypeOK
<1>6. Queues'
  BY <1>1, <1>4, <1>5 DEF IInv, Queues, Subscribed
<1>7. OwedExactly' /\ SameAnswer'
  BY <1>1, <1>4, <1>5 DEF IInv, OwedExactly, SameAnswer, Subscribed
<1>8. CutMeansCancelled'
  <2>1. ASSUME x = "cut"
        PROVE  ~terminal[leader[c]] /\ stage[leader[c]] = "ended"
    <3>1. leader[c] \in Callers /\ seen[c] \in Seq(Events)
      BY <1>0, <1>1 DEF IInv, Linked, TypeOK
    <3>2. stage[leader[c]] = "ended"
      BY <1>2, <2>1 DEF IInv, Queues
    <3>3. seen[c] = history[leader[c]]
      <4>1. seen[c] \o <<>> = history[leader[c]]
        BY <1>1, <1>2, <2>1 DEF IInv, OwedExactly, Subscribed
      <4> QED
        BY <3>1, <4>1, ConcatEmptySeq
    <3>4. \A i \in 1 .. Len(seen[c]) : seen[c][i] \notin Terminals
      BY <1>1 DEF IInv, Queues, Subscribed
    <3>5. ASSUME terminal[leader[c]]
          PROVE  FALSE
      <4>1. /\ history[leader[c]] # <<>>
            /\ history[leader[c]][Len(history[leader[c]])] \in Terminals
        BY <3>1, <3>5 DEF IInv, LogShape
      <4>2. Len(seen[c]) \in 1 .. Len(seen[c])
        BY <3>1, <3>3, <4>1, EmptySeq
      <4> QED
        BY <3>3, <3>4, <4>1, <4>2
    <3> QED
      BY <3>2, <3>5
  <2> QED
    BY <1>4, <1>5, <2>1 DEF IInv, CutMeansCancelled
<1> QED
  BY <1>0, <1>3, <1>6, <1>7, <1>8 DEF IInv

\* What appending an event to a live run's history and queues does.
LEMMA BroadcastKeeps ==
  ASSUME IInv, NEW r \in Callers, stage[r] = "driving", NEW e \in Events,
         Broadcast(r, e), UNCHANGED <<subscribers, client, leader, seen>>
  PROVE  /\ OwedExactly'
         /\ SameAnswer'
         /\ history'[r] \in Seq(Events) /\ history'[r] # <<>>
         /\ Len(history'[r]) = Len(history[r]) + 1
         /\ \A i \in 1 .. Len(history[r]) : history'[r][i] \notin Terminals
         /\ history'[r][Len(history'[r])] = e
         /\ \A q \in Callers : q # r => history'[q] = history[q]
<1>0. TypeOK /\ Linked /\ LogShape /\ Queues /\ OwedExactly /\ SameAnswer
  BY DEF IInv
<1>1. /\ history'[r] = Append(history[r], e)
      /\ \A q \in Callers : q # r => history'[q] = history[q]
      /\ \A c \in Callers : inbox'[c] = IF c \in subscribers[r]
                                        THEN Append(inbox[c], e) ELSE inbox[c]
  BY <1>0 DEF Broadcast, TypeOK
<1>2. history[r] \in Seq(Events) /\ ~terminal[r]
  BY <1>0 DEF TypeOK, LogShape
<1>3. /\ history'[r] \in Seq(Events) /\ history'[r] # <<>>
      /\ Len(history'[r]) = Len(history[r]) + 1
      /\ \A i \in 1 .. Len(history[r]) : history'[r][i] = history[r][i]
      /\ history'[r][Len(history[r]) + 1] = e
  BY <1>1, <1>2, AppendProperties
<1>4. \A i \in 1 .. Len(history[r]) : history'[r][i] \notin Terminals
  BY <1>0, <1>2, <1>3 DEF LogShape
<1>5. OwedExactly'
  <2>1. ASSUME NEW c \in Callers, Subscribed(c), leader[c] = r
        PROVE  seen[c] \o inbox'[c] = history'[r]
    <3>1. c \in subscribers[r] /\ seen[c] \o inbox[c] = history[r]
      BY <1>0, <2>1 DEF Linked, OwedExactly
    <3>2. seen[c] \in Seq(Events) /\ inbox[c] \in Seq(Events) /\ e \in Events
      BY <1>0 DEF TypeOK
    <3>3. seen[c] \o Append(inbox[c], e) = Append(seen[c] \o inbox[c], e)
      <4>1. \A s, t \in Seq(Events) : s \o Append(t, e) = Append(s \o t, e)
        BY OwedAppend
      <4> QED
        BY <3>2, <4>1, Zenon
    <3>4. inbox'[c] = Append(inbox[c], e)
      BY <1>1, <3>1
    <3> QED
      BY <1>1, <3>1, <3>3, <3>4, Zenon
  <2>2. ASSUME NEW c \in Callers, Subscribed(c), leader[c] # r
        PROVE  seen[c] \o inbox'[c] = history'[leader[c]]
    <3>1. c \notin subscribers[r] /\ leader[c] \in Callers
      BY <1>0, <2>2 DEF Linked, Subscribed
    <3> QED
      BY <1>0, <1>1, <2>2, <3>1 DEF OwedExactly
  <2> QED
    BY <2>1, <2>2 DEF OwedExactly, Subscribed
<1>6. SameAnswer'
  <2>1. ASSUME NEW c \in Callers, client[c] = "answered"
        PROVE  leader[c] \in Callers /\ leader[c] # r
    BY <1>0, <1>2, <2>1 DEF Linked, Queues
  <2> QED
    BY <1>0, <1>1, <2>1 DEF SameAnswer
<1> QED
  BY <1>1, <1>3, <1>4, <1>5, <1>6

\* A non-terminal event, and the withdrawal of a run that outgrew the cap.
LEMMA ProduceInv == ASSUME IInv, NEW r \in Callers, NEW e \in Deltas, Produce(r, e)
                    PROVE  IInv'
<1>0. TypeOK /\ TypeOK'
  BY StepType DEF IInv, Next, RunStep
<1>1. /\ stage[r] = "driving" /\ Broadcast(r, e) /\ e \in Events
      /\ UNCHANGED <<stage, terminal, subscribers, grace, client, leader, sentinel, seen>>
  BY DEF Produce, Events
<1>2. /\ OwedExactly' /\ SameAnswer'
      /\ Len(history'[r]) = Len(history[r]) + 1
      /\ \A i \in 1 .. Len(history[r]) : history'[r][i] \notin Terminals
      /\ history'[r][Len(history'[r])] = e
      /\ \A q \in Callers : q # r => history'[q] = history[q]
  BY <1>1, BroadcastKeeps
<1>3. LogShape'
  <2>1. e \notin Terminals
    BY CoalesceAssumption DEF Terminals
  <2>2. Len(history[r]) \in Nat
    BY <1>0, LenProperties DEF TypeOK
  <2>3. \A i \in 1 .. Len(history'[r]) : history'[r][i] \notin Terminals
    BY <1>2, <2>1, <2>2
  <2>4. ~terminal[r]
    BY <1>1 DEF IInv, LogShape
  <2> QED
    BY <1>1, <1>2, <2>3, <2>4 DEF IInv, LogShape
<1>4. Linked' /\ Queues' /\ CutMeansCancelled' /\ OrphanTimed'
  BY <1>1 DEF IInv, Linked, Queues, CutMeansCancelled, OrphanTimed, Subscribed
<1>5. /\ buffered'[r] \in Nat /\ buffered[r] <= buffered'[r]
      /\ \A q \in Callers : q # r => buffered'[q] = buffered[q]
      /\ \A k \in Keys : runs'[k] = IF runs[k] = r /\ buffered'[r] > MaxBuffer
                                    THEN None ELSE runs[k]
  BY <1>0, CoalesceAssumption DEF Produce, TypeOK
<1>6. RegistryLive'
  BY <1>1, <1>5 DEF IInv, RegistryLive
<1>7. OneLiveRun'
  <2>1. ASSUME NEW q \in Callers, stage[q] \in {"driving", "cancelling"},
               buffered'[q] <= MaxBuffer
        PROVE  runs'[Identity[q]] = q
    <3>1. Identity[q] \in Keys /\ buffered[q] <= MaxBuffer
      <4>1. buffered[q] \in Nat /\ buffered'[q] \in Nat
        BY <1>0 DEF TypeOK
      <4>2. buffered[q] <= buffered'[q]
        BY <1>5, <4>1
      <4> QED
        BY <2>1, <4>1, <4>2, CoalesceAssumption
    <3>2. runs[Identity[q]] = q
      BY <2>1, <3>1 DEF IInv, OneLiveRun
    <3>3. q = r => ~(buffered'[r] > MaxBuffer)
      BY <1>5, <2>1, CoalesceAssumption
    <3> QED
      BY <1>5, <3>1, <3>2, <3>3
  <2> QED
    BY <1>1, <2>1 DEF OneLiveRun
<1> QED
  BY <1>0, <1>2, <1>3, <1>4, <1>6, <1>7 DEF IInv

\* What the end of a run does to the registry, whatever ended it.
LEMMA EndKeeps ==
  ASSUME IInv, NEW r \in Callers, stage[r] \in {"driving", "cancelling"}, EndRun(r),
         UNCHANGED <<buffered, subscribers, client, leader, seen>>,
         \A q \in Callers : q # r => terminal'[q] = terminal[q]
  PROVE  /\ Linked'
         /\ RegistryLive'
         /\ OneLiveRun'
         /\ OrphanTimed'
         /\ CutMeansCancelled'
         /\ stage'[r] = "ended"
         /\ \A q \in Callers : q # r => stage'[q] = stage[q]
         /\ \A c \in Callers : sentinel'[c] => sentinel[c] \/ c \in subscribers[r]
<1>0. TypeOK /\ Linked /\ RegistryLive /\ OneLiveRun /\ OrphanTimed /\ CutMeansCancelled
  BY DEF IInv
<1>1. /\ stage'[r] = "ended" /\ \A q \in Callers : q # r => stage'[q] = stage[q]
      /\ \A q \in Callers : q # r => grace'[q] = grace[q]
      /\ \A c \in Callers : sentinel'[c] => sentinel[c] \/ c \in subscribers[r]
      /\ \A k \in Keys : runs'[k] = IF runs[k] = r THEN None ELSE runs[k]
  BY <1>0 DEF EndRun, TypeOK
<1>2. Linked'
  <2>1. ASSUME NEW c \in Callers, client[c] = "idle"
        PROVE  c # r /\ leader[c] = None /\ stage[c] = "none" /\ seen[c] = <<>>
    BY <1>0, <2>1 DEF Linked
  <2> QED
    BY <1>0, <1>1, <2>1 DEF Linked, Subscribed
<1>3. RegistryLive'
  <2>1. ASSUME NEW k \in Keys, runs'[k] # None
        PROVE  runs'[k] = runs[k] /\ runs[k] \in Callers /\ runs[k] # r
    BY <1>0, <1>1, <2>1 DEF TypeOK
  <2> QED
    BY <1>0, <1>1, <2>1 DEF RegistryLive
<1>4. OneLiveRun'
  <2>1. ASSUME NEW q \in Callers, stage'[q] \in {"driving", "cancelling"},
               buffered[q] <= MaxBuffer
        PROVE  runs'[Identity[q]] = q
    <3>1. q # r /\ stage[q] \in {"driving", "cancelling"} /\ Identity[q] \in Keys
      BY <1>1, <2>1, CoalesceAssumption
    <3> QED
      BY <1>0, <1>1, <2>1, <3>1 DEF OneLiveRun
  <2> QED
    BY <2>1 DEF OneLiveRun
<1>5. OrphanTimed'
  BY <1>0, <1>1 DEF OrphanTimed
<1>6. CutMeansCancelled'
  <2>1. ASSUME NEW c \in Callers, client[c] = "cut"
        PROVE  leader[c] \in Callers /\ leader[c] # r
    BY <1>0, <2>1 DEF Linked, CutMeansCancelled
  <2> QED
    BY <1>0, <1>1, <2>1 DEF CutMeansCancelled
<1> QED
  BY <1>1, <1>2, <1>3, <1>4, <1>5, <1>6

\* The terminal event.
LEMMA FinishInv == ASSUME IInv, NEW r \in Callers, NEW e \in Terminals, Finish(r, e)
                   PROVE  IInv'
<1>0. TypeOK /\ TypeOK'
  BY StepType DEF IInv, Next, RunStep
<1>1. /\ stage[r] = "driving" /\ Broadcast(r, e) /\ EndRun(r) /\ e \in Events
      /\ terminal' = [terminal EXCEPT ![r] = TRUE]
      /\ UNCHANGED <<buffered, subscribers, client, leader, seen>>
  BY DEF Finish, Events
<1>2. /\ OwedExactly' /\ SameAnswer'
      /\ history'[r] # <<>> /\ Len(history'[r]) = Len(history[r]) + 1
      /\ \A i \in 1 .. Len(history[r]) : history'[r][i] \notin Terminals
      /\ history'[r][Len(history'[r])] = e
      /\ \A q \in Callers : q # r => history'[q] = history[q]
  BY <1>1, BroadcastKeeps
<1>3. terminal'[r] /\ \A q \in Callers : q # r => terminal'[q] = terminal[q]
  BY <1>0, <1>1 DEF TypeOK
<1>4. /\ Linked' /\ RegistryLive' /\ OneLiveRun' /\ OrphanTimed' /\ CutMeansCancelled'
      /\ stage'[r] = "ended" /\ \A q \in Callers : q # r => stage'[q] = stage[q]
      /\ \A c \in Callers : sentinel'[c] => sentinel[c] \/ c \in subscribers[r]
  BY <1>1, <1>3, EndKeeps
<1>5. LogShape'
  <2>1. Len(history[r]) \in Nat
    BY <1>0, LenProperties DEF TypeOK
  <2>2. \A i \in 1 .. Len(history'[r]) :
          history'[r][i] \in Terminals => i = Len(history'[r])
    BY <1>2, <2>1
  <2> QED
    BY <1>2, <1>3, <1>4, <2>2 DEF IInv, LogShape
<1>6. Queues'
  BY <1>1, <1>3, <1>4 DEF IInv, Queues, Linked, Subscribed
<1> QED
  BY <1>0, <1>2, <1>4, <1>5, <1>6 DEF IInv

\* CancelledError out of the generator.
LEMMA UnwindInv == ASSUME IInv, NEW r \in Callers,
                          GeneratorCancelled(r) \/ DeliverCancel(r)
                   PROVE  IInv'
<1>0. TypeOK /\ TypeOK'
  BY StepType DEF IInv, Next, RunStep
<1>1. /\ stage[r] \in {"driving", "cancelling"} /\ EndRun(r)
      /\ UNCHANGED <<history, terminal, buffered, subscribers, client, leader, inbox, seen>>
  BY DEF GeneratorCancelled, DeliverCancel, Unwind
<1>2. /\ Linked' /\ RegistryLive' /\ OneLiveRun' /\ OrphanTimed' /\ CutMeansCancelled'
      /\ stage'[r] = "ended" /\ \A q \in Callers : q # r => stage'[q] = stage[q]
      /\ \A c \in Callers : sentinel'[c] => sentinel[c] \/ c \in subscribers[r]
  BY <1>1, EndKeeps
<1>3. LogShape' /\ Queues'
  BY <1>1, <1>2 DEF IInv, LogShape, Queues, Linked, Subscribed
<1>4. OwedExactly' /\ SameAnswer'
  BY <1>1 DEF IInv, OwedExactly, SameAnswer, Subscribed
<1> QED
  BY <1>0, <1>2, <1>3, <1>4 DEF IInv

\* The orphan timer fires.
LEMMA ExpireInv == ASSUME IInv, NEW r \in Callers, Expire(r)
                   PROVE  IInv'
<1>0. TypeOK /\ TypeOK'
  BY StepType DEF IInv, Next
<1>1. /\ UNCHANGED <<runs, history, terminal, buffered, subscribers, callerVars>>
      /\ \A q \in Callers : q # r => stage'[q] = stage[q] /\ grace'[q] = grace[q]
      /\ \/ stage'[r] = stage[r] /\ ~(stage[r] = "driving" /\ subscribers[r] = {}
                                      /\ ~terminal[r])
         \/ stage[r] = "driving" /\ stage'[r] = "cancelling"
  BY <1>0 DEF Expire, TypeOK
<1>2. \A q \in Callers : /\ stage'[q] = "none" <=> stage[q] = "none"
                         /\ stage'[q] = "ended" <=> stage[q] = "ended"
  BY <1>1
<1>3. Linked' /\ LogShape' /\ Queues'
  BY <1>1, <1>2 DEF IInv, Linked, LogShape, Queues, Subscribed, callerVars
<1>4. RegistryLive' /\ OneLiveRun'
  <2>1. \A q \in Callers : stage'[q] \in {"driving", "cancelling"}
                            <=> stage[q] \in {"driving", "cancelling"}
    BY <1>1
  <2>2. UNCHANGED <<runs, terminal, buffered>>
    BY <1>1
  <2>3. \A k \in Keys : runs[k] # None => runs[k] \in Callers
    BY <1>0 DEF TypeOK
  <2>4. RegistryLive'
    BY <2>1, <2>2, <2>3 DEF IInv, RegistryLive
  <2>5. OneLiveRun'
    BY <2>1, <2>2 DEF IInv, OneLiveRun
  <2> QED
    BY <2>4, <2>5
<1>5. OwedExactly' /\ SameAnswer' /\ CutMeansCancelled'
  BY <1>1, <1>2
     DEF IInv, OwedExactly, SameAnswer, CutMeansCancelled, Linked, Subscribed, callerVars
<1>6. OrphanTimed'
  BY <1>1 DEF IInv, OrphanTimed, LogShape
<1> QED
  BY <1>0, <1>3, <1>4, <1>5, <1>6 DEF IInv

LEMMA StepInv == IInv /\ [Next]_vars => IInv'
<1> SUFFICES ASSUME IInv, [Next]_vars
             PROVE  IInv'
  OBVIOUS
<1>1. CASE UNCHANGED vars
  BY <1>1 DEF vars, IInv, TypeOK, Linked, LogShape, Queues, RegistryLive, OneLiveRun,
              OwedExactly, SameAnswer, CutMeansCancelled, OrphanTimed, Subscribed
<1> QED
  BY <1>1, JoinInv, LeadInv, StartInv, ReceiveInv, StopInv, ProduceInv, FinishInv,
     UnwindInv, ExpireInv
     DEF Next, CallerStep, RunStep

LEMMA Inductive == Spec => []IInv
  BY InitInv, StepInv, PTL DEF Spec

-----------------------------------------------------------------------------
(* What the invariant gives                                                *)

\* An attached caller is owed exactly the part of its run's history it has not
\* been given: no event is missed between the replay and the queue, none is
\* replayed twice.
THEOREM CallersOwedExactly == Spec => []OwedExactly
  BY Inductive, PTL DEF IInv

\* A follower that is answered was given the very history its leader was.
THEOREM FollowersSameAnswer == Spec => []SameAnswer
  BY Inductive, PTL DEF IInv

\* Both: what _broadcast and _subscribe give a caller is the whole history of
\* its run, once and in order.
THEOREM DeliveredExactly == Spec => []Delivered
  BY CallersOwedExactly, FollowersSameAnswer, PTL DEF Delivered

\* There is at most one live run per identity, but for runs past the cap.
THEOREM SingleFlight == Spec => []OneLiveRun
  BY Inductive, PTL DEF IInv

\* The registry never offers a finished run.
THEOREM NoStaleRun == Spec => []RegistryLive
  BY Inductive, PTL DEF IInv

\* Both: the registry has the live runs and nothing else.
THEOREM RegistryIsExact == Spec => []RegistryExact
  BY SingleFlight, NoStaleRun, PTL DEF RegistryExact

\* Only a cancelled run cuts its subscribers off.
THEOREM CutOnlyWhenCancelled == Spec => []CutMeansCancelled
  BY Inductive, PTL DEF IInv

\* A live run without a registered queue is being timed.
THEOREM OrphansTimed == Spec => []OrphanTimed
  BY Inductive, PTL DEF IInv

-----------------------------------------------------------------------------
(* The refinement                                                          *)

\* In a reachable state a log is closed exactly when its run is terminal.
LEMMA ClosedIsTerminal ==
  ASSUME IInv, NEW r \in Callers
  PROVE  Promise!Closed(r) <=> terminal[r]
<1>1. history[r] \in Seq(Events)
  BY DEF IInv, TypeOK
<1>2. history[r] # <<>> => Len(history[r]) \in 1 .. Len(history[r])
  BY <1>1, EmptySeq
<1> QED
  BY <1>2 DEF IInv, LogShape, Promise!Closed, Promise!Terminals, Terminals

LEMMA OpenStep ==
  ASSUME IInv, NEW c \in Callers, Join(c) \/ Lead(c)
  PROVE  Promise!Next
<1>1. PICK r \in Callers :
        /\ client[c] = "idle" /\ ~terminal[r] /\ Subscribe(c, r)
  <2>1. CASE Join(c)
    <3>1. /\ runs[Identity[c]] \in Callers /\ ~terminal[runs[Identity[c]]]
          /\ client[c] = "idle" /\ Subscribe(c, runs[Identity[c]])
      BY <2>1, CoalesceAssumption DEF Join, Joinable, IInv, TypeOK
    <3> QED
      BY <3>1
  <2>2. CASE Lead(c)
    BY <2>2 DEF Lead, IInv, Linked, LogShape
  <2> QED
    BY <2>1, <2>2
<1>2. Promise!Open(c, r)
  BY <1>1, ClosedIsTerminal DEF IInv, Linked, Subscribe, Promise!Open
<1> QED
  BY <1>2 DEF Promise!Next

LEMMA TakeStep ==
  ASSUME IInv, NEW c \in Callers, Receive(c)
  PROVE  Promise!Next
<1>1. /\ client[c] = "reading" /\ inbox[c] # <<>>
      /\ seen' = [seen EXCEPT ![c] = Append(seen[c], Head(inbox[c]))]
      /\ UNCHANGED <<history, leader>>
  BY DEF Receive, Detach, runVars
<1>2. /\ seen[c] \in Seq(Events) /\ inbox[c] \in Seq(Events)
      /\ leader[c] \in Callers
  BY <1>1 DEF IInv, TypeOK, Linked
<1>3. seen[c] \o inbox[c] = history[leader[c]]
  BY <1>1 DEF IInv, OwedExactly, Subscribed
<1>4. /\ Len(seen[c]) < Len(seen[c] \o inbox[c])
      /\ (seen[c] \o inbox[c])[Len(seen[c]) + 1] = Head(inbox[c])
  BY <1>1, <1>2, OwedTake
<1>5. /\ Len(seen[c]) < Len(history[leader[c]])
      /\ history[leader[c]][Len(seen[c]) + 1] = Head(inbox[c])
  BY <1>3, <1>4, Zenon
<1>6. Promise!Take(c)
  BY <1>1, <1>2, <1>5, CoalesceAssumption DEF Promise!Take
<1> QED
  BY <1>6 DEF Promise!Next

LEMMA EmitStep ==
  ASSUME IInv, NEW r \in Callers, NEW e \in Events, stage[r] = "driving",
         Broadcast(r, e), UNCHANGED <<leader, seen>>
  PROVE  Promise!Next
<1>1. ~Promise!Closed(r)
  BY ClosedIsTerminal DEF IInv, LogShape
<1>2. Promise!Emit(r, e)
  BY <1>1 DEF Broadcast, Promise!Emit
<1> QED
  BY <1>2 DEF Events, Terminals, Promise!Next, Promise!Terminals

LEMMA RefinedStep == IInv /\ [Next]_vars => [Promise!Next]_(Promise!vars)
<1> SUFFICES ASSUME IInv, [Next]_vars
             PROVE  Promise!Next \/ UNCHANGED <<history, leader, seen>>
  BY DEF Promise!vars
<1>1. ASSUME NEW c \in Callers, Start(c) \/ ReceiveSentinel(c) \/ Leave(c) \/ Vanish(c)
      PROVE  UNCHANGED <<history, leader, seen>>
  BY <1>1 DEF Start, ReceiveSentinel, Leave, Vanish, Detach, runVars
<1>2. ASSUME NEW r \in Callers, NEW e \in Deltas, Produce(r, e)
      PROVE  Promise!Next
  BY <1>2, EmitStep DEF Produce, Events
<1>3. ASSUME NEW r \in Callers, NEW e \in Terminals, Finish(r, e)
      PROVE  Promise!Next
  BY <1>3, EmitStep DEF Finish, Events
<1>4. ASSUME NEW r \in Callers,
             GeneratorCancelled(r) \/ DeliverCancel(r) \/ Expire(r)
      PROVE  UNCHANGED <<history, leader, seen>>
  BY <1>4 DEF GeneratorCancelled, DeliverCancel, Unwind, Expire, callerVars
<1>5. CASE UNCHANGED vars
  BY <1>5 DEF vars
<1> QED
  BY <1>1, <1>2, <1>3, <1>4, <1>5, OpenStep, TakeStep DEF Next, CallerStep, RunStep

\* Coalescing keeps its promise: every caller reads one run's log from the
\* first event on, and nothing follows a log's terminal event.
THEOREM CoalescingKeepsPromise == Spec => PromiseKept
<1>1. Init => Promise!Init
  BY DEF Init, Promise!Init
<1> QED
  BY <1>1, Inductive, RefinedStep, PTL DEF Spec, PromiseKept, Promise!Spec
=============================================================================
