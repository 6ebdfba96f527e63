--------------------------- MODULE EventBusProofs ---------------------------
(***************************************************************************)
(* Proofs about EventBus for any requests, readers, limits and times.      *)
(***************************************************************************)
EXTENDS EventBus, FiniteSetTheorems, SequenceTheorems, TLAPS

(***************************************************************************)
(* What a reader has, as one sequence                                      *)
(***************************************************************************)
\* What a reader has, of its three parts.
Joined(a, b, c) == a \o b \o c

\* The parts may be joined in either order.
LEMMA Associates ==
    ASSUME NEW a \in Seq(Nat), NEW b \in Seq(Nat), NEW c \in Seq(Nat)
    PROVE  (a \o b) \o c = a \o (b \o c)
  BY SMTT(20)

\* An event that is put into the queue comes last.
LEMMA WholeAppend ==
    ASSUME NEW a \in Seq(Nat), NEW b \in Seq(Nat), NEW c \in Seq(Nat), NEW n \in Nat
    PROVE  /\ Joined(a, b, c) \in Seq(Nat)
           /\ Joined(a, b, Append(c, n)) = Append(Joined(a, b, c), n)
<1>1. a \o b \in Seq(Nat) /\ <<n>> \in Seq(Nat)
  BY ConcatProperties
<1>2. a \o b \o c \in Seq(Nat)
  BY <1>1, ConcatProperties
<1>3. Append(c, n) = c \o <<n>> /\ Append(a \o b \o c, n) = (a \o b \o c) \o <<n>>
  BY <1>2, AppendIsConcat
<1>4. (a \o b) \o (c \o <<n>>) = ((a \o b) \o c) \o <<n>>
  <2> DEFINE x == a \o b
             y == <<n>>
  <2>1. x \in Seq(Nat) /\ y \in Seq(Nat)
    BY <1>1
  <2> HIDE DEF x, y
  <2>2. (x \o c) \o y = x \o (c \o y)
    BY <2>1, SMTT(20)
  <2> QED
    BY <2>2 DEF x, y
<1> QED
  BY <1>2, <1>3, <1>4 DEF Joined

\* A sequence is its head and its tail.
LEMMA HeadFirst ==
    ASSUME NEW a \in Seq(Nat), NEW b \in Seq(Nat), b # <<>>
    PROVE  /\ Head(b) \in Nat /\ Tail(b) \in Seq(Nat) /\ Append(a, Head(b)) \in Seq(Nat)
           /\ Append(a, Head(b)) \o Tail(b) = a \o b
<1>1. /\ Head(b) \in Nat /\ Tail(b) \in Seq(Nat) /\ Len(Tail(b)) = Len(b) - 1
      /\ \A i \in 1 .. Len(Tail(b)) : Tail(b)[i] = b[i + 1]
  BY HeadTailProperties
<1>2. Len(b) \in Nat /\ Len(b) >= 1 /\ Head(b) = b[1]
  BY LenProperties, EmptySeq
<1>3. <<Head(b)>> \in Seq(Nat) /\ Len(<<Head(b)>>) = 1 /\ <<Head(b)>>[1] = b[1]
  BY <1>1, <1>2
<1>4. <<Head(b)>> \o Tail(b) = b
  <2> DEFINE h == <<Head(b)>>
             t == Tail(b)
  <2> HIDE DEF h, t
  <2>1. h \in Seq(Nat) /\ t \in Seq(Nat) /\ Len(h) = 1 /\ Len(t) = Len(b) - 1 /\ h[1] = b[1]
        /\ \A i \in 1 .. Len(t) : t[i] = b[i + 1]
    BY <1>1, <1>3 DEF h, t
  <2>5. h \in Seq(Nat) /\ t \in Seq(Nat)
    BY <2>1
  <2>6. /\ h \o t \in Seq(Nat) /\ Len(h \o t) = Len(h) + Len(t)
        /\ \A i \in 1 .. Len(h) + Len(t) : (h \o t)[i] = IF i <= Len(h) THEN h[i] ELSE t[i - Len(h)]
    BY <2>5, ConcatProperties
  <2> DEFINE w == h \o t
  <2> HIDE DEF w
  <2>7. Len(b) \in Nat /\ Len(h) + Len(t) = Len(b)
    BY <1>2, <2>1
  <2>2. /\ w \in Seq(Nat) /\ Len(w) = Len(b)
        /\ \A i \in 1 .. Len(b) : w[i] = IF i <= 1 THEN h[i] ELSE t[i - 1]
    <3>1. w \in Seq(Nat) /\ Len(w) = Len(b)
      BY <2>6, <2>7 DEF w
    <3>2. \A i \in 1 .. Len(b) : w[i] = IF i <= 1 THEN h[i] ELSE t[i - 1]
      BY <2>1, <2>6, <2>7 DEF w
    <3> QED
      BY <3>1, <3>2
  <2>3. \A i \in 1 .. Len(b) : w[i] = b[i]
    <3> TAKE i \in 1 .. Len(b)
    <3>1. CASE i = 1
      BY <2>1, <2>2, <3>1
    <3>2. CASE i # 1
      <4>1. i - 1 \in 1 .. Len(t) /\ (i - 1) + 1 = i /\ ~(i <= 1)
        BY <1>2, <2>1, <3>2
      <4> QED
        BY <2>1, <2>2, <4>1
    <3> QED
      BY <3>1, <3>2
  <2>4. w = b
    BY <2>2, <2>3, SeqEqual
  <2> QED
    BY <2>4 DEF h, t, w
<1>5. Append(a, Head(b)) = a \o <<Head(b)>> /\ Append(a, Head(b)) \in Seq(Nat)
  BY <1>1, AppendIsConcat, AppendProperties
<1>6. (a \o <<Head(b)>>) \o Tail(b) = a \o (<<Head(b)>> \o Tail(b))
  BY <1>1, <1>3, Associates, Zenon
<1> QED
  BY <1>1, <1>4, <1>5, <1>6

\* What was yielded is where the whole begins.
LEMMA WholeBegins ==
    ASSUME NEW a \in Seq(Nat), NEW b \in Seq(Nat), NEW c \in Seq(Nat)
    PROVE  /\ a \o <<>> \o <<>> = a
           /\ Len(a) <= Len(a \o b \o c)
           /\ \A i \in 1 .. Len(a) : (a \o b \o c)[i] = a[i]
           /\ \A i \in 1 .. Len(b) : Len(a) + i <= Len(a \o b \o c) /\ (a \o b \o c)[Len(a) + i] = b[i]
<1>0. Len(a) \in Nat /\ Len(b) \in Nat /\ Len(c) \in Nat
  BY LenProperties
<1>1. a \o <<>> = a
  BY ConcatEmptySeq
<1> DEFINE d == a \o b
<1>2. /\ d \in Seq(Nat) /\ Len(d) = Len(a) + Len(b)
      /\ \A i \in 1 .. Len(a) + Len(b) : d[i] = IF i <= Len(a) THEN a[i] ELSE b[i - Len(a)]
  BY ConcatProperties
<1> HIDE DEF d
<1>7. d \in Seq(Nat)
  BY <1>2
<1>3. /\ Len(d \o c) = Len(d) + Len(c)
      /\ \A i \in 1 .. Len(d) + Len(c) : (d \o c)[i] = IF i <= Len(d) THEN d[i] ELSE c[i - Len(d)]
  BY <1>7, ConcatProperties
<1>4. \A i \in 1 .. Len(a) : (d \o c)[i] = a[i]
  BY <1>0, <1>2, <1>3, SMTT(20)
<1>5. ASSUME NEW i \in 1 .. Len(b)
      PROVE  Len(a) + i <= Len(d \o c) /\ (d \o c)[Len(a) + i] = b[i]
  <2>1. Len(a) + i \in 1 .. Len(d) /\ (Len(a) + i) - Len(a) = i /\ ~(Len(a) + i <= Len(a))
    BY <1>0, <1>2
  <2>2. d[Len(a) + i] = b[i]
    BY <1>0, <1>2, <2>1
  <2>3. (d \o c)[Len(a) + i] = d[Len(a) + i]
    BY <1>0, <1>2, <1>3, <2>1
  <2> QED
    BY <1>0, <1>2, <1>3, <2>1, <2>2, <2>3
<1>6. Len(a) <= Len(d \o c)
  BY <1>0, <1>2, <1>3
<1> QED
  BY <1>1, <1>4, <1>5, <1>6 DEF d

\* w is s and then n.
Grown(s, n, w) ==
  /\ Len(w) = Len(s) + 1 /\ w[Len(s) + 1] = n
  /\ \A i \in 1 .. Len(s) : w[i] = s[i]

\* What NoGap asks of one reader.
Chain(s) == \A i \in 1 .. Len(s) - 1 : s[i] # 0 /\ s[i + 1] \in {s[i] + 1, 0}

\* A chain goes on with the next event, or with the sentinel.
LEMMA ChainAppend ==
    ASSUME NEW s \in Seq(Nat), NEW n \in Nat, Chain(s),
           s # <<>> => s[Len(s)] # 0 /\ n \in {s[Len(s)] + 1, 0}
    PROVE  /\ Append(s, n) \in Seq(Nat) /\ Chain(Append(s, n))
           /\ Len(Append(s, n)) = Len(s) + 1 /\ Append(s, n)[Len(s) + 1] = n
           /\ \A i \in 1 .. Len(s) : Append(s, n)[i] = s[i]
<1>1. /\ Append(s, n) \in Seq(Nat) /\ Len(Append(s, n)) = Len(s) + 1
      /\ \A i \in 1 .. Len(s) : Append(s, n)[i] = s[i]
      /\ Append(s, n)[Len(s) + 1] = n
  BY AppendProperties
<1>2. Len(s) \in Nat /\ (Len(s) > 0 => s # <<>>)
  BY LenProperties
<1>3. ASSUME NEW i \in 1 .. Len(s)
      PROVE  Append(s, n)[i] # 0 /\ Append(s, n)[i + 1] \in {Append(s, n)[i] + 1, 0}
  <2>1. CASE i < Len(s)
    <3>1. i \in 1 .. Len(s) - 1 /\ i + 1 \in 1 .. Len(s)
      BY <1>2, <2>1
    <3>2. Append(s, n)[i] = s[i] /\ Append(s, n)[i + 1] = s[i + 1]
      BY <1>1, <3>1
    <3> QED
      BY <3>1, <3>2 DEF Chain
  <2>2. CASE i = Len(s)
    <3>1. s # <<>>
      BY <1>2, <2>2
    <3> QED
      BY <1>1, <2>2, <3>1
  <2> QED
    BY <1>2, <2>1, <2>2
<1>4. (Len(s) + 1) - 1 = Len(s)
  BY <1>2
<1> QED
  BY <1>1, <1>3, <1>4 DEF Chain

\* And what is put at the end of its last part goes there.
LEMMA ChainFed ==
    ASSUME NEW a \in Seq(Nat), NEW b \in Seq(Nat), NEW c \in Seq(Nat), NEW n \in Nat,
           NEW d \in Seq(Nat), Grown(c, n, d), Chain(Joined(a, b, c)),
           Joined(a, b, c) # <<>> =>
             Joined(a, b, c)[Len(Joined(a, b, c))] # 0 /\ n \in {Joined(a, b, c)[Len(Joined(a, b, c))] + 1, 0}
    PROVE  /\ Joined(a, b, d) \in Seq(Nat) /\ Chain(Joined(a, b, d))
           /\ Grown(Joined(a, b, c), n, Joined(a, b, d))
<1> DEFINE s == a \o b \o c
<1>1. /\ Append(c, n) \in Seq(Nat) /\ Len(Append(c, n)) = Len(c) + 1
      /\ Append(c, n)[Len(c) + 1] = n
      /\ \A i \in 1 .. Len(c) : Append(c, n)[i] = c[i]
  BY AppendProperties
<1> DEFINE e == Append(c, n)
<1> HIDE DEF e
<1>2. d = e
  <2>1. e \in Seq(Nat) /\ Len(e) = Len(c) + 1 /\ Len(c) \in Nat /\ Len(d) = Len(c) + 1
    BY <1>1, LenProperties DEF e, Grown
  <2>2. \A i \in 1 .. Len(d) : d[i] = e[i]
    <3>1. \A i \in 1 .. Len(d) : i \in 1 .. Len(c) \/ i = Len(c) + 1
      BY <2>1
    <3> QED
      BY <1>1, <3>1 DEF e, Grown
  <2> QED
    BY <2>1, <2>2, SeqEqual
<1>3. s \in Seq(Nat) /\ a \o b \o d = Append(s, n)
  <2>1. s = Joined(a, b, c) /\ a \o b \o d = Joined(a, b, d)
    BY DEF Joined
  <2>2. /\ Joined(a, b, c) \in Seq(Nat)
        /\ Joined(a, b, Append(c, n)) = Append(Joined(a, b, c), n)
    BY WholeAppend
  <2> QED
    BY <1>2, <2>1, <2>2 DEF e
<1>4. Chain(s) /\ (s # <<>> => s[Len(s)] # 0 /\ n \in {s[Len(s)] + 1, 0})
  BY DEF Joined
<1> HIDE DEF s
<1>5. /\ Append(s, n) \in Seq(Nat) /\ Chain(Append(s, n)) /\ Grown(s, n, Append(s, n))
  BY <1>3, <1>4, ChainAppend DEF Grown
<1>6. Joined(a, b, d) = Append(s, n) /\ Joined(a, b, c) = s
  BY <1>3 DEF Joined, s
<1> QED
  BY <1>5, <1>6

\* And begins as a chain.
LEMMA ChainBegins ==
    ASSUME NEW s \in Seq(Nat), NEW a \in Seq(Nat), Chain(s), Len(a) <= Len(s),
           \A i \in 1 .. Len(a) : s[i] = a[i]
    PROVE  Chain(a)
<1>1. Len(s) \in Nat /\ Len(a) \in Nat
  BY LenProperties
<1>2. ASSUME NEW i \in 1 .. Len(a) - 1
      PROVE  a[i] # 0 /\ a[i + 1] \in {a[i] + 1, 0}
  <2>1. i \in 1 .. Len(s) - 1 /\ i \in 1 .. Len(a) /\ i + 1 \in 1 .. Len(a)
    BY <1>1
  <2>2. s[i] = a[i] /\ s[i + 1] = a[i + 1]
    BY <2>1
  <2> QED
    BY <2>1, <2>2 DEF Chain
<1> QED
  BY <1>2 DEF Chain

(***************************************************************************)
(* Channels and what is swept                                              *)
(***************************************************************************)
\* Touching a channel keeps it, whatever its age; of the others those past their
\* time go, and their subscribers are the ones who are told.
LEMMA TouchedDoes ==
    ASSUME TypeOK, NEW q \in Requests
    PROVE  LET chs == Touched(q)
               kept == Kept(Touched(q))
           IN  /\ q \in DOMAIN kept /\ DOMAIN kept \subseteq DOMAIN channels \union {q}
               /\ \A p \in DOMAIN kept : p # q => p \in DOMAIN channels /\ kept[p] = channels[p]
               /\ chs[q] \in Channels /\ chs[q].idle = 0 /\ kept[q] = chs[q]
               /\ q \in DOMAIN channels =>
                    /\ chs[q].history = channels[q].history
                    /\ chs[q].subscribers = channels[q].subscribers
                    /\ chs[q].closed = channels[q].closed
               /\ q \notin DOMAIN channels =>
                    chs[q].history = <<>> /\ chs[q].subscribers = {} /\ chs[q].closed = FALSE
               /\ \A p \in DOMAIN channels : p \notin DOMAIN kept =>
                    channels[p].idle = Ttl /\ p # q /\ channels[p].subscribers \subseteq Dropped(chs)
               /\ \A r \in Dropped(chs) : \E p \in DOMAIN channels :
                    p # q /\ p \notin DOMAIN kept /\ r \in channels[p].subscribers
<1> DEFINE chs  == Touched(q)
           kept == Kept(chs)
<1> USE BusAssumption
<1>0. 0 \in 0 .. Ttl
  OBVIOUS
<1>1. /\ DOMAIN chs = DOMAIN channels \union {q}
      /\ \A p \in DOMAIN channels : p # q => chs[p] = channels[p]
      /\ q \in DOMAIN channels => chs[q] = [channels[q] EXCEPT !.idle = 0]
      /\ q \notin DOMAIN channels =>
           chs[q] = [history |-> <<>>, subscribers |-> {}, closed |-> FALSE, idle |-> 0]
  BY DEF Touched
<1>2. /\ chs[q] \in Channels /\ chs[q].idle = 0
      /\ q \in DOMAIN channels =>
           /\ chs[q].history = channels[q].history
           /\ chs[q].subscribers = channels[q].subscribers
           /\ chs[q].closed = channels[q].closed
      /\ q \notin DOMAIN channels =>
           chs[q].history = <<>> /\ chs[q].subscribers = {} /\ chs[q].closed = FALSE
  <2>1. CASE q \in DOMAIN channels
    <3> DEFINE c == channels[q]
    <3>1. c \in Channels
      BY <2>1 DEF TypeOK
    <3>2. chs[q] = [c EXCEPT !.idle = 0]
      BY <1>1, <2>1
    <3> DEFINE u == chs[q]
    <3> HIDE DEF c, u
    <3>3. u = [c EXCEPT !.idle = 0]
      BY <3>2 DEF u
    <3>4. u \in Channels /\ u.idle = 0 /\ u.history = c.history
          /\ u.subscribers = c.subscribers /\ u.closed = c.closed
      BY <1>0, <3>1, <3>3 DEF Channels
    <3> QED
      BY <2>1, <3>4 DEF c, u
  <2>2. CASE q \notin DOMAIN channels
    <3>1. <<>> \in Seq(Nat \ {0})
      BY EmptySeq
    <3>2. [history |-> <<>>, subscribers |-> {}, closed |-> FALSE, idle |-> 0] \in Channels
      BY <1>0, <3>1 DEF Channels
    <3> DEFINE u == chs[q]
    <3>3. u = [history |-> <<>>, subscribers |-> {}, closed |-> FALSE, idle |-> 0]
      BY <1>1, <2>2
    <3> HIDE DEF chs, u
    <3>4. u \in Channels /\ u.idle = 0 /\ u.history = <<>> /\ u.subscribers = {} /\ u.closed = FALSE
      BY <3>2, <3>3
    <3> QED
      BY <2>2, <3>4 DEF u
  <2> QED
    BY <2>1, <2>2
<1> HIDE DEF chs
<1>3. DOMAIN kept = {p \in DOMAIN chs : chs[p].idle # Ttl} /\ \A p \in DOMAIN kept : kept[p] = chs[p]
  BY DEF Kept, Expired
<1>4. q \in DOMAIN kept
  BY <1>1, <1>2, <1>3
<1>5. Dropped(chs) = UNION {chs[p].subscribers : p \in {m \in DOMAIN chs : chs[m].idle = Ttl}}
  BY DEF Dropped, Expired
<1> HIDE DEF kept
<1>6. ASSUME NEW p \in DOMAIN channels, p \notin DOMAIN kept
      PROVE  channels[p].idle = Ttl /\ p # q /\ channels[p].subscribers \subseteq Dropped(chs)
  <2>1. p # q /\ p \in DOMAIN chs /\ chs[p] = channels[p]
    BY <1>1, <1>4, <1>6
  <2>2. chs[p].idle = Ttl
    BY <1>3, <1>6, <2>1
  <2> QED
    BY <1>5, <2>1, <2>2
<1>7. ASSUME NEW r \in Dropped(chs)
      PROVE  \E p \in DOMAIN channels : p # q /\ p \notin DOMAIN kept /\ r \in channels[p].subscribers
  <2>1. PICK p \in DOMAIN chs : chs[p].idle = Ttl /\ r \in chs[p].subscribers
    BY <1>5
  <2>2. p # q
    BY <1>2, <2>1
  <2> QED
    BY <1>1, <1>3, <2>1, <2>2
<1> QED
  BY <1>1, <1>2, <1>3, <1>4, <1>6, <1>7 DEF chs, kept

\* What every reader has is a sequence of numbers.
LEMMA WholeType ==
    ASSUME TypeOK, NEW r \in Readers
    PROVE  /\ got[r] \in Seq(Nat) /\ replay[r] \in Seq(Nat) /\ queue[r] \in Seq(Nat)
           /\ Whole(r) \in Seq(Nat) /\ Len(Whole(r)) \in Nat
<1>1. got[r] \in Seq(Nat \ {0}) /\ replay[r] \in Seq(Nat \ {0}) /\ queue[r] \in Seq(Nat)
  BY DEF TypeOK
<1>2. Seq(Nat \ {0}) \subseteq Seq(Nat)
  BY SeqMonotonic
<1>3. got[r] \in Seq(Nat) /\ replay[r] \in Seq(Nat)
  BY <1>1, <1>2
<1>4. Whole(r) \in Seq(Nat)
  BY <1>1, <1>3, WholeAppend DEF Whole, Joined
<1> QED
  BY <1>1, <1>3, <1>4, LenProperties

\* The next event, or the sentinel, goes on what a subscriber has.
LEMMA ReaderFed ==
    ASSUME TypeOK, NoGap, Subscribed,
           NEW q \in DOMAIN channels, NEW r \in channels[q].subscribers,
           NEW n, n = Len(log[q]) + 1 \/ n = 0,
           NEW d \in Seq(Nat), Grown(queue[r], n, d)
    PROVE  /\ Joined(got[r], replay[r], d) \in Seq(Nat)
           /\ Chain(Joined(got[r], replay[r], d))
           /\ Grown(Whole(r), n, Joined(got[r], replay[r], d))
<1>1. r \in Readers /\ q \in Requests /\ of[r] = q
  BY DEF TypeOK, Channels, Subscribed
<1>2. Len(log[q]) \in Nat /\ (log[q] # <<>> => Len(log[q]) # 0)
  BY <1>1, LenProperties, EmptySeq DEF TypeOK
<1>3. n \in Nat
  BY <1>2
<1>4. /\ got[r] \in Seq(Nat) /\ replay[r] \in Seq(Nat) /\ queue[r] \in Seq(Nat)
      /\ Whole(r) = Joined(got[r], replay[r], queue[r])
  BY <1>1, WholeType DEF Whole, Joined
<1>5. Chain(Whole(r))
  BY <1>1 DEF NoGap, Chain
<1>6. Whole(r) # <<>> => Whole(r)[Len(Whole(r))] # 0 /\ n \in {Whole(r)[Len(Whole(r))] + 1, 0}
  BY <1>2 DEF Subscribed
<1>7. /\ Chain(Joined(got[r], replay[r], queue[r]))
      /\ Joined(got[r], replay[r], queue[r]) # <<>> =>
           /\ Joined(got[r], replay[r], queue[r])[Len(Joined(got[r], replay[r], queue[r]))] # 0
           /\ n \in {Joined(got[r], replay[r], queue[r])[Len(Joined(got[r], replay[r], queue[r]))] + 1, 0}
  BY <1>4, <1>5, <1>6
<1>8. /\ Joined(got[r], replay[r], d) \in Seq(Nat) /\ Chain(Joined(got[r], replay[r], d))
      /\ Grown(Joined(got[r], replay[r], queue[r]), n, Joined(got[r], replay[r], d))
  BY <1>3, <1>4, <1>7, ChainFed
<1> QED
  BY <1>4, <1>8

\* In a step that only puts n into its queue.
LEMMA WholeFed ==
    ASSUME TypeOK, NoGap, Subscribed,
           NEW q \in DOMAIN channels, NEW r \in channels[q].subscribers,
           NEW n, n = Len(log[q]) + 1 \/ n = 0,
           got' = got, replay' = replay, queue'[r] = Append(queue[r], n)
    PROVE  /\ Chain(Whole(r)') /\ Whole(r)' \in Seq(Nat) /\ Grown(Whole(r), n, Whole(r)')
           /\ queue'[r] \in Seq(Nat) /\ Grown(queue[r], n, queue'[r])
<1>1. r \in Readers /\ q \in Requests
  BY DEF TypeOK, Channels
<1>2. Len(log[q]) \in Nat
  BY <1>1, LenProperties DEF TypeOK
<1>3. n \in Nat
  BY <1>2
<1>4. queue'[r] \in Seq(Nat) /\ Grown(queue[r], n, queue'[r])
  <2>1. queue[r] \in Seq(Nat)
    BY <1>1, WholeType
  <2> QED
    BY <1>3, <2>1, AppendProperties DEF Grown
<1>5. Whole(r)' = Joined(got[r], replay[r], queue'[r])
  BY DEF Whole, Joined
<1>6. /\ Joined(got[r], replay[r], queue'[r]) \in Seq(Nat)
      /\ Chain(Joined(got[r], replay[r], queue'[r]))
      /\ Grown(Whole(r), n, Joined(got[r], replay[r], queue'[r]))
  BY <1>4, ReaderFed
<1> QED
  BY <1>4, <1>5, <1>6

(***************************************************************************)
(* The index                                                               *)
(***************************************************************************)
\* It is a first run under its id as long as nothing final was published there.
LEMMA FirstRunMeans ==
    ASSUME TypeOK, NEW q \in Requests
    PROVE  FirstRun(q) <=> \A i \in 1 .. Len(log[q]) : log[q][i] \notin Finals
<1> DEFINE F == {i \in 1 .. Len(log[q]) : log[q][i] \in Finals}
<1>1. Len(log[q]) \in Nat
  BY LenProperties DEF TypeOK
<1>2. IsFiniteSet(1 .. Len(log[q]))
  BY <1>1, FS_Interval
<1>3. IsFiniteSet(F)
  BY <1>2, FS_Subset
<1>4. Cardinality(F) = 0 <=> F = {}
  BY <1>3, FS_EmptySet
<1> QED
  BY <1>4 DEF FirstRun, Tries

\* Evicting drops no run that is not over, and goes beyond the limit only when
\* there is no other.
LEMMA EvictedDoes ==
    ASSUME NEW rs, IsFiniteSet(DOMAIN rs), NEW es \in Evicted(rs)
    PROVE  /\ DOMAIN es \subseteq DOMAIN rs /\ IsFiniteSet(DOMAIN es)
           /\ \A p \in DOMAIN es : es[p] = rs[p]
           /\ \A p \in DOMAIN rs : ~Over(rs[p]) => p \in DOMAIN es
           /\ Cardinality(DOMAIN es) > MaxRuns => \A p \in DOMAIN es : ~Over(es[p])
<1> USE BusAssumption
<1> DEFINE fresh  == {p \in DOMAIN rs : ~(Over(rs[p]) /\ rs[p].idle = Ttl)}
           over   == {p \in fresh : Over(rs[p])}
           excess == IF Cardinality(fresh) > MaxRuns THEN Cardinality(fresh) - MaxRuns ELSE 0
<1>1. PICK V \in SUBSET over :
         /\ Cardinality(V) = excess \/ (V = over /\ Cardinality(V) < excess)
         /\ es = [p \in fresh \ V |-> rs[p]]
  BY DEF Evicted
<1>2. IsFiniteSet(fresh) /\ IsFiniteSet(V) /\ V \subseteq fresh
  BY <1>1, FS_Subset
<1>3. Cardinality(fresh) \in Nat /\ Cardinality(V) \in Nat
  BY <1>2, FS_CardinalityType
<1>4. IsFiniteSet(fresh \ V) /\ Cardinality(fresh \ V) = Cardinality(fresh) - Cardinality(V)
  <2>1. fresh \intersect V = V
    BY <1>2
  <2> QED
    BY <1>2, <2>1, FS_Difference
<1>5. DOMAIN es = fresh \ V /\ \A p \in DOMAIN es : es[p] = rs[p]
  BY <1>1
<1>6. ASSUME NEW p \in DOMAIN rs, ~Over(rs[p])
      PROVE  p \in DOMAIN es
  BY <1>1, <1>5, <1>6
<1>7. ASSUME Cardinality(DOMAIN es) > MaxRuns
      PROVE  \A p \in DOMAIN es : ~Over(es[p])
  <2>1. Cardinality(V) # excess
    BY <1>3, <1>4, <1>5, <1>7
  <2>2. V = over
    BY <1>1, <2>1
  <2> QED
    BY <1>5, <2>2
<1> QED
  BY <1>4, <1>5, <1>6, <1>7

\* The index after an event: the entry is there, and over only if a final event
\* was published for it.
LEMMA IndexedPublish ==
    ASSUME TypeOK, Indexed, RunsListed, NEW q \in Requests, NEW kind \in Vocabulary,
           log' = [log EXCEPT ![q] = Append(@, kind)], TypeOK',
           runs' \in Evicted(Observed(q, kind)), down' = down
    PROVE  Indexed' /\ RunsListed'
<1> USE BusAssumption
<1> DEFINE rs == Observed(q, kind)
<1>1. /\ DOMAIN rs = DOMAIN runs \union {q}
      /\ \A p \in DOMAIN runs : p # q => rs[p] = runs[p]
      /\ rs[q].state = Fold(IF q \in DOMAIN runs THEN runs[q].state ELSE "running", kind)
  BY DEF Observed
<1>2. IsFiniteSet(DOMAIN rs)
  BY <1>1, FS_AddElement DEF Indexed
<1> HIDE DEF rs
<1>3. /\ DOMAIN runs' \subseteq DOMAIN rs /\ IsFiniteSet(DOMAIN runs')
      /\ \A p \in DOMAIN runs' : runs'[p] = rs[p]
      /\ \A p \in DOMAIN rs : ~Over(rs[p]) => p \in DOMAIN runs'
      /\ Cardinality(DOMAIN runs') > MaxRuns => \A p \in DOMAIN runs' : ~Over(runs'[p])
  BY <1>2, EvictedDoes DEF rs
<1>4. /\ Len(log[q]) \in Nat /\ Len(log'[q]) = Len(log[q]) + 1 /\ log'[q][Len(log[q]) + 1] = kind
      /\ \A i \in 1 .. Len(log[q]) : log'[q][i] = log[q][i]
      /\ \A p \in Requests : p # q => log'[p] = log[p]
  <2>1. log[q] \in Seq(Vocabulary) /\ log'[q] = Append(log[q], kind)
        /\ \A p \in Requests : p # q => log'[p] = log[p]
    BY DEF TypeOK
  <2> QED
    BY <2>1, LenProperties, AppendProperties
<1>5. \A p \in Requests : FirstRun(p)' <=> \A i \in 1 .. Len(log'[p]) : log'[p][i] \notin Finals
  <2> TAKE p \in Requests
  <2> DEFINE F == {i \in 1 .. Len(log'[p]) : log'[p][i] \in Finals}
  <2>1. Len(log'[p]) \in Nat
    BY LenProperties DEF TypeOK
  <2>2. IsFiniteSet(1 .. Len(log'[p]))
    BY <2>1, FS_Interval
  <2>3. IsFiniteSet(F)
    BY <2>2, FS_Subset
  <2>4. Cardinality(F) = 0 <=> F = {}
    BY <2>3, FS_EmptySet
  <2> QED
    BY <2>4 DEF FirstRun, Tries
<1>6. /\ \A p \in Requests : p # q => (FirstRun(p)' <=> FirstRun(p))
      /\ FirstRun(q)' => FirstRun(q) /\ kind \notin Finals
      /\ kind \in Finals \/ ~FirstRun(q) => ~FirstRun(q)'
  <2>1. \A p \in Requests : p # q => (FirstRun(p)' <=> FirstRun(p))
    BY <1>4, <1>5, FirstRunMeans
  <2>2. FirstRun(q) <=> \A i \in 1 .. Len(log[q]) : log[q][i] \notin Finals
    BY FirstRunMeans
  <2>3. FirstRun(q)' => FirstRun(q) /\ kind \notin Finals
    BY <1>4, <1>5, <2>2
  <2> QED
    BY <2>1, <2>3
<1>7. DOMAIN runs \subseteq Requests
  BY DEF TypeOK
<1>8. Over(rs[q]) => kind \in Finals \/ ~FirstRun(q)
  BY <1>1 DEF Over, Fold, Indexed, Finals
<1>9. Indexed'
  <2>1. ASSUME NEW p \in DOMAIN runs', Over(runs'[p])
        PROVE  ~FirstRun(p)'
    <3>1. p \in DOMAIN rs /\ Over(rs[p])
      BY <1>3, <2>1
    <3> QED
      BY <1>1, <1>6, <1>7, <1>8, <3>1 DEF Indexed
  <2> QED
    BY <1>3, <2>1 DEF Indexed
<1>10. RunsListed'
  <2> SUFFICES ASSUME ~down
               PROVE  /\ \A p \in Requests : InFlight(p)' /\ FirstRun(p)' => p \in DOMAIN runs' /\ ~Over(runs'[p])
                      /\ Cardinality(DOMAIN runs') > MaxRuns => \A p \in DOMAIN runs' : ~Over(runs'[p])
    BY DEF RunsListed, Over
  <2>1. ASSUME NEW p \in Requests, InFlight(p)', FirstRun(p)'
        PROVE  p \in DOMAIN rs /\ ~Over(rs[p])
    <3>1. CASE p = q
      BY <1>1, <1>6, <1>8, <2>1, <3>1
    <3>2. CASE p # q
      <4>1. InFlight(p) /\ FirstRun(p)
        BY <1>4, <1>6, <2>1, <3>2 DEF InFlight, Last
      <4> QED
        BY <1>1, <3>2, <4>1 DEF RunsListed
    <3> QED
      BY <3>1, <3>2
  <2> QED
    BY <1>3, <2>1
<1> QED
  BY <1>9, <1>10

(***************************************************************************)
(* The inductive invariant                                                 *)
(***************************************************************************)
\* The parts of it, as the proofs below need them.
LEMMA Parts ==
    ASSUME IInv
    PROVE  /\ TypeOK /\ Standing /\ Histories /\ Subscribed /\ EndAhead /\ Indexed
           /\ NoGap /\ SeesTheEnd /\ NeverDeaf /\ RunsListed
  BY DEF IInv, ReadersServed, Faithful

\* It holds initially.
LEMMA InitInv == Init => IInv
<1> SUFFICES ASSUME Init
             PROVE  IInv
  OBVIOUS
<1> USE BusAssumption DEF Init, Empty
<1>1. <<>> \in Seq(Vocabulary) /\ <<>> \in Seq(Nat \ {0}) /\ <<>> \in Seq(Nat)
  BY EmptySeq
<1>2. TypeOK
  BY <1>1 DEF TypeOK, Reading
<1>3. \A r \in Readers : Whole(r) = <<>> /\ Len(Whole(r)) = 0
  <2>1. <<>> \o <<>> = <<>>
    BY <1>1, ConcatEmptySeq
  <2>2. Len(<<>>) = 0
    BY EmptySeq
  <2> QED
    BY <2>1, <2>2 DEF Whole
<1>4. Standing /\ Histories /\ Subscribed /\ EndAhead
  <2>1. DOMAIN channels = {}
    OBVIOUS
  <2>2. Standing
    BY <1>3 DEF Standing
  <2> QED
    BY <2>1, <2>2 DEF Histories, Subscribed, EndAhead, Pumps
<1>5. IsFiniteSet(DOMAIN runs) /\ Cardinality(DOMAIN runs) = 0
  BY FS_EmptySet
<1>6. Indexed
  BY <1>5 DEF Indexed
<1>7. NoGap /\ SeesTheEnd /\ NeverDeaf
  <2>1. NoGap
    BY <1>3 DEF NoGap
  <2> QED
    BY <2>1 DEF SeesTheEnd, NeverDeaf, Reading, Pumps
<1>8. RunsListed
  BY <1>5 DEF RunsListed, InFlight, Last
<1> QED
  BY <1>2, <1>4, <1>6, <1>7, <1>8 DEF IInv, ReadersServed, Faithful

\* An event reaches the history and every subscriber of its id, and the others
\* only as the sentinel.
LEMMA PublishInv ==
    ASSUME IInv, NEW q \in Requests, NEW kind \in Vocabulary, Publish(q, kind)
    PROVE  IInv'
<1> USE BusAssumption
<1>0. /\ TypeOK /\ Standing /\ Histories /\ Subscribed /\ EndAhead /\ Indexed
      /\ NoGap /\ SeesTheEnd /\ NeverDeaf /\ RunsListed
  BY Parts
<1> DEFINE n    == Len(log[q]) + 1
           chs  == Touched(q)
           kept == Kept(chs)
           subs == chs[q].subscribers
           final == kind \in Finals
<1>1. /\ log' = [log EXCEPT ![q] = Append(@, kind)]
      /\ runs' \in Evicted(Observed(q, kind))
      /\ channels' = [kept EXCEPT ![q].history = Append(@, n), ![q].closed = @ \/ final]
      /\ queue' = [r \in Readers |-> IF r \in subs THEN Append(queue[r], n)
                                     ELSE IF r \in Dropped(chs) THEN Append(queue[r], 0)
                                     ELSE queue[r]]
      /\ closed' = [r \in Readers |-> closed[r] \/ (r \in subs /\ final)]
      /\ at' = at /\ of' = of /\ replay' = replay /\ got' = got /\ down' = down
      /\ Free
  BY DEF Publish, Deliver
<1>2. /\ q \in DOMAIN kept /\ DOMAIN kept \subseteq DOMAIN channels \union {q}
      /\ \A p \in DOMAIN kept : p # q => p \in DOMAIN channels /\ kept[p] = channels[p]
      /\ chs[q] \in Channels /\ chs[q].idle = 0 /\ kept[q] = chs[q]
      /\ q \in DOMAIN channels =>
           /\ chs[q].history = channels[q].history
           /\ chs[q].subscribers = channels[q].subscribers
           /\ chs[q].closed = channels[q].closed
      /\ q \notin DOMAIN channels =>
           chs[q].history = <<>> /\ chs[q].subscribers = {} /\ chs[q].closed = FALSE
      /\ \A p \in DOMAIN channels : p \notin DOMAIN kept =>
           channels[p].idle = Ttl /\ p # q /\ channels[p].subscribers \subseteq Dropped(chs)
      /\ \A r \in Dropped(chs) : \E p \in DOMAIN channels :
           p # q /\ p \notin DOMAIN kept /\ r \in channels[p].subscribers
  BY <1>0, TouchedDoes
<1>3. /\ log[q] \in Seq(Vocabulary) /\ log'[q] = Append(log[q], kind)
      /\ \A p \in Requests : p # q => log'[p] = log[p]
      /\ log' \in [Requests -> Seq(Vocabulary)]
  <2>1. log[q] \in Seq(Vocabulary)
    BY <1>0 DEF TypeOK
  <2>2. Append(log[q], kind) \in Seq(Vocabulary)
    BY <2>1, AppendProperties
  <2> QED
    BY <1>0, <1>1, <2>1, <2>2 DEF TypeOK
<1>4. /\ n \in Nat \ {0} /\ Len(log[q]) \in Nat /\ Len(log'[q]) = n /\ log'[q][n] = kind
      /\ \A i \in 1 .. Len(log[q]) : log'[q][i] = log[q][i]
  BY <1>3, LenProperties, AppendProperties
<1>5. \A p \in Requests : /\ Len(log[p]) \in Nat /\ Len(log[p]) <= Len(log'[p])
                          /\ \A i \in 1 .. Len(log[p]) : IsFinal(p, i)' <=> IsFinal(p, i)
  <2> TAKE p \in Requests
  <2>1. Len(log[p]) \in Nat
    BY <1>0, LenProperties DEF TypeOK
  <2> QED
    BY <1>3, <1>4, <2>1 DEF IsFinal
<1> HIDE DEF chs
<1> DEFINE c == chs[q]
           d == channels'[q]
<1>6. d = [c EXCEPT !.history = Append(@, n), !.closed = @ \/ final]
      /\ DOMAIN channels' = DOMAIN kept
      /\ \A p \in DOMAIN kept : p # q => channels'[p] = channels[p]
  BY <1>1, <1>2
<1>7. d.history = Append(c.history, n) /\ d.subscribers = c.subscribers
      /\ d.closed = (c.closed \/ final) /\ d \in Channels
      /\ c.history \in Seq(Nat \ {0})
  <2>0. c \in Channels
    BY <1>2
  <2> HIDE DEF c, d, n, final
  <2>1. c.history \in Seq(Nat \ {0})
    BY <2>0 DEF Channels
  <2>2. Append(c.history, n) \in Seq(Nat \ {0})
    BY <1>4, <2>1, AppendProperties
  <2>3. (c.closed \/ final) \in BOOLEAN
    OBVIOUS
  <2> QED
    BY <1>6, <2>0, <2>1, <2>2, <2>3 DEF Channels
<1> HIDE DEF d, kept
<1>8. \A r \in c.subscribers : q \in DOMAIN channels /\ r \in channels[q].subscribers /\ r \in Readers
  BY <1>0, <1>2 DEF TypeOK, Channels
<1>9. \A r \in Dropped(chs) : r \in Readers /\ r \notin c.subscribers
        /\ \E p \in DOMAIN channels : r \in channels[p].subscribers /\ of[r] = p /\ p # q
  <2> TAKE r \in Dropped(chs)
  <2>1. PICK p \in DOMAIN channels : p # q /\ p \notin DOMAIN kept /\ r \in channels[p].subscribers
    BY <1>2
  <2>2. r \in Readers
    BY <1>0, <2>1 DEF TypeOK, Channels
  <2>3. r \notin c.subscribers
    BY <1>0, <1>8, <2>1 DEF Subscribed
  <2> QED
    BY <1>0, <2>1, <2>2, <2>3 DEF Subscribed
<1>10. ASSUME NEW r \in c.subscribers
       PROVE  /\ of[r] = q /\ Chain(Whole(r)') /\ Whole(r)' \in Seq(Nat)
              /\ Len(Whole(r)') = Len(Whole(r)) + 1 /\ Whole(r)'[Len(Whole(r)) + 1] = n
              /\ \A i \in 1 .. Len(Whole(r)) : Whole(r)'[i] = Whole(r)[i]
  <2>1. queue'[r] = Append(queue[r], n) /\ got' = got /\ replay' = replay
    BY <1>1, <1>8
  <2>2. q \in DOMAIN channels /\ r \in channels[q].subscribers /\ n = Len(log[q]) + 1
    BY <1>8
  <2>3. TypeOK /\ NoGap /\ Subscribed
    BY <1>0
  <2>4. of[r] = q
    BY <2>2, <2>3 DEF Subscribed
  <2> HIDE DEF n, c
  <2>5. Chain(Whole(r)') /\ Whole(r)' \in Seq(Nat) /\ Grown(Whole(r), n, Whole(r)')
    BY <2>1, <2>2, <2>3, WholeFed
  <2> QED
    BY <2>4, <2>5 DEF Grown
<1>11. ASSUME NEW r \in Dropped(chs)
       PROVE  /\ Chain(Whole(r)') /\ Whole(r)' \in Seq(Nat)
              /\ Len(Whole(r)') = Len(Whole(r)) + 1 /\ Whole(r)'[Len(Whole(r)) + 1] = 0
              /\ \A i \in 1 .. Len(Whole(r)) : Whole(r)'[i] = Whole(r)[i]
  <2>1. queue'[r] = Append(queue[r], 0) /\ got' = got /\ replay' = replay
    BY <1>1, <1>9
  <2>2. PICK p \in DOMAIN channels : r \in channels[p].subscribers
    BY <1>9
  <2>3. TypeOK /\ NoGap /\ Subscribed
    BY <1>0
  <2>4. Chain(Whole(r)') /\ Whole(r)' \in Seq(Nat) /\ Grown(Whole(r), 0, Whole(r)')
    BY <2>1, <2>2, <2>3, WholeFed
  <2> QED
    BY <2>4 DEF Grown
<1>12. ASSUME NEW r \in Readers, r \notin c.subscribers, r \notin Dropped(chs)
       PROVE  Whole(r)' = Whole(r) /\ queue'[r] = queue[r]
  BY <1>1, <1>12 DEF Whole
<1>20. TypeOK'
  <2>1. queue' \in [Readers -> Seq(Nat)]
    <3>1. \A r \in Readers : queue[r] \in Seq(Nat)
      BY <1>0 DEF TypeOK
    <3>2. \A r \in Readers : Append(queue[r], n) \in Seq(Nat) /\ Append(queue[r], 0) \in Seq(Nat)
      BY <1>4, <3>1, AppendProperties
    <3> HIDE DEF n, c
    <3> QED
      BY <1>1, <3>1, <3>2
  <2>2. closed' \in [Readers -> BOOLEAN]
    BY <1>0, <1>1 DEF TypeOK
  <2>3. DOMAIN channels' \subseteq Requests /\ \A p \in DOMAIN channels' : channels'[p] \in Channels
    BY <1>0, <1>2, <1>6, <1>7 DEF TypeOK, d
  <2>4. DOMAIN runs' \subseteq Requests /\ \A p \in DOMAIN runs' : runs'[p] \in Entries
    <3> DEFINE rs == Observed(q, kind)
    <3>0. 0 \in 0 .. Ttl
      OBVIOUS
    <3>1. DOMAIN rs \subseteq Requests /\ IsFiniteSet(DOMAIN rs)
      BY <1>0, FS_AddElement DEF Observed, TypeOK, Indexed
    <3>2. ASSUME NEW p \in DOMAIN rs
          PROVE  rs[p] \in Entries
      <4>1. CASE p # q
        BY <1>0, <3>2, <4>1 DEF Observed, TypeOK
      <4>2. CASE p = q
        <5> DEFINE state == IF q \in DOMAIN runs THEN runs[q].state ELSE "running"
        <5>1. state \in States
          BY <1>0 DEF TypeOK, Entries, States
        <5>2. Fold(state, kind) \in States
          BY <5>1 DEF Fold, States
        <5>3. rs[p] = [state |-> Fold(state, kind), idle |-> 0]
          BY <4>2 DEF Observed
        <5> HIDE DEF state
        <5> QED
          BY <3>0, <5>2, <5>3 DEF Entries
      <4> QED
        BY <4>1, <4>2
    <3> HIDE DEF rs
    <3>3. runs' \in Evicted(rs)
      BY <1>1 DEF rs
    <3> QED
      BY <3>1, <3>2, <3>3, EvictedDoes
  <2> QED
    BY <1>0, <1>1, <1>3, <2>1, <2>2, <2>3, <2>4 DEF TypeOK
<1>21. Standing'
  <2> SUFFICES ASSUME NEW r \in Readers
               PROVE  /\ at[r] = "away" => got[r] = <<>> /\ replay[r] = <<>> /\ queue'[r] = <<>>
                      /\ at[r] = "live" => replay[r] = <<>>
                      /\ \A i \in 1 .. Len(Whole(r)') : Whole(r)'[i] <= Len(log'[of[r]])
    BY <1>1 DEF Standing
  <2>0. of[r] \in Requests /\ Len(Whole(r)) \in Nat /\ Whole(r) \in Seq(Nat)
    BY <1>0, WholeType DEF TypeOK
  <2>1. \A i \in 1 .. Len(Whole(r)) : Whole(r)[i] \in Nat /\ Whole(r)[i] <= Len(log'[of[r]])
    <3> TAKE i \in 1 .. Len(Whole(r))
    <3>1. Whole(r)[i] <= Len(log[of[r]]) /\ Whole(r)[i] \in Nat
      BY <1>0, <2>0, ElementOfSeq DEF Standing
    <3>2. Len(log[of[r]]) <= Len(log'[of[r]]) /\ Len(log[of[r]]) \in Nat /\ Len(log'[of[r]]) \in Nat
      BY <1>3, <1>5, <2>0, LenProperties
    <3> QED
      BY <3>1, <3>2
  <2>2. CASE r \in c.subscribers
    <3>1. at[r] # "away"
      BY <1>0, <1>8, <2>2 DEF Subscribed, Reading
    <3>2. n <= Len(log'[of[r]])
      BY <1>4, <1>10, <2>2
    <3>3. \A i \in 1 .. Len(Whole(r)') : Whole(r)'[i] <= Len(log'[of[r]])
      <4> TAKE i \in 1 .. Len(Whole(r)')
      <4>1. i \in 1 .. Len(Whole(r)) \/ i = Len(Whole(r)) + 1
        BY <1>10, <2>0, <2>2
      <4>2. Whole(r)'[Len(Whole(r)) + 1] = n /\ \A j \in 1 .. Len(Whole(r)) : Whole(r)'[j] = Whole(r)[j]
        BY <1>10, <2>2
      <4> QED
        BY <2>1, <3>2, <4>1, <4>2
    <3> QED
      BY <1>0, <3>1, <3>3 DEF Standing
  <2>3. CASE r \in Dropped(chs)
    <3>1. at[r] # "away"
      BY <1>0, <1>9, <2>3 DEF Subscribed, Reading
    <3>2. 0 <= Len(log'[of[r]])
      BY <1>3, <2>0, LenProperties
    <3>3. \A i \in 1 .. Len(Whole(r)') : Whole(r)'[i] <= Len(log'[of[r]])
      <4> TAKE i \in 1 .. Len(Whole(r)')
      <4>1. i \in 1 .. Len(Whole(r)) \/ i = Len(Whole(r)) + 1
        BY <1>11, <2>0, <2>3
      <4>2. Whole(r)'[Len(Whole(r)) + 1] = 0 /\ \A j \in 1 .. Len(Whole(r)) : Whole(r)'[j] = Whole(r)[j]
        BY <1>11, <2>3
      <4> QED
        BY <2>1, <3>2, <4>1, <4>2
    <3> QED
      BY <1>0, <3>1, <3>3 DEF Standing
  <2>4. CASE r \notin c.subscribers /\ r \notin Dropped(chs)
    BY <1>0, <1>12, <2>1, <2>4 DEF Standing
  <2> QED
    BY <2>2, <2>3, <2>4
<1>22. Histories'
  <2> SUFFICES ASSUME NEW p \in DOMAIN channels'
               PROVE  LET h == channels'[p].history
                      IN  /\ Succeeds(h)
                          /\ h # <<>> => h[Len(h)] = Len(log'[p])
                          /\ \A i \in 1 .. Len(h) : h[i] <= Len(log'[p])
                          /\ channels'[p].closed => \E i \in 1 .. Len(h) : log'[p][h[i]] \in Finals
    BY DEF Histories, IsFinal
  <2>1. CASE p # q
    <3>1. p \in DOMAIN channels /\ channels'[p] = channels[p] /\ p \in Requests /\ log'[p] = log[p]
      BY <1>0, <1>2, <1>3, <1>6, <2>1 DEF TypeOK
    <3> QED
      BY <1>0, <3>1 DEF Histories, IsFinal
  <2>2. CASE p = q
    <3> DEFINE h == c.history
               k == d.history
    <3>1. /\ h \in Seq(Nat \ {0}) /\ k = Append(h, n) /\ d = channels'[p]
          /\ d.closed = (c.closed \/ final)
      BY <1>7, <2>2 DEF d
    <3>2. /\ Succeeds(h) /\ (h # <<>> => h[Len(h)] = Len(log[q]))
          /\ \A i \in 1 .. Len(h) : h[i] <= Len(log[q])
          /\ c.closed => \E i \in 1 .. Len(h) : IsFinal(q, h[i])
      <4>1. CASE q \in DOMAIN channels
        BY <1>0, <1>2, <4>1 DEF Histories
      <4>2. CASE q \notin DOMAIN channels
        <5>1. h = <<>> /\ Len(h) = 0 /\ c.closed = FALSE
          BY <1>2, <4>2, EmptySeq
        <5> QED
          BY <5>1 DEF Succeeds
      <4> QED
        BY <4>1, <4>2
    <3> HIDE DEF h, k, n, c, final
    <3>3. /\ Len(h) \in Nat /\ Len(k) = Len(h) + 1 /\ k[Len(h) + 1] = n
          /\ \A i \in 1 .. Len(h) : k[i] = h[i] /\ h[i] \in Nat \ {0}
          /\ Len(h) > 0 => h # <<>>
      BY <1>4, <3>1, LenProperties, AppendProperties, ElementOfSeq
    <3>4. Succeeds(k)
      <4> SUFFICES ASSUME NEW i \in 1 .. Len(k) - 1
                   PROVE  k[i + 1] = k[i] + 1
        BY DEF Succeeds
      <4>1. CASE i = Len(h)
        <5>1. h # <<>> /\ k[i] = h[i] /\ k[i + 1] = n
          BY <3>3, <4>1
        <5> QED
          BY <3>2, <4>1, <5>1 DEF n
      <4>2. CASE i # Len(h)
        <5>1. i \in 1 .. Len(h) - 1 /\ i \in 1 .. Len(h) /\ i + 1 \in 1 .. Len(h)
          BY <3>3, <4>2
        <5> QED
          BY <3>2, <3>3, <5>1 DEF Succeeds
      <4> QED
        BY <4>1, <4>2
    <3>5. k[Len(k)] = Len(log'[q]) /\ \A i \in 1 .. Len(k) : k[i] <= Len(log'[q])
      <4>1. n = Len(log[q]) + 1
        BY DEF n
      <4>2. \A i \in 1 .. Len(h) : k[i] <= n
        BY <1>4, <3>2, <3>3, <4>1
      <4>3. \A i \in 1 .. Len(k) : i \in 1 .. Len(h) \/ i = Len(h) + 1
        BY <3>3
      <4>4. n <= n
        BY <1>4
      <4> QED
        BY <1>4, <3>3, <4>2, <4>3, <4>4
    <3>6. ASSUME d.closed
          PROVE  \E i \in 1 .. Len(k) : log'[q][k[i]] \in Finals
      <4>1. CASE final
        <5>1. Len(h) + 1 \in 1 .. Len(k) /\ log'[q][n] \in Finals
          BY <1>4, <3>3, <4>1 DEF final
        <5> QED
          BY <3>3, <5>1
      <4>2. CASE c.closed
        <5>1. PICK i \in 1 .. Len(h) : IsFinal(q, h[i])
          BY <3>2, <4>2
        <5>2. h[i] \in 1 .. Len(log[q]) /\ i \in 1 .. Len(k) /\ k[i] = h[i]
          BY <1>4, <3>2, <3>3, <5>1
        <5>3. log'[q][h[i]] \in Finals
          BY <1>4, <5>1, <5>2 DEF IsFinal
        <5> QED
          BY <5>2, <5>3
      <4> QED
        BY <3>1, <3>6, <4>1, <4>2
    <3> QED
      BY <2>2, <3>1, <3>4, <3>5, <3>6 DEF k
  <2> QED
    BY <2>1, <2>2
<1>23. Subscribed'
  <2> SUFFICES ASSUME NEW p \in DOMAIN channels', NEW r \in channels'[p].subscribers
               PROVE  /\ of[r] = p
                      /\ at[r] \in Reading \union {"ended"}
                      /\ Whole(r)' # <<>> =>
                           Whole(r)'[Len(Whole(r)')] = Len(log'[p]) /\ log'[p] # <<>>
    BY <1>1 DEF Subscribed
  <2>1. CASE p = q
    <3>1. r \in c.subscribers
      BY <1>7, <2>1 DEF d
    <3>2. log'[q] # <<>>
      BY <1>4, EmptySeq
    <3>3. at[r] \in Reading \union {"ended"}
      BY <1>0, <1>8, <3>1 DEF Subscribed
    <3> QED
      BY <1>4, <1>10, <2>1, <3>1, <3>2, <3>3
  <2>2. CASE p # q
    <3>1. p \in DOMAIN channels /\ channels'[p] = channels[p] /\ p \in Requests /\ log'[p] = log[p]
      BY <1>0, <1>2, <1>3, <1>6, <2>2 DEF TypeOK
    <3>2. r \in Readers /\ of[r] = p
      BY <1>0, <3>1 DEF TypeOK, Channels, Subscribed
    <3>3. r \notin c.subscribers
      BY <1>10, <2>2, <3>2
    <3>4. r \notin Dropped(chs)
      <4>1. \A m \in DOMAIN channels : r \in channels[m].subscribers => m = p
        BY <1>0, <3>2 DEF Subscribed
      <4> QED
        BY <1>2, <1>6, <4>1
    <3> QED
      BY <1>0, <1>12, <3>1, <3>2, <3>3, <3>4 DEF Subscribed
  <2> QED
    BY <2>1, <2>2
<1>24. EndAhead'
  BY <1>1 DEF EndAhead, Free, Holding
<1>25. NoGap'
  <2> SUFFICES ASSUME NEW r \in Readers
               PROVE  Chain(Whole(r)')
    BY DEF NoGap, Chain
  <2> QED
    BY <1>0, <1>10, <1>11, <1>12 DEF NoGap, Chain
<1>26. SeesTheEnd'
  <2> SUFFICES ASSUME NEW r \in Pumps, at[r] \in {"ended", "over", "shut"}
               PROVE  got[r] # <<>> /\ IsFinal(of[r], got[r][Len(got[r])])'
    BY <1>1 DEF SeesTheEnd, IsFinal
  <2>1. r \in Readers /\ of[r] \in Requests /\ got[r] # <<>> /\ IsFinal(of[r], got[r][Len(got[r])])
    BY <1>0 DEF SeesTheEnd, Pumps, TypeOK
  <2>2. got[r] \in Seq(Nat \ {0}) /\ Len(got[r]) \in Nat /\ Len(got[r]) # 0
    BY <1>0, <2>1, LenProperties, EmptySeq DEF TypeOK
  <2> DEFINE m == Len(got[r])
  <2>3. got[r][m] \in Nat \ {0}
    BY <2>2, ElementOfSeq
  <2>4. m \in 1 .. Len(Whole(r)) /\ Whole(r)[m] = got[r][m]
    <3>1. /\ Len(got[r]) <= Len(Whole(r))
          /\ \A i \in 1 .. Len(got[r]) : Whole(r)[i] = got[r][i]
      <4>1. got[r] \in Seq(Nat) /\ replay[r] \in Seq(Nat) /\ queue[r] \in Seq(Nat)
        BY <1>0, <2>1, WholeType
      <4> DEFINE x == got[r]
                 y == replay[r]
                 z == queue[r]
      <4> HIDE DEF x, y, z
      <4>2. x \in Seq(Nat) /\ y \in Seq(Nat) /\ z \in Seq(Nat)
        BY <4>1 DEF x, y, z
      <4>3. Len(x) <= Len(x \o y \o z) /\ \A i \in 1 .. Len(x) : (x \o y \o z)[i] = x[i]
        BY <4>2, WholeBegins
      <4> QED
        BY <4>3 DEF x, y, z, Whole
    <3>2. Len(Whole(r)) \in Nat
      BY <1>0, <2>1, WholeType
    <3> QED
      BY <2>2, <3>1, <3>2
  <2>5. got[r][m] \in 1 .. Len(log[of[r]])
    BY <1>0, <1>5, <2>1, <2>3, <2>4 DEF Standing
  <2> QED
    BY <1>1, <1>5, <2>1, <2>5 DEF IsFinal
<1>27. NeverDeaf'
  <2> SUFFICES ASSUME NEW r \in Readers, at[r] \in Reading
               PROVE  \/ of[r] \in DOMAIN channels' /\ r \in channels'[of[r]].subscribers
                      \/ \E i \in DOMAIN queue'[r] : queue'[r][i] = 0
    BY <1>1 DEF NeverDeaf
  <2>0. queue[r] \in Seq(Nat) /\ Len(queue[r]) \in Nat /\ DOMAIN queue[r] = 1 .. Len(queue[r])
    BY <1>0, LenProperties DEF TypeOK
  <2>1. CASE r \in c.subscribers
    BY <1>2, <1>6, <1>7, <1>10, <2>1 DEF d
  <2>2. CASE r \in Dropped(chs)
    <3>1. queue'[r] = Append(queue[r], 0)
      BY <1>1, <1>9, <2>2
    <3>2. DOMAIN queue'[r] = 1 .. Len(queue[r]) + 1 /\ queue'[r][Len(queue[r]) + 1] = 0
      BY <2>0, <3>1, AppendProperties, LenProperties
    <3>3. Len(queue[r]) + 1 \in DOMAIN queue'[r]
      BY <2>0, <3>2
    <3> QED
      BY <3>2, <3>3
  <2>3. CASE r \notin c.subscribers /\ r \notin Dropped(chs)
    <3>1. CASE of[r] \in DOMAIN channels /\ r \in channels[of[r]].subscribers
      <4>1. of[r] # q
        BY <1>2, <2>3, <3>1
      <4>2. of[r] \in DOMAIN kept
        BY <1>2, <2>3, <3>1
      <4> QED
        BY <1>6, <3>1, <4>1, <4>2
    <3>2. CASE \E i \in DOMAIN queue[r] : queue[r][i] = 0
      BY <1>12, <2>3, <3>2
    <3> QED
      BY <1>0, <3>1, <3>2 DEF NeverDeaf
  <2> QED
    BY <2>1, <2>2, <2>3
<1>28. Indexed' /\ RunsListed'
  BY <1>0, <1>1, <1>20, IndexedPublish
<1> QED
  BY <1>20, <1>21, <1>22, <1>23, <1>24, <1>25, <1>26, <1>27, <1>28 DEF IInv, ReadersServed, Faithful

(***************************************************************************)
(* What a reader does                                                      *)
(***************************************************************************)
\* Yielding moves the first event of the replay, or of the queue after it, to
\* the end of what was yielded.
LEMMA HeadMoved ==
    ASSUME NEW a \in Seq(Nat), NEW b \in Seq(Nat), NEW c \in Seq(Nat)
    PROVE  /\ b # <<>> => Joined(Append(a, Head(b)), Tail(b), c) = Joined(a, b, c)
           /\ c # <<>> => Joined(Append(a, Head(c)), <<>>, Tail(c)) = Joined(a, <<>>, c)
           /\ Joined(a, <<>>, <<>>) = a
           /\ Joined(<<>>, b, <<>>) = b
<1>0. <<>> \in Seq(Nat)
  BY EmptySeq
<1>1. ASSUME b # <<>>
      PROVE  Joined(Append(a, Head(b)), Tail(b), c) = Joined(a, b, c)
  <2>1. Append(a, Head(b)) \o Tail(b) = a \o b
    BY <1>1, HeadFirst
  <2> QED
    BY <2>1 DEF Joined
<1>2. ASSUME c # <<>>
      PROVE  Joined(Append(a, Head(c)), <<>>, Tail(c)) = Joined(a, <<>>, c)
  <2>1. Append(a, Head(c)) \o Tail(c) = a \o c /\ Append(a, Head(c)) \in Seq(Nat)
    BY <1>2, HeadFirst
  <2>2. a \o <<>> = a
    BY ConcatEmptySeq
  <2> DEFINE e == Append(a, Head(c))
  <2> HIDE DEF e
  <2>3. e \in Seq(Nat)
    BY <2>1 DEF e
  <2>4. e \o <<>> = e
    BY <2>3, ConcatEmptySeq
  <2>5. e \o Tail(c) = a \o c
    BY <2>1 DEF e
  <2> QED
    BY <2>2, <2>4, <2>5 DEF Joined, e
<1>3. Joined(a, <<>>, <<>>) = a
  BY ConcatEmptySeq DEF Joined
<1>4. Joined(<<>>, b, <<>>) = b
  BY ConcatEmptySeq DEF Joined
<1> QED
  BY <1>1, <1>2, <1>3, <1>4

\* What was yielded is where the whole begins.
LEMMA GotFirst ==
    ASSUME TypeOK, NEW r \in Readers
    PROVE  /\ Len(got[r]) \in Nat /\ Len(got[r]) <= Len(Whole(r))
           /\ \A i \in 1 .. Len(got[r]) : Whole(r)[i] = got[r][i]
<1>1. got[r] \in Seq(Nat) /\ replay[r] \in Seq(Nat) /\ queue[r] \in Seq(Nat)
  BY WholeType
<1> QED
  BY <1>1, WholeBegins, LenProperties DEF Whole

\* In a step of a reader that only yields n, of what it has, nobody gains or
\* loses anything.
LEMMA YieldInv ==
    ASSUME IInv, NEW r \in Readers, at[r] \in Reading, NEW n \in Nat \ {0}, Yield(r, n),
           UNCHANGED <<log, channels, of, closed, runs, down>>,
           \A s \in Readers : Whole(s)' = Whole(s),
           \A s \in Readers : s # r => replay'[s] = replay[s] /\ queue'[s] = queue[s],
           replay' \in [Readers -> Seq(Nat \ {0})], queue' \in [Readers -> Seq(Nat)],
           at[r] = "live" => replay'[r] = <<>>,
           (\E i \in DOMAIN queue[r] : queue[r][i] = 0) => \E i \in DOMAIN queue'[r] : queue'[r][i] = 0,
           EndAhead'
    PROVE  IInv'
<1>0. /\ TypeOK /\ Standing /\ Histories /\ Subscribed /\ EndAhead /\ Indexed
      /\ NoGap /\ SeesTheEnd /\ NeverDeaf /\ RunsListed
  BY Parts
<1>1. /\ got'[r] = Append(got[r], n) /\ \A s \in Readers : s # r => got'[s] = got[s]
      /\ at'[r] = IF IsFinal(of[r], n) THEN "ended" ELSE at[r]
      /\ \A s \in Readers : s # r => at'[s] = at[s]
  BY <1>0 DEF Yield, TypeOK
<1>2. /\ Append(got[r], n) \in Seq(Nat \ {0}) /\ Append(got[r], n) # <<>>
      /\ Append(got[r], n)[Len(Append(got[r], n))] = n
  <2>1. got[r] \in Seq(Nat \ {0}) /\ Len(got[r]) \in Nat
    BY <1>0, LenProperties DEF TypeOK
  <2>2. /\ Append(got[r], n) \in Seq(Nat \ {0}) /\ Len(Append(got[r], n)) = Len(got[r]) + 1
        /\ Append(got[r], n)[Len(got[r]) + 1] = n
    BY <2>1, AppendProperties
  <2> DEFINE g == Append(got[r], n)
  <2> HIDE DEF g
  <2>3. g \in Seq(Nat \ {0}) /\ Len(g) = Len(got[r]) + 1 /\ g[Len(got[r]) + 1] = n
    BY <2>2 DEF g
  <2>4. Len(g) # 0 /\ g[Len(g)] = n
    BY <2>1, <2>3
  <2>5. g # <<>>
    BY <2>4, EmptySeq
  <2> QED
    BY <2>3, <2>4, <2>5 DEF g
<1>20. TypeOK'
  <2>1. got' \in [Readers -> Seq(Nat \ {0})]
    BY <1>0, <1>2 DEF Yield, TypeOK
  <2>2. at' \in [Readers -> Reading \union {"away", "ended", "over", "shut", "cut", "left"}]
    BY <1>0 DEF Yield, TypeOK
  <2> QED
    BY <1>0, <2>1, <2>2 DEF TypeOK
<1>21. Standing'
  <2> SUFFICES ASSUME NEW s \in Readers
               PROVE  /\ at'[s] = "away" => got'[s] = <<>> /\ replay'[s] = <<>> /\ queue'[s] = <<>>
                      /\ at'[s] = "live" => replay'[s] = <<>>
                      /\ \A i \in 1 .. Len(Whole(s)) : Whole(s)[i] <= Len(log[of[s]])
    BY DEF Standing
  <2> QED
    BY <1>0, <1>1 DEF Standing, Reading
<1>22. Histories'
  BY <1>0 DEF Histories, IsFinal
<1>23. Subscribed'
  <2> SUFFICES ASSUME NEW p \in DOMAIN channels, NEW s \in channels[p].subscribers
               PROVE  /\ of[s] = p
                      /\ at'[s] \in Reading \union {"ended"}
                      /\ Whole(s)' # <<>> => Whole(s)'[Len(Whole(s)')] = Len(log[p]) /\ log[p] # <<>>
    BY DEF Subscribed
  <2>1. s \in Readers
    BY <1>0 DEF TypeOK, Channels
  <2>2. of[s] = p /\ at[s] \in Reading \union {"ended"}
        /\ (Whole(s) # <<>> => Whole(s)[Len(Whole(s))] = Len(log[p]) /\ log[p] # <<>>)
    BY <1>0 DEF Subscribed
  <2>3. at'[s] \in {at[s], "ended"}
    BY <1>1, <2>1
  <2>4. Whole(s)' = Whole(s)
    BY <2>1
  <2> QED
    BY <2>2, <2>3, <2>4
<1>25. NoGap'
  <2>1. \A s \in Readers : Whole(s)' = Whole(s)
    OBVIOUS
  <2>2. NoGap
    BY <1>0
  <2> QED
    BY <2>1, <2>2 DEF NoGap
<1>26. SeesTheEnd'
  <2> SUFFICES ASSUME NEW s \in Pumps, at'[s] \in {"ended", "over", "shut"}
               PROVE  got'[s] # <<>> /\ log[of[s]][got'[s][Len(got'[s])]] \in Finals
    BY DEF SeesTheEnd, IsFinal
  <2>1. s \in Readers
    BY DEF Pumps
  <2>2. CASE s = r
    <3>1. IsFinal(of[r], n)
      BY <1>1, <2>2 DEF Reading
    <3> QED
      BY <1>1, <1>2, <2>2, <3>1 DEF IsFinal
  <2>3. CASE s # r
    BY <1>0, <1>1, <2>1, <2>3 DEF SeesTheEnd, IsFinal
  <2> QED
    BY <2>2, <2>3
<1>27. NeverDeaf'
  <2> SUFFICES ASSUME NEW s \in Readers, at'[s] \in Reading
               PROVE  \/ of[s] \in DOMAIN channels /\ s \in channels[of[s]].subscribers
                      \/ \E i \in DOMAIN queue'[s] : queue'[s][i] = 0
    BY DEF NeverDeaf
  <2>1. at[s] \in Reading
    BY <1>1 DEF Reading
  <2> QED
    BY <1>0, <2>1 DEF NeverDeaf
<1>28. Indexed' /\ RunsListed'
  BY <1>0 DEF Indexed, RunsListed, FirstRun, Tries, InFlight, Last
<1> QED
  BY <1>20, <1>21, <1>22, <1>23, <1>25, <1>26, <1>27, <1>28 DEF IInv, ReadersServed, Faithful

\* A reader that goes takes nothing with it, and leaves nothing behind.
LEMMA ExitInv ==
    ASSUME IInv, NEW r \in Readers, NEW how \in {"over", "shut", "cut", "left"}, Exit(r, how),
           r \in Pumps /\ how \in {"over", "shut"} =>
             got[r] # <<>> /\ IsFinal(of[r], got[r][Len(got[r])])
    PROVE  IInv'
<1>0. /\ TypeOK /\ Standing /\ Histories /\ Subscribed /\ EndAhead /\ Indexed
      /\ NoGap /\ SeesTheEnd /\ NeverDeaf /\ RunsListed
  BY Parts
<1>1. /\ at'[r] = how /\ replay'[r] = <<>> /\ queue'[r] = <<>>
      /\ \A s \in Readers : s # r => at'[s] = at[s] /\ replay'[s] = replay[s] /\ queue'[s] = queue[s]
      /\ UNCHANGED <<log, of, closed, got, runs, down>>
  BY <1>0 DEF Exit, TypeOK
<1>2. /\ DOMAIN channels' = DOMAIN channels
      /\ \A q \in DOMAIN channels :
           /\ channels'[q] \in Channels
           /\ channels'[q].history = channels[q].history
           /\ channels'[q].closed = channels[q].closed
           /\ channels'[q].subscribers = channels[q].subscribers \ {r}
  <2>1. channels' = [q \in DOMAIN channels |-> [channels[q] EXCEPT !.subscribers = @ \ {r}]]
    BY DEF Exit
  <2>2. ASSUME NEW q \in DOMAIN channels
        PROVE  /\ channels'[q] \in Channels
               /\ channels'[q].history = channels[q].history
               /\ channels'[q].closed = channels[q].closed
               /\ channels'[q].subscribers = channels[q].subscribers \ {r}
    <3> DEFINE c == channels[q]
               d == channels'[q]
    <3>1. c \in Channels
      BY <1>0 DEF TypeOK
    <3>2. d = [c EXCEPT !.subscribers = @ \ {r}]
      BY <2>1
    <3> HIDE DEF c, d
    <3>3. d \in Channels /\ d.history = c.history /\ d.closed = c.closed
          /\ d.subscribers = c.subscribers \ {r}
      BY <3>1, <3>2 DEF Channels
    <3> QED
      BY <3>3 DEF c, d
  <2> QED
    BY <2>1, <2>2
<1>3. Whole(r)' = got[r] /\ \A s \in Readers : s # r => Whole(s)' = Whole(s)
  <2>1. got[r] \in Seq(Nat) /\ <<>> \in Seq(Nat)
    BY <1>0, WholeType, EmptySeq
  <2>2. Whole(r)' = Joined(got[r], <<>>, <<>>)
    BY <1>1 DEF Whole, Joined
  <2>3. Joined(got[r], <<>>, <<>>) = got[r]
    BY <2>1, HeadMoved
  <2> QED
    BY <1>1, <2>2, <2>3 DEF Whole
<1>4. /\ got[r] \in Seq(Nat) /\ Whole(r) \in Seq(Nat) /\ Len(Whole(r)) \in Nat /\ Len(got[r]) \in Nat
      /\ Len(got[r]) <= Len(Whole(r)) /\ \A i \in 1 .. Len(got[r]) : Whole(r)[i] = got[r][i]
  BY <1>0, WholeType, GotFirst
<1>20. TypeOK'
  <2>1. <<>> \in Seq(Nat \ {0}) /\ <<>> \in Seq(Nat)
    BY EmptySeq
  <2>2. /\ replay' \in [Readers -> Seq(Nat \ {0})] /\ queue' \in [Readers -> Seq(Nat)]
        /\ at' \in [Readers -> Reading \union {"away", "ended", "over", "shut", "cut", "left"}]
    BY <1>0, <2>1 DEF Exit, TypeOK
  <2> QED
    BY <1>0, <1>1, <1>2, <2>2 DEF TypeOK
<1>21. Standing'
  <2> SUFFICES ASSUME NEW s \in Readers
               PROVE  /\ at'[s] = "away" => got[s] = <<>> /\ replay'[s] = <<>> /\ queue'[s] = <<>>
                      /\ at'[s] = "live" => replay'[s] = <<>>
                      /\ \A i \in 1 .. Len(Whole(s)') : Whole(s)'[i] <= Len(log[of[s]])
    BY <1>1 DEF Standing
  <2>1. CASE s = r
    <3>1. \A i \in 1 .. Len(got[r]) : i \in 1 .. Len(Whole(r))
      BY <1>4
    <3>2. \A i \in 1 .. Len(Whole(r)) : Whole(r)[i] <= Len(log[of[r]])
      BY <1>0 DEF Standing
    <3> QED
      BY <1>1, <1>3, <1>4, <2>1, <3>1, <3>2
  <2>2. CASE s # r
    BY <1>0, <1>1, <1>3, <2>2 DEF Standing
  <2> QED
    BY <2>1, <2>2
<1>22. Histories'
  BY <1>0, <1>1, <1>2 DEF Histories, IsFinal
<1>23. Subscribed'
  <2> SUFFICES ASSUME NEW p \in DOMAIN channels, NEW s \in channels[p].subscribers, s # r
               PROVE  /\ of[s] = p
                      /\ at'[s] \in Reading \union {"ended"}
                      /\ Whole(s)' # <<>> => Whole(s)'[Len(Whole(s)')] = Len(log[p]) /\ log[p] # <<>>
    BY <1>1, <1>2 DEF Subscribed
  <2>1. s \in Readers
    BY <1>0 DEF TypeOK, Channels
  <2>2. at'[s] = at[s] /\ Whole(s)' = Whole(s)
    BY <1>1, <1>3, <2>1
  <2> QED
    BY <1>0, <2>2 DEF Subscribed
<1>24. EndAhead'
  <2> SUFFICES ASSUME NEW s \in Pumps, at'[s] = "replaying", closed[s]
               PROVE  \E i \in 1 .. Len(replay'[s]) : log[of[s]][replay'[s][i]] \in Finals
    BY <1>1 DEF EndAhead, IsFinal
  <2>1. s \in Readers /\ s # r
    BY <1>1 DEF Pumps
  <2> QED
    BY <1>0, <1>1, <2>1 DEF EndAhead, IsFinal
<1>25. NoGap'
  <2> SUFFICES ASSUME NEW s \in Readers
               PROVE  Chain(Whole(s)')
    BY DEF NoGap, Chain
  <2>1. Chain(Whole(s))
    BY <1>0 DEF NoGap, Chain
  <2>2. CASE s = r
    <3>1. Chain(got[r])
      BY <1>4, <2>1, <2>2, ChainBegins
    <3> QED
      BY <1>3, <2>2, <3>1
  <2> QED
    BY <1>3, <2>1, <2>2
<1>26. SeesTheEnd'
  <2> SUFFICES ASSUME NEW s \in Pumps, at'[s] \in {"ended", "over", "shut"}
               PROVE  got[s] # <<>> /\ log[of[s]][got[s][Len(got[s])]] \in Finals
    BY <1>1 DEF SeesTheEnd, IsFinal
  <2>1. CASE s = r
    <3>1. how \in {"over", "shut"}
      BY <1>1, <2>1
    <3> QED
      BY <2>1, <3>1 DEF IsFinal
  <2>2. CASE s # r
    <3>1. at'[s] = at[s]
      BY <1>1, <2>2 DEF Pumps
    <3> QED
      BY <1>0, <3>1 DEF SeesTheEnd, IsFinal
  <2> QED
    BY <2>1, <2>2
<1>27. NeverDeaf'
  <2> SUFFICES ASSUME NEW s \in Readers, at'[s] \in Reading
               PROVE  \/ of[s] \in DOMAIN channels' /\ s \in channels'[of[s]].subscribers
                      \/ \E i \in DOMAIN queue'[s] : queue'[s][i] = 0
    BY <1>1 DEF NeverDeaf
  <2>1. s # r
    BY <1>1 DEF Reading
  <2>2. at[s] \in Reading /\ queue'[s] = queue[s]
    BY <1>1, <2>1
  <2> QED
    BY <1>0, <1>2, <2>1, <2>2 DEF NeverDeaf
<1>28. Indexed' /\ RunsListed'
  BY <1>0, <1>1 DEF Indexed, RunsListed, FirstRun, Tries, InFlight, Last
<1> QED
  BY <1>20, <1>21, <1>22, <1>23, <1>24, <1>25, <1>26, <1>27, <1>28 DEF IInv, ReadersServed, Faithful

\* An event of the replay is yielded.
LEMMA ReplayInv ==
    ASSUME IInv, NEW r \in Readers, Replay(r)
    PROVE  IInv'
<1>0. TypeOK /\ EndAhead
  BY Parts
<1> DEFINE n == Head(replay[r])
<1>1. /\ at[r] = "replaying" /\ replay[r] # <<>> /\ Yield(r, n)
      /\ replay' = [replay EXCEPT ![r] = Tail(@)]
      /\ UNCHANGED <<log, channels, of, queue, closed, runs, down>>
  BY DEF Replay
<1>2. /\ replay[r] \in Seq(Nat \ {0}) /\ replay[r] \in Seq(Nat)
      /\ got[r] \in Seq(Nat) /\ queue[r] \in Seq(Nat)
  BY <1>0, WholeType DEF TypeOK
<1>3. /\ n \in Nat \ {0} /\ Tail(replay[r]) \in Seq(Nat \ {0}) /\ n = replay[r][1]
      /\ Len(Tail(replay[r])) = Len(replay[r]) - 1 /\ Len(replay[r]) \in Nat
      /\ \A i \in 1 .. Len(Tail(replay[r])) : Tail(replay[r])[i] = replay[r][i + 1]
  BY <1>1, <1>2, HeadTailProperties, LenProperties
<1>4. replay'[r] = Tail(replay[r]) /\ got'[r] = Append(got[r], n)
      /\ \A s \in Readers : s # r => replay'[s] = replay[s] /\ got'[s] = got[s] /\ at'[s] = at[s]
  BY <1>0, <1>1 DEF Yield, TypeOK
<1>10. IsFinal(of[r], n) => at'[r] = "ended"
  BY <1>0, <1>1 DEF Yield, TypeOK
<1>5. \A s \in Readers : Whole(s)' = Whole(s)
  <2> SUFFICES ASSUME NEW s \in Readers
               PROVE  Whole(s)' = Whole(s)
    OBVIOUS
  <2>1. CASE s = r
    <3>1. Whole(r)' = Joined(Append(got[r], n), Tail(replay[r]), queue[r])
      BY <1>1, <1>4 DEF Whole, Joined
    <3>2. Joined(Append(got[r], n), Tail(replay[r]), queue[r]) = Joined(got[r], replay[r], queue[r])
      BY <1>1, <1>2, HeadMoved
    <3>3. Whole(r) = Joined(got[r], replay[r], queue[r])
      BY DEF Whole, Joined
    <3> QED
      BY <2>1, <3>1, <3>2, <3>3
  <2>2. CASE s # r
    BY <1>1, <1>4, <2>2 DEF Whole
  <2> QED
    BY <2>1, <2>2
<1>6. replay' \in [Readers -> Seq(Nat \ {0})] /\ queue' \in [Readers -> Seq(Nat)]
  BY <1>0, <1>1, <1>3 DEF TypeOK
<1>7. EndAhead'
  <2> SUFFICES ASSUME NEW s \in Pumps, at'[s] = "replaying", closed[s]
               PROVE  \E i \in 1 .. Len(replay'[s]) : log[of[s]][replay'[s][i]] \in Finals
    BY <1>1 DEF EndAhead, IsFinal
  <2>1. s \in Readers
    BY DEF Pumps
  <2>2. CASE s = r
    <3>1. PICK i \in 1 .. Len(replay[r]) : IsFinal(of[r], replay[r][i])
      BY <1>0, <1>1, <2>2 DEF EndAhead
    <3>2. ~IsFinal(of[r], n)
      <4>1. at'[r] = "replaying"
        BY <2>2
      <4> QED
        BY <1>10, <4>1
    <3>3. i # 1
      BY <1>3, <3>1, <3>2
    <3>4. i - 1 \in 1 .. Len(Tail(replay[r])) /\ (i - 1) + 1 = i
      BY <1>3, <3>3
    <3>5. Tail(replay[r])[i - 1] = replay[r][i]
      BY <1>3, <3>4
    <3>6. replay'[r] = Tail(replay[r]) /\ log[of[r]][replay[r][i]] \in Finals
      BY <1>4, <3>1 DEF IsFinal
    <3>7. log[of[r]][replay'[r][i - 1]] \in Finals /\ i - 1 \in 1 .. Len(replay'[r])
      BY <3>4, <3>5, <3>6
    <3> QED
      BY <2>2, <3>7
  <2>3. CASE s # r
    <3>1. at[s] = "replaying" /\ replay'[s] = replay[s]
      BY <1>4, <2>1, <2>3
    <3> QED
      BY <1>0, <3>1 DEF EndAhead, IsFinal
  <2> QED
    BY <2>2, <2>3
<1> HIDE DEF n
<1>8. n \in Nat \ {0} /\ Yield(r, n) /\ at[r] \in Reading /\ at[r] # "live"
  BY <1>1, <1>3 DEF Reading
<1>9. /\ UNCHANGED <<log, channels, of, closed, runs, down>>
      /\ \A s \in Readers : s # r => replay'[s] = replay[s] /\ queue'[s] = queue[s]
      /\ queue'[r] = queue[r]
  BY <1>1, <1>4
<1> QED
  BY <1>5, <1>6, <1>7, <1>8, <1>9, YieldInv

\* The replay is over: the reader goes live, or out.
LEMMA ReplayOverInv ==
    ASSUME IInv, NEW r \in Readers, ReplayOver(r)
    PROVE  IInv'
<1>0. /\ TypeOK /\ Standing /\ Histories /\ Subscribed /\ EndAhead /\ Indexed
      /\ NoGap /\ SeesTheEnd /\ NeverDeaf /\ RunsListed
  BY Parts
<1>1. at[r] = "replaying" /\ replay[r] = <<>>
  BY DEF ReplayOver
<1>2. CASE closed[r] /\ Exit(r, "shut")
  <2>1. r \notin Pumps
    <3>1. Len(replay[r]) = 0
      BY <1>1, EmptySeq
    <3>2. \A i \in 1 .. Len(replay[r]) : FALSE
      BY <3>1
    <3> QED
      BY <1>0, <1>1, <1>2, <3>2 DEF EndAhead
  <2> QED
    BY <1>2, <2>1, ExitInv
<1>3. CASE /\ at' = [at EXCEPT ![r] = "live"]
           /\ UNCHANGED <<log, channels, of, replay, queue, closed, got, runs, down>>
  <2>1. at'[r] = "live" /\ \A s \in Readers : s # r => at'[s] = at[s]
    BY <1>0, <1>3 DEF TypeOK
  <2>2. TypeOK'
    <3>1. at' \in [Readers -> Reading \union {"away", "ended", "over", "shut", "cut", "left"}]
      BY <1>0, <1>3 DEF TypeOK, Reading
    <3> QED
      BY <1>0, <1>3, <3>1 DEF TypeOK
  <2>3. \A s \in Readers : Whole(s)' = Whole(s)
    BY <1>3 DEF Whole
  <2>4. Standing'
    <3> SUFFICES ASSUME NEW s \in Readers
                 PROVE  /\ at'[s] = "away" => got[s] = <<>> /\ replay[s] = <<>> /\ queue[s] = <<>>
                        /\ at'[s] = "live" => replay[s] = <<>>
                        /\ \A i \in 1 .. Len(Whole(s)) : Whole(s)[i] <= Len(log[of[s]])
      BY <1>3, <2>3 DEF Standing
    <3> QED
      BY <1>0, <1>1, <2>1 DEF Standing
  <2>5. Histories' /\ NoGap' /\ Indexed' /\ RunsListed'
    BY <1>0, <1>3, <2>3 DEF Histories, IsFinal, NoGap, Indexed, RunsListed, FirstRun, Tries, InFlight, Last
  <2>6. Subscribed'
    <3> SUFFICES ASSUME NEW p \in DOMAIN channels, NEW s \in channels[p].subscribers
                 PROVE  /\ of[s] = p
                        /\ at'[s] \in Reading \union {"ended"}
                        /\ Whole(s)' # <<>> => Whole(s)'[Len(Whole(s)')] = Len(log[p]) /\ log[p] # <<>>
      BY <1>3 DEF Subscribed
    <3>1. s \in Readers
      BY <1>0 DEF TypeOK, Channels
    <3>2. of[s] = p /\ at[s] \in Reading \union {"ended"}
          /\ (Whole(s) # <<>> => Whole(s)[Len(Whole(s))] = Len(log[p]) /\ log[p] # <<>>)
      BY <1>0 DEF Subscribed
    <3>3. at'[s] \in {at[s], "live"} /\ Whole(s)' = Whole(s)
      BY <2>1, <2>3, <3>1
    <3> QED
      BY <3>2, <3>3 DEF Reading
  <2>7. EndAhead'
    <3> SUFFICES ASSUME NEW s \in Pumps, at'[s] = "replaying", closed[s]
                 PROVE  \E i \in 1 .. Len(replay[s]) : log[of[s]][replay[s][i]] \in Finals
      BY <1>3 DEF EndAhead, IsFinal
    <3>1. at[s] = "replaying"
      BY <2>1 DEF Pumps
    <3> QED
      BY <1>0, <3>1 DEF EndAhead, IsFinal
  <2>8. SeesTheEnd'
    <3> SUFFICES ASSUME NEW s \in Pumps, at'[s] \in {"ended", "over", "shut"}
                 PROVE  got[s] # <<>> /\ log[of[s]][got[s][Len(got[s])]] \in Finals
      BY <1>3 DEF SeesTheEnd, IsFinal
    <3>1. at[s] = at'[s]
      BY <2>1 DEF Pumps
    <3> QED
      BY <1>0, <3>1 DEF SeesTheEnd, IsFinal
  <2>9. NeverDeaf'
    <3> SUFFICES ASSUME NEW s \in Readers, at'[s] \in Reading
                 PROVE  \/ of[s] \in DOMAIN channels /\ s \in channels[of[s]].subscribers
                        \/ \E i \in DOMAIN queue[s] : queue[s][i] = 0
      BY <1>3 DEF NeverDeaf
    <3>1. at[s] \in Reading
      BY <1>1, <2>1 DEF Reading
    <3> QED
      BY <1>0, <3>1 DEF NeverDeaf
  <2> QED
    BY <2>2, <2>4, <2>5, <2>6, <2>7, <2>8, <2>9 DEF IInv, ReadersServed, Faithful
<1> QED
  BY <1>2, <1>3 DEF ReplayOver

\* A live reader takes from its queue.
LEMMA GetInv ==
    ASSUME IInv, NEW r \in Readers, Get(r)
    PROVE  IInv'
<1>0. TypeOK /\ Standing /\ EndAhead
  BY Parts
<1> DEFINE n == Head(queue[r])
<1>1. at[r] = "live" /\ queue[r] # <<>> /\ Free
  BY DEF Get
<1>2. CASE n = 0 /\ Exit(r, "cut")
  BY <1>2, ExitInv
<1>3. CASE /\ n # 0 /\ Yield(r, n)
           /\ queue' = [queue EXCEPT ![r] = Tail(@)]
           /\ UNCHANGED <<log, channels, of, replay, closed, runs, down>>
  <2>1. /\ got[r] \in Seq(Nat) /\ queue[r] \in Seq(Nat) /\ replay[r] = <<>>
    BY <1>0, <1>1, WholeType DEF Standing
  <2>2. /\ n \in Nat /\ Tail(queue[r]) \in Seq(Nat) /\ n = queue[r][1]
        /\ Len(Tail(queue[r])) = Len(queue[r]) - 1 /\ Len(queue[r]) \in Nat
        /\ \A i \in 1 .. Len(Tail(queue[r])) : Tail(queue[r])[i] = queue[r][i + 1]
    BY <1>1, <2>1, HeadTailProperties, LenProperties
  <2>3. DOMAIN queue[r] = 1 .. Len(queue[r]) /\ DOMAIN Tail(queue[r]) = 1 .. Len(Tail(queue[r]))
    BY <2>1, <2>2, LenProperties
  <2>4. queue'[r] = Tail(queue[r]) /\ got'[r] = Append(got[r], n)
        /\ \A s \in Readers : s # r => queue'[s] = queue[s] /\ got'[s] = got[s] /\ at'[s] = at[s]
    BY <1>0, <1>3 DEF Yield, TypeOK
  <2>5. \A s \in Readers : Whole(s)' = Whole(s)
    <3> SUFFICES ASSUME NEW s \in Readers
                 PROVE  Whole(s)' = Whole(s)
      OBVIOUS
    <3>1. CASE s = r
      <4>1. Whole(r)' = Joined(Append(got[r], n), <<>>, Tail(queue[r]))
        BY <1>3, <2>1, <2>4 DEF Whole, Joined
      <4>2. <<>> \in Seq(Nat)
        BY EmptySeq
      <4>3. Joined(Append(got[r], n), <<>>, Tail(queue[r])) = Joined(got[r], <<>>, queue[r])
        BY <1>1, <2>1, <4>2, HeadMoved
      <4>4. Whole(r) = Joined(got[r], <<>>, queue[r])
        BY <2>1 DEF Whole, Joined
      <4> QED
        BY <3>1, <4>1, <4>3, <4>4
    <3>2. CASE s # r
      BY <1>3, <2>4, <3>2 DEF Whole
    <3> QED
      BY <3>1, <3>2
  <2>6. replay' \in [Readers -> Seq(Nat \ {0})] /\ queue' \in [Readers -> Seq(Nat)]
    BY <1>0, <1>3, <2>2 DEF TypeOK
  <2>7. EndAhead'
    <3>1. \A s \in Pumps : at[s] # "replaying"
      BY <1>1 DEF Free, Holding
    <3>2. \A s \in Pumps : at'[s] # "replaying"
      BY <1>0, <1>1, <1>3, <3>1 DEF Yield, TypeOK, Pumps
    <3> QED
      BY <3>2 DEF EndAhead
  <2>8. (\E i \in DOMAIN queue[r] : queue[r][i] = 0) => \E i \in DOMAIN queue'[r] : queue'[r][i] = 0
    <3> SUFFICES ASSUME NEW i \in DOMAIN queue[r], queue[r][i] = 0
                 PROVE  \E j \in DOMAIN Tail(queue[r]) : Tail(queue[r])[j] = 0
      BY <2>4
    <3>1. i # 1
      BY <1>3, <2>2
    <3>2. i - 1 \in 1 .. Len(Tail(queue[r])) /\ (i - 1) + 1 = i
      BY <2>2, <2>3, <3>1
    <3>3. Tail(queue[r])[i - 1] = 0
      BY <2>2, <3>2
    <3> QED
      BY <2>3, <3>2, <3>3
  <2> HIDE DEF n
  <2>9. n \in Nat \ {0} /\ Yield(r, n) /\ at[r] \in Reading
    BY <1>1, <1>3, <2>2 DEF Reading
  <2>10. /\ UNCHANGED <<log, channels, of, closed, runs, down>>
         /\ \A s \in Readers : s # r => replay'[s] = replay[s] /\ queue'[s] = queue[s]
         /\ replay'[r] = <<>>
    BY <1>3, <2>1, <2>4
  <2> QED
    BY <2>5, <2>6, <2>7, <2>8, <2>9, <2>10, YieldInv
<1> QED
  BY <1>2, <1>3 DEF Get

\* It has ended, and is closed.
LEMMA FinishInv ==
    ASSUME IInv, NEW r \in Readers, Finish(r)
    PROVE  IInv'
<1>1. at[r] = "ended" /\ Exit(r, "over") /\ SeesTheEnd
  BY Parts DEF Finish
<1>2. r \in Pumps => got[r] # <<>> /\ IsFinal(of[r], got[r][Len(got[r])])
  BY <1>1 DEF SeesTheEnd
<1> QED
  BY <1>1, <1>2, ExitInv

\* It is cancelled.
LEMMA LeaveInv ==
    ASSUME IInv, NEW r \in Readers, Leave(r)
    PROVE  IInv'
<1>1. Exit(r, "left")
  BY DEF Leave
<1> QED
  BY <1>1, ExitInv

\* A reader joins with all that its channel has.
LEMMA SubscribeInv ==
    ASSUME IInv, NEW r \in Readers, Subscribe(r)
    PROVE  IInv'
<1> USE BusAssumption
<1>0. /\ TypeOK /\ Standing /\ Histories /\ Subscribed /\ EndAhead /\ Indexed
      /\ NoGap /\ SeesTheEnd /\ NeverDeaf /\ RunsListed
  BY Parts
<1> DEFINE q    == of[r]
           chs  == Touched(q)
           kept == Kept(chs)
<1>q. q \in Requests
  BY <1>0 DEF TypeOK
<1>1. /\ at[r] = "away" /\ Free
      /\ channels' = [kept EXCEPT ![q].subscribers = @ \union {r}]
      /\ queue' = [s \in Readers |-> IF s \in Dropped(chs) THEN Append(queue[s], 0) ELSE queue[s]]
      /\ at' = [at EXCEPT ![r] = "replaying"]
      /\ replay' = [replay EXCEPT ![r] = chs[q].history]
      /\ closed' = [closed EXCEPT ![r] = chs[q].closed]
      /\ UNCHANGED <<log, of, got, runs, down>>
  BY DEF Subscribe
<1>2. /\ q \in DOMAIN kept /\ DOMAIN kept \subseteq DOMAIN channels \union {q}
      /\ \A p \in DOMAIN kept : p # q => p \in DOMAIN channels /\ kept[p] = channels[p]
      /\ chs[q] \in Channels /\ chs[q].idle = 0 /\ kept[q] = chs[q]
      /\ q \in DOMAIN channels =>
           /\ chs[q].history = channels[q].history
           /\ chs[q].subscribers = channels[q].subscribers
           /\ chs[q].closed = channels[q].closed
      /\ q \notin DOMAIN channels =>
           chs[q].history = <<>> /\ chs[q].subscribers = {} /\ chs[q].closed = FALSE
      /\ \A p \in DOMAIN channels : p \notin DOMAIN kept =>
           channels[p].idle = Ttl /\ p # q /\ channels[p].subscribers \subseteq Dropped(chs)
      /\ \A s \in Dropped(chs) : \E p \in DOMAIN channels :
           p # q /\ p \notin DOMAIN kept /\ s \in channels[p].subscribers
  BY <1>0, <1>q, TouchedDoes
<1> HIDE DEF chs, q
<1> DEFINE c == chs[q]
           h == c.history
<1>3. /\ c \in Channels /\ h \in Seq(Nat \ {0}) /\ h \in Seq(Nat) /\ Len(h) \in Nat
      /\ c.closed \in BOOLEAN /\ c.subscribers \subseteq Readers
  <2>1. c \in Channels
    BY <1>2
  <2> HIDE DEF c
  <2>2. h \in Seq(Nat \ {0}) /\ c.closed \in BOOLEAN /\ c.subscribers \subseteq Readers
    BY <2>1 DEF Channels
  <2>3. h \in Seq(Nat)
    BY <2>2, SeqMonotonic
  <2> QED
    BY <2>1, <2>2, <2>3, LenProperties
<1>4. /\ Succeeds(h) /\ (h # <<>> => h[Len(h)] = Len(log[q]))
      /\ \A i \in 1 .. Len(h) : h[i] <= Len(log[q])
      /\ c.closed => \E i \in 1 .. Len(h) : IsFinal(q, h[i])
  <2>1. CASE q \in DOMAIN channels
    BY <1>0, <1>2, <2>1 DEF Histories
  <2>2. CASE q \notin DOMAIN channels
    <3>1. h = <<>> /\ Len(h) = 0 /\ c.closed = FALSE
      BY <1>2, <2>2, EmptySeq
    <3> QED
      BY <3>1 DEF Succeeds
  <2> QED
    BY <2>1, <2>2
<1>5. Chain(h) /\ (h # <<>> => log[q] # <<>>)
  <2> HIDE DEF h
  <2>1. \A i \in 1 .. Len(h) : h[i] \in Nat \ {0}
    BY <1>3, ElementOfSeq
  <2>2. Chain(h)
    <3>1. \A i \in 1 .. Len(h) - 1 : i \in 1 .. Len(h)
      BY <1>3
    <3> QED
      BY <1>4, <2>1, <3>1 DEF Chain, Succeeds
  <2>3. ASSUME h # <<>>
        PROVE  log[q] # <<>>
    <3>1. Len(h) \in 1 .. Len(h)
      BY <1>3, <2>3, LenProperties, EmptySeq
    <3>2. Len(log[q]) # 0
      BY <1>4, <2>1, <2>3, <3>1
    <3> QED
      BY <3>2, EmptySeq
  <2> QED
    BY <2>2, <2>3
<1> DEFINE d == channels'[q]
<1>6. /\ d = [c EXCEPT !.subscribers = @ \union {r}]
      /\ DOMAIN channels' = DOMAIN kept
      /\ \A p \in DOMAIN kept : p # q => channels'[p] = channels[p]
  BY <1>1, <1>2
<1> HIDE DEF kept
<1>7. d \in Channels /\ d.history = h /\ d.closed = c.closed /\ d.subscribers = c.subscribers \union {r}
  <2> HIDE DEF c, d
  <2> QED
    BY <1>3, <1>6 DEF Channels
<1> HIDE DEF d, c, h
<1>8. /\ got[r] = <<>> /\ replay[r] = <<>> /\ queue[r] = <<>>
      /\ \A p \in DOMAIN channels : r \notin channels[p].subscribers
  BY <1>0, <1>1 DEF Standing, Subscribed, Reading
<1>9. /\ at'[r] = "replaying" /\ replay'[r] = h /\ closed'[r] = c.closed
      /\ \A s \in Readers : s # r => at'[s] = at[s] /\ replay'[s] = replay[s] /\ closed'[s] = closed[s]
  BY <1>0, <1>1 DEF TypeOK, h, c
<1>10. \A s \in Dropped(chs) : s \in Readers /\ s # r
         /\ \E p \in DOMAIN channels : s \in channels[p].subscribers /\ of[s] = p /\ p # q /\ p \notin DOMAIN kept
  <2> TAKE s \in Dropped(chs)
  <2>1. PICK p \in DOMAIN channels : p # q /\ p \notin DOMAIN kept /\ s \in channels[p].subscribers
    BY <1>2
  <2>2. s \in Readers /\ s # r
    BY <1>0, <1>8, <2>1 DEF TypeOK, Channels
  <2> QED
    BY <1>0, <2>1, <2>2 DEF Subscribed
<1>11. ASSUME NEW s \in Dropped(chs)
       PROVE  /\ Chain(Whole(s)') /\ Whole(s)' \in Seq(Nat) /\ Grown(Whole(s), 0, Whole(s)')
              /\ queue'[s] \in Seq(Nat) /\ Grown(queue[s], 0, queue'[s])
  <2>1. s \in Readers /\ s # r
    BY <1>10
  <2>2. PICK p \in DOMAIN channels : s \in channels[p].subscribers
    BY <1>10
  <2>3. queue'[s] = Append(queue[s], 0)
    BY <1>1, <2>1
  <2>4. Whole(s)' = Joined(got[s], replay[s], queue'[s])
    BY <1>1, <1>9, <2>1 DEF Whole, Joined
  <2>5. queue'[s] \in Seq(Nat) /\ Grown(queue[s], 0, queue'[s])
    <3>1. queue[s] \in Seq(Nat)
      BY <1>0, <2>1, WholeType
    <3> QED
      BY <2>3, <3>1, AppendProperties DEF Grown
  <2>6. TypeOK /\ NoGap /\ Subscribed
    BY <1>0
  <2>7. /\ Joined(got[s], replay[s], queue'[s]) \in Seq(Nat)
        /\ Chain(Joined(got[s], replay[s], queue'[s]))
        /\ Grown(Whole(s), 0, Joined(got[s], replay[s], queue'[s]))
    BY <2>2, <2>5, <2>6, ReaderFed
  <2> QED
    BY <2>4, <2>5, <2>7
<1>12. \A s \in Readers : s # r /\ s \notin Dropped(chs) => Whole(s)' = Whole(s) /\ queue'[s] = queue[s]
  BY <1>1, <1>9 DEF Whole
<1>13. Whole(r)' = h /\ queue'[r] = <<>>
  <2>1. queue'[r] = <<>>
    BY <1>1, <1>8, <1>10
  <2>2. Whole(r)' = Joined(<<>>, h, <<>>)
    BY <1>1, <1>8, <1>9, <2>1 DEF Whole, Joined
  <2>3. <<>> \in Seq(Nat)
    BY EmptySeq
  <2>4. Joined(<<>>, h, <<>>) = h
    BY <1>3, <2>3, HeadMoved
  <2> QED
    BY <2>1, <2>2, <2>4
<1>20. TypeOK'
  <2>1. queue' \in [Readers -> Seq(Nat)]
    <3>1. \A s \in Readers : queue[s] \in Seq(Nat)
      BY <1>0 DEF TypeOK
    <3>2. \A s \in Readers : Append(queue[s], 0) \in Seq(Nat)
      BY <3>1, AppendProperties
    <3> QED
      BY <1>1, <3>1, <3>2
  <2>2. /\ replay' \in [Readers -> Seq(Nat \ {0})] /\ closed' \in [Readers -> BOOLEAN]
        /\ at' \in [Readers -> Reading \union {"away", "ended", "over", "shut", "cut", "left"}]
    BY <1>0, <1>1, <1>3 DEF TypeOK, Reading, h, c
  <2>3. DOMAIN channels' \subseteq Requests /\ \A p \in DOMAIN channels' : channels'[p] \in Channels
    BY <1>0, <1>q, <1>2, <1>6, <1>7 DEF TypeOK, d
  <2> QED
    BY <1>0, <1>1, <2>1, <2>2, <2>3 DEF TypeOK
<1>21. Standing'
  <2> SUFFICES ASSUME NEW s \in Readers
               PROVE  /\ at'[s] = "away" => got[s] = <<>> /\ replay'[s] = <<>> /\ queue'[s] = <<>>
                      /\ at'[s] = "live" => replay'[s] = <<>>
                      /\ \A i \in 1 .. Len(Whole(s)') : Whole(s)'[i] <= Len(log[of[s]])
    BY <1>1 DEF Standing
  <2>1. CASE s = r
    BY <1>4, <1>9, <1>13, <2>1 DEF q
  <2>2. CASE s \in Dropped(chs)
    <3>1. at'[s] = at[s] /\ at[s] # "away" /\ replay'[s] = replay[s]
      BY <1>0, <1>9, <1>10 , <2>2 DEF Subscribed, Reading
    <3>2. Len(Whole(s)) \in Nat
      BY <1>0, WholeType
    <3>3. 0 <= Len(log[of[s]])
      BY <1>0, LenProperties DEF TypeOK
    <3>4. \A i \in 1 .. Len(Whole(s)') : Whole(s)'[i] <= Len(log[of[s]])
      <4> TAKE i \in 1 .. Len(Whole(s)')
      <4>1. i \in 1 .. Len(Whole(s)) \/ i = Len(Whole(s)) + 1
        BY <1>11, <2>2, <3>2 DEF Grown
      <4>2. Whole(s)'[Len(Whole(s)) + 1] = 0 /\ \A j \in 1 .. Len(Whole(s)) : Whole(s)'[j] = Whole(s)[j]
        BY <1>11, <2>2 DEF Grown
      <4>3. \A j \in 1 .. Len(Whole(s)) : Whole(s)[j] <= Len(log[of[s]])
        BY <1>0 DEF Standing
      <4> QED
        BY <3>3, <4>1, <4>2, <4>3
    <3> QED
      BY <1>0, <3>1, <3>4 DEF Standing
  <2>3. CASE s # r /\ s \notin Dropped(chs)
    <3>1. at'[s] = at[s] /\ replay'[s] = replay[s] /\ Whole(s)' = Whole(s) /\ queue'[s] = queue[s]
      BY <1>9, <1>12, <2>3
    <3> QED
      BY <1>0, <3>1 DEF Standing
  <2> QED
    BY <2>1, <2>2, <2>3
<1>22. Histories'
  <2> SUFFICES ASSUME NEW p \in DOMAIN channels'
               PROVE  LET k == channels'[p].history
                      IN  /\ Succeeds(k)
                          /\ k # <<>> => k[Len(k)] = Len(log[p])
                          /\ \A i \in 1 .. Len(k) : k[i] <= Len(log[p])
                          /\ channels'[p].closed => \E i \in 1 .. Len(k) : IsFinal(p, k[i])
    BY <1>1 DEF Histories, IsFinal
  <2>1. CASE p = q
    BY <1>4, <1>7, <2>1 DEF d
  <2>2. CASE p # q
    <3>1. p \in DOMAIN channels /\ channels'[p] = channels[p]
      BY <1>2, <1>6, <2>2
    <3> QED
      BY <1>0, <3>1 DEF Histories
  <2> QED
    BY <2>1, <2>2
<1>23. Subscribed'
  <2> SUFFICES ASSUME NEW p \in DOMAIN channels', NEW s \in channels'[p].subscribers
               PROVE  /\ of[s] = p
                      /\ at'[s] \in Reading \union {"ended"}
                      /\ Whole(s)' # <<>> => Whole(s)'[Len(Whole(s)')] = Len(log[p]) /\ log[p] # <<>>
    BY <1>1 DEF Subscribed
  <2>1. CASE p = q /\ s = r
    <3>1. at'[s] \in Reading \union {"ended"}
      BY <1>9, <2>1 DEF Reading
    <3> QED
      BY <1>4, <1>5, <1>13, <2>1, <3>1 DEF q
  <2>2. CASE ~(p = q /\ s = r)
    <3>1. p \in DOMAIN channels /\ s \in channels[p].subscribers
      <4>1. CASE p = q
        <5>1. s \in c.subscribers
          BY <1>7, <2>2, <4>1 DEF d
        <5> QED
          BY <1>2, <4>1, <5>1 DEF c
      <4>2. CASE p # q
        BY <1>2, <1>6, <4>2
      <4> QED
        BY <4>1, <4>2
    <3>2. s \in Readers /\ s # r
      BY <1>0, <1>8, <3>1 DEF TypeOK, Channels
    <3>3. p \in DOMAIN kept
      BY <1>6
    <3>4. s \notin Dropped(chs)
      BY <1>0, <1>10, <3>1, <3>3 DEF Subscribed
    <3>5. of[s] = p /\ at[s] \in Reading \union {"ended"}
          /\ (Whole(s) # <<>> => Whole(s)[Len(Whole(s))] = Len(log[p]) /\ log[p] # <<>>)
      BY <1>0, <3>1 DEF Subscribed
    <3>6. at'[s] = at[s] /\ Whole(s)' = Whole(s)
      BY <1>9, <1>12, <3>2, <3>4
    <3> QED
      BY <3>5, <3>6
  <2> QED
    BY <2>1, <2>2
<1>24. EndAhead'
  <2> SUFFICES ASSUME NEW s \in Pumps, at'[s] = "replaying", closed'[s]
               PROVE  \E i \in 1 .. Len(replay'[s]) : IsFinal(of[s], replay'[s][i])
    BY <1>1 DEF EndAhead, IsFinal
  <2>1. s = r
    BY <1>1, <1>9 DEF Free, Holding, Pumps
  <2> QED
    BY <1>4, <1>9, <2>1 DEF q
<1>25. NoGap'
  <2> SUFFICES ASSUME NEW s \in Readers
               PROVE  Chain(Whole(s)')
    BY DEF NoGap, Chain
  <2>1. Chain(Whole(s))
    BY <1>0 DEF NoGap, Chain
  <2>2. CASE s = r
    BY <1>5, <1>13, <2>2
  <2>3. CASE s \in Dropped(chs)
    BY <1>11, <2>3
  <2>4. CASE s # r /\ s \notin Dropped(chs)
    BY <1>12, <2>1, <2>4
  <2> QED
    BY <2>2, <2>3, <2>4
<1>26. SeesTheEnd'
  <2> SUFFICES ASSUME NEW s \in Pumps, at'[s] \in {"ended", "over", "shut"}
               PROVE  got[s] # <<>> /\ IsFinal(of[s], got[s][Len(got[s])])
    BY <1>1 DEF SeesTheEnd, IsFinal
  <2>1. s # r
    BY <1>9
  <2>2. at[s] = at'[s]
    BY <1>9, <2>1 DEF Pumps
  <2> QED
    BY <1>0, <2>2 DEF SeesTheEnd
<1>27. NeverDeaf'
  <2> SUFFICES ASSUME NEW s \in Readers, at'[s] \in Reading
               PROVE  \/ of[s] \in DOMAIN channels' /\ s \in channels'[of[s]].subscribers
                      \/ \E i \in DOMAIN queue'[s] : queue'[s][i] = 0
    BY <1>1 DEF NeverDeaf
  <2>1. CASE s = r
    BY <1>2, <1>6, <1>7, <2>1 DEF d, q
  <2>2. CASE s \in Dropped(chs)
    <3>1. queue[s] \in Seq(Nat) /\ Len(queue[s]) \in Nat
      BY <1>0, WholeType, LenProperties
    <3>2. queue'[s] \in Seq(Nat) /\ Len(queue'[s]) = Len(queue[s]) + 1 /\ queue'[s][Len(queue[s]) + 1] = 0
      BY <1>11, <2>2 DEF Grown
    <3>3. Len(queue[s]) + 1 \in 1 .. Len(queue'[s])
      BY <3>1, <3>2
    <3>4. DOMAIN queue'[s] = 1 .. Len(queue'[s])
      BY <3>2, LenProperties
    <3> QED
      BY <3>2, <3>3, <3>4
  <2>3. CASE s # r /\ s \notin Dropped(chs)
    <3>1. at[s] \in Reading /\ queue'[s] = queue[s]
      BY <1>9, <1>12, <2>3
    <3>2. CASE of[s] \in DOMAIN channels /\ s \in channels[of[s]].subscribers
      <4>1. of[s] \in DOMAIN kept
        BY <1>2, <2>3, <3>2
      <4>2. CASE of[s] = q
        BY <1>2, <1>6, <1>7, <3>2, <4>1, <4>2 DEF d, c
      <4>3. CASE of[s] # q
        BY <1>6, <3>2, <4>1, <4>3
      <4> QED
        BY <4>2, <4>3
    <3>3. CASE \E i \in DOMAIN queue[s] : queue[s][i] = 0
      BY <3>1, <3>3
    <3> QED
      BY <1>0, <3>1, <3>2, <3>3 DEF NeverDeaf
  <2> QED
    BY <2>1, <2>2, <2>3
<1>28. Indexed' /\ RunsListed'
  BY <1>0, <1>1 DEF Indexed, RunsListed, FirstRun, Tries, InFlight, Last
<1> QED
  BY <1>20, <1>21, <1>22, <1>23, <1>24, <1>25, <1>26, <1>27, <1>28 DEF IInv, ReadersServed, Faithful

\* Whoever asks for the runs sweeps the index, and nothing else.
LEMMA SnapshotInv ==
    ASSUME IInv, Snapshot
    PROVE  IInv'
<1>0. /\ TypeOK /\ Standing /\ Histories /\ Subscribed /\ EndAhead /\ Indexed
      /\ NoGap /\ SeesTheEnd /\ NeverDeaf /\ RunsListed
  BY Parts
<1>1. runs' \in Evicted(runs) /\ UNCHANGED <<log, channels, at, of, replay, queue, closed, got, down>>
  BY DEF Snapshot, readerVars
<1>2. /\ DOMAIN runs' \subseteq DOMAIN runs /\ IsFiniteSet(DOMAIN runs')
      /\ \A p \in DOMAIN runs' : runs'[p] = runs[p]
      /\ \A p \in DOMAIN runs : ~Over(runs[p]) => p \in DOMAIN runs'
      /\ Cardinality(DOMAIN runs') > MaxRuns => \A p \in DOMAIN runs' : ~Over(runs'[p])
  BY <1>0, <1>1, EvictedDoes DEF Indexed
<1>3. TypeOK'
  BY <1>0, <1>1, <1>2 DEF TypeOK
<1>4. Indexed'
  BY <1>0, <1>1, <1>2 DEF Indexed, FirstRun, Tries, Over
<1>5. RunsListed'
  <2> SUFFICES ASSUME ~down
               PROVE  /\ \A p \in Requests : InFlight(p) /\ FirstRun(p) => p \in DOMAIN runs' /\ ~Over(runs'[p])
                      /\ Cardinality(DOMAIN runs') > MaxRuns => \A p \in DOMAIN runs' : ~Over(runs'[p])
    BY <1>1 DEF RunsListed, Over, InFlight, Last, FirstRun, Tries
  <2>1. ASSUME NEW p \in Requests, InFlight(p), FirstRun(p)
        PROVE  p \in DOMAIN runs' /\ ~Over(runs'[p])
    <3>1. p \in DOMAIN runs /\ ~Over(runs[p])
      BY <1>0, <2>1 DEF RunsListed
    <3> QED
      BY <1>2, <3>1
  <2> QED
    BY <1>2, <2>1
<1>6. Standing'
  BY <1>0, <1>1 DEF Standing, Whole
<1>8. Subscribed'
  BY <1>0, <1>1 DEF Subscribed, Whole
<1>9. NoGap'
  BY <1>0, <1>1 DEF NoGap, Whole
<1>7. Histories' /\ EndAhead' /\ SeesTheEnd' /\ NeverDeaf'
  BY <1>0, <1>1 DEF Histories, EndAhead, SeesTheEnd, NeverDeaf, IsFinal
<1> QED
  BY <1>3, <1>4, <1>5, <1>6, <1>7, <1>8, <1>9 DEF IInv, ReadersServed, Faithful

\* Closing the bus lets every subscriber go.
LEMMA CloseInv ==
    ASSUME IInv, Close
    PROVE  IInv'
<1>0. /\ TypeOK /\ Standing /\ Histories /\ Subscribed /\ EndAhead /\ Indexed
      /\ NoGap /\ SeesTheEnd /\ NeverDeaf /\ RunsListed
  BY Parts
<1> DEFINE Told(r) == \E q \in DOMAIN channels : r \in channels[q].subscribers
<1>1. /\ down' = TRUE /\ Free /\ DOMAIN runs' = {} /\ DOMAIN channels' = {}
      /\ queue' = [r \in Readers |-> IF Told(r) THEN Append(queue[r], 0) ELSE queue[r]]
      /\ UNCHANGED <<log, at, of, replay, closed, got>>
  BY DEF Close, Empty
<1>2. ASSUME NEW r \in Readers, Told(r)
      PROVE  /\ Chain(Whole(r)') /\ Whole(r)' \in Seq(Nat) /\ Grown(Whole(r), 0, Whole(r)')
             /\ queue'[r] \in Seq(Nat) /\ Grown(queue[r], 0, queue'[r])
  <2>1. PICK q \in DOMAIN channels : r \in channels[q].subscribers
    BY <1>2
  <2>2. TypeOK /\ NoGap /\ Subscribed
    BY <1>0
  <2>3. got' = got /\ replay' = replay /\ queue'[r] = Append(queue[r], 0)
    BY <1>1, <1>2
  <2> QED
    BY <2>1, <2>2, <2>3, WholeFed
<1>3. ASSUME NEW r \in Readers, ~Told(r)
      PROVE  Whole(r)' = Whole(r) /\ queue'[r] = queue[r]
  BY <1>1, <1>3 DEF Whole
<1>4. ASSUME NEW r \in Readers, Told(r)
      PROVE  at[r] \in Reading \union {"ended"}
  BY <1>0, <1>4 DEF Subscribed
<1> HIDE DEF Told
<1>20. TypeOK'
  <2>1. \A r \in Readers : queue'[r] \in Seq(Nat)
    BY <1>0, <1>2, <1>3 DEF TypeOK
  <2>2. queue' \in [Readers -> Seq(Nat)]
    BY <1>1, <2>1
  <2> QED
    BY <1>0, <1>1, <2>2 DEF TypeOK
<1>21. Standing'
  <2> SUFFICES ASSUME NEW s \in Readers
               PROVE  /\ at[s] = "away" => got[s] = <<>> /\ replay[s] = <<>> /\ queue'[s] = <<>>
                      /\ at[s] = "live" => replay[s] = <<>>
                      /\ \A i \in 1 .. Len(Whole(s)') : Whole(s)'[i] <= Len(log[of[s]])
    BY <1>1 DEF Standing
  <2>1. CASE Told(s)
    <3>1. at[s] # "away"
      BY <1>4, <2>1 DEF Reading
    <3>2. Len(Whole(s)) \in Nat
      BY <1>0, WholeType
    <3>3. 0 <= Len(log[of[s]])
      BY <1>0, LenProperties DEF TypeOK
    <3>4. \A i \in 1 .. Len(Whole(s)') : Whole(s)'[i] <= Len(log[of[s]])
      <4> TAKE i \in 1 .. Len(Whole(s)')
      <4>1. i \in 1 .. Len(Whole(s)) \/ i = Len(Whole(s)) + 1
        BY <1>2, <2>1, <3>2 DEF Grown
      <4>2. Whole(s)'[Len(Whole(s)) + 1] = 0 /\ \A j \in 1 .. Len(Whole(s)) : Whole(s)'[j] = Whole(s)[j]
        BY <1>2, <2>1 DEF Grown
      <4>3. \A j \in 1 .. Len(Whole(s)) : Whole(s)[j] <= Len(log[of[s]])
        BY <1>0 DEF Standing
      <4> QED
        BY <3>3, <4>1, <4>2, <4>3
    <3> QED
      BY <1>0, <3>1, <3>4 DEF Standing
  <2>2. CASE ~Told(s)
    BY <1>0, <1>3, <2>2 DEF Standing
  <2> QED
    BY <2>1, <2>2
<1>22. Histories' /\ Subscribed'
  BY <1>1 DEF Histories, Subscribed
<1>24. EndAhead' /\ SeesTheEnd'
  BY <1>0, <1>1 DEF EndAhead, SeesTheEnd, IsFinal
<1>25. NoGap'
  <2> SUFFICES ASSUME NEW s \in Readers
               PROVE  Chain(Whole(s)')
    BY DEF NoGap, Chain
  <2>1. Chain(Whole(s))
    BY <1>0 DEF NoGap, Chain
  <2> QED
    BY <1>2, <1>3, <2>1
<1>27. NeverDeaf'
  <2> SUFFICES ASSUME NEW s \in Readers, at[s] \in Reading
               PROVE  \E i \in DOMAIN queue'[s] : queue'[s][i] = 0
    BY <1>1 DEF NeverDeaf
  <2>1. CASE Told(s)
    <3>1. queue[s] \in Seq(Nat) /\ Len(queue[s]) \in Nat
      BY <1>0, WholeType, LenProperties
    <3>2. queue'[s] \in Seq(Nat) /\ Len(queue'[s]) = Len(queue[s]) + 1 /\ queue'[s][Len(queue[s]) + 1] = 0
      BY <1>2, <2>1 DEF Grown
    <3>3. Len(queue[s]) + 1 \in 1 .. Len(queue'[s])
      BY <3>1, <3>2
    <3>4. DOMAIN queue'[s] = 1 .. Len(queue'[s])
      BY <3>2, LenProperties
    <3> QED
      BY <3>2, <3>3, <3>4
  <2>2. CASE ~Told(s)
    <3>1. \E i \in DOMAIN queue[s] : queue[s][i] = 0
      BY <1>0, <2>2 DEF NeverDeaf, Told
    <3> QED
      BY <1>3, <2>2, <3>1
  <2> QED
    BY <2>1, <2>2
<1>28. Indexed' /\ RunsListed'
  BY <1>1, FS_EmptySet DEF Indexed, RunsListed
<1> QED
  BY <1>20, <1>21, <1>22, <1>24, <1>25, <1>27, <1>28 DEF IInv, ReadersServed, Faithful

\* Time passes.
LEMMA TickInv ==
    ASSUME IInv, Tick
    PROVE  IInv'
<1> USE BusAssumption
<1>0. /\ TypeOK /\ Standing /\ Histories /\ Subscribed /\ EndAhead /\ Indexed
      /\ NoGap /\ SeesTheEnd /\ NeverDeaf /\ RunsListed
  BY Parts
<1>1. /\ channels' = [q \in DOMAIN channels |-> [channels[q] EXCEPT !.idle = Older(@)]]
      /\ runs' = [q \in DOMAIN runs |-> [runs[q] EXCEPT !.idle = Older(@)]]
      /\ UNCHANGED <<log, at, of, replay, queue, closed, got, down>>
  BY DEF Tick, readerVars
<1>2. \A n \in 0 .. Ttl : Older(n) \in 0 .. Ttl
  BY DEF Older
<1>3. /\ DOMAIN channels' = DOMAIN channels
      /\ \A q \in DOMAIN channels :
           /\ channels'[q] \in Channels
           /\ channels'[q].history = channels[q].history
           /\ channels'[q].closed = channels[q].closed
           /\ channels'[q].subscribers = channels[q].subscribers
  <2>1. ASSUME NEW q \in DOMAIN channels
        PROVE  /\ channels'[q] \in Channels
               /\ channels'[q].history = channels[q].history
               /\ channels'[q].closed = channels[q].closed
               /\ channels'[q].subscribers = channels[q].subscribers
    <3> DEFINE c == channels[q]
               d == channels'[q]
    <3>1. c \in Channels
      BY <1>0 DEF TypeOK
    <3>2. d = [c EXCEPT !.idle = Older(@)]
      BY <1>1
    <3> HIDE DEF c, d
    <3>3. d \in Channels /\ d.history = c.history /\ d.closed = c.closed /\ d.subscribers = c.subscribers
      BY <1>2, <3>1, <3>2 DEF Channels
    <3> QED
      BY <3>3 DEF c, d
  <2> QED
    BY <1>1, <2>1
<1>4. /\ DOMAIN runs' = DOMAIN runs
      /\ \A q \in DOMAIN runs : runs'[q] \in Entries /\ runs'[q].state = runs[q].state
  <2>1. ASSUME NEW q \in DOMAIN runs
        PROVE  runs'[q] \in Entries /\ runs'[q].state = runs[q].state
    <3> DEFINE c == runs[q]
               d == runs'[q]
    <3>1. c \in Entries
      BY <1>0 DEF TypeOK
    <3>2. d = [c EXCEPT !.idle = Older(@)]
      BY <1>1
    <3> HIDE DEF c, d
    <3>3. d \in Entries /\ d.state = c.state
      BY <1>2, <3>1, <3>2 DEF Entries
    <3> QED
      BY <3>3 DEF c, d
  <2> QED
    BY <1>1, <2>1
<1>5. TypeOK'
  BY <1>0, <1>1, <1>3, <1>4 DEF TypeOK
<1>6. Standing' /\ NoGap'
  BY <1>0, <1>1 DEF Standing, NoGap, Whole
<1>7. Subscribed'
  <2> SUFFICES ASSUME NEW p \in DOMAIN channels, NEW s \in channels[p].subscribers
               PROVE  /\ of[s] = p
                      /\ at[s] \in Reading \union {"ended"}
                      /\ Whole(s)' # <<>> => Whole(s)'[Len(Whole(s)')] = Len(log[p]) /\ log[p] # <<>>
    BY <1>1, <1>3 DEF Subscribed
  <2>1. Whole(s)' = Whole(s)
    BY <1>1 DEF Whole
  <2> QED
    BY <1>0, <2>1 DEF Subscribed
<1>8. Histories'
  BY <1>0, <1>1, <1>3 DEF Histories, IsFinal
<1>9. EndAhead' /\ SeesTheEnd'
  BY <1>0, <1>1 DEF EndAhead, SeesTheEnd, IsFinal
<1>10. NeverDeaf'
  BY <1>0, <1>1, <1>3 DEF NeverDeaf
<1>11. \A q \in Requests : (FirstRun(q)' <=> FirstRun(q)) /\ (InFlight(q)' <=> InFlight(q))
  BY <1>1 DEF FirstRun, Tries, InFlight, Last
<1>12. Indexed'
  <2>1. DOMAIN runs \subseteq Requests
    BY <1>0 DEF TypeOK
  <2> QED
    BY <1>0, <1>4, <1>11, <2>1 DEF Indexed, Over
<1>13. RunsListed'
  BY <1>0, <1>1, <1>4, <1>11 DEF RunsListed, Over
<1> QED
  BY <1>5, <1>6, <1>7, <1>8, <1>9, <1>10, <1>12, <1>13 DEF IInv, ReadersServed, Faithful

\* Every step keeps the inductive invariant.
LEMMA StepInv == IInv /\ [Next]_vars => IInv'
<1> SUFFICES ASSUME IInv, [Next]_vars
             PROVE  IInv'
  OBVIOUS
<1>1. CASE \E q \in Requests, kind \in Vocabulary : Publish(q, kind)
  BY <1>1, PublishInv
<1>2. CASE \E r \in Readers : Subscribe(r) \/ ReaderStep(r) \/ Leave(r)
  <2>1. PICK r \in Readers : Subscribe(r) \/ ReaderStep(r) \/ Leave(r)
    BY <1>2
  <2>2. CASE Subscribe(r)
    BY <2>2, SubscribeInv
  <2>3. CASE Replay(r)
    BY <2>3, ReplayInv
  <2>4. CASE ReplayOver(r)
    BY <2>4, ReplayOverInv
  <2>5. CASE Get(r)
    BY <2>5, GetInv
  <2>6. CASE Finish(r)
    BY <2>6, FinishInv
  <2>7. CASE Leave(r)
    BY <2>7, LeaveInv
  <2> QED
    BY <2>1, <2>2, <2>3, <2>4, <2>5, <2>6, <2>7 DEF ReaderStep
<1>3. CASE Snapshot
  BY <1>3, SnapshotInv
<1>4. CASE Close
  BY <1>4, CloseInv
<1>5. CASE Tick
  BY <1>5, TickInv
<1>6. CASE UNCHANGED vars
  <2>1. TypeOK /\ Indexed /\ RunsListed /\ Standing /\ Subscribed /\ NoGap
        /\ Histories /\ EndAhead /\ SeesTheEnd /\ NeverDeaf
    BY Parts
  <2>2. TypeOK' /\ Indexed' /\ RunsListed'
    BY <1>6, <2>1 DEF vars, TypeOK, Indexed, RunsListed, FirstRun, Tries, InFlight, Last, Over
  <2>3. Standing'
    BY <1>6, <2>1 DEF vars, Standing, Whole
  <2>5. Subscribed'
    BY <1>6, <2>1 DEF vars, Subscribed, Whole
  <2>6. NoGap'
    BY <1>6, <2>1 DEF vars, NoGap, Whole
  <2>4. Histories' /\ EndAhead' /\ SeesTheEnd' /\ NeverDeaf'
    BY <1>6, <2>1 DEF vars, Histories, EndAhead, SeesTheEnd, NeverDeaf, IsFinal
  <2> QED
    BY <2>2, <2>3, <2>4, <2>5, <2>6 DEF IInv, ReadersServed, Faithful
<1> QED
  BY <1>1, <1>2, <1>3, <1>4, <1>5, <1>6 DEF Next

\* It is inductive.
LEMMA Inductive == Spec => []IInv
<1> QED
  BY InitInv, StepInv, PTL DEF Spec

(***************************************************************************)
(* The theorems                                                            *)
(***************************************************************************)
\* The feed's state keeps its types.
THEOREM TypeCorrect == Spec => []TypeOK
<1>1. IInv => TypeOK
  BY DEF IInv
<1> QED
  BY <1>1, Inductive, PTL

\* InMemoryEventBus: a reader is told what its channel has in order, once and to
\* the end, and is never left waiting on a queue nothing puts into any more.
THEOREM ServedOrReleased == Spec => []ReadersServed
<1>1. IInv => ReadersServed
  BY DEF IInv
<1> QED
  BY <1>1, Inductive, PTL

\* RunIndexBus: a run in flight is listed as such, and only runs in flight take
\* the index beyond its limit.
THEOREM IndexKnowsRuns == Spec => []RunsListed
<1>1. IInv => RunsListed
  BY DEF IInv
<1> QED
  BY <1>1, Inductive, PTL

\* A channel that a touch evicts is past its time, and is not the one touched.
LEMMA KeptOrExpired ==
    ASSUME TypeOK, NEW q \in Requests
    PROVE  /\ q \in DOMAIN Kept(Touched(q))
           /\ \A m \in DOMAIN channels :
                m \notin DOMAIN Kept(Touched(q)) => channels[m].idle = Ttl /\ m # q
<1>1. q \in DOMAIN Kept(Touched(q))
  BY TouchedDoes, ZenonT(30)
<1>2. ASSUME NEW m \in DOMAIN channels, m \notin DOMAIN Kept(Touched(q))
      PROVE  channels[m].idle = Ttl /\ m # q
  <2>1. m # q
    BY <1>1, <1>2
  <2>2. m \in DOMAIN Touched(q) /\ Touched(q)[m] = channels[m]
    BY <2>1 DEF Touched
  <2>3. m \in Expired(Touched(q))
    BY <1>2, <2>2 DEF Kept
  <2> QED
    BY <2>1, <2>2, <2>3 DEF Expired
<1> QED
  BY <1>1, <1>2

\* A history goes only when its channel is past its time and another is touched.
LEMMA ChannelKept ==
    ASSUME TypeOK, NEW q \in Requests, NEW p \in DOMAIN channels,
           DOMAIN channels' = DOMAIN Kept(Touched(q)),
           \A m \in DOMAIN Kept(Touched(q)) : m # q => channels'[m] = channels[m],
           channels'[q].idle = 0,
           p = q => Retained(p)
    PROVE  Retained(p) \/ (channels[p].idle = Ttl /\ \E m \in Requests \ {p} : TouchedOnly(m))
<1> DEFINE kept == Kept(Touched(q))
<1>1. /\ q \in DOMAIN kept
      /\ \A m \in DOMAIN channels : m \notin DOMAIN kept => channels[m].idle = Ttl /\ m # q
  BY KeptOrExpired
<1> HIDE DEF kept
<1>2. CASE p \notin DOMAIN kept
  <2>1. channels[p].idle = Ttl /\ q \in Requests \ {p}
    BY <1>1, <1>2
  <2>2. TouchedOnly(q)
    BY <1>1 DEF TouchedOnly, kept
  <2> QED
    BY <2>1, <2>2
<1>3. CASE p \in DOMAIN kept /\ p # q
  <2>1. p \in DOMAIN channels' /\ channels'[p] = channels[p]
    BY <1>3 DEF kept
  <2>2. channels[p].history \in Seq(Nat \ {0})
    BY DEF TypeOK, Channels
  <2>3. Len(channels[p].history) \in Nat
    BY <2>2, LenProperties
  <2> QED
    BY <2>1, <2>3 DEF Retained
<1> QED
  BY <1>2, <1>3

\* No other step takes a history away.
LEMMA SameHistory ==
    ASSUME TypeOK, NEW p \in DOMAIN channels,
           p \in DOMAIN channels', channels'[p].history = channels[p].history
    PROVE  Retained(p)
<1>1. channels[p].history \in Seq(Nat \ {0})
  BY DEF TypeOK, Channels
<1>2. Len(channels[p].history) \in Nat
  BY <1>1, LenProperties
<1> QED
  BY <1>2 DEF Retained

\* What a step does to a history.
LEMMA StepKeeps ==
    ASSUME TypeOK, [Next]_vars, NEW p \in DOMAIN channels
    PROVE  \/ Retained(p)
           \/ down' # down
           \/ channels[p].idle = Ttl /\ \E m \in Requests \ {p} : TouchedOnly(m)
<1>0. channels[p].history \in Seq(Nat \ {0}) /\ DOMAIN channels \subseteq Requests
  BY DEF TypeOK, Channels
<1>1. ASSUME NEW q \in Requests, NEW kind \in Vocabulary, Publish(q, kind)
      PROVE  Retained(p) \/ (channels[p].idle = Ttl /\ \E m \in Requests \ {p} : TouchedOnly(m))
  <2> DEFINE n    == Len(log[q]) + 1
             chs  == Touched(q)
             kept == Kept(chs)
             c    == chs[q]
             d    == channels'[q]
             h    == c.history
  <2>1. channels' = [kept EXCEPT ![q].history = Append(@, n), ![q].closed = @ \/ (kind \in Finals)]
    BY <1>1 DEF Publish, Deliver
  <2>2. /\ q \in DOMAIN kept /\ kept[q] = chs[q] /\ c \in Channels /\ c.idle = 0
        /\ q \in DOMAIN channels => h = channels[q].history
    BY TouchedDoes
  <2>3. /\ d = [c EXCEPT !.history = Append(@, n), !.closed = @ \/ (kind \in Finals)]
        /\ DOMAIN channels' = DOMAIN kept
        /\ \A m \in DOMAIN kept : m # q => channels'[m] = channels[m]
    <3>1. \A m \in DOMAIN kept : m # q => m \in DOMAIN channels /\ kept[m] = channels[m]
      <4> HIDE DEF c, d
      <4> QED
        BY TouchedDoes
    <3> HIDE DEF kept, chs
    <3> QED
      BY <2>1, <2>2, <3>1
  <2>4. d.history = Append(h, n) /\ d.idle = 0
    <3> HIDE DEF c, d, n
    <3> QED
      BY <2>2, <2>3 DEF Channels
  <2>5. p = q => Retained(p)
    <3> SUFFICES ASSUME p = q
                 PROVE  Retained(q)
      OBVIOUS
    <3>1. h = channels[q].history /\ h \in Seq(Nat \ {0}) /\ Len(h) \in Nat /\ DOMAIN h = 1 .. Len(h)
      BY <1>0, <2>2, LenProperties
    <3>2. n \in Nat \ {0}
      BY LenProperties DEF TypeOK
    <3> HIDE DEF h, n, kept
    <3>3. /\ Append(h, n) \in Seq(Nat \ {0}) /\ Len(Append(h, n)) = Len(h) + 1
          /\ \A i \in 1 .. Len(h) : Append(h, n)[i] = h[i]
      BY <3>1, <3>2, AppendProperties
    <3>4. q \in DOMAIN channels'
      BY <2>2, <2>3
    <3> DEFINE k == channels'[q].history
    <3>5. k = Append(h, n)
      BY <2>4
    <3> HIDE DEF k
    <3>6. Len(h) <= Len(k) /\ \A i \in DOMAIN h : k[i] = h[i]
      BY <3>1, <3>3, <3>5
    <3> QED
      BY <3>1, <3>4, <3>6 DEF Retained, k
  <2> HIDE DEF d
  <2> QED
    BY <2>3, <2>4, <2>5, ChannelKept DEF d
<1>2. ASSUME NEW r \in Readers, Subscribe(r)
      PROVE  Retained(p) \/ (channels[p].idle = Ttl /\ \E m \in Requests \ {p} : TouchedOnly(m))
  <2> DEFINE q    == of[r]
             chs  == Touched(q)
             kept == Kept(chs)
             c    == chs[q]
             d    == channels'[q]
  <2>0. q \in Requests
    BY DEF TypeOK
  <2>1. channels' = [kept EXCEPT ![q].subscribers = @ \union {r}]
    BY <1>2 DEF Subscribe
  <2>2. /\ q \in DOMAIN kept /\ kept[q] = chs[q] /\ c \in Channels /\ c.idle = 0
        /\ q \in DOMAIN channels => c.history = channels[q].history
    BY <2>0, TouchedDoes
  <2>3. /\ d = [c EXCEPT !.subscribers = @ \union {r}]
        /\ DOMAIN channels' = DOMAIN kept
        /\ \A m \in DOMAIN kept : m # q => channels'[m] = channels[m]
    <3>1. \A m \in DOMAIN kept : m # q => m \in DOMAIN channels /\ kept[m] = channels[m]
      <4> HIDE DEF c, d
      <4> QED
        BY <2>0, TouchedDoes
    <3> HIDE DEF kept, chs
    <3> QED
      BY <2>1, <2>2, <3>1
  <2>4. d.history = c.history /\ d.idle = 0
    <3> HIDE DEF c, d
    <3> QED
      BY <2>2, <2>3 DEF Channels
  <2> HIDE DEF q
  <2>5. p = q => Retained(p)
    BY <2>2, <2>3, <2>4, SameHistory
  <2> HIDE DEF d
  <2> QED
    BY <2>0, <2>3, <2>4, <2>5, ChannelKept DEF d
<1>3. ASSUME NEW r \in Readers, NEW how, Exit(r, how)
      PROVE  Retained(p)
  <2>1. channels' = [m \in DOMAIN channels |-> [channels[m] EXCEPT !.subscribers = @ \ {r}]]
    BY <1>3 DEF Exit
  <2> DEFINE c == channels[p]
             d == channels'[p]
  <2>2. p \in DOMAIN channels' /\ d = [c EXCEPT !.subscribers = @ \ {r}] /\ c \in Channels
    BY <2>1 DEF TypeOK
  <2> HIDE DEF c, d
  <2>3. d.history = c.history
    BY <2>2 DEF Channels
  <2> QED
    BY <2>2, <2>3, SameHistory DEF c, d
<1>4. ASSUME UNCHANGED channels
      PROVE  Retained(p)
  BY <1>4, SameHistory
<1>5. ASSUME NEW r \in Readers, ReaderStep(r) \/ Leave(r)
      PROVE  Retained(p)
  <2>1. UNCHANGED channels \/ \E how \in {"over", "shut", "cut", "left"} : Exit(r, how)
    BY <1>5 DEF ReaderStep, Leave, Replay, ReplayOver, Get, Finish
  <2> QED
    BY <1>3, <1>4, <2>1
<1>6. CASE Tick
  <2>1. channels' = [m \in DOMAIN channels |-> [channels[m] EXCEPT !.idle = Older(@)]]
    BY <1>6 DEF Tick
  <2> DEFINE c == channels[p]
             d == channels'[p]
  <2>2. p \in DOMAIN channels' /\ d = [c EXCEPT !.idle = Older(@)] /\ c \in Channels
    BY <2>1 DEF TypeOK
  <2> HIDE DEF c, d
  <2>3. d.history = c.history
    BY <2>2 DEF Channels
  <2> QED
    BY <2>2, <2>3, SameHistory DEF c, d
<1>7. CASE Close
  BY <1>7 DEF Close, TypeOK
<1>8. CASE Snapshot \/ UNCHANGED vars
  BY <1>4, <1>8 DEF Snapshot, vars
<1> QED
  BY <1>1, <1>2, <1>5, <1>6, <1>7, <1>8 DEF Next

\* InMemoryEventBus: the history of a run is lost only by closing the bus, or
\* when it has been silent for its whole time to live and another is touched.
THEOREM HistoryOutlives == Spec => HistoryKept
<1>1. TypeOK /\ [Next]_vars =>
        [\A q \in DOMAIN channels :
           \/ Retained(q)
           \/ down' # down
           \/ channels[q].idle = Ttl /\ \E p \in Requests \ {q} : TouchedOnly(p)]_vars
  BY StepKeeps
<1> QED
  BY <1>1, TypeCorrect, PTL DEF Spec, HistoryKept
=============================================================================
