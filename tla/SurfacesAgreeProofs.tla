------------------------ MODULE SurfacesAgreeProofs -------------------------
(***************************************************************************)
(* Whatever surface a client uses, with a stream or without, it gets the   *)
(* same answer: the reasoning a Responses stream has given is followed     *)
(* event by event beside what collect() has gathered, and what builders    *)
(* make of that is taken apart by kind.                                    *)
(***************************************************************************)
EXTENDS SurfacesProofs, TLAPS

(***************************************************************************)
(* The answer with a stream and without                                    *)
(***************************************************************************)
\* What the reasoning items have said.
Heard(s) == Said(s.output, "reasoning") \o s.reasoning.body

LEMMA HeardType ==
    ASSUME NEW s, ItemsGood(s)
    PROVE  Heard(s) \in Seq(Nat) /\ Said(s.output, "reasoning") \in Seq(Nat) /\ s.reasoning.body \in Seq(Nat)
<1>1. s.output \in Seq(ItemRecords) /\ s.reasoning.body \in Seq(Nat)
  BY GoodFacts, ItemFields
<1>2. \A i \in ItemRecords : i.body \in Seq(Nat)
  BY ItemFields
<1>3. Said(s.output, "reasoning") \in Seq(Nat)
  BY <1>1, <1>2, SaidType
<1> QED
  BY <1>1, <1>3, ConcatProperties DEF Heard

\* A stream with the same items said the same.
LEMMA HeardSame ==
    ASSUME NEW s, NEW t, t.output = s.output, t.reasoning = s.reasoning
    PROVE  Heard(t) = Heard(s)
BY DEF Heard

\* Reasoning is heard after what was said before.
LEMMA ReasoningHeard ==
    ASSUME NEW s, ItemsGood(s), NEW token \in Nat
    PROVE  LET t == ReasoningDelta(s, token)
           IN  Heard(t) = Append(Heard(s), token) /\ t.dumped = s.dumped
<1> DEFINE b == s.reasoning.body
           u == Said(s.output, "reasoning")
           t == ReasoningDelta(s, token)
<1>1. s \in ItemStreams
  BY GoodFacts
<1>2. t.output = s.output /\ t.dumped = s.dumped /\ t.reasoning.body = Append(b, token)
  <2>1. CASE s.reasoning = NoItem
    <3>1. b = <<>>
      BY <2>1, ItemFields
    <3> QED
      BY <1>1, <2>1, <3>1 DEF ReasoningDelta, Added, Say, Item, ItemStreams, ItemRecords, NoItem
  <2>2. CASE s.reasoning # NoItem
    BY <1>1, <2>2 DEF ReasoningDelta, Say, ItemStreams, ItemRecords
  <2> QED
    BY <2>1, <2>2
<1>3. u \in Seq(Nat) /\ b \in Seq(Nat)
  BY HeardType
<1> HIDE DEF u, b, t
<1>4. u \o Append(b, token) = Append(u \o b, token)
  BY <1>3, ConcatAppend
<1>5. Heard(t) = u \o Append(b, token) /\ Heard(s) = u \o b
  BY <1>2 DEF Heard, u, b
<1> QED
  BY <1>2, <1>4, <1>5, Zenon DEF t

\* Closing an item changes nothing of what was said.
LEMMA ClosingHeard ==
    ASSUME NEW s, ItemsGood(s)
    PROVE  /\ Heard(CloseReasoning(s)) = Heard(s) /\ CloseReasoning(s).dumped = s.dumped
           /\ Heard(CloseText(s)) = Heard(s) /\ CloseText(s).dumped = s.dumped
<1> DEFINE c == CloseReasoning(s)
           d == CloseText(s)
           u == Said(s.output, "reasoning")
<1>1. /\ s \in ItemStreams /\ s.output \in Seq(ItemRecords)
      /\ s.reasoning \in ItemRecords /\ s.text \in ItemRecords
      /\ s.reasoning = NoItem \/ s.reasoning.type = "reasoning"
      /\ s.text = NoItem \/ s.text.type = "message"
  BY GoodFacts
<1>2. u \in Seq(Nat) /\ s.reasoning.body \in Seq(Nat) /\ Heard(s) \in Seq(Nat) /\ NoItem.body = <<>>
  BY HeardType, ItemFields
<1>3. Heard(c) = Heard(s) /\ c.dumped = s.dumped
  <2>1. CASE s.reasoning = NoItem
    BY <2>1 DEF CloseReasoning
  <2>2. CASE s.reasoning # NoItem
    <3>1. c.output = Append(s.output, s.reasoning) /\ c.reasoning = NoItem /\ c.dumped = s.dumped
      BY <1>1, <2>2 DEF CloseReasoning, CloseItem, Say, ItemStreams
    <3>2. Said(Append(s.output, s.reasoning), "reasoning") = u \o s.reasoning.body
      <4>1. s.reasoning.type = "reasoning" /\ s.output \in Seq(ItemRecords) /\ s.reasoning \in ItemRecords
        BY <1>1, <2>2
      <4> QED
        BY <4>1, SaidMore
    <3>3. Heard(s) \o <<>> = Heard(s)
      BY <1>2, ConcatEmptySeq
    <3> HIDE DEF c
    <3> QED
      BY <1>2, <3>1, <3>2, <3>3, Zenon DEF Heard
  <2> QED
    BY <2>1, <2>2
<1>4. Heard(d) = Heard(s) /\ d.dumped = s.dumped
  <2>1. CASE s.text = NoItem
    BY <2>1 DEF CloseText
  <2>2. CASE s.text # NoItem
    <3>1. d.output = Append(s.output, s.text) /\ d.reasoning = s.reasoning /\ d.dumped = s.dumped
      BY <1>1, <2>2 DEF CloseText, CloseItem, Say, ItemStreams
    <3>2. Said(Append(s.output, s.text), "reasoning") = u
      <4>1. s.text.type # "reasoning" /\ s.output \in Seq(ItemRecords) /\ s.text \in ItemRecords
        BY <1>1, <2>2
      <4> QED
        BY <4>1, SaidMore
    <3> HIDE DEF d
    <3> QED
      BY <3>1, <3>2, Zenon DEF Heard
  <2> QED
    BY <2>1, <2>2
<1> QED
  BY <1>3, <1>4

\* Text, calls and their fragments are not heard.
LEMMA SilentHeard ==
    ASSUME NEW s, ItemsGood(s), NEW token \in Nat, NEW e, NEW text, NEW calls, ResponsesShow(s, text, calls)
    PROVE  /\ Heard(TextDelta(s, token)) = Heard(s) /\ TextDelta(s, token).dumped = s.dumped
           /\ Heard(ToolAdded(s, e)) = Heard(s) /\ ToolAdded(s, e).dumped = s.dumped
           /\ Heard(ToolArguments(s, e)) = Heard(s) /\ ToolArguments(s, e).dumped = s.dumped
<1> DEFINE c == CloseReasoning(s)
           d == CloseText(c)
<1>1. ItemsGood(c)
  BY ReasoningCloses
<1>2. Heard(c) = Heard(s) /\ c.dumped = s.dumped
  BY ClosingHeard
<1>3. TextDelta(s, token) =
        LET t == IF c.text # NoItem THEN c
                 ELSE [Added(c, "message", 0) EXCEPT !.text = Item(c.next, "message", 0)]
        IN [Say(t, <<<<"delta", t.text.at, token>>>>) EXCEPT !.text.body = Append(@, token)]
  BY DEF TextDelta
<1>4. ToolAdded(s, e) =
        [Added(d, "function_call", e.token) EXCEPT !.tools = Append(@, Item(d.next, "function_call", e.index))]
  BY DEF ToolAdded
<1> HIDE DEF c
<1>5. ItemsGood(d) /\ Heard(d) = Heard(s) /\ d.dumped = s.dumped
  <2>1. Heard(d) = Heard(s) /\ d.dumped = s.dumped
    BY <1>1, <1>2, ClosingHeard
  <2>2. ResponsesShow(c, text, calls)
    BY ReasoningCloses DEF c
  <2>3. ItemsGood(d)
    BY <1>1, <2>2, TextCloses
  <2> QED
    BY <2>1, <2>3
<1> HIDE DEF d
<1>6. c \in ItemStreams /\ d \in ItemStreams /\ s \in ItemStreams
  BY <1>1, <1>5, GoodFacts
<1>7. LET t == TextDelta(s, token) IN t.output = c.output /\ t.reasoning = c.reasoning /\ t.dumped = c.dumped
  BY <1>3, <1>6 DEF Added, Say, ItemStreams
<1>8. LET t == ToolAdded(s, e) IN t.output = d.output /\ t.reasoning = d.reasoning /\ t.dumped = d.dumped
  BY <1>4, <1>6 DEF Added, Say, ItemStreams
<1>9. LET t == ToolArguments(s, e) IN t.output = s.output /\ t.reasoning = s.reasoning /\ t.dumped = s.dumped
  BY <1>6 DEF ToolArguments, Say, ItemStreams
<1> QED
  BY <1>2, <1>5, <1>7, <1>8, <1>9, HeardSame

\* The preamble is heard once, before what the members say.
LEMMA DumpHeard ==
    ASSUME NEW s, ItemsGood(s), NEW text, NEW calls, ResponsesShow(s, text, calls)
    PROVE  LET t == OpenMemberDump(s)
           IN  /\ Heard(t) = IF s.dumped THEN Heard(s) ELSE Append(Heard(s), ProgressToken)
               /\ t.dumped
<1>1. CASE s.dumped
  BY <1>1 DEF OpenMemberDump
<1>2. CASE ~s.dumped
  <2> DEFINE u == ReasoningDelta(s, ProgressToken)
             t == [u EXCEPT !.dumped = TRUE]
  <2>1. OpenMemberDump(s) = t
    BY <1>2 DEF OpenMemberDump
  <2>2. Heard(u) = Append(Heard(s), ProgressToken)
    BY ReasoningHeard DEF ProgressToken
  <2>3. u \in ItemStreams
    <3>1. ItemsGood(u)
      BY ReasoningSaid DEF ProgressToken
    <3> HIDE DEF u
    <3> QED
      BY <3>1, GoodFacts
  <2> HIDE DEF u
  <2>4. t.output = u.output /\ t.reasoning = u.reasoning /\ t.dumped
    BY <2>3 DEF ItemStreams
  <2> HIDE DEF t
  <2>5. Heard(t) = Heard(u)
    BY <2>4, HeardSame
  <2> QED
    BY <1>2, <2>1, <2>2, <2>4, <2>5
<1> QED
  BY <1>1, <1>2

\* The members' part before the first of them is heard, and when one more is.
LEMMA PrefaceGrows ==
    ASSUME NEW p \in Options, NEW outcomes \in Seq(Nat), NEW dumped \in BOOLEAN, NEW token \in Nat
    PROVE  /\ Preface(dumped, outcomes, p) \in Seq(Nat)
           /\ ~p.notices /\ (p.inline => outcomes = <<>>) =>
                 Preface(FALSE, outcomes, p) = <<>> /\ Preface(TRUE, outcomes, p) = <<ProgressToken>>
           /\ p.inline =>
                 Preface(dumped, Append(outcomes, token), p) = Append(Preface(dumped, outcomes, p), token)
           /\ ~p.inline => Preface(dumped, Append(outcomes, token), p) = Preface(dumped, outcomes, p)
<1> DEFINE a(d) == IF d THEN <<ProgressToken>> ELSE <<>>
           b == IF p.notices THEN <<NoticesToken>> ELSE <<>>
           c == IF p.inline THEN outcomes ELSE <<>>
           n == <<>>
           x == <<ProgressToken>>
<1>1. n \in Seq(Nat) /\ x \in Seq(Nat) /\ <<NoticesToken>> \in Seq(Nat)
  BY DEF ProgressToken, NoticesToken
<1>2. (\A d : a(d) \in Seq(Nat)) /\ b \in Seq(Nat) /\ c \in Seq(Nat)
  BY <1>1
<1>3. \A d : Preface(d, outcomes, p) = (a(d) \o b) \o c
  BY DEF Preface
<1>4. \A d : a(d) \o b \in Seq(Nat)
  BY <1>2, ConcatProperties
<1>5. Preface(dumped, outcomes, p) \in Seq(Nat)
  <2> DEFINE ab == a(dumped) \o b
  <2>1. ab \in Seq(Nat) /\ Preface(dumped, outcomes, p) = ab \o c
    BY <1>3, <1>4
  <2> HIDE DEF ab, c
  <2> QED
    BY <1>2, <2>1, ConcatProperties
<1>6. n \o n = n /\ x \o n = x
  BY <1>1, ConcatEmptySeq
<1>7. ~p.notices /\ (p.inline => outcomes = <<>>) =>
         Preface(FALSE, outcomes, p) = n /\ Preface(TRUE, outcomes, p) = x
  <2> SUFFICES ASSUME ~p.notices, p.inline => outcomes = <<>>
               PROVE  Preface(FALSE, outcomes, p) = n /\ Preface(TRUE, outcomes, p) = x
    OBVIOUS
  <2>1. a(FALSE) = n /\ a(TRUE) = x /\ b = n /\ c = n
    OBVIOUS
  <2> HIDE DEF a, b, c, n, x
  <2> QED
    BY <1>3, <1>6, <2>1, Zenon
<1>8. ASSUME p.inline
      PROVE  Preface(dumped, Append(outcomes, token), p) = Append(Preface(dumped, outcomes, p), token)
  <2> DEFINE ab == a(dumped) \o b
  <2>1. Preface(dumped, Append(outcomes, token), p) = ab \o Append(outcomes, token)
    BY <1>8 DEF Preface
  <2>2. Preface(dumped, outcomes, p) = ab \o outcomes
    BY <1>8 DEF Preface
  <2>3. ab \in Seq(Nat)
    BY <1>4
  <2> HIDE DEF ab
  <2>4. ab \o Append(outcomes, token) = Append(ab \o outcomes, token)
    BY <2>3, ConcatAppend
  <2> QED
    BY <2>1, <2>2, <2>4, Zenon
<1>9. ASSUME ~p.inline
      PROVE  Preface(dumped, Append(outcomes, token), p) = Preface(dumped, outcomes, p)
  BY <1>9, Zenon DEF Preface
<1> QED
  BY <1>5, <1>7, <1>8, <1>9

\* What Thoughts says of the reasoning heard.
LEMMA ThoughtsMean ==
    ASSUME NEW s, NEW reasoning, NEW outcomes, NEW p, NEW at
    PROVE  Thoughts(s, reasoning, outcomes, p, at) <=>
             /\ Heard(s) = Preface(s.dumped, outcomes, p) \o reasoning
             /\ at \in {"start", "panel"} => reasoning = <<>>
             /\ p.notices \/ (p.inline /\ outcomes # <<>>) => s.dumped
             /\ s.dumped => p.notices \/ p.inline
BY Zenon DEF Thoughts, Heard

\* A stream in which the same was heard.
LEMMA ThoughtsSame ==
    ASSUME NEW s, NEW t, Heard(t) = Heard(s), t.dumped = s.dumped, NEW reasoning, NEW outcomes, NEW p,
           NEW at, NEW next, next \in {"start", "panel"} => at \in {"start", "panel"},
           Thoughts(s, reasoning, outcomes, p, at)
    PROVE  Thoughts(t, reasoning, outcomes, p, next)
<1>1. /\ Heard(s) = Preface(s.dumped, outcomes, p) \o reasoning
      /\ at \in {"start", "panel"} => reasoning = <<>>
      /\ p.notices \/ (p.inline /\ outcomes # <<>>) => s.dumped
      /\ s.dumped => p.notices \/ p.inline
  BY ThoughtsMean
<1>2. Heard(t) = Preface(t.dumped, outcomes, p) \o reasoning
  BY <1>1, Zenon
<1> QED
  BY <1>1, <1>2, ThoughtsMean

\* The members' part is begun when there are members to tell of.
LEMMA DumpThought ==
    ASSUME NEW p \in Options, p.inline, NEW s, ItemsGood(s), NEW text, NEW calls, ResponsesShow(s, text, calls),
           NEW outcomes \in Seq(Nat), NEW at, Thoughts(s, <<>>, outcomes, p, at)
    PROVE  LET t == OpenMemberDump(s)
           IN  Heard(t) = Preface(TRUE, outcomes, p) /\ t.dumped = TRUE
<1> DEFINE t == OpenMemberDump(s)
           n == <<>>
           a == Preface(TRUE, outcomes, p)
           b == Preface(FALSE, outcomes, p)
<1>1. Heard(t) = (IF s.dumped THEN Heard(s) ELSE Append(Heard(s), ProgressToken)) /\ t.dumped = TRUE
  <2>1. Heard(t) = (IF s.dumped THEN Heard(s) ELSE Append(Heard(s), ProgressToken)) /\ t.dumped
    BY DumpHeard
  <2>2. t.dumped \in BOOLEAN
    <3>1. ItemsGood(t)
      BY DumpOpens
    <3> HIDE DEF t
    <3> QED
      BY <3>1, GoodFacts
  <2> HIDE DEF t
  <2> QED
    BY <2>1, <2>2
<1>2. /\ Heard(s) = Preface(s.dumped, outcomes, p) \o n
      /\ p.notices \/ (p.inline /\ outcomes # <<>>) => s.dumped
  BY ThoughtsMean
<1>3. /\ a \in Seq(Nat) /\ b \in Seq(Nat)
      /\ ~p.notices /\ (p.inline => outcomes = n) => b = n /\ a = <<ProgressToken>>
  <2>1. 0 \in Nat /\ TRUE \in BOOLEAN /\ FALSE \in BOOLEAN
    OBVIOUS
  <2> QED
    BY <2>1, PrefaceGrows
<1>4. Append(n, ProgressToken) = <<ProgressToken>>
  OBVIOUS
<1>5. s.dumped \in BOOLEAN
  BY GoodFacts
<1> HIDE DEF t, a, b
<1>6. a \o n = a /\ b \o n = b
  BY <1>3, ConcatEmptySeq
<1> HIDE DEF n
<1>7. CASE s.dumped
  <2>1. s.dumped = TRUE
    BY <1>5, <1>7
  <2>2. Heard(s) = a
    BY <1>2, <1>6, <2>1, Zenon DEF a
  <2> QED
    BY <1>1, <1>7, <2>2, Zenon DEF t, a
<1>8. CASE ~s.dumped
  <2>1. s.dumped = FALSE
    BY <1>5, <1>8
  <2>2. Heard(s) = b
    BY <1>2, <1>6, <2>1, Zenon DEF b
  <2>3. b = n /\ a = <<ProgressToken>>
    BY <1>2, <1>3, <1>8 DEF n
  <2> QED
    BY <1>1, <1>4, <1>8, <2>2, <2>3, Zenon DEF t, a
<1> QED
  BY <1>7, <1>8

\* One more member is told of.
LEMMA MemberThought ==
    ASSUME NEW p \in Options, NEW s, ItemsGood(s), NEW text, NEW calls, ResponsesShow(s, text, calls),
           NEW outcomes \in Seq(Nat), NEW token \in Nat, NEW at, Thoughts(s, <<>>, outcomes, p, at)
    PROVE  LET t == IF p.inline THEN ReasoningDelta(OpenMemberDump(s), token) ELSE s
           IN  Thoughts(t, <<>>, Append(outcomes, token), p, "panel")
<1> DEFINE n == <<>>
           more == Append(outcomes, token)
           d == OpenMemberDump(s)
           u == ReasoningDelta(d, token)
<1>1. /\ Heard(s) = Preface(s.dumped, outcomes, p) \o n
      /\ p.notices \/ (p.inline /\ outcomes # <<>>) => s.dumped
      /\ s.dumped => p.notices \/ p.inline
  BY ThoughtsMean
<1>2. s.dumped \in BOOLEAN /\ TRUE \in BOOLEAN
  BY GoodFacts
<1>3. CASE p.inline
  <2>1. Heard(d) = Preface(TRUE, outcomes, p) /\ d.dumped = TRUE
    BY <1>3, DumpThought
  <2>2. ItemsGood(d)
    BY DumpOpens
  <2> HIDE DEF d
  <2>3. Heard(u) = Append(Heard(d), token) /\ u.dumped = d.dumped
    BY <2>2, ReasoningHeard
  <2> HIDE DEF u
  <2>4. Preface(TRUE, more, p) = Append(Preface(TRUE, outcomes, p), token) /\ Preface(TRUE, more, p) \in Seq(Nat)
    <3>1. more \in Seq(Nat)
      BY AppendProperties
    <3>2. Preface(TRUE, more, p) = Append(Preface(TRUE, outcomes, p), token)
      BY <1>2, <1>3, PrefaceGrows
    <3> HIDE DEF more
    <3>3. Preface(TRUE, more, p) \in Seq(Nat)
      BY <1>2, <3>1, PrefaceGrows
    <3> QED
      BY <3>2, <3>3 DEF more
  <2>5. Heard(u) = Preface(u.dumped, more, p) \o n
    <3> DEFINE a == Preface(TRUE, more, p)
    <3>1. Heard(u) = a /\ u.dumped = TRUE
      BY <2>1, <2>3, <2>4, Zenon
    <3>2. a \in Seq(Nat)
      BY <2>4
    <3> HIDE DEF a
    <3>3. a \o n = a
      BY <3>2, ConcatEmptySeq
    <3> QED
      BY <3>1, <3>3, Zenon DEF a
  <2>6. u.dumped
    BY <2>1, <2>3
  <2> HIDE DEF more
  <2>7. Thoughts(u, n, more, p, "panel")
    BY <1>3, <2>5, <2>6, ThoughtsMean
  <2> QED
    BY <1>3, <2>7, Zenon DEF u, d, more
<1>4. CASE ~p.inline
  <2>1. Preface(s.dumped, more, p) = Preface(s.dumped, outcomes, p)
    BY <1>2, <1>4, PrefaceGrows
  <2> HIDE DEF more
  <2>2. Heard(s) = Preface(s.dumped, more, p) \o n
    BY <1>1, <2>1, Zenon
  <2>3. Thoughts(s, n, more, p, "panel")
    BY <1>1, <1>4, <2>2, ThoughtsMean
  <2> QED
    BY <1>4, <2>3, Zenon DEF more
<1> QED
  BY <1>3, <1>4

\* What an answer adds is heard after the rest.
LEMMA AnswerThought ==
    ASSUME NEW p \in Options, NEW s, ItemsGood(s), NEW text, NEW calls, ResponsesShow(s, text, calls),
           NEW outcomes \in Seq(Nat), NEW reasoning \in Seq(Nat), NEW e, e.reasoning \in Nat, e.content \in Nat,
           Thoughts(s, reasoning, outcomes, p, "answer")
    PROVE  Thoughts(AnswerItems(s, e), reasoning \o Present(e.reasoning), outcomes, p, "answer")
<1> DEFINE k == e.reasoning
           c == e.content
           t == IF k > 0 THEN ReasoningDelta(s, k) ELSE s
           u == IF c > 0 THEN TextDelta(t, c) ELSE t
           more == reasoning \o Present(k)
           a == Preface(s.dumped, outcomes, p)
<1>1. /\ Heard(s) = a \o reasoning
      /\ p.notices \/ (p.inline /\ outcomes # <<>>) => s.dumped
      /\ s.dumped => p.notices \/ p.inline
  BY ThoughtsMean
<1>2. AnswerItems(s, e) = u
  BY DEF AnswerItems
<1>3. k \in Nat /\ c \in Nat
  OBVIOUS
<1>4. a \in Seq(Nat)
  <2>1. s.dumped \in BOOLEAN /\ 0 \in Nat
    BY GoodFacts
  <2> QED
    BY <2>1, PrefaceGrows
<1> HIDE DEF k, c, a
<1>5. Heard(t) = a \o more /\ t.dumped = s.dumped /\ ItemsGood(t) /\ ResponsesShow(t, text, calls)
  <2>1. more = IF k > 0 THEN Append(reasoning, k) ELSE reasoning
    BY <1>3, Added1
  <2>2. CASE k > 0
    <3>1. Heard(ReasoningDelta(s, k)) = Append(Heard(s), k) /\ ReasoningDelta(s, k).dumped = s.dumped
      BY <1>3, ReasoningHeard
    <3>2. ItemsGood(ReasoningDelta(s, k)) /\ ResponsesShow(ReasoningDelta(s, k), text, calls)
      BY <1>3, ReasoningSaid
    <3>3. a \o Append(reasoning, k) = Append(a \o reasoning, k)
      BY <1>3, <1>4, ConcatAppend
    <3>4. t = ReasoningDelta(s, k) /\ more = Append(reasoning, k)
      BY <2>1, <2>2
    <3> HIDE DEF t, more
    <3> QED
      BY <1>1, <3>1, <3>2, <3>3, <3>4, Zenon
  <2>3. CASE ~(k > 0)
    BY <1>1, <2>1, <2>3
  <2> QED
    BY <2>2, <2>3
<1> HIDE DEF t
<1>6. Heard(u) = Heard(t) /\ u.dumped = t.dumped
  <2>1. CASE c > 0
    <3>1. Heard(TextDelta(t, c)) = Heard(t) /\ TextDelta(t, c).dumped = t.dumped
      BY <1>3, <1>5, SilentHeard
    <3> QED
      BY <2>1, <3>1
  <2>2. CASE ~(c > 0)
    BY <2>2
  <2> QED
    BY <2>1, <2>2
<1> HIDE DEF u, more
<1>7. Heard(u) = Preface(u.dumped, outcomes, p) \o more
  BY <1>5, <1>6, Zenon DEF a
<1>8. Thoughts(u, more, outcomes, p, "answer")
  BY <1>1, <1>5, <1>6, <1>7, ThoughtsMean
<1> QED
  BY <1>2, <1>8, Zenon DEF more, k

\* An event that does not end the run is heard as collect() gathers it.
LEMMA ThoughtsStep ==
    ASSUME NEW p \in Options, NEW s, ItemsGood(s), NEW e, e.token \in Nat, e.reasoning \in Nat, e.content \in Nat,
           NEW at, NEW next, Moves(e.kind, at, next), NEW r \in Results, ResponsesShow(s, r.text, r.calls),
           Thoughts(s, r.reasoning, r.outcomes, p, at)
    PROVE  Thoughts(ResponsesFold(s, e, p), Collect(r, e).reasoning, Collect(r, e).outcomes, p, next)
<1> DEFINE k == e.kind
           u == ResponsesFold(s, e, p)
           text == r.text
           calls == r.calls
           outcomes == r.outcomes
           reasoning == r.reasoning
           token == e.token
           newReasoning == Collect(r, e).reasoning
           newOutcomes == Collect(r, e).outcomes
<1>1. next \in {"start", "panel"} => at \in {"start", "panel"}
  BY DEF Moves
<1>2. /\ newReasoning = IF k = "answer" THEN reasoning \o Present(e.reasoning) ELSE reasoning
      /\ newOutcomes = IF k = "member" THEN Append(outcomes, token) ELSE outcomes
  <2>1. k \notin Ends
    BY DEF Moves, Ends
  <2> QED
    BY <2>1, Collected
<1>3. outcomes \in Seq(Nat) /\ reasoning \in Seq(Nat) /\ token \in Nat /\ ResponsesShow(s, text, calls)
  BY DEF Results
<1>4. /\ Heard(s) = Preface(s.dumped, outcomes, p) \o reasoning
      /\ at \in {"start", "panel"} => reasoning = <<>>
      /\ p.notices \/ (p.inline /\ outcomes # <<>>) => s.dumped
      /\ s.dumped => p.notices \/ p.inline
  BY ThoughtsMean
<1>5. Thoughts(s, reasoning, outcomes, p, at) /\ p.inline \in BOOLEAN
  BY OptionsType
<1> HIDE DEF newReasoning, newOutcomes, text, calls, outcomes, reasoning, token
<1>6. CASE k = "fanout_started"
  <2>1. reasoning = <<>> /\ next = "panel"
    BY <1>4, <1>6 DEF Moves
  <2>2. newReasoning = reasoning /\ newOutcomes = outcomes
    BY <1>2, <1>6
  <2>3. u = IF p.inline THEN OpenMemberDump(s) ELSE s
    BY <1>6 DEF ResponsesFold
  <2> HIDE DEF u
  <2>4. CASE p.inline
    <3> DEFINE d == OpenMemberDump(s)
               a == Preface(TRUE, outcomes, p)
    <3>1. Thoughts(s, <<>>, outcomes, p, at)
      BY <1>5, <2>1, Zenon
    <3>2. Heard(d) = a /\ d.dumped = TRUE
      BY <1>3, <2>4, <3>1, DumpThought
    <3>3. a \in Seq(Nat)
      <4>1. TRUE \in BOOLEAN /\ 0 \in Nat
        OBVIOUS
      <4> QED
        BY <1>3, <4>1, PrefaceGrows
    <3> HIDE DEF d, a
    <3>4. a \o <<>> = a
      BY <3>3, ConcatEmptySeq
    <3>5. Heard(d) = Preface(d.dumped, outcomes, p) \o reasoning
      BY <2>1, <3>2, <3>4, Zenon DEF a
    <3>6. Thoughts(d, reasoning, outcomes, p, next)
      BY <2>1, <2>4, <3>2, <3>5, ThoughtsMean
    <3> QED
      BY <2>2, <2>3, <2>4, <3>6, Zenon DEF d, u, newReasoning, newOutcomes
  <2>5. CASE ~p.inline
    <3>1. u = s
      BY <2>3, <2>5
    <3>2. Thoughts(s, reasoning, outcomes, p, next)
      BY <1>4, <2>1, ThoughtsMean
    <3> QED
      BY <2>2, <3>1, <3>2, Zenon DEF u, newReasoning, newOutcomes
  <2> QED
    BY <2>4, <2>5
<1>7. CASE k = "member"
  <2>1. reasoning = <<>> /\ next = "panel"
    BY <1>4, <1>7 DEF Moves
  <2>2. newReasoning = <<>> /\ newOutcomes = Append(outcomes, token)
    BY <1>2, <1>7, <2>1
  <2>3. u = IF p.inline THEN ReasoningDelta(OpenMemberDump(s), token) ELSE s
    BY <1>7 DEF ResponsesFold, token
  <2> HIDE DEF u
  <2>4. Thoughts(s, <<>>, outcomes, p, at)
    BY <1>5, <2>1, Zenon
  <2>5. LET t == IF p.inline THEN ReasoningDelta(OpenMemberDump(s), token) ELSE s
        IN  Thoughts(t, <<>>, Append(outcomes, token), p, "panel")
    BY <1>3, <2>4, MemberThought
  <2> QED
    BY <2>1, <2>2, <2>3, <2>5, Zenon DEF u, newReasoning, newOutcomes
<1>8. CASE k = "answer"
  <2>1. u = AnswerItems(s, e) /\ newReasoning = reasoning \o Present(e.reasoning) /\ newOutcomes = outcomes
    BY <1>2, <1>8 DEF ResponsesFold
  <2>2. Thoughts(s, reasoning, outcomes, p, "answer") /\ next = "answer"
    BY <1>5, <1>8 DEF Moves
  <2>3. Thoughts(AnswerItems(s, e), reasoning \o Present(e.reasoning), outcomes, p, "answer")
    BY <1>3, <2>2, AnswerThought
  <2> HIDE DEF u
  <2> QED
    BY <2>1, <2>2, <2>3, Zenon DEF u, newReasoning, newOutcomes
<1>9. CASE k \notin {"fanout_started", "member", "answer"}
  <2>1. newReasoning = reasoning /\ newOutcomes = outcomes
    BY <1>2, <1>9
  <2>2. u = CloseReasoning(s) \/ u = ToolAdded(s, e) \/ u = ToolArguments(s, e) \/ u = s
    BY <1>9 DEF ResponsesFold, Moves
  <2> HIDE DEF u
  <2>3. Heard(u) = Heard(s) /\ u.dumped = s.dumped
    <3>1. 0 \in Nat
      OBVIOUS
    <3>2. /\ Heard(ToolAdded(s, e)) = Heard(s) /\ ToolAdded(s, e).dumped = s.dumped
          /\ Heard(ToolArguments(s, e)) = Heard(s) /\ ToolArguments(s, e).dumped = s.dumped
      BY <1>3, <3>1, SilentHeard
    <3>3. Heard(CloseReasoning(s)) = Heard(s) /\ CloseReasoning(s).dumped = s.dumped
      BY ClosingHeard
    <3> QED
      BY <2>2, <3>2, <3>3, Zenon
  <2>4. Thoughts(u, reasoning, outcomes, p, next)
    <3>1. Thoughts(s, reasoning, outcomes, p, at)
      BY <1>5
    <3> QED
      BY <1>1, <2>3, <3>1, ThoughtsSame
  <2> QED
    BY <2>1, <2>4, Zenon DEF u, newReasoning, newOutcomes
<1> QED
  BY <1>6, <1>7, <1>8, <1>9

\* The items, or blocks, a request without a stream gets.
GatheredItems ==
    [type : {"reasoning", "message", "function_call", "thinking", "text", "tool_use"},
     index : Nat, body : Seq(Nat)]

Maybe(c, item) == IF c THEN <<item>> ELSE <<>>
CallItems(type, calls) ==
    [n \in 1..Len(calls) |-> [type |-> type, index |-> calls[n].index, body |-> calls[n].body]]

\* An item that is there only sometimes.
LEMMA SaidMaybe ==
    ASSUME NEW f \in Seq(GatheredItems), NEW c \in BOOLEAN, NEW x \in GatheredItems, NEW type
    PROVE  LET g == f \o Maybe(c, x)
           IN  /\ g \in Seq(GatheredItems)
               /\ Said(g, type) = IF c /\ x.type = type THEN Said(f, type) \o x.body ELSE Said(f, type)
               /\ Elements(g) \subseteq Elements(f) \cup {x}
<1>1. CASE c
  <2>1. f \o <<x>> = Append(f, x)
    BY OneTogether
  <2>2. Append(f, x) \in Seq(GatheredItems) /\ Elements(Append(f, x)) = Elements(f) \cup {x}
    <3>1. /\ Append(f, x) \in Seq(GatheredItems) /\ Len(f) \in Nat /\ DOMAIN f = 1..Len(f)
          /\ DOMAIN Append(f, x) = 1..(Len(f) + 1)
          /\ \A n \in 1..Len(f) : Append(f, x)[n] = f[n]
          /\ Append(f, x)[Len(f) + 1] = x
      BY OneMore
    <3> DEFINE g == Append(f, x)
    <3> HIDE DEF g
    <3>2. \A n \in 1..(Len(f) + 1) : n \in 1..Len(f) \/ n = Len(f) + 1
      BY <3>1
    <3>3. {g[n] : n \in 1..(Len(f) + 1)} = {f[n] : n \in 1..Len(f)} \cup {x}
      <4>1. \A n \in 1..Len(f) : n \in 1..(Len(f) + 1) /\ g[n] = f[n]
        BY <3>1 DEF g
      <4>2. Len(f) + 1 \in 1..(Len(f) + 1) /\ g[Len(f) + 1] = x
        BY <3>1 DEF g
      <4> QED
        BY <3>2, <4>1, <4>2
    <3> QED
      BY <3>1, <3>3 DEF Elements, g
  <2>3. Said(Append(f, x), type) = IF x.type = type THEN Said(f, type) \o x.body ELSE Said(f, type)
    BY SaidMore
  <2> QED
    BY <1>1, <2>1, <2>2, <2>3 DEF Maybe
<1>2. CASE ~c
  <2>1. f \o <<>> = f
    BY ConcatEmptySeq
  <2> QED
    BY <1>2, <2>1 DEF Maybe
<1> QED
  BY <1>1, <1>2

\* The calls come last, each an item of its own.
LEMMA CallsBuilt ==
    ASSUME NEW f \in Seq(GatheredItems), NEW type \in {"function_call", "tool_use"},
           \A i \in Elements(f) : i.type # type, NEW calls \in Seq(CallRecords), NEW other, other # type
    PROVE  LET items == f \o CallItems(type, calls)
           IN  /\ {<<items[n].index, items[n].body>> : n \in {m \in DOMAIN items : items[m].type = type}} =
                     CallSet(calls)
               /\ Said(items, other) = Said(f, other)
<1> DEFINE d == CallItems(type, calls)
           items == f \o d
<1>1. /\ DOMAIN calls = 1..Len(calls) /\ Len(calls) \in Nat
      /\ \A n \in 1..Len(calls) : calls[n].index \in Nat /\ calls[n].body \in Seq(Nat)
  <2>1. DOMAIN calls = 1..Len(calls) /\ Len(calls) \in Nat
    BY LenProperties
  <2>2. \A n \in 1..Len(calls) : calls[n] \in CallRecords
    BY <2>1, ElementOfSeq
  <2> QED
    BY <2>1, <2>2 DEF CallRecords
<1>2. d \in Seq(GatheredItems) /\ DOMAIN d = DOMAIN calls
  <2>1. \A n \in 1..Len(calls) : [type |-> type, index |-> calls[n].index, body |-> calls[n].body] \in GatheredItems
    BY <1>1 DEF GatheredItems
  <2> QED
    BY <1>1, <2>1 DEF CallItems
<1>3. \A n \in DOMAIN calls : d[n].type = type /\ d[n].index = calls[n].index /\ d[n].body = calls[n].body
  BY <1>1 DEF CallItems
<1> HIDE DEF d
<1>4. Elements(items) = Elements(f) \cup Elements(d)
  BY <1>2, ElementsBoth
<1>5. Said(items, other) = Said(f, other)
  <2>1. \A n \in 1..Len(d) : d[n].type # other
    BY <1>2, <1>3, LenProperties
  <2> QED
    BY <1>2, <2>1, SaidSilent
<1> HIDE DEF items
<1>6. {j \in Elements(items) : j.type = type} = Elements(d)
  <2>1. \A j \in Elements(d) : j.type = type
    BY <1>2, <1>3 DEF Elements
  <2> QED
    BY <1>4, <2>1
<1>7. {<<items[n].index, items[n].body>> : n \in {m \in DOMAIN items : items[m].type = type}} =
      {<<i.index, i.body>> : i \in {j \in Elements(items) : j.type = type}}
  BY DEF Elements
<1>8. {<<i.index, i.body>> : i \in Elements(d)} = CallSet(calls)
  <2>1. {<<i.index, i.body>> : i \in Elements(d)} = {<<d[n].index, d[n].body>> : n \in DOMAIN d}
    BY DEF Elements
  <2> QED
    BY <1>2, <1>3, <2>1 DEF CallSet
<1> QED
  BY <1>5, <1>6, <1>7, <1>8 DEF items, d

\* The object says the text and the reasoning of the result, and has its calls.
LEMMA ResponseBuilt ==
    ASSUME NEW r, r.text \in Seq(Nat), r.reasoning \in Seq(Nat), r.outcomes \in Seq(Nat),
           r.calls \in Seq(CallRecords), NEW p \in Options
    PROVE  LET items == BuildResponse(r, p)
               told == p.notices \/ (p.inline /\ r.outcomes # <<>>)
           IN  /\ Said(items, "message") = r.text
               /\ Said(items, "reasoning") =
                     (IF told THEN Preface(TRUE, r.outcomes, p) ELSE <<>>) \o r.reasoning
               /\ {<<items[n].index, items[n].body>> :
                      n \in {m \in DOMAIN items : items[m].type = "function_call"}} = CallSet(r.calls)
<1> DEFINE text == r.text
           reasoning == r.reasoning
           calls == r.calls
           outcomes == IF p.inline THEN r.outcomes ELSE <<>>
           spoken == Preface(TRUE, r.outcomes, p)
           told == outcomes # <<>> \/ p.notices
           n0 == <<>>
           x == [type |-> "reasoning", index |-> 0, body |-> spoken]
           y == [type |-> "reasoning", index |-> 0, body |-> reasoning]
           z == [type |-> "message", index |-> 0, body |-> text]
           thinks == reasoning # <<>>
           answers == text # <<>>
           a == n0 \o Maybe(told, x)
           b == a \o Maybe(thinks, y)
           c == b \o Maybe(answers, z)
           items == c \o CallItems("function_call", calls)
<1>1. spoken \in Seq(Nat)
  <2>1. TRUE \in BOOLEAN /\ 0 \in Nat
    OBVIOUS
  <2> QED
    BY <2>1, PrefaceGrows
<1>2. BuildResponse(r, p) = items
  <2>1. spoken = (<<ProgressToken>> \o (IF p.notices THEN <<NoticesToken>> ELSE <<>>)) \o outcomes
    BY DEF Preface
  <2>2. BuildResponse(r, p) =
          (((IF told THEN <<[type |-> "reasoning", index |-> 0,
                             body |-> (<<ProgressToken>> \o (IF p.notices THEN <<NoticesToken>> ELSE <<>>))
                                      \o outcomes]>> ELSE <<>>)
            \o (IF reasoning # <<>> THEN <<y>> ELSE <<>>))
           \o (IF text # <<>> THEN <<z>> ELSE <<>>))
          \o [n \in 1..Len(calls) |->
                [type |-> "function_call", index |-> calls[n].index, body |-> calls[n].body]]
    BY Zenon DEF BuildResponse
  <2> DEFINE q == IF told THEN <<x>> ELSE <<>>
  <2>3. n0 \o q = q
    <3>1. q \in Seq(GatheredItems)
      <4>1. x \in GatheredItems
        BY <1>1 DEF GatheredItems
      <4> HIDE DEF x
      <4> QED
        BY <4>1
    <3> HIDE DEF q
    <3> QED
      BY <3>1, ConcatEmptySeq
  <2> QED
    BY <2>1, <2>2, <2>3, Zenon DEF Maybe, CallItems
<1>3. /\ text \in Seq(Nat) /\ reasoning \in Seq(Nat) /\ calls \in Seq(CallRecords)
      /\ n0 \in Seq(GatheredItems) /\ Elements(n0) = {}
  BY DEF Elements
<1>4. told <=> p.notices \/ (p.inline /\ r.outcomes # <<>>)
  OBVIOUS
<1>5. /\ x \in GatheredItems /\ x.type = "reasoning" /\ x.body = spoken
      /\ y \in GatheredItems /\ y.type = "reasoning" /\ y.body = reasoning
      /\ z \in GatheredItems /\ z.type = "message" /\ z.body = text
  BY <1>1 DEF GatheredItems
<1>0. /\ (thinks <=> reasoning # <<>>) /\ (answers <=> text # <<>>)
      /\ told \in BOOLEAN /\ thinks \in BOOLEAN /\ answers \in BOOLEAN
  OBVIOUS
<1> HIDE DEF x, y, z, text, reasoning, calls, told, spoken, n0, thinks, answers
<1>6. /\ Said(n0, "message") = <<>> /\ Said(n0, "reasoning") = <<>>
      /\ \A f \in {spoken, reasoning, text} : <<>> \o f = f /\ f \o <<>> = f
  BY <1>1, <1>3, SaidNone, ConcatEmptySeq DEF n0
<1>7. /\ a \in Seq(GatheredItems) /\ Said(a, "message") = <<>>
      /\ Said(a, "reasoning") = IF told THEN spoken ELSE <<>>
      /\ Elements(a) \subseteq {x}
  <2>0. n0 \in Seq(GatheredItems) /\ x \in GatheredItems /\ told \in BOOLEAN
    BY <1>0, <1>3, <1>5
  <2>1. a \in Seq(GatheredItems) /\ Elements(a) \subseteq Elements(n0) \cup {x}
    BY <2>0, SaidMaybe
  <2>4. Said(a, "message") =
           IF told /\ x.type = "message" THEN Said(n0, "message") \o x.body ELSE Said(n0, "message")
    BY <2>0, SaidMaybe
  <2>2. Said(a, "reasoning") =
           IF told /\ x.type = "reasoning" THEN Said(n0, "reasoning") \o x.body ELSE Said(n0, "reasoning")
    BY <2>0, SaidMaybe
  <2> HIDE DEF a
  <2> QED
    BY <1>3, <1>5, <1>6, <2>1, <2>2, <2>4
<1> HIDE DEF a
<1>8. /\ b \in Seq(GatheredItems) /\ Said(b, "message") = <<>>
      /\ Said(b, "reasoning") = (IF told THEN spoken ELSE <<>>) \o reasoning
      /\ Elements(b) \subseteq {x, y}
  <2>0. a \in Seq(GatheredItems) /\ y \in GatheredItems /\ thinks \in BOOLEAN
    BY <1>0, <1>5, <1>7
  <2>1. b \in Seq(GatheredItems) /\ Elements(b) \subseteq Elements(a) \cup {y}
    BY <2>0, SaidMaybe
  <2>4. Said(b, "message") =
           IF thinks /\ y.type = "message" THEN Said(a, "message") \o y.body ELSE Said(a, "message")
    BY <2>0, SaidMaybe
  <2>2. Said(b, "reasoning") =
           IF thinks /\ y.type = "reasoning" THEN Said(a, "reasoning") \o y.body ELSE Said(a, "reasoning")
    BY <2>0, SaidMaybe
  <2> HIDE DEF b
  <2>3. (IF told THEN spoken ELSE <<>>) \o <<>> = IF told THEN spoken ELSE <<>>
    BY <1>6, ConcatEmptySeq
  <2> QED
    BY <1>0, <1>5, <1>7, <2>1, <2>2, <2>3, <2>4
<1> HIDE DEF b
<1>9. /\ c \in Seq(GatheredItems) /\ Said(c, "message") = text
      /\ Said(c, "reasoning") = (IF told THEN spoken ELSE <<>>) \o reasoning
      /\ Elements(c) \subseteq {x, y, z}
  <2>0. b \in Seq(GatheredItems) /\ z \in GatheredItems /\ answers \in BOOLEAN
    BY <1>0, <1>5, <1>8
  <2>1. c \in Seq(GatheredItems) /\ Elements(c) \subseteq Elements(b) \cup {z}
    BY <2>0, SaidMaybe
  <2>4. Said(c, "message") =
           IF answers /\ z.type = "message" THEN Said(b, "message") \o z.body ELSE Said(b, "message")
    BY <2>0, SaidMaybe
  <2>2. Said(c, "reasoning") =
           IF answers /\ z.type = "reasoning" THEN Said(b, "reasoning") \o z.body ELSE Said(b, "reasoning")
    BY <2>0, SaidMaybe
  <2> HIDE DEF c
  <2> QED
    BY <1>0, <1>5, <1>6, <1>8, <2>1, <2>2, <2>4
<1> HIDE DEF c
<1>10. \A i \in Elements(c) : i.type # "function_call"
  BY <1>5, <1>9
<1>11. /\ {<<items[n].index, items[n].body>> :
             n \in {m \in DOMAIN items : items[m].type = "function_call"}} = CallSet(calls)
       /\ Said(items, "message") = Said(c, "message") /\ Said(items, "reasoning") = Said(c, "reasoning")
  <2>1. c \in Seq(GatheredItems) /\ calls \in Seq(CallRecords)
    BY <1>3, <1>9
  <2>2. "function_call" # "message" /\ "function_call" # "reasoning"
        /\ "function_call" \in {"function_call", "tool_use"}
    OBVIOUS
  <2>3. /\ {<<items[n].index, items[n].body>> :
               n \in {m \in DOMAIN items : items[m].type = "function_call"}} = CallSet(calls)
        /\ Said(items, "message") = Said(c, "message")
    BY <1>10, <2>1, <2>2, CallsBuilt, ZenonT(60)
  <2>4. Said(items, "reasoning") = Said(c, "reasoning")
    BY <1>10, <2>1, <2>2, CallsBuilt, ZenonT(60)
  <2> QED
    BY <2>3, <2>4
<1> HIDE DEF items
<1>12. /\ Said(items, "message") = text
       /\ Said(items, "reasoning") = (IF told THEN spoken ELSE <<>>) \o reasoning
       /\ {<<items[n].index, items[n].body>> :
             n \in {m \in DOMAIN items : items[m].type = "function_call"}} = CallSet(calls)
  BY <1>9, <1>11
<1> QED
  BY <1>2, <1>4, <1>12 DEF text, reasoning, calls, spoken

\* The message says the text and the notices, and has the calls of the result.
LEMMA MessageBuilt ==
    ASSUME NEW r, r.text \in Seq(Nat), r.calls \in Seq(CallRecords), NEW p \in Options
    PROVE  LET items == BuildMessage(r, p)
           IN  /\ Said(items, "text") = r.text /\ Said(items, "thinking") = Noticed(p)
               /\ {<<items[n].index, items[n].body>> :
                      n \in {m \in DOMAIN items : items[m].type = "tool_use"}} = CallSet(r.calls)
<1> DEFINE text == r.text
           calls == r.calls
           k == <<NoticeToken>>
           n0 == <<>>
           x == [type |-> "thinking", index |-> 0, body |-> k]
           z == [type |-> "text", index |-> 0, body |-> text]
           told == p.notices
           answers == text # <<>>
           a == n0 \o Maybe(told, x)
           c == a \o Maybe(answers, z)
           items == c \o CallItems("tool_use", calls)
<1>1. k \in Seq(Nat) /\ n0 \in Seq(GatheredItems) /\ Elements(n0) = {}
  BY DEF NoticeToken, Elements
<1>2. BuildMessage(r, p) = items
  <2>1. BuildMessage(r, p) =
          ((IF told THEN <<x>> ELSE <<>>) \o (IF text # <<>> THEN <<z>> ELSE <<>>))
          \o [n \in 1..Len(calls) |-> [type |-> "tool_use", index |-> calls[n].index, body |-> calls[n].body]]
    BY Zenon DEF BuildMessage
  <2> DEFINE q == IF told THEN <<x>> ELSE <<>>
  <2>2. n0 \o q = q
    <3>1. q \in Seq(GatheredItems)
      <4>1. x \in GatheredItems
        BY <1>1 DEF GatheredItems
      <4> HIDE DEF x
      <4> QED
        BY <4>1
    <3> HIDE DEF q
    <3> QED
      BY <3>1, ConcatEmptySeq
  <2> QED
    BY <2>1, <2>2, Zenon DEF Maybe, CallItems
<1>3. /\ text \in Seq(Nat) /\ calls \in Seq(CallRecords) /\ (answers <=> text # <<>>)
      /\ told \in BOOLEAN /\ answers \in BOOLEAN
  BY OptionsType
<1>4. /\ x \in GatheredItems /\ x.type = "thinking" /\ x.body = k
      /\ z \in GatheredItems /\ z.type = "text" /\ z.body = text
  BY <1>1 DEF GatheredItems
<1>5. Noticed(p) = IF told THEN k ELSE <<>>
  BY DEF Noticed
<1> HIDE DEF x, z, text, calls, told, answers, k, n0
<1>6. /\ Said(n0, "text") = <<>> /\ Said(n0, "thinking") = <<>>
      /\ \A f \in {k, text} : <<>> \o f = f
  BY <1>1, <1>3, SaidNone, ConcatEmptySeq DEF n0
<1>7. /\ a \in Seq(GatheredItems) /\ Said(a, "text") = <<>>
      /\ Said(a, "thinking") = IF told THEN k ELSE <<>>
      /\ Elements(a) \subseteq {x}
  <2>0. n0 \in Seq(GatheredItems) /\ x \in GatheredItems /\ told \in BOOLEAN
    BY <1>1, <1>3, <1>4
  <2>1. a \in Seq(GatheredItems) /\ Elements(a) \subseteq Elements(n0) \cup {x}
    BY <2>0, SaidMaybe
  <2>2. Said(a, "text") = IF told /\ x.type = "text" THEN Said(n0, "text") \o x.body ELSE Said(n0, "text")
    BY <2>0, SaidMaybe
  <2>3. Said(a, "thinking") =
           IF told /\ x.type = "thinking" THEN Said(n0, "thinking") \o x.body ELSE Said(n0, "thinking")
    BY <2>0, SaidMaybe
  <2> HIDE DEF a
  <2> QED
    BY <1>1, <1>4, <1>6, <2>1, <2>2, <2>3
<1> HIDE DEF a
<1>8. /\ c \in Seq(GatheredItems) /\ Said(c, "text") = text
      /\ Said(c, "thinking") = IF told THEN k ELSE <<>>
      /\ Elements(c) \subseteq {x, z}
  <2>0. a \in Seq(GatheredItems) /\ z \in GatheredItems /\ answers \in BOOLEAN
    BY <1>3, <1>4, <1>7
  <2>1. c \in Seq(GatheredItems) /\ Elements(c) \subseteq Elements(a) \cup {z}
    BY <2>0, SaidMaybe
  <2>2. Said(c, "text") = IF answers /\ z.type = "text" THEN Said(a, "text") \o z.body ELSE Said(a, "text")
    BY <2>0, SaidMaybe
  <2>3. Said(c, "thinking") =
           IF answers /\ z.type = "thinking" THEN Said(a, "thinking") \o z.body ELSE Said(a, "thinking")
    BY <2>0, SaidMaybe
  <2> HIDE DEF c
  <2> QED
    BY <1>3, <1>4, <1>6, <1>7, <2>1, <2>2, <2>3
<1> HIDE DEF c
<1>9. \A i \in Elements(c) : i.type # "tool_use"
  BY <1>4, <1>8
<1>10. "tool_use" # "text" /\ "tool_use" # "thinking" /\ "tool_use" \in {"function_call", "tool_use"}
  OBVIOUS
<1>11. /\ {<<items[n].index, items[n].body>> :
             n \in {m \in DOMAIN items : items[m].type = "tool_use"}} = CallSet(calls)
       /\ Said(items, "text") = Said(c, "text")
  <2>1. c \in Seq(GatheredItems) /\ calls \in Seq(CallRecords)
    BY <1>3, <1>8
  <2> QED
    BY <1>9, <1>10, <2>1, CallsBuilt, Zenon
<1>12. Said(items, "thinking") = Said(c, "thinking")
  <2>1. c \in Seq(GatheredItems) /\ calls \in Seq(CallRecords)
    BY <1>3, <1>8
  <2> QED
    BY <1>9, <1>10, <2>1, CallsBuilt, Zenon
<1> HIDE DEF items
<1> QED
  BY <1>2, <1>5, <1>8, <1>11, <1>12, Zenon DEF text, calls

\* The stream of blocks and the message without a stream say the same.
LEMMA MessageSame ==
    ASSUME NEW g, NEW text, NEW thought, NEW blocks \in Seq([index : Nat, at : Nat]), NEW next,
           NEW calls \in Seq(CallRecords), BlocksSaw(g, text, thought, blocks, next, calls),
           NEW reasoning, NEW p \in Options, ThoughtPart(thought, reasoning, p),
           NEW r, r.text \in Seq(Nat), r.calls \in Seq(CallRecords),
           r.text = text, r.reasoning = reasoning, CallSet(r.calls) = CallSet(calls)
    PROVE  SameMessage(g, blocks, r, p)
<1> DEFINE m == BuildMessage(r, p)
           said1 == {<<m[n].index, m[n].body>> : n \in {k \in DOMAIN m : m[k].type = "tool_use"}}
           said2 == {<<blocks[b].index, Tokens(g, {"json"}, {blocks[b].at})>> : b \in DOMAIN blocks}
<1>1. Said(m, "text") = r.text /\ Said(m, "thinking") = Noticed(p) /\ said1 = CallSet(r.calls)
  BY MessageBuilt
<1> HIDE DEF m
<1>2. /\ Tokens(g, {"text"}, Nat) = text /\ Tokens(g, {"thinking"}, Nat) = thought
      /\ Len(blocks) = Len(calls)
      /\ \A n \in DOMAIN blocks :
            blocks[n].index = calls[n].index /\ Tokens(g, {"json"}, {blocks[n].at}) = calls[n].body
  BY DEF BlocksSaw
<1>3. DOMAIN blocks = DOMAIN calls
  BY <1>2, LenProperties
<1>4. said2 = CallSet(calls)
  BY <1>2, <1>3 DEF CallSet
<1>5. \E n \in 0..Len(reasoning) : thought = Noticed(p) \o SubSeq(reasoning, 1, n)
  BY DEF ThoughtPart
<1>6. said2 = said1
  BY <1>1, <1>4, Zenon
<1>7. Tokens(g, {"text"}, Nat) = Said(m, "text")
  BY <1>1, <1>2
<1>8. \E n \in 0..Len(r.reasoning) :
         Tokens(g, {"thinking"}, Nat) = Said(m, "thinking") \o SubSeq(r.reasoning, 1, n)
  BY <1>1, <1>2, <1>5, Zenon
<1> QED
  BY <1>6, <1>7, <1>8, Zenon DEF SameMessage, m

\* The stream of items and the object without a stream say the same.
LEMMA ResponseSame ==
    ASSUME NEW s, ItemsGood(s), NEW at, NEW p \in Options,
           NEW r, r.text \in Seq(Nat), r.reasoning \in Seq(Nat), r.outcomes \in Seq(Nat),
           r.calls \in Seq(CallRecords), Thoughts(s, r.reasoning, r.outcomes, p, at),
           NEW output, Said(output, "message") = r.text, Said(output, "reasoning") = Heard(s)
    PROVE  SameResponse(output, s.dumped, r, p)
<1> DEFINE items == BuildResponse(r, p)
           reasoning == r.reasoning
           outcomes == r.outcomes
           dumped == s.dumped
           told == p.notices \/ (p.inline /\ outcomes # <<>>)
           whole == Preface(TRUE, outcomes, p)
           none == Preface(FALSE, outcomes, p)
           first == Announced(r, dumped, p)
           n == <<>>
           x == <<ProgressToken>>
<1>1. /\ Said(items, "message") = r.text
      /\ Said(items, "reasoning") = (IF told THEN whole ELSE n) \o reasoning
  BY ResponseBuilt
<1>2. /\ Heard(s) = Preface(dumped, outcomes, p) \o reasoning
      /\ told => dumped
      /\ dumped => p.notices \/ p.inline
  BY ThoughtsMean
<1>3. dumped \in BOOLEAN /\ p.notices \in BOOLEAN /\ p.inline \in BOOLEAN
  BY GoodFacts, OptionsType
<1>4. /\ whole \in Seq(Nat)
      /\ ~p.notices /\ (p.inline => outcomes = n) => none = n /\ whole = x
  <2>1. TRUE \in BOOLEAN /\ 0 \in Nat
    OBVIOUS
  <2> QED
    BY <2>1, PrefaceGrows
<1>5. first = IF ~told /\ dumped THEN x ELSE n
  BY <1>2 DEF Announced
<1>6. reasoning \in Seq(Nat) /\ x \in Seq(Nat)
  BY DEF ProgressToken
<1>7. ~told => ~p.notices /\ (p.inline => outcomes = n)
  BY <1>3
<1> HIDE DEF items, reasoning, dumped, told, whole, none, first, x
<1>8. n \o reasoning = reasoning
  BY <1>6, ConcatEmptySeq
<1>9. n \o (whole \o reasoning) = whole \o reasoning
  <2> DEFINE y == whole \o reasoning
  <2>1. y \in Seq(Nat)
    BY <1>4, <1>6, ConcatProperties
  <2> HIDE DEF y
  <2> QED
    BY <2>1, ConcatEmptySeq DEF y
<1> HIDE DEF n
<1>10. CASE told
  <2>1. dumped = TRUE
    BY <1>2, <1>3, <1>10
  <2>2. Heard(s) = whole \o reasoning
    BY <1>2, <2>1, Zenon DEF whole
  <2>3. first = n /\ (IF told THEN whole ELSE n) = whole
    BY <1>5, <1>10
  <2>4. Heard(s) = first \o ((IF told THEN whole ELSE n) \o reasoning)
    BY <1>9, <2>2, <2>3, Zenon
  <2> QED
    BY <1>1, <2>4, Zenon DEF SameResponse, items, first, dumped
<1>11. CASE ~told /\ dumped
  <2>1. dumped = TRUE /\ whole = x
    BY <1>3, <1>4, <1>7, <1>11
  <2>2. Heard(s) = whole \o reasoning
    BY <1>2, <2>1, Zenon DEF whole
  <2>3. first = x /\ (IF told THEN whole ELSE n) = n
    BY <1>5, <1>11
  <2>4. Heard(s) = first \o ((IF told THEN whole ELSE n) \o reasoning)
    BY <1>8, <2>1, <2>2, <2>3, Zenon
  <2> QED
    BY <1>1, <2>4, Zenon DEF SameResponse, items, first, dumped
<1>12. CASE ~told /\ ~dumped
  <2>1. dumped = FALSE /\ none = n
    BY <1>3, <1>4, <1>7, <1>12
  <2>2. Heard(s) = n \o reasoning
    BY <1>2, <2>1, Zenon DEF none
  <2>3. first = n /\ (IF told THEN whole ELSE n) = n
    BY <1>5, <1>12
  <2>4. Heard(s) = first \o ((IF told THEN whole ELSE n) \o reasoning)
    BY <1>8, <2>2, <2>3, Zenon
  <2> QED
    BY <1>1, <2>4, Zenon DEF SameResponse, items, first, dumped
<1> QED
  BY <1>10, <1>11, <1>12

\* At first there are the notices or nothing.
LEMMA ThoughtsStart ==
    ASSUME NEW p \in Options
    PROVE  Thoughts(ResponsesStart(p), <<>>, <<>>, p, "start")
<1> DEFINE n == <<>>
           plain == [notices |-> FALSE]
           s == ResponsesStart(plain)
           d == OpenMemberDump(s)
           u == ReasoningDelta(d, NoticesToken)
<1>0. n \in Seq(Nat) /\ n \o n = n
  BY EmptySeq, ConcatEmptySeq
<1>1. ItemsGood(s) /\ ResponsesShow(s, n, n)
  BY ResponsesBegin
<1>2. ResponsesStart(p) = IF p.notices THEN u ELSE s
  BY DEF ResponsesStart
<1>3. Heard(s) = n /\ s.dumped = FALSE
  <2>1. s.output = n /\ s.reasoning.body = n /\ s.dumped = FALSE
    BY DEF ResponsesStart, NoItem
  <2>2. Said(n, "reasoning") = n
    BY SaidNone
  <2> HIDE DEF s, n
  <2> QED
    BY <1>0, <2>1, <2>2, Zenon DEF Heard
<1> HIDE DEF s
<1>4. CASE ~p.notices
  <2>1. Preface(FALSE, n, p) = n
    <3>1. 0 \in Nat /\ FALSE \in BOOLEAN
      OBVIOUS
    <3> QED
      BY <1>0, <1>4, <3>1, PrefaceGrows
  <2>2. Heard(s) = Preface(s.dumped, n, p) \o n
    BY <1>0, <1>3, <2>1, Zenon
  <2>3. Thoughts(s, n, n, p, "start")
    BY <1>3, <1>4, <2>2, ThoughtsMean
  <2> QED
    BY <1>2, <1>4, <2>3
<1>5. CASE p.notices
  <2> DEFINE a == <<ProgressToken>>
             b == <<NoticesToken>>
  <2>1. Heard(d) = Append(n, ProgressToken) /\ d.dumped
    BY <1>1, <1>3, DumpHeard
  <2>2. ItemsGood(d) /\ NoticesToken \in Nat
    BY <1>1, DumpOpens DEF NoticesToken
  <2> HIDE DEF d
  <2>3. Heard(u) = Append(Heard(d), NoticesToken) /\ u.dumped = d.dumped /\ u.dumped \in BOOLEAN
    <3>1. Heard(u) = Append(Heard(d), NoticesToken) /\ u.dumped = d.dumped
      BY <2>2, ReasoningHeard
    <3>2. d.dumped \in BOOLEAN
      BY <2>2, GoodFacts
    <3> QED
      BY <3>1, <3>2
  <2> HIDE DEF u
  <2>4. Append(n, ProgressToken) = a /\ Append(a, NoticesToken) = a \o b /\ a \o b \in Seq(Nat)
    <3>1. a \in Seq(Nat) /\ b \in Seq(Nat) /\ NoticesToken \in Nat /\ Append(n, ProgressToken) = a
      BY DEF ProgressToken, NoticesToken
    <3> HIDE DEF a
    <3>2. a \o b = Append(a, NoticesToken)
      BY <3>1, OneTogether
    <3>3. a \o b \in Seq(Nat)
      BY <3>1, ConcatProperties
    <3> QED
      BY <3>1, <3>2, <3>3
  <2>5. Preface(TRUE, n, p) = (a \o b) \o n
    BY <1>5 DEF Preface
  <2> HIDE DEF a, b
  <2>6. (a \o b) \o n = a \o b
    <3> DEFINE ab == a \o b
    <3>1. ab \in Seq(Nat)
      BY <2>4
    <3> HIDE DEF ab
    <3>2. ab \o n = ab
      BY <3>1, ConcatEmptySeq
    <3> QED
      BY <3>2 DEF ab
  <2> HIDE DEF n
  <2>7. u.dumped = TRUE
    BY <2>1, <2>3
  <2>8. Heard(u) = Preface(u.dumped, n, p) \o n
    BY <2>1, <2>3, <2>4, <2>5, <2>6, <2>7, Zenon
  <2>9. Thoughts(u, n, n, p, "start")
    BY <1>5, <2>7, <2>8, ThoughtsMean DEF n
  <2> QED
    BY <1>2, <1>5, <2>9 DEF n
<1> QED
  BY <1>4, <1>5

\* At the end all that was heard is put out.
LEMMA HeardOver ==
    ASSUME NEW s, ItemsGood(s), NEW text, NEW calls, ResponsesShow(s, text, calls), NEW frames
    PROVE  LET u == Say(CloseAll(s), frames)
           IN  Said(u.output, "reasoning") = Heard(s) /\ u.dumped = s.dumped
<1> DEFINE b == CloseReasoning(s)
           c == CloseText(b)
           put == c.output \o c.tools
           u == Say(CloseAll(s), frames)
<1>1. ItemsGood(b) /\ ResponsesShow(b, text, calls) /\ b.reasoning = NoItem
  BY ReasoningCloses
<1>2. Heard(b) = Heard(s) /\ b.dumped = s.dumped
  BY ClosingHeard
<1>3. CloseAll(s) = FinalizeTools(c)
  BY DEF CloseAll
<1> HIDE DEF b
<1>4. ItemsGood(c) /\ c.reasoning = NoItem
  BY <1>1, TextCloses
<1>5. Heard(c) = Heard(b) /\ c.dumped = b.dumped
  BY <1>1, ClosingHeard
<1> HIDE DEF c
<1>6. /\ c \in ItemStreams /\ c.output \in Seq(ItemRecords) /\ c.tools \in Seq(ItemRecords)
      /\ \A n \in DOMAIN c.tools : c.tools[n].type = "function_call"
  BY <1>4, GoodFacts
<1>7. Said(put, "reasoning") = Said(c.output, "reasoning")
  <2>1. \A n \in 1..Len(c.tools) : c.tools[n].type # "reasoning"
    BY <1>6, LenProperties
  <2> QED
    BY <1>6, <2>1, SaidSilent
<1>8. Heard(c) = Said(c.output, "reasoning")
  <2> DEFINE v == Said(c.output, "reasoning")
  <2>1. v \in Seq(Nat) /\ c.reasoning.body = <<>>
    BY <1>4, HeardType, ItemFields
  <2>2. Heard(c) = v \o c.reasoning.body
    BY DEF Heard
  <2> HIDE DEF v
  <2>3. v \o <<>> = v
    BY <2>1, ConcatEmptySeq
  <2> QED
    BY <2>1, <2>2, <2>3, Zenon DEF v
<1>9. u.output = put /\ u.dumped = c.dumped
  BY <1>3, <1>6 DEF FinalizeTools, Say, ItemStreams
<1> HIDE DEF u, put
<1> QED
  BY <1>2, <1>5, <1>7, <1>8, <1>9, Zenon DEF u

\* The event that ends the run leaves the same with a stream and without.
LEMMA ReasonedOver ==
    ASSUME IInv, Agreement, Reasoned, NEW e, e.kind \in Ends, stage # "over", Fold(e), Over
    PROVE  Reasoned'
<1> DEFINE r == result
           q == Collect(r, e)
           p == o
           k == e.kind
           v == ResponsesFold(responses, e, p)
           w == AnthropicFold(anthropic, e, p)
           at == stage
<1>1. /\ responses' = v /\ anthropic' = w /\ result' = q /\ o' = p /\ stage' = "over"
  BY DEF Fold, Over
<1>2. /\ p \in Options /\ r \in Results /\ BlocksGood(anthropic) /\ ItemsGood(responses)
      /\ AnthropicShows(anthropic, r.text, r.reasoning, r.calls, p)
      /\ ResponsesShow(responses, r.text, r.calls)
      /\ \A m, n \in DOMAIN r.calls : r.calls[m].index = r.calls[n].index => m = n
      /\ Thoughts(responses, r.reasoning, r.outcomes, p, at)
  BY DEF IInv, Agreement, Reasoned
<1>3. SameSoFar'
  BY <1>1, AgreementOver DEF Agreement
<1>4. /\ r.text \in Seq(Nat) /\ r.reasoning \in Seq(Nat) /\ r.outcomes \in Seq(Nat)
      /\ r.calls \in Seq(CallRecords)
  BY <1>2 DEF Results
<1>5. /\ q.text = r.text /\ q.reasoning = r.reasoning /\ q.outcomes = r.outcomes
      /\ q.calls = IF k = "failed" THEN r.calls ELSE SortCalls(r.calls)
      /\ q.end # "raised" => k # "failed"
  BY <1>2, Finished
<1>6. ASSUME q.end # "raised"
      PROVE  /\ SameResponse(v.output, v.dumped, q, p)
             /\ SameMessage(w.out, w.blocks, q, p)
  <2>1. k \in {"completed", "cut"} /\ q.calls = SortCalls(r.calls)
    BY <1>5, <1>6 DEF Ends
  <2> DEFINE c == SortCalls(r.calls)
  <2>2. c \in Seq(CallRecords) /\ CallSet(c) = CallSet(r.calls)
    BY <1>2, <1>4, SortedSame, SortedSet
  <2>3. v = Say(CloseAll(responses), <<ResponsesFrame("completed")>>)
    BY <2>1 DEF ResponsesFold
  <2> HIDE DEF q, c, r, p, k, at
  <2>4. Said(v.output, "reasoning") = Heard(responses) /\ v.dumped = responses.dumped
    <3> HIDE DEF v
    <3>1. LET u == Say(CloseAll(responses), <<ResponsesFrame("completed")>>)
          IN  Said(u.output, "reasoning") = Heard(responses) /\ u.dumped = responses.dumped
      BY <1>2, HeardOver
    <3> QED
      BY <2>3, <3>1, Zenon
  <2>5. Said(v.output, "message") = r.text
    <3> HIDE DEF v
    <3>1. "completed" \in {"completed", "failed"}
      OBVIOUS
    <3>2. LET u == Say(CloseAll(responses), <<ResponsesFrame("completed")>>)
          IN  Said(u.output, "message") = r.text
      BY <1>2, <1>4, <3>1, ResponsesOver
    <3> QED
      BY <2>3, <3>2, Zenon
  <2>6. w.blocks \in Seq([index : Nat, at : Nat])
        /\ \E thought : /\ BlocksSaw(w.out, r.text, thought, w.blocks, w.next, r.calls)
                        /\ ThoughtPart(thought, r.reasoning, p)
    BY <1>2, <1>4, AnthropicShowsOver
  <2> HIDE DEF v, w
  <2>7. /\ q.text \in Seq(Nat) /\ q.reasoning \in Seq(Nat) /\ q.outcomes \in Seq(Nat)
        /\ q.calls \in Seq(CallRecords) /\ CallSet(q.calls) = CallSet(r.calls)
    BY <1>4, <1>5, <2>1, <2>2 DEF c
  <2>8. SameResponse(v.output, v.dumped, q, p)
    <3>1. Thoughts(responses, q.reasoning, q.outcomes, p, at) /\ Said(v.output, "message") = q.text
      BY <1>2, <1>5, <2>5, Zenon
    <3>2. SameResponse(v.output, responses.dumped, q, p)
      BY <1>2, <2>4, <2>7, <3>1, ResponseSame
    <3> QED
      BY <2>4, <3>2, Zenon
  <2>9. SameMessage(w.out, w.blocks, q, p)
    <3>1. PICK thought : /\ BlocksSaw(w.out, r.text, thought, w.blocks, w.next, r.calls)
                         /\ ThoughtPart(thought, r.reasoning, p)
      BY <2>6
    <3> DEFINE out == w.out
               blocks == w.blocks
               next == w.next
               text == r.text
               reasoning == r.reasoning
               calls == r.calls
    <3>2. /\ blocks \in Seq([index : Nat, at : Nat]) /\ calls \in Seq(CallRecords)
          /\ BlocksSaw(out, text, thought, blocks, next, calls) /\ ThoughtPart(thought, reasoning, p)
          /\ q.text = text /\ q.reasoning = reasoning /\ CallSet(q.calls) = CallSet(calls)
      BY <1>4, <1>5, <2>6, <2>7, <3>1
    <3> HIDE DEF out, blocks, next, text, reasoning, calls
    <3>3. SameMessage(out, blocks, q, p)
      BY <1>2, <2>7, <3>2, MessageSame
    <3> QED
      BY <3>3 DEF out, blocks
  <2> QED
    BY <2>8, <2>9
<1> HIDE DEF q, v, w, p
<1>7. SurfacesAgree'
  BY <1>1, <1>3, <1>6, Zenon DEF SurfacesAgree
<1> QED
  BY <1>1, <1>7 DEF Reasoned

\* Every step keeps what was heard and what the answer says together.
LEMMA NextReasoned ==
    ASSUME IInv, Agreement, Reasoned, [SurfacesNext]_surfaceVars
    PROVE  Reasoned'
<1>1. CASE UNCHANGED surfaceVars
  <2>1. /\ o' = o /\ stage' = stage /\ chat' = chat /\ responses' = responses
        /\ anthropic' = anthropic /\ result' = result
    BY <1>1 DEF surfaceVars, folds
  <2>2. SameSoFar => SameSoFar'
    BY <2>1, SurfacesStay
  <2>3. SurfacesAgree => SurfacesAgree'
    BY <2>1, <2>2, Zenon DEF SurfacesAgree
  <2> QED
    BY <2>1, <2>3, Zenon DEF Reasoned
<1>2. CASE FanOut \/ SkipFanOut \/ MemberDone \/ Synthesis \/ AnswerDelta \/ ToolCallStarted \/ ToolCallDelta
  <2>1. PICK e : IsEvent(e)
    BY <1>2, PanelEvent, AnswerEvent
  <2> DEFINE r == result
             p == o
             at == stage
             next == stage'
             t == ResponsesFold(responses, e, p)
             c == Collect(r, e)
  <2>2. /\ e.token \in Nat /\ e.reasoning \in Nat /\ e.content \in Nat
        /\ Moves(e.kind, at, next) /\ at # "over" /\ next # "over"
        /\ responses' = t /\ result' = c /\ o' = p
    BY <2>1 DEF IsEvent, Fold, Moves
  <2>3. /\ p \in Options /\ r \in Results /\ ItemsGood(responses)
        /\ ResponsesShow(responses, r.text, r.calls)
        /\ Thoughts(responses, r.reasoning, r.outcomes, p, at)
    BY <2>2 DEF IInv, Agreement, Reasoned
  <2> HIDE DEF r, p, at, next
  <2>4. Thoughts(t, c.reasoning, c.outcomes, p, next)
    BY <2>2, <2>3, ThoughtsStep
  <2> HIDE DEF t, c
  <2>5. Thoughts(responses', result'.reasoning, result'.outcomes, o', stage')
    BY <2>2, <2>4, Zenon DEF next
  <2> QED
    BY <2>2, <2>5, Zenon DEF Reasoned, next
<1>3. CASE Completed \/ PipelineFailed \/ Cut
  <2>1. PICK e : e.kind \in Ends /\ stage # "over" /\ Fold(e) /\ Over
    BY <1>3, EndEvent
  <2> QED
    BY <2>1, ReasonedOver
<1> QED
  BY <1>1, <1>2, <1>3 DEF SurfacesNext

\* Whatever surface a client uses, with a stream or without, it gets the same
\* answer.
THEOREM SurfacesGiveTheSame == SurfacesSpec => []SurfacesAgree
<1>1. SurfacesInit => Reasoned
  <2> SUFFICES ASSUME SurfacesInit PROVE Reasoned
    OBVIOUS
  <2>1. /\ o \in Options /\ stage = "start" /\ responses = ResponsesStart(o)
        /\ result.reasoning = <<>> /\ result.outcomes = <<>>
    BY DEF SurfacesInit, Empty
  <2>2. Thoughts(responses, <<>>, <<>>, o, "start")
    BY <2>1, ThoughtsStart
  <2> QED
    BY <2>1, <2>2 DEF Reasoned
<1>2. IInv /\ Agreement /\ Reasoned /\ [SurfacesNext]_surfaceVars => Reasoned'
  BY NextReasoned
<1>3. IInv /\ Agreement /\ Reasoned => SurfacesAgree
  <2>1. IInv /\ Agreement => SameSoFar
    BY AgreementMeans
  <2> QED
    BY <2>1 DEF Reasoned, SurfacesAgree
<1> QED
  BY <1>1, <1>2, <1>3, StreamsInv, SurfacesTogether, PTL DEF SurfacesSpec
=============================================================================
