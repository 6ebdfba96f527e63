--------------------------- MODULE SurfacesProofs ---------------------------
(***************************************************************************)
(* Proofs about Surfaces for panels of any width, any tool calls and       *)
(* answers of any length.                                                  *)
(***************************************************************************)
EXTENDS Surfaces, SequenceTheorems, FiniteSetTheorems, WellFoundedInduction, TLAPS

(***************************************************************************)
(* One more frame                                                          *)
(***************************************************************************)
\* What appending does, by position.
LEMMA OneMore ==
    ASSUME NEW S, NEW f \in Seq(S), NEW x \in S
    PROVE  /\ Append(f, x) \in Seq(S)
           /\ Len(f) \in Nat /\ Len(Append(f, x)) = Len(f) + 1
           /\ DOMAIN f = 1 .. Len(f) /\ DOMAIN Append(f, x) = 1 .. Len(f) + 1
           /\ \A n \in 1 .. Len(f) : Append(f, x)[n] = f[n]
           /\ Append(f, x)[Len(f) + 1] = x
<1>1. /\ Append(f, x) \in Seq(S) /\ Len(Append(f, x)) = Len(f) + 1
      /\ \A n \in 1 .. Len(f) : Append(f, x)[n] = f[n]
      /\ Append(f, x)[Len(f) + 1] = x
  BY AppendProperties
<1>2. Len(f) \in Nat /\ DOMAIN f = 1 .. Len(f)
  BY LenProperties
<1>3. DOMAIN Append(f, x) = 1 .. Len(Append(f, x))
  BY <1>1, LenProperties
<1> QED
  BY <1>1, <1>2, <1>3

\* A sequence of one frame is put after others by appending it.
LEMMA OneTogether ==
    ASSUME NEW S, NEW f \in Seq(S), NEW x \in S
    PROVE  f \o <<x>> = Append(f, x)
<1> QED
  BY SMTT(30)

\* Frames said together are said one after the other.
LEMMA Together ==
    ASSUME NEW S, NEW f \in Seq(S), NEW x \in S, NEW y \in S, NEW z \in S
    PROVE  /\ f \o <<x>> = Append(f, x)
           /\ f \o <<x, y>> = Append(Append(f, x), y)
           /\ f \o <<x, y, z>> = Append(Append(Append(f, x), y), z)
<1> QED
  BY SMTT(30)

\* Frames that are said only sometimes, after one frame.
LEMMA Sometimes ==
    ASSUME NEW x, NEW y
    PROVE  <<x>> \o <<y>> = <<x, y>> /\ <<x>> \o <<>> = <<x>> /\ <<>> \o <<y>> = <<y>>
<1> DEFINE S == {x, y}
           a == <<x>>
           b == <<y>>
           c == <<x, y>>
           n == <<>>
<1>0. x \in S /\ y \in S
  OBVIOUS
<1> HIDE DEF S
<1>1. a \in Seq(S) /\ b \in Seq(S) /\ c \in Seq(S) /\ n \in Seq(S)
  BY <1>0, EmptySeq
<1>2. n \o a = Append(n, x) /\ n \o c = Append(Append(n, x), y)
  BY <1>0, <1>1, Together
<1>3. a \o b = Append(a, y)
  BY <1>0, <1>1, Together, SMTT(30)
<1> HIDE DEF a, b, c
<1>4. n \o a = a /\ n \o b = b /\ n \o c = c /\ a \o n = a
  BY <1>1, ConcatEmptySeq
<1>5. a \o b = c
  BY <1>2, <1>3, <1>4
<1> QED
  BY <1>4, <1>5 DEF a, b, c

\* A third frame that is said only sometimes.
LEMMA SometimesThird ==
    ASSUME NEW x, NEW y, NEW z
    PROVE  <<x, y>> \o <<z>> = <<x, y, z>> /\ <<x, y>> \o <<>> = <<x, y>>
<1> DEFINE S == {x, y, z}
           c == <<x, y>>
           d == <<x, y, z>>
           e == <<z>>
           n == <<>>
<1>0. x \in S /\ y \in S /\ z \in S
  OBVIOUS
<1> HIDE DEF S
<1>1. c \in Seq(S) /\ d \in Seq(S) /\ e \in Seq(S) /\ n \in Seq(S)
  BY <1>0, EmptySeq
<1>2. n \o c = Append(Append(n, x), y) /\ n \o d = Append(Append(Append(n, x), y), z)
  BY <1>0, <1>1, Together
<1>3. c \o e = Append(c, z)
  BY <1>0, <1>1, Together, SMTT(30)
<1> HIDE DEF c, d, e
<1>4. n \o c = c /\ n \o d = d /\ c \o n = c
  BY <1>1, ConcatEmptySeq
<1>5. c \o e = d
  BY <1>2, <1>3, <1>4
<1> QED
  BY <1>4, <1>5 DEF c, d, e

\* A count is a number, of the frames up to a place.
LEMMA CountType ==
    ASSUME NEW f, NEW n \in Nat, NEW kind
    PROVE  /\ Count(f, n, kind) \in Nat
           /\ IsFiniteSet({m \in 1 .. n : f[m][1] = kind})
<1>1. IsFiniteSet(1 .. n)
  BY FS_Interval
<1>2. IsFiniteSet({m \in 1 .. n : f[m][1] = kind})
  BY <1>1, FS_Subset
<1> QED
  BY <1>2, FS_CardinalityType DEF Count

\* A further frame leaves the counts up to an earlier place alone, and adds
\* one to that of its kind.
LEMMA CountMore ==
    ASSUME NEW S, NEW f \in Seq(S), NEW x \in S, NEW kind
    PROVE  /\ \A n \in 0 .. Len(f) : Count(Append(f, x), n, kind) = Count(f, n, kind)
           /\ Count(Append(f, x), Len(f) + 1, kind) = Count(f, Len(f), kind) + (IF x[1] = kind THEN 1 ELSE 0)
           /\ Count(f, Len(f), kind) \in Nat
<1> DEFINE g == Append(f, x)
           C(h, n) == {m \in 1 .. n : h[m][1] = kind}
<1>1. /\ Len(f) \in Nat
      /\ \A n \in 1 .. Len(f) : g[n] = f[n]
      /\ g[Len(f) + 1] = x
  BY OneMore
<1> HIDE DEF g
<1>2. \A n \in 0 .. Len(f) : C(g, n) = C(f, n)
  BY <1>1
<1>3. IsFiniteSet(C(f, Len(f))) /\ Count(f, Len(f), kind) \in Nat
  BY <1>1, CountType
<1>6. /\ \A n \in 0 .. Len(f) : Count(g, n, kind) = Cardinality(C(g, n)) /\ Count(f, n, kind) = Cardinality(C(f, n))
      /\ Count(g, Len(f) + 1, kind) = Cardinality(C(g, Len(f) + 1))
      /\ Count(f, Len(f), kind) = Cardinality(C(f, Len(f))) /\ Cardinality(C(f, Len(f))) \in Nat
  BY <1>3, FS_CardinalityType DEF Count
<1>4. \A n \in 0 .. Len(f) : Count(g, n, kind) = Count(f, n, kind)
  BY <1>2, <1>6
<1>5. Count(g, Len(f) + 1, kind) = Count(f, Len(f), kind) + (IF x[1] = kind THEN 1 ELSE 0)
  <2>1. CASE x[1] = kind
    <3>1. C(g, Len(f) + 1) = C(f, Len(f)) \cup {Len(f) + 1}
      BY <1>1, <2>1
    <3>2. Len(f) + 1 \notin C(f, Len(f))
      BY <1>1
    <3>3. Cardinality(C(f, Len(f)) \cup {Len(f) + 1}) = Cardinality(C(f, Len(f))) + 1
      BY <1>3, <3>2, FS_AddElement
    <3> HIDE DEF C
    <3> QED
      BY <1>6, <2>1, <3>1, <3>3
  <2>2. CASE x[1] # kind
    <3>1. C(g, Len(f) + 1) = C(f, Len(f))
      BY <1>1, <2>2
    <3> HIDE DEF C
    <3> QED
      BY <1>6, <2>2, <3>1
  <2> QED
    BY <2>1, <2>2
<1> QED
  BY <1>3, <1>4, <1>5 DEF g

(***************************************************************************)
(* Chat Completions: a stream grows by one frame                           *)
(***************************************************************************)
\* When a frame may be sent.
ChatMay(x, role, think, headers, compat) ==
    /\ x \in ChatFrames /\ x[1] # "[DONE]"
    /\ x[1] \notin {"role", "finish", "error"} => role
    /\ x[1] = "role" => ~role
    /\ x[1] = "<think>" => ~think
    /\ x[1] = "</think>" => think
    /\ x[1] \in {"content", "reasoning", "tool", "arguments", "arguments+header"} => ~think
    /\ x[1] \in {"arguments", "arguments+header"} =>
          x[2] \in headers /\ (compat <=> x[1] = "arguments+header")

\* What the encoder remembers after it.
ChatMoves(x, role, think, headers, ends, nrole, nthink, nheaders, nends) ==
    /\ nrole \in BOOLEAN /\ (nrole <=> role \/ x[1] = "role")
    /\ nthink \in BOOLEAN /\ (nthink <=> x[1] = "<think>" \/ (think /\ x[1] # "</think>"))
    /\ nheaders = headers \cup {i \in {x[2]} : x[1] = "tool"}
    /\ nends = ends + (IF x[1] \in {"finish", "error"} THEN 1 ELSE 0)

\* A frame that may be sent leaves the stream as it has to be for the next one.
LEMMA ChatSends ==
    ASSUME NEW f, NEW role \in BOOLEAN, NEW think \in BOOLEAN, NEW headers, NEW ends \in Nat, NEW compat,
           ChatSent(f, role, think, headers, ends, compat),
           NEW x, ChatMay(x, role, think, headers, compat),
           NEW nrole, NEW nthink, NEW nheaders, NEW nends,
           ChatMoves(x, role, think, headers, ends, nrole, nthink, nheaders, nends)
    PROVE  ChatSent(Append(f, x), nrole, nthink, nheaders, nends, compat)
<1> USE DEF ChatMay, ChatMoves
<1> DEFINE g == Append(f, x)
<1>0. f \in Seq(ChatFrames)
  BY DEF ChatSent
<1>1. /\ g \in Seq(ChatFrames)
      /\ Len(f) \in Nat /\ Len(g) = Len(f) + 1
      /\ DOMAIN f = 1 .. Len(f) /\ DOMAIN g = 1 .. Len(f) + 1
      /\ \A n \in 1 .. Len(f) : g[n] = f[n]
      /\ g[Len(f) + 1] = x
  BY <1>0, OneMore
<1>2. \A kind : /\ \A n \in 0 .. Len(f) : Count(g, n, kind) = Count(f, n, kind)
                /\ Count(g, Len(f) + 1, kind) = Count(f, Len(f), kind) + (IF x[1] = kind THEN 1 ELSE 0)
                /\ Count(f, Len(f), kind) \in Nat
  BY <1>0, CountMore
<1> HIDE DEF g
<1>3. /\ Count(f, Len(f), "role") = IF role THEN 1 ELSE 0
      /\ Count(f, Len(f), "<think>") = Count(f, Len(f), "</think>") + (IF think THEN 1 ELSE 0)
      /\ Count(f, Len(f), "finish") + Count(f, Len(f), "error") = ends
      /\ \A n \in DOMAIN f : f[n][1] # "[DONE]" /\ ChatFits(f, n, compat)
      /\ \A i \in headers : \E m \in DOMAIN f : f[m][1] = "tool" /\ f[m][2] = i
      /\ think \/ headers # {} => role
  BY DEF ChatSent
<1>4. Count(g, Len(g), "role") = IF nrole THEN 1 ELSE 0
  BY <1>1, <1>2, <1>3
<1>5. Count(g, Len(g), "<think>") = Count(g, Len(g), "</think>") + (IF nthink THEN 1 ELSE 0)
  <2>1. /\ Count(g, Len(g), "<think>") = Count(f, Len(f), "<think>") + (IF x[1] = "<think>" THEN 1 ELSE 0)
        /\ Count(g, Len(g), "</think>") = Count(f, Len(f), "</think>") + (IF x[1] = "</think>" THEN 1 ELSE 0)
        /\ Count(f, Len(f), "<think>") \in Nat /\ Count(f, Len(f), "</think>") \in Nat
    BY <1>1, <1>2
  <2> QED
    BY <1>3, <2>1
<1>6. Count(g, Len(g), "finish") + Count(g, Len(g), "error") = nends
  <2>1. /\ Count(g, Len(g), "finish") = Count(f, Len(f), "finish") + (IF x[1] = "finish" THEN 1 ELSE 0)
        /\ Count(g, Len(g), "error") = Count(f, Len(f), "error") + (IF x[1] = "error" THEN 1 ELSE 0)
        /\ Count(f, Len(f), "finish") \in Nat /\ Count(f, Len(f), "error") \in Nat
    BY <1>1, <1>2
  <2> QED
    BY <1>3, <2>1
<1>7. \A i \in nheaders : \E m \in DOMAIN g : g[m][1] = "tool" /\ g[m][2] = i
  BY <1>1, <1>3
<1>8. ASSUME NEW n \in DOMAIN g
      PROVE  g[n][1] # "[DONE]" /\ ChatFits(g, n, compat)
  <2>1. CASE n \in 1 .. Len(f)
    <3>1. f[n][1] # "[DONE]" /\ ChatFits(f, n, compat) /\ g[n] = f[n] /\ n \in 0 .. Len(f)
      BY <1>1, <1>3, <2>1
    <3>2. /\ Count(g, n, "role") = Count(f, n, "role")
          /\ Count(g, n, "<think>") = Count(f, n, "<think>")
          /\ Count(g, n, "</think>") = Count(f, n, "</think>")
      BY <1>2, <3>1
    <3>3. \A m \in 1 .. n : g[m] = f[m]
      BY <1>1, <2>1
    <3> QED
      BY <3>1, <3>2, <3>3 DEF ChatFits
  <2>2. CASE n = Len(f) + 1
    <3>1. g[n] = x /\ n = Len(g)
      BY <1>1, <2>2
    <3>2. x[1] \notin {"finish", "error"} => Count(g, n, "role") = 1
      BY <1>4, <3>1
    <3>3. x[1] \in {"content", "reasoning", "tool", "arguments", "arguments+header"} =>
             Count(g, n, "<think>") = Count(g, n, "</think>")
      <4>0. Len(g) \in Nat
        BY <1>1
      <4>1. Count(g, Len(g), "<think>") \in Nat /\ Count(g, Len(g), "</think>") \in Nat
        BY <4>0, CountType
      <4> QED
        BY <1>5, <3>1, <4>1
    <3>4. x[1] \in {"arguments", "arguments+header"} => \E m \in 1 .. n : g[m][1] = "tool" /\ g[m][2] = x[2]
      BY <1>1, <1>3, <2>2
    <3> QED
      BY <3>1, <3>2, <3>3, <3>4 DEF ChatFits
  <2> QED
    BY <1>1, <2>1, <2>2
<1>9. nthink \/ nheaders # {} => nrole
  BY <1>3
<1> QED
  BY <1>1, <1>4, <1>5, <1>6, <1>7, <1>8, <1>9 DEF ChatSent, g

\* The role comes first, and once.
LEMMA SentRole ==
    ASSUME NEW f, NEW think \in BOOLEAN, NEW headers, NEW ends \in Nat, NEW compat,
           ChatSent(f, FALSE, think, headers, ends, compat)
    PROVE  ChatSent(Append(f, <<"role", 0, 0>>), TRUE, think, headers, ends, compat)
<1> DEFINE x == <<"role", 0, 0>>
<1>1. x \in ChatFrames /\ x[1] = "role" /\ x[2] = 0
  BY DEF ChatFrames, ChatKinds
<1> HIDE DEF x
<1>2. ChatMay(x, FALSE, think, headers, compat)
  BY <1>1 DEF ChatMay
<1>3. ChatMoves(x, FALSE, think, headers, ends, TRUE, think, headers, ends)
  BY <1>1 DEF ChatMoves
<1>4. ChatSent(Append(f, x), TRUE, think, headers, ends, compat)
  BY <1>2, <1>3, ChatSends
<1> QED
  BY <1>4 DEF x

\* The think block is opened and closed.
LEMMA SentThink ==
    ASSUME NEW f, NEW think \in BOOLEAN, NEW headers, NEW ends \in Nat, NEW compat,
           ChatSent(f, TRUE, think, headers, ends, compat)
    PROVE  /\ ~think => ChatSent(Append(f, <<"<think>", 0, 0>>), TRUE, TRUE, headers, ends, compat)
           /\ think => ChatSent(Append(f, <<"</think>", 0, 0>>), TRUE, FALSE, headers, ends, compat)
<1> DEFINE x == <<"<think>", 0, 0>>
           y == <<"</think>", 0, 0>>
<1>1. x \in ChatFrames /\ x[1] = "<think>" /\ x[2] = 0 /\ y \in ChatFrames /\ y[1] = "</think>" /\ y[2] = 0
  BY DEF ChatFrames, ChatKinds
<1> HIDE DEF x, y
<1>2. ASSUME ~think PROVE ChatSent(Append(f, x), TRUE, TRUE, headers, ends, compat)
  <2>1. ChatMay(x, TRUE, think, headers, compat)
    BY <1>1, <1>2 DEF ChatMay
  <2>2. ChatMoves(x, TRUE, think, headers, ends, TRUE, TRUE, headers, ends)
    BY <1>1, <1>2 DEF ChatMoves
  <2> QED
    BY <2>1, <2>2, ChatSends
<1>3. ASSUME think PROVE ChatSent(Append(f, y), TRUE, FALSE, headers, ends, compat)
  <2>1. ChatMay(y, TRUE, think, headers, compat)
    BY <1>1, <1>3 DEF ChatMay
  <2>2. ChatMoves(y, TRUE, think, headers, ends, TRUE, FALSE, headers, ends)
    BY <1>1, <1>3 DEF ChatMoves
  <2> QED
    BY <2>1, <2>2, ChatSends
<1> QED
  BY <1>2, <1>3 DEF x, y

\* A frame that neither opens, closes nor ends anything.
LEMMA SentPlain ==
    ASSUME NEW f, NEW think \in BOOLEAN, NEW headers, NEW ends \in Nat, NEW compat,
           ChatSent(f, TRUE, think, headers, ends, compat),
           NEW k \in {"progress", "notices", "line", "usage", "content", "reasoning", "arguments",
                      "arguments+header"},
           NEW i \in Nat, NEW t \in Nat,
           k \in {"content", "reasoning", "arguments", "arguments+header"} => ~think,
           k \in {"arguments", "arguments+header"} => i \in headers /\ (compat <=> k = "arguments+header")
    PROVE  ChatSent(Append(f, <<k, i, t>>), TRUE, think, headers, ends, compat)
<1> DEFINE x == <<k, i, t>>
<1>1. x \in ChatFrames /\ x[1] = k /\ x[2] = i
  BY DEF ChatFrames, ChatKinds
<1> HIDE DEF x
<1>2. ChatMay(x, TRUE, think, headers, compat)
  BY <1>1 DEF ChatMay
<1>3. ChatMoves(x, TRUE, think, headers, ends, TRUE, think, headers, ends)
  BY <1>1 DEF ChatMoves
<1>4. ChatSent(Append(f, x), TRUE, think, headers, ends, compat)
  BY <1>2, <1>3, ChatSends
<1> QED
  BY <1>4 DEF x

\* A call is announced.
LEMMA SentTool ==
    ASSUME NEW f, NEW headers, NEW ends \in Nat, NEW compat,
           ChatSent(f, TRUE, FALSE, headers, ends, compat), NEW i \in Nat, NEW t \in Nat
    PROVE  ChatSent(Append(f, <<"tool", i, t>>), TRUE, FALSE, headers \cup {i}, ends, compat)
<1> DEFINE x == <<"tool", i, t>>
<1>1. x \in ChatFrames /\ x[1] = "tool" /\ x[2] = i
  BY DEF ChatFrames, ChatKinds
<1> HIDE DEF x
<1>2. ChatMay(x, TRUE, FALSE, headers, compat)
  BY <1>1 DEF ChatMay
<1>3. ChatMoves(x, TRUE, FALSE, headers, ends, TRUE, FALSE, headers \cup {i}, ends)
  BY <1>1 DEF ChatMoves
<1>4. ChatSent(Append(f, x), TRUE, FALSE, headers \cup {i}, ends, compat)
  BY <1>2, <1>3, ChatSends
<1> QED
  BY <1>4 DEF x

\* The stream is finished, or fails, with or without its role.
LEMMA SentEnd ==
    ASSUME NEW f, NEW role \in BOOLEAN, NEW headers, NEW compat,
           ChatSent(f, role, FALSE, headers, 0, compat), NEW k \in {"finish", "error"}
    PROVE  ChatSent(Append(f, <<k, 0, 0>>), role, FALSE, headers, 1, compat)
<1> DEFINE x == <<k, 0, 0>>
<1>1. x \in ChatFrames /\ x[1] = k /\ x[2] = 0
  BY DEF ChatFrames, ChatKinds
<1> HIDE DEF x
<1>2. ChatMay(x, role, FALSE, headers, compat)
  BY <1>1 DEF ChatMay
<1>3. ChatMoves(x, role, FALSE, headers, 0, role, FALSE, headers, 1)
  BY <1>1 DEF ChatMoves
<1>4. ChatSent(Append(f, x), role, FALSE, headers, 1, compat)
  BY <1>2, <1>3, ChatSends
<1> QED
  BY <1>4 DEF x

\* [DONE] is said last.
LEMMA SentDone ==
    ASSUME NEW f, NEW role \in BOOLEAN, NEW headers, NEW compat,
           ChatSent(f, role, FALSE, headers, 1, compat)
    PROVE  ChatEnded(Append(f, <<"[DONE]", 0, 0>>), compat)
<1> DEFINE x == <<"[DONE]", 0, 0>>
           g == Append(f, x)
<1>1. x \in ChatFrames /\ x[1] = "[DONE]"
  BY DEF ChatFrames, ChatKinds
<1> HIDE DEF x
<1>2. f \in Seq(ChatFrames)
  BY DEF ChatSent
<1>3. /\ g \in Seq(ChatFrames)
      /\ Len(f) \in Nat /\ Len(g) = Len(f) + 1
      /\ DOMAIN f = 1 .. Len(f) /\ DOMAIN g = 1 .. Len(f) + 1
      /\ \A n \in 1 .. Len(f) : g[n] = f[n]
      /\ g[Len(f) + 1] = x
  BY <1>1, <1>2, OneMore
<1>4. \A kind : /\ \A n \in 0 .. Len(f) : Count(g, n, kind) = Count(f, n, kind)
                /\ Count(g, Len(f) + 1, kind) = Count(f, Len(f), kind) + (IF x[1] = kind THEN 1 ELSE 0)
                /\ Count(f, Len(f), kind) \in Nat
  BY <1>1, <1>2, CountMore
<1> HIDE DEF g
<1>5. \A kind : kind # "[DONE]" => Count(g, Len(g), kind) = Count(f, Len(f), kind)
  BY <1>1, <1>3, <1>4
<1>6. /\ Count(g, Len(g), "role") = Count(f, Len(f), "role")
      /\ Count(g, Len(g), "<think>") = Count(f, Len(f), "<think>")
      /\ Count(g, Len(g), "</think>") = Count(f, Len(f), "</think>")
      /\ Count(g, Len(g), "finish") = Count(f, Len(f), "finish")
      /\ Count(g, Len(g), "error") = Count(f, Len(f), "error")
  BY <1>5
<1>7. /\ Count(f, Len(f), "role") <= 1
      /\ Count(f, Len(f), "<think>") = Count(f, Len(f), "</think>")
      /\ Count(f, Len(f), "finish") + Count(f, Len(f), "error") = 1
  <2>1. Count(f, Len(f), "role") = IF role THEN 1 ELSE 0
    BY DEF ChatSent
  <2>2. Count(f, Len(f), "<think>") = Count(f, Len(f), "</think>") + 0
    BY DEF ChatSent
  <2>3. Count(f, Len(f), "</think>") \in Nat
    BY <1>4
  <2> QED
    BY <2>1, <2>2, <2>3 DEF ChatSent
<1>8. ASSUME NEW n \in DOMAIN g
      PROVE  ChatFits(g, n, compat) /\ (g[n][1] \in {"[DONE]"} <=> n = Len(g))
  <2>1. CASE n \in 1 .. Len(f)
    <3>1. f[n][1] # "[DONE]" /\ ChatFits(f, n, compat) /\ g[n] = f[n] /\ n \in 0 .. Len(f) /\ n # Len(g)
      BY <1>3, <2>1 DEF ChatSent
    <3>2. /\ Count(g, n, "role") = Count(f, n, "role")
          /\ Count(g, n, "<think>") = Count(f, n, "<think>")
          /\ Count(g, n, "</think>") = Count(f, n, "</think>")
      BY <1>4, <3>1
    <3>3. \A m \in 1 .. n : g[m] = f[m]
      BY <1>3, <2>1
    <3> QED
      BY <3>1, <3>2, <3>3 DEF ChatFits
  <2>2. CASE n = Len(f) + 1
    BY <1>1, <1>3, <2>2 DEF ChatFits
  <2> QED
    BY <1>3, <2>1, <2>2
<1>9. IsLast(g, {"[DONE]"})
  BY <1>8 DEF IsLast
<1>10. /\ Count(g, Len(g), "role") <= 1
       /\ Count(g, Len(g), "<think>") = Count(g, Len(g), "</think>")
       /\ Count(g, Len(g), "finish") + Count(g, Len(g), "error") = 1
  BY <1>6, <1>7
<1>11. ChatEnded(g, compat)
  BY <1>3, <1>8, <1>9, <1>10 DEF ChatEnded
<1> QED
  BY <1>11 DEF g, x

(***************************************************************************)
(* Chat Completions: the operators of the encoder                          *)
(***************************************************************************)
\* The role is said before what needs it.
LEMMA ChatRole ==
    ASSUME NEW s, NEW compat, ChatGood(s, compat)
    PROVE  LET u == OpenRole(s) IN
           ChatGood(u, compat) /\ u.role /\ u.think = s.think /\ u.headers = s.headers
<1>1. s \in ChatStreams /\ ChatSent(s.out, s.role, s.think, s.headers, 0, compat)
  BY DEF ChatGood
<1>2. s.role \in BOOLEAN /\ s.think \in BOOLEAN /\ s.out \in Seq(ChatFrames)
  BY <1>1 DEF ChatStreams
<1>3. CASE s.role
  BY <1>3 DEF OpenRole
<1>4. CASE ~s.role
  <2> DEFINE x == <<"role", 0, 0>>
             g == Append(s.out, x)
             u == [s EXCEPT !.out = g, !.role = TRUE]
  <2>1. ChatSent(g, TRUE, s.think, s.headers, 0, compat)
    BY <1>1, <1>2, <1>4, SentRole
  <2>2. x \in ChatFrames
    BY DEF ChatFrames, ChatKinds
  <2>3. s.out \o <<x>> = g /\ g \in Seq(ChatFrames)
    BY <1>2, <2>2, Together, OneMore
  <2>4. OpenRole(s) = [[s EXCEPT !.out = s.out \o <<x>>] EXCEPT !.role = TRUE]
    BY <1>4 DEF OpenRole, ChatSay, Frame
  <2> HIDE DEF g, x
  <2>5. OpenRole(s) = u
    BY <1>1, <2>3, <2>4 DEF ChatStreams
  <2>6. u \in ChatStreams /\ u.out = g /\ u.role = TRUE /\ u.think = s.think /\ u.headers = s.headers
    BY <1>1, <2>3 DEF ChatStreams
  <2> HIDE DEF u
  <2> QED
    BY <2>1, <2>5, <2>6 DEF ChatGood
<1> QED
  BY <1>2, <1>3, <1>4

\* The think block is closed.
LEMMA ChatThought ==
    ASSUME NEW s, NEW compat, ChatGood(s, compat)
    PROVE  LET u == CloseThink(s) IN
           ChatGood(u, compat) /\ u.role = s.role /\ ~u.think /\ u.headers = s.headers
<1>1. s \in ChatStreams /\ ChatSent(s.out, s.role, s.think, s.headers, 0, compat)
  BY DEF ChatGood
<1>2. s.role \in BOOLEAN /\ s.think \in BOOLEAN /\ s.out \in Seq(ChatFrames) /\ (s.think => s.role)
  BY <1>1 DEF ChatStreams, ChatSent
<1>3. CASE ~s.think
  BY <1>3 DEF CloseThink
<1>4. CASE s.think
  <2> DEFINE x == <<"</think>", 0, 0>>
             g == Append(s.out, x)
             u == [s EXCEPT !.out = g, !.think = FALSE]
  <2>0. s.role = TRUE /\ s.think = TRUE
    BY <1>2, <1>4
  <2>1. ChatSent(g, TRUE, FALSE, s.headers, 0, compat)
    BY <1>1, <2>0, SentThink
  <2>2. x \in ChatFrames
    BY DEF ChatFrames, ChatKinds
  <2>3. s.out \o <<x>> = g /\ g \in Seq(ChatFrames)
    BY <1>2, <2>2, Together, OneMore
  <2>4. CloseThink(s) = [[s EXCEPT !.out = s.out \o <<x>>] EXCEPT !.think = FALSE]
    BY <1>4 DEF CloseThink, ChatSay, Frame
  <2> HIDE DEF g, x
  <2>5. CloseThink(s) = u
    BY <1>1, <2>3, <2>4 DEF ChatStreams
  <2>6. u \in ChatStreams /\ u.out = g /\ u.role = s.role /\ u.think = FALSE /\ u.headers = s.headers
    BY <1>1, <2>3 DEF ChatStreams
  <2> HIDE DEF u
  <2> QED
    BY <2>0, <2>1, <2>5, <2>6 DEF ChatGood
<1> QED
  BY <1>2, <1>3, <1>4

\* The think block is opened, with its preamble.
LEMMA ChatThink ==
    ASSUME NEW s, NEW compat, ChatGood(s, compat), s.role, NEW p, p.notices \in BOOLEAN
    PROVE  LET u == OpenThink(s, p) IN
           ChatGood(u, compat) /\ u.role /\ u.think /\ u.headers = s.headers
<1>1. s \in ChatStreams /\ ChatSent(s.out, s.role, s.think, s.headers, 0, compat)
  BY DEF ChatGood
<1>2. s.role \in BOOLEAN /\ s.think \in BOOLEAN /\ s.out \in Seq(ChatFrames)
  BY <1>1 DEF ChatStreams
<1>3. CASE s.think
  BY <1>3 DEF OpenThink
<1>4. CASE ~s.think
  <2> DEFINE x == <<"<think>", 0, 0>>
             y == <<"progress", 0, 0>>
             z == <<"notices", 0, 0>>
             g == Append(Append(s.out, x), y)
             h == IF p.notices THEN Append(g, z) ELSE g
             u == [s EXCEPT !.out = h, !.think = TRUE]
  <2>0. s.role = TRUE /\ s.think = FALSE
    BY <1>2, <1>4
  <2>1. ChatSent(Append(s.out, x), TRUE, TRUE, s.headers, 0, compat)
    BY <1>1, <2>0, SentThink
  <2>2. ChatSent(g, TRUE, TRUE, s.headers, 0, compat)
    BY <2>1, SentPlain
  <2>3. ChatSent(Append(g, z), TRUE, TRUE, s.headers, 0, compat)
    BY <2>2, SentPlain
  <2>4. ChatSent(h, TRUE, TRUE, s.headers, 0, compat)
    BY <2>2, <2>3
  <2>5. x \in ChatFrames /\ y \in ChatFrames /\ z \in ChatFrames
    BY DEF ChatFrames, ChatKinds
  <2>6. /\ s.out \o <<x, y>> = g /\ g \in Seq(ChatFrames)
        /\ s.out \o <<x, y, z>> = Append(g, z) /\ Append(g, z) \in Seq(ChatFrames)
    <3> DEFINE f == s.out
    <3>1. f \in Seq(ChatFrames)
      BY <1>2
    <3> HIDE DEF f, x, y, z
    <3>2. f \o <<x, y>> = Append(Append(f, x), y) /\ f \o <<x, y, z>> = Append(Append(Append(f, x), y), z)
      BY <2>5, <3>1, Together
    <3>3. Append(f, x) \in Seq(ChatFrames)
      BY <2>5, <3>1, OneMore
    <3>4. Append(Append(f, x), y) \in Seq(ChatFrames)
      BY <2>5, <3>3, OneMore
    <3>5. Append(Append(Append(f, x), y), z) \in Seq(ChatFrames)
      BY <2>5, <3>4, OneMore
    <3> QED
      BY <3>2, <3>4, <3>5 DEF f
  <2>7. <<x, y>> \o (IF p.notices THEN <<z>> ELSE <<>>) = IF p.notices THEN <<x, y, z>> ELSE <<x, y>>
    <3> HIDE DEF x, y, z
    <3>1. <<x, y>> \o <<z>> = <<x, y, z>> /\ <<x, y>> \o <<>> = <<x, y>>
      BY SometimesThird, Zenon
    <3> QED
      BY <3>1
  <2>8. OpenThink(s, p)
          = [[s EXCEPT !.out = s.out \o (<<x, y>> \o (IF p.notices THEN <<z>> ELSE <<>>))] EXCEPT !.think = TRUE]
    BY <1>4 DEF OpenThink, ChatSay, Frame
  <2>9. s.out \o (<<x, y>> \o (IF p.notices THEN <<z>> ELSE <<>>)) = h /\ h \in Seq(ChatFrames)
    BY <2>6, <2>7
  <2> HIDE DEF h, g, x, y, z
  <2>10. OpenThink(s, p) = u
    BY <1>1, <2>8, <2>9 DEF ChatStreams
  <2>11. u \in ChatStreams /\ u.out = h /\ u.role = s.role /\ u.think = TRUE /\ u.headers = s.headers
    BY <1>1, <2>9 DEF ChatStreams
  <2> HIDE DEF u
  <2> QED
    BY <2>0, <2>4, <2>10, <2>11 DEF ChatGood
<1> QED
  BY <1>2, <1>3, <1>4

\* A frame is said that changes nothing but the stream.
LEMMA ChatSays ==
    ASSUME NEW s, NEW compat, ChatGood(s, compat), NEW x \in ChatFrames,
           ChatSent(Append(s.out, x), s.role, s.think, s.headers, 0, compat)
    PROVE  LET u == ChatSay(s, <<x>>) IN
           ChatGood(u, compat) /\ u.role = s.role /\ u.think = s.think /\ u.headers = s.headers
<1> DEFINE g == Append(s.out, x)
           u == [s EXCEPT !.out = g]
<1>1. s \in ChatStreams /\ s.out \in Seq(ChatFrames)
  BY DEF ChatGood, ChatStreams
<1>2. s.out \o <<x>> = g /\ g \in Seq(ChatFrames)
  BY <1>1, Together, OneMore
<1>3. ChatSay(s, <<x>>) = u
  BY <1>2 DEF ChatSay
<1> HIDE DEF g
<1>4. u \in ChatStreams /\ u.out = g /\ u.role = s.role /\ u.think = s.think /\ u.headers = s.headers
  BY <1>1, <1>2 DEF ChatStreams
<1> HIDE DEF u
<1> QED
  BY <1>3, <1>4 DEF ChatGood, g

\* A member's outcome is a line of the think block.
LEMMA ChatLine ==
    ASSUME NEW s, NEW compat, ChatGood(s, compat), s.role, NEW t \in Nat
    PROVE  LET u == ChatSay(s, <<<<"line", 0, t>>>>) IN ChatGood(u, compat) /\ u.headers = s.headers
<1> DEFINE x == <<"line", 0, t>>
<1>1. x \in ChatFrames
  BY DEF ChatFrames, ChatKinds
<1>2. s.role = TRUE /\ s.think \in BOOLEAN /\ ChatSent(s.out, s.role, s.think, s.headers, 0, compat)
  BY DEF ChatGood, ChatStreams
<1>3. ChatSent(Append(s.out, x), TRUE, s.think, s.headers, 0, compat)
  BY <1>2, SentPlain
<1> HIDE DEF x
<1>4. LET u == ChatSay(s, <<x>>) IN ChatGood(u, compat) /\ u.headers = s.headers
  BY <1>1, <1>2, <1>3, ChatSays
<1> QED
  BY <1>4 DEF x

\* A part of the answer: its reasoning first.
LEMMA ChatAnswer ==
    ASSUME NEW s, NEW compat, ChatGood(s, compat), ~s.think,
           NEW e, e.reasoning \in Nat, e.content \in Nat
    PROVE  LET u == ChatSay(OpenRole(s), AnswerFrames(e)) IN
           ChatGood(u, compat) /\ ~u.think /\ u.headers = s.headers
<1> DEFINE v == OpenRole(s)
           x == <<"reasoning", 0, e.reasoning>>
           y == <<"content", 0, e.content>>
           a == IF e.reasoning > 0 THEN <<x>> ELSE <<>>
           b == IF e.content > 0 THEN <<y>> ELSE <<>>
           g == IF e.reasoning > 0 THEN Append(v.out, x) ELSE v.out
           h == IF e.content > 0 THEN Append(g, y) ELSE g
           u == [v EXCEPT !.out = h]
<1>1. ChatGood(v, compat) /\ v.role /\ v.think = s.think /\ v.headers = s.headers
  BY ChatRole
<1>2. x \in ChatFrames /\ y \in ChatFrames
  BY DEF ChatFrames, ChatKinds
<1> HIDE DEF v
<1>3. v \in ChatStreams /\ v.out \in Seq(ChatFrames) /\ v.role = TRUE /\ v.think = FALSE
      /\ ChatSent(v.out, TRUE, FALSE, v.headers, 0, compat)
  <2>1. v \in ChatStreams /\ ChatSent(v.out, v.role, v.think, v.headers, 0, compat)
    BY <1>1 DEF ChatGood
  <2>2. v.out \in Seq(ChatFrames) /\ v.role = TRUE /\ v.think = FALSE
    BY <1>1, <2>1 DEF ChatStreams
  <2> QED
    BY <2>1, <2>2
<1>4. ChatSent(Append(v.out, x), TRUE, FALSE, v.headers, 0, compat)
  BY <1>3, SentPlain
<1>5. ChatSent(g, TRUE, FALSE, v.headers, 0, compat)
  BY <1>3, <1>4
<1>6. ChatSent(Append(g, y), TRUE, FALSE, v.headers, 0, compat)
  <2> HIDE DEF g
  <2> QED
    BY <1>5, SentPlain
<1>7. ChatSent(h, TRUE, FALSE, v.headers, 0, compat)
  BY <1>5, <1>6
<1>8. v.out \o (a \o b) = h /\ h \in Seq(ChatFrames)
  <2> DEFINE f == v.out
  <2>1. f \in Seq(ChatFrames)
    BY <1>3
  <2> HIDE DEF f, x, y
  <2>2. /\ f \o <<x>> = Append(f, x) /\ f \o <<y>> = Append(f, y)
        /\ f \o <<x, y>> = Append(Append(f, x), y)
        /\ f \o <<>> = f
    BY <1>2, <2>1, Together, ConcatEmptySeq
  <2>3. <<x>> \o <<y>> = <<x, y>> /\ <<x>> \o <<>> = <<x>> /\ <<>> \o <<y>> = <<y>> /\ <<>> \o <<>> = <<>>
    <3>1. <<>> \in Seq(ChatFrames)
      BY EmptySeq
    <3>2. <<>> \o <<>> = <<>>
      BY <3>1, ConcatEmptySeq
    <3> QED
      BY <1>2, <3>2, Sometimes
  <2>4. Append(f, x) \in Seq(ChatFrames) /\ Append(f, y) \in Seq(ChatFrames)
        /\ Append(Append(f, x), y) \in Seq(ChatFrames)
    BY <1>2, <2>1, OneMore
  <2>5. CASE e.reasoning > 0 /\ e.content > 0
    BY <2>2, <2>3, <2>4, <2>5 DEF f
  <2>6. CASE e.reasoning > 0 /\ ~(e.content > 0)
    BY <2>2, <2>3, <2>4, <2>6 DEF f
  <2>7. CASE ~(e.reasoning > 0) /\ e.content > 0
    BY <2>2, <2>3, <2>4, <2>7 DEF f
  <2>8. CASE ~(e.reasoning > 0) /\ ~(e.content > 0)
    BY <2>1, <2>2, <2>3, <2>8 DEF f
  <2> QED
    BY <2>5, <2>6, <2>7, <2>8
<1>9. ChatSay(v, AnswerFrames(e)) = [v EXCEPT !.out = v.out \o (a \o b)]
  BY DEF ChatSay, AnswerFrames
<1> HIDE DEF a, b, g, h
<1>10. ChatSay(v, AnswerFrames(e)) = u
  BY <1>8, <1>9
<1>11. u \in ChatStreams /\ u.out = h /\ u.role = TRUE /\ u.think = FALSE /\ u.headers = s.headers
  BY <1>1, <1>3, <1>8 DEF ChatStreams
<1> HIDE DEF u
<1>12. ChatGood(u, compat) /\ ~u.think /\ u.headers = s.headers
  BY <1>1, <1>7, <1>11 DEF ChatGood
<1> QED
  BY <1>10, <1>12 DEF v

\* A call is announced before its fragments.
LEMMA ChatTool ==
    ASSUME NEW s, NEW compat, ChatGood(s, compat), ~s.think, NEW i \in Nat, NEW t \in Nat
    PROVE  LET u == [ChatSay(OpenRole(s), <<<<"tool", i, t>>>>) EXCEPT !.headers = @ \cup {i}] IN
           ChatGood(u, compat) /\ ~u.think /\ u.headers = s.headers \cup {i}
<1> DEFINE v == OpenRole(s)
           x == <<"tool", i, t>>
           g == Append(v.out, x)
           w == ChatSay(v, <<x>>)
           u == [w EXCEPT !.headers = @ \cup {i}]
<1>1. ChatGood(v, compat) /\ v.role /\ v.think = s.think /\ v.headers = s.headers
  BY ChatRole
<1>2. x \in ChatFrames
  BY DEF ChatFrames, ChatKinds
<1> HIDE DEF v
<1>3. /\ v \in ChatStreams /\ v.out \in Seq(ChatFrames) /\ v.role = TRUE /\ v.think = FALSE
      /\ ChatSent(v.out, TRUE, FALSE, v.headers, 0, compat)
  <2>1. v \in ChatStreams /\ ChatSent(v.out, v.role, v.think, v.headers, 0, compat)
    BY <1>1 DEF ChatGood
  <2>2. v.out \in Seq(ChatFrames) /\ v.role = TRUE /\ v.think = FALSE
    BY <1>1, <2>1 DEF ChatStreams
  <2> QED
    BY <2>1, <2>2
<1>4. ChatSent(g, TRUE, FALSE, v.headers \cup {i}, 0, compat)
  BY <1>3, SentTool
<1>5. v.out \o <<x>> = g /\ g \in Seq(ChatFrames)
  BY <1>2, <1>3, Together, OneMore
<1>6. w = [v EXCEPT !.out = g]
  BY <1>5 DEF ChatSay
<1> HIDE DEF g, w
<1>7. /\ u \in ChatStreams /\ u.out = g /\ u.role = TRUE /\ u.think = FALSE
      /\ u.headers = v.headers \cup {i}
  BY <1>3, <1>5, <1>6 DEF ChatStreams
<1> HIDE DEF u
<1>8. ChatGood(u, compat) /\ ~u.think /\ u.headers = s.headers \cup {i}
  BY <1>1, <1>4, <1>7 DEF ChatGood
<1> QED
  BY <1>8 DEF u, v, w, x

\* A fragment of a call that was announced.
LEMMA ChatArguments ==
    ASSUME NEW s, NEW p, ChatGood(s, p.compat), p.compat \in BOOLEAN, ~s.think,
           NEW e, e.index \in s.headers, e.token \in Nat
    PROVE  LET u == ChatSay(s, <<<<ArgumentsKind(s, e, p), e.index, e.token>>>>) IN
           ChatGood(u, p.compat) /\ ~u.think /\ u.headers = s.headers
<1> DEFINE k == ArgumentsKind(s, e, p)
           x == <<k, e.index, e.token>>
<1>1. k \in {"arguments", "arguments+header"} /\ (p.compat <=> k = "arguments+header")
  BY DEF ArgumentsKind
<1> HIDE DEF k
<1>2. /\ s.think = FALSE /\ s.role = TRUE /\ e.index \in Nat
      /\ ChatSent(s.out, TRUE, FALSE, s.headers, 0, p.compat)
  <2>1. s \in ChatStreams /\ ChatSent(s.out, s.role, s.think, s.headers, 0, p.compat)
    BY DEF ChatGood
  <2>2. s.think = FALSE /\ s.role = TRUE /\ e.index \in Nat
    BY <2>1 DEF ChatStreams, ChatSent
  <2> QED
    BY <2>1, <2>2
<1>3. x \in ChatFrames
  BY <1>1, <1>2 DEF ChatFrames, ChatKinds
<1>4. ChatSent(Append(s.out, x), TRUE, FALSE, s.headers, 0, p.compat)
  BY <1>1, <1>2, SentPlain
<1> HIDE DEF x
<1>5. LET u == ChatSay(s, <<x>>) IN ChatGood(u, p.compat) /\ u.think = s.think /\ u.headers = s.headers
  BY <1>2, <1>3, <1>4, ChatSays
<1> QED
  BY <1>5 DEF k, x

\* Whatever is said between a last frame and [DONE], the stream has ended.
LEMMA ChatEnds ==
    ASSUME NEW s, NEW compat, ChatGood(s, compat), ~s.think, NEW k \in {"finish", "error"}
    PROVE  /\ LET u == ChatSay(s, <<<<k, 0, 0>>, <<"[DONE]", 0, 0>>>>) IN ~u.think /\ ChatEnded(u.out, compat)
           /\ s.role =>
                LET u == ChatSay(s, <<<<k, 0, 0>>, <<"usage", 0, 0>>, <<"[DONE]", 0, 0>>>>)
                IN ~u.think /\ ChatEnded(u.out, compat)
<1> DEFINE x == <<k, 0, 0>>
           y == <<"usage", 0, 0>>
           z == <<"[DONE]", 0, 0>>
           f == s.out
<1>1. x \in ChatFrames /\ y \in ChatFrames /\ z \in ChatFrames
  BY DEF ChatFrames, ChatKinds
<1>2. s \in ChatStreams /\ f \in Seq(ChatFrames) /\ s.role \in BOOLEAN /\ s.think = FALSE
      /\ ChatSent(f, s.role, FALSE, s.headers, 0, compat)
  <2>1. s \in ChatStreams /\ ChatSent(s.out, s.role, s.think, s.headers, 0, compat)
    BY DEF ChatGood
  <2>2. s.out \in Seq(ChatFrames) /\ s.role \in BOOLEAN /\ s.think = FALSE
    BY <2>1 DEF ChatStreams
  <2> QED
    BY <2>1, <2>2
<1> HIDE DEF f
<1>3. ChatSent(Append(f, x), s.role, FALSE, s.headers, 1, compat)
  BY <1>2, SentEnd
<1>4. ChatEnded(Append(Append(f, x), z), compat)
  BY <1>2, <1>3, SentDone
<1>5. ASSUME s.role PROVE ChatEnded(Append(Append(Append(f, x), y), z), compat)
  <2>1. ChatSent(Append(f, x), TRUE, FALSE, s.headers, 1, compat)
    BY <1>2, <1>3, <1>5
  <2>2. ChatSent(Append(Append(f, x), y), TRUE, FALSE, s.headers, 1, compat)
    BY <2>1, SentPlain
  <2> QED
    BY <2>2, SentDone
<1> HIDE DEF x, y, z
<1>6. /\ f \o <<x, z>> = Append(Append(f, x), z)
      /\ f \o <<x, y, z>> = Append(Append(Append(f, x), y), z)
  BY <1>1, <1>2, Together
<1>7. ASSUME NEW frames
      PROVE  ChatSay(s, frames).out = f \o frames /\ ~ChatSay(s, frames).think
  BY <1>2 DEF ChatSay, ChatStreams, f
<1> QED
  BY <1>4, <1>5, <1>6, <1>7 DEF x, y, z

\* The end of a stream, of each kind.
LEMMA ChatOver ==
    ASSUME NEW s, NEW p, ChatGood(s, p.compat), p.usage \in BOOLEAN
    PROVE  /\ ~ChatFinish(s, p).think /\ ChatEnded(ChatFinish(s, p).out, p.compat)
           /\ ~ChatFail(s).think /\ ChatEnded(ChatFail(s).out, p.compat)
           /\ ~ChatCut(s).think /\ ChatEnded(ChatCut(s).out, p.compat)
<1> DEFINE c == CloseThink(s)
           v == OpenRole(c)
           x == <<"finish", 0, 0>>
           y == <<"usage", 0, 0>>
           z == <<"[DONE]", 0, 0>>
           q == <<"error", 0, 0>>
<1>1. ChatGood(c, p.compat) /\ ~c.think
  BY ChatThought
<1> HIDE DEF c
<1>2. ChatGood(v, p.compat) /\ v.role /\ ~v.think
  BY <1>1, ChatRole
<1> HIDE DEF v
<1>3. /\ ~ChatSay(v, <<x, z>>).think /\ ChatEnded(ChatSay(v, <<x, z>>).out, p.compat)
      /\ ~ChatSay(v, <<x, y, z>>).think /\ ChatEnded(ChatSay(v, <<x, y, z>>).out, p.compat)
  BY <1>2, ChatEnds
<1>4. /\ ~ChatSay(c, <<q, z>>).think /\ ChatEnded(ChatSay(c, <<q, z>>).out, p.compat)
      /\ ~ChatSay(c, <<x, z>>).think /\ ChatEnded(ChatSay(c, <<x, z>>).out, p.compat)
  BY <1>1, ChatEnds
<1>5. ChatFinish(s, p) = ChatSay(v, <<x>> \o (IF p.usage THEN <<y>> ELSE <<>>) \o <<z>>)
  BY DEF ChatFinish, Frame, c, v
<1>6. ChatFail(s) = ChatSay(c, <<q, z>>) /\ ChatCut(s) = ChatSay(c, <<x, z>>)
  BY DEF ChatFail, ChatCut, Frame, c
<1> HIDE DEF x, y, z, q
<1>7. <<x>> \o <<y>> \o <<z>> = <<x, y, z>> /\ <<x>> \o <<>> \o <<z>> = <<x, z>>
  <2>1. x \in ChatFrames /\ y \in ChatFrames /\ z \in ChatFrames
    BY DEF ChatFrames, ChatKinds, x, y, z
  <2>2. <<x>> \o <<y>> = <<x, y>> /\ <<x, y>> \o <<z>> = <<x, y, z>> /\ <<x>> \o <<>> = <<x>>
    BY <2>1, Sometimes, SometimesThird
  <2>3. <<x>> \o <<z>> = <<x, z>>
    BY <2>1, Sometimes
  <2> QED
    BY <2>2, <2>3
<1>8. ChatFinish(s, p) = IF p.usage THEN ChatSay(v, <<x, y, z>>) ELSE ChatSay(v, <<x, z>>)
  BY <1>5, <1>7
<1> QED
  BY <1>3, <1>4, <1>6, <1>8

\* A stream begins, with its think block if the plan has notices.
LEMMA ChatBegins ==
    ASSUME NEW p \in Options
    PROVE  ChatGood(ChatStart(p), p.compat) /\ ChatStart(p).headers = {}
<1> DEFINE s == [role |-> FALSE, think |-> FALSE, headers |-> {}, out |-> <<>>]
           f == s.out
<1>0. p.notices \in BOOLEAN
  BY DEF Options
<1>1. s \in ChatStreams /\ f = <<>> /\ Len(f) = 0 /\ DOMAIN f = {} /\ f \in Seq(ChatFrames)
  BY DEF ChatStreams
<1>2. \A kind : Count(f, 0, kind) = 0
  <2> TAKE kind
  <2>1. {m \in 1 .. 0 : f[m][1] = kind} = {}
    OBVIOUS
  <2> QED
    BY <2>1, FS_EmptySet DEF Count
<1>3. ChatSent(f, FALSE, FALSE, {}, 0, p.compat)
  <2> HIDE DEF f
  <2> QED
    BY <1>1, <1>2 DEF ChatSent
<1>4. ChatGood(s, p.compat) /\ s.headers = {}
  BY <1>1, <1>3 DEF ChatGood
<1>5. ChatStart(p) = IF p.notices THEN OpenThink(OpenRole(s), p) ELSE s
  BY DEF ChatStart
<1> HIDE DEF s
<1>6. ChatGood(OpenRole(s), p.compat) /\ OpenRole(s).role /\ OpenRole(s).headers = {}
  BY <1>4, ChatRole
<1>7. ChatGood(OpenThink(OpenRole(s), p), p.compat) /\ OpenThink(OpenRole(s), p).headers = {}
  BY <1>0, <1>6, ChatThink
<1> QED
  BY <1>0, <1>4, <1>5, <1>7

(***************************************************************************)
(* Anthropic: a stream of blocks grows by one frame                        *)
(***************************************************************************)
\* Which blocks are open after one more frame.
LEMMA OpenMore ==
    ASSUME NEW f \in Seq(BlockFrames), NEW x \in BlockFrames, NEW next \in Nat \ {0},
           \A n \in DOMAIN f : f[n][1] \in {"start", "stop"} => f[n][2] \in 1 .. (next - 1)
    PROVE  LET g == Append(f, x) IN
           /\ \A n \in 0 .. Len(f) : OpenAfter(g, n, next) = OpenAfter(f, n, next)
           /\ x[1] \notin {"start", "stop"} =>
                OpenAfter(g, Len(f) + 1, next) = OpenAfter(f, Len(f), next)
           /\ x[1] = "stop" =>
                OpenAfter(g, Len(f) + 1, next) = OpenAfter(f, Len(f), next) \ {x[2]}
           /\ x[1] = "start" /\ x[2] = next =>
                /\ \A n \in 0 .. Len(f) : OpenAfter(g, n, next + 1) = OpenAfter(f, n, next)
                /\ OpenAfter(g, Len(f) + 1, next + 1) = OpenAfter(f, Len(f), next) \cup {next}
<1> DEFINE g == Append(f, x)
           Has(h, n, kind, at) == \E m \in 1 .. n : h[m][1] = kind /\ h[m][2] = at
<1>1. /\ Len(f) \in Nat /\ DOMAIN f = 1 .. Len(f)
      /\ \A n \in 1 .. Len(f) : g[n] = f[n]
      /\ g[Len(f) + 1] = x
  BY OneMore
<1> HIDE DEF g
<1>2. \A m \in 1 .. Len(f) + 1 : m \in 1 .. Len(f) \/ m = Len(f) + 1
  BY <1>1
<1>3. \A h, n, z : OpenAfter(h, n, z)
                    = {at \in 1 .. (z - 1) : Has(h, n, "start", at) /\ ~Has(h, n, "stop", at)}
  BY DEF OpenAfter
<1>4. \A n \in 0 .. Len(f) : \A kind, at : Has(g, n, kind, at) <=> Has(f, n, kind, at)
  <2> TAKE n \in 0 .. Len(f)
  <2> TAKE kind, at
  <2>1. \A m \in 1 .. n : g[m] = f[m]
    BY <1>1
  <2> QED
    BY <2>1
<1>5. \A kind, at : Has(g, Len(f) + 1, kind, at)
                      <=> Has(f, Len(f), kind, at) \/ (x[1] = kind /\ x[2] = at)
  <2> TAKE kind, at
  <2>1. \A m \in 1 .. Len(f) : m \in 1 .. Len(f) + 1
    BY <1>1
  <2>2. Len(f) + 1 \in 1 .. Len(f) + 1
    BY <1>1
  <2> QED
    BY <1>1, <1>2, <2>1, <2>2
<1>6. \A n \in 0 .. Len(f) : ~Has(f, n, "start", next) /\ ~Has(f, n, "stop", next)
  <2> SUFFICES ASSUME NEW n \in 0 .. Len(f), NEW m \in 1 .. n, f[m][1] \in {"start", "stop"}
               PROVE  f[m][2] # next
    OBVIOUS
  <2>1. m \in DOMAIN f /\ next \notin 1 .. (next - 1)
    BY <1>1
  <2> QED
    BY <2>1
<1>7. Len(f) \in 0 .. Len(f)
  BY <1>1
<1>8. next + 1 - 1 = next /\ 1 .. next = (1 .. (next - 1)) \cup {next} /\ next \notin 1 .. (next - 1)
  OBVIOUS
<1> HIDE DEF Has
<1>9. \A n \in 0 .. Len(f) : OpenAfter(g, n, next) = OpenAfter(f, n, next)
  BY <1>3, <1>4
<1>10. ASSUME x[1] \notin {"start", "stop"}
       PROVE  OpenAfter(g, Len(f) + 1, next) = OpenAfter(f, Len(f), next)
  <2>1. \A at : /\ Has(g, Len(f) + 1, "start", at) <=> Has(f, Len(f), "start", at)
                /\ Has(g, Len(f) + 1, "stop", at) <=> Has(f, Len(f), "stop", at)
    BY <1>5, <1>10
  <2> QED
    BY <1>3, <2>1
<1>11. ASSUME x[1] = "stop"
       PROVE  OpenAfter(g, Len(f) + 1, next) = OpenAfter(f, Len(f), next) \ {x[2]}
  <2>1. \A at : /\ Has(g, Len(f) + 1, "start", at) <=> Has(f, Len(f), "start", at)
                /\ Has(g, Len(f) + 1, "stop", at) <=> Has(f, Len(f), "stop", at) \/ at = x[2]
    BY <1>5, <1>11
  <2> QED
    BY <1>3, <2>1
<1>12. ASSUME x[1] = "start", x[2] = next
       PROVE  /\ \A n \in 0 .. Len(f) : OpenAfter(g, n, next + 1) = OpenAfter(f, n, next)
              /\ OpenAfter(g, Len(f) + 1, next + 1) = OpenAfter(f, Len(f), next) \cup {next}
  <2>1. ASSUME NEW n \in 0 .. Len(f)
        PROVE  OpenAfter(g, n, next + 1) = OpenAfter(f, n, next)
    <3>1. \A at : /\ Has(g, n, "start", at) <=> Has(f, n, "start", at)
                  /\ Has(g, n, "stop", at) <=> Has(f, n, "stop", at)
      BY <1>4
    <3>2. OpenAfter(g, n, next + 1)
            = {at \in 1 .. next : Has(f, n, "start", at) /\ ~Has(f, n, "stop", at)}
      BY <1>3, <1>8, <3>1
    <3>3. ~Has(f, n, "start", next)
      BY <1>6
    <3> QED
      BY <1>3, <1>8, <3>2, <3>3
  <2>2. \A at : /\ Has(g, Len(f) + 1, "start", at) <=> Has(f, Len(f), "start", at) \/ at = next
                /\ Has(g, Len(f) + 1, "stop", at) <=> Has(f, Len(f), "stop", at)
    BY <1>5, <1>12
  <2>3. OpenAfter(g, Len(f) + 1, next + 1)
          = {at \in 1 .. next : (Has(f, Len(f), "start", at) \/ at = next) /\ ~Has(f, Len(f), "stop", at)}
    BY <1>3, <1>8, <2>2
  <2>4. ~Has(f, Len(f), "stop", next)
    BY <1>6, <1>7
  <2>5. OpenAfter(g, Len(f) + 1, next + 1) = OpenAfter(f, Len(f), next) \cup {next}
    BY <1>3, <1>8, <2>3, <2>4
  <2> QED
    BY <2>1, <2>5
<1> QED
  BY <1>9, <1>10, <1>11, <1>12 DEF g

\* When a frame may follow.
BlockMay(x, next, open, thinking, signed) ==
    /\ x \in BlockFrames
    /\ x[1] = "start" => x[2] = next /\ open = 0
    /\ x[1] \in {"text", "thinking", "signature", "stop"} => open # 0 /\ x[2] = open
    /\ x[1] = "stop" => x[3] = 0 /\ (signed <=> open = thinking)
    /\ signed => x[1] = "stop"

\* What the encoder remembers after it.
BlockMoves(x, next, open, thinking, nnext, nopen, nthinking, nsigned) ==
    /\ nnext = next + (IF x[1] = "start" THEN 1 ELSE 0)
    /\ nopen = IF x[1] = "start" THEN next ELSE IF x[1] = "stop" THEN 0 ELSE open
    /\ nthinking = thinking \/ (x[1] = "start" /\ thinking = 0 /\ nthinking = next)
    /\ nsigned <=> x[1] = "signature"

\* A frame that may follow leaves the blocks in order.
LEMMA BlockSends ==
    ASSUME NEW f, NEW next, NEW open, NEW thinking, NEW signed \in BOOLEAN,
           BlocksSent(f, next, open, thinking, signed),
           NEW x, BlockMay(x, next, open, thinking, signed),
           NEW nnext, NEW nopen, NEW nthinking, NEW nsigned \in BOOLEAN,
           BlockMoves(x, next, open, thinking, nnext, nopen, nthinking, nsigned)
    PROVE  BlocksSent(Append(f, x), nnext, nopen, nthinking, nsigned)
<1> DEFINE g == Append(f, x)
<1>1. /\ f \in Seq(BlockFrames) /\ f # <<>> /\ x \in BlockFrames
      /\ next \in Nat \ {0} /\ open \in 0 .. (next - 1) /\ thinking \in 0 .. (next - 1)
      /\ nnext \in Nat \ {0} /\ nopen \in 0 .. (nnext - 1) /\ nthinking \in 0 .. (nnext - 1)
  BY DEF BlocksSent, BlockMay, BlockMoves
<1>2. /\ g \in Seq(BlockFrames)
      /\ Len(f) \in Nat /\ Len(g) = Len(f) + 1
      /\ DOMAIN f = 1 .. Len(f) /\ DOMAIN g = 1 .. Len(f) + 1
      /\ \A n \in 1 .. Len(f) : g[n] = f[n]
      /\ g[Len(f) + 1] = x
  BY <1>1, OneMore
<1>3. Len(f) # 0 /\ g # <<>>
  BY <1>1, <1>2, EmptySeq
<1>4. /\ Count(g, Len(g), "start") = Count(f, Len(f), "start") + (IF x[1] = "start" THEN 1 ELSE 0)
  BY <1>1, <1>2, CountMore
<1>5. Count(g, Len(g), "start") = nnext - 1
  <2>1. Count(f, Len(f), "start") = next - 1
    BY DEF BlocksSent
  <2>2. nnext = next + (IF x[1] = "start" THEN 1 ELSE 0)
    BY DEF BlockMoves
  <2> HIDE DEF g
  <2> QED
    BY <1>1, <1>4, <2>1, <2>2
<1>6. /\ OpenAfter(f, Len(f), next) = {open} \ {0}
      /\ \A n \in 1 .. Len(f) : BlockFits(f, n, next, thinking)
      /\ \A n \in 1 .. Len(f) : f[n][1] = "signature" =>
            \/ n < Len(f) /\ f[n + 1] = <<"stop", f[n][2], 0>>
            \/ n = Len(f) /\ f[n][2] = open
      /\ signed <=> f[Len(f)][1] = "signature"
  BY <1>2 DEF BlocksSent
<1>7. \A n \in DOMAIN f : f[n][1] \in {"start", "stop"} => f[n][2] \in 1 .. (next - 1)
  BY <1>2, <1>6 DEF BlockFits
<1>8. /\ \A n \in 1 .. Len(f) : OpenAfter(g, n, nnext) = OpenAfter(f, n, next)
      /\ OpenAfter(g, Len(g), nnext) = {nopen} \ {0}
  <2>1. /\ \A n \in 0 .. Len(f) : OpenAfter(g, n, next) = OpenAfter(f, n, next)
        /\ x[1] \notin {"start", "stop"} => OpenAfter(g, Len(f) + 1, next) = OpenAfter(f, Len(f), next)
        /\ x[1] = "stop" => OpenAfter(g, Len(f) + 1, next) = OpenAfter(f, Len(f), next) \ {x[2]}
        /\ x[1] = "start" /\ x[2] = next =>
             /\ \A n \in 0 .. Len(f) : OpenAfter(g, n, next + 1) = OpenAfter(f, n, next)
             /\ OpenAfter(g, Len(f) + 1, next + 1) = OpenAfter(f, Len(f), next) \cup {next}
    BY <1>1, <1>7, OpenMore
  <2> HIDE DEF g
  <2>2. \A n \in 1 .. Len(f) : n \in 0 .. Len(f)
    BY <1>2
  <2>3. CASE x[1] = "start"
    <3>1. x[2] = next /\ open = 0 /\ nnext = next + 1 /\ nopen = next
      BY <2>3 DEF BlockMay, BlockMoves
    <3>2. \A n \in 1 .. Len(f) : OpenAfter(g, n, nnext) = OpenAfter(f, n, next)
      BY <2>1, <2>2, <2>3, <3>1
    <3>3. OpenAfter(g, Len(g), nnext) = OpenAfter(f, Len(f), next) \cup {next}
      BY <1>2, <2>1, <2>3, <3>1
    <3>4. OpenAfter(f, Len(f), next) = {} /\ next # 0
      BY <1>1, <1>6, <3>1
    <3> QED
      BY <3>1, <3>2, <3>3, <3>4
  <2>4. CASE x[1] = "stop"
    <3>1. x[2] = open /\ nnext = next /\ nopen = 0
      BY <1>1, <2>4 DEF BlockMay, BlockMoves
    <3> QED
      BY <1>1, <1>2, <1>6, <2>1, <2>2, <2>4, <3>1
  <2>5. CASE x[1] \notin {"start", "stop"}
    <3>1. nnext = next /\ nopen = open
      BY <1>1, <2>5 DEF BlockMoves
    <3> QED
      BY <1>1, <1>2, <1>6, <2>1, <2>2, <2>5, <3>1
  <2> QED
    BY <2>3, <2>4, <2>5
<1> HIDE DEF g
<1>9. ASSUME NEW n \in DOMAIN g
      PROVE  BlockFits(g, n, nnext, nthinking)
  <2>1. CASE n \in 1 .. Len(f)
    <3>1. BlockFits(f, n, next, thinking) /\ g[n] = f[n] /\ OpenAfter(g, n, nnext) = OpenAfter(f, n, next)
      BY <1>2, <1>6, <1>8, <2>1
    <3>2. n # 1 => g[n - 1] = f[n - 1]
      BY <1>2, <2>1
    <3>3. nnext = next \/ nnext = next + 1
      BY <1>1 DEF BlockMoves
    <3>4. \E at \in 0 .. (nnext - 1) : OpenAfter(g, n, nnext) = {at} \ {0}
      <4>1. PICK at \in 0 .. (next - 1) : OpenAfter(f, n, next) = {at} \ {0}
        BY <3>1 DEF BlockFits
      <4>2. at \in 0 .. (nnext - 1)
        BY <1>1, <3>3
      <4> QED
        BY <3>1, <4>1, <4>2
    <3>5. f[n][1] \in {"start", "stop"} => f[n][2] \in 1 .. (nnext - 1) /\ f[n][2] # next /\ f[n][2] # 0
      <4>1. f[n][1] \in {"start", "stop"} => f[n][2] \in 1 .. (next - 1)
        BY <3>1 DEF BlockFits
      <4>2. \A i \in 1 .. (next - 1) : i \in 1 .. (nnext - 1) /\ i # next /\ i # 0
        BY <1>1, <3>3
      <4> QED
        BY <4>1, <4>2
    <3>6. f[n][1] = "stop" => (f[n][2] = nthinking <=> f[n][2] = thinking)
      BY <3>5 DEF BlockMoves
    <3> QED
      BY <3>1, <3>2, <3>4, <3>5, <3>6 DEF BlockFits
  <2>2. CASE n = Len(f) + 1
    <3>1. g[n] = x /\ n = Len(g) /\ n # 1 /\ n - 1 = Len(f) /\ g[n - 1] = f[Len(f)]
      BY <1>2, <1>3, <2>2
    <3>2. OpenAfter(g, n, nnext) = {nopen} \ {0}
      BY <1>8, <3>1
    <3>3. x[1] \in {"text", "thinking", "signature"} => x[2] \in {nopen} \ {0}
      BY DEF BlockMay, BlockMoves
    <3>4. x[1] = "stop" => (f[Len(f)][1] = "signature" <=> x[2] = nthinking)
      BY <1>6 DEF BlockMay, BlockMoves
    <3>5. x[1] \in {"start", "stop"} => x[2] \in 1 .. (nnext - 1)
      <4>1. CASE x[1] = "start"
        BY <1>1, <4>1 DEF BlockMay, BlockMoves
      <4>2. CASE x[1] = "stop"
        BY <1>1, <4>2 DEF BlockMay, BlockMoves
      <4> QED
        BY <4>1, <4>2
    <3> QED
      BY <1>1, <3>1, <3>2, <3>3, <3>4, <3>5 DEF BlockFits
  <2> QED
    BY <1>2, <2>1, <2>2
<1>10. ASSUME NEW n \in DOMAIN g, g[n][1] = "signature"
       PROVE  \/ n < Len(g) /\ g[n + 1] = <<"stop", g[n][2], 0>>
              \/ n = Len(g) /\ g[n][2] = nopen
  <2>1. CASE n \in 1 .. Len(f) /\ n < Len(f)
    <3>1. n < Len(g) /\ n + 1 \in 1 .. Len(f) /\ n # Len(f)
      BY <1>2, <2>1
    <3>2. g[n] = f[n] /\ g[n + 1] = f[n + 1]
      BY <1>2, <2>1, <3>1
    <3>3. f[n + 1] = <<"stop", f[n][2], 0>>
      BY <1>6, <1>10, <2>1, <3>1, <3>2
    <3> QED
      BY <3>1, <3>2, <3>3
  <2>2. CASE n = Len(f)
    <3>0. n \in 1 .. Len(f) /\ ~(n < Len(f)) /\ n < Len(g)
      BY <1>2, <1>3, <2>2
    <3>3. g[n] = f[n] /\ g[n + 1] = x
      BY <1>2, <2>2, <3>0
    <3>4. f[n][1] = "signature"
      BY <1>10, <3>3
    <3>5. f[n][2] = open
      BY <1>6, <3>0, <3>4
    <3>1. g[n] = f[n] /\ f[n][2] = open /\ signed /\ n < Len(g) /\ g[n + 1] = x
      BY <1>6, <2>2, <3>0, <3>3, <3>4, <3>5
    <3>2. x = <<"stop", open, 0>>
      <4>1. x[1] = "stop" /\ x[2] = open /\ x[3] = 0 /\ x \in BlockKinds \X Nat \X Nat
        BY <3>1 DEF BlockMay, BlockFrames
      <4> QED
        BY <4>1
    <3> QED
      BY <3>1, <3>2
  <2>3. CASE n = Len(f) + 1
    <3>1. x[1] = "signature" /\ g[n] = x /\ n = Len(g)
      BY <1>2, <1>10, <2>3
    <3> QED
      BY <3>1 DEF BlockMay, BlockMoves
  <2> QED
    BY <1>2, <2>1, <2>2, <2>3
<1>11. nsigned <=> g[Len(g)][1] = "signature"
  BY <1>2 DEF BlockMoves
<1> QED
  BY <1>1, <1>2, <1>3, <1>5, <1>8, <1>9, <1>10, <1>11 DEF BlocksSent, g

\* A block is started, perhaps the thinking block.
LEMMA BlockStarts ==
    ASSUME NEW f, NEW next, NEW thinking, BlocksSent(f, next, 0, thinking, FALSE), NEW t \in Nat
    PROVE  /\ BlocksSent(Append(f, <<"start", next, t>>), next + 1, next, thinking, FALSE)
           /\ thinking = 0 => BlocksSent(Append(f, <<"start", next, t>>), next + 1, next, next, FALSE)
<1> DEFINE x == <<"start", next, t>>
<1>1. x \in BlockFrames /\ x[1] = "start" /\ x[2] = next
  BY DEF BlockFrames, BlockKinds, BlocksSent
<1> HIDE DEF x
<1>2. BlockMay(x, next, 0, thinking, FALSE)
  BY <1>1 DEF BlockMay
<1>3. BlockMoves(x, next, 0, thinking, next + 1, next, thinking, FALSE)
  BY <1>1 DEF BlockMoves
<1>4. thinking = 0 => BlockMoves(x, next, 0, thinking, next + 1, next, next, FALSE)
  BY <1>1 DEF BlockMoves
<1>5. /\ BlocksSent(Append(f, x), next + 1, next, thinking, FALSE)
      /\ thinking = 0 => BlocksSent(Append(f, x), next + 1, next, next, FALSE)
  BY <1>2, <1>3, <1>4, BlockSends
<1> QED
  BY <1>5 DEF x

\* What is said in the open block, and what belongs to no block or to any.
LEMMA BlockSays ==
    ASSUME NEW f, NEW next, NEW open, NEW thinking, BlocksSent(f, next, open, thinking, FALSE),
           NEW k \in {"text", "thinking", "json", "message_delta", "message_stop", "error"},
           NEW i \in Nat, NEW t \in Nat, k \in {"text", "thinking"} => open # 0 /\ i = open
    PROVE  BlocksSent(Append(f, <<k, i, t>>), next, open, thinking, FALSE)
<1> DEFINE x == <<k, i, t>>
<1>1. x \in BlockFrames /\ x[1] = k /\ x[2] = i
  BY DEF BlockFrames, BlockKinds
<1> HIDE DEF x
<1>2. BlockMay(x, next, open, thinking, FALSE)
  BY <1>1 DEF BlockMay
<1>3. BlockMoves(x, next, open, thinking, next, open, thinking, FALSE)
  BY <1>1 DEF BlockMoves, BlocksSent
<1>4. BlocksSent(Append(f, x), next, open, thinking, FALSE)
  BY <1>2, <1>3, BlockSends
<1> QED
  BY <1>4 DEF x

\* The open block is stopped, after its signature if it is the thinking block.
LEMMA BlockStops ==
    ASSUME NEW f, NEW next, NEW open, NEW thinking, BlocksSent(f, next, open, thinking, FALSE), open # 0
    PROVE  /\ open # thinking => BlocksSent(Append(f, <<"stop", open, 0>>), next, 0, thinking, FALSE)
           /\ open = thinking =>
                BlocksSent(Append(Append(f, <<"signature", open, 0>>), <<"stop", open, 0>>),
                           next, 0, thinking, FALSE)
<1> DEFINE x == <<"stop", open, 0>>
           y == <<"signature", open, 0>>
           g == Append(f, y)
<1>1. x \in BlockFrames /\ x[1] = "stop" /\ x[2] = open /\ x[3] = 0
      /\ y \in BlockFrames /\ y[1] = "signature" /\ y[2] = open /\ next \in Nat
  BY DEF BlockFrames, BlockKinds, BlocksSent
<1> HIDE DEF x, y
<1>2. ASSUME open # thinking PROVE BlocksSent(Append(f, x), next, 0, thinking, FALSE)
  <2>1. BlockMay(x, next, open, thinking, FALSE)
    BY <1>1, <1>2 DEF BlockMay
  <2>2. BlockMoves(x, next, open, thinking, next, 0, thinking, FALSE)
    BY <1>1 DEF BlockMoves
  <2> QED
    BY <2>1, <2>2, BlockSends
<1>3. ASSUME open = thinking PROVE BlocksSent(Append(g, x), next, 0, thinking, FALSE)
  <2>1. BlockMay(y, next, open, thinking, FALSE)
    BY <1>1 DEF BlockMay
  <2>2. BlockMoves(y, next, open, thinking, next, open, thinking, TRUE)
    BY <1>1 DEF BlockMoves
  <2>3. BlocksSent(g, next, open, thinking, TRUE)
    BY <2>1, <2>2, BlockSends
  <2> HIDE DEF g
  <2>4. BlockMay(x, next, open, thinking, TRUE)
    BY <1>1, <1>3 DEF BlockMay
  <2>5. BlockMoves(x, next, open, thinking, next, 0, thinking, FALSE)
    BY <1>1 DEF BlockMoves
  <2> QED
    BY <2>3, <2>4, <2>5, BlockSends
<1> QED
  BY <1>2, <1>3 DEF x, y, g

(***************************************************************************)
(* Anthropic: the operators of the encoder                                 *)
(***************************************************************************)
\* What a stream of blocks says of its own counters.
LEMMA BlockFacts ==
    ASSUME NEW f, NEW next, NEW open, NEW thinking, NEW signed, BlocksSent(f, next, open, thinking, signed)
    PROVE  /\ f \in Seq(BlockFrames) /\ next \in Nat \ {0}
           /\ open \in 0 .. (next - 1) /\ thinking \in 0 .. (next - 1)
BY DEF BlocksSent

\* Frames that do not end a stream leave it unended.
LEMMA StillOpen ==
    ASSUME NEW f \in Seq(BlockFrames), Unended(f), NEW x \in BlockFrames, x[1] \notin {"message_stop", "error"}
    PROVE  Unended(Append(f, x)) /\ Append(f, x) \in Seq(BlockFrames)
<1> DEFINE g == Append(f, x)
<1>1. /\ g \in Seq(BlockFrames) /\ Len(f) \in Nat
      /\ DOMAIN f = 1 .. Len(f) /\ DOMAIN g = 1 .. Len(f) + 1
      /\ \A n \in 1 .. Len(f) : g[n] = f[n]
      /\ g[Len(f) + 1] = x
  BY OneMore
<1> HIDE DEF g
<1>2. ASSUME NEW n \in DOMAIN g
      PROVE  g[n][1] \notin {"message_stop", "error"}
  <2>1. CASE n \in 1 .. Len(f)
    BY <1>1, <2>1 DEF Unended
  <2>2. CASE n = Len(f) + 1
    BY <1>1, <2>2
  <2> QED
    BY <1>1, <2>1, <2>2
<1> QED
  BY <1>1, <1>2 DEF Unended, g

\* What is open is stopped; a thinking block is signed first.
LEMMA Closes ==
    ASSUME NEW s \in BlockStreams, BlocksSent(s.out, s.next, s.open, s.thinking, FALSE), Unended(s.out)
    PROVE  LET u == CloseOpen(s) IN
           /\ u \in BlockStreams /\ u.open = 0
           /\ u.next = s.next /\ u.thinking = s.thinking /\ u.thinkingDone = s.thinkingDone
           /\ u.text = s.text /\ u.blocks = s.blocks
           /\ BlocksSent(u.out, s.next, 0, s.thinking, FALSE) /\ Unended(u.out)
<1> DEFINE f == s.out
           x == <<"stop", s.open, 0>>
           y == <<"signature", s.open, 0>>
<1>1. CASE s.open = 0
  BY <1>1 DEF CloseOpen
<1>2. CASE s.open # 0
  <2>1. x \in BlockFrames /\ x[1] = "stop" /\ y \in BlockFrames /\ y[1] = "signature"
    BY DEF BlockFrames, BlockKinds, BlockStreams
  <2>2. /\ s.open # s.thinking => BlocksSent(Append(f, x), s.next, 0, s.thinking, FALSE)
        /\ s.open = s.thinking => BlocksSent(Append(Append(f, y), x), s.next, 0, s.thinking, FALSE)
    BY <1>2, BlockStops
  <2>3. f \in Seq(BlockFrames) /\ Unended(f)
    BY DEF BlockStreams
  <2>4. CloseOpen(s)
          = [[s EXCEPT !.out = f \o ((IF s.open = s.thinking THEN <<y>> ELSE <<>>) \o <<x>>)] EXCEPT !.open = 0]
    BY <1>2 DEF CloseOpen, Put, Block
  <2> DEFINE g == IF s.open = s.thinking THEN Append(Append(f, y), x) ELSE Append(f, x)
             u == [s EXCEPT !.out = g, !.open = 0]
  <2> HIDE DEF f, x, y
  <2>5. /\ f \o <<x>> = Append(f, x) /\ f \o <<y, x>> = Append(Append(f, y), x)
    BY <2>1, <2>3, Together
  <2>6. <<y>> \o <<x>> = <<y, x>>
    BY <2>1, Sometimes
  <2>7. <<>> \o <<x>> = <<x>>
    BY <2>1, Sometimes
  <2>8. f \o ((IF s.open = s.thinking THEN <<y>> ELSE <<>>) \o <<x>>) = g
    BY <2>5, <2>6, <2>7
  <2>9. Unended(Append(f, y)) /\ Append(f, y) \in Seq(BlockFrames)
    BY <2>1, <2>3, StillOpen
  <2>10. /\ Unended(Append(f, x)) /\ Append(f, x) \in Seq(BlockFrames)
         /\ Unended(Append(Append(f, y), x)) /\ Append(Append(f, y), x) \in Seq(BlockFrames)
    BY <2>1, <2>3, <2>9, StillOpen
  <2>11. BlocksSent(g, s.next, 0, s.thinking, FALSE) /\ Unended(g) /\ g \in Seq(BlockFrames)
    BY <2>2, <2>10
  <2> HIDE DEF g
  <2>12. CloseOpen(s) = u
    BY <2>4, <2>8 DEF BlockStreams
  <2>13. /\ u \in BlockStreams /\ u.open = 0 /\ u.out = g
         /\ u.next = s.next /\ u.thinking = s.thinking /\ u.thinkingDone = s.thinkingDone
         /\ u.text = s.text /\ u.blocks = s.blocks
    BY <2>11 DEF BlockStreams
  <2> HIDE DEF u
  <2> QED
    BY <2>11, <2>12, <2>13
<1> QED
  BY <1>1, <1>2

\* A block is begun when none is open.
LEMMA Begins ==
    ASSUME NEW s \in BlockStreams, BlocksSent(s.out, s.next, 0, s.thinking, FALSE), Unended(s.out),
           NEW t \in Nat
    PROVE  LET u == Begin(s, t) IN
           /\ u \in BlockStreams /\ u.open = s.next /\ u.next = s.next + 1 /\ s.next \in Nat \ {0}
           /\ u.thinking = s.thinking /\ u.thinkingDone = s.thinkingDone
           /\ u.text = s.text /\ u.blocks = s.blocks /\ s.thinking < s.next
           /\ BlocksSent(u.out, u.next, u.open, s.thinking, FALSE) /\ Unended(u.out)
           /\ s.thinking = 0 => BlocksSent(u.out, u.next, u.open, s.next, FALSE)
<1> DEFINE f == s.out
           x == <<"start", s.next, t>>
           g == Append(f, x)
           u == [s EXCEPT !.out = g, !.open = s.next, !.next = s.next + 1]
<1>1. x \in BlockFrames /\ x[1] = "start" /\ f \in Seq(BlockFrames)
  BY DEF BlockFrames, BlockKinds, BlockStreams
<1>2. s.next \in Nat \ {0} /\ s.next + 1 \in Nat /\ s.thinking < s.next
  <2>1. s.next \in Nat \ {0} /\ s.thinking \in 0 .. (s.next - 1)
    BY BlockFacts
  <2> QED
    BY <2>1
<1>3. /\ BlocksSent(g, s.next + 1, s.next, s.thinking, FALSE)
      /\ s.thinking = 0 => BlocksSent(g, s.next + 1, s.next, s.next, FALSE)
  BY BlockStarts
<1>4. Unended(g) /\ g \in Seq(BlockFrames)
  <2> HIDE DEF x
  <2> QED
    BY <1>1, StillOpen
<1>5. Begin(s, t) = [[s EXCEPT !.out = f \o <<x>>] EXCEPT !.open = s.next, !.next = @ + 1]
  BY DEF Begin, Put, Block
<1> HIDE DEF x
<1>6. f \o <<x>> = g
  BY <1>1, Together
<1> HIDE DEF g
<1>7. Begin(s, t) = u
  BY <1>5, <1>6 DEF BlockStreams
<1>8. /\ u \in BlockStreams /\ u.open = s.next /\ u.next = s.next + 1 /\ u.out = g
      /\ u.thinking = s.thinking /\ u.thinkingDone = s.thinkingDone
      /\ u.text = s.text /\ u.blocks = s.blocks
  <2> DEFINE n == s.next
             m == s.next + 1
  <2>1. n \in Nat /\ m \in Nat /\ g \in Seq(BlockFrames) /\ u = [s EXCEPT !.out = g, !.open = n, !.next = m]
    BY <1>2, <1>4
  <2> HIDE DEF u, n, m
  <2>2. /\ u \in BlockStreams /\ u.open = n /\ u.next = m /\ u.out = g
        /\ u.thinking = s.thinking /\ u.thinkingDone = s.thinkingDone
        /\ u.text = s.text /\ u.blocks = s.blocks
    BY <2>1 DEF BlockStreams
  <2> QED
    BY <2>2 DEF n, m
<1> HIDE DEF u
<1> QED
  BY <1>2, <1>3, <1>4, <1>7, <1>8

\* What a frame put in a stream may be, when it changes no block.
PutMay(s, x) ==
    /\ s \in BlockStreams /\ BlocksSent(s.out, s.next, s.open, s.thinking, FALSE) /\ Unended(s.out)
    /\ x \in BlockFrames /\ x[1] \in {"text", "thinking", "json"}
    /\ x[1] \in {"text", "thinking"} => s.open # 0 /\ x[2] = s.open

\* A frame is put that changes no block.
LEMMA Puts ==
    ASSUME NEW s, NEW x, PutMay(s, x)
    PROVE  LET u == Put(s, <<x>>) IN
           /\ u \in BlockStreams
           /\ u.next = s.next /\ u.open = s.open /\ u.thinking = s.thinking
           /\ u.thinkingDone = s.thinkingDone /\ u.text = s.text /\ u.blocks = s.blocks
           /\ BlocksSent(u.out, s.next, s.open, s.thinking, FALSE) /\ Unended(u.out)
<1> DEFINE f == s.out
           g == Append(f, x)
           u == [s EXCEPT !.out = g]
<1>1. /\ s \in BlockStreams /\ BlocksSent(f, s.next, s.open, s.thinking, FALSE) /\ Unended(f)
      /\ x \in BlockFrames /\ x[1] \in {"text", "thinking", "json"}
      /\ x[1] \in {"text", "thinking"} => s.open # 0 /\ x[2] = s.open
  BY DEF PutMay
<1>2. f \in Seq(BlockFrames) /\ s.next \in Nat /\ x[1] \notin {"message_stop", "error"}
  BY <1>1 DEF BlockStreams
<1>3. BlocksSent(g, s.next, s.open, s.thinking, FALSE)
  <2>1. BlockMay(x, s.next, s.open, s.thinking, FALSE)
    BY <1>1 DEF BlockMay
  <2>2. BlockMoves(x, s.next, s.open, s.thinking, s.next, s.open, s.thinking, FALSE)
    BY <1>1 DEF BlockMoves, BlocksSent
  <2> QED
    BY <1>1, <2>1, <2>2, BlockSends
<1>4. Unended(g) /\ g \in Seq(BlockFrames)
  BY <1>1, <1>2, StillOpen
<1>5. f \o <<x>> = g
  BY <1>1, <1>2, Together
<1>6. Put(s, <<x>>) = [s EXCEPT !.out = f \o <<x>>]
  BY DEF Put
<1> HIDE DEF g
<1>7. Put(s, <<x>>) = u
  BY <1>5, <1>6
<1>8. /\ u \in BlockStreams /\ u.out = g
      /\ u.next = s.next /\ u.open = s.open /\ u.thinking = s.thinking
      /\ u.thinkingDone = s.thinkingDone /\ u.text = s.text /\ u.blocks = s.blocks
  BY <1>1, <1>4 DEF BlockStreams
<1> HIDE DEF u
<1> QED
  BY <1>3, <1>4, <1>7, <1>8

\* Thinking goes into its block, which is begun if there is none.
LEMMA Thinks ==
    ASSUME NEW s, BlocksGood(s), ~s.thinkingDone, NEW t \in Nat
    PROVE  BlocksGood(Thinking(s, t))
<1> DEFINE b == Begin(s, 0)
           v == IF s.thinking # 0 THEN s ELSE [b EXCEPT !.thinking = s.next]
<1>1. /\ s \in BlockStreams /\ BlocksSent(s.out, s.next, s.open, s.thinking, FALSE) /\ Unended(s.out)
      /\ s.open = s.thinking /\ s.text = 0 /\ s.thinkingDone = FALSE
  BY DEF BlocksGood, Unended, BlockStreams
<1>2. /\ v \in BlockStreams /\ BlocksSent(v.out, v.next, v.open, v.thinking, FALSE) /\ Unended(v.out)
      /\ v.open = v.thinking /\ v.open # 0 /\ v.text = 0 /\ v.thinkingDone = FALSE
  <2>1. CASE s.thinking # 0
    BY <1>1, <2>1
  <2>2. CASE s.thinking = 0
    <3>1. /\ b \in BlockStreams /\ b.open = s.next /\ s.next \in Nat \ {0}
          /\ b.text = 0 /\ b.thinkingDone = FALSE /\ Unended(b.out)
          /\ BlocksSent(b.out, b.next, b.open, s.next, FALSE)
      BY <1>1, <2>2, Begins
    <3> HIDE DEF b
    <3>2. v = [b EXCEPT !.thinking = s.next]
      BY <2>2
    <3> HIDE DEF v
    <3>3. /\ v \in BlockStreams /\ v.open = s.next /\ v.thinking = s.next /\ v.out = b.out /\ v.next = b.next
          /\ v.text = 0 /\ v.thinkingDone = FALSE
      BY <3>1, <3>2 DEF BlockStreams
    <3> QED
      BY <3>1, <3>3
  <2> QED
    BY <2>1, <2>2
<1>3. Thinking(s, t) = Put(v, <<<<"thinking", v.thinking, t>>>>)
  BY DEF Thinking, Block
<1> HIDE DEF v
<1> DEFINE x == <<"thinking", v.thinking, t>>
           u == Put(v, <<x>>)
<1>4. PutMay(v, x)
  <2>1. x \in BlockFrames /\ x[1] = "thinking" /\ x[2] = v.thinking
    BY <1>2 DEF BlockStreams, BlockFrames, BlockKinds
  <2> HIDE DEF x
  <2> QED
    BY <1>2, <2>1 DEF PutMay
<1> HIDE DEF x
<1>5. /\ u \in BlockStreams
      /\ u.next = v.next /\ u.open = v.open /\ u.thinking = v.thinking
      /\ u.thinkingDone = v.thinkingDone /\ u.text = v.text
      /\ BlocksSent(u.out, v.next, v.open, v.thinking, FALSE) /\ Unended(u.out)
  BY <1>4, Puts
<1> HIDE DEF u
<1>6. BlocksGood(u)
  BY <1>2, <1>5 DEF BlocksGood, Unended
<1> QED
  BY <1>3, <1>6 DEF u, x

\* A block that is not the thinking block is begun after the open one is closed.
LEMMA Turns ==
    ASSUME NEW s, BlocksGood(s), NEW t \in Nat
    PROVE  LET u == Begin(CloseOpen(s), t) IN
           /\ u \in BlockStreams /\ u.open = s.next /\ u.next = s.next + 1 /\ s.next \in Nat \ {0}
           /\ u.thinking = s.thinking /\ s.thinking # s.next /\ u.blocks = s.blocks /\ u.text = s.text
           /\ BlocksSent(u.out, u.next, u.open, u.thinking, FALSE) /\ Unended(u.out)
<1> DEFINE c == CloseOpen(s)
<1>1. s \in BlockStreams /\ BlocksSent(s.out, s.next, s.open, s.thinking, FALSE) /\ Unended(s.out)
  BY DEF BlocksGood, Unended
<1>2. /\ c \in BlockStreams /\ c.next = s.next /\ c.thinking = s.thinking /\ c.blocks = s.blocks
      /\ c.text = s.text
      /\ BlocksSent(c.out, s.next, 0, s.thinking, FALSE) /\ Unended(c.out)
  BY <1>1, Closes
<1> HIDE DEF c
<1>3. BlocksSent(c.out, c.next, 0, c.thinking, FALSE)
  BY <1>2
<1> DEFINE u == Begin(c, t)
<1>4. /\ u \in BlockStreams /\ u.open = c.next /\ u.next = c.next + 1 /\ c.next \in Nat \ {0}
      /\ u.thinking = c.thinking /\ u.blocks = c.blocks /\ c.thinking < c.next /\ u.text = c.text
      /\ BlocksSent(u.out, u.next, u.open, c.thinking, FALSE) /\ Unended(u.out)
  BY <1>2, <1>3, Begins
<1> HIDE DEF u
<1>5. c.thinking # c.next
  BY <1>2, <1>4 DEF BlockStreams
<1>6. /\ u \in BlockStreams /\ u.open = s.next /\ u.next = s.next + 1 /\ s.next \in Nat \ {0}
      /\ u.thinking = s.thinking /\ s.thinking # s.next /\ u.blocks = s.blocks /\ u.text = s.text
      /\ BlocksSent(u.out, u.next, u.open, u.thinking, FALSE) /\ Unended(u.out)
  BY <1>2, <1>4, <1>5
<1> QED
  BY <1>6 DEF u, c

\* Text goes on in its block, or begins one.
LEMMA Says ==
    ASSUME NEW s, BlocksGood(s), NEW e, e.content \in Nat
    PROVE  BlocksGood(Speak(s, e))
<1>1. CASE e.content = 0
  BY <1>1 DEF Speak
<1>2. CASE e.content # 0
  <2> DEFINE b == Begin(CloseOpen(s), 0)
             v == IF s.text # 0 THEN s ELSE [b EXCEPT !.thinkingDone = TRUE, !.text = s.next]
             x == <<"text", v.text, e.content>>
             u == Put(v, <<x>>)
  <2>1. /\ v \in BlockStreams /\ BlocksSent(v.out, v.next, v.open, v.thinking, FALSE) /\ Unended(v.out)
        /\ v.text # 0 /\ v.text = v.open /\ v.text # v.thinking /\ v.thinkingDone
    <3>1. CASE s.text # 0
      BY <3>1 DEF BlocksGood, Unended
    <3>2. CASE s.text = 0
      <4>1. /\ b \in BlockStreams /\ b.open = s.next /\ b.next = s.next + 1 /\ s.next \in Nat \ {0}
            /\ b.thinking = s.thinking /\ s.thinking # s.next
            /\ BlocksSent(b.out, b.next, b.open, b.thinking, FALSE) /\ Unended(b.out)
        BY Turns
      <4> HIDE DEF b
      <4>2. v = [b EXCEPT !.thinkingDone = TRUE, !.text = s.next]
        BY <3>2
      <4> HIDE DEF v
      <4>3. /\ v \in BlockStreams /\ v.open = s.next /\ v.text = s.next /\ v.thinkingDone = TRUE
            /\ v.out = b.out /\ v.next = b.next /\ v.thinking = s.thinking
        BY <4>1, <4>2 DEF BlockStreams
      <4> QED
        BY <4>1, <4>3
    <3> QED
      BY <3>1, <3>2
  <2>2. Speak(s, e) = u
    BY <1>2 DEF Speak, Block
  <2> HIDE DEF v
  <2>3. x \in BlockFrames /\ x[1] = "text" /\ x[2] = v.text
    BY <2>1 DEF BlockStreams, BlockFrames, BlockKinds
  <2> HIDE DEF x
  <2>4. PutMay(v, x)
    BY <2>1, <2>3 DEF PutMay
  <2>5. /\ u \in BlockStreams
        /\ u.next = v.next /\ u.open = v.open /\ u.thinking = v.thinking
        /\ u.thinkingDone = v.thinkingDone /\ u.text = v.text
        /\ BlocksSent(u.out, v.next, v.open, v.thinking, FALSE) /\ Unended(u.out)
    BY <2>4, Puts
  <2> HIDE DEF u
  <2>6. BlocksGood(u)
    BY <2>1, <2>5 DEF BlocksGood, Unended
  <2> QED
    BY <2>2, <2>6
<1> QED
  BY <1>1, <1>2

\* Every event keeps the blocks in order.
LEMMA BlocksStep ==
    ASSUME NEW s, BlocksGood(s), NEW p, NEW e,
           e.index \in Nat, e.token \in Nat, e.reasoning \in Nat, e.content \in Nat,
           e.kind \notin {"completed", "cut", "failed"}
    PROVE  BlocksGood(AnthropicFold(s, e, p))
<1>1. CASE e.kind = "answer"
  <2>1. BlocksGood(Reason(s, e))
    <3>1. CASE e.reasoning > 0 /\ ~s.thinkingDone /\ s.text = 0
      BY <3>1, Thinks DEF Reason
    <3>2. CASE ~(e.reasoning > 0 /\ ~s.thinkingDone /\ s.text = 0)
      BY <3>2 DEF Reason
    <3> QED
      BY <3>1, <3>2
  <2>2. BlocksGood(Speak(Reason(s, e), e))
    BY <2>1, Says
  <2> QED
    BY <1>1, <2>2 DEF AnthropicFold
<1>2. CASE e.kind = "tool"
  <2> DEFINE b == Begin(CloseOpen(s), e.token)
             u == ToolUse(s, e)
             c == [index |-> e.index, at |-> s.next]
  <2>1. /\ b \in BlockStreams /\ b.open = s.next /\ b.next = s.next + 1 /\ s.next \in Nat \ {0}
        /\ b.thinking = s.thinking
        /\ BlocksSent(b.out, b.next, b.open, b.thinking, FALSE) /\ Unended(b.out)
    BY Turns
  <2>2. u = [b EXCEPT !.thinkingDone = TRUE, !.text = 0, !.blocks = Append(@, c)]
    BY DEF ToolUse
  <2> HIDE DEF b
  <2>3. c \in [index : Nat, at : Nat]
    BY <2>1
  <2> HIDE DEF c
  <2>4. Append(b.blocks, c) \in Seq([index : Nat, at : Nat])
    <3> DEFINE S == [index : Nat, at : Nat]
    <3>1. b.blocks \in Seq(S) /\ c \in S
      BY <2>1, <2>3 DEF BlockStreams
    <3> HIDE DEF S
    <3>2. Append(b.blocks, c) \in Seq(S)
      BY <3>1, AppendProperties
    <3> QED
      BY <3>2 DEF S
  <2> HIDE DEF u
  <2>5. /\ u \in BlockStreams /\ u.open = b.open /\ u.next = b.next /\ u.thinking = b.thinking
        /\ u.thinkingDone = TRUE /\ u.text = 0 /\ u.out = b.out
    BY <2>1, <2>2, <2>4 DEF BlockStreams
  <2>6. BlocksGood(u)
    BY <2>1, <2>5 DEF BlocksGood, Unended
  <2> QED
    BY <1>2, <2>6 DEF AnthropicFold, u
<1>3. CASE e.kind = "arguments"
  <2> DEFINE mine == {n \in 1 .. Len(s.blocks) : s.blocks[n].index = e.index}
             i == s.blocks[CHOOSE n \in mine : TRUE].at
             x == <<"json", i, e.token>>
             u == Put(s, <<x>>)
  <2>0. /\ s \in BlockStreams /\ BlocksSent(s.out, s.next, s.open, s.thinking, FALSE) /\ Unended(s.out)
    BY DEF BlocksGood, Unended
  <2>1. CASE mine = {}
    BY <1>3, <2>1 DEF AnthropicFold, PartialJson
  <2>2. CASE mine # {}
    <3>1. i \in Nat
      <4> DEFINE S == [index : Nat, at : Nat]
                 q == s.blocks
                 m == CHOOSE n \in mine : TRUE
      <4>1. m \in mine
        BY <2>2
      <4>2. q \in Seq(S)
        BY <2>0 DEF BlockStreams
      <4>3. m \in 1 .. Len(q)
        BY <4>1
      <4> HIDE DEF S, q, m
      <4>4. q[m] \in S
        BY <4>2, <4>3, ElementOfSeq
      <4> QED
        BY <4>4 DEF S, q, m
    <3>2. AnthropicFold(s, e, p) = u
      BY <1>3, <2>2 DEF AnthropicFold, PartialJson, Block
    <3> HIDE DEF i
    <3>3. x \in BlockFrames /\ x[1] = "json"
      BY <3>1 DEF BlockFrames, BlockKinds
    <3> HIDE DEF x
    <3>4. PutMay(s, x)
      BY <2>0, <3>3 DEF PutMay
    <3>5. /\ u \in BlockStreams
          /\ u.next = s.next /\ u.open = s.open /\ u.thinking = s.thinking
          /\ u.thinkingDone = s.thinkingDone /\ u.text = s.text
          /\ BlocksSent(u.out, s.next, s.open, s.thinking, FALSE) /\ Unended(u.out)
      BY <3>4, Puts
    <3> HIDE DEF u
    <3>6. BlocksGood(u)
      BY <3>5 DEF BlocksGood, Unended
    <3> QED
      BY <3>2, <3>6
  <2> QED
    BY <2>1, <2>2
<1>4. CASE e.kind \notin {"answer", "tool", "arguments"}
  BY <1>4 DEF AnthropicFold
<1> QED
  BY <1>1, <1>2, <1>3, <1>4

\* The end closes what is open, and says one last frame.
LEMMA BlocksOver ==
    ASSUME NEW s, NEW p, NEW e, BlocksGood(s), e.kind \in {"completed", "cut", "failed"}
    PROVE  LET u == AnthropicFold(s, e, p) IN
           /\ BlocksSent(u.out, u.next, 0, u.thinking, FALSE) /\ u.open = 0
           /\ IsLast(u.out, {"message_stop", "error"})
<1> DEFINE c == CloseOpen(s)
           u == AnthropicFold(s, e, p)
           x == <<"message_delta", 0, 0>>
           y == <<"message_stop", 0, 0>>
           z == <<"error", 0, 0>>
           f == c.out
<1>1. s \in BlockStreams /\ BlocksSent(s.out, s.next, s.open, s.thinking, FALSE) /\ Unended(s.out)
  BY DEF BlocksGood, Unended
<1>2. c \in BlockStreams /\ c.open = 0 /\ BlocksSent(c.out, c.next, 0, c.thinking, FALSE) /\ Unended(c.out)
  BY <1>1, Closes
<1>3. /\ u = IF e.kind = "failed" THEN [c EXCEPT !.out = f \o <<z>>] ELSE [c EXCEPT !.out = f \o <<x, y>>]
  BY DEF AnthropicFold, Put, Block
<1> HIDE DEF c
<1>4. /\ x \in BlockFrames /\ y \in BlockFrames /\ z \in BlockFrames
      /\ x[1] = "message_delta" /\ y[1] = "message_stop" /\ z[1] = "error"
  BY DEF BlockFrames, BlockKinds
<1>5. f \in Seq(BlockFrames)
  BY <1>2 DEF BlockStreams
<1>6. ASSUME NEW g, BlocksSent(g, c.next, 0, c.thinking, FALSE),
             NEW k \in {"message_delta", "message_stop", "error"}
      PROVE  BlocksSent(Append(g, <<k, 0, 0>>), c.next, 0, c.thinking, FALSE)
  <2>1. k \in {"text", "thinking", "json", "message_delta", "message_stop", "error"}
        /\ k \notin {"text", "thinking"} /\ 0 \in Nat
    OBVIOUS
  <2> QED
    BY <1>6, <2>1, BlockSays
<1>7. /\ BlocksSent(Append(f, x), c.next, 0, c.thinking, FALSE)
      /\ BlocksSent(Append(f, z), c.next, 0, c.thinking, FALSE)
      /\ BlocksSent(Append(Append(f, x), y), c.next, 0, c.thinking, FALSE)
  <2>1. BlocksSent(f, c.next, 0, c.thinking, FALSE)
    BY <1>2
  <2> HIDE DEF f
  <2>2. BlocksSent(Append(f, x), c.next, 0, c.thinking, FALSE)
    BY <1>6, <2>1
  <2>3. BlocksSent(Append(f, z), c.next, 0, c.thinking, FALSE)
    BY <1>6, <2>1
  <2>4. BlocksSent(Append(Append(f, x), y), c.next, 0, c.thinking, FALSE)
    BY <1>6, <2>2
  <2> QED
    BY <2>2, <2>3, <2>4
<1> HIDE DEF x, y, z
<1>8. f \o <<z>> = Append(f, z) /\ f \o <<x, y>> = Append(Append(f, x), y)
  BY <1>4, <1>5, Together
<1>9. Unended(f) /\ Unended(Append(f, x)) /\ Append(f, x) \in Seq(BlockFrames)
  BY <1>2, <1>4, <1>5, StillOpen
<1>10. ASSUME NEW h \in Seq(BlockFrames), Unended(h), NEW q \in BlockFrames, q[1] \in {"message_stop", "error"}
       PROVE  IsLast(Append(h, q), {"message_stop", "error"})
  <2> DEFINE g == Append(h, q)
  <2>1. /\ Len(h) \in Nat /\ Len(g) = Len(h) + 1
        /\ DOMAIN h = 1 .. Len(h) /\ DOMAIN g = 1 .. Len(h) + 1
        /\ \A n \in 1 .. Len(h) : g[n] = h[n]
        /\ g[Len(h) + 1] = q
    BY OneMore
  <2> HIDE DEF g
  <2>2. ASSUME NEW n \in DOMAIN g
        PROVE  g[n][1] \in {"message_stop", "error"} <=> n = Len(g)
    <3>1. CASE n \in 1 .. Len(h)
      BY <1>10, <2>1, <3>1 DEF Unended
    <3>2. CASE n = Len(h) + 1
      BY <1>10, <2>1, <3>2
    <3> QED
      BY <2>1, <3>1, <3>2
  <2> QED
    BY <2>2 DEF IsLast, g
<1>11. IsLast(Append(f, z), {"message_stop", "error"}) /\ IsLast(Append(Append(f, x), y), {"message_stop", "error"})
  BY <1>4, <1>5, <1>9, <1>10
<1> HIDE DEF u, f
<1>12. CASE e.kind = "failed"
  <2>1. u.out = Append(f, z) /\ u.next = c.next /\ u.thinking = c.thinking /\ u.open = 0
    BY <1>2, <1>3, <1>8, <1>12 DEF BlockStreams
  <2>2. BlocksSent(u.out, u.next, 0, u.thinking, FALSE) /\ u.open = 0 /\ IsLast(u.out, {"message_stop", "error"})
    BY <1>7, <1>11, <2>1
  <2> QED
    BY <2>2 DEF u
<1>13. CASE e.kind # "failed"
  <2>1. u.out = Append(Append(f, x), y) /\ u.next = c.next /\ u.thinking = c.thinking /\ u.open = 0
    BY <1>2, <1>3, <1>8, <1>13 DEF BlockStreams
  <2>2. BlocksSent(u.out, u.next, 0, u.thinking, FALSE) /\ u.open = 0 /\ IsLast(u.out, {"message_stop", "error"})
    BY <1>7, <1>11, <2>1
  <2> QED
    BY <2>2 DEF u
<1> QED
  BY <1>12, <1>13

\* A stream begins, with its thinking block if the plan has notices.
LEMMA BlocksBegin ==
    ASSUME NEW p
    PROVE  BlocksGood(AnthropicStart(p))
<1> DEFINE x == <<"message_start", 0, 0>>
           f == <<x>>
           s == [next |-> 1, open |-> 0, thinking |-> 0, thinkingDone |-> FALSE, text |-> 0,
                 blocks |-> <<>>, out |-> f]
<1>1. x \in BlockFrames /\ x[1] = "message_start"
  BY DEF BlockFrames, BlockKinds
<1> HIDE DEF x
<1>2. f \in Seq(BlockFrames) /\ Len(f) = 1 /\ f[1] = x /\ DOMAIN f = {1} /\ f # <<>>
  BY <1>1
<1>3. <<>> \in Seq([index : Nat, at : Nat])
  BY EmptySeq
<1>9. AnthropicStart(p) = IF p.notices THEN Thinking(s, NoticeToken) ELSE s
  BY DEF AnthropicStart, Block, x
<1> HIDE DEF f
<1>4. s \in BlockStreams
  BY <1>2, <1>3 DEF BlockStreams
<1>5. Count(f, 1, "start") = 0
  <2>1. {m \in 1 .. 1 : f[m][1] = "start"} = {}
    BY <1>1, <1>2
  <2> QED
    BY <2>1, FS_EmptySet DEF Count
<1>6. \A n : OpenAfter(f, n, 1) = {}
  BY DEF OpenAfter
<1>7. BlocksSent(f, 1, 0, 0, FALSE)
  <2>1. \A n \in DOMAIN f : n = 1 /\ f[n][1] = "message_start"
    BY <1>1, <1>2
  <2>2. \A n \in DOMAIN f : BlockFits(f, n, 1, 0)
    <3>1. 0 \in 0 .. (1 - 1) /\ {0} \ {0} = {}
      OBVIOUS
    <3> QED
      BY <1>6, <2>1, <3>1 DEF BlockFits
  <2>3. OpenAfter(f, Len(f), 1) = {0} \ {0} /\ Count(f, Len(f), "start") = 1 - 1
    BY <1>2, <1>5, <1>6
  <2> QED
    BY <1>2, <2>1, <2>2, <2>3 DEF BlocksSent
<1>8. BlocksGood(s)
  BY <1>1, <1>2, <1>4, <1>7 DEF BlocksGood, Unended
<1> HIDE DEF s
<1>10. ~s.thinkingDone
  BY DEF s
<1>11. NoticeToken \in Nat
  BY DEF NoticeToken
<1>12. BlocksGood(Thinking(s, NoticeToken))
  BY <1>8, <1>10, <1>11, Thinks
<1> QED
  BY <1>8, <1>9, <1>12

(***************************************************************************)
(* Chat Completions: every event                                           *)
(***************************************************************************)
\* What a request's options are.
LEMMA OptionsType ==
    ASSUME NEW p \in Options
    PROVE  p.inline \in BOOLEAN /\ p.notices \in BOOLEAN /\ p.usage \in BOOLEAN /\ p.compat \in BOOLEAN
<1>1. p.inline \in BOOLEAN /\ p.notices \in BOOLEAN /\ p.usage \in BOOLEAN
  BY DEF Options
<1>2. p.compat \in {StreamProfile(c, f) = "compat" : c \in {"compat", "strict", "other"}, f \in BOOLEAN}
  BY DEF Options
<1>3. PICK c \in {"compat", "strict", "other"}, f \in BOOLEAN : p.compat = (StreamProfile(c, f) = "compat")
  BY <1>2
<1>4. p.compat \in BOOLEAN
  BY <1>3
<1> QED
  BY <1>1, <1>4

\* An event that does not end the run keeps the stream in order; only a call
\* that is started changes what has been announced.
LEMMA ChatStep ==
    ASSUME NEW p \in Options, NEW s, ChatGood(s, p.compat), NEW e,
           e.index \in Nat, e.token \in Nat, e.reasoning \in Nat, e.content \in Nat,
           e.kind \notin {"completed", "cut", "failed"},
           e.kind \in {"answer", "tool", "arguments"} => ~s.think,
           e.kind = "arguments" => e.index \in s.headers
    PROVE  LET u == ChatFold(s, e, p) IN
           /\ ChatGood(u, p.compat)
           /\ e.kind \in {"answer", "tool", "arguments", "synthesis"} => ~u.think
           /\ u.headers = IF e.kind = "tool" THEN s.headers \cup {e.index} ELSE s.headers
<1> DEFINE k == e.kind
           u == ChatFold(s, e, p)
<1>0. p.inline \in BOOLEAN /\ p.notices \in BOOLEAN /\ p.compat \in BOOLEAN
  BY OptionsType
<1>1. CASE k \in {"fanout_started", "member"} /\ p.inline
  <2> DEFINE q == OpenRole(s)
             v == OpenThink(q, p)
             w == ChatSay(v, <<<<"line", 0, e.token>>>>)
  <2>1. ChatGood(q, p.compat) /\ q.role /\ q.headers = s.headers
    BY ChatRole
  <2>2. u = IF k = "member" THEN w ELSE v
    BY <1>1 DEF ChatFold
  <2> HIDE DEF q
  <2>3. ChatGood(v, p.compat) /\ v.role /\ v.headers = s.headers
    BY <1>0, <2>1, ChatThink
  <2> HIDE DEF v
  <2>4. ChatGood(w, p.compat) /\ w.headers = s.headers
    BY <2>3, ChatLine
  <2> HIDE DEF w, u
  <2>5. /\ ChatGood(u, p.compat) /\ u.headers = s.headers
        /\ k \notin {"answer", "tool", "arguments", "synthesis"} /\ k # "tool"
    BY <1>1, <2>2, <2>3, <2>4
  <2> QED
    BY <2>5 DEF u
<1>2. CASE k = "synthesis"
  <2>1. u = CloseThink(s)
    BY <1>2 DEF ChatFold, SynthesisSeen
  <2> QED
    BY <1>2, <2>1, ChatThought
<1>3. CASE k = "answer"
  <2>1. u = ChatSay(OpenRole(s), AnswerFrames(e))
    BY <1>3 DEF ChatFold
  <2>2. ~s.think
    BY <1>3
  <2> QED
    BY <1>3, <2>1, <2>2, ChatAnswer
<1>4. CASE k = "tool"
  <2>1. u = [ChatSay(OpenRole(s), <<<<"tool", e.index, e.token>>>>) EXCEPT !.headers = @ \cup {e.index}]
    BY <1>4 DEF ChatFold
  <2>2. ~s.think
    BY <1>4
  <2> DEFINE i == e.index
             t == e.token
  <2>3. i \in Nat /\ t \in Nat
    OBVIOUS
  <2> HIDE DEF i, t
  <2>4. LET v == [ChatSay(OpenRole(s), <<<<"tool", i, t>>>>) EXCEPT !.headers = @ \cup {i}] IN
        ChatGood(v, p.compat) /\ ~v.think /\ v.headers = s.headers \cup {i}
    BY <2>2, <2>3, ChatTool
  <2> QED
    BY <1>4, <2>1, <2>4 DEF i, t
<1>5. CASE k = "arguments"
  <2>1. u = ChatSay(s, <<<<ArgumentsKind(s, e, p), e.index, e.token>>>>)
    BY <1>5 DEF ChatFold
  <2>2. ~s.think /\ e.index \in s.headers
    BY <1>5
  <2> QED
    BY <1>0, <1>5, <2>1, <2>2, ChatArguments
<1>6. CASE /\ k \notin {"synthesis", "answer", "tool", "arguments"}
           /\ ~(k \in {"fanout_started", "member"} /\ p.inline)
  <2>1. u = s
    BY <1>6 DEF ChatFold
  <2> QED
    BY <1>6, <2>1
<1> QED
  BY <1>1, <1>2, <1>3, <1>4, <1>5, <1>6

(***************************************************************************)
(* collect(): the calls it knows                                           *)
(***************************************************************************)
Indices(r) == {r.calls[n].index : n \in DOMAIN r.calls}

\* A fragment changes no index.
LEMMA Extended ==
    ASSUME NEW q \in Seq(CallRecords), NEW e, e.token \in Nat
    PROVE  /\ Extend(q, e) \in Seq(CallRecords)
           /\ {Extend(q, e)[n].index : n \in DOMAIN Extend(q, e)} = {q[n].index : n \in DOMAIN q}
<1> DEFINE g == Extend(q, e)
           t == e.token
           more(c) == IF c.index = e.index THEN [c EXCEPT !.body = Append(@, t)] ELSE c
<1>1. Len(q) \in Nat /\ DOMAIN q = 1 .. Len(q) /\ \A n \in 1 .. Len(q) : q[n] \in CallRecords
  BY LenProperties, ElementOfSeq
<1>2. g = [n \in 1 .. Len(q) |-> more(q[n])]
  BY <1>1 DEF Extend
<1>3. t \in Nat
  OBVIOUS
<1> HIDE DEF t
<1>4. ASSUME NEW c \in CallRecords PROVE more(c) \in CallRecords /\ more(c).index = c.index
  <2> DEFINE b == Append(c.body, t)
             m == [c EXCEPT !.body = b]
  <2>1. c.body \in Seq(Nat)
    BY DEF CallRecords
  <2>2. b \in Seq(Nat)
    BY <1>3, <2>1, AppendProperties
  <2> HIDE DEF b
  <2>3. m \in CallRecords /\ m.index = c.index
    BY <2>2 DEF CallRecords
  <2>4. more(c) = IF c.index = e.index THEN m ELSE c
    BY DEF b
  <2> HIDE DEF m, more
  <2> QED
    BY <2>3, <2>4
<1> HIDE DEF more, g
<1>5. g \in [1 .. Len(q) -> CallRecords] /\ DOMAIN g = 1 .. Len(q)
  BY <1>1, <1>2, <1>4
<1>6. g \in Seq(CallRecords)
  BY <1>1, <1>5, SeqDef
<1>7. \A n \in 1 .. Len(q) : g[n].index = q[n].index
  BY <1>1, <1>2, <1>4
<1> QED
  BY <1>1, <1>5, <1>6, <1>7 DEF g

\* What collect() gathers while the run goes on.
LEMMA CollectStep ==
    ASSUME NEW r \in Results, NEW e,
           e.index \in Nat, e.token \in Nat, e.reasoning \in Nat, e.content \in Nat,
           e.kind \notin {"completed", "cut", "failed"}
    PROVE  /\ Collect(r, e) \in Results
           /\ Indices(Collect(r, e)) = IF e.kind = "tool" THEN Indices(r) \cup {e.index} ELSE Indices(r)
<1> DEFINE k == e.kind
           u == Collect(r, e)
<1>0. /\ r.text \in Seq(Nat) /\ r.reasoning \in Seq(Nat) /\ r.outcomes \in Seq(Nat)
      /\ r.calls \in Seq(CallRecords)
  BY DEF Results
<1>1. CASE k = "member"
  <2> DEFINE t == e.token
             a == Append(r.outcomes, t)
  <2>1. t \in Nat
    OBVIOUS
  <2> HIDE DEF t
  <2>2. a \in Seq(Nat)
    BY <1>0, <2>1, AppendProperties
  <2>3. u = [r EXCEPT !.outcomes = a]
    BY <1>1 DEF Collect, t
  <2> HIDE DEF a, u
  <2>4. u \in Results /\ u.calls = r.calls
    BY <2>2, <2>3 DEF Results
  <2> QED
    BY <1>1, <2>4 DEF u, Indices
<1>2. CASE k = "answer"
  <2> DEFINE b == Present(e.content)
             c == Present(e.reasoning)
             x == r.text \o b
             y == r.reasoning \o c
  <2>1. ASSUME NEW n \in Nat PROVE Present(n) \in Seq(Nat)
    <3>1. <<n>> \in Seq(Nat) /\ <<>> \in Seq(Nat)
      OBVIOUS
    <3> QED
      BY <3>1 DEF Present
  <2>2. b \in Seq(Nat) /\ c \in Seq(Nat)
    BY <2>1
  <2>3. u = [r EXCEPT !.text = x, !.reasoning = y]
    BY <1>2 DEF Collect
  <2> HIDE DEF b, c
  <2>4. x \in Seq(Nat) /\ y \in Seq(Nat)
    BY <1>0, <2>2, ConcatProperties
  <2> HIDE DEF x, y, u
  <2>5. u \in Results /\ u.calls = r.calls
    BY <2>3, <2>4 DEF Results
  <2> QED
    BY <1>2, <2>5 DEF u, Indices
<1>3. CASE k = "tool"
  <2> DEFINE c == [index |-> e.index, body |-> <<>>]
             q == r.calls
             g == Append(q, c)
  <2>1. c \in CallRecords /\ c.index = e.index
    BY DEF CallRecords
  <2>2. u = [r EXCEPT !.calls = g]
    BY <1>3 DEF Collect
  <2>3. q \in Seq(CallRecords)
    BY <1>0
  <2> HIDE DEF c, q
  <2>4. /\ g \in Seq(CallRecords) /\ Len(q) \in Nat
        /\ DOMAIN q = 1 .. Len(q) /\ DOMAIN g = 1 .. Len(q) + 1
        /\ \A n \in 1 .. Len(q) : g[n] = q[n]
        /\ g[Len(q) + 1] = c
    BY <2>1, <2>3, OneMore
  <2> HIDE DEF g
  <2>5. {g[n].index : n \in DOMAIN g} = {q[n].index : n \in DOMAIN q} \cup {e.index}
    <3>1. \A n : n \in DOMAIN g <=> n \in DOMAIN q \/ n = Len(q) + 1
      BY <2>4
    <3>2. \A n \in DOMAIN q : g[n].index = q[n].index
      BY <2>4
    <3>3. g[Len(q) + 1].index = e.index
      BY <2>1, <2>4
    <3> QED
      BY <3>1, <3>2, <3>3
  <2> HIDE DEF u
  <2>6. u \in Results /\ u.calls = g
    BY <2>2, <2>4 DEF Results
  <2> QED
    BY <1>3, <2>5, <2>6 DEF u, q, Indices
<1>4. CASE k = "arguments"
  <2> DEFINE g == Extend(r.calls, e)
  <2>1. g \in Seq(CallRecords) /\ {g[n].index : n \in DOMAIN g} = {r.calls[n].index : n \in DOMAIN r.calls}
    BY <1>0, Extended
  <2>2. u = [r EXCEPT !.calls = g]
    BY <1>4 DEF Collect
  <2> HIDE DEF g, u
  <2>3. u \in Results /\ u.calls = g
    BY <2>1, <2>2 DEF Results
  <2> QED
    BY <1>4, <2>1, <2>3 DEF u, Indices
<1>5. CASE k \notin {"member", "answer", "tool", "arguments"}
  BY <1>5 DEF Collect
<1> QED
  BY <1>1, <1>2, <1>3, <1>4, <1>5

(***************************************************************************)
(* The run                                                                 *)
(***************************************************************************)
Ends == {"completed", "cut", "failed"}

\* An event that does not end the run keeps the invariant.
LEMMA GoesOn ==
    ASSUME IInv, stage # "over", NEW e,
           e.index \in Nat, e.token \in Nat, e.reasoning \in Nat, e.content \in Nat,
           e.kind \notin Ends, Fold(e), o' = o,
           e.kind \in {"answer", "tool", "arguments"} => stage = "answer",
           e.kind = "arguments" => e.index \in Opened,
           stage' \in {"panel", "answer"},
           stage' = "answer" => e.kind \in {"answer", "tool", "arguments", "synthesis"},
           said' \in Nat, pieces' \in Nat
    PROVE  IInv'
<1>1. /\ o \in Options /\ result \in Results /\ ChatGood(chat, o.compat) /\ chat.headers = Opened
      /\ (stage = "answer" => ~chat.think) /\ BlocksGood(anthropic)
      /\ e.kind \notin {"completed", "cut", "failed"}
  BY DEF IInv, Ends
<1>2. /\ chat' = ChatFold(chat, e, o) /\ anthropic' = AnthropicFold(anthropic, e, o)
      /\ result' = Collect(result, e)
  BY DEF Fold
<1>3. /\ ChatGood(chat', o.compat)
      /\ e.kind \in {"answer", "tool", "arguments", "synthesis"} => ~chat'.think
      /\ chat'.headers = IF e.kind = "tool" THEN chat.headers \cup {e.index} ELSE chat.headers
  <2>1. /\ e.kind \in {"answer", "tool", "arguments"} => ~chat.think
        /\ e.kind = "arguments" => e.index \in chat.headers
    BY <1>1
  <2> QED
    BY <1>1, <1>2, <2>1, ChatStep
<1>4. BlocksGood(anthropic')
  BY <1>1, <1>2, BlocksStep
<1>5. /\ result' \in Results
      /\ Indices(result') = IF e.kind = "tool" THEN Indices(result) \cup {e.index} ELSE Indices(result)
  BY <1>1, <1>2, CollectStep
<1>6. Opened = Indices(result) /\ Opened' = Indices(result')
  BY DEF Opened, Indices
<1>7. chat'.headers = Opened' /\ (stage' = "answer" => ~chat'.think)
  BY <1>1, <1>3, <1>5, <1>6
<1>8. ChatGood(chat', o'.compat)
  BY <1>3
<1> QED
  BY <1>1, <1>4, <1>5, <1>7, <1>8 DEF IInv

\* The event that ends the run leaves the streams ended.
LEMMA IsOver ==
    ASSUME IInv, stage # "over", NEW e, e.kind \in Ends, Fold(e), Over
    PROVE  IInv'
<1>1. o \in Options /\ ChatGood(chat, o.compat) /\ BlocksGood(anthropic) /\ said \in Nat /\ pieces \in Nat
  BY DEF IInv
<1>2. chat' = ChatFold(chat, e, o) /\ anthropic' = AnthropicFold(anthropic, e, o)
  BY DEF Fold
<1>3. ~chat'.think /\ ChatEnded(chat'.out, o.compat)
  <2>1. /\ ~ChatFinish(chat, o).think /\ ChatEnded(ChatFinish(chat, o).out, o.compat)
        /\ ~ChatFail(chat).think /\ ChatEnded(ChatFail(chat).out, o.compat)
        /\ ~ChatCut(chat).think /\ ChatEnded(ChatCut(chat).out, o.compat)
    BY <1>1, OptionsType, ChatOver
  <2>2. \/ ChatFold(chat, e, o) = ChatFinish(chat, o)
        \/ ChatFold(chat, e, o) = ChatFail(chat)
        \/ ChatFold(chat, e, o) = ChatCut(chat)
    BY DEF ChatFold, Ends
  <2> QED
    BY <1>2, <2>1, <2>2
<1>4. /\ BlocksSent(anthropic'.out, anthropic'.next, 0, anthropic'.thinking, FALSE) /\ anthropic'.open = 0
      /\ IsLast(anthropic'.out, {"message_stop", "error"})
  <2>1. e.kind \in {"completed", "cut", "failed"}
    BY DEF Ends
  <2> QED
    <3> DEFINE u == AnthropicFold(anthropic, e, o)
    <3>1. /\ BlocksSent(u.out, u.next, 0, u.thinking, FALSE) /\ u.open = 0
          /\ IsLast(u.out, {"message_stop", "error"})
      BY <1>1, <2>1, BlocksOver
    <3> QED
      BY <1>2, <3>1
<1>5. stage' = "over" /\ o' = o /\ said' = said /\ pieces' = pieces
  BY DEF Over
<1>6. ChatEnded(chat'.out, o'.compat)
  BY <1>3, <1>5
<1> QED
  BY <1>1, <1>3, <1>4, <1>5, <1>6 DEF IInv

\* An event has the fields the folds look at.
LEMMA EventFields ==
    ASSUME NEW k, NEW i \in Nat, NEW t \in Nat
    PROVE  LET e == Event(k, i, t) IN
           e.kind = k /\ e.index = i /\ e.token = t /\ e.reasoning \in Nat /\ e.content \in Nat
BY DEF Event

\* The invariant holds at first.
LEMMA InitInv == SurfacesInit => IInv
<1> SUFFICES ASSUME SurfacesInit PROVE IInv
  OBVIOUS
<1>1. o \in Options /\ stage = "start" /\ said = 0 /\ pieces = 0
  BY DEF SurfacesInit
<1>2. ChatGood(chat, o.compat) /\ chat.headers = {}
  BY ChatBegins DEF SurfacesInit
<1>3. BlocksGood(anthropic)
  BY BlocksBegin DEF SurfacesInit
<1>4. result \in Results /\ Opened = {}
  <2>1. result = Empty
    BY DEF SurfacesInit
  <2> QED
    BY <2>1 DEF Empty, Results, Opened
<1> QED
  BY <1>1, <1>2, <1>3, <1>4 DEF IInv

\* The kinds of the events that do not end the run, with the stage they come in
\* and the one that follows.
Moves(k, at, next) ==
    \/ k \in {"fanout_started", "fanout_skipped"} /\ at = "start" /\ next = "panel"
    \/ k \in {"member", "abandoned"} /\ at = "panel" /\ next = "panel"
    \/ k = "synthesis" /\ at = "panel" /\ next = "answer"
    \/ k \in {"answer", "tool", "arguments"} /\ at = "answer" /\ next = "answer"

\* A step that does not end the run is an event of the panel or of the answer,
\* which every surface folds.
IsEvent(e) ==
    /\ e.index \in Nat /\ e.token \in Nat /\ e.reasoning \in Nat /\ e.content \in Nat
    /\ Moves(e.kind, stage, stage') /\ Fold(e)
    /\ e.kind = "tool" => e.index \notin Opened
    /\ e.kind = "arguments" => e.index \in Opened
    /\ o' = o /\ said' \in Nat /\ pieces' \in Nat

\* The panel's steps are events.
LEMMA PanelEvent ==
    ASSUME IInv, FanOut \/ SkipFanOut \/ MemberDone \/ Synthesis
    PROVE  \E e : IsEvent(e)
<1>0. said \in Nat /\ pieces \in Nat /\ Members \in Nat
  BY SurfacesAssumption DEF IInv
<1>1. PICK k \in {"fanout_started", "fanout_skipped", "member", "abandoned", "synthesis"}, t \in Nat :
         Moves(k, stage, stage') /\ Fold(Event(k, 0, t))
  <2>1. CASE FanOut
    BY <2>1 DEF FanOut, Moves
  <2>2. CASE SkipFanOut
    BY <2>2 DEF SkipFanOut, Moves
  <2>3. CASE MemberDone
    <3>1. 200 + said \in Nat /\ stage = "panel" /\ stage' = "panel"
      BY <1>0, <2>3 DEF MemberDone
    <3>2. Fold(Event("member", 0, 200 + said)) \/ Fold(Event("abandoned", 0, 0))
      BY <2>3 DEF MemberDone
    <3> QED
      BY <3>1, <3>2 DEF Moves
  <2>4. CASE Synthesis
    BY <2>4 DEF Synthesis, Moves
  <2> QED
    BY <2>1, <2>2, <2>3, <2>4
<1>2. o' = o /\ said' \in Nat /\ pieces' \in Nat
  BY <1>0 DEF FanOut, SkipFanOut, MemberDone, Synthesis
<1> DEFINE e == Event(k, 0, t)
<1>3. e.kind = k /\ e.index \in Nat /\ e.token \in Nat /\ e.reasoning \in Nat /\ e.content \in Nat
  BY EventFields
<1>4. Fold(e)
  BY <1>1
<1> HIDE DEF e
<1>5. IsEvent(e)
  BY <1>1, <1>2, <1>3, <1>4 DEF IsEvent
<1> QED
  BY <1>5

\* The steps of the answer are events.
LEMMA AnswerEvent ==
    ASSUME IInv, AnswerDelta \/ ToolCallStarted \/ ToolCallDelta
    PROVE  \E e : IsEvent(e)
<1>0. Piece /\ pieces \in Nat /\ said \in Nat /\ Token \in Nat
  BY DEF AnswerDelta, ToolCallStarted, ToolCallDelta, IInv, Token
<1>1. /\ stage = "answer" /\ stage' = "answer" /\ o' = o /\ said' \in Nat /\ pieces' \in Nat
  BY <1>0 DEF Piece
<1>2. CASE AnswerDelta
  <2>1. PICK reasoning \in {0, Token}, content \in {0, Token} : Fold(Answered(reasoning, content))
    BY <1>2 DEF AnswerDelta
  <2> DEFINE e == Answered(reasoning, content)
  <2>2. reasoning \in Nat /\ content \in Nat
    BY <1>0
  <2>3. e.kind = "answer" /\ e.index \in Nat /\ e.token \in Nat /\ e.reasoning \in Nat /\ e.content \in Nat
    BY <2>2 DEF Answered, Event
  <2>4. Fold(e)
    BY <2>1
  <2> HIDE DEF e
  <2>5. IsEvent(e)
    BY <1>1, <2>3, <2>4 DEF IsEvent, Moves
  <2> QED
    BY <2>5
<1>3. CASE ToolCallStarted
  <2>1. PICK i \in Calls \ Opened : Fold(Event("tool", i, Token))
    BY <1>3 DEF ToolCallStarted
  <2> DEFINE e == Event("tool", i, Token)
  <2>2. i \in Nat
    BY SurfacesAssumption
  <2>3. /\ e.kind = "tool" /\ e.index = i
        /\ e.index \in Nat /\ e.token \in Nat /\ e.reasoning \in Nat /\ e.content \in Nat
    BY <1>0, <2>2, EventFields
  <2>4. Fold(e)
    BY <2>1
  <2> HIDE DEF e
  <2>5. IsEvent(e)
    BY <1>1, <2>3, <2>4 DEF IsEvent, Moves
  <2> QED
    BY <2>5
<1>4. CASE ToolCallDelta
  <2>1. PICK i \in Opened : Fold(Event("arguments", i, Token))
    BY <1>4 DEF ToolCallDelta
  <2> DEFINE e == Event("arguments", i, Token)
  <2>2. i \in Nat
    <3>1. chat \in ChatStreams /\ chat.headers = Opened
      BY <1>1 DEF IInv, ChatGood
    <3> QED
      BY <3>1 DEF ChatStreams
  <2>3. /\ e.kind = "arguments" /\ e.index = i
        /\ e.index \in Nat /\ e.token \in Nat /\ e.reasoning \in Nat /\ e.content \in Nat
    BY <1>0, <2>2, EventFields
  <2>4. Fold(e)
    BY <2>1
  <2> HIDE DEF e
  <2>5. IsEvent(e)
    BY <1>1, <2>1, <2>3, <2>4 DEF IsEvent, Moves
  <2> QED
    BY <2>5
<1> QED
  BY <1>2, <1>3, <1>4

\* The steps that end the run are events, too.
LEMMA EndEvent ==
    ASSUME Completed \/ PipelineFailed \/ Cut
    PROVE  \E e : e.kind \in Ends /\ stage # "over" /\ Fold(e) /\ Over
<1>1. PICK k \in Ends : stage # "over" /\ Over /\ Fold(Event(k, 0, 0))
  BY DEF Completed, PipelineFailed, Cut, Ends
<1> DEFINE e == Event(k, 0, 0)
<1>2. e.kind = k
  BY EventFields
<1>3. Fold(e)
  BY <1>1
<1> HIDE DEF e
<1> QED
  BY <1>1, <1>2, <1>3

\* Every step keeps the invariant.
LEMMA NextInv ==
    ASSUME IInv, [SurfacesNext]_surfaceVars
    PROVE  IInv'
<1>1. CASE UNCHANGED surfaceVars
  BY <1>1 DEF surfaceVars, folds, IInv, Opened
<1>2. CASE FanOut \/ SkipFanOut \/ MemberDone \/ Synthesis \/ AnswerDelta \/ ToolCallStarted \/ ToolCallDelta
  <2>1. PICK e : IsEvent(e)
    BY <1>2, PanelEvent, AnswerEvent
  <2>2. /\ stage # "over" /\ e.kind \notin Ends
        /\ e.kind \in {"answer", "tool", "arguments"} => stage = "answer"
        /\ stage' \in {"panel", "answer"}
        /\ stage' = "answer" => e.kind \in {"answer", "tool", "arguments", "synthesis"}
    BY <2>1 DEF IsEvent, Moves, Ends
  <2> QED
    BY <2>1, <2>2, GoesOn DEF IsEvent
<1>3. CASE Completed \/ PipelineFailed \/ Cut
  <2>1. PICK e : e.kind \in Ends /\ stage # "over" /\ Fold(e) /\ Over
    BY <1>3, EndEvent
  <2> QED
    BY <2>1, IsOver
<1> QED
  BY <1>1, <1>2, <1>3 DEF SurfacesNext

\* What ChatFramed and BlocksBracketed need of the streams holds throughout.
THEOREM StreamsInv == SurfacesSpec => []IInv
<1>1. SurfacesInit => IInv
  BY InitInv
<1>2. IInv /\ [SurfacesNext]_surfaceVars => IInv'
  BY NextInv
<1> QED
  BY <1>1, <1>2, PTL DEF SurfacesSpec

\* Whatever the members, the synthesizer and the client's leaving do, a Chat
\* Completions stream has its role, its think block and its calls in order, and
\* ends with one [DONE].
THEOREM ChatStreamFramed == SurfacesSpec => []ChatFramed
<1>1. IInv => ChatFramed
  <2> SUFFICES ASSUME IInv PROVE ChatFramed
    OBVIOUS
  <2>1. CASE stage # "over"
    <3>1. chat \in ChatStreams /\ ChatSent(chat.out, chat.role, chat.think, chat.headers, 0, o.compat)
      BY <2>1 DEF IInv, ChatGood
    <3>2. Count(chat.out, Len(chat.out), "role") <= 1
      BY <3>1 DEF ChatSent
    <3> QED
      BY <2>1, <3>1, <3>2 DEF ChatSent, ChatFits, ChatFramed
  <2>2. CASE stage = "over"
    <3>1. ~chat.think /\ ChatEnded(chat.out, o.compat)
      BY <2>2 DEF IInv
    <3>2. Len(chat.out) \in Nat
      BY <3>1, LenProperties DEF ChatEnded
    <3>3. Count(chat.out, Len(chat.out), "</think>") \in Nat
      BY <3>2, CountType
    <3> QED
      BY <3>1, <3>3 DEF ChatEnded, ChatFits, ChatFramed
  <2> QED
    BY <2>1, <2>2
<1> QED
  BY <1>1, StreamsInv, PTL

\* The blocks of an Anthropic stream follow one another, each is stopped before
\* the next begins, and the thinking block is signed.
THEOREM AnthropicStreamBracketed == SurfacesSpec => []BlocksBracketed
<1>1. IInv => BlocksBracketed
  <2> SUFFICES ASSUME IInv PROVE BlocksBracketed
    OBVIOUS
  <2> DEFINE f == anthropic.out
             next == anthropic.next
             open(n) == OpenAfter(f, n, next)
  <2>1. BlocksSent(f, next, anthropic.open, anthropic.thinking, FALSE)
    <3>1. CASE stage # "over"
      BY <3>1 DEF IInv, BlocksGood
    <3>2. CASE stage = "over"
      BY <3>2 DEF IInv
    <3> QED
      BY <3>1, <3>2
  <2>2. stage = "over" => anthropic.open = 0 /\ IsLast(f, {"message_stop", "error"})
    BY DEF IInv
  <2>3. ASSUME NEW n \in DOMAIN f
        PROVE  Cardinality(open(n)) <= 1
    <3>1. PICK at : open(n) = {at} \ {0}
      BY <2>1 DEF BlocksSent, BlockFits
    <3>2. {at} \ {0} = {} \/ {at} \ {0} = {at}
      OBVIOUS
    <3>3. Cardinality({}) = 0 /\ Cardinality({at}) = 1
      BY FS_EmptySet, FS_Singleton
    <3> QED
      BY <3>1, <3>2, <3>3
  <2>4. /\ Count(f, Len(f), "start") = next - 1
        /\ open(Len(f)) = IF anthropic.open = 0 THEN {} ELSE {anthropic.open}
    BY <2>1 DEF BlocksSent
  <2>5. ASSUME NEW n \in DOMAIN f
        PROVE  /\ f[n][1] \in {"text", "thinking", "signature"} => f[n][2] \in open(n)
               /\ f[n][1] = "stop" => (f[n - 1][1] = "signature" <=> f[n][2] = anthropic.thinking)
    BY <2>1 DEF BlocksSent, BlockFits
  <2>6. ASSUME NEW n \in DOMAIN f, f[n][1] = "signature"
        PROVE  n < Len(f) /\ f[n + 1] = <<"stop", f[n][2], 0>>
    <3>1. n # Len(f)
      BY <2>1, <2>6 DEF BlocksSent
    <3> QED
      BY <2>1, <2>6, <3>1 DEF BlocksSent
  <2> HIDE DEF f, next
  <2>7. \A n : open(n) = {at \in 1 .. (next - 1) :
                              /\ \E m \in 1 .. n : f[m][1] = "start" /\ f[m][2] = at
                              /\ ~\E m \in 1 .. n : f[m][1] = "stop" /\ f[m][2] = at}
    BY DEF OpenAfter
  <2> HIDE DEF open
  <2> QED
    BY <2>2, <2>3, <2>4, <2>5, <2>6, <2>7 DEF BlocksBracketed, f, next
<1> QED
  BY <1>1, StreamsInv, PTL

(***************************************************************************)
(* Induction over the naturals, for sets of them                           *)
(***************************************************************************)
\* A set of numbers that is not empty has a least one.
LEMMA LeastNumber ==
    ASSUME NEW T \in SUBSET Nat, T # {}
    PROVE  \E x \in T : \A y \in T : x <= y
<1> DEFINE R == {p \in Nat \X Nat : p[1] < p[2]}
<1>1. IsWellFoundedOn(R, Nat)
  BY NatLessThanWellFounded DEF OpToRel
<1>2. PICK x \in T : \A y \in T : ~ (<<y, x>> \in R)
  BY <1>1, WFMin
<1>3. \A y \in T : ~ (y < x)
  BY <1>2
<1> QED
  BY <1>3

\* A set that has 0 and with each number the next one has all of them.
LEMMA AllNumbers ==
    ASSUME NEW S, 0 \in S, \A n \in Nat : n \in S => n + 1 \in S
    PROVE  \A n \in Nat : n \in S
<1> SUFFICES ASSUME Nat \ S # {} PROVE FALSE
  OBVIOUS
<1>1. PICK x \in Nat \ S : \A y \in Nat \ S : x <= y
  BY LeastNumber
<1>2. x # 0 /\ x - 1 \in Nat
  BY <1>1
<1>3. x - 1 \in S
  BY <1>1, <1>2
<1> QED
  BY <1>1, <1>2, <1>3

\* Appending to the second of two sequences appends to the whole.
LEMMA ConcatAppend ==
    ASSUME NEW S, NEW f \in Seq(S), NEW g \in Seq(S), NEW x \in S
    PROVE  f \o Append(g, x) = Append(f \o g, x)
<1>1. /\ Len(f) \in Nat /\ Len(g) \in Nat
      /\ f \o g \in Seq(S) /\ Len(f \o g) = Len(f) + Len(g)
      /\ \A n \in 1..(Len(f) + Len(g)) : (f \o g)[n] = IF n <= Len(f) THEN f[n] ELSE g[n - Len(f)]
  BY ConcatProperties, LenProperties
<1>2. /\ Append(g, x) \in Seq(S) /\ Len(Append(g, x)) = Len(g) + 1
      /\ \A n \in 1..Len(g) : Append(g, x)[n] = g[n]
      /\ Append(g, x)[Len(g) + 1] = x
  BY OneMore
<1> DEFINE a == Append(g, x)
           c == f \o g
           l == f \o a
           r == Append(c, x)
<1> HIDE DEF a, c
<1>3. /\ l \in Seq(S) /\ Len(l) = Len(f) + Len(a)
      /\ \A n \in 1..(Len(f) + Len(a)) : l[n] = IF n <= Len(f) THEN f[n] ELSE a[n - Len(f)]
  BY <1>2, ConcatProperties DEF a
<1>4. /\ r \in Seq(S) /\ Len(r) = Len(c) + 1
      /\ \A n \in 1..Len(c) : r[n] = c[n]
      /\ r[Len(c) + 1] = x
  BY <1>1, OneMore DEF c
<1> HIDE DEF l, r
<1>5. Len(a) = Len(g) + 1 /\ Len(c) = Len(f) + Len(g)
  BY <1>1, <1>2 DEF a, c
<1>6. ASSUME NEW n \in 1..Len(l) PROVE l[n] = r[n]
  <2>1. CASE n <= Len(f)
    <3>1. l[n] = f[n] /\ r[n] = c[n] /\ c[n] = f[n]
      BY <1>1, <1>3, <1>4, <1>5, <2>1 DEF c
    <3> QED
      BY <3>1
  <2>2. CASE n > Len(f) /\ n <= Len(f) + Len(g)
    <3>1. l[n] = a[n - Len(f)] /\ r[n] = c[n] /\ c[n] = g[n - Len(f)] /\ n - Len(f) \in 1..Len(g)
      BY <1>1, <1>3, <1>4, <1>5, <2>2 DEF c
    <3> QED
      BY <1>2, <3>1 DEF a
  <2>3. CASE n = Len(f) + Len(g) + 1
    <3>1. l[n] = a[n - Len(f)] /\ n - Len(f) = Len(g) + 1 /\ r[n] = x
      BY <1>1, <1>3, <1>4, <1>5, <2>3
    <3> QED
      BY <1>2, <3>1 DEF a
  <2> QED
    BY <1>1, <1>3, <1>5, <2>1, <2>2, <2>3
<1>7. Len(l) = Len(r)
  BY <1>1, <1>3, <1>4, <1>5
<1>8. l = r
  BY <1>3, <1>4, <1>6, <1>7, SeqEqual
<1> QED
  BY <1>8 DEF l, r, a, c

(***************************************************************************)
(* What was sent of some kinds                                             *)
(***************************************************************************)
\* The recursion is well founded: what was sent up to a place is given by what
\* was sent before it.
LEMMA SendingDoes ==
    ASSUME NEW f, Len(f) \in Nat, NEW kinds, NEW at
    PROVE  Sending(f, kinds, at) =
             [n \in 0..Len(f) |->
                IF n = 0 THEN <<>>
                ELSE IF f[n][1] \in kinds /\ f[n][2] \in at
                     THEN Append(Sending(f, kinds, at)[n - 1], f[n])
                     ELSE Sending(f, kinds, at)[n - 1]]
<1> DEFINE Next1(s, n) == IF f[n][1] \in kinds /\ f[n][2] \in at THEN Append(s, f[n]) ELSE s
           Body(g, n) == IF n = 0 THEN <<>> ELSE Next1(g[n - 1], n)
           Upto(k) == \E g : g = [n \in 0..k |-> Body(g, n)]
           S == {k \in Nat : Upto(k)}
<1> HIDE DEF Next1
<1>1. 0 \in S
  <2>1. DEFINE g == [n \in 0..0 |-> <<>>]
  <2>2. g = [n \in 0..0 |-> Body(g, n)]
    OBVIOUS
  <2> QED
    BY <2>2
<1>2. ASSUME NEW k \in Nat, k \in S PROVE k + 1 \in S
  <2>1. PICK g : g = [n \in 0..k |-> Body(g, n)]
    BY <1>2
  <2> DEFINE h == [n \in 0..(k + 1) |-> IF n = k + 1 THEN Next1(g[k], k + 1) ELSE g[n]]
  <2>2. \A n \in 0..k : h[n] = g[n]
    OBVIOUS
  <2>3. \A n \in 0..(k + 1) : h[n] = Body(h, n)
    <3>1. ASSUME NEW n \in 0..k PROVE h[n] = Body(h, n)
      <4>1. g[n] = Body(g, n)
        BY <2>1
      <4>2. n # 0 => n - 1 \in 0..k
        OBVIOUS
      <4> HIDE DEF h
      <4> QED
        BY <2>2, <4>1, <4>2
    <3>2. h[k + 1] = Body(h, k + 1)
      <4>1. h[k + 1] = Next1(g[k], k + 1) /\ h[k] = g[k] /\ (k + 1) - 1 = k /\ k + 1 # 0
        BY <2>2
      <4> HIDE DEF h
      <4> QED
        BY <4>1
    <3> HIDE DEF h, Body
    <3> QED
      BY <3>1, <3>2
  <2>4. h = [n \in 0..(k + 1) |-> h[n]]
    OBVIOUS
  <2> HIDE DEF h, Body
  <2>5. h = [n \in 0..(k + 1) |-> Body(h, n)]
    BY <2>3, <2>4
  <2> QED
    BY <2>5
<1>3. Len(f) \in S
  <2> HIDE DEF S
  <2> QED
    BY <1>1, <1>2, AllNumbers
<1>4. \E g : g = [n \in 0..Len(f) |-> Body(g, n)]
  BY <1>3
<1>5. Sending(f, kinds, at) = CHOOSE g : g = [n \in 0..Len(f) |-> Body(g, n)]
  BY DEF Sending, Next1
<1>6. Sending(f, kinds, at) = [n \in 0..Len(f) |-> Body(Sending(f, kinds, at), n)]
  <2> HIDE DEF Body
  <2> QED
    BY <1>4, <1>5
<1> QED
  BY <1>6 DEF Next1

\* So it is nothing at first, and then goes on with each frame that counts.
LEMMA SendingStep ==
    ASSUME NEW f, Len(f) \in Nat, NEW kinds, NEW at
    PROVE  /\ Sending(f, kinds, at)[0] = <<>>
           /\ \A n \in 1..Len(f) :
                Sending(f, kinds, at)[n] =
                  IF f[n][1] \in kinds /\ f[n][2] \in at
                  THEN Append(Sending(f, kinds, at)[n - 1], f[n])
                  ELSE Sending(f, kinds, at)[n - 1]
<1> DEFINE a == Sending(f, kinds, at)
           Step(n) == IF f[n][1] \in kinds /\ f[n][2] \in at THEN Append(a[n - 1], f[n]) ELSE a[n - 1]
<1>1. a = [n \in 0..Len(f) |-> IF n = 0 THEN <<>> ELSE Step(n)]
  BY SendingDoes
<1> HIDE DEF a, Step
<1>2. a[0] = <<>>
  BY <1>1
<1>3. ASSUME NEW n \in 1..Len(f) PROVE a[n] = Step(n)
  <2>1. n \in 0..Len(f) /\ n # 0
    OBVIOUS
  <2> QED
    BY <1>1, <2>1
<1> QED
  BY <1>2, <1>3 DEF a, Step

\* Up to a place only the frames up to it count.
LEMMA SendingSame ==
    ASSUME NEW f, NEW g, Len(f) \in Nat, Len(g) \in Nat, Len(f) <= Len(g),
           \A n \in 1..Len(f) : g[n] = f[n], NEW kinds, NEW at
    PROVE  \A n \in 0..Len(f) : Sending(g, kinds, at)[n] = Sending(f, kinds, at)[n]
<1> DEFINE a == Sending(f, kinds, at)
           b == Sending(g, kinds, at)
           S == {k \in Nat : k <= Len(f) => b[k] = a[k]}
<1>1. /\ a[0] = <<>> /\ b[0] = <<>>
      /\ \A n \in 1..Len(f) :
           /\ a[n] = IF f[n][1] \in kinds /\ f[n][2] \in at THEN Append(a[n - 1], f[n]) ELSE a[n - 1]
           /\ b[n] = IF g[n][1] \in kinds /\ g[n][2] \in at THEN Append(b[n - 1], g[n]) ELSE b[n - 1]
  <2>1. \A n \in 1..Len(f) : n \in 1..Len(g)
    OBVIOUS
  <2> QED
    BY <2>1, SendingStep
<1> HIDE DEF a, b
<1>2. 0 \in S
  BY <1>1
<1>3. ASSUME NEW k \in Nat, k \in S PROVE k + 1 \in S
  <2> SUFFICES ASSUME k + 1 <= Len(f) PROVE b[k + 1] = a[k + 1]
    OBVIOUS
  <2>1. b[k] = a[k] /\ k + 1 \in 1..Len(f) /\ (k + 1) - 1 = k /\ g[k + 1] = f[k + 1]
    BY <1>3
  <2> QED
    BY <1>1, <2>1
<1>4. \A k \in Nat : k \in S
  <2> HIDE DEF S
  <2> QED
    BY <1>2, <1>3, AllNumbers
<1> QED
  BY <1>4 DEF a, b

\* Frames, whatever their kinds are.
FramesOf(K) == K \X Nat \X Nat

\* What was sent are frames.
LEMMA SentType ==
    ASSUME NEW K, NEW f \in Seq(FramesOf(K)), NEW kinds, NEW at
    PROVE  Sent(f, kinds, at) \in Seq(FramesOf(K))
<1> DEFINE a == Sending(f, kinds, at)
           S == {k \in Nat : k <= Len(f) => a[k] \in Seq(FramesOf(K))}
<1>0. Len(f) \in Nat /\ \A n \in 1..Len(f) : f[n] \in FramesOf(K)
  BY LenProperties, ElementOfSeq
<1>1. /\ a[0] = <<>>
      /\ \A n \in 1..Len(f) :
           a[n] = IF f[n][1] \in kinds /\ f[n][2] \in at THEN Append(a[n - 1], f[n]) ELSE a[n - 1]
  BY <1>0, SendingStep
<1> HIDE DEF a
<1>2. 0 \in S
  BY <1>1, EmptySeq
<1>3. ASSUME NEW k \in Nat, k \in S PROVE k + 1 \in S
  <2> SUFFICES ASSUME k + 1 <= Len(f) PROVE a[k + 1] \in Seq(FramesOf(K))
    OBVIOUS
  <2>1. a[k] \in Seq(FramesOf(K)) /\ k + 1 \in 1..Len(f) /\ (k + 1) - 1 = k
    BY <1>0, <1>3
  <2>2. Append(a[k], f[k + 1]) \in Seq(FramesOf(K))
    BY <1>0, <2>1, AppendProperties
  <2> QED
    BY <1>1, <2>1, <2>2
<1>4. \A k \in Nat : k \in S
  <2> HIDE DEF S
  <2> QED
    BY <1>2, <1>3, AllNumbers
<1> QED
  BY <1>0, <1>4 DEF a, Sent

\* A further frame is the last of its kinds, or none of them.
LEMMA SentMore ==
    ASSUME NEW K, NEW f \in Seq(FramesOf(K)), NEW x \in FramesOf(K), NEW kinds, NEW at
    PROVE  Sent(Append(f, x), kinds, at) =
             IF x[1] \in kinds /\ x[2] \in at THEN Append(Sent(f, kinds, at), x) ELSE Sent(f, kinds, at)
<1> DEFINE g == Append(f, x)
           b == Sending(g, kinds, at)
<1>1. /\ Len(f) \in Nat /\ Len(g) = Len(f) + 1
      /\ \A n \in 1..Len(f) : g[n] = f[n]
      /\ g[Len(f) + 1] = x
  BY OneMore
<1> HIDE DEF g
<1>2. b[Len(f)] = Sending(f, kinds, at)[Len(f)]
  BY <1>1, SendingSame
<1>3. b[Len(f) + 1] = IF x[1] \in kinds /\ x[2] \in at THEN Append(b[Len(f)], x) ELSE b[Len(f)]
  <2>1. Len(f) + 1 \in 1..Len(g) /\ (Len(f) + 1) - 1 = Len(f)
    BY <1>1
  <2>2. \A n \in 1..Len(g) :
           b[n] = IF g[n][1] \in kinds /\ g[n][2] \in at THEN Append(b[n - 1], g[n]) ELSE b[n - 1]
    BY <1>1, SendingStep
  <2> HIDE DEF b
  <2> QED
    BY <1>1, <2>1, <2>2
<1> QED
  BY <1>1, <1>2, <1>3 DEF Sent, g

\* Of no frame nothing is sent.
LEMMA SentNone ==
    ASSUME NEW kinds, NEW at
    PROVE  Sent(<<>>, kinds, at) = <<>>
<1>1. Len(<<>>) = 0
  BY EmptySeq
<1>2. Sending(<<>>, kinds, at)[0] = <<>>
  BY <1>1, SendingDoes
<1> QED
  BY <1>1, <1>2 DEF Sent

\* Frames of other kinds, at the end, are not seen.
LEMMA SentSilent ==
    ASSUME NEW f, NEW h, Len(f) \in Nat, Len(h) \in Nat, Len(f) <= Len(h),
           \A n \in 1..Len(f) : h[n] = f[n], NEW kinds, NEW at,
           \A n \in 1..Len(h) : n <= Len(f) \/ ~ (h[n][1] \in kinds /\ h[n][2] \in at)
    PROVE  Sent(h, kinds, at) = Sent(f, kinds, at)
<1> DEFINE b == Sending(h, kinds, at)
           S == {k \in Nat : Len(f) + k <= Len(h) => b[Len(f) + k] = b[Len(f)]}
<1>1. b[Len(f)] = Sending(f, kinds, at)[Len(f)]
  <2>1. Len(f) \in 0..Len(f)
    OBVIOUS
  <2> QED
    BY <2>1, SendingSame
<1>2. \A n \in 1..Len(h) : b[n] = IF h[n][1] \in kinds /\ h[n][2] \in at THEN Append(b[n - 1], h[n]) ELSE b[n - 1]
  BY SendingStep
<1> HIDE DEF b
<1>3. 0 \in S
  OBVIOUS
<1>4. ASSUME NEW k \in Nat, k \in S PROVE k + 1 \in S
  <2> SUFFICES ASSUME Len(f) + (k + 1) <= Len(h) PROVE b[Len(f) + (k + 1)] = b[Len(f)]
    OBVIOUS
  <2>1. b[Len(f) + k] = b[Len(f)]
    BY <1>4
  <2>2. /\ Len(f) + (k + 1) \in 1..Len(h) /\ (Len(f) + (k + 1)) - 1 = Len(f) + k
        /\ ~ (h[Len(f) + (k + 1)][1] \in kinds /\ h[Len(f) + (k + 1)][2] \in at)
    OBVIOUS
  <2> QED
    BY <1>2, <2>1, <2>2
<1>5. Len(h) - Len(f) \in S
  <2>1. Len(h) - Len(f) \in Nat
    OBVIOUS
  <2> HIDE DEF S
  <2> QED
    BY <1>3, <1>4, <2>1, AllNumbers
<1>6. b[Len(h)] = b[Len(f)]
  <2>1. Len(f) + (Len(h) - Len(f)) = Len(h)
    OBVIOUS
  <2> QED
    BY <1>5, <2>1
<1> QED
  BY <1>1, <1>6 DEF b, Sent

\* Frames of other kinds say nothing.
LEMMA TokensSilent ==
    ASSUME NEW f, NEW h, Len(f) \in Nat, Len(h) \in Nat, Len(f) <= Len(h),
           \A n \in 1..Len(f) : h[n] = f[n], NEW kinds, NEW at,
           \A n \in 1..Len(h) : n <= Len(f) \/ ~ (h[n][1] \in kinds /\ h[n][2] \in at)
    PROVE  Tokens(h, kinds, at) = Tokens(f, kinds, at)
<1>1. Sent(h, kinds, at) = Sent(f, kinds, at)
  BY SentSilent
<1> QED
  BY <1>1 DEF Tokens

\* What was said goes on with what a further frame says.
LEMMA TokensMore ==
    ASSUME NEW K, NEW f \in Seq(FramesOf(K)), NEW x \in FramesOf(K), NEW kinds, NEW at
    PROVE  /\ Tokens(f, kinds, at) \in Seq(Nat)
           /\ Tokens(Append(f, x), kinds, at) =
                IF x[1] \in kinds /\ x[2] \in at THEN Append(Tokens(f, kinds, at), x[3]) ELSE Tokens(f, kinds, at)
<1> DEFINE s == Sent(f, kinds, at)
           t(u) == [n \in DOMAIN u |-> u[n][3]]
<1>1. s \in Seq(FramesOf(K))
  BY SentType
<1>2. /\ Append(s, x) \in Seq(FramesOf(K)) /\ Len(s) \in Nat /\ Len(Append(s, x)) = Len(s) + 1
      /\ DOMAIN s = 1..Len(s) /\ DOMAIN Append(s, x) = 1..Len(s) + 1
      /\ \A n \in 1..Len(s) : Append(s, x)[n] = s[n]
      /\ Append(s, x)[Len(s) + 1] = x
  BY <1>1, OneMore
<1>3. \A n \in 1..Len(s) : s[n] \in FramesOf(K)
  BY <1>1, ElementOfSeq
<1>4. Tokens(f, kinds, at) = t(s) /\ Tokens(Append(f, x), kinds, at) = t(Sent(Append(f, x), kinds, at))
  BY DEF Tokens
<1>5. Sent(Append(f, x), kinds, at) = IF x[1] \in kinds /\ x[2] \in at THEN Append(s, x) ELSE s
  BY SentMore
<1> HIDE DEF s
<1>6. \A n \in 1..Len(s) : s[n][3] \in Nat
  BY <1>3 DEF FramesOf
<1>7. t(s) \in [1..Len(s) -> Nat] /\ t(s) \in Seq(Nat) /\ Len(t(s)) = Len(s)
  BY <1>2, <1>6, SeqDef, LenProperties, SMTT(20)
<1>8. x[3] \in Nat
  BY DEF FramesOf
<1>9. t(Append(s, x)) = Append(t(s), x[3])
  <2> DEFINE v == t(s)
  <2>1. /\ Append(v, x[3]) \in Seq(Nat) /\ DOMAIN Append(v, x[3]) = 1..Len(s) + 1
        /\ \A n \in 1..Len(s) : Append(v, x[3])[n] = v[n]
        /\ Append(v, x[3])[Len(s) + 1] = x[3]
    BY <1>7, <1>8, OneMore
  <2>2. \A n \in 1..Len(s) : v[n] = s[n][3]
    BY <1>2
  <2> DEFINE w == t(Append(s, x))
  <2>3. w = [n \in 1..Len(s) + 1 |-> Append(s, x)[n][3]]
    BY <1>2
  <2>4. \A n \in 1..Len(s) + 1 : w[n] = Append(v, x[3])[n]
    <3> HIDE DEF v
    <3>1. \A n \in 1..Len(s) + 1 : w[n] = Append(s, x)[n][3]
      BY <2>3
    <3> HIDE DEF w
    <3> QED
      BY <1>2, <2>1, <2>2, <3>1
  <2>5. Append(v, x[3]) = [n \in 1..Len(s) + 1 |-> Append(v, x[3])[n]]
    BY <2>1, LenProperties
  <2> HIDE DEF v
  <2>6. w = [n \in 1..Len(s) + 1 |-> w[n]]
    BY <2>3
  <2> HIDE DEF w
  <2> QED
    BY <2>4, <2>5, <2>6 DEF v, w
<1> HIDE DEF t
<1> QED
  BY <1>4, <1>5, <1>7, <1>9

\* Of no frame nothing is said.
LEMMA TokensNone ==
    ASSUME NEW kinds, NEW at
    PROVE  Tokens(<<>>, kinds, at) = <<>>
<1>1. Sent(<<>>, kinds, at) = <<>>
  BY SentNone
<1> QED
  BY <1>1 DEF Tokens

\* Nothing was said by frames of other kinds, or with other indices.
LEMMA TokensNever ==
    ASSUME NEW f, Len(f) \in Nat, NEW kinds, NEW at,
           \A n \in 1..Len(f) : ~ (f[n][1] \in kinds /\ f[n][2] \in at)
    PROVE  Tokens(f, kinds, at) = <<>>
<1> DEFINE e == <<>>
<1>1. Len(e) = 0
  BY EmptySeq
<1> HIDE DEF e
<1>2. Len(e) \in Nat /\ Len(e) <= Len(f)
  BY <1>1
<1>3. \A n \in 1..Len(e) : f[n] = e[n]
  BY <1>1
<1>4. \A n \in 1..Len(f) : n <= Len(e) \/ ~ (f[n][1] \in kinds /\ f[n][2] \in at)
  OBVIOUS
<1>5. Sent(f, kinds, at) = Sent(e, kinds, at)
  BY <1>2, <1>3, <1>4, SentSilent
<1>6. Sent(f, kinds, at) = <<>>
  BY <1>5, SentNone DEF e
<1> QED
  BY <1>6 DEF Tokens

(***************************************************************************)
(* What items of a type said                                               *)
(***************************************************************************)
\* What the items said up to a place is given by what they said before it.
LEMMA SayingStep ==
    ASSUME NEW f, Len(f) \in Nat, NEW type
    PROVE  /\ Saying(f, type)[0] = <<>>
           /\ \A n \in 1..Len(f) :
                Saying(f, type)[n] =
                  IF f[n].type = type THEN Saying(f, type)[n - 1] \o f[n].body ELSE Saying(f, type)[n - 1]
<1> DEFINE Next1(s, n) == IF f[n].type = type THEN s \o f[n].body ELSE s
           Body(g, n) == IF n = 0 THEN <<>> ELSE Next1(g[n - 1], n)
           Upto(k) == \E g : g = [n \in 0..k |-> Body(g, n)]
           S == {k \in Nat : Upto(k)}
           a == Saying(f, type)
<1> HIDE DEF Next1
<1>1. 0 \in S
  <2>1. DEFINE g == [n \in 0..0 |-> <<>>]
  <2>2. g = [n \in 0..0 |-> Body(g, n)]
    OBVIOUS
  <2> QED
    BY <2>2
<1>2. ASSUME NEW k \in Nat, k \in S PROVE k + 1 \in S
  <2>1. PICK g : g = [n \in 0..k |-> Body(g, n)]
    BY <1>2
  <2> DEFINE h == [n \in 0..(k + 1) |-> IF n = k + 1 THEN Next1(g[k], k + 1) ELSE g[n]]
  <2>2. \A n \in 0..k : h[n] = g[n]
    OBVIOUS
  <2>3. \A n \in 0..(k + 1) : h[n] = Body(h, n)
    <3>1. ASSUME NEW n \in 0..k PROVE h[n] = Body(h, n)
      <4>1. g[n] = Body(g, n)
        BY <2>1
      <4>2. n # 0 => n - 1 \in 0..k
        OBVIOUS
      <4> HIDE DEF h
      <4> QED
        BY <2>2, <4>1, <4>2
    <3>2. h[k + 1] = Body(h, k + 1)
      <4>1. h[k + 1] = Next1(g[k], k + 1) /\ h[k] = g[k] /\ (k + 1) - 1 = k /\ k + 1 # 0
        BY <2>2
      <4> HIDE DEF h
      <4> QED
        BY <4>1
    <3> HIDE DEF h, Body
    <3> QED
      BY <3>1, <3>2
  <2>4. h = [n \in 0..(k + 1) |-> h[n]]
    OBVIOUS
  <2> HIDE DEF h, Body
  <2>5. h = [n \in 0..(k + 1) |-> Body(h, n)]
    BY <2>3, <2>4
  <2> QED
    BY <2>5
<1>3. Len(f) \in S
  <2> HIDE DEF S
  <2> QED
    BY <1>1, <1>2, AllNumbers
<1>4. \E g : g = [n \in 0..Len(f) |-> Body(g, n)]
  BY <1>3
<1>5. a = CHOOSE g : g = [n \in 0..Len(f) |-> Body(g, n)]
  BY DEF Saying, Next1
<1>6. a = [n \in 0..Len(f) |-> Body(a, n)]
  <2> HIDE DEF Body, a
  <2> QED
    BY <1>4, <1>5
<1> HIDE DEF a
<1>7. a[0] = <<>>
  BY <1>6
<1>8. ASSUME NEW n \in 1..Len(f) PROVE a[n] = Next1(a[n - 1], n)
  <2>1. n \in 0..Len(f) /\ n # 0
    OBVIOUS
  <2>2. a[n] = Body(a, n)
    <3> HIDE DEF Body
    <3> QED
      BY <1>6, <2>1
  <2> QED
    BY <2>1, <2>2
<1> QED
  BY <1>7, <1>8 DEF a, Next1

\* Up to a place only the items up to it count.
LEMMA SayingSame ==
    ASSUME NEW f, NEW g, Len(f) \in Nat, Len(g) \in Nat, Len(f) <= Len(g),
           \A n \in 1..Len(f) : g[n] = f[n], NEW type
    PROVE  Saying(g, type)[Len(f)] = Saying(f, type)[Len(f)]
<1> DEFINE a == Saying(f, type)
           b == Saying(g, type)
           S == {k \in Nat : k <= Len(f) => b[k] = a[k]}
<1>1. /\ a[0] = <<>> /\ b[0] = <<>>
      /\ \A n \in 1..Len(f) :
           /\ a[n] = IF f[n].type = type THEN a[n - 1] \o f[n].body ELSE a[n - 1]
           /\ b[n] = IF g[n].type = type THEN b[n - 1] \o g[n].body ELSE b[n - 1]
  <2>1. \A n \in 1..Len(f) : n \in 1..Len(g)
    OBVIOUS
  <2> QED
    BY <2>1, SayingStep
<1> HIDE DEF a, b
<1>2. 0 \in S
  BY <1>1
<1>3. ASSUME NEW k \in Nat, k \in S PROVE k + 1 \in S
  <2> SUFFICES ASSUME k + 1 <= Len(f) PROVE b[k + 1] = a[k + 1]
    OBVIOUS
  <2>1. b[k] = a[k] /\ k + 1 \in 1..Len(f) /\ (k + 1) - 1 = k /\ g[k + 1] = f[k + 1]
    BY <1>3
  <2> QED
    BY <1>1, <2>1
<1>4. \A k \in Nat : k \in S
  <2> HIDE DEF S
  <2> QED
    BY <1>2, <1>3, AllNumbers
<1> QED
  BY <1>4 DEF a, b

\* What items said are tokens.
LEMMA SaidType ==
    ASSUME NEW S, \A i \in S : i.body \in Seq(Nat), NEW f \in Seq(S), NEW type
    PROVE  Said(f, type) \in Seq(Nat)
<1> DEFINE a == Saying(f, type)
           T == {k \in Nat : k <= Len(f) => a[k] \in Seq(Nat)}
<1>0. Len(f) \in Nat /\ \A n \in 1..Len(f) : f[n] \in S
  BY LenProperties, ElementOfSeq
<1>1. /\ a[0] = <<>>
      /\ \A n \in 1..Len(f) : a[n] = IF f[n].type = type THEN a[n - 1] \o f[n].body ELSE a[n - 1]
  BY <1>0, SayingStep
<1> HIDE DEF a
<1>2. 0 \in T
  BY <1>1, EmptySeq
<1>3. ASSUME NEW k \in Nat, k \in T PROVE k + 1 \in T
  <2> SUFFICES ASSUME k + 1 <= Len(f) PROVE a[k + 1] \in Seq(Nat)
    OBVIOUS
  <2>1. a[k] \in Seq(Nat) /\ k + 1 \in 1..Len(f) /\ (k + 1) - 1 = k
    BY <1>0, <1>3
  <2>2. f[k + 1].body \in Seq(Nat)
    BY <1>0, <2>1
  <2>3. a[k] \o f[k + 1].body \in Seq(Nat)
    BY <2>1, <2>2, ConcatProperties
  <2> QED
    BY <1>1, <2>1, <2>3
<1>4. \A k \in Nat : k \in T
  <2> HIDE DEF T
  <2> QED
    BY <1>2, <1>3, AllNumbers
<1> QED
  BY <1>0, <1>4 DEF a, Said

\* A further item of the type says its body after the others.
LEMMA SaidMore ==
    ASSUME NEW S, NEW f \in Seq(S), NEW x \in S, NEW type
    PROVE  Said(Append(f, x), type) = IF x.type = type THEN Said(f, type) \o x.body ELSE Said(f, type)
<1> DEFINE g == Append(f, x)
           b == Saying(g, type)
<1>1. /\ Len(f) \in Nat /\ Len(g) = Len(f) + 1
      /\ \A n \in 1..Len(f) : g[n] = f[n]
      /\ g[Len(f) + 1] = x
  BY OneMore
<1> HIDE DEF g
<1>2. b[Len(f)] = Saying(f, type)[Len(f)]
  BY <1>1, SayingSame
<1>3. b[Len(f) + 1] = IF x.type = type THEN b[Len(f)] \o x.body ELSE b[Len(f)]
  <2>1. Len(f) + 1 \in 1..Len(g) /\ (Len(f) + 1) - 1 = Len(f)
    BY <1>1
  <2>2. \A n \in 1..Len(g) : b[n] = IF g[n].type = type THEN b[n - 1] \o g[n].body ELSE b[n - 1]
    BY <1>1, SayingStep
  <2> HIDE DEF b
  <2> QED
    BY <1>1, <2>1, <2>2
<1> QED
  BY <1>1, <1>2, <1>3 DEF Said, g

\* Items of other types are not heard.
LEMMA SaidSilent ==
    ASSUME NEW S, NEW f \in Seq(S), NEW g \in Seq(S), NEW type,
           \A n \in 1..Len(g) : g[n].type # type
    PROVE  Said(f \o g, type) = Said(f, type)
<1> DEFINE h == f \o g
           b == Saying(h, type)
           T == {k \in Nat : k <= Len(g) => b[Len(f) + k] = b[Len(f)]}
<1>1. /\ Len(f) \in Nat /\ Len(g) \in Nat /\ Len(h) = Len(f) + Len(g)
      /\ \A n \in 1..Len(f) : h[n] = f[n]
      /\ \A n \in 1..Len(g) : h[Len(f) + n] = g[n]
  <2>1. Len(f) \in Nat /\ Len(g) \in Nat
    BY LenProperties
  <2>2. Len(h) = Len(f) + Len(g) /\ \A n \in 1..(Len(f) + Len(g)) : h[n] = IF n <= Len(f) THEN f[n] ELSE g[n - Len(f)]
    BY ConcatProperties
  <2> HIDE DEF h
  <2> QED
    BY <2>1, <2>2
<1> HIDE DEF h
<1>2. b[Len(f)] = Saying(f, type)[Len(f)]
  <2>1. Len(f) \in Nat /\ Len(h) \in Nat /\ Len(f) <= Len(h)
    BY <1>1
  <2>2. \A n \in 1..Len(f) : h[n] = f[n]
    BY <1>1
  <2>3. Saying(h, type)[Len(f)] = Saying(f, type)[Len(f)]
    BY <2>1, <2>2, SayingSame
  <2> QED
    BY <2>3
<1>3. \A n \in 1..Len(h) : b[n] = IF h[n].type = type THEN b[n - 1] \o h[n].body ELSE b[n - 1]
  <2>1. Len(h) \in Nat
    BY <1>1
  <2> QED
    BY <2>1, SayingStep
<1> HIDE DEF b
<1>4. 0 \in T
  BY <1>1
<1>5. ASSUME NEW k \in Nat, k \in T PROVE k + 1 \in T
  <2> SUFFICES ASSUME k + 1 <= Len(g) PROVE b[Len(f) + (k + 1)] = b[Len(f)]
    OBVIOUS
  <2>1. b[Len(f) + k] = b[Len(f)]
    BY <1>1, <1>5
  <2>2. /\ Len(f) + (k + 1) \in 1..Len(h) /\ (Len(f) + (k + 1)) - 1 = Len(f) + k
        /\ h[Len(f) + (k + 1)] = g[k + 1] /\ k + 1 \in 1..Len(g)
    BY <1>1
  <2> QED
    BY <1>3, <2>1, <2>2
<1>6. Len(g) \in T
  <2> HIDE DEF T
  <2> QED
    BY <1>1, <1>4, <1>5, AllNumbers
<1> QED
  BY <1>1, <1>2, <1>6 DEF b, h, Said

\* No item says nothing.
LEMMA SaidNone ==
    ASSUME NEW type
    PROVE  Said(<<>>, type) = <<>>
<1>1. Len(<<>>) = 0
  BY EmptySeq
<1>2. Saying(<<>>, type)[0] = <<>>
  BY <1>1, SayingStep
<1> QED
  BY <1>1, <1>2 DEF Said

(***************************************************************************)
(* One item of a Responses stream                                          *)
(***************************************************************************)
\* What a further frame does to the stream, by position, and to what an item said.
LEMMA ItemFrame ==
    ASSUME NEW f \in Seq(ItemFrames), NEW x \in ItemFrames, NEW at
    PROVE  /\ Append(f, x) \in Seq(ItemFrames)
           /\ Len(f) \in Nat /\ DOMAIN f = 1..Len(f) /\ DOMAIN Append(f, x) = 1..(Len(f) + 1)
           /\ Len(Append(f, x)) = Len(f) + 1
           /\ \A n \in 1..Len(f) : Append(f, x)[n] = f[n]
           /\ Append(f, x)[Len(f) + 1] = x
           /\ Tokens(f, {"delta"}, {at}) \in Seq(Nat)
           /\ Tokens(Append(f, x), {"delta"}, {at}) =
                IF Is(x, "delta", at) THEN Append(Tokens(f, {"delta"}, {at}), x[3])
                ELSE Tokens(f, {"delta"}, {at})
<1>1. f \in Seq(FramesOf(ItemKinds)) /\ x \in FramesOf(ItemKinds)
  BY DEF FramesOf, ItemFrames
<1>2. x[1] \in {"delta"} /\ x[2] \in {at} <=> Is(x, "delta", at)
  BY DEF Is
<1>3. /\ Tokens(f, {"delta"}, {at}) \in Seq(Nat)
      /\ Tokens(Append(f, x), {"delta"}, {at}) =
           IF x[1] \in {"delta"} /\ x[2] \in {at} THEN Append(Tokens(f, {"delta"}, {at}), x[3])
           ELSE Tokens(f, {"delta"}, {at})
  BY <1>1, TokensMore
<1>4. /\ Append(f, x) \in Seq(ItemFrames)
      /\ Len(f) \in Nat /\ DOMAIN f = 1..Len(f) /\ DOMAIN Append(f, x) = 1..(Len(f) + 1)
      /\ Len(Append(f, x)) = Len(f) + 1
      /\ \A n \in 1..Len(f) : Append(f, x)[n] = f[n]
      /\ Append(f, x)[Len(f) + 1] = x
  BY OneMore
<1> QED
  BY <1>2, <1>3, <1>4

\* A frame of another index, or of no item, leaves an item as it was sent.
LEMMA ItemKept ==
    ASSUME NEW f \in Seq(ItemFrames), NEW x \in ItemFrames, NEW at, NEW body, NEW closed \in BOOLEAN,
           ItemSent(f, at, body, closed),
           x[2] # at \/ x[1] \notin {"added", "delta", "done"}
    PROVE  ItemSent(Append(f, x), at, body, closed)
<1> DEFINE g == Append(f, x)
<1>1. /\ Len(f) \in Nat /\ DOMAIN f = 1..Len(f) /\ DOMAIN g = 1..(Len(f) + 1)
      /\ \A n \in 1..Len(f) : g[n] = f[n]
      /\ g[Len(f) + 1] = x
      /\ ~Is(x, "added", at) /\ ~Is(x, "delta", at) /\ ~Is(x, "done", at)
      /\ Tokens(g, {"delta"}, {at}) = Tokens(f, {"delta"}, {at})
  <2>1. ~Is(x, "added", at) /\ ~Is(x, "delta", at) /\ ~Is(x, "done", at)
    BY DEF Is
  <2> QED
    BY <2>1, ItemFrame
<1> HIDE DEF g
<1>2. \A n \in DOMAIN g : n \in DOMAIN f \/ n = Len(f) + 1
  BY <1>1
<1>3. PICK a \in DOMAIN f : \A n \in DOMAIN f :
        (Is(f[n], "added", at) <=> n = a) /\ (Is(f[n], "delta", at) => a < n)
  BY DEF ItemSent
<1>4. \A n \in DOMAIN g : (Is(g[n], "added", at) <=> n = a) /\ (Is(g[n], "delta", at) => a < n)
  BY <1>1, <1>2, <1>3
<1>5. ~closed => \A n \in DOMAIN g : ~Is(g[n], "done", at)
  BY <1>1, <1>2 DEF ItemSent
<1>6. ASSUME closed
      PROVE  \E z \in DOMAIN g : \A n \in DOMAIN g :
               (Is(g[n], "done", at) <=> n = z) /\ (Is(g[n], "delta", at) => n < z)
  <2>1. PICK z \in DOMAIN f : \A n \in DOMAIN f :
          (Is(f[n], "done", at) <=> n = z) /\ (Is(f[n], "delta", at) => n < z)
    BY <1>6 DEF ItemSent
  <2>2. z \in DOMAIN g /\ \A n \in DOMAIN g : (Is(g[n], "done", at) <=> n = z) /\ (Is(g[n], "delta", at) => n < z)
    BY <1>1, <1>2, <2>1
  <2> QED
    BY <2>2
<1>7. body = Tokens(g, {"delta"}, {at}) /\ a \in DOMAIN g
  BY <1>1, <1>3 DEF ItemSent
<1> QED
  BY <1>4, <1>5, <1>6, <1>7 DEF ItemSent, g

\* A delta is the next token of the item it is of.
LEMMA ItemGrows ==
    ASSUME NEW f \in Seq(ItemFrames), NEW at \in Nat, NEW token \in Nat, NEW body,
           ItemSent(f, at, body, FALSE)
    PROVE  ItemSent(Append(f, <<"delta", at, token>>), at, Append(body, token), FALSE)
<1> DEFINE x == <<"delta", at, token>>
           g == Append(f, x)
<1>0. x \in ItemFrames /\ x[3] = token /\ ~Is(x, "added", at) /\ Is(x, "delta", at) /\ ~Is(x, "done", at)
  BY DEF ItemFrames, ItemKinds, Is
<1> HIDE DEF x
<1>1. /\ Len(f) \in Nat /\ DOMAIN f = 1..Len(f) /\ DOMAIN g = 1..(Len(f) + 1)
      /\ \A n \in 1..Len(f) : g[n] = f[n]
      /\ g[Len(f) + 1] = x
      /\ Tokens(g, {"delta"}, {at}) = Append(Tokens(f, {"delta"}, {at}), token)
  BY <1>0, ItemFrame
<1> HIDE DEF g
<1>2. \A n \in DOMAIN g : n \in DOMAIN f \/ n = Len(f) + 1
  BY <1>1
<1>3. PICK a \in DOMAIN f : \A n \in DOMAIN f :
        (Is(f[n], "added", at) <=> n = a) /\ (Is(f[n], "delta", at) => a < n)
  BY DEF ItemSent
<1>4. \A n \in DOMAIN g : (Is(g[n], "added", at) <=> n = a) /\ (Is(g[n], "delta", at) => a < n)
  BY <1>0, <1>1, <1>2, <1>3
<1>5. \A n \in DOMAIN g : ~Is(g[n], "done", at)
  BY <1>0, <1>1, <1>2 DEF ItemSent
<1>6. Append(body, token) = Tokens(g, {"delta"}, {at}) /\ a \in DOMAIN g
  <2>1. body = Tokens(f, {"delta"}, {at})
    BY DEF ItemSent
  <2>2. Tokens(g, {"delta"}, {at}) = Append(Tokens(f, {"delta"}, {at}), token)
    BY <1>1
  <2>3. Tokens(g, {"delta"}, {at}) = Append(body, token)
    BY <2>1, <2>2, Zenon
  <2>4. a \in DOMAIN g
    BY <1>1, <1>3
  <2> QED
    BY <2>3, <2>4, Zenon
<1> QED
  BY <1>4, <1>5, <1>6 DEF ItemSent, g, x

\* An open item is closed by its frame, after all of its deltas.
LEMMA ItemCloses ==
    ASSUME NEW f \in Seq(ItemFrames), NEW at \in Nat, NEW body, ItemSent(f, at, body, FALSE)
    PROVE  ItemSent(Append(f, <<"done", at, 0>>), at, body, TRUE)
<1> DEFINE x == <<"done", at, 0>>
           g == Append(f, x)
<1>0. x \in ItemFrames /\ ~Is(x, "added", at) /\ ~Is(x, "delta", at) /\ Is(x, "done", at)
  BY DEF ItemFrames, ItemKinds, Is
<1> HIDE DEF x
<1>1. /\ Len(f) \in Nat /\ DOMAIN f = 1..Len(f) /\ DOMAIN g = 1..(Len(f) + 1)
      /\ \A n \in 1..Len(f) : g[n] = f[n]
      /\ g[Len(f) + 1] = x
      /\ Tokens(g, {"delta"}, {at}) = Tokens(f, {"delta"}, {at})
  BY <1>0, ItemFrame
<1> HIDE DEF g
<1>2. \A n \in DOMAIN g : n \in DOMAIN f \/ n = Len(f) + 1
  BY <1>1
<1>3. PICK a \in DOMAIN f : \A n \in DOMAIN f :
        (Is(f[n], "added", at) <=> n = a) /\ (Is(f[n], "delta", at) => a < n)
  BY DEF ItemSent
<1>4. \A n \in DOMAIN g : (Is(g[n], "added", at) <=> n = a) /\ (Is(g[n], "delta", at) => a < n)
  BY <1>0, <1>1, <1>2, <1>3
<1>5. \A n \in DOMAIN f : ~Is(f[n], "done", at)
  BY DEF ItemSent
<1>6. \A n \in DOMAIN g : (Is(g[n], "done", at) <=> n = Len(f) + 1) /\ (Is(g[n], "delta", at) => n < Len(f) + 1)
  BY <1>0, <1>1, <1>2, <1>5
<1>7. body = Tokens(g, {"delta"}, {at}) /\ a \in DOMAIN g /\ Len(f) + 1 \in DOMAIN g
  BY <1>1, <1>3 DEF ItemSent
<1> QED
  BY <1>4, <1>6, <1>7 DEF ItemSent, g, x

\* An item begins when it is announced, with no token.
LEMMA ItemBegins ==
    ASSUME NEW f \in Seq(ItemFrames), NEW at \in Nat, NEW token \in Nat,
           \A n \in DOMAIN f : ~ (Is(f[n], "added", at) \/ Is(f[n], "delta", at) \/ Is(f[n], "done", at))
    PROVE  ItemSent(Append(f, <<"added", at, token>>), at, <<>>, FALSE)
<1> DEFINE x == <<"added", at, token>>
           g == Append(f, x)
<1>0. x \in ItemFrames /\ Is(x, "added", at) /\ ~Is(x, "delta", at) /\ ~Is(x, "done", at)
  BY DEF ItemFrames, ItemKinds, Is
<1> HIDE DEF x
<1>1. /\ Len(f) \in Nat /\ DOMAIN f = 1..Len(f) /\ DOMAIN g = 1..(Len(f) + 1)
      /\ \A n \in 1..Len(f) : g[n] = f[n]
      /\ g[Len(f) + 1] = x
      /\ Tokens(g, {"delta"}, {at}) = Tokens(f, {"delta"}, {at})
  BY <1>0, ItemFrame
<1>2. Tokens(f, {"delta"}, {at}) = <<>>
  <2> DEFINE kinds == {"delta"}
             ats == {at}
  <2>1. \A n \in 1..Len(f) : ~ (f[n][1] \in kinds /\ f[n][2] \in ats)
    BY <1>1 DEF Is
  <2> HIDE DEF kinds, ats
  <2>2. Tokens(f, kinds, ats) = <<>>
    BY <1>1, <2>1, TokensNever
  <2> QED
    BY <2>2 DEF kinds, ats
<1> HIDE DEF g
<1>3. \A n \in DOMAIN g : n \in DOMAIN f \/ n = Len(f) + 1
  BY <1>1
<1>4. \A n \in DOMAIN g :
        (Is(g[n], "added", at) <=> n = Len(f) + 1) /\ (Is(g[n], "delta", at) => Len(f) + 1 < n)
  BY <1>0, <1>1, <1>3
<1>5. \A n \in DOMAIN g : ~Is(g[n], "done", at)
  BY <1>0, <1>1, <1>3
<1>6. Len(f) + 1 \in DOMAIN g /\ Tokens(g, {"delta"}, {at}) = <<>>
  BY <1>1, <1>2
<1> QED
  BY <1>4, <1>5, <1>6 DEF ItemSent, g, x

(***************************************************************************)
(* All items of a stream                                                   *)
(***************************************************************************)
\* An item has fields of their types.
LEMMA ItemFields ==
    /\ \A i \in ItemRecords :
          /\ i.at \in Nat /\ i.index \in Nat /\ i.body \in Seq(Nat)
          /\ i.type \in {"none", "reasoning", "message", "function_call"}
    /\ NoItem \in ItemRecords /\ NoItem.at = 0 /\ NoItem.body = <<>>
<1>1. \A i \in ItemRecords : i.at \in Nat /\ i.index \in Nat /\ i.body \in Seq(Nat)
          /\ i.type \in {"none", "reasoning", "message", "function_call"}
  BY DEF ItemRecords
<1>2. NoItem \in ItemRecords /\ NoItem.at = 0 /\ NoItem.body = <<>>
  BY EmptySeq DEF NoItem, ItemRecords
<1> QED
  BY <1>1, <1>2

\* A token changes the body of an item only.
LEMMA ItemGrown ==
    ASSUME NEW i \in ItemRecords, NEW token \in Nat
    PROVE  /\ [i EXCEPT !.body = Append(@, token)] \in ItemRecords
           /\ [i EXCEPT !.body = Append(@, token)].at = i.at
           /\ [i EXCEPT !.body = Append(@, token)].index = i.index
           /\ [i EXCEPT !.body = Append(@, token)].type = i.type
           /\ [i EXCEPT !.body = Append(@, token)].body = Append(i.body, token)
<1> DEFINE b == Append(i.body, token)
<1>1. b \in Seq(Nat)
  BY ItemFields, AppendProperties
<1>2. [i EXCEPT !.body = Append(@, token)] = [i EXCEPT !.body = b]
  OBVIOUS
<1> HIDE DEF b
<1>3. /\ [i EXCEPT !.body = b] \in ItemRecords
      /\ [i EXCEPT !.body = b].at = i.at
      /\ [i EXCEPT !.body = b].index = i.index
      /\ [i EXCEPT !.body = b].type = i.type
      /\ [i EXCEPT !.body = b].body = b
  BY <1>1 DEF ItemRecords
<1> QED
  BY <1>2, <1>3 DEF b

\* A new item has said nothing.
LEMMA ItemNew ==
    ASSUME NEW at \in Nat, NEW index \in Nat, NEW type \in {"none", "reasoning", "message", "function_call"}
    PROVE  /\ Item(at, type, index) \in ItemRecords
           /\ Item(at, type, index).at = at /\ Item(at, type, index).index = index
           /\ Item(at, type, index).type = type /\ Item(at, type, index).body = <<>>
<1>1. <<>> \in Seq(Nat)
  BY EmptySeq
<1> QED
  BY <1>1 DEF Item, ItemRecords

\* A new item takes the next output index.
LEMMA ItemsAdded ==
    ASSUME NEW f, NEW next, NEW open, NEW closed, ItemsSent(f, next, open, closed),
           NEW token \in Nat, NEW index \in Nat, NEW type \in {"reasoning", "message", "function_call"}
    PROVE  ItemsSent(Append(f, <<"added", next, token>>), next + 1, open \cup {Item(next, type, index)}, closed)
<1> DEFINE x == <<"added", next, token>>
           g == Append(f, x)
           new == Item(next, type, index)
<1>0. /\ f \in Seq(ItemFrames) /\ next \in Nat \ {0}
      /\ open \subseteq ItemRecords /\ closed \subseteq ItemRecords
      /\ \A n \in DOMAIN f :
            /\ f[n][1] \notin {"completed", "failed"}
            /\ f[n][1] \in {"added", "delta", "done"} => f[n][2] \in 1..(next - 1)
      /\ \A i \in open : ItemSent(f, i.at, i.body, FALSE)
      /\ \A i \in closed : ItemSent(f, i.at, i.body, TRUE)
      /\ {i.at : i \in open \cup closed} = 1..(next - 1)
      /\ \A i, j \in open \cup closed : i.at = j.at => i = j
  BY DEF ItemsSent
<1>1. new \in ItemRecords /\ new.at = next /\ new.body = <<>>
  BY <1>0, ItemNew
<1>2. x \in ItemFrames /\ x[1] = "added" /\ x[2] = next
  BY <1>0 DEF ItemFrames, ItemKinds
<1>3. \A i \in open \cup closed : i.at \in 1..(next - 1) /\ i.at # next
  BY <1>0
<1>4. ItemSent(g, next, <<>>, FALSE)
  <2>1. \A n \in DOMAIN f : ~ (Is(f[n], "added", next) \/ Is(f[n], "delta", next) \/ Is(f[n], "done", next))
    BY <1>0 DEF Is
  <2> QED
    BY <1>0, <2>1, ItemBegins
<1>5. \A i \in open : ItemSent(g, i.at, i.body, FALSE)
  <2> HIDE DEF x
  <2> QED
    BY <1>0, <1>2, <1>3, ItemKept
<1>6. \A i \in closed : ItemSent(g, i.at, i.body, TRUE)
  <2> HIDE DEF x
  <2> QED
    BY <1>0, <1>2, <1>3, ItemKept
<1>7. /\ g \in Seq(ItemFrames) /\ Len(f) \in Nat /\ DOMAIN f = 1..Len(f)
      /\ DOMAIN g = 1..(Len(f) + 1)
      /\ \A n \in 1..Len(f) : g[n] = f[n]
      /\ g[Len(f) + 1] = x
  <2> HIDE DEF x
  <2> QED
    BY <1>0, <1>2, ItemFrame
<1> HIDE DEF g, new, x
<1>8. \A n \in DOMAIN g :
        /\ g[n][1] \notin {"completed", "failed"}
        /\ g[n][1] \in {"added", "delta", "done"} => g[n][2] \in 1..next
  <2>1. \A n \in DOMAIN g : n \in DOMAIN f \/ n = Len(f) + 1
    BY <1>7
  <2> QED
    BY <1>0, <1>2, <1>7, <2>1
<1>9. \A i \in open \cup {new} : ItemSent(g, i.at, i.body, FALSE)
  BY <1>1, <1>4, <1>5
<1>10. {i.at : i \in (open \cup {new}) \cup closed} = 1..next
  BY <1>0, <1>1
<1>11. \A i, j \in (open \cup {new}) \cup closed : i.at = j.at => i = j
  BY <1>0, <1>1, <1>3
<1>12. (next + 1) - 1 = next /\ next + 1 \in Nat \ {0}
  BY <1>0
<1>13. open \cup {new} \subseteq ItemRecords /\ closed \subseteq ItemRecords
  BY <1>0, <1>1
<1> QED
  BY <1>6, <1>7, <1>8, <1>9, <1>10, <1>11, <1>12, <1>13 DEF ItemsSent, g, new, x

\* An open item goes on with a further token.
LEMMA ItemsGrow ==
    ASSUME NEW f, NEW next, NEW open, NEW closed, ItemsSent(f, next, open, closed),
           NEW item \in open, NEW token \in Nat
    PROVE  ItemsSent(Append(f, <<"delta", item.at, token>>), next,
                     (open \ {item}) \cup {[item EXCEPT !.body = Append(@, token)]}, closed)
<1> DEFINE x == <<"delta", item.at, token>>
           g == Append(f, x)
           new == [item EXCEPT !.body = Append(@, token)]
<1>0. /\ f \in Seq(ItemFrames) /\ next \in Nat \ {0}
      /\ open \subseteq ItemRecords /\ closed \subseteq ItemRecords
      /\ \A n \in DOMAIN f :
            /\ f[n][1] \notin {"completed", "failed"}
            /\ f[n][1] \in {"added", "delta", "done"} => f[n][2] \in 1..(next - 1)
      /\ \A i \in open : ItemSent(f, i.at, i.body, FALSE)
      /\ \A i \in closed : ItemSent(f, i.at, i.body, TRUE)
      /\ {i.at : i \in open \cup closed} = 1..(next - 1)
      /\ \A i, j \in open \cup closed : i.at = j.at => i = j
  BY DEF ItemsSent
<1>1. /\ item \in ItemRecords /\ item.at \in Nat
      /\ new \in ItemRecords /\ new.at = item.at /\ new.body = Append(item.body, token)
  <2>1. item \in ItemRecords /\ item.at \in Nat
    BY <1>0, ItemFields
  <2>2. new \in ItemRecords /\ new.at = item.at /\ new.body = Append(item.body, token)
    BY <2>1, ItemGrown
  <2> HIDE DEF new
  <2> QED
    BY <2>1, <2>2
<1>2. x \in ItemFrames /\ x[1] = "delta" /\ x[2] = item.at
  BY <1>0, <1>1 DEF ItemFrames, ItemKinds
<1>a. item \notin closed
  <2> SUFFICES ASSUME item \in closed PROVE FALSE
    OBVIOUS
  <2>1. ItemSent(f, item.at, item.body, TRUE) /\ ItemSent(f, item.at, item.body, FALSE)
    BY <1>0
  <2> QED
    BY <2>1 DEF ItemSent
<1>3. \A i \in (open \ {item}) \cup closed : i.at # item.at
  BY <1>0, <1>a
<1>4. ItemSent(g, item.at, new.body, FALSE)
  <2>1. ItemSent(f, item.at, item.body, FALSE)
    BY <1>0
  <2>2. ItemSent(g, item.at, Append(item.body, token), FALSE)
    BY <1>0, <1>1, <2>1, ItemGrows
  <2> HIDE DEF g, new
  <2> QED
    BY <1>1, <2>2, Zenon
<1>5. \A i \in open \ {item} : ItemSent(g, i.at, i.body, FALSE)
  <2> HIDE DEF x
  <2> QED
    BY <1>0, <1>2, <1>3, ItemKept
<1>6. \A i \in closed : ItemSent(g, i.at, i.body, TRUE)
  <2> HIDE DEF x
  <2> QED
    BY <1>0, <1>2, <1>3, ItemKept
<1>7. /\ g \in Seq(ItemFrames) /\ Len(f) \in Nat /\ DOMAIN f = 1..Len(f)
      /\ DOMAIN g = 1..(Len(f) + 1)
      /\ \A n \in 1..Len(f) : g[n] = f[n]
      /\ g[Len(f) + 1] = x
  <2> HIDE DEF x
  <2> QED
    BY <1>0, <1>2, ItemFrame
<1> HIDE DEF g, new, x
<1>8. \A n \in DOMAIN g :
        /\ g[n][1] \notin {"completed", "failed"}
        /\ g[n][1] \in {"added", "delta", "done"} => g[n][2] \in 1..(next - 1)
  <2>1. \A n \in DOMAIN g : n \in DOMAIN f \/ n = Len(f) + 1
    BY <1>7
  <2>2. item.at \in 1..(next - 1)
    BY <1>0
  <2> QED
    BY <1>0, <1>2, <1>7, <2>1, <2>2
<1>9. \A i \in (open \ {item}) \cup {new} : ItemSent(g, i.at, i.body, FALSE)
  BY <1>1, <1>4, <1>5
<1>10. {i.at : i \in ((open \ {item}) \cup {new}) \cup closed} = {i.at : i \in open \cup closed}
  BY <1>1
<1>11. \A i, j \in ((open \ {item}) \cup {new}) \cup closed : i.at = j.at => i = j
  BY <1>0, <1>1, <1>3
<1>13. (open \ {item}) \cup {new} \subseteq ItemRecords
  BY <1>0, <1>1
<1> QED
  BY <1>0, <1>6, <1>7, <1>8, <1>9, <1>10, <1>11, <1>13 DEF ItemsSent, g, new, x

\* An open item is closed.
LEMMA ItemsClose ==
    ASSUME NEW f, NEW next, NEW open, NEW closed, ItemsSent(f, next, open, closed), NEW item \in open
    PROVE  ItemsSent(Append(f, <<"done", item.at, 0>>), next, open \ {item}, closed \cup {item})
<1> DEFINE x == <<"done", item.at, 0>>
           g == Append(f, x)
<1>0. /\ f \in Seq(ItemFrames) /\ next \in Nat \ {0}
      /\ open \subseteq ItemRecords /\ closed \subseteq ItemRecords
      /\ \A n \in DOMAIN f :
            /\ f[n][1] \notin {"completed", "failed"}
            /\ f[n][1] \in {"added", "delta", "done"} => f[n][2] \in 1..(next - 1)
      /\ \A i \in open : ItemSent(f, i.at, i.body, FALSE)
      /\ \A i \in closed : ItemSent(f, i.at, i.body, TRUE)
      /\ {i.at : i \in open \cup closed} = 1..(next - 1)
      /\ \A i, j \in open \cup closed : i.at = j.at => i = j
  BY DEF ItemsSent
<1>1. item \in ItemRecords /\ item.at \in Nat
  BY <1>0, ItemFields
<1>2. x \in ItemFrames /\ x[1] = "done" /\ x[2] = item.at
  BY <1>0, <1>1 DEF ItemFrames, ItemKinds
<1>a. item \notin closed
  <2> SUFFICES ASSUME item \in closed PROVE FALSE
    OBVIOUS
  <2>1. ItemSent(f, item.at, item.body, TRUE) /\ ItemSent(f, item.at, item.body, FALSE)
    BY <1>0
  <2> QED
    BY <2>1 DEF ItemSent
<1>3. \A i \in (open \ {item}) \cup closed : i.at # item.at
  BY <1>0, <1>a
<1>4. ItemSent(g, item.at, item.body, TRUE)
  <2>1. ItemSent(f, item.at, item.body, FALSE)
    BY <1>0
  <2> QED
    BY <1>0, <1>1, <2>1, ItemCloses
<1>5. \A i \in open \ {item} : ItemSent(g, i.at, i.body, FALSE)
  <2> HIDE DEF x
  <2> QED
    BY <1>0, <1>2, <1>3, ItemKept
<1>6. \A i \in closed : ItemSent(g, i.at, i.body, TRUE)
  <2> HIDE DEF x
  <2> QED
    BY <1>0, <1>2, <1>3, ItemKept
<1>7. /\ g \in Seq(ItemFrames) /\ Len(f) \in Nat /\ DOMAIN f = 1..Len(f)
      /\ DOMAIN g = 1..(Len(f) + 1)
      /\ \A n \in 1..Len(f) : g[n] = f[n]
      /\ g[Len(f) + 1] = x
  <2> HIDE DEF x
  <2> QED
    BY <1>0, <1>2, ItemFrame
<1> HIDE DEF g, x
<1>8. \A n \in DOMAIN g :
        /\ g[n][1] \notin {"completed", "failed"}
        /\ g[n][1] \in {"added", "delta", "done"} => g[n][2] \in 1..(next - 1)
  <2>1. \A n \in DOMAIN g : n \in DOMAIN f \/ n = Len(f) + 1
    BY <1>7
  <2>2. item.at \in 1..(next - 1)
    BY <1>0
  <2> QED
    BY <1>0, <1>2, <1>7, <2>1, <2>2
<1>9. \A i \in closed \cup {item} : ItemSent(g, i.at, i.body, TRUE)
  BY <1>4, <1>6
<1>10. (open \ {item}) \cup (closed \cup {item}) = open \cup closed
  OBVIOUS
<1>13. open \ {item} \subseteq ItemRecords /\ closed \cup {item} \subseteq ItemRecords
  BY <1>0, <1>1
<1> QED
  BY <1>0, <1>5, <1>7, <1>8, <1>9, <1>10, <1>13 DEF ItemsSent, g, x

\* The items of the calls are closed one after the other.
LEMMA ItemsFinalized ==
    ASSUME NEW f, NEW next, NEW closed, NEW tools \in Seq(ItemRecords),
           ItemsSent(f, next, Elements(tools), closed),
           \A m, n \in DOMAIN tools : tools[m].at = tools[n].at => m = n
    PROVE  ItemsSent(f \o [n \in 1..Len(tools) |-> <<"done", tools[n].at, 0>>], next, {},
                     closed \cup Elements(tools))
<1> DEFINE d(k) == [n \in 1..k |-> <<"done", tools[n].at, 0>>]
           rest(k) == {tools[n] : n \in (k + 1)..Len(tools)}
           past(k) == closed \cup {tools[n] : n \in 1..k}
           S == {k \in Nat : k <= Len(tools) => ItemsSent(f \o d(k), next, rest(k), past(k))}
<1>0. /\ Len(tools) \in Nat /\ DOMAIN tools = 1..Len(tools)
      /\ \A n \in 1..Len(tools) : tools[n] \in ItemRecords /\ tools[n].at \in Nat
      /\ f \in Seq(ItemFrames)
  <2>1. Len(tools) \in Nat /\ DOMAIN tools = 1..Len(tools) /\ \A n \in 1..Len(tools) : tools[n] \in ItemRecords
    BY LenProperties, ElementOfSeq
  <2> QED
    BY <2>1, ItemFields DEF ItemsSent
<1>1. \A k \in 0..Len(tools) : d(k) \in Seq(ItemFrames) /\ Len(d(k)) = k
  <2> SUFFICES ASSUME NEW k \in 0..Len(tools) PROVE d(k) \in Seq(ItemFrames) /\ Len(d(k)) = k
    OBVIOUS
  <2>1. d(k) \in [1..k -> ItemFrames]
    BY <1>0 DEF ItemFrames, ItemKinds
  <2>2. d(k) \in Seq(ItemFrames)
    BY <2>1, SeqDef
  <2> QED
    BY <2>1, <2>2, LenProperties
<1>2. 0 \in S
  <2>1. d(0) = <<>> /\ rest(0) = Elements(tools) /\ past(0) = closed
    BY <1>0 DEF Elements
  <2>2. f \o <<>> = f
    BY <1>0, ConcatEmptySeq
  <2> HIDE DEF d, rest, past
  <2>3. ItemsSent(f \o d(0), next, rest(0), past(0))
    BY <2>1, <2>2, Zenon
  <2> QED
    BY <2>3
<1>3. ASSUME NEW k \in Nat, k \in S PROVE k + 1 \in S
  <2> SUFFICES ASSUME k + 1 <= Len(tools)
               PROVE  ItemsSent(f \o d(k + 1), next, rest(k + 1), past(k + 1))
    OBVIOUS
  <2>1. ItemsSent(f \o d(k), next, rest(k), past(k))
    BY <1>0, <1>3
  <2>2. tools[k + 1] \in rest(k) /\ k + 1 \in 1..Len(tools)
    BY <1>0
  <2> DEFINE item == tools[k + 1]
             x == <<"done", item.at, 0>>
  <2>3. ItemsSent(Append(f \o d(k), x), next, rest(k) \ {item}, past(k) \cup {item})
    <3> HIDE DEF d, rest, past
    <3> QED
      BY <2>1, <2>2, ItemsClose
  <2>4. rest(k) \ {item} = rest(k + 1)
    <3>0. \A n \in (k + 1)..Len(tools) : tools[n] = tools[k + 1] => n = k + 1
      <4>1. \A n \in (k + 1)..Len(tools) : n \in DOMAIN tools /\ k + 1 \in DOMAIN tools
        BY <1>0, <2>2
      <4> QED
        BY <4>1
    <3>1. \A n \in (k + 1)..Len(tools) : tools[n] # item <=> n \in (k + 2)..Len(tools)
      BY <3>0
    <3>2. (k + 1) + 1 = k + 2
      OBVIOUS
    <3> QED
      BY <1>0, <3>1, <3>2
  <2>5. past(k) \cup {item} = past(k + 1)
    <3>1. \A n : n \in 1..(k + 1) <=> n \in 1..k \/ n = k + 1
      OBVIOUS
    <3> QED
      BY <3>1
  <2>6. Append(f \o d(k), x) = f \o d(k + 1)
    <3>1. d(k + 1) = Append(d(k), x)
      <4>1. /\ d(k) \in Seq(ItemFrames) /\ Len(d(k)) = k
            /\ d(k + 1) \in Seq(ItemFrames) /\ Len(d(k + 1)) = k + 1
        <5>1. k \in 0..Len(tools) /\ k + 1 \in 0..Len(tools)
          BY <1>0
        <5> HIDE DEF d
        <5> QED
          BY <1>1, <5>1
      <4>2. x \in ItemFrames
        BY <1>0, <2>2 DEF ItemFrames, ItemKinds
      <4>3. /\ Append(d(k), x) \in Seq(ItemFrames) /\ Len(Append(d(k), x)) = k + 1
            /\ \A n \in 1..k : Append(d(k), x)[n] = d(k)[n]
            /\ Append(d(k), x)[k + 1] = x
        <5> HIDE DEF d, x
        <5> QED
          BY <4>1, <4>2, OneMore
      <4>4. \A n \in 1..(k + 1) : d(k + 1)[n] = Append(d(k), x)[n]
        <5>1. d(k + 1)[k + 1] = x /\ \A n \in 1..k : d(k + 1)[n] = d(k)[n]
          OBVIOUS
        <5> HIDE DEF d, x
        <5> QED
          BY <4>3, <5>1
      <4> HIDE DEF d, x
      <4> QED
        BY <4>1, <4>3, <4>4, SeqEqual
    <3>2. d(k) \in Seq(ItemFrames) /\ x \in ItemFrames
      <4>1. x \in ItemFrames
        BY <1>0, <2>2 DEF ItemFrames, ItemKinds
      <4>2. k \in 0..Len(tools)
        BY <1>0
      <4> HIDE DEF d
      <4> QED
        BY <1>1, <4>1, <4>2
    <3>3. f \o Append(d(k), x) = Append(f \o d(k), x)
      <4> HIDE DEF d, x
      <4> QED
        BY <1>0, <3>2, ConcatAppend
    <3> HIDE DEF d, x
    <3> QED
      BY <3>1, <3>3, Zenon
  <2> HIDE DEF d, rest, past, x, item
  <2> QED
    BY <2>3, <2>4, <2>5, <2>6, Zenon
<1>4. Len(tools) \in S
  <2> HIDE DEF S
  <2> QED
    BY <1>0, <1>2, <1>3, AllNumbers
<1>5. rest(Len(tools)) = {} /\ past(Len(tools)) = closed \cup Elements(tools)
  BY <1>0 DEF Elements
<1>6. ItemsSent(f \o d(Len(tools)), next, rest(Len(tools)), past(Len(tools)))
  <2> HIDE DEF d, rest, past
  <2> QED
    BY <1>0, <1>4
<1> HIDE DEF rest, past, S
<1> QED
  BY <1>5, <1>6, Zenon

(***************************************************************************)
(* What the Responses encoder does with its items                          *)
(***************************************************************************)
\* A further element.
LEMMA ElementsMore ==
    ASSUME NEW S, NEW f \in Seq(S), NEW x \in S
    PROVE  Elements(Append(f, x)) = Elements(f) \cup {x}
<1>1. /\ Len(f) \in Nat /\ DOMAIN f = 1..Len(f) /\ DOMAIN Append(f, x) = 1..Len(f) + 1
      /\ \A n \in 1..Len(f) : Append(f, x)[n] = f[n]
      /\ Append(f, x)[Len(f) + 1] = x
  BY OneMore
<1> DEFINE g == Append(f, x)
<1> HIDE DEF g
<1>2. \A n : n \in 1..Len(f) + 1 <=> n \in 1..Len(f) \/ n = Len(f) + 1
  BY <1>1
<1>3. {g[n] : n \in DOMAIN g} = {f[n] : n \in DOMAIN f} \cup {x}
  BY <1>1, <1>2 DEF g
<1> QED
  BY <1>3 DEF Elements, g

\* The parts of a stream that has not ended.
LEMMA GoodFacts ==
    ASSUME NEW s, ItemsGood(s)
    PROVE  /\ s \in ItemStreams
           /\ s.next \in Nat \ {0} /\ s.reasoning \in ItemRecords /\ s.text \in ItemRecords
           /\ s.tools \in Seq(ItemRecords) /\ s.output \in Seq(ItemRecords)
           /\ s.dumped \in BOOLEAN /\ s.out \in Seq(ItemFrames)
           /\ ItemsSent(s.out, s.next, Slots(s) \cup Elements(s.tools), Elements(s.output))
           /\ Len(s.tools) + Len(s.output) + Held(s.reasoning) + Held(s.text) = s.next - 1
           /\ Len(s.tools) \in Nat /\ Len(s.output) \in Nat
           /\ s.reasoning = NoItem \/ s.reasoning.type = "reasoning"
           /\ s.text = NoItem \/ s.text.type = "message"
           /\ \A n \in DOMAIN s.tools : s.tools[n].type = "function_call"
           /\ \A m, n \in DOMAIN s.tools : s.tools[m].at = s.tools[n].at => m = n
           /\ NoItem \notin Elements(s.tools) /\ s.reasoning \notin Elements(s.tools)
           /\ s.text \notin Elements(s.tools)
           /\ s.reasoning # NoItem => s.reasoning # s.text
           /\ s.text # NoItem => s.reasoning # s.text
<1>1. /\ s \in ItemStreams
      /\ ItemsSent(s.out, s.next, Slots(s) \cup Elements(s.tools), Elements(s.output))
      /\ Len(s.tools) + Len(s.output) + Held(s.reasoning) + Held(s.text) = s.next - 1
      /\ s.reasoning = NoItem \/ s.reasoning.type = "reasoning"
      /\ s.text = NoItem \/ s.text.type = "message"
      /\ \A n \in DOMAIN s.tools : s.tools[n].type = "function_call"
      /\ \A m, n \in DOMAIN s.tools : s.tools[m].at = s.tools[n].at => m = n
  BY DEF ItemsGood
<1>2. /\ s.reasoning \in ItemRecords /\ s.text \in ItemRecords
      /\ s.tools \in Seq(ItemRecords) /\ s.output \in Seq(ItemRecords)
      /\ s.dumped \in BOOLEAN /\ s.out \in Seq(ItemFrames)
  BY <1>1 DEF ItemStreams
<1>3. s.next \in Nat \ {0}
  BY <1>1 DEF ItemsSent
<1>4. NoItem.type = "none"
  BY DEF NoItem
<1>5. \A i \in Elements(s.tools) : i.type = "function_call"
  BY <1>1 DEF Elements
<1>6. Len(s.tools) \in Nat /\ Len(s.output) \in Nat
  BY <1>2, LenProperties
<1> QED
  BY <1>1, <1>2, <1>3, <1>4, <1>5, <1>6

\* The reasoning item is closed, if there is one.
LEMMA ReasoningCloses ==
    ASSUME NEW s, ItemsGood(s), NEW text, NEW calls, ResponsesShow(s, text, calls)
    PROVE  LET t == CloseReasoning(s)
           IN  /\ ItemsGood(t) /\ ResponsesShow(t, text, calls)
               /\ t.reasoning = NoItem /\ t.text = s.text /\ t.tools = s.tools /\ t.next = s.next
               /\ t.dumped = s.dumped
<1> DEFINE t == CloseReasoning(s)
<1> SUFFICES /\ ItemsGood(t) /\ ResponsesShow(t, text, calls)
             /\ t.reasoning = NoItem /\ t.text = s.text /\ t.tools = s.tools /\ t.next = s.next
             /\ t.dumped = s.dumped
  OBVIOUS
<1>1. CASE s.reasoning = NoItem
  BY <1>1 DEF CloseReasoning
<1>2. CASE s.reasoning # NoItem
  <2> DEFINE x == <<"done", s.reasoning.at, 0>>
  <2>1. /\ s \in ItemStreams
        /\ s.next \in Nat \ {0} /\ s.reasoning \in ItemRecords /\ s.text \in ItemRecords
        /\ s.tools \in Seq(ItemRecords) /\ s.output \in Seq(ItemRecords)
        /\ s.dumped \in BOOLEAN /\ s.out \in Seq(ItemFrames)
        /\ ItemsSent(s.out, s.next, Slots(s) \cup Elements(s.tools), Elements(s.output))
        /\ Len(s.tools) + Len(s.output) + Held(s.reasoning) + Held(s.text) = s.next - 1
        /\ Len(s.tools) \in Nat /\ Len(s.output) \in Nat
        /\ s.reasoning.type = "reasoning"
        /\ s.text = NoItem \/ s.text.type = "message"
        /\ \A n \in DOMAIN s.tools : s.tools[n].type = "function_call"
        /\ \A m, n \in DOMAIN s.tools : s.tools[m].at = s.tools[n].at => m = n
        /\ s.reasoning \notin Elements(s.tools) /\ s.reasoning # s.text
    BY <1>2, GoodFacts
  <2>2. x \in ItemFrames
    BY <2>1, ItemFields DEF ItemFrames, ItemKinds
  <2>3. s.out \o <<x>> = Append(s.out, x)
    BY <2>1, <2>2, Together
  <2>4. /\ t = [s EXCEPT !.out = s.out \o <<x>>, !.output = Append(s.output, s.reasoning), !.reasoning = NoItem]
    BY <1>2, <2>1 DEF CloseReasoning, CloseItem, Say, ItemStreams
  <2>5. Append(s.out, x) \in Seq(ItemFrames) /\ Append(s.output, s.reasoning) \in Seq(ItemRecords)
        /\ NoItem \in ItemRecords
    BY <2>1, <2>2, AppendProperties, ItemFields
  <2>6. /\ t \in ItemStreams
        /\ t.out = Append(s.out, x) /\ t.output = Append(s.output, s.reasoning)
        /\ t.reasoning = NoItem /\ t.text = s.text /\ t.tools = s.tools /\ t.next = s.next
        /\ t.dumped = s.dumped
    <3> DEFINE a == Append(s.out, x)
               b == Append(s.output, s.reasoning)
    <3>1. t = [s EXCEPT !.out = a, !.output = b, !.reasoning = NoItem]
      BY <2>3, <2>4
    <3> HIDE DEF a, b
    <3> QED
      BY <2>1, <2>5, <3>1 DEF ItemStreams, a, b
  <2>7. (Slots(s) \cup Elements(s.tools)) \ {s.reasoning} = Slots(t) \cup Elements(t.tools)
    BY <1>2, <2>1, <2>6 DEF Slots
  <2>8. Elements(t.output) = Elements(s.output) \cup {s.reasoning}
    BY <2>1, <2>6, ElementsMore
  <2>9. s.reasoning \in Slots(s) \cup Elements(s.tools)
    BY <1>2 DEF Slots
  <2>10. ItemsSent(t.out, t.next, Slots(t) \cup Elements(t.tools), Elements(t.output))
    <3>1. ItemsSent(Append(s.out, x), s.next, (Slots(s) \cup Elements(s.tools)) \ {s.reasoning},
                    Elements(s.output) \cup {s.reasoning})
      BY <2>1, <2>9, ItemsClose
    <3> HIDE DEF t
    <3> QED
      BY <2>6, <2>7, <2>8, <3>1
  <2>11. Len(t.tools) + Len(t.output) + Held(t.reasoning) + Held(t.text) = t.next - 1
    <3>1. Len(t.output) = Len(s.output) + 1 /\ Held(t.reasoning) = 0 /\ Held(s.reasoning) = 1
          /\ Held(t.text) = Held(s.text) /\ Held(s.text) \in Nat
      BY <1>2, <2>1, <2>6, OneMore DEF Held
    <3>2. Len(t.tools) = Len(s.tools) /\ t.next = s.next
      BY <2>6
    <3> DEFINE a == Len(s.tools)
               b == Len(s.output)
               c == Held(s.reasoning)
               d == Held(s.text)
               n == s.next
               a1 == Len(t.tools)
               b1 == Len(t.output)
               c1 == Held(t.reasoning)
               d1 == Held(t.text)
               n1 == t.next
    <3> HIDE DEF t
    <3>3. /\ a \in Nat /\ b \in Nat /\ d \in Nat /\ n \in Nat \ {0} /\ a + b + c + d = n - 1
          /\ a1 = a /\ b1 = b + 1 /\ c = 1 /\ c1 = 0 /\ d1 = d /\ n1 = n
      BY <2>1, <3>1, <3>2, Zenon
    <3> HIDE DEF a, b, c, d, n, a1, b1, c1, d1, n1
    <3>4. a1 + b1 + c1 + d1 = n1 - 1
      BY <3>3
    <3> QED
      BY <3>4 DEF a, b, c, d, n, a1, b1, c1, d1, n1
  <2>12. ItemsGood(t)
    <3> HIDE DEF t
    <3>1. \A n \in DOMAIN t.tools : t.tools[n].type = "function_call"
      BY <2>1, <2>6
    <3>2. \A m, n \in DOMAIN t.tools : t.tools[m].at = t.tools[n].at => m = n
      BY <2>1, <2>6
    <3>3. /\ t.reasoning = NoItem \/ t.reasoning.type = "reasoning"
          /\ t.text = NoItem \/ t.text.type = "message"
          /\ t \in ItemStreams
      BY <2>1, <2>6
    <3> QED
      BY <2>10, <2>11, <3>1, <3>2, <3>3 DEF ItemsGood
  <2>13. ResponsesShow(t, text, calls)
    <3>1. Said(t.output, "message") = Said(s.output, "message")
      <4>1. s.output \in Seq(ItemRecords) /\ s.reasoning \in ItemRecords /\ s.reasoning.type = "reasoning"
        BY <2>1
      <4>2. Said(Append(s.output, s.reasoning), "message") = Said(s.output, "message")
        BY <4>1, SaidMore
      <4> QED
        BY <2>6, <4>2, Zenon
    <3>2. \A n \in DOMAIN t.output : t.output[n].type # "function_call"
      <4>0. \A i \in Elements(s.output) : i.type # "function_call"
        BY DEF ResponsesShow, Elements
      <4>1. \A i \in Elements(t.output) : i.type # "function_call"
        <5> HIDE DEF t
        <5> QED
          BY <2>1, <2>8, <4>0
      <4> QED
        BY <4>1 DEF Elements
    <3> HIDE DEF t
    <3> QED
      BY <2>6, <3>1, <3>2 DEF ResponsesShow
  <2> HIDE DEF t
  <2> QED
    BY <2>6, <2>12, <2>13
<1> QED
  BY <1>1, <1>2

\* The text item is closed, if there is one.
LEMMA TextCloses ==
    ASSUME NEW s, ItemsGood(s), NEW text, NEW calls, ResponsesShow(s, text, calls)
    PROVE  LET t == CloseText(s)
           IN  /\ ItemsGood(t) /\ ResponsesShow(t, text, calls)
               /\ t.text = NoItem /\ t.reasoning = s.reasoning /\ t.tools = s.tools /\ t.next = s.next
               /\ t.dumped = s.dumped
<1> DEFINE t == CloseText(s)
<1> SUFFICES /\ ItemsGood(t) /\ ResponsesShow(t, text, calls)
             /\ t.text = NoItem /\ t.reasoning = s.reasoning /\ t.tools = s.tools /\ t.next = s.next
             /\ t.dumped = s.dumped
  OBVIOUS
<1>1. CASE s.text = NoItem
  BY <1>1 DEF CloseText
<1>2. CASE s.text # NoItem
  <2> DEFINE x == <<"done", s.text.at, 0>>
  <2>1. /\ s \in ItemStreams
        /\ s.next \in Nat \ {0} /\ s.reasoning \in ItemRecords /\ s.text \in ItemRecords
        /\ s.tools \in Seq(ItemRecords) /\ s.output \in Seq(ItemRecords)
        /\ s.dumped \in BOOLEAN /\ s.out \in Seq(ItemFrames)
        /\ ItemsSent(s.out, s.next, Slots(s) \cup Elements(s.tools), Elements(s.output))
        /\ Len(s.tools) + Len(s.output) + Held(s.reasoning) + Held(s.text) = s.next - 1
        /\ Len(s.tools) \in Nat /\ Len(s.output) \in Nat
        /\ s.text.type = "message"
        /\ s.reasoning = NoItem \/ s.reasoning.type = "reasoning"
        /\ \A n \in DOMAIN s.tools : s.tools[n].type = "function_call"
        /\ \A m, n \in DOMAIN s.tools : s.tools[m].at = s.tools[n].at => m = n
        /\ s.text \notin Elements(s.tools) /\ s.reasoning # s.text
    BY <1>2, GoodFacts
  <2>2. x \in ItemFrames
    BY <2>1, ItemFields DEF ItemFrames, ItemKinds
  <2>3. s.out \o <<x>> = Append(s.out, x)
    BY <2>1, <2>2, Together
  <2>4. t = [s EXCEPT !.out = s.out \o <<x>>, !.output = Append(s.output, s.text), !.text = NoItem]
    BY <1>2, <2>1 DEF CloseText, CloseItem, Say, ItemStreams
  <2>5. Append(s.out, x) \in Seq(ItemFrames) /\ Append(s.output, s.text) \in Seq(ItemRecords)
        /\ NoItem \in ItemRecords
    BY <2>1, <2>2, AppendProperties, ItemFields
  <2>6. /\ t \in ItemStreams
        /\ t.out = Append(s.out, x) /\ t.output = Append(s.output, s.text)
        /\ t.text = NoItem /\ t.reasoning = s.reasoning /\ t.tools = s.tools /\ t.next = s.next
        /\ t.dumped = s.dumped
    <3> DEFINE a == Append(s.out, x)
               b == Append(s.output, s.text)
    <3>1. t = [s EXCEPT !.out = a, !.output = b, !.text = NoItem]
      BY <2>3, <2>4
    <3> HIDE DEF a, b
    <3> QED
      BY <2>1, <2>5, <3>1 DEF ItemStreams, a, b
  <2>7. (Slots(s) \cup Elements(s.tools)) \ {s.text} = Slots(t) \cup Elements(t.tools)
    BY <1>2, <2>1, <2>6 DEF Slots
  <2>8. Elements(t.output) = Elements(s.output) \cup {s.text}
    BY <2>1, <2>6, ElementsMore
  <2>9. s.text \in Slots(s) \cup Elements(s.tools)
    BY <1>2 DEF Slots
  <2>10. ItemsSent(t.out, t.next, Slots(t) \cup Elements(t.tools), Elements(t.output))
    <3>1. ItemsSent(Append(s.out, x), s.next, (Slots(s) \cup Elements(s.tools)) \ {s.text},
                    Elements(s.output) \cup {s.text})
      BY <2>1, <2>9, ItemsClose
    <3> HIDE DEF t
    <3> QED
      BY <2>6, <2>7, <2>8, <3>1
  <2>11. Len(t.tools) + Len(t.output) + Held(t.reasoning) + Held(t.text) = t.next - 1
    <3>1. Len(t.output) = Len(s.output) + 1 /\ Held(t.text) = 0 /\ Held(s.text) = 1
          /\ Held(t.reasoning) = Held(s.reasoning) /\ Held(s.reasoning) \in Nat
      BY <1>2, <2>1, <2>6, OneMore DEF Held
    <3>2. Len(t.tools) = Len(s.tools) /\ t.next = s.next
      BY <2>6
    <3> DEFINE a == Len(s.tools)
               b == Len(s.output)
               c == Held(s.reasoning)
               d == Held(s.text)
               n == s.next
               a1 == Len(t.tools)
               b1 == Len(t.output)
               c1 == Held(t.reasoning)
               d1 == Held(t.text)
               n1 == t.next
    <3> HIDE DEF t
    <3>3. /\ a \in Nat /\ b \in Nat /\ c \in Nat /\ n \in Nat \ {0} /\ a + b + c + d = n - 1
          /\ a1 = a /\ b1 = b + 1 /\ d = 1 /\ d1 = 0 /\ c1 = c /\ n1 = n
      BY <2>1, <3>1, <3>2, Zenon
    <3> HIDE DEF a, b, c, d, n, a1, b1, c1, d1, n1
    <3>4. a1 + b1 + c1 + d1 = n1 - 1
      BY <3>3
    <3> QED
      BY <3>4 DEF a, b, c, d, n, a1, b1, c1, d1, n1
  <2>12. ItemsGood(t)
    <3> HIDE DEF t
    <3>1. \A n \in DOMAIN t.tools : t.tools[n].type = "function_call"
      BY <2>1, <2>6
    <3>2. \A m, n \in DOMAIN t.tools : t.tools[m].at = t.tools[n].at => m = n
      BY <2>1, <2>6
    <3>3. /\ t.reasoning = NoItem \/ t.reasoning.type = "reasoning"
          /\ t.text = NoItem \/ t.text.type = "message"
          /\ t \in ItemStreams
      BY <2>1, <2>6
    <3> QED
      BY <2>10, <2>11, <3>1, <3>2, <3>3 DEF ItemsGood
  <2>13. ResponsesShow(t, text, calls)
    <3>1. Said(t.output, "message") = Said(s.output, "message") \o s.text.body
      <4>1. s.output \in Seq(ItemRecords) /\ s.text \in ItemRecords /\ s.text.type = "message"
        BY <2>1
      <4>2. Said(Append(s.output, s.text), "message") = Said(s.output, "message") \o s.text.body
        BY <4>1, SaidMore
      <4> QED
        BY <2>6, <4>2, Zenon
    <3>2. \A n \in DOMAIN t.output : t.output[n].type # "function_call"
      <4>0. \A i \in Elements(s.output) : i.type # "function_call"
        BY DEF ResponsesShow, Elements
      <4>1. \A i \in Elements(t.output) : i.type # "function_call"
        <5> HIDE DEF t
        <5> QED
          BY <2>1, <2>8, <4>0
      <4> QED
        BY <4>1 DEF Elements
    <3>3. Said(t.output, "message") \o t.text.body = Said(t.output, "message")
      <4>1. Said(t.output, "message") \in Seq(Nat) /\ t.text.body = <<>>
        BY <2>6, SaidType, ItemFields DEF ItemStreams
      <4> QED
        BY <4>1, ConcatEmptySeq
    <3> HIDE DEF t
    <3> QED
      BY <2>6, <3>1, <3>2, <3>3 DEF ResponsesShow
  <2> HIDE DEF t
  <2> QED
    BY <2>6, <2>12, <2>13
<1> QED
  BY <1>1, <1>2

\* A reasoning item is announced.
LEMMA ReasoningStarts ==
    ASSUME NEW s, ItemsGood(s), s.reasoning = NoItem, NEW text, NEW calls, ResponsesShow(s, text, calls)
    PROVE  LET t == [Added(s, "reasoning", 0) EXCEPT !.reasoning = Item(s.next, "reasoning", 0)]
           IN  /\ ItemsGood(t) /\ ResponsesShow(t, text, calls)
               /\ t.reasoning = Item(s.next, "reasoning", 0) /\ t.reasoning # NoItem
               /\ t.text = s.text /\ t.tools = s.tools /\ t.dumped = s.dumped
<1> DEFINE t == [Added(s, "reasoning", 0) EXCEPT !.reasoning = Item(s.next, "reasoning", 0)]
           x == <<"added", s.next, 0>>
           new == Item(s.next, "reasoning", 0)
<1> SUFFICES /\ ItemsGood(t) /\ ResponsesShow(t, text, calls)
             /\ t.reasoning = new /\ t.reasoning # NoItem
             /\ t.text = s.text /\ t.tools = s.tools /\ t.dumped = s.dumped
  OBVIOUS
<1>1. /\ s \in ItemStreams
      /\ s.next \in Nat \ {0} /\ s.reasoning \in ItemRecords /\ s.text \in ItemRecords
      /\ s.tools \in Seq(ItemRecords) /\ s.output \in Seq(ItemRecords)
      /\ s.dumped \in BOOLEAN /\ s.out \in Seq(ItemFrames)
      /\ ItemsSent(s.out, s.next, Slots(s) \cup Elements(s.tools), Elements(s.output))
      /\ Len(s.tools) + Len(s.output) + Held(s.reasoning) + Held(s.text) = s.next - 1
      /\ Len(s.tools) \in Nat /\ Len(s.output) \in Nat
      /\ s.reasoning = NoItem \/ s.reasoning.type = "reasoning"
      /\ s.text = NoItem \/ s.text.type = "message"
      /\ \A n \in DOMAIN s.tools : s.tools[n].type = "function_call"
      /\ \A m, n \in DOMAIN s.tools : s.tools[m].at = s.tools[n].at => m = n
      /\ NoItem \notin Elements(s.tools) /\ s.reasoning \notin Elements(s.tools)
      /\ s.text \notin Elements(s.tools)
      /\ s.reasoning # NoItem => s.reasoning # s.text
      /\ s.text # NoItem => s.reasoning # s.text
  BY GoodFacts
<1>2. x \in ItemFrames
  BY <1>1 DEF ItemFrames, ItemKinds
<1>3. s.out \o <<x>> = Append(s.out, x) /\ Append(s.out, x) \in Seq(ItemFrames)
  <2>1. s.out \o <<x>> = Append(s.out, x)
    BY <1>1, <1>2, Together
  <2> HIDE DEF x
  <2>2. Append(s.out, x) \in Seq(ItemFrames)
    BY <1>1, <1>2, AppendProperties
  <2> QED
    BY <2>1, <2>2 DEF x
<1>4. t = [s EXCEPT !.out = s.out \o <<x>>, !.next = s.next + 1, !.reasoning = new]
  BY <1>1 DEF Added, Say, ItemStreams
<1>5. new \in ItemRecords /\ new.at = s.next /\ new.type = "reasoning" /\ new.body = <<>> /\ new # NoItem
  <2>1. new \in ItemRecords /\ new.at = s.next /\ new.type = "reasoning" /\ new.body = <<>>
    BY <1>1, ItemNew
  <2> QED
    BY <1>1, <2>1, ItemFields
<1>6. /\ t \in ItemStreams
      /\ t.out = Append(s.out, x) /\ t.next = s.next + 1 /\ t.reasoning = new
      /\ t.text = s.text /\ t.tools = s.tools /\ t.output = s.output /\ t.dumped = s.dumped
  <2> DEFINE a == Append(s.out, x)
             b == s.next + 1
  <2>1. t = [s EXCEPT !.out = a, !.next = b, !.reasoning = new]
    BY <1>3, <1>4
  <2>2. b \in Nat
    BY <1>1
  <2> HIDE DEF a, b, new
  <2> QED
    BY <1>1, <1>3, <1>5, <2>1, <2>2 DEF ItemStreams, a, b
<1> HIDE DEF t, new
<1>7. Slots(t) \cup Elements(t.tools) = (Slots(s) \cup Elements(s.tools)) \cup {new}
  BY <1>5, <1>6 DEF Slots
<1>8. ItemsSent(t.out, t.next, Slots(t) \cup Elements(t.tools), Elements(t.output))
  <2>1. ItemsSent(Append(s.out, x), s.next + 1, (Slots(s) \cup Elements(s.tools)) \cup {new}, Elements(s.output))
    BY <1>1, ItemsAdded DEF new
  <2> QED
    BY <1>6, <1>7, <2>1, Zenon
<1>9. Len(t.tools) + Len(t.output) + Held(t.reasoning) + Held(t.text) = t.next - 1
  <2>1. Held(t.reasoning) = 1 /\ Held(s.reasoning) = 0 /\ Held(t.text) = Held(s.text) /\ Held(s.text) \in Nat
    BY <1>5, <1>6 DEF Held
  <2> DEFINE a == Len(s.tools)
             b == Len(s.output)
             c == Held(s.reasoning)
             d == Held(s.text)
             n == s.next
             a1 == Len(t.tools)
             b1 == Len(t.output)
             c1 == Held(t.reasoning)
             d1 == Held(t.text)
             n1 == t.next
  <2>3. /\ a \in Nat /\ b \in Nat /\ d \in Nat /\ n \in Nat \ {0} /\ a + b + c + d = n - 1
        /\ a1 = a /\ b1 = b /\ c = 0 /\ c1 = 1 /\ d1 = d /\ n1 = n + 1
    BY <1>1, <1>6, <2>1, Zenon
  <2> HIDE DEF a, b, c, d, n, a1, b1, c1, d1, n1
  <2>4. a1 + b1 + c1 + d1 = n1 - 1
    BY <2>3
  <2> QED
    BY <2>4 DEF a, b, c, d, n, a1, b1, c1, d1, n1
<1>10. /\ t.reasoning = NoItem \/ t.reasoning.type = "reasoning"
       /\ t.text = NoItem \/ t.text.type = "message"
       /\ \A n \in DOMAIN t.tools : t.tools[n].type = "function_call"
       /\ \A m, n \in DOMAIN t.tools : t.tools[m].at = t.tools[n].at => m = n
  BY <1>1, <1>5, <1>6
<1>11. ItemsGood(t)
  BY <1>6, <1>8, <1>9, <1>10 DEF ItemsGood
<1>12. ResponsesShow(t, text, calls)
  BY <1>6 DEF ResponsesShow
<1> QED
  BY <1>5, <1>6, <1>11, <1>12

\* A text item is announced.
LEMMA TextStarts ==
    ASSUME NEW s, ItemsGood(s), s.text = NoItem, NEW text, NEW calls, ResponsesShow(s, text, calls)
    PROVE  LET t == [Added(s, "message", 0) EXCEPT !.text = Item(s.next, "message", 0)]
           IN  /\ ItemsGood(t) /\ ResponsesShow(t, text, calls)
               /\ t.text = Item(s.next, "message", 0) /\ t.text # NoItem
               /\ t.reasoning = s.reasoning /\ t.tools = s.tools /\ t.dumped = s.dumped
<1> DEFINE t == [Added(s, "message", 0) EXCEPT !.text = Item(s.next, "message", 0)]
           x == <<"added", s.next, 0>>
           new == Item(s.next, "message", 0)
<1> SUFFICES /\ ItemsGood(t) /\ ResponsesShow(t, text, calls)
             /\ t.text = new /\ t.text # NoItem
             /\ t.reasoning = s.reasoning /\ t.tools = s.tools /\ t.dumped = s.dumped
  OBVIOUS
<1>1. /\ s \in ItemStreams
      /\ s.next \in Nat \ {0} /\ s.reasoning \in ItemRecords /\ s.text \in ItemRecords
      /\ s.tools \in Seq(ItemRecords) /\ s.output \in Seq(ItemRecords)
      /\ s.dumped \in BOOLEAN /\ s.out \in Seq(ItemFrames)
      /\ ItemsSent(s.out, s.next, Slots(s) \cup Elements(s.tools), Elements(s.output))
      /\ Len(s.tools) + Len(s.output) + Held(s.reasoning) + Held(s.text) = s.next - 1
      /\ Len(s.tools) \in Nat /\ Len(s.output) \in Nat
      /\ s.reasoning = NoItem \/ s.reasoning.type = "reasoning"
      /\ s.text = NoItem \/ s.text.type = "message"
      /\ \A n \in DOMAIN s.tools : s.tools[n].type = "function_call"
      /\ \A m, n \in DOMAIN s.tools : s.tools[m].at = s.tools[n].at => m = n
      /\ NoItem \notin Elements(s.tools) /\ s.reasoning \notin Elements(s.tools)
      /\ s.text \notin Elements(s.tools)
      /\ s.reasoning # NoItem => s.reasoning # s.text
      /\ s.text # NoItem => s.reasoning # s.text
  BY GoodFacts
<1>2. x \in ItemFrames
  BY <1>1 DEF ItemFrames, ItemKinds
<1>3. s.out \o <<x>> = Append(s.out, x) /\ Append(s.out, x) \in Seq(ItemFrames)
  <2>1. s.out \o <<x>> = Append(s.out, x)
    BY <1>1, <1>2, Together
  <2> HIDE DEF x
  <2>2. Append(s.out, x) \in Seq(ItemFrames)
    BY <1>1, <1>2, AppendProperties
  <2> QED
    BY <2>1, <2>2 DEF x
<1>4. t = [s EXCEPT !.out = s.out \o <<x>>, !.next = s.next + 1, !.text = new]
  BY <1>1 DEF Added, Say, ItemStreams
<1>5. new \in ItemRecords /\ new.at = s.next /\ new.type = "message" /\ new.body = <<>> /\ new # NoItem
  <2>1. new \in ItemRecords /\ new.at = s.next /\ new.type = "message" /\ new.body = <<>>
    BY <1>1, ItemNew
  <2> QED
    BY <1>1, <2>1, ItemFields
<1>6. /\ t \in ItemStreams
      /\ t.out = Append(s.out, x) /\ t.next = s.next + 1 /\ t.text = new
      /\ t.reasoning = s.reasoning /\ t.tools = s.tools /\ t.output = s.output /\ t.dumped = s.dumped
  <2> DEFINE a == Append(s.out, x)
             b == s.next + 1
  <2>1. t = [s EXCEPT !.out = a, !.next = b, !.text = new]
    BY <1>3, <1>4
  <2>2. b \in Nat
    BY <1>1
  <2> HIDE DEF a, b, new
  <2> QED
    BY <1>1, <1>3, <1>5, <2>1, <2>2 DEF ItemStreams, a, b
<1> HIDE DEF t, new
<1>7. Slots(t) \cup Elements(t.tools) = (Slots(s) \cup Elements(s.tools)) \cup {new}
  BY <1>5, <1>6 DEF Slots
<1>8. ItemsSent(t.out, t.next, Slots(t) \cup Elements(t.tools), Elements(t.output))
  <2>1. ItemsSent(Append(s.out, x), s.next + 1, (Slots(s) \cup Elements(s.tools)) \cup {new}, Elements(s.output))
    BY <1>1, ItemsAdded DEF new
  <2> QED
    BY <1>6, <1>7, <2>1, Zenon
<1>9. Len(t.tools) + Len(t.output) + Held(t.reasoning) + Held(t.text) = t.next - 1
  <2>1. Held(t.text) = 1 /\ Held(s.text) = 0 /\ Held(t.reasoning) = Held(s.reasoning) /\ Held(s.reasoning) \in Nat
    BY <1>5, <1>6 DEF Held
  <2> DEFINE a == Len(s.tools)
             b == Len(s.output)
             c == Held(s.reasoning)
             d == Held(s.text)
             n == s.next
             a1 == Len(t.tools)
             b1 == Len(t.output)
             c1 == Held(t.reasoning)
             d1 == Held(t.text)
             n1 == t.next
  <2>3. /\ a \in Nat /\ b \in Nat /\ c \in Nat /\ n \in Nat \ {0} /\ a + b + c + d = n - 1
        /\ a1 = a /\ b1 = b /\ d = 0 /\ d1 = 1 /\ c1 = c /\ n1 = n + 1
    BY <1>1, <1>6, <2>1, Zenon
  <2> HIDE DEF a, b, c, d, n, a1, b1, c1, d1, n1
  <2>4. a1 + b1 + c1 + d1 = n1 - 1
    BY <2>3
  <2> QED
    BY <2>4 DEF a, b, c, d, n, a1, b1, c1, d1, n1
<1>10. /\ t.reasoning = NoItem \/ t.reasoning.type = "reasoning"
       /\ t.text = NoItem \/ t.text.type = "message"
       /\ \A n \in DOMAIN t.tools : t.tools[n].type = "function_call"
       /\ \A m, n \in DOMAIN t.tools : t.tools[m].at = t.tools[n].at => m = n
  BY <1>1, <1>5, <1>6
<1>11. ItemsGood(t)
  BY <1>6, <1>8, <1>9, <1>10 DEF ItemsGood
<1>12. ResponsesShow(t, text, calls)
  <2>1. t.text.body = s.text.body
    BY <1>5, <1>6, ItemFields
  <2> QED
    BY <1>6, <2>1 DEF ResponsesShow
<1> QED
  BY <1>5, <1>6, <1>11, <1>12

\* The open reasoning item goes on.
LEMMA ReasoningGrows ==
    ASSUME NEW s, ItemsGood(s), s.reasoning # NoItem, NEW token \in Nat,
           NEW text, NEW calls, ResponsesShow(s, text, calls)
    PROVE  LET t == [Say(s, <<<<"delta", s.reasoning.at, token>>>>) EXCEPT !.reasoning.body = Append(@, token)]
           IN  /\ ItemsGood(t) /\ ResponsesShow(t, text, calls)
               /\ t.text = s.text /\ t.tools = s.tools /\ t.dumped = s.dumped
<1> DEFINE t == [Say(s, <<<<"delta", s.reasoning.at, token>>>>) EXCEPT !.reasoning.body = Append(@, token)]
           x == <<"delta", s.reasoning.at, token>>
           new == [s.reasoning EXCEPT !.body = Append(@, token)]
<1> SUFFICES /\ ItemsGood(t) /\ ResponsesShow(t, text, calls)
             /\ t.text = s.text /\ t.tools = s.tools /\ t.dumped = s.dumped
  OBVIOUS
<1>1. /\ s \in ItemStreams
      /\ s.next \in Nat \ {0} /\ s.reasoning \in ItemRecords /\ s.text \in ItemRecords
      /\ s.tools \in Seq(ItemRecords) /\ s.output \in Seq(ItemRecords)
      /\ s.dumped \in BOOLEAN /\ s.out \in Seq(ItemFrames)
      /\ ItemsSent(s.out, s.next, Slots(s) \cup Elements(s.tools), Elements(s.output))
      /\ Len(s.tools) + Len(s.output) + Held(s.reasoning) + Held(s.text) = s.next - 1
      /\ Len(s.tools) \in Nat /\ Len(s.output) \in Nat
      /\ s.reasoning = NoItem \/ s.reasoning.type = "reasoning"
      /\ s.text = NoItem \/ s.text.type = "message"
      /\ \A n \in DOMAIN s.tools : s.tools[n].type = "function_call"
      /\ \A m, n \in DOMAIN s.tools : s.tools[m].at = s.tools[n].at => m = n
      /\ NoItem \notin Elements(s.tools) /\ s.reasoning \notin Elements(s.tools)
      /\ s.text \notin Elements(s.tools)
      /\ s.reasoning # NoItem => s.reasoning # s.text
      /\ s.text # NoItem => s.reasoning # s.text
  BY GoodFacts
<1>2. x \in ItemFrames
  BY <1>1, ItemFields DEF ItemFrames, ItemKinds
<1>3. s.out \o <<x>> = Append(s.out, x) /\ Append(s.out, x) \in Seq(ItemFrames)
  <2>1. s.out \o <<x>> = Append(s.out, x)
    BY <1>1, <1>2, Together
  <2> HIDE DEF x
  <2>2. Append(s.out, x) \in Seq(ItemFrames)
    BY <1>1, <1>2, AppendProperties
  <2> QED
    BY <2>1, <2>2 DEF x
<1>4. t = [s EXCEPT !.out = s.out \o <<x>>, !.reasoning = new]
  <2> DEFINE u == s.out \o <<x>>
  <2>1. t = [[s EXCEPT !.out = u] EXCEPT !.reasoning.body = Append(@, token)]
    BY DEF Say
  <2> HIDE DEF u, x
  <2>2. [s EXCEPT !.out = u].reasoning = s.reasoning
    BY <1>1 DEF ItemStreams
  <2> QED
    BY <1>1, <2>1, <2>2 DEF u, ItemStreams, ItemRecords
<1>5. /\ new \in ItemRecords /\ new.at = s.reasoning.at /\ new.type = "reasoning" /\ new.index = s.reasoning.index
      /\ new.body = Append(s.reasoning.body, token) /\ new # NoItem
  <2>1. /\ new \in ItemRecords /\ new.at = s.reasoning.at /\ new.type = s.reasoning.type /\ new.index = s.reasoning.index
        /\ new.body = Append(s.reasoning.body, token)
    BY <1>1, ItemGrown
  <2>2. s.reasoning.type = "reasoning" /\ NoItem.type = "none"
    BY <1>1 DEF NoItem
  <2> HIDE DEF new
  <2> QED
    BY <2>1, <2>2
<1>6. /\ t \in ItemStreams
      /\ t.out = Append(s.out, x) /\ t.next = s.next /\ t.reasoning = new
      /\ t.text = s.text /\ t.tools = s.tools /\ t.output = s.output /\ t.dumped = s.dumped
  <2> DEFINE a == Append(s.out, x)
  <2>1. t = [s EXCEPT !.out = a, !.reasoning = new]
    BY <1>3, <1>4
  <2> HIDE DEF a, new
  <2> QED
    BY <1>1, <1>3, <1>5, <2>1 DEF ItemStreams, a
<1> HIDE DEF t, new
<1>7. Slots(t) \cup Elements(t.tools) = ((Slots(s) \cup Elements(s.tools)) \ {s.reasoning}) \cup {new}
  BY <1>1, <1>5, <1>6 DEF Slots
<1>8. ItemsSent(t.out, t.next, Slots(t) \cup Elements(t.tools), Elements(t.output))
  <2>1. s.reasoning \in Slots(s) \cup Elements(s.tools)
    BY DEF Slots
  <2>2. ItemsSent(Append(s.out, x), s.next, ((Slots(s) \cup Elements(s.tools)) \ {s.reasoning}) \cup {new},
                  Elements(s.output))
    BY <1>1, <2>1, ItemsGrow DEF new
  <2> QED
    BY <1>6, <1>7, <2>2, Zenon
<1>9. Len(t.tools) + Len(t.output) + Held(t.reasoning) + Held(t.text) = t.next - 1
  <2>1. Held(t.reasoning) = Held(s.reasoning) /\ Held(t.text) = Held(s.text)
    BY <1>5, <1>6 DEF Held
  <2> QED
    BY <1>1, <1>6, <2>1, Zenon
<1>10. /\ t.reasoning = NoItem \/ t.reasoning.type = "reasoning"
       /\ t.text = NoItem \/ t.text.type = "message"
       /\ \A n \in DOMAIN t.tools : t.tools[n].type = "function_call"
       /\ \A m, n \in DOMAIN t.tools : t.tools[m].at = t.tools[n].at => m = n
  BY <1>1, <1>5, <1>6
<1>11. ItemsGood(t)
  BY <1>6, <1>8, <1>9, <1>10 DEF ItemsGood
<1>12. ResponsesShow(t, text, calls)
  BY <1>6 DEF ResponsesShow
<1> QED
  BY <1>5, <1>6, <1>11, <1>12

\* The open text item goes on.
LEMMA TextGrows ==
    ASSUME NEW s, ItemsGood(s), s.text # NoItem, NEW token \in Nat,
           NEW text, NEW calls, ResponsesShow(s, text, calls)
    PROVE  LET t == [Say(s, <<<<"delta", s.text.at, token>>>>) EXCEPT !.text.body = Append(@, token)]
           IN  /\ ItemsGood(t) /\ ResponsesShow(t, Append(text, token), calls)
               /\ t.reasoning = s.reasoning /\ t.tools = s.tools /\ t.dumped = s.dumped
<1> DEFINE t == [Say(s, <<<<"delta", s.text.at, token>>>>) EXCEPT !.text.body = Append(@, token)]
           x == <<"delta", s.text.at, token>>
           new == [s.text EXCEPT !.body = Append(@, token)]
<1> SUFFICES /\ ItemsGood(t) /\ ResponsesShow(t, Append(text, token), calls)
             /\ t.reasoning = s.reasoning /\ t.tools = s.tools /\ t.dumped = s.dumped
  OBVIOUS
<1>1. /\ s \in ItemStreams
      /\ s.next \in Nat \ {0} /\ s.reasoning \in ItemRecords /\ s.text \in ItemRecords
      /\ s.tools \in Seq(ItemRecords) /\ s.output \in Seq(ItemRecords)
      /\ s.dumped \in BOOLEAN /\ s.out \in Seq(ItemFrames)
      /\ ItemsSent(s.out, s.next, Slots(s) \cup Elements(s.tools), Elements(s.output))
      /\ Len(s.tools) + Len(s.output) + Held(s.reasoning) + Held(s.text) = s.next - 1
      /\ Len(s.tools) \in Nat /\ Len(s.output) \in Nat
      /\ s.reasoning = NoItem \/ s.reasoning.type = "reasoning"
      /\ s.text = NoItem \/ s.text.type = "message"
      /\ \A n \in DOMAIN s.tools : s.tools[n].type = "function_call"
      /\ \A m, n \in DOMAIN s.tools : s.tools[m].at = s.tools[n].at => m = n
      /\ NoItem \notin Elements(s.tools) /\ s.reasoning \notin Elements(s.tools)
      /\ s.text \notin Elements(s.tools)
      /\ s.reasoning # NoItem => s.reasoning # s.text
      /\ s.text # NoItem => s.reasoning # s.text
  BY GoodFacts
<1>2. x \in ItemFrames
  BY <1>1, ItemFields DEF ItemFrames, ItemKinds
<1>3. s.out \o <<x>> = Append(s.out, x) /\ Append(s.out, x) \in Seq(ItemFrames)
  <2>1. s.out \o <<x>> = Append(s.out, x)
    BY <1>1, <1>2, Together
  <2> HIDE DEF x
  <2>2. Append(s.out, x) \in Seq(ItemFrames)
    BY <1>1, <1>2, AppendProperties
  <2> QED
    BY <2>1, <2>2 DEF x
<1>4. t = [s EXCEPT !.out = s.out \o <<x>>, !.text = new]
  <2> DEFINE u == s.out \o <<x>>
  <2>1. t = [[s EXCEPT !.out = u] EXCEPT !.text.body = Append(@, token)]
    BY DEF Say
  <2> HIDE DEF u, x
  <2>2. [s EXCEPT !.out = u].text = s.text
    BY <1>1 DEF ItemStreams
  <2> QED
    BY <1>1, <2>1, <2>2 DEF u, ItemStreams, ItemRecords
<1>5. /\ new \in ItemRecords /\ new.at = s.text.at /\ new.type = "message" /\ new.index = s.text.index
      /\ new.body = Append(s.text.body, token) /\ new # NoItem
  <2>1. /\ new \in ItemRecords /\ new.at = s.text.at /\ new.type = s.text.type /\ new.index = s.text.index
        /\ new.body = Append(s.text.body, token)
    BY <1>1, ItemGrown
  <2>2. s.text.type = "message" /\ NoItem.type = "none"
    BY <1>1 DEF NoItem
  <2> HIDE DEF new
  <2> QED
    BY <2>1, <2>2
<1>6. /\ t \in ItemStreams
      /\ t.out = Append(s.out, x) /\ t.next = s.next /\ t.text = new
      /\ t.reasoning = s.reasoning /\ t.tools = s.tools /\ t.output = s.output /\ t.dumped = s.dumped
  <2> DEFINE a == Append(s.out, x)
  <2>1. t = [s EXCEPT !.out = a, !.text = new]
    BY <1>3, <1>4
  <2> HIDE DEF a, new
  <2> QED
    BY <1>1, <1>3, <1>5, <2>1 DEF ItemStreams, a
<1> HIDE DEF t, new
<1>7. Slots(t) \cup Elements(t.tools) = ((Slots(s) \cup Elements(s.tools)) \ {s.text}) \cup {new}
  BY <1>1, <1>5, <1>6 DEF Slots
<1>8. ItemsSent(t.out, t.next, Slots(t) \cup Elements(t.tools), Elements(t.output))
  <2>1. s.text \in Slots(s) \cup Elements(s.tools)
    BY DEF Slots
  <2>2. ItemsSent(Append(s.out, x), s.next, ((Slots(s) \cup Elements(s.tools)) \ {s.text}) \cup {new},
                  Elements(s.output))
    BY <1>1, <2>1, ItemsGrow DEF new
  <2> QED
    BY <1>6, <1>7, <2>2, Zenon
<1>9. Len(t.tools) + Len(t.output) + Held(t.reasoning) + Held(t.text) = t.next - 1
  <2>1. Held(t.reasoning) = Held(s.reasoning) /\ Held(t.text) = Held(s.text)
    BY <1>5, <1>6 DEF Held
  <2> QED
    BY <1>1, <1>6, <2>1, Zenon
<1>10. /\ t.reasoning = NoItem \/ t.reasoning.type = "reasoning"
       /\ t.text = NoItem \/ t.text.type = "message"
       /\ \A n \in DOMAIN t.tools : t.tools[n].type = "function_call"
       /\ \A m, n \in DOMAIN t.tools : t.tools[m].at = t.tools[n].at => m = n
  BY <1>1, <1>5, <1>6
<1>11. ItemsGood(t)
  BY <1>6, <1>8, <1>9, <1>10 DEF ItemsGood
<1>12. ResponsesShow(t, Append(text, token), calls)
  <2> DEFINE u == Said(s.output, "message")
  <2>1. u \in Seq(Nat) /\ s.text.body \in Seq(Nat)
    BY <1>1, SaidType, ItemFields
  <2> HIDE DEF u
  <2> DEFINE b == s.text.body
  <2>2. u \o Append(b, token) = Append(u \o b, token)
    <3> HIDE DEF b
    <3>1. b \in Seq(Nat)
      BY <2>1 DEF b
    <3> QED
      BY <2>1, <3>1, ConcatAppend
  <2>3. u \o s.text.body = text
    BY DEF ResponsesShow, u
  <2>4. u \o t.text.body = Append(text, token)
    BY <1>5, <1>6, <2>2, <2>3, Zenon
  <2> QED
    BY <1>6, <2>4 DEF ResponsesShow, u
<1> QED
  BY <1>5, <1>6, <1>11, <1>12

\* Reasoning is said in the open reasoning item, or in a new one.
LEMMA ReasoningSaid ==
    ASSUME NEW s, ItemsGood(s), NEW token \in Nat, NEW text, NEW calls, ResponsesShow(s, text, calls)
    PROVE  ItemsGood(ReasoningDelta(s, token)) /\ ResponsesShow(ReasoningDelta(s, token), text, calls)
<1> DEFINE t == IF s.reasoning # NoItem THEN s
                ELSE [Added(s, "reasoning", 0) EXCEPT !.reasoning = Item(s.next, "reasoning", 0)]
<1>1. ItemsGood(t) /\ ResponsesShow(t, text, calls) /\ t.reasoning # NoItem
  BY ReasoningStarts
<1>2. ReasoningDelta(s, token) =
        [Say(t, <<<<"delta", t.reasoning.at, token>>>>) EXCEPT !.reasoning.body = Append(@, token)]
  BY DEF ReasoningDelta
<1> HIDE DEF t
<1>3. /\ ItemsGood([Say(t, <<<<"delta", t.reasoning.at, token>>>>) EXCEPT !.reasoning.body = Append(@, token)])
      /\ ResponsesShow([Say(t, <<<<"delta", t.reasoning.at, token>>>>) EXCEPT !.reasoning.body = Append(@, token)],
                       text, calls)
  BY <1>1, ReasoningGrows
<1> QED
  BY <1>2, <1>3, Zenon

\* Text closes the reasoning and is said in the open text item, or in a new one.
LEMMA TextSaid ==
    ASSUME NEW s, ItemsGood(s), NEW token \in Nat, NEW text, NEW calls, ResponsesShow(s, text, calls)
    PROVE  /\ ItemsGood(TextDelta(s, token))
           /\ ResponsesShow(TextDelta(s, token), Append(text, token), calls)
<1> DEFINE c == CloseReasoning(s)
           t == IF c.text # NoItem THEN c
                ELSE [Added(c, "message", 0) EXCEPT !.text = Item(c.next, "message", 0)]
<1>1. ItemsGood(c) /\ ResponsesShow(c, text, calls)
  BY ReasoningCloses
<1>2. TextDelta(s, token) =
        [Say(t, <<<<"delta", t.text.at, token>>>>) EXCEPT !.text.body = Append(@, token)]
  BY DEF TextDelta
<1> HIDE DEF c
<1>3. ItemsGood(t) /\ ResponsesShow(t, text, calls) /\ t.text # NoItem
  BY <1>1, TextStarts
<1> HIDE DEF t
<1>4. /\ ItemsGood([Say(t, <<<<"delta", t.text.at, token>>>>) EXCEPT !.text.body = Append(@, token)])
      /\ ResponsesShow([Say(t, <<<<"delta", t.text.at, token>>>>) EXCEPT !.text.body = Append(@, token)],
                       Append(text, token), calls)
  BY <1>3, TextGrows
<1> QED
  BY <1>2, <1>4, Zenon

\* The preamble of the members' part is reasoning, said once.
LEMMA DumpOpens ==
    ASSUME NEW s, ItemsGood(s), NEW text, NEW calls, ResponsesShow(s, text, calls)
    PROVE  ItemsGood(OpenMemberDump(s)) /\ ResponsesShow(OpenMemberDump(s), text, calls)
<1>1. CASE s.dumped
  BY <1>1 DEF OpenMemberDump
<1>2. CASE ~s.dumped
  <2> DEFINE u == ReasoningDelta(s, ProgressToken)
             t == [u EXCEPT !.dumped = TRUE]
  <2>1. OpenMemberDump(s) = t
    BY <1>2 DEF OpenMemberDump
  <2>2. ItemsGood(u) /\ ResponsesShow(u, text, calls)
    BY ReasoningSaid DEF ProgressToken
  <2> HIDE DEF u
  <2>3. u \in ItemStreams
    BY <2>2 DEF ItemsGood
  <2>4. /\ t \in ItemStreams /\ t.next = u.next /\ t.reasoning = u.reasoning /\ t.text = u.text
        /\ t.tools = u.tools /\ t.output = u.output /\ t.out = u.out
    BY <2>3 DEF ItemStreams
  <2> HIDE DEF t
  <2>5. Slots(t) = Slots(u)
    BY <2>4 DEF Slots
  <2>6. ItemsGood(t)
    <3>1. /\ ItemsSent(u.out, u.next, Slots(u) \cup Elements(u.tools), Elements(u.output))
          /\ Len(u.tools) + Len(u.output) + Held(u.reasoning) + Held(u.text) = u.next - 1
          /\ u.reasoning = NoItem \/ u.reasoning.type = "reasoning"
          /\ u.text = NoItem \/ u.text.type = "message"
          /\ \A n \in DOMAIN u.tools : u.tools[n].type = "function_call"
          /\ \A m, n \in DOMAIN u.tools : u.tools[m].at = u.tools[n].at => m = n
      BY <2>2 DEF ItemsGood
    <3> QED
      BY <2>4, <2>5, <3>1, Zenon DEF ItemsGood
  <2>7. ResponsesShow(t, text, calls)
    BY <2>2, <2>4 DEF ResponsesShow
  <2> QED
    BY <2>1, <2>6, <2>7
<1> QED
  BY <1>1, <1>2

\* The item of a call is announced.
LEMMA ToolStarts ==
    ASSUME NEW s, ItemsGood(s), NEW index \in Nat, NEW token \in Nat,
           NEW text, NEW calls \in Seq(CallRecords), ResponsesShow(s, text, calls)
    PROVE  LET t == [Added(s, "function_call", token)
                       EXCEPT !.tools = Append(@, Item(s.next, "function_call", index))]
           IN  ItemsGood(t) /\ ResponsesShow(t, text, Append(calls, [index |-> index, body |-> <<>>]))
<1> DEFINE t == [Added(s, "function_call", token)
                   EXCEPT !.tools = Append(@, Item(s.next, "function_call", index))]
           x == <<"added", s.next, token>>
           new == Item(s.next, "function_call", index)
           call == [index |-> index, body |-> <<>>]
<1> SUFFICES ItemsGood(t) /\ ResponsesShow(t, text, Append(calls, call))
  OBVIOUS
<1>1. /\ s \in ItemStreams
      /\ s.next \in Nat \ {0} /\ s.reasoning \in ItemRecords /\ s.text \in ItemRecords
      /\ s.tools \in Seq(ItemRecords) /\ s.output \in Seq(ItemRecords)
      /\ s.dumped \in BOOLEAN /\ s.out \in Seq(ItemFrames)
      /\ ItemsSent(s.out, s.next, Slots(s) \cup Elements(s.tools), Elements(s.output))
      /\ Len(s.tools) + Len(s.output) + Held(s.reasoning) + Held(s.text) = s.next - 1
      /\ Len(s.tools) \in Nat /\ Len(s.output) \in Nat
      /\ s.reasoning = NoItem \/ s.reasoning.type = "reasoning"
      /\ s.text = NoItem \/ s.text.type = "message"
      /\ \A n \in DOMAIN s.tools : s.tools[n].type = "function_call"
      /\ \A m, n \in DOMAIN s.tools : s.tools[m].at = s.tools[n].at => m = n
      /\ NoItem \notin Elements(s.tools) /\ s.reasoning \notin Elements(s.tools)
      /\ s.text \notin Elements(s.tools)
      /\ s.reasoning # NoItem => s.reasoning # s.text
      /\ s.text # NoItem => s.reasoning # s.text
  BY GoodFacts
<1>2. x \in ItemFrames
  BY <1>1 DEF ItemFrames, ItemKinds
<1>3. s.out \o <<x>> = Append(s.out, x) /\ Append(s.out, x) \in Seq(ItemFrames)
  <2>1. s.out \o <<x>> = Append(s.out, x)
    BY <1>1, <1>2, Together
  <2> HIDE DEF x
  <2>2. Append(s.out, x) \in Seq(ItemFrames)
    BY <1>1, <1>2, AppendProperties
  <2> QED
    BY <2>1, <2>2 DEF x
<1>4. t = [s EXCEPT !.out = s.out \o <<x>>, !.next = s.next + 1, !.tools = Append(s.tools, new)]
  BY <1>1 DEF Added, Say, ItemStreams
<1>5. /\ new \in ItemRecords /\ new.at = s.next /\ new.type = "function_call" /\ new.body = <<>>
      /\ new.index = index /\ new # NoItem
  <2>1. /\ new \in ItemRecords /\ new.at = s.next /\ new.type = "function_call" /\ new.body = <<>>
        /\ new.index = index
    BY <1>1, ItemNew
  <2> QED
    BY <1>1, <2>1, ItemFields
<1> HIDE DEF new
<1>6. /\ t \in ItemStreams
      /\ t.out = Append(s.out, x) /\ t.next = s.next + 1 /\ t.tools = Append(s.tools, new)
      /\ t.reasoning = s.reasoning /\ t.text = s.text /\ t.output = s.output
  <2> DEFINE a == Append(s.out, x)
             b == s.next + 1
             c == Append(s.tools, new)
  <2>1. t = [s EXCEPT !.out = a, !.next = b, !.tools = c]
    BY <1>3, <1>4
  <2>2. b \in Nat /\ c \in Seq(ItemRecords)
    BY <1>1, <1>5, AppendProperties
  <2> HIDE DEF a, b, c
  <2> QED
    BY <1>1, <1>3, <2>1, <2>2 DEF ItemStreams, a, b, c
<1> HIDE DEF t
<1>7. Slots(t) \cup Elements(t.tools) = (Slots(s) \cup Elements(s.tools)) \cup {new}
  <2>1. Elements(t.tools) = Elements(s.tools) \cup {new}
    BY <1>1, <1>5, <1>6, ElementsMore
  <2>2. Slots(t) = Slots(s)
    BY <1>6 DEF Slots
  <2> QED
    BY <2>1, <2>2
<1>8. ItemsSent(t.out, t.next, Slots(t) \cup Elements(t.tools), Elements(t.output))
  <2>1. ItemsSent(Append(s.out, x), s.next + 1, (Slots(s) \cup Elements(s.tools)) \cup {new}, Elements(s.output))
    BY <1>1, ItemsAdded DEF new
  <2> QED
    BY <1>6, <1>7, <2>1, Zenon
<1>9. /\ Len(t.tools) = Len(s.tools) + 1 /\ DOMAIN s.tools = 1..Len(s.tools)
      /\ DOMAIN t.tools = 1..(Len(s.tools) + 1)
      /\ \A n \in 1..Len(s.tools) : t.tools[n] = s.tools[n]
      /\ t.tools[Len(s.tools) + 1] = new
  <2>1. s.tools \in Seq(ItemRecords) /\ new \in ItemRecords
    BY <1>1, <1>5
  <2> DEFINE a == Append(s.tools, new)
  <2>2. /\ Len(a) = Len(s.tools) + 1 /\ DOMAIN s.tools = 1..Len(s.tools)
        /\ DOMAIN a = 1..(Len(s.tools) + 1)
        /\ \A n \in 1..Len(s.tools) : a[n] = s.tools[n]
        /\ a[Len(s.tools) + 1] = new
    BY <2>1, OneMore
  <2>3. t.tools = a
    BY <1>6
  <2> HIDE DEF a
  <2> QED
    BY <2>2, <2>3
<1>10. Len(t.tools) + Len(t.output) + Held(t.reasoning) + Held(t.text) = t.next - 1
  <2>1. /\ Held(t.reasoning) = Held(s.reasoning) /\ Held(t.text) = Held(s.text)
        /\ Held(s.reasoning) \in Nat /\ Held(s.text) \in Nat
    BY <1>6 DEF Held
  <2> DEFINE a == Len(s.tools)
             b == Len(s.output)
             c == Held(s.reasoning)
             d == Held(s.text)
             n == s.next
             a1 == Len(t.tools)
             b1 == Len(t.output)
             c1 == Held(t.reasoning)
             d1 == Held(t.text)
             n1 == t.next
  <2>3. /\ a \in Nat /\ b \in Nat /\ c \in Nat /\ d \in Nat /\ n \in Nat \ {0} /\ a + b + c + d = n - 1
        /\ a1 = a + 1 /\ b1 = b /\ c1 = c /\ d1 = d /\ n1 = n + 1
    BY <1>1, <1>6, <1>9, <2>1, Zenon
  <2> HIDE DEF a, b, c, d, n, a1, b1, c1, d1, n1
  <2>4. a1 + b1 + c1 + d1 = n1 - 1
    BY <2>3
  <2> QED
    BY <2>4 DEF a, b, c, d, n, a1, b1, c1, d1, n1
<1>11. \A n \in 1..(Len(s.tools) + 1) : n \in 1..Len(s.tools) \/ n = Len(s.tools) + 1
  BY <1>1
<1>12. \A n \in DOMAIN t.tools : t.tools[n].type = "function_call"
  BY <1>1, <1>5, <1>9, <1>11
<1>13. \A m, n \in DOMAIN t.tools : t.tools[m].at = t.tools[n].at => m = n
  <2>1. \A n \in 1..Len(s.tools) : s.tools[n].at # s.next
    <3>1. \A i \in Slots(s) \cup Elements(s.tools) : i.at \in 1..(s.next - 1)
      BY <1>1 DEF ItemsSent
    <3>2. \A n \in 1..Len(s.tools) : s.tools[n].at \in 1..(s.next - 1)
      BY <1>9, <3>1 DEF Elements
    <3> QED
      BY <1>1, <3>2
  <2> SUFFICES ASSUME NEW m \in DOMAIN t.tools, NEW n \in DOMAIN t.tools, t.tools[m].at = t.tools[n].at
               PROVE  m = n
    OBVIOUS
  <2>2. m \in 1..Len(s.tools) \/ (m = Len(s.tools) + 1 /\ t.tools[m].at = s.next)
    BY <1>5, <1>9, <1>11
  <2>3. n \in 1..Len(s.tools) \/ (n = Len(s.tools) + 1 /\ t.tools[n].at = s.next)
    BY <1>5, <1>9, <1>11
  <2>4. \A k \in 1..Len(s.tools) : t.tools[k].at = s.tools[k].at /\ t.tools[k].at # s.next
    BY <1>9, <2>1
  <2> QED
    BY <1>1, <1>9, <2>2, <2>3, <2>4
<1>14. ItemsGood(t)
  BY <1>1, <1>6, <1>8, <1>10, <1>12, <1>13 DEF ItemsGood
<1>15. ResponsesShow(t, text, Append(calls, call))
  <2>1. call \in CallRecords /\ call.index = index /\ call.body = <<>>
    BY EmptySeq DEF CallRecords
  <2> HIDE DEF call
  <2>2. /\ Len(Append(calls, call)) = Len(calls) + 1
        /\ \A n \in 1..Len(calls) : Append(calls, call)[n] = calls[n]
        /\ Append(calls, call)[Len(calls) + 1] = call
    BY <2>1, OneMore
  <2>3. /\ Said(s.output, "message") \o s.text.body = text
        /\ \A n \in DOMAIN s.output : s.output[n].type # "function_call"
        /\ Len(s.tools) = Len(calls)
        /\ \A n \in DOMAIN s.tools : s.tools[n].index = calls[n].index /\ s.tools[n].body = calls[n].body
    BY DEF ResponsesShow
  <2> DEFINE more == Append(calls, call)
  <2> HIDE DEF more
  <2>4. \A n \in DOMAIN t.tools : t.tools[n].index = more[n].index /\ t.tools[n].body = more[n].body
    BY <1>5, <1>9, <1>11, <2>1, <2>2, <2>3 DEF more
  <2>5. Len(t.tools) = Len(more)
    BY <1>9, <2>2, <2>3 DEF more
  <2>6. ResponsesShow(t, text, more)
    BY <1>6, <2>3, <2>4, <2>5 DEF ResponsesShow
  <2> QED
    BY <2>6 DEF more
<1> QED
  BY <1>14, <1>15

\* The item of a call goes on.
LEMMA ToolGrows ==
    ASSUME NEW s, ItemsGood(s), NEW k \in DOMAIN s.tools, NEW token \in Nat,
           NEW text, NEW calls, NEW calls2, ResponsesShow(s, text, calls),
           Len(calls2) = Len(calls),
           \A n \in DOMAIN s.tools :
              /\ calls2[n].index = calls[n].index
              /\ calls2[n].body = IF n = k THEN Append(calls[n].body, token) ELSE calls[n].body
    PROVE  LET t == [Say(s, <<<<"delta", s.tools[k].at, token>>>>) EXCEPT !.tools[k].body = Append(@, token)]
           IN  ItemsGood(t) /\ ResponsesShow(t, text, calls2)
<1> DEFINE t == [Say(s, <<<<"delta", s.tools[k].at, token>>>>) EXCEPT !.tools[k].body = Append(@, token)]
           item == s.tools[k]
           x == <<"delta", item.at, token>>
           new == [item EXCEPT !.body = Append(@, token)]
<1> SUFFICES ItemsGood(t) /\ ResponsesShow(t, text, calls2)
  OBVIOUS
<1>1. /\ s \in ItemStreams
      /\ s.next \in Nat \ {0} /\ s.reasoning \in ItemRecords /\ s.text \in ItemRecords
      /\ s.tools \in Seq(ItemRecords) /\ s.output \in Seq(ItemRecords)
      /\ s.dumped \in BOOLEAN /\ s.out \in Seq(ItemFrames)
      /\ ItemsSent(s.out, s.next, Slots(s) \cup Elements(s.tools), Elements(s.output))
      /\ Len(s.tools) + Len(s.output) + Held(s.reasoning) + Held(s.text) = s.next - 1
      /\ Len(s.tools) \in Nat /\ Len(s.output) \in Nat
      /\ s.reasoning = NoItem \/ s.reasoning.type = "reasoning"
      /\ s.text = NoItem \/ s.text.type = "message"
      /\ \A n \in DOMAIN s.tools : s.tools[n].type = "function_call"
      /\ \A m, n \in DOMAIN s.tools : s.tools[m].at = s.tools[n].at => m = n
      /\ NoItem \notin Elements(s.tools) /\ s.reasoning \notin Elements(s.tools)
      /\ s.text \notin Elements(s.tools)
      /\ s.reasoning # NoItem => s.reasoning # s.text
      /\ s.text # NoItem => s.reasoning # s.text
  BY GoodFacts
<1>a. DOMAIN s.tools = 1..Len(s.tools) /\ item \in ItemRecords /\ item \in Elements(s.tools)
  BY <1>1, LenProperties, ElementOfSeq DEF Elements
<1>2. x \in ItemFrames
  <2> HIDE DEF item
  <2> QED
    BY <1>a, ItemFields DEF ItemFrames, ItemKinds
<1>3. s.out \o <<x>> = Append(s.out, x) /\ Append(s.out, x) \in Seq(ItemFrames)
  <2>1. s.out \o <<x>> = Append(s.out, x)
    BY <1>1, <1>2, Together
  <2> HIDE DEF x
  <2>2. Append(s.out, x) \in Seq(ItemFrames)
    BY <1>1, <1>2, AppendProperties
  <2> QED
    BY <2>1, <2>2 DEF x
<1>5. /\ new \in ItemRecords /\ new.at = item.at /\ new.type = item.type /\ new.index = item.index
      /\ new.body = Append(item.body, token)
  <2> HIDE DEF item
  <2> QED
    BY <1>a, ItemGrown
<1>4. t = [s EXCEPT !.out = s.out \o <<x>>, !.tools = [s.tools EXCEPT ![k] = new]]
  <2> DEFINE u == s.out \o <<x>>
  <2>1. t = [[s EXCEPT !.out = u] EXCEPT !.tools[k].body = Append(@, token)]
    BY DEF Say
  <2> HIDE DEF u, x
  <2>2. [s EXCEPT !.out = u].tools = s.tools
    BY <1>1 DEF ItemStreams
  <2> QED
    BY <1>1, <2>1, <2>2 DEF u, ItemStreams
<1> HIDE DEF new, item
<1>6. /\ t \in ItemStreams
      /\ t.out = Append(s.out, x) /\ t.next = s.next /\ t.tools = [s.tools EXCEPT ![k] = new]
      /\ t.reasoning = s.reasoning /\ t.text = s.text /\ t.output = s.output
  <2> DEFINE a == Append(s.out, x)
             c == [s.tools EXCEPT ![k] = new]
  <2>1. t = [s EXCEPT !.out = a, !.tools = c]
    BY <1>3, <1>4
  <2>2. c \in Seq(ItemRecords)
    BY <1>1, <1>5, ExceptSeq
  <2> HIDE DEF a, c
  <2> QED
    BY <1>1, <1>3, <2>1, <2>2 DEF ItemStreams, a, c
<1> HIDE DEF t
<1>9. /\ Len(t.tools) = Len(s.tools) /\ DOMAIN t.tools = DOMAIN s.tools
      /\ \A n \in DOMAIN s.tools : t.tools[n] = IF n = k THEN new ELSE s.tools[n]
  BY <1>1, <1>5, <1>6, ExceptSeq
<1>7. Slots(t) \cup Elements(t.tools) = ((Slots(s) \cup Elements(s.tools)) \ {item}) \cup {new}
  <2>1. Slots(t) = Slots(s) /\ item \notin Slots(s)
    BY <1>1, <1>6, <1>a DEF Slots
  <2>2. \A n \in DOMAIN s.tools : s.tools[n] = item <=> n = k
    BY <1>1 DEF item
  <2>3. Elements(t.tools) = (Elements(s.tools) \ {item}) \cup {new}
    BY <1>9, <2>2 DEF Elements
  <2> QED
    BY <2>1, <2>3
<1>8. ItemsSent(t.out, t.next, Slots(t) \cup Elements(t.tools), Elements(t.output))
  <2>1. item \in Slots(s) \cup Elements(s.tools)
    BY <1>a
  <2>2. ItemsSent(Append(s.out, x), s.next, ((Slots(s) \cup Elements(s.tools)) \ {item}) \cup {new},
                  Elements(s.output))
    BY <1>1, <2>1, ItemsGrow DEF new
  <2> QED
    BY <1>6, <1>7, <2>2, Zenon
<1>10. Len(t.tools) + Len(t.output) + Held(t.reasoning) + Held(t.text) = t.next - 1
  BY <1>1, <1>6, <1>9, Zenon
<1>12. \A n \in DOMAIN t.tools : t.tools[n].type = "function_call" /\ t.tools[n].at = s.tools[n].at
  BY <1>1, <1>5, <1>9 DEF item
<1>13. \A m, n \in DOMAIN t.tools : t.tools[m].at = t.tools[n].at => m = n
  BY <1>1, <1>9, <1>12
<1>14. ItemsGood(t)
  BY <1>1, <1>6, <1>8, <1>10, <1>12, <1>13 DEF ItemsGood
<1>15. ResponsesShow(t, text, calls2)
  <2>1. /\ Said(s.output, "message") \o s.text.body = text
        /\ \A n \in DOMAIN s.output : s.output[n].type # "function_call"
        /\ Len(s.tools) = Len(calls)
        /\ \A n \in DOMAIN s.tools : s.tools[n].index = calls[n].index /\ s.tools[n].body = calls[n].body
    BY DEF ResponsesShow
  <2>2. ASSUME NEW n \in DOMAIN t.tools
        PROVE  t.tools[n].index = calls2[n].index /\ t.tools[n].body = calls2[n].body
    <3>1. CASE n = k
      <4>1. calls2[k].body = Append(calls[k].body, token) /\ s.tools[k].body = calls[k].body
        BY <1>9, <2>1
      <4>2. t.tools[k] = new /\ new.body = Append(s.tools[k].body, token) /\ new.index = s.tools[k].index
        BY <1>5, <1>9 DEF item
      <4>3. calls2[k].index = calls[k].index /\ s.tools[k].index = calls[k].index
        BY <1>9, <2>1
      <4> QED
        BY <3>1, <4>1, <4>2, <4>3, Zenon
    <3>2. CASE n # k
      BY <1>9, <2>1, <3>2
    <3> QED
      BY <3>1, <3>2
  <2> QED
    BY <1>6, <1>9, <2>1, <2>2 DEF ResponsesShow
<1> QED
  BY <1>14, <1>15

(***************************************************************************)
(* Responses: every event                                                  *)
(***************************************************************************)
\* What an answer adds to a text.
LEMMA Added1 ==
    ASSUME NEW text \in Seq(Nat), NEW token \in Nat
    PROVE  text \o Present(token) = IF token > 0 THEN Append(text, token) ELSE text
<1>1. CASE token > 0
  <2>1. Present(token) = <<token>>
    BY <1>1 DEF Present
  <2>2. text \o <<token>> = Append(text, token)
    BY Together
  <2> QED
    BY <1>1, <2>1, <2>2, Zenon
<1>2. CASE ~(token > 0)
  <2>1. Present(token) = <<>>
    BY <1>2 DEF Present
  <2>2. text \o <<>> = text
    BY ConcatEmptySeq
  <2> QED
    BY <1>2, <2>1, <2>2, Zenon
<1> QED
  BY <1>1, <1>2

\* An answer is said in the reasoning item and in the text item.
LEMMA AnswerSaid ==
    ASSUME NEW s, ItemsGood(s), NEW e, e.reasoning \in Nat, e.content \in Nat,
           NEW text \in Seq(Nat), NEW calls, ResponsesShow(s, text, calls)
    PROVE  ItemsGood(AnswerItems(s, e)) /\ ResponsesShow(AnswerItems(s, e), text \o Present(e.content), calls)
<1> DEFINE t == IF e.reasoning > 0 THEN ReasoningDelta(s, e.reasoning) ELSE s
           c == e.content
           u == IF c > 0 THEN TextDelta(t, c) ELSE t
<1>1. ItemsGood(t) /\ ResponsesShow(t, text, calls)
  BY ReasoningSaid
<1>2. AnswerItems(s, e) = u
  BY DEF AnswerItems
<1> HIDE DEF t
<1>3. c \in Nat
  OBVIOUS
<1>4. text \o Present(c) = IF c > 0 THEN Append(text, c) ELSE text
  BY <1>3, Added1
<1>5. ItemsGood(u) /\ ResponsesShow(u, text \o Present(c), calls)
  <2> HIDE DEF c
  <2>1. CASE c > 0
    <3>1. ItemsGood(TextDelta(t, c)) /\ ResponsesShow(TextDelta(t, c), Append(text, c), calls)
      BY <1>1, <1>3, TextSaid
    <3> QED
      BY <1>4, <2>1, <3>1
  <2>2. CASE ~(c > 0)
    BY <1>1, <1>4, <2>2
  <2> QED
    BY <2>1, <2>2
<1> QED
  BY <1>2, <1>5

\* A call is announced after what was said before it is closed.
LEMMA ToolSaid ==
    ASSUME NEW s, ItemsGood(s), NEW e, e.index \in Nat, e.token \in Nat,
           NEW text, NEW calls \in Seq(CallRecords), ResponsesShow(s, text, calls)
    PROVE  /\ ItemsGood(ToolAdded(s, e))
           /\ ResponsesShow(ToolAdded(s, e), text, Append(calls, [index |-> e.index, body |-> <<>>]))
<1> DEFINE c == CloseReasoning(s)
           t == CloseText(c)
           i == e.index
           k == e.token
           u == [Added(t, "function_call", k) EXCEPT !.tools = Append(@, Item(t.next, "function_call", i))]
<1>1. ItemsGood(c) /\ ResponsesShow(c, text, calls)
  BY ReasoningCloses
<1>2. ToolAdded(s, e) = u
  BY DEF ToolAdded
<1> HIDE DEF c
<1>3. ItemsGood(t) /\ ResponsesShow(t, text, calls)
  BY <1>1, TextCloses
<1>4. i \in Nat /\ k \in Nat
  OBVIOUS
<1> HIDE DEF t, i, k
<1>5. ItemsGood(u) /\ ResponsesShow(u, text, Append(calls, [index |-> i, body |-> <<>>]))
  BY <1>3, <1>4, ToolStarts
<1> HIDE DEF u
<1>6. ItemsGood(ToolAdded(s, e)) /\ ResponsesShow(ToolAdded(s, e), text, Append(calls, [index |-> i, body |-> <<>>]))
  BY <1>2, <1>5, Zenon
<1> QED
  BY <1>6 DEF i

\* A fragment goes to its call, by place.
LEMMA ExtendedAt ==
    ASSUME NEW calls \in Seq(CallRecords), NEW e, e.token \in Nat
    PROVE  /\ Len(Extend(calls, e)) = Len(calls) /\ DOMAIN Extend(calls, e) = DOMAIN calls
           /\ \A n \in DOMAIN calls :
                /\ Extend(calls, e)[n].index = calls[n].index
                /\ Extend(calls, e)[n].body =
                     IF calls[n].index = e.index THEN Append(calls[n].body, e.token) ELSE calls[n].body
<1> DEFINE g == Extend(calls, e)
           t == e.token
<1>1. Len(calls) \in Nat /\ DOMAIN calls = 1..Len(calls) /\ \A n \in 1..Len(calls) : calls[n] \in CallRecords
  BY LenProperties, ElementOfSeq
<1>2. g = [n \in 1..Len(calls) |->
             IF calls[n].index = e.index THEN [calls[n] EXCEPT !.body = Append(@, t)] ELSE calls[n]]
  BY <1>1 DEF Extend
<1>3. ASSUME NEW n \in DOMAIN calls
      PROVE  /\ g[n].index = calls[n].index
             /\ g[n].body = IF calls[n].index = e.index THEN Append(calls[n].body, t) ELSE calls[n].body
  <2> DEFINE c == calls[n]
             b == Append(c.body, t)
  <2>1. g[n] = IF c.index = e.index THEN [c EXCEPT !.body = b] ELSE c
    BY <1>1, <1>2
  <2>2. c \in CallRecords
    BY <1>1
  <2> HIDE DEF b, c, g
  <2>3. [c EXCEPT !.body = b].index = c.index /\ [c EXCEPT !.body = b].body = b
    BY <2>2 DEF CallRecords
  <2>4. g[n].index = c.index /\ g[n].body = IF c.index = e.index THEN b ELSE c.body
    BY <2>1, <2>3
  <2> QED
    BY <2>4 DEF b, c
<1>4. Len(g) = Len(calls) /\ DOMAIN g = DOMAIN calls
  <2>1. g \in Seq(CallRecords)
    BY Extended
  <2>2. DOMAIN g = 1..Len(calls)
    BY <1>2
  <2> HIDE DEF g
  <2>3. Len(g) \in Nat /\ DOMAIN g = 1..Len(g)
    BY <2>1, LenProperties
  <2> QED
    BY <1>1, <2>2, <2>3
<1> QED
  BY <1>3, <1>4

\* A fragment is said in the item of its call.
LEMMA ArgumentsSaid ==
    ASSUME NEW s, ItemsGood(s), NEW e, e.token \in Nat,
           NEW text, NEW calls \in Seq(CallRecords), ResponsesShow(s, text, calls),
           \A m, n \in DOMAIN calls : calls[m].index = calls[n].index => m = n
    PROVE  /\ ItemsGood(ToolArguments(s, e))
           /\ ResponsesShow(ToolArguments(s, e), text, Extend(calls, e))
<1> DEFINE mine == {n \in 1..Len(s.tools) : s.tools[n].index = e.index}
           k == CHOOSE n \in mine : TRUE
           g == Extend(calls, e)
           token == e.token
<1>1. /\ Len(s.tools) = Len(calls)
      /\ \A n \in DOMAIN s.tools : s.tools[n].index = calls[n].index /\ s.tools[n].body = calls[n].body
      /\ DOMAIN s.tools = 1..Len(calls) /\ DOMAIN calls = 1..Len(calls)
  <2>1. s.tools \in Seq(ItemRecords)
    BY GoodFacts
  <2>2. DOMAIN s.tools = 1..Len(s.tools) /\ DOMAIN calls = 1..Len(calls)
    BY <2>1, LenProperties
  <2> QED
    BY <2>2 DEF ResponsesShow
<1>2. /\ Len(g) = Len(calls)
      /\ \A n \in DOMAIN calls :
           /\ g[n].index = calls[n].index
           /\ g[n].body = IF calls[n].index = e.index THEN Append(calls[n].body, token) ELSE calls[n].body
  BY ExtendedAt
<1>3. token \in Nat
  OBVIOUS
<1>4. CASE mine = {}
  <2>1. ToolArguments(s, e) = s
    BY <1>4 DEF ToolArguments
  <2>2. \A n \in DOMAIN s.tools : s.tools[n].index # e.index
    BY <1>1, <1>4
  <2> HIDE DEF g, mine
  <2>3. \A n \in DOMAIN s.tools : s.tools[n].index = g[n].index /\ s.tools[n].body = g[n].body
    BY <1>1, <1>2, <2>2
  <2>4. ResponsesShow(s, text, g)
    BY <1>1, <1>2, <2>3 DEF ResponsesShow
  <2> QED
    BY <2>1, <2>4 DEF g
<1>5. CASE mine # {}
  <2>1. k \in mine
    BY <1>5
  <2> DEFINE u == [Say(s, <<<<"delta", s.tools[k].at, token>>>>) EXCEPT !.tools[k].body = Append(@, token)]
  <2>2. ToolArguments(s, e) = u
    BY <1>5 DEF ToolArguments
  <2>3. k \in DOMAIN s.tools /\ s.tools[k].index = e.index
    BY <1>1, <2>1
  <2> HIDE DEF g, k, token
  <2>4. \A n \in DOMAIN s.tools :
          /\ g[n].index = calls[n].index
          /\ g[n].body = IF n = k THEN Append(calls[n].body, token) ELSE calls[n].body
    BY <1>1, <1>2, <2>3
  <2>5. ItemsGood(u) /\ ResponsesShow(u, text, g)
    BY <1>2, <1>3, <2>3, <2>4, ToolGrows
  <2> HIDE DEF u
  <2> QED
    BY <2>2, <2>5 DEF g
<1> QED
  BY <1>4, <1>5

\* An event that does not end the run keeps the items in order, and what they say
\* what collect() gathers.
LEMMA ResponsesStep ==
    ASSUME NEW p, p.inline \in BOOLEAN, NEW s, ItemsGood(s), NEW e,
           e.index \in Nat, e.token \in Nat, e.reasoning \in Nat, e.content \in Nat,
           e.kind \notin {"completed", "cut", "failed"},
           NEW r \in Results, ResponsesShow(s, r.text, r.calls),
           \A m, n \in DOMAIN r.calls : r.calls[m].index = r.calls[n].index => m = n
    PROVE  /\ ItemsGood(ResponsesFold(s, e, p))
           /\ ResponsesShow(ResponsesFold(s, e, p), Collect(r, e).text, Collect(r, e).calls)
<1> DEFINE k == e.kind
           u == ResponsesFold(s, e, p)
           v == Collect(r, e)
           text == r.text
           calls == r.calls
<1> SUFFICES ItemsGood(u) /\ ResponsesShow(u, v.text, v.calls)
  OBVIOUS
<1>0. text \in Seq(Nat) /\ calls \in Seq(CallRecords)
  BY DEF Results
<1>1. CASE k \in {"fanout_started", "member"}
  <2>1. v.text = text /\ v.calls = calls
    BY <1>1 DEF Collect, Results
  <2> DEFINE d == OpenMemberDump(s)
             t == e.token
             w == ReasoningDelta(d, t)
  <2>2. ItemsGood(d) /\ ResponsesShow(d, text, calls)
    BY DumpOpens
  <2>3. u = IF p.inline THEN IF k = "member" THEN w ELSE d ELSE s
    BY <1>1 DEF ResponsesFold
  <2>4. t \in Nat
    OBVIOUS
  <2> HIDE DEF d, t, v
  <2>5. ItemsGood(w) /\ ResponsesShow(w, text, calls)
    BY <2>2, <2>4, ReasoningSaid
  <2> HIDE DEF w, u
  <2> QED
    BY <2>1, <2>2, <2>3, <2>5
<1>2. CASE k = "synthesis"
  <2>1. u = CloseReasoning(s)
    BY <1>2 DEF ResponsesFold
  <2>2. v = r
    BY <1>2 DEF Collect
  <2> HIDE DEF u, v
  <2> QED
    BY <2>1, <2>2, ReasoningCloses
<1>3. CASE k = "answer"
  <2>1. u = AnswerItems(s, e)
    BY <1>3 DEF ResponsesFold
  <2>2. v.text = text \o Present(e.content) /\ v.calls = calls
    BY <1>3 DEF Collect, Results
  <2>3. ItemsGood(AnswerItems(s, e)) /\ ResponsesShow(AnswerItems(s, e), text \o Present(e.content), calls)
    BY <1>0, AnswerSaid
  <2> HIDE DEF u, v
  <2> QED
    BY <2>1, <2>2, <2>3, Zenon
<1>4. CASE k = "tool"
  <2>1. u = ToolAdded(s, e)
    BY <1>4 DEF ResponsesFold
  <2>2. v.text = text /\ v.calls = Append(calls, [index |-> e.index, body |-> <<>>])
    BY <1>4 DEF Collect, Results
  <2>3. /\ ItemsGood(ToolAdded(s, e))
        /\ ResponsesShow(ToolAdded(s, e), text, Append(calls, [index |-> e.index, body |-> <<>>]))
    BY <1>0, ToolSaid
  <2> HIDE DEF u, v
  <2> QED
    BY <2>1, <2>2, <2>3, Zenon
<1>5. CASE k = "arguments"
  <2>1. u = ToolArguments(s, e)
    BY <1>5 DEF ResponsesFold
  <2>2. v.text = text /\ v.calls = Extend(calls, e)
    BY <1>5 DEF Collect, Results
  <2>3. ItemsGood(ToolArguments(s, e)) /\ ResponsesShow(ToolArguments(s, e), text, Extend(calls, e))
    BY <1>0, ArgumentsSaid
  <2> HIDE DEF u, v
  <2> QED
    BY <2>1, <2>2, <2>3, Zenon
<1>6. CASE k \notin {"fanout_started", "member", "synthesis", "answer", "tool", "arguments"}
  <2>1. u = s /\ v = r
    BY <1>6 DEF ResponsesFold, Collect
  <2> QED
    BY <2>1
<1> QED
  BY <1>1, <1>2, <1>3, <1>4, <1>5, <1>6

\* The elements of two sequences.
LEMMA ElementsBoth ==
    ASSUME NEW S, NEW f \in Seq(S), NEW g \in Seq(S)
    PROVE  Elements(f \o g) = Elements(f) \cup Elements(g)
<1> DEFINE h == f \o g
<1>1. /\ Len(f) \in Nat /\ Len(g) \in Nat /\ Len(h) = Len(f) + Len(g) /\ DOMAIN h = 1..Len(h)
      /\ DOMAIN f = 1..Len(f) /\ DOMAIN g = 1..Len(g)
      /\ \A n \in 1..(Len(f) + Len(g)) : h[n] = IF n <= Len(f) THEN f[n] ELSE g[n - Len(f)]
  <2>1. h \in Seq(S) /\ Len(h) = Len(f) + Len(g)
        /\ \A n \in 1..(Len(f) + Len(g)) : h[n] = IF n <= Len(f) THEN f[n] ELSE g[n - Len(f)]
    BY ConcatProperties
  <2> HIDE DEF h
  <2> QED
    BY <2>1, LenProperties
<1> HIDE DEF h
<1>2. \A n \in DOMAIN h : \/ n \in DOMAIN f /\ h[n] = f[n]
                          \/ n - Len(f) \in DOMAIN g /\ h[n] = g[n - Len(f)]
  BY <1>1
<1>3. \A n \in DOMAIN f : n \in DOMAIN h /\ h[n] = f[n]
  BY <1>1
<1>4. \A n \in DOMAIN g : n + Len(f) \in DOMAIN h /\ h[n + Len(f)] = g[n]
  BY <1>1
<1>5. {h[n] : n \in DOMAIN h} = {f[n] : n \in DOMAIN f} \cup {g[n] : n \in DOMAIN g}
  <2>1. ASSUME NEW y \in {h[n] : n \in DOMAIN h} PROVE y \in {f[n] : n \in DOMAIN f} \cup {g[n] : n \in DOMAIN g}
    BY <1>2
  <2>2. ASSUME NEW y \in {f[n] : n \in DOMAIN f} PROVE y \in {h[n] : n \in DOMAIN h}
    BY <1>3
  <2>3. ASSUME NEW y \in {g[n] : n \in DOMAIN g} PROVE y \in {h[n] : n \in DOMAIN h}
    BY <1>4
  <2> QED
    BY <2>1, <2>2, <2>3
<1> QED
  BY <1>5 DEF Elements, h

\* The calls as a set, with what they say.
CallSet(items) == {<<items[n].index, items[n].body>> : n \in DOMAIN items}

\* At the end all items are closed and put out, and the last frame follows.
LEMMA ResponsesOver ==
    ASSUME NEW s, ItemsGood(s), NEW text, NEW calls \in Seq(CallRecords), ResponsesShow(s, text, calls),
           NEW kind \in {"completed", "failed"}
    PROVE  LET u == Say(CloseAll(s), <<ResponsesFrame(kind)>>)
           IN  /\ ItemsEnded(u)
               /\ Said(u.output, "message") = text
               /\ {<<u.output[n].index, u.output[n].body>> :
                      n \in {m \in DOMAIN u.output : u.output[m].type = "function_call"}} = CallSet(calls)
<1> DEFINE c == CloseText(CloseReasoning(s))
           d == [n \in 1..Len(c.tools) |-> <<"done", c.tools[n].at, 0>>]
           x == ResponsesFrame(kind)
           f == c.out \o d
           g == Append(f, x)
           put == c.output \o c.tools
           u == Say(CloseAll(s), <<x>>)
<1> SUFFICES /\ ItemsEnded(u)
             /\ Said(u.output, "message") = text
             /\ {<<u.output[n].index, u.output[n].body>> :
                    n \in {m \in DOMAIN u.output : u.output[m].type = "function_call"}} = CallSet(calls)
  OBVIOUS
<1>1. ItemsGood(c) /\ ResponsesShow(c, text, calls) /\ c.reasoning = NoItem /\ c.text = NoItem
  <2> DEFINE b == CloseReasoning(s)
  <2>1. ItemsGood(b) /\ ResponsesShow(b, text, calls) /\ b.reasoning = NoItem
    BY ReasoningCloses
  <2> HIDE DEF b
  <2>2. LET a == CloseText(b) IN
        ItemsGood(a) /\ ResponsesShow(a, text, calls) /\ a.reasoning = NoItem /\ a.text = NoItem
    BY <2>1, TextCloses
  <2> QED
    BY <2>2 DEF b
<1>2. CloseAll(s) = FinalizeTools(c)
  BY DEF CloseAll
<1> HIDE DEF c
<1>3. /\ c \in ItemStreams
      /\ c.next \in Nat \ {0} /\ c.tools \in Seq(ItemRecords) /\ c.output \in Seq(ItemRecords)
      /\ c.out \in Seq(ItemFrames)
      /\ ItemsSent(c.out, c.next, Elements(c.tools), Elements(c.output))
      /\ Len(c.tools) + Len(c.output) + Held(c.reasoning) + Held(c.text) = c.next - 1
      /\ Len(c.tools) \in Nat /\ Len(c.output) \in Nat
      /\ \A n \in DOMAIN c.tools : c.tools[n].type = "function_call"
      /\ \A m, n \in DOMAIN c.tools : c.tools[m].at = c.tools[n].at => m = n
  <2>1. Slots(c) \cup Elements(c.tools) = Elements(c.tools)
    BY <1>1 DEF Slots
  <2>2. ItemsSent(c.out, c.next, Slots(c) \cup Elements(c.tools), Elements(c.output))
    BY <1>1, GoodFacts
  <2>3. ItemsSent(c.out, c.next, Elements(c.tools), Elements(c.output))
    BY <2>1, <2>2
  <2> QED
    BY <1>1, <2>3, GoodFacts
<1>4. ItemsSent(f, c.next, {}, Elements(c.output) \cup Elements(c.tools))
  BY <1>3, ItemsFinalized
<1>5. Elements(put) = Elements(c.output) \cup Elements(c.tools) /\ put \in Seq(ItemRecords)
      /\ Len(put) = Len(c.output) + Len(c.tools)
  BY <1>3, ElementsBoth, ConcatProperties
<1>6. Len(put) = c.next - 1
  <2>1. Held(c.reasoning) = 0 /\ Held(c.text) = 0
    BY <1>1 DEF Held
  <2> DEFINE a == Len(c.tools)
             b == Len(c.output)
             k == Len(put)
             n == c.next
             h == Held(c.reasoning)
             j == Held(c.text)
  <2>2. a \in Nat /\ b \in Nat /\ n \in Nat \ {0} /\ a + b + h + j = n - 1 /\ k = b + a /\ h = 0 /\ j = 0
    BY <1>3, <1>5, <2>1, Zenon
  <2> HIDE DEF a, b, k, n, h, j
  <2>3. k = n - 1
    BY <2>2
  <2> QED
    BY <2>3 DEF k, n
<1>7. f \in Seq(ItemFrames) /\ x \in ItemFrames /\ x[1] = kind
  <2>1. f \in Seq(ItemFrames)
    BY <1>4 DEF ItemsSent
  <2>2. x \in ItemFrames /\ x[1] = kind
    BY DEF ResponsesFrame, ItemFrames, ItemKinds
  <2> QED
    BY <2>1, <2>2
<1>8. u.next = c.next /\ u.out = g /\ u.output = put
  <2>1. f \o <<x>> = g
    <3> HIDE DEF f, x
    <3> QED
      BY <1>7, OneTogether
  <2>2. FinalizeTools(c) = [[c EXCEPT !.out = f] EXCEPT !.output = @ \o c.tools, !.tools = <<>>]
    BY <1>3 DEF FinalizeTools, Say, ItemStreams
  <2> DEFINE w == FinalizeTools(c)
  <2> HIDE DEF f, x
  <2>3. w.next = c.next /\ w.out = f /\ w.output = put /\ DOMAIN w = DOMAIN c
    BY <1>3, <2>2 DEF ItemStreams
  <2>4. u = [w EXCEPT !.out = @ \o <<x>>]
    BY <1>2 DEF Say
  <2> HIDE DEF w, put, u, g
  <2>5. u.next = w.next /\ u.out = w.out \o <<x>> /\ u.output = w.output
    <3>1. "next" \in DOMAIN w /\ "out" \in DOMAIN w /\ "output" \in DOMAIN w
      BY <1>3, <2>3 DEF ItemStreams
    <3> QED
      BY <2>4, <3>1
  <2> QED
    BY <2>1, <2>3, <2>5
<1> HIDE DEF f, x, put, u
<1>9. /\ g \in Seq(ItemFrames) /\ Len(f) \in Nat /\ DOMAIN f = 1..Len(f) /\ Len(g) = Len(f) + 1
      /\ DOMAIN g = 1..(Len(f) + 1)
      /\ \A n \in 1..Len(f) : g[n] = f[n]
      /\ g[Len(f) + 1] = x
  BY <1>7, ItemFrame
<1>10. /\ \A n \in DOMAIN f :
            /\ f[n][1] \notin {"completed", "failed"}
            /\ f[n][1] \in {"added", "delta", "done"} => f[n][2] \in 1..(c.next - 1)
       /\ \A i \in Elements(put) : ItemSent(f, i.at, i.body, TRUE)
       /\ {i.at : i \in Elements(put)} = 1..(c.next - 1)
  BY <1>4, <1>5 DEF ItemsSent
<1>11. \A i \in Elements(put) : ItemSent(g, i.at, i.body, TRUE)
  BY <1>7, <1>10, ItemKept
<1> HIDE DEF g
<1>12. \A n \in DOMAIN g : g[n][1] \in {"added", "delta", "done"} => g[n][2] \in 1..(c.next - 1)
  <2>1. \A n \in DOMAIN g : n \in DOMAIN f \/ n = Len(f) + 1
    BY <1>9
  <2> QED
    BY <1>7, <1>9, <1>10, <2>1
<1>13. IsLast(g, {"completed", "failed"})
  <2>1. \A n \in DOMAIN g : n \in DOMAIN f \/ n = Len(f) + 1
    BY <1>9
  <2> QED
    BY <1>7, <1>9, <1>10, <2>1 DEF IsLast
<1>14. ItemsEnded(u)
  BY <1>3, <1>5, <1>6, <1>8, <1>9, <1>10, <1>11, <1>12, <1>13 DEF ItemsEnded
<1>15. Said(u.output, "message") = text
  <2>1. Said(put, "message") = Said(c.output, "message")
    <3>1. \A n \in 1..Len(c.tools) : c.tools[n].type # "message"
      BY <1>3, LenProperties
    <3> QED
      BY <1>3, <3>1, SaidSilent DEF put
  <2>2. Said(c.output, "message") \o c.text.body = text
    BY <1>1 DEF ResponsesShow
  <2> DEFINE v == Said(c.output, "message")
  <2>3. v \in Seq(Nat) /\ c.text.body = <<>>
    BY <1>1, <1>3, SaidType, ItemFields
  <2> HIDE DEF v
  <2>4. v \o <<>> = v
    BY <2>3, ConcatEmptySeq
  <2>5. v = text
    BY <2>2, <2>3, <2>4, Zenon DEF v
  <2> QED
    BY <1>8, <2>1, <2>5 DEF v
<1>16. {<<put[n].index, put[n].body>> : n \in {m \in DOMAIN put : put[m].type = "function_call"}} = CallSet(calls)
  <2>1. {<<put[n].index, put[n].body>> : n \in {m \in DOMAIN put : put[m].type = "function_call"}} =
        {<<i.index, i.body>> : i \in {j \in Elements(put) : j.type = "function_call"}}
    BY DEF Elements
  <2>2. {j \in Elements(put) : j.type = "function_call"} = Elements(c.tools)
    <3>1. \A j \in Elements(c.output) : j.type # "function_call"
      BY <1>1 DEF ResponsesShow, Elements
    <3>2. \A j \in Elements(c.tools) : j.type = "function_call"
      BY <1>3 DEF Elements
    <3> QED
      BY <1>5, <3>1, <3>2
  <2>3. {<<i.index, i.body>> : i \in Elements(c.tools)} = CallSet(calls)
    <3>1. DOMAIN c.tools = DOMAIN calls
      <4>1. Len(c.tools) = Len(calls)
        BY <1>1 DEF ResponsesShow
      <4>2. DOMAIN c.tools = 1..Len(c.tools) /\ DOMAIN calls = 1..Len(calls)
        BY <1>3, LenProperties
      <4> QED
        BY <4>1, <4>2
    <3>2. \A n \in DOMAIN c.tools : c.tools[n].index = calls[n].index /\ c.tools[n].body = calls[n].body
      BY <1>1 DEF ResponsesShow
    <3>3. {<<i.index, i.body>> : i \in Elements(c.tools)} = {<<c.tools[n].index, c.tools[n].body>> : n \in DOMAIN c.tools}
      BY DEF Elements
    <3> QED
      BY <3>1, <3>2, <3>3 DEF CallSet
  <2> QED
    BY <2>1, <2>2, <2>3
<1> QED
  BY <1>8, <1>14, <1>15, <1>16

\* At first there is no item, or the one the notices are said in.
LEMMA ResponsesBegin ==
    ASSUME NEW p
    PROVE  ItemsGood(ResponsesStart(p)) /\ ResponsesShow(ResponsesStart(p), <<>>, <<>>)
<1> DEFINE f == <<ResponsesFrame("created"), ResponsesFrame("in_progress")>>
           s == [next |-> 1, reasoning |-> NoItem, text |-> NoItem, tools |-> <<>>, output |-> <<>>,
                 dumped |-> FALSE, out |-> f]
           e == <<>>
<1>1. f \in Seq(ItemFrames) /\ Len(f) = 2 /\ \A n \in DOMAIN f : f[n][1] \in {"created", "in_progress"}
  <2>1. ResponsesFrame("created") \in ItemFrames /\ ResponsesFrame("in_progress") \in ItemFrames
    BY DEF ResponsesFrame, ItemFrames, ItemKinds
  <2>2. f \in Seq(ItemFrames) /\ Len(f) = 2
    BY <2>1
  <2>3. \A n \in 1..2 : f[n][1] \in {"created", "in_progress"}
    BY DEF ResponsesFrame
  <2>4. DOMAIN f = 1..2
    OBVIOUS
  <2> QED
    BY <2>2, <2>3, <2>4
<1> HIDE DEF f
<1>2. /\ e \in Seq(ItemRecords) /\ Len(e) = 0 /\ DOMAIN e = {} /\ Elements(e) = {}
  BY EmptySeq DEF Elements
<1>3. s \in ItemStreams
  BY <1>1, <1>2, ItemFields DEF ItemStreams
<1>4. ItemsSent(f, 1, {}, {})
  BY <1>1 DEF ItemsSent
<1>5. Slots(s) = {} /\ Held(s.reasoning) = 0 /\ Held(s.text) = 0
  BY DEF Slots, Held
<1>6. ItemsGood(s)
  <2>1. Slots(s) \cup Elements(s.tools) = {} /\ Elements(s.output) = {}
    BY <1>2, <1>5
  <2>2. Len(s.tools) + Len(s.output) + Held(s.reasoning) + Held(s.text) = s.next - 1
    BY <1>2, <1>5
  <2>3. s.out = f /\ s.next = 1 /\ s.reasoning = NoItem /\ s.text = NoItem /\ DOMAIN s.tools = {}
    BY <1>2
  <2> HIDE DEF s
  <2> QED
    BY <1>3, <1>4, <2>1, <2>2, <2>3 DEF ItemsGood
<1>7. ResponsesShow(s, <<>>, <<>>)
  <2>1. Said(<<>>, "message") = <<>> /\ NoItem.body = <<>>
    BY SaidNone, ItemFields
  <2>2. <<>> \o <<>> = <<>>
    BY ConcatEmptySeq, EmptySeq
  <2>3. s.output = <<>> /\ s.tools = <<>> /\ s.text.body = <<>> /\ DOMAIN s.output = {} /\ DOMAIN s.tools = {}
    BY <1>2, <2>1
  <2> HIDE DEF s
  <2>4. Said(s.output, "message") \o s.text.body = <<>>
    BY <2>1, <2>2, <2>3, Zenon
  <2> QED
    BY <2>3, <2>4 DEF ResponsesShow
<1>8. ResponsesStart(p) = IF p.notices THEN ReasoningDelta(OpenMemberDump(s), NoticesToken) ELSE s
  BY DEF ResponsesStart, f
<1> DEFINE d == OpenMemberDump(s)
<1> HIDE DEF s
<1>9. ItemsGood(d) /\ ResponsesShow(d, <<>>, <<>>)
  BY <1>6, <1>7, DumpOpens
<1> HIDE DEF d
<1>10. ItemsGood(ReasoningDelta(d, NoticesToken)) /\ ResponsesShow(ReasoningDelta(d, NoticesToken), <<>>, <<>>)
  BY <1>9, ReasoningSaid DEF NoticesToken
<1> QED
  BY <1>6, <1>7, <1>8, <1>10 DEF d

(***************************************************************************)
(* Chat Completions: what a client sees                                    *)
(***************************************************************************)
\* What a further frame adds to what was seen.
LEMMA ChatSees ==
    ASSUME NEW f \in Seq(ChatFrames), NEW x \in ChatFrames
    PROVE  LET g == Append(f, x) IN
           /\ Tokens(g, {"content"}, Nat) =
                IF x[1] = "content" THEN Append(Tokens(f, {"content"}, Nat), x[3]) ELSE Tokens(f, {"content"}, Nat)
           /\ Tokens(g, {"reasoning"}, Nat) =
                IF x[1] = "reasoning" THEN Append(Tokens(f, {"reasoning"}, Nat), x[3])
                ELSE Tokens(f, {"reasoning"}, Nat)
           /\ \A i : Tokens(g, Deltas, {i}) =
                IF x[1] \in Deltas /\ x[2] = i THEN Append(Tokens(f, Deltas, {i}), x[3])
                ELSE Tokens(f, Deltas, {i})
           /\ Sent(g, Opening, Nat) =
                IF x[1] \in Opening THEN Append(Sent(f, Opening, Nat), x) ELSE Sent(f, Opening, Nat)
<1> DEFINE g == Append(f, x)
<1>1. f \in Seq(FramesOf(ChatKinds)) /\ x \in FramesOf(ChatKinds) /\ x[2] \in Nat
  BY DEF ChatFrames, FramesOf
<1>2. ASSUME NEW kinds, NEW at
      PROVE  /\ Tokens(g, kinds, at) =
                  IF x[1] \in kinds /\ x[2] \in at THEN Append(Tokens(f, kinds, at), x[3]) ELSE Tokens(f, kinds, at)
             /\ Sent(g, kinds, at) =
                  IF x[1] \in kinds /\ x[2] \in at THEN Append(Sent(f, kinds, at), x) ELSE Sent(f, kinds, at)
  BY <1>1, TokensMore, SentMore
<1> HIDE DEF g
<1>3. ASSUME NEW k
      PROVE  Tokens(g, {k}, Nat) = IF x[1] = k THEN Append(Tokens(f, {k}, Nat), x[3]) ELSE Tokens(f, {k}, Nat)
  <2> DEFINE K == {k}
  <2>1. Tokens(g, K, Nat) = IF x[1] \in K /\ x[2] \in Nat THEN Append(Tokens(f, K, Nat), x[3]) ELSE Tokens(f, K, Nat)
    BY <1>2
  <2>2. x[1] \in K <=> x[1] = k
    OBVIOUS
  <2> HIDE DEF K
  <2>3. Tokens(g, K, Nat) = IF x[1] = k THEN Append(Tokens(f, K, Nat), x[3]) ELSE Tokens(f, K, Nat)
    BY <1>1, <2>1, <2>2
  <2> QED
    BY <2>3 DEF K
<1>4. ASSUME NEW i
      PROVE  Tokens(g, Deltas, {i}) =
                IF x[1] \in Deltas /\ x[2] = i THEN Append(Tokens(f, Deltas, {i}), x[3]) ELSE Tokens(f, Deltas, {i})
  <2> DEFINE K == {i}
  <2>1. Tokens(g, Deltas, K) =
          IF x[1] \in Deltas /\ x[2] \in K THEN Append(Tokens(f, Deltas, K), x[3]) ELSE Tokens(f, Deltas, K)
    BY <1>2
  <2>2. x[2] \in K <=> x[2] = i
    OBVIOUS
  <2> HIDE DEF K
  <2>3. Tokens(g, Deltas, K) =
          IF x[1] \in Deltas /\ x[2] = i THEN Append(Tokens(f, Deltas, K), x[3]) ELSE Tokens(f, Deltas, K)
    BY <2>1, <2>2
  <2> QED
    BY <2>3 DEF K
<1>5. Sent(g, Opening, Nat) = IF x[1] \in Opening THEN Append(Sent(f, Opening, Nat), x) ELSE Sent(f, Opening, Nat)
  BY <1>1, <1>2
<1> QED
  BY <1>3, <1>4, <1>5 DEF g

\* A frame that is neither of the answer nor of the think block is not seen in them.
LEMMA SeesNothing ==
    ASSUME NEW f \in Seq(ChatFrames), NEW text, NEW reasoning, NEW calls, NEW headers, NEW seen,
           ChatSaw(f, text, reasoning, calls, headers, seen),
           NEW k \in {"role", "tool", "finish", "usage", "error", "[DONE]"}, NEW i \in Nat, NEW t \in Nat
    PROVE  /\ Append(f, <<k, i, t>>) \in Seq(ChatFrames)
           /\ ChatSaw(Append(f, <<k, i, t>>), text, reasoning, calls, headers, seen)
<1> DEFINE x == <<k, i, t>>
           g == Append(f, x)
<1>1. x \in ChatFrames /\ x[1] \notin Opening \cup Deltas \cup {"content", "reasoning"}
  BY DEF ChatFrames, ChatKinds, Opening, Deltas
<1> HIDE DEF x
<1>2. g \in Seq(ChatFrames)
  BY <1>1, OneMore
<1>3. /\ Tokens(g, {"content"}, Nat) = Tokens(f, {"content"}, Nat)
      /\ Tokens(g, {"reasoning"}, Nat) = Tokens(f, {"reasoning"}, Nat)
      /\ \A j : Tokens(g, Deltas, {j}) = Tokens(f, Deltas, {j})
      /\ Sent(g, Opening, Nat) = Sent(f, Opening, Nat)
  BY <1>1, ChatSees
<1> HIDE DEF g
<1>4. ChatSaw(g, text, reasoning, calls, headers, seen)
  BY <1>3, Zenon DEF ChatSaw
<1> QED
  BY <1>2, <1>4 DEF g, x

\* A frame of the think block.
LEMMA SeesThink ==
    ASSUME NEW f \in Seq(ChatFrames), NEW text, NEW reasoning, NEW calls, NEW headers, NEW seen,
           ChatSaw(f, text, reasoning, calls, headers, seen),
           NEW k \in {"<think>", "progress", "notices", "line", "</think>"}, NEW t \in Nat
    PROVE  /\ Append(f, <<k, 0, t>>) \in Seq(ChatFrames)
           /\ ChatSaw(Append(f, <<k, 0, t>>), text, reasoning, calls, headers, Append(seen, <<k, 0, t>>))
<1> DEFINE x == <<k, 0, t>>
           g == Append(f, x)
<1>1. x \in ChatFrames /\ x[1] \notin Deltas \cup {"content", "reasoning"} /\ x[1] \in Opening
  BY DEF ChatFrames, ChatKinds, Opening, Deltas
<1> HIDE DEF x
<1>2. g \in Seq(ChatFrames)
  BY <1>1, OneMore
<1>3. /\ Tokens(g, {"content"}, Nat) = Tokens(f, {"content"}, Nat)
      /\ Tokens(g, {"reasoning"}, Nat) = Tokens(f, {"reasoning"}, Nat)
      /\ \A j : Tokens(g, Deltas, {j}) = Tokens(f, Deltas, {j})
      /\ Sent(g, Opening, Nat) = Append(Sent(f, Opening, Nat), x)
  BY <1>1, ChatSees
<1> HIDE DEF g
<1>4. ChatSaw(g, text, reasoning, calls, headers, Append(seen, x))
  BY <1>3, Zenon DEF ChatSaw
<1> QED
  BY <1>2, <1>4 DEF g, x

\* A piece of the text or of the reasoning.
LEMMA SeesAnswer ==
    ASSUME NEW f \in Seq(ChatFrames), NEW text, NEW reasoning, NEW calls, NEW headers, NEW seen,
           ChatSaw(f, text, reasoning, calls, headers, seen), NEW t \in Nat
    PROVE  /\ Append(f, <<"content", 0, t>>) \in Seq(ChatFrames)
           /\ ChatSaw(Append(f, <<"content", 0, t>>), Append(text, t), reasoning, calls, headers,
                      Append(seen, <<"content", 0, t>>))
           /\ Append(f, <<"reasoning", 0, t>>) \in Seq(ChatFrames)
           /\ ChatSaw(Append(f, <<"reasoning", 0, t>>), text, Append(reasoning, t), calls, headers, seen)
<1> DEFINE x == <<"content", 0, t>>
           g == Append(f, x)
           y == <<"reasoning", 0, t>>
           h == Append(f, y)
<1>1. x \in ChatFrames /\ x[1] = "content" /\ x[1] \notin Deltas /\ x[1] \in Opening /\ x[3] = t
  BY DEF ChatFrames, ChatKinds, Opening, Deltas
<1>0. y \in ChatFrames /\ y[1] = "reasoning" /\ y[1] \notin Deltas /\ y[1] \notin Opening /\ y[3] = t
  BY DEF ChatFrames, ChatKinds, Opening, Deltas
<1> HIDE DEF x, y
<1>2. g \in Seq(ChatFrames) /\ h \in Seq(ChatFrames)
  BY <1>0, <1>1, OneMore
<1>3. /\ Tokens(g, {"content"}, Nat) = Append(Tokens(f, {"content"}, Nat), t)
      /\ Tokens(g, {"reasoning"}, Nat) = Tokens(f, {"reasoning"}, Nat)
      /\ \A j : Tokens(g, Deltas, {j}) = Tokens(f, Deltas, {j})
      /\ Sent(g, Opening, Nat) = Append(Sent(f, Opening, Nat), x)
  BY <1>1, ChatSees
<1>4. /\ Tokens(h, {"content"}, Nat) = Tokens(f, {"content"}, Nat)
      /\ Tokens(h, {"reasoning"}, Nat) = Append(Tokens(f, {"reasoning"}, Nat), t)
      /\ \A j : Tokens(h, Deltas, {j}) = Tokens(f, Deltas, {j})
      /\ Sent(h, Opening, Nat) = Sent(f, Opening, Nat)
  BY <1>0, ChatSees
<1> HIDE DEF g, h
<1>5. ChatSaw(g, Append(text, t), reasoning, calls, headers, Append(seen, x))
  BY <1>3, Zenon DEF ChatSaw
<1>6. ChatSaw(h, text, Append(reasoning, t), calls, headers, seen)
  BY <1>4, Zenon DEF ChatSaw
<1> QED
  BY <1>2, <1>5, <1>6 DEF g, h, x, y

\* A call is announced: nothing was said of it before.
LEMMA SeesCall ==
    ASSUME NEW f, NEW text, NEW reasoning, NEW calls \in Seq(CallRecords), NEW headers, NEW seen,
           ChatSaw(f, text, reasoning, calls, headers, seen), NEW i \in Nat \ headers
    PROVE  ChatSaw(f, text, reasoning, Append(calls, [index |-> i, body |-> <<>>]), headers \cup {i}, seen)
<1> DEFINE c == [index |-> i, body |-> <<>>]
           g == Append(calls, c)
<1>1. c \in CallRecords /\ c.index = i /\ c.body = <<>>
  BY DEF CallRecords
<1> HIDE DEF c
<1>2. /\ DOMAIN calls = 1 .. Len(calls) /\ DOMAIN g = 1 .. Len(calls) + 1 /\ Len(calls) \in Nat
      /\ \A n \in 1 .. Len(calls) : g[n] = calls[n]
      /\ g[Len(calls) + 1] = c
  BY <1>1, OneMore
<1> HIDE DEF g
<1>3. Tokens(f, Deltas, {i}) = <<>>
  BY DEF ChatSaw
<1>4. ASSUME NEW n \in DOMAIN g
      PROVE  Tokens(f, Deltas, {g[n].index}) = g[n].body
  <2>1. CASE n \in 1 .. Len(calls)
    <3>1. g[n] = calls[n] /\ n \in DOMAIN calls
      BY <1>2, <2>1
    <3> QED
      BY <3>1, Zenon DEF ChatSaw
  <2>2. CASE n = Len(calls) + 1
    BY <1>1, <1>2, <1>3, <2>2, Zenon
  <2> QED
    BY <1>2, <2>1, <2>2
<1>5. \A j \in Nat \ (headers \cup {i}) : Tokens(f, Deltas, {j}) = <<>>
  BY DEF ChatSaw
<1>6. ChatSaw(f, text, reasoning, g, headers \cup {i}, seen)
  BY <1>4, <1>5, Zenon DEF ChatSaw
<1> QED
  BY <1>6 DEF g, c

\* A fragment of a call that was announced.
LEMMA SeesFragment ==
    ASSUME NEW f \in Seq(ChatFrames), NEW text, NEW reasoning, NEW calls, NEW headers, NEW seen,
           ChatSaw(f, text, reasoning, calls, headers, seen),
           NEW k \in Deltas, NEW i \in Nat, i \in headers, NEW t \in Nat,
           NEW g, DOMAIN g = DOMAIN calls,
           \A n \in DOMAIN calls :
              /\ g[n].index = calls[n].index
              /\ g[n].body = IF calls[n].index = i THEN Append(calls[n].body, t) ELSE calls[n].body
    PROVE  /\ Append(f, <<k, i, t>>) \in Seq(ChatFrames)
           /\ ChatSaw(Append(f, <<k, i, t>>), text, reasoning, g, headers, seen)
<1> DEFINE x == <<k, i, t>>
           h == Append(f, x)
<1>1. /\ x \in ChatFrames /\ x[1] \in Deltas /\ x[1] \notin Opening \cup {"content", "reasoning"}
      /\ x[2] = i /\ x[3] = t
  BY DEF ChatFrames, ChatKinds, Opening, Deltas
<1> HIDE DEF x
<1>2. h \in Seq(ChatFrames)
  BY <1>1, OneMore
<1>3. /\ Tokens(h, {"content"}, Nat) = Tokens(f, {"content"}, Nat)
      /\ Tokens(h, {"reasoning"}, Nat) = Tokens(f, {"reasoning"}, Nat)
      /\ \A j : Tokens(h, Deltas, {j}) =
                   IF j = i THEN Append(Tokens(f, Deltas, {j}), t) ELSE Tokens(f, Deltas, {j})
      /\ Sent(h, Opening, Nat) = Sent(f, Opening, Nat)
  BY <1>1, ChatSees
<1> HIDE DEF h
<1>4. ASSUME NEW n \in DOMAIN g
      PROVE  Tokens(h, Deltas, {g[n].index}) = g[n].body
  <2> DEFINE j == calls[n].index
             b == calls[n].body
  <2>1. Tokens(f, Deltas, {j}) = b
    BY DEF ChatSaw
  <2>2. g[n].index = j /\ g[n].body = IF j = i THEN Append(b, t) ELSE b
    OBVIOUS
  <2>3. Tokens(h, Deltas, {j}) = IF j = i THEN Append(Tokens(f, Deltas, {j}), t) ELSE Tokens(f, Deltas, {j})
    BY <1>3
  <2> HIDE DEF j, b
  <2> QED
    BY <2>1, <2>2, <2>3, Zenon
<1>5. ASSUME NEW j \in Nat \ headers
      PROVE  Tokens(h, Deltas, {j}) = <<>>
  <2>1. j # i /\ Tokens(f, Deltas, {j}) = <<>>
    BY DEF ChatSaw
  <2> QED
    BY <1>3, <2>1, Zenon
<1>6. ChatSaw(h, text, reasoning, g, headers, seen)
  BY <1>3, <1>4, <1>5, Zenon DEF ChatSaw
<1> QED
  BY <1>2, <1>6 DEF h, x

(***************************************************************************)
(* Chat Completions: the think block and the text                          *)
(***************************************************************************)
\* The preamble is made of frames.
LEMMA PreambleType ==
    ASSUME NEW p
    PROVE  Preamble(p) \in Seq(ChatFrames) /\ Preamble(p) # <<>>
<1> DEFINE x == Frame("<think>")
           y == Frame("progress")
           z == Frame("notices")
<1>0. x \in ChatFrames /\ y \in ChatFrames /\ z \in ChatFrames
  BY DEF Frame, ChatFrames, ChatKinds
<1>1. <<x, y>> \o <<z>> = <<x, y, z>> /\ <<x, y>> \o <<>> = <<x, y>>
  BY SometimesThird, Zenon
<1>2. Preamble(p) = IF p.notices THEN <<x, y, z>> ELSE <<x, y>>
  BY <1>1, Zenon DEF Preamble
<1> HIDE DEF x, y, z
<1>3. <<x, y, z>> \in Seq(ChatFrames) /\ <<x, y>> \in Seq(ChatFrames)
  BY <1>0
<1>4. <<x, y, z>> # <<>> /\ <<x, y>> # <<>>
  OBVIOUS
<1> QED
  BY <1>2, <1>3, <1>4

\* The parts of what is seen are frames.
LEMMA OpeningType ==
    ASSUME NEW text \in Seq(Nat), NEW outcomes \in Seq(Nat), NEW p, p.inline \in BOOLEAN
    PROVE  /\ Preamble(p) \in Seq(ChatFrames)
           /\ Lines(outcomes, p) \in Seq(ChatFrames)
           /\ Contents(text) \in Seq(ChatFrames)
           /\ <<Frame("</think>")>> \in Seq(ChatFrames)
<1>0. Frame("</think>") \in ChatFrames
  BY DEF Frame, ChatFrames, ChatKinds
<1>1. Preamble(p) \in Seq(ChatFrames)
  BY PreambleType
<1>2. Lines(outcomes, p) \in Seq(ChatFrames)
  <2> DEFINE l == [n \in 1..Len(outcomes) |-> <<"line", 0, outcomes[n]>>]
  <2>1. Len(outcomes) \in Nat /\ \A n \in 1..Len(outcomes) : outcomes[n] \in Nat
    BY LenProperties, ElementOfSeq
  <2>2. \A n \in 1..Len(outcomes) : <<"line", 0, outcomes[n]>> \in ChatFrames
    BY <2>1 DEF ChatFrames, ChatKinds
  <2>3. l \in Seq(ChatFrames)
    BY <2>1, <2>2, SeqDef
  <2>4. <<>> \in Seq(ChatFrames)
    BY EmptySeq
  <2> QED
    BY <2>3, <2>4 DEF Lines
<1>3. Contents(text) \in Seq(ChatFrames)
  <2> DEFINE l == [n \in 1..Len(text) |-> <<"content", 0, text[n]>>]
  <2>1. Len(text) \in Nat /\ \A n \in 1..Len(text) : text[n] \in Nat
    BY LenProperties, ElementOfSeq
  <2>2. \A n \in 1..Len(text) : <<"content", 0, text[n]>> \in ChatFrames
    BY <2>1 DEF ChatFrames, ChatKinds
  <2>3. l \in Seq(ChatFrames)
    BY <2>1, <2>2, SeqDef
  <2> QED
    BY <2>3 DEF Contents
<1>4. <<Frame("</think>")>> \in Seq(ChatFrames)
  BY <1>0
<1> QED
  BY <1>1, <1>2, <1>3, <1>4

\* One more outcome is one more line, one more token one more piece of the text.
LEMMA OneMoreSeen ==
    ASSUME NEW text \in Seq(Nat), NEW outcomes \in Seq(Nat), NEW p, p.inline \in BOOLEAN, NEW t \in Nat
    PROVE  /\ Lines(Append(outcomes, t), p) =
                IF p.inline THEN Append(Lines(outcomes, p), <<"line", 0, t>>) ELSE Lines(outcomes, p)
           /\ Contents(Append(text, t)) = Append(Contents(text), <<"content", 0, t>>)
           /\ Contents(<<>>) = <<>> /\ Lines(<<>>, p) = <<>>
<1>1. ASSUME NEW k, NEW a \in Seq(Nat)
      PROVE  [n \in 1..Len(Append(a, t)) |-> <<k, 0, Append(a, t)[n]>>]
               = Append([n \in 1..Len(a) |-> <<k, 0, a[n]>>], <<k, 0, t>>)
  <2> DEFINE b == Append(a, t)
             K == {k} \X Nat \X Nat
             l == [n \in 1..Len(a) |-> <<k, 0, a[n]>>]
             x == <<k, 0, t>>
             r == Append(l, x)
             m == [n \in 1..Len(b) |-> <<k, 0, b[n]>>]
  <2>1. /\ b \in Seq(Nat) /\ Len(b) = Len(a) + 1 /\ Len(a) \in Nat
        /\ \A n \in 1..Len(a) : b[n] = a[n]
        /\ b[Len(a) + 1] = t
    BY OneMore
  <2>2. \A n \in 1..Len(a) : a[n] \in Nat
    BY ElementOfSeq
  <2>3. l \in Seq(K) /\ x \in K
    BY <2>1, <2>2, SeqDef
  <2>4. DOMAIN l = 1..Len(a) /\ \A n \in 1..Len(a) : l[n] = <<k, 0, a[n]>>
    OBVIOUS
  <2>5. /\ r \in Seq(K) /\ Len(r) = Len(l) + 1 /\ DOMAIN r = 1..Len(l) + 1 /\ DOMAIN l = 1..Len(l) /\ Len(l) \in Nat
        /\ \A n \in 1..Len(l) : r[n] = l[n]
        /\ r[Len(l) + 1] = x
    <3> HIDE DEF K, l, x
    <3> QED
      BY <2>3, OneMore
  <2>6. DOMAIN m = 1..Len(b) /\ \A n \in 1..Len(b) : m[n] = <<k, 0, b[n]>>
    OBVIOUS
  <2>7. m = [n \in DOMAIN m |-> m[n]]
    OBVIOUS
  <2> HIDE DEF b, K, l, r, m
  <2>8. r = [n \in DOMAIN r |-> r[n]]
    BY <2>5, SeqDef
  <2>9. Len(l) = Len(a)
    BY <2>1, <2>4, <2>5
  <2>10. DOMAIN m = DOMAIN r
    BY <2>1, <2>5, <2>6, <2>9
  <2>11. ASSUME NEW n \in DOMAIN m PROVE m[n] = r[n]
    <3>1. CASE n \in 1..Len(a)
      <4>1. m[n] = <<k, 0, b[n]>> /\ b[n] = a[n] /\ r[n] = l[n] /\ l[n] = <<k, 0, a[n]>>
        BY <2>1, <2>4, <2>5, <2>6, <2>9, <3>1
      <4> QED
        BY <4>1, Zenon
    <3>2. CASE n = Len(a) + 1
      <4>1. m[n] = <<k, 0, b[n]>> /\ b[n] = t /\ r[n] = x
        BY <2>1, <2>5, <2>6, <2>9, <3>2
      <4> QED
        BY <4>1, Zenon DEF x
    <3> QED
      BY <2>1, <2>6, <3>1, <3>2
  <2>12. m = r
    BY <2>7, <2>8, <2>10, <2>11, Zenon
  <2> QED
    BY <2>12 DEF m, r, l, b
<1>2. Contents(Append(text, t)) = Append(Contents(text), <<"content", 0, t>>)
  BY <1>1, Zenon DEF Contents
<1>3. Lines(Append(outcomes, t), p) =
        IF p.inline THEN Append(Lines(outcomes, p), <<"line", 0, t>>) ELSE Lines(outcomes, p)
  <2>1. CASE p.inline
    BY <1>1, <2>1, Zenon DEF Lines
  <2>2. CASE ~p.inline
    BY <2>2 DEF Lines
  <2> QED
    BY <2>1, <2>2
<1>4. Contents(<<>>) = <<>> /\ Lines(<<>>, p) = <<>>
  BY DEF Contents, Lines
<1> QED
  BY <1>2, <1>3, <1>4

\* There are no lines when they are not shown, or without outcomes.
LEMMA LinesNone ==
    ASSUME NEW outcomes \in Seq(Nat), NEW p
    PROVE  Lines(outcomes, p) = <<>> <=> ~p.inline \/ outcomes = <<>>
<1> DEFINE l == [n \in 1..Len(outcomes) |-> <<"line", 0, outcomes[n]>>]
<1>1. Len(outcomes) \in Nat /\ (outcomes = <<>> <=> Len(outcomes) = 0)
  BY LenProperties, EmptySeq
<1>2. DOMAIN l = 1..Len(outcomes)
  OBVIOUS
<1>3. Len(outcomes) = 0 => l = <<>>
  OBVIOUS
<1>4. Len(outcomes) # 0 => 1 \in DOMAIN l
  BY <1>1, <1>2
<1>5. l = <<>> <=> outcomes = <<>>
  <2> HIDE DEF l
  <2>1. DOMAIN <<>> = {}
    OBVIOUS
  <2> QED
    BY <1>1, <1>3, <1>4, <2>1
<1> HIDE DEF l
<1>6. Lines(outcomes, p) = IF p.inline THEN l ELSE <<>>
  BY DEF Lines, l
<1> QED
  BY <1>5, <1>6

\* The think block is opened before any line.
LEMMA SeenBegins ==
    ASSUME NEW p, NEW l, l = <<>>
    PROVE  Preamble(p) \o l = Preamble(p)
<1>1. Preamble(p) \in Seq(ChatFrames)
  BY PreambleType
<1> QED
  BY <1>1, ConcatEmptySeq, Zenon

\* A member's line is put after the others, in the open block.
LEMMA SeenLine ==
    ASSUME NEW seen, NEW text \in Seq(Nat), NEW outcomes \in Seq(Nat), NEW p, p.inline = TRUE,
           OpenSeen(seen, text, outcomes, p), NEW t \in Nat
    PROVE  OpenSeen(Append(seen, <<"line", 0, t>>), text, Append(outcomes, t), p)
<1> DEFINE a == Preamble(p)
           l == Lines(outcomes, p)
           x == <<"line", 0, t>>
<1>0. p.inline \in BOOLEAN
  OBVIOUS
<1>1. seen = a \o l /\ text = <<>>
  BY DEF OpenSeen
<1>2. a \in Seq(ChatFrames) /\ l \in Seq(ChatFrames) /\ x \in ChatFrames
  <2>1. x \in ChatFrames
    BY DEF ChatFrames, ChatKinds
  <2>2. a \in Seq(ChatFrames) /\ l \in Seq(ChatFrames)
    BY <1>0, OpeningType
  <2> QED
    BY <2>1, <2>2
<1>3. Lines(Append(outcomes, t), p) = Append(l, x)
  BY <1>0, OneMoreSeen
<1> HIDE DEF a, l, x
<1>4. a \o Append(l, x) = Append(a \o l, x)
  BY <1>2, ConcatAppend
<1>5. Append(seen, x) = Preamble(p) \o Lines(Append(outcomes, t), p)
  BY <1>1, <1>3, <1>4, Zenon DEF a
<1>6. OpenSeen(Append(seen, x), text, Append(outcomes, t), p)
  BY <1>1, <1>5, Zenon DEF OpenSeen
<1> QED
  BY <1>6 DEF x

\* The block is closed before the text.
LEMMA SeenClosed ==
    ASSUME NEW seen, NEW text \in Seq(Nat), NEW outcomes \in Seq(Nat), NEW p, p.inline \in BOOLEAN,
           OpenSeen(seen, text, outcomes, p)
    PROVE  ClosedSeen(Append(seen, <<"</think>", 0, 0>>), text, outcomes, p, "answer")
<1> DEFINE x == <<"</think>", 0, 0>>
           b == Preamble(p) \o Lines(outcomes, p)
           n == <<>>
<1>1. seen = b /\ text = n /\ (p.notices \/ p.inline)
  BY DEF OpenSeen
<1>2. b \in Seq(ChatFrames) /\ x \in ChatFrames /\ Frame("</think>") = x /\ Contents(text) = n
  <2>1. x \in ChatFrames /\ Frame("</think>") = x
    BY DEF ChatFrames, ChatKinds, Frame
  <2>2. Preamble(p) \in Seq(ChatFrames) /\ Lines(outcomes, p) \in Seq(ChatFrames)
    BY OpeningType
  <2>3. b \in Seq(ChatFrames)
    BY <2>2, ConcatProperties
  <2>4. Contents(<<>>) = <<>>
    BY DEF Contents
  <2> QED
    BY <1>1, <2>1, <2>3, <2>4
<1> HIDE DEF b, x
<1>3. b \o <<x>> = Append(b, x) /\ Append(b, x) \in Seq(ChatFrames)
  BY <1>2, Together, OneMore
<1> DEFINE g == Append(b, x)
<1>4. g \in Seq(ChatFrames)
  BY <1>3
<1> HIDE DEF g
<1>5. g \o n = g
  BY <1>4, ConcatEmptySeq
<1> HIDE DEF n
<1>6. Append(seen, x) = (b \o <<Frame("</think>")>>) \o Contents(text)
  BY <1>1, <1>2, <1>3, <1>5, Zenon DEF g
<1>7. "answer" \notin {"start", "panel"}
  OBVIOUS
<1>8. ClosedSeen(Append(seen, x), text, outcomes, p, "answer")
  BY <1>1, <1>6, <1>7, Zenon DEF ClosedSeen, b
<1> QED
  BY <1>8 DEF x

\* Without a block that is open nothing has to be done before the text.
LEMMA SeenGoesOn ==
    ASSUME NEW seen, NEW text, NEW outcomes, NEW p, NEW at, ClosedSeen(seen, text, outcomes, p, at)
    PROVE  ClosedSeen(seen, text, outcomes, p, "answer")
<1> QED
  BY DEF ClosedSeen

\* The text goes on.
LEMMA SeenText ==
    ASSUME NEW seen, NEW text \in Seq(Nat), NEW outcomes \in Seq(Nat), NEW p, p.inline \in BOOLEAN,
           ClosedSeen(seen, text, outcomes, p, "answer"), NEW t \in Nat
    PROVE  ClosedSeen(Append(seen, <<"content", 0, t>>), Append(text, t), outcomes, p, "answer")
<1> DEFINE c == Contents(text)
           x == <<"content", 0, t>>
           b == (Preamble(p) \o Lines(outcomes, p)) \o <<Frame("</think>")>>
<1>1. c \in Seq(ChatFrames) /\ x \in ChatFrames /\ b \in Seq(ChatFrames)
  <2>1. x \in ChatFrames
    BY DEF ChatFrames, ChatKinds
  <2>2. /\ Preamble(p) \in Seq(ChatFrames) /\ Lines(outcomes, p) \in Seq(ChatFrames)
        /\ <<Frame("</think>")>> \in Seq(ChatFrames) /\ c \in Seq(ChatFrames)
    BY OpeningType
  <2>3. Preamble(p) \o Lines(outcomes, p) \in Seq(ChatFrames)
    BY <2>2, ConcatProperties
  <2> DEFINE d == Preamble(p) \o Lines(outcomes, p)
             e == <<Frame("</think>")>>
  <2>4. d \in Seq(ChatFrames) /\ e \in Seq(ChatFrames)
    BY <2>2, <2>3
  <2> HIDE DEF d, e
  <2>5. d \o e \in Seq(ChatFrames)
    BY <2>4, ConcatProperties
  <2> QED
    BY <2>1, <2>2, <2>5 DEF d, e
<1>2. Contents(Append(text, t)) = Append(c, x)
  BY OneMoreSeen
<1> HIDE DEF b, c, x
<1>3. b \o Append(c, x) = Append(b \o c, x)
  BY <1>1, ConcatAppend
<1>4. \/ (p.notices \/ p.inline) /\ seen = b \o c
      \/ ~p.notices /\ Lines(outcomes, p) = <<>> /\ seen = c
  <2>1. \/ (p.notices \/ p.inline)
           /\ seen = ((Preamble(p) \o Lines(outcomes, p)) \o <<Frame("</think>")>>) \o Contents(text)
        \/ ~p.notices /\ Lines(outcomes, p) = <<>> /\ seen = Contents(text)
    BY DEF ClosedSeen
  <2> QED
    BY <2>1, Zenon DEF b, c
<1>5. \/ (p.notices \/ p.inline) /\ Append(seen, x) = b \o Contents(Append(text, t))
      \/ ~p.notices /\ Lines(outcomes, p) = <<>> /\ Append(seen, x) = Contents(Append(text, t))
  BY <1>2, <1>3, <1>4, Zenon
<1>6. "answer" \notin {"start", "panel"}
  OBVIOUS
<1>7. ClosedSeen(Append(seen, x), Append(text, t), outcomes, p, "answer")
  BY <1>5, <1>6, Zenon DEF ClosedSeen, b
<1> QED
  BY <1>7 DEF x

\* What is seen of a member's outcome when its line is not.
LEMMA SeenUnseen ==
    ASSUME NEW seen, NEW text, NEW outcomes, NEW more, NEW p, ~p.inline, NEW at
    PROVE  /\ OpenSeen(seen, text, outcomes, p) => OpenSeen(seen, text, more, p)
           /\ ClosedSeen(seen, text, outcomes, p, at) => ClosedSeen(seen, text, more, p, at)
<1>1. Lines(outcomes, p) = <<>> /\ Lines(more, p) = <<>>
  BY DEF Lines
<1> QED
  BY <1>1, Zenon DEF OpenSeen, ClosedSeen

\* A block that was never opened has nothing to show, before the text begins.
LEMMA SeenYet ==
    ASSUME NEW seen, NEW text, NEW outcomes, NEW p, NEW at \in {"start", "panel"},
           ClosedSeen(seen, text, outcomes, p, at)
    PROVE  seen = <<>> /\ text = <<>> /\ Lines(outcomes, p) = <<>> /\ ~p.notices
<1>1. text = <<>> /\ Lines(outcomes, p) = <<>> /\ ~p.notices /\ seen = Contents(text)
  BY DEF ClosedSeen
<1>2. Contents(<<>>) = <<>>
  BY DEF Contents
<1> QED
  BY <1>1, <1>2

\* The think block, if it is there, has something in it.
Filled(outcomes, p) == p.inline => p.notices \/ outcomes # <<>>

\* The think block and the text of a result were seen when it was complete.
SeenWhole(seen, r, p) ==
    /\ r.text \in Seq(Nat) /\ r.outcomes \in Seq(Nat) /\ p.inline \in BOOLEAN
    /\ ClosedSeen(seen, r.text, r.outcomes, p, "answer") /\ Filled(r.outcomes, p)

\* When the run is over, what was seen is what a request without a stream gets,
\* if the think block has anything in it.
LEMMA SeenAll ==
    ASSUME NEW seen, NEW r, NEW p, SeenWhole(seen, r, p)
    PROVE  seen = BuildCompletion(r, p)
<1> DEFINE lines == IF p.inline THEN [n \in 1..Len(r.outcomes) |-> <<"line", 0, r.outcomes[n]>>] ELSE <<>>
           head == <<Frame("<think>"), Frame("progress")>> \o (IF p.notices THEN <<Frame("notices")>> ELSE <<>>)
           text == r.text
           outcomes == r.outcomes
<1>0. /\ text \in Seq(Nat) /\ outcomes \in Seq(Nat) /\ p.inline \in BOOLEAN
      /\ ClosedSeen(seen, text, outcomes, p, "answer") /\ Filled(outcomes, p)
  BY DEF SeenWhole
<1>1. lines = Lines(outcomes, p) /\ head = Preamble(p)
  BY DEF Lines, Preamble
<1>2. ThinkBlock(r, p) = IF lines = <<>> /\ ~p.notices THEN <<>> ELSE (head \o lines) \o <<Frame("</think>")>>
  BY Zenon DEF ThinkBlock
<1>3. BuildCompletion(r, p) = ThinkBlock(r, p) \o Contents(text)
  BY DEF BuildCompletion, Contents
<1>4. p.inline => p.notices \/ outcomes # <<>>
  BY <1>0 DEF Filled
<1> HIDE DEF lines, head, text, outcomes
<1>5. Lines(outcomes, p) = <<>> <=> ~p.inline \/ outcomes = <<>>
  BY <1>0, LinesNone
<1>6. CASE (p.notices \/ p.inline) /\ seen = ((Preamble(p) \o Lines(outcomes, p)) \o <<Frame("</think>")>>) \o Contents(text)
  <2>1. ~(lines = <<>> /\ ~p.notices)
    BY <1>1, <1>4, <1>5, <1>6
  <2>2. ThinkBlock(r, p) = (head \o lines) \o <<Frame("</think>")>>
    BY <1>2, <2>1
  <2> QED
    BY <1>1, <1>3, <1>6, <2>2, Zenon
<1>7. CASE ~p.notices /\ Lines(outcomes, p) = <<>> /\ seen = Contents(text)
  <2>1. ThinkBlock(r, p) = <<>>
    BY <1>1, <1>2, <1>7
  <2>2. Contents(text) \in Seq(ChatFrames)
    BY <1>0, OpeningType
  <2>3. <<>> \o Contents(text) = Contents(text)
    BY <2>2, ConcatEmptySeq
  <2> QED
    BY <1>3, <1>7, <2>1, <2>3, Zenon
<1> QED
  BY <1>0, <1>6, <1>7 DEF ClosedSeen

(***************************************************************************)
(* Chat Completions: what the operators of the encoder send                *)
(***************************************************************************)
\* What a stream of the encoder is.
LEMMA ChatFacts ==
    ASSUME NEW s, NEW compat, ChatGood(s, compat)
    PROVE  /\ s \in ChatStreams /\ s.out \in Seq(ChatFrames) /\ s.role \in BOOLEAN /\ s.think \in BOOLEAN
           /\ s.headers \in SUBSET Nat /\ (s.think \/ s.headers # {} => s.role)
BY DEF ChatGood, ChatStreams, ChatSent

\* One frame is said.
LEMMA SayOut ==
    ASSUME NEW s \in ChatStreams, NEW x \in ChatFrames
    PROVE  /\ ChatSay(s, <<x>>).out = Append(s.out, x)
           /\ ChatSay(s, <<x>>).think = s.think /\ ChatSay(s, <<x>>).headers = s.headers
<1> DEFINE g == Append(s.out, x)
           u == [s EXCEPT !.out = g]
<1>1. s.out \in Seq(ChatFrames)
  BY DEF ChatStreams
<1>2. s.out \o <<x>> = g
  BY <1>1, Together
<1>3. ChatSay(s, <<x>>) = u
  BY <1>2 DEF ChatSay
<1> HIDE DEF g
<1>4. u.out = g /\ u.think = s.think /\ u.headers = s.headers
  BY DEF ChatStreams
<1> HIDE DEF u
<1> QED
  BY <1>3, <1>4 DEF g

\* The role, if it is not said yet.
LEMMA RoleOut ==
    ASSUME NEW s, NEW compat, ChatGood(s, compat)
    PROVE  OpenRole(s).out = IF s.role THEN s.out ELSE Append(s.out, <<"role", 0, 0>>)
<1>1. s \in ChatStreams
  BY ChatFacts
<1>2. CASE s.role
  BY <1>2 DEF OpenRole
<1>3. CASE ~s.role
  <2> DEFINE x == <<"role", 0, 0>>
             v == ChatSay(s, <<x>>)
             g == v.out
  <2>1. x \in ChatFrames
    BY DEF ChatFrames, ChatKinds
  <2>2. OpenRole(s) = [v EXCEPT !.role = TRUE]
    BY <1>3 DEF OpenRole, Frame
  <2>3. v = [s EXCEPT !.out = s.out \o <<x>>]
    BY DEF ChatSay
  <2> HIDE DEF x
  <2>4. g = Append(s.out, x)
    BY <1>1, <2>1, SayOut
  <2>5. OpenRole(s).out = g
    <3> DEFINE h == s.out \o <<x>>
    <3>1. v = [s EXCEPT !.out = h]
      BY <2>3
    <3> HIDE DEF h, v
    <3>2. v.out = h /\ [v EXCEPT !.role = TRUE].out = h
      BY <1>1, <3>1 DEF ChatStreams
    <3> QED
      BY <2>2, <3>2 DEF v
  <2> QED
    BY <1>3, <2>4, <2>5 DEF x
<1> QED
  BY <1>2, <1>3

\* The end of the think block, if it is open.
LEMMA ThoughtOut ==
    ASSUME NEW s, NEW compat, ChatGood(s, compat)
    PROVE  CloseThink(s).out = IF s.think THEN Append(s.out, <<"</think>", 0, 0>>) ELSE s.out
<1>1. s \in ChatStreams
  BY ChatFacts
<1>2. CASE ~s.think
  BY <1>2 DEF CloseThink
<1>3. CASE s.think
  <2> DEFINE x == <<"</think>", 0, 0>>
             v == ChatSay(s, <<x>>)
             g == v.out
  <2>1. x \in ChatFrames
    BY DEF ChatFrames, ChatKinds
  <2>2. CloseThink(s) = [v EXCEPT !.think = FALSE]
    BY <1>3 DEF CloseThink, Frame
  <2>3. v = [s EXCEPT !.out = s.out \o <<x>>]
    BY DEF ChatSay
  <2> HIDE DEF x
  <2>4. g = Append(s.out, x)
    BY <1>1, <2>1, SayOut
  <2>5. CloseThink(s).out = g
    <3> DEFINE h == s.out \o <<x>>
    <3>1. v = [s EXCEPT !.out = h]
      BY <2>3
    <3> HIDE DEF h, v
    <3>2. v.out = h /\ [v EXCEPT !.think = FALSE].out = h
      BY <1>1, <3>1 DEF ChatStreams
    <3> QED
      BY <2>2, <3>2 DEF v
  <2> QED
    BY <1>3, <2>4, <2>5 DEF x
<1> QED
  BY <1>2, <1>3

\* The beginning of the think block, if it is not open.
LEMMA ThinkOut ==
    ASSUME NEW s, NEW compat, ChatGood(s, compat), NEW p, ~s.think
    PROVE  LET x == <<"<think>", 0, 0>>
               y == <<"progress", 0, 0>>
               z == <<"notices", 0, 0>>
               g == Append(Append(s.out, x), y)
           IN  /\ OpenThink(s, p).out = IF p.notices THEN Append(g, z) ELSE g
               /\ Preamble(p) = IF p.notices THEN Append(Append(Append(<<>>, x), y), z)
                                ELSE Append(Append(<<>>, x), y)
<1> DEFINE f == s.out
           n == <<>>
           x == <<"<think>", 0, 0>>
           y == <<"progress", 0, 0>>
           z == <<"notices", 0, 0>>
           g == Append(Append(f, x), y)
           h == IF p.notices THEN Append(g, z) ELSE g
<1>1. s \in ChatStreams /\ f \in Seq(ChatFrames) /\ n \in Seq(ChatFrames)
  BY ChatFacts, EmptySeq
<1>2. x \in ChatFrames /\ y \in ChatFrames /\ z \in ChatFrames
  BY DEF ChatFrames, ChatKinds
<1>3. Preamble(p) = <<x, y>> \o (IF p.notices THEN <<z>> ELSE <<>>)
  BY DEF Preamble, Frame
<1>4. OpenThink(s, p) = [[s EXCEPT !.out = f \o Preamble(p)] EXCEPT !.think = TRUE]
  BY DEF OpenThink, ChatSay, Preamble
<1> HIDE DEF f, n, x, y, z
<1>5. ASSUME NEW a \in Seq(ChatFrames)
      PROVE  a \o <<x, y>> = Append(Append(a, x), y) /\ a \o <<x, y, z>> = Append(Append(Append(a, x), y), z)
  BY <1>2, Together
<1>6. <<x, y>> \o <<z>> = <<x, y, z>> /\ <<x, y>> \o <<>> = <<x, y>>
  BY SometimesThird, Zenon
<1>7. Preamble(p) = IF p.notices THEN <<x, y, z>> ELSE <<x, y>>
  BY <1>3, <1>6
<1>8. n \o <<x, y>> = <<x, y>> /\ n \o <<x, y, z>> = <<x, y, z>>
  <2> DEFINE a == <<x, y>>
             b == <<x, y, z>>
  <2>1. a \in Seq(ChatFrames) /\ b \in Seq(ChatFrames)
    BY <1>2
  <2> HIDE DEF a, b
  <2>2. n \o a = a /\ n \o b = b
    BY <2>1, ConcatEmptySeq DEF n
  <2> QED
    BY <2>2 DEF a, b
<1>9. Preamble(p) = IF p.notices THEN Append(Append(Append(n, x), y), z) ELSE Append(Append(n, x), y)
  <2>1. n \o <<x, y>> = Append(Append(n, x), y) /\ n \o <<x, y, z>> = Append(Append(Append(n, x), y), z)
    BY <1>1, <1>5, Zenon
  <2> QED
    BY <1>7, <1>8, <2>1, Zenon
<1>10. f \o Preamble(p) = h
  <2>0. f \o <<x, y>> = Append(Append(f, x), y) /\ f \o <<x, y, z>> = Append(Append(Append(f, x), y), z)
    BY <1>1, <1>5, Zenon
  <2>1. CASE p.notices
    BY <1>7, <2>0, <2>1, Zenon
  <2>2. CASE ~p.notices
    BY <1>7, <2>0, <2>2, Zenon
  <2> QED
    BY <2>1, <2>2
<1> HIDE DEF h
<1>11. OpenThink(s, p) = [[s EXCEPT !.out = h] EXCEPT !.think = TRUE]
  BY <1>4, <1>10, Zenon
<1>12. OpenThink(s, p).out = h
  BY <1>1, <1>11 DEF ChatStreams
<1> QED
  BY <1>9, <1>12 DEF h, n, x, y, z, f

(***************************************************************************)
(* Chat Completions: what a client sees of the operators                   *)
(***************************************************************************)
\* A client has seen what was sent.
LEMMA ChatSeen ==
    ASSUME NEW s, NEW text, NEW reasoning, NEW calls, NEW outcomes, NEW p, NEW at, NEW seen,
           ChatSaw(s.out, text, reasoning, calls, s.headers, seen),
           s.think => OpenSeen(seen, text, outcomes, p),
           ~s.think => ClosedSeen(seen, text, outcomes, p, at)
    PROVE  ChatShows(s, text, reasoning, calls, outcomes, p, at)
<1>1. seen = Sent(s.out, Opening, Nat)
  BY DEF ChatSaw
<1> QED
  BY <1>1, Zenon DEF ChatShows

\* The role shows nothing.
LEMMA RoleShown ==
    ASSUME NEW s, NEW compat, ChatGood(s, compat),
           NEW text, NEW reasoning, NEW calls, NEW outcomes, NEW p, NEW at,
           ChatShows(s, text, reasoning, calls, outcomes, p, at)
    PROVE  ChatShows(OpenRole(s), text, reasoning, calls, outcomes, p, at)
<1> DEFINE seen == Sent(s.out, Opening, Nat)
           u == OpenRole(s)
           g == u.out
<1>1. /\ ChatSaw(s.out, text, reasoning, calls, s.headers, seen)
      /\ s.think => OpenSeen(seen, text, outcomes, p)
      /\ ~s.think => ClosedSeen(seen, text, outcomes, p, at)
  BY DEF ChatShows
<1> HIDE DEF seen
<1>2. s.out \in Seq(ChatFrames)
  BY ChatFacts
<1>3. u.think = s.think /\ u.headers = s.headers
  BY ChatRole
<1>4. g = IF s.role THEN s.out ELSE Append(s.out, <<"role", 0, 0>>)
  BY RoleOut
<1>5. ChatSaw(Append(s.out, <<"role", 0, 0>>), text, reasoning, calls, s.headers, seen)
  BY <1>1, <1>2, SeesNothing
<1> HIDE DEF u
<1>6. ChatSaw(g, text, reasoning, calls, s.headers, seen)
  BY <1>1, <1>4, <1>5
<1>7. ChatSaw(u.out, text, reasoning, calls, u.headers, seen)
  BY <1>3, <1>6
<1>8. ChatShows(u, text, reasoning, calls, outcomes, p, at)
  BY <1>1, <1>3, <1>7, ChatSeen
<1> QED
  BY <1>8 DEF u

\* The members' work is over: what follows is not in the think block.
LEMMA ThoughtShown ==
    ASSUME NEW s, NEW compat, ChatGood(s, compat),
           NEW text \in Seq(Nat), NEW reasoning, NEW calls, NEW outcomes \in Seq(Nat),
           NEW p, p.inline \in BOOLEAN, NEW at,
           ChatShows(s, text, reasoning, calls, outcomes, p, at)
    PROVE  ChatShows(CloseThink(s), text, reasoning, calls, outcomes, p, "answer")
<1> DEFINE seen == Sent(s.out, Opening, Nat)
           u == CloseThink(s)
           x == <<"</think>", 0, 0>>
           g == u.out
<1>1. /\ ChatSaw(s.out, text, reasoning, calls, s.headers, seen)
      /\ s.think => OpenSeen(seen, text, outcomes, p)
      /\ ~s.think => ClosedSeen(seen, text, outcomes, p, at)
  BY DEF ChatShows
<1> HIDE DEF seen
<1>2. s.out \in Seq(ChatFrames) /\ s.think \in BOOLEAN
  BY ChatFacts
<1>3. ~u.think /\ u.headers = s.headers
  BY ChatThought
<1>4. g = IF s.think THEN Append(s.out, x) ELSE s.out
  BY ThoughtOut
<1>5. ChatSaw(Append(s.out, x), text, reasoning, calls, s.headers, Append(seen, x))
  BY <1>1, <1>2, SeesThink
<1>6. ASSUME OpenSeen(seen, text, outcomes, p)
      PROVE  ClosedSeen(Append(seen, x), text, outcomes, p, "answer")
  BY <1>6, SeenClosed
<1>7. ASSUME ClosedSeen(seen, text, outcomes, p, at)
      PROVE  ClosedSeen(seen, text, outcomes, p, "answer")
  BY <1>7, SeenGoesOn
<1> HIDE DEF u, x
<1>8. CASE s.think
  <2>1. ClosedSeen(Append(seen, x), text, outcomes, p, "answer")
    BY <1>1, <1>6, <1>8
  <2>2. ChatSaw(u.out, text, reasoning, calls, u.headers, Append(seen, x))
    BY <1>3, <1>4, <1>5, <1>8
  <2>3. ChatShows(u, text, reasoning, calls, outcomes, p, "answer")
    BY <1>3, <2>1, <2>2, ChatSeen
  <2> QED
    BY <2>3 DEF u
<1>9. CASE ~s.think
  <2>1. ClosedSeen(seen, text, outcomes, p, "answer")
    BY <1>1, <1>7, <1>9
  <2>2. ChatSaw(u.out, text, reasoning, calls, u.headers, seen)
    BY <1>1, <1>3, <1>4, <1>9
  <2>3. ChatShows(u, text, reasoning, calls, outcomes, p, "answer")
    BY <1>3, <2>1, <2>2, ChatSeen
  <2> QED
    BY <2>3 DEF u
<1> QED
  BY <1>8, <1>9

\* The preamble is seen when the block is opened.
LEMMA ThinkSeen ==
    ASSUME NEW s, NEW compat, ChatGood(s, compat), ~s.think,
           NEW text, NEW reasoning, NEW calls, NEW p,
           ChatSaw(s.out, text, reasoning, calls, s.headers, <<>>)
    PROVE  ChatSaw(OpenThink(s, p).out, text, reasoning, calls, s.headers, Preamble(p))
<1> DEFINE x == <<"<think>", 0, 0>>
           y == <<"progress", 0, 0>>
           z == <<"notices", 0, 0>>
           f == s.out
           f1 == Append(f, x)
           f2 == Append(f1, y)
           f3 == Append(f2, z)
           n1 == Append(<<>>, x)
           n2 == Append(n1, y)
           n3 == Append(n2, z)
<1>1. f \in Seq(ChatFrames) /\ ChatSaw(f, text, reasoning, calls, s.headers, <<>>)
  BY ChatFacts
<1>2. /\ OpenThink(s, p).out = IF p.notices THEN f3 ELSE f2
      /\ Preamble(p) = IF p.notices THEN n3 ELSE n2
  BY ThinkOut
<1>3. f1 \in Seq(ChatFrames) /\ ChatSaw(f1, text, reasoning, calls, s.headers, n1)
  <2> HIDE DEF f
  <2> QED
    BY <1>1, SeesThink
<1>4. f2 \in Seq(ChatFrames) /\ ChatSaw(f2, text, reasoning, calls, s.headers, n2)
  <2> HIDE DEF f1, n1
  <2> QED
    BY <1>3, SeesThink
<1>5. ChatSaw(f3, text, reasoning, calls, s.headers, n3)
  <2> HIDE DEF f2, n2
  <2> QED
    BY <1>4, SeesThink
<1> HIDE DEF f2, f3, n2, n3
<1> QED
  BY <1>2, <1>4, <1>5

\* The block is opened for the first member that is started or done.
LEMMA ThinkShown ==
    ASSUME NEW s, NEW compat, ChatGood(s, compat), s.role,
           NEW text \in Seq(Nat), NEW reasoning, NEW calls, NEW outcomes \in Seq(Nat),
           NEW p, p.inline = TRUE, p.notices \in BOOLEAN, NEW at \in {"start", "panel"},
           ChatShows(s, text, reasoning, calls, outcomes, p, at)
    PROVE  ChatShows(OpenThink(s, p), text, reasoning, calls, outcomes, p, "panel")
<1> DEFINE seen == Sent(s.out, Opening, Nat)
           u == OpenThink(s, p)
<1>1. /\ ChatSaw(s.out, text, reasoning, calls, s.headers, seen)
      /\ s.think => OpenSeen(seen, text, outcomes, p)
      /\ ~s.think => ClosedSeen(seen, text, outcomes, p, at)
  BY DEF ChatShows
<1> HIDE DEF seen
<1>2. s.think \in BOOLEAN
  BY ChatFacts
<1>3. CASE s.think
  <2>1. OpenThink(s, p) = s
    BY <1>3 DEF OpenThink
  <2>2. ChatShows(s, text, reasoning, calls, outcomes, p, "panel")
    BY <1>1, <1>3, ChatSeen
  <2> QED
    BY <2>1, <2>2
<1>4. CASE ~s.think
  <2>1. seen = <<>> /\ text = <<>> /\ Lines(outcomes, p) = <<>>
    BY <1>1, <1>4, SeenYet
  <2>2. u.think /\ u.headers = s.headers
    BY <1>4, ChatThink
  <2>3. ChatSaw(s.out, text, reasoning, calls, s.headers, <<>>)
    BY <1>1, <2>1, Zenon
  <2>4. ChatSaw(u.out, text, reasoning, calls, s.headers, Preamble(p))
    BY <1>4, <2>3, ThinkSeen
  <2>5. OpenSeen(Preamble(p), text, outcomes, p)
    <3>1. Preamble(p) = Preamble(p) \o Lines(outcomes, p)
      BY <2>1, SeenBegins
    <3> QED
      BY <2>1, <3>1 DEF OpenSeen
  <2> HIDE DEF u
  <2>6. ChatSaw(u.out, text, reasoning, calls, u.headers, Preamble(p))
    BY <2>2, <2>4
  <2>8. ChatShows(u, text, reasoning, calls, outcomes, p, "panel")
    BY <2>2, <2>5, <2>6, ChatSeen
  <2> QED
    BY <2>8 DEF u
<1> QED
  BY <1>3, <1>4

\* A member's line is shown in the open block.
LEMMA LineShown ==
    ASSUME NEW s, NEW compat, ChatGood(s, compat), s.think,
           NEW text \in Seq(Nat), NEW reasoning, NEW calls, NEW outcomes \in Seq(Nat),
           NEW p, p.inline = TRUE, NEW t \in Nat, NEW at,
           ChatShows(s, text, reasoning, calls, outcomes, p, at)
    PROVE  ChatShows(ChatSay(s, <<<<"line", 0, t>>>>), text, reasoning, calls, Append(outcomes, t), p, at)
<1> DEFINE seen == Sent(s.out, Opening, Nat)
           x == <<"line", 0, t>>
           u == ChatSay(s, <<x>>)
           now == Append(seen, x)
           more == Append(outcomes, t)
<1>1. /\ ChatSaw(s.out, text, reasoning, calls, s.headers, seen)
      /\ OpenSeen(seen, text, outcomes, p)
  BY DEF ChatShows
<1> HIDE DEF seen
<1>2. s \in ChatStreams /\ s.out \in Seq(ChatFrames) /\ x \in ChatFrames
  BY ChatFacts DEF ChatFrames, ChatKinds
<1>3. ChatSaw(Append(s.out, x), text, reasoning, calls, s.headers, now)
  BY <1>1, <1>2, SeesThink
<1>4. OpenSeen(now, text, more, p)
  BY <1>1, SeenLine
<1> HIDE DEF x, now, more
<1>5. u.out = Append(s.out, x) /\ u.think = s.think /\ u.headers = s.headers
  BY <1>2, SayOut
<1> HIDE DEF u
<1>6. ChatSaw(u.out, text, reasoning, calls, u.headers, now)
  BY <1>3, <1>5
<1>7. ChatShows(u, text, reasoning, calls, more, p, at)
  BY <1>4, <1>5, <1>6, ChatSeen
<1> QED
  BY <1>7 DEF u, x, more

\* Without lines nothing is shown of the outcomes.
LEMMA UnseenShown ==
    ASSUME NEW s, NEW text, NEW reasoning, NEW calls, NEW outcomes, NEW more,
           NEW p, ~p.inline, NEW at, ChatShows(s, text, reasoning, calls, outcomes, p, at)
    PROVE  ChatShows(s, text, reasoning, calls, more, p, at)
<1> DEFINE seen == Sent(s.out, Opening, Nat)
<1>1. /\ ChatSaw(s.out, text, reasoning, calls, s.headers, seen)
      /\ s.think => OpenSeen(seen, text, outcomes, p)
      /\ ~s.think => ClosedSeen(seen, text, outcomes, p, at)
  BY DEF ChatShows
<1> HIDE DEF seen
<1>2. /\ OpenSeen(seen, text, outcomes, p) => OpenSeen(seen, text, more, p)
      /\ ClosedSeen(seen, text, outcomes, p, at) => ClosedSeen(seen, text, more, p, at)
  BY SeenUnseen
<1> QED
  BY <1>1, <1>2, ChatSeen

\* What the frames of a part of the answer are.
LEMMA AnswerOut ==
    ASSUME NEW f \in Seq(ChatFrames), NEW e, e.reasoning \in Nat, e.content \in Nat
    PROVE  LET x == <<"reasoning", 0, e.reasoning>>
               y == <<"content", 0, e.content>>
               g == IF e.reasoning > 0 THEN Append(f, x) ELSE f
               h == IF e.content > 0 THEN Append(g, y) ELSE g
           IN  f \o AnswerFrames(e) = h /\ h \in Seq(ChatFrames)
<1> DEFINE x == <<"reasoning", 0, e.reasoning>>
           y == <<"content", 0, e.content>>
           a == IF e.reasoning > 0 THEN <<x>> ELSE <<>>
           b == IF e.content > 0 THEN <<y>> ELSE <<>>
           g == IF e.reasoning > 0 THEN Append(f, x) ELSE f
           h == IF e.content > 0 THEN Append(g, y) ELSE g
<1>1. x \in ChatFrames /\ y \in ChatFrames
  BY DEF ChatFrames, ChatKinds
<1>2. AnswerFrames(e) = a \o b
  BY DEF AnswerFrames
<1> HIDE DEF x, y
<1>3. /\ f \o <<x>> = Append(f, x) /\ f \o <<y>> = Append(f, y)
      /\ f \o <<x, y>> = Append(Append(f, x), y)
      /\ f \o <<>> = f
  BY <1>1, Together, ConcatEmptySeq
<1>4. <<x>> \o <<y>> = <<x, y>> /\ <<x>> \o <<>> = <<x>> /\ <<>> \o <<y>> = <<y>> /\ <<>> \o <<>> = <<>>
  <2>1. <<>> \in Seq(ChatFrames)
    BY EmptySeq
  <2>2. <<>> \o <<>> = <<>>
    BY <2>1, ConcatEmptySeq
  <2> QED
    BY <1>1, <2>2, Sometimes
<1>5. Append(f, x) \in Seq(ChatFrames) /\ Append(f, y) \in Seq(ChatFrames)
      /\ Append(Append(f, x), y) \in Seq(ChatFrames)
  BY <1>1, OneMore
<1>6. f \o (a \o b) = h /\ h \in Seq(ChatFrames)
  <2>1. CASE e.reasoning > 0 /\ e.content > 0
    BY <1>3, <1>4, <1>5, <2>1
  <2>2. CASE e.reasoning > 0 /\ ~(e.content > 0)
    BY <1>3, <1>4, <1>5, <2>2
  <2>3. CASE ~(e.reasoning > 0) /\ e.content > 0
    BY <1>3, <1>4, <1>5, <2>3
  <2>4. CASE ~(e.reasoning > 0) /\ ~(e.content > 0)
    BY <1>3, <1>4, <2>4
  <2> QED
    BY <2>1, <2>2, <2>3, <2>4
<1> QED
  BY <1>2, <1>6, Zenon DEF x, y

\* A part of the answer is shown, its reasoning and its text.
LEMMA AnswerShown ==
    ASSUME NEW s, NEW compat, ChatGood(s, compat), ~s.think,
           NEW text \in Seq(Nat), NEW reasoning \in Seq(Nat), NEW calls, NEW outcomes \in Seq(Nat),
           NEW p, p.inline \in BOOLEAN, NEW e, e.reasoning \in Nat, e.content \in Nat,
           ChatShows(s, text, reasoning, calls, outcomes, p, "answer")
    PROVE  ChatShows(ChatSay(OpenRole(s), AnswerFrames(e)),
                     text \o Present(e.content), reasoning \o Present(e.reasoning), calls, outcomes, p, "answer")
<1> DEFINE v == OpenRole(s)
           f == v.out
           x == <<"reasoning", 0, e.reasoning>>
           y == <<"content", 0, e.content>>
           g == IF e.reasoning > 0 THEN Append(f, x) ELSE f
           h == IF e.content > 0 THEN Append(g, y) ELSE g
           spoken == text \o Present(e.content)
           thought == reasoning \o Present(e.reasoning)
           seen == Sent(f, Opening, Nat)
           now == IF e.content > 0 THEN Append(seen, y) ELSE seen
           u == ChatSay(v, AnswerFrames(e))
<1>1. ChatGood(v, compat) /\ ~v.think /\ v.headers = s.headers
  BY ChatRole
<1>2. ChatShows(v, text, reasoning, calls, outcomes, p, "answer")
  BY RoleShown
<1> HIDE DEF v
<1>3. v \in ChatStreams /\ f \in Seq(ChatFrames)
  BY <1>1, ChatFacts
<1>4. /\ ChatSaw(f, text, reasoning, calls, v.headers, seen)
      /\ ClosedSeen(seen, text, outcomes, p, "answer")
  BY <1>1, <1>2 DEF ChatShows
<1>5. f \o AnswerFrames(e) = h
  BY <1>3, AnswerOut
<1> HIDE DEF f, seen
<1>6. g \in Seq(ChatFrames) /\ ChatSaw(g, text, thought, calls, v.headers, seen)
  <2>1. Append(f, x) \in Seq(ChatFrames)
        /\ ChatSaw(Append(f, x), text, Append(reasoning, e.reasoning), calls, v.headers, seen)
    BY <1>3, <1>4, SeesAnswer
  <2>2. thought = IF e.reasoning > 0 THEN Append(reasoning, e.reasoning) ELSE reasoning
    BY Added1
  <2> HIDE DEF thought, x
  <2> QED
    BY <1>3, <1>4, <2>1, <2>2
<1> HIDE DEF g, thought
<1>7. spoken = IF e.content > 0 THEN Append(text, e.content) ELSE text
  BY Added1
<1>8. ChatSaw(h, spoken, thought, calls, v.headers, now)
  <2>1. ChatSaw(Append(g, y), Append(text, e.content), thought, calls, v.headers, Append(seen, y))
    BY <1>6, SeesAnswer
  <2> HIDE DEF spoken, y
  <2> QED
    BY <1>6, <1>7, <2>1
<1>9. ClosedSeen(now, spoken, outcomes, p, "answer")
  <2>1. ClosedSeen(Append(seen, y), Append(text, e.content), outcomes, p, "answer")
    BY <1>4, SeenText
  <2> HIDE DEF spoken, y
  <2> QED
    BY <1>4, <1>7, <2>1
<1> HIDE DEF h, now, spoken
<1>10. u = [v EXCEPT !.out = h]
  BY <1>5 DEF ChatSay, f
<1>11. u.out = h /\ ~u.think /\ u.headers = v.headers
  BY <1>1, <1>3, <1>10 DEF ChatStreams
<1> HIDE DEF u
<1>12. ChatSaw(u.out, spoken, thought, calls, u.headers, now)
  BY <1>8, <1>11
<1>13. ChatShows(u, spoken, thought, calls, outcomes, p, "answer")
  BY <1>9, <1>11, <1>12, ChatSeen
<1> QED
  BY <1>13 DEF u, v, spoken, thought

\* A call is announced; it has said nothing yet.
LEMMA CallShown ==
    ASSUME NEW s, NEW compat, ChatGood(s, compat), NEW i \in Nat \ s.headers, NEW t \in Nat,
           NEW text, NEW reasoning, NEW calls \in Seq(CallRecords), NEW outcomes, NEW p, NEW at,
           ChatShows(s, text, reasoning, calls, outcomes, p, at)
    PROVE  ChatShows([ChatSay(OpenRole(s), <<<<"tool", i, t>>>>) EXCEPT !.headers = @ \cup {i}],
                     text, reasoning, Append(calls, [index |-> i, body |-> <<>>]), outcomes, p, at)
<1> DEFINE v == OpenRole(s)
           x == <<"tool", i, t>>
           g == Append(v.out, x)
           w == ChatSay(v, <<x>>)
           u == [w EXCEPT !.headers = @ \cup {i}]
           more == Append(calls, [index |-> i, body |-> <<>>])
           headers == v.headers \cup {i}
           seen == Sent(v.out, Opening, Nat)
<1>1. ChatGood(v, compat) /\ v.headers = s.headers
  BY ChatRole
<1>2. ChatShows(v, text, reasoning, calls, outcomes, p, at)
  BY RoleShown
<1> HIDE DEF v
<1>3. v \in ChatStreams /\ v.out \in Seq(ChatFrames) /\ x \in ChatFrames
  BY <1>1, ChatFacts DEF ChatFrames, ChatKinds
<1>4. /\ ChatSaw(v.out, text, reasoning, calls, v.headers, seen)
      /\ v.think => OpenSeen(seen, text, outcomes, p)
      /\ ~v.think => ClosedSeen(seen, text, outcomes, p, at)
  BY <1>2 DEF ChatShows
<1> HIDE DEF seen
<1>5. ChatSaw(g, text, reasoning, calls, v.headers, seen)
  BY <1>3, <1>4, SeesNothing
<1> HIDE DEF g
<1>6. ChatSaw(g, text, reasoning, more, headers, seen)
  BY <1>1, <1>5, SeesCall
<1> HIDE DEF more, headers, x
<1>7. v.out \o <<x>> = g
  BY <1>3, Together DEF g
<1>8. w = [v EXCEPT !.out = g]
  BY <1>7 DEF ChatSay
<1> HIDE DEF w
<1>9. u.out = g /\ u.think = v.think /\ u.headers = headers
  BY <1>3, <1>8 DEF ChatStreams, headers
<1> HIDE DEF u
<1>10. ChatSaw(u.out, text, reasoning, more, u.headers, seen)
  BY <1>6, <1>9
<1>11. ChatShows(u, text, reasoning, more, outcomes, p, at)
  BY <1>4, <1>9, <1>10, ChatSeen
<1> QED
  BY <1>11 DEF u, v, w, x, more

\* A fragment is shown with the others of its call.
LEMMA FragmentShown ==
    ASSUME NEW s, NEW compat, ChatGood(s, compat),
           NEW e, e.index \in s.headers, e.token \in Nat,
           NEW text, NEW reasoning, NEW calls \in Seq(CallRecords), NEW outcomes, NEW p, NEW at,
           ChatShows(s, text, reasoning, calls, outcomes, p, at)
    PROVE  ChatShows(ChatSay(s, <<<<ArgumentsKind(s, e, p), e.index, e.token>>>>),
                     text, reasoning, Extend(calls, e), outcomes, p, at)
<1> DEFINE k == ArgumentsKind(s, e, p)
           i == e.index
           t == e.token
           x == <<k, i, t>>
           g == Append(s.out, x)
           u == ChatSay(s, <<x>>)
           more == Extend(calls, e)
           seen == Sent(s.out, Opening, Nat)
<1>1. /\ ChatSaw(s.out, text, reasoning, calls, s.headers, seen)
      /\ s.think => OpenSeen(seen, text, outcomes, p)
      /\ ~s.think => ClosedSeen(seen, text, outcomes, p, at)
  BY DEF ChatShows
<1> HIDE DEF seen
<1>2. s \in ChatStreams /\ s.out \in Seq(ChatFrames) /\ s.headers \in SUBSET Nat
  BY ChatFacts
<1>3. k \in Deltas /\ i \in Nat /\ i \in s.headers /\ t \in Nat
  BY <1>2 DEF ArgumentsKind, Deltas
<1>4. /\ DOMAIN more = DOMAIN calls
      /\ \A n \in DOMAIN calls :
            /\ more[n].index = calls[n].index
            /\ more[n].body = IF calls[n].index = i THEN Append(calls[n].body, t) ELSE calls[n].body
  BY ExtendedAt
<1> HIDE DEF k, i, t, more
<1>5. x \in ChatFrames
  BY <1>3 DEF ChatFrames, ChatKinds, Deltas
<1>6. ChatSaw(g, text, reasoning, more, s.headers, seen)
  BY <1>1, <1>2, <1>3, <1>4, SeesFragment
<1> HIDE DEF x
<1>7. u.out = g /\ u.think = s.think /\ u.headers = s.headers
  BY <1>2, <1>5, SayOut
<1> HIDE DEF u, g
<1>8. ChatSaw(u.out, text, reasoning, more, u.headers, seen)
  BY <1>6, <1>7
<1>9. ChatShows(u, text, reasoning, more, outcomes, p, at)
  BY <1>1, <1>7, <1>8, ChatSeen
<1> QED
  BY <1>9 DEF u, x, k, i, t, more

\* What collect() adds of an event.
LEMMA Collected ==
    ASSUME NEW r \in Results, NEW e, e.kind \notin Ends
    PROVE  LET q == Collect(r, e) IN
           /\ q.text = IF e.kind = "answer" THEN r.text \o Present(e.content) ELSE r.text
           /\ q.reasoning = IF e.kind = "answer" THEN r.reasoning \o Present(e.reasoning) ELSE r.reasoning
           /\ q.outcomes = IF e.kind = "member" THEN Append(r.outcomes, e.token) ELSE r.outcomes
           /\ q.calls = IF e.kind = "tool" THEN Append(r.calls, [index |-> e.index, body |-> <<>>])
                        ELSE IF e.kind = "arguments" THEN Extend(r.calls, e) ELSE r.calls
<1> DEFINE k == e.kind
           q == Collect(r, e)
           a == Append(r.outcomes, e.token)
           b == r.text \o Present(e.content)
           c == r.reasoning \o Present(e.reasoning)
           d == Append(r.calls, [index |-> e.index, body |-> <<>>])
           x == Extend(r.calls, e)
<1>1. k \notin {"completed", "cut", "failed"}
  BY DEF Ends
<1>2. CASE k = "member"
  <2>1. q = [r EXCEPT !.outcomes = a]
    BY <1>2 DEF Collect
  <2> HIDE DEF a, b, c, d, x, q
  <2>2. q.outcomes = a /\ q.text = r.text /\ q.reasoning = r.reasoning /\ q.calls = r.calls
    BY <2>1 DEF Results
  <2> QED
    BY <1>2, <2>2 DEF a, q
<1>3. CASE k = "answer"
  <2>1. q = [r EXCEPT !.text = b, !.reasoning = c]
    BY <1>3 DEF Collect
  <2> HIDE DEF a, b, c, d, x, q
  <2>2. q.outcomes = r.outcomes /\ q.text = b /\ q.reasoning = c /\ q.calls = r.calls
    BY <2>1 DEF Results
  <2> QED
    BY <1>3, <2>2 DEF b, c, q
<1>4. CASE k = "tool"
  <2>1. q = [r EXCEPT !.calls = d]
    BY <1>4 DEF Collect
  <2> HIDE DEF a, b, c, d, x, q
  <2>2. q.outcomes = r.outcomes /\ q.text = r.text /\ q.reasoning = r.reasoning /\ q.calls = d
    BY <2>1 DEF Results
  <2> QED
    BY <1>4, <2>2 DEF d, q
<1>5. CASE k = "arguments"
  <2>1. q = [r EXCEPT !.calls = x]
    BY <1>5 DEF Collect
  <2> HIDE DEF a, b, c, d, x, q
  <2>2. q.outcomes = r.outcomes /\ q.text = r.text /\ q.reasoning = r.reasoning /\ q.calls = x
    BY <2>1 DEF Results
  <2> QED
    BY <1>5, <2>2 DEF x, q
<1>6. CASE k \notin {"member", "answer", "tool", "arguments"}
  <2>1. q = r
    BY <1>1, <1>6 DEF Collect
  <2> HIDE DEF a, b, c, d, x
  <2> QED
    BY <1>6, <2>1
<1> QED
  BY <1>2, <1>3, <1>4, <1>5, <1>6

\* Nothing of the answer is shown while the panel works.
LEMMA PanelShown ==
    ASSUME NEW s, NEW text, NEW reasoning, NEW calls, NEW outcomes, NEW p, NEW at \in {"start", "panel"},
           ChatShows(s, text, reasoning, calls, outcomes, p, at)
    PROVE  ChatShows(s, text, reasoning, calls, outcomes, p, "panel")
<1> DEFINE seen == Sent(s.out, Opening, Nat)
<1>1. /\ ChatSaw(s.out, text, reasoning, calls, s.headers, seen)
      /\ s.think => OpenSeen(seen, text, outcomes, p)
      /\ ~s.think => ClosedSeen(seen, text, outcomes, p, at)
  BY DEF ChatShows
<1> HIDE DEF seen
<1>2. ASSUME ClosedSeen(seen, text, outcomes, p, at)
      PROVE  ClosedSeen(seen, text, outcomes, p, "panel")
  BY <1>2 DEF ClosedSeen
<1> QED
  BY <1>1, <1>2, ChatSeen

\* An event shows in the stream what collect() adds to the result.
LEMMA ChatShowsStep ==
    ASSUME NEW p \in Options, NEW s, ChatGood(s, p.compat), NEW r \in Results, NEW e,
           e.index \in Nat, e.token \in Nat, e.reasoning \in Nat, e.content \in Nat,
           NEW at, NEW next, Moves(e.kind, at, next), at = "answer" => ~s.think,
           e.kind = "tool" => e.index \notin s.headers,
           e.kind = "arguments" => e.index \in s.headers,
           ChatShows(s, r.text, r.reasoning, r.calls, r.outcomes, p, at)
    PROVE  LET q == Collect(r, e)
           IN  ChatShows(ChatFold(s, e, p), q.text, q.reasoning, q.calls, q.outcomes, p, next)
<1> DEFINE k == e.kind
           u == ChatFold(s, e, p)
           q == Collect(r, e)
           compat == p.compat
           i == e.index
           t == e.token
           text == r.text
           reasoning == r.reasoning
           calls == r.calls
           outcomes == r.outcomes
<1>0. p.inline \in BOOLEAN /\ p.notices \in BOOLEAN /\ compat \in BOOLEAN
  BY OptionsType
<1>1. /\ text \in Seq(Nat) /\ reasoning \in Seq(Nat) /\ outcomes \in Seq(Nat) /\ calls \in Seq(CallRecords)
      /\ i \in Nat /\ t \in Nat
  BY DEF Results
<1>2. k \notin Ends
  BY DEF Moves, Ends
<1>3. /\ q.text = IF k = "answer" THEN text \o Present(e.content) ELSE text
      /\ q.reasoning = IF k = "answer" THEN reasoning \o Present(e.reasoning) ELSE reasoning
      /\ q.outcomes = IF k = "member" THEN Append(outcomes, t) ELSE outcomes
      /\ q.calls = IF k = "tool" THEN Append(calls, [index |-> i, body |-> <<>>])
                   ELSE IF k = "arguments" THEN Extend(calls, e) ELSE calls
  BY <1>2, Collected
<1>4. ChatGood(s, compat) /\ ChatShows(s, text, reasoning, calls, outcomes, p, at)
  OBVIOUS
<1> HIDE DEF q, text, reasoning, calls, outcomes, compat
<1>5. CASE k \in {"fanout_started", "member"} /\ p.inline
  <2> DEFINE a == OpenRole(s)
             v == OpenThink(a, p)
             w == ChatSay(v, <<<<"line", 0, t>>>>)
             more == Append(outcomes, t)
  <2>0. at \in {"start", "panel"} /\ next = "panel" /\ p.inline = TRUE
    BY <1>0, <1>5 DEF Moves
  <2>1. ChatGood(a, compat) /\ a.role /\ ChatShows(a, text, reasoning, calls, outcomes, p, at)
    BY <1>4, ChatRole, RoleShown
  <2>2. u = IF k = "member" THEN w ELSE v
    BY <1>5 DEF ChatFold
  <2> HIDE DEF a
  <2>3. ChatGood(v, compat) /\ v.think
    BY <1>0, <2>1, ChatThink
  <2>4. ChatShows(v, text, reasoning, calls, outcomes, p, "panel")
    BY <1>0, <1>1, <2>0, <2>1, ThinkShown
  <2> HIDE DEF v
  <2>5. ChatShows(w, text, reasoning, calls, more, p, "panel")
    BY <1>1, <2>0, <2>3, <2>4, LineShown
  <2> HIDE DEF w, more
  <2>6. q.text = text /\ q.reasoning = reasoning /\ q.calls = calls
        /\ q.outcomes = IF k = "member" THEN more ELSE outcomes
    BY <1>3, <1>5 DEF more
  <2> HIDE DEF u
  <2>7. ChatShows(u, q.text, q.reasoning, q.calls, q.outcomes, p, next)
    BY <2>0, <2>2, <2>4, <2>5, <2>6
  <2> QED
    BY <2>7 DEF u, q
<1>6. CASE k \in {"fanout_started", "fanout_skipped", "member", "abandoned"} /\ ~(k \in {"fanout_started", "member"} /\ p.inline)
  <2>1. u = s /\ at \in {"start", "panel"} /\ next = "panel"
    BY <1>6 DEF ChatFold, Moves
  <2>2. ChatShows(s, text, reasoning, calls, outcomes, p, "panel")
    BY <1>4, <2>1, PanelShown
  <2>3. ASSUME k = "member"
        PROVE  ChatShows(s, text, reasoning, calls, q.outcomes, p, "panel")
    BY <1>6, <2>2, <2>3, UnseenShown
  <2>4. q.text = text /\ q.reasoning = reasoning /\ q.calls = calls /\ (k # "member" => q.outcomes = outcomes)
    BY <1>3, <1>6
  <2> HIDE DEF u
  <2>5. ChatShows(u, q.text, q.reasoning, q.calls, q.outcomes, p, next)
    BY <2>1, <2>2, <2>3, <2>4
  <2> QED
    BY <2>5 DEF u, q
<1>7. CASE k = "synthesis"
  <2>1. u = CloseThink(s) /\ next = "answer"
    BY <1>7 DEF ChatFold, SynthesisSeen, Moves
  <2>2. ChatShows(CloseThink(s), text, reasoning, calls, outcomes, p, "answer")
    BY <1>0, <1>1, <1>4, ThoughtShown
  <2>3. q.text = text /\ q.reasoning = reasoning /\ q.calls = calls /\ q.outcomes = outcomes
    BY <1>3, <1>7
  <2> HIDE DEF u
  <2>4. ChatShows(u, q.text, q.reasoning, q.calls, q.outcomes, p, next)
    BY <2>1, <2>2, <2>3
  <2> QED
    BY <2>4 DEF u, q
<1>8. CASE k = "answer"
  <2> DEFINE v == ChatSay(OpenRole(s), AnswerFrames(e))
             spoken == text \o Present(e.content)
             thought == reasoning \o Present(e.reasoning)
  <2>1. u = v /\ next = "answer" /\ at = "answer"
    BY <1>8 DEF ChatFold, Moves
  <2>2. ~s.think /\ ChatShows(s, text, reasoning, calls, outcomes, p, "answer")
    BY <1>4, <2>1
  <2>3. ChatShows(v, spoken, thought, calls, outcomes, p, "answer")
    BY <1>0, <1>1, <1>4, <2>2, AnswerShown
  <2>4. q.text = spoken /\ q.reasoning = thought /\ q.calls = calls /\ q.outcomes = outcomes
    BY <1>3, <1>8
  <2> HIDE DEF u, v, spoken, thought
  <2>5. ChatShows(u, q.text, q.reasoning, q.calls, q.outcomes, p, next)
    BY <2>1, <2>3, <2>4
  <2> QED
    BY <2>5 DEF u, q
<1>9. CASE k = "tool"
  <2> DEFINE v == [ChatSay(OpenRole(s), <<<<"tool", i, t>>>>) EXCEPT !.headers = @ \cup {i}]
             more == Append(calls, [index |-> i, body |-> <<>>])
  <2>1. u = v /\ next = at
    BY <1>9 DEF ChatFold, Moves
  <2>2. i \in Nat \ s.headers
    BY <1>1, <1>9
  <2> HIDE DEF i, t
  <2>3. ChatShows(v, text, reasoning, more, outcomes, p, at)
    BY <1>1, <1>4, <2>2, CallShown
  <2>4. q.text = text /\ q.reasoning = reasoning /\ q.calls = more /\ q.outcomes = outcomes
    BY <1>3, <1>9
  <2> HIDE DEF u, v, more
  <2>5. ChatShows(u, q.text, q.reasoning, q.calls, q.outcomes, p, next)
    BY <2>1, <2>3, <2>4
  <2> QED
    BY <2>5 DEF u, q
<1>10. CASE k = "arguments"
  <2> DEFINE v == ChatSay(s, <<<<ArgumentsKind(s, e, p), e.index, e.token>>>>)
             more == Extend(calls, e)
  <2>1. u = v /\ next = at
    BY <1>10 DEF ChatFold, Moves
  <2>2. e.index \in s.headers
    BY <1>10
  <2>3. ChatShows(v, text, reasoning, more, outcomes, p, at)
    BY <1>1, <1>4, <2>2, FragmentShown
  <2>4. q.text = text /\ q.reasoning = reasoning /\ q.calls = more /\ q.outcomes = outcomes
    BY <1>3, <1>10
  <2> HIDE DEF u, v, more
  <2>5. ChatShows(u, q.text, q.reasoning, q.calls, q.outcomes, p, next)
    BY <2>1, <2>3, <2>4
  <2> QED
    BY <2>5 DEF u, q
<1> QED
  BY <1>5, <1>6, <1>7, <1>8, <1>9, <1>10 DEF Moves

\* Of a stream without a frame nothing is seen.
LEMMA SawNothing ==
    ASSUME NEW n, n = <<>>
    PROVE  ChatSaw(n, n, n, n, {}, n)
<1>1. ASSUME NEW kinds, NEW at PROVE Tokens(n, kinds, at) = n /\ Sent(n, kinds, at) = n
  BY TokensNone, SentNone
<1>2. DOMAIN n = {}
  OBVIOUS
<1> QED
  BY <1>1, <1>2, Zenon DEF ChatSaw

\* A stream that shows nothing yet is in order.
LEMMA ChatSilent ==
    ASSUME NEW compat
    PROVE  LET s == [role |-> FALSE, think |-> FALSE, headers |-> {}, out |-> <<>>] IN ChatGood(s, compat)
<1> DEFINE s == [role |-> FALSE, think |-> FALSE, headers |-> {}, out |-> <<>>]
           f == s.out
<1>1. s \in ChatStreams /\ f = <<>> /\ Len(f) = 0 /\ DOMAIN f = {} /\ f \in Seq(ChatFrames)
  BY DEF ChatStreams
<1>2. \A kind : Count(f, 0, kind) = 0
  <2> TAKE kind
  <2>1. {m \in 1 .. 0 : f[m][1] = kind} = {}
    OBVIOUS
  <2> QED
    BY <2>1, FS_EmptySet DEF Count
<1>3. ChatSent(f, FALSE, FALSE, {}, 0, compat)
  <2> HIDE DEF f
  <2> QED
    BY <1>1, <1>2 DEF ChatSent
<1> QED
  BY <1>1, <1>3 DEF ChatGood

\* A stream begins, with its think block if the plan has notices.
LEMMA ChatShowsStart ==
    ASSUME NEW p \in Options, NEW n, n = <<>>
    PROVE  ChatShows(ChatStart(p), n, n, n, n, p, "start")
<1> DEFINE s == [role |-> FALSE, think |-> FALSE, headers |-> {}, out |-> <<>>]
           v == OpenRole(s)
           u == OpenThink(v, p)
           compat == p.compat
<1>0. p.inline \in BOOLEAN /\ p.notices \in BOOLEAN
  BY OptionsType
<1>1. ChatGood(s, compat)
  BY ChatSilent
<1>2. s.out = n /\ s.role = FALSE /\ s.think = FALSE /\ s.headers = {}
  OBVIOUS
<1>3. ChatStart(p) = IF p.notices THEN u ELSE s
  BY DEF ChatStart
<1> HIDE DEF s, compat
<1>4. ChatSaw(n, n, n, n, {}, n)
  BY SawNothing
<1>5. CASE ~p.notices
  <2>1. Contents(n) = n /\ Lines(n, p) = n
    BY DEF Contents, Lines
  <2>2. ClosedSeen(n, n, n, p, "start")
    BY <1>5, <2>1 DEF ClosedSeen
  <2>3. ChatSaw(s.out, n, n, n, s.headers, n)
    BY <1>2, <1>4, Zenon
  <2>4. ChatShows(s, n, n, n, n, p, "start")
    BY <1>2, <2>2, <2>3, ChatSeen
  <2> QED
    BY <1>3, <1>5, <2>4
<1>6. CASE p.notices
  <2>1. ChatGood(v, compat) /\ v.role /\ v.think = s.think /\ v.headers = s.headers
    BY <1>1, ChatRole
  <2>2. v.out = Append(n, <<"role", 0, 0>>)
    BY <1>1, <1>2, RoleOut
  <2>3. n \in Seq(ChatFrames)
    BY EmptySeq
  <2>4. ChatSaw(Append(n, <<"role", 0, 0>>), n, n, n, {}, n)
    <3> DEFINE none == {}
    <3>1. ChatSaw(n, n, n, n, none, n)
      BY <1>4
    <3> HIDE DEF none
    <3>2. ChatSaw(Append(n, <<"role", 0, 0>>), n, n, n, none, n)
      BY <2>3, <3>1, SeesNothing
    <3> QED
      BY <3>2 DEF none
  <2>5. ChatSaw(v.out, n, n, n, v.headers, n) /\ ~v.think
    BY <1>2, <2>1, <2>2, <2>4, Zenon
  <2> HIDE DEF v
  <2>6. ChatGood(u, compat) /\ u.think /\ u.headers = v.headers
    BY <1>0, <2>1, ChatThink
  <2>7. ChatSaw(u.out, n, n, n, v.headers, Preamble(p))
    BY <2>1, <2>5, ThinkSeen
  <2>8. OpenSeen(Preamble(p), n, n, p)
    <3>1. Lines(n, p) = n
      BY DEF Lines
    <3>2. Preamble(p) \o Lines(n, p) = Preamble(p)
      BY <3>1, SeenBegins
    <3> QED
      BY <1>6, <3>2, Zenon DEF OpenSeen
  <2> HIDE DEF u
  <2>9. ChatSaw(u.out, n, n, n, u.headers, Preamble(p))
    BY <2>6, <2>7
  <2>10. ChatShows(u, n, n, n, n, p, "start")
    BY <2>6, <2>8, <2>9, ChatSeen
  <2> QED
    BY <1>3, <1>6, <2>10 DEF u
<1> QED
  BY <1>5, <1>6

\* The frames that end a stream show nothing.
LEMMA EndsUnseen ==
    ASSUME NEW s \in ChatStreams, NEW text, NEW reasoning, NEW calls, NEW headers, NEW seen,
           ChatSaw(s.out, text, reasoning, calls, headers, seen), NEW k \in {"finish", "error"}
    PROVE  /\ ChatSaw(ChatSay(s, <<<<k, 0, 0>>, <<"[DONE]", 0, 0>>>>).out, text, reasoning, calls, headers, seen)
           /\ ChatSaw(ChatSay(s, <<<<k, 0, 0>>, <<"usage", 0, 0>>, <<"[DONE]", 0, 0>>>>).out,
                      text, reasoning, calls, headers, seen)
<1> DEFINE x == <<k, 0, 0>>
           y == <<"usage", 0, 0>>
           z == <<"[DONE]", 0, 0>>
           f == s.out
           f1 == Append(f, x)
           f2 == Append(f1, y)
<1>1. x \in ChatFrames /\ y \in ChatFrames /\ z \in ChatFrames
  BY DEF ChatFrames, ChatKinds
<1>2. f \in Seq(ChatFrames) /\ ChatSaw(f, text, reasoning, calls, headers, seen)
  BY DEF ChatStreams
<1> HIDE DEF f
<1>3. f1 \in Seq(ChatFrames) /\ ChatSaw(f1, text, reasoning, calls, headers, seen)
  BY <1>2, SeesNothing
<1> HIDE DEF f1
<1>4. f2 \in Seq(ChatFrames) /\ ChatSaw(f2, text, reasoning, calls, headers, seen)
      /\ ChatSaw(Append(f1, z), text, reasoning, calls, headers, seen)
  BY <1>3, SeesNothing
<1> HIDE DEF f2
<1>5. ChatSaw(Append(f2, z), text, reasoning, calls, headers, seen)
  BY <1>4, SeesNothing
<1> HIDE DEF x, y, z
<1>6. f \o <<x, z>> = Append(f1, z) /\ f \o <<x, y, z>> = Append(f2, z)
  BY <1>1, <1>2, Together DEF f1, f2
<1>7. ASSUME NEW frames PROVE ChatSay(s, frames).out = f \o frames
  BY DEF ChatSay, ChatStreams, f
<1>8. ChatSay(s, <<x, z>>).out = Append(f1, z) /\ ChatSay(s, <<x, y, z>>).out = Append(f2, z)
  BY <1>6, <1>7, Zenon
<1> QED
  BY <1>4, <1>5, <1>8 DEF x, y, z

\* When a stream ends, it shows what it showed, with its think block closed.
LEMMA ChatShowsOver ==
    ASSUME NEW s, NEW p, ChatGood(s, p.compat), p.inline \in BOOLEAN,
           NEW text \in Seq(Nat), NEW reasoning, NEW calls, NEW outcomes \in Seq(Nat), NEW at,
           ChatShows(s, text, reasoning, calls, outcomes, p, at),
           NEW k \in Ends, NEW e, e.kind = k
    PROVE  \E seen : /\ ChatSaw(ChatFold(s, e, p).out, text, reasoning, calls, s.headers, seen)
                     /\ ClosedSeen(seen, text, outcomes, p, "answer")
<1> DEFINE c == CloseThink(s)
           v == OpenRole(c)
           x == <<"finish", 0, 0>>
           y == <<"usage", 0, 0>>
           z == <<"[DONE]", 0, 0>>
           q == <<"error", 0, 0>>
           u == ChatFold(s, e, p)
           seen == Sent(c.out, Opening, Nat)
           compat == p.compat
<1>1. ChatGood(c, compat) /\ ~c.think /\ c.headers = s.headers
  BY ChatThought
<1>2. ChatShows(c, text, reasoning, calls, outcomes, p, "answer")
  BY ThoughtShown
<1>3. u = CASE k = "completed" -> ChatFinish(s, p) [] k = "failed" -> ChatFail(s) [] k = "cut" -> ChatCut(s)
  BY DEF ChatFold, Ends
<1>4. ChatFinish(s, p) = ChatSay(v, <<x>> \o (IF p.usage THEN <<y>> ELSE <<>>) \o <<z>>)
  BY DEF ChatFinish, Frame
<1>5. ChatFail(s) = ChatSay(c, <<q, z>>) /\ ChatCut(s) = ChatSay(c, <<x, z>>)
  BY DEF ChatFail, ChatCut, Frame
<1> HIDE DEF c, compat
<1>6. c \in ChatStreams /\ c.out \in Seq(ChatFrames)
  BY <1>1, ChatFacts
<1>7. ChatSaw(c.out, text, reasoning, calls, s.headers, seen) /\ ClosedSeen(seen, text, outcomes, p, "answer")
  BY <1>1, <1>2 DEF ChatShows
<1> HIDE DEF seen
<1>8. v \in ChatStreams /\ v.out \in Seq(ChatFrames)
  <2>1. ChatGood(v, compat)
    BY <1>1, ChatRole
  <2> HIDE DEF v
  <2> QED
    BY <2>1, ChatFacts
<1>9. ChatSaw(v.out, text, reasoning, calls, s.headers, seen)
  <2>1. v.out = IF c.role THEN c.out ELSE Append(c.out, <<"role", 0, 0>>)
    BY <1>1, RoleOut
  <2>2. ChatSaw(Append(c.out, <<"role", 0, 0>>), text, reasoning, calls, s.headers, seen)
    BY <1>6, <1>7, SeesNothing
  <2> HIDE DEF v
  <2> QED
    BY <1>7, <2>1, <2>2
<1> HIDE DEF v
<1> DEFINE Saw(w) == ChatSaw(w.out, text, reasoning, calls, s.headers, seen)
<1>10. Saw(ChatSay(v, <<x, z>>)) /\ Saw(ChatSay(v, <<x, y, z>>))
  BY <1>8, <1>9, EndsUnseen
<1>11. Saw(ChatSay(c, <<x, z>>)) /\ Saw(ChatSay(c, <<q, z>>))
  BY <1>6, <1>7, EndsUnseen
<1> HIDE DEF x, y, z, q
<1>12. <<x>> \o <<y>> \o <<z>> = <<x, y, z>> /\ <<x>> \o <<>> \o <<z>> = <<x, z>>
  <2>1. x \in ChatFrames /\ y \in ChatFrames /\ z \in ChatFrames
    BY DEF ChatFrames, ChatKinds, x, y, z
  <2>2. <<x>> \o <<y>> = <<x, y>> /\ <<x, y>> \o <<z>> = <<x, y, z>> /\ <<x>> \o <<>> = <<x>>
    BY <2>1, Sometimes, SometimesThird
  <2>3. <<x>> \o <<z>> = <<x, z>>
    BY <2>1, Sometimes
  <2> QED
    BY <2>2, <2>3
<1>13. ChatFinish(s, p) = IF p.usage THEN ChatSay(v, <<x, y, z>>) ELSE ChatSay(v, <<x, z>>)
  BY <1>4, <1>12
<1>14. Saw(ChatFinish(s, p)) /\ Saw(ChatFail(s)) /\ Saw(ChatCut(s))
  <2> HIDE DEF Saw
  <2> QED
    BY <1>5, <1>10, <1>11, <1>13
<1>15. Saw(u)
  <2> HIDE DEF Saw, u
  <2> QED
    BY <1>3, <1>14 DEF Ends
<1> QED
  BY <1>7, <1>15, Zenon

(***************************************************************************)
(* Anthropic: what a client sees of one more frame                         *)
(***************************************************************************)
\* A frame is seen among the frames of its kind.
LEMMA BlockSees ==
    ASSUME NEW f \in Seq(BlockFrames), NEW x \in BlockFrames
    PROVE  LET g == Append(f, x) IN
           /\ Tokens(g, {"text"}, Nat) =
                IF x[1] = "text" THEN Append(Tokens(f, {"text"}, Nat), x[3]) ELSE Tokens(f, {"text"}, Nat)
           /\ Tokens(g, {"thinking"}, Nat) =
                IF x[1] = "thinking" THEN Append(Tokens(f, {"thinking"}, Nat), x[3])
                ELSE Tokens(f, {"thinking"}, Nat)
           /\ \A i : Tokens(g, {"json"}, {i}) =
                IF x[1] = "json" /\ x[2] = i THEN Append(Tokens(f, {"json"}, {i}), x[3])
                ELSE Tokens(f, {"json"}, {i})
<1> DEFINE g == Append(f, x)
<1>1. f \in Seq(FramesOf(BlockKinds)) /\ x \in FramesOf(BlockKinds) /\ x[2] \in Nat
  BY DEF BlockFrames, FramesOf
<1>2. ASSUME NEW kinds, NEW at
      PROVE  Tokens(g, kinds, at) =
                  IF x[1] \in kinds /\ x[2] \in at THEN Append(Tokens(f, kinds, at), x[3]) ELSE Tokens(f, kinds, at)
  BY <1>1, TokensMore
<1> HIDE DEF g
<1>3. ASSUME NEW k
      PROVE  Tokens(g, {k}, Nat) = IF x[1] = k THEN Append(Tokens(f, {k}, Nat), x[3]) ELSE Tokens(f, {k}, Nat)
  <2> DEFINE kinds == {k}
  <2>1. Tokens(g, kinds, Nat) =
          IF x[1] \in kinds /\ x[2] \in Nat THEN Append(Tokens(f, kinds, Nat), x[3]) ELSE Tokens(f, kinds, Nat)
    BY <1>2
  <2>2. x[1] \in kinds <=> x[1] = k
    OBVIOUS
  <2> HIDE DEF kinds
  <2>3. Tokens(g, kinds, Nat) = IF x[1] = k THEN Append(Tokens(f, kinds, Nat), x[3]) ELSE Tokens(f, kinds, Nat)
    BY <1>1, <2>1, <2>2
  <2> QED
    BY <2>3 DEF kinds
<1>4. ASSUME NEW i
      PROVE  Tokens(g, {"json"}, {i}) =
                IF x[1] = "json" /\ x[2] = i THEN Append(Tokens(f, {"json"}, {i}), x[3])
                ELSE Tokens(f, {"json"}, {i})
  <2> DEFINE kinds == {"json"}
             at == {i}
  <2>1. Tokens(g, kinds, at) =
          IF x[1] \in kinds /\ x[2] \in at THEN Append(Tokens(f, kinds, at), x[3]) ELSE Tokens(f, kinds, at)
    BY <1>2
  <2>2. x[1] \in kinds /\ x[2] \in at <=> x[1] = "json" /\ x[2] = i
    OBVIOUS
  <2> HIDE DEF kinds, at
  <2>3. Tokens(g, kinds, at) =
          IF x[1] = "json" /\ x[2] = i THEN Append(Tokens(f, kinds, at), x[3]) ELSE Tokens(f, kinds, at)
    BY <2>1, <2>2
  <2> QED
    BY <2>3 DEF kinds, at
<1>5. Tokens(g, {"text"}, Nat) =
          IF x[1] = "text" THEN Append(Tokens(f, {"text"}, Nat), x[3]) ELSE Tokens(f, {"text"}, Nat)
  BY <1>3
<1>6. Tokens(g, {"thinking"}, Nat) =
          IF x[1] = "thinking" THEN Append(Tokens(f, {"thinking"}, Nat), x[3]) ELSE Tokens(f, {"thinking"}, Nat)
  BY <1>3
<1> QED
  BY <1>4, <1>5, <1>6 DEF g

\* The indices of the frames stay below the next one.
LEMMA StillBelow ==
    ASSUME NEW f \in Seq(BlockFrames), NEW x \in BlockFrames, NEW next \in Nat, NEW nnext \in Nat,
           next <= nnext, \A n \in DOMAIN f : f[n][2] < next, x[2] < nnext
    PROVE  \A n \in DOMAIN Append(f, x) : Append(f, x)[n][2] < nnext
<1> DEFINE g == Append(f, x)
<1>1. /\ Len(f) \in Nat /\ DOMAIN f = 1 .. Len(f) /\ DOMAIN g = 1 .. Len(f) + 1
      /\ \A n \in 1 .. Len(f) : g[n] = f[n] /\ f[n] \in BlockFrames
      /\ g[Len(f) + 1] = x
  BY OneMore, ElementOfSeq
<1> HIDE DEF g
<1>2. ASSUME NEW n \in DOMAIN g
      PROVE  g[n][2] < nnext
  <2>1. CASE n \in 1 .. Len(f)
    <3> DEFINE i == f[n][2]
    <3>1. i \in Nat /\ i < next /\ g[n] = f[n]
      BY <1>1, <2>1 DEF BlockFrames
    <3> QED
      BY <3>1
  <2>2. CASE n = Len(f) + 1
    BY <1>1, <2>2
  <2> QED
    BY <1>1, <2>1, <2>2
<1> QED
  BY <1>2 DEF g

\* A frame that says nothing, of an open block or of the next one.
LEMMA BlockSilent ==
    ASSUME NEW f \in Seq(BlockFrames), NEW text, NEW thought, NEW blocks \in Seq([index : Nat, at : Nat]),
           NEW next \in Nat, NEW calls, BlocksSaw(f, text, thought, blocks, next, calls),
           NEW k \in {"start", "signature", "stop", "message_delta", "message_stop", "error"},
           NEW i \in Nat, NEW t \in Nat, NEW nnext \in Nat, next <= nnext, i < nnext
    PROVE  /\ Append(f, <<k, i, t>>) \in Seq(BlockFrames)
           /\ BlocksSaw(Append(f, <<k, i, t>>), text, thought, blocks, nnext, calls)
<1> DEFINE x == <<k, i, t>>
           g == Append(f, x)
<1>1. x \in BlockFrames /\ x[1] \notin {"text", "thinking", "json"} /\ x[2] = i
  BY DEF BlockFrames, BlockKinds
<1> HIDE DEF x
<1>2. g \in Seq(BlockFrames)
  BY <1>1, OneMore
<1>3. /\ Tokens(g, {"text"}, Nat) = Tokens(f, {"text"}, Nat)
      /\ Tokens(g, {"thinking"}, Nat) = Tokens(f, {"thinking"}, Nat)
      /\ \A j : Tokens(g, {"json"}, {j}) = Tokens(f, {"json"}, {j})
  BY <1>1, BlockSees
<1>4. \A n \in DOMAIN f : f[n][2] < next
  BY DEF BlocksSaw
<1>5. \A n \in DOMAIN g : g[n][2] < nnext
  BY <1>1, <1>4, StillBelow
<1> HIDE DEF g
<1>6. \A n \in DOMAIN blocks : blocks[n].at < nnext
  <2> TAKE n \in DOMAIN blocks
  <2> DEFINE b == blocks[n]
  <2>1. b \in [index : Nat, at : Nat]
    BY LenProperties, ElementOfSeq
  <2>2. b.at \in Nat /\ b.at < next
    BY <2>1 DEF BlocksSaw
  <2> QED
    BY <2>2
<1>7. BlocksSaw(g, text, thought, blocks, nnext, calls)
  BY <1>3, <1>5, <1>6, Zenon DEF BlocksSaw
<1> QED
  BY <1>2, <1>7 DEF g, x

\* A piece of the text or of the thinking.
LEMMA BlockAnswer ==
    ASSUME NEW f \in Seq(BlockFrames), NEW text, NEW thought, NEW blocks, NEW next \in Nat, NEW calls,
           BlocksSaw(f, text, thought, blocks, next, calls), NEW i \in Nat, i < next, NEW t \in Nat
    PROVE  /\ BlocksSaw(Append(f, <<"text", i, t>>), Append(text, t), thought, blocks, next, calls)
           /\ BlocksSaw(Append(f, <<"thinking", i, t>>), text, Append(thought, t), blocks, next, calls)
<1> DEFINE x == <<"text", i, t>>
           g == Append(f, x)
           y == <<"thinking", i, t>>
           h == Append(f, y)
<1>1. x \in BlockFrames /\ x[1] = "text" /\ x[2] = i /\ x[3] = t
  BY DEF BlockFrames, BlockKinds
<1>2. y \in BlockFrames /\ y[1] = "thinking" /\ y[2] = i /\ y[3] = t
  BY DEF BlockFrames, BlockKinds
<1> HIDE DEF x, y
<1>3. /\ Tokens(g, {"text"}, Nat) = Append(Tokens(f, {"text"}, Nat), t)
      /\ Tokens(g, {"thinking"}, Nat) = Tokens(f, {"thinking"}, Nat)
      /\ \A j : Tokens(g, {"json"}, {j}) = Tokens(f, {"json"}, {j})
  BY <1>1, BlockSees
<1>4. /\ Tokens(h, {"text"}, Nat) = Tokens(f, {"text"}, Nat)
      /\ Tokens(h, {"thinking"}, Nat) = Append(Tokens(f, {"thinking"}, Nat), t)
      /\ \A j : Tokens(h, {"json"}, {j}) = Tokens(f, {"json"}, {j})
  BY <1>2, BlockSees
<1>5. next <= next /\ \A n \in DOMAIN f : f[n][2] < next
  BY DEF BlocksSaw
<1>6. \A n \in DOMAIN g : g[n][2] < next
  BY <1>1, <1>5, StillBelow
<1>7. \A n \in DOMAIN h : h[n][2] < next
  BY <1>2, <1>5, StillBelow
<1> HIDE DEF g, h
<1>8. BlocksSaw(g, Append(text, t), thought, blocks, next, calls)
  BY <1>3, <1>6, Zenon DEF BlocksSaw
<1>9. BlocksSaw(h, text, Append(thought, t), blocks, next, calls)
  BY <1>4, <1>7, Zenon DEF BlocksSaw
<1> QED
  BY <1>8, <1>9 DEF g, h, x, y

\* A fragment of a call, in its block.
LEMMA BlockFragment ==
    ASSUME NEW f \in Seq(BlockFrames), NEW text, NEW thought, NEW blocks, NEW next \in Nat, NEW calls,
           BlocksSaw(f, text, thought, blocks, next, calls),
           NEW m \in DOMAIN blocks, NEW i \in Nat, i = blocks[m].at, NEW t \in Nat,
           NEW g, Len(g) = Len(calls),
           \A n \in DOMAIN blocks :
              /\ g[n].index = calls[n].index
              /\ g[n].body = IF n = m THEN Append(calls[n].body, t) ELSE calls[n].body
    PROVE  BlocksSaw(Append(f, <<"json", i, t>>), text, thought, blocks, next, g)
<1> DEFINE x == <<"json", i, t>>
           h == Append(f, x)
<1>1. x \in BlockFrames /\ x[1] = "json" /\ x[2] = i /\ x[3] = t
  BY DEF BlockFrames, BlockKinds
<1> HIDE DEF x
<1>2. /\ Tokens(h, {"text"}, Nat) = Tokens(f, {"text"}, Nat)
      /\ Tokens(h, {"thinking"}, Nat) = Tokens(f, {"thinking"}, Nat)
      /\ \A j : Tokens(h, {"json"}, {j}) =
                   IF x[1] = "json" /\ x[2] = j THEN Append(Tokens(f, {"json"}, {j}), x[3])
                   ELSE Tokens(f, {"json"}, {j})
  BY <1>1, BlockSees
<1>3. /\ next <= next /\ i < next /\ \A n \in DOMAIN f : f[n][2] < next
      /\ \A n \in DOMAIN blocks : n # m => blocks[n].at # i
  <2>1. /\ blocks[m].at < next /\ \A n \in DOMAIN f : f[n][2] < next
        /\ \A n \in DOMAIN blocks : blocks[n].at = blocks[m].at => n = m
    BY Zenon DEF BlocksSaw
  <2> QED
    BY <2>1
<1>4. \A n \in DOMAIN h : h[n][2] < next
  BY <1>1, <1>3, StillBelow
<1> HIDE DEF h
<1>5. ASSUME NEW n \in DOMAIN blocks
      PROVE  Tokens(h, {"json"}, {blocks[n].at}) = g[n].body
  <2> DEFINE j == blocks[n].at
             b == Tokens(f, {"json"}, {j})
  <2>1. b = calls[n].body
    BY DEF BlocksSaw
  <2>2. Tokens(h, {"json"}, {j}) = IF j = i THEN Append(b, t) ELSE b
    BY <1>1, <1>2
  <2>3. j = i <=> n = m
    BY <1>3
  <2> HIDE DEF b, j
  <2>4. Tokens(h, {"json"}, {j}) = g[n].body
    BY <2>1, <2>2, <2>3
  <2> QED
    BY <2>4 DEF j
<1>6. \A n \in DOMAIN blocks : g[n].index = calls[n].index
  OBVIOUS
<1>7. Len(blocks) = Len(g)
  BY DEF BlocksSaw
<1>8. BlocksSaw(h, text, thought, blocks, next, g)
  BY <1>2, <1>4, <1>5, <1>6, <1>7, Zenon DEF BlocksSaw
<1> QED
  BY <1>8 DEF h, x

\* Nothing was said in a block that was not begun.
LEMMA BlockUnsaid ==
    ASSUME NEW f \in Seq(BlockFrames), NEW next \in Nat, \A n \in DOMAIN f : f[n][2] < next
    PROVE  Tokens(f, {"json"}, {next}) = <<>>
<1> DEFINE kinds == {"json"}
           at == {next}
<1>1. Len(f) \in Nat /\ DOMAIN f = 1..Len(f)
  BY LenProperties
<1>2. \A n \in 1..Len(f) : ~(f[n][1] \in kinds /\ f[n][2] \in at)
  <2> TAKE n \in 1..Len(f)
  <2>1. f[n] \in BlockFrames
    BY ElementOfSeq
  <2>2. f[n][2] \in Nat /\ f[n][2] < next
    BY <1>1, <2>1 DEF BlockFrames
  <2> QED
    BY <2>2
<1> HIDE DEF kinds, at
<1>3. Tokens(f, kinds, at) = <<>>
  BY <1>1, <1>2, TokensNever
<1> QED
  BY <1>3 DEF kinds, at

\* A call gets the next block, in which nothing was said.
LEMMA BlockCall ==
    ASSUME NEW f \in Seq(BlockFrames), NEW text, NEW thought, NEW blocks \in Seq([index : Nat, at : Nat]),
           NEW next \in Nat, NEW calls \in Seq(CallRecords), BlocksSaw(f, text, thought, blocks, next, calls),
           NEW i \in Nat, NEW t \in Nat
    PROVE  BlocksSaw(Append(f, <<"start", next, t>>), text, thought, Append(blocks, [index |-> i, at |-> next]),
                     next + 1, Append(calls, [index |-> i, body |-> <<>>]))
<1> DEFINE x == <<"start", next, t>>
           g == Append(f, x)
           b == [index |-> i, at |-> next]
           c == [index |-> i, body |-> <<>>]
           bs == Append(blocks, b)
           cs == Append(calls, c)
           S == [index : Nat, at : Nat]
<1>1. next + 1 \in Nat /\ next <= next + 1 /\ next < next + 1
  OBVIOUS
<1>2. BlocksSaw(g, text, thought, blocks, next + 1, calls)
  BY <1>1, BlockSilent
<1>3. x \in BlockFrames /\ x[1] # "json"
  BY DEF BlockFrames, BlockKinds
<1> HIDE DEF x
<1>4. Tokens(g, {"json"}, {next}) = <<>>
  <2>1. \A n \in DOMAIN f : f[n][2] < next
    BY DEF BlocksSaw
  <2>2. Tokens(f, {"json"}, {next}) = <<>>
    BY <2>1, BlockUnsaid
  <2>3. \A j : Tokens(g, {"json"}, {j}) =
                IF x[1] = "json" /\ x[2] = j THEN Append(Tokens(f, {"json"}, {j}), x[3])
                ELSE Tokens(f, {"json"}, {j})
    BY <1>3, BlockSees
  <2>4. Tokens(g, {"json"}, {next}) = Tokens(f, {"json"}, {next})
    BY <1>3, <2>3
  <2> QED
    BY <2>2, <2>4, Zenon
<1> HIDE DEF g
<1>5. b \in S /\ b.index = i /\ b.at = next /\ c \in CallRecords /\ c.index = i /\ c.body = <<>>
  BY DEF CallRecords
<1>6. blocks \in Seq(S)
  OBVIOUS
<1> HIDE DEF b, c, S
<1>7. /\ bs \in Seq(S) /\ Len(blocks) \in Nat /\ Len(bs) = Len(blocks) + 1
      /\ DOMAIN blocks = 1..Len(blocks) /\ DOMAIN bs = 1..Len(blocks) + 1
      /\ \A n \in 1..Len(blocks) : bs[n] = blocks[n]
      /\ bs[Len(blocks) + 1] = b
  BY <1>5, <1>6, OneMore
<1>8. /\ Len(calls) \in Nat /\ Len(cs) = Len(calls) + 1
      /\ \A n \in 1..Len(calls) : cs[n] = calls[n]
      /\ cs[Len(calls) + 1] = c
  BY <1>5, OneMore
<1> HIDE DEF bs, cs
<1>9. /\ Len(blocks) = Len(calls)
      /\ \A n \in DOMAIN blocks :
            /\ blocks[n].index = calls[n].index /\ blocks[n].at < next
            /\ Tokens(g, {"json"}, {blocks[n].at}) = calls[n].body
      /\ \A m, n \in DOMAIN blocks : blocks[m].at = blocks[n].at => m = n
  BY <1>2 DEF BlocksSaw
<1>10. ASSUME NEW n \in DOMAIN bs
       PROVE  /\ bs[n].index = cs[n].index /\ bs[n].at < next + 1
              /\ Tokens(g, {"json"}, {bs[n].at}) = cs[n].body
  <2>1. CASE n \in 1..Len(blocks)
    <3>1. bs[n] = blocks[n] /\ cs[n] = calls[n] /\ n \in DOMAIN blocks
      BY <1>7, <1>8, <1>9, <2>1
    <3>2. blocks[n].at < next + 1
      BY <1>2, <3>1 DEF BlocksSaw
    <3> QED
      BY <1>9, <3>1, <3>2
  <2>2. CASE n = Len(blocks) + 1
    <3>1. bs[n] = b /\ cs[n] = c
      BY <1>7, <1>8, <1>9, <2>2
    <3> QED
      BY <1>1, <1>4, <1>5, <3>1
  <2> QED
    BY <1>7, <2>1, <2>2
<1>11. ASSUME NEW m \in DOMAIN bs, NEW n \in DOMAIN bs, bs[m].at = bs[n].at
       PROVE  m = n
  <2>1. \A k \in 1..Len(blocks) : bs[k].at # next
    <3> TAKE k \in 1..Len(blocks)
    <3>1. bs[k] = blocks[k] /\ k \in DOMAIN blocks
      BY <1>7
    <3>2. ~(next < next)
      OBVIOUS
    <3>3. blocks[k].at < next
      BY <3>1 DEF BlocksSaw
    <3> QED
      BY <3>1, <3>2, <3>3
  <2>2. bs[Len(blocks) + 1].at = next
    BY <1>5, <1>7
  <2>3. CASE m \in 1..Len(blocks) /\ n \in 1..Len(blocks)
    BY <1>7, <1>9, <1>11, <2>3
  <2> QED
    <3>1. (m \in 1..Len(blocks) \/ m = Len(blocks) + 1) /\ (n \in 1..Len(blocks) \/ n = Len(blocks) + 1)
      BY <1>7, <1>11
    <3>2. bs[m].at = bs[n].at
      BY <1>11
    <3> QED
      BY <2>1, <2>2, <2>3, <3>1, <3>2, Zenon
<1>12. Len(bs) = Len(cs)
  BY <1>7, <1>8, <1>9
<1>13. BlocksSaw(g, text, thought, bs, next + 1, cs)
  BY <1>2, <1>10, <1>11, <1>12, Zenon DEF BlocksSaw
<1> QED
  BY <1>13 DEF g, x, bs, cs, b, c

(***************************************************************************)
(* Anthropic: what the operators of the encoder send                       *)
(***************************************************************************)
\* What a stream of blocks is.
LEMMA BlockStream ==
    ASSUME NEW s, BlocksGood(s)
    PROVE  /\ s \in BlockStreams /\ s.out \in Seq(BlockFrames) /\ s.next \in Nat \ {0}
           /\ s.open \in Nat /\ s.open < s.next /\ s.thinking \in Nat /\ s.thinking < s.next
           /\ s.blocks \in Seq([index : Nat, at : Nat])
           /\ BlocksSent(s.out, s.next, s.open, s.thinking, FALSE) /\ Unended(s.out)
           /\ (~s.thinkingDone => s.open = s.thinking /\ s.text = 0)
           /\ (s.text # 0 => s.text = s.open) /\ s.text \in Nat
<1>1. /\ s \in BlockStreams /\ BlocksSent(s.out, s.next, s.open, s.thinking, FALSE) /\ Unended(s.out)
      /\ (~s.thinkingDone => s.open = s.thinking /\ s.text = 0)
      /\ (s.text # 0 => s.text = s.open)
  BY DEF BlocksGood, Unended
<1>2. /\ s.out \in Seq(BlockFrames) /\ s.next \in Nat \ {0}
      /\ s.open \in 0 .. (s.next - 1) /\ s.thinking \in 0 .. (s.next - 1)
  BY <1>1, BlockFacts
<1>3. s.blocks \in Seq([index : Nat, at : Nat]) /\ s.text \in Nat
  BY <1>1 DEF BlockStreams
<1>4. s.open \in Nat /\ s.open < s.next /\ s.thinking \in Nat /\ s.thinking < s.next
  BY <1>2
<1> QED
  BY <1>1, <1>2, <1>3, <1>4

\* A frame is put at the end.
LEMMA PutOut ==
    ASSUME NEW s \in BlockStreams, NEW x \in BlockFrames
    PROVE  Put(s, <<x>>).out = Append(s.out, x)
<1>1. s.out \in Seq(BlockFrames)
  BY DEF BlockStreams
<1>2. s.out \o <<x>> = Append(s.out, x)
  BY <1>1, Together
<1> DEFINE g == s.out \o <<x>>
<1>3. Put(s, <<x>>) = [s EXCEPT !.out = g]
  BY DEF Put
<1> HIDE DEF g
<1>4. Put(s, <<x>>).out = g
  BY <1>3 DEF BlockStreams
<1> QED
  BY <1>2, <1>4 DEF g

\* A block is begun with one frame.
LEMMA BeginOut ==
    ASSUME NEW s \in BlockStreams, NEW t \in Nat
    PROVE  Begin(s, t).out = Append(s.out, <<"start", s.next, t>>)
<1> DEFINE x == <<"start", s.next, t>>
           v == Put(s, <<x>>)
<1>1. x \in BlockFrames
  BY DEF BlockFrames, BlockKinds, BlockStreams
<1>2. Begin(s, t) = [v EXCEPT !.open = s.next, !.next = @ + 1]
  BY DEF Begin, Block
<1> HIDE DEF x
<1>3. v.out = Append(s.out, x)
  BY <1>1, PutOut
<1> DEFINE g == s.out \o <<x>>
<1>4. v = [s EXCEPT !.out = g]
  BY DEF Put
<1> HIDE DEF g, v
<1>5. [v EXCEPT !.open = s.next, !.next = @ + 1].out = v.out
  BY <1>4 DEF BlockStreams
<1> QED
  BY <1>2, <1>3, <1>5 DEF x

\* Nothing is said by closing the open block.
LEMMA ClosesSeen ==
    ASSUME NEW s, BlocksGood(s), NEW text, NEW thought, NEW calls,
           BlocksSaw(s.out, text, thought, s.blocks, s.next, calls)
    PROVE  BlocksSaw(CloseOpen(s).out, text, thought, s.blocks, s.next, calls)
<1> DEFINE f == s.out
           x == <<"stop", s.open, 0>>
           y == <<"signature", s.open, 0>>
           next == s.next
           blocks == s.blocks
           i == s.open
<1>1. /\ s \in BlockStreams /\ f \in Seq(BlockFrames) /\ next \in Nat /\ i \in Nat /\ i < next
      /\ blocks \in Seq([index : Nat, at : Nat])
  BY BlockStream
<1>2. CASE s.open = 0
  BY <1>2 DEF CloseOpen
<1>3. CASE s.open # 0
  <2>1. BlocksSaw(f, text, thought, blocks, next, calls) /\ next <= next
    BY <1>1
  <2> HIDE DEF f, next, blocks, i
  <2> DEFINE y1 == <<"signature", i, 0>>
             x1 == <<"stop", i, 0>>
             f1 == Append(f, y1)
             S(h) == BlocksSaw(h, text, thought, blocks, next, calls)
  <2>2. f1 \in Seq(BlockFrames) /\ S(f1)
    BY <1>1, <2>1, BlockSilent
  <2>3. S(Append(f, x1))
    BY <1>1, <2>1, BlockSilent
  <2> HIDE DEF f1
  <2>4. S(Append(f1, x1))
    BY <1>1, <2>1, <2>2, BlockSilent
  <2>5. x = x1 /\ y = y1
    BY DEF i
  <2>6. x \in BlockFrames /\ y \in BlockFrames
    BY <1>1, <2>5 DEF BlockFrames, BlockKinds
  <2> HIDE DEF S, x1, y1
  <2>7. CloseOpen(s)
          = [[s EXCEPT !.out = f \o ((IF s.open = s.thinking THEN <<y>> ELSE <<>>) \o <<x>>)] EXCEPT !.open = 0]
    BY <1>3 DEF CloseOpen, Put, Block, f
  <2> DEFINE g == IF s.open = s.thinking THEN Append(Append(f, y), x) ELSE Append(f, x)
  <2> HIDE DEF x, y
  <2>8. f \o <<x>> = Append(f, x) /\ f \o <<y, x>> = Append(Append(f, y), x)
    BY <1>1, <2>6, Together
  <2>9. <<y>> \o <<x>> = <<y, x>> /\ <<>> \o <<x>> = <<x>>
    BY <2>6, Sometimes
  <2>10. f \o ((IF s.open = s.thinking THEN <<y>> ELSE <<>>) \o <<x>>) = g
    BY <2>8, <2>9
  <2>11. S(g)
    BY <2>3, <2>4, <2>5 DEF f1
  <2> HIDE DEF g
  <2>12. CloseOpen(s).out = g
    BY <1>1, <2>7, <2>10 DEF BlockStreams
  <2> QED
    BY <2>11, <2>12, Zenon DEF S, next, blocks
<1> QED
  BY <1>2, <1>3

\* The open block is closed and the next one begun.
LEMMA TurnSeen ==
    ASSUME NEW s, BlocksGood(s), NEW text, NEW thought, NEW calls \in Seq(CallRecords),
           BlocksSaw(s.out, text, thought, s.blocks, s.next, calls), NEW t \in Nat, NEW i \in Nat
    PROVE  LET u == Begin(CloseOpen(s), t) IN
           /\ BlocksSaw(u.out, text, thought, s.blocks, s.next + 1, calls)
           /\ BlocksSaw(u.out, text, thought, Append(s.blocks, [index |-> i, at |-> s.next]), s.next + 1,
                        Append(calls, [index |-> i, body |-> <<>>]))
<1> DEFINE c == CloseOpen(s)
           f == c.out
           u == Begin(c, t)
           next == s.next
           blocks == s.blocks
<1>1. s \in BlockStreams /\ next \in Nat /\ blocks \in Seq([index : Nat, at : Nat])
  BY BlockStream
<1>2. c \in BlockStreams /\ c.next = next
  BY BlockStream, Closes
<1>3. BlocksSaw(f, text, thought, blocks, next, calls)
  BY ClosesSeen
<1> HIDE DEF c
<1>4. f \in Seq(BlockFrames)
  BY <1>2 DEF BlockStreams
<1>5. u.out = Append(f, <<"start", next, t>>)
  BY <1>2, BeginOut
<1> HIDE DEF f, next, blocks, u
<1>6. next + 1 \in Nat /\ next <= next + 1 /\ next < next + 1
  BY <1>1
<1>7. BlocksSaw(Append(f, <<"start", next, t>>), text, thought, blocks, next + 1, calls)
  BY <1>1, <1>3, <1>4, <1>6, BlockSilent
<1>8. BlocksSaw(Append(f, <<"start", next, t>>), text, thought, Append(blocks, [index |-> i, at |-> next]),
                next + 1, Append(calls, [index |-> i, body |-> <<>>]))
  BY <1>1, <1>3, <1>4, BlockCall
<1> QED
  BY <1>5, <1>7, <1>8 DEF u, c, next, blocks

(***************************************************************************)
(* Anthropic: what a client sees of the events                             *)
(***************************************************************************)
\* The notices are tokens.
LEMMA NoticedType ==
    ASSUME NEW p
    PROVE  Noticed(p) \in Seq(Nat)
<1>1. <<NoticeToken>> \in Seq(Nat) /\ <<>> \in Seq(Nat)
  BY DEF NoticeToken
<1> QED
  BY <1>1 DEF Noticed

\* What is shown of the reasoning goes on with it or stays what came first.
LEMMA ThoughtGrows ==
    ASSUME NEW thought, NEW reasoning \in Seq(Nat), NEW p, NEW t \in Nat
    PROVE  /\ ThoughtWhole(thought, reasoning, p) => ThoughtWhole(Append(thought, t), Append(reasoning, t), p)
           /\ ThoughtPart(thought, reasoning, p) => ThoughtPart(thought, Append(reasoning, t), p)
           /\ ThoughtWhole(thought, reasoning, p) => ThoughtPart(thought, reasoning, p)
<1> DEFINE a == Noticed(p)
           more == Append(reasoning, t)
<1>1. a \in Seq(Nat)
  BY NoticedType
<1>2. /\ more \in Seq(Nat) /\ Len(reasoning) \in Nat /\ Len(more) = Len(reasoning) + 1
      /\ \A n \in 1..Len(reasoning) : more[n] = reasoning[n]
  BY OneMore
<1> HIDE DEF a
<1>3. a \o more = Append(a \o reasoning, t)
  BY <1>1, ConcatAppend
<1> HIDE DEF more
<1>4. ASSUME NEW n \in 0..Len(reasoning)
      PROVE  SubSeq(more, 1, n) = SubSeq(reasoning, 1, n) /\ n \in 0..Len(more)
  <2> DEFINE b == SubSeq(more, 1, n)
             c == SubSeq(reasoning, 1, n)
  <2>1. /\ n \in Int /\ 1 \in Int
        /\ \A i \in 1..n : more[i] \in Nat /\ reasoning[i] \in Nat /\ more[i] = reasoning[i]
    BY <1>2, ElementOfSeq
  <2>2. b \in Seq(Nat) /\ Len(b) = (IF 1 <= n THEN n - 1 + 1 ELSE 0) /\ \A i \in 1..n - 1 + 1 : b[i] = more[1 + i - 1]
    BY <2>1, SubSeqProperties
  <2>3. c \in Seq(Nat) /\ Len(c) = (IF 1 <= n THEN n - 1 + 1 ELSE 0) /\ \A i \in 1..n - 1 + 1 : c[i] = reasoning[1 + i - 1]
    BY <2>1, SubSeqProperties
  <2> HIDE DEF b, c
  <2>4. Len(b) = n /\ Len(c) = n /\ \A i \in 1..n : b[i] = c[i]
    BY <2>1, <2>2, <2>3
  <2>5. b = c
    BY <2>2, <2>3, <2>4, SeqEqual
  <2> QED
    BY <1>2, <2>5 DEF b, c
<1>5. ASSUME ThoughtWhole(thought, reasoning, p)
      PROVE  ThoughtWhole(Append(thought, t), more, p)
  <2>1. thought = a \o reasoning
    BY <1>5 DEF ThoughtWhole, a
  <2> QED
    BY <1>3, <2>1, Zenon DEF ThoughtWhole, a
<1>6. ASSUME ThoughtPart(thought, reasoning, p)
      PROVE  ThoughtPart(thought, more, p)
  <2>1. PICK n \in 0..Len(reasoning) : thought = a \o SubSeq(reasoning, 1, n)
    BY <1>6 DEF ThoughtPart, a
  <2>2. n \in 0..Len(more) /\ thought = a \o SubSeq(more, 1, n)
    BY <1>4, <2>1, Zenon
  <2> QED
    BY <2>2, Zenon DEF ThoughtPart, a
<1>7. ASSUME ThoughtWhole(thought, reasoning, p)
      PROVE  ThoughtPart(thought, reasoning, p)
  <2>1. thought = a \o reasoning
    BY <1>7 DEF ThoughtWhole, a
  <2>2. SubSeq(reasoning, 1, Len(reasoning)) = reasoning /\ Len(reasoning) \in 0..Len(reasoning)
    BY <1>2, SubSeqFull
  <2> QED
    BY <2>1, <2>2, Zenon DEF ThoughtPart, a
<1> QED
  BY <1>5, <1>6, <1>7 DEF more

\* A client has seen what was sent.
LEMMA AnthropicSeen ==
    ASSUME NEW s, NEW text, NEW reasoning, NEW calls, NEW p, NEW thought,
           BlocksSaw(s.out, text, thought, s.blocks, s.next, calls),
           ~s.thinkingDone => ThoughtWhole(thought, reasoning, p),
           s.thinkingDone => ThoughtPart(thought, reasoning, p)
    PROVE  AnthropicShows(s, text, reasoning, calls, p)
<1>1. thought = Tokens(s.out, {"thinking"}, Nat)
  BY DEF BlocksSaw
<1> QED
  BY <1>1, Zenon DEF AnthropicShows

\* Thinking is seen in its block.
LEMMA ThinkingSeen ==
    ASSUME NEW s, BlocksGood(s), ~s.thinkingDone, NEW t \in Nat, NEW text, NEW thought, NEW calls,
           BlocksSaw(s.out, text, thought, s.blocks, s.next, calls)
    PROVE  LET u == Thinking(s, t)
           IN  /\ BlocksSaw(u.out, text, Append(thought, t), u.blocks, u.next, calls)
               /\ ~u.thinkingDone
<1> DEFINE b == Begin(s, 0)
           v == IF s.thinking # 0 THEN s ELSE [b EXCEPT !.thinking = s.next]
           S == [index : Nat, at : Nat]
<1>1. /\ s \in BlockStreams /\ s.out \in Seq(BlockFrames) /\ s.next \in Nat \ {0} /\ s.blocks \in Seq(S)
      /\ s.thinking \in Nat /\ s.thinking < s.next /\ s.open = s.thinking
      /\ BlocksSent(s.out, s.next, s.open, s.thinking, FALSE) /\ Unended(s.out) /\ s.thinkingDone = FALSE
  <2>0. s \in BlockStreams
    BY BlockStream
  <2>1. s.thinkingDone \in BOOLEAN
    BY <2>0 DEF BlockStreams
  <2> QED
    BY <2>1, BlockStream
<1>2. /\ v \in BlockStreams /\ v.thinking \in Nat /\ v.thinking < v.next /\ v.next \in Nat
      /\ BlocksSaw(v.out, text, thought, v.blocks, v.next, calls) /\ v.thinkingDone = FALSE
  <2>1. CASE s.thinking # 0
    BY <1>1, <2>1
  <2>2. CASE s.thinking = 0
    <3> DEFINE next == s.next
               f == s.out
               blocks == s.blocks
    <3>0. next \in Nat /\ next + 1 \in Nat /\ next <= next + 1 /\ next < next + 1 /\ f \in Seq(BlockFrames)
          /\ blocks \in Seq(S) /\ BlocksSaw(f, text, thought, blocks, next, calls)
      BY <1>1
    <3>1. /\ b \in BlockStreams /\ b.next = next + 1 /\ b.blocks = blocks /\ b.thinkingDone = FALSE
      BY <1>1, <2>2, Begins
    <3>2. b.out = Append(f, <<"start", next, 0>>)
      BY <1>1, BeginOut
    <3>3. BlocksSaw(Append(f, <<"start", next, 0>>), text, thought, blocks, next + 1, calls)
      <4> HIDE DEF f, next, blocks
      <4> QED
        BY <3>0, BlockSilent
    <3>4. v = [b EXCEPT !.thinking = next]
      BY <2>2
    <3> HIDE DEF b, v, next
    <3>5. /\ v \in BlockStreams /\ v.thinking = next /\ v.out = b.out /\ v.next = b.next
          /\ v.blocks = b.blocks /\ v.thinkingDone = FALSE
      BY <3>0, <3>1, <3>4 DEF BlockStreams
    <3> HIDE DEF f, blocks
    <3>6. BlocksSaw(v.out, text, thought, v.blocks, v.next, calls)
      BY <3>1, <3>2, <3>3, <3>5
    <3> QED
      BY <3>0, <3>1, <3>5, <3>6
  <2> QED
    BY <2>1, <2>2
<1>3. Thinking(s, t) = Put(v, <<<<"thinking", v.thinking, t>>>>)
  BY DEF Thinking, Block
<1> HIDE DEF v
<1> DEFINE i == v.thinking
           x == <<"thinking", i, t>>
           u == Put(v, <<x>>)
           f == v.out
           next == v.next
           blocks == v.blocks
<1>4. x \in BlockFrames
  BY <1>2 DEF BlockFrames, BlockKinds
<1>5. f \in Seq(BlockFrames) /\ i \in Nat /\ next \in Nat /\ i < next
      /\ BlocksSaw(f, text, thought, blocks, next, calls)
  BY <1>2 DEF BlockStreams
<1>6. BlocksSaw(Append(f, x), text, Append(thought, t), blocks, next, calls)
  <2> HIDE DEF f, i, next, blocks
  <2> QED
    BY <1>5, BlockAnswer
<1> HIDE DEF x
<1>7. u.out = Append(f, x)
  BY <1>2, <1>4, PutOut
<1>8. u.blocks = blocks /\ u.next = next /\ u.thinkingDone = FALSE
  <2> DEFINE g == v.out \o <<x>>
  <2>1. u = [v EXCEPT !.out = g]
    BY DEF Put
  <2> HIDE DEF g, u
  <2> QED
    BY <1>2, <2>1 DEF BlockStreams
<1> HIDE DEF u, f, next, blocks
<1>9. BlocksSaw(u.out, text, Append(thought, t), u.blocks, u.next, calls) /\ ~u.thinkingDone
  BY <1>6, <1>7, <1>8
<1> QED
  BY <1>3, <1>9 DEF u, x, i

\* The reasoning is shown until the answer begins.
LEMMA ReasonShown ==
    ASSUME NEW s, BlocksGood(s), NEW e, e.reasoning \in Nat,
           NEW text, NEW reasoning \in Seq(Nat), NEW calls, NEW p,
           AnthropicShows(s, text, reasoning, calls, p)
    PROVE  AnthropicShows(Reason(s, e), text, reasoning \o Present(e.reasoning), calls, p)
<1> DEFINE t == e.reasoning
           thought == Tokens(s.out, {"thinking"}, Nat)
           more == reasoning \o Present(t)
           u == Thinking(s, t)
<1>1. /\ BlocksSaw(s.out, text, thought, s.blocks, s.next, calls)
      /\ ~s.thinkingDone => ThoughtWhole(thought, reasoning, p)
      /\ s.thinkingDone => ThoughtPart(thought, reasoning, p)
  BY DEF AnthropicShows
<1>2. t \in Nat /\ Reason(s, e) = IF t > 0 /\ ~s.thinkingDone /\ s.text = 0 THEN u ELSE s
  BY DEF Reason
<1>3. ~s.thinkingDone => s.text = 0
  BY BlockStream
<1> HIDE DEF thought, t
<1>4. more = IF t > 0 THEN Append(reasoning, t) ELSE reasoning
  BY <1>2, Added1
<1>5. /\ ThoughtWhole(thought, reasoning, p) => ThoughtWhole(Append(thought, t), Append(reasoning, t), p)
      /\ ThoughtPart(thought, reasoning, p) => ThoughtPart(thought, Append(reasoning, t), p)
  BY <1>2, ThoughtGrows
<1> HIDE DEF more
<1>6. CASE ~(t > 0)
  <2>1. Reason(s, e) = s /\ more = reasoning
    BY <1>2, <1>4, <1>6
  <2>2. AnthropicShows(Reason(s, e), text, more, calls, p)
    BY <2>1
  <2> QED
    BY <2>2 DEF more, t
<1>7. CASE t > 0 /\ s.thinkingDone
  <2>1. Reason(s, e) = s /\ more = Append(reasoning, t)
    BY <1>2, <1>4, <1>7
  <2>2. ThoughtPart(thought, more, p)
    BY <1>1, <1>5, <1>7, <2>1
  <2>3. AnthropicShows(s, text, more, calls, p)
    BY <1>1, <1>7, <2>2, AnthropicSeen
  <2> QED
    BY <2>1, <2>3 DEF more, t
<1>8. CASE t > 0 /\ ~s.thinkingDone
  <2>1. Reason(s, e) = u /\ more = Append(reasoning, t)
    BY <1>2, <1>3, <1>4, <1>8
  <2>2. ThoughtWhole(Append(thought, t), more, p)
    BY <1>1, <1>5, <1>8, <2>1
  <2>3. BlocksSaw(u.out, text, Append(thought, t), u.blocks, u.next, calls) /\ ~u.thinkingDone
    BY <1>1, <1>2, <1>8, ThinkingSeen
  <2> HIDE DEF u
  <2>4. AnthropicShows(u, text, more, calls, p)
    BY <2>2, <2>3, AnthropicSeen
  <2> QED
    BY <2>1, <2>4 DEF more, t
<1> QED
  BY <1>6, <1>7, <1>8

\* The answer is seen in its block.
LEMMA TextShown ==
    ASSUME NEW s, BlocksGood(s), NEW e, e.content \in Nat,
           NEW text \in Seq(Nat), NEW reasoning \in Seq(Nat), NEW calls \in Seq(CallRecords), NEW p,
           AnthropicShows(s, text, reasoning, calls, p)
    PROVE  AnthropicShows(Speak(s, e), text \o Present(e.content), reasoning, calls, p)
<1> DEFINE t == e.content
           thought == Tokens(s.out, {"thinking"}, Nat)
           more == text \o Present(t)
           b == Begin(CloseOpen(s), 0)
           v == IF s.text # 0 THEN s ELSE [b EXCEPT !.thinkingDone = TRUE, !.text = s.next]
           u == Put(v, <<<<"text", v.text, t>>>>)
           S == [index : Nat, at : Nat]
<1>1. /\ BlocksSaw(s.out, text, thought, s.blocks, s.next, calls)
      /\ ~s.thinkingDone => ThoughtWhole(thought, reasoning, p)
      /\ s.thinkingDone => ThoughtPart(thought, reasoning, p)
  BY DEF AnthropicShows
<1>2. t \in Nat /\ Speak(s, e) = IF t = 0 THEN s ELSE u
  BY DEF Speak, Block
<1> HIDE DEF thought
<1>3. /\ s \in BlockStreams /\ s.next \in Nat \ {0} /\ s.open < s.next /\ s.open \in Nat
      /\ (~s.thinkingDone => s.text = 0) /\ (s.text # 0 => s.text = s.open) /\ s.text \in Nat
  BY BlockStream
<1>4. ThoughtPart(thought, reasoning, p)
  <2>1. 0 \in Nat
    OBVIOUS
  <2>2. ThoughtWhole(thought, reasoning, p) => ThoughtPart(thought, reasoning, p)
    BY <2>1, ThoughtGrows
  <2> QED
    BY <1>1, <2>2
<1>5. /\ v \in BlockStreams /\ v.text \in Nat /\ v.next \in Nat /\ v.text < v.next
      /\ v.thinkingDone
      /\ BlocksSaw(v.out, text, thought, v.blocks, v.next, calls)
  <2>1. CASE s.text # 0
    BY <1>1, <1>3, <2>1
  <2>2. CASE s.text = 0
    <3> DEFINE next == s.next
               blocks == s.blocks
    <3>1. next \in Nat /\ next < next + 1 /\ next + 1 \in Nat
      BY <1>3
    <3>2. b \in BlockStreams /\ b.next = next + 1 /\ b.blocks = blocks
      BY Turns
    <3>3. BlocksSaw(b.out, text, thought, blocks, next + 1, calls)
      BY <1>1, TurnSeen
    <3>4. v = [b EXCEPT !.thinkingDone = TRUE, !.text = next]
      BY <2>2
    <3> HIDE DEF b, v, next, blocks
    <3>5. /\ v \in BlockStreams /\ v.text = next /\ v.thinkingDone = TRUE /\ v.next = b.next
          /\ v.blocks = b.blocks /\ v.out = b.out
      BY <3>1, <3>2, <3>4 DEF BlockStreams
    <3>6. BlocksSaw(v.out, text, thought, v.blocks, v.next, calls)
      BY <3>2, <3>3, <3>5
    <3> QED
      BY <3>1, <3>2, <3>5, <3>6
  <2> QED
    BY <2>1, <2>2
<1>6. more = IF t > 0 THEN Append(text, t) ELSE text
  BY <1>2, Added1
<1> HIDE DEF v, more, t
<1> DEFINE i == v.text
           x == <<"text", i, t>>
           f == v.out
           next == v.next
           blocks == v.blocks
<1>7. f \in Seq(BlockFrames) /\ i \in Nat /\ next \in Nat /\ i < next
      /\ BlocksSaw(f, text, thought, blocks, next, calls)
  BY <1>5 DEF BlockStreams
<1>8. x \in BlockFrames
  BY <1>2, <1>7 DEF BlockFrames, BlockKinds
<1>9. BlocksSaw(Append(f, x), Append(text, t), thought, blocks, next, calls)
  <2> HIDE DEF f, i, next, blocks
  <2> QED
    BY <1>2, <1>7, BlockAnswer
<1>10. u = Put(v, <<x>>)
  OBVIOUS
<1> HIDE DEF x, u
<1>11. u.out = Append(f, x)
  BY <1>5, <1>8, <1>10, PutOut
<1>12. u.blocks = blocks /\ u.next = next /\ u.thinkingDone
  <2> DEFINE g == v.out \o <<x>>
  <2>1. u = [v EXCEPT !.out = g]
    BY <1>10 DEF Put
  <2> HIDE DEF g
  <2> QED
    BY <1>5, <2>1 DEF BlockStreams
<1> HIDE DEF f, next, blocks
<1>13. BlocksSaw(u.out, Append(text, t), thought, u.blocks, u.next, calls)
  BY <1>9, <1>11, <1>12
<1>14. AnthropicShows(u, Append(text, t), reasoning, calls, p)
  BY <1>4, <1>12, <1>13, AnthropicSeen
<1>15. CASE t = 0
  <2>1. Speak(s, e) = s /\ more = text
    BY <1>2, <1>6, <1>15
  <2> QED
    BY <2>1 DEF more, t
<1>16. CASE t # 0
  <2>1. Speak(s, e) = u /\ more = Append(text, t)
    BY <1>2, <1>6, <1>16
  <2> QED
    BY <1>14, <2>1 DEF more, t
<1> QED
  BY <1>15, <1>16

\* A call is seen by its block.
LEMMA ToolShown ==
    ASSUME NEW s, BlocksGood(s), NEW e, e.index \in Nat, e.token \in Nat,
           NEW text, NEW reasoning \in Seq(Nat), NEW calls \in Seq(CallRecords), NEW p,
           AnthropicShows(s, text, reasoning, calls, p)
    PROVE  AnthropicShows(ToolUse(s, e), text, reasoning, Append(calls, [index |-> e.index, body |-> <<>>]), p)
<1> DEFINE i == e.index
           t == e.token
           thought == Tokens(s.out, {"thinking"}, Nat)
           next == s.next
           bs == Append(s.blocks, [index |-> i, at |-> next])
           more == Append(calls, [index |-> i, body |-> <<>>])
           b == Begin(CloseOpen(s), t)
           u == [b EXCEPT !.thinkingDone = TRUE, !.text = 0, !.blocks = bs]
<1>1. /\ BlocksSaw(s.out, text, thought, s.blocks, s.next, calls)
      /\ ~s.thinkingDone => ThoughtWhole(thought, reasoning, p)
      /\ s.thinkingDone => ThoughtPart(thought, reasoning, p)
  BY DEF AnthropicShows
<1> HIDE DEF thought
<1>2. ThoughtPart(thought, reasoning, p)
  <2>1. 0 \in Nat
    OBVIOUS
  <2>2. ThoughtWhole(thought, reasoning, p) => ThoughtPart(thought, reasoning, p)
    BY <2>1, ThoughtGrows
  <2> QED
    BY <1>1, <2>2
<1>3. i \in Nat /\ t \in Nat
  OBVIOUS
<1>4. s \in BlockStreams /\ next \in Nat /\ s.blocks \in Seq([index : Nat, at : Nat])
  BY BlockStream
<1>5. b \in BlockStreams /\ b.next = next + 1 /\ b.blocks = s.blocks
  BY <1>3, Turns
<1>6. ToolUse(s, e) = u
  BY <1>5 DEF ToolUse
<1>7. BlocksSaw(b.out, text, thought, bs, next + 1, more)
  BY <1>1, <1>3, TurnSeen
<1> HIDE DEF b, bs, more
<1>8. u.out = b.out /\ u.next = b.next /\ u.blocks = bs /\ u.thinkingDone
  BY <1>5 DEF BlockStreams
<1> HIDE DEF u, next
<1>9. BlocksSaw(u.out, text, thought, u.blocks, u.next, more)
  BY <1>5, <1>7, <1>8
<1>10. AnthropicShows(u, text, reasoning, more, p)
  BY <1>2, <1>8, <1>9, AnthropicSeen
<1> QED
  BY <1>6, <1>10 DEF more, i

\* A fragment is seen in the block of its call.
LEMMA JsonShown ==
    ASSUME NEW s, BlocksGood(s), NEW e, e.token \in Nat,
           NEW text, NEW reasoning, NEW calls \in Seq(CallRecords), NEW p,
           \A m, n \in DOMAIN calls : calls[m].index = calls[n].index => m = n,
           AnthropicShows(s, text, reasoning, calls, p)
    PROVE  AnthropicShows(PartialJson(s, e), text, reasoning, Extend(calls, e), p)
<1> DEFINE i == e.index
           t == e.token
           thought == Tokens(s.out, {"thinking"}, Nat)
           next == s.next
           blocks == s.blocks
           more == Extend(calls, e)
           mine == {n \in 1..Len(blocks) : blocks[n].index = i}
           m == CHOOSE n \in mine : TRUE
           j == blocks[m].at
           x == <<"json", j, t>>
           f == s.out
           u == Put(s, <<x>>)
<1>1. /\ BlocksSaw(f, text, thought, blocks, next, calls)
      /\ ~s.thinkingDone => ThoughtWhole(thought, reasoning, p)
      /\ s.thinkingDone => ThoughtPart(thought, reasoning, p)
  BY DEF AnthropicShows
<1>2. PartialJson(s, e) = IF mine = {} THEN s ELSE u
  BY DEF PartialJson, Block
<1> HIDE DEF thought
<1>3. /\ s \in BlockStreams /\ next \in Nat /\ blocks \in Seq([index : Nat, at : Nat])
      /\ f \in Seq(BlockFrames) /\ t \in Nat
  BY BlockStream
<1>4. /\ Len(blocks) = Len(calls) /\ Len(calls) \in Nat /\ DOMAIN blocks = 1..Len(calls)
      /\ DOMAIN calls = 1..Len(calls)
      /\ \A n \in DOMAIN blocks : blocks[n].index = calls[n].index
  <2>1. Len(blocks) = Len(calls) /\ \A n \in DOMAIN blocks : blocks[n].index = calls[n].index
    BY <1>1 DEF BlocksSaw
  <2> HIDE DEF blocks
  <2>2. DOMAIN blocks = 1..Len(blocks) /\ DOMAIN calls = 1..Len(calls) /\ Len(calls) \in Nat
    BY <1>3, LenProperties
  <2> QED
    BY <2>1, <2>2
<1>5. /\ Len(more) = Len(calls) /\ DOMAIN more = DOMAIN calls
      /\ \A n \in DOMAIN calls :
            /\ more[n].index = calls[n].index
            /\ more[n].body = IF calls[n].index = i THEN Append(calls[n].body, t) ELSE calls[n].body
  BY <1>3, ExtendedAt
<1> HIDE DEF more, f, next, blocks, t, i
<1>6. CASE mine = {}
  <2>1. \A n \in DOMAIN blocks : calls[n].index # i
    BY <1>4, <1>6
  <2>2. \A n \in DOMAIN blocks : more[n].index = calls[n].index /\ more[n].body = calls[n].body
    BY <1>4, <1>5, <2>1
  <2> HIDE DEF mine
  <2>3. BlocksSaw(f, text, thought, blocks, next, more)
    BY <1>1, <1>5, <2>2 DEF BlocksSaw
  <2>4. BlocksSaw(s.out, text, thought, s.blocks, s.next, more)
    BY <2>3 DEF f, blocks, next
  <2>5. AnthropicShows(s, text, reasoning, more, p)
    BY <1>1, <2>4, AnthropicSeen
  <2> QED
    BY <1>2, <1>6, <2>5 DEF more
<1>7. CASE mine # {}
  <2>1. m \in mine
    BY <1>7
  <2>2. m \in DOMAIN blocks /\ calls[m].index = i
    BY <1>4, <2>1
  <2>3. j \in Nat
    <3>1. blocks[m] \in [index : Nat, at : Nat]
      BY <1>3, <1>4, <2>2, ElementOfSeq
    <3> QED
      BY <3>1
  <2> HIDE DEF m
  <2>4. ASSUME NEW n \in DOMAIN blocks
        PROVE  /\ more[n].index = calls[n].index
               /\ more[n].body = IF n = m THEN Append(calls[n].body, t) ELSE calls[n].body
    <3>1. calls[n].index = i <=> n = m
      BY <1>4, <2>2
    <3> QED
      BY <1>4, <1>5, <3>1
  <2>5. x \in BlockFrames
    BY <1>3, <2>3 DEF BlockFrames, BlockKinds
  <2> HIDE DEF mine
  <2>6. j = blocks[m].at
    OBVIOUS
  <2> HIDE DEF j
  <2>7. BlocksSaw(Append(f, <<"json", j, t>>), text, thought, blocks, next, more)
    <3>1. BlocksSaw(f, text, thought, blocks, next, calls)
      BY <1>1
    <3>2. Len(more) = Len(calls)
      BY <1>5
    <3>3. \A n \in DOMAIN blocks :
              /\ more[n].index = calls[n].index
              /\ more[n].body = IF n = m THEN Append(calls[n].body, t) ELSE calls[n].body
      BY <2>4
    <3>4. m \in DOMAIN blocks
      BY <2>2
    <3> QED
      BY <1>3, <2>3, <2>6, <3>1, <3>2, <3>3, <3>4, BlockFragment
  <2> HIDE DEF x
  <2>8. u.out = Append(f, x)
    BY <1>3, <2>5, PutOut DEF f
  <2>9. u.blocks = blocks /\ u.next = next /\ u.thinkingDone = s.thinkingDone
    <3> DEFINE g == s.out \o <<x>>
    <3>1. u = [s EXCEPT !.out = g]
      BY DEF Put
    <3> HIDE DEF g, u
    <3> QED
      BY <1>3, <3>1 DEF BlockStreams, blocks, next
  <2> HIDE DEF u
  <2>10. BlocksSaw(u.out, text, thought, u.blocks, u.next, more)
    BY <2>7, <2>8, <2>9 DEF x
  <2>11. AnthropicShows(u, text, reasoning, more, p)
    BY <1>1, <2>9, <2>10, AnthropicSeen
  <2> QED
    BY <1>2, <1>7, <2>11 DEF more
<1> QED
  BY <1>6, <1>7

\* An event shows in the blocks what collect() adds to the result.
LEMMA AnthropicShowsStep ==
    ASSUME NEW p, NEW s, BlocksGood(s), NEW r \in Results, NEW e,
           e.index \in Nat, e.token \in Nat, e.reasoning \in Nat, e.content \in Nat, e.kind \notin Ends,
           \A m, n \in DOMAIN r.calls : r.calls[m].index = r.calls[n].index => m = n,
           AnthropicShows(s, r.text, r.reasoning, r.calls, p)
    PROVE  LET q == Collect(r, e)
           IN  AnthropicShows(AnthropicFold(s, e, p), q.text, q.reasoning, q.calls, p)
<1> DEFINE k == e.kind
           u == AnthropicFold(s, e, p)
           q == Collect(r, e)
           i == e.index
           t == e.token
           text == r.text
           reasoning == r.reasoning
           calls == r.calls
<1>1. /\ text \in Seq(Nat) /\ reasoning \in Seq(Nat) /\ calls \in Seq(CallRecords)
      /\ i \in Nat /\ t \in Nat
  BY DEF Results
<1>2. k \notin {"completed", "cut", "failed"}
  BY DEF Ends
<1>3. /\ q.text = IF k = "answer" THEN text \o Present(e.content) ELSE text
      /\ q.reasoning = IF k = "answer" THEN reasoning \o Present(e.reasoning) ELSE reasoning
      /\ q.calls = IF k = "tool" THEN Append(calls, [index |-> i, body |-> <<>>])
                   ELSE IF k = "arguments" THEN Extend(calls, e) ELSE calls
  BY Collected
<1>4. /\ AnthropicShows(s, text, reasoning, calls, p)
      /\ \A m, n \in DOMAIN calls : calls[m].index = calls[n].index => m = n
  OBVIOUS
<1> HIDE DEF q, text, reasoning, calls
<1>5. CASE k = "answer"
  <2> DEFINE v == Reason(s, e)
             w == Speak(v, e)
             more == reasoning \o Present(e.reasoning)
             longer == text \o Present(e.content)
  <2>1. u = w
    BY <1>5 DEF AnthropicFold
  <2>2. AnthropicShows(v, text, more, calls, p)
    BY <1>1, <1>4, ReasonShown
  <2>3. BlocksGood(v)
    <3>1. CASE e.reasoning > 0 /\ ~s.thinkingDone /\ s.text = 0
      <4>1. v = Thinking(s, e.reasoning)
        BY <3>1 DEF Reason
      <4> QED
        BY <3>1, <4>1, Thinks
    <3>2. CASE ~(e.reasoning > 0 /\ ~s.thinkingDone /\ s.text = 0)
      BY <3>2 DEF Reason
    <3> QED
      BY <3>1, <3>2
  <2>4. more \in Seq(Nat)
    <3>1. more = IF e.reasoning > 0 THEN Append(reasoning, e.reasoning) ELSE reasoning
      BY <1>1, Added1
    <3> HIDE DEF more
    <3> QED
      BY <1>1, <3>1
  <2> HIDE DEF v, more
  <2>5. AnthropicShows(w, longer, more, calls, p)
    BY <1>1, <2>2, <2>3, <2>4, TextShown
  <2>6. q.text = longer /\ q.reasoning = more /\ q.calls = calls
    BY <1>3, <1>5 DEF more
  <2> HIDE DEF u, w, longer
  <2>7. AnthropicShows(u, q.text, q.reasoning, q.calls, p)
    BY <2>1, <2>5, <2>6
  <2> QED
    BY <2>7 DEF u, q
<1>6. CASE k = "tool"
  <2> DEFINE more == Append(calls, [index |-> i, body |-> <<>>])
             v == ToolUse(s, e)
  <2>1. u = v
    BY <1>6 DEF AnthropicFold
  <2>2. AnthropicShows(v, text, reasoning, more, p)
    BY <1>1, <1>4, ToolShown
  <2>3. q.text = text /\ q.reasoning = reasoning /\ q.calls = more
    BY <1>3, <1>6
  <2> HIDE DEF u, v, more
  <2>4. AnthropicShows(u, q.text, q.reasoning, q.calls, p)
    BY <2>1, <2>2, <2>3
  <2> QED
    BY <2>4 DEF u, q
<1>7. CASE k = "arguments"
  <2> DEFINE more == Extend(calls, e)
             v == PartialJson(s, e)
  <2>1. u = v
    BY <1>7 DEF AnthropicFold
  <2>2. AnthropicShows(v, text, reasoning, more, p)
    BY <1>1, <1>4, JsonShown
  <2>3. q.text = text /\ q.reasoning = reasoning /\ q.calls = more
    BY <1>3, <1>7
  <2> HIDE DEF u, v, more
  <2>4. AnthropicShows(u, q.text, q.reasoning, q.calls, p)
    BY <2>1, <2>2, <2>3
  <2> QED
    BY <2>4 DEF u, q
<1>8. CASE k \notin {"answer", "tool", "arguments"}
  <2>1. u = s
    BY <1>2, <1>8 DEF AnthropicFold
  <2>2. q.text = text /\ q.reasoning = reasoning /\ q.calls = calls
    BY <1>3, <1>8
  <2> HIDE DEF u
  <2>3. AnthropicShows(u, q.text, q.reasoning, q.calls, p)
    BY <1>4, <2>1, <2>2
  <2> QED
    BY <2>3 DEF u, q
<1> QED
  BY <1>5, <1>6, <1>7, <1>8

\* Nothing was said before the first event but the notices.
LEMMA AnthropicShowsStart ==
    ASSUME NEW p, NEW n, n = <<>>
    PROVE  AnthropicShows(AnthropicStart(p), n, n, n, p)
<1> DEFINE x == <<"message_start", 0, 0>>
           f == Append(<<>>, x)
           s == [next |-> 1, open |-> 0, thinking |-> 0, thinkingDone |-> FALSE, text |-> 0,
                 blocks |-> <<>>, out |-> <<x>>]
<1>1. AnthropicStart(p) = IF p.notices THEN Thinking(s, NoticeToken) ELSE s
  BY DEF AnthropicStart, Block
<1>2. <<>> \in Seq(BlockFrames) /\ x \in BlockFrames /\ n \in Seq(Nat)
  BY DEF BlockFrames, BlockKinds
<1>3. f = <<x>>
  OBVIOUS
<1> DEFINE a == Tokens(f, {"text"}, Nat)
           b == Tokens(f, {"thinking"}, Nat)
<1>4. a = n /\ b = n
  <2>1. x[1] # "text" /\ x[1] # "thinking"
    OBVIOUS
  <2>2. ASSUME NEW h \in Seq(BlockFrames), h = <<>>
        PROVE  Tokens(Append(h, x), {"text"}, Nat) = Tokens(h, {"text"}, Nat)
               /\ Tokens(Append(h, x), {"thinking"}, Nat) = Tokens(h, {"thinking"}, Nat)
    <3> HIDE DEF x
    <3> QED
      BY <1>2, <2>1, <2>2, BlockSees
  <2>3. a = Tokens(<<>>, {"text"}, Nat) /\ b = Tokens(<<>>, {"thinking"}, Nat)
    BY <1>2, <2>2
  <2>4. Tokens(<<>>, {"text"}, Nat) = <<>> /\ Tokens(<<>>, {"thinking"}, Nat) = <<>>
    <3> DEFINE k == {"text"}
               j == {"thinking"}
    <3> HIDE DEF k, j
    <3>1. Tokens(<<>>, k, Nat) = <<>>
      BY TokensNone
    <3>2. Tokens(<<>>, j, Nat) = <<>>
      BY TokensNone
    <3> QED
      BY <3>1, <3>2, Zenon DEF k, j
  <2> HIDE DEF a, b
  <2> QED
    BY <2>3, <2>4
<1>5. Len(n) = 0 /\ DOMAIN n = {} /\ Len(f) = 1 /\ DOMAIN f = {1} /\ f[1] = x
  BY <1>2, <1>3
<1>6. x[2] < 1
  OBVIOUS
<1> HIDE DEF x, f
<1>7. BlocksSaw(f, n, n, n, 1, n)
  BY <1>4, <1>5, <1>6 DEF BlocksSaw, a, b
<1>8. s.out = f /\ s.next = 1 /\ s.blocks = n /\ s.thinkingDone = FALSE
  BY <1>3
<1>9. BlocksGood(s)
  <2>1. AnthropicStart([notices |-> FALSE]) = s
    BY DEF AnthropicStart, Block, x
  <2>2. BlocksGood(AnthropicStart([notices |-> FALSE]))
    BY BlocksBegin
  <2> QED
    BY <2>1, <2>2
<1> HIDE DEF s
<1>10. BlocksSaw(s.out, n, n, s.blocks, s.next, n)
  BY <1>7, <1>8
<1>11. CASE ~p.notices
  <2>1. n \o n = n
    BY <1>2
  <2>2. ThoughtWhole(n, n, p)
    BY <1>11, <2>1 DEF ThoughtWhole, Noticed
  <2>3. AnthropicShows(s, n, n, n, p)
    BY <1>8, <1>10, <2>2, AnthropicSeen
  <2> QED
    BY <1>1, <1>11, <2>3
<1>12. CASE p.notices
  <2> DEFINE t == NoticeToken
             u == Thinking(s, t)
             m == Append(n, t)
  <2>1. t \in Nat
    BY DEF NoticeToken
  <2>2. ThoughtWhole(m, n, p)
    <3>1. m = <<t>> \o n
      BY <1>2, <2>1
    <3> QED
      BY <1>12, <3>1 DEF ThoughtWhole, Noticed
  <2>3. ~s.thinkingDone
    BY <1>8
  <2> HIDE DEF t
  <2>4. BlocksSaw(u.out, n, m, u.blocks, u.next, n) /\ ~u.thinkingDone
    BY <1>9, <1>10, <2>1, <2>3, ThinkingSeen
  <2> HIDE DEF u, m
  <2>5. AnthropicShows(u, n, n, n, p)
    BY <2>2, <2>4, AnthropicSeen
  <2> QED
    BY <1>1, <1>12, <2>5 DEF u, t
<1> QED
  BY <1>11, <1>12

\* What ends the stream says nothing.
LEMMA AnthropicShowsOver ==
    ASSUME NEW p, NEW s, BlocksGood(s), NEW e, e.kind \in Ends,
           NEW text, NEW reasoning \in Seq(Nat), NEW calls, AnthropicShows(s, text, reasoning, calls, p)
    PROVE  LET u == AnthropicFold(s, e, p)
           IN  /\ u.blocks \in Seq([index : Nat, at : Nat])
               /\ \E thought : /\ BlocksSaw(u.out, text, thought, u.blocks, u.next, calls)
                               /\ ThoughtPart(thought, reasoning, p)
<1> DEFINE thought == Tokens(s.out, {"thinking"}, Nat)
           c == CloseOpen(s)
           f == c.out
           next == s.next
           blocks == s.blocks
           x == <<"message_delta", 0, 0>>
           y == <<"message_stop", 0, 0>>
           z == <<"error", 0, 0>>
           u == AnthropicFold(s, e, p)
           g == IF e.kind = "failed" THEN Append(f, z) ELSE Append(Append(f, x), y)
           B(h) == BlocksSaw(h, text, thought, blocks, next, calls)
<1>1. /\ BlocksSaw(s.out, text, thought, s.blocks, s.next, calls)
      /\ ~s.thinkingDone => ThoughtWhole(thought, reasoning, p)
      /\ s.thinkingDone => ThoughtPart(thought, reasoning, p)
  BY DEF AnthropicShows
<1> HIDE DEF thought
<1>2. ThoughtPart(thought, reasoning, p)
  <2>1. 0 \in Nat
    OBVIOUS
  <2>2. ThoughtWhole(thought, reasoning, p) => ThoughtPart(thought, reasoning, p)
    BY <2>1, ThoughtGrows
  <2> QED
    BY <1>1, <2>2
<1>3. next \in Nat /\ 0 < next /\ next <= next /\ 0 \in Nat /\ blocks \in Seq([index : Nat, at : Nat])
  <2>1. next \in Nat \ {0} /\ blocks \in Seq([index : Nat, at : Nat])
    BY BlockStream
  <2> HIDE DEF next, blocks
  <2> QED
    BY <2>1
<1>4. c \in BlockStreams /\ c.next = next /\ c.blocks = blocks
  BY BlockStream, Closes
<1>5. B(f)
  BY <1>1, ClosesSeen
<1>6. /\ x \in BlockFrames /\ y \in BlockFrames /\ z \in BlockFrames
  BY DEF BlockFrames, BlockKinds
<1>7. u = [c EXCEPT !.out = IF e.kind = "failed" THEN @ \o <<z>> ELSE @ \o <<x, y>>]
  BY DEF AnthropicFold, Put, Block, Ends
<1> HIDE DEF c, next, blocks
<1>8. f \in Seq(BlockFrames)
  BY <1>4 DEF BlockStreams
<1> HIDE DEF f
<1>9. Append(f, x) \in Seq(BlockFrames) /\ B(Append(f, x))
  BY <1>3, <1>5, <1>8, BlockSilent
<1>10. B(Append(f, z))
  BY <1>3, <1>5, <1>8, BlockSilent
<1> DEFINE f1 == Append(f, x)
<1>11. f1 \in Seq(BlockFrames) /\ B(f1)
  BY <1>9
<1> HIDE DEF f1
<1>12. B(Append(f1, y))
  BY <1>3, <1>11, BlockSilent
<1> HIDE DEF x, y, z, B
<1>13. f \o <<z>> = Append(f, z) /\ f \o <<x, y>> = Append(f1, y)
  BY <1>6, <1>8, Together DEF f1
<1>14. B(g)
  BY <1>10, <1>12 DEF f1
<1>15. g = IF e.kind = "failed" THEN f \o <<z>> ELSE f \o <<x, y>>
  BY <1>13 DEF f1
<1> HIDE DEF g, u
<1>16. u = [c EXCEPT !.out = g]
  BY <1>7, <1>15 DEF f
<1>17. u.out = g /\ u.next = next /\ u.blocks = blocks
  BY <1>4, <1>16 DEF BlockStreams
<1>18. BlocksSaw(u.out, text, thought, u.blocks, u.next, calls)
  BY <1>14, <1>17 DEF B
<1>19. \E it : BlocksSaw(u.out, text, it, u.blocks, u.next, calls) /\ ThoughtPart(it, reasoning, p)
  BY <1>2, <1>18
<1>20. u.blocks \in Seq([index : Nat, at : Nat])
  BY <1>3, <1>17
<1> QED
  BY <1>19, <1>20, Zenon DEF u

\* The frames of a kind that an item has.
FramesOfItem(f, kind, at) == {n \in DOMAIN f : f[n][1] = kind /\ f[n][2] = at}

\* What ItemsClosed says of one item.
LEMMA ItemCounted ==
    ASSUME NEW f, NEW at, NEW body,
           ItemSent(f, at, body, FALSE) \/ ItemSent(f, at, body, TRUE)
    PROVE  /\ Cardinality(FramesOfItem(f, "added", at)) = 1
           /\ Cardinality(FramesOfItem(f, "done", at)) <= 1
           /\ ItemSent(f, at, body, TRUE) => Cardinality(FramesOfItem(f, "done", at)) = 1
           /\ \A d \in FramesOfItem(f, "delta", at) :
                 /\ \A a \in FramesOfItem(f, "added", at) : a < d
                 /\ \A z \in FramesOfItem(f, "done", at) : d < z
           /\ body = Tokens(f, {"delta"}, {at})
<1>1. PICK a \in DOMAIN f : \A n \in DOMAIN f :
         (Is(f[n], "added", at) <=> n = a) /\ (Is(f[n], "delta", at) => a < n)
  BY DEF ItemSent
<1>2. FramesOfItem(f, "added", at) = {a}
  BY <1>1 DEF FramesOfItem, Is
<1>3. Cardinality(FramesOfItem(f, "added", at)) = 1
  BY <1>2, FS_Singleton
<1>4. body = Tokens(f, {"delta"}, {at})
  BY DEF ItemSent
<1>5. \A d \in FramesOfItem(f, "delta", at) : \A b \in FramesOfItem(f, "added", at) : b < d
  BY <1>1, <1>2 DEF FramesOfItem, Is
<1> DEFINE done == FramesOfItem(f, "done", at)
           k == Cardinality(done)
           closed == ItemSent(f, at, body, TRUE)
<1>6. k <= 1 /\ (closed => k = 1) /\ \A d \in FramesOfItem(f, "delta", at) : \A z \in done : d < z
  <2>1. CASE ItemSent(f, at, body, TRUE)
    <3>1. PICK z \in DOMAIN f : \A n \in DOMAIN f :
             (Is(f[n], "done", at) <=> n = z) /\ (Is(f[n], "delta", at) => n < z)
      BY <2>1 DEF ItemSent
    <3>2. FramesOfItem(f, "done", at) = {z}
      BY <3>1 DEF FramesOfItem, Is
    <3>3. Cardinality(FramesOfItem(f, "done", at)) = 1
      BY <3>2, FS_Singleton
    <3>4. \A d \in FramesOfItem(f, "delta", at) : d < z
      BY <3>1 DEF FramesOfItem, Is
    <3>5. \A d \in FramesOfItem(f, "delta", at) : \A y \in done : d < y
      BY <3>2, <3>4
    <3> HIDE DEF k, done, closed
    <3>6. k = 1
      BY <3>3 DEF k, done
    <3> QED
      BY <3>5, <3>6
  <2>2. CASE ~ItemSent(f, at, body, TRUE)
    <3>1. FramesOfItem(f, "done", at) = {}
      BY <2>2 DEF ItemSent, FramesOfItem, Is
    <3>2. Cardinality(FramesOfItem(f, "done", at)) = 0
      BY <3>1, FS_EmptySet
    <3>3. \A d \in FramesOfItem(f, "delta", at) : \A y \in done : d < y
      BY <3>1
    <3> HIDE DEF k, done, closed
    <3>4. k = 0 /\ ~closed
      BY <2>2, <3>2 DEF k, done, closed
    <3> QED
      BY <3>3, <3>4
  <2> QED
    BY <2>1, <2>2
<1> QED
  BY <1>3, <1>4, <1>5, <1>6, Zenon

\* The invariants of the items are what ItemsClosed says.
LEMMA AgreementCloses ==
    ASSUME Agreement
    PROVE  ItemsClosed
<1> DEFINE f == responses.out
           next == responses.next
           put == responses.output
<1>1. CASE stage # "over"
  <2> DEFINE open == Slots(responses) \cup Elements(responses.tools)
             closed == Elements(put)
  <2>1. ItemsSent(f, next, open, closed)
    BY <1>1 DEF Agreement, ItemsGood
  <2> HIDE DEF f, next, open, closed
  <2>2. \A at \in 1..(next - 1) : \E i \in open \cup closed : i.at = at
    BY <2>1 DEF ItemsSent
  <2>3. ASSUME NEW at \in 1..(next - 1)
        PROVE  /\ Cardinality(FramesOfItem(f, "added", at)) = 1
               /\ Cardinality(FramesOfItem(f, "done", at)) <= 1
               /\ \A d \in FramesOfItem(f, "delta", at) :
                     /\ \A a \in FramesOfItem(f, "added", at) : a < d
                     /\ \A z \in FramesOfItem(f, "done", at) : d < z
    <3>1. PICK i \in open \cup closed : i.at = at
      BY <2>2
    <3>2. ItemSent(f, at, i.body, FALSE) \/ ItemSent(f, at, i.body, TRUE)
      BY <2>1, <3>1 DEF ItemsSent
    <3> QED
      BY <3>2, ItemCounted
  <2>4. \A n \in DOMAIN f : f[n][1] \in {"added", "delta", "done"} => f[n][2] < next
    BY <2>1 DEF ItemsSent
  <2> QED
    BY <1>1, <2>3, <2>4 DEF ItemsClosed, FramesOfItem, f, next
<1>2. CASE stage = "over"
  <2>1. ItemsEnded(responses)
    BY <1>2 DEF Agreement
  <2>2. /\ next \in Nat \ {0} /\ Len(put) = next - 1 /\ IsLast(f, {"completed", "failed"})
        /\ \A n \in DOMAIN f : f[n][1] \in {"added", "delta", "done"} => f[n][2] \in 1..(next - 1)
        /\ \A i \in Elements(put) : ItemSent(f, i.at, i.body, TRUE)
        /\ {i.at : i \in Elements(put)} = 1..(next - 1)
    BY <2>1 DEF ItemsEnded
  <2> HIDE DEF f, next, put
  <2>3. \A at \in 1..(next - 1) : \E i \in Elements(put) : i.at = at
    BY <2>2
  <2>4. ASSUME NEW at \in 1..(next - 1)
        PROVE  /\ Cardinality(FramesOfItem(f, "added", at)) = 1
               /\ Cardinality(FramesOfItem(f, "done", at)) = 1
               /\ Cardinality(FramesOfItem(f, "done", at)) <= 1
               /\ \A d \in FramesOfItem(f, "delta", at) :
                     /\ \A a \in FramesOfItem(f, "added", at) : a < d
                     /\ \A z \in FramesOfItem(f, "done", at) : d < z
    <3>1. PICK i \in Elements(put) : i.at = at
      BY <2>3
    <3>2. ItemSent(f, at, i.body, TRUE)
      BY <2>2, <3>1
    <3> QED
      BY <3>2, ItemCounted
  <2>5. \A n \in DOMAIN f : f[n][1] \in {"added", "delta", "done"} => f[n][2] < next
    BY <2>2
  <2>6. ASSUME NEW n \in DOMAIN put
        PROVE  put[n].body = Tokens(f, {"delta"}, {put[n].at})
    <3> DEFINE i == put[n]
    <3>1. i \in Elements(put)
      BY DEF Elements
    <3>2. ItemSent(f, i.at, i.body, TRUE)
      BY <2>2, <3>1
    <3> QED
      BY <3>2 DEF ItemSent
  <2>7. {item.at : item \in {put[n] : n \in DOMAIN put}} = 1..(next - 1)
    BY <2>2 DEF Elements
  <2> QED
    BY <1>2, <2>2, <2>4, <2>5, <2>6, <2>7 DEF ItemsClosed, FramesOfItem, f, next, put
<1> QED
  BY <1>1, <1>2

(***************************************************************************)
(* The calls, when collect() has sorted them                               *)
(***************************************************************************)
\* Distinct indices have distinct ranks, from 1 to the number of the calls.
LEMMA RankPlace ==
    ASSUME NEW calls \in Seq(CallRecords),
           \A m, n \in DOMAIN calls : calls[m].index = calls[n].index => m = n
    PROVE  /\ \A n \in DOMAIN calls : Rank(calls, n) \in DOMAIN calls
           /\ \A m, n \in DOMAIN calls : Rank(calls, m) = Rank(calls, n) => m = n
<1> DEFINE D == DOMAIN calls
           T(n) == {m \in D : calls[m].index <= calls[n].index}
<1>1. D = 1..Len(calls) /\ Len(calls) \in Nat /\ IsFiniteSet(D) /\ Cardinality(D) = Len(calls)
  <2>1. D = 1..Len(calls) /\ Len(calls) \in Nat
    BY LenProperties
  <2>2. /\ IsFiniteSet(1..Len(calls))
        /\ Cardinality(1..Len(calls)) = IF 1 > Len(calls) THEN 0 ELSE Len(calls) - 1 + 1
    BY <2>1, FS_Interval
  <2> QED
    BY <2>1, <2>2
<1>2. \A n \in D : calls[n].index \in Nat
  <2> TAKE n \in D
  <2>1. calls[n] \in CallRecords
    BY <1>1, ElementOfSeq
  <2> QED
    BY <2>1 DEF CallRecords
<1> HIDE DEF D
<1>3. ASSUME NEW n \in D
      PROVE  IsFiniteSet(T(n)) /\ Cardinality(T(n)) \in Nat /\ Cardinality(T(n)) \in 1..Len(calls)
  <2>1. T(n) \in SUBSET D /\ n \in T(n)
    BY <1>2
  <2> HIDE DEF T
  <2>2. IsFiniteSet(T(n)) /\ Cardinality(T(n)) <= Cardinality(D)
    BY <1>1, <2>1, FS_Subset
  <2>3. Cardinality(T(n)) \in Nat /\ Cardinality(T(n)) # 0
    BY <2>1, <2>2, FS_CardinalityType, FS_EmptySet
  <2> QED
    BY <1>1, <2>2, <2>3
<1>4. ASSUME NEW m \in D, NEW n \in D, calls[m].index < calls[n].index
      PROVE  Cardinality(T(m)) # Cardinality(T(n))
  <2>1. T(m) \in SUBSET T(n) /\ n \in T(n) /\ n \notin T(m)
    BY <1>2, <1>4
  <2>2. IsFiniteSet(T(n))
    BY <1>3
  <2> HIDE DEF T
  <2> QED
    BY <2>1, <2>2, FS_Subset
<1>5. \A n \in D : Rank(calls, n) = Cardinality(T(n))
  BY DEF Rank, D
<1>6. ASSUME NEW m \in D, NEW n \in D, Rank(calls, m) = Rank(calls, n)
      PROVE  m = n
  <2>1. ~(calls[m].index < calls[n].index) /\ ~(calls[n].index < calls[m].index)
    BY <1>4, <1>5, <1>6
  <2>2. calls[m].index = calls[n].index
    BY <1>2, <2>1
  <2> QED
    BY <2>2 DEF D
<1>7. \A n \in D : Rank(calls, n) \in D
  BY <1>1, <1>3, <1>5
<1> QED
  BY <1>6, <1>7 DEF D

\* Sorting keeps the calls.
LEMMA SortedSame ==
    ASSUME NEW calls \in Seq(CallRecords),
           \A m, n \in DOMAIN calls : calls[m].index = calls[n].index => m = n
    PROVE  /\ DOMAIN SortCalls(calls) = DOMAIN calls /\ Len(SortCalls(calls)) = Len(calls)
           /\ SortCalls(calls) \in Seq(CallRecords)
           /\ \A n \in DOMAIN calls : \E m \in DOMAIN calls : SortCalls(calls)[n] = calls[m]
           /\ \A m \in DOMAIN calls : \E n \in DOMAIN calls : SortCalls(calls)[n] = calls[m]
<1> DEFINE D == DOMAIN calls
           R == [n \in D |-> Rank(calls, n)]
           g(r) == CHOOSE n \in D : Rank(calls, n) = r
<1>1. D = 1..Len(calls) /\ Len(calls) \in Nat /\ IsFiniteSet(D)
  <2>1. D = 1..Len(calls) /\ Len(calls) \in Nat
    BY LenProperties
  <2> QED
    BY <2>1, FS_Interval
<1>2. /\ \A n \in D : Rank(calls, n) \in D
      /\ \A m, n \in D : Rank(calls, m) = Rank(calls, n) => m = n
  BY RankPlace
<1> HIDE DEF D
<1>3. R \in [D -> D]
  BY <1>2
<1>4. ASSUME NEW r \in D
      PROVE  g(r) \in D /\ Rank(calls, g(r)) = r
  <2>1. \E n \in D : Rank(calls, n) = r
    <3> SUFFICES ASSUME \A n \in D : Rank(calls, n) # r
                 PROVE  FALSE
      OBVIOUS
    <3> DEFINE C == D \ {r}
    <3>1. IsFiniteSet(C) /\ Cardinality(C) = Cardinality(D) - 1 /\ Cardinality(D) \in Nat
      BY <1>1, FS_RemoveElement, FS_CardinalityType
    <3>2. R \in [D -> C]
      BY <1>2
    <3>3. Cardinality(C) < Cardinality(D)
      BY <3>1
    <3> HIDE DEF C, R
    <3>4. \E x, y \in D : x # y /\ R[x] = R[y]
      BY <1>1, <3>1, <3>2, <3>3, FS_PigeonHole
    <3> QED
      BY <1>2, <3>4 DEF R
  <2> QED
    BY <2>1
<1>5. SortCalls(calls) = [r \in D |-> calls[g(r)]]
  BY DEF SortCalls, D
<1>6. DOMAIN SortCalls(calls) = D /\ \A r \in D : SortCalls(calls)[r] = calls[g(r)]
  BY <1>5
<1> HIDE DEF g
<1>7. Len(SortCalls(calls)) = Len(calls) /\ SortCalls(calls) \in Seq(CallRecords)
  <2> DEFINE q == SortCalls(calls)
             l == Len(calls)
  <2>1. \A r \in 1..l : q[r] \in CallRecords
    BY <1>1, <1>4, <1>6, ElementOfSeq
  <2>2. l \in Nat /\ q = [r \in 1..l |-> q[r]]
    BY <1>1, <1>5, <1>6
  <2> HIDE DEF q, l
  <2>3. q \in Seq(CallRecords) /\ Len(q) = l
    BY <2>1, <2>2
  <2> QED
    BY <2>3 DEF q, l
<1>8. ASSUME NEW m \in D
      PROVE  \E n \in D : SortCalls(calls)[n] = calls[m]
  <2> DEFINE n == Rank(calls, m)
  <2>1. n \in D
    BY <1>2
  <2>2. g(n) = m
    BY <1>2, <1>4, <2>1
  <2> QED
    BY <1>6, <2>1, <2>2
<1> QED
  BY <1>4, <1>6, <1>7, <1>8 DEF D

\* The items a request without a stream gets.
BuiltItems == [type : {"reasoning", "message", "function_call"}, index : Nat, body : Seq(Nat)]

\* One item, or none.
LEMMA BuiltItem ==
    ASSUME NEW c, NEW type \in {"reasoning", "message"}, NEW body \in Seq(Nat)
    PROVE  LET q == IF c THEN <<[type |-> type, index |-> 0, body |-> body]>> ELSE <<>>
           IN  q \in Seq(BuiltItems) /\ \A i \in Elements(q) : i.type # "function_call"
<1> DEFINE x == [type |-> type, index |-> 0, body |-> body]
<1>1. x \in BuiltItems /\ x.type # "function_call"
  BY DEF BuiltItems
<1> HIDE DEF x
<1>2. <<x>> \in Seq(BuiltItems) /\ Elements(<<x>>) = {x}
  <2>1. <<x>> \in Seq(BuiltItems) /\ DOMAIN <<x>> = {1} /\ <<x>>[1] = x
    BY <1>1
  <2> QED
    BY <2>1 DEF Elements
<1>3. <<>> \in Seq(BuiltItems) /\ Elements(<<>>) = {}
  BY DEF Elements
<1>4. CASE c
  BY <1>1, <1>2, <1>4 DEF x
<1>5. CASE ~c
  BY <1>3, <1>5
<1> QED
  BY <1>4, <1>5

\* The calls of the object are those of the result.
LEMMA BuiltCalls ==
    ASSUME NEW r, r.text \in Seq(Nat), r.reasoning \in Seq(Nat), r.outcomes \in Seq(Nat),
           r.calls \in Seq(CallRecords), NEW p
    PROVE  LET items == BuildResponse(r, p)
           IN  {<<items[n].index, items[n].body>> :
                   n \in {m \in DOMAIN items : items[m].type = "function_call"}} = CallSet(r.calls)
<1> DEFINE outcomes == IF p.inline THEN r.outcomes ELSE <<>>
           spoken == (<<ProgressToken>> \o (IF p.notices THEN <<NoticesToken>> ELSE <<>>)) \o outcomes
           a == IF outcomes # <<>> \/ p.notices
                THEN <<[type |-> "reasoning", index |-> 0, body |-> spoken]>> ELSE <<>>
           b == IF r.reasoning # <<>> THEN <<[type |-> "reasoning", index |-> 0, body |-> r.reasoning]>> ELSE <<>>
           c == IF r.text # <<>> THEN <<[type |-> "message", index |-> 0, body |-> r.text]>> ELSE <<>>
           calls == r.calls
           d == [n \in 1..Len(calls) |->
                   [type |-> "function_call", index |-> calls[n].index, body |-> calls[n].body]]
           ab == a \o b
           abc == ab \o c
           items == abc \o d
<1>1. BuildResponse(r, p) = items
  BY DEF BuildResponse
<1>2. spoken \in Seq(Nat)
  <2>1. <<ProgressToken>> \in Seq(Nat) /\ <<NoticesToken>> \in Seq(Nat) /\ <<>> \in Seq(Nat)
    BY DEF ProgressToken, NoticesToken
  <2>2. outcomes \in Seq(Nat)
    BY <2>1
  <2> DEFINE x == <<ProgressToken>>
             y == IF p.notices THEN <<NoticesToken>> ELSE <<>>
  <2>3. x \in Seq(Nat) /\ y \in Seq(Nat)
    BY <2>1
  <2> HIDE DEF x, y, outcomes
  <2>4. x \o y \in Seq(Nat)
    BY <2>3, ConcatProperties
  <2>5. (x \o y) \o outcomes \in Seq(Nat)
    BY <2>2, <2>4, ConcatProperties
  <2> QED
    BY <2>5 DEF x, y
<1> HIDE DEF spoken
<1>3. a \in Seq(BuiltItems) /\ \A i \in Elements(a) : i.type # "function_call"
  BY <1>2, BuiltItem
<1>4. b \in Seq(BuiltItems) /\ \A i \in Elements(b) : i.type # "function_call"
  BY BuiltItem
<1>5. c \in Seq(BuiltItems) /\ \A i \in Elements(c) : i.type # "function_call"
  BY BuiltItem
<1> HIDE DEF a, b, c
<1>6. /\ calls \in Seq(CallRecords) /\ DOMAIN calls = 1..Len(calls) /\ Len(calls) \in Nat
      /\ \A n \in 1..Len(calls) : calls[n].index \in Nat /\ calls[n].body \in Seq(Nat)
  <2>1. calls \in Seq(CallRecords) /\ DOMAIN calls = 1..Len(calls) /\ Len(calls) \in Nat
    BY LenProperties
  <2> HIDE DEF calls
  <2>2. \A n \in 1..Len(calls) : calls[n] \in CallRecords
    BY <2>1, ElementOfSeq
  <2> QED
    BY <2>1, <2>2 DEF CallRecords
<1> HIDE DEF calls
<1>7. d \in Seq(BuiltItems) /\ DOMAIN d = DOMAIN calls
  <2>1. \A n \in 1..Len(calls) :
           [type |-> "function_call", index |-> calls[n].index, body |-> calls[n].body] \in BuiltItems
    BY <1>6 DEF BuiltItems
  <2> QED
    BY <1>6, <2>1
<1>8. \A n \in DOMAIN calls :
         d[n].type = "function_call" /\ d[n].index = calls[n].index /\ d[n].body = calls[n].body
  BY <1>6
<1> HIDE DEF d
<1>9. ab \in Seq(BuiltItems) /\ Elements(ab) = Elements(a) \cup Elements(b)
  BY <1>3, <1>4, ElementsBoth, ConcatProperties
<1> HIDE DEF ab
<1>10. abc \in Seq(BuiltItems) /\ Elements(abc) = Elements(ab) \cup Elements(c)
  BY <1>5, <1>9, ElementsBoth, ConcatProperties
<1> HIDE DEF abc
<1>11. Elements(items) = Elements(abc) \cup Elements(d)
  BY <1>7, <1>10, ElementsBoth
<1> HIDE DEF items
<1>12. {j \in Elements(items) : j.type = "function_call"} = Elements(d)
  <2>1. \A j \in Elements(abc) : j.type # "function_call"
    BY <1>3, <1>4, <1>5, <1>9, <1>10
  <2>2. \A j \in Elements(d) : j.type = "function_call"
    BY <1>7, <1>8 DEF Elements
  <2> QED
    BY <1>11, <2>1, <2>2
<1>13. {<<items[n].index, items[n].body>> : n \in {m \in DOMAIN items : items[m].type = "function_call"}} =
       {<<i.index, i.body>> : i \in {j \in Elements(items) : j.type = "function_call"}}
  BY DEF Elements
<1>14. {<<i.index, i.body>> : i \in Elements(d)} = CallSet(calls)
  <2>1. {<<i.index, i.body>> : i \in Elements(d)} = {<<d[n].index, d[n].body>> : n \in DOMAIN d}
    BY DEF Elements
  <2> QED
    BY <1>7, <1>8, <2>1 DEF CallSet
<1> QED
  BY <1>1, <1>12, <1>13, <1>14 DEF calls

\* What collect() does when the stream is over.
LEMMA Finished ==
    ASSUME NEW r \in Results, NEW e, e.kind \in Ends
    PROVE  LET q == Collect(r, e)
           IN  /\ q.text = r.text /\ q.reasoning = r.reasoning /\ q.outcomes = r.outcomes
               /\ q.calls = IF e.kind = "failed" THEN r.calls ELSE SortCalls(r.calls)
               /\ q.end # "raised" => e.kind # "failed"
<1> DEFINE c == SortCalls(r.calls)
           q == Collect(r, e)
<1>1. CASE e.kind = "failed"
  <2>1. q = [r EXCEPT !.end = "raised"]
    BY <1>1 DEF Collect
  <2> HIDE DEF q
  <2>2. q.text = r.text /\ q.reasoning = r.reasoning /\ q.outcomes = r.outcomes /\ q.calls = r.calls /\ q.end = "raised"
    BY <2>1 DEF Results
  <2> QED
    BY <1>1, <2>2 DEF q
<1>2. CASE e.kind \in {"completed", "cut"}
  <2>1. q = [r EXCEPT !.calls = c, !.end = e.kind]
    BY <1>2 DEF Collect
  <2> HIDE DEF q, c
  <2>2. q.text = r.text /\ q.reasoning = r.reasoning /\ q.outcomes = r.outcomes /\ q.calls = c
    BY <2>1 DEF Results
  <2> QED
    BY <1>2, <2>2 DEF q, c
<1> QED
  BY <1>1, <1>2 DEF Ends

\* Sorting keeps what the calls are.
LEMMA SortedSet ==
    ASSUME NEW calls \in Seq(CallRecords),
           \A m, n \in DOMAIN calls : calls[m].index = calls[n].index => m = n
    PROVE  CallSet(SortCalls(calls)) = CallSet(calls)
<1> DEFINE q == SortCalls(calls)
<1>1. /\ DOMAIN q = DOMAIN calls
      /\ \A n \in DOMAIN calls : \E m \in DOMAIN calls : q[n] = calls[m]
      /\ \A m \in DOMAIN calls : \E n \in DOMAIN calls : q[n] = calls[m]
  BY SortedSame
<1> HIDE DEF q
<1>2. ASSUME NEW n \in DOMAIN calls
      PROVE  <<q[n].index, q[n].body>> \in CallSet(calls)
  <2>1. PICK m \in DOMAIN calls : q[n] = calls[m]
    BY <1>1
  <2> QED
    BY <2>1 DEF CallSet
<1>3. ASSUME NEW m \in DOMAIN calls
      PROVE  <<calls[m].index, calls[m].body>> \in CallSet(q)
  <2>1. PICK n \in DOMAIN calls : q[n] = calls[m]
    BY <1>1
  <2> QED
    BY <1>1, <2>1 DEF CallSet
<1>4. \A x \in CallSet(q) : x \in CallSet(calls)
  <2> TAKE x \in CallSet(q)
  <2>1. PICK n \in DOMAIN q : x = <<q[n].index, q[n].body>>
    BY DEF CallSet
  <2> QED
    BY <1>1, <1>2, <2>1
<1>5. \A x \in CallSet(calls) : x \in CallSet(q)
  <2> TAKE x \in CallSet(calls)
  <2>1. PICK m \in DOMAIN calls : x = <<calls[m].index, calls[m].body>>
    BY DEF CallSet
  <2> QED
    BY <1>3, <2>1
<1>6. CallSet(q) = CallSet(calls)
  BY <1>4, <1>5
<1> QED
  BY <1>6 DEF q

\* What SameSoFar says of two streams and of what was collected.
Shown(f, g, blocks, text, reasoning, calls, p) ==
    /\ Tokens(f, {"content"}, Nat) = text
    /\ Tokens(f, {"reasoning"}, Nat) = reasoning
    /\ Tokens(g, {"text"}, Nat) = text
    /\ \E n \in 0..Len(reasoning) :
          Tokens(g, {"thinking"}, Nat) =
            (IF p.notices THEN <<NoticeToken>> ELSE <<>>) \o SubSeq(reasoning, 1, n)
    /\ \A n \in DOMAIN calls :
          /\ Tokens(f, Deltas, {calls[n].index}) = calls[n].body
          /\ \E b \in DOMAIN blocks :
                /\ blocks[b].index = calls[n].index
                /\ Tokens(g, {"json"}, {blocks[b].at}) = calls[n].body

\* What the streams show is what was collected.
LEMMA ShownAgree ==
    ASSUME NEW f, NEW g, NEW blocks \in Seq([index : Nat, at : Nat]), NEW next,
           NEW text, NEW reasoning, NEW calls \in Seq(CallRecords), NEW headers, NEW seen, NEW thought, NEW p,
           ChatSaw(f, text, reasoning, calls, headers, seen),
           BlocksSaw(g, text, thought, blocks, next, calls), ThoughtPart(thought, reasoning, p)
    PROVE  Shown(f, g, blocks, text, reasoning, calls, p)
<1>1. /\ Tokens(f, {"content"}, Nat) = text
      /\ Tokens(f, {"reasoning"}, Nat) = reasoning
      /\ \A n \in DOMAIN calls : Tokens(f, Deltas, {calls[n].index}) = calls[n].body
  BY DEF ChatSaw
<1>2. /\ Tokens(g, {"text"}, Nat) = text /\ Tokens(g, {"thinking"}, Nat) = thought
      /\ Len(blocks) = Len(calls)
      /\ \A n \in DOMAIN blocks :
            blocks[n].index = calls[n].index /\ Tokens(g, {"json"}, {blocks[n].at}) = calls[n].body
  BY DEF BlocksSaw
<1>3. \E n \in 0..Len(reasoning) :
         thought = (IF p.notices THEN <<NoticeToken>> ELSE <<>>) \o SubSeq(reasoning, 1, n)
  BY DEF ThoughtPart, Noticed
<1>4. DOMAIN blocks = DOMAIN calls
  BY <1>2, LenProperties
<1>5. \A n \in DOMAIN calls : \E b \in DOMAIN blocks :
         blocks[b].index = calls[n].index /\ Tokens(g, {"json"}, {blocks[b].at}) = calls[n].body
  BY <1>2, <1>4
<1> QED
  BY <1>1, <1>2, <1>3, <1>5, Zenon DEF Shown

\* While the run goes on the surfaces show the same.
LEMMA AgreementMeans ==
    ASSUME IInv, Agreement
    PROVE  SameSoFar
<1> DEFINE text == result.text
           reasoning == result.reasoning
           calls == result.calls
           f == chat.out
           g == anthropic.out
           blocks == anthropic.blocks
           next == anthropic.next
           headers == chat.headers
           thought == Tokens(g, {"thinking"}, Nat)
           seen == Sent(f, Opening, Nat)
<1>1. CASE stage = "over"
  BY <1>1 DEF Agreement
<1>2. CASE stage # "over"
  <2>1. /\ ChatShows(chat, text, reasoning, calls, result.outcomes, o, stage)
        /\ AnthropicShows(anthropic, text, reasoning, calls, o)
        /\ BlocksGood(anthropic) /\ result \in Results
    BY <1>2 DEF Agreement, IInv
  <2>2. ChatSaw(f, text, reasoning, calls, headers, seen)
    BY <2>1 DEF ChatShows
  <2>3. /\ BlocksSaw(g, text, thought, blocks, next, calls)
        /\ anthropic.thinkingDone => ThoughtPart(thought, reasoning, o)
        /\ ~anthropic.thinkingDone => ThoughtWhole(thought, reasoning, o)
    BY <2>1 DEF AnthropicShows
  <2>4. blocks \in Seq([index : Nat, at : Nat])
    BY <2>1, BlockStream
  <2>5. calls \in Seq(CallRecords) /\ reasoning \in Seq(Nat)
    BY <2>1 DEF Results
  <2> HIDE DEF text, reasoning, calls, f, g, blocks, next, headers, thought, seen
  <2>6. ThoughtPart(thought, reasoning, o)
    <3>1. 0 \in Nat
      OBVIOUS
    <3>2. ThoughtWhole(thought, reasoning, o) => ThoughtPart(thought, reasoning, o)
      BY <2>5, <3>1, ThoughtGrows
    <3> QED
      BY <2>3, <3>2
  <2>7. Shown(f, g, blocks, text, reasoning, calls, o)
    BY <2>2, <2>3, <2>4, <2>5, <2>6, ShownAgree
  <2> QED
    BY <1>2, <2>7, Zenon DEF SameSoFar, Shown, text, reasoning, calls, f, g, blocks
<1> QED
  BY <1>1, <1>2

\* At first nothing was said.
LEMMA InitAgreement ==
    ASSUME SurfacesInit
    PROVE  Agreement
<1> DEFINE n == <<>>
<1>0. n = <<>>
  OBVIOUS
<1>1. /\ o \in Options /\ stage = "start" /\ result = Empty /\ chat = ChatStart(o)
      /\ responses = ResponsesStart(o) /\ anthropic = AnthropicStart(o)
  BY DEF SurfacesInit
<1>2. result.text = n /\ result.reasoning = n /\ result.calls = n /\ result.outcomes = n
  BY <1>1 DEF Empty
<1>3. ItemsGood(responses) /\ ResponsesShow(responses, n, n)
  BY <1>1, ResponsesBegin
<1>4. DOMAIN n = {}
  OBVIOUS
<1> HIDE DEF n
<1>5. ChatShows(chat, n, n, n, n, o, "start")
  BY <1>0, <1>1, ChatShowsStart
<1>6. AnthropicShows(anthropic, n, n, n, o)
  BY <1>0, <1>1, AnthropicShowsStart
<1> QED
  BY <1>1, <1>2, <1>3, <1>4, <1>5, <1>6 DEF Agreement

\* The indices of the calls stay distinct.
LEMMA StillDistinct ==
    ASSUME NEW r \in Results, NEW e, e.index \in Nat, e.token \in Nat, e.kind \notin Ends,
           e.kind = "tool" => e.index \notin Indices(r),
           \A m, n \in DOMAIN r.calls : r.calls[m].index = r.calls[n].index => m = n
    PROVE  LET q == Collect(r, e)
           IN  \A m, n \in DOMAIN q.calls : q.calls[m].index = q.calls[n].index => m = n
<1> DEFINE calls == r.calls
           c == [index |-> e.index, body |-> <<>>]
           q == Collect(r, e)
           more == Append(calls, c)
           longer == Extend(calls, e)
<1>1. calls \in Seq(CallRecords) /\ c \in CallRecords /\ c.index = e.index
  BY DEF Results, CallRecords
<1>2. q.calls = IF e.kind = "tool" THEN more ELSE IF e.kind = "arguments" THEN longer ELSE calls
  BY Collected
<1>3. DOMAIN longer = DOMAIN calls /\ \A n \in DOMAIN calls : longer[n].index = calls[n].index
  BY <1>1, ExtendedAt
<1>4. \A m, n \in DOMAIN calls : calls[m].index = calls[n].index => m = n
  OBVIOUS
<1>5. e.kind = "tool" => \A n \in DOMAIN calls : calls[n].index # e.index
  BY DEF Indices
<1> HIDE DEF c, calls
<1>6. /\ DOMAIN calls = 1..Len(calls) /\ Len(calls) \in Nat /\ DOMAIN more = 1..(Len(calls) + 1)
      /\ \A n \in 1..Len(calls) : more[n] = calls[n]
      /\ more[Len(calls) + 1] = c
  BY <1>1, OneMore
<1> HIDE DEF more, longer, q
<1>7. CASE e.kind = "tool"
  <2>1. ASSUME NEW m \in DOMAIN more, NEW n \in DOMAIN more, more[m].index = more[n].index
        PROVE  m = n
    BY <1>1, <1>4, <1>5, <1>6, <1>7, <2>1
  <2> QED
    BY <1>2, <1>7, <2>1 DEF q
<1>8. CASE e.kind # "tool"
  BY <1>2, <1>3, <1>4, <1>8 DEF q
<1> QED
  BY <1>7, <1>8

\* An event keeps the surfaces together.
LEMMA AgreementGoesOn ==
    ASSUME IInv, Agreement, NEW e, IsEvent(e)
    PROVE  Agreement'
<1> DEFINE r == result
           q == result'
           p == o
           at == stage
           next == stage'
<1>1. /\ e.index \in Nat /\ e.token \in Nat /\ e.reasoning \in Nat /\ e.content \in Nat
      /\ Moves(e.kind, at, next) /\ at # "over" /\ next # "over" /\ e.kind \notin Ends
      /\ e.kind \notin {"completed", "cut", "failed"}
  BY DEF IsEvent, Moves, Ends
<1>2. /\ chat' = ChatFold(chat, e, p) /\ responses' = ResponsesFold(responses, e, p)
      /\ anthropic' = AnthropicFold(anthropic, e, p) /\ q = Collect(r, e) /\ o' = p
  BY DEF IsEvent, Fold
<1>3. /\ p \in Options /\ r \in Results /\ ChatGood(chat, p.compat) /\ chat.headers = Opened
      /\ (at = "answer" => ~chat.think) /\ BlocksGood(anthropic)
  BY <1>1 DEF IInv
<1>4. /\ ItemsGood(responses)
      /\ ChatShows(chat, r.text, r.reasoning, r.calls, r.outcomes, p, at)
      /\ AnthropicShows(anthropic, r.text, r.reasoning, r.calls, p)
      /\ ResponsesShow(responses, r.text, r.calls)
      /\ \A m, n \in DOMAIN r.calls : r.calls[m].index = r.calls[n].index => m = n
  BY <1>1 DEF Agreement
<1>5. /\ e.kind = "tool" => e.index \notin chat.headers /\ e.index \notin Indices(r)
      /\ e.kind = "arguments" => e.index \in chat.headers
  BY <1>3 DEF IsEvent, Opened, Indices
<1>6. p.inline \in BOOLEAN
  BY <1>3, OptionsType
<1> HIDE DEF r, p, at, next
<1>7. LET c == Collect(r, e)
      IN  ChatShows(ChatFold(chat, e, p), c.text, c.reasoning, c.calls, c.outcomes, p, next)
  BY <1>1, <1>3, <1>4, <1>5, ChatShowsStep
<1>8. LET c == Collect(r, e)
      IN  AnthropicShows(AnthropicFold(anthropic, e, p), c.text, c.reasoning, c.calls, p)
  BY <1>1, <1>3, <1>4, AnthropicShowsStep
<1>9. /\ ItemsGood(ResponsesFold(responses, e, p))
      /\ ResponsesShow(ResponsesFold(responses, e, p), Collect(r, e).text, Collect(r, e).calls)
  BY <1>1, <1>3, <1>4, <1>6, ResponsesStep
<1>10. LET c == Collect(r, e)
       IN  \A m, n \in DOMAIN c.calls : c.calls[m].index = c.calls[n].index => m = n
  BY <1>1, <1>3, <1>4, <1>5, StillDistinct
<1> HIDE DEF q
<1>11. /\ ItemsGood(responses')
       /\ ChatShows(chat', q.text, q.reasoning, q.calls, q.outcomes, p, next)
       /\ AnthropicShows(anthropic', q.text, q.reasoning, q.calls, p)
       /\ ResponsesShow(responses', q.text, q.calls)
       /\ \A m, n \in DOMAIN q.calls : q.calls[m].index = q.calls[n].index => m = n
  BY <1>2, <1>7, <1>8, <1>9, <1>10
<1> QED
  BY <1>1, <1>2, <1>11 DEF Agreement, q, next

\* The event that ends the run leaves the same on every surface.
LEMMA AgreementOver ==
    ASSUME IInv, Agreement, NEW e, e.kind \in Ends, stage # "over", Fold(e), Over
    PROVE  Agreement'
<1> DEFINE r == result
           q == Collect(r, e)
           p == o
           k == e.kind
           text == r.text
           reasoning == r.reasoning
           outcomes == r.outcomes
           calls == r.calls
           last == q.calls
           u == ChatFold(chat, e, p)
           v == ResponsesFold(responses, e, p)
           w == AnthropicFold(anthropic, e, p)
           f == u.out
           g == w.out
           blocks == w.blocks
           headers == chat.headers
           at == stage
           next == w.next
<1>1. /\ chat' = u /\ responses' = v /\ anthropic' = w /\ result' = q /\ o' = p /\ stage' = "over"
  BY DEF Fold, Over
<1>2. /\ p \in Options /\ r \in Results /\ ChatGood(chat, p.compat) /\ BlocksGood(anthropic)
  BY DEF IInv
<1>3. /\ ItemsGood(responses)
      /\ ChatShows(chat, text, reasoning, calls, outcomes, p, at)
      /\ AnthropicShows(anthropic, text, reasoning, calls, p)
      /\ ResponsesShow(responses, text, calls)
      /\ \A m, n \in DOMAIN calls : calls[m].index = calls[n].index => m = n
  BY DEF Agreement
<1>4. /\ text \in Seq(Nat) /\ reasoning \in Seq(Nat) /\ outcomes \in Seq(Nat) /\ calls \in Seq(CallRecords)
  BY <1>2 DEF Results
<1>5. p.inline \in BOOLEAN /\ k \in Ends
  BY <1>2, OptionsType
<1>6. /\ q.text = text /\ q.reasoning = reasoning /\ q.outcomes = outcomes
      /\ last = IF k = "failed" THEN calls ELSE SortCalls(calls)
      /\ q.end # "raised" => k # "failed"
  BY <1>2, Finished
<1>7. /\ DOMAIN last = DOMAIN calls /\ last \in Seq(CallRecords)
      /\ \A n \in DOMAIN last : \E m \in DOMAIN calls : last[n] = calls[m]
      /\ k # "failed" => CallSet(last) = CallSet(calls)
  <2> DEFINE c == SortCalls(calls)
  <2>1. /\ DOMAIN c = DOMAIN calls /\ c \in Seq(CallRecords)
        /\ \A n \in DOMAIN calls : \E m \in DOMAIN calls : c[n] = calls[m]
    BY <1>3, <1>4, SortedSame
  <2>2. CallSet(c) = CallSet(calls)
    BY <1>3, <1>4, SortedSet
  <2>3. last = IF k = "failed" THEN calls ELSE c
    BY <1>6
  <2> HIDE DEF c, last, calls, k
  <2> QED
    BY <1>4, <2>1, <2>2, <2>3
<1> HIDE DEF r, q, p, text, reasoning, outcomes, calls, last, headers, at
<1>8. PICK seen : ChatSaw(f, text, reasoning, calls, headers, seen) /\ ClosedSeen(seen, text, outcomes, p, "answer")
  BY <1>2, <1>3, <1>4, <1>5, ChatShowsOver DEF headers
<1>9. /\ blocks \in Seq([index : Nat, at : Nat])
      /\ \E thought : BlocksSaw(g, text, thought, blocks, next, calls) /\ ThoughtPart(thought, reasoning, p)
  BY <1>2, <1>3, <1>4, <1>5, AnthropicShowsOver
<1> DEFINE d == v.output
           said1 == {<<d[n].index, d[n].body>> : n \in {m \in DOMAIN d : d[m].type = "function_call"}}
<1>10. ItemsEnded(v) /\ Said(d, "message") = text /\ said1 = CallSet(calls)
  <2> DEFINE kind == IF k = "failed" THEN "failed" ELSE "completed"
             a == Say(CloseAll(responses), <<ResponsesFrame(kind)>>)
  <2>1. v = a
    BY <1>5 DEF ResponsesFold, Ends
  <2>2. kind \in {"completed", "failed"}
    OBVIOUS
  <2> HIDE DEF kind, v
  <2>3. /\ ItemsEnded(a)
        /\ Said(a.output, "message") = text
        /\ {<<a.output[n].index, a.output[n].body>> :
               n \in {m \in DOMAIN a.output : a.output[m].type = "function_call"}} = CallSet(calls)
    BY <1>3, <1>4, <2>2, ResponsesOver
  <2> HIDE DEF a
  <2> QED
    BY <2>1, <2>3
<1> HIDE DEF u, v, w, f, g, blocks, next, d
<1>11. PICK thought : BlocksSaw(g, text, thought, blocks, next, calls) /\ ThoughtPart(thought, reasoning, p)
  BY <1>9
<1>12. Shown(f, g, blocks, text, reasoning, calls, p)
  BY <1>4, <1>8, <1>9, <1>11, ShownAgree
<1>13. ASSUME NEW n \in DOMAIN last
       PROVE  /\ Tokens(f, Deltas, {last[n].index}) = last[n].body
              /\ \E b \in DOMAIN blocks :
                    /\ blocks[b].index = last[n].index
                    /\ Tokens(g, {"json"}, {blocks[b].at}) = last[n].body
  <2>1. PICK m \in DOMAIN calls : last[n] = calls[m]
    BY <1>7
  <2> QED
    BY <1>12, <2>1, Zenon DEF Shown
<1> DEFINE items == BuildResponse(q, p)
           said2 == {<<items[n].index, items[n].body>> :
                        n \in {m \in DOMAIN items : items[m].type = "function_call"}}
<1>14. ASSUME q.end # "raised"
       PROVE  said1 = said2
  <2>1. said2 = CallSet(q.calls)
    BY <1>4, <1>6, <1>7, BuiltCalls DEF last
  <2> QED
    BY <1>6, <1>7, <1>10, <1>14, <2>1 DEF last
<1>15. ASSUME Filled(outcomes, p)
       PROVE  Sent(f, Opening, Nat) = BuildCompletion(q, p)
  <2>1. Sent(f, Opening, Nat) = seen
    BY <1>8 DEF ChatSaw
  <2>2. seen = BuildCompletion(q, p)
    <3>1. /\ q.text \in Seq(Nat) /\ q.outcomes \in Seq(Nat) /\ p.inline \in BOOLEAN
          /\ ClosedSeen(seen, q.text, q.outcomes, p, "answer") /\ Filled(q.outcomes, p)
      BY <1>4, <1>5, <1>6, <1>8, <1>15, Zenon
    <3>2. SeenWhole(seen, q, p)
      BY <3>1, Zenon DEF SeenWhole
    <3> QED
      BY <3>2, SeenAll
  <2> QED
    BY <2>1, <2>2, Zenon
<1>16. SameSoFar'
  <2>1. /\ chat'.out = f /\ anthropic'.out = g /\ anthropic'.blocks = blocks /\ responses'.output = d
        /\ result'.text = text /\ result'.reasoning = reasoning /\ result'.calls = last
        /\ result' = q /\ o' = p
    BY <1>1, <1>6 DEF f, g, blocks, d, last
  <2>2. /\ Tokens(chat'.out, {"content"}, Nat) = result'.text
        /\ Tokens(chat'.out, {"reasoning"}, Nat) = result'.reasoning
        /\ Tokens(anthropic'.out, {"text"}, Nat) = result'.text
        /\ \E n \in 0..Len(result'.reasoning) :
              Tokens(anthropic'.out, {"thinking"}, Nat) =
                (IF o'.notices THEN <<NoticeToken>> ELSE <<>>) \o SubSeq(result'.reasoning, 1, n)
    BY <1>12, <2>1, Zenon DEF Shown
  <2>3. \A n \in DOMAIN result'.calls :
           /\ Tokens(chat'.out, Deltas, {result'.calls[n].index}) = result'.calls[n].body
           /\ \E b \in DOMAIN anthropic'.blocks :
                 /\ anthropic'.blocks[b].index = result'.calls[n].index
                 /\ Tokens(anthropic'.out, {"json"}, {anthropic'.blocks[b].at}) = result'.calls[n].body
    BY <1>13, <2>1, Zenon
  <2>4. Said(responses'.output, "message") = result'.text
    BY <1>10, <2>1, Zenon
  <2>5. ASSUME result'.end # "raised"
        PROVE  {<<responses'.output[n].index, responses'.output[n].body>> :
                    n \in {m \in DOMAIN responses'.output : responses'.output[m].type = "function_call"}} =
               {<<BuildResponse(result', o')[n].index, BuildResponse(result', o')[n].body>> :
                    n \in {m \in DOMAIN BuildResponse(result', o') :
                              BuildResponse(result', o')[m].type = "function_call"}}
    <3>1. BuildResponse(result', o') = items
      BY <2>1, Zenon
    <3>2. said1 = said2
      BY <1>14, <2>1, <2>5
    <3> HIDE DEF items
    <3> QED
      BY <2>1, <3>1, <3>2
  <2>6. (o'.inline => o'.notices \/ result'.outcomes # <<>>) =>
           Sent(chat'.out, Opening, Nat) = BuildCompletion(result', o')
    BY <1>6, <1>15, <2>1, Zenon DEF Filled
  <2> QED
    BY <2>2, <2>3, <2>4, <2>5, <2>6, Zenon DEF SameSoFar
<1> QED
  BY <1>1, <1>10, <1>16 DEF Agreement

\* The surfaces stay together when nothing happens.
LEMMA SurfacesStay ==
    ASSUME chat' = chat, responses' = responses, anthropic' = anthropic, result' = result, o' = o, stage' = stage
    PROVE  SameSoFar => SameSoFar'
<1> DEFINE D(items) == {<<items[n].index, items[n].body>> :
                           n \in {m \in DOMAIN items : items[m].type = "function_call"}}
           A(f, b, i, r, p, at) ==
    /\ Shown(f, b.out, b.blocks, r.text, r.reasoning, r.calls, p)
    /\ at = "over" /\ r.end # "raised" =>
            /\ Said(i.output, "message") = r.text
            /\ D(i.output) = D(BuildResponse(r, p))
            /\ (p.inline => p.notices \/ r.outcomes # <<>>) =>
                  Sent(f, Opening, Nat) = BuildCompletion(r, p)
<1>1. SameSoFar = A(chat.out, anthropic, responses, result, o, stage)
  BY Zenon DEF SameSoFar, Shown
<1>2. SameSoFar' = A(chat'.out, anthropic', responses', result', o', stage')
  BY Zenon DEF SameSoFar, Shown
<1> HIDE DEF A
<1> QED
  BY <1>1, <1>2

\* Every step keeps the surfaces together.
LEMMA NextAgreement ==
    ASSUME IInv, Agreement, [SurfacesNext]_surfaceVars
    PROVE  Agreement'
<1>1. CASE UNCHANGED surfaceVars
  <2>1. /\ o' = o /\ stage' = stage /\ chat' = chat /\ responses' = responses
        /\ anthropic' = anthropic /\ result' = result
    BY <1>1 DEF surfaceVars, folds
  <2>2. SameSoFar => SameSoFar'
    BY <2>1, SurfacesStay
  <2> QED
    BY <2>1, <2>2, Zenon DEF Agreement
<1>2. CASE FanOut \/ SkipFanOut \/ MemberDone \/ Synthesis \/ AnswerDelta \/ ToolCallStarted \/ ToolCallDelta
  <2>1. PICK e : IsEvent(e)
    BY <1>2, PanelEvent, AnswerEvent
  <2> QED
    BY <2>1, AgreementGoesOn
<1>3. CASE Completed \/ PipelineFailed \/ Cut
  <2>1. PICK e : e.kind \in Ends /\ stage # "over" /\ Fold(e) /\ Over
    BY <1>3, EndEvent
  <2> QED
    BY <2>1, AgreementOver
<1> QED
  BY <1>1, <1>2, <1>3 DEF SurfacesNext

\* The surfaces stay together throughout.
THEOREM SurfacesTogether == SurfacesSpec => []Agreement
<1>1. SurfacesInit => Agreement
  BY InitAgreement
<1>2. IInv /\ Agreement /\ [SurfacesNext]_surfaceVars => Agreement'
  BY NextAgreement
<1> QED
  BY <1>1, <1>2, StreamsInv, PTL DEF SurfacesSpec

\* The items of a Responses stream are closed, each once, with what they said.
THEOREM ResponsesItemsClosed == SurfacesSpec => []ItemsClosed
<1>1. Agreement => ItemsClosed
  BY AgreementCloses
<1> QED
  BY <1>1, SurfacesTogether, PTL
=============================================================================
