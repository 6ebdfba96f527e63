------------------------------ MODULE Surfaces ------------------------------
(***************************************************************************)
(* One run's events, folded at the same time by the three streaming        *)
(* surfaces and by collect(), which answers the requests without a stream. *)
(*                                                                         *)
(* The events come in the orders run_ensemble yields them: FanoutStarted   *)
(* for each member, their outcomes in any order, SynthesisStarted, then    *)
(* what the chunks of the synthesizer carry, then Completed; PipelineFailed*)
(* may come at any point, and the iterator may end without either, when    *)
(* the run is cancelled under a coalesced request.  A provider may send    *)
(* text, reasoning and the fragments of parallel calls in any order.       *)
(***************************************************************************)
EXTENDS ChatEncoder, ResponsesEncoder, AnthropicEncoder, FiniteSets

CONSTANTS Members,    \* how many members the panel has
          Calls,      \* the indices of the tool calls a provider may stream
          MaxPieces   \* bound: the events of the answer

ASSUME SurfacesAssumption ==
    /\ Members \in Nat /\ MaxPieces \in Nat
    /\ Calls \subseteq Nat

VARIABLES o,          \* the options of the request and of its plan
          stage,      \* "start", "panel", "answer" or "over"
          said,       \* how many members have been heard of
          pieces,     \* how many events the answer has had
          chat, responses, anthropic,   \* the encoders' local variables and frames
          result      \* what collect() has gathered

folds == <<chat, responses, anthropic, result>>
surfaceVars == <<o, stage, said, pieces, folds>>

\* What the handlers pass on of the plan (show_work, notices), of the request
\* (include_usage) and of its client (the stream profile).
Options ==
    [inline : BOOLEAN, notices : BOOLEAN, usage : BOOLEAN,
     compat : {StreamProfile(c, f) = "compat" : c \in {"compat", "strict", "other"}, f \in BOOLEAN}]

\* The event of a kind, with what the folds look at.
Event(kind, index, token) ==
    [kind |-> kind, index |-> index, token |-> token, content |-> 0, reasoning |-> 0]
Answered(reasoning, content) ==
    [Event("answer", 0, 0) EXCEPT !.content = content, !.reasoning = reasoning]

(***************************************************************************)
(* collect()                                                               *)
(***************************************************************************)
Empty == [text |-> <<>>, reasoning |-> <<>>, outcomes |-> <<>>, calls |-> <<>>, end |-> "open"]

\* The calls are sorted by their index when the stream is over.
Rank(calls, n) == Cardinality({m \in DOMAIN calls : calls[m].index <= calls[n].index})
SortCalls(calls) == [r \in DOMAIN calls |-> calls[CHOOSE n \in DOMAIN calls : Rank(calls, n) = r]]

Present(token) == IF token > 0 THEN <<token>> ELSE <<>>

\* Mutant: the last fragment replaces what a call has.
ExtendLast(calls, e) ==
    [n \in DOMAIN calls |->
        IF calls[n].index = e.index THEN [calls[n] EXCEPT !.body = <<e.token>>] ELSE calls[n]]

Extend(calls, e) ==
    [n \in DOMAIN calls |->
        IF calls[n].index = e.index THEN [calls[n] EXCEPT !.body = Append(@, e.token)] ELSE calls[n]]

Collect(r, e) ==
    CASE e.kind = "member"    -> [r EXCEPT !.outcomes = Append(@, e.token)]
      [] e.kind = "answer"    -> [r EXCEPT !.text = @ \o Present(e.content),
                                           !.reasoning = @ \o Present(e.reasoning)]
      [] e.kind = "tool"      -> [r EXCEPT !.calls = Append(@, [index |-> e.index, body |-> <<>>])]
      [] e.kind = "arguments" -> [r EXCEPT !.calls = Extend(@, e)]
      [] e.kind \in {"completed", "cut"} -> [r EXCEPT !.calls = SortCalls(@), !.end = e.kind]
      [] e.kind = "failed"    -> [r EXCEPT !.end = "raised"]
      [] OTHER                -> r

(***************************************************************************)
(* Every surface folds the same event.                                     *)
(***************************************************************************)
Fold(e) ==
    /\ chat' = ChatFold(chat, e, o)
    /\ responses' = ResponsesFold(responses, e, o)
    /\ anthropic' = AnthropicFold(anthropic, e, o)
    /\ result' = Collect(result, e)

SurfacesInit ==
    /\ o \in Options
    /\ stage = "start" /\ said = 0 /\ pieces = 0
    /\ chat = ChatStart(o)
    /\ responses = ResponsesStart(o)
    /\ anthropic = AnthropicStart(o)
    /\ result = Empty

\* Every member is announced as it is started.
FanOut ==
    /\ stage = "start" /\ Members > 0
    /\ stage' = "panel"
    /\ Fold(Event("fanout_started", 0, 0))
    /\ UNCHANGED <<o, said, pieces>>

\* A passthrough or relay turn, or a panel with nobody to ask.
SkipFanOut ==
    /\ stage = "start"
    /\ stage' = "panel" /\ said' = Members
    /\ Fold(Event("fanout_skipped", 0, 0))
    /\ UNCHANGED <<o, pieces>>

MemberDone ==
    /\ stage = "panel" /\ said < Members
    /\ said' = said + 1
    /\ \/ Fold(Event("member", 0, 200 + said))
       \/ Fold(Event("abandoned", 0, 0))
    /\ UNCHANGED <<o, stage, pieces>>

Synthesis ==
    /\ stage = "panel" /\ said = Members
    /\ stage' = "answer"
    /\ Fold(Event("synthesis", 0, 0))
    /\ UNCHANGED <<o, said, pieces>>

Piece ==
    /\ stage = "answer" /\ pieces < MaxPieces
    /\ pieces' = pieces + 1
    /\ UNCHANGED <<o, stage, said>>

Token == pieces + 1

AnswerDelta ==
    /\ Piece
    /\ \E reasoning, content \in {0, Token} : Fold(Answered(reasoning, content))

Opened == {result.calls[n].index : n \in DOMAIN result.calls}

\* The first fragment of an index starts a call, under an id of the gateway's.
ToolCallStarted ==
    /\ Piece
    /\ \E i \in Calls \ Opened : Fold(Event("tool", i, Token))

ToolCallDelta ==
    /\ Piece
    /\ \E i \in Opened : Fold(Event("arguments", i, Token))

Over ==
    /\ stage' = "over"
    /\ UNCHANGED <<o, said, pieces>>

Completed ==
    /\ stage = "answer" /\ Over
    /\ Fold(Event("completed", 0, 0))

PipelineFailed ==
    /\ stage # "over" /\ Over
    /\ Fold(Event("failed", 0, 0))

\* The run was cancelled: its subscribers get the sentinel and no last event.
Cut ==
    /\ stage # "over" /\ Over
    /\ Fold(Event("cut", 0, 0))

SurfacesNext ==
    \/ FanOut \/ SkipFanOut \/ MemberDone \/ Synthesis
    \/ AnswerDelta \/ ToolCallStarted \/ ToolCallDelta
    \/ Completed \/ PipelineFailed \/ Cut

SurfacesSpec == SurfacesInit /\ [][SurfacesNext]_surfaceVars

(***************************************************************************)
(* Properties                                                              *)
(***************************************************************************)
\* A surface's frames of some kinds with some indices, in the order they were
\* sent, and what they said.
Sending(out, kinds, at) ==
    LET sent[n \in 0..Len(out)] ==
            IF n = 0 THEN <<>>
            ELSE IF out[n][1] \in kinds /\ out[n][2] \in at THEN Append(sent[n - 1], out[n])
            ELSE sent[n - 1]
    IN  sent
Sent(out, kinds, at) == Sending(out, kinds, at)[Len(out)]
Tokens(out, kinds, at) ==
    LET s == Sent(out, kinds, at) IN [n \in DOMAIN s |-> s[n][3]]

\* What the items of a type say one after the other.
Saying(items, type) ==
    LET spoken[n \in 0..Len(items)] ==
            IF n = 0 THEN <<>>
            ELSE IF items[n].type = type THEN spoken[n - 1] \o items[n].body
            ELSE spoken[n - 1]
    IN  spoken
Said(items, type) == Saying(items, type)[Len(items)]

Count(out, n, kind) == Cardinality({m \in 1..n : out[m][1] = kind})

IsLast(out, kinds) == \A n \in DOMAIN out : out[n][1] \in kinds <=> n = Len(out)

\* Chat Completions: the role comes once and before everything but an error
\* and the end of a stream that was cut off; the think block is closed before
\* the answer begins and before the stream ends; a call's deltas follow its
\* header; [DONE] is the last frame and comes once, after one finish or error.
ChatFramed ==
    LET f == chat.out IN
    /\ Count(f, Len(f), "role") <= 1
    /\ \A n \in DOMAIN f :
        /\ f[n][1] \notin {"finish", "error", "[DONE]"} => Count(f, n, "role") = 1
        /\ f[n][1] \in {"content", "reasoning", "tool", "arguments", "arguments+header"} =>
              Count(f, n, "<think>") = Count(f, n, "</think>")
        /\ f[n][1] \in {"arguments", "arguments+header"} =>
              /\ \E m \in 1..n : f[m][1] = "tool" /\ f[m][2] = f[n][2]
              /\ o.compat <=> f[n][1] = "arguments+header"
    /\ Count(f, Len(f), "<think>") =
          Count(f, Len(f), "</think>") + (IF chat.think THEN 1 ELSE 0)
    /\ stage = "over" =>
        /\ ~chat.think /\ IsLast(f, {"[DONE]"})
        /\ Count(f, Len(f), "finish") + Count(f, Len(f), "error") = 1

\* Responses: items are announced at consecutive output indices, grow only
\* while they are open, and are closed once; when the stream is over all of
\* them are closed, each is in the output once with what its deltas said.
ItemsClosed ==
    LET f == responses.out
        frames(kind, at) == {n \in DOMAIN f : f[n][1] = kind /\ f[n][2] = at}
    IN  /\ \A at \in 1..(responses.next - 1) :
            /\ Cardinality(frames("added", at)) = 1 /\ Cardinality(frames("done", at)) <= 1
            /\ \A d \in frames("delta", at) :
                  (\A a \in frames("added", at) : a < d) /\ (\A z \in frames("done", at) : d < z)
        /\ \A n \in DOMAIN f : f[n][1] \in {"added", "delta", "done"} => f[n][2] < responses.next
        /\ stage = "over" =>
            /\ \A at \in 1..(responses.next - 1) : Cardinality(frames("done", at)) = 1
            /\ {item.at : item \in {responses.output[n] : n \in DOMAIN responses.output}}
                  = 1..(responses.next - 1)
            /\ Len(responses.output) = responses.next - 1
            /\ \A n \in DOMAIN responses.output :
                  responses.output[n].body = Tokens(f, {"delta"}, {responses.output[n].at})
            /\ IsLast(f, {"completed", "failed"})

\* Anthropic: blocks are started at consecutive indices, one at a time, and
\* stopped once; text and thinking go to the open block; a thinking block, and
\* no other, is signed, right before it is stopped.
BlocksBracketed ==
    LET f == anthropic.out
        open(n) == {at \in 1..(anthropic.next - 1) :
                       /\ \E m \in 1..n : f[m][1] = "start" /\ f[m][2] = at
                       /\ ~\E m \in 1..n : f[m][1] = "stop" /\ f[m][2] = at}
    IN  /\ Count(f, Len(f), "start") = anthropic.next - 1
        /\ open(Len(f)) = IF anthropic.open = 0 THEN {} ELSE {anthropic.open}
        /\ \A n \in DOMAIN f :
            /\ Cardinality(open(n)) <= 1
            /\ f[n][1] \in {"text", "thinking", "signature"} => f[n][2] \in open(n)
            /\ f[n][1] = "signature" => n < Len(f) /\ f[n + 1] = <<"stop", f[n][2], 0>>
            /\ f[n][1] = "stop" =>
                  (f[n - 1][1] = "signature" <=> f[n][2] = anthropic.thinking)
        /\ stage = "over" => anthropic.open = 0 /\ IsLast(f, {"message_stop", "error"})

\* The deltas of a call, and the frames of the think block and of the text.
Deltas == {"arguments", "arguments+header"}
Opening == {"<think>", "progress", "notices", "line", "</think>", "content"}

\* The parts of the answer that the streams and collect() have in common at any
\* time: the text, the arguments of the calls, the reasoning, of which Anthropic
\* shows what came before the answer began; and what the Responses stream and
\* the think block have said of the text and the calls when the run is over.
SameSoFar ==
    LET spoken(out, kinds) == Tokens(out, kinds, Nat)
        thought == spoken(anthropic.out, {"thinking"})
        notices == IF o.notices THEN <<NoticeToken>> ELSE <<>>
        calls(items, type) == {<<items[n].index, items[n].body>> :
                                  n \in {m \in DOMAIN items : items[m].type = type}}
    IN  /\ spoken(chat.out, {"content"}) = result.text
        /\ spoken(chat.out, {"reasoning"}) = result.reasoning
        /\ spoken(anthropic.out, {"text"}) = result.text
        /\ \E n \in 0..Len(result.reasoning) : thought = notices \o SubSeq(result.reasoning, 1, n)
        /\ \A n \in DOMAIN result.calls :
              LET call == result.calls[n]
              IN  /\ Tokens(chat.out, Deltas, {call.index}) = call.body
                  /\ \E b \in DOMAIN anthropic.blocks :
                        /\ anthropic.blocks[b].index = call.index
                        /\ Tokens(anthropic.out, {"json"}, {anthropic.blocks[b].at}) = call.body
        /\ stage = "over" /\ result.end # "raised" =>
            /\ Said(responses.output, "message") = result.text
            /\ calls(responses.output, "function_call") =
                  calls(BuildResponse(result, o), "function_call")
            /\ (o.inline => o.notices \/ result.outcomes # <<>>) =>
                  Sent(chat.out, Opening, Nat) = BuildCompletion(result, o)

\* A stream announces the members before any of them has answered; if none does
\* and there are no notices, the answer without a stream does not mention them.
Announced(r, dumped, p) ==
    IF p.inline /\ ~p.notices /\ r.outcomes = <<>> /\ dumped THEN <<ProgressToken>> ELSE <<>>

\* The object a Responses client gets without a stream says what the stream said:
\* the text, and the members' part followed by the reasoning of the answer.
SameResponse(output, dumped, r, p) ==
    LET object == BuildResponse(r, p)
    IN  /\ Said(output, "message") = Said(object, "message")
        /\ Said(output, "reasoning") = Announced(r, dumped, p) \o Said(object, "reasoning")

\* The message an Anthropic client gets without a stream has the text and the
\* calls of the stream's blocks, and the thinking the stream's began with: the
\* notices, for the reasoning of the answer is in the stream only.
SameMessage(out, blocks, r, p) ==
    LET message == BuildMessage(r, p)
        thinking == Said(message, "thinking")
    IN  /\ Tokens(out, {"text"}, Nat) = Said(message, "text")
        /\ \E n \in 0..Len(r.reasoning) :
              Tokens(out, {"thinking"}, Nat) = thinking \o SubSeq(r.reasoning, 1, n)
        /\ {<<blocks[b].index, Tokens(out, {"json"}, {blocks[b].at})>> : b \in DOMAIN blocks} =
              {<<message[n].index, message[n].body>> :
                  n \in {m \in DOMAIN message : message[m].type = "tool_use"}}

\* Whatever surface a client uses, with a stream or without, it gets the same
\* answer: the same text, the same calls with the same arguments, and the same
\* reasoning in the same order, but for what Anthropic leaves out of it. The
\* order of items of different kinds is not compared: a provider may mix them,
\* and without a stream they are sorted by kind.
SurfacesAgree ==
    /\ SameSoFar
    /\ stage = "over" /\ result.end # "raised" =>
        /\ SameResponse(responses.output, responses.dumped, result, o)
        /\ SameMessage(anthropic.out, anthropic.blocks, result, o)

(***************************************************************************)
(* What the proofs of ChatFramed and BlocksBracketed carry from event to   *)
(* event: the stream so far, and what the encoder remembers of it.         *)
(***************************************************************************)
ChatKinds ==
    {"role", "<think>", "progress", "notices", "line", "</think>", "content", "reasoning", "tool",
     "arguments", "arguments+header", "finish", "usage", "error", "[DONE]"}
ChatFrames == ChatKinds \X Nat \X Nat

\* What ChatFramed says of the frame at a place of the stream.
ChatFits(f, n, compat) ==
    /\ f[n][1] \notin {"finish", "error", "[DONE]"} => Count(f, n, "role") = 1
    /\ f[n][1] \in {"content", "reasoning", "tool", "arguments", "arguments+header"} =>
          Count(f, n, "<think>") = Count(f, n, "</think>")
    /\ f[n][1] \in {"arguments", "arguments+header"} =>
          /\ \E m \in 1..n : f[m][1] = "tool" /\ f[m][2] = f[n][2]
          /\ compat <=> f[n][1] = "arguments+header"

\* A stream that has not had its [DONE], with its role, whether its think block
\* is open, the calls it has announced, and how many finishes and errors it had.
ChatSent(f, role, think, headers, ends, compat) ==
    /\ f \in Seq(ChatFrames)
    /\ Count(f, Len(f), "role") = IF role THEN 1 ELSE 0
    /\ Count(f, Len(f), "<think>") = Count(f, Len(f), "</think>") + (IF think THEN 1 ELSE 0)
    /\ Count(f, Len(f), "finish") + Count(f, Len(f), "error") = ends
    /\ \A n \in DOMAIN f : f[n][1] # "[DONE]" /\ ChatFits(f, n, compat)
    /\ \A i \in headers : \E m \in DOMAIN f : f[m][1] = "tool" /\ f[m][2] = i
    /\ think \/ headers # {} => role

ChatStreams == [role : BOOLEAN, think : BOOLEAN, headers : SUBSET Nat, out : Seq(ChatFrames)]
ChatGood(s, compat) ==
    s \in ChatStreams /\ ChatSent(s.out, s.role, s.think, s.headers, 0, compat)

\* A stream that has ended.
ChatEnded(f, compat) ==
    /\ f \in Seq(ChatFrames)
    /\ Count(f, Len(f), "role") <= 1
    /\ Count(f, Len(f), "<think>") = Count(f, Len(f), "</think>")
    /\ Count(f, Len(f), "finish") + Count(f, Len(f), "error") = 1
    /\ IsLast(f, {"[DONE]"})
    /\ \A n \in DOMAIN f : ChatFits(f, n, compat)

BlockKinds ==
    {"message_start", "start", "text", "thinking", "json", "signature", "stop", "message_delta",
     "message_stop", "error"}
BlockFrames == BlockKinds \X Nat \X Nat

\* The blocks before the next one that are open after so many frames.
OpenAfter(f, n, next) ==
    {at \in 1..(next - 1) : /\ \E m \in 1..n : f[m][1] = "start" /\ f[m][2] = at
                            /\ ~\E m \in 1..n : f[m][1] = "stop" /\ f[m][2] = at}

BlockFits(f, n, next, thinking) ==
    /\ \E at \in 0..(next - 1) : OpenAfter(f, n, next) = {at} \ {0}
    /\ f[n][1] \in {"text", "thinking", "signature"} => f[n][2] \in OpenAfter(f, n, next)
    /\ f[n][1] = "stop" => n # 1 /\ (f[n - 1][1] = "signature" <=> f[n][2] = thinking)
    /\ f[n][1] \in {"start", "stop"} => f[n][2] \in 1..(next - 1)

\* A stream of blocks; the last frame may be a signature whose stop is to come.
BlocksSent(f, next, open, thinking, signed) ==
    /\ f \in Seq(BlockFrames) /\ f # <<>>
    /\ next \in Nat \ {0} /\ open \in 0..(next - 1) /\ thinking \in 0..(next - 1)
    /\ Count(f, Len(f), "start") = next - 1
    /\ OpenAfter(f, Len(f), next) = {open} \ {0}
    /\ \A n \in DOMAIN f : BlockFits(f, n, next, thinking)
    /\ \A n \in DOMAIN f : f[n][1] = "signature" =>
          \/ n < Len(f) /\ f[n + 1] = <<"stop", f[n][2], 0>>
          \/ n = Len(f) /\ f[n][2] = open
    /\ signed <=> f[Len(f)][1] = "signature"

\* Until the answer begins only the thinking block can be open, and the text
\* that goes on goes on in the open block.
BlockStreams ==
    [next : Nat, open : Nat, thinking : Nat, thinkingDone : BOOLEAN, text : Nat,
     blocks : Seq([index : Nat, at : Nat]), out : Seq(BlockFrames)]
Unended(f) == \A n \in DOMAIN f : f[n][1] \notin {"message_stop", "error"}
BlocksGood(s) ==
    /\ s \in BlockStreams
    /\ BlocksSent(s.out, s.next, s.open, s.thinking, FALSE) /\ Unended(s.out)
    /\ ~s.thinkingDone => s.open = s.thinking /\ s.text = 0
    /\ s.text # 0 => s.text = s.open /\ s.text # s.thinking

CallRecords == [index : Nat, body : Seq(Nat)]
Results ==
    [text : Seq(Nat), reasoning : Seq(Nat), outcomes : Seq(Nat), calls : Seq(CallRecords),
     end : {"open"}]

\* While the run goes on.
IInv ==
    /\ o \in Options /\ stage \in {"start", "panel", "answer", "over"}
    /\ said \in Nat /\ pieces \in Nat
    /\ stage # "over" =>
        /\ result \in Results
        /\ ChatGood(chat, o.compat) /\ chat.headers = Opened /\ (stage = "answer" => ~chat.think)
        /\ BlocksGood(anthropic)
    /\ stage = "over" =>
        /\ ~chat.think /\ ChatEnded(chat.out, o.compat)
        /\ BlocksSent(anthropic.out, anthropic.next, 0, anthropic.thinking, FALSE)
        /\ anthropic.open = 0 /\ IsLast(anthropic.out, {"message_stop", "error"})

(***************************************************************************)
(* What the proofs of ItemsClosed and SurfacesAgree carry: what each       *)
(* surface has sent, against what collect() has gathered by then.          *)
(***************************************************************************)
ItemKinds == {"created", "in_progress", "added", "delta", "done", "completed", "failed"}
ItemFrames == ItemKinds \X Nat \X Nat
ItemRecords ==
    [at : Nat, type : {"none", "reasoning", "message", "function_call"}, index : Nat, body : Seq(Nat)]
Elements(items) == {items[n] : n \in DOMAIN items}

Is(frame, kind, at) == frame[1] = kind /\ frame[2] = at

\* An item was announced once, before its deltas, which say what its body is,
\* and closed after them or not at all.
ItemSent(f, at, body, closed) ==
    /\ \E a \in DOMAIN f : \A n \in DOMAIN f :
          (Is(f[n], "added", at) <=> n = a) /\ (Is(f[n], "delta", at) => a < n)
    /\ body = Tokens(f, {"delta"}, {at})
    /\ ~closed => \A n \in DOMAIN f : ~Is(f[n], "done", at)
    /\ closed => \E z \in DOMAIN f : \A n \in DOMAIN f :
          (Is(f[n], "done", at) <=> n = z) /\ (Is(f[n], "delta", at) => n < z)

\* A stream of items that has not ended: the open and the closed ones have
\* taken the output indices before the next, each its own.
ItemsSent(f, next, open, closed) ==
    /\ f \in Seq(ItemFrames) /\ next \in Nat \ {0}
    /\ open \subseteq ItemRecords /\ closed \subseteq ItemRecords
    /\ \A n \in DOMAIN f :
          /\ f[n][1] \notin {"completed", "failed"}
          /\ f[n][1] \in {"added", "delta", "done"} => f[n][2] \in 1..(next - 1)
    /\ \A i \in open : ItemSent(f, i.at, i.body, FALSE)
    /\ \A i \in closed : ItemSent(f, i.at, i.body, TRUE)
    /\ {i.at : i \in open \cup closed} = 1..(next - 1)
    /\ \A i, j \in open \cup closed : i.at = j.at => i = j

ItemStreams ==
    [next : Nat, reasoning : ItemRecords, text : ItemRecords, tools : Seq(ItemRecords),
     output : Seq(ItemRecords), dumped : BOOLEAN, out : Seq(ItemFrames)]
Slots(s) == {s.reasoning, s.text} \ {NoItem}
Held(item) == IF item = NoItem THEN 0 ELSE 1
ItemsGood(s) ==
    /\ s \in ItemStreams
    /\ ItemsSent(s.out, s.next, Slots(s) \cup Elements(s.tools), Elements(s.output))
    /\ Len(s.tools) + Len(s.output) + Held(s.reasoning) + Held(s.text) = s.next - 1
    /\ s.reasoning = NoItem \/ s.reasoning.type = "reasoning"
    /\ s.text = NoItem \/ s.text.type = "message"
    /\ \A n \in DOMAIN s.tools : s.tools[n].type = "function_call"
    /\ \A m, n \in DOMAIN s.tools : s.tools[m].at = s.tools[n].at => m = n

ItemsEnded(s) ==
    /\ s.next \in Nat \ {0} /\ s.out \in Seq(ItemFrames) /\ s.output \in Seq(ItemRecords)
    /\ \A n \in DOMAIN s.out : s.out[n][1] \in {"added", "delta", "done"} => s.out[n][2] \in 1..(s.next - 1)
    /\ \A i \in Elements(s.output) : ItemSent(s.out, i.at, i.body, TRUE)
    /\ {i.at : i \in Elements(s.output)} = 1..(s.next - 1)
    /\ Len(s.output) = s.next - 1
    /\ IsLast(s.out, {"completed", "failed"})

\* The lines of the members in the think block, its first frames, and the frames
\* of a text.
Lines(outcomes, p) == IF p.inline THEN [n \in 1..Len(outcomes) |-> <<"line", 0, outcomes[n]>>] ELSE <<>>
Preamble(p) == <<Frame("<think>"), Frame("progress")>> \o (IF p.notices THEN <<Frame("notices")>> ELSE <<>>)
Contents(text) == [n \in 1..Len(text) |-> <<"content", 0, text[n]>>]

\* What was seen of the think block and of the text, which comes after it, while
\* the block is open, and when it is not: there was none, or it was closed.
OpenSeen(seen, text, outcomes, p) ==
    /\ (p.notices \/ p.inline) /\ text = <<>>
    /\ seen = Preamble(p) \o Lines(outcomes, p)
ClosedSeen(seen, text, outcomes, p, at) ==
    /\ at \in {"start", "panel"} => text = <<>>
    /\ \/ /\ ~p.notices /\ Lines(outcomes, p) = <<>>
          /\ seen = Contents(text)
       \/ /\ (p.notices \/ p.inline) /\ at \notin {"start", "panel"}
          /\ seen = ((Preamble(p) \o Lines(outcomes, p)) \o <<Frame("</think>")>>) \o Contents(text)

ChatSaw(f, text, reasoning, calls, headers, seen) ==
    /\ Tokens(f, {"content"}, Nat) = text
    /\ Tokens(f, {"reasoning"}, Nat) = reasoning
    /\ \A n \in DOMAIN calls : Tokens(f, Deltas, {calls[n].index}) = calls[n].body
    /\ \A i \in Nat \ headers : Tokens(f, Deltas, {i}) = <<>>
    /\ Sent(f, Opening, Nat) = seen

ChatShows(s, text, reasoning, calls, outcomes, p, at) ==
    LET seen == Sent(s.out, Opening, Nat)
    IN  /\ ChatSaw(s.out, text, reasoning, calls, s.headers, seen)
        /\ s.think => OpenSeen(seen, text, outcomes, p)
        /\ ~s.think => ClosedSeen(seen, text, outcomes, p, at)

\* What the blocks of an answer say, and where the calls have theirs.
BlocksSaw(f, text, thought, blocks, next, calls) ==
    /\ Tokens(f, {"text"}, Nat) = text
    /\ Tokens(f, {"thinking"}, Nat) = thought
    /\ Len(blocks) = Len(calls)
    /\ \A n \in DOMAIN blocks :
          /\ blocks[n].index = calls[n].index /\ blocks[n].at < next
          /\ Tokens(f, {"json"}, {blocks[n].at}) = calls[n].body
    /\ \A m, n \in DOMAIN blocks : blocks[m].at = blocks[n].at => m = n
    /\ \A n \in DOMAIN f : f[n][2] < next

\* The reasoning is shown after the notices: all of it, or what came first.
Noticed(p) == IF p.notices THEN <<NoticeToken>> ELSE <<>>
ThoughtWhole(thought, reasoning, p) == thought = Noticed(p) \o reasoning
ThoughtPart(thought, reasoning, p) ==
    \E n \in 0..Len(reasoning) : thought = Noticed(p) \o SubSeq(reasoning, 1, n)

AnthropicShows(s, text, reasoning, calls, p) ==
    LET thought == Tokens(s.out, {"thinking"}, Nat)
    IN  /\ BlocksSaw(s.out, text, thought, s.blocks, s.next, calls)
        /\ ~s.thinkingDone => ThoughtWhole(thought, reasoning, p)
        /\ s.thinkingDone => ThoughtPart(thought, reasoning, p)

ResponsesShow(s, text, calls) ==
    /\ Said(s.output, "message") \o s.text.body = text
    /\ \A n \in DOMAIN s.output : s.output[n].type # "function_call"
    /\ Len(s.tools) = Len(calls)
    /\ \A n \in DOMAIN s.tools :
          s.tools[n].index = calls[n].index /\ s.tools[n].body = calls[n].body

Agreement ==
    /\ stage # "over" =>
        /\ ItemsGood(responses)
        /\ ChatShows(chat, result.text, result.reasoning, result.calls, result.outcomes, o, stage)
        /\ AnthropicShows(anthropic, result.text, result.reasoning, result.calls, o)
        /\ ResponsesShow(responses, result.text, result.calls)
        /\ \A m, n \in DOMAIN result.calls : result.calls[m].index = result.calls[n].index => m = n
    /\ stage = "over" => ItemsEnded(responses) /\ SameSoFar

\* What the reasoning items of a Responses stream have said: the members' part,
\* and after it the reasoning of the answer, which comes when that is complete.
Preface(dumped, outcomes, p) ==
    (IF dumped THEN <<ProgressToken>> ELSE <<>>)
    \o (IF p.notices THEN <<NoticesToken>> ELSE <<>>)
    \o (IF p.inline THEN outcomes ELSE <<>>)

Thoughts(s, reasoning, outcomes, p, at) ==
    /\ Said(s.output, "reasoning") \o s.reasoning.body = Preface(s.dumped, outcomes, p) \o reasoning
    /\ at \in {"start", "panel"} => reasoning = <<>>
    /\ p.notices \/ (p.inline /\ outcomes # <<>>) => s.dumped
    /\ s.dumped => p.notices \/ p.inline

Reasoned ==
    /\ stage # "over" => Thoughts(responses, result.reasoning, result.outcomes, o, stage)
    /\ stage = "over" => SurfacesAgree
=============================================================================
