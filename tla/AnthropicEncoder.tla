-------------------------- MODULE AnthropicEncoder --------------------------
(***************************************************************************)
(* api/encoders/anthropic.py: the fold of a run's events into the content  *)
(* blocks of an Anthropic message stream, and the message of a request     *)
(* without a stream.  Frames are <<kind, block index, token>>; block       *)
(* indices start at 1 here.  What the members said has no place on this    *)
(* surface; notices have.                                                  *)
(***************************************************************************)
EXTENDS Naturals, Sequences

Block(kind, index, token) == <<kind, index, token>>
Put(s, frames) == [s EXCEPT !.out = @ \o frames]
NoticeToken == 102

\* Close the open block, signing it first if it is the thinking block.
CloseOpen(s) ==
    IF s.open = 0 THEN s
    ELSE [Put(s, (IF s.open = s.thinking THEN <<Block("signature", s.open, 0)>> ELSE <<>>)
                 \o <<Block("stop", s.open, 0)>>)
             EXCEPT !.open = 0]

Begin(s, token) ==
    [Put(s, <<Block("start", s.next, token)>>) EXCEPT !.open = s.next, !.next = @ + 1]

Thinking(s, token) ==
    LET t == IF s.thinking # 0 THEN s ELSE [Begin(s, 0) EXCEPT !.thinking = s.next]
    IN Put(t, <<Block("thinking", t.thinking, token)>>)

AnthropicStart(o) ==
    LET s == [next |-> 1, open |-> 0, thinking |-> 0, thinkingDone |-> FALSE, text |-> 0,
              blocks |-> <<>>, out |-> <<Block("message_start", 0, 0)>>]
    IN IF o.notices THEN Thinking(s, NoticeToken) ELSE s

\* Reasoning is shown until the first text or call, and dropped after it.
Reason(s, e) ==
    IF e.reasoning > 0 /\ ~s.thinkingDone /\ s.text = 0 THEN Thinking(s, e.reasoning) ELSE s

Speak(s, e) ==
    IF e.content = 0 THEN s
    ELSE LET t == IF s.text # 0 THEN s
                  ELSE [Begin(CloseOpen(s), 0) EXCEPT !.thinkingDone = TRUE, !.text = s.next]
         IN Put(t, <<Block("text", t.text, e.content)>>)

\* Mutant: text after a call goes on in the block before it.
ToolUseTextKept(s, e) ==
    [Begin(CloseOpen(s), e.token)
        EXCEPT !.thinkingDone = TRUE,
               !.blocks = Append(@, [index |-> e.index, at |-> s.next])]

ToolUse(s, e) ==
    [Begin(CloseOpen(s), e.token)
        EXCEPT !.thinkingDone = TRUE, !.text = 0,
               !.blocks = Append(@, [index |-> e.index, at |-> s.next])]

\* Sent into the block of the call, which may be closed by then.
PartialJson(s, e) ==
    LET mine == {n \in 1..Len(s.blocks) : s.blocks[n].index = e.index}
    IN IF mine = {} THEN s
       ELSE Put(s, <<Block("json", s.blocks[CHOOSE n \in mine : TRUE].at, e.token)>>)

AnthropicFold(s, e, o) ==
    CASE e.kind = "answer"    -> Speak(Reason(s, e), e)
      [] e.kind = "tool"      -> ToolUse(s, e)
      [] e.kind = "arguments" -> PartialJson(s, e)
      [] e.kind \in {"completed", "cut"} ->
            Put(CloseOpen(s), <<Block("message_delta", 0, 0), Block("message_stop", 0, 0)>>)
      [] e.kind = "failed"    -> Put(CloseOpen(s), <<Block("error", 0, 0)>>)
      [] OTHER                -> s

\* Mutant: a message that has calls is given no text.
BuildMessageCallsAlone(r, o) ==
    LET item(type, index, body) == [type |-> type, index |-> index, body |-> body]
    IN (IF o.notices THEN <<item("thinking", 0, <<NoticeToken>>)>> ELSE <<>>)
       \o (IF r.text # <<>> /\ r.calls = <<>> THEN <<item("text", 0, r.text)>> ELSE <<>>)
       \o [n \in 1..Len(r.calls) |-> item("tool_use", r.calls[n].index, r.calls[n].body)]

\* Without a stream (build_message) the reasoning of the answer is left out.
\* The arguments of a call are taken to be the JSON they should be.
BuildMessage(r, o) ==
    LET item(type, index, body) == [type |-> type, index |-> index, body |-> body]
    IN (IF o.notices THEN <<item("thinking", 0, <<NoticeToken>>)>> ELSE <<>>)
       \o (IF r.text # <<>> THEN <<item("text", 0, r.text)>> ELSE <<>>)
       \o [n \in 1..Len(r.calls) |-> item("tool_use", r.calls[n].index, r.calls[n].body)]
=============================================================================
