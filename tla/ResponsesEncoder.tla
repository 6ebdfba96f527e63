-------------------------- MODULE ResponsesEncoder --------------------------
(***************************************************************************)
(* api/encoders/responses.py: the fold of a run's events into the items of *)
(* a Responses stream, and the object of a request without a stream.  An   *)
(* item is announced ("added") at an output index, grows by deltas and is  *)
(* closed once ("done"; its three closing frames are one here).  Frames    *)
(* are <<kind, output index, token>>; the sequence number of a frame is    *)
(* its position.                                                           *)
(***************************************************************************)
EXTENDS Naturals, Sequences

NoItem == [at |-> 0, type |-> "none", index |-> 0, body |-> <<>>]
Item(at, type, index) == [at |-> at, type |-> type, index |-> index, body |-> <<>>]

Say(s, frames) == [s EXCEPT !.out = @ \o frames]

ResponsesFrame(kind) == <<kind, 0, 0>>

\* An item is closed at most once: it leaves its slot for the output.
CloseItem(s, item) ==
    [Say(s, <<<<"done", item.at, 0>>>>) EXCEPT !.output = Append(@, item)]

CloseReasoning(s) ==
    IF s.reasoning = NoItem THEN s
    ELSE [CloseItem(s, s.reasoning) EXCEPT !.reasoning = NoItem]

CloseText(s) ==
    IF s.text = NoItem THEN s
    ELSE [CloseItem(s, s.text) EXCEPT !.text = NoItem]

\* Every tool item is closed at the end, in the order they were opened.
FinalizeTools(s) ==
    [Say(s, [n \in 1..Len(s.tools) |-> <<"done", s.tools[n].at, 0>>])
        EXCEPT !.output = @ \o s.tools, !.tools = <<>>]

\* The next output index is taken by the item that is announced.
Added(s, type, token) ==
    [Say(s, <<<<"added", s.next, token>>>>) EXCEPT !.next = @ + 1]

ReasoningDelta(s, token) ==
    LET t == IF s.reasoning # NoItem THEN s
             ELSE [Added(s, "reasoning", 0) EXCEPT !.reasoning = Item(s.next, "reasoning", 0)]
    IN [Say(t, <<<<"delta", t.reasoning.at, token>>>>) EXCEPT !.reasoning.body = Append(@, token)]

TextDelta(s, token) ==
    LET c == CloseReasoning(s)
        t == IF c.text # NoItem THEN c
             ELSE [Added(c, "message", 0) EXCEPT !.text = Item(c.next, "message", 0)]
    IN [Say(t, <<<<"delta", t.text.at, token>>>>) EXCEPT !.text.body = Append(@, token)]

\* The tokens of the preamble and of the notices.
ProgressToken == 101
NoticesToken == 102

OpenMemberDump(s) ==
    IF s.dumped THEN s ELSE [ReasoningDelta(s, ProgressToken) EXCEPT !.dumped = TRUE]

ResponsesStart(o) ==
    LET s == [next |-> 1, reasoning |-> NoItem, text |-> NoItem, tools |-> <<>>, output |-> <<>>,
              dumped |-> FALSE,
              out |-> <<ResponsesFrame("created"), ResponsesFrame("in_progress")>>]
    IN IF o.notices THEN ReasoningDelta(OpenMemberDump(s), NoticesToken) ELSE s

ToolAdded(s, e) ==
    LET t == CloseText(CloseReasoning(s))
    IN [Added(t, "function_call", e.token)
           EXCEPT !.tools = Append(@, Item(t.next, "function_call", e.index))]

\* A delta of a call that was never announced is dropped.
ToolArguments(s, e) ==
    LET mine == {n \in 1..Len(s.tools) : s.tools[n].index = e.index}
    IN IF mine = {} THEN s
       ELSE LET n == CHOOSE k \in mine : TRUE
            IN [Say(s, <<<<"delta", s.tools[n].at, e.token>>>>)
                   EXCEPT !.tools[n].body = Append(@, e.token)]

\* Mutant: of a chunk with reasoning and text only the text is passed on.
AnswerItemsTextOnly(s, e) ==
    IF e.content > 0 THEN TextDelta(s, e.content)
    ELSE IF e.reasoning > 0 THEN ReasoningDelta(s, e.reasoning) ELSE s

AnswerItems(s, e) ==
    LET t == IF e.reasoning > 0 THEN ReasoningDelta(s, e.reasoning) ELSE s
    IN IF e.content > 0 THEN TextDelta(t, e.content) ELSE t

\* Mutant: the items of the calls are left open.
CloseAllButTools(s) == CloseText(CloseReasoning(s))

CloseAll(s) == FinalizeTools(CloseText(CloseReasoning(s)))

\* A stream that was cut off without a terminal event is completed as well.
ResponsesFold(s, e, o) ==
    CASE e.kind = "fanout_started" -> IF o.inline THEN OpenMemberDump(s) ELSE s
      [] e.kind = "member"    -> IF o.inline THEN ReasoningDelta(OpenMemberDump(s), e.token) ELSE s
      [] e.kind = "synthesis" -> CloseReasoning(s)
      [] e.kind = "answer"    -> AnswerItems(s, e)
      [] e.kind = "tool"      -> ToolAdded(s, e)
      [] e.kind = "arguments" -> ToolArguments(s, e)
      [] e.kind \in {"completed", "cut"} -> Say(CloseAll(s), <<ResponsesFrame("completed")>>)
      [] e.kind = "failed"    -> Say(CloseAll(s), <<ResponsesFrame("failed")>>)
      [] OTHER                -> s

(***************************************************************************)
(* Without a stream (build_response): what the members said, the reasoning,*)
(* the text and the calls, each an item of its own and only if there is    *)
(* any.                                                                    *)
(***************************************************************************)
BuildResponse(r, o) ==
    LET outcomes == IF o.inline THEN r.outcomes ELSE <<>>
        said == <<ProgressToken>> \o (IF o.notices THEN <<NoticesToken>> ELSE <<>>) \o outcomes
        If(cond, type, body) == IF cond THEN <<[type |-> type, index |-> 0, body |-> body]>> ELSE <<>>
    IN If(outcomes # <<>> \/ o.notices, "reasoning", said)
       \o If(r.reasoning # <<>>, "reasoning", r.reasoning)
       \o If(r.text # <<>>, "message", r.text)
       \o [n \in 1..Len(r.calls) |->
             [type |-> "function_call", index |-> r.calls[n].index, body |-> r.calls[n].body]]
=============================================================================
