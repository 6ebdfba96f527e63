---------------------------- MODULE ChatEncoder ----------------------------
(***************************************************************************)
(* api/encoders/chat.py: the fold of a run's events into the frames of a   *)
(* Chat Completions stream, and the message a request without a stream     *)
(* gets.  A frame is <<kind, index, token>>: the index is that of a tool   *)
(* call, the token stands for a piece of text.  The wording of a frame is  *)
(* left out.  o is the record of a request's options: inline (show_work),  *)
(* notices (the plan has some), compat (the stream profile), usage         *)
(* (include_usage).                                                        *)
(***************************************************************************)
EXTENDS Naturals, Sequences

\* A client known to need it gets compat, whatever is configured; so does a
\* profile that is neither (resolve_stream_profile).
StreamProfile(configured, fragileClient) ==
    IF ~fragileClient /\ configured = "strict" THEN "strict" ELSE "compat"

Frame(kind) == <<kind, 0, 0>>

ChatSay(s, frames) == [s EXCEPT !.out = @ \o frames]

OpenRole(s) ==
    IF s.role THEN s ELSE [ChatSay(s, <<Frame("role")>>) EXCEPT !.role = TRUE]

\* The preamble of the think block, once: safe to ask for at every event.
OpenThink(s, o) ==
    IF s.think THEN s
    ELSE [ChatSay(s, <<Frame("<think>"), Frame("progress")>>
                     \o (IF o.notices THEN <<Frame("notices")>> ELSE <<>>))
             EXCEPT !.think = TRUE]

CloseThink(s) ==
    IF s.think THEN [ChatSay(s, <<Frame("</think>")>>) EXCEPT !.think = FALSE] ELSE s

\* Notices open the block before the first event, whatever show_work says.
ChatStart(o) ==
    LET s == [role |-> FALSE, think |-> FALSE, headers |-> {}, out |-> <<>>]
    IN IF o.notices THEN OpenThink(OpenRole(s), o) ELSE s

\* Mutant: the answer begins inside the block.
SynthesisUnseen(s) == s

\* Synthesis, or the choice of a member's call, ends the members' work.
SynthesisSeen(s) == CloseThink(s)

AnswerFrames(e) ==
    (IF e.reasoning > 0 THEN <<<<"reasoning", 0, e.reasoning>>>> ELSE <<>>)
    \o (IF e.content > 0 THEN <<<<"content", 0, e.content>>>> ELSE <<>>)

ChatFinish(s, o) ==
    ChatSay(OpenRole(CloseThink(s)),
            <<Frame("finish")>> \o (IF o.usage THEN <<Frame("usage")>> ELSE <<>>)
                                \o <<Frame("[DONE]")>>)

ChatFail(s) == ChatSay(CloseThink(s), <<Frame("error"), Frame("[DONE]")>>)

\* The stream ended without a terminal event: one is made up, with no role.
ChatCut(s) == ChatSay(CloseThink(s), <<Frame("finish"), Frame("[DONE]")>>)

\* In the compat profile a call's header is repeated on each of its deltas.
ArgumentsKind(s, e, o) ==
    IF o.compat /\ e.index \in s.headers THEN "arguments+header" ELSE "arguments"

ChatFold(s, e, o) ==
    CASE e.kind = "fanout_started" -> IF o.inline THEN OpenThink(OpenRole(s), o) ELSE s
      [] e.kind = "member" ->
            IF o.inline THEN ChatSay(OpenThink(OpenRole(s), o), <<<<"line", 0, e.token>>>>) ELSE s
      [] e.kind = "synthesis" -> SynthesisSeen(s)
      [] e.kind = "answer"    -> ChatSay(OpenRole(s), AnswerFrames(e))
      [] e.kind = "tool"      -> [ChatSay(OpenRole(s), <<<<"tool", e.index, e.token>>>>)
                                     EXCEPT !.headers = @ \cup {e.index}]
      [] e.kind = "arguments" -> ChatSay(s, <<<<ArgumentsKind(s, e, o), e.index, e.token>>>>)
      [] e.kind = "completed" -> ChatFinish(s, o)
      [] e.kind = "failed"    -> ChatFail(s)
      [] e.kind = "cut"       -> ChatCut(s)
      [] OTHER                -> s

(***************************************************************************)
(* Without a stream: the think block and the text of a collected result    *)
(* become one content (build_completion, render_think_block).              *)
(***************************************************************************)
ThinkBlock(r, o) ==
    LET lines == IF o.inline THEN [n \in 1..Len(r.outcomes) |-> <<"line", 0, r.outcomes[n]>>] ELSE <<>>
    IN IF lines = <<>> /\ ~o.notices THEN <<>>
       ELSE <<Frame("<think>"), Frame("progress")>>
            \o (IF o.notices THEN <<Frame("notices")>> ELSE <<>>)
            \o lines \o <<Frame("</think>")>>

BuildCompletion(r, o) ==
    ThinkBlock(r, o) \o [n \in 1..Len(r.text) |-> <<"content", 0, r.text[n]>>]
=============================================================================
