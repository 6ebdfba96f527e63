-------------------------------- MODULE Wire --------------------------------
(***************************************************************************)
(* From what a client says to the canonical request, for each way it can   *)
(* say it: Chat Completions, Responses, Messages, and the consult tool.    *)
(*                                                                         *)
(* What a client means is [dialect, messages, tools, odd, mcp, effort,     *)
(* search, sampling, args, panel], its messages in the form of             *)
(* Conversation.  A Write operator is the client: it puts the meaning into *)
(* the form of its protocol.  A ToIR operator is the gateway, which makes  *)
(* of that form the request Planning reads.  `odd` is a thing about the    *)
(* request a gateway may not take: "custom" (a tool of a type of its own), *)
(* "role" (a message of a role of its own), "stateful" (it counts on an    *)
(* earlier response), "both" (consult: an ensemble and a panel) or "".     *)
(* Sampling parameters are carried by name.                                *)
(*                                                                         *)
(* Content on the wire is [form, parts]: form is "null", "string" or       *)
(* "parts", a part [type, says], and a string one part.                    *)
(***************************************************************************)
EXTENDS Planning

\* The parts of the types a surface knows; it drops others.
Content(raw, known) ==
    LET read == SelectSeq(raw.parts, LAMBDA p : p.type \in known)
    IN  CASE raw.form = "null"   -> Text(<<>>)
          [] raw.form = "string" -> Text(raw.parts[1].says)
          [] OTHER               -> Multipart([n \in DOMAIN read |-> read[n].says])

FoldedRole(role) == IF role = "developer" THEN "system" ELSE role

NamesOf(tools) == [n \in DOMAIN tools |-> tools[n].name]
OfType(tools, types) == SelectSeq(tools, LAMBDA t : t.type \in types)

IR(messages, tools, mcp, effort, search, written) ==
    [messages |-> messages, tools |-> tools, mcp |-> mcp, effort |-> effort, search |-> search,
     sampling |-> written.sampling, given |-> <<>>]

(***************************************************************************)
(* The client                                                              *)
(***************************************************************************)
Parts(content, text, image) ==
    LET pictured(b) == b.says # <<>> /\ IsImage(Head(b.says))
    IN  [n \in DOMAIN content.blocks |->
            [type |-> IF pictured(content.blocks[n]) THEN image ELSE text, says |-> content.blocks[n].says]]
RawContent(content, text, image) ==
    [form |-> IF content.flat THEN "string" ELSE "parts", parts |-> Parts(content, text, image)]
IsEmpty(content) == content = Text(<<>>)

RawRole(role) == IF role = "system" THEN "developer" ELSE role
OddTool == [type |-> "custom", name |-> "odd"]
RawTools(asked) ==
    [n \in DOMAIN asked.tools |-> [type |-> "function", name |-> asked.tools[n]]]
        \o IF asked.odd = "custom" THEN <<OddTool>> ELSE <<>>

WriteChat(asked) ==
    LET raw(m) == [role |-> IF asked.odd = "role" THEN "function" ELSE RawRole(m.role),
                   content |-> IF m.calls # <<>> /\ IsEmpty(m.content) THEN [form |-> "null", parts |-> <<>>]
                               ELSE RawContent(m.content, "text", "image_url"),
                   calls |-> m.calls, answers |-> m.answers, name |-> m.name]
    IN  [messages |-> [n \in DOMAIN asked.messages |-> raw(asked.messages[n])], tools |-> RawTools(asked),
         reasoning_effort |-> asked.effort, web_search |-> asked.search, sampling |-> asked.sampling]

\* A leading system message goes into the instructions, a reply comes with the
\* reasoning before it, each call is an item, and a lone question is a string.
WriteResponses(asked) ==
    LET led == asked.messages[1].role = "system" /\ asked.messages[1].content.flat
        said(m) == [type |-> "message", role |-> RawRole(m.role),
                    content |-> RawContent(m.content, IF m.role = "assistant" THEN "output_text" ELSE "input_text",
                                           "input_image")]
        items(m) ==
            IF m.role = "tool"
            THEN <<[type |-> "function_call_output", call_id |-> m.answers, output |-> Says(m)]>>
            ELSE (IF m.role = "assistant" THEN <<[type |-> "reasoning", says |-> <<Word("thought")>>]>> ELSE <<>>)
                    \o (IF m.calls # <<>> /\ IsEmpty(m.content) THEN <<>> ELSE <<said(m)>>)
                    \o [c \in DOMAIN m.calls |->
                            [type |-> "function_call", call_id |-> m.calls[c].id, name |-> m.calls[c].tool]]
        rest == IF led THEN Tail(asked.messages) ELSE asked.messages
        lone == Len(rest) = 1 /\ rest[1].role = "user" /\ rest[1].content.flat
        space(t) == [type |-> "namespace", name |-> "space", tools |-> <<t, OddTool>>]
    IN  [instructions |-> IF led THEN Says(asked.messages[1]) ELSE <<>>,
         input |-> IF lone THEN [form |-> "string", says |-> Says(rest[1])]
                   ELSE [form |-> "items", items |-> FlattenSeq([n \in DOMAIN rest |-> items(rest[n])])],
         tools |-> (IF asked.tools = <<>> THEN RawTools(asked)
                    ELSE <<space(RawTools(asked)[1])>> \o Tail(RawTools(asked)))
                        \o (IF asked.search THEN <<[type |-> "web_search", name |-> ""]>> ELSE <<>>)
                        \o (IF asked.mcp THEN <<[type |-> "mcp", name |-> ""]>> ELSE <<>>),
         reasoning_effort |-> IF asked.effort = None THEN "auto" ELSE asked.effort,
         stateful |-> asked.odd = "stateful", sampling |-> asked.sampling]

Limits == "minimal" :> 2048 @@ "low" :> 8192 @@ "medium" :> 16384 @@ "high" :> 32768 @@ "xhigh" :> 65536 @@ "max" :> 65537
RawBlock(type, says, id, tool) == [type |-> type, says |-> says, id |-> id, tool |-> tool]

\* System messages are not among the messages, results and what the user says
\* after them are one message, and a reply comes with the thinking before it.
WriteAnthropic(asked) ==
    LET rules == SelectSeq(asked.messages, LAMBDA m : m.role = "system")
        talk == SelectSeq(asked.messages, LAMBDA m : m.role # "system")
        spoken(m) == LET parts == Parts(m.content, "text", "image")
                     IN  [n \in DOMAIN parts |-> RawBlock(parts[n].type, parts[n].says, "", "")]
        blocks(m) ==
            IF m.role = "tool" THEN <<RawBlock("tool_result", Says(m), m.answers, "")>>
            ELSE (IF m.role = "assistant" THEN <<RawBlock("thinking", <<Word("thought")>>, "", "")>> ELSE <<>>)
                    \o (IF m.role = "assistant" /\ IsEmpty(m.content) THEN <<>> ELSE spoken(m))
                    \o [c \in DOMAIN m.calls |-> RawBlock("tool_use", <<>>, m.calls[c].id, m.calls[c].tool)]
        wrote(m) == [role |-> IF m.role = "tool" THEN "user" ELSE m.role,
                     form |-> IF m.role = "user" /\ m.content.flat THEN "string" ELSE "parts", blocks |-> blocks(m)]
        follows(raw, m) == m.role \in {"tool", "user"} /\ raw # <<>> /\ Last(raw).form = "parts"
                               /\ Last(raw).blocks # <<>> /\ Last(Last(raw).blocks).type = "tool_result"
    IN  [system |-> [n \in DOMAIN rules |-> [type |-> "text", says |-> Says(rules[n])]],
         messages |-> FoldLeft(LAMBDA raw, m :
                          IF follows(raw, m)
                          THEN Append(Front(raw), [Last(raw) EXCEPT !.blocks = @ \o blocks(m)])
                          ELSE Append(raw, wrote(m)), <<>>, talk),
         tools |-> [n \in DOMAIN asked.tools |-> [type |-> "", name |-> asked.tools[n]]]
                       \o (IF asked.odd = "custom" THEN <<OddTool>> ELSE <<>>)
                       \o (IF asked.search THEN <<[type |-> "web_search", name |-> "web_search"]>> ELSE <<>>),
         thinking |-> CASE asked.effort = None   -> None
                        [] asked.effort = "none" -> [type |-> "disabled"]
                        [] OTHER                 -> [type |-> "enabled", budget |-> Limits[asked.effort]],
         sampling |-> asked.sampling]

(***************************************************************************)
(* Chat Completions                                                        *)
(***************************************************************************)
Roles == {"system", "developer", "user", "assistant", "tool"}

ChatTakes(req) == \A n \in DOMAIN req.messages : FoldedRole(req.messages[n].role) \in Roles

ChatMessage(raw) ==
    [Message(FoldedRole(raw.role), Content(raw.content, {"text", "image_url"}))
        EXCEPT !.calls = raw.calls, !.answers = raw.answers, !.name = raw.name]

ChatRequestToIR(req) ==
    IR([n \in DOMAIN req.messages |-> ChatMessage(req.messages[n])],
       NamesOf(OfType(req.tools, {"function"})), FALSE, req.reasoning_effort, req.web_search, req)

(***************************************************************************)
(* Responses                                                               *)
(***************************************************************************)
SupportedToolTypes == {"", "function", "web_search", "web_search_preview"}

\* Of a namespace only functions count.
FlatTools(tools) ==
    FlattenSeq([n \in DOMAIN tools |->
        CASE tools[n].type = "namespace"       -> OfType(tools[n].tools, {"", "function"})
          [] tools[n].type \in {"", "function"} -> <<tools[n]>>
          [] OTHER                             -> <<>>])

ResponsesTakes(req) ==
    /\ ~req.stateful
    /\ \A n \in DOMAIN req.tools : req.tools[n].type \in SupportedToolTypes \cup {"namespace", "mcp"}

ItemMessage(item) ==
    CASE item.type = "message" ->
            <<Message(FoldedRole(item.role),
                      Content(item.content, {"input_text", "output_text", "text", "input_image", "image"}))>>
      [] item.type = "function_call" ->
            <<[Message("assistant", Text(<<>>)) EXCEPT !.calls = <<[id |-> item.call_id, tool |-> item.name]>>]>>
      [] item.type = "function_call_output" ->
            <<[Message("tool", Text(item.output)) EXCEPT !.answers = item.call_id]>>
      [] OTHER -> <<>>

InputMessages(input) ==
    IF input.form = "string" THEN <<User(input.says)>>
    ELSE FlattenSeq([n \in DOMAIN input.items |-> ItemMessage(input.items[n])])

SystemMessage(says) == IF says = <<>> THEN <<>> ELSE <<Message("system", Text(says))>>

ResponsesRequestToIR(req) ==
    IR(SystemMessage(req.instructions) \o InputMessages(req.input), NamesOf(FlatTools(req.tools)),
       OfType(req.tools, {"mcp"}) # <<>>, IF req.reasoning_effort = "auto" THEN None ELSE req.reasoning_effort,
       OfType(req.tools, {"web_search", "web_search_preview"}) # <<>>, req)

(***************************************************************************)
(* Messages                                                                *)
(***************************************************************************)
SystemText(system) ==
    LET texts == OfType(system, {"text"}) IN FlattenSeq([n \in DOMAIN texts |-> texts[n].says])

ThinkingBuckets == <<<<2048, "minimal">>, <<8192, "low">>, <<16384, "medium">>, <<32768, "high">>, <<65536, "xhigh">>>>

\* Mutant of ThinkingEffort: a budget at the limit of a bucket is in the next.
ThinkingEffortBelow(thinking) ==
    LET bucket == SelectInSeq(ThinkingBuckets, LAMBDA b : thinking.budget < b[1])
    IN  CASE thinking = None                                           -> None
          [] thinking # None /\ thinking.type = "disabled"             -> "none"
          [] thinking # None /\ thinking.type = "enabled" /\ bucket = 0 -> "max"
          [] OTHER                                                     -> ThinkingBuckets[bucket][2]

ThinkingEffort(thinking) ==
    LET bucket == SelectInSeq(ThinkingBuckets, LAMBDA b : thinking.budget <= b[1])
    IN  CASE thinking = None                                           -> None
          [] thinking # None /\ thinking.type = "disabled"             -> "none"
          [] thinking # None /\ thinking.type = "enabled" /\ bucket = 0 -> "max"
          [] OTHER                                                     -> ThinkingBuckets[bucket][2]

BlocksOf(raw, types) == OfType(raw.blocks, types)

ResultMessages(raw) ==
    LET results == BlocksOf(raw, {"tool_result"})
        text(b) == SelectSeq(b.says, LAMBDA t : ~IsImage(t))
    IN  [n \in DOMAIN results |-> [Message("tool", Text(text(results[n]))) EXCEPT !.answers = results[n].id]]

SpokenContent(raw) ==
    LET parts == BlocksOf(raw, {"text", "image"})
    IN  IF parts = <<>> THEN Text(<<>>) ELSE Multipart([n \in DOMAIN parts |-> parts[n].says])

Uses(raw) ==
    LET uses == BlocksOf(raw, {"tool_use"}) IN [c \in DOMAIN uses |-> [id |-> uses[c].id, tool |-> uses[c].tool]]

\* What is left of a message without its results: a reply always is, a user's
\* only when there is something in it.
SpokenMessage(raw) ==
    CASE raw.role = "assistant" -> <<[Message("assistant", SpokenContent(raw)) EXCEPT !.calls = Uses(raw)]>>
      [] raw.role # "assistant" /\ IsEmpty(SpokenContent(raw)) -> <<>>
      [] OTHER -> <<Message("user", SpokenContent(raw))>>

\* Mutant of TranslateMessage: what is said comes before the results.
TranslateMessageSaidFirst(raw) ==
    IF raw.form = "string" THEN <<Message(raw.role, Text(raw.blocks[1].says))>>
    ELSE SpokenMessage(raw) \o ResultMessages(raw)

\* Results first, whatever the order of the blocks; thinking is dropped.
TranslateMessage(raw) ==
    IF raw.form = "string" THEN <<Message(raw.role, Text(raw.blocks[1].says))>>
    ELSE ResultMessages(raw) \o SpokenMessage(raw)

MessagesRequestToIR(req) ==
    IR(SystemMessage(SystemText(req.system))
           \o FlattenSeq([n \in DOMAIN req.messages |-> TranslateMessage(req.messages[n])]),
       NamesOf(OfType(req.tools, {""})), FALSE, ThinkingEffort(req.thinking),
       OfType(req.tools, {"web_search"}) # <<>>, req)

(***************************************************************************)
(* The consult tool                                                        *)
(***************************************************************************)
NoArgs ==
    [names |-> [k \in RosterKeys |-> <<>>], instruction |-> <<>>, show_work |-> "", synth |-> "",
     dedupe |-> None, cache_synth |-> None]

Switch(given) == CASE given = None -> "" [] given = TRUE -> "on" [] OTHER -> "off"

\* The arguments of a call in the form of a block; blank names are nothing, and
\* so are arguments that turn nothing.
PanelDirectives(args) ==
    LET built == [NoDirectives EXCEPT
            !.instruction = args.instruction,
            !.names = [k \in RosterKeys |-> SelectSeq(args.names[k], LAMBDA name : name # "")],
            !.settings = [show_work |-> args.show_work, synth |-> args.synth,
                          dedupe |-> Switch(args.dedupe), cache_synth |-> Switch(args.cache_synth)]]
    IN  IF built = NoDirectives THEN <<>> ELSE <<built>>

\* An ensemble of this call alone, with the defaults of the schema.
InlineEnsemble(panel) ==
    [strategy |-> "synthesize", tiers |-> None, default |-> None,
     members |-> [kind |-> "seats", seats |-> [n \in DOMAIN panel.llms |->
                    [as |-> None, llm |-> panel.llms[n], effort |-> [kind |-> "none"]]]],
     exclude |-> {}, include |-> <<>>, synth |-> panel.synth, effort |-> [kind |-> "none"],
     prompt |-> [plain |-> <<>>, search |-> <<>>],
     continuation |-> "relay", summary |-> TRUE, propose |-> "arbitrate", threshold |-> 2,
     overflow |-> "skip", show_work |-> "off"]

\* What of a catalog the resolver reads when it resolves one more ensemble.
EntriesOf(catalog) == SetToSeq({[name |-> name] : name \in DOMAIN catalog.llms})

InlineFits(catalog, panel) ==
    /\ panel.llms # <<>> /\ IsInjective(panel.llms) /\ panel.synth # None
    /\ RosterFits(EntriesOf(catalog), InlineEnsemble(panel))

\* The catalog the plan is resolved against.
Serving(catalog, asked) ==
    IF asked.panel = None THEN catalog
    ELSE [catalog EXCEPT !.ensemble = ResolveEnsemble(EntriesOf(catalog), InlineEnsemble(asked.panel))]

\* One turn: a system message, if any, and the prompt.
BuildIR(asked) ==
    [messages |-> asked.messages, tools |-> asked.tools, mcp |-> FALSE, effort |-> asked.effort,
     search |-> FALSE, sampling |-> <<>>, given |-> PanelDirectives(asked.args)]

\* An effort that could do nothing is refused.
ConsultTakes(catalog, asked) ==
    /\ asked.odd # "both"
    /\ asked.panel # None => InlineFits(catalog, asked.panel)
    /\ asked.effort # None => Serving(catalog, asked).ensemble.tiers # None

(***************************************************************************)
(* Every surface                                                           *)
(***************************************************************************)
ToIR(asked) ==
    CASE asked.dialect = "chat"      -> ChatRequestToIR(WriteChat(asked))
      [] asked.dialect = "responses" -> ResponsesRequestToIR(WriteResponses(asked))
      [] asked.dialect = "messages"  -> MessagesRequestToIR(WriteAnthropic(asked))
      [] asked.dialect = "consult"   -> BuildIR(asked)

Takes(catalog, asked) ==
    CASE asked.dialect = "chat"      -> ChatTakes(WriteChat(asked))
      [] asked.dialect = "responses" -> ResponsesTakes(WriteResponses(asked))
      [] asked.dialect = "messages"  -> TRUE
      [] asked.dialect = "consult"   -> ConsultTakes(catalog, asked)

\* Translation first, then the plan; nothing was spent when either refuses.
Turned(catalog, asked) == ~Takes(catalog, asked) \/ Refused(Serving(catalog, asked), ToIR(asked))

\* Runs of inline panels are never shared: all have one name.
PlanFor(catalog, asked) ==
    LET plan == ResolvePlan(Serving(catalog, asked), ToIR(asked))
    IN  IF asked.panel = None THEN plan ELSE [plan EXCEPT !.dedupe = FALSE]

\* Mutant of RequestIdentity: the block is cut out and not read.
RequestIdentityUndirected(asked) ==
    LET ir == ToIR(asked)
    IN  [model |-> asked.panel = None, messages |-> ExtractSystemBlock(ir.messages).messages, effort |-> ir.effort,
         tools |-> ir.tools, mcp |-> ir.mcp, search |-> ir.search, sampling |-> ir.sampling]

\* By what a run in flight is found: the request as it was translated, the
\* directives of its block taken out and parsed; the arguments of a tool call
\* are not in it.
RequestIdentity(asked) ==
    LET ir == ToIR(asked)
        block == ExtractSystemBlock(ir.messages)
    IN  [model |-> asked.panel = None, messages |-> block.messages, directives |-> block.directives,
         effort |-> ir.effort, tools |-> ir.tools, mcp |-> ir.mcp, search |-> ir.search,
         sampling |-> ir.sampling]

=============================================================================
