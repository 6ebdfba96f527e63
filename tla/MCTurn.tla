------------------------------- MODULE MCTurn -------------------------------
(***************************************************************************)
(* Instances of Turn for TLC: what a configuration may say of a panel and  *)
(* a client may ask of it, planned but not run, and conversations with a   *)
(* small panel, run for up to three turns.                                 *)
(***************************************************************************)
EXTENDS Turn

Nobody == [only |-> <<>>, exclude |-> <<>>, include |-> <<>>]
Asking(names) == [NoArgs EXCEPT !.names = names @@ Nobody]

Llm(name, extends, own, params) ==
    [name |-> name, extends |-> extends, own |-> own, params |-> params, variants |-> <<>>]
Cell(c) == [kind |-> "cell", cell |-> c]
NoEffort == [kind |-> "none"]
Seat(as, llm, effort) == [as |-> as, llm |-> llm, effort |-> effort]

(***************************************************************************)
(* Rosters                                                                 *)
(***************************************************************************)
Llms == <<
    [Llm("gpt", None, "model" :> "openai" @@ "fallback" :> "opus" @@ "context" :> 9,
         "reasoning_effort" :> "high" @@ "verbosity" :> "low")
        EXCEPT !.variants = <<[suffix |-> "max", own |-> <<>>, params |-> "reasoning_effort" :> "max" @@ "verbosity" :> None]>>],
    Llm("mini", "gpt", "api" :> "responses" @@ "fallback" :> None @@ "limit" :> 3, "reasoning_effort" :> "minimal"),
    Llm("opus", None, "model" :> "anthropic" @@ "vision" :> FALSE @@ "context" :> 5, "reasoning_effort" :> "xhigh"),
    Llm("grok", "opus", "model" :> "xai" @@ "vision" :> TRUE @@ "search" :> ("tools" :> <<"web">>), "reasoning_effort" :> None)>>

Policy == [min |-> 1, merge |-> FALSE, dedupe |-> FALSE, caching |-> TRUE, cacheSynth |-> FALSE, breakpoints |-> TRUE]

Panel ==
    [strategy |-> "synthesize", tiers |-> <<"low", "high">>, default |-> "low",
     members |-> [kind |-> "seats", seats |-> <<
        Seat(None, "gpt", [kind |-> "map", cells |-> "high" :> "passthrough"]),
        Seat(None, "opus", [kind |-> "list", cells |-> <<"skip", "max">>]),
        Seat("quick", "mini", Cell("minimal"))>>],
     exclude |-> {}, include |-> <<>>, synth |-> "grok", effort |-> Cell("min"),
     prompt |-> [plain |-> <<Word("prompt")>>, search |-> <<>>],
     continuation |-> "relay", summary |-> TRUE, propose |-> "arbitrate", threshold |-> 2,
     overflow |-> "skip", show_work |-> "off"]

Everyone == [kind |-> "all", exclude |-> {"gpt"}]
Panels ==
    {Panel, [Panel EXCEPT !.exclude = {"gpt", "gone"}], [Panel EXCEPT !.members = Everyone],
     [Panel EXCEPT !.members = Everyone, !.include = <<Seat(None, "mini", Cell("xhigh"))>>],
     [Panel EXCEPT !.exclude = {"opus"}, !.include = <<Seat(None, "opus", Cell("skip")), Seat("quick", "grok", NoEffort)>>],
     [Panel EXCEPT !.tiers = None, !.default = None],
     [Panel EXCEPT !.strategy = "passthrough", !.members.seats = <<Seat(None, "gpt", NoEffort)>>],
     [Panel EXCEPT !.overflow = "reject"], [Panel EXCEPT !.exclude = {"gpt", "opus", "quick"}]}

Line(key, values) == [key |-> key, values |-> values]
Headers ==
    {<<Line("only", only), Line("blank", <<>>), Line("exclude", exclude), Line("include", include),
       Line(last, <<"grok">>), Line("only", <<"opus">>)>> :
        only \in {<<>>, <<"gpt">>, <<"tpg">>}, exclude \in {<<>>, <<"quick", "gone">>},
        include \in {<<>>, <<"opus", "gone">>, <<"gpt-max", "quick">>}, last \in {"synth", "exlude", "instruction"}}

Ask == [dialect |-> "chat", messages |-> <<Message("system", Text(<<Word("rules")>>)), User(<<Word("hello")>>)>>,
        tools |-> <<>>, odd |-> "", mcp |-> FALSE, effort |-> None, search |-> FALSE, sampling |-> <<>>,
        args |-> NoArgs, panel |-> None]

Typing(lines) == [Ask EXCEPT !.messages[2] = User(<<Word("hello"), Tagged("system", lines)>>)]

Seeing == [Ask EXCEPT !.messages[2] = Message("user", Multipart(<<<<Word("see")>>, <<Image("cat")>>>>))]
Inline(llms, synth) == [llms |-> llms, synth |-> synth]

\* Names an agent gives twice.
Repeating ==
    {"exclude" :> <<"nope", "gpt", "nope", "gpt">>, "only" :> <<"opus", "nope", "gpt", "nope", "opus">>,
     "include" :> <<"opus", "nope", "opus", "nope">>}

Asks ==
    {[Typing(h) EXCEPT !.dialect = d[1], !.effort = d[2]] :
        h \in Headers, d \in {<<"chat", None>>, <<"messages", "medium">>, <<"responses", "xh">>}}
        \cup {[Typing(h) EXCEPT !.dialect = "consult", !.args = [Asking(n) EXCEPT !.synth = "opus", !.dedupe = FALSE]] :
                h \in Headers, n \in {"only" :> <<"quick", "">>, "exclude" :> <<"gpt">>, "include" :> <<"opus">>}}
        \cup {[asked EXCEPT !.dialect = "consult", !.args = Asking(n)] : asked \in {Ask, Typing(<<>>)}, n \in Repeating}
        \cup {[Ask EXCEPT !.effort = e, !.tools = t, !.search = s] :
                e \in {None, "none", "max", "silly"}, t \in {<<>>, <<"run", "read">>}, s \in BOOLEAN}
        \cup {[Ask EXCEPT !.dialect = "messages", !.effort = e, !.tools = <<"run">>, !.search = TRUE] :
                e \in {None, "none"} \cup DOMAIN Limits}
        \cup {[Ask EXCEPT !.dialect = "responses", !.effort = e, !.tools = <<"run", "read">>, !.search = s] :
                e \in {None, "low"}, s \in BOOLEAN}
        \cup {[Seeing EXCEPT !.dialect = d] : d \in {"chat", "messages"}}
        \cup {[Seeing EXCEPT !.dialect = "responses", !.mcp = m] : m \in BOOLEAN}
        \cup {[Ask EXCEPT !.dialect = d, !.odd = o] :
                d \in {"chat", "responses", "messages"}, o \in {"custom", "role", "stateful"}}

\* Panels of the consult tool.
Consults ==
    {[Ask EXCEPT !.dialect = "consult", !.panel = p, !.odd = o, !.effort = e, !.args = a] :
        p \in {None, Inline(<<"opus", "grok">>, "mini"), Inline(<<"gpt", "nobody">>, "mini"), Inline(<<"gpt", "gpt">>, "mini"),
               Inline(<<>>, "mini"), Inline(<<"gpt">>, None)},
        o \in {"", "both"}, e \in {None, "high"},
        a \in {NoArgs, [Asking("include" :> <<"gpt-max", "quick">>) EXCEPT !.show_work = "loud", !.cache_synth = TRUE]}}

PlannedOnly(ensemble, asked) ==
    [config |-> [llms |-> Llms, ensemble |-> ensemble, policy |-> Policy],
     request |-> asked, turns |-> 0, next |-> {}, others |-> {}]
Rosters == {PlannedOnly(p, a) : p \in Panels, a \in Asks \cup Consults}

\* Files that cannot be resolved.
Broken ==
    {[PlannedOnly(Panel, Ask) EXCEPT !.config.llms = Append(Llms, l)] :
        l \in {Llm("gpt-max", "gpt", <<>>, <<>>), Llm("loop", "loop", <<>>, <<>>),
               Llm("orphan", "nobody", <<>>, <<>>), Llm("blank", None, <<>>, <<>>),
               Llm("lost", "gpt", "fallback" :> "nobody", <<>>)}}

(***************************************************************************)
(* Conversations                                                           *)
(***************************************************************************)
Pair ==
    [Panel EXCEPT !.tiers = None, !.default = None, !.synth = "opus",
                  !.members.seats = <<Seat(None, "grok", NoEffort), Seat(None, "gpt", NoEffort)>>]

Named(name, says) == [User(says) EXCEPT !.name = name]
Histories ==
    {<<Message("system", Text(<<Word("rules")>>)), Named("ann", <<Word("one")>>), Named("bob", <<Word("two")>>),
       User(<<>>), Message("user", Multipart(<<<<Word("see")>>, <<Image("cat")>>>>)),
       User(<<Word("go"), Tagged("system", <<Line("show_work", <<"inline">>), Line("prose", <<Word("be brief")>>)>>)>>)>>,
     <<User(<<Word("one")>>), Message("assistant", Text(<<Word("two")>>)), Message("assistant", Text(<<Word("three")>>)),
       Message("user", Multipart(<<<<Word("four"), Tagged("legacy", <<Line("only", <<Word("as said")>>)>>)>>, <<Image("cat")>>>>))>>}

Talking == [Ask EXCEPT !.tools = <<"run">>]
Briefly == Tagged("system", <<Line("prose", <<Word("be brief")>>)>>)
Nexts == {<<>>, <<Briefly>>, <<Word("also"), Tagged("system", <<Line("synth", <<"mini">>)>>)>>}
Dialects == {"chat", "responses", "messages"}

Talk(dialect, ensemble, policy, messages, turns) ==
    [config |-> [llms |-> Llms, ensemble |-> ensemble, policy |-> policy],
     request |-> [Talking EXCEPT !.dialect = dialect, !.messages = messages],
     turns |-> turns, next |-> Nexts, others |-> {}]

Advised ==
    {Talk(d, [Pair EXCEPT !.synth = s, !.summary = FALSE], [Policy EXCEPT !.merge = m, !.min = q], h, 1) :
        d \in Dialects, s \in {"opus", "mini", "gpt"}, m \in BOOLEAN, q \in {0, 2}, h \in Histories}
Voted ==
    {Talk("chat", [Pair EXCEPT !.propose = p, !.continuation = c, !.threshold = 1], Policy, <<User(<<Word("one")>>)>>, 2) :
        p \in {"vote", "first"}, c \in {"relay", "fanout"}}
\* A message of no parts, where the end of it may have to be marked.
Hollow == Message("user", Multipart(<<>>))
Unmarked ==
    {Talk("chat", [Pair EXCEPT !.strategy = "passthrough", !.members.seats = <<>>, !.synth = s], Policy, h, 1) :
        s \in {"opus", "gpt"}, h \in {<<Hollow, User(<<Word("one")>>)>>, <<User(<<Word("one")>>), Hollow>>}}
Relayed ==
    {Talk("chat", [Pair EXCEPT !.strategy = "passthrough", !.members.seats = <<>>], [Policy EXCEPT !.merge = m],
                   <<User(<<Word("one")>>)>>, 1) : m \in BOOLEAN}
        \cup {Talk(d, [Pair EXCEPT !.members.seats = <<Seat(None, "gpt", NoEffort)>>],
                   [Policy EXCEPT !.merge = m], <<User(<<Word("one"), Briefly>>)>>, 3) : d \in Dialects, m \in BOOLEAN}

(***************************************************************************)
(* Requests at the same time                                               *)
(***************************************************************************)
Consulting == [Ask EXCEPT !.dialect = "consult"]
Clients ==
    {[Ask EXCEPT !.dialect = d, !.effort = e, !.tools = t, !.search = s] :
        d \in Dialects, e \in {None, "high"}, t \in {<<>>, <<"run">>}, s \in BOOLEAN}
        \cup {[Typing(<<Line(k, <<"grok">>)>>) EXCEPT !.dialect = d] :
                d \in Dialects \cup {"consult"}, k \in {"only", "exclude", "include", "synth", "prose"}}
        \cup {[Consulting EXCEPT !.panel = Inline(<<l>>, "mini")] : l \in {"gpt", "grok"}}
        \cup {Consulting}
Callers == {[Consulting EXCEPT !.args = a] : a \in {Asking("exclude" :> <<"gpt">>), Asking("include" :> <<"grok">>)}}

Crowd(asking, others) ==
    {[config |-> [llms |-> Llms, ensemble |-> Panel, policy |-> [Policy EXCEPT !.dedupe = TRUE]],
      request |-> r, turns |-> 0, next |-> {}, others |-> others] : r \in asking}
Together == Crowd(Clients, Clients)

AllScenarios == Rosters \cup Broken \cup Unmarked \cup Advised \cup Voted \cup Relayed \cup Together
Consulted == Crowd(Callers, Callers \cup {Consulting})
=============================================================================
