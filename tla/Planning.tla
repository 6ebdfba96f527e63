------------------------------ MODULE Planning ------------------------------
(***************************************************************************)
(* The plan of a turn: who is called, over which route, with which         *)
(* parameters and messages, and what of the directives was not honoured.   *)
(*                                                                         *)
(* A request is [messages, tools, mcp, effort, search, sampling, given]:   *)
(* `tools` is a sequence of names, `sampling` a function of parameters,    *)
(* `given` the directives that came as arguments, if any.  The catalog     *)
(* is that of Catalog, with one ensemble.  A notice or a refusal is a      *)
(* record of what it is about; its wording is left out.                    *)
(***************************************************************************)
EXTENDS Catalog, Conversation

Ignored(key, name) == [ignored |-> name, key |-> key]

(***************************************************************************)
(* Effort and parameters                                                   *)
(***************************************************************************)
ResolveTier(ens, asked) ==
    CASE ens.tiers = None                     -> None
      [] ens.tiers # None /\ asked = None     -> ens.default
      [] OTHER                                -> NearestTier(Label(asked), Range(ens.tiers))

EffortAt(cells, tier) == IF tier \in DOMAIN cells THEN cells[tier] ELSE "off"

EffortParam(cell, asked) ==
    CASE cell = "off"                          -> <<>>
      [] cell = "passthrough" /\ asked = None  -> <<>>
      [] cell = "passthrough" /\ asked # None  -> "reasoning_effort" :> Label(asked)
      [] OTHER                                 -> "reasoning_effort" :> cell

MemberParams(llm, cells, tier, asked) == EffortParam(EffortAt(cells, tier), asked) @@ llm.params

\* Tools the search brings are added to those the model is configured with.
ApplySearch(params, llm, wanted) ==
    IF ~wanted \/ llm.search = None THEN params
    ELSE [k \in DOMAIN llm.search |->
            IF k = "tools" /\ k \in DOMAIN params THEN params[k] \o llm.search[k] ELSE llm.search[k]] @@ params

\* The client's tools take the place of all others.
WithTools(params, tools) == IF tools = <<>> THEN params ELSE ("tools" :> tools) @@ params

Accepted(provider) ==
    {"low", "medium", "high"} \cup IF provider \in {"openai", "azure"} THEN {"minimal"} ELSE {}

\* Mutant of EffortOnWire: the ladder goes out as it is.
EffortOnWireRaw(provider, params) ==
    IF "reasoning_effort" \in DOMAIN params THEN params["reasoning_effort"] ELSE None

\* What the adapter makes of the effort for a provider; None when none is sent.
EffortOnWire(provider, params) ==
    LET asked == IF "reasoning_effort" \in DOMAIN params THEN params["reasoning_effort"] ELSE None
    IN  CASE asked \in Accepted(provider)                              -> asked
          [] asked = "minimal" /\ asked \notin Accepted(provider)      -> "low"
          [] asked \in {"xhigh", "max"}                                -> "high"
          [] OTHER                                                     -> None

(***************************************************************************)
(* The panel                                                               *)
(***************************************************************************)
MembersAt(ens, tier) ==
    SelectSeq(ens.members, LAMBDA m : EffortAt(m.effort, tier) # "skip")

\* Mutant of Unskipped: the parked member keeps the cell that parks it.
UnskippedNever(member, tier) == member

\* A member parked at this tier and asked back runs at its model's own effort.
Unskipped(member, tier) ==
    IF EffortAt(member.effort, tier) = "skip" THEN [member EXCEPT !.effort[tier] = "off"] ELSE member

Identities(members) == {m.identity : m \in Range(members)}
Unmatched(names, key, known) ==
    LET unknown == SelectSeq(names, LAMBDA name : name \notin known)
    IN  [n \in DOMAIN unknown |-> Ignored(key, unknown[n])]

\* From the roster, whatever the tier or `only:` did with it, or else any model
\* of the catalog under its own name.
IncludeMembers(catalog, tier, names, selected) ==
    LET ens == catalog.ensemble
        new == SelectSeq(Once(names), LAMBDA name :
                    /\ name \notin Identities(selected)
                    /\ name \in Identities(ens.members) \cup DOMAIN catalog.llms)
        seat(name) == IF name \in Identities(ens.members)
                      THEN Unskipped(CHOOSE m \in Range(ens.members) : m.identity = name, tier)
                      ELSE [identity |-> name, llm |-> name, effort |-> <<>>]
    IN  selected \o [n \in DOMAIN new |-> seat(new[n])]

Patched(names) == \E key \in RosterKeys : names[key] # <<>>

\* Mutant of SelectMembers: what is excluded stays out, included or not.
SelectMembersExcludeLast(catalog, tier, names) ==
    LET tiered == MembersAt(catalog.ensemble, tier)
        only == IF names.only = <<>> THEN tiered
                ELSE SelectSeq(tiered, LAMBDA m : m.identity \in Range(names.only))
    IN  SelectSeq(IncludeMembers(catalog, tier, names.include, only),
                  LAMBDA m : m.identity \notin Range(names.exclude))

SelectMembers(catalog, tier, names) ==
    LET tiered == MembersAt(catalog.ensemble, tier)
        only == IF names.only = <<>> THEN tiered
                ELSE SelectSeq(tiered, LAMBDA m : m.identity \in Range(names.only))
        kept == SelectSeq(only, LAMBDA m : m.identity \notin Range(names.exclude))
    IN  IncludeMembers(catalog, tier, names.include, kept)

\* Names no `only:` or `exclude:` line can mean, and those nothing is called: these
\* once, the others as often as they are given.
RosterNotices(catalog, names) ==
    LET roster == Identities(catalog.ensemble.members)
    IN  Unmatched(names.only, "only", roster) \o Unmatched(names.exclude, "exclude", roster)
            \o Unmatched(Once(names.include), "include", roster \cup DOMAIN catalog.llms)

(***************************************************************************)
(* Settings a directive may override                                       *)
(***************************************************************************)
ResolveToggle(said, configured) ==
    CASE said \in {"on", "true", "yes", "1"}  -> TRUE
      [] said \in {"off", "false", "no", "0"} -> FALSE
      [] OTHER                                -> configured

Vocabulary ==
    "show_work" :> {"off", "inline", "native"} @@
    "dedupe" :> {"on", "true", "yes", "1", "off", "false", "no", "0"} @@
    "cache_synth" :> {"on", "true", "yes", "1", "off", "false", "no", "0"}

Heeded(key, settings) == settings[key] \in Vocabulary[key] \cup {""}

SettingNotices(catalog, settings) ==
    LET bad(key, read) == IF Heeded(key, settings) \/ ~read THEN <<>> ELSE <<Ignored(key, settings[key])>>
    IN  bad("show_work", TRUE) \o bad("dedupe", TRUE) \o bad("cache_synth", catalog.caching)

(***************************************************************************)
(* Routes                                                                  *)
(***************************************************************************)
Propose(ens) == ens.propose \in {"vote", "first"}

CallSpec(target, params, messages) ==
    [llm |-> target.name, provider |-> target.model, api |-> target.api,
     params |-> params, messages |-> messages]

\* The seat's effort, the search and the tools go with the seat, whichever
\* route is taken.
SpecFor(catalog, request, tier, messages, member, target) ==
    LET params == ApplySearch(MemberParams(target, member.effort, tier, request.effort), target, request.search)
    IN  CallSpec(target, IF Propose(catalog.ensemble) THEN WithTools(params, request.tools) ELSE params, messages)

\* Words weigh one, images nothing.
Estimate(messages) ==
    FoldLeft(LAMBDA sum, m : sum + Len(SelectSeq(Says(m), LAMBDA t : ~IsImage(t))), 0, messages)

Fits(llm, messages) == llm.limit = None \/ Estimate(messages) <= llm.limit

\* Members that cannot see the images, or take so long an input, drop out.
\* The backstop's own backstop is not followed.
PlanMembers(catalog, request, tier, messages, selected) ==
    LET runs == SelectSeq(selected, LAMBDA m :
                    /\ HasImages(request.messages) => Sees(catalog.llms[m.llm])
                    /\ Fits(catalog.llms[m.llm], messages))
        spec(m, name) == SpecFor(catalog, request, tier, messages, m, catalog.llms[name])
    IN  [n \in DOMAIN runs |->
            LET llm == catalog.llms[runs[n].llm]
            IN  [identity |-> runs[n].identity, effort |-> runs[n].effort,
                 spec |-> spec(runs[n], llm.name),
                 fallback |-> IF llm.fallback = None THEN None ELSE spec(runs[n], llm.fallback)]]

RemoteMcp(llm) == llm.api = "responses" /\ llm.model \in {"openai", "azure"}
AnthropicFamily == {"anthropic", "claude", "vertex_ai", "bedrock"}

\* What the client sends for its own answer wins over what is configured.
ResolveSynth(catalog, request, tier, target) ==
    LET ens == catalog.ensemble
        llm == catalog.llms[target]
        params == ApplySearch(MemberParams(llm, ens.effort, tier, request.effort), llm, request.search)
        tools == request.tools \o IF request.mcp THEN <<"mcp">> ELSE <<>>
    IN  [llm |-> target, provider |-> llm.model, api |-> llm.api,
         params |-> WithTools(request.sampling @@ params, tools),
         prompt |-> IF request.search /\ ens.prompt.search # <<>> THEN ens.prompt.search ELSE ens.prompt.plain,
         breakpoints |-> llm.model \in AnthropicFamily /\ catalog.breakpoints]

(***************************************************************************)
(* The plan                                                                *)
(***************************************************************************)
Directives(request) ==
    Head(Merged(ExtractSystemBlock(request.messages).directives, request.given) \o <<NoDirectives>>)

ClientMessages(catalog, request) ==
    LET said == ExtractSystemBlock(request.messages).messages
    IN  IF catalog.merge THEN MergeSameRole(said) ELSE said

IsRelay(catalog, request) ==
    catalog.ensemble.continuation = "relay" /\ ClassifyTurn(request.messages) = "relay"
SkipReason(catalog, request) ==
    CASE catalog.ensemble.strategy = "passthrough"                             -> "passthrough"
      [] catalog.ensemble.strategy # "passthrough" /\ IsRelay(catalog, request) -> "tool_continuation"
      [] OTHER                                                                 -> None

\* Advisory members learn of the tools in a closing system message.
MemberMessages(catalog, request) ==
    LET client == ClientMessages(catalog, request)
    IN  IF request.tools # <<>> /\ catalog.ensemble.summary /\ ~Propose(catalog.ensemble)
        THEN Append(client, Message("system", Text(<<[available |-> request.tools]>>)))
        ELSE client

TierOf(catalog, request) == ResolveTier(catalog.ensemble, request.effort)
Selected(catalog, request) ==
    SelectMembers(catalog, TierOf(catalog, request), Directives(request).names)

SynthTarget(catalog, settings) ==
    IF settings.synth \in DOMAIN catalog.llms THEN settings.synth ELSE catalog.ensemble.synth

\* Whether resolve_plan raises.  The quorum is asked only of a panel the
\* directives changed.
Refused(catalog, request) ==
    LET ens == catalog.ensemble
        fanOut == SkipReason(catalog, request) = None
        selected == Selected(catalog, request)
        target == catalog.llms[SynthTarget(catalog, Directives(request).settings)]
    IN  \/ ens.tiers # None /\ request.effort # None /\ ~IsLevel(request.effort)
        \/ fanOut /\ Patched(Directives(request).names) /\ Len(selected) < Max({catalog.min, 1})
        \/ fanOut /\ ens.overflow = "reject" /\ \E m \in Range(selected) :
                        /\ HasImages(request.messages) => Sees(catalog.llms[m.llm])
                        /\ ~Fits(catalog.llms[m.llm], MemberMessages(catalog, request))
        \/ request.mcp /\ ~RemoteMcp(target)

ResolvePlan(catalog, request) ==
    LET ens == catalog.ensemble
        directives == Directives(request)
        skip == SkipReason(catalog, request)
        tier == TierOf(catalog, request)
        keep(key, configured) == IF Heeded(key, directives.settings) /\ directives.settings[key] # ""
                                 THEN directives.settings[key] ELSE configured
        synth == directives.settings.synth
    IN  [skip |-> skip, tier |-> tier, client |-> ClientMessages(catalog, request),
         members |-> IF skip # None THEN <<>>
                     ELSE PlanMembers(catalog, request, tier, MemberMessages(catalog, request),
                                      Selected(catalog, request)),
         synth |-> ResolveSynth(catalog, request, tier, SynthTarget(catalog, directives.settings)),
         instruction |-> directives.instruction,
         show_work |-> keep("show_work", ens.show_work),
         dedupe |-> ResolveToggle(directives.settings.dedupe, catalog.dedupe),
         cache_synthesis |-> catalog.caching /\ ResolveToggle(directives.settings.cache_synth, catalog.cacheSynth),
         min |-> catalog.min, merge |-> catalog.merge, propose |-> ens.propose, threshold |-> ens.threshold,
         notices |-> directives.warnings
            \o (IF Patched(directives.names) /\ ens.strategy = "passthrough" THEN <<Ignored("roster", "passthrough")>> ELSE <<>>)
            \o SettingNotices(catalog, directives.settings)
            \o (IF skip = None THEN RosterNotices(catalog, directives.names) ELSE <<>>)
            \o (IF synth \in DOMAIN catalog.llms \cup {""} THEN <<>> ELSE <<Ignored("synth", synth)>>)]

=============================================================================
