-------------------------------- MODULE Turn --------------------------------
(***************************************************************************)
(* A conversation of a client with one ensemble: the configuration is      *)
(* resolved, each request is translated and planned, the panel answers in  *)
(* any order, the concluding model is sent its messages and replies with   *)
(* text or with tool calls, and the client comes back, in its protocol,    *)
(* with the whole transcript and the results of the calls in it.  The      *)
(* gateway keeps nothing but the ids the provider gave to calls, in a      *)
(* bounded map that a restart empties.                                     *)
(*                                                                         *)
(* What RunEnsemble is about (deadlines, cancellation, the feed) is left   *)
(* to it: here every member of the plan comes to an outcome.               *)
(***************************************************************************)
EXTENDS Wire

CONSTANTS Scenarios,   \* [config, request, turns, next, others]: what a client may find and
                       \* ask, and what others ask at the same time
          MaxEntries,  \* the entries the custody keeps
          MaxCalls     \* bound: the tool calls of one reply

ASSUME TurnAssumption == MaxEntries \in Nat /\ MaxCalls \in Nat

VARIABLES scenario,
          phase,       \* "boot", "asked", "panel", "synthesis", "replied" or "over"
          turn,        \* how many requests were concluded
          request,     \* what the client means, in the form Wire gives it
          catalog, plan,
          outcomes,    \* of the members, in the order they came in
          sent,        \* the messages of the concluding call, before its API's own form
          custody,     \* [client, provider, owner], the least recently used first
          minted       \* every id given to the client, with what stands behind it

turnVars == <<scenario, phase, turn, request, catalog, plan, outcomes, sent, custody, minted>>

TurnInit ==
    /\ scenario \in Scenarios
    /\ phase = "boot" /\ turn = 0
    /\ request = scenario.request
    /\ catalog = None /\ plan = None /\ sent = None
    /\ outcomes = <<>> /\ custody = <<>> /\ minted = <<>>

\* A configuration that cannot be resolved stops the gateway from starting.
Boot ==
    /\ phase = "boot"
    /\ IF Resolvable(scenario.config)
       THEN catalog' = ResolveCatalog(scenario.config) /\ phase' = "asked"
       ELSE phase' = "over" /\ UNCHANGED catalog
    /\ UNCHANGED <<scenario, turn, request, plan, outcomes, sent, custody, minted>>

Plan ==
    /\ phase = "asked"
    /\ IF Turned(catalog, request)
       THEN phase' = "over" /\ UNCHANGED plan
       ELSE plan' = PlanFor(catalog, request)
            /\ phase' = IF turn < scenario.turns THEN "panel" ELSE "over"
    /\ UNCHANGED <<scenario, turn, request, catalog, outcomes, sent, custody, minted>>

(***************************************************************************)
(* The panel                                                               *)
(***************************************************************************)
Tools(spec) == IF "tools" \in DOMAIN spec.params THEN Range(spec.params.tools) ELSE {}

\* An answer, a failure, or the tools a member that may call some proposes.
OutcomesOf(member) ==
    LET outcome == [who |-> member.identity, ok |-> TRUE, says |-> <<Word(member.identity)>>, calls |-> <<>>]
    IN  {outcome, [outcome EXCEPT !.ok = FALSE, !.says = <<>>]}
            \cup {[outcome EXCEPT !.says = <<>>, !.calls = <<[id |-> member.identity, tool |-> t]>>] :
                    t \in Tools(member.spec)}

HasAnswered(member) == \E o \in Range(outcomes) : o.who = member.identity

MemberCompleted ==
    /\ phase = "panel"
    /\ \E member \in Range(plan.members) :
        /\ ~HasAnswered(member)
        /\ \E outcome \in OutcomesOf(member) : outcomes' = Append(outcomes, outcome)
    /\ UNCHANGED <<scenario, phase, turn, request, catalog, plan, sent, custody, minted>>

(***************************************************************************)
(* The ids of tool calls                                                   *)
(***************************************************************************)
Newest(entries) == SubSeq(entries, Max({1, Len(entries) - MaxEntries + 1}), Len(entries))
Without(entries, id) == SelectSeq(entries, LAMBDA e : e.client # id)

Remember(entries, new) == Newest(Append(Without(entries, new.client), new))

\* Mutant of ProviderId: whose call it was is not asked.
ProviderIdAnyOwner(entries, id, owner) ==
    IF \E e \in Range(entries) : e.client = id
    THEN (CHOOSE e \in Range(entries) : e.client = id).provider ELSE id

Kept(entries, id, owner) == \E e \in Range(entries) : e.client = id /\ e.owner = owner
ProviderId(entries, id, owner) ==
    IF Kept(entries, id, owner)
    THEN (CHOOSE e \in Range(entries) : e.client = id).provider ELSE id

\* A hit is kept longest.
Touch(entries, id, owner) ==
    IF Kept(entries, id, owner)
    THEN Without(entries, id) \o SelectSeq(entries, LAMBDA e : e.client = id) ELSE entries

IdsOf(message) ==
    [c \in DOMAIN message.calls |-> message.calls[c].id] \o
        (IF message.answers = "" THEN <<>> ELSE <<message.answers>>)

AllIds(messages) == FlattenSeq([n \in DOMAIN messages |-> IdsOf(messages[n])])

\* The ids a client is given for calls, and what the provider called them.
Mint(calls, owner) ==
    [c \in DOMAIN calls |-> [client |-> "call" \o ToString(Len(minted) + c),
                             provider |-> calls[c].id, owner |-> owner, tool |-> calls[c].tool]]

(***************************************************************************)
(* The concluding call                                                     *)
(***************************************************************************)
Concluding == phase = "panel" /\ \A m \in Range(plan.members) : HasAnswered(m)
Quorate == Len(Ok(outcomes)) >= plan.min

\* The outcomes as the plan seats their members: only votes are counted so.
Seating == [n \in DOMAIN plan.members |->
                CHOOSE o \in Range(outcomes) : o.who = plan.members[n].identity]
Chosen == IF plan.skip = None THEN SelectMemberToolCall(Seating, plan.propose, plan.threshold) ELSE <<>>

\* Mutant of Assemble: a turn without a panel forgets the instruction.
AssembleForgetful ==
    CASE plan.skip # None                         -> plan.client
      [] plan.skip = None /\ Ok(outcomes) # <<>>  ->
            BuildSynthesisMessages(plan.client, outcomes, plan.synth.prompt, plan.instruction)
      [] OTHER                                    -> AllFailedMessage(outcomes)

Assemble ==
    LET ids == [id \in Range(AllIds(plan.client)) |-> ProviderId(custody, id, plan.synth.llm)]
    IN  CASE plan.skip = "tool_continuation" ->
                AppendInstruction(RestoreToolIds(plan.client, ids), plan.instruction)
          [] plan.skip = "passthrough"       -> AppendInstruction(plan.client, plan.instruction)
          [] plan.skip = None /\ Ok(outcomes) # <<>> ->
                BuildSynthesisMessages(plan.client, outcomes, plan.synth.prompt, plan.instruction)
          [] OTHER                           -> AllFailedMessage(outcomes)

Joined(messages) == IF plan.merge THEN MergeSameRole(messages) ELSE messages

\* What cannot be marked fails the run before a call is made.
Synthesize ==
    /\ Concluding
    /\ plan.skip = None => Quorate /\ Chosen = <<>>
    /\ \E assembled \in {Assemble} : \E messages \in {Joined(assembled)} :
        CASE ~plan.synth.breakpoints                       -> sent' = messages
          [] plan.synth.breakpoints /\ Markable(messages)  -> sent' = InjectAnthropicCache(messages)
          [] plan.synth.breakpoints /\ ~Markable(messages) -> sent' = None
    /\ custody' = IF plan.skip = "tool_continuation"
                  THEN FoldLeft(LAMBDA entries, id : Touch(entries, id, plan.synth.llm), custody,
                                AllIds(plan.client))
                  ELSE custody
    /\ phase' = IF sent' = None THEN "over" ELSE "synthesis"
    /\ UNCHANGED <<scenario, turn, request, catalog, plan, outcomes, minted>>

\* The client sends the transcript again with the reply and what came of it,
\* and may say more and ask for another concluding model.
Resent(calls, more) ==
    LET said == IF calls = <<>> THEN Text(<<Word("reply")>>) ELSE Text(<<>>)
        reply == [Message("assistant", said) EXCEPT !.calls = [c \in DOMAIN calls |->
                        [id |-> calls[c].client, tool |-> calls[c].tool]]]
        results == [c \in DOMAIN calls |->
                        [Message("tool", Text(<<Word("result" \o calls[c].client)>>)) EXCEPT !.answers = calls[c].client]]
    IN  [request EXCEPT !.messages = @ \o <<reply>> \o results \o
                            (CASE more # <<>>                   -> <<User(more)>>
                               [] more = <<>> /\ calls = <<>>   -> <<User(<<Word("more")>>)>>
                               [] OTHER                         -> <<>>)]

ComeBack(calls) ==
    /\ turn' = turn + 1
    /\ minted' = minted \o calls
    /\ IF turn + 1 < scenario.turns
       THEN phase' = "asked" /\ \E more \in scenario.next : request' = Resent(calls, more)
       ELSE phase' = "over" /\ UNCHANGED request
    /\ plan' = None /\ outcomes' = <<>> /\ sent' = None
    /\ UNCHANGED <<scenario, catalog>>

\* The members' own choice goes to the client and their ids are forgotten.
ShortCircuit ==
    /\ Concluding /\ Quorate /\ Chosen # <<>>
    /\ ComeBack(Mint(Chosen, None))
    /\ UNCHANGED custody

\* The calls a reply may bring: each of a tool that was offered, under an id of
\* the provider's or none.
Replies ==
    LET call(t, n) == [id |-> "own" \o ToString(turn) \o ToString(n), tool |-> t]
    IN  {[n \in 1..Len(ts) |-> call(ts[n], n)] : ts \in BoundedSeq(Tools(plan.synth), MaxCalls)}
            \cup {<<[id |-> "", tool |-> t]>> : t \in Tools(plan.synth)}

Reply ==
    /\ phase = "synthesis"
    /\ \E calls \in Replies :
        LET ids == Mint(calls, plan.synth.llm)
        IN  /\ custody' = FoldLeft(Remember, custody, SelectSeq(ids, LAMBDA e : e.provider # ""))
            /\ ComeBack(ids)

Restart ==
    /\ phase = "asked" /\ custody # <<>>
    /\ custody' = <<>>
    /\ UNCHANGED <<scenario, phase, turn, request, catalog, plan, outcomes, sent, minted>>

TurnNext == \/ Boot \/ Plan \/ MemberCompleted \/ Synthesize \/ ShortCircuit \/ Reply \/ Restart

TurnSpec == TurnInit /\ [][TurnNext]_turnVars

(***************************************************************************)
(* The panel                                                               *)
(***************************************************************************)
Directed(t) == IsTagged(t, "system") \/ IsTagged(t, "legacy")
LastUser == SelectLastInSeq(request.messages, LAMBDA m : m.role = "user")

\* What the client asked for, read off the lines it typed and the arguments.
Typed ==
    LET user == SelectSeq(request.messages, LAMBDA m : m.role = "user")
        blocks == SelectSeq(Says(Last(user)), LAMBDA t : IsTagged(t, "system"))
    IN  IF blocks = <<>> THEN <<>> ELSE Head(blocks).lines
InHeader(n) == \A m \in 1..n : Typed[m].key \in FilterKeys \cup {"blank"}
AskedFor(key) ==
    (Range(request.args.names[key]) \ {""}) \cup
        UNION {Range(Typed[n].values) : n \in {m \in DOMAIN Typed : InHeader(m) /\ Typed[m].key = key}}

\* The roster as the file and its patches, or the call, describe it: a seat's
\* last word on it.
Ensemble == IF request.panel = None THEN scenario.config.ensemble ELSE InlineEnsemble(request.panel)
Listed ==
    LET ens == Ensemble
    IN  IF ens.members.kind = "all" THEN DOMAIN catalog.llms \ ens.members.exclude
        ELSE {Identity(s) : s \in Range(ens.members.seats)}
Rostered == (Listed \ Ensemble.exclude) \cup {Identity(s) : s \in Range(Ensemble.include)}
Declared(who) ==
    LET ens == Ensemble
        seats == (IF ens.members.kind = "all" THEN <<>> ELSE ens.members.seats) \o ens.include
        mine == SelectSeq(seats, LAMBDA s : Identity(s) = who)
    IN  IF mine = <<>> THEN [as |-> None, llm |-> who, effort |-> [kind |-> "none"]] ELSE Last(mine)
CellOf(who) ==
    IF who \in Rostered THEN EffortAt(EffortMatrix(Declared(who).effort, Ensemble.tiers), plan.tier)
    ELSE "off"
Parked == {who \in Rostered : CellOf(who) = "skip"}

Able(who) ==
    LET llm == catalog.llms[IF who \in Rostered THEN Declared(who).llm ELSE who]
        reads == MemberMessages(Serving(catalog, request), ToIR(request))
    IN  /\ HasImages(request.messages) => llm.vision # FALSE
        /\ llm.limit # None => Estimate(reads) <= llm.limit

Invited ==
    (({who \in Rostered \ Parked : AskedFor("only") # {} => who \in AskedFor("only")} \ AskedFor("exclude"))
        \cup (AskedFor("include") \cap (Rostered \cup DOMAIN catalog.llms)))

Seats == [n \in DOMAIN plan.members |-> plan.members[n].identity]
Planned == plan # None /\ plan.skip = None

\* What is told is what was not done.  The arguments of a call are read as they
\* are when there is no block to join them with.
Told(key, name) == Len(SelectSeq(plan.notices, LAMBDA n : n = Ignored(key, name)))
Unknown(key) ==
    AskedFor(key) \ (Rostered \cup IF key = "include" THEN DOMAIN catalog.llms ELSE {})
HasBlock == LastUser # 0 /\ \E n \in DOMAIN Says(request.messages[LastUser]) :
                                Directed(Says(request.messages[LastUser])[n])
Repeated(key, name) ==
    IF HasBlock \/ key = "include" THEN 1
    ELSE Len(SelectSeq(request.args.names[key], LAMBDA given : given = name))

\* No model of a panel as configured has a smaller window, or sees or searches,
\* where the listing says otherwise of the ensemble.
AsListed ==
    LET card == EnsembleCard(Serving(catalog, request))
    IN  (\A key \in RosterKeys : AskedFor(key) = {}) =>
        \A member \in Range(plan.members) :
            LET llm == catalog.llms[member.spec.llm]
            IN  /\ llm.context # None => card.context <= llm.context
                /\ HasImages(request.messages) => card.vision
                /\ "tools" \in DOMAIN member.spec.params => card.search \/ request.tools # <<>>

\* A request that finds a run in flight is given that run's answer
\* (engine/coalesce.py): two plans whose runs are found under one identity call
\* the same panel and the same concluding model with the same words
\* (domain/requestkey.py:11).
SamePanel(theirs) ==
    /\ theirs.members = plan.members /\ theirs.synth = plan.synth
    /\ theirs.client = plan.client /\ theirs.instruction = plan.instruction
    /\ theirs.skip = plan.skip
AlikeAmong(others) ==
    \A other \in {o \in others : plan.dedupe /\ RequestIdentity(o) = RequestIdentity(request)} :
        ~Turned(catalog, other) =>
            \A theirs \in {PlanFor(catalog, other)} : theirs.dedupe => SamePanel(theirs)

\* The panel that runs is the one the file, the tier and the directives describe
\* together: `only:` narrows what the tier leaves, `exclude:` drops, `include:`
\* beats both and reaches the whole catalog, a seat is taken once and by the
\* last declaration of it, models that cannot serve the request drop out, and
\* every name that means nothing is reported and costs no seat, once, or as often
\* as a tool call alone says whom to take or to drop; it is what
\* the model listing says of it; and who shares its run asked for this panel
\* (engine/plan.py:371, domain/directives.py:114, config/resolve.py:254,
\* domain/requestkey.py:49).  What
\* is asked in the arguments of a tool call is not in the identity of a run:
\* requests with such are left to SharedAlike.
PanelAsAsked ==
    Planned =>
        /\ IsInjective(Seats)
        /\ Range(Seats) = {who \in Invited : Able(who)}
        /\ \A n \in DOMAIN plan.members :
            plan.members[n].spec.llm = IF Seats[n] \in Rostered THEN Declared(Seats[n]).llm ELSE Seats[n]
        /\ \A key \in RosterKeys :
            /\ \A n \in {o \in Range(plan.notices) : "ignored" \in DOMAIN o} : n.key = key => n.ignored \in Unknown(key)
            /\ \A name \in Unknown(key) : Told(key, name) = Repeated(key, name)
        /\ AsListed
        /\ request.args = NoArgs => AlikeAmong({o \in scenario.others : o.args = NoArgs})

(***************************************************************************)
(* Effort                                                                  *)
(***************************************************************************)
\* The level a route should run at before the provider has its say; None for
\* the provider's default.
Own(spec) ==
    LET llm == catalog.llms[spec.llm] IN IF "reasoning_effort" \in DOMAIN llm.params THEN llm.params["reasoning_effort"] ELSE None
Wanted(cell, spec) ==
    CASE cell \in {"off", "skip"}                              -> Own(spec)
      [] cell = "passthrough" /\ request.effort = None         -> Own(spec)
      [] cell = "passthrough" /\ request.effort # None         -> Label(request.effort)
      [] OTHER                                                 -> cell

OnWire(spec) == EffortOnWire(spec.provider, spec.params)

\* A level a provider takes, and no other one it takes is nearer to the wanted.
ServedAs(cell, spec) ==
    LET takes == {"low", "medium", "high"} \cup IF spec.provider = "openai" THEN {"minimal"} ELSE {}
    IN  IF Wanted(cell, spec) \in {None, "none"} THEN OnWire(spec) = None
        ELSE /\ OnWire(spec) \in takes
             /\ \A other \in takes : Distance(Rung(OnWire(spec)), Rung(Wanted(cell, spec)))
                                        <= Distance(Rung(other), Rung(Wanted(cell, spec)))

RoutesOf(member) == {member.spec, member.fallback} \ {None}
SynthCell == EffortAt(EffortMatrix(Ensemble.effort, Ensemble.tiers), plan.tier)

\* A cell of the file's own matrix that says off.
SaysOff(cell) == plan.tier # None /\ cell = "off"
SeatSaysOff(who) == who \in Rostered /\ SaysOff(CellOf(who))

\* The tier is the one nearest to the effort the client asks for, the higher of
\* two, and every route of every seat, its backstop and the concluding model
\* run at the level nearest to their cell that the provider takes; a seat that
\* was parked and asked back, or is not of the ensemble, runs at its model's
\* own (engine/plan.py:131, 319, adapters/litellm_client.py:492).  What a model
\* with an effort of its own sends where the matrix says off is left to
\* OffSendsNothing.
EffortHonoured ==
    plan # None =>
        /\ plan.tier # None /\ request.effort # None =>
            \A other \in Range(Ensemble.tiers) \ {plan.tier} :
                LET far(t) == Distance(Rung(t), Rung(Label(request.effort)))
                IN  far(plan.tier) < far(other) \/ (far(plan.tier) = far(other) /\ Rung(plan.tier) > Rung(other))
        /\ \A member \in Range(plan.members) : \A spec \in RoutesOf(member) :
            (SeatSaysOff(member.identity) /\ Own(spec) # None) \/ ServedAs(CellOf(member.identity), spec)
        /\ (SaysOff(SynthCell) /\ Own(plan.synth) # None) \/ ServedAs(SynthCell, plan.synth)

\* Where the matrix says off, no reasoning parameter is sent, on any route of the
\* seat (docs/CONFIGURATION.md:804, config/types.py:131).
OffSendsNothing ==
    plan # None =>
        /\ \A member \in Range(plan.members) :
            SeatSaysOff(member.identity) => \A spec \in RoutesOf(member) : OnWire(spec) = None
        /\ SaysOff(SynthCell) => OnWire(plan.synth) = None

(***************************************************************************)
(* What the concluding model hears                                         *)
(***************************************************************************)
\* Who says what, in order: calls and results are said as well, their ids
\* aside.  Only Chat Completions has names of speakers, on either side.
Spoke(role, name, says) == [n \in DOMAIN says |-> <<role, name, says[n]>>]
HeardMessage(m) ==
    Spoke(m.role, IF plan.synth.api = "responses" \/ request.dialect # "chat" THEN "" ELSE m.name, Says(m))
        \o [c \in DOMAIN m.calls |-> <<"call", "", Word(m.calls[c].tool)>>]
HeardItem(i) ==
    CASE i.item = "message"              -> Spoke(i.role, "", i.says)
      [] i.item = "function_call"        -> <<<<"call", "", Word(i.tool)>>>>
      [] i.item = "function_call_output" -> Spoke("tool", "", i.says)
HeardAll(messages) == FlattenSeq([n \in DOMAIN messages |-> HeardMessage(messages[n])])
Heard ==
    IF plan.synth.api = "responses"
    THEN LET items == ResponsesInput(sent) IN FlattenSeq([n \in DOMAIN items |-> HeardItem(items[n])])
    ELSE HeardAll(sent)

\* The transcript without the blocks of its last user message.
Transcript ==
    [n \in DOMAIN request.messages |->
        IF n # LastUser THEN request.messages[n]
        ELSE [request.messages[n] EXCEPT !.content.blocks =
                [b \in DOMAIN @ |-> [@[b] EXCEPT !.says = SelectSeq(@, LAMBDA t : ~Directed(t))]]]]

\* What the gateway adds, with the answers of the panel in some order.
Addendum(ordered) ==
    Spoke("user", "", plan.synth.prompt) \o Spoke("user", "", Candidates(ordered))
        \o Spoke("user", "", Proposals(ordered))
Orders == {o \in [DOMAIN outcomes -> Range(outcomes)] : IsInjective(o)}

\* Whatever is translated from the client's protocol, merged, marked for a
\* cache, cut out or reshaped for another API, the concluding model hears every
\* word, image, call and result of the conversation once, in its order and from
\* its speaker, then the prompt, every answer and proposal of the panel once,
\* whichever order they came in, then the instruction; and breakpoints are set
\* for the providers that read them, no more than these allow
\* (api/translate_anthropic.py:77, api/translate_responses.py:46,
\* domain/synthesis.py:58, adapters/litellm_client.py:297,
\* domain/prompt_caching.py:45).
ConversationKept ==
    (sent # None /\ (plan.skip # None \/ Ok(outcomes) # <<>>)) =>
        /\ \E ordered \in Orders :
            Heard = HeardAll(Transcript) \o (IF plan.skip = None THEN Addendum(ordered) ELSE <<>>)
                        \o Spoke("user", "", plan.instruction)
        /\ LET marks == {n \in DOMAIN sent : \E b \in Range(sent[n].content.blocks) : b.mark}
           IN  Cardinality(marks) <= 2 /\ (marks # {} => plan.synth.provider \in AnthropicFamily)

\* The candidates are numbered and shown in the order the ensemble seats its
\* members, whoever answers first (domain/synthesis.py:8,
\* tests/golden/DEVIATIONS.md:10).
CandidatesInPlanOrder ==
    (sent # None /\ plan.skip = None /\ Ok(outcomes) # <<>>) =>
        SelectSeq(Heard, LAMBDA h : "response" \in DOMAIN h[3]) = Spoke("user", "", Candidates(Seating))

\* On a relay turn a call and its result go out under one id, calls stay
\* apart, and an id of a provider's goes only to the model it came from and for
\* the call it was given to, whatever was evicted, restarted or switched in
\* between (runtime/custody.py:31, domain/tooling.py:160).
IdsKept ==
    (sent # None /\ plan.skip = "tool_continuation") =>
        LET given == AllIds(request.messages)
            went == AllIds(sent)
        IN  /\ Len(given) = Len(went)
            /\ \A m, n \in DOMAIN given : given[m] = given[n] <=> went[m] = went[n]
            /\ \A n \in DOMAIN given : went[n] # given[n] =>
                \E e \in Range(minted) : e.client = given[n] /\ e.provider = went[n] /\ e.owner = plan.synth.llm

\* The same of every request, whichever way it says what it asks for.
SharedAlike == plan # None => AlikeAmong(scenario.others)

=============================================================================
