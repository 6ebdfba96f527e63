---------------------------- MODULE Conversation ----------------------------
(***************************************************************************)
(* What is said to a model: the directive block a human types into a       *)
(* message, the messages the concluding model reads, and what merging,     *)
(* cache breakpoints and the Responses API make of them.                   *)
(*                                                                         *)
(* A message is [role, content, calls, answers, name]: `calls` are the     *)
(* tool calls of an assistant, `answers` the id a tool result is for, ""   *)
(* when it is for none.  Content is [flat, blocks]: a string is flat and   *)
(* has one block, a multipart content has any number of them.  A block is  *)
(* what it says, a sequence of tokens, and its cache_control mark.  A      *)
(* token is a record, one of those below or a fact about an outcome.       *)
(***************************************************************************)
EXTENDS Integers, Sequences, SequencesExt, FiniteSetsExt, TLC

Word(w) == [word |-> w]
Image(url) == [image |-> url]
\* A whole block with its tags: `marker` is "system" or "legacy", and the body
\* is a sequence of lines [key, values] (key "prose" for a line without one,
\* "blank" for an empty one).
Tagged(marker, lines) == [marker |-> marker, lines |-> lines]

IsImage(token) == "image" \in DOMAIN token
IsTagged(token, marker) == "marker" \in DOMAIN token /\ token.marker = marker

BlockOf(says) == [says |-> says, mark |-> FALSE]
Text(says) == [flat |-> TRUE, blocks |-> <<BlockOf(says)>>]
Multipart(parts) == [flat |-> FALSE, blocks |-> [n \in DOMAIN parts |-> BlockOf(parts[n])]]

Message(role, content) ==
    [role |-> role, content |-> content, calls |-> <<>>, answers |-> "", name |-> ""]
User(says) == Message("user", Text(says))

Says(message) == FlattenSeq([n \in DOMAIN message.content.blocks |-> message.content.blocks[n].says])
HasImages(messages) ==
    \E n \in DOMAIN messages : \E m \in DOMAIN Says(messages[n]) : IsImage(Says(messages[n])[m])

\* Each element once, where it first appeared.
Once(s) == FoldLeft(LAMBDA seen, e : IF Contains(seen, e) THEN seen ELSE Append(seen, e), <<>>, s)

(***************************************************************************)
(* The directive block                                                     *)
(***************************************************************************)
RosterKeys == {"only", "exclude", "include"}
SettingKeys == {"show_work", "synth", "dedupe", "cache_synth"}
FilterKeys == RosterKeys \cup SettingKeys

NoDirectives ==
    [instruction |-> <<>>, names |-> [k \in RosterKeys |-> <<>>],
     settings |-> [k \in SettingKeys |-> ""], warnings |-> <<>>]

ValuesOf(lines, key) ==
    LET of == SelectSeq(lines, LAMBDA l : l.key = key)
    IN  [n \in DOMAIN of |-> of[n].values]
Spoken(lines) == FlattenSeq([n \in DOMAIN lines |-> lines[n].values])

\* How many lines from the top are blank or a known key.
HeaderLength(lines) ==
    Max({n \in 0..Len(lines) : \A m \in 1..n : lines[m].key \in FilterKeys \cup {"blank"}})

\* What follows the header is the instruction: all of it when it starts with
\* prose or with an unknown key (which is warned of), and without the key when
\* it starts with `instruction:`.  Roster keys gather the names of all their
\* lines; of any other key the last line counts.
ParseBody(lines) ==
    LET top  == SubSeq(lines, 1, HeaderLength(lines))
        rest == SubSeq(lines, HeaderLength(lines) + 1, Len(lines))
        final(key) == LET given == ValuesOf(top, key)
                      IN  IF given = <<>> \/ Last(given) = <<>> THEN "" ELSE Last(given)[1]
    IN  [instruction |-> Spoken(rest),
         names       |-> [k \in RosterKeys |-> Once(FlattenSeq(ValuesOf(top, k)))],
         settings    |-> [k \in SettingKeys |-> final(k)],
         warnings    |-> IF rest = <<>> \/ Head(rest).key \in {"prose", "instruction"} THEN <<>>
                         ELSE <<[unknown |-> Head(rest).key]>>]

\* The old marker has no header: all of its body is the instruction.
ParseLegacy(lines) == [NoDirectives EXCEPT !.instruction = Spoken(lines)]

\* The first block of the kind that is tried first is parsed, and all blocks of
\* that kind are removed with it.
TryExtract(says) ==
    LET of(marker) == SelectSeq(says, LAMBDA t : IsTagged(t, marker))
        without(marker) == SelectSeq(says, LAMBDA t : ~IsTagged(t, marker))
    IN  IF of("system") # <<>>
        THEN [says |-> without("system"), directives |-> ParseBody(of("system")[1].lines)]
        ELSE [says |-> without("legacy"), directives |-> ParseLegacy(of("legacy")[1].lines)]

\* Only the last user message is searched, and of it only the first part that
\* holds a block.  The directives are a sequence of one, or of none without a block.
ExtractSystemBlock(messages) ==
    LET last == SelectLastInSeq(messages, LAMBDA m : m.role = "user")
        block(t) == IsTagged(t, "system") \/ IsTagged(t, "legacy")
        part == IF last = 0 THEN 0
                ELSE SelectInSeq(messages[last].content.blocks, LAMBDA b : \E t \in Range(b.says) : block(t))
        tried == TryExtract(messages[last].content.blocks[part].says)
    IN  IF part = 0 THEN [messages |-> messages, directives |-> <<>>]
        ELSE [messages |-> [messages EXCEPT ![last].content.blocks[part].says = tried.says],
              directives |-> <<tried.directives>>]

\* Mutant of Union: the arguments of a tool call replace the block's names.
UnionReplacing(block, given) ==
    [instruction |-> IF given.instruction # <<>> THEN given.instruction ELSE block.instruction,
     names       |-> [k \in RosterKeys |-> IF given.names[k] # <<>> THEN given.names[k] ELSE block.names[k]],
     settings    |-> [k \in SettingKeys |-> IF given.settings[k] # "" THEN given.settings[k] ELSE block.settings[k]],
     warnings    |-> Once(block.warnings \o given.warnings)]

\* Of both, names are gathered, each once, and of a setting the argument wins.
Union(block, given) ==
    [instruction |-> IF given.instruction # <<>> THEN given.instruction ELSE block.instruction,
     names       |-> [k \in RosterKeys |-> Once(block.names[k] \o given.names[k])],
     settings    |-> [k \in SettingKeys |-> IF given.settings[k] # "" THEN given.settings[k] ELSE block.settings[k]],
     warnings    |-> Once(block.warnings \o given.warnings)]

\* The block, if there is one, and the arguments of a tool call, if there are any:
\* one of them alone is taken as it is, a name it repeats included.
Merged(block, given) ==
    FoldLeft(LAMBDA merged, d : IF merged = <<>> THEN <<d>> ELSE <<Union(merged[1], d)>>, <<>>, block \o given)

(***************************************************************************)
(* Merging turns of one role                                               *)
(***************************************************************************)
Plumbing(message) == message.calls # <<>> \/ message.answers # ""

Joinable(previous, message) ==
    /\ previous.role = message.role
    /\ previous.name = message.name
    /\ ~Plumbing(previous) /\ ~Plumbing(message)

AsParts(content) == IF content = Text(<<>>) THEN <<>> ELSE content.blocks

\* Mutant of JoinContent: of a multipart message its first part is kept.
JoinContentFirstPart(first, second) ==
    IF first.flat /\ second.flat
    THEN Text(first.blocks[1].says \o second.blocks[1].says)
    ELSE [flat |-> FALSE, blocks |-> AsParts(first) \o SubSeq(AsParts(second), 1, 1)]

JoinContent(first, second) ==
    IF first.flat /\ second.flat
    THEN Text(first.blocks[1].says \o second.blocks[1].says)
    ELSE [flat |-> FALSE, blocks |-> AsParts(first) \o AsParts(second)]

MergeSameRole(messages) ==
    FoldLeft(LAMBDA merged, m :
                IF merged # <<>> /\ Joinable(Last(merged), m)
                THEN Append(Front(merged), [Last(merged) EXCEPT !.content = JoinContent(@, m.content)])
                ELSE Append(merged, m),
             <<>>, messages)

(***************************************************************************)
(* What the concluding model reads.  An outcome is [who, ok, says, calls]  *)
(* with calls a sequence of [id, tool].                                    *)
(***************************************************************************)
Ok(outcomes) == SelectSeq(outcomes, LAMBDA o : o.ok)

AppendInstruction(messages, instruction) ==
    IF instruction = <<>> THEN messages ELSE Append(messages, User(instruction))

Candidates(outcomes) ==
    [i \in DOMAIN Ok(outcomes) |->
        [response |-> i, of |-> Len(Ok(outcomes)), says |-> Ok(outcomes)[i].says]]

Proposals(outcomes) ==
    FlattenSeq([n \in DOMAIN outcomes |->
        [c \in DOMAIN outcomes[n].calls |->
            [by |-> outcomes[n].who, proposed |-> outcomes[n].calls[c].tool]]])

\* History, the prompt, the candidates, what was proposed, the instruction.
BuildSynthesisMessages(history, outcomes, prompt, instruction) ==
    LET turn(says) == IF says = <<>> THEN <<>> ELSE <<User(says)>>
    IN  AppendInstruction(history \o turn(prompt) \o <<User(Candidates(outcomes))>>
                                  \o turn(Proposals(outcomes)), instruction)

AllFailedMessage(outcomes) ==
    <<User([n \in DOMAIN outcomes |-> [failed |-> outcomes[n].who]])>>

(***************************************************************************)
(* Choosing a member's tool call.  Two calls are one when they name the    *)
(* same tool with the same arguments, which `tool` stands for.             *)
(***************************************************************************)
Voters(outcomes, tool) ==
    {n \in DOMAIN outcomes : \E c \in DOMAIN outcomes[n].calls : outcomes[n].calls[c].tool = tool}

\* The call most members propose, the one seen first among equals; empty when
\* none reaches the threshold.
VoteWinner(outcomes, threshold) ==
    LET calls == FlattenSeq([n \in DOMAIN outcomes |-> outcomes[n].calls])
        votes(n) == Cardinality(Voters(outcomes, calls[n].tool))
        elected == {n \in DOMAIN calls : votes(n) >= threshold}
        first == {n \in elected : \A m \in elected :
                    votes(n) > votes(m) \/ (votes(n) = votes(m) /\ n <= m)}
    IN  IF elected = {} THEN <<>> ELSE <<calls[CHOOSE n \in first : TRUE]>>

SelectMemberToolCall(outcomes, strategy, threshold) ==
    LET proposing == SelectSeq(outcomes, LAMBDA o : o.calls # <<>>)
    IN  CASE strategy = "first" /\ proposing # <<>> -> Head(proposing).calls
          [] strategy = "vote"                      -> VoteWinner(outcomes, threshold)
          [] OTHER                                  -> <<>>

(***************************************************************************)
(* Relay turns                                                             *)
(***************************************************************************)
\* A tool result after the last assistant turn.
ClassifyTurn(messages) ==
    LET after == SelectLastInSeq(messages, LAMBDA m : m.role = "assistant")
    IN  IF \E n \in after + 1 .. Len(messages) : messages[n].role = "tool" THEN "relay" ELSE "fresh"

\* Mutant of RestoreToolIds: the results keep the id the client knows.
RestoreCallIds(messages, ids) ==
    [n \in DOMAIN messages |->
        [messages[n] EXCEPT !.calls = [c \in DOMAIN @ |-> [@[c] EXCEPT !.id = ids[@]]]]]

\* `ids` is what custody says of every id in the messages.
RestoreToolIds(messages, ids) ==
    [n \in DOMAIN messages |->
        [messages[n] EXCEPT !.calls = [c \in DOMAIN @ |-> [@[c] EXCEPT !.id = ids[@]]],
                            !.answers = IF @ = "" THEN "" ELSE ids[@]]]

(***************************************************************************)
(* What goes out                                                           *)
(***************************************************************************)
\* The last system message and the message before the final one.
CacheTargets(messages) ==
    ({SelectLastInSeq(messages, LAMBDA m : m.role = "system")} \cup {Len(messages) - 1}) \cap DOMAIN messages

\* To mark the end of a list without parts is an IndexError.
Markable(messages) == \A n \in CacheTargets(messages) : messages[n].content.blocks # <<>>

\* They are marked at their end; at most two breakpoints.
InjectAnthropicCache(messages) ==
    [n \in DOMAIN messages |->
        IF n \in CacheTargets(messages)
        THEN [messages[n] EXCEPT !.content.flat = FALSE,
                                 !.content.blocks[Len(messages[n].content.blocks)].mark = TRUE]
        ELSE messages[n]]

\* The items of the Responses API: no item for a string that is empty or a
\* list without parts, one for each call, and results are items of their own.
ItemsOf(message) ==
    IF message.role = "tool"
    THEN <<[item |-> "function_call_output", id |-> message.answers, says |-> Says(message)]>>
    ELSE (IF message.content = Text(<<>>) \/ message.content.blocks = <<>> THEN <<>>
          ELSE <<[item |-> "message", role |-> message.role, says |-> Says(message)]>>)
         \o [c \in DOMAIN message.calls |->
                [item |-> "function_call", id |-> message.calls[c].id, tool |-> message.calls[c].tool]]
ResponsesInput(messages) == FlattenSeq([n \in DOMAIN messages |-> ItemsOf(messages[n])])

=============================================================================
