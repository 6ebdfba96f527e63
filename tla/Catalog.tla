------------------------------ MODULE Catalog ------------------------------
(***************************************************************************)
(* How the configuration becomes the catalog the planner reads: variants   *)
(* and `extends` chains, the effort matrix of an ensemble, the patches to  *)
(* its roster, and the card a model listing shows of it.                   *)
(*                                                                         *)
(* A configured llm is a record                                            *)
(*   [name, extends, own, params, variants]                                *)
(* where `own` and `params` are functions over what the entry sets itself  *)
(* (a param set to None is `null` in the file) and `variants` is a         *)
(* sequence of [suffix, own, params].  An ensemble is a record             *)
(*   [strategy, tiers, default, members, exclude, include, synth, effort,  *)
(*    prompt, continuation, summary, propose, threshold, overflow,         *)
(*    show_work]                                                           *)
(* with `effort` the synthesizer's, `prompt` [plain, search], and `propose`*)
(* the tool strategy; a seat is [as, llm, effort].  `config.policy` is     *)
(* [min, merge, dedupe, caching, cacheSynth, breakpoints]: what is set for *)
(* the whole gateway.                                                      *)
(***************************************************************************)
EXTENDS Integers, Sequences, SequencesExt, FiniteSetsExt, TLC

CONSTANT None

(***************************************************************************)
(* Effort                                                                  *)
(***************************************************************************)
Levels == <<"none", "minimal", "low", "medium", "high", "xhigh", "max">>
Rung(level) == CHOOSE n \in DOMAIN Levels : Levels[n] = level
Distance(a, b) == IF a < b THEN b - a ELSE a - b

\* The aliases a client or a file may use.
Aliases == "min" :> "minimal" @@ "l" :> "low" @@ "m" :> "medium" @@ "h" :> "high" @@ "xh" :> "xhigh"
IsLevel(token) == token \in Range(Levels) \cup DOMAIN Aliases
Label(token) == IF token \in DOMAIN Aliases THEN Aliases[token] ELSE token

\* Mutant of NearestTier: the tie goes to the lower tier.
NearestTierLow(requested, tiers) ==
    CHOOSE t \in tiers : \A u \in tiers :
        \/ Distance(Rung(t), Rung(requested)) < Distance(Rung(u), Rung(requested))
        \/ Distance(Rung(t), Rung(requested)) = Distance(Rung(u), Rung(requested)) /\ Rung(t) <= Rung(u)

NearestTier(requested, tiers) ==
    CHOOSE t \in tiers : \A u \in tiers :
        \/ Distance(Rung(t), Rung(requested)) < Distance(Rung(u), Rung(requested))
        \/ Distance(Rung(t), Rung(requested)) = Distance(Rung(u), Rung(requested)) /\ Rung(t) >= Rung(u)

\* An effort is a cell for every tier, a list along the tiers, or a map over
\* some of them; a missing one and a tier the map leaves out are "off".
EffortFits(effort, tiers) ==
    tiers # None =>
        /\ effort.kind = "list" => Len(effort.cells) = Len(tiers)
        /\ effort.kind = "map" => DOMAIN effort.cells \subseteq Range(tiers)

EffortMatrix(effort, tiers) ==
    IF tiers = None THEN <<>>
    ELSE [t \in Range(tiers) |->
            CASE effort.kind = "none" -> "off"
              [] effort.kind = "cell" -> Label(effort.cell)
              [] effort.kind = "list" -> Label(effort.cells[CHOOSE n \in DOMAIN tiers : tiers[n] = t])
              [] effort.kind = "map"  -> IF t \in DOMAIN effort.cells THEN Label(effort.cells[t]) ELSE "off"]

(***************************************************************************)
(* Models                                                                  *)
(***************************************************************************)
Entry(entries, name) == entries[Max({n \in DOMAIN entries : entries[n].name = name})]
Names(entries) == {entries[n].name : n \in DOMAIN entries}

Child(parent, variant) ==
    [name |-> parent.name \o "-" \o variant.suffix, extends |-> parent.name,
     own |-> variant.own, params |-> variant.params, variants |-> <<>>]

\* Each variant becomes an entry of its own that extends its parent.  Only an
\* entry of the file is protected from being replaced by one.
ExpandVariants(llms) ==
    llms \o FlattenSeq([n \in DOMAIN llms |->
        [v \in DOMAIN llms[n].variants |-> Child(llms[n], llms[n].variants[v])]])

VariantsFit(llms) ==
    \A n \in DOMAIN llms : \A v \in DOMAIN llms[n].variants :
        Child(llms[n], llms[n].variants[v]).name \notin Names(llms)

\* The entries a model inherits from, the root first and itself last.  A chain
\* longer than the file has entries is a cycle.
Lineage(entries, name) ==
    LET up[n \in Nat] ==
            IF n = 0 THEN <<name>>
            ELSE LET top == Head(up[n - 1])
                 IN  IF top \notin Names(entries) \/ Entry(entries, top).extends = None
                     THEN up[n - 1]
                     ELSE <<Entry(entries, top).extends>> \o up[n - 1]
    IN  up[Cardinality(Names(entries))]

LineageFits(entries, name) ==
    /\ Range(Lineage(entries, name)) \subseteq Names(entries)
    /\ IsInjective(Lineage(entries, name))

Defaults ==
    [model |-> None, api |-> "chat", search |-> None, vision |-> None, context |-> None,
     limit |-> None, fallback |-> None]

\* What an entry sets itself wins over what it inherits.
Inherit(entries, line) ==
    FoldLeft(LAMBDA above, name : Entry(entries, name).own @@ above, Defaults, line)

\* deep_merge: None deletes the inherited key.
DeepMerge(base, over) ==
    [k \in (DOMAIN base \cup DOMAIN over) \ {d \in DOMAIN over : over[d] = None} |->
        IF k \in DOMAIN over THEN over[k] ELSE base[k]]

\* The params of the root are taken as they are, a null among them included.
InheritParams(entries, line) ==
    FoldLeft(LAMBDA above, name : DeepMerge(above, Entry(entries, name).params),
             Entry(entries, Head(line)).params, Tail(line))

ResolveLlm(entries, name) ==
    LET line == Lineage(entries, name)
    IN  ("name" :> name @@ "params" :> InheritParams(entries, line)) @@ Inherit(entries, line)

(***************************************************************************)
(* Ensembles                                                               *)
(***************************************************************************)
Identity(seat) == IF seat.as = None THEN seat.llm ELSE seat.as
Seated(seats, who) == \E n \in DOMAIN seats : Identity(seats[n]) = who

\* Mutant of SeatOf: a member that is included is always appended.
SeatOfAppended(seats, seat) == Append(seats, seat)

\* A member that is already seated is redeclared in its place.
SeatOf(seats, seat) ==
    IF Seated(seats, Identity(seat))
    THEN [n \in DOMAIN seats |-> IF Identity(seats[n]) = Identity(seat) THEN seat ELSE seats[n]]
    ELSE Append(seats, seat)

\* Exclusions first; inclusions win over them.  Excluding nobody is no error.
PatchRoster(seats, ens) ==
    FoldLeft(SeatOf, SelectSeq(seats, LAMBDA s : Identity(s) \notin ens.exclude), ens.include)

\* `members: all`: every llm in the order it was resolved, parents first.
ResolutionOrder(entries) ==
    FoldLeft(LAMBDA seen, e :
                seen \o SelectSeq(Lineage(entries, e.name), LAMBDA name : name \notin Range(seen)),
             <<>>, entries)

Roster(entries, ens) ==
    LET listed == IF ens.members.kind = "all"
                  THEN LET kept == SelectSeq(ResolutionOrder(entries),
                                             LAMBDA name : name \notin ens.members.exclude)
                       IN  [n \in DOMAIN kept |-> [as |-> None, llm |-> kept[n], effort |-> [kind |-> "none"]]]
                  ELSE ens.members.seats
    IN  PatchRoster(listed, ens)

RosterFits(entries, ens) ==
    LET seats == Roster(entries, ens)
    IN  /\ ens.members.kind = "all" => ens.members.exclude \subseteq Names(entries)
        /\ ens.strategy = "synthesize" => seats # <<>>
        /\ ens.strategy = "passthrough" => Len(seats) <= 1
        /\ \A n \in DOMAIN seats :
            seats[n].llm \in Names(entries) /\ EffortFits(seats[n].effort, ens.tiers)
        /\ ens.synth \in Names(entries) /\ EffortFits(ens.effort, ens.tiers)

ResolveEnsemble(entries, ens) ==
    LET seats == Roster(entries, ens)
    IN  [ens EXCEPT !.members = [n \in DOMAIN seats |->
                        [identity |-> Identity(seats[n]), llm |-> seats[n].llm,
                         effort |-> EffortMatrix(seats[n].effort, ens.tiers)]],
                    !.effort = EffortMatrix(@, ens.tiers)]

\* Whether resolve_catalog accepts the file, and what it makes of it.
Resolvable(config) ==
    LET entries == ExpandVariants(config.llms)
    IN  /\ VariantsFit(config.llms)
        /\ \A name \in Names(entries) : LineageFits(entries, name)
        /\ \A name \in Names(entries) :
            LET llm == ResolveLlm(entries, name)
            IN  llm.model # None /\ llm.fallback \in Names(entries) \cup {None}
        /\ RosterFits(entries, config.ensemble)

ResolveCatalog(config) ==
    LET entries == ExpandVariants(config.llms)
    IN  [llms |-> [name \in Names(entries) |-> ResolveLlm(entries, name)],
         ensemble |-> ResolveEnsemble(entries, config.ensemble)] @@ config.policy

(***************************************************************************)
(* The card of a model listing                                             *)
(***************************************************************************)
Sees(llm) == llm.vision # FALSE

SmallestWindow(llms) ==
    LET known == {l.context : l \in {m \in llms : m.context # None}}
    IN  IF known = {} THEN None ELSE Min(known)

EnsembleCard(catalog) ==
    LET members == {catalog.llms[m.llm] : m \in Range(catalog.ensemble.members)}
        synth == catalog.llms[catalog.ensemble.synth]
    IN  [vision |-> IF members = {} THEN Sees(synth) ELSE \E m \in members : Sees(m),
         search |-> \E m \in members \cup {synth} : m.search # None,
         context |-> SmallestWindow(members \cup {synth})]

=============================================================================
