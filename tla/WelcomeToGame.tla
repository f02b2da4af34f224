----------------------------- MODULE WelcomeToGame -----------------------------
(***************************************************************************)
(* The Welcome To engine (games/welcome_to/game.py, sheet.py, plans.py).   *)
(* Players fill in their sheets at the same time; the engine plays a turn  *)
(* as one private turn of each seat after the other, and then crosses the  *)
(* turn boundary: cards are discarded, drawn and, once in a game, all of   *)
(* them shuffled again.                                                    *)
(*                                                                         *)
(* A sheet has one street here, and as many boxes as the configuration     *)
(* says, the outermost of which are its extremities; tracks of the sheet   *)
(* that only count are one function of counters, of one length.  Points    *)
(* are left out.  A shuffle puts cards in one of two orders.               *)
(***************************************************************************)
EXTENDS Integers, SequencesExt, FiniteSetsExt

CONSTANTS
    Configs,     (* records of players, mode, advanced, boxes, cards, plans *)
    Number,      (* the number of each card                                 *)
    Effect,      (* the effect of each card                                 *)
    Plans,       (* the City Plans there are: estates of the given sizes,   *)
                 (* the whole street, both its ends, or tracks marked to    *)
                 (* the end and perhaps a roundabout                        *)
    Deltas,      (* what a temp agency may add to a number                  *)
    Values,      (* the numbers there are                                   *)
    PermitBoxes, RoundaboutBoxes,
    TrackBoxes,  (* boxes of any other track                                *)
    PoolBoxes    (* the boxes of the street that have a pool                *)

VARIABLES
    config, phase, actor, turn,
    sheets, public,   (* public: as they were when the turn began           *)
    table,            (* deck, discard, stacks, and cards to be passed on   *)
    done,             (* done[plan][seat]: the turn it was completed in     *)
    ctx,              (* the private turn being played                      *)
    choice,           (* the combination each seat chose this turn          *)
    votes             (* seats that have asked, this turn, for a reshuffle  *)

wtVars == <<config, phase, actor, turn, sheets, public, table, done, ctx, choice, votes>>

None       == 0
Roundabout == -1
Never      == -1
Ghost      == 0    (* SOLO_MOCK_PLAYER *)
PlanSlots  == config.plans
Stacks     == 1..3
Seats      == 1..config.players
Standard   == config.mode = "standard"
Expert     == config.mode = "expert"
Solo       == config.mode = "solo"
SoloCard   == Max(config.cards) + 1
Street     == 1..config.boxes
Groups     == IF Expert THEN Seats ELSE {1}
Marks      == {"estate", "park", "pool", "temp", "bis"}

(***************************************************************************)
(* Sheets.                                                                 *)
(***************************************************************************)
EmptySheet(boxes) ==
    [row |-> [y \in 1..boxes |-> None], fences |-> {}, tops |-> {},
     marks |-> [m \in Marks |-> 0], permits |-> 0, roundabouts |-> 0]

Boxes(s) == DOMAIN s.row
Free(s)  == {y \in Boxes(s) : s.row[y] = None}

(* The numbers next to y on either side, up to a roundabout or the end.    *)
Left(s, y)  == LET w == {i \in Boxes(s) \ Free(s) : i < y} IN
               IF w = {} THEN Roundabout ELSE s.row[Max(w)]
Right(s, y) == LET w == {i \in Boxes(s) \ Free(s) : i > y} IN
               IF w = {} THEN Roundabout ELSE s.row[Min(w)]

Locations(s, n) ==
    {y \in Free(s) : /\ Left(s, y) # Roundabout => Left(s, y) < n
                     /\ Right(s, y) # Roundabout => n < Right(s, y)}

(* Pairs of an empty box and the house beside it that may be repeated.     *)
BisCandidates(s) ==
    {<<y, z>> \in Free(s) \X Boxes(s) :
        \/ z = y - 1 /\ s.row[z] \notin {None, Roundabout} /\ z \notin s.fences
        \/ z = y + 1 /\ s.row[z] \notin {None, Roundabout} /\ y \notin s.fences}

(* Faulty variant: a fence between a house and its bis.                    *)
SurveyorAnywhere(s) ==
    {j \in Boxes(s) \ {Cardinality(Boxes(s))} :
        j \notin s.fences /\ ~(j \in s.tops /\ j + 1 \in s.tops)}

SurveyorZones(s) ==
    {j \in Boxes(s) \ {Cardinality(Boxes(s))} :
        /\ j \notin s.fences
        /\ s.row[j] # None => /\ ~(j \in s.tops /\ j + 1 \in s.tops)
                              /\ s.row[j] # s.row[j + 1]}

FreeEstates(s) ==
    {<<a, b>> \in Boxes(s) \X Boxes(s) :
        /\ a <= b
        /\ a = 1 \/ a - 1 \in s.fences
        /\ b = Cardinality(Boxes(s)) \/ b \in s.fences
        /\ \A y \in a..b : /\ s.row[y] \notin {None, Roundabout}
                           /\ y \notin s.tops
                           /\ y # b => y \notin s.fences}

SizeOf(e) == e[2] - e[1] + 1

Matching(s, size, chosen) == {e \in FreeEstates(s) \ chosen : SizeOf(e) = size}

Extremities(s) == {1, Cardinality(Boxes(s))}

(* The plans that count parks, pools, bis or temps want tracks that are    *)
(* full; COMPLETE_STREET also wants a roundabout.                          *)
CanBeScored(plan, s) ==
    CASE plan.kind = "estate" ->
            \A k \in DOMAIN plan.sizes :
                Cardinality(Matching(s, plan.sizes[k], {}))
                    >= Cardinality({j \in DOMAIN plan.sizes : plan.sizes[j] = plan.sizes[k]})
      [] plan.kind = "street" -> Free(s) = {} /\ s.tops = {}
      [] plan.kind = "ends"   -> Extremities(s) \cap (Free(s) \cup s.tops) = {}
      [] plan.kind = "tracks" -> /\ \A m \in plan.needs : s.marks[m] = TrackBoxes
                                 /\ plan.roundabout => \E y \in Boxes(s) : s.row[y] = Roundabout

ValidationCells(plan, s, chosen) ==
    CASE plan.kind = "estate" -> UNION {e[1]..e[2] : e \in chosen}
      [] plan.kind = "street" -> Boxes(s)
      [] plan.kind = "ends"   -> Extremities(s)
      [] plan.kind = "tracks" -> {}

(***************************************************************************)
(* The cards.  A table is a record; hand holds what a boundary has drawn.  *)
(***************************************************************************)
Orders == {"rising", "falling"}

InOrder(cards) ==
    [i \in 1..Cardinality(cards) |->
        CHOOSE c \in cards : Cardinality({d \in cards : d < c}) = i - 1]

Shuffled(cards, order) ==
    IF order = "rising" THEN InOrder(cards) ELSE Reverse(InOrder(cards))

Reform(t, order) ==
    [t EXCEPT !.deck = Shuffled(ToSet(@) \cup t.discard, order), !.discard = {}]

(* n playable cards.  The deck is formed again once it is empty; the solo  *)
(* card is put aside for good, and another card drawn in its place.        *)
DrawPlayable(t, n, order) ==
    LET m    == IF SoloCard \in ToSet(SubSeq(t.deck, 1, Min({n, Len(t.deck)}))) THEN n + 1 ELSE n
        pile == IF Len(t.deck) < m THEN t.deck \o Shuffled(t.discard, order) ELSE t.deck
    IN  [t EXCEPT !.deck    = SubSeq(pile, m + 1, Len(pile)),
                  !.discard = IF Len(t.deck) < m THEN {} ELSE @,
                  !.hand    = SelectSeq(SubSeq(pile, 1, m), LAMBDA c : c # SoloCard),
                  !.solo    = @ \/ m = n + 1]

NoCards == [g \in Groups |-> [i \in Stacks |-> None]]
Cards(stacks) == {stacks[g][i] : g \in Groups, i \in Stacks} \ {None}

DiscardStep(t) ==
    IF Standard
    THEN [t EXCEPT !.discard = @ \cup Cards(t.old), !.old = t.new, !.new = NoCards]
    ELSE [t EXCEPT !.discard = @ \cup Cards(t.new), !.new = NoCards]

(* How many cards the seats before g draw, when those passed on count.     *)
Before(t, g) == 3 * (g - 1) - Cardinality({h \in Seats : h < g /\ t.passed[h] # None})

DrawStep(t, order) ==
    LET kept(g) == IF Expert /\ t.passed[g] # None THEN 1 ELSE 0
        r == DrawPlayable(t, IF Expert THEN Before(t, config.players + 1) ELSE 3, order)
    IN  [r EXCEPT !.new = [g \in Groups |-> [i \in Stacks |->
                              IF i <= kept(g) THEN t.passed[g]
                              ELSE r.hand[Before(t, g) + i - kept(g)]]],
                  !.passed = [p \in Seats |-> None],
                  !.hand = <<>>]

ReshuffleDecks(t, order) ==
    LET f == Reform(t, order) IN
    IF Standard
    THEN LET r == DrawPlayable(f, 3, order) IN
         DiscardStep([r EXCEPT !.new = [g \in Groups |-> r.hand], !.hand = <<>>])
    ELSE LET needs == InOrder({p \in Seats : t.passed[p] = None})
             r == DrawPlayable(f, Len(needs), order)
         IN  [r EXCEPT !.passed = [p \in Seats |->
                              IF t.passed[p] # None THEN t.passed[p]
                              ELSE r.hand[CHOOSE k \in DOMAIN needs : needs[k] = p]],
                       !.hand = <<>>]

Spare(pair) == CHOOSE i \in Stacks : i \notin {pair[1], pair[2]}

PassUnused(t) ==
    LET giver(p) == IF p = 1 THEN config.players ELSE p - 1 IN
    [t EXCEPT !.passed = [p \in Seats |->
                  IF choice[giver(p)] = <<>> THEN @[p]
                  ELSE t.new[giver(p)][Spare(choice[giver(p)])]],
              !.new = [p \in Seats |-> [i \in Stacks |->
                  IF choice[p] # <<>> /\ i = Spare(choice[p]) THEN None ELSE @[p][i]]]]

(***************************************************************************)
(* The turn boundary: prepare_turn_boundary, _reveal_step and _open_turn,  *)
(* of the sheets, completed plans and votes the private turns have left.   *)
(***************************************************************************)
NewTurn == [number |-> None, effect |-> "none", house |-> None, declined |-> FALSE,
            plan |-> None, sizes |-> <<>>, chosen |-> {}]
NoVotes  == [p \in Seats |-> FALSE]
NoChoice == [p \in Seats |-> <<>>]

IsEndOfGame(all, d) ==
    \/ \E p \in Seats : \/ Free(all[p]) = {}
                        \/ \A k \in PlanSlots : d[k][p] # Never
                        \/ all[p].permits = PermitBoxes
    \/ Solo /\ table.deck = <<>>

(* The ghost completes every plan that it has not, as of the turn before.  *)
GhostClaims(d, t) ==
    IF ~t.solo THEN d
    ELSE [k \in PlanSlots |-> [d[k] EXCEPT ![Ghost] = IF @ = Never THEN turn ELSE @]]

CrossBoundary(all, d, v) ==
    LET t == IF Expert THEN PassUnused(table) ELSE table IN
    /\ turn' = turn + 1
    /\ sheets' = all /\ public' = all
    /\ IF IsEndOfGame(all, d)
       THEN /\ phase' = "over" /\ actor' = config.players + 1
            /\ table' = t /\ done' = d /\ votes' = v /\ UNCHANGED <<ctx, choice>>
       ELSE /\ \E order \in Orders, s \in {DiscardStep(t)} :
                 \E r \in {IF \E p \in Seats : v[p] THEN ReshuffleDecks(s, order) ELSE s} :
                     table' = DrawStep(r, order)
            /\ done' = GhostClaims(d, table')
            /\ phase' = "cards" /\ actor' = 1
            /\ ctx' = NewTurn /\ choice' = NoChoice /\ votes' = NoVotes

FinishPlayerTurn(all, d, v) ==
    IF actor < config.players
    THEN /\ actor' = actor + 1 /\ phase' = "cards" /\ ctx' = NewTurn
         /\ sheets' = all /\ done' = d /\ votes' = v
         /\ UNCHANGED <<turn, public, table, choice>>
    ELSE CrossBoundary(all, d, v)

(***************************************************************************)
(* The private turn.                                                       *)
(***************************************************************************)
Sheet == sheets[actor]

Combinations ==
    IF Standard THEN {<<i, i>> : i \in Stacks}
                ELSE {c \in Stacks \X Stacks : c[1] # c[2]}
Group        == IF Expert THEN actor ELSE 1
NumberOf(c)  == Number[table.new[Group][c[1]]]
EffectOf(c)  == Effect[(IF Standard THEN table.old ELSE table.new)[Group][c[2]]]

NumbersFor(n, effect) ==
    IF effect = "temp" THEN {n + delta : delta \in Deltas} \cap Values ELSE {n}

Writable(n, effect) == {w \in NumbersFor(n, effect) \X Boxes(Sheet) :
                            w[2] \in Locations(Sheet, w[1])}

PlayableSlots == {c \in Combinations : Writable(NumberOf(c), EffectOf(c)) # {}}

Scorable(s, d) == {k \in PlanSlots : d[k][actor] = Never /\ CanBeScored(Plans[k], s)}

(* Faulty variant: whoever plays after the first completion is not asked.  *)
MayAskUntilCompleted(d) == ~Solo /\ \A k \in PlanSlots, p \in Seats : d[k][p] = Never

(* A reshuffle is only on offer in the turn of the first completed plan.   *)
MayAskReshuffle(d) ==
    ~Solo /\ \A k \in PlanSlots, p \in Seats : d[k][p] # Never => d[k][p] >= turn

(* _settle: what is resolved without asking anybody.                       *)
Settle(p, s, d, v, c) ==
    LET q   == IF \/ p = "park" /\ s.marks["park"] = TrackBoxes
                  \/ p = "pool" /\ ~(c.house \in PoolBoxes /\ s.marks["pool"] < TrackBoxes)
                  \/ p = "ask"  /\ ~MayAskReshuffle(d)
               THEN "plan" ELSE p
        all == [sheets EXCEPT ![actor] = s]
    IN  IF q = "plan" /\ Scorable(s, d) = {}
        THEN FinishPlayerTurn(all, d, v)
        ELSE /\ phase' = q /\ ctx' = c
             /\ sheets' = all /\ done' = d /\ votes' = v
             /\ UNCHANGED <<actor, turn, public, table, choice>>

(* Actions are pairs of a kind and what it is about.                       *)
Only(kind, args) == {kind} \X args
Pass == {<<"pass", None>>}

LegalActions ==
    CASE phase = "cards" ->
            LET stacks == Only("stack", PlayableSlots) IN
            stacks
            \cup (IF stacks = {} /\ Sheet.permits < PermitBoxes
                  THEN {<<"permit", None>>} ELSE {})
            \cup (IF /\ config.advanced /\ ctx.house = None /\ ~ctx.declined
                     /\ Sheet.roundabouts < RoundaboutBoxes /\ Free(Sheet) # {}
                  THEN {<<"roundabout", None>>} ELSE {})
      [] phase = "roundabout" -> Only("place", Free(Sheet)) \cup Pass
      [] phase = "write" ->
            Only("write", Writable(ctx.number, ctx.effect))
            \cup (IF Locations(Sheet, ctx.number) = {} /\ Sheet.permits < PermitBoxes
                  THEN {<<"permit", None>>} ELSE {})
      [] phase = "surveyor" -> Only("fence", SurveyorZones(Sheet)) \cup Pass
      [] phase = "estate"   ->
            (IF Sheet.marks["estate"] < TrackBoxes THEN {<<"mark", "estate">>} ELSE {})
            \cup Pass
      [] phase \in {"park", "pool"} -> {<<"mark", phase>>} \cup Pass
      [] phase = "bis"      -> Only("repeat", BisCandidates(Sheet)) \cup Pass
      [] phase = "plan"     -> Only("plan", Scorable(Sheet, done)) \cup Pass
      [] phase = "validate" -> Only("spend", Matching(Sheet, Head(ctx.sizes), ctx.chosen))
      [] phase = "ask"      -> Only("vote", BOOLEAN)
      [] phase = "over"     -> {}

Fence(y) == {j \in {y - 1, y} : j \in Street \ {config.boxes}}
Marked(s, m) == [s EXCEPT !.marks[m] = Min({@ + 1, TrackBoxes})]

Refuse(legal) ==
    /\ <<"permit", None>> \in legal
    /\ Settle("plan", [Sheet EXCEPT !.permits = @ + 1], done, votes, ctx)

ChooseCards(legal) ==
    \E c \in Combinations :
        /\ <<"stack", c>> \in legal
        /\ ctx' = [ctx EXCEPT !.number = NumberOf(c), !.effect = EffectOf(c)]
        /\ choice' = [choice EXCEPT ![actor] = c]
        /\ phase' = "write"
        /\ UNCHANGED <<actor, turn, sheets, public, table, done, votes>>

OpenRoundabout(legal) ==
    /\ <<"roundabout", None>> \in legal
    /\ phase' = "roundabout"
    /\ UNCHANGED <<actor, turn, sheets, public, table, done, ctx, choice, votes>>

PlaceRoundabout(legal) ==
    \E y \in Street :
        /\ <<"place", y>> \in legal
        /\ Settle("cards",
                  [Sheet EXCEPT !.row[y] = Roundabout, !.fences = @ \cup Fence(y),
                                !.roundabouts = @ + 1],
                  done, votes, [ctx EXCEPT !.house = y])

(* Faulty variant: a roundabout that may be opened again after declining.  *)
DeclineUnnoticed == phase = "roundabout" /\ Settle("cards", Sheet, done, votes, ctx)

DeclineRoundabout ==
    /\ phase = "roundabout"
    /\ Settle("cards", Sheet, done, votes, [ctx EXCEPT !.declined = TRUE])

WriteNumber(legal) ==
    \E w \in Values \X Street :
        /\ <<"write", w>> \in legal
        /\ LET s == [Sheet EXCEPT !.row[w[2]] = w[1]] IN
           IF ctx.effect = "temp"
           THEN Settle("plan", Marked(s, "temp"), done, votes, [ctx EXCEPT !.house = w[2]])
           ELSE Settle(ctx.effect, s, done, votes, [ctx EXCEPT !.house = w[2]])

UseEffect(legal) ==
    \/ \E j \in Street :
          /\ <<"fence", j>> \in legal
          /\ Settle("plan", [Sheet EXCEPT !.fences = @ \cup {j}], done, votes, ctx)
    \/ \E m \in Marks :
          /\ <<"mark", m>> \in legal
          /\ Settle("plan", Marked(Sheet, m), done, votes, ctx)
    \/ \E b \in Street \X Street :
          /\ <<"repeat", b>> \in legal
          /\ Settle("plan", Marked([Sheet EXCEPT !.row[b[1]] = Sheet.row[b[2]]], "bis"),
                    done, votes, [ctx EXCEPT !.house = b[1]])

PassEffect ==
    /\ phase \in {"surveyor", "estate", "park", "pool", "bis"}
    /\ Settle("plan", Sheet, done, votes, ctx)

Validate(k, chosen) ==
    Settle("ask",
           [Sheet EXCEPT !.tops = @ \cup ValidationCells(Plans[k], Sheet, chosen)],
           [done EXCEPT ![k][actor] = turn], votes,
           [ctx EXCEPT !.plan = None, !.sizes = <<>>, !.chosen = {}])

ChoosePlan(legal) ==
    \E k \in PlanSlots :
        /\ <<"plan", k>> \in legal
        /\ IF Plans[k].kind # "estate" THEN Validate(k, {})
           ELSE Settle("validate", Sheet, done, votes,
                       [ctx EXCEPT !.plan = k, !.sizes = Plans[k].sizes])

PassPlan == phase = "plan" /\ FinishPlayerTurn(sheets, done, votes)

SpendEstate(legal) ==
    \E e \in Street \X Street :
        /\ <<"spend", e>> \in legal
        /\ LET chosen == ctx.chosen \cup {e} IN
           IF Len(ctx.sizes) = 1 THEN Validate(ctx.plan, chosen)
           ELSE Settle("validate", Sheet, done, votes,
                       [ctx EXCEPT !.chosen = chosen, !.sizes = Tail(@)])

Vote(legal) ==
    \E yes \in BOOLEAN :
        /\ <<"vote", yes>> \in legal
        /\ Settle("plan", Sheet, done, [votes EXCEPT ![actor] = @ \/ yes], ctx)

(* Every action is one of the legal ones, which are worked out once.       *)
Step ==
    \E legal \in {LegalActions} :
        \/ Refuse(legal) \/ ChooseCards(legal) \/ OpenRoundabout(legal)
        \/ PlaceRoundabout(legal) \/ DeclineRoundabout \/ WriteNumber(legal)
        \/ UseEffect(legal) \/ PassEffect \/ ChoosePlan(legal) \/ PassPlan
        \/ SpendEstate(legal) \/ Vote(legal)

(***************************************************************************)
(* A new game: the solo card goes into the bottom half of the deck, where  *)
(* it may be the last, the first cards are dealt, and the turn begins.     *)
(***************************************************************************)
Decks ==
    LET half == Cardinality(config.cards) \div 2 IN
    IF Solo
    THEN {InsertAt(Shuffled(config.cards, order), k, SoloCard) :
             order \in Orders, k \in (half + 1)..(Cardinality(config.cards) + 1)}
    ELSE {Shuffled(config.cards, order) : order \in Orders}

Dealt(deck) ==
    LET empty == [deck |-> deck, discard |-> {}, new |-> NoCards, old |-> NoCards,
                  passed |-> [p \in Seats |-> None], solo |-> FALSE, hand |-> <<>>]
        r == DrawPlayable(empty, IF Solo THEN 0 ELSE IF Standard THEN 3 ELSE config.players,
                      "rising")
    IN  IF Solo THEN r
        ELSE IF Standard THEN [r EXCEPT !.new = [g \in Groups |-> r.hand], !.hand = <<>>]
        ELSE [r EXCEPT !.passed = r.hand, !.hand = <<>>]

Init ==
    /\ config \in Configs
    /\ phase = "cards" /\ actor = 1 /\ turn = 1
    /\ sheets = [p \in Seats |-> EmptySheet(config.boxes)]
    /\ public = sheets
    /\ \E deck \in Decks : table = DrawStep(DiscardStep(Dealt(deck)), "rising")
    /\ done = [k \in PlanSlots |-> [p \in Seats \cup {Ghost} |-> Never]]
    /\ ctx = NewTurn /\ choice = NoChoice /\ votes = NoVotes

Next == UNCHANGED config /\ Step

-----------------------------------------------------------------------------
(* Properties.                                                             *)

(* The types of the state, and the limits of the tracks of a sheet.        *)
TypeOK ==
    /\ config \in Configs /\ actor \in 1..(config.players + 1) /\ turn \in Nat
    /\ \A p \in Seats :
          /\ sheets[p].row \in [Street -> Values \cup {None, Roundabout}]
          /\ sheets[p].fences \cup sheets[p].tops \subseteq Street
          /\ sheets[p].marks \in [Marks -> 0..TrackBoxes]
          /\ sheets[p].permits \in 0..PermitBoxes
          /\ sheets[p].roundabouts \in 0..RoundaboutBoxes
    /\ \A k \in PlanSlots : done[k] \in [Seats \cup {Ghost} -> {Never} \cup 1..turn]
    /\ votes \in [Seats -> BOOLEAN]

(* Every card is in one place: the deck, the discards, a stack that is     *)
(* open, or a seat that it was passed to; only the solo card disappears.   *)
CardsInOnePlace ==
    LET stacked(stacks) == FoldLeft(LAMBDA n, c : IF c = None THEN n ELSE n + 1, 0,
                                    FlattenSeq([g \in Groups |-> stacks[g]]))
        passed == {p \in Seats : table.passed[p] # None}
    IN  /\ ToSet(table.deck) \cup table.discard \cup Cards(table.new) \cup Cards(table.old)
           \cup {table.passed[p] : p \in passed}
               = config.cards \cup (IF Solo /\ ~table.solo THEN {SoloCard} ELSE {})
        /\ Len(table.deck) + Cardinality(table.discard) + stacked(table.new)
           + stacked(table.old) + Cardinality(passed)
               = Cardinality(config.cards) + (IF Solo /\ ~table.solo THEN 1 ELSE 0)

(* Numbers rise from one roundabout to the next, and stand twice only on   *)
(* the two sides of no fence.  No house is spent on two City Plans, and    *)
(* none is built, fenced or repeated later so as to stand in one estate    *)
(* with a spent one, unless that is an extremity spent as one; and only a  *)
(* whole street and the extremities are spent with their roundabouts.      *)
SheetIsLegal(s, completed) ==
    LET spends(k) == CASE Plans[k].kind = "estate" -> FoldLeft(+, 0, Plans[k].sizes)
                       [] Plans[k].kind = "street" -> Cardinality(Boxes(s))
                       [] Plans[k].kind = "ends"   -> Cardinality(Extremities(s))
                       [] Plans[k].kind = "tracks" -> 0
        kinds     == {Plans[k].kind : k \in completed}
        joined    == {y \in Boxes(s) \ s.fences : y + 1 \in Boxes(s)}
    IN
    /\ \A i \in Boxes(s) \ Free(s), j \in Boxes(s) \ Free(s) :
          i < j /\ (\A k \in i..j : s.row[k] # Roundabout) =>
              \/ s.row[i] < s.row[j]
              \/ \A k \in i..j : s.row[k] = s.row[i] /\ (k < j => k \notin s.fences)
    /\ s.tops \cap Free(s) = {}
    /\ Cardinality(s.tops) = MapThenSumSet(spends, completed)
    /\ \A y \in joined : \/ (y \in s.tops) = (y + 1 \in s.tops)
                         \/ "ends" \in kinds /\ {y, y + 1} \cap Extremities(s) # {}
    /\ (\E y \in s.tops : s.row[y] = Roundabout) => {"street", "ends"} \cap kinds # {}

SheetsAreLegal ==
    \A p \in Seats : SheetIsLegal(sheets[p], {k \in PlanSlots : done[k][p] # Never})

(* What a private turn leaves alone: all the others decide upon, until the *)
(* boundary.  That a plan was completed in this very turn, by somebody who *)
(* played before, takes the reshuffle from nobody.                         *)
TurnStaysPrivate ==
    turn' = turn =>
        /\ UNCHANGED <<table, public>>
        /\ \A p \in Seats \ {actor} :
              /\ sheets'[p] = sheets[p] /\ choice'[p] = choice[p] /\ votes'[p] = votes[p]
        /\ MayAskReshuffle(done') = MayAskReshuffle(done)
================================================================================
