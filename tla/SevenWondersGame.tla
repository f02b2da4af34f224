---------------------------- MODULE SevenWondersGame ----------------------------
(***************************************************************************)
(* The Seven Wonders Duel engine (games/seven_wonders_duel/engine.py and   *)
(* game.py): the Wonder draft, three Ages played from a tableau of cards   *)
(* that cover each other, choices an effect leaves pending, military and   *)
(* scientific victory, and the chance events a search may resolve its own  *)
(* way, which swap what it names with what the hidden deal had there.      *)
(*                                                                         *)
(* Coins and points are left out: whether a construction can be paid and   *)
(* who wins on points is open.  A Wonder has one effect that asks, and one *)
(* that builds from the discards has no shields, as in catalog.py.         *)
(***************************************************************************)
EXTENDS Integers, SequencesExt, FiniteSetsExt

CONSTANTS
    Face,         (* of each card: its back, colour, shields and symbol     *)
    Layout,       (* of each Age: its slots, those dealt face up, and pairs *)
                  (* of a slot and one that covers it                       *)
    Deals,        (* of each Age: the arrangements that are dealt           *)
    Wonder,       (* of each Wonder: its effect and its shields             *)
    Groups,       (* the Wonders of the two draft rounds, and those unused  *)
    DraftOrder,   (* who picks in a round: 0 the one who opens it           *)
    WonderCap,    (* Wonders that are ever built; 7 in the game             *)
    OnBoard, InBox,  (* progress tokens on the board and in the box         *)
    LibraryDraw,  (* tokens the Great Library draws                         *)
    TrackEnd, BandStarts,  (* the military track                            *)
    SymbolsToWin

VARIABLES
    phase, actor, age,
    world,      (* the cards nobody owns: tableau, present, revealed,       *)
                (* removed, unused guilds, decks of later Ages              *)
    offer, wonderRound, picks,
    city,       (* of each player: buildings, wonders, built, tokens, pairs *)
    discards, buried, retired,
    available, unused,   (* progress tokens                                 *)
    pending, pendingExtra, pendingShields,
    conflict, military,  (* the pawn, and the bands whose token is left     *)
    winner

swVars == <<phase, actor, age, world, offer, wonderRound, picks, city, discards, buried,
            retired, available, unused, pending, pendingExtra, pendingShields,
            conflict, military, winner>>

Players    == {0, 1}
Cards      == DOMAIN Face
CardsOf(b) == {c \in Cards : Face[c].back = b}
NoChoice   == [kind |-> "none", player |-> 0, options |-> {}, all |-> FALSE]
Nobody     == 2
OnPoints   == 3    (* or shared *)
Coloured(p, colour) == {c \in city[p].buildings : Face[c].colour = colour}

(***************************************************************************)
(* The tableau and its reveals.                                            *)
(***************************************************************************)
Accessible(w, a) ==
    {s \in w.present : \A c \in Layout[a].covers : c[1] = s => c[2] \notin w.present}

(* Faulty variant: the card that was there is not put where the other was. *)
SwappedInTableau(w, a, slot, card) == [w EXCEPT !.tableau[slot] = card]

(* What a face-down card may turn out to be, and the world in which it is. *)
Swapped(w, a, slot, card) ==
    LET old  == w.tableau[slot]
        swap == [c \in {old, card} |-> IF c = old THEN card ELSE old]
        sub(S) == {IF c \in DOMAIN swap THEN swap[c] ELSE c : c \in S}
    IN  [w EXCEPT !.tableau = [s \in DOMAIN @ |->
                      IF s \in w.present \ w.revealed /\ @[s] \in DOMAIN swap
                      THEN swap[@[s]] ELSE @[s]],
                  !.removed[a] = sub(@),
                  !.guilds = sub(@)]

Unseen(w, a, slot) ==
    {c \in {w.tableau[s] : s \in w.present \ w.revealed} \cup w.removed[a] \cup w.guilds :
        Face[c].back = Face[w.tableau[slot]].back}

(* One slot after the other: an outcome may come from a slot not yet open. *)
RevealAll(w, a, slots) ==
    FoldLeft(LAMBDA ws, slot :
                UNION {{[Swapped(v, a, slot, c) EXCEPT !.revealed = @ \cup {slot}] :
                            c \in Unseen(v, a, slot)} : v \in ws},
             {w}, slots)

Ascending(S) == [i \in 1..Cardinality(S) |->
                    CHOOSE s \in S : Cardinality({t \in S : t < s}) = i - 1]

Taken(slot) ==
    LET w == [world EXCEPT !.present = @ \ {slot}]
    IN  RevealAll(w, age, Ascending(Accessible(w, age) \ w.revealed))

(* A deal also settles what was removed before it, and which guilds are in.*)
Laid(w, a, deal) ==
    LET dealt == Range(deal) IN
    [w EXCEPT !.tableau = deal,
              !.present = Layout[a].slots,
              !.revealed = Layout[a].up,
              !.removed[a] = CardsOf(a) \ dealt,
              !.guilds = IF a = 3 THEN CardsOf(4) \ dealt ELSE @,
              !.decks[a] = {}]

(***************************************************************************)
(* The end of a turn, of an Age and of the game.                           *)
(***************************************************************************)
Position(p, n)  == LET q == conflict + (IF p = 0 THEN n ELSE -n) IN
                   IF q > TrackEnd THEN TrackEnd ELSE IF q < -TrackEnd THEN -TrackEnd ELSE q
Distance(q)     == IF q < 0 THEN -q ELSE q
Band(q)         == LET starts == {b \in BandStarts : b <= Distance(q)} IN
                   IF starts = {} \/ Distance(q) = TrackEnd THEN 0
                   ELSE IF q > 0 THEN Max(starts) ELSE -Max(starts)

(* The pawn moves space by space and takes every token on its way.         *)
March(p, n) ==
    /\ conflict' = Position(p, n)
    /\ military' = military \ {Band(Position(p, i)) : i \in 1..n}

Conquered == Distance(conflict') = TrackEnd

Win(p) ==
    /\ phase' = "over" /\ winner' = p
    /\ pendingExtra' = FALSE /\ pendingShields' = 0
    /\ UNCHANGED <<actor, age>>

(* _finish_turn: w is the world the action leaves, later the shields that  *)
(* wait for the choice.                                                    *)
FinishTurn(p, extra, choice, later, w) ==
    /\ pending' = choice
    /\ IF choice # NoChoice
       THEN /\ pendingExtra' = extra /\ pendingShields' = later
            /\ world' = w /\ UNCHANGED <<phase, actor, age, winner>>
       ELSE /\ pendingExtra' = FALSE /\ pendingShields' = 0
            /\ IF Accessible(w, age) # {}
               THEN /\ actor' = IF extra THEN p ELSE 1 - p
                    /\ world' = w /\ UNCHANGED <<phase, age, winner>>
               ELSE IF age = 3
               THEN /\ phase' = "over" /\ winner' = OnPoints
                    /\ world' = w /\ UNCHANGED <<actor, age>>
               ELSE /\ age' = age + 1 /\ phase' = "choose_start"
                    /\ \E deal \in Deals[age + 1] : world' = Laid(w, age + 1, deal)
                    /\ actor' = IF conflict' > 0 THEN 1 ELSE IF conflict' < 0 THEN 0 ELSE p
                    /\ UNCHANGED winner

(***************************************************************************)
(* Constructing a card: shields first, and science if that does not win.   *)
(***************************************************************************)
Symbols(c) ==
    {Face[b].symbol : b \in {d \in c.buildings : Face[d].symbol # "none"}}
    \cup (IF "Law" \in c.tokens THEN {"law"} ELSE {})

ShieldsOf(p, card) ==
    Face[card].shields
    + (IF Face[card].colour = "red" /\ "Strategy" \in city[p].tokens THEN 1 ELSE 0)

(* c is the city with the card, and w, extra are what the turn ends with.  *)
Constructed(p, card, c, extra, w) ==
    LET symbol == Face[card].symbol
        pair   == /\ symbol # "none" /\ symbol \notin c.pairs
                  /\ Cardinality({b \in c.buildings : Face[b].symbol = symbol}) >= 2
    IN  /\ March(p, ShieldsOf(p, card))
        /\ IF Conquered \/ (symbol # "none" /\ Cardinality(Symbols(c)) >= SymbolsToWin)
           THEN /\ Win(p) /\ city' = [city EXCEPT ![p] = c]
                /\ world' = w /\ pending' = NoChoice
           ELSE /\ city' = [city EXCEPT ![p] = IF pair THEN [c EXCEPT !.pairs = @ \cup {symbol}]
                                                       ELSE c]
                /\ FinishTurn(p, extra,
                              IF pair /\ available # {}
                              THEN [kind |-> "available", player |-> p,
                                    options |-> available, all |-> FALSE]
                              ELSE NoChoice, 0, w)

(***************************************************************************)
(* The actions.                                                            *)
(***************************************************************************)
draft   == <<offer, wonderRound, picks>>
tokens  == <<available, unused>>
Playing == phase = "play" /\ pending = NoChoice

DraftPlayer(round, pick) == IF round = 1 THEN DraftOrder[pick] ELSE 1 - DraftOrder[pick]

DraftWonder ==
    \E x \in offer :
        /\ phase = "draft"
        /\ city' = [city EXCEPT ![actor].wonders = @ \cup {x}]
        /\ \/ /\ picks < Len(DraftOrder)
              /\ picks' = picks + 1 /\ offer' = offer \ {x}
              /\ actor' = DraftPlayer(wonderRound, picks + 1)
              /\ UNCHANGED <<phase, wonderRound, world>>
           \/ /\ picks = Len(DraftOrder) /\ wonderRound = 1
              /\ picks' = 1 /\ wonderRound' = 2
              /\ offer' \in kSubset(Len(DraftOrder), Groups[2] \cup Groups[3])
              /\ actor' = DraftPlayer(2, 1)
              /\ UNCHANGED <<phase, world>>
           \/ /\ picks = Len(DraftOrder) /\ wonderRound = 2
              /\ picks' = 1 /\ offer' = {} /\ phase' = "play" /\ actor' = 0
              /\ \E deal \in Deals[1] : world' = Laid(world, 1, deal)
              /\ UNCHANGED wonderRound
        /\ UNCHANGED <<age, discards, buried, retired, tokens, pending, pendingExtra,
                       pendingShields, conflict, military, winner>>

DiscardForCoins ==
    \E slot \in Accessible(world, age) :
        /\ Playing
        /\ discards' = discards \cup {world.tableau[slot]}
        /\ March(actor, 0)
        /\ \E w \in Taken(slot) : FinishTurn(actor, FALSE, NoChoice, 0, w)
        /\ UNCHANGED <<city, buried, retired, tokens, draft>>

ConstructBuilding ==
    \E slot \in Accessible(world, age) :
        LET card == world.tableau[slot] IN
        /\ Playing
        /\ \E w \in Taken(slot) :
              Constructed(actor, card, [city[actor] EXCEPT !.buildings = @ \cup {card}],
                          FALSE, w)
        /\ UNCHANGED <<discards, buried, retired, tokens, draft>>

Unbuilt(p) == city[p].wonders \ (city[p].built \cup retired)

(* What the effect of a Wonder asks of its builder, if there is a choice.  *)
Asked(p, effect) ==
    LET ask(kind, options, all) ==
            IF options = {} THEN {NoChoice}
            ELSE {[kind |-> kind, player |-> p, options |-> options, all |-> all]}
    IN  CASE effect \in {"brown", "grey"} -> ask(effect, Coloured(1 - p, effect), FALSE)
          [] effect = "mausoleum" -> ask(effect, discards, FALSE)
          [] effect = "library"   ->
                UNION {ask(effect, drawn, TRUE) :
                    drawn \in kSubset(Min({LibraryDraw, Cardinality(unused)}), unused)}
          [] OTHER -> {NoChoice}

ConstructWonder ==
    \E slot \in Accessible(world, age), x \in Unbuilt(actor) :
        LET built == UNION {city[p].built : p \in Players} \cup {x}
            extra == Wonder[x].effect = "again" \/ "Theology" \in city[actor].tokens
        IN
        /\ Playing
        /\ buried' = buried \cup {world.tableau[slot]}
        /\ city' = [city EXCEPT ![actor].built = @ \cup {x}]
        /\ retired' = IF Cardinality(built) = WonderCap
                      THEN UNION {city[p].wonders : p \in Players} \ built ELSE retired
        /\ \E w \in Taken(slot), choice \in Asked(actor, Wonder[x].effect) :
              IF choice # NoChoice
              THEN /\ March(actor, 0)
                   /\ FinishTurn(actor, extra, choice, Wonder[x].shields, w)
              ELSE /\ March(actor, Wonder[x].shields)
                   /\ IF Conquered THEN Win(actor) /\ world' = w /\ pending' = choice
                      ELSE FinishTurn(actor, extra, choice, 0, w)
        /\ UNCHANGED <<discards, tokens, draft>>

(* The shields that waited, once the choice is made, and the turn's end.   *)
Deferred(p) ==
    /\ March(p, pendingShields)
    /\ IF Conquered THEN Win(p) /\ world' = world /\ pending' = NoChoice
       ELSE FinishTurn(p, pendingExtra, NoChoice, 0, world)

Destroy ==
    /\ pending.kind \in {"brown", "grey"}
    /\ \E c \in pending.options :
          /\ city' = [city EXCEPT ![1 - pending.player].buildings = @ \ {c}]
          /\ discards' = discards \cup {c}
    /\ Deferred(pending.player)
    /\ UNCHANGED <<buried, retired, tokens, draft>>

BuildFromDiscard ==
    /\ pending.kind = "mausoleum"
    /\ \E c \in pending.options :
          /\ discards' = discards \ {c}
          /\ Constructed(pending.player, c,
                         [city[pending.player] EXCEPT !.buildings = @ \cup {c}],
                         pendingExtra, world)
    /\ UNCHANGED <<buried, retired, tokens, draft>>

ChooseProgress ==
    /\ pending.kind \in {"library", "available"}
    /\ \E t \in pending.options :
          LET p == pending.player
              c == [city[p] EXCEPT !.tokens = @ \cup {t}]
          IN  /\ city' = [city EXCEPT ![p] = c]
              /\ IF pending.all
                 THEN unused' = unused \ pending.options /\ UNCHANGED available
                 ELSE available' = available \ {t} /\ UNCHANGED unused
              /\ IF Cardinality(Symbols(c)) >= SymbolsToWin
                 THEN March(p, 0) /\ Win(p) /\ world' = world /\ pending' = NoChoice
                 ELSE Deferred(p)
    /\ UNCHANGED <<discards, buried, retired, draft>>

ChooseNextStart ==
    /\ phase = "choose_start"
    /\ actor' \in Players /\ phase' = "play"
    /\ UNCHANGED <<age, world, draft, city, discards, buried, retired, tokens, pending,
                   pendingExtra, pendingShields, conflict, military, winner>>

Init ==
    /\ phase = "draft" /\ actor = DraftPlayer(1, 1) /\ age = 1
    /\ \E deal \in Deals[1] :
          world = Laid([tableau |-> <<>>, present |-> {}, revealed |-> {},
                        removed |-> [a \in 1..3 |-> {}], guilds |-> {},
                        decks |-> [a \in 1..3 |-> IF a = 3 THEN CardsOf(3) \cup CardsOf(4)
                                                  ELSE CardsOf(a)]],
                       1, deal)
    /\ offer = Groups[1] /\ wonderRound = 1 /\ picks = 1
    /\ city = [p \in Players |-> [buildings |-> {}, wonders |-> {}, built |-> {},
                                  tokens |-> {}, pairs |-> {}]]
    /\ discards = {} /\ buried = {} /\ retired = {}
    /\ available = OnBoard /\ unused = InBox
    /\ pending = NoChoice /\ pendingExtra = FALSE /\ pendingShields = 0
    /\ conflict = 0 /\ military = {-b : b \in BandStarts} \cup BandStarts
    /\ winner = Nobody

Next == \/ DraftWonder \/ DiscardForCoins \/ ConstructBuilding \/ ConstructWonder
        \/ Destroy \/ BuildFromDiscard \/ ChooseProgress \/ ChooseNextStart

-----------------------------------------------------------------------------
(* Properties.                                                             *)

(* The types of the state.                                                 *)
TypeOK ==
    /\ phase \in {"draft", "play", "choose_start", "over"}
    /\ actor \in Players /\ age \in 1..3 /\ conflict \in -TrackEnd..TrackEnd
    /\ world.revealed \subseteq Layout[age].slots
    /\ world.present \subseteq DOMAIN world.tableau
    /\ \A p \in Players : /\ city[p].buildings \subseteq Cards
                          /\ city[p].built \subseteq city[p].wonders
    /\ winner \in Players \cup {Nobody, OnPoints}

(* Every card is in one place, whatever outcomes were supplied for the     *)
(* reveals: in the tableau, out of this game, in the deck of a later Age,  *)
(* in a city, discarded or under a Wonder.  So is every progress token.    *)
CardsInOnePlace ==
    LET places == <<{world.tableau[s] : s \in world.present}, world.guilds,
                    world.removed[1], world.removed[2], world.removed[3],
                    world.decks[1], world.decks[2], world.decks[3],
                    city[0].buildings, city[1].buildings, discards, buried>>
        tokensOf == <<available, unused, city[0].tokens, city[1].tokens>>
        placesOf(x, s) == {i \in DOMAIN s : x \in s[i]}
    IN  /\ \A c \in Cards : Cardinality(placesOf(c, places)) = 1
        /\ \A t \in OnBoard \cup InBox : Cardinality(placesOf(t, tokensOf)) <= 1

(* Whoever must choose has what to choose from where he looks for it; the  *)
(* last Wonder of all leaves one that is retired; and a game that is over  *)
(* owes nobody a choice, a turn or a shield.                               *)
ChoicesAreThere ==
    /\ CASE pending.kind = "none"      -> pendingExtra = FALSE /\ pendingShields = 0
         [] pending.kind = "mausoleum" -> pending.options \subseteq discards
         [] pending.kind = "library"   -> pending.options \subseteq unused
         [] pending.kind = "available" -> pending.options \subseteq available
         [] OTHER -> pending.options \subseteq Coloured(1 - pending.player, pending.kind)
    /\ pending # NoChoice => pending.options # {} /\ phase = "play" /\ pending.player = actor
    /\ phase = "over" => pending = NoChoice
    /\ LET built == city[0].built \cup city[1].built IN
       /\ Cardinality(built) <= WonderCap
       /\ Cardinality(built) = WonderCap <=> Cardinality(retired) = 1
       /\ retired \cap built = {}
    /\ phase = "play" => Accessible(world, age) \subseteq world.revealed

(* No chance event touches what the players have seen: a card that lies    *)
(* face up stays the card it was until it is taken, and only one that      *)
(* nothing covers any more is turned up.                                   *)
FaceUpStays ==
    age' = age /\ phase # "draft" =>
        /\ \A s \in world.present' \cap world.revealed : world'.tableau[s] = world.tableau[s]
        /\ world'.revealed \ world.revealed \subseteq Accessible(world', age)
================================================================================
