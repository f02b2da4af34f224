-------------------------------- MODULE MCGames --------------------------------
(***************************************************************************)
(* Instances of the four game engines for TLC.  A behaviour is a game of   *)
(* one engine, which is chosen at its start; the variables of the others   *)
(* stay as they are.  A game that is over stutters, any other that cannot  *)
(* go on is a deadlock.                                                    *)
(***************************************************************************)
EXTENDS Integers, Sequences, TLC

CONSTANTS MaxDiscards, MaxRunners, ColumnsToWin, TrackBoxes, TrackEnd, WonderCap

VARIABLES
    which, phase, actor,
    config, turn, sheets, public, table, done, ctx, choice, votes,  \* welcome
    age, world, offer, wonderRound, picks, city, buried, retired, available, unused,
    pendingExtra, pendingShields, conflict, military, winner,       \* wonders
    starter, deck, row, claims, board,                              \* kingdomino
    pending, discards,                                              \* both of these
    progress, claimedBy, runners, dice, victor                      \* cantstop

(***************************************************************************)
(* Welcome To: one player with the advanced rules and plans of three       *)
(* kinds, solo, two players, and two experts, who pass cards on.           *)
(***************************************************************************)
Game(players, mode, advanced, boxes, cards, plans) ==
    [players |-> players, mode |-> mode, advanced |-> advanced, boxes |-> boxes,
     cards |-> cards, plans |-> plans]
TheConfigs == {Game(1, "standard", TRUE, 3, 1..7, {1, 2}),
               Game(1, "standard", TRUE, 3, 1..7, {4, 5, 6}),
               Game(1, "standard", TRUE, 3, 8..14, {2, 7, 8}),
               Game(1, "solo", FALSE, 3, 1..6, {1, 3}),
               Game(2, "standard", FALSE, 2, 1..7, {1, 3}),
               Game(2, "expert", FALSE, 2, 8..14, {3})}
TheNumbers == <<2, 1, 3, 2, 1, 3, 2,   1, 3, 2, 1, 3, 1, 3>>
TheEffects == <<"surveyor", "temp", "bis", "surveyor", "surveyor", "park", "estate",
                "bis", "bis", "temp", "bis", "pool", "park", "pool">>
Estates(sizes)            == [kind |-> "estate", sizes |-> sizes]
Tracks(needs, roundabout) == [kind |-> "tracks", needs |-> needs, roundabout |-> roundabout]
ThePlans   == <<Estates(<<1, 1>>), Estates(<<2>>), Tracks({"temp"}, FALSE),
                [kind |-> "ends"], [kind |-> "street"], Estates(<<1>>),
                Tracks({"park", "pool"}, TRUE), Tracks({"bis"}, FALSE)>>

Welcome == INSTANCE WelcomeToGame WITH
    Configs <- TheConfigs, Number <- TheNumbers, Effect <- TheEffects, Plans <- ThePlans,
    Deltas <- {-1, 0, 1}, Values <- {1, 2, 3}, PermitBoxes <- 2, RoundaboutBoxes <- 1,
    PoolBoxes <- {1}

(***************************************************************************)
(* Seven Wonders Duel: Ages of a few cards.  In the last a card covers two *)
(* others, which are turned up together; the first of these covers one     *)
(* more, which is turned up while the second lies there.  In one deal the  *)
(* second and the last have one back and a guild is left in the box; in    *)
(* the other the first and the last are the guilds, and a card is out.  So *)
(* an outcome comes from another slot, from what was removed or the box.   *)
(***************************************************************************)
Card(back, colour, shields, symbol) ==
    [back |-> back, colour |-> colour, shields |-> shields, symbol |-> symbol]
TheFaces == <<Card(1, "brown", 0, "none"), Card(1, "green", 0, "wheel"),
              Card(2, "green", 0, "wheel"), Card(2, "grey", 0, "none"),
              Card(3, "grey", 0, "none"), Card(3, "green", 0, "quill"),
              Card(4, "guild", 0, "none"), Card(4, "guild", 0, "none"),
              Card(3, "red", 2, "none")>>
TheLayout == <<[slots |-> {1}, up |-> {1}, covers |-> {}],
               [slots |-> {1}, up |-> {1}, covers |-> {}],
               [slots |-> 1..4, up |-> {1},
                covers |-> {<<2, 1>>, <<3, 1>>, <<4, 2>>}]>>
TheDeals == <<{<<2>>}, {<<3>>}, {<<5, 7, 6, 9>>, <<5, 7, 6, 8>>}>>
TheWonders == [pyre |-> [effect |-> "grey", shields |-> 1],
               tomb |-> [effect |-> "mausoleum", shields |-> 0],
               books |-> [effect |-> "library", shields |-> 0],
               way |-> [effect |-> "again", shields |-> 0]]

Wonders == INSTANCE SevenWondersGame WITH
    Face <- TheFaces, Layout <- TheLayout, Deals <- TheDeals, Wonder <- TheWonders,
    Groups <- <<{"pyre", "tomb"}, {"books", "way"}, {}>>, DraftOrder <- <<0, 1>>,
    OnBoard <- {"Law", "Strategy"}, InBox <- {"Theology"}, LibraryDraw <- 1,
    BandStarts <- {2}, SymbolsToWin <- 3

(***************************************************************************)
(* Kingdomino with twelve dominoes, and Can't Stop with dice of two faces. *)
(***************************************************************************)
TheShuffles == {<<9, 2, 7, 12, 1, 11, 4, 6, 10, 3, 5, 8>>}

Kingdomino == INSTANCE KingdominoGame WITH Shuffles <- TheShuffles

TheHeights == (2 :> 2) @@ (3 :> 3) @@ (4 :> 2)

CantStop == INSTANCE CantStopGame WITH
    NumPlayers <- 2, Height <- TheHeights, Faces <- {1, 2}, Blocking <- TRUE

(***************************************************************************)
(* A game of any of them.                                                  *)
(***************************************************************************)
welcome    == <<config, turn, sheets, public, table, done, ctx, choice, votes>>
wonders    == <<age, world, offer, wonderRound, picks, city, buried, retired, available,
                unused, pendingExtra, pendingShields, conflict, military, winner>>
kingdomino == <<starter, deck, row, claims, board>>
both       == <<pending, discards>>
cantStop   == <<progress, claimedBy, runners, dice, victor>>
everything == <<which, phase, actor, welcome, wonders, kingdomino, both, cantStop>>

NoWelcome    == /\ config = 0 /\ turn = 0 /\ sheets = 0 /\ public = 0 /\ table = 0
                /\ done = 0 /\ ctx = 0 /\ choice = 0 /\ votes = 0
NoWonders    == /\ age = 0 /\ world = 0 /\ offer = 0 /\ wonderRound = 0 /\ picks = 0
                /\ city = 0 /\ buried = 0 /\ retired = 0 /\ available = 0 /\ unused = 0
                /\ pendingExtra = 0 /\ pendingShields = 0 /\ conflict = 0 /\ military = 0
                /\ winner = 0
NoKingdomino == starter = 0 /\ deck = 0 /\ row = 0 /\ claims = 0 /\ board = 0
NoBoth       == pending = 0 /\ discards = 0
NoCantStop   == progress = 0 /\ claimedBy = 0 /\ runners = 0 /\ dice = 0 /\ victor = 0

GamesInit ==
    \/ which = "welcome"    /\ Welcome!Init
       /\ NoWonders /\ NoKingdomino /\ NoBoth /\ NoCantStop
    \/ which = "wonders"    /\ Wonders!Init /\ NoWelcome /\ NoKingdomino /\ NoCantStop
    \/ which = "kingdomino" /\ Kingdomino!Init /\ NoWelcome /\ NoWonders /\ NoCantStop
    \/ which = "cantstop"   /\ CantStop!Init
       /\ NoWelcome /\ NoWonders /\ NoKingdomino /\ NoBoth

Step(w, others, A) == which = w /\ A /\ UNCHANGED <<which, others>>

Play ==
    \/ Step("welcome", <<wonders, kingdomino, both, cantStop>>, Welcome!Next)
    \/ Step("wonders", <<welcome, kingdomino, cantStop>>, Wonders!Next)
    \/ Step("kingdomino", <<welcome, wonders, cantStop>>, Kingdomino!Next)
    \/ Step("cantstop", <<welcome, wonders, kingdomino, both>>, CantStop!Next)

Over == phase = "over" /\ UNCHANGED everything

(* The players go on playing: every driver of an engine steps it until it  *)
(* says that the game is over.  This is weak fairness of Play, as long as  *)
(* there is no deadlock: Over changes nothing, so each step that changes   *)
(* something is a step of Play.                                            *)
GoingOn == []<><<TRUE>>_everything \/ <>(phase = "over")

GamesSpec == GamesInit /\ [][Play \/ Over]_everything /\ GoingOn

-----------------------------------------------------------------------------
(* Properties.                                                             *)

(* Cards and dominoes are neither lost nor doubled: by reshuffles, cards   *)
(* passed on and a solo card, by reveals that swap two cards, by a row     *)
(* that is claimed while the last one is placed.                           *)
PiecesInOnePlace ==
    CASE which = "welcome"    -> Welcome!CardsInOnePlace
      [] which = "wonders"    -> Wonders!CardsInOnePlace
      [] which = "kingdomino" -> Kingdomino!DominoesInOnePlace
      [] OTHER                -> TRUE

(* No sequence of legal actions leads to a position the rules forbid, or   *)
(* out of the types.                                                       *)
PositionsAreLegal ==
    CASE which = "welcome"    -> Welcome!TypeOK /\ Welcome!SheetsAreLegal
      [] which = "wonders"    -> Wonders!TypeOK /\ Wonders!ChoicesAreThere
      [] which = "kingdomino" -> Kingdomino!TypeOK /\ Kingdomino!RowLastsTheRound
      [] which = "cantstop"   -> CantStop!TypeOK /\ CantStop!MarkersAreLegal

(* What players have seen, or will decide upon, does not change behind     *)
(* their backs: in a simultaneous turn of Welcome To, and by the chance    *)
(* events of Seven Wonders Duel.                                           *)
NothingSeenChanges ==
    [][/\ which = "welcome" => Welcome!TurnStaysPrivate
       /\ which = "wonders" => Wonders!FaceUpStays]_everything

(* A game ends, however it is played, if its players go on: there is an    *)
(* action until it does, and no way round in a circle.  Only players of    *)
(* Can't Stop may bust for ever.                                           *)
GamesEnd == which # "cantstop" => <>(phase = "over")
================================================================================
