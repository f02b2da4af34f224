------------------------------ MODULE CantStopGame ------------------------------
(***************************************************************************)
(* The Can't Stop engine (games/cantstop/engine.py): the player of the     *)
(* turn rolls four dice, splits them into two sums and advances runners on *)
(* those columns, as often as he dares; he keeps what he has climbed if he *)
(* stops, and nothing if a roll leaves him no move.  Dice are inputs.      *)
(***************************************************************************)
EXTENDS Integers, SequencesExt, FiniteSetsExt

CONSTANTS
    NumPlayers,
    Height,          (* of each column, COLUMN_HEIGHTS                      *)
    Faces,           (* the numbers on a die                                *)
    MaxRunners, ColumnsToWin,
    Blocking

VARIABLES
    phase, actor,    (* actor: the active player                            *)
    progress,        (* progress[p][column]: saved markers                  *)
    claimedBy,
    runners,         (* a function on the columns that have a runner        *)
    dice,
    victor

csVars == <<phase, actor, progress, claimedBy, runners, dice, victor>>

Players   == 0..(NumPlayers - 1)
Columns   == DOMAIN Height
Nobody    == -1
NoRunners == [c \in {} |-> 0]
Dice      == {d \in [1..4 -> Faces] : d[1] <= d[2] /\ d[2] <= d[3] /\ d[3] <= d[4]}

Position(c) == IF c \in DOMAIN runners THEN runners[c] ELSE progress[actor][c]
Open(c)     == claimedBy[c] = Nobody /\ Position(c) < Height[c]
Slots       == MaxRunners - Cardinality(DOMAIN runners)

Pairings(d) == {<<d[1] + d[2], d[3] + d[4]>>, <<d[1] + d[3], d[2] + d[4]>>,
                <<d[1] + d[4], d[2] + d[3]>>}

Usable(c) == Open(c) /\ (c \in DOMAIN runners \/ Slots > 0)

(* A move is the number of steps on each of its columns.                   *)
MovesOf(a, b) ==
    IF a = b
    THEN IF Usable(a) THEN {[c \in {a} |-> Min({2, Height[a] - Position(a)})]} ELSE {}
    ELSE IF Usable(a) /\ Usable(b) /\ Cardinality({a, b} \ DOMAIN runners) <= Slots
    THEN {[c \in {a, b} |-> 1]}
    ELSE {[c \in {x} |-> 1] : x \in {y \in {a, b} : Usable(y)}}

LegalMoves(d) == UNION {MovesOf(pair[1], pair[2]) : pair \in Pairings(d)}

NextPlayer ==
    /\ actor' = (actor + 1) % NumPlayers /\ phase' = "roll"
    /\ dice' = <<>> /\ runners' = NoRunners

Roll ==
    \E d \in Dice :
        /\ phase \in {"roll", "decide"}
        /\ \/ /\ LegalMoves(d) = {} /\ NextPlayer
           \/ /\ LegalMoves(d) # {} /\ dice' = d /\ phase' = "move"
              /\ UNCHANGED <<actor, runners>>
        /\ UNCHANGED <<progress, claimedBy, victor>>

ApplyMove ==
    /\ phase = "move"
    /\ \E m \in LegalMoves(dice) :
        runners' = [c \in DOMAIN runners \cup DOMAIN m |->
                        Position(c) + (IF c \in DOMAIN m THEN m[c] ELSE 0)]
    /\ dice' = <<>> /\ phase' = "decide"
    /\ UNCHANGED <<actor, progress, claimedBy, victor>>

StopBlocked ==
    Blocking /\ \E c \in DOMAIN runners, p \in Players \ {actor} : progress[p][c] = runners[c]

Finished == {c \in DOMAIN runners : runners[c] >= Height[c]}

Stop ==
    /\ phase = "decide" /\ ~StopBlocked
    /\ claimedBy' = [c \in Columns |-> IF c \in Finished THEN actor ELSE claimedBy[c]]
    /\ progress' = [p \in Players |-> [c \in Columns |->
                       IF c \in Finished THEN 0
                       ELSE IF p = actor THEN Position(c) ELSE progress[p][c]]]
    /\ IF Cardinality({c \in Columns : claimedBy'[c] = actor}) >= ColumnsToWin
       THEN /\ victor' = actor /\ phase' = "over" /\ runners' = NoRunners
            /\ UNCHANGED <<actor, dice>>
       ELSE NextPlayer /\ UNCHANGED victor

Init ==
    /\ phase = "roll" /\ actor = 0
    /\ progress = [p \in Players |-> [c \in Columns |-> 0]]
    /\ claimedBy = [c \in Columns |-> Nobody]
    /\ runners = NoRunners /\ dice = <<>> /\ victor = Nobody

Next == Roll \/ ApplyMove \/ Stop

-----------------------------------------------------------------------------
(* Properties.                                                             *)

(* The types of the state; runners are between a saved marker and the top. *)
TypeOK ==
    /\ phase \in {"roll", "move", "decide", "over"} /\ actor \in Players
    /\ Cardinality(DOMAIN runners) <= MaxRunners
    /\ \A c \in DOMAIN runners : progress[actor][c] < runners[c] /\ runners[c] <= Height[c]
    /\ dice \in Dice \cup {<<>>} /\ (phase = "move" <=> dice # <<>>)

(* Two players' saved markers never share a space if the rules block one;  *)
(* a claimed column holds no marker and no runner; and as soon as a player *)
(* has his columns the game is over.                                       *)
MarkersAreLegal ==
    /\ Blocking => \A p, q \in Players, c \in Columns :
          p # q /\ progress[p][c] > 0 => progress[p][c] # progress[q][c]
    /\ \A c \in Columns : claimedBy[c] # Nobody =>
          c \notin DOMAIN runners /\ \A p \in Players : progress[p][c] = 0
    /\ \A p \in Players : (Cardinality({c \in Columns : claimedBy[c] = p}) >= ColumnsToWin)
                              <=> (victor = p)
    /\ (phase = "over") <=> (victor # Nobody)
================================================================================
