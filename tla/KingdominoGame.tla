----------------------------- MODULE KingdominoGame -----------------------------
(***************************************************************************)
(* The Kingdomino engine (games/kingdomino/game.py), the Mighty Duel of    *)
(* two players: four dominoes of a row are claimed in the order            *)
(* P1, P2, P2, P1; afterwards whoever claimed the lowest domino is the     *)
(* first to place it and to claim one of the next row, until the deck is   *)
(* empty and the last claims are only placed.                              *)
(*                                                                         *)
(* A board is the number of dominoes placed on it.  Whether a domino has a *)
(* legal placement is open, and at most MaxDiscards have none per player.  *)
(***************************************************************************)
EXTENDS Integers, SequencesExt, FiniteSetsExt

CONSTANTS Shuffles,      (* the decks a game may start with                *)
          MaxDiscards

VARIABLES
    phase, starter,
    deck, row,
    pending, claims,     (* those of this round, in order, and of the next *)
    actor,               (* index of the claim whose turn it is            *)
    board, discards

kdVars == <<phase, starter, deck, row, pending, claims, actor, board, discards>>

Players == {0, 1}
RowSize == 4
Order   == <<starter, 1 - starter, 1 - starter, starter>>

CurrentActor ==
    IF phase = "initial" THEN Order[Cardinality(claims) + 1] ELSE pending[actor].player

ByDomino(S) == SetToSortSeq(S, LAMBDA c, d : c.domino < d.domino)

Claimed(d) == claims \cup {[player |-> CurrentActor, domino |-> d]}

(* The claims are in: the next row, if the deck still holds one.           *)
NewRound(all) ==
    /\ pending' = ByDomino(all) /\ claims' = {} /\ actor' = 1
    /\ row'  = ToSet(SubSeq(deck, 1, Min({RowSize, Len(deck)})))
    /\ deck' = SubSeq(deck, RowSize + 1, Len(deck))
    /\ phase' = IF deck = <<>> THEN "final" ELSE "place"

Pick ==
    \E d \in row :
        /\ phase = "initial"
        /\ IF Cardinality(Claimed(d)) = RowSize
           THEN NewRound(Claimed(d))
           ELSE /\ row' = row \ {d} /\ claims' = Claimed(d)
                /\ UNCHANGED <<phase, deck, pending, actor>>
        /\ UNCHANGED <<starter, board, discards>>

(* A domino is discarded only if no placement of it is legal.              *)
Settle ==
    LET p == pending[actor].player IN
    \/ /\ board' = [board EXCEPT ![p] = @ + 1]
       /\ UNCHANGED discards
    \/ /\ discards[p] < MaxDiscards
       /\ discards' = [discards EXCEPT ![p] = @ + 1]
       /\ UNCHANGED board

PlaceAndSelect ==
    \E d \in row :
        /\ phase = "place"
        /\ Settle
        /\ IF actor = Len(pending)
           THEN NewRound(Claimed(d))
           ELSE /\ row' = row \ {d} /\ claims' = Claimed(d) /\ actor' = actor + 1
                /\ UNCHANGED <<phase, deck, pending>>
        /\ UNCHANGED starter

FinalPlacement ==
    /\ phase = "final"
    /\ Settle
    /\ actor' = actor + 1
    /\ phase' = IF actor = Len(pending) THEN "over" ELSE phase
    /\ UNCHANGED <<starter, deck, row, pending, claims>>

Init ==
    /\ phase = "initial" /\ starter \in Players
    /\ \E shuffle \in Shuffles :
          /\ row  = ToSet(SubSeq(shuffle, 1, RowSize))
          /\ deck = SubSeq(shuffle, RowSize + 1, Len(shuffle))
    /\ pending = <<>> /\ claims = {} /\ actor = 1
    /\ board = [p \in Players |-> 0] /\ discards = [p \in Players |-> 0]

Next == Pick \/ PlaceAndSelect \/ FinalPlacement

(* The claims of this round that are still to be placed.                   *)
Waiting == {pending[i] : i \in actor..Len(pending)}
Dominoes(S) == {c.domino : c \in S}

-----------------------------------------------------------------------------
(* Properties.                                                             *)

(* The types of the state.                                                 *)
TypeOK ==
    /\ phase \in {"initial", "place", "final", "over"} /\ starter \in Players
    /\ actor \in 1..(RowSize + 1) /\ Cardinality(claims) < RowSize
    /\ Len(pending) \in {0, RowSize}
    /\ discards \in [Players -> 0..MaxDiscards]

(* Every domino that is not yet placed or discarded is in one place, and   *)
(* the players have had as many as each other when the last one is placed. *)
DominoesInOnePlace ==
    LET sets  == <<ToSet(deck), row, Dominoes(Waiting), Dominoes(claims)>>
        count == FoldLeft(LAMBDA n, S : n + Cardinality(S), 0, sets)
        all   == CHOOSE n \in {Len(shuffle) : shuffle \in Shuffles} : TRUE
    IN  /\ count = Cardinality(UNION Range(sets))
        /\ count + board[0] + board[1] + discards[0] + discards[1] = all
        /\ phase = "over" => \A p \in Players : 2 * (board[p] + discards[p]) = all

(* Whoever is to claim a domino has one left for himself and one for each  *)
(* who comes after, of two claims for either player.                       *)
RowLastsTheRound ==
    /\ phase = "initial" => Cardinality(row) = RowSize - Cardinality(claims)
    /\ phase = "place"   => Cardinality(row) = Cardinality(Waiting)
    /\ phase \in {"place", "final"} =>
          \A p \in Players : Cardinality({i \in DOMAIN pending : pending[i].player = p}) = 2
================================================================================
