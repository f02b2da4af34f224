------------------------------- MODULE TurnCache -------------------------------
(***************************************************************************)
(* The turn solvers the Can't Stop advisor keeps (cantstop/advisor_cache.py*)
(* under the lock of advisor_adapter.py): a bounded table, in which a table*)
(* at the club has one turn, and a timer for each entry.  The checkpoint   *)
(* may be replaced at any moment, also while a request works.              *)
(*                                                                         *)
(* A turn is its number, and a position in it how far the runners have     *)
(* come; a solver holds the positions from the one it was built at to the  *)
(* end of the turn.  Weights are the version of the file they were read    *)
(* from.  Saved board and rules are those of the turn.                     *)
(***************************************************************************)
EXTENDS Integers, Sequences, Functions

CONSTANTS
    Tables,
    Steps,          (* a turn's runners go from 0 to this                  *)
    MaxEntries,
    MaxPositions,
    MaxTurns,       (* bound: turns of a table                             *)
    MaxFiles,       (* bound: versions of the checkpoint                   *)
    MaxBuilds       (* bound: solvers that are kept                        *)

VARIABLES
    file,           (* the checkpoint on disk                              *)
    loaded,         (* the adapter's evaluator: stat result and weights    *)
    entries,        (* the table, least recently used first                *)
    timers,         (* entries whose timer runs                            *)
    fired,          (* entries whose timer waits for the lock              *)
    request,        (* what the thread that holds the lock is doing        *)
    told,           (* the last answer, and the file when asked           *)
    built,          (* solvers that were kept so far                       *)
    lost            (* a timer has taken an entry before its time          *)

vars == <<file, loaded, entries, timers, fired, request, told, built, lost>>

NoRequest == [at |-> "free"]
NoAnswer  == [weights |-> 0, asked |-> 0]
NoKey     == [table |-> "none"]

Keys == [table : Tables, turn : 1..MaxTurns, model : 1..MaxFiles]
Size(position) == Steps - position + 1

Total(s) ==
    LET sum[k \in 0..Len(s)] == IF k = 0 THEN 0 ELSE sum[k - 1] + s[k].size
    IN  sum[Len(s)]

Entry == [id : 1..MaxBuilds, key : Keys, size : 1..Steps + 1,
          runners : 0..Steps, due : BOOLEAN, weights : 1..MaxFiles]

TypeOK ==
    /\ file \in 1..MaxFiles
    /\ loaded \in [stat : 0..MaxFiles, weights : 0..MaxFiles]
    /\ entries \in Seq(Entry)
    /\ Len(entries) <= MaxEntries /\ Total(entries) <= MaxPositions
    /\ timers \subseteq 1..built /\ fired \subseteq 1..built
    /\ request.at \in {"free", "evaluator", "load", "build"}
    /\ told \in [weights : 0..MaxFiles, asked : 0..MaxFiles]
    /\ built \in 0..MaxBuilds
    /\ lost \in BOOLEAN

Init ==
    /\ file = 1 /\ loaded = [stat |-> 0, weights |-> 0]
    /\ entries = <<>> /\ timers = {} /\ fired = {}
    /\ request = NoRequest /\ told = NoAnswer /\ built = 0 /\ lost = FALSE

IdsOf(s) == {s[k].id : k \in DOMAIN s}

(* remove: an entry goes with its timer, if that has not fired already.    *)
Keep(s) ==
    /\ entries' = s
    /\ timers' = timers \cap IdsOf(s)

(* The entries of s that are kept, in their order. *)
Among(s, kept) ==
    LET part[k \in 0..Len(s)] ==
          IF k = 0 THEN <<>>
          ELSE IF s[k] \in kept THEN Append(part[k - 1], s[k]) ELSE part[k - 1]
    IN  part[Len(s)]

(* get first drops what is due, and the table's other turns and models. *)
Swept(key) ==
    Among(entries, {e \in Range(entries) :
                      ~e.due /\ (e.key.table = key.table => e.key = key)})

With(s, key)    == Among(s, {e \in Range(s) : e.key = key})
Without(s, key) == Among(s, {e \in Range(s) : e.key # key})

(* A solver is used again for a position behind the last one it was asked  *)
(* about; `known' is whether its tree has that position.                   *)
Hit(key, position, known) ==
    LET found == With(Swept(key), key)
    IN  found # <<>> /\ found[1].runners <= position /\ known

Solve(key, position) ==
    request' = [at |-> "evaluator", key |-> key, position |-> position,
                asked |-> file, stat |-> 0]

AnswerFromCache(key, position) ==
    LET entry == With(Swept(key), key)[1]
    IN  /\ Keep(Append(Without(Swept(key), key), [entry EXCEPT !.runners = position]))
        /\ told' = [weights |-> entry.weights, asked |-> file]
        /\ UNCHANGED request

Miss(key, position) ==
    /\ built < MaxBuilds
    /\ Keep(Without(Swept(key), key))
    /\ Solve(key, position)
    /\ UNCHANGED told

(* solver_for looks at the file for its key, and then at the table. *)
Ask(table, turn, position, known) ==
    LET key == [table |-> table, turn |-> turn, model |-> file]
    IN  /\ request = NoRequest
        /\ IF Hit(key, position, known) THEN AnswerFromCache(key, position)
                                        ELSE Miss(key, position)
        /\ UNCHANGED <<file, loaded, fired, built, lost>>

(* A request that names no table or turn passes the table by.             *)
AskOnce(position) ==
    /\ request = NoRequest
    /\ Solve(NoKey, position)
    /\ UNCHANGED <<file, loaded, entries, timers, fired, told, built, lost>>

(* evaluator looks at the file again, and reads it unless it has.          *)
FindEvaluator ==
    /\ request.at = "evaluator"
    /\ request' = [request EXCEPT !.at = IF loaded.stat = file THEN "build" ELSE "load",
                                  !.stat = file]
    /\ UNCHANGED <<file, loaded, entries, timers, fired, told, built, lost>>

Load ==
    /\ request.at = "load"
    /\ loaded' = [stat |-> request.stat, weights |-> file]
    /\ request' = [request EXCEPT !.at = "build"]
    /\ UNCHANGED <<file, entries, timers, fired, told, built, lost>>

(* A file that cannot be read, or a solve that raises, ends the request.   *)
Raise ==
    /\ request # NoRequest
    /\ request' = NoRequest
    /\ UNCHANGED <<file, loaded, entries, timers, fired, told, built, lost>>

(* The least recently used ones go, as many as it takes.                   *)
Fits(s, size) ==
    s = <<>> \/ (Len(s) < MaxEntries /\ Total(s) + size <= MaxPositions)

Rest(s, n) == SubSeq(s, n + 1, Len(s))

Evicted(s, size) ==
    Rest(s, CHOOSE n \in 0..Len(s) : /\ Fits(Rest(s, n), size)
                                     /\ \A m \in 0..n - 1 : ~Fits(Rest(s, m), size))

(* put: a solver without a key, or too large on its own, is not kept.      *)
Build ==
    LET size == Size(request.position)
        room == Evicted(Without(entries, request.key), size)
        new  == [id |-> built + 1, key |-> request.key, size |-> size,
                 runners |-> request.position, due |-> FALSE,
                 weights |-> loaded.weights]
    IN  /\ request.at = "build"
        /\ IF request.key = NoKey \/ size > MaxPositions
           THEN UNCHANGED <<entries, timers, built>>
           ELSE /\ entries' = Append(room, new)
                /\ timers' = (timers \cap IdsOf(room)) \cup {new.id}
                /\ built' = built + 1
        /\ told' = [weights |-> loaded.weights, asked |-> request.asked]
        /\ request' = NoRequest
        /\ UNCHANGED <<file, loaded, fired, lost>>

(* Time passes, for the oldest entry first; a timer that runs out waits    *)
(* for the lock.                                                           *)
Lapse(k) ==
    /\ k \in DOMAIN entries /\ ~entries[k].due
    /\ \A n \in DOMAIN entries : entries[n].id < entries[k].id => entries[n].due
    /\ entries' = [entries EXCEPT ![k].due = TRUE]
    /\ UNCHANGED <<file, loaded, timers, fired, request, told, built, lost>>

Fire(k) ==
    /\ k \in DOMAIN entries /\ entries[k].due /\ entries[k].id \in timers
    /\ timers' = timers \ {entries[k].id}
    /\ fired' = fired \cup {entries[k].id}
    /\ UNCHANGED <<file, loaded, entries, request, told, built, lost>>

(* The timer's function takes out its own entry, and no other one that has *)
(* come in its place.                                                      *)
Expire(id) ==
    LET others == Among(entries, {e \in Range(entries) : e.id # id})
    IN  /\ request = NoRequest /\ id \in fired
        /\ fired' = fired \ {id}
        /\ Keep(others)
        /\ lost' = (lost \/ \E k \in DOMAIN entries :
                             ~entries[k].due /\ entries[k].id \notin IdsOf(others))
        /\ UNCHANGED <<file, loaded, request, told, built>>

Replace ==
    /\ file < MaxFiles /\ file' = file + 1
    /\ UNCHANGED <<loaded, entries, timers, fired, request, told, built, lost>>

Next ==
    \/ \E table \in Tables, turn \in 1..MaxTurns, position \in 0..Steps,
          known \in BOOLEAN : Ask(table, turn, position, known)
    \/ \E position \in 0..Steps : AskOnce(position)
    \/ FindEvaluator \/ Load \/ Raise \/ Build
    \/ \E k \in 1..MaxEntries : Lapse(k) \/ Fire(k)
    \/ \E id \in 1..MaxBuilds : Expire(id)
    \/ Replace

Spec == Init /\ [][Next]_vars
----------------------------------------------------------------------------
(* Properties.                                                             *)

(* No solver is kept for ever, and none is given up early: each entry has  *)
(* a timer that runs or waits for the lock, no other timer runs, a timer   *)
(* takes out only what is due, and a table is down to one turn and model.  *)
EntriesHaveTheirTimers ==
    /\ IdsOf(entries) \subseteq timers \cup fired
    /\ timers \subseteq IdsOf(entries)
    /\ ~lost
    /\ \A k, n \in DOMAIN entries :
          k # n => entries[k].key.table # entries[n].key.table

(* An answer is never computed by older weights than the file had when it  *)
(* was asked for, whichever of the three looks at the file a replacement   *)
(* falls between.                                                          *)
AnswersAreCurrent ==
    /\ told.weights >= told.asked
    /\ \A k \in DOMAIN entries : entries[k].weights >= entries[k].key.model
=============================================================================
