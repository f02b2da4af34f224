----------------------------- MODULE SearchTable -----------------------------
(***************************************************************************)
(* What the advisor host promises about its searches, whatever threads,    *)
(* pools and reapers it is made of (games/advisor/jobs.py, contract.py):   *)
(* a search is created once, at most one search is live for a position and *)
(* its parameters, a live search settles exactly once, and only a settled  *)
(* search is forgotten.  AdvisorJobs implements this specification.        *)
(***************************************************************************)
CONSTANTS
    Jobs,   (* identities of searches                                      *)
    Keys,   (* (state_key, params_key) pairs                               *)
    None    (* the owner of a search that no client can rejoin             *)

VARIABLES
    phase,  (* phase[j]: where search j is in its life                     *)
    owner   (* owner[j]: the key under which clients can rejoin j          *)

vars == <<phase, owner>>

Phases == {"unborn", "live", "settled", "forgotten"}

TypeOK == /\ phase \in [Jobs -> Phases]
          /\ owner \in [Jobs -> Keys \cup {None}]

Init == /\ phase = [j \in Jobs |-> "unborn"]
        /\ owner = [j \in Jobs |-> None]

(* A search for key k starts, only when no live search serves k.           *)
Create(j, k) ==
    /\ phase[j] = "unborn"
    /\ \A i \in Jobs : phase[i] = "live" => owner[i] # k
    /\ phase' = [phase EXCEPT ![j] = "live"]
    /\ owner' = [owner EXCEPT ![j] = k]

(* A search whose answer is known at once: the position is terminal.       *)
CreateSettled(j, k) ==
    /\ phase[j] = "unborn"
    /\ \A i \in Jobs : phase[i] = "live" => owner[i] # k
    /\ phase' = [phase EXCEPT ![j] = "settled"]
    /\ owner' = [owner EXCEPT ![j] = k]

(* A search whose caller waits for it, which nobody else can join.         *)
CreatePrivate(j) ==
    /\ phase[j] = "unborn"
    /\ phase' = [phase EXCEPT ![j] = "live"]
    /\ UNCHANGED owner

Settle(j) ==
    /\ phase[j] = "live"
    /\ phase' = [phase EXCEPT ![j] = "settled"]
    /\ UNCHANGED owner

(* One pass of the reaper drops some of the settled searches.              *)
Forget(S) ==
    /\ S # {}
    /\ \A j \in S : phase[j] = "settled"
    /\ phase' = [j \in Jobs |-> IF j \in S THEN "forgotten" ELSE phase[j]]
    /\ UNCHANGED owner

Next == \/ \E j \in Jobs, k \in Keys : Create(j, k) \/ CreateSettled(j, k)
        \/ \E j \in Jobs : CreatePrivate(j) \/ Settle(j)
        \/ \E S \in SUBSET Jobs : Forget(S)

Fairness == \A j \in Jobs :
    /\ WF_vars(Settle(j))
    /\ WF_vars(\E S \in SUBSET Jobs : j \in S /\ Forget(S))

Safety == Init /\ [][Next]_vars

Spec == Safety /\ Fairness

(* A position is searched by at most one live search that can be rejoined. *)
OneLivePerKey == \A i, j \in Jobs :
    /\ phase[i] = "live" /\ phase[j] = "live"
    /\ owner[i] = owner[j] /\ owner[i] # None
    => i = j
=============================================================================
