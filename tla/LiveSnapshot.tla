------------------------------ MODULE LiveSnapshot ------------------------------
(***************************************************************************)
(* A copy of a run directory while the run goes on (games/az_loop/         *)
(* snapshot.py): a process of its own waits until no iteration is in       *)
(* flight, lists what a resume needs, and copies one file after the other, *)
(* the manifest last.  Nothing holds the run back meanwhile.  Sizes and    *)
(* times that let a repeated snapshot skip a file are left out: a file     *)
(* that is skipped is as it was copied.                                    *)
(***************************************************************************)
EXTENDS RunController

VARIABLES
    copier,      (* idle, listing, copying, done, or raised                *)
    selected,    (* files still to copy, in order                          *)
    copy         (* the destination                                        *)

snapshotVars == <<copier, selected, copy>>

Name(file) == [file |-> file, row |-> 0]
BufferOf(r) == [file |-> "buffer", row |-> r]

EmptyCopy == [latest |-> NoFile, best |-> NoFile, moments |-> NoFile,
              buffer |-> [r \in RowIds |-> NoFile],
              rows |-> <<>>, torn |-> FALSE, counted |-> 0]

SnapshotInit == copier = "idle" /\ selected = <<>> /\ copy = EmptyCopy

(* wait_for_boundary.  Here a snapshot is taken once a row is committed:   *)
(* before that there is nothing to resume.                                 *)
WaitForBoundary ==
    /\ copier \in {"idle", "done", "raised"}
    /\ rows # <<>> /\ pending = 0
    /\ copier' = "listing"
    /\ UNCHANGED <<selected, copy>>

(* resumable_set: the files that are there. *)
Buffers == SelectSeq([r \in RowIds |-> BufferOf(r)], LAMBDA n : buffer[n.row] # NoFile)

ResumableSet ==
    /\ copier = "listing" /\ copier' = "copying"
    /\ selected' = <<Name("latest"), Name("best")>>
                   \o (IF moments = NoFile THEN <<>> ELSE <<Name("moments")>>)
                   \o Buffers \o <<Name("log"), Name("manifest")>>
    /\ UNCHANGED copy

IsGone(n) == \/ n.file = "moments" /\ moments = NoFile
             \/ n.file = "buffer" /\ buffer[n.row] = NoFile

Copied(n) ==
    CASE n.file = "latest"   -> [copy EXCEPT !.latest = latest]
      [] n.file = "best"     -> [copy EXCEPT !.best = best]
      [] n.file = "moments"  -> [copy EXCEPT !.moments = moments]
      [] n.file = "buffer"   -> [copy EXCEPT !.buffer[n.row] = buffer[n.row]]
      [] n.file = "log"      -> [copy EXCEPT !.rows = rows, !.torn = torn]
      [] n.file = "manifest" -> [copy EXCEPT !.counted = counted]

CopyNext ==
    /\ copier = "copying" /\ selected # <<>>
    /\ IF IsGone(Head(selected))
       THEN copier' = "raised" /\ selected' = <<>> /\ UNCHANGED copy
       ELSE /\ copy' = Copied(Head(selected))
            /\ selected' = Tail(selected)
            /\ copier' = IF selected' = <<>> THEN "done" ELSE "copying"

Snapshot == WaitForBoundary \/ ResumableSet \/ CopyNext

LiveSpec ==
    /\ Init /\ SnapshotInit
    /\ [][\/ Next /\ UNCHANGED snapshotVars
          \/ Snapshot /\ UNCHANGED vars]_<<vars, snapshotVars>>

(* "a consistent [...] copy of a live run": a start from a finished copy   *)
(* does not refuse it, because both checkpoints are those its own log      *)
(* names, and no line of the log is cut (_verify_on_disk,                  *)
(* _sync_training_log).                                                    *)
SnapshotResumes == copier = "done" =>
    LET last == copy.rows[Len(copy.rows)]
    IN  ~copy.torn /\ copy.latest = last.latest /\ copy.best = last.best
=============================================================================
