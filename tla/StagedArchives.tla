--------------------------- MODULE StagedArchives ---------------------------
(***************************************************************************)
(* What staging promises of one run's archives, whatever threads, permits  *)
(* and budgets deliver it: an archive becomes durable on the holding disk  *)
(* or directly on its landings, further landings gain copies of it, and    *)
(* the staged copy goes - files first, then its catalog placement - only   *)
(* when a landing of its route holds the archive.                          *)
(*                                                                         *)
(* Abstract of internal/spool/spool.go: Spool implements it with threads   *)
(* and permits, HoldingRecovery through crashes and nb flush.              *)
(***************************************************************************)
CONSTANTS Dumps, Lanes,
          RouteSet    \* dump -> the landings of its route

VARIABLES files,      \* dump -> its staged files: none, whole, gone
          held,       \* dump -> the catalog places it on its holding disk
          copies      \* dump -> landings the catalog places it on

archiveVars == <<files, held, copies>>

Init ==
  /\ files = [d \in Dumps |-> "none"]
  /\ held = [d \in Dumps |-> FALSE]
  /\ copies = [d \in Dumps |-> {}]

\* A staging write commits: footer and placement.
Stage(d) ==
  /\ files[d] = "none" /\ copies[d] = {}
  /\ files' = [files EXCEPT ![d] = "whole"]
  /\ held' = [held EXCEPT ![d] = TRUE]
  /\ UNCHANGED copies

\* A landing commits the archive: read off the staged files, or straight from the
\* stream of an archive that was never staged.
Land(d, l) ==
  /\ l \in RouteSet[d] \ copies[d]
  /\ files[d] \in {"none", "whole"}
  /\ copies' = [copies EXCEPT ![d] = @ \cup {l}]
  /\ UNCHANGED <<files, held>>

\* ReclaimAt's first half: the files leave the holding volume ...
RemoveFiles(d) ==
  /\ files[d] = "whole" /\ copies[d] # {}
  /\ files' = [files EXCEPT ![d] = "gone"]
  /\ UNCHANGED <<held, copies>>

\* ... and its second: the placement leaves the catalog.
DropPlacement(d) ==
  /\ files[d] = "gone" /\ held[d]
  /\ held' = [held EXCEPT ![d] = FALSE]
  /\ UNCHANGED <<files, copies>>

Next ==
  \E d \in Dumps : \/ Stage(d) \/ RemoveFiles(d) \/ DropPlacement(d)
                   \/ \E l \in Lanes : Land(d, l)

Spec == Init /\ [][Next]_archiveVars
-----------------------------------------------------------------------------
\* Every variable has its type.
TypeOK ==
  /\ files \in [Dumps -> {"none", "whole", "gone"}]
  /\ held \in [Dumps -> BOOLEAN]
  /\ copies \in [Dumps -> SUBSET Lanes]

Committed(d) == files[d] # "none" \/ copies[d] # {}

\* A committed archive can always be read from somewhere, and the catalog knows where.
NeverLost ==
  \A d \in Dumps : Committed(d) =>
    \/ files[d] = "whole" /\ held[d]
    \/ copies[d] # {}
=============================================================================
