-------------------------- MODULE TransferFilesMC --------------------------
(* Two transfers between one local and two remote paths.                   *)
EXTENDS TransferFiles

CONSTANTS l1, r1, r2

\* r2 is the file of the same name in the login directory.
LoginDirMC == [r \in Remote |-> r2]

\* Two downloads to one path, two uploads from it, and uploads that read what
\* a download writes or write what it reads.
WantedMC == {[direction |-> "Download", local |-> l1, remote |-> r1],
             [direction |-> "Upload", local |-> l1, remote |-> r1],
             [direction |-> "Upload", local |-> l1, remote |-> r2]}

TaskSymmetry == Permutations(Task)
=============================================================================
