------------------------- MODULE CheckpointClaims --------------------------
(***************************************************************************)
(* What the repository's documentation, comments and messages say of the   *)
(* checkpoint transaction and CheckpointTransaction shows not to hold.     *)
(* Each claim is checked by a run of its own and quoted in README.md.      *)
(***************************************************************************)
EXTENDS CheckpointTransaction

\* "Destructive commands require stopped services, a kernel lock, rollback
\* assets, and explicit confirmation": Summit data goes only while the backup
\* that is being restored holds the Summit data that will replace it.
WipeHasRollbackAssets ==
  [][\A p \in Commands, c \in Children :
       pc[p] = "wipe" /\ live[c] # Absent /\ live'[c] # live[c] =>
         \A d \in Children :
           snapshot[bk[p]][d] # Absent => InBackup(p, d)]_vars

\* "Rename first so an interrupted recursive deletion cannot leave a
\* directory that still appears to be a complete, usable rollback backup": no
\* rollback begins with what a deletion has left.
LeftoverIsRefused ==
  [][\A p \in Commands :
       pc[p] = "cleared" /\ pc'[p] = "restore_reth" => bk[p] \in Installs]_vars

\* "Previous node state was restored automatically": the startup files too
\* are back as they were found.
AutomaticRollbackRestoresFiles ==
  [][\A b \in Backups :
       receipt'[b] = "automatically-rolled-back" /\ receipt[b] # receipt'[b]
         => \A i \in PrivateFiles : live[i] = snapshot[b][i]]_vars

\* "It does not delete state for which no corresponding backup move was
\* recorded": a restore removes what its own install put there, or what the
\* backup holds the predecessor of.
RemovalIsRecorded ==
  [][\A p \in Commands, i \in Moved :
       pc[p] \in {"restore_reth", "restore_rest"}
         /\ live[i] \notin {Absent, Torn, bk[p]} /\ live'[i] = Torn
         => InBackup(p, i)]_vars
=============================================================================
