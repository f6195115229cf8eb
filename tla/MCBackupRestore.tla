-------------------------- MODULE MCBackupRestore ---------------------------
(* BackupRestore for TLC: files, backup names and commands are interchangeable. *)
EXTENDS BackupRestore, TLC

Symmetry ==
    Permutations(Parts) \cup Permutations(Names) \cup Permutations(Tools)
=============================================================================
