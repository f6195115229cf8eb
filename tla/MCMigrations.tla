---------------------------- MODULE MCMigrations ----------------------------
\* Runners, profiles and emails are each interchangeable.
EXTENDS Migrations, TLC

Symmetry == Permutations(Runners) \cup Permutations(Profiles) \cup Permutations(Emails)
=============================================================================
