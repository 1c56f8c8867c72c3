----------------------------- MODULE MCKeptFiles -----------------------------
(* An instance of KeptFiles for TLC: two threads, every kind of file.      *)
EXTENDS KeptFiles, TLC
CONSTANTS s1, s2, t1, t2, calendar, list, sources, secrets, rules

TwoSavers == {s1, s2}
TwoTurns == {t1, t2}
Changes == {1, 2}
Contents == {Change \ rest : rest \in SUBSET Change}
SecretsOnly == {secrets}
AllPaths == {Calendar, Entries, Sources} \cup Edited
RulesAndSecrets == {rules, secrets}
ThreadsAlike == Permutations(Saver) \cup Permutations(Turn)
=============================================================================
