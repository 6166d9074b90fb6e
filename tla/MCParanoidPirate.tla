-------------------------- MODULE MCParanoidPirate --------------------------
EXTENDS ParanoidPirate, TLC

Workers == Permutations(Worker)
=============================================================================
