----------------------------- MODULE MCUuidFiles -----------------------------
\* Instances of UuidFiles for TLC.
EXTENDS UuidFiles, TLC

MCSymmetry == Permutations(AppName) \cup Permutations(Uuid)
=============================================================================
