--------------------------- MODULE MCKeySetCache ---------------------------
EXTENDS KeySetCache, TLC

\* Threads and key ids are only compared with each other.
Interchangeable == Permutations(Threads) \cup Permutations(Kids)

=============================================================================
