---------------------------- MODULE MCFreshToken ----------------------------
EXTENDS FreshToken, TLC

\* Callers, refresh tokens and session ids are only compared with each other.
Interchangeable == Permutations(Callers) \cup Permutations(Tokens) \cup Permutations(Sids)

=============================================================================
