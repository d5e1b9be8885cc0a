--------------------------- MODULE MCPendingLogin ---------------------------
EXTENDS PendingLogin, TLC

\* Logins and slots are only compared with each other.
Interchangeable == Permutations(Logins) \cup Permutations(Slots)

=============================================================================
