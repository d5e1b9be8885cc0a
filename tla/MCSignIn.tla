------------------------------ MODULE MCSignIn ------------------------------
(***************************************************************************)
(* Constants for model-checking SignIn.  Group paths are sequences of      *)
(* segments, so they are given here and not in the .cfg files.             *)
(***************************************************************************)
EXTENDS SignIn, TLC

MCLoginGroup == <<"apps", "notes">>
MCAdminGroup == <<"apps", "notes", "admin">>
MCRequiredGroup == <<"agents">>

\* A user; an admin; a member of a sibling whose name only starts alike; an
\* agent's person.
UserGroups == {<<"apps", "notes">>}
AdminGroups == {<<"apps", "notes", "admin", "all">>}
OtherGroups == {<<"apps">>}
AgentGroups == {<<"apps", "notes">>, <<"agents", "reader">>}

MemberGroupSets == {UserGroups, AdminGroups}
OneGroupSet == {UserGroups}
EveryGroupSet == {UserGroups, AdminGroups, OtherGroups, AgentGroups}

\* Session ids, subjects and threads are only compared with each other.
Interchangeable == Permutations(Sids) \cup Permutations(Subjects) \cup Permutations(Workers)

=============================================================================
