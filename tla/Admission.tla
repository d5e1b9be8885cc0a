----------------------------- MODULE Admission -----------------------------
(***************************************************************************)
(* webauth.admission: who gets in, and as which role, from the groups the  *)
(* issuer vouches for.  A group path such as /apps/notes/admin is the      *)
(* sequence of its segments, so `startswith(group_path + "/")' is a        *)
(* strictly longer sequence with the same beginning.                       *)
(***************************************************************************)
EXTENDS Integers, Sequences

CONSTANTS
    LoginGroup,     \* a group path, or EverySubject
    AdminGroup,     \* a group path, or NoAdmins
    EverySubject,   \* EverySubject.OF_THE_BOUND_ISSUER
    NoAdmins        \* NoAdmins.IN_THIS_APP

Roles == {"admin", "user"}

NotAMember == "not-a-member"

\* _is_below
IsBelow(groupPath, group) ==
    Len(groupPath) < Len(group) /\ SubSeq(group, 1, Len(groupPath)) = groupPath

\* _is_member_of
IsMemberOf(groupPath, groups) ==
    \E group \in groups : group = groupPath \/ IsBelow(groupPath, group)

\* What AdmissionConfig.__post_init__ enforces of a configuration.
AdminsAreMembers ==
    (LoginGroup # EverySubject /\ AdminGroup # NoAdmins) => IsBelow(LoginGroup, AdminGroup)

ASSUME AdmissionAssumption == AdminsAreMembers

\* app_role: NotAMember stands for the code's None.
AppRole(groups) ==
    IF LoginGroup # EverySubject /\ ~IsMemberOf(LoginGroup, groups)
    THEN NotAMember
    ELSE IF AdminGroup # NoAdmins /\ IsMemberOf(AdminGroup, groups)
         THEN "admin"
         ELSE "user"

=============================================================================
