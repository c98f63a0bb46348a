------------------------------- MODULE MCSeeds -------------------------------
(***************************************************************************)
(* A small instance of Seeds for TLC: a system administrator, who is not   *)
(* staff, and two employees who approve each other.                        *)
(***************************************************************************)
EXTENDS Seeds, TLC

CONSTANTS pete, hal, root

Symmetry    == Permutations(Procs)

Types2      == <<"vacation", "sick">>
Names       == {"HR_ADMIN", "PROJECT_MANAGER", "CUSTOM"}
BuiltIn     == Names \ {"CUSTOM"}
TwoCodes    == {"USER:Update", "USER:View"}
Permissions == <<"USER:Update">>
RoleFile    == <<[name |-> "HR_ADMIN", perms |-> {"USER:Update"}],
                 [name |-> "PROJECT_MANAGER", perms |-> {}]>>
UserFile    == <<[email |-> root, role |-> "HR_ADMIN", admin |-> TRUE],
                 [email |-> hal, role |-> "HR_ADMIN", admin |-> FALSE],
                 [email |-> pete, role |-> "PROJECT_MANAGER", admin |-> FALSE]>>
Dates       == <<1>>
Weekdays    == <<1>>
PayFile     == <<[email |-> hal, from |-> 1]>>
Image       == [size |-> 1, kind |-> "image"]
Scan        == [size |-> 1, kind |-> "pdf"]
Sent        == {Image}
Edits       == {[active |-> FALSE]}
NewNames    == {"CUSTOM", "HR_ADMIN"}
NoPerms     == {{}}
=============================================================================
