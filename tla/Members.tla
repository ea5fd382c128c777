------------------------------- MODULE Members -------------------------------
(***************************************************************************)
(* The Members storage value of the file-bank pallet and the two root      *)
(* calls that change it, add_member and del_member.  The list is a         *)
(* BoundedVec of accounts bounded by StringLimit; ValueQuery makes it      *)
(* empty before the first write.  A failed call changes nothing, so each   *)
(* call is its success path guarded by the first error the code returns.   *)
(***************************************************************************)
EXTENDS Naturals, Sequences, SequencesExt

CONSTANTS Accounts, StringLimit

VARIABLE members

TypeOK == members \in Seq(Accounts) /\ Len(members) <= StringLimit

Init == members = <<>>

\* add_member with the length check of try_push left out
AddMemberErrorNoLimit(acc) ==
    IF Contains(members, acc) THEN "AlreadyExist" ELSE "Ok"

\* add_member: AlreadyExist when the account is listed, StorageLimitReached
\* when try_push finds the vector full
AddMemberError(acc) ==
    IF Contains(members, acc) THEN "AlreadyExist"
    ELSE IF Len(members) >= StringLimit THEN "StorageLimitReached"
    ELSE "Ok"

AddMember(acc) ==
    /\ AddMemberError(acc) = "Ok"
    /\ members' = Append(members, acc)

\* del_member: retain every entry other than acc; never fails
DelMember(acc) == members' = Remove(members, acc)

\* RandomFileList::contains_member, read by the audit pallets
contains_member(acc) == Contains(members, acc)

Next == \E acc \in Accounts : AddMember(acc) \/ DelMember(acc)

Spec == Init /\ [][Next]_members

=============================================================================
