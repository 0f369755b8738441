----------------------------- MODULE ObjectACL -----------------------------
(***************************************************************************)
(* The access control list of a D-Bus object                               *)
(* (src/src/dbus/object-ownership.cpp): operators on a record              *)
(* [owner, acl, public], used by the session and configuration objects.    *)
(* A caller is its uid; a caller whose uid cannot be looked up is refused  *)
(* by every check and is left out.                                         *)
(***************************************************************************)

ACLRecord(Users) == [owner: Users, acl: SUBSET Users, public: BOOLEAN]

Create(owner) == [owner |-> owner, acl |-> {}, public |-> FALSE]

TransferOwnership(a, newOwner) == [a EXCEPT !.owner = newOwner]

SetPublicAccess(a, public) == [a EXCEPT !.public = public]

\* GrantAccess() and RevokeAccess() throw outside these guards.
CanGrant(a, uid) == uid \notin a.acl
GrantAccess(a, uid) == [a EXCEPT !.acl = @ \cup {uid}]

CanRevoke(a, uid) == uid \in a.acl
RevokeAccess(a, uid) == [a EXCEPT !.acl = @ \ {uid}]

CheckOwnerAccess(a, caller) == caller = a.owner

CheckACL(a, caller, extra, ignorePublic) ==
    \/ ~ignorePublic /\ a.public
    \/ caller \in a.acl \cup extra
=============================================================================
