---------------------------------- MODULE Groups ----------------------------------
(***************************************************************************)
(* One group of backend/src/groups: creation (on the chain, the row, then  *)
(* its owner), changes by owners and administrators, and joins by invite   *)
(* code, which check and then add.  Saving a group loaded with its members *)
(* fails when somebody joined meanwhile: the ORM would detach that member, *)
(* and groupId must not be null.                                           *)
(***************************************************************************)
EXTENDS Integers, FiniteSets

CONSTANTS
    Users, Creator,      \* user ids
    Holders,             \* users who hold the token of a gated group
    GroupEditors,        \* update, delete, invite-code and gate requests at a time
    Sizes,               \* maxMembers a request may set
    MaxGroupEdits, MaxGroupFaults   \* bounds

ASSUME GroupAssumption ==
    /\ IsFiniteSet(Users) /\ Creator \in Users /\ Holders \subseteq Users /\ Sizes \subseteq Nat \ {0} /\ Sizes # {}
    /\ MaxGroupEdits \in Nat /\ MaxGroupFaults \in Nat

VARIABLES
    creation,     \* step of createGroup
    group,        \* the row: maxMembers, inviteCode, isTokenGated, deleted
    members,      \* userId -> role, "none" for no row
    joins,        \* joinByInviteCode of each user, with the group it loaded and, as
                  \* history, the users whose insert its count may have missed
    groupEdits,   \* each editor: the row and the members it loaded
    lastCode,     \* invite codes drawn so far
    groupFaults

groupVars == <<creation, group, members, joins, groupEdits, lastCode, groupFaults>>

NoGroup == [exists |-> FALSE, maxMembers |-> 1, inviteCode |-> 0, isTokenGated |-> FALSE, deleted |-> FALSE]
NotJoining == [pc |-> "idle", group |-> NoGroup, beside |-> {}]
NotEditingGroup == [pc |-> "idle", row |-> NoGroup, members |-> {}]
MemberIds == {u \in Users : members[u] # "none"}
Live == group.exists /\ ~group.deleted

GroupsInit ==
    /\ creation = "start" /\ group = NoGroup /\ members = [u \in Users |-> "none"]
    /\ joins = [u \in Users |-> NotJoining]
    /\ groupEdits = [e \in GroupEditors |-> NotEditingGroup]
    /\ lastCode = 0 /\ groupFaults = 0

\* The group is recorded on the chain; a failure there refuses the request and
\* saves nothing.
syncOnChain ==
    /\ creation = "start"
    /\ creation' \in {"synced", "refused"}
    /\ UNCHANGED <<group, members, joins, groupEdits, lastCode, groupFaults>>

SaveNewGroup ==
    /\ creation = "synced"
    /\ \E max \in Sizes : group' = [NoGroup EXCEPT !.exists = TRUE, !.maxMembers = max, !.inviteCode = 1]
    /\ lastCode' = 1 /\ creation' = "saved"
    /\ UNCHANGED <<members, joins, groupEdits, groupFaults>>

\* The unique index refuses the row when the creator joined by code in between.
AddOwner ==
    /\ creation = "saved"
    /\ IF members[Creator] = "none"
       THEN members' = [members EXCEPT ![Creator] = "owner"] /\ creation' = "done"
       ELSE creation' = "failed" /\ UNCHANGED members
    /\ UNCHANGED <<group, joins, groupEdits, lastCode, groupFaults>>

\* The process stops between the two rows.
CreationCrashes ==
    /\ creation = "saved" /\ groupFaults < MaxGroupFaults
    /\ groupFaults' = groupFaults + 1 /\ creation' = "failed"
    /\ UNCHANGED <<group, members, joins, groupEdits, lastCode>>

--------------------------------------------------------------------------------
(* Joining                                                                 *)

JoinAt(u, pc) == joins' = [joins EXCEPT ![u].pc = pc]

findByInviteCode(u, inviteCode) ==
    /\ joins[u].pc = "idle" /\ Live /\ group.inviteCode = inviteCode
    /\ joins' = [joins EXCEPT ![u] = [pc |-> "found", group |-> group, beside |-> {}]]
    /\ UNCHANGED <<creation, group, members, groupEdits, lastCode, groupFaults>>

isMember(u) ==
    /\ joins[u].pc = "found"
    /\ JoinAt(u, IF members[u] # "none" THEN "idle" ELSE "new")
    /\ UNCHANGED <<creation, group, members, groupEdits, lastCode, groupFaults>>

\* A count that was passed and is not followed by its insert yet.
Counted(u) == joins[u].pc \in {"fits", "cleared"}

Fits(u) ==
    joins' = [x \in Users |->
        IF x # u THEN [joins[x] EXCEPT !.beside = IF Counted(x) THEN @ \cup {u} ELSE @]
        ELSE [joins[u] EXCEPT !.pc = "fits", !.beside =
                 {y \in Users : Counted(y)} \cup (IF creation = "saved" THEN {Creator} ELSE {})]]

\* assertCanJoin counts the members against the size it loaded.
assertCanJoin(u) ==
    /\ joins[u].pc = "new"
    /\ IF Cardinality(MemberIds) >= joins[u].group.maxMembers THEN JoinAt(u, "idle") ELSE Fits(u)
    /\ UNCHANGED <<creation, group, members, groupEdits, lastCode, groupFaults>>

\* The balance on Horizon, for a gated group; an unreachable Horizon refuses.
verifyTokenGate(u) ==
    /\ joins[u].pc = "fits"
    /\ \/ JoinAt(u, IF joins[u].group.isTokenGated /\ u \notin Holders THEN "idle" ELSE "cleared")
       \/ joins[u].group.isTokenGated /\ JoinAt(u, "idle")
    /\ UNCHANGED <<creation, group, members, groupEdits, lastCode, groupFaults>>

addMember(u) ==
    /\ joins[u].pc = "cleared"
    /\ members' = IF members[u] = "none" THEN [members EXCEPT ![u] = "member"] ELSE members
    /\ joins' = [joins EXCEPT ![u] = NotJoining]
    /\ UNCHANGED <<creation, group, groupEdits, lastCode, groupFaults>>

--------------------------------------------------------------------------------
(* Changes by an owner or administrator                                    *)

assertOwnerOrAdmin(e) ==
    /\ groupEdits[e].pc = "idle" /\ Live /\ \E u \in Users : members[u] \in {"owner", "admin"}
    /\ groupEdits' = [groupEdits EXCEPT ![e] = [pc |-> "loaded", row |-> group, members |-> MemberIds]]
    /\ UNCHANGED <<creation, group, members, joins, lastCode, groupFaults>>

EndEdit(e) == groupEdits' = [groupEdits EXCEPT ![e] = NotEditingGroup]

SaveGroup(e, row) ==
    /\ groupEdits[e].pc = "loaded"
    /\ EndEdit(e)
    /\ group' = IF groupEdits[e].members = MemberIds THEN row ELSE group
    /\ UNCHANGED <<creation, members, joins, groupFaults>>

updateGroup(e) ==
    /\ \E max \in Sizes : SaveGroup(e, [groupEdits[e].row EXCEPT !.maxMembers = max])
    /\ UNCHANGED lastCode

generateInviteCode(e) ==
    /\ lastCode < MaxGroupEdits /\ lastCode' = lastCode + 1
    /\ SaveGroup(e, [groupEdits[e].row EXCEPT !.inviteCode = lastCode + 1])

\* setTokenGate and removeTokenGate.
SetGate(e) ==
    /\ \E gated \in BOOLEAN : SaveGroup(e, [groupEdits[e].row EXCEPT !.isTokenGated = gated])
    /\ UNCHANGED lastCode

deleteGroup(e) ==
    /\ groupEdits[e].pc = "loaded"
    /\ EndEdit(e)
    /\ group' = [group EXCEPT !.deleted = TRUE]
    /\ UNCHANGED <<creation, members, joins, lastCode, groupFaults>>

GroupsNext ==
    \/ syncOnChain \/ SaveNewGroup \/ AddOwner \/ CreationCrashes
    \/ \E u \in Users : \/ isMember(u) \/ assertCanJoin(u) \/ verifyTokenGate(u) \/ addMember(u)
                        \/ \E code \in 1 .. MaxGroupEdits : findByInviteCode(u, code)
    \/ \E e \in GroupEditors :
           assertOwnerOrAdmin(e) \/ updateGroup(e) \/ generateInviteCode(e) \/ SetGate(e) \/ deleteGroup(e)

--------------------------------------------------------------------------------
(* Properties                                                              *)

\* A join finds a place beside all members but those that overlapped it (joins between
\* count and insert, and the owner of a group just saved): a group outgrows the size its
\* joins were checked against by overlapping requests only, one place for each.
CapacityKept ==
    [][\A u \in Users : members[u] = "none" /\ members'[u] = "member" =>
          Cardinality(MemberIds \ joins[u].beside) < joins[u].group.maxMembers]_groupVars
================================================================================
