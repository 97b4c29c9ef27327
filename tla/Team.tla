-------------------------------- MODULE Team --------------------------------
(***************************************************************************)
(* The members and invitations of one organization                         *)
(* (organizations/services/organizations.service.ts).  A request checks    *)
(* the rights of its user with one query and writes with later ones: any   *)
(* other request may run in between, and a crash ends it where it is.      *)
(***************************************************************************)
EXTENDS FiniteSets, Naturals

CONSTANTS Users,        \* accounts, each with one normalized e-mail address
          Founder,      \* the user who creates the organization
          TeamRequests, \* requests that may be under way at once
          MaxTeamCalls, \* bound: requests in a behaviour
          MaxCrashes    \* bound: restarts of the server

ASSUME FounderIsUser == Founder \in Users

VARIABLES org,       \* the row of the organization: not yet there, there, deleted
          role,      \* OrganizationMember: the role of each user, or "none"
          invited,   \* OrganizationInvitation of each user's address
          treq,      \* the requests
          teamCalls, crashes,
          overtaken, \* ghost: some write followed a check that another request had outdated
          halfMade   \* ghost: some creation was cut before its owner was added

teamVars == <<org, role, invited, treq, teamCalls, crashes, overtaken, halfMade>>

Invitable == {"ADMIN", "MEMBER", "VIEWER"}
Roles == {"OWNER"} \cup Invitable
Managers == {"OWNER", "ADMIN"}
TeamOps == {"create", "invite", "accept", "decline", "setRole", "expel", "dissolve"}
NoInvitation == [state |-> "none", role |-> "VIEWER"]
NoTeamRequest == [op |-> "create", by |-> Founder, target |-> Founder, role |-> "VIEWER",
                  pc |-> "free", stale |-> FALSE]

Init ==
  /\ org = "none"
  /\ role = [u \in Users |-> "none"]
  /\ invited = [u \in Users |-> NoInvitation]
  /\ treq = [q \in TeamRequests |-> NoTeamRequest]
  /\ teamCalls = 0 /\ crashes = 0
  /\ overtaken = FALSE /\ halfMade = FALSE

Active(q) == treq[q].pc # "free"
Answer(q) == treq' = [treq EXCEPT ![q] = NoTeamRequest]

\* A write to the membership puts the checks of the requests it touches out of date.
Outdate(q, next) ==
  /\ treq' = [p \in TeamRequests |->
       IF p = q THEN next
       ELSE [treq[p] EXCEPT !.stale = @ \/ \E u \in {treq[p].by, treq[p].target} : role'[u] # role[u]]]
  /\ overtaken' = (overtaken \/ treq[q].stale)

\* create: the row first, its owner with a second insert (the slug is unique).
Create(q) ==
  /\ ~Active(q) /\ teamCalls < MaxTeamCalls /\ org = "none"
  /\ org' = "live"
  /\ treq' = [treq EXCEPT ![q] = [NoTeamRequest EXCEPT !.pc = "addOwner"]]
  /\ teamCalls' = teamCalls + 1
  /\ UNCHANGED <<role, invited, crashes, overtaken, halfMade>>

AddOwner(q) ==
  /\ treq[q].pc = "addOwner"
  /\ role' = IF org = "live" THEN [role EXCEPT ![Founder] = "OWNER"] ELSE role
  /\ Outdate(q, NoTeamRequest)
  /\ UNCHANGED <<org, invited, teamCalls, crashes, halfMade>>

\* Mutant: removeMember does not look at the role of its target.
AllowedAnyTarget(op, by, target) ==
  CASE op = "invite"   -> role[by] \in Managers /\ role[target] = "none"
    [] op \in {"accept", "decline"} -> by = target /\ invited[by].state # "none"
    [] op = "expel"    -> role[by] \in Managers /\ by # target
    [] op \in {"setRole", "dissolve"} -> role[by] = "OWNER" /\ (op = "setRole" => by # target)

Allowed(op, by, target) ==
  CASE op = "invite"   -> role[by] \in Managers /\ role[target] = "none"
    [] op = "accept"   -> by = target /\ invited[by].state # "none"
    [] op = "decline"  -> by = target /\ invited[by].state # "none"
    [] op = "setRole"  -> role[by] = "OWNER" /\ by # target
    [] op = "expel"    -> role[by] \in Managers /\ by # target /\ role[target] # "OWNER"
    [] op = "dissolve" -> role[by] = "OWNER"

\* ensureOwnerAccess, ensureOwnerOrAdminAccess and the other checks, in one step; the role
\* of an accepted invitation and whether its user is a member are read here too.
Check(q, op, by, target, r) ==
  /\ ~Active(q) /\ teamCalls < MaxTeamCalls
  /\ Allowed(op, by, target)
  /\ op = "invite" => r \in Invitable
  /\ op \notin {"invite", "setRole"} => r = IF op = "accept" THEN invited[by].role ELSE "VIEWER"
  /\ treq' = [treq EXCEPT ![q] = [op |-> op, by |-> by, target |-> target, role |-> r, stale |-> FALSE,
                pc |-> IF op = "accept" /\ role[by] # "none" THEN "mark" ELSE "write"]]
  /\ teamCalls' = teamCalls + 1
  /\ UNCHANGED <<org, role, invited, crashes, overtaken, halfMade>>

\* inviteMember: the upsert reopens an invitation of the same address.
Invite(q) ==
  /\ treq[q].pc = "write" /\ treq[q].op = "invite"
  /\ invited' = IF org = "live" THEN [invited EXCEPT ![treq[q].target] = [state |-> "pending", role |-> treq[q].role]]
                ELSE invited
  /\ Answer(q)
  /\ UNCHANGED <<org, role, teamCalls, crashes, overtaken, halfMade>>

\* Mutant: the member is upserted.
JoinUpserting(q) ==
  /\ treq[q].pc = "write" /\ treq[q].op = "accept" /\ org = "live"
  /\ role' = [role EXCEPT ![treq[q].by] = treq[q].role]
  /\ Outdate(q, [treq[q] EXCEPT !.pc = "mark"])
  /\ UNCHANGED <<org, invited, teamCalls, crashes, halfMade>>

\* acceptInvitation: the insert of the member fails when there is one already
\* or the organization is gone; the invitation is marked afterwards.
Join(q) ==
  LET u == treq[q].by IN
  /\ treq[q].pc = "write" /\ treq[q].op = "accept"
  /\ IF org = "live" /\ role[u] = "none"
     THEN role' = [role EXCEPT ![u] = treq[q].role] /\ Outdate(q, [treq[q] EXCEPT !.pc = "mark"])
     ELSE UNCHANGED <<role, overtaken>> /\ Answer(q)
  /\ UNCHANGED <<org, invited, teamCalls, crashes, halfMade>>

MarkAccepted(q) ==
  LET u == treq[q].by IN
  /\ treq[q].pc = "mark"
  /\ invited' = IF invited[u].state = "none" THEN invited ELSE [invited EXCEPT ![u].state = "accepted"]
  /\ Answer(q)
  /\ UNCHANGED <<org, role, teamCalls, crashes, overtaken, halfMade>>

Decline(q) ==
  /\ treq[q].pc = "write" /\ treq[q].op = "decline"
  /\ invited' = [invited EXCEPT ![treq[q].by] = NoInvitation]
  /\ Answer(q)
  /\ UNCHANGED <<org, role, teamCalls, crashes, overtaken, halfMade>>

\* updateMemberRole and removeMember write by the key of the target alone.
SetRole(q) ==
  LET u == treq[q].target IN
  /\ treq[q].pc = "write" /\ treq[q].op = "setRole"
  /\ role' = IF role[u] = "none" THEN role ELSE [role EXCEPT ![u] = treq[q].role]
  /\ Outdate(q, NoTeamRequest)
  /\ UNCHANGED <<org, invited, teamCalls, crashes, halfMade>>

Expel(q) ==
  /\ treq[q].pc = "write" /\ treq[q].op = "expel"
  /\ role' = [role EXCEPT ![treq[q].target] = "none"]
  /\ Outdate(q, NoTeamRequest)
  /\ UNCHANGED <<org, invited, teamCalls, crashes, halfMade>>

\* delete: members and invitations go with the row (ON DELETE CASCADE).
Dissolve(q) ==
  /\ treq[q].pc = "write" /\ treq[q].op = "dissolve"
  /\ org' = "gone"
  /\ role' = [u \in Users |-> "none"]
  /\ invited' = [u \in Users |-> NoInvitation]
  /\ Outdate(q, NoTeamRequest)
  /\ UNCHANGED <<teamCalls, crashes, halfMade>>

\* The server restarts: requests under way are never continued.
Crash ==
  /\ crashes < MaxCrashes
  /\ \E q \in TeamRequests : Active(q)
  /\ crashes' = crashes + 1
  /\ halfMade' = (halfMade \/ \E q \in TeamRequests : treq[q].pc = "addOwner")
  /\ treq' = [q \in TeamRequests |-> NoTeamRequest]
  /\ UNCHANGED <<org, role, invited, teamCalls, overtaken>>

\* Every step but the deletion of the organization, which saved resources notice.
Work ==
  \/ Crash
  \/ \E q \in TeamRequests :
       \/ Create(q) \/ AddOwner(q) \/ Invite(q) \/ Join(q) \/ MarkAccepted(q)
       \/ Decline(q) \/ SetRole(q) \/ Expel(q)
       \/ \E op \in TeamOps \ {"create"}, by, target \in Users, r \in Roles : Check(q, op, by, target, r)

Next == Work \/ \E q \in TeamRequests : Dissolve(q)

Spec == Init /\ [][Next]_teamVars

-----------------------------------------------------------------------------
\* Rows and requests keep their types.
TypeOK ==
  /\ org \in {"none", "live", "gone"} /\ overtaken \in BOOLEAN /\ halfMade \in BOOLEAN
  /\ role \in [Users -> Roles \cup {"none"}]
  /\ invited \in [Users -> [state : {"none", "pending", "accepted"}, role : Invitable]]
  /\ treq \in [TeamRequests -> [op : TeamOps, by : Users, target : Users, role : Roles,
                                pc : {"free", "addOwner", "write", "mark"}, stale : BOOLEAN]]
  /\ teamCalls \in Nat /\ crashes \in Nat

\* A team is never left without an owner by the changes of roles and removals
\* alone: it takes a creation cut between its two inserts, or a write whose
\* check another request had outdated (two owners who demote each other).
OwnerRemains ==
  \/ org # "live" \/ halfMade \/ overtaken
  \/ \E q \in TeamRequests : treq[q].pc = "addOwner"
  \/ \E u \in Users : role[u] = "OWNER"

\* Accepting an invitation, once, twice or at the same time in two windows,
\* never changes the role of someone who is a member already: a role changes
\* only by the request of an owner, by a removal or with the organization.
AcceptNeverOverrides ==
  [][\A u \in Users : role[u] # "none" /\ role'[u] # role[u]
       => \E q \in TeamRequests : treq[q].op \in {"create", "setRole", "expel", "dissolve"}
                                  /\ treq[q].pc # "free" /\ treq'[q].pc = "free"]_teamVars
=============================================================================
