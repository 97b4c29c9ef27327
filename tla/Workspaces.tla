----------------------------- MODULE Workspaces -----------------------------
(***************************************************************************)
(* A team and a resource of one of its users: the members' roles decide    *)
(* what a request may do with the resource, and deleting the organization  *)
(* takes its policies and teamspaces away.                                 *)
(***************************************************************************)
EXTENDS Team

CONSTANTS Owner, Requests, MaxCalls, MaxFaults

ASSUME WorkspaceAssumption ==
  /\ Owner \in Users
  /\ MaxTeamCalls \in Nat \ {0} /\ MaxCrashes \in Nat
  /\ MaxCalls \in Nat \ {0} /\ MaxFaults \in Nat

VARIABLES kind, row, policy, teamspace, versions, req, calls, faults, crossed, dangling

Resource == INSTANCE Sharing

resourceVars == <<kind, row, policy, teamspace, versions, req, calls, faults, crossed, dangling>>

vars == <<teamVars, resourceVars>>

\* A behaviour spends its requests on the team, from its foundation on, or on
\* the resource of a user who may be a member, one change of the team included.
FromScratch ==
  /\ Init
  /\ Resource!InitWith(MaxCalls) /\ kind = "QUERY"

Settled ==
  /\ org = "live"
  /\ role \in [Users -> Roles \cup {"none"}] /\ role[Founder] = "OWNER"
  /\ invited = [u \in Users |-> NoInvitation]
  /\ treq = [q \in TeamRequests |-> NoTeamRequest]
  /\ crashes = MaxCrashes
  /\ overtaken = FALSE /\ halfMade = FALSE
  /\ \E changes \in {0, 1} : teamCalls = MaxTeamCalls - changes /\ Resource!InitWith(changes)

WorkspaceInit == FromScratch \/ Settled

WorkspaceNext ==
  \/ Work /\ UNCHANGED resourceVars
  \/ (\E q \in TeamRequests : Dissolve(q)) /\ Resource!OrganizationGone
  \/ Resource!Next /\ UNCHANGED teamVars

WorkspaceSpec == WorkspaceInit /\ [][WorkspaceNext]_vars

-----------------------------------------------------------------------------
\* The rows and requests of the team and of the resource keep their types.
WorkspaceTypeOK == TypeOK /\ Resource!TypeOK

\* The history's numbers have no gap and no duplicate, whoever saves.
VersionsNumbered == Resource!VersionsNumbered

\* With no save under way the last version is the current content.
LatestIsCurrent == Resource!LatestIsCurrent

\* The history of a resource can be counted on: its numbers and its last version.
HistoryFaithful == VersionsNumbered /\ LatestIsCurrent

\* Policy and teamspace rows are there exactly while the resource is shared, but for the
\* exceptions of Sharing.
PolicyFollowsSharing == Resource!PolicyFollowsSharing

\* An edit of the content alone never changes whether the resource is shared.
ScopeNeedsManage == Resource!ScopeNeedsManage
=============================================================================
