------------------------------ MODULE Sharing ------------------------------
(***************************************************************************)
(* A saved query, dashboard or ERD workspace of one user, which may be     *)
(* shared with one organization: its row, the row of its policy and        *)
(* teamspace (OrganizationResource) and its version history                *)
(* (saved-queries, dashboards, erd-workspaces, permissions, teamspaces,    *)
(* version-history).  Each request awaits several queries one after the    *)
(* other, in no transaction but where the code opens one.                  *)
(***************************************************************************)
EXTENDS FiniteSets, Naturals

CONSTANTS Users,
          Owner,    \* the user whose resource it is
          Requests, \* requests that may be under way at once
          MaxCalls, \* bound: requests in a behaviour
          MaxFaults \* bound: queries that fail where the request goes on or stops half-way

VARIABLES org, role, \* the organization and its members' roles, written by Team
          kind,      \* "QUERY", "DASHBOARD" or "ERD"
          row,       \* the row of the resource
          policy,    \* its row in OrganizationResource: none, in no teamspace, in the teamspace
          teamspace, \* is the organization's teamspace there?
          versions,  \* rows of its history
          req, calls, faults,
          crossed,   \* ghost: some save met another one, or left no version
          dangling     \* ghost: the policy is as a failed query, or an assignment of an
                     \* unshared resource, has left it

sharingVars == <<kind, row, policy, teamspace, versions, req, calls, faults, crossed, dangling>>

Saves == {"edit", "share", "unshare", "restore"}
Ops == Saves \cup {"remove", "assign", "unassign", "drop"}
Row == [live : BOOLEAN, org : BOOLEAN, visibility : {"private", "workspace"}, content : 0 .. MaxCalls]
NoRequest == [op |-> "edit", by |-> Owner, pc |-> "free", old |-> FALSE, visibility |-> "private",
              content |-> 0, next |-> 0]

\* The resource is there with its first version (none for a dashboard): private,
\* but for an ERD workspace that a backup has brought into the organization.
InitWith(spent) ==
  /\ kind \in {"QUERY", "DASHBOARD", "ERD"}
  /\ \E shared \in BOOLEAN :
       /\ shared => kind = "ERD"
       /\ row = [live |-> TRUE, org |-> shared, visibility |-> "private", content |-> 0]
       /\ policy = IF shared THEN "plain" ELSE "none"
  /\ teamspace = TRUE
  /\ versions = IF kind = "DASHBOARD" THEN {} ELSE {[n |-> 1, content |-> 0, visibility |-> "private"]}
  /\ req = [q \in Requests |-> NoRequest]
  /\ calls = spent /\ faults = 0 /\ crossed = FALSE /\ dangling = FALSE

PermissionsOf(r) ==
  CASE r \in {"OWNER", "ADMIN"} -> {"READ", "WRITE", "DELETE", "MANAGE", "COMMENT", "SHARE"}
    [] r = "MEMBER" -> {"READ", "WRITE", "COMMENT"}
    [] r = "VIEWER" -> {"READ"}
    [] r = "none"   -> {}

\* checkPermission: the roles decide for a shared resource, for its creator too.
Can(u, permission) ==
  row.live /\ IF row.org THEN permission \in PermissionsOf(role[u]) ELSE u = Owner

Manages(u) == role[u] \in {"OWNER", "ADMIN"}

Needed(op) == CASE op = "edit" -> "WRITE" [] op = "remove" -> "DELETE" [] OTHER -> "MANAGE"

Saving(q) == req[q].pc \in {"check", "write", "policy", "read", "insert"} /\ req[q].op \in Saves
Meets(q) == \E p \in Requests \ {q} : Saving(p)

\* A request arrives; saves bring a content of their own.
Ask(q, op, u) ==
  /\ req[q].pc = "free" /\ calls < MaxCalls
  /\ op \in {"share", "unshare"} => kind # "ERD"
  /\ op = "restore" => u = Owner /\ kind # "DASHBOARD"
  /\ calls' = calls + 1
  /\ req' = [req EXCEPT ![q] = [NoRequest EXCEPT !.op = op, !.by = u,
               !.content = IF op \in Saves THEN calls + 1 ELSE 0,
               !.pc = IF op \in {"assign", "unassign", "drop"} THEN "manage" ELSE "find"]]
  /\ UNCHANGED <<org, role, kind, row, policy, teamspace, versions, faults, crossed, dangling>>

Go(q, pc) == req' = [req EXCEPT ![q].pc = pc]
Answer(q) == req' = [req EXCEPT ![q] = NoRequest]

\* The checks have passed: who asks does not matter any more.
Pass(q) == req' = [req EXCEPT ![q].pc = "write", ![q].by = Owner]

\* The row as it is before the permission is checked: its scope is what an
\* edit writes back.
Find(q) ==
  /\ req[q].pc = "find" /\ req[q].op # "restore"
  /\ IF row.live
     THEN req' = [req EXCEPT ![q].pc = "check", ![q].old = row.org, ![q].visibility = row.visibility]
     ELSE Answer(q)
  /\ UNCHANGED <<org, role, kind, row, policy, teamspace, versions, calls, faults, crossed, dangling>>

\* Mutant: a save that does not name a visibility gets the default one.
SharesByDefault(q) == req[q].op = "share"

\* The visibility and organization the save asks for, as normalizeVisibility leaves them.
Shares(q) ==
  CASE req[q].op = "share"   -> TRUE
    [] req[q].op = "unshare" -> FALSE
    [] OTHER -> req[q].old /\ req[q].visibility = "workspace"

\* ensurePermission, and ensureMemberAccess for the organization to share with.
Check(q) ==
  /\ req[q].pc = "check"
  /\ IF Can(req[q].by, Needed(req[q].op))
        /\ (req[q].op \in Saves /\ Shares(q) => role[req[q].by] # "none")
     THEN Pass(q)
     ELSE Answer(q)
  /\ UNCHANGED <<org, role, kind, row, policy, teamspace, versions, calls, faults, crossed, dangling>>

\* After its write a save is acknowledged, keeps the policy in step or records a version.
AfterWrite(q) ==
  IF kind # "ERD" /\ req[q].op # "restore" /\ (req[q].old # row'.org \/ (kind = "QUERY" /\ row'.org))
  THEN "policy"
  ELSE IF kind = "DASHBOARD" THEN "free" ELSE "read"

\* update: name and content if given, but always the visibility and the
\* organization computed from the row that was found.
Update(q) ==
  /\ req[q].pc = "write" /\ req[q].op \in Saves \ {"restore"}
  /\ IF row.live /\ (Shares(q) => org = "live")
     THEN /\ row' = [row EXCEPT !.content = req[q].content,
                      !.org = IF kind = "ERD" THEN @ ELSE Shares(q),
                      !.visibility = IF Shares(q) THEN "workspace" ELSE "private"]
          /\ IF AfterWrite(q) = "free" THEN Answer(q)
             ELSE req' = [req EXCEPT ![q].pc = AfterWrite(q), ![q].visibility = row'.visibility]
          /\ crossed' = (crossed \/ Meets(q))
     ELSE Answer(q) /\ UNCHANGED <<row, crossed>>
  /\ UNCHANGED <<org, role, kind, policy, teamspace, versions, calls, faults, dangling>>

\* Mutant: leaving the organization forgets removeResourcePolicy.
KeepPolicyAlways(q) ==
  /\ req[q].pc = "policy"
  /\ policy' = IF policy = "none" /\ org = "live" THEN "plain" ELSE policy
  /\ dangling' = FALSE
  /\ IF kind = "QUERY" THEN Go(q, "read") ELSE Answer(q)
  /\ UNCHANGED <<org, role, kind, row, teamspace, versions, calls, faults, crossed>>

\* removeResourcePolicy from the organization it leaves, ensureResourcePolicy
\* for the one it is in; both leave another request's row as they find it.
KeepPolicy(q) ==
  LET shared == req[q].visibility = "workspace" IN
  /\ req[q].pc = "policy"
  /\ policy' = CASE ~shared -> "none"
                 [] shared /\ org = "live" /\ policy = "none" -> "plain"
                 [] OTHER -> policy
  /\ dangling' = FALSE
  /\ IF kind = "QUERY" /\ (shared => org = "live") THEN Go(q, "read") ELSE Answer(q)
  /\ UNCHANGED <<org, role, kind, row, teamspace, versions, calls, faults, crossed>>

\* Their query fails: removeResourcePolicy swallows it and the save goes on,
\* ensureResourcePolicy throws; or the server dies.
PolicyFails(q) ==
  /\ req[q].pc = "policy" /\ faults < MaxFaults
  /\ faults' = faults + 1 /\ dangling' = TRUE
  /\ \/ /\ req[q].visibility = "private"
        /\ IF kind = "QUERY" THEN Go(q, "read") ELSE Answer(q)
        /\ UNCHANGED crossed
     \/ Answer(q) /\ crossed' = TRUE
  /\ UNCHANGED <<org, role, kind, row, policy, teamspace, versions, calls>>

\* createVersionRecord: the largest number first, then the insert, which the
\* unique index refuses when another save has taken the number meanwhile.
Latest == IF versions = {} THEN 0 ELSE CHOOSE n \in {v.n : v \in versions} : \A v \in versions : v.n <= n

ReadLatest(q) ==
  /\ req[q].pc = "read"
  /\ req' = [req EXCEPT ![q].pc = "insert", ![q].next = Latest + 1]
  /\ UNCHANGED <<org, role, kind, row, policy, teamspace, versions, calls, faults, crossed, dangling>>

\* Mutant: no unique index on the number.
InsertAnyway(q) ==
  /\ req[q].pc = "insert"
  /\ versions' = versions \cup {[n |-> req[q].next, content |-> req[q].content, visibility |-> req[q].visibility]}
  /\ Answer(q)
  /\ UNCHANGED <<org, role, kind, row, policy, teamspace, calls, faults, crossed, dangling>>

Insert(q) ==
  /\ req[q].pc = "insert"
  /\ IF \E v \in versions : v.n = req[q].next
     THEN crossed' = TRUE /\ versions' = versions
     ELSE /\ versions' = versions \cup
               {[n |-> req[q].next, content |-> req[q].content, visibility |-> req[q].visibility]}
          /\ crossed' = crossed
  /\ Answer(q)
  /\ UNCHANGED <<org, role, kind, row, policy, teamspace, calls, faults, dangling>>

\* recordSavedQueryVersion goes on without a version when the table is missing.
HistoryUnavailable(q) ==
  /\ req[q].pc \in {"read", "insert"} /\ faults < MaxFaults
  /\ faults' = faults + 1 /\ crossed' = TRUE
  /\ Answer(q)
  /\ UNCHANGED <<org, role, kind, row, policy, teamspace, versions, calls, dangling>>

\* restoreVersion: the creator's alone; the snapshot's content and visibility
\* come back, the organization and the policy stay.
FindVersion(q, v) ==
  /\ req[q].pc = "find" /\ req[q].op = "restore" /\ kind # "DASHBOARD"
  /\ IF row.live
     THEN req' = [req EXCEPT ![q].pc = "write", ![q].old = row.org,
                    ![q].content = v.content, ![q].visibility = v.visibility]
     ELSE Answer(q)
  /\ UNCHANGED <<org, role, kind, row, policy, teamspace, versions, calls, faults, crossed, dangling>>

\* Mutant: a restore records no version of its own.
RestoreUnrecorded(q) ==
  /\ req[q].pc = "write" /\ req[q].op = "restore" /\ row.live
  /\ row' = [row EXCEPT !.content = req[q].content]
  /\ Answer(q)
  /\ UNCHANGED <<org, role, kind, policy, teamspace, versions, calls, faults, crossed, dangling>>

Restore(q) ==
  /\ req[q].pc = "write" /\ req[q].op = "restore"
  /\ IF row.live
     THEN /\ row' = [row EXCEPT !.content = req[q].content,
                      !.visibility = IF kind = "QUERY" /\ req[q].old THEN req[q].visibility ELSE "private"]
          /\ req' = [req EXCEPT ![q].pc = "read", ![q].visibility = row'.visibility]
          /\ crossed' = (crossed \/ Meets(q))
     ELSE Answer(q) /\ UNCHANGED <<row, crossed>>
  /\ UNCHANGED <<org, role, kind, policy, teamspace, versions, calls, faults, dangling>>

\* A dashboard's policy goes in the same transaction; those of queries and ERDs stay.
Remove(q) ==
  /\ req[q].pc = "write" /\ req[q].op = "remove"
  /\ row' = [row EXCEPT !.live = FALSE, !.org = FALSE]
  /\ policy' = IF kind = "DASHBOARD" /\ row.live THEN "none" ELSE policy
  /\ crossed' = (crossed \/ Meets(q))
  /\ dangling' = (dangling /\ ~(kind = "DASHBOARD" /\ row.live))
  /\ Answer(q)
  /\ UNCHANGED <<org, role, kind, teamspace, versions, calls, faults>>

\* assignResourceTeamspace asks for the role and the teamspace, not whether the resource is
\* shared, or there at all; a teamspace deleted before the upsert fails its foreign key.
Assign(q) ==
  /\ req[q].pc = "manage" /\ req[q].op \in {"assign", "unassign"}
  /\ IF Manages(req[q].by) /\ (req[q].op = "assign" => teamspace) THEN Pass(q) ELSE Answer(q)
  /\ UNCHANGED <<org, role, kind, row, policy, teamspace, versions, calls, faults, crossed, dangling>>

WriteAssignment(q) ==
  /\ req[q].pc = "write" /\ req[q].op \in {"assign", "unassign"}
  /\ policy' = CASE req[q].op = "unassign" /\ org = "live" -> "plain"
                 [] req[q].op = "assign" /\ teamspace -> "assigned"
                 [] OTHER -> policy
  /\ dangling' = (dangling \/ (~row.org /\ policy' # "none"))
  /\ Answer(q)
  /\ UNCHANGED <<org, role, kind, row, teamspace, versions, calls, faults, crossed>>

\* TeamspacesService.delete: resources are unassigned and the row goes in one transaction.
DropTeamspace(q) ==
  /\ req[q].pc = "manage" /\ req[q].op = "drop"
  /\ IF Manages(req[q].by) /\ teamspace
     THEN teamspace' = FALSE /\ policy' = IF policy = "assigned" THEN "plain" ELSE policy
     ELSE UNCHANGED <<teamspace, policy>>
  /\ Answer(q)
  /\ UNCHANGED <<org, role, kind, row, versions, calls, faults, crossed, dangling>>

\* The organization is deleted: its policies and teamspaces go with it, its
\* resources are left to their creators (ON DELETE SET NULL).
OrganizationGone ==
  /\ row' = [row EXCEPT !.org = FALSE]
  /\ policy' = "none" /\ teamspace' = FALSE
  /\ crossed' = (crossed \/ \E q \in Requests : req[q].pc # "free")
  /\ dangling' = FALSE
  /\ UNCHANGED <<kind, versions, req, calls, faults>>

Next ==
  \E q \in Requests :
    \/ \E op \in Ops, u \in Users : Ask(q, op, u)
    \/ Find(q) \/ Check(q) \/ Update(q) \/ KeepPolicy(q) \/ PolicyFails(q) \/ Restore(q) \/ Remove(q)
    \/ ReadLatest(q) \/ Insert(q) \/ HistoryUnavailable(q)
    \/ \E v \in versions : FindVersion(q, v)
    \/ Assign(q) \/ WriteAssignment(q) \/ DropTeamspace(q)

-----------------------------------------------------------------------------
\* Rows and requests keep their types.
TypeOK ==
  /\ kind \in {"QUERY", "DASHBOARD", "ERD"}
  /\ row \in Row
  /\ policy \in {"none", "plain", "assigned"} /\ teamspace \in BOOLEAN
  /\ versions \subseteq [n : Nat, content : 0 .. MaxCalls, visibility : {"private", "workspace"}]
  /\ req \in [Requests -> [op : Ops, by : Users, old : BOOLEAN, next : Nat,
                 visibility : {"private", "workspace"}, content : 0 .. MaxCalls,
                 pc : {"free", "find", "check", "manage", "write", "policy", "read", "insert"}]]
  /\ calls \in 0 .. MaxCalls /\ faults \in 0 .. MaxFaults /\ crossed \in BOOLEAN /\ dangling \in BOOLEAN

\* However saves and restores interleave, the numbers of the history are
\* 1, 2, 3, ... with no gap and no number given twice.
VersionsNumbered ==
  /\ \A v, w \in versions : v.n = w.n => v = w
  /\ \A v \in versions : v.n > 1 => \E w \in versions : w.n = v.n - 1

\* The last version is what the query or workspace holds, whenever no save is
\* under way, unless saves have met or one has left no version behind.
LatestIsCurrent ==
  kind # "DASHBOARD" /\ row.live /\ ~crossed
    /\ (\A q \in Requests : req[q].pc \notin {"policy", "read", "insert"})
    => \E v \in versions : v.n = Latest /\ v.content = row.content

\* A resource is in the organization's list of resources, and may be in a
\* teamspace, exactly while it is shared: unsharing clears the assignment,
\* also after versions were restored, teamspaces deleted and the team
\* dissolved, unless saves have met, or the policy is still as an assignment
\* of an unshared resource or a removal that failed has left it: the next save
\* that keeps the policy in step mends both.  (A removed query or ERD is not covered.)
PolicyFollowsSharing ==
  (row.live \/ kind = "DASHBOARD") /\ ~crossed /\ ~dangling /\ (\A q \in Requests : req[q].pc # "policy")
    => (row.org <=> policy # "none")

\* An edit of the content, for which the right to write is enough, never changes
\* whether the resource is shared, which takes the right to manage: unless saves
\* have met, so that the edit writes back a scope that was changed meanwhile, or
\* a private version was restored into a shared query.
ScopeNeedsManage ==
  [][\A q \in Requests : req[q].op = "edit" /\ req[q].pc = "write" /\ req'[q].pc # "write"
       => row'.org = row.org \/ crossed' \/ (row.org /\ row.visibility = "private")]_sharingVars
=============================================================================
