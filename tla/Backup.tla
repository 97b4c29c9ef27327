------------------------------- MODULE Backup -------------------------------
(***************************************************************************)
(* The backup of an organization and its restoration: OrganizationBackup-  *)
(* Service, with the teamspaces and the resources assigned to them, which  *)
(* others change in the meantime (TeamspacesService).  A restore creates   *)
(* new teamspaces and copies one after the other, in no transaction.       *)
(* The originals are there throughout; widgets go with their dashboard.    *)
(***************************************************************************)
EXTENDS FiniteSets, Functions, Naturals, Sequences

CONSTANTS Items,    \* shared queries, dashboards and ERD workspaces
          Restores, \* restores of the backup, each by a request of its own
          Creator,  \* somebody who creates a teamspace
          MaxActs   \* bound: teamspaces created and deleted, resources assigned and withdrawn

VARIABLES spaces,   \* the teamspaces: the slug of each
          created,  \* how many there have been
          policy,   \* the teamspace in the policy of a resource or copy, 0 for none
          backup,   \* what the export has read
          request,  \* restores, and a creation, under way
          copied,   \* the copies there are: of which resource, by which restore
          acts,
          moved     \* ghost: copies whose policy somebody has written since it was attached

backupVars == <<spaces, created, policy, backup, request, copied, acts, moved>>

Requests == Restores \cup {Creator}
Empty == [x \in {} |-> 0]
Idle == [pc |-> "idle", base |-> <<>>, n |-> 1, map |-> Empty, item |-> "none"]

\* Some resources have no policy row yet.
Init ==
  /\ spaces = [s \in {1, 2} |-> <<IF s = 1 THEN "a" ELSE "b">>]
  /\ created = 2
  /\ \E shared \in SUBSET Items : policy \in [shared -> 0 .. 2]
  /\ backup = [read |-> {}, spaces |-> Empty, policies |-> Empty]
  /\ request = [p \in Requests |-> Idle]
  /\ copied = {} /\ acts = 0 /\ moved = {}

Live == DOMAIN spaces
Least(S) == CHOOSE s \in S : \A t \in S : s <= t

\* The export reads teamspaces and policies at once, in either order.
ReadSpaces ==
  /\ "spaces" \notin backup.read
  /\ backup' = [backup EXCEPT !.read = @ \cup {"spaces"}, !.spaces = spaces]
  /\ UNCHANGED <<spaces, created, policy, request, copied, acts, moved>>

ReadPolicies ==
  /\ "policies" \notin backup.read
  /\ backup' = [backup EXCEPT !.read = @ \cup {"policies"}, !.policies = Restrict(policy, Items \cap DOMAIN policy)]
  /\ UNCHANGED <<spaces, created, policy, request, copied, acts, moved>>

Exported == backup.read = {"spaces", "policies"}

\* What a restore has left to do: teamspaces in the order they were created, then copies.
SpacesLeft(p) == DOMAIN backup.spaces \ DOMAIN request[p].map
ItemsLeft(p) == {i \in Items : <<p, i>> \notin copied}

Start(r) ==
  /\ Exported /\ request[r].pc = "idle"
  /\ request' = [request EXCEPT ![r].pc = "next"]
  /\ UNCHANGED <<spaces, created, policy, backup, copied, acts, moved>>

StartCreate ==
  /\ request[Creator].pc = "idle" /\ acts < MaxActs
  /\ acts' = acts + 1
  /\ request' = [request EXCEPT ![Creator].pc = "probe", ![Creator].base = <<"a">>]
  /\ UNCHANGED <<spaces, created, policy, backup, copied, moved>>

NextSpace(r) ==
  /\ request[r].pc = "next" /\ SpacesLeft(r) # {}
  /\ request' = [request EXCEPT ![r].pc = "probe", ![r].n = 1,
                                ![r].base = backup.spaces[Least(SpacesLeft(r))]]
  /\ UNCHANGED <<spaces, created, policy, backup, copied, acts, moved>>

\* The slug, then the slug with 2, 3, ... appended.
Candidate(p) == IF request[p].n = 1 THEN request[p].base ELSE Append(request[p].base, request[p].n)
Taken(slug) == \E s \in Live : spaces[s] = slug

\* generateUniqueTeamspaceSlug asks for one candidate after the other.
Probe(p) ==
  /\ request[p].pc = "probe"
  /\ request' = IF Taken(Candidate(p)) THEN [request EXCEPT ![p].n = @ + 1] ELSE [request EXCEPT ![p].pc = "create"]
  /\ UNCHANGED <<spaces, created, policy, backup, copied, acts, moved>>

Fails(p) == request' = [request EXCEPT ![p] = [Idle EXCEPT !.pc = "failed"]]

\* The database refuses a slug that was taken since.
CreateSpace(p) ==
  /\ request[p].pc = "create"
  /\ IF Taken(Candidate(p))
     THEN Fails(p) /\ UNCHANGED <<spaces, created>>
     ELSE /\ created' = created + 1
          /\ spaces' = [s \in Live \cup {created'} |-> IF s = created' THEN Candidate(p) ELSE spaces[s]]
          /\ request' =
               IF p = Creator
               THEN [request EXCEPT ![p] = Idle]
               ELSE LET source == Least(SpacesLeft(p))
                    IN [request EXCEPT ![p].pc = "next", ![p].map =
                          [s \in DOMAIN @ \cup {source} |-> IF s = source THEN created' ELSE @[s]]]
  /\ UNCHANGED <<policy, backup, copied, acts, moved>>

\* A resource is copied, then its policy attached; in which order the kinds come makes no difference.
CopyItem(r, i) ==
  /\ request[r].pc = "next" /\ SpacesLeft(r) = {} /\ i \in ItemsLeft(r)
  /\ request' = [request EXCEPT ![r].pc = "attach", ![r].item = i]
  /\ copied' = copied \cup {<<r, i>>}
  /\ UNCHANGED <<spaces, created, policy, backup, acts, moved>>

\* The teamspace a backed-up policy names, 0 when it has none.
Source(i) == IF i \in DOMAIN backup.policies THEN backup.policies[i] ELSE 0

\* Mutant: the copy is assigned to the original's teamspace.
SourceItself(r, i) == Source(i)

\* The teamspace created for it, none when the backup lacks that teamspace.
Target(r, i) == IF Source(i) \in DOMAIN request[r].map THEN request[r].map[Source(i)] ELSE 0

\* The database refuses a teamspace that was deleted since.  The upsert overwrites a
\* policy that somebody has given the new copy already.
Attach(r) ==
  /\ request[r].pc = "attach"
  /\ LET i == request[r].item
         target == Target(r, i)
     IN IF target \in Live \cup {0}
        THEN /\ policy' = [x \in DOMAIN policy \cup {<<r, i>>} |-> IF x = <<r, i>> THEN target ELSE policy[x]]
             /\ request' = [request EXCEPT ![r].pc = "next", ![r].item = "none"]
             /\ moved' = moved \ {<<r, i>>}
        ELSE Fails(r) /\ UNCHANGED <<policy, moved>>
  /\ UNCHANGED <<spaces, created, backup, copied, acts>>

Finish(r) ==
  /\ request[r].pc = "next" /\ SpacesLeft(r) = {} /\ ItemsLeft(r) = {}
  /\ request' = [request EXCEPT ![r].pc = "done"]
  /\ UNCHANGED <<spaces, created, policy, backup, copied, acts, moved>>

\* The process ends, or a query fails: what was created stays.
Break(r) ==
  /\ request[r].pc \in {"next", "probe", "create", "attach"}
  /\ Fails(r)
  /\ UNCHANGED <<spaces, created, policy, backup, copied, acts, moved>>

\* A teamspace is deleted: its resources are in none.
Delete(s) ==
  /\ s \in Live /\ acts < MaxActs
  /\ acts' = acts + 1
  /\ spaces' = Restrict(spaces, Live \ {s})
  /\ policy' = [x \in DOMAIN policy |-> IF policy[x] = s THEN 0 ELSE policy[x]]
  /\ UNCHANGED <<created, backup, request, copied, moved>>

\* assignResourceTeamspace, of an original or a copy.
Assign(x, s) ==
  /\ s \in Live \cup {0} /\ acts < MaxActs
  /\ acts' = acts + 1
  /\ policy' = [y \in DOMAIN policy \cup {x} |-> IF y = x THEN s ELSE policy[y]]
  /\ moved' = moved \cup ({x} \cap copied)
  /\ UNCHANGED <<spaces, created, backup, request, copied>>

\* A copy is unshared, or a dashboard deleted, which removes its policy.
Withdraw(x) ==
  /\ x \in copied \cap DOMAIN policy /\ acts < MaxActs
  /\ acts' = acts + 1
  /\ policy' = Restrict(policy, DOMAIN policy \ {x})
  /\ moved' = moved \cup {x}
  /\ UNCHANGED <<spaces, created, backup, request, copied>>

Next ==
  \/ ReadSpaces \/ ReadPolicies \/ StartCreate
  \/ \E p \in Requests : Probe(p) \/ CreateSpace(p)
  \/ \E r \in Restores : Start(r) \/ NextSpace(r) \/ Attach(r) \/ Finish(r) \/ Break(r)
                         \/ \E i \in Items : CopyItem(r, i)
  \/ \E s \in Live : Delete(s)
  \/ \E x \in Items \cup copied, s \in Live \cup {0} : Assign(x, s)
  \/ \E x \in copied : Withdraw(x)

Spec == Init /\ [][Next]_backupVars

-----------------------------------------------------------------------------
\* The teamspace of a resource exists.  A restore that ends well has a teamspace
\* of its own for each in the backup, and has copied each resource.  Each copy is
\* in the teamspace made for the one that its original was in, if nobody deleted
\* that, unless somebody has moved or withdrawn the copy since it was attached.
RestoreFaithful ==
  /\ \A x \in DOMAIN policy : policy[x] \in Live \cup {0}
  /\ \A r \in Restores : request[r].pc = "done" =>
       LET map == request[r].map
       IN /\ DOMAIN map = DOMAIN backup.spaces /\ IsInjective(map)
          /\ \A q \in Restores \ {r} : Range(map) \cap Range(request[q].map) = {}
          /\ \A i \in Items : <<r, i>> \in copied
          /\ \A i \in Items : <<r, i>> \in moved \/
               /\ <<r, i>> \in DOMAIN policy
               /\ policy[<<r, i>>] = IF Source(i) \in DOMAIN map /\ map[Source(i)] \in Live THEN map[Source(i)] ELSE 0
=============================================================================
