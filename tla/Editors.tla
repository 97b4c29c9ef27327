------------------------------- MODULE Editors -------------------------------
(***************************************************************************)
(* Work that several hands do on one thing: the query tabs and the data    *)
(* grid of one browser, the restoration of an organization's backup, and   *)
(* the password of an account.  A behaviour exercises one of them, the     *)
(* focus; the others stay as they start.                                   *)
(***************************************************************************)
EXTENDS Naturals, FiniteSets

CONSTANTS Conns,
          Tabs, MaxRuns, MaxTabMoves, MaxTabFaults,     \* of QueryTabs
          Rows, Saves, MaxEdits, MaxGridMoves, MaxGridFaults, \* of GridEditing
          Items, Restores, Creator, MaxActs,            \* of Backup
          Callers, MaxCalls                             \* of Accounts

ASSUME ConnsAssumption == Conns # {}

\* "closed" stands for tabs that are gone.
ASSUME TabsAssumption ==
  IsFiniteSet(Tabs) /\ "closed" \notin Tabs /\ {MaxRuns, MaxTabMoves, MaxTabFaults} \subseteq Nat

\* The copies of a resource are not resources, and requests are told apart.
ASSUME BackupAssumption ==
  Items \cap (Restores \X Items) = {} /\ Creator \notin Restores /\ MaxActs \in Nat

VARIABLES focus,
          active, tab, kept, cache, requests, asking, faults, moves, shown, pressed, occasions, confirms, ran,
          conn, isEditMode, pendingChanges, isSaving, save, jobs, stored, deleted, edits,
          spent, broken, open, during, carried, missed, latest, overlapped,
          spaces, created, policy, backup, request, copied, acts, moved,
          account, accountCall, codes, mailed, over, calls, done, again, rivals, undone, vouched, raced

QueryTabs == INSTANCE QueryTabs WITH MaxMoves <- MaxTabMoves, MaxFaults <- MaxTabFaults
GridEditing == INSTANCE GridEditing WITH MaxMoves <- MaxGridMoves, MaxFaults <- MaxGridFaults
Backup == INSTANCE Backup
Accounts == INSTANCE Accounts WITH Requests <- Callers, request <- accountCall, accepted <- done

tabs == <<active, tab, kept, cache, requests, asking, faults, moves, shown, pressed, occasions, confirms, ran>>
grid == <<conn, isEditMode, pendingChanges, isSaving, save, jobs, stored, deleted, edits,
          spent, broken, open, during, carried, missed, latest, overlapped>>
restore == <<spaces, created, policy, backup, request, copied, acts, moved>>
accounts == <<account, accountCall, codes, mailed, over, calls, done, again, rivals, undone, vouched, raced>>
vars == <<focus, tabs, grid, restore, accounts>>

Init ==
  /\ focus \in {"tabs", "grid", "restore", "password"}
  /\ QueryTabs!Init /\ GridEditing!Init /\ Backup!Init /\ Accounts!Init

Next ==
  \/ focus = "tabs" /\ QueryTabs!Next /\ UNCHANGED <<focus, grid, restore, accounts>>
  \/ focus = "grid" /\ GridEditing!Next /\ UNCHANGED <<focus, tabs, restore, accounts>>
  \/ focus = "restore" /\ Backup!Next /\ UNCHANGED <<focus, tabs, grid, accounts>>
  \/ focus = "password" /\ Accounts!Next /\ UNCHANGED <<focus, tabs, grid, restore>>

Spec == Init /\ [][Next]_vars

-----------------------------------------------------------------------------
\* No statement is executed more often than asked for, and Run sends a request.
RunsAreAskedFor == QueryTabs!RunsAreAskedFor

\* An edit of the grid is stored, discarded, or still shown as pending.
EditsLand == GridEditing!EditsLand

\* A restore that ends well has put everything where the backup had it.
RestoreFaithful == Backup!RestoreFaithful

\* A code mailed for an account is good, once, until another is asked for or it expires.
CodesGoodOnce == Accounts!CodesGoodOnce

\* A confirmed account has a password that the owner of the mailbox stands for.
VerifiedAsRegistered == Accounts!VerifiedAsRegistered
=============================================================================
