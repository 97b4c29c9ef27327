------------------------------ MODULE Services ------------------------------
(***************************************************************************)
(* Services of the server that share nothing but Redis and Postgres, and   *)
(* the reader of SQL.  A behaviour exercises one of them, the focus; the   *)
(* others stay as they start.  The assistant's responses are those of      *)
(* AiStream.                                                               *)
(***************************************************************************)
EXTENDS AiStream, SqlBatch, FiniteSets

CONSTANTS Users, Visits, StaleWindow, Ttl,                   \* of Presence
          Tabs, MaxOpens, MaxErrors, MaxEmits,               \* of Notifications
          Items, IdOf, TermsOf, Syncs, MaxSyncs, MaxDeaths, MaxRefused, \* of SearchIndex
          Commenters, LogWindow, MaxIds, MaxResolves, MaxLost  \* of Comments

\* An entry of presence is stale before the hash can end.
ASSUME PresenceAssumption ==
  Users # {} /\ StaleWindow \in Nat /\ Ttl \in Nat /\ StaleWindow < Ttl

ASSUME NotificationAssumption == IsFiniteSet(Tabs) /\ {MaxOpens, MaxErrors, MaxEmits} \subseteq Nat

\* The key of the hash of items is not that of a term, nor the manifest's own.
ASSUME IndexAssumption ==
  /\ DOMAIN TermsOf = Items /\ {"items", "manifest"} \cap UNION {TermsOf[i] : i \in Items} = {}
  /\ DOMAIN IdOf = Items /\ {MaxSyncs, MaxDeaths, MaxRefused} \subseteq Nat

ASSUME CommentAssumption == LogWindow \in Nat \ {0} /\ {MaxIds, MaxResolves, MaxLost} \subseteq Nat

VARIABLES focus,
          entries, ttl, visit,
          tab, subscribers, pipe, channel, message, heard, opens, errors, emits, owed,
          stored, postings, manifest, sync, syncs, deaths, wanted, orphaned,
          log, comment, ids, resolves, lost, acked, retained

presence == <<entries, ttl, visit>>
notifications == <<tab, subscribers, pipe, channel, message, heard, opens, errors, emits, owed>>
index == <<stored, postings, manifest, sync, syncs, deaths, wanted, orphaned>>
comments == <<log, comment, ids, resolves, lost, acked, retained>>
vars == <<focus, presence, notifications, index, comments, streamVars, text>>

Presence == INSTANCE Presence WITH Window <- StaleWindow
Notifications == INSTANCE Notifications
SearchIndex == INSTANCE SearchIndex
Comments == INSTANCE Comments WITH Window <- LogWindow

Init ==
  /\ focus \in {"presence", "notifications", "index", "comments", "stream", "text"}
  /\ Presence!Init /\ Notifications!Init /\ SearchIndex!Init /\ Comments!Init
  /\ StreamInit /\ TextInit

Rest(f) ==
  /\ UNCHANGED focus
  /\ f # "presence" => UNCHANGED presence
  /\ f # "notifications" => UNCHANGED notifications
  /\ f # "index" => UNCHANGED index
  /\ f # "comments" => UNCHANGED comments
  /\ f # "stream" => UNCHANGED streamVars
  /\ f # "text" => UNCHANGED text

Next ==
  \/ focus = "presence" /\ Presence!Next /\ Rest("presence")
  \/ focus = "notifications" /\ Notifications!Next /\ Rest("notifications")
  \/ focus = "index" /\ SearchIndex!Next /\ Rest("index")
  \/ focus = "comments" /\ Comments!Next /\ Rest("comments")
  \/ focus = "stream" /\ StreamNext /\ Rest("stream")
  \/ focus = "text" /\ TextNext /\ Rest("text")

\* Out of focus, neither has a step to take.
Spec ==
  /\ Init /\ [][Next]_vars
  /\ Notifications!Fairness /\ StreamFairness

-----------------------------------------------------------------------------
\* A fresh presence entry goes only by a leave, a sweep that saw it stale, or the hash's end.
FreshEntriesStay == Presence!FreshEntriesStay

\* An open notification stream has its Redis channel, and no channel is left behind.
OpenStreamsHaveChannel == Notifications!OpenStreamsHaveChannel

\* A notification emitted while streams are open reaches those that stay.
EmittedIsHeard == Notifications!EmittedIsHeard

\* A rebuild that ran alone makes keyword search exact, but for items that share an id.
SearchIsExact == SearchIndex!SearchIsExact

\* An answered comment thread is there until retention deletes it.
AnsweredThreadsStay == Comments!AnsweredThreadsStay
=============================================================================
