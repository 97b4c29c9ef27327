------------------------------ MODULE Presence ------------------------------
(***************************************************************************)
(* Who is in one teamspace or resource (presence/presence.service.ts): a   *)
(* Redis hash with one entry per user, renewed by heartbeats, and swept of *)
(* stale entries by whoever lists it.  Time is kept as ages, in units of   *)
(* the stale window, so that behaviours need not end.                      *)
(***************************************************************************)
EXTENDS Naturals

CONSTANTS Users,
          Visits, \* requests that may be under way at once
          Window, \* staleWindowMs: older entries are stale
          Ttl     \* presenceTtlSeconds: life of the hash after a heartbeat

VARIABLES entries, \* the hash: age of the entry of each user who has one
          ttl,     \* time left to the hash; Ttl + 1 while it has no expiry
          visit    \* the requests

presenceVars == <<entries, ttl, visit>>

Older(age) == IF age > Window THEN age ELSE age + 1
OneOlder(hash) == [u \in DOMAIN hash |-> Older(hash[u])]
Without(hash, gone) == [u \in DOMAIN hash \ gone |-> hash[u]]
NoEntries == [u \in {} |-> 0]
NoVisit == [pc |-> "idle", user |-> CHOOSE u \in Users : TRUE, age |-> 0, seen |-> NoEntries]

Init ==
  /\ entries = NoEntries /\ ttl = Ttl + 1
  /\ visit = [q \in Visits |-> NoVisit]

Done(q) == visit' = [visit EXCEPT ![q] = NoVisit]
Go(q, pc) == visit' = [visit EXCEPT ![q].pc = pc]

\* heartbeat: access is checked, the user is loaded and the time is read.
Beat(q, u) ==
  /\ visit[q].pc = "idle"
  /\ visit' = [visit EXCEPT ![q] = [NoVisit EXCEPT !.pc = "hset", !.user = u]]
  /\ UNCHANGED <<entries, ttl>>

Hset(q) ==
  LET u == visit[q].user IN
  /\ visit[q].pc = "hset"
  /\ entries' = [w \in DOMAIN entries \cup {u} |-> IF w = u THEN visit[q].age ELSE entries[w]]
  /\ Go(q, "expire")
  /\ UNCHANGED ttl

\* Mutant: the expiry is set for a new hash only.
ExpireOnce(q) ==
  /\ visit[q].pc = "expire"
  /\ ttl' = IF entries # NoEntries /\ ttl > Ttl THEN Ttl ELSE ttl
  /\ Go(q, "scan")
  /\ UNCHANGED entries

Expire(q) ==
  /\ visit[q].pc = "expire"
  /\ ttl' = IF entries = NoEntries THEN ttl ELSE Ttl
  /\ Go(q, "scan")
  /\ UNCHANGED entries

\* list: a heartbeat goes on with it, and clients ask for it on their own.
List(q) ==
  /\ visit[q].pc = "idle"
  /\ Go(q, "scan")
  /\ UNCHANGED <<entries, ttl>>

Scan(q) ==
  /\ visit[q].pc = "scan"
  /\ visit' = [visit EXCEPT ![q].pc = "judge", ![q].seen = entries]
  /\ UNCHANGED <<entries, ttl>>

\* The entries that were seen are judged by the clock, and the stale ones are
\* deleted by name: not the values that were seen.
Judge(q) ==
  LET stale == {u \in DOMAIN visit[q].seen : visit[q].seen[u] > Window} IN
  /\ visit[q].pc = "judge"
  /\ IF stale = {} THEN Done(q)
     ELSE visit' = [visit EXCEPT ![q].pc = "hdel", ![q].seen = [u \in stale |-> @[u]]]
  /\ UNCHANGED <<entries, ttl>>

Hdel(q) ==
  /\ visit[q].pc = "hdel"
  /\ entries' = Without(entries, DOMAIN visit[q].seen)
  /\ Done(q)
  /\ UNCHANGED ttl

\* leave, by a client that closes; a heartbeat of its own may still be under way.
Leave(q, u) ==
  /\ visit[q].pc = "idle"
  /\ visit' = [visit EXCEPT ![q] = [NoVisit EXCEPT !.pc = "leave", !.user = u]]
  /\ UNCHANGED <<entries, ttl>>

HdelSelf(q) ==
  /\ visit[q].pc = "leave"
  /\ entries' = Without(entries, {visit[q].user})
  /\ Done(q)
  /\ UNCHANGED ttl

\* Redis drops the hash when its time is over, and with its last field.
HashExpires ==
  /\ ttl = 0 /\ entries # NoEntries
  /\ entries' = NoEntries /\ ttl' = Ttl + 1
  /\ UNCHANGED visit

Tick ==
  /\ ~(ttl = 0 /\ entries # NoEntries)
  /\ entries' = OneOlder(entries)
  /\ ttl' = IF entries = NoEntries \/ ttl = Ttl + 1 THEN Ttl + 1 ELSE ttl - 1
  /\ visit' = [q \in Visits |-> [visit[q] EXCEPT !.seen = OneOlder(@),
                 !.age = IF visit[q].pc = "hset" THEN Older(@) ELSE @]]

Serve(q) == Hset(q) \/ Expire(q) \/ Scan(q) \/ Judge(q) \/ Hdel(q) \/ HdelSelf(q)

Next ==
  \/ \E q \in Visits : Serve(q) \/ List(q) \/ \E u \in Users : Beat(q, u) \/ Leave(q, u)
  \/ HashExpires \/ Tick

Spec == Init /\ [][Next]_presenceVars

-----------------------------------------------------------------------------
\* A fresh entry goes only when its user leaves, when the sweep of somebody
\* who saw the user's entry stale meets the heartbeat that has renewed it, or
\* when the hash ends between a heartbeat's write and its renewal of the expiry.
FreshEntriesStay ==
  [][\A u \in DOMAIN entries : entries[u] <= Window /\ u \notin DOMAIN entries'
       => \E q \in Visits : \/ visit[q].pc = "leave" /\ visit[q].user = u
                            \/ visit[q].pc = "hdel" /\ u \in DOMAIN visit[q].seen
                            \/ visit[q].pc = "expire"]_presenceVars
=============================================================================
