--------------------------- MODULE Services_proofs ---------------------------
(***************************************************************************)
(* Proofs about the services, each for itself and for any number of users, *)
(* requests, streams, items and restarts: an answer of the assistant has   *)
(* one voice, presence outlives whoever sweeps it, an open stream has its  *)
(* channel, an answered thread stays, search is exact, and every text of   *)
(* SQL is split where the language splits it.                              *)
(***************************************************************************)
EXTENDS Services, FiniteSetTheorems, SequenceTheorems, WellFoundedInduction, TLAPS

-----------------------------------------------------------------------------
(* The assistant's answers: no provider ever finishes another one's        *)

Places == {"off", "context", "hung", "bootstrap", "streaming", "ended"}
Kinds == {"chunk", "done", "error"}
Events == [kind : Kinds, plan : Nat]
Servers == [at : Places, plan : Nat, attempt : Nat, structured : BOOLEAN, emitted : BOOLEAN]

\* One response: nothing but chunks of the current provider until the last event, and no
\* provider is replaced after it has emitted one.
Speaks(server1, said1) ==
  /\ server1 \in Servers /\ said1 \in Seq(Events)
  /\ server1.at \notin {"streaming", "ended"} => ~server1.emitted
  /\ server1.at # "ended" /\ ~server1.emitted => Len(said1) = 0
  /\ \A i \in 1..Len(said1) :
       /\ said1[i].kind # "error" => said1[i].plan = server1.plan
       /\ said1[i].kind # "chunk" <=> (server1.at = "ended" /\ i = Len(said1))

StreamInv ==
  /\ DOMAIN server = Gens /\ DOMAIN said = Gens
  /\ server = [g \in Gens |-> server[g]] /\ said = [g \in Gens |-> said[g]]
  /\ \A g \in Gens : Speaks(server[g], said[g])

LEMMA StreamInitial == StreamInit => StreamInv
<1> SUFFICES ASSUME StreamInit PROVE StreamInv
  OBVIOUS
<1>1. Waiting \in Servers
  BY DEF Waiting, Servers, Places
<1>2. <<>> \in Seq(Events) /\ Len(<<>>) = 0
  OBVIOUS
<1>3. ASSUME NEW g \in Gens PROVE Speaks(server[g], said[g])
  <2>1. server[g] = Waiting /\ said[g] = <<>>
    BY DEF StreamInit
  <2> QED
    BY <1>1, <1>2, <2>1 DEF Speaks, Waiting
<1> QED
  BY <1>3 DEF StreamInit, StreamInv

\* What a step makes of the response it is about, when it writes nothing.
LEMMA SilentStep ==
  ASSUME StreamInv, NEW g \in Gens, NEW s, server' = [server EXCEPT ![g] = s], UNCHANGED said,
         s \in Servers, s.at # "ended", server[g].at # "ended",
         s.at # "streaming" => ~s.emitted,
         s.emitted <=> server[g].emitted,
         s.emitted => s.plan = server[g].plan
  PROVE  StreamInv'
<1>1. Speaks(server[g], said[g])
  BY DEF StreamInv
<1>2. server'[g] = s /\ said'[g] = said[g]
  BY DEF StreamInv
<1>3. Speaks(server'[g], said'[g])
  <2>1. ~s.emitted => Len(said[g]) = 0
    BY <1>1 DEF Speaks
  <2> QED
    BY <1>1, <1>2, <2>1 DEF Speaks
<1>4. \A h \in Gens \ {g} : server'[h] = server[h] /\ said'[h] = said[h]
  BY DEF StreamInv
<1> QED
  BY <1>3, <1>4 DEF StreamInv

\* And when it writes an event of the current provider.
LEMMA SpokenStep ==
  ASSUME StreamInv, NEW g \in Gens, NEW kind \in Kinds, Say(g, kind), NEW s,
         server' = [server EXCEPT ![g] = s],
         s \in Servers, server[g].at # "ended", s.plan = server[g].plan,
         IF kind = "chunk" THEN s.at = "streaming" /\ s.emitted ELSE s.at = "ended"
  PROVE  StreamInv'
<1> DEFINE event == [kind |-> kind, plan |-> server[g].plan]
<1>1. Speaks(server[g], said[g])
  BY DEF StreamInv
<1>2. server'[g] = s /\ said'[g] = Append(said[g], event)
  BY DEF StreamInv, Say
<1>3. event \in Events
  BY <1>1 DEF Speaks, Events, Servers
<1>4. /\ said'[g] \in Seq(Events) /\ Len(said'[g]) = Len(said[g]) + 1
      /\ \A i \in 1..Len(said[g]) : said'[g][i] = said[g][i]
      /\ said'[g][Len(said[g]) + 1] = event
  BY <1>1, <1>2, <1>3 DEF Speaks
<1>5. Len(said[g]) \in Nat
  BY <1>1 DEF Speaks
<1>6. ASSUME NEW i \in 1..Len(said'[g])
      PROVE  /\ said'[g][i].kind # "error" => said'[g][i].plan = s.plan
             /\ said'[g][i].kind # "chunk" <=> (s.at = "ended" /\ i = Len(said'[g]))
  <2>1. CASE i \in 1..Len(said[g])
    <3>1. said[g][i].kind = "chunk" /\ said[g][i].plan = server[g].plan
      BY <1>1, <2>1 DEF Speaks
    <3> QED
      BY <1>4, <1>5, <2>1, <3>1
  <2>2. CASE i = Len(said[g]) + 1
    BY <1>4, <2>2 DEF Kinds
  <2> QED
    BY <1>4, <1>5, <2>1, <2>2
<1>7. Speaks(server'[g], said'[g])
  BY <1>2, <1>4, <1>6 DEF Speaks
<1>8. \A h \in Gens \ {g} : server'[h] = server[h] /\ said'[h] = said[h]
  BY DEF StreamInv, Say
<1>9. DOMAIN said' = Gens /\ said' = [h \in Gens |-> said'[h]]
  BY DEF StreamInv, Say
<1> QED
  BY <1>7, <1>8, <1>9 DEF StreamInv

LEMMA TryKeeps ==
  ASSUME StreamInv, NEW g \in Gens, NEW plan \in Nat, Try(g, plan), At(g, {"context", "bootstrap", "streaming"}),
         ~server[g].emitted
  PROVE  StreamInv'
<1>1. PICK structured \in BOOLEAN :
        server' = [server EXCEPT ![g] = [at |-> "bootstrap", plan |-> plan, attempt |-> 1,
                                         structured |-> structured, emitted |-> server[g].emitted]]
  BY DEF Try, StreamInv
<1> DEFINE s == [at |-> "bootstrap", plan |-> plan, attempt |-> 1,
                 structured |-> structured, emitted |-> server[g].emitted]
<1>2. s \in Servers /\ s.at = "bootstrap" /\ ~s.emitted
  BY DEF StreamInv, Speaks, Servers, Places
<1>3. server[g].at # "ended" /\ UNCHANGED said
  BY DEF At, Try
<1> HIDE DEF s
<1>4. server' = [server EXCEPT ![g] = s]
  BY <1>1 DEF s
<1> QED
  BY <1>2, <1>3, <1>4, SilentStep

LEMMA EndKeeps ==
  ASSUME StreamInv, NEW g \in Gens, NEW kind \in {"done", "error"}, Say(g, kind), End(g),
         server[g].at # "ended"
  PROVE  StreamInv'
<1> DEFINE s == [server[g] EXCEPT !.at = "ended"]
<1>1. server[g] \in Servers
  BY DEF StreamInv, Speaks
<1>2. s \in Servers /\ s.at = "ended" /\ s.plan = server[g].plan
  BY <1>1 DEF Servers, Places
<1>3. server' = [server EXCEPT ![g] = s]
  BY DEF End, StreamInv
<1> HIDE DEF s
<1> QED
  BY <1>2, <1>3, SpokenStep DEF Kinds

LEMMA StreamStep == StreamInv /\ [StreamNext]_streamVars => StreamInv'
<1> SUFFICES ASSUME StreamInv, [StreamNext]_streamVars PROVE StreamInv'
  OBVIOUS
<1>1. CASE UNCHANGED streamVars
  BY <1>1 DEF StreamInv, streamVars
<1>2. ASSUME NEW g \in Gens, Open(g) \/ Serve(g) PROVE StreamInv'
  <2>1. server[g] \in Servers /\ Speaks(server[g], said[g])
    BY DEF StreamInv, Speaks
  <2>2. CASE Open(g)
    <3> DEFINE s == [server[g] EXCEPT !.at = "context"]
    <3>1. s \in Servers /\ s.at = "context" /\ s.emitted = server[g].emitted /\ s.plan = server[g].plan
      BY <2>1 DEF Servers, Places
    <3>2. server' = [server EXCEPT ![g] = s] /\ UNCHANGED said /\ server[g].at = "off"
      BY <2>2 DEF Open, At, StreamInv
    <3>3. ~server[g].emitted
      BY <2>1, <3>2 DEF Speaks
    <3> HIDE DEF s
    <3> QED
      BY <3>1, <3>2, <3>3, SilentStep
  <2>3. CASE ContextThrows(g)
    <3> DEFINE s == [server[g] EXCEPT !.at = "hung"]
    <3>1. s \in Servers /\ s.at = "hung" /\ s.emitted = server[g].emitted /\ s.plan = server[g].plan
      BY <2>1 DEF Servers, Places
    <3>2. server' = [server EXCEPT ![g] = s] /\ UNCHANGED said /\ server[g].at = "context"
      BY <2>3 DEF ContextThrows, At, StreamInv
    <3>3. ~server[g].emitted
      BY <2>1, <3>2 DEF Speaks
    <3> HIDE DEF s
    <3> QED
      BY <3>1, <3>2, <3>3, SilentStep
  <2>4. CASE Retry(g)
    <3> DEFINE s == [server[g] EXCEPT !.attempt = server[g].attempt + 1]
    <3>1. /\ s \in Servers /\ s.at = server[g].at
          /\ s.emitted = server[g].emitted /\ s.plan = server[g].plan
      BY <2>1 DEF Servers
    <3>2. server' = [server EXCEPT ![g] = s] /\ UNCHANGED said /\ server[g].at = "bootstrap"
      BY <2>4 DEF Retry, At, StreamInv
    <3>3. ~server[g].emitted
      BY <2>1, <3>2 DEF Speaks
    <3> HIDE DEF s
    <3> QED
      BY <3>1, <3>2, <3>3, SilentStep
  <2>5. CASE FormatRejected(g)
    <3> DEFINE s == [server[g] EXCEPT !.structured = FALSE, !.attempt = 1]
    <3>1. /\ s \in Servers /\ s.at = server[g].at
          /\ s.emitted = server[g].emitted /\ s.plan = server[g].plan
      BY <2>1 DEF Servers
    <3>2. server' = [server EXCEPT ![g] = s] /\ UNCHANGED said /\ server[g].at = "bootstrap"
      BY <2>5 DEF FormatRejected, At, StreamInv
    <3>3. ~server[g].emitted
      BY <2>1, <3>2 DEF Speaks
    <3> HIDE DEF s
    <3> QED
      BY <3>1, <3>2, <3>3, SilentStep
  <2>6. CASE Responds(g)
    <3> DEFINE s == [server[g] EXCEPT !.at = "streaming"]
    <3>1. s \in Servers /\ s.at = "streaming" /\ s.emitted = server[g].emitted /\ s.plan = server[g].plan
      BY <2>1 DEF Servers, Places
    <3>2. server' = [server EXCEPT ![g] = s] /\ UNCHANGED said /\ server[g].at = "bootstrap"
      BY <2>6 DEF Responds, At, StreamInv
    <3> HIDE DEF s
    <3> QED
      BY <3>1, <3>2, SilentStep
  <2>7. CASE Chunk(g)
    <3> DEFINE s == [server[g] EXCEPT !.emitted = TRUE]
    <3>1. s \in Servers /\ s.at = server[g].at /\ s.emitted /\ s.plan = server[g].plan
      BY <2>1 DEF Servers
    <3>2. server' = [server EXCEPT ![g] = s] /\ Say(g, "chunk") /\ server[g].at = "streaming"
      BY <2>7 DEF Chunk, At, StreamInv
    <3> HIDE DEF s
    <3> QED
      BY <3>1, <3>2, SpokenStep DEF Kinds
  <2>8. CASE Refuse(g)
    BY <2>8, EndKeeps DEF Refuse, At
  <2>9. CASE Answer(g)
    BY <2>9, EndKeeps DEF Answer, At
  <2>10. CASE ContextBuilt(g)
    <3>1. At(g, {"context"}) /\ Try(g, 1)
      BY <2>10 DEF ContextBuilt
    <3>2. ~server[g].emitted
      BY <2>1, <3>1 DEF Speaks, At
    <3> QED
      BY <3>1, <3>2, TryKeeps DEF At
  <2>11. CASE PlanFails(g)
    <3>1. CASE server[g].emitted \/ server[g].plan = Plans
      BY <2>11, <3>1, EndKeeps DEF PlanFails, At
    <3>2. CASE ~(server[g].emitted \/ server[g].plan = Plans)
      <4>1. Try(g, server[g].plan + 1) /\ At(g, {"bootstrap", "streaming"})
        BY <2>11, <3>2 DEF PlanFails
      <4>2. server[g].plan + 1 \in Nat
        BY <2>1 DEF Servers
      <4> QED
        BY <3>2, <4>1, <4>2, TryKeeps DEF At
    <3> QED
      BY <3>1, <3>2
  <2> QED
    BY <1>2, <2>2, <2>3, <2>4, <2>5, <2>6, <2>7, <2>8, <2>9, <2>10, <2>11 DEF Serve
<1> QED
  BY <1>1, <1>2 DEF StreamNext

LEMMA StreamInvSpeaks == StreamInv => OneVoice
<1> SUFFICES ASSUME StreamInv, NEW g \in Gens
             PROVE  /\ \A i, j \in 1..Len(said[g]) :
                         said[g][i].kind # "error" /\ said[g][j].kind # "error" =>
                           said[g][i].plan = said[g][j].plan
                    /\ \A i \in 1..Len(said[g]) :
                         said[g][i].kind # "chunk" <=> (At(g, {"ended"}) /\ i = Len(said[g]))
  BY DEF OneVoice
<1>1. Speaks(server[g], said[g])
  BY DEF StreamInv
<1> QED
  BY <1>1 DEF Speaks, At

\* For any chain of providers, any number of attempts and of requests: a client hears one
\* provider, and nothing after the event that ends its answer.
THEOREM NoFallbackAfterOutput == StreamSpec => []OneVoice
<1> QED
  BY StreamInitial, StreamStep, StreamInvSpeaks, PTL DEF StreamSpec

-----------------------------------------------------------------------------
(* Presence *)

Ages == 0 .. StaleWindow + 1
Hashes == UNION {[D -> Ages] : D \in SUBSET Users}
PresenceVisit == [pc : {"idle", "hset", "expire", "scan", "judge", "hdel", "leave"},
                  user : Users, age : Ages, seen : Hashes]

PresenceTyped ==
  /\ entries \in Hashes /\ ttl \in 0 .. Ttl + 1
  /\ visit \in [Visits -> PresenceVisit]

\* The hash lives Ttl longer than the heartbeat of any fresh entry, but for
\* heartbeats that have still to renew its expiry.
FreshIsCovered ==
  \/ \E q \in Visits : visit[q].pc = "expire"
  \/ \A u \in DOMAIN entries : entries[u] <= StaleWindow => ttl <= Ttl /\ ttl + entries[u] >= Ttl

PresenceInv == PresenceTyped /\ FreshIsCovered

LEMMA OlderIsAge == ASSUME NEW a \in Ages PROVE Presence!Older(a) \in Ages /\ Presence!Older(a) >= a
BY PresenceAssumption DEF Ages, Presence!Older

LEMMA HashesAre ==
  /\ \A h \in Hashes : DOMAIN h \subseteq Users /\ \A u \in DOMAIN h : h[u] \in Ages
  /\ \A D \in SUBSET Users : [D -> Ages] \subseteq Hashes
BY DEF Hashes

LEMMA OneOlderIsHash ==
  ASSUME NEW h \in Hashes
  PROVE  Presence!OneOlder(h) \in Hashes
<1> DEFINE D == DOMAIN h
<1>1. D \in SUBSET Users /\ \A u \in D : Presence!Older(h[u]) \in Ages
  BY HashesAre, OlderIsAge
<1>2. [u \in D |-> Presence!Older(h[u])] \in [D -> Ages]
  BY <1>1
<1> QED
  BY <1>1, <1>2, HashesAre DEF Presence!OneOlder

LEMMA PresenceStart == Presence!NoEntries \in Hashes /\ Presence!NoVisit \in PresenceVisit
<1>1. Presence!NoEntries \in [{} -> Ages]
  BY DEF Presence!NoEntries
<1>2. Presence!NoEntries \in Hashes
  BY <1>1, HashesAre
<1>3. (CHOOSE u \in Users : TRUE) \in Users /\ 0 \in Ages
  BY PresenceAssumption DEF Ages
<1> QED
  BY <1>2, <1>3 DEF Presence!NoVisit, PresenceVisit

LEMMA WithoutIsHash ==
  ASSUME NEW h \in Hashes, NEW gone
  PROVE  /\ Presence!Without(h, gone) \in Hashes
         /\ DOMAIN Presence!Without(h, gone) = DOMAIN h \ gone
         /\ \A u \in DOMAIN h \ gone : Presence!Without(h, gone)[u] = h[u]
<1> DEFINE D == DOMAIN h \ gone
<1>1. D \in SUBSET Users /\ \A u \in D : h[u] \in Ages
  BY HashesAre
<1>2. [u \in D |-> h[u]] \in [D -> Ages]
  BY <1>1
<1> QED
  BY <1>1, <1>2, HashesAre DEF Presence!Without

LEMMA PresenceInitial == Presence!Init => PresenceInv
<1> SUFFICES ASSUME Presence!Init PROVE PresenceInv
  OBVIOUS
<1>1. PresenceTyped
  BY PresenceStart, PresenceAssumption DEF Presence!Init, PresenceTyped
<1>2. DOMAIN entries = {}
  BY DEF Presence!Init, Presence!NoEntries
<1> QED
  BY <1>1, <1>2 DEF PresenceInv, FreshIsCovered

\* A step that keeps the entries and their expiry, and answers no heartbeat before its renewal.
LEMMA PresenceKept ==
  ASSUME PresenceInv, NEW q \in Visits, NEW v \in PresenceVisit, visit' = [visit EXCEPT ![q] = v],
         UNCHANGED <<entries, ttl>>, visit[q].pc # "expire"
  PROVE  PresenceInv'
<1>1. PresenceTyped'
  BY DEF PresenceInv, PresenceTyped
<1>2. ASSUME NEW r \in Visits, visit[r].pc = "expire" PROVE visit'[r].pc = "expire"
  BY <1>2 DEF PresenceInv, PresenceTyped
<1> QED
  BY <1>1, <1>2 DEF PresenceInv, FreshIsCovered

LEMMA PresenceVisitStep ==
  ASSUME PresenceInv, NEW q \in Visits,
         Presence!Serve(q) \/ Presence!List(q) \/ \E u \in Users : Presence!Beat(q, u) \/ Presence!Leave(q, u)
  PROVE  PresenceInv'
<1> USE DEF PresenceVisit
<1>0. /\ visit[q] \in PresenceVisit /\ entries \in Hashes /\ ttl \in 0 .. Ttl + 1
      /\ visit \in [Visits -> PresenceVisit]
      /\ Presence!NoVisit \in PresenceVisit /\ Presence!NoVisit.pc = "idle"
  BY PresenceStart DEF PresenceInv, PresenceTyped, Presence!NoVisit
<1>1. ASSUME NEW u \in Users, Presence!Beat(q, u) PROVE PresenceInv'
  <2> DEFINE v == [Presence!NoVisit EXCEPT !.pc = "hset", !.user = u]
  <2>1. v \in PresenceVisit /\ visit' = [visit EXCEPT ![q] = v]
    BY <1>0, <1>1 DEF Presence!Beat
  <2> HIDE DEF v
  <2> QED
    BY <1>1, <2>1, PresenceKept DEF Presence!Beat
<1>2. ASSUME NEW u \in Users, Presence!Leave(q, u) PROVE PresenceInv'
  <2> DEFINE v == [Presence!NoVisit EXCEPT !.pc = "leave", !.user = u]
  <2>1. v \in PresenceVisit /\ visit' = [visit EXCEPT ![q] = v]
    BY <1>0, <1>2 DEF Presence!Leave
  <2> HIDE DEF v
  <2> QED
    BY <1>2, <2>1, PresenceKept DEF Presence!Leave
<1>3. CASE Presence!List(q)
  <2> DEFINE v == [visit[q] EXCEPT !.pc = "scan"]
  <2>1. v \in PresenceVisit /\ visit' = [visit EXCEPT ![q] = v]
    BY <1>0, <1>3 DEF Presence!List, Presence!Go
  <2> HIDE DEF v
  <2> QED
    BY <1>3, <2>1, PresenceKept DEF Presence!List
<1>4. CASE Presence!Scan(q)
  <2> DEFINE v == [visit[q] EXCEPT !.pc = "judge", !.seen = entries]
  <2>1. v \in PresenceVisit /\ visit' = [visit EXCEPT ![q] = v]
    BY <1>0, <1>4 DEF Presence!Scan
  <2> HIDE DEF v
  <2> QED
    BY <1>4, <2>1, PresenceKept DEF Presence!Scan
<1>5. CASE Presence!Judge(q)
  <2> DEFINE stale == {u \in DOMAIN visit[q].seen : visit[q].seen[u] > StaleWindow}
             left == [u \in stale |-> visit[q].seen[u]]
             v == IF stale = {} THEN Presence!NoVisit ELSE [visit[q] EXCEPT !.pc = "hdel", !.seen = left]
  <2>1. stale \in SUBSET Users /\ left \in [stale -> Ages]
    BY <1>0, HashesAre
  <2>2. left \in Hashes
    BY <2>1, HashesAre
  <2> HIDE DEF left
  <2>3. v \in PresenceVisit
    BY <1>0, <2>2
  <2>4. visit' = [visit EXCEPT ![q] = v]
    BY <1>0, <1>5 DEF Presence!Judge, Presence!Done, left
  <2> HIDE DEF v
  <2> QED
    BY <1>5, <2>3, <2>4, PresenceKept DEF Presence!Judge
<1>6. CASE Presence!Hset(q)
  <2> DEFINE u == visit[q].user
             D == DOMAIN entries \cup {u}
             v == [visit[q] EXCEPT !.pc = "expire"]
  <2>1. entries' = [w \in D |-> IF w = u THEN visit[q].age ELSE entries[w]]
    BY <1>6 DEF Presence!Hset
  <2>2. D \in SUBSET Users /\ \A w \in D : entries'[w] \in Ages
    BY <1>0, <2>1, HashesAre
  <2>3. entries' \in [D -> Ages]
    BY <2>1, <2>2
  <2>4. v \in PresenceVisit /\ visit' = [visit EXCEPT ![q] = v] /\ visit'[q].pc = "expire"
    BY <1>0, <1>6 DEF Presence!Hset, Presence!Go
  <2> HIDE DEF v
  <2> QED
    BY <1>0, <1>6, <2>2, <2>3, <2>4, HashesAre DEF Presence!Hset, PresenceInv, PresenceTyped, FreshIsCovered
<1>7. CASE Presence!Expire(q)
  <2> DEFINE v == [visit[q] EXCEPT !.pc = "scan"]
  <2>1. v \in PresenceVisit /\ visit' = [visit EXCEPT ![q] = v]
    BY <1>0, <1>7 DEF Presence!Expire, Presence!Go
  <2>2. PresenceTyped'
    BY <1>0, <1>7, <2>1, PresenceAssumption DEF Presence!Expire, PresenceTyped
  <2>3. ASSUME NEW u \in DOMAIN entries' PROVE ttl' <= Ttl /\ ttl' + entries'[u] >= Ttl
    <3>1. entries' = entries /\ u \in DOMAIN entries /\ entries # Presence!NoEntries
      BY <1>7, <2>3 DEF Presence!Expire, Presence!NoEntries
    <3>2. ttl' = Ttl /\ entries[u] \in Ages
      BY <1>0, <1>7, <3>1, HashesAre DEF Presence!Expire
    <3> QED
      BY <3>1, <3>2, PresenceAssumption DEF Ages
  <2> QED
    BY <2>2, <2>3 DEF PresenceInv, FreshIsCovered
<1>8. ASSUME NEW gone, entries' = Presence!Without(entries, gone), Presence!Done(q), UNCHANGED ttl,
             visit[q].pc # "expire"
      PROVE  PresenceInv'
  <2>1. visit' = [visit EXCEPT ![q] = Presence!NoVisit]
    BY <1>8 DEF Presence!Done
  <2>2. PresenceTyped'
    BY <1>0, <1>8, <2>1, WithoutIsHash DEF PresenceTyped
  <2>3. ASSUME NEW r \in Visits, visit[r].pc = "expire" PROVE visit'[r].pc = "expire"
    <3>1. r # q
      BY <1>8, <2>3
    <3> QED
      BY <1>0, <2>1, <2>3, <3>1, Zenon
  <2>4. \A u \in DOMAIN entries' : u \in DOMAIN entries /\ entries'[u] = entries[u]
    <3> DEFINE h == Presence!Without(entries, gone)
    <3>1. DOMAIN h = DOMAIN entries \ gone /\ \A u \in DOMAIN entries \ gone : h[u] = entries[u]
      BY <1>0, WithoutIsHash
    <3> HIDE DEF h
    <3>2. entries' = h
      BY <1>8 DEF h
    <3> QED
      BY <3>1, <3>2
  <2> QED
    BY <1>8, <2>2, <2>3, <2>4 DEF PresenceInv, FreshIsCovered
<1>9. CASE Presence!Hdel(q)
  BY <1>8, <1>9 DEF Presence!Hdel
<1>10. CASE Presence!HdelSelf(q)
  BY <1>8, <1>10 DEF Presence!HdelSelf
<1> QED
  BY <1>1, <1>2, <1>3, <1>4, <1>5, <1>6, <1>7, <1>9, <1>10 DEF Presence!Serve

\* All entries grow older while the life of the hash runs down.
LEMMA PresenceTick == PresenceInv /\ Presence!Tick => PresenceInv'
<1> SUFFICES ASSUME PresenceInv, Presence!Tick PROVE PresenceInv'
  OBVIOUS
<1>0. entries \in Hashes /\ ttl \in 0 .. Ttl + 1 /\ visit \in [Visits -> PresenceVisit]
  BY DEF PresenceInv, PresenceTyped
<1>1. ASSUME NEW q \in Visits
      PROVE  visit'[q] \in PresenceVisit /\ visit'[q].pc = visit[q].pc
  <2>1. visit[q] \in PresenceVisit
    BY <1>0
  <2>2. /\ visit'[q] = [visit[q] EXCEPT !.seen = Presence!OneOlder(@),
                          !.age = IF visit[q].pc = "hset" THEN Presence!Older(@) ELSE @]
    BY DEF Presence!Tick
  <2>3. Presence!OneOlder(visit[q].seen) \in Hashes /\ Presence!Older(visit[q].age) \in Ages
    BY <2>1, OneOlderIsHash, OlderIsAge DEF PresenceVisit
  <2> QED
    BY <2>1, <2>2, <2>3 DEF PresenceVisit
<1>2. visit' \in [Visits -> PresenceVisit]
  BY <1>1 DEF Presence!Tick
<1>3. entries' \in Hashes
  BY <1>0, OneOlderIsHash DEF Presence!Tick
<1>4. /\ entries # Presence!NoEntries => ttl # 0
      /\ ttl' = IF entries = Presence!NoEntries \/ ttl = Ttl + 1 THEN Ttl + 1 ELSE ttl - 1
  BY Zenon DEF Presence!Tick
<1>5. ttl' \in 0 .. Ttl + 1
  BY <1>0, <1>4, PresenceAssumption
<1>6. ASSUME NEW u \in DOMAIN entries', entries'[u] <= StaleWindow,
             \A w \in DOMAIN entries : entries[w] <= StaleWindow => ttl <= Ttl /\ ttl + entries[w] >= Ttl
      PROVE  ttl' <= Ttl /\ ttl' + entries'[u] >= Ttl
  <2>1. u \in DOMAIN entries /\ entries'[u] = Presence!Older(entries[u]) /\ entries # Presence!NoEntries
    BY DEF Presence!Tick, Presence!OneOlder, Presence!NoEntries
  <2>2. entries[u] \in Ages
    BY <1>0, <2>1, HashesAre
  <2>3. entries[u] <= StaleWindow /\ entries'[u] = entries[u] + 1
    BY <1>6, <2>1, <2>2, PresenceAssumption DEF Presence!Older, Ages
  <2>4. ttl <= Ttl /\ ttl + entries[u] >= Ttl
    BY <1>6, <2>1, <2>3
  <2>5. ttl # 0 /\ ttl' = ttl - 1
    BY <1>0, <1>4, <2>1, <2>4, PresenceAssumption
  <2> QED
    BY <1>0, <2>2, <2>3, <2>4, <2>5, PresenceAssumption DEF Ages
<1>7. (\E q \in Visits : visit[q].pc = "expire") => (\E q \in Visits : visit'[q].pc = "expire")
  BY <1>1
<1> QED
  BY <1>2, <1>3, <1>5, <1>6, <1>7 DEF PresenceInv, PresenceTyped, FreshIsCovered

LEMMA PresenceStep == PresenceInv /\ [Presence!Next]_(Presence!presenceVars) => PresenceInv'
<1> SUFFICES ASSUME PresenceInv, [Presence!Next]_(Presence!presenceVars) PROVE PresenceInv'
  OBVIOUS
<1>1. CASE UNCHANGED Presence!presenceVars
  BY <1>1 DEF Presence!presenceVars, PresenceInv, PresenceTyped, FreshIsCovered
<1>2. CASE Presence!HashExpires
  <2>1. PresenceTyped'
    BY <1>2, PresenceStart, PresenceAssumption DEF Presence!HashExpires, PresenceInv, PresenceTyped
  <2>2. DOMAIN entries' = {}
    BY <1>2 DEF Presence!HashExpires, Presence!NoEntries
  <2> QED
    BY <2>1, <2>2 DEF PresenceInv, FreshIsCovered
<1> QED
  BY <1>1, <1>2, PresenceVisitStep, PresenceTick DEF Presence!Next

\* For any number of users and requests and any window shorter than the life of the hash:
\* a fresh entry goes by a leave, by a sweep that saw the user's entry stale, or while a
\* heartbeat has still to renew the expiry of the hash.
THEOREM FreshPresenceStays == Presence!Spec => FreshEntriesStay
<1> DEFINE Stays == \A u \in DOMAIN entries : entries[u] <= StaleWindow /\ u \notin DOMAIN entries'
                      => \E q \in Visits : \/ visit[q].pc = "leave" /\ visit[q].user = u
                                           \/ visit[q].pc = "hdel" /\ u \in DOMAIN visit[q].seen
                                           \/ visit[q].pc = "expire"
<1>1. ASSUME PresenceInv, Presence!Next PROVE Stays
  <2> SUFFICES ASSUME NEW u \in DOMAIN entries, entries[u] <= StaleWindow, u \notin DOMAIN entries'
               PROVE  \E q \in Visits : \/ visit[q].pc = "leave" /\ visit[q].user = u
                                        \/ visit[q].pc = "hdel" /\ u \in DOMAIN visit[q].seen
                                        \/ visit[q].pc = "expire"
    OBVIOUS
  <2>1. entries \in Hashes /\ entries[u] \in Ages /\ ttl \in 0 .. Ttl + 1
    BY <1>1, HashesAre DEF PresenceInv, PresenceTyped
  <2>2. CASE Presence!HashExpires
    <3>1. \/ \E q \in Visits : visit[q].pc = "expire"
          \/ ttl + entries[u] >= Ttl
      BY <1>1 DEF PresenceInv, FreshIsCovered
    <3> QED
      BY <2>1, <2>2, <3>1, PresenceAssumption DEF Presence!HashExpires, Ages
  <2>3. ~Presence!Tick
    BY DEF Presence!Tick, Presence!OneOlder
  <2>4. ASSUME NEW q \in Visits,
               Presence!Serve(q) \/ Presence!List(q) \/ \E w \in Users : Presence!Beat(q, w) \/ Presence!Leave(q, w)
        PROVE  \/ visit[q].pc = "leave" /\ visit[q].user = u
               \/ visit[q].pc = "hdel" /\ u \in DOMAIN visit[q].seen
    <3>1. Presence!Hdel(q) \/ Presence!HdelSelf(q)
      BY <2>4 DEF Presence!Serve, Presence!Hset, Presence!Expire, Presence!Scan, Presence!Judge,
         Presence!List, Presence!Beat, Presence!Leave
    <3>2. ASSUME NEW gone, entries' = Presence!Without(entries, gone) PROVE u \in gone
      BY <2>1, <3>2, WithoutIsHash
    <3> QED
      BY <3>1, <3>2 DEF Presence!Hdel, Presence!HdelSelf
  <2> QED
    BY <1>1, <2>2, <2>3, <2>4 DEF Presence!Next
<1> HIDE DEF Stays
<1>2. Presence!Spec => [][Stays]_(Presence!presenceVars)
  BY <1>1, PresenceInitial, PresenceStep, PTL DEF Presence!Spec
<1> QED
  BY <1>2 DEF Stays, FreshEntriesStay, Presence!FreshEntriesStay

-----------------------------------------------------------------------------
(* Notifications *)

Command == [cmd : {"subscribe", "unsubscribe"}, for : SUBSET Tabs]

\* An unsubscription goes out when no stream is left, so none follows a command
\* that a stream still waits for; and each stream waits for one command.
Orderly(queue) ==
  \A i, j \in 1 .. Len(queue) :
    /\ i < j /\ queue[i].for # {} => queue[j].cmd = "subscribe"
    /\ i # j => queue[i].for \cap queue[j].for = {}

Awaited(queue) ==
  \A i \in 1 .. Len(queue) : \A t \in queue[i].for : tab[t] = "connecting" /\ queue[i].cmd = "subscribe"

\* The channel of an open stream is there, and nothing on its way takes it.
ChannelLasts(queue) ==
  (\E t \in Tabs : tab[t] = "open") => channel /\ \A i \in 1 .. Len(queue) : queue[i].cmd = "subscribe"

\* Without streams, the last command is an unsubscription, if it is not answered already.
LastWord ==
  Notifications!Live = {} => IF pipe = <<>> THEN ~channel ELSE pipe[Len(pipe)].cmd = "unsubscribe"

NotificationInv ==
  /\ tab \in [Tabs -> {"closed", "connecting", "open"}]
  /\ pipe \in Seq(Command) /\ channel \in BOOLEAN
  /\ subscribers = Cardinality(Notifications!Live)
  /\ Orderly(pipe) /\ Awaited(pipe) /\ ChannelLasts(pipe) /\ LastWord

LEMMA LiveIsFinite == IsFiniteSet(Notifications!Live) /\ Cardinality(Notifications!Live) \in Nat
<1>1. Notifications!Live \in SUBSET Tabs
  BY DEF Notifications!Live
<1> QED
  BY <1>1, NotificationAssumption, FS_Subset, FS_CardinalityType

LEMMA NotificationInitial == Notifications!Init => NotificationInv
<1> SUFFICES ASSUME Notifications!Init PROVE NotificationInv
  OBVIOUS
<1>1. Notifications!Live = {} /\ pipe = <<>> /\ Len(pipe) = 0 /\ pipe \in Seq(Command)
  BY DEF Notifications!Init, Notifications!Live
<1>2. subscribers = Cardinality(Notifications!Live)
  BY <1>1, FS_EmptySet DEF Notifications!Init
<1>3. Orderly(pipe) /\ Awaited(pipe)
  BY <1>1 DEF Orderly, Awaited
<1>4. ChannelLasts(pipe) /\ LastWord
  BY <1>1 DEF Notifications!Init, ChannelLasts, LastWord
<1>5. tab \in [Tabs -> {"closed", "connecting", "open"}] /\ channel \in BOOLEAN
  BY DEF Notifications!Init
<1> QED
  BY <1>1, <1>2, <1>3, <1>4, <1>5 DEF NotificationInv

\* A stream ends, and with the last one its channel is to go.
LEMMA ReleaseKeeps ==
  ASSUME NotificationInv, NEW t \in Tabs, tab[t] # "closed", tab' = [tab EXCEPT ![t] = "closed"],
         NEW queue \in Seq(Command), Notifications!Release(t, queue), UNCHANGED channel,
         Orderly(queue), Awaited(queue), ChannelLasts(queue),
         \A i \in 1 .. Len(queue) : t \notin queue[i].for
  PROVE  NotificationInv'
<1> DEFINE last == [cmd |-> "unsubscribe", for |-> {}]
<1>1. tab' \in [Tabs -> {"closed", "connecting", "open"}] /\ channel' \in BOOLEAN
  BY DEF NotificationInv
<1>2. Notifications!Live' = Notifications!Live \ {t} /\ t \in Notifications!Live
  BY DEF NotificationInv, Notifications!Live
<1>3. subscribers' = Cardinality(Notifications!Live')
  BY <1>2, LiveIsFinite, FS_RemoveElement DEF NotificationInv, Notifications!Release
<1>4. Awaited(queue)'
  BY DEF Awaited, NotificationInv
<1>5. ChannelLasts(queue)'
  BY DEF ChannelLasts, NotificationInv
<1>6. CASE subscribers = 1
  <2>1. Notifications!Live' = {}
    <3> DEFINE L == Notifications!Live
    <3>1. IsFiniteSet(L) /\ Cardinality(L) = 1
      BY <1>6, LiveIsFinite DEF NotificationInv
    <3>2. IsFiniteSet(L \ {t}) /\ Cardinality(L \ {t}) = 0
      BY <1>2, <3>1, FS_RemoveElement
    <3> QED
      BY <1>2, <3>2, FS_EmptySet
  <2>2. pipe' = Append(queue, last) /\ last \in Command
    BY <1>6 DEF Notifications!Release, Command
  <2>3. /\ pipe' \in Seq(Command) /\ Len(pipe') = Len(queue) + 1 /\ Len(queue) \in Nat
        /\ \A i \in 1 .. Len(queue) : pipe'[i] = queue[i]
        /\ pipe'[Len(queue) + 1] = last
    BY <2>2
  <2>4. \A i \in 1 .. Len(queue) : queue[i].for = {}
    <3>1. \A u \in Tabs : tab'[u] = "closed"
      BY <2>1 DEF Notifications!Live
    <3>2. \A i \in 1 .. Len(queue) : queue[i].for \subseteq Tabs
      <4>1. \A i \in 1 .. Len(queue) : queue[i] \in Command
        BY ElementOfSeq
      <4> QED
        BY <4>1 DEF Command
    <3> QED
      BY <1>4, <3>1, <3>2 DEF Awaited
  <2>5. \A i \in 1 .. Len(pipe') : pipe'[i].for = {}
    BY <2>3, <2>4
  <2>6. Orderly(pipe)' /\ Awaited(pipe)'
    BY <2>5 DEF Orderly, Awaited
  <2>7. ChannelLasts(pipe)'
    BY <2>1 DEF ChannelLasts, Notifications!Live
  <2>8. LastWord'
    BY <2>3 DEF LastWord
  <2> QED
    BY <1>1, <1>3, <2>3, <2>6, <2>7, <2>8 DEF NotificationInv
<1>7. CASE subscribers # 1
  <2>1. Notifications!Live' # {}
    BY <1>2, <1>3, <1>7, LiveIsFinite, FS_EmptySet, FS_RemoveElement DEF NotificationInv
  <2>2. pipe' = queue
    BY <1>7 DEF Notifications!Release
  <2> QED
    BY <1>1, <1>3, <1>4, <1>5, <2>1, <2>2 DEF NotificationInv, Orderly, Awaited, ChannelLasts, LastWord
<1> QED
  BY <1>6, <1>7

\* The command that is answered leaves the others in order behind it.
LEMMA TailIsOrderly ==
  ASSUME NEW queue \in Seq(Command), queue # <<>>, Orderly(queue)
  PROVE  /\ Tail(queue) \in Seq(Command) /\ Head(queue) = queue[1] /\ queue[1] \in Command
         /\ Len(Tail(queue)) = Len(queue) - 1 /\ Len(queue) \in Nat \ {0}
         /\ \A i \in 1 .. Len(Tail(queue)) : Tail(queue)[i] = queue[i + 1] /\ i + 1 \in 1 .. Len(queue)
         /\ Orderly(Tail(queue))
<1>1. /\ Tail(queue) \in Seq(Command) /\ Head(queue) = queue[1]
      /\ Len(Tail(queue)) = Len(queue) - 1 /\ Len(queue) \in Nat \ {0}
      /\ \A i \in 1 .. Len(Tail(queue)) : Tail(queue)[i] = queue[i + 1] /\ i + 1 \in 1 .. Len(queue)
  OBVIOUS
<1>2. queue[1] \in Command
  BY <1>1, ElementOfSeq
<1>3. ASSUME NEW i \in 1 .. Len(Tail(queue)), NEW j \in 1 .. Len(Tail(queue))
      PROVE  /\ i < j /\ Tail(queue)[i].for # {} => Tail(queue)[j].cmd = "subscribe"
             /\ i # j => Tail(queue)[i].for \cap Tail(queue)[j].for = {}
  <2>1. i + 1 \in 1 .. Len(queue) /\ j + 1 \in 1 .. Len(queue)
    BY <1>1
  <2>2. /\ i + 1 < j + 1 /\ queue[i + 1].for # {} => queue[j + 1].cmd = "subscribe"
        /\ i + 1 # j + 1 => queue[i + 1].for \cap queue[j + 1].for = {}
    BY <2>1 DEF Orderly
  <2>3. Tail(queue)[i] = queue[i + 1] /\ Tail(queue)[j] = queue[j + 1]
    BY <1>1
  <2>4. (i < j => i + 1 < j + 1) /\ (i # j => i + 1 # j + 1)
    BY <1>1
  <2> QED
    BY <2>2, <2>3, <2>4, Zenon
<1> QED
  BY <1>1, <1>2, <1>3 DEF Orderly

LEMMA OpenKeeps == ASSUME NotificationInv, NEW t \in Tabs, Notifications!Open(t) PROVE NotificationInv'
<1> DEFINE new == [cmd |-> "subscribe", for |-> {t}]
           n == Len(pipe)
<1>1. /\ pipe \in Seq(Command) /\ new \in Command /\ pipe' = Append(pipe, new)
      /\ tab[t] = "closed" /\ tab' = [tab EXCEPT ![t] = "connecting"]
      /\ tab \in [Tabs -> {"closed", "connecting", "open"}]
  BY DEF NotificationInv, Notifications!Open, Command
<1>2. /\ pipe' \in Seq(Command) /\ Len(pipe') = n + 1 /\ n \in Nat
      /\ \A i \in 1 .. n : pipe'[i] = pipe[i]
      /\ pipe'[n + 1] = new
  BY <1>1
<1>3. Notifications!Live' = Notifications!Live \cup {t} /\ t \notin Notifications!Live
  BY <1>1 DEF Notifications!Live
<1>4. subscribers' = Cardinality(Notifications!Live')
  BY <1>3, LiveIsFinite, FS_AddElement DEF NotificationInv, Notifications!Open
<1>5. \A i \in 1 .. n : t \notin pipe[i].for
  BY <1>1 DEF NotificationInv, Awaited
<1>6. Awaited(pipe)'
  <2> SUFFICES ASSUME NEW i \in 1 .. n + 1, NEW u \in pipe'[i].for
               PROVE  tab'[u] = "connecting" /\ pipe'[i].cmd = "subscribe"
    BY <1>2 DEF Awaited
  <2>1. CASE i = n + 1
    BY <1>1, <1>2, <2>1
  <2>2. CASE i \in 1 .. n
    BY <1>1, <1>2, <1>5, <2>2 DEF NotificationInv, Awaited
  <2> QED
    BY <1>2, <2>1, <2>2
<1>7. Orderly(pipe)'
  <2> SUFFICES ASSUME NEW i \in 1 .. n + 1, NEW j \in 1 .. n + 1
               PROVE  /\ i < j /\ pipe'[i].for # {} => pipe'[j].cmd = "subscribe"
                      /\ i # j => pipe'[i].for \cap pipe'[j].for = {}
    BY <1>2 DEF Orderly
  <2>1. CASE i \in 1 .. n /\ j \in 1 .. n
    BY <1>2, <2>1 DEF NotificationInv, Orderly
  <2>2. CASE i = n + 1 /\ j \in 1 .. n
    BY <1>2, <1>5, <2>2
  <2>3. CASE j = n + 1
    BY <1>2, <1>5, <2>3
  <2> QED
    BY <1>2, <2>1, <2>2, <2>3
<1>8. ChannelLasts(pipe)'
  <2>1. channel' = channel
    BY DEF Notifications!Open
  <2>2. ASSUME NEW u \in Tabs, tab'[u] = "open" PROVE tab[u] = "open"
    BY <1>1, <2>2
  <2>3. ASSUME \A i \in 1 .. n : pipe[i].cmd = "subscribe"
        PROVE  \A i \in 1 .. n + 1 : pipe'[i].cmd = "subscribe"
    BY <1>2, <2>3
  <2> QED
    BY <1>2, <2>1, <2>2, <2>3 DEF NotificationInv, ChannelLasts
<1>9. LastWord' /\ channel' \in BOOLEAN /\ tab' \in [Tabs -> {"closed", "connecting", "open"}]
  BY <1>1, <1>3 DEF LastWord, NotificationInv, Notifications!Open
<1> QED
  BY <1>2, <1>4, <1>6, <1>7, <1>8, <1>9 DEF NotificationInv

LEMMA CloseKeeps == ASSUME NotificationInv, NEW t \in Tabs, Notifications!Close(t) PROVE NotificationInv'
<1> DEFINE queue == [i \in DOMAIN pipe |-> [pipe[i] EXCEPT !.for = @ \ {t}]]
<1>1. pipe \in Seq(Command) /\ Orderly(pipe) /\ Awaited(pipe) /\ ChannelLasts(pipe)
  BY DEF NotificationInv
<1>2. DOMAIN pipe = 1 .. Len(pipe) /\ Len(pipe) \in Nat /\ \A i \in 1 .. Len(pipe) : pipe[i] \in Command
  BY <1>1, ElementOfSeq
<1>3. \A i \in 1 .. Len(pipe) : queue[i] \in Command /\ queue[i].cmd = pipe[i].cmd
                                /\ queue[i].for = pipe[i].for \ {t}
  BY <1>2 DEF Command
<1>4. queue \in Seq(Command) /\ Len(queue) = Len(pipe)
  <2>1. queue \in [1 .. Len(pipe) -> Command]
    BY <1>2, <1>3
  <2> QED
    BY <1>2, <2>1, SeqDef, LenProperties
<1> HIDE DEF queue
<1>5. Orderly(queue)
  BY <1>1, <1>3, <1>4 DEF Orderly
<1>6. Awaited(queue) /\ \A i \in 1 .. Len(queue) : t \notin queue[i].for
  BY <1>1, <1>3, <1>4 DEF Awaited
<1>7. ChannelLasts(queue)
  BY <1>1, <1>3, <1>4 DEF ChannelLasts
<1>8. /\ Notifications!Release(t, queue) /\ UNCHANGED channel
      /\ tab[t] # "closed" /\ tab' = [tab EXCEPT ![t] = "closed"]
  BY DEF queue, Notifications!Close
<1> QED
  BY <1>4, <1>5, <1>6, <1>7, <1>8, ReleaseKeeps

LEMMA AnsweredKeeps == NotificationInv /\ Notifications!Answered => NotificationInv'
<1> SUFFICES ASSUME NotificationInv, Notifications!Answered PROVE NotificationInv'
  OBVIOUS
<1> DEFINE n == Len(pipe)
<1>1. /\ pipe # <<>> /\ pipe' = Tail(pipe) /\ channel' = (pipe[1].cmd = "subscribe")
      /\ pipe' \in Seq(Command) /\ pipe[1] \in Command /\ Len(pipe') = n - 1 /\ n \in Nat \ {0}
      /\ \A i \in 1 .. n - 1 : pipe'[i] = pipe[i + 1] /\ i + 1 \in 1 .. n
      /\ Orderly(pipe)'
      /\ tab' = [t \in Tabs |-> IF t \in pipe[1].for THEN "open" ELSE tab[t]]
      /\ subscribers' = subscribers
  BY TailIsOrderly DEF NotificationInv, Notifications!Answered, Orderly
<1>2. tab \in [Tabs -> {"closed", "connecting", "open"}] /\ pipe[1].for \subseteq Tabs
  BY <1>1 DEF NotificationInv, Command
<1>3. tab' \in [Tabs -> {"closed", "connecting", "open"}] /\ channel' \in BOOLEAN
  BY <1>1, <1>2
<1>4. \A t \in pipe[1].for : tab[t] = "connecting" /\ pipe[1].cmd = "subscribe"
  BY <1>1 DEF NotificationInv, Awaited
<1>5. Notifications!Live' = Notifications!Live
  BY <1>1, <1>2, <1>4 DEF Notifications!Live
<1>6. subscribers' = Cardinality(Notifications!Live')
  BY <1>1, <1>5 DEF NotificationInv
<1>7. Awaited(pipe)'
  <2> SUFFICES ASSUME NEW i \in 1 .. n - 1, NEW t \in pipe'[i].for
               PROVE  tab'[t] = "connecting" /\ pipe'[i].cmd = "subscribe"
    BY <1>1 DEF Awaited
  <2>1. i + 1 \in 1 .. n /\ i + 1 # 1 /\ 1 \in 1 .. n /\ pipe'[i] = pipe[i + 1]
    BY <1>1
  <2>2. tab[t] = "connecting" /\ pipe[i + 1].cmd = "subscribe" /\ t \notin pipe[1].for
    BY <2>1 DEF NotificationInv, Awaited, Orderly
  <2>3. t \in Tabs
    <3>1. pipe'[i] \in Command
      BY <1>1, ElementOfSeq
    <3> QED
      BY <3>1 DEF Command
  <2> QED
    BY <1>1, <2>1, <2>2, <2>3
<1>8. ChannelLasts(pipe)'
  <2> SUFFICES ASSUME NEW t \in Tabs, tab'[t] = "open"
               PROVE  channel' /\ \A i \in 1 .. n - 1 : pipe'[i].cmd = "subscribe"
    BY <1>1 DEF ChannelLasts
  <2>1. CASE t \in pipe[1].for
    <3>1. ASSUME NEW i \in 1 .. n - 1 PROVE pipe[i + 1].cmd = "subscribe"
      <4>1. 1 \in 1 .. n /\ i + 1 \in 1 .. n /\ 1 < i + 1
        BY <1>1
      <4> QED
        BY <2>1, <4>1 DEF NotificationInv, Orderly
    <3> QED
      BY <1>1, <1>4, <2>1, <3>1
  <2>2. CASE t \notin pipe[1].for
    <3>1. tab[t] = "open"
      BY <1>1, <2>2
    <3>2. \A i \in 1 .. n : pipe[i].cmd = "subscribe"
      BY <3>1 DEF NotificationInv, ChannelLasts
    <3>3. 1 \in 1 .. n
      BY <1>1
    <3>4. \A i \in 1 .. n - 1 : pipe'[i].cmd = "subscribe"
      BY <1>1, <3>2
    <3> QED
      BY <1>1, <3>2, <3>3, <3>4
  <2> QED
    BY <2>1, <2>2
<1>9. LastWord'
  <2> SUFFICES ASSUME Notifications!Live = {}
               PROVE  IF pipe' = <<>> THEN ~channel' ELSE pipe'[n - 1].cmd = "unsubscribe"
    BY <1>1, <1>5 DEF LastWord
  <2>1. pipe[n].cmd = "unsubscribe"
    BY <1>1 DEF NotificationInv, LastWord
  <2>2. CASE n = 1
    <3>1. pipe' = <<>>
      BY <1>1, <2>2, EmptySeq
    <3>2. pipe[1].cmd = "unsubscribe"
      BY <2>1, <2>2
    <3> QED
      BY <1>1, <3>1, <3>2
  <2>3. CASE n # 1
    <3>1. n - 1 \in 1 .. n - 1 /\ pipe' # <<>>
      BY <1>1, <2>3
    <3>2. pipe'[n - 1] = pipe[n]
      BY <1>1, <3>1
    <3> QED
      BY <2>1, <3>1, <3>2
  <2> QED
    BY <2>2, <2>3
<1> QED
  BY <1>1, <1>3, <1>6, <1>7, <1>8, <1>9 DEF NotificationInv

LEMMA RefusedKeeps == NotificationInv /\ Notifications!Refused => NotificationInv'
<1> SUFFICES ASSUME NotificationInv, Notifications!Refused PROVE NotificationInv'
  OBVIOUS
<1> DEFINE n == Len(pipe)
           rest == Tail(pipe)
<1>1. /\ pipe # <<>> /\ rest \in Seq(Command) /\ Head(pipe) = pipe[1] /\ pipe[1] \in Command
      /\ Len(rest) = n - 1 /\ n \in Nat \ {0}
      /\ \A i \in 1 .. n - 1 : rest[i] = pipe[i + 1] /\ i + 1 \in 1 .. n
      /\ Orderly(rest) /\ pipe[1].cmd = "subscribe" /\ UNCHANGED channel
  BY TailIsOrderly DEF NotificationInv, Notifications!Refused
<1> HIDE DEF rest
<1>2. Awaited(rest)
  BY <1>1 DEF NotificationInv, Awaited
<1>3. ChannelLasts(rest)
  BY <1>1 DEF NotificationInv, ChannelLasts
<1>4. CASE pipe[1].for = {}
  <2>1. pipe' = rest /\ UNCHANGED <<tab, subscribers>>
    BY <1>1, <1>4 DEF rest, Notifications!Refused
  <2>2. Notifications!Live' = Notifications!Live
    BY <2>1 DEF Notifications!Live
  <2>3. LastWord'
    <3> SUFFICES ASSUME Notifications!Live = {}
                 PROVE  rest # <<>> /\ rest[n - 1].cmd = "unsubscribe"
      BY <1>1, <2>1, <2>2 DEF LastWord
    <3>1. pipe[n].cmd = "unsubscribe"
      BY <1>1 DEF NotificationInv, LastWord
    <3>2. n # 1
      BY <1>1, <3>1
    <3>3. n - 1 \in 1 .. n - 1 /\ (n - 1) + 1 = n /\ rest # <<>>
      BY <1>1, <3>2
    <3> QED
      BY <1>1, <3>1, <3>3
  <2>4. Awaited(pipe)' /\ Orderly(pipe)' /\ ChannelLasts(pipe)'
    BY <1>1, <1>2, <1>3, <2>1 DEF Awaited, Orderly, ChannelLasts
  <2> QED
    BY <1>1, <2>1, <2>2, <2>3, <2>4 DEF NotificationInv
<1>5. CASE pipe[1].for # {}
  <2>1. PICK t \in pipe[1].for : tab' = [tab EXCEPT ![t] = "closed"] /\ Notifications!Release(t, rest)
    BY <1>1, <1>5 DEF rest, Notifications!Refused
  <2>2. t \in Tabs /\ tab[t] # "closed"
    BY <1>1 DEF NotificationInv, Awaited, Command
  <2>3. ASSUME NEW i \in 1 .. Len(rest) PROVE t \notin rest[i].for
    <3>1. 1 \in 1 .. n /\ i + 1 \in 1 .. n /\ 1 # i + 1 /\ rest[i] = pipe[i + 1]
      BY <1>1
    <3> QED
      BY <3>1 DEF NotificationInv, Orderly
  <2> QED
    BY <1>1, <1>2, <1>3, <2>1, <2>2, <2>3, ReleaseKeeps
<1> QED
  BY <1>4, <1>5

LEMMA NotificationStep ==
  NotificationInv /\ [Notifications!Next]_(Notifications!notificationVars) => NotificationInv'
<1> SUFFICES ASSUME NotificationInv, [Notifications!Next]_(Notifications!notificationVars)
             PROVE  NotificationInv'
  OBVIOUS
<1>1. CASE UNCHANGED <<tab, subscribers, pipe, channel>>
  <2>1. Notifications!Live' = Notifications!Live
    BY <1>1 DEF Notifications!Live
  <2> QED
    BY <1>1, <2>1 DEF NotificationInv, Orderly, Awaited, ChannelLasts, LastWord
<1>2. CASE Notifications!Emit \/ Notifications!Deliver
  BY <1>1, <1>2 DEF Notifications!Emit, Notifications!Deliver
<1>3. CASE UNCHANGED Notifications!notificationVars
  BY <1>1, <1>3 DEF Notifications!notificationVars
<1> QED
  BY <1>2, <1>3, OpenKeeps, CloseKeeps, AnsweredKeeps, RefusedKeeps DEF Notifications!Next

\* For any number of streams, opened, closed and refused in any order while commands are
\* under way: an open stream has its channel, and an idle channel without streams is given up.
THEOREM OpenStreamsKeepChannel == Notifications!Spec => []OpenStreamsHaveChannel
<1>1. NotificationInv => OpenStreamsHaveChannel
  BY DEF NotificationInv, ChannelLasts, LastWord, OpenStreamsHaveChannel,
     Notifications!OpenStreamsHaveChannel
<1> QED
  BY <1>1, NotificationInitial, NotificationStep, PTL DEF Notifications!Spec

-----------------------------------------------------------------------------
(* Comments *)

Row == [kind : {"create", "reply", "resolve"}, id : Nat, thread : Nat]

\* The rows that are written, and those of the requests under way.
InPlay == Comments!ToSet(log) \cup {comment[q].row : q \in {p \in Commenters : comment[p].pc # "idle"}}

\* A thread has the id of its comment, and no reply has it.
IdsAreOwn ==
  /\ \A r \in InPlay : /\ r \in Row
                       /\ r.kind = "create" => r.thread = r.id
                       /\ r.kind # "resolve" => r.id <= ids
  /\ \A r, c \in InPlay : r.kind = "reply" /\ c.kind = "create" => r.id # c.id

CommentInv ==
  /\ log \in Seq(Row) /\ ids \in Nat
  /\ comment \in [Commenters -> [pc : {"idle", "log", "find"}, row : Row]]
  /\ IdsAreOwn
  /\ acked \ retained \subseteq Comments!Threads(Comments!Read(log))

\* The rows a request reads are the first ones.
LEMMA RowsRead ==
  ASSUME NEW rows \in Seq(Row)
  PROVE  \A r : r \in Comments!ToSet(Comments!Read(rows))
                  <=> \E i \in 1 .. Len(rows) : i <= LogWindow /\ rows[i] = r
<1>1. CASE Len(rows) <= LogWindow
  BY <1>1, CommentAssumption DEF Comments!Read, Comments!ToSet
<1>2. CASE ~(Len(rows) <= LogWindow)
  <2> DEFINE first == SubSeq(rows, 1, LogWindow)
  <2>1. /\ Comments!Read(rows) = first /\ DOMAIN first = 1 .. LogWindow
        /\ \A i \in 1 .. LogWindow : first[i] = rows[i] /\ i \in 1 .. Len(rows)
    BY <1>2, CommentAssumption DEF Comments!Read
  <2> HIDE DEF first
  <2> QED
    BY <2>1 DEF Comments!ToSet
<1> QED
  BY <1>1, <1>2

\* A thread found is a row that creates it among the rows read.
LEMMA ThreadsRead ==
  ASSUME NEW rows \in Seq(Row)
  PROVE  \A t : t \in Comments!Threads(Comments!Read(rows))
                  <=> \E i \in 1 .. Len(rows) : i <= LogWindow /\ rows[i].kind = "create" /\ rows[i].thread = t
BY RowsRead DEF Comments!Threads

\* A request that starts, on a row with an id of its own or on a resolution.
LEMMA StartKeeps ==
  ASSUME CommentInv, NEW q \in Commenters, NEW row \in Row, Comments!Start(q, row),
         UNCHANGED <<log, acked, retained>>,
         \/ row.kind = "resolve" /\ ids' = ids
         \/ row.kind # "resolve" /\ row.id = ids + 1 /\ ids' = ids + 1,
         row.kind = "create" => row.thread = row.id
  PROVE  CommentInv'
<1>1. comment' = [comment EXCEPT ![q] = [pc |-> "log", row |-> row]] /\ ids \in Nat /\ ids' \in Nat
  BY DEF Comments!Start, CommentInv
<1>2. comment' \in [Commenters -> [pc : {"idle", "log", "find"}, row : Row]]
  BY <1>1 DEF CommentInv
<1>3. ASSUME NEW r \in InPlay' PROVE r \in InPlay \/ r = row
  BY <1>1 DEF InPlay, CommentInv
<1>4. ASSUME NEW r \in InPlay PROVE r.kind # "resolve" => r.id <= ids /\ r.id \in Nat
  BY DEF CommentInv, IdsAreOwn, Row
<1>5. IdsAreOwn'
  <2>1. ASSUME NEW r \in InPlay'
        PROVE  /\ r \in Row
               /\ r.kind = "create" => r.thread = r.id
               /\ r.kind # "resolve" => r.id <= ids'
    BY <1>1, <1>3, <1>4 DEF CommentInv, IdsAreOwn
  <2>2. ASSUME NEW r \in InPlay', NEW c \in InPlay', r.kind = "reply", c.kind = "create" PROVE r.id # c.id
    <3>1. CASE r \in InPlay /\ c \in InPlay
      BY <2>2, <3>1 DEF CommentInv, IdsAreOwn
    <3>2. CASE r = row /\ c \in InPlay
      BY <1>1, <1>4, <2>2, <3>2
    <3>3. CASE r \in InPlay /\ c = row
      BY <1>1, <1>4, <2>2, <3>3
    <3> QED
      BY <1>3, <2>2, <3>1, <3>2, <3>3
  <2> QED
    BY <2>1, <2>2 DEF IdsAreOwn
<1> QED
  BY <1>1, <1>2, <1>5 DEF CommentInv

LEMMA CommentStarts ==
  ASSUME CommentInv, NEW q \in Commenters,
         Comments!Create(q) \/ \E id \in 1 .. ids : Comments!Reply(q, id) \/ Comments!Resolve(q, id)
  PROVE  CommentInv'
<1>0. ids \in Nat /\ log \in Seq(Row)
  BY DEF CommentInv
<1>1. CASE Comments!Create(q)
  <2> DEFINE row == [kind |-> "create", id |-> ids + 1, thread |-> ids + 1]
  <2>1. row \in Row /\ row.kind = "create" /\ row.id = ids + 1 /\ row.thread = row.id
    BY <1>0 DEF Row
  <2>2. Comments!Start(q, row) /\ UNCHANGED <<log, acked, retained>> /\ ids' = ids + 1
    BY <1>1 DEF Comments!Create
  <2> HIDE DEF row
  <2> QED
    BY <2>1, <2>2, StartKeeps
<1>2. ASSUME NEW id \in 1 .. ids, Comments!Reply(q, id) PROVE CommentInv'
  <2> DEFINE row == [kind |-> "reply", id |-> ids + 1, thread |-> id]
  <2>1. row \in Row /\ row.kind = "reply" /\ row.id = ids + 1
    BY <1>0 DEF Row
  <2>2. Comments!Start(q, row) /\ UNCHANGED <<log, acked, retained>> /\ ids' = ids + 1
    BY <1>2 DEF Comments!Reply
  <2> HIDE DEF row
  <2> QED
    BY <2>1, <2>2, StartKeeps
<1>3. ASSUME NEW id \in 1 .. ids, Comments!Resolve(q, id) PROVE CommentInv'
  <2> DEFINE row(t) == [kind |-> "resolve", id |-> t, thread |-> t]
  <2>1. PICK t \in Comments!Threads(Comments!Read(log)) : Comments!Start(q, row(t))
    BY <1>3 DEF Comments!Resolve, Comments!ThreadsWith
  <2>2. t \in Nat
    <3>1. PICK i \in 1 .. Len(log) : log[i].thread = t
      BY <1>0, ThreadsRead
    <3>2. log[i] \in Row
      BY <1>0, ElementOfSeq
    <3> QED
      BY <3>1, <3>2 DEF Row
  <2>3. row(t) \in Row /\ row(t).kind = "resolve"
    BY <2>2 DEF Row
  <2>4. UNCHANGED <<log, acked, retained, ids>>
    BY <1>3 DEF Comments!Resolve
  <2> HIDE DEF row
  <2> QED
    BY <2>1, <2>3, <2>4, StartKeeps
<1> QED
  BY <1>1, <1>2, <1>3

\* Nothing new is in play when a row is written or given up, answered, or deleted.
LEMMA PlayShrinks ==
  ASSUME CommentInv, InPlay' \subseteq InPlay, UNCHANGED ids PROVE IdsAreOwn'
BY DEF CommentInv, IdsAreOwn

LEMMA LogKeeps == ASSUME CommentInv, NEW q \in Commenters, Comments!Log(q) PROVE CommentInv'
<1> DEFINE row == comment[q].row
<1>1. /\ log \in Seq(Row) /\ comment \in [Commenters -> [pc : {"idle", "log", "find"}, row : Row]]
      /\ comment[q].pc = "log" /\ comment' = [comment EXCEPT ![q].pc = "find"] /\ row \in Row
      /\ UNCHANGED <<ids, acked, retained>>
      /\ log' = Append(log, row) \/ log' = log
  BY DEF CommentInv, Comments!Log
<1>2. comment' \in [Commenters -> [pc : {"idle", "log", "find"}, row : Row]]
  BY <1>1
<1>3. \A p \in Commenters : comment'[p].row = comment[p].row /\ (comment'[p].pc # "idle" => comment[p].pc # "idle")
  BY <1>1
<1>4. log' \in Seq(Row) /\ Comments!ToSet(log') \subseteq Comments!ToSet(log) \cup {row}
  <2>1. CASE log' = Append(log, row)
    <3>1. /\ log' \in Seq(Row) /\ DOMAIN log' = 1 .. Len(log) + 1 /\ DOMAIN log = 1 .. Len(log) /\ Len(log) \in Nat
          /\ log'[Len(log) + 1] = row /\ \A i \in 1 .. Len(log) : log'[i] = log[i]
      BY <1>1, <2>1
    <3> QED
      BY <3>1 DEF Comments!ToSet
  <2> QED
    BY <1>1, <2>1
<1>5. InPlay' \subseteq InPlay
  BY <1>1, <1>3, <1>4 DEF InPlay
<1>6. Comments!Threads(Comments!Read(log)) \subseteq Comments!Threads(Comments!Read(log'))
  <2>1. \A i \in 1 .. Len(log) : i \in 1 .. Len(log') /\ log'[i] = log[i]
    BY <1>1
  <2> QED
    BY <1>1, <1>4, <2>1, ThreadsRead
<1> QED
  BY <1>1, <1>2, <1>4, <1>5, <1>6, PlayShrinks DEF CommentInv

LEMMA AnswerKeeps == ASSUME CommentInv, NEW q \in Commenters, Comments!Answer(q) PROVE CommentInv'
<1> DEFINE row == comment[q].row
<1>1. /\ log \in Seq(Row) /\ comment \in [Commenters -> [pc : {"idle", "log", "find"}, row : Row]]
      /\ comment[q].pc = "find" /\ comment' = [comment EXCEPT ![q] = Comments!NoComment]
      /\ UNCHANGED <<log, ids, retained>>
      /\ acked' = IF row.kind = "create" /\ Comments!ThreadsWith(Comments!Read(log), row.thread) # {}
                  THEN acked \cup {row.id} ELSE acked
  BY DEF CommentInv, Comments!Answer
<1>2. comment' \in [Commenters -> [pc : {"idle", "log", "find"}, row : Row]] /\ comment'[q].pc = "idle"
  BY <1>1 DEF Comments!NoComment, Row
<1>3. InPlay' \subseteq InPlay /\ row \in InPlay
  BY <1>1, <1>2 DEF InPlay
<1>4. ASSUME row.kind = "create", NEW t \in Comments!ThreadsWith(Comments!Read(log), row.thread)
      PROVE  row.id \in Comments!Threads(Comments!Read(log))
  <2>1. row.thread = row.id
    BY <1>3, <1>4 DEF CommentInv, IdsAreOwn
  <2>2. ASSUME NEW r \in Comments!Replies(Comments!Read(log)) PROVE r \in InPlay /\ r.kind = "reply"
    <3>1. r \in Comments!ToSet(Comments!Read(log)) /\ r.kind = "reply"
      BY <2>2 DEF Comments!Replies, Comments!Under, Comments!ToSet
    <3>2. r \in Comments!ToSet(log)
      <4>1. PICK i \in 1 .. Len(log) : log[i] = r
        BY <1>1, <3>1, RowsRead
      <4> QED
        BY <1>1, <4>1 DEF Comments!ToSet
    <3> QED
      BY <3>1, <3>2 DEF InPlay
  <2>3. t = row.thread
    BY <1>3, <1>4, <2>1, <2>2 DEF Comments!ThreadsWith, CommentInv, IdsAreOwn
  <2> QED
    BY <1>4, <2>1, <2>3 DEF Comments!ThreadsWith
<1> QED
  BY <1>1, <1>2, <1>3, <1>4, PlayShrinks DEF CommentInv

LEMMA RetainKeeps == ASSUME CommentInv, NEW n \in 1 .. Len(log), Comments!Retain(n) PROVE CommentInv'
<1>1. /\ log \in Seq(Row) /\ UNCHANGED <<comment, ids, acked>> /\ Len(log) \in Nat /\ n \in Nat
      /\ log' = SubSeq(log, n + 1, Len(log))
      /\ retained' = retained \cup {log[i].id : i \in {j \in 1 .. n : log[j].kind # "resolve"}}
  BY DEF CommentInv, Comments!Retain
<1>2. /\ log' \in Seq(Row) /\ Len(log') = Len(log) - n
      /\ \A i \in 1 .. Len(log) - n : log'[i] = log[i + n]
  BY <1>1
<1>3. Comments!ToSet(log') \subseteq Comments!ToSet(log)
  BY <1>1, <1>2 DEF Comments!ToSet
<1>4. InPlay' \subseteq InPlay
  BY <1>1, <1>3 DEF InPlay
<1>5. ASSUME NEW t \in acked' \ retained' PROVE t \in Comments!Threads(Comments!Read(log'))
  <2>1. t \in Comments!Threads(Comments!Read(log))
    BY <1>1, <1>5 DEF CommentInv
  <2>2. PICK i \in 1 .. Len(log) : i <= LogWindow /\ log[i].kind = "create" /\ log[i].thread = t
    BY <1>1, <2>1, ThreadsRead
  <2>3. log[i].id = t
    BY <1>1, <2>2 DEF CommentInv, IdsAreOwn, InPlay, Comments!ToSet
  <2>4. ~(i <= n)
    BY <1>1, <1>5, <2>2, <2>3
  <2>5. i - n \in 1 .. Len(log') /\ i - n <= LogWindow /\ log'[i - n] = log[i]
    BY <1>1, <1>2, <2>2, <2>4, CommentAssumption
  <2> QED
    BY <1>2, <2>2, <2>5, ThreadsRead
<1> QED
  BY <1>1, <1>2, <1>4, <1>5, PlayShrinks DEF CommentInv

LEMMA CommentInitial == Comments!Init => CommentInv
<1> SUFFICES ASSUME Comments!Init PROVE CommentInv
  OBVIOUS
<1>1. log \in Seq(Row) /\ ids \in Nat /\ acked = {}
  BY DEF Comments!Init
<1>2. comment \in [Commenters -> [pc : {"idle", "log", "find"}, row : Row]]
  BY DEF Comments!Init, Comments!NoComment, Row
<1>3. InPlay = {}
  BY DEF Comments!Init, Comments!NoComment, InPlay, Comments!ToSet
<1> QED
  BY <1>1, <1>2, <1>3 DEF CommentInv, IdsAreOwn

LEMMA CommentStep == CommentInv /\ [Comments!Next]_(Comments!commentVars) => CommentInv'
<1>1. CommentInv /\ UNCHANGED Comments!commentVars => CommentInv'
  BY DEF Comments!commentVars, CommentInv, IdsAreOwn, InPlay
<1> QED
  BY <1>1, CommentStarts, LogKeeps, AnswerKeeps, RetainKeeps DEF Comments!Next

\* For any number of requests and any window: an answered thread is read by everybody, whatever
\* rows are written, lost or deleted before it, until its own row is deleted.
THEOREM AnsweredThreadsRemain == Comments!Spec => []AnsweredThreadsStay
<1>1. CommentInv => AnsweredThreadsStay
  BY DEF CommentInv, AnsweredThreadsStay, Comments!AnsweredThreadsStay
<1> QED
  BY <1>1, CommentInitial, CommentStep, PTL DEF Comments!Spec

-----------------------------------------------------------------------------
(* The search index *)

IndexKeys == SearchIndex!Terms \cup {"items"}

Ids == {IdOf[i] : i \in Items}

Rebuild == [pc : {"idle", "smembers", "del", "delManifest", "first", "rest"},
            left : SUBSET Items, keys : SUBSET IndexKeys, alone : BOOLEAN]

IndexTyped ==
  /\ stored \subseteq Items /\ manifest \subseteq IndexKeys /\ orphaned \in BOOLEAN
  /\ postings \in [SearchIndex!Terms -> SUBSET Ids]
  /\ sync \in [Syncs -> Rebuild]
  /\ wanted \in [known : BOOLEAN, items : SUBSET Items]

\* A rebuild that ran alone so far has nobody next to it.
RebuildsAlone ==
  \A s \in Syncs : sync[s].alone => /\ sync[s].pc # "idle"
                                    /\ \A r \in Syncs \ {s} : sync[r].pc = "idle"

\* The hash of items, there or about to be written again, is in the manifest, or will
\* be once a rebuild writes that has deleted the manifest; unless such a rebuild died.
HashIsListed ==
  stored # {} \/ (\E s \in Syncs : sync[s].pc = "rest")
    => "items" \in manifest \/ orphaned \/ \E s \in Syncs : sync[s].pc = "first"

\* Every stored item is under each of its terms.
Posted == \A i \in stored : \A t \in TermsOf[i] : IdOf[i] \in postings[t]

\* The hash holds one of these items for each of their ids.
Holds(S) == stored \subseteq S /\ \A i \in S : \E j \in stored : IdOf[j] = IdOf[i]

\* What a rebuild that runs alone has done so far.
Progress(s) ==
  /\ sync[s].left \subseteq wanted.items
  /\ sync[s].pc # "rest" => sync[s].left = wanted.items
  /\ sync[s].pc = "rest" => "items" \in manifest
  /\ ~orphaned => /\ sync[s].pc = "del" /\ stored # {} => "items" \in sync[s].keys
                  /\ sync[s].pc \in {"delManifest", "first"} => stored = {}
                  /\ sync[s].pc = "rest" => Holds(wanted.items \ sync[s].left) /\ Posted

RebuildsProgress == \A s \in Syncs : sync[s].alone => Progress(s)

KnownIsThere ==
  wanted.known => Holds(wanted.items) /\ Posted /\ \A s \in Syncs : sync[s].pc = "idle"

IndexInv == IndexTyped /\ RebuildsAlone /\ HashIsListed /\ RebuildsProgress /\ KnownIsThere

LEMMA TermsAre == \A i \in Items : \A t \in TermsOf[i] : t \in SearchIndex!Terms
BY DEF SearchIndex!Terms

LEMMA IndexInitial == SearchIndex!Init => IndexInv
<1> SUFFICES ASSUME SearchIndex!Init PROVE IndexInv
  OBVIOUS
<1>1. \A s \in Syncs : sync[s] = SearchIndex!NoSync
  BY DEF SearchIndex!Init
<1>2. SearchIndex!NoSync \in Rebuild
  BY DEF SearchIndex!NoSync, Rebuild
<1>3. IndexTyped
  BY <1>2 DEF SearchIndex!Init, IndexTyped
<1>4. RebuildsAlone /\ RebuildsProgress
  BY <1>1 DEF SearchIndex!NoSync, RebuildsAlone, RebuildsProgress
<1>5. HashIsListed /\ KnownIsThere
  BY <1>1 DEF SearchIndex!Init, SearchIndex!NoSync, HashIsListed, KnownIsThere, Posted, Holds
<1> QED
  BY <1>3, <1>4, <1>5 DEF IndexInv

LEMMA StartSyncKeeps ==
  ASSUME IndexInv, NEW s \in Syncs, NEW items \in SUBSET Items, SearchIndex!StartSync(s, items)
  PROVE  IndexInv'
<1> DEFINE lone == \A p \in Syncs : sync[p].pc = "idle"
           new == [pc |-> "smembers", left |-> items, keys |-> {}, alone |-> lone]
<1>1. /\ sync \in [Syncs -> Rebuild] /\ new \in Rebuild /\ sync[s].pc = "idle"
      /\ sync' = [r \in Syncs |-> IF r = s THEN new ELSE [sync[r] EXCEPT !.alone = FALSE]]
  BY DEF IndexInv, IndexTyped, Rebuild, SearchIndex!StartSync, SearchIndex!Running
<1>2. /\ UNCHANGED <<stored, postings, manifest, orphaned>>
      /\ wanted' \in [known : BOOLEAN, items : SUBSET Items] /\ ~wanted'.known
      /\ lone => wanted'.items = items
  BY DEF SearchIndex!StartSync, SearchIndex!Unknown, SearchIndex!Running
<1>3. sync'[s] = new
  BY <1>1
<1>4. \A r \in Syncs \ {s} : /\ sync'[r] \in Rebuild /\ sync'[r].pc = sync[r].pc /\ sync'[r].alone = FALSE
  BY <1>1 DEF Rebuild
<1>5. sync' \in [Syncs -> Rebuild]
  BY <1>1, <1>3, <1>4
<1>6. IndexTyped'
  BY <1>2, <1>5 DEF IndexInv, IndexTyped
<1>7. RebuildsAlone'
  BY <1>3, <1>4 DEF RebuildsAlone
<1>8. HashIsListed'
  BY <1>1, <1>2, <1>4 DEF IndexInv, HashIsListed
<1>9. RebuildsProgress'
  <2>1. sync'[s].alone => Progress(s)'
    BY <1>2, <1>3 DEF Progress
  <2> QED
    BY <1>4, <2>1 DEF IndexInv, RebuildsProgress
<1>10. KnownIsThere'
  BY <1>2 DEF KnownIsThere
<1> QED
  BY <1>6, <1>7, <1>8, <1>9, <1>10 DEF IndexInv

\* A running rebuild: nothing is known of the index meanwhile, and the others have met it.
LEMMA RunningIs ==
  ASSUME IndexInv, NEW s \in Syncs, sync[s].pc # "idle"
  PROVE  /\ ~wanted.known /\ sync[s] \in Rebuild
         /\ \A r \in Syncs \ {s} : ~sync[r].alone
         /\ sync[s].alone => \A r \in Syncs \ {s} : sync[r].pc = "idle"
BY DEF IndexInv, IndexTyped, RebuildsAlone, KnownIsThere, Rebuild

\* A step of a rebuild that goes on, as far as the other rebuilds are concerned.
LEMMA RebuildGoesOn ==
  ASSUME IndexInv, NEW s \in Syncs, sync[s].pc # "idle", NEW new \in Rebuild, sync' = [sync EXCEPT ![s] = new],
         new.pc # "idle", new.alone => sync[s].alone, ~wanted'.known, new.alone => Progress(s)',
         IndexTyped', HashIsListed'
  PROVE  IndexInv'
<1>1. sync'[s] = new /\ \A r \in Syncs \ {s} : sync'[r] = sync[r]
  BY DEF IndexInv, IndexTyped
<1>2. ~wanted'.known /\ \A r \in Syncs \ {s} : ~sync'[r].alone
  BY <1>1, RunningIs
<1>3. RebuildsAlone'
  BY <1>1, <1>2, RunningIs DEF RebuildsAlone
<1>4. RebuildsProgress'
  BY <1>1, <1>2 DEF IndexInv, RebuildsProgress
<1>5. KnownIsThere'
  BY <1>2 DEF KnownIsThere
<1> QED
  BY <1>3, <1>4, <1>5 DEF IndexInv

LEMMA ReadManifestKeeps ==
  ASSUME IndexInv, NEW s \in Syncs, SearchIndex!ReadManifest(s) PROVE IndexInv'
<1> DEFINE new == [sync[s] EXCEPT !.keys = manifest, !.pc = "del"]
<1>1. /\ sync \in [Syncs -> Rebuild] /\ sync[s].pc = "smembers" /\ sync[s] \in Rebuild /\ manifest \subseteq IndexKeys
      /\ UNCHANGED <<stored, postings, manifest, wanted, orphaned>>
  BY DEF IndexInv, IndexTyped, SearchIndex!ReadManifest
<1>2. new \in Rebuild /\ new.pc = "del" /\ new.keys = manifest /\ new.alone = sync[s].alone
      /\ new.left = sync[s].left
  BY <1>1 DEF Rebuild
<1>3. sync' = [sync EXCEPT ![s] = new]
  BY <1>1 DEF SearchIndex!ReadManifest
<1> HIDE DEF new
<1>4. sync'[s] = new /\ \A r \in Syncs \ {s} : sync'[r] = sync[r]
  BY <1>1, <1>3
<1>5. IndexTyped'
  BY <1>1, <1>2, <1>3 DEF IndexInv, IndexTyped
<1>6. HashIsListed'
  BY <1>1, <1>2, <1>4, Zenon DEF IndexInv, HashIsListed
<1>7. new.alone => Progress(s)'
  <2>1. new.alone => \A r \in Syncs : sync[r].pc # "first"
    BY <1>1, <1>2, RunningIs
  <2> QED
    BY <1>1, <1>2, <1>4, <2>1 DEF Progress, IndexInv, HashIsListed, RebuildsProgress
<1>8. ~wanted'.known
  BY <1>1, RunningIs
<1> QED
  BY <1>1, <1>2, <1>3, <1>5, <1>6, <1>7, <1>8, RebuildGoesOn

LEMMA DeleteKeysKeeps ==
  ASSUME IndexInv, NEW s \in Syncs, SearchIndex!DeleteKeys(s) PROVE IndexInv'
<1> DEFINE new == [sync[s] EXCEPT !.pc = "delManifest", !.keys = {}]
<1>1. /\ sync \in [Syncs -> Rebuild] /\ sync[s].pc = "del" /\ sync[s] \in Rebuild /\ stored \subseteq Items
      /\ stored' = IF "items" \in sync[s].keys THEN {} ELSE stored
      /\ postings' = [t \in SearchIndex!Terms |-> IF t \in sync[s].keys THEN {} ELSE postings[t]]
      /\ UNCHANGED <<manifest, wanted, orphaned>>
  BY DEF IndexInv, IndexTyped, SearchIndex!DeleteKeys
<1>2. new \in Rebuild /\ new.pc = "delManifest" /\ new.alone = sync[s].alone
      /\ new.left = sync[s].left
  BY <1>1 DEF Rebuild
<1>3. sync' = [sync EXCEPT ![s] = new]
  BY <1>1 DEF SearchIndex!DeleteKeys
<1> HIDE DEF new
<1>4. sync'[s] = new /\ \A r \in Syncs \ {s} : sync'[r] = sync[r]
  BY <1>1, <1>3
<1>5. IndexTyped'
  BY <1>1, <1>2, <1>3 DEF IndexInv, IndexTyped
<1>6. HashIsListed'
  BY <1>1, <1>2, <1>4, Zenon DEF IndexInv, HashIsListed
<1>7. new.alone => Progress(s)'
  BY <1>1, <1>2, <1>4 DEF Progress, IndexInv, RebuildsProgress
<1>8. ~wanted'.known
  BY <1>1, RunningIs
<1> QED
  BY <1>1, <1>2, <1>3, <1>5, <1>6, <1>7, <1>8, RebuildGoesOn

LEMMA DeleteManifestKeeps ==
  ASSUME IndexInv, NEW s \in Syncs, SearchIndex!DeleteManifest(s) PROVE IndexInv'
<1> DEFINE new == [sync[s] EXCEPT !.pc = "first"]
<1>1. /\ sync \in [Syncs -> Rebuild] /\ sync[s].pc = "delManifest" /\ sync[s] \in Rebuild
      /\ manifest' = {} /\ UNCHANGED <<stored, postings, wanted, orphaned>>
  BY DEF IndexInv, IndexTyped, SearchIndex!DeleteManifest
<1>2. new \in Rebuild /\ new.pc = "first" /\ new.alone = sync[s].alone
      /\ new.left = sync[s].left
  BY <1>1 DEF Rebuild
<1>3. sync' = [sync EXCEPT ![s] = new]
  BY <1>1 DEF SearchIndex!DeleteManifest
<1> HIDE DEF new
<1>4. sync'[s] = new /\ \A r \in Syncs \ {s} : sync'[r] = sync[r]
  BY <1>1, <1>3
<1>5. IndexTyped'
  BY <1>1, <1>2, <1>3 DEF IndexInv, IndexTyped
<1>6. HashIsListed'
  BY <1>2, <1>4 DEF HashIsListed
<1>7. new.alone => Progress(s)'
  BY <1>1, <1>2, <1>4 DEF Progress, IndexInv, RebuildsProgress
<1>8. ~wanted'.known
  BY <1>1, RunningIs
<1> QED
  BY <1>1, <1>2, <1>3, <1>5, <1>6, <1>7, <1>8, RebuildGoesOn

\* What a pipeline does to the index: everything, or all but the refused commands.
Writes(s, batch, refused, alone) ==
  /\ alone = (sync[s].alone /\ ~refused)
  /\ stored' \subseteq stored \cup batch /\ postings' \in [SearchIndex!Terms -> SUBSET Ids]
  /\ \A t \in SearchIndex!Terms : postings[t] \subseteq postings'[t]
  /\ manifest \subseteq manifest' /\ manifest' \subseteq IndexKeys
  /\ sync[s].pc = "first" => "items" \in manifest' \/ orphaned'
  /\ sync[s].pc = "first" /\ ~refused => "items" \in manifest'
  /\ ~refused => \A i \in batch : /\ \E j \in stored' : IdOf[j] = IdOf[i]
                                  /\ \A t \in TermsOf[i] : IdOf[i] \in postings'[t]
  /\ \A i \in stored : \E j \in stored' : IdOf[j] = IdOf[i]
  /\ orphaned' \in BOOLEAN
  /\ sync[s].pc # "first" => orphaned' = (orphaned /\ ~(alone /\ batch = sync[s].left))
  /\ ~refused => orphaned' = (orphaned /\ ~(alone /\ batch = sync[s].left))
  /\ orphaned /\ ~(alone /\ batch = sync[s].left) => orphaned'
  /\ IF batch = sync[s].left
     THEN /\ sync' = [sync EXCEPT ![s] = SearchIndex!NoSync]
          /\ wanted' = IF alone /\ ~orphaned THEN [wanted EXCEPT !.known = TRUE] ELSE SearchIndex!Unknown
     ELSE /\ sync' = [sync EXCEPT ![s].pc = "rest", ![s].left = @ \ batch, ![s].alone = alone]
          /\ wanted' = IF alone THEN wanted ELSE SearchIndex!Unknown

LEMMA WriteIs ==
  ASSUME IndexInv, NEW s \in Syncs, NEW batch \in SUBSET Items, SearchIndex!Flush(s, batch)
  PROVE  \E refused, alone \in BOOLEAN : Writes(s, batch, refused, alone)
<1> USE DEF Writes
<1> DEFINE registered == IF sync[s].pc = "first" THEN {"items"} ELSE {}
           commands == SearchIndex!Commands(batch, registered)
<1>1. PICK refusals : /\ refusals \subseteq commands
                      /\ SearchIndex!Write(s, batch, commands, refusals)
  <2>1. PICK refusals \in SearchIndex!Refusals(commands) : SearchIndex!Write(s, batch, commands, refusals)
    BY DEF SearchIndex!Flush
  <2>2. refusals \subseteq commands
    BY DEF SearchIndex!Refusals
  <2> QED
    BY <2>1, <2>2
<1> DEFINE refused == refusals # {}
           done == commands \ refusals
           alone == sync[s].alone /\ ~refused
<1>2. /\ stored \subseteq Items /\ postings \in [SearchIndex!Terms -> SUBSET Ids] /\ manifest \subseteq IndexKeys
      /\ orphaned \in BOOLEAN /\ sync[s] \in Rebuild
  BY DEF IndexInv, IndexTyped
<1>3. sync[s].alone \in BOOLEAN
  BY <1>2 DEF Rebuild
<1>4. /\ \A i \in batch : <<"items", i>> \in commands /\ \A t \in TermsOf[i] : <<t, i>> \in commands
      /\ \A k \in registered : <<"manifest", k>> \in commands
  <2>1. \A k \in registered : <<"manifest", k>> \in commands
    BY DEF SearchIndex!Commands
  <2>2. ASSUME NEW i \in batch, NEW k \in {"items"} \cup TermsOf[i] PROVE <<k, i>> \in commands
    BY <2>2 DEF SearchIndex!Commands
  <2> QED
    BY <2>1, <2>2
<1>5. sync[s].pc # "first" => <<"manifest", "items">> \notin commands
  <2> SUFFICES ASSUME sync[s].pc # "first", <<"manifest", "items">> \in commands PROVE FALSE
    OBVIOUS
  <2>1. ASSUME "items" \in UNION {TermsOf[i] : i \in batch} PROVE FALSE
    BY <2>1, IndexAssumption
  <2>2. ASSUME NEW i \in batch, <<"manifest", "items">> \in {<<k, i>> : k \in {"items"} \cup TermsOf[i]} PROVE FALSE
    <3>1. "manifest" \in TermsOf[i]
      BY <2>2
    <3> QED
      BY <3>1, IndexAssumption
  <2> QED
    BY <2>1, <2>2 DEF SearchIndex!Commands
<1> HIDE DEF commands
<1>6. PICK last \in SUBSET {i \in batch : <<"items", i>> \in done} :
        /\ \A i \in batch : <<"items", i>> \in done => \E j \in last : IdOf[j] = IdOf[i]
        /\ stored' = last \cup {i \in stored : \A j \in last : IdOf[j] # IdOf[i]}
  BY <1>1 DEF SearchIndex!Write
<1>7. /\ postings' = [t \in SearchIndex!Terms |->
                        postings[t] \cup {IdOf[i] : i \in {j \in batch : <<t, j>> \in done}}]
      /\ manifest' = manifest \cup {k \in IndexKeys : <<"manifest", k>> \in done}
  BY <1>1 DEF SearchIndex!Write, IndexKeys
<1>8. /\ orphaned' = (\/ orphaned /\ ~(alone /\ batch = sync[s].left)
                      \/ <<"manifest", "items">> \in refusals)
      /\ IF batch = sync[s].left
         THEN /\ sync' = [sync EXCEPT ![s] = SearchIndex!NoSync]
              /\ wanted' = IF alone /\ ~orphaned THEN [wanted EXCEPT !.known = TRUE] ELSE SearchIndex!Unknown
         ELSE /\ sync' = [sync EXCEPT ![s].pc = "rest", ![s].left = @ \ batch, ![s].alone = alone]
              /\ wanted' = IF alone THEN wanted ELSE SearchIndex!Unknown
  BY <1>1, Zenon DEF SearchIndex!Write
<1>9. /\ stored' \subseteq stored \cup batch
      /\ \A i \in stored : \E j \in stored' : IdOf[j] = IdOf[i]
  BY <1>6
<1>10. ASSUME ~refused, NEW i \in batch
       PROVE  /\ \E j \in stored' : IdOf[j] = IdOf[i]
              /\ \A t \in TermsOf[i] : IdOf[i] \in postings'[t]
  <2>1. \E j \in stored' : IdOf[j] = IdOf[i]
    BY <1>4, <1>6, <1>10
  <2>2. ASSUME NEW t \in TermsOf[i] PROVE IdOf[i] \in postings'[t]
    BY <1>4, <1>7, <1>10, TermsAre
  <2> QED
    BY <2>1, <2>2
<1>11. /\ postings' \in [SearchIndex!Terms -> SUBSET Ids]
       /\ \A t \in SearchIndex!Terms : postings[t] \subseteq postings'[t]
  <2>1. \A t \in SearchIndex!Terms : postings'[t] \subseteq Ids
    BY <1>2, <1>7 DEF Ids
  <2> QED
    BY <1>2, <1>7, <2>1
<1>12. manifest \subseteq manifest' /\ manifest' \subseteq IndexKeys
  BY <1>2, <1>7
<1>13. ASSUME sync[s].pc = "first"
       PROVE  /\ "items" \in manifest' \/ <<"manifest", "items">> \in refusals
              /\ ~refused => "items" \in manifest'
  BY <1>4, <1>7, <1>13 DEF IndexKeys
<1>14. sync[s].pc # "first" \/ ~refused => <<"manifest", "items">> \notin refusals
  BY <1>1, <1>5
<1> HIDE DEF refused, done, alone
<1>15. refused \in BOOLEAN /\ alone \in BOOLEAN /\ alone = (sync[s].alone /\ ~refused)
  BY <1>3 DEF refused, alone
<1>16. /\ orphaned' \in BOOLEAN
       /\ sync[s].pc # "first" => orphaned' = (orphaned /\ ~(alone /\ batch = sync[s].left))
       /\ ~refused => orphaned' = (orphaned /\ ~(alone /\ batch = sync[s].left))
       /\ orphaned /\ ~(alone /\ batch = sync[s].left) => orphaned'
       /\ <<"manifest", "items">> \in refusals => orphaned'
  BY <1>2, <1>8, <1>14, <1>15
<1> QED
  BY <1>8, <1>9, <1>10, <1>11, <1>12, <1>13, <1>15, <1>16

LEMMA FlushKeeps ==
  ASSUME IndexInv, NEW s \in Syncs, NEW batch \in SUBSET Items, SearchIndex!Flush(s, batch)
  PROVE  IndexInv'
<1>1. /\ sync \in [Syncs -> Rebuild] /\ sync[s] \in Rebuild /\ sync[s].pc \in {"first", "rest"}
      /\ stored \subseteq Items /\ postings \in [SearchIndex!Terms -> SUBSET Ids]
      /\ wanted \in [known : BOOLEAN, items : SUBSET Items] /\ orphaned \in BOOLEAN
      /\ batch \subseteq sync[s].left /\ (sync[s].pc = "rest" => batch = sync[s].left)
  BY DEF IndexInv, IndexTyped, SearchIndex!Flush
<1>2. PICK refused, alone \in BOOLEAN : Writes(s, batch, refused, alone)
  BY WriteIs
<1> USE DEF Writes
<1>3. sync[s].alone => Progress(s)
  BY DEF IndexInv, RebuildsProgress
<1>4. stored' \subseteq Items
  BY <1>1, <1>2
<1>5. ASSUME alone, ~orphaned
      PROVE  /\ stored' \subseteq wanted.items \ (sync[s].left \ batch)
             /\ \A i \in wanted.items \ (sync[s].left \ batch) : \E j \in stored' : IdOf[j] = IdOf[i]
             /\ Posted' /\ wanted'.items = wanted.items
  <2>1. /\ sync[s].alone /\ wanted.items \subseteq Items
        /\ wanted'.items = wanted.items
    <3>1. wanted' = wanted \/ wanted' = [wanted EXCEPT !.known = TRUE]
      BY <1>2, <1>5
    <3> QED
      BY <1>1, <1>2, <1>5, <3>1
  <2> DEFINE before == wanted.items \ sync[s].left
             after == wanted.items \ (sync[s].left \ batch)
  <2>2. Holds(before) /\ Posted /\ sync[s].left \subseteq wanted.items
    BY <1>1, <1>3, <1>5, <2>1 DEF Progress, Holds, Posted
  <2>3. after = before \cup batch
    BY <1>1, <2>2
  <2> HIDE DEF before, after
  <2>4. stored' \subseteq after /\ \A i \in after : \E j \in stored' : IdOf[j] = IdOf[i]
    <3>1. stored' \subseteq after
      BY <1>2, <2>2, <2>3 DEF Holds
    <3>2. ASSUME NEW i \in before PROVE \E j \in stored' : IdOf[j] = IdOf[i]
      <4>1. PICK j \in stored : IdOf[j] = IdOf[i]
        BY <2>2 DEF Holds
      <4> QED
        BY <1>2, <4>1
    <3>3. ~refused
      BY <1>2, <1>5
    <3>4. ASSUME NEW i \in batch PROVE \E j \in stored' : IdOf[j] = IdOf[i]
      BY <1>2, <3>3
    <3> QED
      BY <2>3, <3>1, <3>2, <3>4
  <2>5. Posted'
    BY <1>1, <1>2, <1>5, <2>2, TermsAre DEF Posted
  <2> QED
    BY <2>1, <2>4, <2>5 DEF after
<1>6. ASSUME NEW r \in Syncs \ {s}, sync[r].pc = "first" PROVE ~sync[s].alone
  BY <1>1, <1>6, RunningIs
<1>7. CASE batch = sync[s].left
  <2>1. /\ sync' = [sync EXCEPT ![s] = SearchIndex!NoSync]
        /\ wanted' = IF alone /\ ~orphaned THEN [wanted EXCEPT !.known = TRUE] ELSE SearchIndex!Unknown
    BY <1>2, <1>7
  <2>2. /\ sync'[s] = SearchIndex!NoSync /\ \A r \in Syncs \ {s} : sync'[r] = sync[r]
        /\ SearchIndex!NoSync \in Rebuild
    BY <1>1, <2>1 DEF SearchIndex!NoSync, Rebuild
  <2>3. \A r \in Syncs : ~sync'[r].alone
    BY <1>1, <2>2, RunningIs DEF SearchIndex!NoSync
  <2>4. IndexTyped'
    <3>1. wanted' \in [known : BOOLEAN, items : SUBSET Items]
      BY <1>1, <2>1 DEF SearchIndex!Unknown
    <3>2. sync' \in [Syncs -> Rebuild]
      BY <1>1, <2>1, <2>2
    <3> QED
      BY <1>2, <1>4, <3>1, <3>2 DEF IndexTyped
  <2>5. RebuildsAlone' /\ RebuildsProgress'
    BY <2>2, <2>3 DEF RebuildsAlone, RebuildsProgress, SearchIndex!NoSync
  <2>6. HashIsListed'
    <3>1. CASE sync[s].pc = "first"
      BY <1>2, <3>1 DEF HashIsListed
    <3>2. CASE sync[s].pc = "rest" /\ sync[s].alone
      BY <1>2, <1>3, <3>2 DEF HashIsListed, Progress
    <3>3. CASE sync[s].pc = "rest" /\ ~sync[s].alone
      <4>1. orphaned' = orphaned
        <5>1. sync[s].pc # "first" /\ ~alone
          BY <1>2, <3>3
        <5>2. orphaned' = (orphaned /\ ~(alone /\ batch = sync[s].left))
          BY <1>2, <5>1
        <5> QED
          BY <1>1, <5>1, <5>2
      <4>2. "items" \in manifest \/ orphaned \/ \E r \in Syncs \ {s} : sync[r].pc = "first"
        BY <3>3 DEF HashIsListed, IndexInv
      <4> QED
        BY <1>2, <2>2, <4>1, <4>2 DEF HashIsListed
    <3> QED
      BY <1>1, <3>1, <3>2, <3>3
  <2>7. KnownIsThere'
    <3> SUFFICES ASSUME wanted'.known PROVE Holds(wanted.items)' /\ Posted' /\ \A r \in Syncs : sync'[r].pc = "idle"
      BY DEF KnownIsThere
    <3>1. alone /\ ~orphaned
      BY <2>1 DEF SearchIndex!Unknown
    <3>2. \A r \in Syncs : sync'[r].pc = "idle"
      BY <1>1, <1>2, <2>2, <3>1, RunningIs DEF SearchIndex!NoSync
    <3>3. Holds(wanted.items)' /\ Posted'
      BY <1>1, <1>5, <1>7, <3>1 DEF Holds
    <3> QED
      BY <3>2, <3>3
  <2> QED
    BY <2>4, <2>5, <2>6, <2>7 DEF IndexInv
<1>8. CASE batch # sync[s].left
  <2> DEFINE new == [sync[s] EXCEPT !.pc = "rest", !.left = @ \ batch, !.alone = alone]
  <2>1. /\ sync' = [sync EXCEPT ![s] = new]
        /\ wanted' = IF alone THEN wanted ELSE SearchIndex!Unknown
    <3>1. sync' = [sync EXCEPT ![s].pc = "rest", ![s].left = @ \ batch, ![s].alone = alone]
      BY <1>2, <1>8
    <3>2. sync' = [sync EXCEPT ![s] = new]
      BY <1>1, <3>1
    <3> QED
      BY <1>2, <1>8, <3>2
  <2>2. new \in Rebuild /\ new.pc = "rest" /\ new.alone = alone /\ new.left = sync[s].left \ batch
    BY <1>1, <1>2 DEF Rebuild
  <2> HIDE DEF new
  <2>3. sync'[s] = new /\ \A r \in Syncs \ {s} : sync'[r] = sync[r]
    BY <1>1, <2>1
  <2>4. sync[s].pc = "first"
    BY <1>1, <1>8
  <2>5. HashIsListed'
    BY <1>2, <2>4 DEF HashIsListed
  <2>6. IndexTyped'
    <3>1. wanted' \in [known : BOOLEAN, items : SUBSET Items]
      BY <1>1, <2>1 DEF SearchIndex!Unknown
    <3> QED
      BY <1>1, <1>2, <1>4, <2>1, <2>2, <3>1 DEF IndexTyped
  <2>7. ~wanted'.known
    BY <1>1, <2>1, RunningIs DEF SearchIndex!Unknown
  <2>8. new.alone => Progress(s)'
    <3> SUFFICES ASSUME alone PROVE Progress(s)'
      BY <2>2
    <3>1. /\ sync'[s].pc = "rest" /\ sync'[s].left = sync[s].left \ batch /\ wanted' = wanted
          /\ sync[s].alone /\ ~refused
      BY <1>2, <2>1, <2>2, <2>3
    <3>2. "items" \in manifest' /\ sync[s].left \subseteq wanted.items
      BY <1>2, <1>3, <2>4, <3>1 DEF Progress
    <3>3. ~orphaned' => ~orphaned
      BY <1>2, <1>8
    <3>4. ~orphaned => Holds(wanted.items \ sync[s].left)' /\ Posted'
      BY <1>5, <3>1 DEF Holds
    <3> QED
      BY <3>1, <3>2, <3>3, <3>4 DEF Progress
  <2>9. new.alone => sync[s].alone
    BY <1>2, <2>2
  <2>10. sync[s].pc # "idle" /\ new.pc # "idle"
    BY <2>2, <2>4
  <2> QED
    BY <2>1, <2>2, <2>5, <2>6, <2>7, <2>8, <2>9, <2>10, RebuildGoesOn
<1> QED
  BY <1>7, <1>8

LEMMA DieKeeps == ASSUME IndexInv, NEW s \in Syncs, SearchIndex!Die(s) PROVE IndexInv'
<1>1. /\ sync \in [Syncs -> Rebuild] /\ sync[s].pc # "idle" /\ orphaned \in BOOLEAN /\ sync[s] \in Rebuild
      /\ sync' = [sync EXCEPT ![s] = SearchIndex!NoSync] /\ orphaned' = (orphaned \/ ~sync[s].alone)
      /\ UNCHANGED <<stored, postings, manifest>> /\ wanted' = [known |-> FALSE, items |-> {}]
  BY DEF IndexInv, IndexTyped, SearchIndex!Die, SearchIndex!Running, SearchIndex!Unknown
<1>2. /\ sync'[s] = SearchIndex!NoSync /\ \A r \in Syncs \ {s} : sync'[r] = sync[r]
      /\ SearchIndex!NoSync \in Rebuild
  BY <1>1 DEF SearchIndex!NoSync, Rebuild
<1>3. \A r \in Syncs : ~sync'[r].alone
  BY <1>1, <1>2, RunningIs DEF SearchIndex!NoSync
<1>4. IndexTyped'
  BY <1>1, <1>2 DEF IndexInv, IndexTyped, Rebuild
<1>5. RebuildsAlone' /\ RebuildsProgress'
  BY <1>2, <1>3 DEF IndexInv, RebuildsAlone, RebuildsProgress, SearchIndex!NoSync
<1>6. HashIsListed'
  <2>1. sync[s].alone /\ ~orphaned /\ sync[s].pc = "first" => stored = {}
    BY DEF IndexInv, RebuildsProgress, Progress
  <2>2. CASE sync[s].alone
    <3>1. \A r \in Syncs : sync'[r].pc = "idle"
      BY <1>1, <1>2, <2>2, RunningIs DEF SearchIndex!NoSync
    <3>2. stored # {} /\ ~orphaned => "items" \in manifest
      BY <1>1, <2>1, <2>2, RunningIs DEF IndexInv, HashIsListed
    <3> QED
      BY <1>1, <3>1, <3>2 DEF HashIsListed
  <2>3. CASE ~sync[s].alone
    BY <1>1, <2>3 DEF HashIsListed
  <2> QED
    BY <2>2, <2>3
<1>7. KnownIsThere'
  BY <1>1, RunningIs DEF KnownIsThere
<1> QED
  BY <1>4, <1>5, <1>6, <1>7 DEF IndexInv

LEMMA IndexStep == IndexInv /\ [SearchIndex!Next]_(SearchIndex!indexVars) => IndexInv'
<1>1. IndexInv /\ UNCHANGED SearchIndex!indexVars => IndexInv'
  BY DEF SearchIndex!indexVars, IndexInv, IndexTyped, RebuildsAlone, HashIsListed, RebuildsProgress,
     Progress, KnownIsThere, Posted, Holds
<1> QED
  BY <1>1, StartSyncKeeps, ReadManifestKeeps, DeleteKeysKeeps, DeleteManifestKeeps, FlushKeeps, DieKeeps
     DEF SearchIndex!Next

\* For any items, ids, terms and number of rebuilds, cut anywhere, met by any others and with
\* commands refused: after a rebuild that ran alone with none refused, keyword search finds its
\* items by each of their terms, unless one of the same id has taken their place, and no others.
THEOREM SearchFindsItems == SearchIndex!Spec => []SearchIsExact
<1>1. IndexInv => SearchIsExact
  <2> SUFFICES ASSUME IndexInv, wanted.known
               PROVE  /\ stored \subseteq wanted.items
                      /\ \A i \in wanted.items : \/ \A t \in TermsOf[i] : i \in SearchIndex!Found(t)
                                                 \/ \E j \in stored \ {i} : IdOf[j] = IdOf[i]
    BY DEF SearchIsExact, SearchIndex!SearchIsExact
  <2>1. Holds(wanted.items) /\ Posted
    BY DEF IndexInv, KnownIsThere
  <2>2. ASSUME NEW i \in wanted.items, ~\E j \in stored \ {i} : IdOf[j] = IdOf[i]
        PROVE  \A t \in TermsOf[i] : i \in SearchIndex!Found(t)
    <3>1. i \in stored
      BY <2>1, <2>2 DEF Holds
    <3> QED
      BY <2>1, <3>1 DEF Posted, SearchIndex!Found
  <2> QED
    BY <2>1, <2>2 DEF Holds
<1> QED
  BY <1>1, IndexInitial, IndexStep, PTL DEF SearchIndex!Spec

-----------------------------------------------------------------------------
(* The splitter of SQL: induction and recursion up to a number *)

\* A set of numbers that is not empty has a least one.
LEMMA LeastExists ==
  ASSUME NEW S \in SUBSET Nat, S # {}
  PROVE  \E x \in S : \A y \in S : x <= y
<1> DEFINE Below == OpToRel(<, Nat)
<1>1. \E x \in S : \A y \in S : <<y, x>> \notin Below
  BY NatLessThanWellFounded, WFMin
<1>2. \A x, y \in Nat : <<y, x>> \in Below <=> y < x
  BY DEF OpToRel
<1> HIDE DEF Below
<1>3. PICK x \in S : \A y \in S : <<y, x>> \notin Below
  BY <1>1
<1>4. \A y \in S : ~(y < x)
  BY <1>2, <1>3
<1>5. \A y \in S : x <= y
  BY <1>4
<1> QED
  BY <1>5

\* Induction up to n, for the set of the numbers that have the property.
LEMMA UpTheNumbers ==
  ASSUME NEW n \in Nat, NEW T, 0 \in T, \A i \in 0 .. n : i \in T /\ i < n => i + 1 \in T
  PROVE  \A i \in 0 .. n : i \in T
<1> SUFFICES ASSUME NEW k \in 0 .. n, k \notin T PROVE FALSE
  OBVIOUS
<1> DEFINE S == {i \in 0 .. n : i \notin T}
<1>1. S \in SUBSET Nat /\ S # {}
  OBVIOUS
<1>2. PICK x \in S : \A y \in S : x <= y
  BY <1>1, LeastExists
<1>3. x # 0 /\ x \in Nat /\ x <= n
  BY <1>2
<1>4. x - 1 \in 0 .. n /\ x - 1 < n /\ x - 1 \notin S
  BY <1>2, <1>3
<1>5. x - 1 \in T
  BY <1>4
<1>6. (x - 1) + 1 \in T
  BY <1>4, <1>5
<1> QED
  BY <1>2, <1>3, <1>6

\* What holds at first, and at each place when it held at the one before, holds everywhere.
LEMMA StaysIn ==
  ASSUME NEW n \in Nat, NEW S, NEW g, g[0] \in S, \A i \in 1 .. n : g[i - 1] \in S => g[i] \in S
  PROVE  \A i \in 0 .. n : g[i] \in S
<1> DEFINE T == {i \in 0 .. n : g[i] \in S}
<1>1. 0 \in T
  OBVIOUS
<1>2. ASSUME NEW i \in 0 .. n, i \in T, i < n
      PROVE  i + 1 \in T
  <2>1. i + 1 \in 1 .. n /\ i + 1 \in 0 .. n /\ (i + 1) - 1 = i
    BY <1>2
  <2>2. g[(i + 1) - 1] \in S
    BY <1>2, <2>1
  <2> QED
    BY <2>1, <2>2
<1> HIDE DEF T
<1>3. \A i \in 0 .. n : i \in T
  BY <1>1, <1>2, UpTheNumbers
<1> QED
  BY <1>3 DEF T

\* f begins with b, and F makes each value of the one before.
Recursive(f, n, b, F) == f[0] = b /\ \A i \in 1 .. n : f[i] = F[<<f[i - 1], i>>]

LEMMA RecursionExists ==
  ASSUME NEW n \in Nat, NEW S, NEW b \in S, NEW F \in [S \X (1 .. n) -> S]
  PROVE  \E f \in [0 .. n -> S] : Recursive(f, n, b, F)
<1> DEFINE Fun == [0 .. n -> S]
           Good(f, m) == f[0] = b /\ \A i \in 1 .. m : f[i] = F[<<f[i - 1], i>>]
           T == {m \in 0 .. n : \E f \in Fun : Good(f, m)}
<1>1. \E f \in Fun : Good(f, 0)
  <2> DEFINE g == [i \in 0 .. n |-> b]
  <2>1. g \in Fun /\ g[0] = b
    OBVIOUS
  <2>2. Good(g, 0)
    BY <2>1
  <2> HIDE DEF g, Good, Fun
  <2> QED
    BY <2>1, <2>2
<1>2. ASSUME NEW m \in 0 .. n, m < n, NEW f \in Fun, Good(f, m)
      PROVE  \E g \in Fun : Good(g, m + 1)
  <2> DEFINE g == [f EXCEPT ![m + 1] = F[<<f[m], m + 1>>]]
  <2>1. f[m] \in S /\ m + 1 \in 1 .. n /\ m + 1 \in 0 .. n
    BY <1>2
  <2>2. F[<<f[m], m + 1>>] \in S
    BY <2>1
  <2>3. g \in Fun /\ g[m + 1] = F[<<f[m], m + 1>>] /\ \A i \in 0 .. m : g[i] = f[i]
    BY <1>2, <2>1, <2>2
  <2> HIDE DEF g
  <2>4. ASSUME NEW i \in 1 .. m + 1
        PROVE  g[i] = F[<<g[i - 1], i>>]
    <3>1. CASE i = m + 1
      <4>1. g[m] = f[m] /\ i - 1 = m
        BY <2>3, <3>1
      <4> QED
        BY <2>3, <3>1, <4>1
    <3>2. CASE i # m + 1
      <4>1. i \in 1 .. m /\ i \in 0 .. m /\ i - 1 \in 0 .. m
        BY <3>2
      <4> QED
        BY <1>2, <2>3, <4>1
    <3> QED
      BY <3>1, <3>2
  <2>5. g[0] = b
    BY <1>2, <2>3
  <2>6. Good(g, m + 1)
    BY <2>4, <2>5
  <2> HIDE DEF Good, Fun
  <2> QED
    BY <2>3, <2>6
<1> HIDE DEF Good, Fun
<1>3. 0 \in T
  BY <1>1
<1>4. \A m \in 0 .. n : m \in T /\ m < n => m + 1 \in T
  BY <1>2
<1> HIDE DEF T
<1>5. n \in T
  BY <1>3, <1>4, UpTheNumbers
<1>6. \E f \in Fun : Good(f, n)
  BY <1>5 DEF T
<1> QED
  BY <1>6 DEF Good, Fun, Recursive
-----------------------------------------------------------------------------
(* Positions *)

LEMMA FirstIsLeast ==
  ASSUME NEW S \in SUBSET Nat, S # {}
  PROVE  First(S) \in S /\ \A y \in S : First(S) <= y
  BY LeastExists DEF First

LEMMA FirstIs ==
  ASSUME NEW S \in SUBSET Nat, NEW k \in S, \A y \in S : k <= y
  PROVE  First(S) = k
<1>1. First(S) \in S /\ First(S) <= k /\ k <= First(S)
  BY FirstIsLeast
<1>2. First(S) \in Nat /\ k \in Nat
  BY <1>1
<1> QED
  BY <1>1, <1>2

\* The texts are sequences of the characters.
LEMMA CharactersOf ==
  ASSUME NEW s \in Seq(Characters)
  PROVE  Len(s) \in Nat /\ \A i \in 1 .. Len(s) : s[i] \in Characters
  BY LenProperties

\* What is not here is further on.
LEMMA FurtherOn ==
  ASSUME NEW s \in Seq(Characters), NEW k \in 1 .. Len(s)
  PROVE  /\ \A ch : s[k] # ch => Occurrences(s, k, ch) = Occurrences(s, k + 1, ch)
         /\ ~Pair(s, k, "*", "/") => Closings(s, k) = Closings(s, k + 1)
<1>1. \A j : j \in k .. Len(s) <=> j = k \/ j \in k + 1 .. Len(s)
  BY CharactersOf
<1> QED
  BY <1>1 DEF Occurrences, Closings

\* What is here is the first.
LEMMA RightHere ==
  ASSUME NEW s \in Seq(Characters), NEW k \in 1 .. Len(s)
  PROVE  /\ \A ch : s[k] = ch => UpTo(s, Occurrences(s, k, ch), 0) = k
         /\ Pair(s, k, "*", "/") => UpTo(s, Closings(s, k), 1) = k + 1
<1>1. ASSUME NEW ch, s[k] = ch
      PROVE  Occurrences(s, k, ch) # {} /\ First(Occurrences(s, k, ch)) = k
  <2>1. Occurrences(s, k, ch) \in SUBSET Nat /\ k \in Occurrences(s, k, ch)
        /\ \A y \in Occurrences(s, k, ch) : k <= y
    BY <1>1, CharactersOf DEF Occurrences
  <2> QED
    BY <2>1, FirstIs
<1>2. ASSUME Pair(s, k, "*", "/")
      PROVE  Closings(s, k) # {} /\ First(Closings(s, k)) = k
  <2>1. Closings(s, k) \in SUBSET Nat /\ k \in Closings(s, k)
        /\ \A y \in Closings(s, k) : k <= y
    BY <1>2, CharactersOf DEF Closings
  <2> QED
    BY <2>1, FirstIs
<1> QED
  BY <1>1, <1>2 DEF UpTo

\* Nothing ends before it begins, or behind the text.
LEMMA UpToBounds ==
  ASSUME NEW s \in Seq(Characters), NEW k \in Nat, NEW m \in Nat, k <= Len(s), k <= m
  PROVE  /\ \A ch : UpTo(s, Occurrences(s, m, ch), 0) \in k .. Len(s)
         /\ UpTo(s, Closings(s, m), 1) \in k .. Len(s)
<1>1. Len(s) \in Nat
  BY CharactersOf
<1>2. ASSUME NEW ch, Occurrences(s, m, ch) # {}
      PROVE  First(Occurrences(s, m, ch)) + 0 \in k .. Len(s)
  <2>1. Occurrences(s, m, ch) \in SUBSET Nat
    BY <1>1 DEF Occurrences
  <2>2. First(Occurrences(s, m, ch)) \in m .. Len(s)
    BY <1>2, <2>1, FirstIsLeast DEF Occurrences
  <2> QED
    BY <1>1, <2>2
<1>3. ASSUME Closings(s, m) # {}
      PROVE  First(Closings(s, m)) + 1 \in k .. Len(s)
  <2>1. Closings(s, m) \in SUBSET Nat
    BY <1>1 DEF Closings
  <2>2. First(Closings(s, m)) \in m .. Len(s) /\ First(Closings(s, m)) + 1 \in 1 .. Len(s)
    BY <1>3, <2>1, FirstIsLeast DEF Closings, Pair, Has
  <2> QED
    BY <1>1, <2>2
<1> QED
  BY <1>1, <1>2, <1>3 DEF UpTo

\* A lexeme has a character at least.
LEMMA LexemeBounds ==
  ASSUME NEW s \in Seq(Characters), NEW i \in 1 .. Len(s)
  PROVE  LexemeEnd(s, i) \in i .. Len(s)
<1>1. Len(s) \in Nat /\ i \in Nat /\ i <= Len(s) /\ i + 1 \in Nat /\ i + 2 \in Nat /\ i <= i + 1 /\ i <= i + 2
  BY CharactersOf
<1>2. \A ch : UpTo(s, Occurrences(s, i + 2, ch), 0) \in i .. Len(s)
  BY <1>1, UpToBounds
<1>3. \A ch : UpTo(s, Occurrences(s, i + 1, ch), 0) \in i .. Len(s)
  BY <1>1, UpToBounds
<1>4. UpTo(s, Closings(s, i + 2), 1) \in i .. Len(s)
  BY <1>1, UpToBounds
<1> QED
  BY <1>1, <1>2, <1>3, <1>4 DEF LexemeEnd

-----------------------------------------------------------------------------
LoopStates == [inside : {"none", "line", "block"} \cup Quotes, skip : BOOLEAN]

LEMMA LoopGoesOn ==
  ASSUME NEW s \in Seq(Characters)
  PROVE  /\ Loop(s) \in [0 .. Len(s) -> LoopStates]
         /\ Loop(s)[0] = Inside("none", FALSE)
         /\ \A i \in 1 .. Len(s) : Loop(s)[i] = Turn(s, i, Loop(s)[i - 1])
<1> DEFINE n == Len(s)
           first == Inside("none", FALSE)
           Rule(f) == f = [i \in 0 .. n |-> IF i = 0 THEN first ELSE Turn(s, i, f[i - 1])]
<1>1. n \in Nat /\ first \in LoopStates
  BY LenProperties DEF LoopStates, Inside
<1>2. \A a \in LoopStates, i \in 1 .. n : Turn(s, i, a) \in LoopStates
  BY DEF LoopStates, Inside, Turn, Step, Opening
<1> HIDE DEF n, first
<1> DEFINE F == [v \in LoopStates \X (1 .. n) |-> Turn(s, v[2], v[1])]
<1>3. F \in [LoopStates \X (1 .. n) -> LoopStates]
  BY <1>2
<1>4. \A a \in LoopStates, i \in 1 .. n : F[<<a, i>>] = Turn(s, i, a)
  OBVIOUS
<1> HIDE DEF F
<1>5. PICK f \in [0 .. n -> LoopStates] : Recursive(f, n, first, F)
  BY <1>1, <1>3, RecursionExists, Zenon
<1>6. \A i \in 1 .. n : f[i] = Turn(s, i, f[i - 1])
  <2> SUFFICES ASSUME NEW i \in 1 .. n PROVE f[i] = Turn(s, i, f[i - 1])
    OBVIOUS
  <2>1. f[i - 1] \in LoopStates
    BY <1>1
  <2> QED
    BY <1>4, <1>5, <2>1 DEF Recursive
<1>7. Rule(f)
  BY <1>1, <1>5, <1>6 DEF Recursive
<1>8. Loop(s) = CHOOSE g : Rule(g)
  BY DEF Loop, n, first
<1> HIDE DEF Rule
<1>9. Rule(Loop(s))
  BY <1>7, <1>8
<1>10. DOMAIN Loop(s) = 0 .. n /\ Loop(s)[0] = first /\ \A i \in 1 .. n : Loop(s)[i] = Turn(s, i, Loop(s)[i - 1])
  BY <1>1, <1>9 DEF Rule
<1>11. \A i \in 0 .. n : Loop(s)[i] \in LoopStates
  <2>1. \A i \in 1 .. n : Loop(s)[i - 1] \in LoopStates => Loop(s)[i] \in LoopStates
    BY <1>2, <1>10
  <2> QED
    BY <1>1, <1>10, <2>1, StaysIn
<1>12. Loop(s) = [i \in 0 .. n |-> Loop(s)[i]]
  BY <1>9 DEF Rule
<1> QED
  BY <1>1, <1>10, <1>11, <1>12 DEF n, first

LEMMA FollowingGoesOn ==
  ASSUME NEW s \in Seq(Characters)
  PROVE  /\ Following(s) \in [0 .. Len(s) -> Nat]
         /\ Following(s)[0] = 1
         /\ \A i \in 1 .. Len(s) : Following(s)[i] = Follow(s, i, Following(s)[i - 1])
<1> DEFINE n == Len(s)
           Rule(f) == f = [i \in 0 .. n |-> IF i = 0 THEN 1 ELSE Follow(s, i, f[i - 1])]
<1>1. n \in Nat /\ 1 \in Nat
  BY CharactersOf
<1>2. \A a \in Nat, i \in 1 .. n : Follow(s, i, a) \in Nat
  <2> SUFFICES ASSUME NEW a \in Nat, NEW i \in 1 .. n PROVE Follow(s, i, a) \in Nat
    OBVIOUS
  <2>1. LexemeEnd(s, i) \in i .. Len(s)
    BY LexemeBounds
  <2> QED
    BY <1>1, <2>1 DEF Follow
<1> HIDE DEF n
<1> DEFINE F == [v \in Nat \X (1 .. n) |-> Follow(s, v[2], v[1])]
<1>3. F \in [Nat \X (1 .. n) -> Nat]
  BY <1>2
<1>4. \A a \in Nat, i \in 1 .. n : F[<<a, i>>] = Follow(s, i, a)
  OBVIOUS
<1> HIDE DEF F
<1>5. PICK f \in [0 .. n -> Nat] : Recursive(f, n, 1, F)
  BY <1>1, <1>3, RecursionExists, Zenon
<1>6. \A i \in 1 .. n : f[i] = Follow(s, i, f[i - 1])
  <2> SUFFICES ASSUME NEW i \in 1 .. n PROVE f[i] = Follow(s, i, f[i - 1])
    OBVIOUS
  <2>1. f[i - 1] \in Nat
    BY <1>1
  <2> QED
    BY <1>4, <1>5, <2>1 DEF Recursive
<1>7. Rule(f)
  BY <1>1, <1>5, <1>6 DEF Recursive
<1>8. Following(s) = CHOOSE g : Rule(g)
  BY DEF Following, n
<1> HIDE DEF Rule
<1>9. Rule(Following(s))
  BY <1>7, <1>8
<1>10. Following(s)[0] = 1 /\ \A i \in 1 .. n : Following(s)[i] = Follow(s, i, Following(s)[i - 1])
  BY <1>1, <1>9 DEF Rule
<1>11. \A i \in 0 .. n : Following(s)[i] \in Nat
  <2>1. \A i \in 1 .. n : Following(s)[i - 1] \in Nat => Following(s)[i] \in Nat
    BY <1>2, <1>10
  <2> QED
    BY <1>1, <1>10, <2>1, StaysIn
<1>12. Following(s) = [i \in 0 .. n |-> Following(s)[i]]
  BY <1>9 DEF Rule
<1> QED
  BY <1>1, <1>10, <1>11, <1>12 DEF n

LEMMA ReplacedGoesOn ==
  ASSUME NEW s \in Seq(Characters)
  PROVE  /\ Replaced(s) \in [0 .. Len(s) -> Nat]
         /\ Replaced(s)[0] = 0
         /\ \A i \in 1 .. Len(s) : Replaced(s)[i] = Replace(s, i, Replaced(s)[i - 1])
<1> DEFINE n == Len(s)
           Rule(f) == f = [i \in 0 .. n |-> IF i = 0 THEN 0 ELSE Replace(s, i, f[i - 1])]
<1>1. n \in Nat /\ 0 \in Nat
  BY CharactersOf
<1>2. \A a \in Nat, i \in 1 .. n : Replace(s, i, a) \in Nat
  <2> SUFFICES ASSUME NEW a \in Nat, NEW i \in 1 .. n, Closings(s, i + 2) # {}
               PROVE  First(Closings(s, i + 2)) + 1 \in Nat
    BY DEF Replace
  <2>1. Closings(s, i + 2) \in SUBSET Nat
    BY <1>1 DEF Closings
  <2> QED
    BY <2>1, FirstIsLeast
<1> HIDE DEF n
<1> DEFINE F == [v \in Nat \X (1 .. n) |-> Replace(s, v[2], v[1])]
<1>3. F \in [Nat \X (1 .. n) -> Nat]
  BY <1>2
<1>4. \A a \in Nat, i \in 1 .. n : F[<<a, i>>] = Replace(s, i, a)
  OBVIOUS
<1> HIDE DEF F
<1>5. PICK f \in [0 .. n -> Nat] : Recursive(f, n, 0, F)
  BY <1>1, <1>3, RecursionExists, Zenon
<1>6. \A i \in 1 .. n : f[i] = Replace(s, i, f[i - 1])
  <2> SUFFICES ASSUME NEW i \in 1 .. n PROVE f[i] = Replace(s, i, f[i - 1])
    OBVIOUS
  <2>1. f[i - 1] \in Nat
    BY <1>1
  <2> QED
    BY <1>4, <1>5, <2>1 DEF Recursive
<1>7. Rule(f)
  BY <1>1, <1>5, <1>6 DEF Recursive
<1>8. Replaced(s) = CHOOSE g : Rule(g)
  BY DEF Replaced, n
<1> HIDE DEF Rule
<1>9. Rule(Replaced(s))
  BY <1>7, <1>8
<1>10. Replaced(s)[0] = 0 /\ \A i \in 1 .. n : Replaced(s)[i] = Replace(s, i, Replaced(s)[i - 1])
  BY <1>1, <1>9 DEF Rule
<1>11. \A i \in 0 .. n : Replaced(s)[i] \in Nat
  <2>1. \A i \in 1 .. n : Replaced(s)[i - 1] \in Nat => Replaced(s)[i] \in Nat
    BY <1>2, <1>10
  <2> QED
    BY <1>1, <1>10, <2>1, StaysIn
<1>12. Replaced(s) = [i \in 0 .. n |-> Replaced(s)[i]]
  BY <1>9 DEF Rule
<1> QED
  BY <1>1, <1>10, <1>11, <1>12 DEF n

-----------------------------------------------------------------------------
(* The loop meets the lexemes *)

\* Where the next lexeme begins, as the loop's state in front of position k tells.
Resume(s, k, at) ==
  IF at.inside = "none" THEN IF at.skip THEN k + 1 ELSE k
  ELSE IF at.inside = "line" THEN UpTo(s, Occurrences(s, IF at.skip THEN k + 1 ELSE k, "newline"), 0) + 1
  ELSE IF at.inside = "block" THEN UpTo(s, Closings(s, IF at.skip THEN k + 1 ELSE k), 1) + 1
  ELSE IF at.skip THEN k
  ELSE UpTo(s, Occurrences(s, k, at.inside), 0) + 1

\* The character that the loop has taken with the one before.
Taken(inside) ==
  IF inside = "none" THEN "/" ELSE IF inside = "line" THEN "-" ELSE IF inside = "block" THEN "*" ELSE inside

InStep(s, i, at, next) == next = Resume(s, i + 1, at) /\ (at.skip => Has(s, i + 1, Taken(at.inside)))

LEMMA TurnKeepsStep ==
  ASSUME NEW s \in Seq(Characters), NEW k \in 1 .. Len(s), NEW at \in LoopStates, NEW next \in Nat,
         InStep(s, k - 1, at, next)
  PROVE  InStep(s, k, Turn(s, k, at), Follow(s, k, next))
<1>1. Len(s) \in Nat /\ k \in Nat /\ k <= Len(s) /\ k + 1 \in Nat /\ (k - 1) + 1 = k /\ k <= k + 1
      /\ s[k] \in Characters
  BY CharactersOf
<1>2. next = Resume(s, k, at) /\ (at.skip => Has(s, k, Taken(at.inside)))
  BY <1>1 DEF InStep
<1>3. at.inside \in {"none", "line", "block"} \cup Quotes /\ at.skip \in BOOLEAN
  BY DEF LoopStates
<1>4. \A ch : UpTo(s, Occurrences(s, k + 1, ch), 0) \in k .. Len(s)
  BY <1>1, UpToBounds
<1>5. UpTo(s, Closings(s, k + 1), 1) \in k .. Len(s)
  BY <1>1, UpToBounds
<1>6. CASE at.skip
  <2>1. Turn(s, k, at) = Inside(at.inside, FALSE) /\ Has(s, k, Taken(at.inside))
    BY <1>2, <1>6 DEF Turn
  <2>2. CASE at.inside = "none"
    <3>1. next = k + 1
      BY <1>2, <1>6, <2>2 DEF Resume
    <3>2. Follow(s, k, next) = k + 1
      BY <1>1, <3>1 DEF Follow
    <3> QED
      BY <2>1, <2>2, <3>2 DEF InStep, Resume, Inside
  <2>3. CASE at.inside = "line"
    <3>1. next = UpTo(s, Occurrences(s, k + 1, "newline"), 0) + 1
      BY <1>2, <1>6, <2>3 DEF Resume
    <3>2. k < next
      BY <1>1, <1>4, <3>1
    <3>3. Follow(s, k, next) = next
      BY <3>2 DEF Follow
    <3> QED
      BY <2>1, <2>3, <3>1, <3>3 DEF InStep, Resume, Inside
  <2>4. CASE at.inside = "block"
    <3>1. next = UpTo(s, Closings(s, k + 1), 1) + 1
      BY <1>2, <1>6, <2>4 DEF Resume
    <3>2. k < next
      BY <1>1, <1>5, <3>1
    <3>3. Follow(s, k, next) = next
      BY <3>2 DEF Follow
    <3> QED
      BY <2>1, <2>4, <3>1, <3>3 DEF InStep, Resume, Inside
  <2>5. CASE at.inside \in Quotes
    <3>1. at.inside \notin {"none", "line", "block"} /\ s[k] = at.inside
      BY <2>1, <2>5 DEF Taken, Has, Quotes
    <3>2. next = k
      BY <1>2, <1>6, <3>1 DEF Resume
    <3>3. ~Pair(s, k, "-", "-") /\ ~Pair(s, k, "/", "*")
      BY <2>5, <3>1 DEF Pair, Has, Quotes
    <3>4. Follow(s, k, next) = UpTo(s, Occurrences(s, k + 1, at.inside), 0) + 1
      BY <1>1, <2>5, <3>1, <3>2, <3>3 DEF Follow, LexemeEnd
    <3> QED
      BY <2>1, <3>1, <3>4 DEF InStep, Resume, Inside
  <2> QED
    BY <1>3, <2>2, <2>3, <2>4, <2>5
<1>7. CASE ~at.skip
  <2>1. Turn(s, k, at) = Step(s, k, at.inside)
    BY <1>7 DEF Turn
  <2>2. CASE at.inside = "none"
    <3>1. next = k /\ Follow(s, k, next) = LexemeEnd(s, k) + 1
      BY <1>1, <1>2, <1>7, <2>2 DEF Resume, Follow
    <3>2. CASE Pair(s, k, "-", "-")
      <4>1. Turn(s, k, at) = Inside("line", TRUE)
        BY <2>1, <2>2, <3>2 DEF Step, Opening
      <4>2. LexemeEnd(s, k) = UpTo(s, Occurrences(s, (k + 1) + 1, "newline"), 0)
        BY <1>1, <3>2 DEF LexemeEnd
      <4>3. Has(s, k + 1, "-")
        BY <3>2 DEF Pair
      <4> QED
        BY <3>1, <4>1, <4>2, <4>3 DEF InStep, Resume, Inside, Taken
    <3>3. CASE ~Pair(s, k, "-", "-") /\ Pair(s, k, "/", "*")
      <4>1. Turn(s, k, at) = Inside("block", TRUE)
        BY <2>1, <2>2, <3>3 DEF Step, Opening
      <4>2. LexemeEnd(s, k) = UpTo(s, Closings(s, (k + 1) + 1), 1)
        BY <1>1, <3>3 DEF LexemeEnd
      <4>3. Has(s, k + 1, "*")
        BY <3>3 DEF Pair
      <4> QED
        BY <3>1, <4>1, <4>2, <4>3 DEF InStep, Resume, Inside, Taken
    <3>4. CASE ~Pair(s, k, "-", "-") /\ ~Pair(s, k, "/", "*") /\ s[k] \in Quotes
      <4>1. Turn(s, k, at) = Inside(s[k], FALSE) /\ s[k] \notin {"none", "line", "block"}
        BY <2>1, <2>2, <3>4 DEF Step, Quotes
      <4>2. LexemeEnd(s, k) = UpTo(s, Occurrences(s, k + 1, s[k]), 0)
        BY <3>4 DEF LexemeEnd
      <4> QED
        BY <3>1, <4>1, <4>2 DEF InStep, Resume, Inside
    <3>5. CASE ~Pair(s, k, "-", "-") /\ ~Pair(s, k, "/", "*") /\ s[k] \notin Quotes
      <4>1. Turn(s, k, at) = Inside("none", FALSE)
        BY <2>1, <2>2, <3>5 DEF Step
      <4>2. LexemeEnd(s, k) = k
        BY <3>5 DEF LexemeEnd
      <4> QED
        BY <3>1, <4>1, <4>2 DEF InStep, Resume, Inside
    <3> QED
      BY <3>2, <3>3, <3>4, <3>5
  <2>3. CASE at.inside = "line"
    <3>1. next = UpTo(s, Occurrences(s, k, "newline"), 0) + 1
      BY <1>2, <1>7, <2>3 DEF Resume
    <3>2. CASE s[k] = "newline"
      <4>1. Turn(s, k, at) = Inside("none", FALSE)
        BY <2>1, <2>3, <3>2 DEF Step
      <4>2. next = k + 1
        BY <1>1, <3>1, <3>2, RightHere
      <4> QED
        BY <1>1, <4>1, <4>2 DEF InStep, Resume, Inside, Follow
    <3>3. CASE s[k] # "newline"
      <4>1. Turn(s, k, at) = Inside("line", FALSE)
        BY <2>1, <2>3, <3>3 DEF Step
      <4>2. next = UpTo(s, Occurrences(s, k + 1, "newline"), 0) + 1
        BY <3>1, <3>3, FurtherOn
      <4>3. Follow(s, k, next) = next
        BY <1>1, <1>4, <4>2 DEF Follow
      <4> QED
        BY <4>1, <4>2, <4>3 DEF InStep, Resume, Inside
    <3> QED
      BY <3>2, <3>3
  <2>4. CASE at.inside = "block"
    <3>1. next = UpTo(s, Closings(s, k), 1) + 1
      BY <1>2, <1>7, <2>4 DEF Resume
    <3>2. CASE Pair(s, k, "*", "/")
      <4>1. Turn(s, k, at) = Inside("none", TRUE) /\ Has(s, k + 1, "/")
        BY <2>1, <2>4, <3>2 DEF Step, Pair
      <4>2. next = (k + 1) + 1
        BY <1>1, <3>1, <3>2, RightHere
      <4>3. Follow(s, k, next) = next
        BY <1>1, <4>2 DEF Follow
      <4> QED
        BY <4>1, <4>2, <4>3 DEF InStep, Resume, Inside, Taken
    <3>3. CASE ~Pair(s, k, "*", "/")
      <4>1. Turn(s, k, at) = Inside("block", FALSE)
        BY <2>1, <2>4, <3>3 DEF Step
      <4>2. next = UpTo(s, Closings(s, k + 1), 1) + 1
        BY <3>1, <3>3, FurtherOn
      <4>3. Follow(s, k, next) = next
        BY <1>1, <1>5, <4>2 DEF Follow
      <4> QED
        BY <4>1, <4>2, <4>3 DEF InStep, Resume, Inside
    <3> QED
      BY <3>2, <3>3
  <2>5. CASE at.inside \in Quotes
    <3>1. at.inside \notin {"none", "line", "block"}
      BY <2>5 DEF Quotes
    <3>2. next = UpTo(s, Occurrences(s, k, at.inside), 0) + 1
      BY <1>2, <1>7, <3>1 DEF Resume
    <3>3. CASE s[k] = at.inside
      <4>1. next = k + 1 /\ Follow(s, k, next) = k + 1
        BY <1>1, <3>2, <3>3, RightHere DEF Follow
      <4>2. CASE Has(s, k + 1, s[k])
        <5>1. Turn(s, k, at) = Inside(at.inside, TRUE)
          BY <2>1, <2>5, <3>1, <3>3, <4>2 DEF Step
        <5> QED
          BY <3>1, <3>3, <4>1, <4>2, <5>1 DEF InStep, Resume, Inside, Taken
      <4>3. CASE ~Has(s, k + 1, s[k])
        <5>1. Turn(s, k, at) = Inside("none", FALSE)
          BY <2>1, <2>5, <3>1, <3>3, <4>3 DEF Step
        <5> QED
          BY <4>1, <5>1 DEF InStep, Resume, Inside
      <4> QED
        BY <4>2, <4>3
    <3>4. CASE s[k] # at.inside
      <4>1. Turn(s, k, at) = Inside(at.inside, FALSE)
        BY <2>1, <2>5, <3>1, <3>4 DEF Step
      <4>2. next = UpTo(s, Occurrences(s, k + 1, at.inside), 0) + 1
        BY <3>2, <3>4, FurtherOn
      <4>3. Follow(s, k, next) = next
        BY <1>1, <1>4, <4>2 DEF Follow
      <4> QED
        BY <3>1, <4>1, <4>2, <4>3 DEF InStep, Resume, Inside
    <3> QED
      BY <3>3, <3>4
  <2> QED
    BY <1>3, <2>2, <2>3, <2>4, <2>5
<1> QED
  BY <1>6, <1>7

LEMMA LoopKeepsStep ==
  ASSUME NEW s \in Seq(Characters)
  PROVE  \A i \in 0 .. Len(s) : InStep(s, i, Loop(s)[i], Following(s)[i])
<1> DEFINE T == {i \in 0 .. Len(s) : InStep(s, i, Loop(s)[i], Following(s)[i])}
<1>1. Len(s) \in Nat
  BY CharactersOf
<1>2. 0 \in T
  <2>1. Loop(s)[0] = Inside("none", FALSE) /\ Following(s)[0] = 1
    BY LoopGoesOn, FollowingGoesOn
  <2> QED
    BY <1>1, <2>1 DEF InStep, Resume, Inside
<1>3. ASSUME NEW i \in 0 .. Len(s), i \in T, i < Len(s)
      PROVE  i + 1 \in T
  <2>1. i + 1 \in 1 .. Len(s) /\ i + 1 \in 0 .. Len(s) /\ (i + 1) - 1 = i
    BY <1>1, <1>3
  <2>2. Loop(s)[i] \in LoopStates /\ Following(s)[i] \in Nat
    BY LoopGoesOn, FollowingGoesOn
  <2>3. Loop(s)[i + 1] = Turn(s, i + 1, Loop(s)[i]) /\ Following(s)[i + 1] = Follow(s, i + 1, Following(s)[i])
    BY <2>1, LoopGoesOn, FollowingGoesOn
  <2>4. InStep(s, (i + 1) - 1, Loop(s)[i], Following(s)[i])
    BY <1>3, <2>1
  <2>5. InStep(s, i + 1, Turn(s, i + 1, Loop(s)[i]), Follow(s, i + 1, Following(s)[i]))
    BY <2>1, <2>2, <2>4, TurnKeepsStep
  <2> QED
    BY <2>1, <2>3, <2>5
<1> HIDE DEF T
<1>4. \A i \in 0 .. Len(s) : i \in T
  BY <1>1, <1>2, <1>3, UpTheNumbers
<1> QED
  BY <1>4 DEF T

\* The loop cuts at the semicolons that are lexemes, and at no other.
LEMMA CutsAreLexemes ==
  ASSUME NEW s \in Seq(Characters)
  PROVE  Cuts(s) = {i \in Lexemes(s) : s[i] = ";"}
<1>1. ASSUME NEW i \in 1 .. Len(s), s[i] = ";"
      PROVE  Loop(s)[i - 1] = Inside("none", FALSE) <=> Following(s)[i - 1] <= i
  <2> DEFINE at == Loop(s)[i - 1]
             next == Following(s)[i - 1]
  <2>1. i - 1 \in 0 .. Len(s) /\ (i - 1) + 1 = i /\ Len(s) \in Nat /\ i \in Nat /\ i <= Len(s)
        /\ i + 1 \in Nat /\ i <= i + 1
    BY CharactersOf
  <2>2. at \in LoopStates /\ next \in Nat /\ InStep(s, i - 1, at, next)
    BY <2>1, LoopKeepsStep, LoopGoesOn, FollowingGoesOn
  <2> HIDE DEF at, next
  <2>3. next = Resume(s, i, at) /\ (at.skip => Has(s, i, Taken(at.inside)))
    BY <2>1, <2>2 DEF InStep
  <2>4. at.inside \in {"none", "line", "block"} \cup Quotes /\ at.skip \in BOOLEAN
        /\ at = [inside |-> at.inside, skip |-> at.skip]
    BY <2>2 DEF LoopStates
  <2> SUFFICES at = Inside("none", FALSE) <=> next <= i
    BY DEF at, next
  <2>5. ~at.skip
    BY <1>1, <2>3, <2>4 DEF Has, Taken, Quotes
  <2>6. CASE at.inside = "none"
    <3>1. next = i
      BY <2>3, <2>5, <2>6 DEF Resume
    <3>2. at = Inside("none", FALSE)
      BY <2>4, <2>5, <2>6 DEF Inside
    <3> QED
      BY <2>1, <3>1, <3>2
  <2>7. CASE at.inside # "none"
    <3>1. \A ch : UpTo(s, Occurrences(s, i, ch), 0) \in i .. Len(s)
      BY <2>1, UpToBounds
    <3>2. UpTo(s, Closings(s, i), 1) \in i .. Len(s)
      BY <2>1, UpToBounds
    <3>3. next > i
      BY <2>1, <2>3, <2>5, <2>7, <3>1, <3>2 DEF Resume
    <3>4. at # Inside("none", FALSE)
      BY <2>7 DEF Inside
    <3>5. ~(next <= i)
      BY <2>1, <2>2, <3>3
    <3> QED
      BY <3>4, <3>5
  <2> QED
    BY <2>6, <2>7
<1> QED
  BY <1>1 DEF Cuts, Lexemes

-----------------------------------------------------------------------------
(* What normalizeSql leaves *)

\* The lexeme that begins at c reaches to its end, and no other begins in it.
LEMMA LexemeReaches ==
  ASSUME NEW s \in Seq(Characters), NEW c \in Lexemes(s)
  PROVE  /\ c \in 1 .. Len(s) /\ LexemeEnd(s, c) \in c .. Len(s)
         /\ \A i \in c .. LexemeEnd(s, c) : Following(s)[i] = LexemeEnd(s, c) + 1
         /\ \A i \in (c + 1) .. LexemeEnd(s, c) : i \notin Lexemes(s)
<1> DEFINE e == LexemeEnd(s, c)
           next == Following(s)
           T == {i \in 0 .. (e - c) : next[c + i] = e + 1}
<1>1. c \in 1 .. Len(s) /\ Len(s) \in Nat /\ e \in c .. Len(s) /\ next[c - 1] <= c
  BY CharactersOf, LexemeBounds DEF Lexemes
<1>2. \A i \in 1 .. Len(s) : next[i] = Follow(s, i, next[i - 1]) /\ next[i] \in Nat /\ next[i - 1] \in Nat
  <2>1. \A i \in 1 .. Len(s) : i - 1 \in 0 .. Len(s) /\ i \in 0 .. Len(s)
    BY <1>1
  <2> QED
    BY <2>1, FollowingGoesOn
<1> HIDE DEF e, next
<1>3. 0 \in T
  <2>1. ~(c < next[c - 1])
    BY <1>1, <1>2
  <2>2. next[c] = e + 1
    BY <1>1, <1>2, <2>1 DEF Follow, e
  <2> QED
    BY <1>1, <2>2
<1>4. ASSUME NEW i \in 0 .. (e - c), i \in T, i < e - c
      PROVE  i + 1 \in T
  <2>1. i + 1 \in 0 .. (e - c) /\ c + (i + 1) \in 1 .. Len(s) /\ (c + (i + 1)) - 1 = c + i /\ c + (i + 1) < e + 1
    BY <1>1, <1>4
  <2>2. next[c + i] = e + 1
    BY <1>4
  <2>3. next[c + (i + 1)] = Follow(s, c + (i + 1), next[c + i])
    BY <1>2, <2>1
  <2>4. next[c + (i + 1)] = e + 1
    BY <2>1, <2>2, <2>3 DEF Follow
  <2> QED
    BY <2>1, <2>4
<1> HIDE DEF T
<1>5. e - c \in Nat
  BY <1>1
<1>6. \A i \in 0 .. (e - c) : i \in T
  BY <1>3, <1>4, <1>5, UpTheNumbers
<1>7. ASSUME NEW i \in c .. e
      PROVE  next[i] = e + 1
  <2>1. i - c \in 0 .. (e - c) /\ c + (i - c) = i
    BY <1>1
  <2> QED
    BY <1>6, <2>1 DEF T
<1>8. ASSUME NEW i \in (c + 1) .. e
      PROVE  i \notin Lexemes(s)
  <2>1. i - 1 \in c .. e /\ i < e + 1
    BY <1>1
  <2>2. next[i - 1] = e + 1
    BY <1>7, <2>1
  <2> QED
    BY <1>1, <2>1, <2>2 DEF Lexemes, next
<1> QED
  BY <1>1, <1>7, <1>8 DEF e, next

\* Each character is of a lexeme.
LEMMA LexemeOf ==
  ASSUME NEW s \in Seq(Characters)
  PROVE  \A i \in 1 .. Len(s) : \E c \in Lexemes(s) : i \in c .. LexemeEnd(s, c)
<1> DEFINE P(i) == \E c \in Lexemes(s) : i \in c .. LexemeEnd(s, c)
           T == {i \in 0 .. Len(s) : i = 0 \/ P(i)}
<1>1. Len(s) \in Nat
  BY CharactersOf
<1>2. 0 \in T
  BY <1>1
<1>3. ASSUME NEW i \in 0 .. Len(s), i \in T, i < Len(s)
      PROVE  P(i + 1)
  <2>1. i + 1 \in 1 .. Len(s) /\ i \in Nat /\ (i + 1) - 1 = i
    BY <1>1, <1>3
  <2>2. ASSUME i + 1 \in Lexemes(s)
        PROVE  P(i + 1)
    <3>1. LexemeEnd(s, i + 1) \in (i + 1) .. Len(s)
      BY <2>1, LexemeBounds
    <3>2. i + 1 \in (i + 1) .. LexemeEnd(s, i + 1)
      BY <2>1, <3>1
    <3> QED
      BY <2>2, <3>2
  <2>3. CASE i = 0
    <3>1. Following(s)[(i + 1) - 1] <= i + 1
      BY <2>1, <2>3, FollowingGoesOn
    <3> QED
      BY <2>1, <2>2, <3>1 DEF Lexemes
  <2>4. CASE i # 0
    <3>1. PICK c \in Lexemes(s) : i \in c .. LexemeEnd(s, c)
      BY <1>3, <2>4
    <3>2. c \in 1 .. Len(s) /\ LexemeEnd(s, c) \in c .. Len(s) /\ Following(s)[i] = LexemeEnd(s, c) + 1
      BY <3>1, LexemeReaches
    <3>3. CASE i < LexemeEnd(s, c)
      <4>1. i + 1 \in c .. LexemeEnd(s, c)
        BY <2>1, <3>1, <3>2, <3>3
      <4> QED
        BY <4>1
    <3>4. CASE ~(i < LexemeEnd(s, c))
      <4>1. Following(s)[(i + 1) - 1] <= i + 1
        BY <2>1, <3>1, <3>2, <3>4
      <4> QED
        BY <2>1, <2>2, <4>1 DEF Lexemes
    <3> QED
      BY <3>3, <3>4
  <2> QED
    BY <2>3, <2>4
<1>4. \A i \in 0 .. Len(s) : i \in T /\ i < Len(s) => i + 1 \in T
  <2> HIDE DEF P
  <2> QED
    BY <1>1, <1>3
<1> HIDE DEF T, P
<1>5. \A i \in 0 .. Len(s) : i \in T
  BY <1>1, <1>2, <1>4, UpTheNumbers
<1>6. \A i \in 1 .. Len(s) : P(i)
  BY <1>1, <1>5 DEF T
<1> QED
  BY <1>6 DEF P

\* A silent comment between slashes ends as the code finds it.
LEMMA SilentBlocks ==
  ASSUME NEW s \in Seq(Characters), NEW c \in 1 .. Len(s), ~Pair(s, c, "-", "-"), Pair(s, c, "/", "*")
  PROVE  Closed(s, c) <=> Closings(s, c + 2) # {}
<1>1. Len(s) \in Nat /\ c \in Nat
  BY CharactersOf
<1>2. LexemeEnd(s, c) = UpTo(s, Closings(s, c + 2), 1)
  BY DEF LexemeEnd
<1>3. Closings(s, c + 2) \in SUBSET Nat
  BY <1>1 DEF Closings
<1>4. CASE Closings(s, c + 2) # {}
  <2> DEFINE f == First(Closings(s, c + 2))
  <2>1. f \in Closings(s, c + 2)
    BY <1>3, <1>4, FirstIsLeast
  <2>2. f \in Nat /\ f >= c + 2 /\ Pair(s, f, "*", "/")
    BY <1>1, <2>1 DEF Closings
  <2>3. LexemeEnd(s, c) = f + 1
    BY <1>2, <1>4 DEF UpTo
  <2> HIDE DEF f
  <2>4. LexemeEnd(s, c) >= c + 3 /\ LexemeEnd(s, c) - 1 = f
    BY <1>1, <2>2, <2>3
  <2> QED
    BY <1>4, <2>2, <2>4 DEF Closed
<1>5. CASE Closings(s, c + 2) = {}
  <2>1. LexemeEnd(s, c) = Len(s)
    BY <1>2, <1>5 DEF UpTo
  <2>2. ~Pair(s, Len(s) - 1, "*", "/") \/ ~(Len(s) >= c + 3)
    BY <1>1, <1>5 DEF Closings
  <2> QED
    BY <1>5, <2>1, <2>2 DEF Closed
<1> QED
  BY <1>4, <1>5

\* While all lexemes are silent, and no comment to the end of a line misleads, normalizeSql
\* replaces the comments between slashes, and nothing else.
ReplacedRightly(s, i) ==
  \A c \in Lexemes(s) : i \in c .. LexemeEnd(s, c) =>
    IF Pair(s, c, "/", "*") THEN Replaced(s)[i] = LexemeEnd(s, c) ELSE Replaced(s)[i] < c

LEMMA ReplacesComments ==
  ASSUME NEW s \in Seq(Characters), ~Misleads(s), NEW b \in 0 .. Len(s),
         \A c \in Lexemes(s) : c <= b => Silent(s, c)
  PROVE  \A i \in 0 .. b : ReplacedRightly(s, i)
<1> DEFINE till == Replaced(s)
           T == {i \in 0 .. b : ReplacedRightly(s, i)}
<1>1. Len(s) \in Nat /\ b \in Nat /\ b <= Len(s)
  BY CharactersOf
<1>2. 0 \in T
  <2>1. \A c \in Lexemes(s) : 0 \notin c .. LexemeEnd(s, c)
    BY LexemeReaches
  <2> QED
    BY <1>1, <2>1 DEF ReplacedRightly
<1>3. ASSUME NEW i \in 0 .. b, ReplacedRightly(s, i), i < b
      PROVE  ReplacedRightly(s, i + 1)
  <2> SUFFICES ASSUME NEW c \in Lexemes(s), i + 1 \in c .. LexemeEnd(s, c)
               PROVE  IF Pair(s, c, "/", "*") THEN till[i + 1] = LexemeEnd(s, c) ELSE till[i + 1] < c
    BY DEF ReplacedRightly
  <2> DEFINE k == i + 1
             e == LexemeEnd(s, c)
  <2>1. /\ k \in 1 .. Len(s) /\ k <= b /\ k - 1 = i /\ i \in Nat
        /\ c \in 1 .. Len(s) /\ e \in c .. Len(s) /\ k \in c .. e
    BY <1>1, <1>3, LexemeReaches
  <2>2. till[k] = Replace(s, k, till[i]) /\ till[i] \in Nat
    <3>1. till[k] = Replace(s, k, till[k - 1])
      BY <2>1, ReplacedGoesOn
    <3>2. i \in 0 .. Len(s)
      BY <1>1
    <3> QED
      BY <2>1, <3>1, <3>2, ReplacedGoesOn
  <2>3. Silent(s, c)
    BY <2>1
  <2> HIDE DEF k, e, till
  <2>4. CASE k = c
    <3>1. till[i] < c
      <4>1. CASE i = 0
        BY <2>1, <4>1, ReplacedGoesOn DEF till
      <4>2. CASE i # 0
        <5>1. PICK d \in Lexemes(s) : i \in d .. LexemeEnd(s, d)
          BY <2>1, <4>2, LexemeOf
        <5>2. k \notin (d + 1) .. LexemeEnd(s, d) /\ d \in 1 .. Len(s) /\ LexemeEnd(s, d) \in d .. Len(s)
          BY <2>4, <5>1, LexemeReaches
        <5>3. LexemeEnd(s, d) < k /\ d < k
          BY <2>1, <5>1, <5>2
        <5>4. till[i] = LexemeEnd(s, d) \/ till[i] < d
          BY <1>3, <5>1 DEF ReplacedRightly, till
        <5> QED
          BY <2>1, <2>2, <2>4, <5>2, <5>3, <5>4
      <4> QED
        BY <4>1, <4>2
    <3>2. CASE Pair(s, c, "/", "*")
      <4>1. ~Pair(s, c, "-", "-") /\ s[c] # "newline"
        BY <3>2 DEF Pair, Has
      <4>2. Closings(s, c + 2) # {}
        BY <2>1, <2>3, <3>2, <4>1, SilentBlocks DEF Silent
      <4>3. till[k] = First(Closings(s, c + 2)) + 1
        BY <2>2, <2>4, <3>1, <3>2, <4>2 DEF Replace
      <4>4. e = First(Closings(s, c + 2)) + 1
        BY <3>2, <4>1, <4>2 DEF LexemeEnd, UpTo, e
      <4> QED
        BY <3>2, <4>3, <4>4 DEF k, e
    <3>3. CASE ~Pair(s, c, "/", "*")
      <4>1. till[k] = till[i]
        BY <2>2, <2>4, <3>3 DEF Replace
      <4> QED
        BY <3>1, <3>3, <4>1 DEF k
    <3> QED
      BY <3>2, <3>3
  <2>5. CASE k # c
    <3>1. i \in c .. e
      BY <2>1, <2>5
    <3>2. IF Pair(s, c, "/", "*") THEN till[i] = e ELSE till[i] < c
      BY <1>3, <3>1 DEF ReplacedRightly, till, e
    <3>3. till[k] = till[i]
      <4>1. CASE Pair(s, c, "/", "*")
        BY <2>1, <2>2, <3>2, <4>1 DEF Replace
      <4>2. CASE ~Pair(s, c, "/", "*")
        <5>1. Pair(s, c, "-", "-")
          <6>1. s[c] # "newline"
            <7> SUFFICES ASSUME s[c] = "newline" PROVE FALSE
              OBVIOUS
            <7>1. e = c
              BY DEF LexemeEnd, e, Pair, Has, Quotes
            <7> QED
              BY <2>1, <2>5, <7>1
          <6> QED
            BY <2>3, <4>2, <6>1 DEF Silent
        <5>2. ~Pair(s, k, "/", "*")
          <6>1. CASE k = c + 1
            BY <5>1, <6>1 DEF Pair, Has
          <6>2. CASE k # c + 1
            <7>1. k \in c + 2 .. LexemeEnd(s, c)
              BY <2>1, <2>5, <6>2 DEF e
            <7> QED
              BY <5>1, <7>1 DEF Misleads
          <6> QED
            BY <6>1, <6>2
        <5> QED
          BY <2>2, <5>2 DEF Replace
      <4> QED
        BY <4>1, <4>2
    <3> QED
      BY <3>2, <3>3 DEF k, e
  <2> QED
    BY <2>4, <2>5
<1>4. \A i \in 0 .. b : i \in T /\ i < b => i + 1 \in T
  BY <1>1, <1>3
<1> HIDE DEF T
<1>5. \A i \in 0 .. b : i \in T
  BY <1>1, <1>2, <1>4, UpTheNumbers
<1> QED
  BY <1>5 DEF T

\* Where the comments to the end of a line reach.
LEMMA LineComments ==
  ASSUME NEW s \in Seq(Characters), NEW c \in 1 .. Len(s), Pair(s, c, "-", "-")
  PROVE  /\ c + 1 \in c .. LexemeEnd(s, c) /\ c + 1 <= Len(s)
         /\ \A j \in c .. LexemeEnd(s, c) : s[j] = "newline" => j = LexemeEnd(s, c)
         /\ LexemeEnd(s, c) = Len(s) \/ s[LexemeEnd(s, c)] = "newline"
<1> DEFINE S == Occurrences(s, c + 2, "newline")
<1>1. Len(s) \in Nat /\ c \in Nat /\ c + 1 <= Len(s) /\ s[c] = "-" /\ s[c + 1] = "-"
  BY CharactersOf DEF Pair, Has
<1>2. LexemeEnd(s, c) = UpTo(s, S, 0)
  BY DEF LexemeEnd
<1>3. S \in SUBSET Nat
  BY <1>1 DEF Occurrences
<1>4. \A j \in c .. Len(s) : s[j] = "newline" => j \in S
  <2> SUFFICES ASSUME NEW j \in c .. Len(s), s[j] = "newline" PROVE j \in S
    OBVIOUS
  <2>1. j # c /\ j # c + 1
    BY <1>1
  <2>2. j \in c + 2 .. Len(s)
    BY <1>1, <2>1
  <2> QED
    BY <2>2 DEF Occurrences
<1>5. LexemeEnd(s, c) \in c .. Len(s)
  BY LexemeBounds
<1>6. CASE S = {}
  <2>1. LexemeEnd(s, c) = Len(s)
    BY <1>2, <1>6 DEF UpTo
  <2> HIDE DEF S
  <2> QED
    BY <1>1, <1>4, <1>6, <2>1
<1>7. CASE S # {}
  <2>1. First(S) \in S /\ \A y \in S : First(S) <= y
    BY <1>3, <1>7, FirstIsLeast
  <2>2. First(S) \in c + 2 .. Len(s) /\ s[First(S)] = "newline"
    BY <2>1 DEF Occurrences
  <2>3. LexemeEnd(s, c) = First(S)
    BY <1>1, <1>2, <1>7, <2>2 DEF UpTo
  <2> HIDE DEF S
  <2>4. ASSUME NEW j \in c .. LexemeEnd(s, c), s[j] = "newline"
        PROVE  j = LexemeEnd(s, c)
    <3>1. j \in S
      BY <1>1, <1>4, <1>5, <2>4
    <3>2. First(S) <= j /\ j <= First(S) /\ j \in Nat /\ First(S) \in Nat
      BY <1>1, <2>1, <2>2, <2>3, <2>4, <3>1
    <3> QED
      BY <2>3, <3>2
  <2>5. c + 1 \in c .. LexemeEnd(s, c)
    BY <1>1, <2>2, <2>3
  <2> QED
    BY <1>1, <2>2, <2>3, <2>4, <2>5
<1> QED
  BY <1>6, <1>7

\* Behind a lexeme that is no comment to the end of a line nothing of it is left, or it is
\* one character.
LEMMA SilenceIsBlank ==
  ASSUME NEW s \in Seq(Characters), ~Misleads(s), SaysNothing(s)
  PROVE  Blank(s)
<1> DEFINE left == {i \in 1 .. Len(s) : Replaced(s)[i] < i}
           dashes(i) == {i, i + 1} \subseteq left /\ Pair(s, i, "-", "-")
           ends == {i \in left : s[i] = "newline"}
<1>1. Len(s) \in Nat /\ Len(s) \in 0 .. Len(s)
  BY CharactersOf
<1>2. \A i \in 0 .. Len(s) : ReplacedRightly(s, i)
  <2>1. \A c \in Lexemes(s) : c <= Len(s) => Silent(s, c)
    BY DEF SaysNothing
  <2> QED
    BY <1>1, <2>1, ReplacesComments
<1>3. ASSUME NEW i \in left \ ends
      PROVE  \E j \in 1 .. i : dashes(j) /\ ends \cap (j .. i) = {}
  <2>1. i \in 1 .. Len(s) /\ i \in 0 .. Len(s) /\ i \in Nat /\ Replaced(s)[i] < i /\ s[i] # "newline"
    BY <1>1, <1>3
  <2>2. PICK c \in Lexemes(s) : i \in c .. LexemeEnd(s, c)
    BY <2>1, LexemeOf
  <2>3. c \in 1 .. Len(s) /\ LexemeEnd(s, c) \in c .. Len(s) /\ Silent(s, c)
    BY LexemeReaches DEF SaysNothing
  <2>4. ~Pair(s, c, "/", "*")
    <3> SUFFICES ASSUME Pair(s, c, "/", "*") PROVE FALSE
      OBVIOUS
    <3>1. Replaced(s)[i] = LexemeEnd(s, c)
      BY <1>2, <2>1, <2>2 DEF ReplacedRightly
    <3> QED
      BY <2>1, <2>2, <2>3, <3>1
  <2>5. s[c] # "newline"
    <3> SUFFICES ASSUME s[c] = "newline" PROVE FALSE
      OBVIOUS
    <3>1. LexemeEnd(s, c) = c
      BY DEF LexemeEnd, Pair, Has, Quotes
    <3> QED
      BY <2>1, <2>2, <2>3, <3>1
  <2>6. Pair(s, c, "-", "-")
    BY <2>3, <2>4, <2>5 DEF Silent
  <2>7. /\ c + 1 \in c .. LexemeEnd(s, c) /\ c + 1 <= Len(s) /\ c \in c .. LexemeEnd(s, c)
        /\ \A j \in c .. LexemeEnd(s, c) : s[j] = "newline" => j = LexemeEnd(s, c)
    BY <2>3, <2>6, LineComments
  <2>8. c \in left /\ c + 1 \in left
    <3>1. Replaced(s)[c] < c /\ Replaced(s)[c + 1] < c
      BY <1>1, <1>2, <2>3, <2>4, <2>7 DEF ReplacedRightly
    <3>2. c + 1 \in 0 .. Len(s) /\ c + 1 \in 1 .. Len(s)
      BY <1>1, <2>3, <2>7
    <3>3. Replaced(s)[c + 1] \in Nat
      BY <3>2, ReplacedGoesOn
    <3> QED
      BY <1>1, <2>3, <3>1, <3>2, <3>3
  <2>9. ends \cap (c .. i) = {}
    <3> SUFFICES ASSUME NEW j \in c .. i, s[j] = "newline" PROVE FALSE
      OBVIOUS
    <3>1. j \in c .. LexemeEnd(s, c)
      BY <2>1, <2>2, <2>3
    <3>2. j = LexemeEnd(s, c)
      BY <2>7, <3>1
    <3>3. j = i
      BY <2>1, <2>2, <2>3, <3>2
    <3> QED
      BY <2>1, <3>3
  <2>10. c \in 1 .. i
    BY <2>1, <2>2, <2>3
  <2> QED
    BY <2>6, <2>8, <2>9, <2>10
<1> QED
  BY <1>3 DEF Blank

\* What says something is left where the first lexeme begins that does.
LEMMA BlankIsSilence ==
  ASSUME NEW s \in Seq(Characters), ~Misleads(s), ~SaysNothing(s)
  PROVE  ~Blank(s)
<1> DEFINE left == {i \in 1 .. Len(s) : Replaced(s)[i] < i}
           dashes(i) == {i, i + 1} \subseteq left /\ Pair(s, i, "-", "-")
           ends == {i \in left : s[i] = "newline"}
           loud == {c \in Lexemes(s) : ~Silent(s, c)}
<1>1. Len(s) \in Nat
  BY CharactersOf
<1>2. loud # {} /\ loud \in SUBSET Nat
  BY <1>1 DEF SaysNothing, Lexemes
<1>3. PICK b \in loud : \A c \in loud : b <= c
  BY <1>2, LeastExists
<1>4. b \in Lexemes(s) /\ ~Silent(s, b) /\ b \in 1 .. Len(s) /\ b \in Nat /\ Following(s)[b - 1] <= b
      /\ b - 1 \in 0 .. Len(s)
  BY <1>1 DEF Lexemes
<1>5. \A c \in Lexemes(s) : c <= b - 1 => Silent(s, c)
  <2> SUFFICES ASSUME NEW c \in Lexemes(s), c <= b - 1, ~Silent(s, c) PROVE FALSE
    OBVIOUS
  <2>1. b <= c /\ c \in Nat
    BY <1>1, <1>3 DEF Lexemes
  <2> QED
    BY <1>4, <2>1
<1>6. \A i \in 0 .. b - 1 : ReplacedRightly(s, i)
  BY <1>4, <1>5, ReplacesComments
\* A lexeme before b ends before b.
<1>7. ASSUME NEW c \in Lexemes(s), c < b
      PROVE  LexemeEnd(s, c) < b /\ c \in 1 .. Len(s) /\ LexemeEnd(s, c) \in c .. Len(s)
  <2>1. b \notin (c + 1) .. LexemeEnd(s, c) /\ c \in 1 .. Len(s) /\ LexemeEnd(s, c) \in c .. Len(s)
    BY <1>4, LexemeReaches
  <2> QED
    BY <1>4, <1>7, <2>1
<1>8. Replaced(s)[b - 1] < b
  <2>1. CASE b = 1
    BY <2>1, ReplacedGoesOn
  <2>2. CASE b # 1
    <3>1. b - 1 \in 1 .. Len(s) /\ b - 1 \in 0 .. b - 1 /\ b - 1 \in Nat
      BY <1>1, <1>4, <2>2
    <3>2. PICK c \in Lexemes(s) : b - 1 \in c .. LexemeEnd(s, c)
      BY <3>1, LexemeOf
    <3>3. c \in 1 .. Len(s) /\ LexemeEnd(s, c) \in c .. Len(s)
      BY LexemeReaches
    <3>4. c < b
      BY <1>4, <3>2, <3>3
    <3>5. LexemeEnd(s, c) < b
      BY <1>7, <3>4
    <3>6. Replaced(s)[b - 1] = LexemeEnd(s, c) \/ Replaced(s)[b - 1] < c
      BY <1>6, <3>1, <3>2 DEF ReplacedRightly
    <3>7. Replaced(s)[b - 1] \in Nat
      BY <1>4, ReplacedGoesOn
    <3> QED
      BY <1>4, <3>3, <3>4, <3>5, <3>6, <3>7
  <2> QED
    BY <2>1, <2>2
<1>9. s[b] # "newline" /\ ~Pair(s, b, "-", "-") /\ (Pair(s, b, "/", "*") => Closings(s, b + 2) = {})
  BY <1>4, SilentBlocks DEF Silent
<1>10. Replaced(s)[b] < b
  <2>1. Replaced(s)[b] = Replace(s, b, Replaced(s)[b - 1])
    BY <1>4, ReplacedGoesOn
  <2> QED
    BY <1>8, <1>9, <2>1 DEF Replace
<1>11. b \in left \ ends
  BY <1>4, <1>9, <1>10
<1>12. ASSUME NEW j \in 1 .. b, dashes(j), ends \cap (j .. b) = {}
       PROVE  FALSE
  <2>1. j # b /\ j \in 1 .. Len(s) /\ j < b /\ j \in Nat /\ j \in 0 .. b - 1
    BY <1>1, <1>4, <1>9, <1>12
  <2>2. PICK c \in Lexemes(s) : j \in c .. LexemeEnd(s, c)
    BY <2>1, LexemeOf
  <2>3. c \in 1 .. Len(s) /\ LexemeEnd(s, c) \in c .. Len(s)
    BY LexemeReaches
  <2>4. c < b /\ LexemeEnd(s, c) < b /\ Silent(s, c)
    <3>1. c < b /\ c <= b - 1
      BY <1>4, <2>1, <2>2, <2>3
    <3> QED
      BY <1>5, <1>7, <3>1
  <2>5. ~Pair(s, c, "/", "*")
    <3> SUFFICES ASSUME Pair(s, c, "/", "*") PROVE FALSE
      OBVIOUS
    <3>1. Replaced(s)[j] = LexemeEnd(s, c) /\ Replaced(s)[j] < j
      BY <1>6, <1>12, <2>1, <2>2 DEF ReplacedRightly
    <3> QED
      BY <2>1, <2>2, <2>3, <3>1
  <2>6. s[c] # "newline"
    <3> SUFFICES ASSUME s[c] = "newline" PROVE FALSE
      OBVIOUS
    <3>1. LexemeEnd(s, c) = c
      BY DEF LexemeEnd, Pair, Has, Quotes
    <3>2. j = c
      BY <2>1, <2>2, <2>3, <3>1
    <3> QED
      BY <1>12, <3>2 DEF Pair, Has
  <2>7. Pair(s, c, "-", "-")
    BY <2>4, <2>5, <2>6 DEF Silent
  <2> DEFINE e == LexemeEnd(s, c)
  <2>8. s[e] = "newline"
    <3>1. e # Len(s)
      BY <1>1, <1>4, <2>3, <2>4
    <3> QED
      BY <2>3, <2>7, <3>1, LineComments
  <2>9. e \in 1 .. Len(s) /\ e \in j .. b /\ e \in 0 .. b - 1 /\ e \in c .. LexemeEnd(s, c)
    BY <1>1, <1>4, <2>1, <2>2, <2>3, <2>4
  <2>10. Replaced(s)[e] < c
    BY <1>6, <2>5, <2>9 DEF ReplacedRightly
  <2>11. e \in left
    <3>1. Replaced(s)[e] \in Nat
      BY <2>9, ReplacedGoesOn
    <3> QED
      BY <2>3, <2>9, <2>10, <3>1
  <2> QED
    BY <1>12, <2>8, <2>9, <2>11
<1> QED
  BY <1>11, <1>12 DEF Blank

-----------------------------------------------------------------------------
\* The text is made of the characters.
LEMMA TextTyped == TextSpec => [](text \in Seq(Characters))
<1>1. TextInit => text \in Seq(Characters)
  BY DEF TextInit
<1>2. text \in Seq(Characters) /\ [TextNext]_text => (text \in Seq(Characters))'
  <2> SUFFICES ASSUME text \in Seq(Characters), [TextNext]_text PROVE text' \in Seq(Characters)
    OBVIOUS
  <2>1. CASE UNCHANGED text
    BY <2>1
  <2>2. CASE TextNext
    <3>1. PICK ch \in Characters : text' = Append(text, ch)
      BY <2>2 DEF TextNext, Type
    <3> QED
      BY <3>1, AppendProperties
  <2> QED
    BY <2>1, <2>2
<1> QED
  BY <1>1, <1>2, PTL DEF TextSpec

LEMMA PieceBounds ==
  ASSUME Len(text) \in Nat, NEW cuts \in SUBSET (1 .. Len(text)), NEW p \in Pieces(cuts)
  PROVE  p[1] \in Int /\ p[2] \in Int /\ p[1] >= 1 /\ p[2] <= Len(text)
<1> DEFINE n == Len(text)
           marks == {0, n + 1} \cup cuts
<1>1. n \in Nat
  OBVIOUS
<1>2. \E m \in marks \X marks : p = <<m[1] + 1, m[2] - 1>>
  BY DEF Pieces
<1>3. cuts \in SUBSET (1 .. n)
  OBVIOUS
<1> HIDE DEF n
<1>4. \A m \in marks : m \in 0 .. n + 1
  BY <1>1, <1>3
<1> HIDE DEF marks
<1>5. PICK a \in marks, z \in marks : p = <<a + 1, z - 1>>
  BY <1>2
<1>6. a \in 0 .. n + 1 /\ z \in 0 .. n + 1
  BY <1>4
<1>7. p[1] = a + 1 /\ p[2] = z - 1
  BY <1>5
<1>8. p[1] \in Int /\ p[2] \in Int /\ p[1] >= 1 /\ p[2] <= n
  BY <1>1, <1>6, <1>7
<1> QED
  BY <1>8 DEF n

LEMMA StretchTyped ==
  ASSUME NEW s \in Seq(Characters), NEW a \in Int, NEW z \in Int, a >= 1, z <= Len(s)
  PROVE  SubSeq(s, a, z) \in Seq(Characters)
<1>1. \A i \in a .. z : i \in 1 .. Len(s)
  BY CharactersOf
<1>2. \A i \in a .. z : s[i] \in Characters
  BY <1>1, CharactersOf
<1> QED
  BY <1>2, SubSeqProperties

LEMMA EachTextSplits == ASSUME text \in Seq(Characters) PROVE SplitAtStatements
<1> DEFINE ends == {i \in Lexemes(text) : text[i] = ";"}
           sub(p) == SubSeq(text, p[1], p[2])
<1>1. Cuts(text) = ends
  BY CutsAreLexemes
<1>2. ASSUME NEW p \in Pieces(ends)
      PROVE  (p \in Statements <=> ~SaysNothing(sub(p))) \/ Misleads(sub(p))
  <2>1. sub(p) \in Seq(Characters)
    <3>1. Len(text) \in Nat /\ ends \in SUBSET (1 .. Len(text))
      <4>1. Lexemes(text) \in SUBSET (1 .. Len(text))
        BY DEF Lexemes
      <4> QED
        BY <4>1, CharactersOf
    <3>2. p[1] \in Int /\ p[2] \in Int /\ p[1] >= 1 /\ p[2] <= Len(text)
      BY <3>1, PieceBounds
    <3> QED
      BY <3>2, StretchTyped
  <2>2. p \in Statements <=> ~Blank(sub(p))
    BY <1>1 DEF Statements
  <2>3. (Blank(sub(p)) <=> SaysNothing(sub(p))) \/ Misleads(sub(p))
    BY <2>1, SilenceIsBlank, BlankIsSilence
  <2> QED
    BY <2>2, <2>3
<1> QED
  BY <1>1, <1>2 DEF SplitAtStatements

\* Every text, of any length, is cut at the semicolons that stand on their own in it, and of
\* what lies between the stretches that say something are executed (splitSqlStatements and
\* normalizeSql), but for the comments the property names.
THEOREM TextsAreSplit == TextSpec => []SplitAtStatements
<1>1. text \in Seq(Characters) => SplitAtStatements
  BY EachTextSplits
<1> QED
  BY <1>1, TextTyped, PTL

-----------------------------------------------------------------------------
(* The composition *)

\* Whatever the others do, each service behaves as its own specification says, so
\* the theorems above hold of the server that runs them all.
THEOREM ServicesKeepApart ==
  Spec => Presence!Spec /\ Notifications!Spec /\ SearchIndex!Spec /\ Comments!Spec /\ StreamSpec
          /\ TextSpec
<1>1. Init => /\ Presence!Init /\ Notifications!Init /\ SearchIndex!Init /\ Comments!Init /\ StreamInit
              /\ TextInit
  BY DEF Init
<1>2. [Next]_vars => [Presence!Next]_(Presence!presenceVars)
  BY DEF Next, Rest, vars, presence, Presence!presenceVars
<1>3. [Next]_vars => [Notifications!Next]_(Notifications!notificationVars)
  BY DEF Next, Rest, vars, notifications, Notifications!notificationVars
<1>4. [Next]_vars => [SearchIndex!Next]_(SearchIndex!indexVars)
  BY DEF Next, Rest, vars, index, SearchIndex!indexVars
<1>5. [Next]_vars => [Comments!Next]_(Comments!commentVars)
  BY DEF Next, Rest, vars, comments, Comments!commentVars
<1>6. [Next]_vars => [StreamNext]_streamVars
  BY DEF Next, Rest, vars
<1>7. [Next]_vars => [TextNext]_text
  BY DEF Next, Rest, vars
<1> QED
  BY <1>1, <1>2, <1>3, <1>4, <1>5, <1>6, <1>7, PTL
     DEF Spec, Presence!Spec, Notifications!Spec, SearchIndex!Spec, Comments!Spec, StreamSpec, TextSpec
=============================================================================
