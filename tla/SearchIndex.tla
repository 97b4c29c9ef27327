----------------------------- MODULE SearchIndex -----------------------------
(***************************************************************************)
(* The search index of one user in Redis (search/search-index.repository,  *)
(* search.service): a hash of items, one set of ids per term, and a        *)
(* manifest of the keys that the next rebuild has to delete.  A rebuild    *)
(* clears and writes in several round trips, and nothing keeps two of them *)
(* apart.                                                                  *)
(***************************************************************************)
EXTENDS Naturals, FiniteSets

CONSTANTS Items,     \* tables and views that may exist, of any connection
          IdOf,      \* the id of each, which does not tell connections apart
          TermsOf,   \* the terms of each item: [Items -> SUBSET terms]
          Syncs,     \* rebuilds that may run at once
          MaxSyncs,  \* bound: rebuilds in a behaviour
          MaxDeaths, \* bound: rebuilds cut by a restart and pipelines with refused commands
          MaxRefused \* bound: refused commands of a pipeline

VARIABLES stored,   \* the hash under search_index:<user>:items: for each id the item last written
          postings, \* the sets: ids under each term
          manifest, \* keys of this index, "items" and terms
          sync,     \* the rebuilds; alone: met no other one and had no command refused
          syncs, deaths,
          wanted,   \* ghost: items of the last rebuild if it runs alone, known when it has ended
          orphaned  \* ghost: the hash may be there unregistered: its registration was refused,
                    \* or a rebuild that had met another one died, and none ran alone since

indexVars == <<stored, postings, manifest, sync, syncs, deaths, wanted, orphaned>>

Terms == UNION {TermsOf[i] : i \in Items}
Unknown == [known |-> FALSE, items |-> {}]
NoSync == [pc |-> "idle", left |-> {}, keys |-> {}, alone |-> FALSE]

Init ==
  /\ stored = {} /\ manifest = {}
  /\ postings = [t \in Terms |-> {}]
  /\ sync = [s \in Syncs |-> NoSync]
  /\ syncs = 0 /\ deaths = 0
  /\ wanted = [known |-> TRUE, items |-> {}]
  /\ orphaned = FALSE

Running(s) == sync[s].pc # "idle"

\* syncIndex has collected the items of the connections it could reach.
StartSync(s, items) ==
  /\ ~Running(s) /\ syncs < MaxSyncs
  /\ syncs' = syncs + 1
  /\ LET alone == \A p \in Syncs : ~Running(p) IN
     /\ sync' = [r \in Syncs |->
          IF r = s THEN [pc |-> "smembers", left |-> items, keys |-> {}, alone |-> alone]
          ELSE [sync[r] EXCEPT !.alone = FALSE]]
     /\ wanted' = IF alone THEN [known |-> FALSE, items |-> items] ELSE Unknown
  /\ UNCHANGED <<stored, postings, manifest, deaths, orphaned>>

\* clearUserIndex: the keys of the manifest are read, deleted, then the manifest itself.
ReadManifest(s) ==
  /\ sync[s].pc = "smembers"
  /\ sync' = [sync EXCEPT ![s].keys = manifest, ![s].pc = "del"]
  /\ UNCHANGED <<stored, postings, manifest, syncs, deaths, wanted, orphaned>>

DeleteKeys(s) ==
  /\ sync[s].pc = "del"
  /\ stored' = IF "items" \in sync[s].keys THEN {} ELSE stored
  /\ postings' = [t \in Terms |-> IF t \in sync[s].keys THEN {} ELSE postings[t]]
  /\ sync' = [sync EXCEPT ![s].pc = "delManifest", ![s].keys = {}]
  /\ UNCHANGED <<manifest, syncs, deaths, wanted, orphaned>>

DeleteManifest(s) ==
  /\ sync[s].pc = "delManifest"
  /\ manifest' = {}
  /\ sync' = [sync EXCEPT ![s].pc = "first"]
  /\ UNCHANGED <<stored, postings, syncs, deaths, wanted, orphaned>>

\* The commands of a pipeline: each puts a member under a key.
Commands(batch, registered) ==
  {<<"manifest", k>> : k \in registered \cup UNION {TermsOf[i] : i \in batch}}
    \cup UNION {{<<k, i>> : k \in {"items"} \cup TermsOf[i]} : i \in batch}

Refusals(commands) ==
  IF deaths = MaxDeaths THEN {{}} ELSE {r \in SUBSET commands : Cardinality(r) <= MaxRefused}

\* Of the items of one id in the hash the last one remains.  Commands that Redis
\* refuses have their error in the results of exec, which nobody reads.
Write(s, batch, commands, refused) ==
  LET done == commands \ refused
      alone == sync[s].alone /\ refused = {}
  IN
  /\ deaths' = IF refused = {} THEN deaths ELSE deaths + 1
  /\ \E last \in SUBSET {i \in batch : <<"items", i>> \in done} :
       /\ \A i \in batch : <<"items", i>> \in done => \E j \in last : IdOf[j] = IdOf[i]
       /\ \A i, j \in last : IdOf[i] = IdOf[j] => i = j
       /\ stored' = last \cup {i \in stored : \A j \in last : IdOf[j] # IdOf[i]}
  /\ postings' = [t \in Terms |-> postings[t] \cup {IdOf[i] : i \in {j \in batch : <<t, j>> \in done}}]
  /\ manifest' = manifest \cup {k \in Terms \cup {"items"} : <<"manifest", k>> \in done}
  /\ orphaned' = \/ orphaned /\ ~(alone /\ batch = sync[s].left)
                 \/ <<"manifest", "items">> \in refused
  /\ IF batch = sync[s].left
     THEN /\ sync' = [sync EXCEPT ![s] = NoSync]
          /\ wanted' = IF alone /\ ~orphaned THEN [wanted EXCEPT !.known = TRUE] ELSE Unknown
     ELSE /\ sync' = [sync EXCEPT ![s].pc = "rest", ![s].left = @ \ batch, ![s].alone = alone]
          /\ wanted' = IF alone THEN wanted ELSE Unknown
  /\ UNCHANGED syncs

\* Mutant: the hash of items is never registered.
FlushUnregistered(s, batch) ==
  /\ sync[s].pc \in {"first", "rest"} /\ batch \subseteq sync[s].left
  /\ sync[s].pc = "rest" => batch = sync[s].left
  /\ \E refused \in Refusals(Commands(batch, {})) : Write(s, batch, Commands(batch, {}), refused)

\* replaceUserIndex: the writes go out in pipelines of 2000 commands, only the
\* first of which puts the hash of items in the manifest.
Flush(s, batch) ==
  LET commands == Commands(batch, IF sync[s].pc = "first" THEN {"items"} ELSE {}) IN
  /\ sync[s].pc \in {"first", "rest"} /\ batch \subseteq sync[s].left
  /\ sync[s].pc = "rest" => batch = sync[s].left
  /\ \E refused \in Refusals(commands) : Write(s, batch, commands, refused)

\* The server restarts in the middle of a rebuild, or a command of clearUserIndex fails,
\* which goes out by itself and throws.
Die(s) ==
  /\ Running(s) /\ deaths < MaxDeaths
  /\ deaths' = deaths + 1
  /\ sync' = [sync EXCEPT ![s] = NoSync]
  /\ orphaned' = (orphaned \/ ~sync[s].alone)
  /\ wanted' = Unknown
  /\ UNCHANGED <<stored, postings, manifest, syncs>>

Next ==
  \E s \in Syncs :
    \/ \E items \in SUBSET Items : StartSync(s, items) \/ Flush(s, items)
    \/ ReadManifest(s) \/ DeleteKeys(s) \/ DeleteManifest(s) \/ Die(s)

Spec == Init /\ [][Next]_indexVars

\* search: ids in the set of every term, then the items stored under them that do have it.
Found(t) == {i \in stored : IdOf[i] \in postings[t] /\ t \in TermsOf[i]}

-----------------------------------------------------------------------------
\* Whatever rebuilds met before, one that runs alone to its end, with no command
\* refused, makes keyword search exact: every item of its connections is found by
\* each of its terms, unless an item of the same id of another connection has
\* taken its place, and nothing else is found or offered to the model as a name.
\* It takes two where the hash may have been left without registration.
SearchIsExact ==
  wanted.known =>
    /\ stored \subseteq wanted.items
    /\ \A i \in wanted.items : \/ \A t \in TermsOf[i] : i \in Found(t)
                               \/ \E j \in stored \ {i} : IdOf[j] = IdOf[i]
=============================================================================
