------------------------------ MODULE Freshness ------------------------------
(***************************************************************************)
(* The versioned caches of one database of one connection: FreshnessService *)
(* under the row counts of QueryService, the hierarchy of MetadataService  *)
(* and the schema context of AiSchemaContextService.                       *)
(*                                                                         *)
(* The cache is shared by all servers and each of its calls is awaited, so *)
(* a step is one call.  A reader asks for one of the cached values; a job  *)
(* changes the database or refreshes, and then bumps the versions of some  *)
(* namespaces, one after the other, each by a read and a write.  A value   *)
(* is the number of changes it has seen.                                   *)
(*                                                                         *)
(* A call names the database, or leaves it to the connection.  The version *)
(* it reads or bumps is that of a scope, and not everybody derives the     *)
(* scope of such a call in the same way.                                   *)
(***************************************************************************)
EXTENDS Naturals

CONSTANTS
  Readers,     \* requests for cached values that may be under way at once
  Jobs,        \* writes and refreshes that may be under way at once
  Requests,    \* what the readers ask for: of AllKinds, naming the database or not
  Namespaces,  \* the namespaces looked at: nothing depends on the versions of others
  Configured,  \* the connection has a default database: the one of this model
  Calls,       \* bound: the jobs there are, of AllCalls, naming the database or not
  MaxChanges,  \* bound: changes of the database
  MaxBumps     \* bound: versions of a namespace

AllKinds == {"count", "hierarchy", "context"}
AllCalls == {"write", "refresh", "clear"}
AllNamespaces == {"query", "metadata", "hierarchy", "ai-schema"}

\* The scope of a call that names the database or not.  QueryService falls back to the
\* database of the connection; the context and refresh do not.
WriteScope(named) == IF named \/ Configured THEN "named" ELSE "default"
ReadScope(named) == IF named THEN "named" ELSE "default"

\* A versioned space: a namespace and a scope in it.
AllSpaces == ({"query", "ai-schema"} \X {"named", "default"})
               \cup ({"metadata", "hierarchy"} \X {"connection"})
Spaces == {s \in AllSpaces : s[1] \in Namespaces}

\* A cached value: its kind and the scope of its key.  "hierarchy" stands for databases,
\* relationships, columns, metrics and fullmeta too: they are read the same way and
\* bumped in a row.
AllParts == ({"count", "inventory", "context"} \X {"named", "default"})
              \cup {<<"hierarchy", "connection">>}
SpaceOf == [p \in AllParts |-> <<CASE p[1] = "count" -> "query"
                                   [] p[1] = "hierarchy" -> "hierarchy"
                                   [] OTHER -> "ai-schema", p[2]>>]

\* What a request of some kind asks for.
Asked(kind, named) == <<kind, CASE kind = "count" -> WriteScope(named)
                                [] kind = "context" -> ReadScope(named)
                                [] OTHER -> "connection">>
Parts == {Asked(q[1], q[2]) : q \in Requests}

\* The inventory that a context is composed from.
InventoryOf(p) == <<"inventory", p[2]>>

ASSUME CacheAssumption ==
  /\ Namespaces \subseteq AllNamespaces /\ Calls \subseteq AllCalls \X BOOLEAN
  /\ Requests \subseteq AllKinds \X BOOLEAN /\ Requests # {}
  /\ \A p \in Parts : SpaceOf[p] \in Spaces
  /\ Configured \in BOOLEAN
  /\ MaxChanges \in Nat \ {0} /\ MaxBumps \in Nat \ {0}

\* What invalidateQueryCache and MetadataService.refresh bump, both in the order of Place.
Invalidated(named) == Spaces \cap
  {<<"query", WriteScope(named)>>, <<"metadata", "connection">>,
   <<"ai-schema", WriteScope(named)>>}
Refreshed(named) == Spaces \cap {<<"hierarchy", "connection">>, <<"ai-schema", ReadScope(named)>>}
Cleared(named) == Spaces \cap {<<"ai-schema", ReadScope(named)>>}
Place == [n \in AllNamespaces |-> CASE n = "query" -> 1 [] n = "metadata" -> 2
                                     [] n = "hierarchy" -> 3 [] n = "ai-schema" -> 4]

Values == 0..MaxChanges      \* 0 is "no entry"; the database starts at 1
Versions == 0..MaxBumps

VARIABLES
  db,        \* changes of the database
  version,   \* version[s]: the version stored for space s, 0 if none
  entry,     \* entry[part][v]: the value cached under version v
  pc,        \* where reader r is
  part,      \* what it asks for
  key,       \* the version in its cache key
  source,    \* the version in the key of its inventory
  got,       \* the value it has
  floor,     \* history: changes its space was told of when it started
  owed,      \* history: changes that jobs were done telling of when it started
  todo,      \* todo[j]: the spaces job j has yet to bump
  base,      \* base[j]: the version it has read of the first of them
  reading,   \* jobs that have read and not yet written a version
  seen,      \* history: changes made when job j starts to bump
  acked,     \* history: acked[s]: changes some finished bump of s tells of
  told,      \* history: changes that some finished job tells of
  regressed, \* history: spaces whose version a slow bump set back
  mixed      \* history: spaces two keys of one reader saw different versions of

readerVars == <<pc, part, key, source, got, floor, owed>>
jobVars == <<todo, base, reading, seen>>
history == <<acked, told, regressed, mixed>>
vars == <<db, version, entry, readerVars, jobVars, history>>

\* What the cache, the requests and the jobs may hold.
TypeOK ==
  /\ db \in 1..MaxChanges
  /\ version \in [Spaces -> Versions]
  /\ entry \in [AllParts -> [Versions -> Values]]
  /\ pc \in [Readers -> {"idle", "keying", "keyed", "sourcing", "fetching", "storing",
                         "composing", "answered"}]
  /\ part \in [Readers -> Parts]
  /\ key \in [Readers -> Versions] /\ source \in [Readers -> Versions]
  /\ got \in [Readers -> Values] /\ floor \in [Readers -> Values]
  /\ owed \in [Readers -> Values]
  /\ todo \in [Jobs -> SUBSET Spaces]
  /\ base \in [Jobs -> Versions] /\ reading \subseteq Jobs
  /\ seen \in [Jobs -> Values]
  /\ acked \in [Spaces -> Values] /\ told \in Values
  /\ regressed \subseteq Spaces /\ mixed \subseteq Spaces

AnyPart == CHOOSE p \in Parts : TRUE

Init ==
  /\ db = 1
  /\ version = [s \in Spaces |-> 0]
  /\ entry = [p \in AllParts |-> [v \in Versions |-> 0]]
  /\ pc = [r \in Readers |-> "idle"]
  /\ part = [r \in Readers |-> AnyPart]
  /\ key = [r \in Readers |-> 0] /\ source = [r \in Readers |-> 0]
  /\ got = [r \in Readers |-> 0] /\ floor = [r \in Readers |-> 0]
  /\ owed = [r \in Readers |-> 0]
  /\ todo = [j \in Jobs |-> {}]
  /\ base = [j \in Jobs |-> 0] /\ reading = {}
  /\ seen = [j \in Jobs |-> 0]
  /\ acked = [s \in Spaces |-> 1] /\ told = 1
  /\ regressed = {} /\ mixed = {}

-----------------------------------------------------------------------------
(* Reading *)

Space(r) == SpaceOf[part[r]]
Go(r, where) == pc' = [pc EXCEPT ![r] = where]
readerFrame == <<db, version, jobVars, acked, told, regressed>>
request == <<part, floor, owed>>

\* buildKey of the count, of the hierarchy or, in gatherSchemaContext, of the inventory,
\* whose reader goes on to build the key of the context.
BuildKey(r, p) ==
  /\ pc[r] = "idle"
  /\ part' = [part EXCEPT ![r] = p]
  /\ key' = [key EXCEPT ![r] = version[SpaceOf[p]]]
  /\ source' = [source EXCEPT ![r] = version[SpaceOf[p]]]
  /\ got' = [got EXCEPT ![r] = 0]
  /\ floor' = [floor EXCEPT ![r] = acked[SpaceOf[p]]]
  /\ owed' = [owed EXCEPT ![r] = told]
  /\ Go(r, IF p[1] = "context" THEN "keying" ELSE "keyed")
  /\ UNCHANGED <<entry, mixed, readerFrame>>

\* buildKey of the context reads the version again.
BuildContextKey(r) ==
  /\ pc[r] = "keying"
  /\ key' = [key EXCEPT ![r] = version[Space(r)]]
  /\ mixed' = mixed \cup {s \in {Space(r)} : version[s] # source[r]}
  /\ Go(r, "keyed")
  /\ UNCHANGED <<entry, request, source, got, readerFrame>>

\* The cache has the value, or not.
Hit(r) ==
  /\ pc[r] = "keyed"
  /\ entry[part[r]][key[r]] # 0
  /\ got' = [got EXCEPT ![r] = entry[part[r]][key[r]]]
  /\ Go(r, "answered")
  /\ UNCHANGED <<entry, mixed, request, key, source, readerFrame>>

Miss(r) ==
  /\ pc[r] = "keyed"
  /\ entry[part[r]][key[r]] = 0
  /\ Go(r, IF part[r][1] = "context" THEN "sourcing" ELSE "fetching")
  /\ UNCHANGED <<entry, mixed, request, key, source, got, readerFrame>>

\* Mutant: the key of the inventory has no version.
UseAnyInventory(r) ==
  /\ pc[r] = "sourcing"
  /\ \E v \in Versions :
       /\ entry[InventoryOf(part[r])][v] # 0
       /\ got' = [got EXCEPT ![r] = entry[InventoryOf(part[r])][v]]
  /\ Go(r, "composing")
  /\ UNCHANGED <<entry, mixed, request, key, source, readerFrame>>

\* The context is composed from the inventory, which may be cached itself.
UseInventory(r) ==
  /\ pc[r] = "sourcing"
  /\ entry[InventoryOf(part[r])][source[r]] # 0
  /\ got' = [got EXCEPT ![r] = entry[InventoryOf(part[r])][source[r]]]
  /\ Go(r, "composing")
  /\ UNCHANGED <<entry, mixed, request, key, source, readerFrame>>

NoInventory(r) ==
  /\ pc[r] = "sourcing"
  /\ entry[InventoryOf(part[r])][source[r]] = 0
  /\ Go(r, "fetching")
  /\ UNCHANGED <<entry, mixed, request, key, source, got, readerFrame>>

\* The database is asked.  An inventory takes several queries and is as old as the first.
Fetch(r) ==
  /\ pc[r] = "fetching"
  /\ got' = [got EXCEPT ![r] = db]
  /\ Go(r, "storing")
  /\ UNCHANGED <<entry, mixed, request, key, source, readerFrame>>

\* What was fetched is stored under the key built before, and answered or composed.
Store(r) ==
  /\ pc[r] = "storing"
  /\ IF part[r][1] = "context"
       THEN /\ entry' = [entry EXCEPT ![InventoryOf(part[r])][source[r]] = got[r]]
            /\ Go(r, "composing")
       ELSE /\ entry' = [entry EXCEPT ![part[r]][key[r]] = got[r]]
            /\ Go(r, "answered")
  /\ UNCHANGED <<mixed, request, key, source, got, readerFrame>>

\* The context is read column by column, stored and answered.
StoreContext(r) ==
  /\ pc[r] = "composing"
  /\ entry' = [entry EXCEPT ![part[r]][key[r]] = got[r]]
  /\ Go(r, "answered")
  /\ UNCHANGED <<mixed, request, key, source, got, readerFrame>>

\* The answer is sent; or the database or the cache fails, and there is none.
Respond(r) ==
  /\ pc[r] # "idle"
  /\ Go(r, "idle")
  /\ part' = [part EXCEPT ![r] = AnyPart]
  /\ key' = [key EXCEPT ![r] = 0] /\ source' = [source EXCEPT ![r] = 0]
  /\ got' = [got EXCEPT ![r] = 0]
  /\ floor' = [floor EXCEPT ![r] = 0] /\ owed' = [owed EXCEPT ![r] = 0]
  /\ UNCHANGED <<entry, mixed, readerFrame>>

\* An entry expires.
Expire(p, v) ==
  /\ entry[p][v] # 0
  /\ entry' = [entry EXCEPT ![p][v] = 0]
  /\ UNCHANGED <<db, version, readerVars, jobVars, history>>

-----------------------------------------------------------------------------
(* Changing and bumping *)

jobFrame == <<entry, readerVars, history>>

\* A change nothing is told of: executeQuery, another client of the database, or one of
\* the statements of an updateSchema that fails later on.
ChangeSilently ==
  /\ db < MaxChanges
  /\ db' = db + 1
  /\ UNCHANGED <<version, jobVars, jobFrame>>

\* updateRow and the other writes: the database has answered.
Write(j, named) ==
  /\ <<"write", named>> \in Calls /\ todo[j] = {} /\ db < MaxChanges
  /\ db' = db + 1
  /\ todo' = [todo EXCEPT ![j] = Invalidated(named)]
  /\ seen' = [seen EXCEPT ![j] = db + 1]
  /\ UNCHANGED <<version, base, reading, jobFrame>>

Refresh(j, named) ==
  /\ <<"refresh", named>> \in Calls /\ todo[j] = {}
  /\ todo' = [todo EXCEPT ![j] = Refreshed(named)]
  /\ seen' = [seen EXCEPT ![j] = db]
  /\ UNCHANGED <<db, version, base, reading, jobFrame>>

\* clearCache of the AI services.
ClearCache(j, named) ==
  /\ <<"clear", named>> \in Calls /\ todo[j] = {}
  /\ todo' = [todo EXCEPT ![j] = Cleared(named)]
  /\ seen' = [seen EXCEPT ![j] = db]
  /\ UNCHANGED <<db, version, base, reading, jobFrame>>

\* The space job j is at.
Target(j) == CHOOSE s \in todo[j] : \A t \in todo[j] : Place[s[1]] <= Place[t[1]]

\* bump reads the version ...
ReadVersion(j) ==
  /\ todo[j] # {} /\ j \notin reading
  /\ reading' = reading \cup {j}
  /\ base' = [base EXCEPT ![j] = version[Target(j)]]
  /\ UNCHANGED <<db, version, todo, seen, jobFrame>>

Later(a, b) == IF a > b THEN a ELSE b

\* ... and writes it plus one.
WriteVersion(j) ==
  LET s == Target(j)
      v == base[j] + 1
  IN  /\ todo[j] # {} /\ j \in reading
      /\ v \in Versions
      /\ version' = [version EXCEPT ![s] = v]
      /\ reading' = reading \ {j}
      /\ todo' = [todo EXCEPT ![j] = @ \ {s}]
      /\ base' = [base EXCEPT ![j] = 0]
      /\ seen' = [seen EXCEPT ![j] = IF todo[j] = {s} THEN 0 ELSE @]
      /\ acked' = [acked EXCEPT ![s] = Later(@, seen[j])]
      /\ told' = IF todo[j] = {s} THEN Later(told, seen[j]) ELSE told
      /\ regressed' = regressed \cup {x \in {s} : v < version[x]}
      /\ UNCHANGED <<db, entry, readerVars, mixed>>

\* The cache fails, and the call with it.
BumpFails(j) ==
  /\ todo[j] # {}
  /\ todo' = [todo EXCEPT ![j] = {}]
  /\ reading' = reading \ {j}
  /\ base' = [base EXCEPT ![j] = 0] /\ seen' = [seen EXCEPT ![j] = 0]
  /\ UNCHANGED <<db, version, jobFrame>>

-----------------------------------------------------------------------------
(* Specification *)

ReaderStep(r) == Hit(r) \/ Miss(r) \/ Fetch(r) \/ Store(r) \/ Respond(r)
ContextStep(r) == BuildContextKey(r) \/ UseInventory(r) \/ NoInventory(r) \/ StoreContext(r)
JobStep(j) ==
  \/ \E named \in BOOLEAN : Write(j, named) \/ Refresh(j, named) \/ ClearCache(j, named)
  \/ ReadVersion(j) \/ WriteVersion(j) \/ BumpFails(j)

Next ==
  \/ \E r \in Readers, p \in Parts : BuildKey(r, p)
  \/ \E r \in Readers : ReaderStep(r) \/ ContextStep(r)
  \/ \E p \in AllParts, v \in Versions : Expire(p, v)
  \/ \E j \in Jobs : JobStep(j)
  \/ ChangeSilently

Spec == Init /\ [][Next]_vars

-----------------------------------------------------------------------------
(* Properties *)

Spoiled == regressed \cup mixed

\* A request that starts when the space of its key has been bumped for a change answers
\* with a value that has seen the change, whatever other requests fill the cache with and
\* however bumps interleave.  The two ways to lose it are a bump that sets the version
\* back, and a context composed from an inventory of an older version.  A bump of another
\* scope promises nothing: see WritesReachReaders.
AnswersFresh ==
  \A r \in Readers : pc[r] = "answered" /\ Space(r) \notin Spoiled => got[r] >= floor[r]

\* Whoever moves the version of a space finds nothing cached under the new one: a
\* lost increment is harmless, since two bumps that make the same version are told of
\* only by values fetched after both have read it (bump).
BumpsEmpty ==
  [][\A s \in Spaces \ regressed' : version'[s] # version[s] =>
       \A p \in AllParts : SpaceOf[p] = s => entry[p][version'[s]] = 0]_vars

-----------------------------------------------------------------------------
(* The inductive invariant behind them *)

\* Where a request is fits what it asks for, and nothing is told of before it is made.
Routed == \A r \in Readers : pc[r] \in {"keying", "sourcing", "composing"} => part[r][1] = "context"
Bounded ==
  /\ \A j \in Jobs : seen[j] <= db
  /\ \A s \in Spaces : acked[s] <= db
  /\ \A r \in Readers : floor[r] <= db
  /\ \A j \in reading : todo[j] # {}

\* Versions in use are not ahead of the stored one.
EntriesBehind(s) ==
  \A p \in AllParts, v \in Versions : SpaceOf[p] = s /\ entry[p][v] # 0 => v <= version[s]
ReadersBehind(s) ==
  \A r \in Readers : pc[r] # "idle" /\ Space(r) = s =>
    key[r] <= version[s] /\ source[r] <= version[s]

\* The values cached under version v of space s, and those that readers are about to
\* cache there, have seen n changes.
Held(r) == pc[r] \in {"storing", "composing"}
FreshAt(s, v, n) ==
  /\ \A p \in AllParts : SpaceOf[p] = s => entry[p][v] = 0 \/ entry[p][v] >= n
  /\ \A r \in Readers : Held(r) /\ Space(r) = s /\ key[r] = v => got[r] >= n

\* Values under the stored version have seen what was told of, those under the version a
\* bump is about to write what it tells of, and those a reader may find what it is owed.
KeysAgree(s) ==
  \A r \in Readers : pc[r] \notin {"idle", "keying"} /\ Space(r) = s => source[r] = key[r]
TellsTruth(s) == FreshAt(s, version[s], acked[s])
BumpsTruly(s) ==
  \A j \in reading : Target(j) = s /\ base[j] < MaxBumps => FreshAt(s, base[j] + 1, seen[j])
ServesTruth(s) ==
  \A r \in Readers : pc[r] # "idle" /\ Space(r) = s => FreshAt(s, source[r], floor[r])

Sound(s) == KeysAgree(s) /\ TellsTruth(s) /\ BumpsTruly(s) /\ ServesTruth(s)

IInv ==
  /\ Routed /\ Bounded /\ AnswersFresh
  /\ \A s \in Spaces \ regressed : EntriesBehind(s) /\ ReadersBehind(s)
  /\ \A s \in Spaces \ Spoiled : Sound(s)

-----------------------------------------------------------------------------
(* What a test claims, and the code does not keep *)

\* "bumps freshness scopes after a write succeeds": of a hierarchy and a context that are
\* asked for when a write has bumped its scopes, of "metadata" and "ai-schema" among them,
\* one at least shows the write.  (Neither does.)
WritesReachReaders ==
  LET Stale(r) == pc[r] = "answered" /\ got[r] < owed[r]
  IN  Spoiled = {} => ~\E r, q \in Readers : /\ Stale(r) /\ part[r][1] = "hierarchy"
                                            /\ Stale(q) /\ part[q][1] = "context"
=============================================================================
