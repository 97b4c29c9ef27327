--------------------------- MODULE Assistant_proofs ---------------------------
(***************************************************************************)
(* Proofs about Assistant.  The cache, in any number of readers and jobs:  *)
(* nobody who asks after a change was acknowledged is answered from before *)
(* it.  A value is cached under the version its reader has seen before it  *)
(* asked the database, so whatever moves a version to v finds nothing      *)
(* under v, now or later, that was asked for before the move; the lemmas   *)
(* follow that through what readers and what jobs do to FreshAt.           *)
(*                                                                         *)
(* The chat, for any number of answers, openings of the panel and requests *)
(* lost: a quiet panel shows what it will show when loaded again.  What is *)
(* shown is saved, being saved, an answer still read, or about to go with  *)
(* what an edit has deleted; and panel and database agree up to every      *)
(* question that was loaded, so that an edit cuts both at the same place.  *)
(***************************************************************************)
EXTENDS Assistant, SequenceTheorems, FiniteSetTheorems, TLAPS

-----------------------------------------------------------------------------
(* The cache: the operators its model is built from *)

LEMMA SpaceOfType == SpaceOf \in [AllParts -> AllSpaces]
<1>1. ASSUME NEW p \in AllParts
      PROVE  SpaceOf[p] \in AllSpaces
  <2>1. CASE p = <<"hierarchy", "connection">>
    BY <2>1 DEF SpaceOf, AllParts, AllSpaces
  <2>2. ASSUME NEW k \in {"count", "inventory", "context"}, NEW c \in {"named", "default"},
               p = <<k, c>>
        PROVE  SpaceOf[p] \in AllSpaces
    BY <2>2 DEF SpaceOf, AllParts, AllSpaces
  <2> QED BY <2>1, <2>2 DEF AllParts
<1> QED BY <1>1 DEF SpaceOf

\* A job that has spaces to bump is at one of them.
LEMMA TargetInTodo ==
  ASSUME TypeOK, NEW j \in Jobs, todo[j] # {}
  PROVE  Target(j) \in todo[j] /\ Target(j) \in Spaces
<1>1. /\ todo[j] \subseteq Spaces
      /\ \A s \in todo[j] : s[1] \in {"query", "metadata", "hierarchy", "ai-schema"}
  BY DEF TypeOK, Spaces, AllSpaces
<1>2. Place["query"] = 1 /\ Place["metadata"] = 2 /\ Place["hierarchy"] = 3
      /\ Place["ai-schema"] = 4
  BY DEF Place, AllNamespaces
<1>3. \E s \in todo[j] : \A t \in todo[j] : Place[s[1]] <= Place[t[1]]
  <2>1. CASE \E s \in todo[j] : s[1] = "query"
    BY <1>1, <1>2, <2>1
  <2>2. CASE (\E s \in todo[j] : s[1] = "metadata") /\ \A t \in todo[j] : t[1] # "query"
    BY <1>1, <1>2, <2>2
  <2>3. CASE /\ \E s \in todo[j] : s[1] = "hierarchy"
             /\ \A t \in todo[j] : t[1] \notin {"query", "metadata"}
    BY <1>1, <1>2, <2>3
  <2>4. CASE \A t \in todo[j] : t[1] \notin {"query", "metadata", "hierarchy"}
    <3>1. \A t \in todo[j] : t[1] = "ai-schema"
      BY <1>1, <2>4
    <3> QED BY <1>2, <3>1
  <2> QED BY <2>1, <2>2, <2>3, <2>4
<1>4. Target(j) \in todo[j]
  BY <1>3 DEF Target
<1> QED BY <1>1, <1>4

\* What a request asks for has a space, and a context is composed from an inventory of it.
LEMMA PartsHaveSpaces ==
  /\ AnyPart \in Parts
  /\ \A p \in Parts :
       /\ p \in AllParts /\ SpaceOf[p] \in Spaces
       /\ p[1] = "context" => /\ InventoryOf(p) \in AllParts /\ InventoryOf(p) # p
                              /\ SpaceOf[InventoryOf(p)] = SpaceOf[p]
<1>1. Parts # {} /\ \A p \in Parts : SpaceOf[p] \in Spaces
  BY CacheAssumption DEF Parts
<1>2. ASSUME NEW k \in AllKinds, NEW n \in BOOLEAN
      PROVE  /\ Asked(k, n) \in AllParts
             /\ Asked(k, n)[1] = "context" =>
                  /\ InventoryOf(Asked(k, n)) \in AllParts
                  /\ InventoryOf(Asked(k, n)) # Asked(k, n)
                  /\ SpaceOf[InventoryOf(Asked(k, n))] = SpaceOf[Asked(k, n)]
  <2>1. CASE k = "count"
    BY <2>1 DEF Asked, WriteScope, AllParts
  <2>2. CASE k = "hierarchy"
    BY <2>2 DEF Asked, AllParts
  <2>3. CASE k = "context"
    <3>1. PICK c \in {"named", "default"} : Asked(k, n) = <<"context", c>>
      BY <2>3 DEF Asked, ReadScope
    <3>2. <<"context", c>> \in AllParts /\ <<"inventory", c>> \in AllParts
      BY DEF AllParts
    <3>3. SpaceOf[<<"context", c>>] = <<"ai-schema", c>>
          /\ SpaceOf[<<"inventory", c>>] = <<"ai-schema", c>>
      BY <3>2 DEF SpaceOf
    <3> QED BY <3>1, <3>2, <3>3 DEF InventoryOf
  <2> QED BY <2>1, <2>2, <2>3 DEF AllKinds
<1>3. \A p \in Parts : \E k \in AllKinds, n \in BOOLEAN : p = Asked(k, n)
  BY CacheAssumption DEF Parts
<1> QED BY <1>1, <1>2, <1>3 DEF AnyPart

-----------------------------------------------------------------------------
(* Types *)

LEMMA InitTyped == Init => TypeOK /\ Routed
  BY CacheAssumption, PartsHaveSpaces DEF Init, TypeOK, Routed, Values, Versions

\* What a request holds and finds.
LEMMA HeldTyped ==
  ASSUME TypeOK, NEW r \in Readers
  PROVE  /\ part[r] \in AllParts /\ key[r] \in Versions /\ source[r] \in Versions
         /\ got[r] \in Values
         /\ \A p \in AllParts, v \in Versions : entry[p][v] \in Values
  BY PartsHaveSpaces DEF TypeOK

\* The value a request asks for lies in its space, as the inventory of a context does.
LEMMA ReaderSpace ==
  ASSUME TypeOK, NEW r \in Readers
  PROVE  /\ part[r] \in AllParts /\ Space(r) \in Spaces /\ SpaceOf[part[r]] = Space(r)
         /\ part[r][1] = "context" => /\ InventoryOf(part[r]) \in AllParts
                                      /\ InventoryOf(part[r]) # part[r]
                                      /\ SpaceOf[InventoryOf(part[r])] = Space(r)
<1>1. part[r] \in Parts
  BY DEF TypeOK
<1> QED BY <1>1, PartsHaveSpaces DEF Space

\* Storing a value keeps the type of the cache.
LEMMA EntryTyped ==
  ASSUME TypeOK, NEW p \in AllParts, NEW v \in Versions, NEW x \in Values,
         entry' = [entry EXCEPT ![p][v] = x]
  PROVE  /\ entry' \in [AllParts -> [Versions -> Values]]
         /\ \A q \in AllParts, w \in Versions :
              entry'[q][w] = IF q = p /\ w = v THEN x ELSE entry[q][w]
<1>1. entry \in [AllParts -> [Versions -> Values]]
  BY DEF TypeOK
<1>2. entry[p] \in [Versions -> Values]
  BY <1>1
<1>3. [entry[p] EXCEPT ![v] = x] \in [Versions -> Values]
  BY <1>2
<1>4. entry' = [entry EXCEPT ![p] = [entry[p] EXCEPT ![v] = x]]
  OBVIOUS
<1> QED BY <1>1, <1>2, <1>3, <1>4

\* The parts of a step that leave the cache and the versions alone.
LEMMA ReaderTyped ==
  ASSUME TypeOK, Routed, NEW r \in Readers, ReaderStep(r) \/ ContextStep(r)
  PROVE  TypeOK' /\ Routed'
<1> USE DEF readerFrame, request, jobVars, Go
<1>1. CASE Hit(r)
  <2>1. got' \in [Readers -> Values]
    BY <1>1, HeldTyped DEF Hit, TypeOK
  <2> QED BY <1>1, <2>1 DEF Hit, TypeOK, Routed
<1>2. CASE Miss(r)
  BY <1>2 DEF Miss, TypeOK, Routed
<1>3. CASE Fetch(r)
  <2>1. got' \in [Readers -> Values]
    BY <1>3, CacheAssumption DEF Fetch, TypeOK, Values
  <2> QED BY <1>3, <2>1 DEF Fetch, TypeOK, Routed
<1>4. CASE Store(r)
  <2>1. entry' \in [AllParts -> [Versions -> Values]]
    BY <1>4, HeldTyped, ReaderSpace, EntryTyped DEF Store
  <2> QED BY <1>4, <2>1 DEF Store, TypeOK, Routed
<1>5. CASE Respond(r)
  <2>1. 0 \in Values /\ 0 \in Versions /\ AnyPart \in Parts
    BY CacheAssumption, PartsHaveSpaces DEF Values, Versions
  <2>2. /\ pc' \in [Readers -> {"idle", "keying", "keyed", "sourcing", "fetching", "storing",
                              "composing", "answered"}]
        /\ Routed'
    BY <1>5, <2>1 DEF Respond, TypeOK, Routed
  <2>3. /\ part' \in [Readers -> Parts]
        /\ key' \in [Readers -> Versions] /\ source' \in [Readers -> Versions]
    BY <1>5, <2>1 DEF Respond, TypeOK
  <2>4. /\ got' \in [Readers -> Values] /\ floor' \in [Readers -> Values]
        /\ owed' \in [Readers -> Values]
    BY <1>5, <2>1 DEF Respond, TypeOK
  <2> QED BY <1>5, <2>2, <2>3, <2>4 DEF Respond, TypeOK
<1>6. CASE BuildContextKey(r)
  <2>1. Space(r) \in Spaces
    BY ReaderSpace
  <2> QED BY <1>6, <2>1 DEF BuildContextKey, TypeOK, Routed
<1>7. CASE UseInventory(r)
  <2>0. InventoryOf(part[r]) \in AllParts
    BY <1>7, ReaderSpace DEF UseInventory, Routed
  <2>1. got' \in [Readers -> Values]
    BY <1>7, <2>0, HeldTyped DEF UseInventory, TypeOK
  <2> QED BY <1>7, <2>1 DEF UseInventory, TypeOK, Routed
<1>8. CASE NoInventory(r)
  BY <1>8 DEF NoInventory, TypeOK, Routed
<1>9. CASE StoreContext(r)
  <2>1. entry' \in [AllParts -> [Versions -> Values]]
    BY <1>9, HeldTyped, EntryTyped DEF StoreContext
  <2> QED BY <1>9, <2>1 DEF StoreContext, TypeOK, Routed
<1> QED BY <1>1, <1>2, <1>3, <1>4, <1>5, <1>6, <1>7, <1>8, <1>9 DEF ReaderStep, ContextStep

LEMMA BuildKeyTyped ==
  ASSUME TypeOK, Routed, NEW r \in Readers, NEW p \in Parts, BuildKey(r, p)
  PROVE  TypeOK' /\ Routed'
<1>1. /\ version[SpaceOf[p]] \in Versions /\ acked[SpaceOf[p]] \in Values
      /\ 0 \in Values /\ told \in Values
  BY CacheAssumption, PartsHaveSpaces DEF TypeOK, Values
<1> QED BY <1>1 DEF TypeOK, Routed, Go, readerFrame, jobVars, BuildKey

LEMMA JobTyped ==
  ASSUME TypeOK, Routed, NEW j \in Jobs, JobStep(j)
  PROVE  TypeOK' /\ Routed'
<1> USE DEF jobFrame, readerVars, history
<1>0. db \in Values /\ 0 \in Values /\ 0 \in Versions
  BY CacheAssumption DEF TypeOK, Values, Versions
<1>1. ASSUME NEW n \in BOOLEAN, Write(j, n)
      PROVE  TypeOK' /\ Routed'
  <2>1. db + 1 \in 1..MaxChanges /\ db + 1 \in Values
    BY <1>1, CacheAssumption DEF Write, TypeOK, Values
  <2>2. Invalidated(n) \subseteq Spaces
    BY DEF Invalidated
  <2> QED BY <1>1, <2>1, <2>2 DEF Write, TypeOK, Routed
<1>2. ASSUME NEW n \in BOOLEAN, Refresh(j, n)
      PROVE  TypeOK' /\ Routed'
  <2>1. Refreshed(n) \subseteq Spaces
    BY DEF Refreshed
  <2> QED BY <1>0, <1>2, <2>1 DEF Refresh, TypeOK, Routed
<1>3. ASSUME NEW n \in BOOLEAN, ClearCache(j, n)
      PROVE  TypeOK' /\ Routed'
  <2>1. Cleared(n) \subseteq Spaces
    BY DEF Cleared
  <2> QED BY <1>0, <1>3, <2>1 DEF ClearCache, TypeOK, Routed
<1>4. CASE ReadVersion(j)
  <2>1. version[Target(j)] \in Versions
    BY <1>4, TargetInTodo DEF ReadVersion, TypeOK
  <2> QED BY <1>4, <2>1 DEF ReadVersion, TypeOK, Routed
<1>5. CASE WriteVersion(j)
  <2>1. PICK s \in Spaces : s = Target(j)
    BY <1>5, TargetInTodo DEF WriteVersion
  <2>2. Later(acked[s], seen[j]) \in Values /\ told' \in Values
    BY <1>5 DEF Later, WriteVersion, TypeOK
  <2>3. /\ version' \in [Spaces -> Versions] /\ acked' \in [Spaces -> Values]
        /\ todo' \in [Jobs -> SUBSET Spaces]
    BY <1>5, <2>1, <2>2 DEF WriteVersion, TypeOK
  <2>4. /\ base' \in [Jobs -> Versions] /\ seen' \in [Jobs -> Values]
        /\ reading' \subseteq Jobs /\ regressed' \subseteq Spaces
    BY <1>0, <1>5, <2>1 DEF WriteVersion, TypeOK
  <2> QED BY <1>5, <2>2, <2>3, <2>4 DEF WriteVersion, TypeOK, Routed
<1>6. CASE BumpFails(j)
  BY <1>0, <1>6 DEF BumpFails, TypeOK, Routed
<1> QED BY <1>1, <1>2, <1>3, <1>4, <1>5, <1>6 DEF JobStep

LEMMA NextTyped == TypeOK /\ Routed /\ [Next]_vars => TypeOK' /\ Routed'
<1> SUFFICES ASSUME TypeOK, Routed, [Next]_vars PROVE TypeOK' /\ Routed'
  OBVIOUS
<1>1. CASE \E p \in AllParts, v \in Versions : Expire(p, v)
  <2>1. PICK p \in AllParts, v \in Versions : Expire(p, v)
    BY <1>1
  <2>2. entry' \in [AllParts -> [Versions -> Values]]
    <3>1. 0 \in Values /\ entry' = [entry EXCEPT ![p][v] = 0]
      BY <2>1, CacheAssumption DEF Expire, Values
    <3> QED BY <3>1, EntryTyped
  <2> QED BY <2>1, <2>2 DEF TypeOK, Routed, Expire, readerVars, jobVars, history
<1>2. CASE ChangeSilently
  <2>1. db' \in 1..MaxChanges
    BY <1>2, CacheAssumption DEF TypeOK, ChangeSilently
  <2> QED BY <1>2, <2>1 DEF TypeOK, Routed, ChangeSilently, jobFrame, readerVars, jobVars, history
<1>3. CASE UNCHANGED vars
  BY <1>3 DEF TypeOK, Routed, vars, readerVars, jobVars, history
<1> QED BY <1>1, <1>2, <1>3, ReaderTyped, BuildKeyTyped, JobTyped DEF Next

\* Every variable keeps its type, whatever the versions do.
THEOREM TypeCorrect == Spec => []TypeOK
<1>1. Spec => [](TypeOK /\ Routed)
  BY InitTyped, NextTyped, PTL DEF Spec
<1> QED BY <1>1, PTL

-----------------------------------------------------------------------------
(* What readers do to the cache *)

\* What was fresh under a version stays so.
Kept(s) == \A v \in Versions, n \in Nat : n <= db /\ FreshAt(s, v, n) => FreshAt(s, v, n)'

\* Nothing is cached, or about to be, under a version ahead of the stored one.
LEMMA NothingAhead ==
  ASSUME TypeOK, NEW s \in Spaces, EntriesBehind(s), ReadersBehind(s),
         NEW v \in Versions, v > version[s], NEW n
  PROVE  FreshAt(s, v, n)
<1>1. version[s] \in Nat /\ v \in Nat
  BY CacheAssumption DEF TypeOK, Versions
<1>2. \A p \in AllParts : SpaceOf[p] = s => entry[p][v] = 0
  BY <1>1 DEF EntriesBehind
<1>3. \A r \in Readers : pc[r] # "idle" /\ Space(r) = s => key[r] <= version[s]
  BY DEF ReadersBehind
<1>4. \A r \in Readers : Held(r) => pc[r] # "idle"
  BY DEF Held
<1>5. \A r \in Readers : ~ (Held(r) /\ Space(r) = s /\ key[r] = v)
  <2> SUFFICES ASSUME NEW r \in Readers, Held(r), Space(r) = s, key[r] = v PROVE FALSE
    OBVIOUS
  <2>1. key[r] <= version[s]
    BY <1>3, <1>4
  <2> QED BY <1>1, <2>1
<1>6. \A p \in AllParts : SpaceOf[p] = s => entry[p][v] = 0 \/ entry[p][v] >= n
  BY <1>2
<1>7. \A r \in Readers : Held(r) /\ Space(r) = s /\ key[r] = v => got[r] >= n
  BY <1>5
<1> QED BY <1>6, <1>7 DEF FreshAt

\* A request that holds a value stores it where it is due.
LEMMA StoresKeep ==
  ASSUME TypeOK, NEW s \in Spaces, NEW r \in Readers, NEW p \in AllParts, NEW w \in Versions,
         Held(r), SpaceOf[p] = Space(r), Space(r) = s => w = key[r],
         entry' = [entry EXCEPT ![p][w] = got[r]],
         UNCHANGED <<part, key, got>>, \A q \in Readers : Held(q)' => Held(q)
  PROVE  Kept(s)
<1> SUFFICES ASSUME NEW v \in Versions, NEW n \in Nat, FreshAt(s, v, n)
             PROVE  FreshAt(s, v, n)'
  BY DEF Kept
<1>1. got[r] \in Values
  BY DEF TypeOK
<1>2. \A q \in AllParts, x \in Versions :
        entry'[q][x] = IF q = p /\ x = w THEN got[r] ELSE entry[q][x]
  BY <1>1, EntryTyped
<1>3. \A q \in AllParts : SpaceOf[q] = s => entry'[q][v] = 0 \/ entry'[q][v] >= n
  BY <1>2 DEF FreshAt
<1>4. \A q \in Readers : Held(q)' /\ Space(q)' = s /\ key'[q] = v => got'[q] >= n
  BY DEF FreshAt, Space
<1> QED BY <1>3, <1>4 DEF FreshAt

\* A request that comes to hold a value holds one that is fresh for its key.
LEMMA GainsKeep ==
  ASSUME TypeOK, NEW s \in Spaces, NEW r \in Readers, UNCHANGED <<entry, part>>,
         \A q \in Readers \ {r} : pc'[q] = pc[q] /\ key'[q] = key[q] /\ got'[q] = got[q],
         Held(r)' /\ Space(r) = s =>
           /\ key'[r] = key[r]
           /\ \A n \in Nat : n <= db /\ FreshAt(s, key[r], n) => got'[r] >= n
  PROVE  Kept(s)
<1> SUFFICES ASSUME NEW v \in Versions, NEW n \in Nat, n <= db, FreshAt(s, v, n)
             PROVE  FreshAt(s, v, n)'
  BY DEF Kept
<1>1. \A q \in Readers : Held(q)' /\ Space(q)' = s /\ key'[q] = v => got'[q] >= n
  <2>1. SUFFICES ASSUME NEW q \in Readers, Held(q)', Space(q)' = s, key'[q] = v
                 PROVE  got'[q] >= n
    OBVIOUS
  <2>2. CASE q = r
    BY <2>1, <2>2 DEF Space
  <2>3. CASE q # r
    BY <2>1, <2>3 DEF Space, Held, FreshAt
  <2> QED BY <2>2, <2>3
<1>2. \A q \in AllParts : SpaceOf[q] = s => entry'[q][v] = 0 \/ entry'[q][v] >= n
  BY DEF FreshAt
<1> QED BY <1>1, <1>2 DEF FreshAt

\* A request that stops holding a value, or never does, changes nothing.
LEMMA LeavesKeep ==
  ASSUME NEW s \in Spaces, NEW r \in Readers, UNCHANGED entry, ~ Held(r)',
         \A q \in Readers \ {r} :
           pc'[q] = pc[q] /\ part'[q] = part[q] /\ key'[q] = key[q] /\ got'[q] = got[q]
  PROVE  Kept(s)
  BY DEF Kept, FreshAt, Held, Space

LEMMA ReaderKeeps ==
  ASSUME TypeOK, Routed, NEW r \in Readers, ReaderStep(r) \/ ContextStep(r),
         NEW s \in Spaces, KeysAgree(s)
  PROVE  Kept(s)
<1>a. part[r] \in AllParts /\ key[r] \in Versions /\ source[r] \in Versions
  BY HeldTyped
<1>b. pc \in [Readers -> {"idle", "keying", "keyed", "sourcing", "fetching", "storing",
                          "composing", "answered"}]
      /\ got \in [Readers -> Values]
  BY DEF TypeOK
<1>1. CASE Hit(r)
  BY <1>1, <1>b, LeavesKeep DEF Hit, Go, Held, request, readerFrame
<1>2. CASE Miss(r)
  BY <1>2, <1>b, LeavesKeep DEF Miss, Go, Held, request, readerFrame
<1>3. CASE Fetch(r)
  <2>1. got'[r] = db /\ \A q \in Readers \ {r} : got'[q] = got[q] /\ pc'[q] = pc[q]
    BY <1>3, <1>b DEF Fetch, Go
  <2>2. db \in Nat
    BY DEF TypeOK
  <2> QED BY <1>3, <2>1, <2>2, GainsKeep DEF Fetch, request
<1>4. CASE Store(r)
  <2>1. /\ Held(r) /\ UNCHANGED <<part, key, got>>
        /\ \A q \in Readers : Held(q)' => Held(q)
    BY <1>4, <1>b DEF Store, Go, Held, request
  <2>2. CASE part[r][1] = "context"
    <3>1. entry' = [entry EXCEPT ![InventoryOf(part[r])][source[r]] = got[r]]
      BY <1>4, <2>2 DEF Store
    <3>2. Space(r) = s => source[r] = key[r]
      BY <1>4 DEF Store, KeysAgree
    <3>3. InventoryOf(part[r]) \in AllParts /\ SpaceOf[InventoryOf(part[r])] = Space(r)
      BY <2>2, ReaderSpace
    <3> QED BY <1>a, <2>1, <3>1, <3>2, <3>3, StoresKeep
  <2>3. CASE part[r][1] # "context"
    <3>1. entry' = [entry EXCEPT ![part[r]][key[r]] = got[r]]
      BY <1>4, <2>3 DEF Store
    <3> QED BY <1>a, <2>1, <3>1, StoresKeep DEF Space
  <2> QED BY <2>2, <2>3
<1>5. CASE Respond(r)
  BY <1>5, <1>b, LeavesKeep DEF Respond, Go, Held, readerFrame, TypeOK
<1>6. CASE BuildContextKey(r)
  BY <1>6, <1>b, LeavesKeep DEF BuildContextKey, Go, Held, request, readerFrame, TypeOK
<1>7. CASE UseInventory(r)
  <2>1. InventoryOf(part[r]) \in AllParts /\ SpaceOf[InventoryOf(part[r])] = Space(r)
    BY <1>7, ReaderSpace DEF UseInventory, Routed
  <2>2. /\ got'[r] = entry[InventoryOf(part[r])][source[r]] /\ got'[r] # 0
        /\ \A q \in Readers \ {r} : got'[q] = got[q] /\ pc'[q] = pc[q]
    BY <1>7, <1>b DEF UseInventory, Go
  <2>3. Space(r) = s => source[r] = key[r]
    BY <1>7 DEF UseInventory, KeysAgree
  <2>4. Space(r) = s => \A n \in Nat : FreshAt(s, key[r], n) => got'[r] >= n
    BY <2>1, <2>2, <2>3 DEF FreshAt
  <2> QED BY <1>7, <2>2, <2>4, GainsKeep DEF UseInventory, request
<1>8. CASE NoInventory(r)
  BY <1>8, <1>b, LeavesKeep DEF NoInventory, Go, Held, request, readerFrame
<1>9. CASE StoreContext(r)
  <2>1. /\ Held(r) /\ UNCHANGED <<part, key, got>>
        /\ \A q \in Readers : Held(q)' => Held(q)
    BY <1>9, <1>b DEF StoreContext, Go, Held, request
  <2>2. SpaceOf[part[r]] = Space(r)
    BY ReaderSpace
  <2> QED BY <1>9, <1>a, <2>1, <2>2, StoresKeep DEF StoreContext
<1> QED BY <1>1, <1>2, <1>3, <1>4, <1>5, <1>6, <1>7, <1>8, <1>9 DEF ReaderStep, ContextStep

\* What a step of a request leaves as it was.
LEMMA ReaderMoves ==
  ASSUME TypeOK, Routed, NEW r \in Readers, ReaderStep(r) \/ ContextStep(r)
  PROVE  /\ UNCHANGED <<db, version, todo, base, reading, seen, acked, regressed>>
         /\ mixed \subseteq mixed'
         /\ \A q \in Readers : floor'[q] = floor[q] \/ floor'[q] = 0
         /\ \A q \in Readers : pc'[q] # "idle" =>
              /\ pc[q] # "idle" /\ part'[q] = part[q]
              /\ source'[q] = source[q] /\ floor'[q] = floor[q]
         /\ \A q \in Readers \ {r} :
              pc'[q] = pc[q] /\ part'[q] = part[q] /\ key'[q] = key[q]
              /\ source'[q] = source[q] /\ got'[q] = got[q]
<1> USE DEF readerFrame, jobVars, request, Go
<1>b. /\ pc \in [Readers -> {"idle", "keying", "keyed", "sourcing", "fetching", "storing",
                             "composing", "answered"}]
      /\ part \in [Readers -> Parts] /\ key \in [Readers -> Versions]
      /\ source \in [Readers -> Versions] /\ got \in [Readers -> Values]
      /\ floor \in [Readers -> Values]
  BY DEF TypeOK
<1>1. CASE Hit(r)
  BY <1>1, <1>b DEF Hit
<1>2. CASE Miss(r)
  BY <1>2, <1>b DEF Miss
<1>3. CASE Fetch(r)
  BY <1>3, <1>b DEF Fetch
<1>4. CASE Store(r)
  BY <1>4, <1>b DEF Store
<1>5. CASE Respond(r)
  BY <1>5, <1>b DEF Respond
<1>6. CASE BuildContextKey(r)
  BY <1>6, <1>b DEF BuildContextKey
<1>7. CASE UseInventory(r)
  BY <1>7, <1>b DEF UseInventory
<1>8. CASE NoInventory(r)
  BY <1>8, <1>b DEF NoInventory
<1>9. CASE StoreContext(r)
  BY <1>9, <1>b DEF StoreContext
<1> QED BY <1>1, <1>2, <1>3, <1>4, <1>5, <1>6, <1>7, <1>8, <1>9 DEF ReaderStep, ContextStep

\* The keys of a request are built from versions stored by then, and agree unless a bump
\* came in between.
LEMMA ReaderKeys ==
  ASSUME TypeOK, Routed, NEW r \in Readers, ReaderStep(r) \/ ContextStep(r), NEW s \in Spaces
  PROVE  /\ ReadersBehind(s) => ReadersBehind(s)'
         /\ KeysAgree(s) /\ s \notin mixed' => KeysAgree(s)'
<1>0. Space(r) \in Spaces /\ pc[r] # "idle"
  BY PartsHaveSpaces DEF TypeOK, Space, ReaderStep, ContextStep, Hit, Miss, Fetch, Store,
     Respond, BuildContextKey, UseInventory, NoInventory, StoreContext
<1>1. CASE BuildContextKey(r)
  <2>1. pc[r] = "keying"
    BY <1>1 DEF BuildContextKey
  <2>2. /\ key'[r] = version[Space(r)]
        /\ Space(r) \notin mixed' => source[r] = version[Space(r)]
        /\ version[Space(r)] \in Nat
    BY <1>0, <1>1, <2>1, CacheAssumption DEF BuildContextKey, TypeOK, Versions
  <2>3. ReadersBehind(s) => ReadersBehind(s)'
    BY <1>0, <2>1, <2>2, ReaderMoves DEF ReadersBehind, Space
  <2>4. KeysAgree(s) /\ s \notin mixed' => KeysAgree(s)'
    BY <1>0, <2>1, <2>2, ReaderMoves DEF KeysAgree, Space
  <2> QED BY <2>3, <2>4
<1>2. CASE ~ BuildContextKey(r)
  <2>1. pc'[r] # "idle" => key'[r] = key[r] /\ pc[r] \notin {"idle", "keying"}
    <3> USE DEF request, Go
    <3>b. pc \in [Readers -> {"idle", "keying", "keyed", "sourcing", "fetching", "storing",
                              "composing", "answered"}]
      BY DEF TypeOK
    <3>1. CASE Respond(r)
      BY <3>b, <3>1 DEF Respond
    <3>2. CASE ~ Respond(r)
      BY <1>2, <3>b, <3>2 DEF ReaderStep, ContextStep, Hit, Miss, Fetch, Store,
         UseInventory, NoInventory, StoreContext
    <3> QED BY <3>1, <3>2
  <2>2. ReadersBehind(s) => ReadersBehind(s)'
    BY <2>1, ReaderMoves DEF ReadersBehind, Space
  <2>3. KeysAgree(s) => KeysAgree(s)'
    BY <2>1, ReaderMoves DEF KeysAgree, Space
  <2> QED BY <2>2, <2>3
<1> QED BY <1>1, <1>2

LEMMA ReaderEntries ==
  ASSUME TypeOK, Routed, NEW r \in Readers, ReaderStep(r) \/ ContextStep(r),
         NEW s \in Spaces, EntriesBehind(s), ReadersBehind(s)
  PROVE  EntriesBehind(s)'
<1>0. version' = version
  BY ReaderMoves
<1>a. part[r] \in AllParts /\ key[r] \in Versions /\ source[r] \in Versions /\ got[r] \in Values
  BY HeldTyped
<1>b. /\ SpaceOf[part[r]] = Space(r)
      /\ part[r][1] = "context" => /\ InventoryOf(part[r]) \in AllParts
                                   /\ SpaceOf[InventoryOf(part[r])] = Space(r)
  BY ReaderSpace
<1>1. CASE entry' = entry
  BY <1>0, <1>1 DEF EntriesBehind
<1>2. CASE Store(r)
  <2>1. pc[r] # "idle"
    BY <1>2 DEF Store
  <2>2. CASE part[r][1] = "context"
    <3>1. entry' = [entry EXCEPT ![InventoryOf(part[r])][source[r]] = got[r]]
      BY <1>2, <2>2 DEF Store
    <3>2. \A p \in AllParts, v \in Versions :
            entry'[p][v] = IF p = InventoryOf(part[r]) /\ v = source[r] THEN got[r] ELSE entry[p][v]
      <4>1. PICK p \in AllParts, v \in Versions, x \in Values :
              p = InventoryOf(part[r]) /\ v = source[r] /\ x = got[r]
        BY <1>a, <1>b, <2>2
      <4>2. entry' = [entry EXCEPT ![p][v] = x]
        BY <3>1, <4>1
      <4> QED BY <4>1, <4>2, EntryTyped
    <3> QED BY <1>0, <1>b, <2>1, <2>2, <3>2 DEF EntriesBehind, ReadersBehind, Space
  <2>3. CASE part[r][1] # "context"
    <3>1. entry' = [entry EXCEPT ![part[r]][key[r]] = got[r]]
      BY <1>2, <2>3 DEF Store
    <3>2. \A p \in AllParts, v \in Versions :
            entry'[p][v] = IF p = part[r] /\ v = key[r] THEN got[r] ELSE entry[p][v]
      BY <1>a, <3>1, EntryTyped
    <3> QED BY <1>0, <2>1, <3>2 DEF EntriesBehind, ReadersBehind, Space
  <2> QED BY <2>2, <2>3
<1>3. CASE StoreContext(r)
  <2>1. pc[r] # "idle" /\ part[r][1] = "context"
    BY <1>3 DEF StoreContext, Routed
  <2>2. \A p \in AllParts, v \in Versions :
          entry'[p][v] = IF p = part[r] /\ v = key[r] THEN got[r] ELSE entry[p][v]
    BY <1>3, <1>a, <1>b, EntryTyped DEF StoreContext
  <2> QED BY <1>0, <2>1, <2>2 DEF EntriesBehind, ReadersBehind, Space
<1> QED BY <1>1, <1>2, <1>3 DEF ReaderStep, ContextStep, Hit, Miss, Fetch, Respond,
     BuildContextKey, UseInventory, NoInventory

\* An answer is one the request may find, or may store.
LEMMA ReaderAnswers ==
  ASSUME TypeOK, Routed, AnswersFresh, NEW r \in Readers, ReaderStep(r) \/ ContextStep(r),
         \A s \in Spaces \ Spoiled : KeysAgree(s) /\ ServesTruth(s)
  PROVE  AnswersFresh'
<1> SUFFICES ASSUME NEW q \in Readers, pc'[q] = "answered", Space(q)' \notin Spoiled'
             PROVE  got'[q] >= floor'[q]
  BY DEF AnswersFresh
<1>1. Space(q)' = Space(q) /\ Space(q) \in Spaces /\ Space(q) \notin Spoiled
      /\ floor'[q] = floor[q]
  BY ReaderMoves, PartsHaveSpaces DEF Space, Spoiled, TypeOK
<1>2. CASE q # r
  BY <1>1, <1>2, ReaderMoves DEF AnswersFresh
<1>3. CASE q = r
  <2>b. /\ pc \in [Readers -> {"idle", "keying", "keyed", "sourcing", "fetching", "storing",
                               "composing", "answered"}]
        /\ got \in [Readers -> Values]
    BY DEF TypeOK
  <2>1. \/ Hit(r) /\ got'[r] = entry[part[r]][key[r]]
        \/ (Store(r) \/ StoreContext(r)) /\ got'[r] = got[r] /\ pc[r] \in {"storing", "composing"}
    BY <1>3, <2>b DEF ReaderStep, ContextStep, Hit, Miss, Fetch, Store, Respond,
       BuildContextKey, UseInventory, NoInventory, StoreContext, Go
  <2>2. pc[r] \notin {"idle", "keying"}
    BY <2>1 DEF Hit
  <2>3. source[r] = key[r] /\ FreshAt(Space(r), key[r], floor[r])
    BY <1>1, <1>3, <2>2 DEF KeysAgree, ServesTruth
  <2>4. CASE Hit(r)
    BY <1>1, <1>3, <2>1, <2>3, <2>4, HeldTyped DEF Hit, FreshAt, Space
  <2>5. CASE ~ Hit(r)
    BY <1>1, <1>3, <2>1, <2>3, <2>5 DEF FreshAt, Held
  <2> QED BY <2>4, <2>5
<1> QED BY <1>2, <1>3

\* While versions and jobs stay, what was sound stays so if what was fresh does.
LEMMA StillSound ==
  ASSUME TypeOK, Bounded, NEW s \in Spaces, Sound(s), Kept(s), KeysAgree(s)',
         UNCHANGED <<version, acked, todo, base, reading, seen>>,
         \A q \in Readers : pc'[q] # "idle" =>
           /\ pc[q] # "idle" /\ part'[q] = part[q]
           /\ source'[q] = source[q] /\ floor'[q] = floor[q]
  PROVE  Sound(s)'
<1>1. TellsTruth(s)'
  <2>1. PICK v \in Versions, n \in Nat : v = version[s] /\ n = acked[s] /\ n <= db
    BY CacheAssumption DEF TypeOK, Bounded, Values
  <2>2. FreshAt(s, v, n)'
    BY <2>1 DEF Sound, TellsTruth, Kept
  <2> QED BY <2>1, <2>2 DEF TellsTruth
<1>2. BumpsTruly(s)'
  <2> SUFFICES ASSUME NEW j \in reading, Target(j) = s, base[j] < MaxBumps
               PROVE  FreshAt(s, base[j] + 1, seen[j])'
    BY DEF BumpsTruly, Target
  <2>1. PICK v \in Versions, n \in Nat : v = base[j] + 1 /\ n = seen[j] /\ n <= db
    <3>1. base[j] \in Nat /\ base[j] + 1 <= MaxBumps
      BY CacheAssumption DEF TypeOK, Versions
    <3>2. base[j] + 1 \in Versions
      BY <3>1, CacheAssumption DEF Versions
    <3>3. seen[j] \in Nat /\ seen[j] <= db
      BY DEF TypeOK, Bounded, Values
    <3> QED BY <3>2, <3>3
  <2>2. FreshAt(s, v, n)'
    BY <2>1 DEF Sound, BumpsTruly, Kept
  <2> QED BY <2>1, <2>2
<1>3. ServesTruth(s)'
  <2> SUFFICES ASSUME NEW q \in Readers, pc'[q] # "idle", Space(q)' = s
               PROVE  FreshAt(s, source[q], floor[q])'
    BY DEF ServesTruth
  <2>1. PICK v \in Versions, n \in Nat : v = source[q] /\ n = floor[q] /\ n <= db
    BY CacheAssumption DEF TypeOK, Bounded, Values
  <2>2. FreshAt(s, v, n)'
    BY <2>1 DEF Sound, ServesTruth, Space, Kept
  <2> QED BY <2>1, <2>2
<1> QED BY <1>1, <1>2, <1>3 DEF Sound

LEMMA ReaderInvariant ==
  ASSUME TypeOK, IInv, NEW r \in Readers, ReaderStep(r) \/ ContextStep(r)
  PROVE  IInv'
<1>1. Routed'
  BY ReaderTyped DEF IInv
<1>2. Bounded'
  BY ReaderMoves, CacheAssumption DEF IInv, Bounded, TypeOK
<1>3. AnswersFresh'
  BY ReaderAnswers DEF IInv, Sound
<1>4. \A s \in Spaces \ regressed' : EntriesBehind(s)' /\ ReadersBehind(s)'
  BY ReaderMoves, ReaderEntries, ReaderKeys DEF IInv
<1>5. ASSUME NEW s \in Spaces \ Spoiled' PROVE Sound(s)'
  <2>1. s \in Spaces \ Spoiled /\ s \notin mixed'
    BY ReaderMoves DEF IInv, Spoiled
  <2>2. Sound(s) /\ KeysAgree(s)
    BY <2>1 DEF IInv, Sound
  <2>3. Kept(s) /\ KeysAgree(s)'
    BY <2>1, <2>2, ReaderKeeps, ReaderKeys DEF IInv
  <2> QED BY <2>1, <2>2, <2>3, StillSound, ReaderMoves DEF IInv
<1> QED BY <1>1, <1>2, <1>3, <1>4, <1>5 DEF IInv

\* A new request is owed what its namespace was told of, under the version stored.
LEMMA BuildKeyInvariant ==
  ASSUME TypeOK, IInv, NEW r \in Readers, NEW p \in Parts, BuildKey(r, p)
  PROVE  IInv'
<1> DEFINE o == SpaceOf[p]
<1>a. Bounded
  BY DEF IInv
<1>0. /\ o \in Spaces /\ p \in AllParts
      /\ version[o] \in Versions /\ acked[o] \in Values
  BY PartsHaveSpaces DEF TypeOK
<1>b. /\ pc \in [Readers -> {"idle", "keying", "keyed", "sourcing", "fetching", "storing",
                             "composing", "answered"}]
      /\ part \in [Readers -> Parts] /\ key \in [Readers -> Versions]
      /\ source \in [Readers -> Versions] /\ got \in [Readers -> Values]
      /\ floor \in [Readers -> Values]
  BY DEF TypeOK
<1>2. /\ UNCHANGED <<db, version, todo, base, reading, seen, acked, regressed, mixed, entry>>
      /\ pc[r] = "idle" /\ pc'[r] \in {"keying", "keyed"} /\ part'[r] = p
      /\ key'[r] = version[o] /\ source'[r] = version[o] /\ floor'[r] = acked[o]
  BY <1>b DEF BuildKey, Go, readerFrame, jobVars
<1>3. \A q \in Readers \ {r} :
        /\ pc'[q] = pc[q] /\ part'[q] = part[q] /\ key'[q] = key[q]
        /\ source'[q] = source[q] /\ got'[q] = got[q] /\ floor'[q] = floor[q]
  BY <1>b DEF BuildKey, Go
<1>4. Space(r)' = o /\ \A q \in Readers \ {r} : Space(q)' = Space(q)
  BY <1>2, <1>3 DEF Space
<1>5. Routed'
  BY BuildKeyTyped DEF IInv
<1>6. Bounded'
  BY <1>0, <1>2, <1>3 DEF IInv, Bounded
<1>7. AnswersFresh'
  BY <1>2, <1>3, <1>4 DEF IInv, AnswersFresh, Spoiled
<1>8. ASSUME NEW s \in Spaces \ regressed' PROVE EntriesBehind(s)' /\ ReadersBehind(s)'
  <2>1. EntriesBehind(s) /\ ReadersBehind(s)
    BY <1>2 DEF IInv
  <2>2. EntriesBehind(s)'
    BY <1>2, <2>1 DEF EntriesBehind
  <2>3. version[o] <= version[o]
    BY <1>0, CacheAssumption DEF Versions
  <2>4. ReadersBehind(s)'
    BY <1>2, <1>3, <1>4, <2>1, <2>3 DEF ReadersBehind
  <2> QED BY <2>2, <2>4
<1>9. ASSUME NEW s \in Spaces \ Spoiled' PROVE Sound(s)'
  <2>1. Sound(s) /\ s \in Spaces
    BY <1>2 DEF IInv, Spoiled
  <2>2. KeysAgree(s)'
    BY <1>2, <1>3, <1>4, <2>1 DEF Sound, KeysAgree
  <2>3. Kept(s)
    BY <1>2, <1>3, LeavesKeep DEF Held
  <2>4. ASSUME NEW v \in Versions, NEW n \in Nat, n <= db, FreshAt(s, v, n)
        PROVE  FreshAt(s, v, n)'
    BY <2>3, <2>4 DEF Kept
  <2>5. TellsTruth(s)'
    <3>1. PICK v \in Versions, n \in Nat : v = version[s] /\ n = acked[s] /\ n <= db
      BY <1>a, <2>1, CacheAssumption DEF TypeOK, Bounded, Values
    <3>2. FreshAt(s, v, n)'
      BY <2>1, <2>4, <3>1 DEF Sound, TellsTruth
    <3> QED BY <1>2, <3>1, <3>2 DEF TellsTruth
  <2>6. BumpsTruly(s)'
    <3> SUFFICES ASSUME NEW j \in reading, Target(j) = s, base[j] < MaxBumps
                 PROVE  FreshAt(s, base[j] + 1, seen[j])'
      BY <1>2 DEF BumpsTruly, Target
    <3>a. base[j] \in Versions /\ seen[j] \in Values /\ seen[j] <= db
      BY <1>a DEF TypeOK, Bounded
    <3>b. base[j] + 1 \in Versions
      BY <3>a, CacheAssumption DEF Versions
    <3>1. PICK v \in Versions, n \in Nat : v = base[j] + 1 /\ n = seen[j] /\ n <= db
      BY <3>a, <3>b, CacheAssumption DEF Values
    <3>2. FreshAt(s, v, n)'
      BY <2>1, <2>4, <3>1 DEF Sound, BumpsTruly
    <3> QED BY <1>2, <3>1, <3>2
  <2>7. ServesTruth(s)'
    <3> SUFFICES ASSUME NEW q \in Readers, pc'[q] # "idle", Space(q)' = s
                 PROVE  FreshAt(s, source[q], floor[q])'
      BY DEF ServesTruth
    <3>1. CASE q = r
      BY <1>2, <1>4, <2>5, <3>1 DEF TellsTruth
    <3>2. CASE q # r
      <4>1. PICK v \in Versions, n \in Nat : v = source[q] /\ n = floor[q] /\ n <= db
        BY <1>a, CacheAssumption DEF TypeOK, Bounded, Values
      <4>2. FreshAt(s, v, n)
        BY <1>3, <1>4, <2>1, <3>2, <4>1 DEF Sound, ServesTruth
      <4>3. FreshAt(s, v, n)'
        BY <2>4, <4>1, <4>2
      <4>4. source'[q] = v /\ floor'[q] = n
        BY <1>3, <3>2, <4>1
      <4> QED BY <4>3, <4>4
    <3> QED BY <3>1, <3>2
  <2> QED BY <2>2, <2>5, <2>6, <2>7 DEF Sound
<1> QED BY <1>5, <1>6, <1>7, <1>8, <1>9 DEF IInv

LEMMA ExpireInvariant ==
  ASSUME TypeOK, IInv, NEW p \in AllParts, NEW w \in Versions, Expire(p, w)
  PROVE  IInv'
<1>1. /\ UNCHANGED <<db, version, pc, part, key, source, got, floor, todo, base, reading, seen,
                     acked, regressed, mixed>>
      /\ \A q \in AllParts, v \in Versions : entry'[q][v] = 0 \/ entry'[q][v] = entry[q][v]
  <2>1. 0 \in Values /\ entry' = [entry EXCEPT ![p][w] = 0]
    BY CacheAssumption DEF Expire, Values
  <2>2. \A q \in AllParts, v \in Versions :
          entry'[q][v] = IF q = p /\ v = w THEN 0 ELSE entry[q][v]
    BY <2>1, EntryTyped
  <2> QED BY <2>2 DEF Expire, readerVars, jobVars, history
<1>2. Routed' /\ Bounded' /\ AnswersFresh'
  BY <1>1 DEF IInv, Routed, Bounded, AnswersFresh, Spoiled, Space
<1>3. ASSUME NEW s \in Spaces \ regressed' PROVE EntriesBehind(s)' /\ ReadersBehind(s)'
  BY <1>1 DEF IInv, EntriesBehind, ReadersBehind, Space
<1>4. ASSUME NEW s \in Spaces \ Spoiled' PROVE Sound(s)'
  <2>1. Sound(s) /\ s \in Spaces
    BY <1>1 DEF IInv, Spoiled
  <2>2. Kept(s)
    <3> SUFFICES ASSUME NEW v \in Versions, NEW n \in Nat, FreshAt(s, v, n)
                 PROVE  FreshAt(s, v, n)'
      BY DEF Kept
    <3>1. \A q \in AllParts : SpaceOf[q] = s => entry'[q][v] = 0 \/ entry'[q][v] >= n
      BY <1>1 DEF FreshAt
    <3>2. \A r \in Readers : Held(r)' /\ Space(r)' = s /\ key'[r] = v => got'[r] >= n
      <4> SUFFICES ASSUME NEW r \in Readers, Held(r)', Space(r)' = s, key'[r] = v
                   PROVE  got'[r] >= n
        OBVIOUS
      <4>1. Held(r) /\ Space(r) = s /\ key[r] = v /\ got'[r] = got[r]
        BY <1>1 DEF Held, Space
      <4> QED BY <4>1 DEF FreshAt
    <3> QED BY <3>1, <3>2 DEF FreshAt
  <2>3. KeysAgree(s)'
    BY <1>1, <2>1 DEF Sound, KeysAgree, Space
  <2> QED BY <1>1, <2>1, <2>2, <2>3, StillSound DEF IInv
<1> QED BY <1>2, <1>3, <1>4 DEF IInv

-----------------------------------------------------------------------------
(* What jobs do to the versions *)

\* Jobs leave the cache alone.
LEMMA FreshStays ==
  ASSUME UNCHANGED <<entry, readerVars>>, NEW s, NEW v, NEW n
  PROVE  FreshAt(s, v, n)' <=> FreshAt(s, v, n)
  BY DEF FreshAt, Held, Space, readerVars

\* A job that has read a version and moves on changes nothing for those that have not.
LEMMA BumpsStay ==
  ASSUME UNCHANGED <<entry, readerVars>>, NEW s, BumpsTruly(s),
         \A q \in reading' : /\ q \in reading /\ todo'[q] = todo[q]
                             /\ base'[q] = base[q] /\ seen'[q] = seen[q]
  PROVE  BumpsTruly(s)'
<1> SUFFICES ASSUME NEW q \in reading', Target(q)' = s, base'[q] < MaxBumps
             PROVE  FreshAt(s, base[q] + 1, seen[q])'
  BY DEF BumpsTruly
<1>1. PICK v, n : v = base[q] + 1 /\ n = seen[q]
  OBVIOUS
<1>2. Target(q) = s /\ base[q] < MaxBumps
  BY DEF Target
<1>3. FreshAt(s, v, n)
  BY <1>1, <1>2 DEF BumpsTruly
<1>4. FreshAt(s, v, n)'
  BY <1>3, FreshStays
<1>5. base'[q] + 1 = v /\ seen'[q] = n
  BY <1>1
<1> QED BY <1>4, <1>5

\* A step that leaves cache, versions and requests alone is judged by its bumps.
LEMMA QuietSteps ==
  ASSUME TypeOK, IInv, UNCHANGED <<version, entry, readerVars, history>>,
         Bounded', \A s \in Spaces \ Spoiled : BumpsTruly(s)'
  PROVE  IInv'
<1>1. Routed' /\ AnswersFresh' /\ Spoiled' = Spoiled /\ regressed' = regressed
  BY DEF IInv, Routed, AnswersFresh, Spoiled, Space, readerVars, history
<1>2. \A s \in Spaces \ regressed' : EntriesBehind(s)' /\ ReadersBehind(s)'
  BY DEF IInv, EntriesBehind, ReadersBehind, Space, readerVars, history
<1>3. ASSUME NEW s \in Spaces \ Spoiled' PROVE Sound(s)'
  <2>1. s \in Spaces \ Spoiled
    BY <1>1
  <2>2. KeysAgree(s) /\ TellsTruth(s) /\ ServesTruth(s)
    BY <2>1 DEF IInv, Sound
  <2>3. KeysAgree(s)'
    BY <2>2 DEF KeysAgree, Space, readerVars
  <2>4. TellsTruth(s)'
    BY <2>2 DEF TellsTruth, FreshAt, Held, Space, readerVars, history
  <2>5. ServesTruth(s)'
    BY <2>2 DEF ServesTruth, FreshAt, Held, Space, readerVars
  <2> QED BY <2>1, <2>3, <2>4, <2>5 DEF Sound
<1> QED BY <1>1, <1>2, <1>3 DEF IInv

LEMMA ChangeInvariant == ASSUME TypeOK, IInv, ChangeSilently PROVE IInv'
<1>1. UNCHANGED <<version, entry, readerVars, history, todo, base, reading, seen>> /\ db <= db'
  BY DEF ChangeSilently, TypeOK, jobFrame, jobVars
<1>2. Bounded'
  BY <1>1, CacheAssumption DEF IInv, Bounded, TypeOK, Values, ChangeSilently, readerVars, history
<1>3. ASSUME NEW s \in Spaces \ Spoiled PROVE BumpsTruly(s)'
  BY <1>1, BumpsStay DEF IInv, Sound
<1> QED BY <1>1, <1>2, <1>3, QuietSteps

\* A job that starts has read no version yet.
LEMMA StartInvariant ==
  ASSUME TypeOK, IInv, NEW j \in Jobs,
         NEW n \in BOOLEAN, Write(j, n) \/ Refresh(j, n) \/ ClearCache(j, n)
  PROVE  IInv'
<1>a. Bounded
  BY DEF IInv
<1>1. /\ UNCHANGED <<version, entry, readerVars, history, base, reading>>
      /\ db \in Nat /\ db' \in Nat /\ db <= db' /\ todo[j] = {}
      /\ seen'[j] = db'
      /\ \A q \in Jobs \ {j} : todo'[q] = todo[q] /\ seen'[q] = seen[q]
  BY DEF Write, Refresh, ClearCache, TypeOK, jobFrame
<1>2. \A q \in reading : q \in Jobs /\ q # j
  BY <1>1, <1>a DEF Bounded, TypeOK
<1>3. Bounded'
  <2>1. ASSUME NEW q \in Jobs PROVE seen'[q] <= db'
    <3>1. CASE q = j
      BY <1>1, <3>1
    <3>2. CASE q # j
      <4>1. seen'[q] = seen[q] /\ seen[q] <= db
        BY <1>1, <1>a, <3>2 DEF Bounded
      <4>2. seen[q] \in Nat
        BY CacheAssumption DEF TypeOK, Values
      <4> QED BY <1>1, <4>1, <4>2
    <3> QED BY <3>1, <3>2
  <2>2. \A s \in Spaces : acked'[s] <= db'
    BY <1>1, <1>a, CacheAssumption DEF Bounded, TypeOK, Values, history
  <2>3. \A r \in Readers : floor'[r] <= db'
    BY <1>1, <1>a, CacheAssumption DEF Bounded, TypeOK, Values, readerVars
  <2>4. \A q \in reading' : todo'[q] # {}
    BY <1>1, <1>2, <1>a DEF Bounded
  <2> QED BY <2>1, <2>2, <2>3, <2>4 DEF Bounded
<1>4. ASSUME NEW s \in Spaces \ Spoiled PROVE BumpsTruly(s)'
  BY <1>1, <1>2, BumpsStay DEF IInv, Sound
<1> QED BY <1>1, <1>3, <1>4, QuietSteps

LEMMA BumpFailsInvariant ==
  ASSUME TypeOK, IInv, NEW j \in Jobs, BumpFails(j)
  PROVE  IInv'
<1>a. Bounded
  BY DEF IInv
<1>1. /\ UNCHANGED <<db, version, entry, readerVars, history>>
      /\ reading' = reading \ {j} /\ seen'[j] = 0 /\ reading \subseteq Jobs
      /\ \A q \in Jobs \ {j} : todo'[q] = todo[q] /\ seen'[q] = seen[q] /\ base'[q] = base[q]
  BY DEF BumpFails, TypeOK, jobFrame
<1>2. Bounded'
  <2>0. db \in Nat /\ db' = db
    BY <1>1 DEF TypeOK
  <2>1. ASSUME NEW q \in Jobs PROVE seen'[q] <= db'
    <3>1. CASE q = j
      BY <1>1, <2>0, <3>1
    <3>2. CASE q # j
      BY <1>1, <1>a, <2>0, <3>2 DEF Bounded
    <3> QED BY <3>1, <3>2
  <2>2. \A s \in Spaces : acked'[s] <= db'
    BY <1>1, <1>a DEF Bounded, history
  <2>3. \A r \in Readers : floor'[r] <= db'
    BY <1>1, <1>a DEF Bounded, readerVars
  <2>4. \A q \in reading' : todo'[q] # {}
    BY <1>1, <1>a DEF Bounded
  <2> QED BY <2>1, <2>2, <2>3, <2>4 DEF Bounded
<1>3. ASSUME NEW s \in Spaces \ Spoiled PROVE BumpsTruly(s)'
  BY <1>1, BumpsStay DEF IInv, Sound
<1> QED BY <1>1, <1>2, <1>3, QuietSteps

\* Nothing lies ahead of the version a bump has read of a namespace that never went back.
LEMMA ReadVersionInvariant ==
  ASSUME TypeOK, IInv, NEW j \in Jobs, ReadVersion(j)
  PROVE  IInv'
<1>a. Bounded
  BY DEF IInv
<1>1. /\ UNCHANGED <<db, version, entry, readerVars, history, todo, seen>>
      /\ todo[j] # {} /\ reading' = reading \cup {j} /\ reading \subseteq Jobs
      /\ base'[j] = version[Target(j)]
      /\ \A q \in Jobs \ {j} : base'[q] = base[q]
  BY DEF ReadVersion, TypeOK, jobFrame
<1>2. Bounded'
  BY <1>1, <1>a DEF Bounded, readerVars, history
<1>3. ASSUME NEW s \in Spaces \ Spoiled PROVE BumpsTruly(s)'
  <2> SUFFICES ASSUME NEW q \in reading', Target(q)' = s, base'[q] < MaxBumps
               PROVE  FreshAt(s, base[q] + 1, seen[q])'
    BY DEF BumpsTruly
  <2>1. PICK v, n : v = base'[q] + 1 /\ n = seen[q]
    OBVIOUS
  <2>2. Target(q) = s
    BY <1>1 DEF Target
  <2>3. FreshAt(s, v, n)
    <3>1. CASE q = j
      <4>1. v \in Versions /\ v > version[s]
        BY <1>1, <2>1, <2>2, <3>1, CacheAssumption DEF TypeOK, Versions
      <4>2. EntriesBehind(s) /\ ReadersBehind(s)
        BY DEF IInv, Spoiled
      <4> QED BY <4>1, <4>2, NothingAhead
    <3>2. CASE q # j
      <4>1. q \in reading /\ base'[q] = base[q] /\ BumpsTruly(s)
        BY <1>1, <3>2 DEF IInv, Sound
      <4> QED BY <2>1, <2>2, <4>1 DEF BumpsTruly
    <3> QED BY <3>1, <3>2
  <2>4. FreshAt(s, v, n)'
    BY <1>1, <2>3, FreshStays
  <2>5. base'[q] + 1 = v /\ seen'[q] = n
    BY <1>1, <2>1
  <2> QED BY <2>4, <2>5
<1> QED BY <1>1, <1>2, <1>3, QuietSteps

\* A bump that does not set the version back either moves it, to where nothing is cached,
\* or writes what is there already, and then what is cached under it has seen what both
\* bumps tell of.
LEMMA WriteVersionInvariant ==
  ASSUME TypeOK, IInv, NEW j \in Jobs, WriteVersion(j)
  PROVE  IInv'
<1>a. Bounded
  BY DEF IInv
<1>0. PICK o \in Spaces : o = Target(j)
  BY TargetInTodo DEF WriteVersion
<1>1. PICK v \in Versions : v = base[j] + 1
  BY DEF WriteVersion
<1>2. /\ UNCHANGED <<db, entry, readerVars, mixed>>
      /\ j \in reading /\ reading' = reading \ {j} /\ reading \subseteq Jobs
      /\ version'[o] = v /\ \A s \in Spaces \ {o} : version'[s] = version[s]
      /\ acked'[o] = Later(acked[o], seen[j])
      /\ \A s \in Spaces \ {o} : acked'[s] = acked[s]
      /\ regressed' = regressed \cup {x \in {o} : v < version[x]}
      /\ \A q \in Jobs \ {j} : todo'[q] = todo[q] /\ seen'[q] = seen[q] /\ base'[q] = base[q]
  BY <1>0, <1>1 DEF WriteVersion, TypeOK
<1>3. /\ v \in Nat /\ db \in Nat /\ seen[j] \in Nat /\ seen[j] <= db
      /\ \A s \in Spaces : version[s] \in Nat /\ acked[s] \in Nat /\ acked[s] <= db
  BY <1>a, CacheAssumption DEF TypeOK, Versions, Values, Bounded
<1>4. acked'[o] \in {acked[o], seen[j]}
  BY <1>2 DEF Later
<1>5. o \notin regressed' => version[o] <= v
  BY <1>2, <1>3
<1>6. Bounded'
  <2>1. ASSUME NEW q \in Jobs PROVE seen'[q] <= db'
    <3>1. seen'[q] \in {0, seen[q]} /\ seen[q] <= db
      BY <1>a DEF WriteVersion, Bounded, TypeOK
    <3> QED BY <1>2, <1>3, <3>1
  <2>2. ASSUME NEW s \in Spaces PROVE acked'[s] <= db'
    BY <1>2, <1>3, <1>4
  <2>3. \A r \in Readers : floor'[r] <= db'
    BY <1>2, <1>a DEF Bounded, readerVars
  <2>4. \A q \in reading' : todo'[q] # {}
    BY <1>2, <1>a DEF Bounded
  <2> QED BY <2>1, <2>2, <2>3, <2>4 DEF Bounded
<1>7. Routed' /\ AnswersFresh'
  BY <1>2 DEF IInv, Routed, AnswersFresh, Spoiled, Space, readerVars
<1>8. ASSUME NEW s \in Spaces \ regressed' PROVE EntriesBehind(s)' /\ ReadersBehind(s)'
  <2>1. EntriesBehind(s) /\ ReadersBehind(s)
    BY <1>2 DEF IInv
  <2>2. version[s] <= version'[s] /\ version[s] \in Nat /\ version'[s] \in Nat
    BY <1>2, <1>3, <1>5
  <2>3. EntriesBehind(s)'
    <3> SUFFICES ASSUME NEW p \in AllParts, NEW w \in Versions, SpaceOf[p] = s, entry'[p][w] # 0
                 PROVE  w <= version'[s]
      BY DEF EntriesBehind
    <3>1. w <= version[s] /\ w \in Nat
      BY <1>2, <2>1, CacheAssumption DEF EntriesBehind, Versions
    <3> QED BY <2>2, <3>1
  <2>4. ReadersBehind(s)'
    <3> SUFFICES ASSUME NEW r \in Readers, pc'[r] # "idle", Space(r)' = s
                 PROVE  key'[r] <= version'[s] /\ source'[r] <= version'[s]
      BY DEF ReadersBehind
    <3>1. /\ key'[r] = key[r] /\ source'[r] = source[r]
          /\ key[r] <= version[s] /\ source[r] <= version[s]
      BY <1>2, <2>1 DEF ReadersBehind, Space, readerVars
    <3>2. key[r] \in Nat /\ source[r] \in Nat
      BY CacheAssumption DEF TypeOK, Versions
    <3> QED BY <2>2, <3>1, <3>2
  <2> QED BY <2>3, <2>4
<1>9. ASSUME NEW s \in Spaces \ Spoiled' PROVE Sound(s)'
  <2>1. s \in Spaces \ Spoiled /\ s \notin regressed'
    BY <1>2 DEF Spoiled
  <2>2. KeysAgree(s) /\ TellsTruth(s) /\ BumpsTruly(s) /\ ServesTruth(s)
        /\ EntriesBehind(s) /\ ReadersBehind(s)
    BY <2>1 DEF IInv, Sound, Spoiled
  <2>3. KeysAgree(s)'
    BY <1>2, <2>2 DEF KeysAgree, Space, readerVars
  <2>4. ServesTruth(s)'
    BY <1>2, <2>2 DEF ServesTruth, FreshAt, Held, Space, readerVars
  <2>5. BumpsTruly(s)'
    BY <1>2, <2>2, BumpsStay
  <2>6. TellsTruth(s)'
    <3>1. PICK w, n : w = version'[s] /\ n = acked'[s]
      OBVIOUS
    <3>2. FreshAt(s, w, n)
      <4>1. CASE s # o
        BY <1>2, <2>2, <3>1, <4>1 DEF TellsTruth
      <4>2. CASE s = o /\ v > version[o]
        BY <1>2, <2>2, <3>1, <4>2, NothingAhead
      <4>3. CASE s = o /\ v = version[o]
        <5>1. FreshAt(s, v, acked[o])
          BY <2>2, <4>3 DEF TellsTruth
        <5>2. base[j] < MaxBumps
          BY <1>1, CacheAssumption DEF TypeOK, Versions
        <5>3. FreshAt(s, v, seen[j])
          BY <1>0, <1>1, <1>2, <2>2, <4>3, <5>2 DEF BumpsTruly
        <5> QED BY <1>2, <1>4, <3>1, <4>3, <5>1, <5>3
      <4> QED BY <1>3, <1>5, <2>1, <4>1, <4>2, <4>3
    <3>3. FreshAt(s, w, n)'
      BY <1>2, <3>2, FreshStays
    <3> QED BY <3>1, <3>3 DEF TellsTruth
  <2> QED BY <2>3, <2>4, <2>5, <2>6 DEF Sound
<1> QED BY <1>6, <1>7, <1>8, <1>9 DEF IInv

-----------------------------------------------------------------------------
(* The theorems *)

LEMMA InitInvariant == Init => IInv
<1> SUFFICES ASSUME Init PROVE IInv
  OBVIOUS
<1>1. Routed /\ Bounded /\ AnswersFresh
  BY DEF Init, Routed, Bounded, AnswersFresh
<1>2. ASSUME NEW s \in Spaces PROVE EntriesBehind(s) /\ ReadersBehind(s)
  BY DEF Init, EntriesBehind, ReadersBehind
<1>3. ASSUME NEW s \in Spaces PROVE Sound(s)
  <2>1. \A n : \A v \in Versions : FreshAt(s, v, n)
    BY DEF Init, FreshAt, Held
  <2>2. version[s] \in Versions
    BY CacheAssumption DEF Init, Versions
  <2> QED BY <2>1, <2>2 DEF Init, Sound, KeysAgree, TellsTruth, BumpsTruly, ServesTruth
<1> QED BY <1>1, <1>2, <1>3 DEF IInv

LEMMA NextInvariant == TypeOK /\ IInv /\ [Next]_vars => IInv'
<1> SUFFICES ASSUME TypeOK, IInv, [Next]_vars PROVE IInv'
  OBVIOUS
<1>1. ASSUME NEW j \in Jobs, JobStep(j) PROVE IInv'
  BY <1>1, StartInvariant, ReadVersionInvariant, WriteVersionInvariant, BumpFailsInvariant
  DEF JobStep
<1>2. CASE UNCHANGED vars
  <2>1. /\ UNCHANGED <<version, entry, readerVars, history>>
        /\ UNCHANGED <<db, todo, base, reading, seen>>
    BY <1>2 DEF vars, jobVars
  <2>2. Bounded'
    BY <2>1 DEF IInv, Bounded, readerVars, history
  <2>3. ASSUME NEW s \in Spaces \ Spoiled PROVE BumpsTruly(s)'
    BY <2>1, BumpsStay DEF IInv, Sound
  <2> QED BY <2>1, <2>2, <2>3, QuietSteps
<1> QED BY <1>1, <1>2, ReaderInvariant, BuildKeyInvariant, ExpireInvariant, ChangeInvariant
     DEF Next

\* The types and the inductive invariant, for all requests, jobs and namespaces.
THEOREM Invariance == Spec => [](TypeOK /\ IInv)
<1>1. Init => TypeOK /\ IInv
  BY InitTyped, InitInvariant
<1>2. (TypeOK /\ IInv) /\ [Next]_vars => (TypeOK /\ IInv)'
  BY NextTyped, NextInvariant DEF IInv
<1> QED BY <1>1, <1>2, PTL DEF Spec

\* Whoever asks after a change was acknowledged is answered with a value that has seen it,
\* unless a slow bump set the version of its namespace back or a request built its two
\* keys of different versions (buildKey, bump and the fills under them).
THEOREM NoStaleAnswer == Spec => []AnswersFresh
<1>1. TypeOK /\ IInv => AnswersFresh
  BY DEF IInv
<1> QED BY <1>1, Invariance, PTL

\* A bump finds nothing cached under the version it moves to.
THEOREM NothingAwaitsABump == Spec => BumpsEmpty
<1> DEFINE A == \A s \in Spaces \ regressed' : version'[s] # version[s] =>
                  \A p \in AllParts : SpaceOf[p] = s => entry[p][version'[s]] = 0
<1>1. TypeOK /\ IInv /\ [Next]_vars => [A]_vars
  <2> SUFFICES ASSUME TypeOK, IInv, [Next]_vars, NEW s \in Spaces \ regressed',
                      version'[s] # version[s], NEW p \in AllParts, SpaceOf[p] = s
               PROVE  entry[p][version'[s]] = 0
    OBVIOUS
  <2>1. PICK j \in Jobs : WriteVersion(j)
    <3>1. CASE \E j \in Jobs : JobStep(j)
      BY <3>1 DEF JobStep, Write, Refresh, ClearCache, ReadVersion, BumpFails
    <3>2. CASE \E r \in Readers : ReaderStep(r) \/ ContextStep(r)
      BY <3>2, ReaderMoves DEF IInv
    <3>3. CASE ~ (\E j \in Jobs : JobStep(j)) /\ ~ (\E r \in Readers : ReaderStep(r) \/ ContextStep(r))
      BY <3>3 DEF Next, vars, BuildKey, Expire, ChangeSilently, readerFrame
    <3> QED BY <3>1, <3>2, <3>3
  <2>2. Target(j) = s /\ version'[s] = base[j] + 1 /\ base[j] + 1 \in Versions
        /\ ~ (base[j] + 1 < version[s]) /\ regressed \subseteq regressed'
    BY <2>1, TargetInTodo DEF WriteVersion, TypeOK
  <2>3. version'[s] > version[s] /\ version'[s] \in Versions /\ version[s] \in Versions
    BY <2>2, CacheAssumption DEF TypeOK, Versions
  <2>4. EntriesBehind(s)
    BY <2>2 DEF IInv
  <2> QED BY <2>3, <2>4, CacheAssumption DEF EntriesBehind, Versions
<1> QED BY <1>1, Invariance, PTL DEF Spec, BumpsEmpty

-----------------------------------------------------------------------------
(* The chat *)

Ids == Gens \cup {Old}
Texts == {"ask", "answer", "empty", "part", "done", "error", "failed", "stopped"} \X Ids
Stages == {"none", "deleting", "updating", "refused", "reading", "heard", "over"}

StoredMessage == [id : Ids, role : {"user", "ai"}, text : Texts]
ShownMessage == [id : Ids, role : {"user", "ai"}, text : Texts, known : BOOLEAN]

ChatTyped ==
  /\ messages \in Seq(ShownMessage) /\ rows \in Seq(StoredMessage)
  /\ posts \subseteq StoredMessage /\ \A p \in posts : p.id \in Gens
  /\ gen \in [Gens -> [at : Stages, in : Panels, target : Ids]]
  /\ panel \in Panels
  /\ hook \in [Panels -> [loading : BOOLEAN, pending : Ids, controller : Ids]]
  /\ list \in {"shown", "emptied"}
  /\ faults \in Nat /\ drifted \subseteq Ids

\* One message, whatever its text.
Same(m, r) == m.id = r.id /\ m.role = r.role
Asks(m, k) == m.id = k /\ m.role = "user"
Answers(m, k) == m.id = k /\ m.role = "ai"

\* Questions are never written twice, answers are when they drift.
Once(m) == m.role = "user" \/ m.id \notin drifted

Editing(g) == gen[g].at \in {"deleting", "updating"}

\* What has not been asked for, or not yet, is nowhere.
Unbegun ==
  \A g \in Gens :
    /\ gen[g].at = "none" =>
         /\ \A i \in DOMAIN messages : messages[i].id # g
         /\ \A j \in DOMAIN rows : rows[j].id # g
         /\ \A p \in posts : p.id # g
         /\ \A h \in Gens : Editing(h) => gen[h].target # g
    /\ Editing(g) \/ gen[g].at = "refused" =>
         /\ \A i \in DOMAIN messages : ~Answers(messages[i], g)
         /\ \A j \in DOMAIN rows : ~Answers(rows[j], g)
         /\ \A p \in posts : ~Answers(p, g)

\* A message is shown once, and saved once or being saved.
EachOnce ==
  /\ \A i, j \in DOMAIN messages : Same(messages[i], messages[j]) /\ Once(messages[i]) => i = j
  /\ \A i, j \in DOMAIN rows : Same(rows[i], rows[j]) /\ Once(rows[i]) => i = j
  /\ \A p \in posts, j \in DOMAIN rows : Same(p, rows[j]) => ~Once(p)
  /\ \A p, q \in posts : Same(p, q) /\ Once(p) => p = q
  /\ \A p \in posts, i \in DOMAIN messages : messages[i].known /\ Same(p, messages[i]) => ~Once(p)

\* Up to a question that was loaded and is still there, panel and database agree.
Aligned ==
  \A i \in DOMAIN messages, p \in DOMAIN rows :
    messages[i].known /\ messages[i].role = "user" /\ Same(messages[i], rows[p]) =>
      \A j \in 1 .. i : j \in DOMAIN rows /\ Same(messages[j], rows[j])

\* Generations beside each other drift.
Disturbed == \A g, h \in Gens : g # h /\ Under(g) /\ Under(h) => g \in drifted

\* An answer is shown from its first chunk, and saved after its last one.
AnswerShown ==
  \A g \in Gens \ drifted :
    /\ gen[g].at \in {"reading", "heard"} =>
         \E i \in DOMAIN messages : Answers(messages[i], g) /\ ~messages[i].known
    /\ gen[g].at = "reading" =>
         (\A j \in DOMAIN rows : ~Answers(rows[j], g)) /\ \A p \in posts : ~Answers(p, g)
    /\ gen[g].at = "heard" =>
         (\E j \in DOMAIN rows : Answers(rows[j], g)) \/ \E p \in posts : Answers(p, g)

SameText ==
  \A i \in DOMAIN messages : messages[i].id \notin drifted =>
    /\ \A j \in DOMAIN rows : Same(messages[i], rows[j]) => messages[i].text = rows[j].text
    /\ \A p \in posts : Same(messages[i], p) => messages[i].text = p.text

Saved(m) == (\E j \in DOMAIN rows : Same(m, rows[j])) \/ \E p \in posts : Same(m, p)

\* The panel is about to remove message i: an edit has removed it from the database.
Doomed(i) ==
  \E g \in Gens : gen[g].at = "updating" /\ \E a \in 1 .. (i - 1) : Asks(messages[a], gen[g].target)

\* What is shown is saved, or is an answer under way, or is about to go.
ShownIsSaved ==
  \A i \in DOMAIN messages :
    \/ messages[i].id \in drifted
    \/ Saved(messages[i])
    \/ messages[i].role = "ai" /\ messages[i].id \in Gens /\ gen[messages[i].id].at = "reading"
    \/ Doomed(i)

IsShown(r) == \E i \in DOMAIN messages : Same(messages[i], r)

SavedIsShown ==
  list = "shown" =>
    /\ \A j \in DOMAIN rows : rows[j].id \in drifted \/ IsShown(rows[j])
    /\ \A p \in posts : p.id \in drifted \/ IsShown(p)

\* The question of an edit was loaded from the database.
EditsKnown ==
  \A g \in Gens : Editing(g) =>
    /\ \A i \in DOMAIN messages : Asks(messages[i], gen[g].target) => messages[i].known
    /\ \A p \in posts : ~Asks(p, gen[g].target)

\* The database holds nothing behind a question that is being edited, but what drifts.
NothingBehind ==
  \A g \in Gens : gen[g].at = "updating" =>
    /\ \A p \in posts : p.id \in drifted
    /\ \A a, j \in DOMAIN rows : Asks(rows[a], gen[g].target) /\ a < j => rows[j].id \in drifted

\* When the panel has lost the question of an edit, it shows nothing of what was behind it.
NothingShownBehind ==
  \A g \in Gens : Editing(g) /\ (\A i \in DOMAIN messages : ~Asks(messages[i], gen[g].target)) =>
    \A a \in DOMAIN rows : Asks(rows[a], gen[g].target) =>
      /\ \A p \in posts : p.id \in drifted
      /\ \A j \in DOMAIN rows, i \in DOMAIN messages :
           a < j /\ Same(rows[j], messages[i]) => rows[j].id \in drifted

ChatInv ==
  /\ ChatTyped /\ Unbegun /\ EachOnce /\ Aligned /\ Disturbed /\ AnswerShown /\ SameText
  /\ ShownIsSaved /\ SavedIsShown /\ EditsKnown /\ NothingBehind /\ NothingShownBehind

-----------------------------------------------------------------------------
\* The place of a question that is there once, and of one that is not there.
LEMMA PlaceOfQuestion ==
  ASSUME NEW S, NEW s \in Seq(S), NEW k, \A i, j \in DOMAIN s : Asks(s[i], k) /\ Asks(s[j], k) => i = j
  PROVE  /\ PlaceOf(s, k) \in 0 .. Len(s)
         /\ PlaceOf(s, k) > 0 => Asks(s[PlaceOf(s, k)], k)
         /\ \A i \in DOMAIN s : Asks(s[i], k) => PlaceOf(s, k) = i
<1> DEFINE I == {i \in 1 .. Len(s) : Asks(s[i], k)}
<1>1. PlaceOf(s, k) = IF I # {} THEN Min(I) ELSE 0
  BY DEF PlaceOf, SelectInSeq, Asks
<1>2. DOMAIN s = 1 .. Len(s) /\ Len(s) \in Nat
  BY LenProperties
<1>3. CASE I = {}
  BY <1>1, <1>2, <1>3
<1>4. CASE I # {}
  <2>1. PICK i \in I : TRUE
    BY <1>4
  <2>2. I = {i}
    BY <2>1, <1>2
  <2>3. Min(I) = i
    BY <2>2, <1>2 DEF Min
  <2>4. PlaceOf(s, k) = i
    BY <1>1, <1>4, <2>3
  <2>5. i \in 1 .. Len(s) /\ Asks(s[i], k)
    BY <2>1
  <2> HIDE DEF I
  <2> QED
    BY <1>2, <2>4, <2>5
<1> QED
  BY <1>3, <1>4

LEMMA Appended ==
  ASSUME NEW S, NEW s \in Seq(S), NEW e \in S
  PROVE  /\ Append(s, e) \in Seq(S)
         /\ DOMAIN Append(s, e) = DOMAIN s \cup {Len(s) + 1} /\ Len(s) + 1 \notin DOMAIN s
         /\ Len(Append(s, e)) = Len(s) + 1
         /\ \A i \in DOMAIN s : Append(s, e)[i] = s[i]
         /\ Append(s, e)[Len(s) + 1] = e
<1>1. DOMAIN s = 1 .. Len(s) /\ Len(s) \in Nat
  BY LenProperties
<1> QED
  BY <1>1

LEMMA Cut ==
  ASSUME NEW S, NEW s \in Seq(S), NEW n \in 0 .. Len(s)
  PROVE  /\ SubSeq(s, 1, n) \in Seq(S)
         /\ Len(SubSeq(s, 1, n)) = n /\ DOMAIN SubSeq(s, 1, n) = 1 .. n
         /\ \A i \in 1 .. n : i \in DOMAIN s /\ SubSeq(s, 1, n)[i] = s[i]
<1>1. DOMAIN s = 1 .. Len(s) /\ Len(s) \in Nat /\ \A i \in 1 .. Len(s) : s[i] \in S
  BY LenProperties, ElementOfSeq
<1> QED
  BY <1>1, SubSeqProperties

LEMMA Domains ==
  ASSUME ChatTyped
  PROVE  /\ DOMAIN messages = 1 .. Len(messages) /\ Len(messages) \in Nat
         /\ DOMAIN rows = 1 .. Len(rows) /\ Len(rows) \in Nat
         /\ \A i \in DOMAIN messages : messages[i] \in ShownMessage
         /\ \A j \in DOMAIN rows : rows[j] \in StoredMessage
<1>1. messages \in Seq(ShownMessage) /\ rows \in Seq(StoredMessage)
  BY DEF ChatTyped
<1> QED
  BY <1>1, LenProperties, ElementOfSeq

\* Questions stand once in the panel, and once in the database.
LEMMA QuestionPlaces ==
  ASSUME ChatTyped, EachOnce, NEW k
  PROVE  /\ PlaceOf(messages, k) \in 0 .. Len(messages)
         /\ PlaceOf(messages, k) > 0 => Asks(messages[PlaceOf(messages, k)], k)
         /\ \A i \in DOMAIN messages : Asks(messages[i], k) => PlaceOf(messages, k) = i
         /\ PlaceOf(rows, k) \in 0 .. Len(rows)
         /\ PlaceOf(rows, k) > 0 => Asks(rows[PlaceOf(rows, k)], k)
         /\ \A j \in DOMAIN rows : Asks(rows[j], k) => PlaceOf(rows, k) = j
<1>1. messages \in Seq(ShownMessage) /\ rows \in Seq(StoredMessage)
  BY DEF ChatTyped
<1>2. \A i, j \in DOMAIN messages : Asks(messages[i], k) /\ Asks(messages[j], k) => i = j
  BY DEF EachOnce, Asks, Same, Once
<1>3. \A i, j \in DOMAIN rows : Asks(rows[i], k) /\ Asks(rows[j], k) => i = j
  BY DEF EachOnce, Asks, Same, Once
<1> QED
  BY <1>1, <1>2, <1>3, PlaceOfQuestion

\* An update changes the text of one answer that was not loaded.
LEMMA Updated ==
  ASSUME ChatTyped, NEW g \in Gens, NEW text \in Texts, Update(g, text)
  PROVE  /\ messages' \in Seq(ShownMessage)
         /\ DOMAIN messages' = DOMAIN messages
         /\ \A i \in DOMAIN messages :
              /\ messages'[i].id = messages[i].id /\ messages'[i].role = messages[i].role
              /\ messages'[i].known = messages[i].known
              /\ messages'[i].text = IF Answers(messages[i], g) /\ ~messages[i].known THEN text ELSE messages[i].text
<1>1. DOMAIN messages = 1 .. Len(messages) /\ Len(messages) \in Nat
      /\ \A i \in DOMAIN messages : messages[i] \in ShownMessage
  BY Domains
<1>2. messages' = [i \in 1 .. Len(messages) |->
        IF messages[i].id = g /\ messages[i].role = "ai" /\ ~messages[i].known
        THEN [messages[i] EXCEPT !.text = text] ELSE messages[i]]
  BY <1>1 DEF Update
<1>3. \A i \in 1 .. Len(messages) : [messages[i] EXCEPT !.text = text] \in ShownMessage
  BY <1>1 DEF ShownMessage
<1>4. messages' \in [1 .. Len(messages) -> ShownMessage]
  BY <1>1, <1>2, <1>3
<1>5. messages' \in Seq(ShownMessage)
  BY <1>1, <1>4, SeqDef
<1> QED
  BY <1>1, <1>2, <1>5 DEF Answers, ShownMessage

LEMMA IdsKnown == Gens \subseteq Ids /\ Old \in Ids /\ None \in Ids /\ Old \notin Gens /\ None \notin Gens
  BY ChatAssumption DEF Ids, Old, None

LEMMA TextsTyped ==
  ASSUME NEW g \in Ids
  PROVE  /\ \A kind \in {"ask", "answer", "empty", "part", "done", "error", "failed", "stopped"} : Text(kind, g) \in Texts
  BY DEF Text, Texts

LEMMA RowTyped ==
  ASSUME NEW g \in Ids, NEW role \in {"user", "ai"}, NEW text \in Texts
  PROVE  /\ Row(g, role, text) \in StoredMessage
         /\ Row(g, role, text).id = g /\ Row(g, role, text).role = role /\ Row(g, role, text).text = text
  BY DEF Row, StoredMessage

LEMMA MessageTyped ==
  ASSUME NEW r \in StoredMessage, NEW known \in BOOLEAN
  PROVE  /\ Message(r, known) \in ShownMessage
         /\ Message(r, known).id = r.id /\ Message(r, known).role = r.role
         /\ Message(r, known).text = r.text /\ Message(r, known).known = known
  BY DEF Message, StoredMessage, ShownMessage

LEMMA Loaded ==
  ASSUME NEW s \in Seq(StoredMessage)
  PROVE  /\ Load(s) \in Seq(ShownMessage)
         /\ DOMAIN Load(s) = DOMAIN s
         /\ \A i \in DOMAIN s :
              /\ Load(s)[i].id = s[i].id /\ Load(s)[i].role = s[i].role
              /\ Load(s)[i].text = s[i].text /\ Load(s)[i].known
<1>1. DOMAIN s = 1 .. Len(s) /\ Len(s) \in Nat /\ \A i \in 1 .. Len(s) : s[i] \in StoredMessage
  BY LenProperties, ElementOfSeq
<1>2. \A i \in 1 .. Len(s) : Message(s[i], TRUE) \in ShownMessage
  BY <1>1, MessageTyped
<1>3. Load(s) \in [1 .. Len(s) -> ShownMessage]
  BY <1>1, <1>2 DEF Load
<1>4. Load(s) \in Seq(ShownMessage)
  BY <1>1, <1>3, SeqDef
<1> QED
  BY <1>1, <1>4, MessageTyped DEF Load

\* The answer that a generation starts with.
EmptyAnswer(g) == Message(Row(g, "ai", Text("empty", g)), FALSE)

LEMMA EmptyAnswerTyped ==
  ASSUME NEW g \in Gens
  PROVE  EmptyAnswer(g) \in ShownMessage /\ Answers(EmptyAnswer(g), g) /\ ~EmptyAnswer(g).known
<1>1. Row(g, "ai", Text("empty", g)) \in StoredMessage
      /\ Row(g, "ai", Text("empty", g)).id = g /\ Row(g, "ai", Text("empty", g)).role = "ai"
  BY IdsKnown, TextsTyped, RowTyped
<1> QED
  BY <1>1, MessageTyped DEF EmptyAnswer, Answers

LEMMA Generated ==
  ASSUME ChatTyped, NEW g \in Gens, NEW before \in Seq(ShownMessage), Generate(g, before), gen'[g].in \in Panels
  PROVE  /\ messages' = Append(before, EmptyAnswer(g)) /\ messages' \in Seq(ShownMessage)
         /\ hook' \in [Panels -> [loading : BOOLEAN, pending : Ids, controller : Ids]]
<1>1. messages' = Append(before, EmptyAnswer(g))
  BY DEF Generate, EmptyAnswer
<1>2. messages' \in Seq(ShownMessage)
  BY <1>1, EmptyAnswerTyped, Appended
<1>3. hook \in [Panels -> [loading : BOOLEAN, pending : Ids, controller : Ids]]
  BY DEF ChatTyped
<1> QED
  BY <1>1, <1>2, <1>3, IdsKnown DEF Generate

LEMMA ChatInitTyped == ChatInit => ChatTyped
<1> SUFFICES ASSUME ChatInit PROVE ChatTyped
  OBVIOUS
<1>1. OldRows \in Seq(StoredMessage)
  BY IdsKnown, TextsTyped, RowTyped DEF OldRows
<1>2. messages \in Seq(ShownMessage) /\ rows \in Seq(StoredMessage)
  BY <1>1, Loaded DEF ChatInit
<1>3. 1 \in Panels
  BY ChatAssumption DEF Panels
<1> QED
  BY <1>2, <1>3, IdsKnown DEF ChatInit, ChatTyped, Stages

\* What stays typed whatever becomes of the panel's messages and hooks.
LEMMA GenTyped ==
  ASSUME ChatTyped, NEW g \in Gens
  PROVE  /\ gen[g].at \in Stages /\ gen[g].in \in Panels /\ gen[g].target \in Ids
         /\ hook[gen[g].in].pending \in Ids
  BY DEF ChatTyped

LEMMA BesideTyped ==
  ASSUME ChatTyped, NEW g \in Gens, NEW target \in Ids
  PROVE  Beside(g, target) \subseteq Ids
  BY IdsKnown, GenTyped DEF Beside, Overlap

LEMMA SendTyped == ASSUME ChatTyped, NEW g \in Gens, Send(g) PROVE ChatTyped'
<1> DEFINE question == Row(g, "user", Text("ask", g))
<1>1. question \in StoredMessage /\ question.id = g
  BY IdsKnown, TextsTyped, RowTyped
<1>2. messages \in Seq(ShownMessage) /\ panel \in Panels
  BY DEF ChatTyped
<1>3. Append(messages, Message(question, FALSE)) \in Seq(ShownMessage)
  BY <1>1, <1>2, MessageTyped, Appended
<1>4. gen' \in [Gens -> [at : Stages, in : Panels, target : Ids]] /\ gen'[g].in \in Panels
  BY <1>2 DEF Send, ChatTyped, Stages
<1>5. Generate(g, Append(messages, Message(question, FALSE)))
  BY DEF Send
<1>6. Beside(g, g) \subseteq Ids
  BY BesideTyped, IdsKnown
<1> QED
  BY <1>1, <1>3, <1>4, <1>5, <1>6, Generated DEF Send, ChatTyped

LEMMA EditTyped == ASSUME ChatTyped, NEW g \in Gens, Edit(g) PROVE ChatTyped'
<1>1. PICK i \in DOMAIN messages :
        /\ messages[i].role = "user"
        /\ gen' = [gen EXCEPT ![g].at = IF messages[i].known THEN "deleting" ELSE "refused",
                              ![g].in = panel, ![g].target = messages[i].id]
        /\ drifted' = drifted \cup Beside(g, messages[i].id)
  BY DEF Edit
<1>2. messages[i].id \in Ids /\ Beside(g, messages[i].id) \subseteq Ids
  BY Domains, BesideTyped DEF ShownMessage
<1>3. panel \in Panels /\ gen \in [Gens -> [at : Stages, in : Panels, target : Ids]] /\ drifted \subseteq Ids
  BY DEF ChatTyped
<1>4. gen' \in [Gens -> [at : Stages, in : Panels, target : Ids]]
  <2> DEFINE at == IF messages[i].known THEN "deleting" ELSE "refused"
  <2>1. at \in Stages
    BY DEF Stages
  <2>2. gen' = [gen EXCEPT ![g].at = at, ![g].in = panel, ![g].target = messages[i].id]
    BY <1>1
  <2> HIDE DEF at
  <2> QED
    BY <1>2, <1>3, <2>1, <2>2
<1>5. drifted' \subseteq Ids
  BY <1>1, <1>2, <1>3
<1>6. UNCHANGED <<messages, rows, posts, panel, hook, list, faults>>
  BY DEF Edit
<1> QED
  BY <1>4, <1>5, <1>6 DEF ChatTyped

\* The rows up to the question of an edit.
LEMMA RowsCut ==
  ASSUME ChatTyped, EachOnce, NEW k, PlaceOf(rows, k) > 0
  PROVE  LET cut == SubSeq(rows, 1, PlaceOf(rows, k)) IN
         /\ cut \in Seq(StoredMessage) /\ DOMAIN cut = 1 .. PlaceOf(rows, k)
         /\ \A j \in DOMAIN cut : j \in DOMAIN rows /\ cut[j] = rows[j]
<1>1. rows \in Seq(StoredMessage)
  BY DEF ChatTyped
<1> QED
  BY <1>1, QuestionPlaces, Cut

LEMMA DeleteTyped == ASSUME ChatTyped, EachOnce, NEW g \in Gens, DeleteAfter(g) PROVE ChatTyped'
<1>1. rows' \in Seq(StoredMessage)
  BY RowsCut DEF DeleteAfter
<1>2. {p.id : p \in posts} \subseteq Ids
  BY IdsKnown DEF ChatTyped
<1> QED
  BY <1>1, <1>2 DEF DeleteAfter, ChatTyped, Stages

\* What the panel keeps of its messages when an edit of question k is done.
Edited(k, text) ==
  IF PlaceOf(messages, k) = 0 THEN messages
  ELSE [SubSeq(messages, 1, PlaceOf(messages, k)) EXCEPT ![PlaceOf(messages, k)].text = text]

LEMMA MessagesEdited ==
  ASSUME ChatTyped, EachOnce, NEW k, NEW text \in Texts
  PROVE  /\ Edited(k, text) \in Seq(ShownMessage)
         /\ DOMAIN Edited(k, text) =
              IF PlaceOf(messages, k) = 0 THEN DOMAIN messages ELSE 1 .. PlaceOf(messages, k)
         /\ DOMAIN Edited(k, text) = 1 .. Len(Edited(k, text))
         /\ \A i \in DOMAIN Edited(k, text) :
              /\ i \in DOMAIN messages
              /\ Edited(k, text)[i].id = messages[i].id /\ Edited(k, text)[i].role = messages[i].role
              /\ Edited(k, text)[i].known = messages[i].known
              /\ Edited(k, text)[i].text = IF Asks(messages[i], k) THEN text ELSE messages[i].text
<1> DEFINE here == PlaceOf(messages, k)
           cut == SubSeq(messages, 1, here)
           e == [messages[here] EXCEPT !.text = text]
<1>1. messages \in Seq(ShownMessage)
  BY DEF ChatTyped
<1>2. here \in 0 .. Len(messages) /\ (here > 0 => Asks(messages[here], k))
      /\ \A i \in DOMAIN messages : Asks(messages[i], k) => here = i
  BY QuestionPlaces
<1>3. DOMAIN messages = 1 .. Len(messages) /\ Len(messages) \in Nat
      /\ \A i \in DOMAIN messages : messages[i] \in ShownMessage
  BY Domains
<1>4. CASE here = 0
  BY <1>1, <1>2, <1>3, <1>4 DEF Edited
<1>5. CASE here # 0
  <2>1. here \in 1 .. Len(messages)
    BY <1>2, <1>3, <1>5
  <2>2. cut \in Seq(ShownMessage) /\ Len(cut) = here /\ DOMAIN cut = 1 .. here
        /\ \A i \in 1 .. here : i \in DOMAIN messages /\ cut[i] = messages[i]
    BY <1>1, <1>2, Cut
  <2>3. e \in ShownMessage /\ e.id = messages[here].id /\ e.role = messages[here].role
        /\ e.known = messages[here].known /\ e.text = text
    BY <1>3, <2>1 DEF ShownMessage
  <2>4. here \in 1 .. Len(cut)
    BY <2>1, <2>2
  <2>5. Edited(k, text) = [cut EXCEPT ![here] = e]
    BY <1>3, <1>5, <2>1, <2>2 DEF Edited
  <2> HIDE DEF here, cut, e
  <2>6. /\ Edited(k, text) \in Seq(ShownMessage) /\ Len(Edited(k, text)) = here
        /\ \A j \in 1 .. here : Edited(k, text)[j] = IF j = here THEN e ELSE cut[j]
    BY <2>2, <2>3, <2>4, <2>5, ExceptSeq
  <2>7. DOMAIN Edited(k, text) = 1 .. here
    BY <2>6, LenProperties
  <2>8. here = PlaceOf(messages, k)
    BY DEF here
  <2>9. Asks(messages[here], k)
    BY <1>2, <2>1
  <2>10. \A i \in 1 .. here : Asks(messages[i], k) => i = here
    BY <1>2, <2>2
  <2>11. \A i \in 1 .. here : i = here => /\ Edited(k, text)[i].id = messages[i].id /\ Edited(k, text)[i].role = messages[i].role
              /\ Edited(k, text)[i].known = messages[i].known /\ Edited(k, text)[i].text = text
    BY <2>3, <2>6
  <2>12. \A i \in 1 .. here : i # here => Edited(k, text)[i] = messages[i]
    BY <2>2, <2>6
  <2> QED
    BY <1>5, <2>2, <2>6, <2>7, <2>8, <2>9, <2>10, <2>11, <2>12
<1> QED
  BY <1>4, <1>5

LEMMA RowsEdited ==
  ASSUME ChatTyped, EachOnce, NEW k, NEW text \in Texts, PlaceOf(rows, k) > 0,
         rows' = [rows EXCEPT ![PlaceOf(rows, k)].text = text]
  PROVE  /\ rows' \in Seq(StoredMessage) /\ DOMAIN rows' = DOMAIN rows /\ Len(rows') = Len(rows)
         /\ \A j \in DOMAIN rows :
              /\ rows'[j].id = rows[j].id /\ rows'[j].role = rows[j].role
              /\ rows'[j].text = IF Asks(rows[j], k) THEN text ELSE rows[j].text
<1> DEFINE place == PlaceOf(rows, k)
           e == [rows[place] EXCEPT !.text = text]
<1>1. rows \in Seq(StoredMessage) /\ DOMAIN rows = 1 .. Len(rows)
      /\ \A j \in DOMAIN rows : rows[j] \in StoredMessage
  BY Domains DEF ChatTyped
<1>2. place \in DOMAIN rows /\ Asks(rows[place], k) /\ \A j \in DOMAIN rows : Asks(rows[j], k) => j = place
  BY <1>1, QuestionPlaces
<1>3. e \in StoredMessage /\ e.id = rows[place].id /\ e.role = rows[place].role /\ e.text = text
  BY <1>1, <1>2 DEF StoredMessage
<1>4. rows' = [rows EXCEPT ![place] = e]
  BY <1>1, <1>2
<1>5. place \in 1 .. Len(rows)
  BY <1>1, <1>2
<1> HIDE DEF place, e
<1>6. /\ [rows EXCEPT ![place] = e] \in Seq(StoredMessage) /\ Len([rows EXCEPT ![place] = e]) = Len(rows)
      /\ \A j \in 1 .. Len(rows) : [rows EXCEPT ![place] = e][j] = IF j = place THEN e ELSE rows[j]
  BY <1>1, <1>3, <1>5, ExceptSeq
<1>7. /\ rows' \in Seq(StoredMessage) /\ DOMAIN rows' = DOMAIN rows /\ Len(rows') = Len(rows)
      /\ \A j \in DOMAIN rows : rows'[j] = IF j = place THEN e ELSE rows[j]
  BY <1>1, <1>4, <1>6
<1>8. \A j \in DOMAIN rows : j = place => /\ Asks(rows[j], k) /\ rows'[j].id = rows[j].id
        /\ rows'[j].role = rows[j].role /\ rows'[j].text = text
  BY <1>2, <1>3, <1>7
<1>9. \A j \in DOMAIN rows : j # place => rows'[j] = rows[j] /\ ~Asks(rows[j], k)
  BY <1>2, <1>7
<1>10. ASSUME NEW j \in DOMAIN rows
       PROVE  /\ rows'[j].id = rows[j].id /\ rows'[j].role = rows[j].role
              /\ rows'[j].text = IF Asks(rows[j], k) THEN text ELSE rows[j].text
  <2>1. CASE j = place
    BY <1>8, <2>1
  <2>2. CASE j # place
    BY <1>9, <2>2
  <2> QED
    BY <2>1, <2>2
<1> QED
  BY <1>7, <1>10

LEMMA EditDoneTyped == ASSUME ChatTyped, EachOnce, NEW g \in Gens, EditDone(g) PROVE ChatTyped'
<1> DEFINE k == gen[g].target
           text == Text("ask", g)
<1>1. text \in Texts
  BY IdsKnown, TextsTyped
<1>2. Generate(g, Edited(k, text)) /\ rows' = [rows EXCEPT ![PlaceOf(rows, k)].text = text]
      /\ PlaceOf(rows, k) > 0 /\ gen' = [gen EXCEPT ![g].at = "reading"]
      /\ UNCHANGED <<drifted, posts, panel, list, faults>>
  BY DEF EditDone, Edited
<1> HIDE DEF text
<1>3. Edited(k, text) \in Seq(ShownMessage) /\ rows' \in Seq(StoredMessage)
  BY <1>1, <1>2, MessagesEdited, RowsEdited
<1>4. gen' \in [Gens -> [at : Stages, in : Panels, target : Ids]] /\ gen'[g].in \in Panels
  BY <1>2 DEF ChatTyped, Stages
<1>5. messages' \in Seq(ShownMessage)
      /\ hook' \in [Panels -> [loading : BOOLEAN, pending : Ids, controller : Ids]]
  BY <1>2, <1>3, <1>4, Generated
<1> QED
  BY <1>2, <1>3, <1>4, <1>5 DEF ChatTyped

LEMMA EditFailsTyped == ASSUME ChatTyped, EachOnce, NEW g \in Gens, EditFails(g) PROVE ChatTyped'
<1>1. messages \in Seq(ShownMessage)
  BY DEF ChatTyped
<1>2. gen' = [gen EXCEPT ![g].at = "reading"] /\ Generate(g, messages)
      /\ UNCHANGED <<rows, posts, panel, list>>
  BY DEF EditFails
<1>3. gen' \in [Gens -> [at : Stages, in : Panels, target : Ids]] /\ gen'[g].in \in Panels
  BY <1>2 DEF ChatTyped, Stages
<1>4. messages' \in Seq(ShownMessage)
      /\ hook' \in [Panels -> [loading : BOOLEAN, pending : Ids, controller : Ids]]
  BY <1>1, <1>2, <1>3, Generated
<1>5. Behind(messages, gen[g].target) \subseteq Ids
  <2>1. \A i \in (PlaceOf(messages, gen[g].target) + 1) .. Len(messages) : messages[i].id \in Ids
    BY QuestionPlaces, Domains DEF ShownMessage
  <2> QED
    BY <2>1 DEF Behind
<1>6. drifted' \subseteq Ids /\ faults' \in Nat
  BY <1>5 DEF EditFails, ChatTyped
<1> QED
  BY <1>2, <1>3, <1>4, <1>6 DEF ChatTyped

-----------------------------------------------------------------------------
\* A turn of an answer that is read: it touches no message but its own.
AnswerTurn(g) ==
  /\ gen[g].at \in {"reading", "heard"} /\ gen'[g].at \in {"reading", "heard", "over"}
  /\ \A h \in Gens \ {g} : gen'[h] = gen[h]
  /\ DOMAIN messages' = DOMAIN messages
  /\ \A i \in DOMAIN messages :
       /\ messages'[i].id = messages[i].id /\ messages'[i].role = messages[i].role
       /\ messages'[i].known = messages[i].known
       /\ (Answers(messages[i], g) /\ ~messages[i].known) \/ messages'[i].text = messages[i].text
  /\ UNCHANGED <<rows, list>>
  /\ posts \subseteq posts' /\ \A p \in posts' \ posts : Answers(p, g)
  /\ drifted \subseteq drifted' /\ drifted' \subseteq drifted \cup {g}

\* What such a turn may do without drifting.
Plain(g) ==
  \/ gen[g].at = "reading" /\ gen'[g].at = "reading" /\ posts' = posts
  \/ /\ gen[g].at = "reading" /\ gen'[g].at \in {"heard", "over"}
     /\ \E p : /\ Answers(p, g) /\ posts' = posts \cup {p}
               /\ \A i \in DOMAIN messages :
                    Answers(messages[i], g) /\ ~messages[i].known => messages'[i].text = p.text
  \/ gen[g].at = "heard" /\ gen'[g].at = "over" /\ posts' = posts /\ messages' = messages

LEMMA TurnKeeps ==
  ASSUME ChatInv, ChatTyped', NEW g \in Gens, AnswerTurn(g), g \notin drifted' => Plain(g)
  PROVE  ChatInv'
<1> USE DEF AnswerTurn
<1>1. \A h \in Gens : /\ (gen'[h].at = "none" <=> gen[h].at = "none")
                      /\ (gen'[h].at = "updating" <=> gen[h].at = "updating")
                      /\ (gen'[h].at = "refused" <=> gen[h].at = "refused")
                      /\ (gen'[h].at = "deleting" <=> gen[h].at = "deleting")
                      /\ (Editing(h)' <=> Editing(h))
                      /\ (Editing(h) => gen'[h] = gen[h] /\ h # g)
                      /\ (Under(h)' => Under(h))
  BY DEF Editing, Under
<1>2. \A h \in Gens : h # g /\ Under(h) => g \in drifted
  BY DEF ChatInv, Disturbed, Under
<1>3. \A p \in posts' : p \in posts \/ Answers(p, g)
  OBVIOUS
<1>4. Unbegun'
  BY <1>1, <1>3 DEF ChatInv, Unbegun, Answers
<1>20. g \notin drifted' =>
         /\ \A i \in DOMAIN messages : Answers(messages[i], g) => ~messages[i].known
         /\ \E i \in DOMAIN messages : Answers(messages[i], g)
  BY DEF ChatInv, AnswerShown, EachOnce, Answers, Same, Once
<1>21. g \notin drifted' /\ gen[g].at = "reading" =>
         (\A j \in DOMAIN rows : ~Answers(rows[j], g)) /\ \A p \in posts : ~Answers(p, g)
  BY DEF ChatInv, AnswerShown
<1>22. g \notin drifted' /\ posts' # posts =>
         gen[g].at = "reading" /\ \A p, q \in posts' \ posts : p = q
  BY DEF Plain
<1>5. EachOnce'
  <2>1. \A m : Once(m)' => Once(m)
    BY DEF Once
  <2>2. \A i, j \in DOMAIN messages' : Same(messages'[i], messages'[j]) /\ Once(messages[i])' => i = j
    BY <2>1 DEF ChatInv, EachOnce, Same, Once
  <2>3. \A i, j \in DOMAIN rows' : Same(rows'[i], rows'[j]) /\ Once(rows[i])' => i = j
    BY <2>1 DEF ChatInv, EachOnce, Same, Once
  <2>4. \A p \in posts', j \in DOMAIN rows' : Same(p, rows'[j]) => ~Once(p)'
    BY <2>1, <1>3, <1>21, <1>22 DEF ChatInv, EachOnce, Same, Once, Answers
  <2>5. \A p, q \in posts' : Same(p, q) /\ Once(p)' => p = q
    BY <2>1, <1>3, <1>21, <1>22 DEF ChatInv, EachOnce, Same, Once, Answers
  <2>6. \A p \in posts', i \in DOMAIN messages' : messages'[i].known /\ Same(p, messages'[i]) => ~Once(p)'
    BY <2>1, <1>3, <1>20 DEF ChatInv, EachOnce, Same, Once, Answers
  <2> QED
    BY <2>2, <2>3, <2>4, <2>5, <2>6 DEF EachOnce
<1>6. Aligned'
  BY Domains DEF ChatInv, Aligned, Same
<1>7. Disturbed'
  BY <1>1 DEF ChatInv, Disturbed
<1>8. AnswerShown'
  <2> SUFFICES ASSUME NEW h \in Gens, h \notin drifted'
               PROVE  /\ gen'[h].at \in {"reading", "heard"} =>
                           \E i \in DOMAIN messages' : Answers(messages'[i], h) /\ ~messages'[i].known
                      /\ gen'[h].at = "reading" =>
                           (\A j \in DOMAIN rows' : ~Answers(rows'[j], h)) /\ \A p \in posts' : ~Answers(p, h)
                      /\ gen'[h].at = "heard" =>
                           (\E j \in DOMAIN rows' : Answers(rows'[j], h)) \/ \E p \in posts' : Answers(p, h)
    BY DEF AnswerShown
  <2>1. CASE h = g
    BY <2>1, <1>20, <1>21 DEF Plain, Answers
  <2>2. CASE h # g
    BY <2>2, <1>3 DEF ChatInv, AnswerShown, Answers
  <2> QED
    BY <2>1, <2>2
<1>9. SameText'
  <2> SUFFICES ASSUME NEW i \in DOMAIN messages, messages[i].id \notin drifted'
               PROVE  /\ \A j \in DOMAIN rows : Same(messages'[i], rows[j]) => messages'[i].text = rows[j].text
                      /\ \A p \in posts' : Same(messages'[i], p) => messages'[i].text = p.text
    BY DEF SameText
  <2>1. CASE Answers(messages[i], g)
    <3>1. g \notin drifted' /\ Plain(g) /\ ~messages[i].known
      BY <2>1, <1>20 DEF Answers
    <3>2. CASE gen[g].at = "reading"
      BY <2>1, <3>1, <3>2, <1>21 DEF Plain, Answers, Same
    <3>3. CASE gen[g].at = "heard"
      BY <2>1, <3>1, <3>3 DEF Plain, ChatInv, SameText
    <3> QED
      BY <3>2, <3>3
  <2>2. CASE ~Answers(messages[i], g)
    BY <2>2, <1>3 DEF ChatInv, SameText, Same, Answers
  <2> QED
    BY <2>1, <2>2
<1>10. ShownIsSaved'
  <2> SUFFICES ASSUME NEW i \in DOMAIN messages, messages[i].id \notin drifted'
               PROVE  \/ Saved(messages[i])'
                      \/ messages'[i].role = "ai" /\ messages'[i].id \in Gens /\ gen'[messages'[i].id].at = "reading"
                      \/ Doomed(i)'
    BY DEF ShownIsSaved
  <2>1. Saved(messages[i]) => Saved(messages[i])'
    BY DEF Saved, Same
  <2>2. Doomed(i) => Doomed(i)'
    BY <1>1, Domains DEF ChatInv, Doomed, Asks, Editing
  <2>3. CASE Answers(messages[i], g) /\ gen[g].at = "reading"
    BY <2>3, <1>20 DEF Plain, Saved, Same, Answers
  <2>4. CASE Answers(messages[i], g) /\ gen[g].at = "heard"
    BY <2>1, <2>2, <2>4 DEF ChatInv, ShownIsSaved, Answers
  <2>5. CASE ~Answers(messages[i], g)
    BY <2>1, <2>2, <2>5 DEF ChatInv, ShownIsSaved, Answers
  <2> QED
    BY <2>3, <2>4, <2>5
<1>11. SavedIsShown'
  <2>1. \A r : IsShown(r) => IsShown(r)'
    BY DEF IsShown, Same
  <2>2. \A p : Answers(p, g) => g \in drifted' \/ IsShown(p)
    BY <1>20 DEF IsShown, Same, Answers
  <2> QED
    BY <2>1, <2>2, <1>3 DEF ChatInv, SavedIsShown, Answers, IsShown
<1>12. EditsKnown'
  BY <1>1, <1>3 DEF ChatInv, EditsKnown, Asks, Answers
<1>13. NothingBehind'
  BY <1>1, <1>2, <1>3 DEF ChatInv, NothingBehind, Answers, Under
<1>14. NothingShownBehind'
  BY <1>1, <1>2, <1>3 DEF ChatInv, NothingShownBehind, Asks, Answers, Same, Editing, Under
<1> QED
  BY <1>4, <1>5, <1>6, <1>7, <1>8, <1>9, <1>10, <1>11, <1>12, <1>13, <1>14 DEF ChatInv

LEMMA ReadChunkTurn ==
  ASSUME ChatTyped, NEW g \in Gens, ReadChunk(g) PROVE ChatTyped' /\ AnswerTurn(g) /\ Plain(g)
<1>1. gen[g].at = "reading" /\ UNCHANGED <<rows, posts, gen, panel, list, faults, drifted>>
  BY DEF ReadChunk
<1>2. Text("part", g) \in Texts
  BY IdsKnown, TextsTyped
<1>3. hook' \in [Panels -> [loading : BOOLEAN, pending : Ids, controller : Ids]]
  <2>1. hook \in [Panels -> [loading : BOOLEAN, pending : Ids, controller : Ids]] /\ gen[g].in \in Panels
    BY GenTyped DEF ChatTyped
  <2>2. \E n \in {None, g} : hook' = [hook EXCEPT ![gen[g].in].pending = n]
    BY DEF ReadChunk
  <2> QED
    BY <2>1, <2>2, IdsKnown
<1>4. CASE UNCHANGED messages
  BY <1>1, <1>3, <1>4 DEF ChatTyped, AnswerTurn, Plain
<1>5. CASE Update(g, Text("part", g))
  <2> DEFINE text == Text("part", g)
  <2>1. text \in Texts /\ Update(g, text)
    BY <1>2, <1>5
  <2> HIDE DEF text
  <2> QED
    BY <2>1, <1>1, <1>3, Updated DEF ChatTyped, AnswerTurn, Plain
<1> QED
  BY <1>4, <1>5 DEF ReadChunk

\* A turn that shows a text and saves it.
LEMMA UpdateAndSave ==
  ASSUME ChatTyped, NEW g \in Gens, NEW text \in Texts, Update(g, text), Save(g, text)
  PROVE  /\ messages' \in Seq(ShownMessage) /\ DOMAIN messages' = DOMAIN messages
         /\ \A i \in DOMAIN messages :
              /\ messages'[i].id = messages[i].id /\ messages'[i].role = messages[i].role
              /\ messages'[i].known = messages[i].known
              /\ messages'[i].text = IF Answers(messages[i], g) /\ ~messages[i].known THEN text ELSE messages[i].text
         /\ posts' \subseteq StoredMessage /\ \A p \in posts' : p.id \in Gens
         /\ \E p : Answers(p, g) /\ p.text = text /\ posts' = posts \cup {p}
<1> DEFINE p == Row(g, "ai", text)
<1>1. p \in StoredMessage /\ p.id = g /\ p.role = "ai" /\ p.text = text
  BY IdsKnown, RowTyped
<1>2. posts' = posts \cup {p}
  BY DEF Save
<1> HIDE DEF p
<1>3. posts' \subseteq StoredMessage /\ \A q \in posts' : q.id \in Gens
  BY <1>1, <1>2 DEF ChatTyped
<1>4. \E q : Answers(q, g) /\ q.text = text /\ posts' = posts \cup {q}
  BY <1>1, <1>2 DEF Answers
<1> QED
  BY <1>3, <1>4, Updated

LEMMA ReadLastTurn ==
  ASSUME ChatTyped, NEW g \in Gens, ReadLast(g) PROVE ChatTyped' /\ AnswerTurn(g) /\ Plain(g)
<1>1. /\ gen[g].at = "reading" /\ gen' = [gen EXCEPT ![g].at = "heard"]
      /\ UNCHANGED <<rows, panel, hook, list, faults, drifted>>
  BY DEF ReadLast
<1>2. PICK text \in Texts : Update(g, text) /\ Save(g, text)
  BY IdsKnown, TextsTyped DEF ReadLast
<1>3. gen' \in [Gens -> [at : Stages, in : Panels, target : Ids]] /\ gen'[g].at = "heard"
      /\ \A h \in Gens \ {g} : gen'[h] = gen[h]
  BY <1>1 DEF ChatTyped, Stages
<1>4. ChatTyped'
  BY <1>1, <1>2, <1>3, UpdateAndSave DEF ChatTyped
<1>5. AnswerTurn(g)
  BY <1>1, <1>2, <1>3, UpdateAndSave DEF AnswerTurn
<1>6. Plain(g)
  BY <1>1, <1>2, <1>3, UpdateAndSave DEF Plain
<1> QED
  BY <1>4, <1>5, <1>6

LEMMA OverTyped ==
  ASSUME ChatTyped, NEW g \in Gens, Over(g)
  PROVE  /\ gen' \in [Gens -> [at : Stages, in : Panels, target : Ids]] /\ gen'[g].at = "over"
         /\ \A h \in Gens \ {g} : gen'[h] = gen[h]
         /\ hook' \in [Panels -> [loading : BOOLEAN, pending : Ids, controller : Ids]]
<1>1. 1 \in Panels
  BY ChatAssumption DEF Panels
<1>2. gen \in [Gens -> [at : Stages, in : Panels, target : Ids]] /\ gen[g].in \in Panels
      /\ hook \in [Panels -> [loading : BOOLEAN, pending : Ids, controller : Ids]]
  BY GenTyped DEF ChatTyped
<1> QED
  BY <1>1, <1>2, IdsKnown DEF Over, Stages

LEMMA FinishTurn ==
  ASSUME ChatInv, NEW g \in Gens, Finish(g)
  PROVE  ChatTyped' /\ AnswerTurn(g) /\ (g \notin drifted' => Plain(g))
<1> DEFINE kept == hook[gen[g].in].pending
<1>1. gen[g].at = "heard" /\ Over(g) /\ UNCHANGED <<rows, panel, list, faults>>
  BY DEF Finish
<1>2. ChatTyped
  BY DEF ChatInv
<1>3. kept \in Ids
  BY <1>2, GenTyped
<1>4. CASE Content(g) = {}
  <2>1. messages' = messages /\ Save(g, Text("failed", g)) /\ drifted' = drifted
    BY <1>4 DEF Finish
  <2>2. Text("failed", g) \in Texts
    BY IdsKnown, TextsTyped
  <2> DEFINE p == Row(g, "ai", Text("failed", g))
  <2>3. p \in StoredMessage /\ p.id = g /\ p.role = "ai"
    BY <2>2, IdsKnown, RowTyped
  <2>4. posts' = posts \cup {p}
    BY <2>1 DEF Save
  <2> HIDE DEF p
  <2>5. posts' \subseteq StoredMessage /\ (\A q \in posts' : q.id \in Gens)
        /\ posts \subseteq posts' /\ \A q \in posts' \ posts : Answers(q, g)
    BY <1>2, <2>3, <2>4 DEF ChatTyped, Answers
  <2>6. ChatTyped' /\ AnswerTurn(g)
    BY <1>1, <1>2, <2>1, <2>5, OverTyped DEF ChatTyped, AnswerTurn
  <2>7. \A i \in DOMAIN messages : Answers(messages[i], g) => messages[i].known
    BY <1>4 DEF Content, Answers
  <2>8. g \in drifted
    BY <1>1, <2>7 DEF ChatInv, AnswerShown
  <2> QED
    BY <2>1, <2>6, <2>8
<1>5. CASE Content(g) # {} /\ kept = None
  <2>1. messages' = messages /\ drifted' = drifted /\ posts' = posts
    BY <1>5 DEF Finish
  <2> QED
    BY <1>1, <1>2, <2>1, OverTyped DEF ChatTyped, AnswerTurn, Plain
<1>6. CASE Content(g) # {} /\ kept # None
  <2> DEFINE text == Text("part", kept)
  <2>1. Update(g, text) /\ drifted' = drifted \cup {g} /\ posts' = posts
    BY <1>6 DEF Finish
  <2>2. text \in Texts
    BY <1>3, TextsTyped
  <2> HIDE DEF text
  <2> QED
    BY <1>1, <1>2, <2>1, <2>2, OverTyped, Updated, IdsKnown DEF ChatTyped, AnswerTurn
<1> QED
  BY <1>4, <1>5, <1>6

LEMMA BreakOffTurn ==
  ASSUME ChatTyped, NEW g \in Gens, gen[g].at \in {"reading", "heard"}, faults' \in Nat,
         NEW kind \in {"stopped", "failed"}, BreakOff(g, kind)
  PROVE  ChatTyped' /\ AnswerTurn(g) /\ (g \notin drifted' => Plain(g))
<1> DEFINE text == Text(kind, g)
<1>1. text \in Texts
  BY IdsKnown, TextsTyped
<1>2. /\ Update(g, text) /\ Save(g, text) /\ Over(g)
      /\ drifted' = drifted \cup (IF gen[g].at = "heard" THEN {g} ELSE {})
      /\ UNCHANGED <<rows, panel, list>>
  BY DEF BreakOff
<1> HIDE DEF text
<1>3. ChatTyped'
  BY <1>1, <1>2, UpdateAndSave, OverTyped, IdsKnown DEF ChatTyped
<1>4. AnswerTurn(g)
  BY <1>1, <1>2, UpdateAndSave, OverTyped DEF AnswerTurn
<1>5. ASSUME g \notin drifted' PROVE Plain(g)
  <2>1. gen[g].at = "reading" /\ gen'[g].at = "over"
    BY <1>2, <1>5, OverTyped
  <2> QED
    BY <1>1, <1>2, <2>1, UpdateAndSave DEF Plain
<1> QED
  BY <1>3, <1>4, <1>5

LEMMA AnswerTurns ==
  ASSUME ChatInv, NEW g \in Gens, ReadChunk(g) \/ ReadLast(g) \/ Finish(g) \/ Stop(g) \/ CutOff(g)
  PROVE  ChatInv'
<1>1. ChatTyped
  BY DEF ChatInv
<1>2. CASE ReadChunk(g)
  BY <1>1, <1>2, ReadChunkTurn, TurnKeeps
<1>3. CASE ReadLast(g)
  BY <1>1, <1>3, ReadLastTurn, TurnKeeps
<1>4. CASE Finish(g)
  BY <1>4, FinishTurn, TurnKeeps
<1>5. CASE Stop(g)
  BY <1>1, <1>5, BreakOffTurn, TurnKeeps DEF Stop, ChatTyped
<1>6. CASE CutOff(g)
  BY <1>1, <1>6, BreakOffTurn, TurnKeeps DEF CutOff, ChatTyped
<1> QED
  BY <1>2, <1>3, <1>4, <1>5, <1>6

-----------------------------------------------------------------------------
\* A save that lands becomes the last row.
LEMMA SaveLandsKeeps == ASSUME ChatInv, NEW p \in posts, SaveLands(p) PROVE ChatInv'
<1> DEFINE new == Len(rows) + 1
<1>1. /\ posts' = posts \ {p} /\ rows' = Append(rows, p)
      /\ UNCHANGED <<messages, gen, panel, hook, list, faults, drifted>>
  BY DEF SaveLands
<1>2. ChatTyped /\ p \in StoredMessage /\ rows \in Seq(StoredMessage)
  BY DEF ChatInv, ChatTyped
<1>3. /\ rows' \in Seq(StoredMessage) /\ DOMAIN rows' = DOMAIN rows \cup {new} /\ new \notin DOMAIN rows
      /\ (\A j \in DOMAIN rows : rows'[j] = rows[j]) /\ rows'[new] = p
      /\ \A j \in DOMAIN rows : j < new
  BY <1>1, <1>2, Appended, Domains
<1> HIDE DEF new
<1>4. ChatTyped'
  BY <1>1, <1>2, <1>3 DEF ChatTyped
<1>5. Unbegun'
  BY <1>1, <1>3 DEF ChatInv, Unbegun, Editing
<1>6. EachOnce'
  BY <1>1, <1>3 DEF ChatInv, EachOnce, Once, Same
<1>7. Aligned'
  BY <1>1, <1>3 DEF ChatInv, Aligned, EachOnce, Same, Once
<1>8. Disturbed'
  BY <1>1 DEF ChatInv, Disturbed, Under
<1>9. AnswerShown'
  BY <1>1, <1>3 DEF ChatInv, AnswerShown
<1>10. SameText'
  BY <1>1, <1>3 DEF ChatInv, SameText
<1>11. ShownIsSaved'
  <2>1. \A m : Saved(m) => Saved(m)'
    BY <1>1, <1>3 DEF Saved, Same
  <2>2. \A i : Doomed(i) => Doomed(i)'
    BY <1>1 DEF Doomed
  <2> QED
    BY <1>1, <2>1, <2>2 DEF ChatInv, ShownIsSaved
<1>12. SavedIsShown'
  BY <1>1, <1>3 DEF ChatInv, SavedIsShown, IsShown
<1>13. EditsKnown'
  BY <1>1 DEF ChatInv, EditsKnown, Editing
<1>14. NothingBehind'
  BY <1>1, <1>3 DEF ChatInv, NothingBehind, EditsKnown, Editing
<1>15. NothingShownBehind'
  BY <1>1, <1>3 DEF ChatInv, NothingShownBehind, EditsKnown, Editing
<1> QED
  BY <1>4, <1>5, <1>6, <1>7, <1>8, <1>9, <1>10, <1>11, <1>12, <1>13, <1>14, <1>15 DEF ChatInv

LEMMA SaveLostKeeps == ASSUME ChatInv, NEW p \in posts, SaveLost(p) PROVE ChatInv'
<1>1. /\ posts' = posts \ {p} /\ drifted' = drifted \cup {p.id} /\ faults' = faults + 1
      /\ UNCHANGED <<messages, rows, gen, panel, hook, list>>
  BY DEF SaveLost
<1>2. ChatTyped'
  BY <1>1, IdsKnown DEF ChatInv, ChatTyped
<1>3. Unbegun' /\ Disturbed' /\ EditsKnown' /\ NothingBehind' /\ NothingShownBehind'
  BY <1>1 DEF ChatInv, Unbegun, Disturbed, EditsKnown, NothingBehind, NothingShownBehind, Editing, Under
<1>4. EachOnce'
  BY <1>1 DEF ChatInv, EachOnce, Once, Same
<1>5. Aligned' /\ SameText' /\ SavedIsShown'
  BY <1>1 DEF ChatInv, Aligned, SameText, SavedIsShown, IsShown
<1>6. AnswerShown'
  BY <1>1 DEF ChatInv, AnswerShown, Answers
<1>7. ShownIsSaved'
  <2>1. \A m : Saved(m) => Saved(m)' \/ m.id \in drifted'
    BY <1>1 DEF Saved, Same
  <2>2. \A i : Doomed(i) => Doomed(i)'
    BY <1>1 DEF Doomed
  <2> QED
    BY <1>1, <2>1, <2>2 DEF ChatInv, ShownIsSaved
<1> QED
  BY <1>2, <1>3, <1>4, <1>5, <1>6, <1>7 DEF ChatInv

LEMMA LooseDrift ==
  ASSUME ChatTyped, drifted' = drifted \cup Loose
  PROVE  /\ \A p \in posts : p.id \in drifted'
         /\ \A g \in Gens : Under(g) => g \in drifted'
         /\ drifted' \subseteq Ids
  BY IdsKnown DEF Loose, ChatTyped

LEMMA ReopenKeeps == ASSUME ChatInv, Reopen PROVE ChatInv'
<1>1. /\ panel < MaxPanels /\ panel' = panel + 1 /\ messages' = <<>> /\ list' = "emptied"
      /\ drifted' = drifted \cup Loose
      /\ UNCHANGED <<rows, posts, gen, hook, faults>>
  BY DEF Reopen
<1>2. /\ \A p \in posts : p.id \in drifted'
      /\ \A g \in Gens : Under(g) => g \in drifted'
      /\ drifted' \subseteq Ids
  BY <1>1, LooseDrift DEF ChatInv
<1>3. panel' \in Panels
  BY <1>1, ChatAssumption DEF ChatInv, ChatTyped, Panels
<1>4. messages' \in Seq(ShownMessage) /\ DOMAIN messages' = {}
  BY <1>1
<1>5. ChatTyped'
  BY <1>1, <1>2, <1>3, <1>4 DEF ChatInv, ChatTyped
<1>6. Unbegun' /\ Aligned' /\ Disturbed' /\ SameText' /\ ShownIsSaved' /\ SavedIsShown' /\ EditsKnown'
  BY <1>1, <1>4 DEF ChatInv, Unbegun, Aligned, Disturbed, SameText, ShownIsSaved, SavedIsShown, EditsKnown, Editing, Under
<1>7. EachOnce'
  BY <1>1, <1>4 DEF ChatInv, EachOnce, Once
<1>8. AnswerShown'
  BY <1>1, <1>2 DEF AnswerShown, Under
<1>9. NothingBehind' /\ NothingShownBehind'
  BY <1>1, <1>2, <1>4 DEF ChatInv, NothingBehind, NothingShownBehind, Editing
<1> QED
  BY <1>5, <1>6, <1>7, <1>8, <1>9 DEF ChatInv

LEMMA ListLoadedKeeps == ASSUME ChatInv, ListLoaded PROVE ChatInv'
<1>1. /\ list' = "shown" /\ messages' = Load(rows) /\ drifted' = drifted \cup Loose
      /\ UNCHANGED <<rows, posts, gen, panel, hook, faults>>
  BY DEF ListLoaded
<1>2. /\ \A p \in posts : p.id \in drifted'
      /\ \A g \in Gens : Under(g) => g \in drifted'
      /\ drifted' \subseteq Ids
  BY <1>1, LooseDrift DEF ChatInv
<1>3. /\ messages' \in Seq(ShownMessage) /\ DOMAIN messages' = DOMAIN rows
      /\ \A i \in DOMAIN rows :
           /\ messages'[i].id = rows[i].id /\ messages'[i].role = rows[i].role
           /\ messages'[i].text = rows[i].text /\ messages'[i].known
  BY <1>1, Loaded DEF ChatInv, ChatTyped
<1>4. ChatTyped'
  BY <1>1, <1>2, <1>3 DEF ChatInv, ChatTyped
<1>5. Unbegun' /\ Disturbed' /\ EditsKnown'
  BY <1>1, <1>3 DEF ChatInv, Unbegun, Disturbed, EditsKnown, Editing, Under, Answers
<1>6. EachOnce'
  BY <1>1, <1>3 DEF ChatInv, EachOnce, Once, Same
<1>7. Aligned'
  <2>1. \A i, p \in DOMAIN rows : rows[i].role = "user" /\ Same(rows[i], rows[p]) => i = p
    BY DEF ChatInv, EachOnce, Once
  <2>2. DOMAIN rows = 1 .. Len(rows) /\ Len(rows) \in Nat
    BY Domains DEF ChatInv
  <2> QED
    BY <1>1, <1>3, <2>1, <2>2 DEF Aligned, Same
<1>8. AnswerShown'
  BY <1>1, <1>2 DEF AnswerShown, Under
<1>9. SameText'
  BY <1>1, <1>2, <1>3 DEF ChatInv, EachOnce, Once, SameText, Same
<1>10. ShownIsSaved'
  BY <1>1, <1>3 DEF ShownIsSaved, Saved, Same
<1>11. SavedIsShown'
  BY <1>1, <1>2, <1>3 DEF SavedIsShown, IsShown, Same
<1>12. NothingBehind'
  BY <1>1, <1>2 DEF ChatInv, NothingBehind
<1>13. NothingShownBehind'
  BY <1>1, <1>2, <1>3 DEF NothingShownBehind, Asks
<1> QED
  BY <1>4, <1>5, <1>6, <1>7, <1>8, <1>9, <1>10, <1>11, <1>12, <1>13 DEF ChatInv

-----------------------------------------------------------------------------
LEMMA BesideDrifts ==
  ASSUME NEW g \in Gens, NEW target
  PROVE  \A h \in Gens \ {g} : Under(h) => {g, h, target} \subseteq Beside(g, target)
  BY DEF Beside, Overlap

\* An edit begins: no message changes.
LEMMA EditKeeps == ASSUME ChatInv, NEW g \in Gens, Edit(g) PROVE ChatInv'
<1>1. PICK i \in DOMAIN messages :
        /\ messages[i].role = "user"
        /\ gen' = [gen EXCEPT ![g].at = IF messages[i].known THEN "deleting" ELSE "refused",
                              ![g].in = panel, ![g].target = messages[i].id]
        /\ drifted' = drifted \cup Beside(g, messages[i].id)
  BY DEF Edit
<1>2. gen[g].at = "none" /\ UNCHANGED <<messages, rows, posts, panel, hook, list, faults>>
  BY DEF Edit
<1>3. ChatTyped'
  BY EditTyped DEF ChatInv
<1>4. /\ gen'[g].at = IF messages[i].known THEN "deleting" ELSE "refused"
      /\ gen'[g].target = messages[i].id
      /\ \A h \in Gens \ {g} : gen'[h] = gen[h]
  BY <1>1 DEF ChatInv, ChatTyped
<1>5. drifted \subseteq drifted' /\ \A h \in Gens \ {g} : Under(h) => g \in drifted' /\ h \in drifted'
  BY <1>1, BesideDrifts
<1>6. \A h \in Gens : /\ (Editing(h)' => h = g \/ Editing(h)) /\ (Under(h)' => h = g \/ Under(h))
                      /\ (gen'[h].at = "updating" <=> gen[h].at = "updating")
                      /\ (gen'[h].at = "none" => gen[h].at = "none" /\ h # g)
                      /\ (gen'[h].at \in {"reading", "heard"} => gen'[h] = gen[h])
                      /\ (gen[h].at = "reading" => gen'[h].at = "reading")
  BY <1>2, <1>4 DEF Editing, Under
<1>7. Unbegun'
  BY <1>2, <1>4, <1>6 DEF ChatInv, Unbegun, Answers, Editing
<1>8. EachOnce'
  BY <1>2, <1>5 DEF ChatInv, EachOnce, Once
<1>9. Aligned'
  BY <1>2 DEF ChatInv, Aligned
<1>10. Disturbed'
  BY <1>5, <1>6 DEF ChatInv, Disturbed
<1>11. AnswerShown'
  BY <1>2, <1>5, <1>6 DEF ChatInv, AnswerShown
<1>12. SameText'
  BY <1>2, <1>5 DEF ChatInv, SameText
<1>13. ShownIsSaved'
  <2>1. \A m : Saved(m)' <=> Saved(m)
    BY <1>2 DEF Saved
  <2>2. \A n : Doomed(n) => Doomed(n)'
    BY <1>2, <1>4, <1>6 DEF Doomed
  <2> QED
    BY <1>2, <1>5, <1>6, <2>1, <2>2 DEF ChatInv, ShownIsSaved
<1>14. SavedIsShown'
  BY <1>2, <1>5 DEF ChatInv, SavedIsShown, IsShown
<1>15. Editing(g)' => messages[i].known
  BY <1>4 DEF Editing
<1>16. EditsKnown'
  <2> SUFFICES ASSUME NEW h \in Gens, Editing(h)'
               PROVE  /\ \A j \in DOMAIN messages : Asks(messages[j], gen'[h].target) => messages[j].known
                      /\ \A p \in posts : ~Asks(p, gen'[h].target)
    BY <1>2 DEF EditsKnown
  <2>1. CASE h = g
    <3>1. messages[i].known /\ Asks(messages[i], messages[i].id) /\ gen'[h].target = messages[i].id
      BY <2>1, <1>1, <1>4, <1>15 DEF Asks
    <3>2. \A j \in DOMAIN messages : Asks(messages[j], messages[i].id) => j = i
      BY <1>1 DEF ChatInv, EachOnce, Once, Same, Asks
    <3>3. \A p \in posts : ~Asks(p, messages[i].id)
      BY <1>1, <3>1 DEF ChatInv, EachOnce, Once, Same, Asks
    <3> QED
      BY <3>1, <3>2, <3>3
  <2>2. CASE h # g
    BY <2>2, <1>4, <1>6 DEF ChatInv, EditsKnown
  <2> QED
    BY <2>1, <2>2
<1>17. NothingBehind'
  BY <1>2, <1>4, <1>5, <1>6 DEF ChatInv, NothingBehind
<1>18. NothingShownBehind'
  <2> SUFFICES ASSUME NEW h \in Gens, Editing(h)', \A j \in DOMAIN messages : ~Asks(messages[j], gen'[h].target)
               PROVE  \A a \in DOMAIN rows : Asks(rows[a], gen'[h].target) =>
                        /\ \A p \in posts : p.id \in drifted'
                        /\ \A j \in DOMAIN rows, n \in DOMAIN messages :
                             a < j /\ Same(rows[j], messages[n]) => rows[j].id \in drifted'
    BY <1>2 DEF NothingShownBehind
  <2>1. h # g
    BY <1>1, <1>4 DEF Asks
  <2> QED
    BY <2>1, <1>4, <1>5, <1>6 DEF ChatInv, NothingShownBehind
<1> QED
  BY <1>3, <1>7, <1>8, <1>9, <1>10, <1>11, <1>12, <1>13, <1>14, <1>16, <1>17, <1>18 DEF ChatInv

\* The database forgets what is behind the question of an edit.
LEMMA DeleteAfterKeeps == ASSUME ChatInv, NEW g \in Gens, DeleteAfter(g) PROVE ChatInv'
<1> DEFINE k == gen[g].target
           place == PlaceOf(rows, k)
<1>1. /\ gen[g].at = "deleting" /\ place > 0 /\ rows' = SubSeq(rows, 1, place)
      /\ gen' = [gen EXCEPT ![g].at = "updating"]
      /\ drifted' = drifted \cup {p.id : p \in posts}
      /\ UNCHANGED <<messages, posts, panel, hook, list, faults>>
  BY DEF DeleteAfter
<1>2. ChatTyped' /\ ChatTyped /\ EachOnce
  BY DeleteTyped DEF ChatInv
<1>3. /\ gen'[g].at = "updating" /\ \A h \in Gens \ {g} : gen'[h] = gen[h]
      /\ gen'[g].target = k
  BY <1>1, <1>2 DEF ChatTyped
<1>4. /\ DOMAIN rows' = 1 .. place
      /\ \A j \in DOMAIN rows' : j \in DOMAIN rows /\ rows'[j] = rows[j]
  BY <1>1, <1>2, RowsCut
<1>5. place \in DOMAIN rows /\ Asks(rows[place], k)
  BY <1>1, <1>2, QuestionPlaces, Domains
<1>6. drifted \subseteq drifted' /\ \A p \in posts : p.id \in drifted'
  BY <1>1
<1> HIDE DEF k, place
<1>7. \A h \in Gens : /\ (Editing(h)' <=> Editing(h)) /\ (Under(h)' <=> Under(h))
                      /\ gen'[h].target = gen[h].target
                      /\ (gen'[h].at = "updating" => h = g \/ gen[h].at = "updating")
                      /\ (gen[h].at = "updating" => gen'[h].at = "updating")
                      /\ (gen'[h].at = "none" <=> gen[h].at = "none")
                      /\ (gen'[h].at = "refused" <=> gen[h].at = "refused")
                      /\ (gen'[h].at = "reading" <=> gen[h].at = "reading")
                      /\ (gen'[h].at = "heard" <=> gen[h].at = "heard")
  BY <1>1, <1>3 DEF Editing, Under, k
<1>8. Unbegun'
  <2> SUFFICES ASSUME NEW h \in Gens
               PROVE  /\ gen[h].at = "none" => \A j \in DOMAIN rows' : rows'[j].id # h
                      /\ Editing(h) \/ gen[h].at = "refused" => \A j \in DOMAIN rows' : ~Answers(rows'[j], h)
    <3>1. UNCHANGED <<messages, posts>> /\ Unbegun
      BY <1>1 DEF ChatInv
    <3> QED
      BY <1>7, <3>1 DEF Unbegun
  <2> QED
    BY <1>4 DEF ChatInv, Unbegun
<1>9. EachOnce'
  BY <1>1, <1>4, <1>6 DEF ChatInv, EachOnce, Once
<1>10. DOMAIN messages = 1 .. Len(messages) /\ DOMAIN rows = 1 .. Len(rows) /\ Len(rows) \in Nat
       /\ Len(messages) \in Nat
  BY <1>2, Domains
<1>11. Aligned'
  <2> SUFFICES ASSUME NEW i \in DOMAIN messages, NEW p \in DOMAIN rows', NEW j \in 1 .. i,
                      messages[i].known, messages[i].role = "user", Same(messages[i], rows'[p])
               PROVE  j \in DOMAIN rows' /\ Same(messages[j], rows'[j])
    BY <1>1 DEF Aligned
  <2>1. p \in DOMAIN rows /\ rows'[p] = rows[p] /\ p <= place
    BY <1>4
  <2>2. \A n \in 1 .. i : n \in DOMAIN rows /\ Same(messages[n], rows[n])
    BY <2>1 DEF ChatInv, Aligned
  <2>3. i \in DOMAIN rows /\ Same(rows[i], rows[p]) /\ rows[i].role = "user"
    BY <1>10, <2>1, <2>2 DEF Same
  <2>4. i = p
    BY <2>1, <2>3 DEF ChatInv, EachOnce, Once
  <2> QED
    BY <1>4, <1>5, <1>10, <2>1, <2>2, <2>4
<1>12. Disturbed'
  BY <1>6, <1>7 DEF ChatInv, Disturbed
<1>13. AnswerShown'
  <2>1. \A h \in Gens : h \notin drifted' /\ gen[h].at = "heard" =>
          \E j \in DOMAIN rows' : Answers(rows'[j], h)
    <3> SUFFICES ASSUME NEW h \in Gens, h \notin drifted', gen[h].at = "heard" PROVE FALSE
      OBVIOUS
    <3>1. h # g /\ Under(h) /\ Under(g)
      BY <1>1 DEF Under
    <3> QED
      BY <1>6, <3>1 DEF ChatInv, Disturbed
  <2> QED
    BY <1>1, <1>4, <1>6, <1>7, <2>1 DEF ChatInv, AnswerShown
<1>14. SameText'
  <2> SUFFICES ASSUME NEW i \in DOMAIN messages, messages[i].id \notin drifted,
                      NEW j \in DOMAIN rows', Same(messages[i], rows'[j])
               PROVE  messages[i].text = rows'[j].text
    BY <1>1, <1>6 DEF ChatInv, SameText
  <2> QED
    BY <1>4 DEF ChatInv, SameText
<1>15. ShownIsSaved'
  <2> SUFFICES ASSUME NEW i \in DOMAIN messages, messages[i].id \notin drifted'
               PROVE  \/ Saved(messages[i])'
                      \/ messages[i].role = "ai" /\ messages[i].id \in Gens /\ gen'[messages[i].id].at = "reading"
                      \/ Doomed(i)'
    BY <1>1 DEF ShownIsSaved
  <2>1. Doomed(i) => Doomed(i)'
    BY <1>1, <1>7 DEF Doomed
  <2>2. ASSUME Saved(messages[i]) PROVE Saved(messages[i])' \/ Doomed(i)'
    <3>1. PICK j \in DOMAIN rows : Same(messages[i], rows[j])
      BY <1>6, <2>2 DEF Saved, Same
    <3>2. CASE j <= place
      BY <1>1, <1>4, <1>5, <1>10, <3>1, <3>2 DEF Saved, Same
    <3>3. CASE j > place
      <4>1. PICK a \in DOMAIN messages : Asks(messages[a], k)
        <5>1. Editing(g)
          BY <1>1 DEF Editing
        <5>2. rows[j].id \notin drifted
          BY <1>6, <3>1 DEF Same
        <5> QED
          BY <1>5, <3>1, <3>3, <5>1, <5>2 DEF ChatInv, NothingShownBehind, k, Same
      <4>2. messages[a].known /\ messages[a].role = "user" /\ Same(messages[a], rows[place])
        BY <1>1, <1>5, <4>1 DEF ChatInv, EditsKnown, Editing, k, Asks, Same
      <4>3. \A n \in 1 .. a : n \in DOMAIN rows /\ Same(messages[n], rows[n])
        BY <1>5, <4>1, <4>2 DEF ChatInv, Aligned
      <4>4. a = place
        BY <1>5, <1>10, <4>1, <4>2, <4>3 DEF ChatInv, EachOnce, Once, Same
      <4>5. ~(i <= a)
        <5> SUFFICES ASSUME i <= a PROVE FALSE
          OBVIOUS
        <5>1. i \in DOMAIN rows /\ Same(messages[i], rows[i])
          BY <1>10, <4>1, <4>3
        <5>2. i = j
          BY <1>6, <3>1, <5>1 DEF ChatInv, EachOnce, Once, Same
        <5> QED
          BY <1>10, <3>3, <4>4, <5>2
      <4>6. a \in 1 .. (i - 1)
        BY <1>10, <4>1, <4>5
      <4> QED
        BY <1>1, <1>3, <4>1, <4>6 DEF Doomed
    <3> QED
      BY <1>5, <1>10, <3>2, <3>3
  <2> QED
    BY <1>6, <1>7, <2>1, <2>2 DEF ChatInv, ShownIsSaved
<1>16. SavedIsShown'
  BY <1>1, <1>4, <1>6 DEF ChatInv, SavedIsShown, IsShown
<1>17. EditsKnown'
  BY <1>1, <1>7 DEF ChatInv, EditsKnown
<1>18. NothingBehind'
  <2> SUFFICES ASSUME NEW h \in Gens, gen'[h].at = "updating"
               PROVE  \A a, j \in DOMAIN rows' : Asks(rows'[a], gen'[h].target) /\ a < j => rows'[j].id \in drifted'
    BY <1>1, <1>6 DEF NothingBehind
  <2>1. CASE h = g
    <3> SUFFICES ASSUME NEW a \in DOMAIN rows', NEW j \in DOMAIN rows', Asks(rows'[a], k), a < j PROVE FALSE
      BY <1>3, <2>1
    <3>1. a = place
      BY <1>4, <1>5 DEF ChatInv, EachOnce, Once, Same, Asks
    <3> QED
      BY <1>4, <1>5, <1>10, <3>1
  <2>2. CASE h # g
    BY <1>4, <1>6, <1>7, <2>2 DEF ChatInv, NothingBehind
  <2> QED
    BY <2>1, <2>2
<1>19. NothingShownBehind'
  BY <1>1, <1>4, <1>6, <1>7 DEF ChatInv, NothingShownBehind
<1> QED
  BY <1>2, <1>8, <1>9, <1>11, <1>12, <1>13, <1>14, <1>15, <1>16, <1>17, <1>18, <1>19 DEF ChatInv

\* The messages of a panel to which an empty answer is added.
LEMMA AnswerAdded ==
  ASSUME NEW g \in Gens, NEW before \in Seq(ShownMessage), messages' = Append(before, EmptyAnswer(g))
  PROVE  LET new == Len(before) + 1 IN
         /\ DOMAIN messages' = DOMAIN before \cup {new} /\ new \notin DOMAIN before
         /\ DOMAIN before = 1 .. Len(before) /\ Len(before) \in Nat
         /\ \A i \in DOMAIN before : messages'[i] = before[i]
         /\ messages'[new].id = g /\ messages'[new].role = "ai" /\ ~messages'[new].known
  BY EmptyAnswerTyped, Appended, LenProperties DEF Answers

\* An edit is given up; the answer begins all the same.
LEMMA EditFailsKeeps == ASSUME ChatInv, NEW g \in Gens, EditFails(g) PROVE ChatInv'
<1> DEFINE new == Len(messages) + 1
           k == gen[g].target
<1>1. /\ gen' = [gen EXCEPT ![g].at = "reading"] /\ Generate(g, messages)
      /\ UNCHANGED <<rows, posts, panel, list>>
      /\ drifted \subseteq drifted'
  BY DEF EditFails
<1>2. ChatTyped /\ ChatTyped' /\ EachOnce
  BY EditFailsTyped DEF ChatInv
<1>3. /\ DOMAIN messages' = DOMAIN messages \cup {new} /\ new \notin DOMAIN messages
      /\ DOMAIN messages = 1 .. Len(messages) /\ Len(messages) \in Nat
      /\ \A i \in DOMAIN messages : messages'[i] = messages[i]
      /\ messages'[new].id = g /\ messages'[new].role = "ai" /\ ~messages'[new].known
  <2>1. messages \in Seq(ShownMessage) /\ gen'[g].in \in Panels
    BY <1>2 DEF ChatTyped
  <2> QED
    <3>1. messages' = Append(messages, EmptyAnswer(g))
      BY <1>1, <1>2, <2>1, Generated
    <3> QED
      BY <2>1, <3>1, AnswerAdded
<1>4. /\ gen[g].at \in {"refused", "deleting", "updating"} /\ gen'[g].at = "reading"
      /\ \A h \in Gens \ {g} : gen'[h] = gen[h]
      /\ gen'[g].target = k
  BY <1>1, <1>2 DEF EditFails, ChatTyped
<1>5. \A i \in DOMAIN messages, a \in DOMAIN messages :
        gen[g].at = "updating" /\ Asks(messages[a], k) /\ a < i => messages[i].id \in drifted'
  <2> SUFFICES ASSUME NEW i \in DOMAIN messages, NEW a \in DOMAIN messages,
                      gen[g].at = "updating", Asks(messages[a], k), a < i
               PROVE  messages[i].id \in drifted'
    OBVIOUS
  <2>1. PlaceOf(messages, k) = a
    BY <1>2, QuestionPlaces
  <2>2. messages[i].id \in Behind(messages, k)
    BY <1>3, <2>1 DEF Behind
  <2> QED
    BY <2>2 DEF EditFails
<1> HIDE DEF new, k
<1>6. \A h \in Gens : /\ (Editing(h)' => Editing(h) /\ h # g /\ gen'[h] = gen[h])
                      /\ (Under(h)' <=> Under(h))
                      /\ (gen'[h].at = "updating" => gen[h].at = "updating" /\ h # g)
                      /\ (gen'[h].at = "none" => gen[h].at = "none" /\ h # g)
                      /\ (gen'[h].at = "refused" => gen[h].at = "refused" /\ h # g)
                      /\ (gen'[h].at = "heard" => gen[h].at = "heard" /\ h # g)
                      /\ (gen'[h].at = "reading" <=> gen[h].at = "reading" \/ h = g)
  BY <1>4 DEF Editing, Under
<1>7. /\ \A i \in DOMAIN messages : ~Answers(messages[i], g)
      /\ \A j \in DOMAIN rows : ~Answers(rows[j], g)
      /\ \A p \in posts : ~Answers(p, g)
  BY <1>4 DEF ChatInv, Unbegun, Editing
<1>8. \A h \in Gens : h # g /\ Under(h) => g \in drifted
  BY <1>4 DEF ChatInv, Disturbed, Under
<1>9. Unbegun'
  <2> SUFFICES ASSUME NEW h \in Gens, h # g
               PROVE  /\ gen[h].at = "none" =>
                           /\ \A i \in DOMAIN messages' : messages'[i].id # h
                           /\ \A j \in DOMAIN rows : rows[j].id # h
                           /\ \A p \in posts : p.id # h
                           /\ \A f \in Gens : Editing(f) => gen[f].target # h
                      /\ Editing(h) \/ gen[h].at = "refused" =>
                           /\ \A i \in DOMAIN messages' : ~Answers(messages'[i], h)
                           /\ \A j \in DOMAIN rows : ~Answers(rows[j], h)
                           /\ \A p \in posts : ~Answers(p, h)
    BY <1>1, <1>6 DEF Unbegun
  <2> QED
    BY <1>3 DEF ChatInv, Unbegun, Answers
<1>10. EachOnce'
  <2>1. \A m : Once(m)' => Once(m)
    BY <1>1 DEF Once
  <2>2. \A i, j \in DOMAIN messages' : Same(messages'[i], messages'[j]) /\ Once(messages[i])' => i = j
    BY <1>3, <1>7, <2>1 DEF ChatInv, EachOnce, Same, Answers, Once
  <2>3. \A i, j \in DOMAIN rows' : Same(rows'[i], rows'[j]) /\ Once(rows[i])' => i = j
    BY <1>1, <2>1 DEF ChatInv, EachOnce, Once
  <2>4. \A p \in posts', j \in DOMAIN rows' : Same(p, rows'[j]) => ~Once(p)'
    BY <1>1, <2>1 DEF ChatInv, EachOnce
  <2>5. \A p, q \in posts' : Same(p, q) /\ Once(p)' => p = q
    BY <1>1, <2>1 DEF ChatInv, EachOnce
  <2>6. \A p \in posts', i \in DOMAIN messages' : messages'[i].known /\ Same(p, messages'[i]) => ~Once(p)'
    BY <1>1, <1>3, <2>1 DEF ChatInv, EachOnce
  <2> QED
    BY <2>2, <2>3, <2>4, <2>5, <2>6 DEF EachOnce
<1>11. Aligned'
  BY <1>1, <1>3 DEF ChatInv, Aligned
<1>12. Disturbed'
  BY <1>1, <1>6 DEF ChatInv, Disturbed
<1>13. AnswerShown'
  <2> SUFFICES ASSUME NEW h \in Gens, h \notin drifted'
               PROVE  /\ gen'[h].at \in {"reading", "heard"} =>
                           \E i \in DOMAIN messages' : Answers(messages'[i], h) /\ ~messages'[i].known
                      /\ gen'[h].at = "reading" =>
                           (\A j \in DOMAIN rows : ~Answers(rows[j], h)) /\ \A p \in posts : ~Answers(p, h)
                      /\ gen'[h].at = "heard" =>
                           (\E j \in DOMAIN rows : Answers(rows[j], h)) \/ \E p \in posts : Answers(p, h)
    BY <1>1 DEF AnswerShown
  <2>1. CASE h = g
    BY <1>3, <1>4, <1>7, <2>1 DEF Answers
  <2>2. CASE h # g
    BY <1>1, <1>3, <1>4, <2>2 DEF ChatInv, AnswerShown
  <2> QED
    BY <2>1, <2>2
<1>14. SameText'
  <2> SUFFICES ASSUME NEW i \in DOMAIN messages', messages'[i].id \notin drifted'
               PROVE  /\ \A j \in DOMAIN rows : Same(messages'[i], rows[j]) => messages'[i].text = rows[j].text
                      /\ \A p \in posts : Same(messages'[i], p) => messages'[i].text = p.text
    BY <1>1 DEF SameText
  <2>1. CASE i = new
    BY <1>3, <1>7, <2>1 DEF Same, Answers
  <2>2. CASE i \in DOMAIN messages
    BY <1>1, <1>3, <2>2 DEF ChatInv, SameText
  <2> QED
    BY <1>3, <2>1, <2>2
<1>15. ShownIsSaved'
  <2> SUFFICES ASSUME NEW i \in DOMAIN messages, messages[i].id \notin drifted'
               PROVE  \/ Saved(messages[i])
                      \/ messages[i].role = "ai" /\ messages[i].id \in Gens /\ gen'[messages[i].id].at = "reading"
                      \/ Doomed(i)'
    <3>1. \A i \in DOMAIN messages' : Saved(messages[i])' <=> Saved(messages'[i])
      BY <1>1 DEF Saved
    <3>2. messages'[new].role = "ai" /\ messages'[new].id \in Gens /\ gen'[messages'[new].id].at = "reading"
      BY <1>3, <1>4
    <3> QED
      BY <1>3, <3>1, <3>2 DEF ShownIsSaved
  <2>1. ASSUME Doomed(i) PROVE Doomed(i)'
    <3>1. PICK h \in Gens, a \in 1 .. (i - 1) : gen[h].at = "updating" /\ Asks(messages[a], gen[h].target)
      BY <2>1 DEF Doomed
    <3>2. a \in DOMAIN messages /\ a < i
      BY <1>3, <3>1
    <3>3. h # g
      BY <1>5, <3>1, <3>2 DEF k
    <3> QED
      BY <1>3, <1>4, <3>1, <3>2, <3>3 DEF Doomed
  <2> QED
    BY <1>1, <1>6, <2>1 DEF ChatInv, ShownIsSaved
<1>16. SavedIsShown'
  <2>1. \A r : IsShown(r) => IsShown(r)'
    BY <1>3 DEF IsShown
  <2> QED
    BY <1>1, <2>1 DEF ChatInv, SavedIsShown, IsShown
<1>17. EditsKnown'
  BY <1>1, <1>3, <1>6 DEF ChatInv, EditsKnown, Asks
<1>18. NothingBehind'
  BY <1>1, <1>4, <1>6 DEF ChatInv, NothingBehind
<1>19. NothingShownBehind'
  <2> SUFFICES ASSUME NEW h \in Gens, Editing(h)', \A i \in DOMAIN messages' : ~Asks(messages'[i], gen'[h].target),
                      NEW a \in DOMAIN rows, Asks(rows[a], gen'[h].target)
               PROVE  /\ \A p \in posts : p.id \in drifted'
                      /\ \A j \in DOMAIN rows, i \in DOMAIN messages' :
                           a < j /\ Same(rows[j], messages'[i]) => rows[j].id \in drifted'
    BY <1>1 DEF NothingShownBehind
  <2>1. /\ Editing(h) /\ Under(h) /\ h # g /\ gen'[h] = gen[h]
        /\ \A i \in DOMAIN messages : ~Asks(messages[i], gen[h].target)
    BY <1>3, <1>6 DEF Editing, Under
  <2>2. /\ \A p \in posts : p.id \in drifted
        /\ \A j \in DOMAIN rows, i \in DOMAIN messages :
             a < j /\ Same(rows[j], messages[i]) => rows[j].id \in drifted
    BY <2>1 DEF ChatInv, NothingShownBehind
  <2> QED
    BY <1>1, <1>3, <1>8, <2>1, <2>2 DEF Same
<1> QED
  BY <1>2, <1>9, <1>10, <1>11, <1>12, <1>13, <1>14, <1>15, <1>16, <1>17, <1>18, <1>19 DEF ChatInv

\* A question and its answer begin.
LEMMA SendKeeps == ASSUME ChatInv, NEW g \in Gens, Send(g) PROVE ChatInv'
<1> DEFINE question == Row(g, "user", Text("ask", g))
           before == Append(messages, Message(question, FALSE))
           first == Len(messages) + 1
           last == Len(before) + 1
<1>1. /\ gen[g].at = "none" /\ gen' = [gen EXCEPT ![g].at = "reading", ![g].in = panel]
      /\ posts' = posts \cup {question} /\ Generate(g, before)
      /\ drifted' = drifted \cup Beside(g, g)
      /\ UNCHANGED <<rows, panel, list, faults>>
  BY DEF Send
<1>2. ChatTyped /\ ChatTyped'
  BY SendTyped DEF ChatInv
<1>3. question \in StoredMessage /\ question.id = g /\ question.role = "user"
  BY IdsKnown, TextsTyped, RowTyped
<1>4. /\ before \in Seq(ShownMessage)
      /\ DOMAIN before = DOMAIN messages \cup {first} /\ first \notin DOMAIN messages
      /\ DOMAIN messages = 1 .. Len(messages) /\ Len(messages) \in Nat
      /\ \A i \in DOMAIN messages : before[i] = messages[i]
      /\ before[first].id = g /\ before[first].role = "user"
      /\ before[first].text = question.text /\ ~before[first].known
  <2> DEFINE m == Message(question, FALSE)
  <2>1. messages \in Seq(ShownMessage)
    BY <1>2 DEF ChatTyped
  <2>2. m \in ShownMessage /\ m.id = g /\ m.role = "user" /\ m.text = question.text /\ ~m.known
    BY <1>3, MessageTyped
  <2>3. before = Append(messages, m)
    OBVIOUS
  <2> HIDE DEF m, before
  <2> QED
    BY <2>1, <2>2, <2>3, Appended, LenProperties
<1>5. PICK ask, new :
      /\ DOMAIN messages' = DOMAIN messages \cup {ask, new}
      /\ ask \notin DOMAIN messages /\ new \notin DOMAIN messages /\ new # ask
      /\ \A i \in DOMAIN messages : messages'[i] = messages[i] /\ i < ask /\ i < new
      /\ messages'[ask].id = g /\ messages'[ask].role = "user"
      /\ messages'[ask].text = question.text /\ ~messages'[ask].known
      /\ messages'[new].id = g /\ messages'[new].role = "ai" /\ ~messages'[new].known
  <2>1. gen'[g].in \in Panels
    BY <1>1, <1>2 DEF ChatTyped
  <2>2. messages' = Append(before, EmptyAnswer(g))
    BY <1>1, <1>2, <1>4, <2>1, Generated
  <2>3. Len(before) = first
    BY <1>4, LenProperties
  <2> HIDE DEF before
  <2>4. /\ DOMAIN messages' = DOMAIN before \cup {last} /\ last \notin DOMAIN before
        /\ \A i \in DOMAIN before : messages'[i] = before[i]
        /\ messages'[last].id = g /\ messages'[last].role = "ai" /\ ~messages'[last].known
    BY <1>4, <2>2, AnswerAdded
  <2>5. \A i \in DOMAIN messages : i < first /\ i < last
    BY <1>4, <2>3
  <2> HIDE DEF last, first
  <2> WITNESS first, last
  <2> QED
    BY <1>4, <2>4, <2>5
<1>6. /\ gen'[g].at = "reading" /\ \A h \in Gens \ {g} : gen'[h] = gen[h]
  BY <1>1, <1>2 DEF ChatTyped
<1>7. drifted \subseteq drifted' /\ \A h \in Gens : h # g /\ Under(h) => g \in drifted' /\ h \in drifted'
  BY <1>1, BesideDrifts
<1> HIDE DEF question, before, first, last
<1>8. \A h \in Gens : /\ (Editing(h)' => Editing(h) /\ h # g /\ gen'[h] = gen[h])
                      /\ (Under(h)' => Under(h) \/ h = g)
                      /\ (gen'[h].at = "updating" <=> gen[h].at = "updating")
                      /\ (gen[h].at = "updating" => h # g)
                      /\ (gen'[h].at = "none" => gen[h].at = "none" /\ h # g)
                      /\ (gen'[h].at = "refused" => gen[h].at = "refused" /\ h # g)
                      /\ (gen'[h].at = "heard" => gen[h].at = "heard" /\ h # g)
                      /\ (gen'[h].at = "reading" <=> gen[h].at = "reading" \/ h = g)
  BY <1>1, <1>6 DEF Editing, Under
<1>9. /\ \A i \in DOMAIN messages : messages[i].id # g
      /\ \A j \in DOMAIN rows : rows[j].id # g
      /\ \A p \in posts : p.id # g
      /\ \A h \in Gens : Editing(h) => gen[h].target # g
  BY <1>1 DEF ChatInv, Unbegun
<1>10. Unbegun'
  <2> SUFFICES ASSUME NEW h \in Gens, h # g
               PROVE  /\ gen[h].at = "none" =>
                           /\ \A i \in DOMAIN messages' : messages'[i].id # h
                           /\ \A j \in DOMAIN rows : rows[j].id # h
                           /\ \A p \in posts' : p.id # h
                           /\ \A f \in Gens : Editing(f) => gen[f].target # h
                      /\ Editing(h) \/ gen[h].at = "refused" =>
                           /\ \A i \in DOMAIN messages' : ~Answers(messages'[i], h)
                           /\ \A j \in DOMAIN rows : ~Answers(rows[j], h)
                           /\ \A p \in posts' : ~Answers(p, h)
    <3>1. rows' = rows
      BY <1>1
    <3> QED
      BY <1>8, <3>1 DEF Unbegun
  <2> QED
    BY <1>1, <1>3, <1>5 DEF ChatInv, Unbegun, Answers
<1>11. EachOnce'
  <2>1. \A m : Once(m)' => Once(m)
    BY <1>7 DEF Once
  <2>2. \A i, j \in DOMAIN messages' : Same(messages'[i], messages'[j]) /\ Once(messages[i])' => i = j
    BY <1>5, <1>9, <2>1 DEF ChatInv, EachOnce, Same, Once
  <2>3. \A i, j \in DOMAIN rows' : Same(rows'[i], rows'[j]) /\ Once(rows[i])' => i = j
    BY <1>1, <2>1 DEF ChatInv, EachOnce, Once
  <2>4. \A p \in posts', j \in DOMAIN rows' : Same(p, rows'[j]) => ~Once(p)'
    BY <1>1, <1>3, <1>9, <2>1 DEF ChatInv, EachOnce, Same
  <2>5. \A p, q \in posts' : Same(p, q) /\ Once(p)' => p = q
    BY <1>1, <1>3, <1>9, <2>1 DEF ChatInv, EachOnce, Same
  <2>6. \A p \in posts', i \in DOMAIN messages' : messages'[i].known /\ Same(p, messages'[i]) => ~Once(p)'
    BY <1>1, <1>3, <1>5, <1>9, <2>1 DEF ChatInv, EachOnce, Same
  <2> QED
    BY <2>2, <2>3, <2>4, <2>5, <2>6 DEF EachOnce
<1>12. Aligned'
  BY <1>1, <1>4, <1>5 DEF ChatInv, Aligned
<1>13. Disturbed'
  BY <1>7, <1>8 DEF ChatInv, Disturbed
<1>14. AnswerShown'
  <2> SUFFICES ASSUME NEW h \in Gens, h \notin drifted'
               PROVE  /\ gen'[h].at \in {"reading", "heard"} =>
                           \E i \in DOMAIN messages' : Answers(messages'[i], h) /\ ~messages'[i].known
                      /\ gen'[h].at = "reading" =>
                           (\A j \in DOMAIN rows : ~Answers(rows[j], h)) /\ \A p \in posts' : ~Answers(p, h)
                      /\ gen'[h].at = "heard" =>
                           (\E j \in DOMAIN rows : Answers(rows[j], h)) \/ \E p \in posts' : Answers(p, h)
    BY <1>1 DEF AnswerShown
  <2>1. CASE h = g
    BY <1>1, <1>3, <1>5, <1>6, <1>9, <2>1 DEF Answers
  <2>2. CASE h # g
    <3>1. h \notin drifted /\ gen'[h] = gen[h]
      BY <1>6, <1>7, <2>2
    <3>2. \A i \in DOMAIN messages : i \in DOMAIN messages' /\ messages'[i] = messages[i]
      BY <1>5
    <3>3. posts \subseteq posts' /\ \A p \in posts' : p \in posts \/ ~Answers(p, h)
      BY <1>1, <1>3 DEF Answers
    <3> QED
      BY <3>1, <3>2, <3>3 DEF ChatInv, AnswerShown
  <2> QED
    BY <2>1, <2>2
<1>15. SameText'
  <2> SUFFICES ASSUME NEW i \in DOMAIN messages', messages'[i].id \notin drifted'
               PROVE  /\ \A j \in DOMAIN rows : Same(messages'[i], rows[j]) => messages'[i].text = rows[j].text
                      /\ \A p \in posts' : Same(messages'[i], p) => messages'[i].text = p.text
    BY <1>1 DEF SameText
  <2>1. CASE i \in {ask, new}
    BY <1>1, <1>3, <1>5, <1>9, <2>1 DEF Same
  <2>2. CASE i \in DOMAIN messages
    BY <1>1, <1>3, <1>5, <1>7, <1>9, <2>2 DEF ChatInv, SameText, Same
  <2> QED
    BY <1>5, <2>1, <2>2
<1>16. ShownIsSaved'
  <2>1. \A m : Saved(m) => Saved(m)'
    BY <1>1 DEF Saved
  <2>2. \A i \in DOMAIN messages : Doomed(i) => Doomed(i)'
    BY <1>4, <1>5, <1>6, <1>8 DEF Doomed
  <2>3. Saved(messages[ask])'
    BY <1>1, <1>3, <1>5 DEF Saved, Same
  <2>4. messages'[new].role = "ai" /\ messages'[new].id \in Gens /\ gen'[messages'[new].id].at = "reading"
    BY <1>5, <1>6
  <2>5. ASSUME NEW i \in DOMAIN messages
        PROVE  \/ messages'[i].id \in drifted'
               \/ Saved(messages[i])'
               \/ messages'[i].role = "ai" /\ messages'[i].id \in Gens /\ gen'[messages'[i].id].at = "reading"
               \/ Doomed(i)'
    <3>1. messages'[i] = messages[i]
      BY <1>5
    <3>2. Saved(messages[i]) => Saved(messages[i])'
      BY <3>1, <1>1 DEF Saved
    <3> QED
      BY <1>7, <1>8, <2>2, <3>1, <3>2 DEF ChatInv, ShownIsSaved
  <2> QED
    BY <1>5, <2>3, <2>4, <2>5 DEF ShownIsSaved
<1>17. SavedIsShown'
  <2>1. \A r : IsShown(r) => IsShown(r)'
    BY <1>5 DEF IsShown
  <2>2. IsShown(question)'
    BY <1>3, <1>5 DEF IsShown, Same
  <2> QED
    BY <1>1, <1>7, <2>1, <2>2 DEF ChatInv, SavedIsShown, IsShown
<1>18. EditsKnown'
  <2> SUFFICES ASSUME NEW h \in Gens, Editing(h)'
               PROVE  /\ \A i \in DOMAIN messages' : Asks(messages'[i], gen'[h].target) => messages'[i].known
                      /\ \A p \in posts' : ~Asks(p, gen'[h].target)
    BY DEF EditsKnown
  <2>1. Editing(h) /\ gen'[h] = gen[h] /\ gen[h].target # g
    BY <1>8, <1>9
  <2> QED
    BY <1>1, <1>3, <1>5, <2>1 DEF ChatInv, EditsKnown, Asks
<1>19. NothingBehind'
  BY <1>1, <1>3, <1>6, <1>7, <1>8 DEF ChatInv, NothingBehind, Under
<1>20. NothingShownBehind'
  <2> SUFFICES ASSUME NEW h \in Gens, Editing(h)', \A i \in DOMAIN messages' : ~Asks(messages'[i], gen'[h].target),
                      NEW a \in DOMAIN rows, Asks(rows[a], gen'[h].target)
               PROVE  /\ \A p \in posts' : p.id \in drifted'
                      /\ \A j \in DOMAIN rows, i \in DOMAIN messages' :
                           a < j /\ Same(rows[j], messages'[i]) => rows[j].id \in drifted'
    BY <1>1 DEF NothingShownBehind
  <2>1. /\ Editing(h) /\ Under(h) /\ h # g /\ gen'[h] = gen[h]
        /\ \A i \in DOMAIN messages : ~Asks(messages[i], gen[h].target)
    BY <1>5, <1>8 DEF Editing, Under
  <2>2. /\ \A p \in posts : p.id \in drifted
        /\ \A j \in DOMAIN rows, i \in DOMAIN messages :
             a < j /\ Same(rows[j], messages[i]) => rows[j].id \in drifted
    BY <2>1 DEF ChatInv, NothingShownBehind
  <2> QED
    BY <1>1, <1>3, <1>5, <1>7, <2>1, <2>2 DEF Same
<1> QED
  BY <1>2, <1>10, <1>11, <1>12, <1>13, <1>14, <1>15, <1>16, <1>17, <1>18, <1>19, <1>20 DEF ChatInv

\* An edit is done in the database and in the panel, and its answer begins.
LEMMA EditDoneKeeps == ASSUME ChatInv, NEW g \in Gens, EditDone(g) PROVE ChatInv'
<1> DEFINE k == gen[g].target
           text == Text("ask", g)
           before == Edited(k, text)
           here == PlaceOf(messages, k)
           place == PlaceOf(rows, k)
           last == Len(before) + 1
<1>1. /\ gen[g].at = "updating" /\ place > 0
      /\ rows' = [rows EXCEPT ![place].text = text]
      /\ gen' = [gen EXCEPT ![g].at = "reading"] /\ Generate(g, before)
      /\ UNCHANGED <<drifted, posts, panel, list, faults>>
  BY DEF EditDone, Edited
<1>2. ChatTyped /\ ChatTyped' /\ EachOnce
  BY EditDoneTyped DEF ChatInv
<1>3. text \in Texts
  BY IdsKnown, TextsTyped
<1>4. /\ DOMAIN rows' = DOMAIN rows
      /\ \A j \in DOMAIN rows :
           /\ rows'[j].id = rows[j].id /\ rows'[j].role = rows[j].role
           /\ rows'[j].text = IF Asks(rows[j], k) THEN text ELSE rows[j].text
  BY <1>1, <1>2, <1>3, RowsEdited
<1>5. PICK new :
      /\ DOMAIN messages' = DOMAIN before \cup {new} /\ new \notin DOMAIN before
      /\ \A i \in DOMAIN before : messages'[i] = before[i] /\ i < new
      /\ messages'[new].id = g /\ messages'[new].role = "ai" /\ ~messages'[new].known
  <2>1. gen'[g].in \in Panels
    BY <1>1, <1>2 DEF ChatTyped
  <2>2. before \in Seq(ShownMessage) /\ DOMAIN before = 1 .. Len(before)
    BY <1>2, <1>3, MessagesEdited
  <2> HIDE DEF before
  <2>3. messages' = Append(before, EmptyAnswer(g))
    BY <1>1, <1>2, <2>1, <2>2, Generated
  <2>4. /\ DOMAIN messages' = DOMAIN before \cup {last} /\ last \notin DOMAIN before
        /\ \A i \in DOMAIN before : messages'[i] = before[i]
        /\ messages'[last].id = g /\ messages'[last].role = "ai" /\ ~messages'[last].known
    BY <2>2, <2>3, AnswerAdded
  <2>5. \A i \in DOMAIN before : i < last
    BY <2>2, LenProperties
  <2> HIDE DEF last
  <2> WITNESS last
  <2> QED
    BY <2>4, <2>5
<1>6. /\ DOMAIN before = IF here = 0 THEN DOMAIN messages ELSE 1 .. here
      /\ \A i \in DOMAIN before :
           /\ i \in DOMAIN messages /\ (\A a \in 1 .. i : a \in DOMAIN before)
           /\ messages'[i].id = messages[i].id /\ messages'[i].role = messages[i].role
           /\ messages'[i].known = messages[i].known
           /\ messages'[i].text = IF Asks(messages[i], k) THEN text ELSE messages[i].text
  <2>1. \A i \in DOMAIN before : \A a \in 1 .. i : a \in DOMAIN before
    <3>1. DOMAIN before = 1 .. Len(before) /\ Len(before) \in Nat
      BY <1>2, <1>3, MessagesEdited, LenProperties
    <3> HIDE DEF before
    <3> QED
      BY <3>1
  <2> QED
    BY <1>2, <1>3, <1>5, <2>1, MessagesEdited
<1>7. /\ gen'[g].at = "reading" /\ \A h \in Gens \ {g} : gen'[h] = gen[h]
  BY <1>1, <1>2 DEF ChatTyped
<1>8. /\ DOMAIN messages = 1 .. Len(messages) /\ Len(messages) \in Nat
      /\ DOMAIN rows = 1 .. Len(rows) /\ Len(rows) \in Nat
  BY <1>2, Domains
\* The question stands at one place in both.
<1>9. /\ place \in DOMAIN rows /\ Asks(rows[place], k)
      /\ \A j \in DOMAIN rows : Asks(rows[j], k) => j = place
      /\ here \in 0 .. Len(messages)
      /\ \A i \in DOMAIN messages : Asks(messages[i], k) => i = here
      /\ here # 0 => Asks(messages[here], k)
  BY <1>1, <1>2, <1>8, QuestionPlaces
<1> HIDE DEF before, here, place, last
<1>10. here # 0 => here = place /\ \A j \in 1 .. here : j \in DOMAIN rows /\ Same(messages[j], rows[j])
  <2> SUFFICES ASSUME here # 0
               PROVE  here = place /\ \A j \in 1 .. here : j \in DOMAIN rows /\ Same(messages[j], rows[j])
    OBVIOUS
  <2>1. here \in DOMAIN messages /\ Asks(messages[here], k) /\ messages[here].known
    BY <1>1, <1>8, <1>9 DEF ChatInv, EditsKnown, Editing
  <2>2. \A j \in 1 .. here : j \in DOMAIN rows /\ Same(messages[j], rows[j])
    BY <1>9, <2>1 DEF ChatInv, Aligned, Asks, Same
  <2>3. here \in DOMAIN rows /\ Asks(rows[here], k)
    BY <1>8, <2>1, <2>2 DEF Same, Asks
  <2> QED
    BY <1>9, <2>2, <2>3
<1>11. /\ \A p \in posts : p.id \in drifted
       /\ \A j \in DOMAIN rows : place < j => rows[j].id \in drifted
  BY <1>1, <1>9 DEF ChatInv, NothingBehind
<1>12. \A h \in Gens : h # g /\ Under(h) => g \in drifted /\ h \in drifted
  BY <1>1 DEF ChatInv, Disturbed, Under
<1>13. \A h \in Gens : /\ (Editing(h)' => Editing(h) /\ h # g /\ gen'[h] = gen[h])
                       /\ (Under(h)' <=> Under(h))
                       /\ (gen'[h].at = "updating" => gen[h].at = "updating" /\ h # g)
                       /\ (gen'[h].at = "none" => gen[h].at = "none" /\ h # g)
                       /\ (gen'[h].at = "refused" => gen[h].at = "refused" /\ h # g)
                       /\ (gen'[h].at = "heard" => gen[h].at = "heard" /\ h # g)
                       /\ (gen'[h].at = "reading" <=> gen[h].at = "reading" \/ h = g)
  BY <1>1, <1>7 DEF Editing, Under
<1>14. /\ \A i \in DOMAIN messages : ~Answers(messages[i], g)
       /\ \A j \in DOMAIN rows : ~Answers(rows[j], g)
       /\ \A p \in posts : ~Answers(p, g)
  BY <1>1 DEF ChatInv, Unbegun, Editing
<1> HIDE DEF text, k
<1>15. \A i \in DOMAIN messages' : i = new \/ (i \in DOMAIN before /\ i \in DOMAIN messages)
  BY <1>5, <1>6
<1>16. Unbegun'
  <2> SUFFICES ASSUME NEW h \in Gens, h # g
               PROVE  /\ gen[h].at = "none" =>
                           /\ \A i \in DOMAIN messages' : messages'[i].id # h
                           /\ \A j \in DOMAIN rows' : rows'[j].id # h
                           /\ \A p \in posts : p.id # h
                           /\ \A f \in Gens : Editing(f) => gen[f].target # h
                      /\ Editing(h) \/ gen[h].at = "refused" =>
                           /\ \A i \in DOMAIN messages' : ~Answers(messages'[i], h)
                           /\ \A j \in DOMAIN rows' : ~Answers(rows'[j], h)
                           /\ \A p \in posts : ~Answers(p, h)
    <3>1. posts' = posts
      BY <1>1
    <3> QED
      BY <1>13, <3>1 DEF Unbegun
  <2>1. /\ gen[h].at = "none" => \A i \in DOMAIN messages' : messages'[i].id # h
        /\ Editing(h) \/ gen[h].at = "refused" => \A i \in DOMAIN messages' : ~Answers(messages'[i], h)
    BY <1>5, <1>6, <1>15 DEF ChatInv, Unbegun, Answers
  <2>2. /\ gen[h].at = "none" => \A j \in DOMAIN rows' : rows'[j].id # h
        /\ Editing(h) \/ gen[h].at = "refused" => \A j \in DOMAIN rows' : ~Answers(rows'[j], h)
    BY <1>4 DEF ChatInv, Unbegun, Answers
  <2> QED
    BY <2>1, <2>2 DEF ChatInv, Unbegun
<1>17. EachOnce'
  <2>1. \A m : Once(m)' <=> Once(m)
    BY <1>1 DEF Once
  <2>2. \A i, j \in DOMAIN messages' : Same(messages'[i], messages'[j]) /\ Once(messages[i])' => i = j
    BY <1>1, <1>5, <1>6, <1>14, <1>15 DEF ChatInv, EachOnce, Same, Answers, Once
  <2>3. \A i, j \in DOMAIN rows' : Same(rows'[i], rows'[j]) /\ Once(rows[i])' => i = j
    BY <1>1, <1>4 DEF ChatInv, EachOnce, Once, Same
  <2>4. \A p \in posts', j \in DOMAIN rows' : Same(p, rows'[j]) => ~Once(p)'
    BY <1>1, <1>4, <2>1 DEF ChatInv, EachOnce, Same
  <2>5. \A p, q \in posts' : Same(p, q) /\ Once(p)' => p = q
    BY <1>1, <2>1 DEF ChatInv, EachOnce
  <2>6. \A p \in posts', i \in DOMAIN messages' : messages'[i].known /\ Same(p, messages'[i]) => ~Once(p)'
    BY <1>1, <1>5, <1>6, <1>15, <2>1 DEF ChatInv, EachOnce, Same
  <2> QED
    BY <2>2, <2>3, <2>4, <2>5, <2>6 DEF EachOnce
<1>18. Aligned'
  <2> SUFFICES ASSUME NEW i \in DOMAIN messages', NEW p \in DOMAIN rows', NEW j \in 1 .. i,
                      messages'[i].known, messages'[i].role = "user", Same(messages'[i], rows'[p])
               PROVE  j \in DOMAIN rows' /\ Same(messages'[j], rows'[j])
    BY DEF Aligned
  <2>1. i \in DOMAIN before /\ j \in DOMAIN before
    BY <1>5, <1>6, <1>15
  <2>2. j \in DOMAIN rows /\ Same(messages[j], rows[j])
    BY <1>4, <1>6, <2>1 DEF ChatInv, Aligned, Same
  <2> QED
    BY <1>4, <1>6, <2>1, <2>2 DEF Same
<1>19. Disturbed'
  BY <1>1, <1>13 DEF ChatInv, Disturbed
<1>20. AnswerShown'
  <2> SUFFICES ASSUME NEW h \in Gens, h \notin drifted
               PROVE  /\ gen'[h].at \in {"reading", "heard"} =>
                           \E i \in DOMAIN messages' : Answers(messages'[i], h) /\ ~messages'[i].known
                      /\ gen'[h].at = "reading" =>
                           (\A j \in DOMAIN rows' : ~Answers(rows'[j], h)) /\ \A p \in posts : ~Answers(p, h)
                      /\ gen'[h].at = "heard" =>
                           (\E j \in DOMAIN rows' : Answers(rows'[j], h)) \/ \E p \in posts : Answers(p, h)
    BY <1>1 DEF AnswerShown
  <2>1. CASE h = g
    BY <1>4, <1>5, <1>7, <1>14, <2>1 DEF Answers
  <2>2. CASE h # g
    BY <1>7, <1>12, <2>2 DEF Under
  <2> QED
    BY <2>1, <2>2
<1>21. SameText'
  <2> SUFFICES ASSUME NEW i \in DOMAIN messages', messages'[i].id \notin drifted
               PROVE  /\ \A j \in DOMAIN rows' : Same(messages'[i], rows'[j]) => messages'[i].text = rows'[j].text
                      /\ \A p \in posts : Same(messages'[i], p) => messages'[i].text = p.text
    BY <1>1 DEF SameText
  <2>1. CASE i = new
    BY <1>4, <1>5, <1>14, <2>1 DEF Same, Answers
  <2>2. CASE i \in DOMAIN before /\ i \in DOMAIN messages
    <3>1. \A p \in posts : ~Same(messages'[i], p)
      BY <1>11 DEF Same
    <3>2. ASSUME NEW j \in DOMAIN rows', Same(messages'[i], rows'[j])
          PROVE  messages'[i].text = rows'[j].text
      <4>1. j \in DOMAIN rows /\ Same(messages[i], rows[j]) /\ messages[i].id \notin drifted
        BY <1>4, <1>6, <2>2, <3>2 DEF Same
      <4>2. Asks(messages[i], k) <=> Asks(rows[j], k)
        BY <4>1 DEF Same, Asks
      <4>3. messages[i].text = rows[j].text
        BY <2>2, <4>1 DEF ChatInv, SameText
      <4>4. CASE Asks(messages[i], k)
        BY <1>4, <1>6, <2>2, <4>1, <4>2, <4>4
      <4>5. CASE ~Asks(messages[i], k)
        BY <1>4, <1>6, <2>2, <4>1, <4>2, <4>3, <4>5
      <4> QED
        BY <4>4, <4>5
    <3> QED
      BY <3>1, <3>2
  <2> QED
    BY <1>15, <2>1, <2>2
<1>22. ShownIsSaved'
  <2>1. messages'[new].role = "ai" /\ messages'[new].id \in Gens /\ gen'[messages'[new].id].at = "reading"
    BY <1>5, <1>7
  <2>2. ASSUME NEW i \in DOMAIN before, messages[i].id \notin drifted
        PROVE  \/ Saved(messages[i])'
               \/ messages'[i].role = "ai" /\ messages'[i].id \in Gens /\ gen'[messages'[i].id].at = "reading"
               \/ Doomed(i)'
    <3>1. Saved(messages[i]) => Saved(messages[i])'
      BY <1>1, <1>4, <1>6, <2>2 DEF Saved, Same
    <3>2. ASSUME Doomed(i) PROVE Doomed(i)'
      <4>1. PICK h \in Gens, a \in 1 .. (i - 1) : gen[h].at = "updating" /\ Asks(messages[a], gen[h].target)
        BY <3>2 DEF Doomed
      <4>2. a \in DOMAIN before /\ a \in DOMAIN messages /\ a < i
        BY <1>6, <1>8, <2>2, <4>1
      <4>3. h # g
        BY <1>6, <1>8, <1>9, <2>2, <4>1, <4>2 DEF k
      <4>4. Asks(messages'[a], gen[h].target)
        BY <1>6, <4>1, <4>2 DEF Asks
      <4> QED
        BY <1>7, <4>1, <4>3, <4>4 DEF Doomed
    <3>3. messages[i].role = "ai" /\ messages[i].id \in Gens /\ gen[messages[i].id].at = "reading" =>
            messages'[i].role = "ai" /\ messages'[i].id \in Gens /\ gen'[messages'[i].id].at = "reading"
      BY <1>6, <1>13, <2>2
    <3> QED
      BY <1>6, <2>2, <3>1, <3>2, <3>3 DEF ChatInv, ShownIsSaved
  <2> QED
    BY <1>1, <1>6, <1>15, <2>1, <2>2 DEF ShownIsSaved
<1>23. SavedIsShown'
  <2> SUFFICES ASSUME list = "shown", NEW j \in DOMAIN rows, rows[j].id \notin drifted
               PROVE  IsShown(rows[j])'
    BY <1>1, <1>4, <1>11 DEF SavedIsShown, IsShown
  <2>1. PICK i \in DOMAIN messages : Same(messages[i], rows[j])
    BY DEF ChatInv, SavedIsShown, IsShown
  <2>2. i \in DOMAIN before
    <3> SUFFICES ASSUME here # 0 PROVE i <= here
      BY <1>6, <1>8, <1>9
    <3>1. j <= here
      BY <1>8, <1>9, <1>10, <1>11
    <3>2. j \in DOMAIN messages /\ Same(messages[j], rows[j])
      BY <1>8, <1>9, <1>10, <3>1
    <3>3. i = j
      BY <2>1, <3>2 DEF ChatInv, EachOnce, Once, Same
    <3> QED
      BY <3>1, <3>3
  <2> QED
    BY <1>4, <1>5, <1>6, <2>1, <2>2 DEF IsShown, Same
<1>24. EditsKnown'
  <2> SUFFICES ASSUME NEW h \in Gens, Editing(h)'
               PROVE  /\ \A i \in DOMAIN messages' : Asks(messages'[i], gen'[h].target) => messages'[i].known
                      /\ \A p \in posts : ~Asks(p, gen'[h].target)
    BY <1>1 DEF EditsKnown
  <2>1. Editing(h) /\ gen'[h] = gen[h]
    BY <1>13
  <2> QED
    BY <1>5, <1>6, <1>15, <2>1 DEF ChatInv, EditsKnown, Asks
<1>25. NothingBehind'
  <2> SUFFICES ASSUME NEW h \in Gens, gen'[h].at = "updating"
               PROVE  /\ \A p \in posts : p.id \in drifted
                      /\ \A a, j \in DOMAIN rows : Asks(rows'[a], gen'[h].target) /\ a < j => rows'[j].id \in drifted
    BY <1>1, <1>4 DEF NothingBehind
  <2>1. gen[h].at = "updating" /\ gen'[h] = gen[h]
    BY <1>7, <1>13
  <2> QED
    BY <1>4, <2>1 DEF ChatInv, NothingBehind, Asks
<1>26. NothingShownBehind'
  <2> SUFFICES ASSUME NEW h \in Gens, Editing(h)', \A i \in DOMAIN messages' : ~Asks(messages'[i], gen'[h].target),
                      NEW a \in DOMAIN rows, Asks(rows'[a], gen'[h].target),
                      NEW j \in DOMAIN rows, NEW i \in DOMAIN messages', a < j, Same(rows'[j], messages'[i])
               PROVE  rows'[j].id \in drifted
    BY <1>1, <1>4, <1>11 DEF NothingShownBehind
  <2>1. Editing(h) /\ Under(h) /\ h # g /\ gen'[h] = gen[h]
    BY <1>13 DEF Editing, Under
  <2>2. CASE i = new
    BY <1>4, <1>5, <1>12, <2>1, <2>2 DEF Same
  <2>3. CASE i \in DOMAIN before /\ \E b \in DOMAIN messages : Asks(messages[b], gen[h].target)
    <3>1. PICK b \in DOMAIN messages : Asks(messages[b], gen[h].target)
      BY <2>3
    <3>2. b \notin DOMAIN before
      BY <1>5, <1>6, <2>1, <3>1 DEF Asks
    <3>3. here # 0 /\ b > here
      BY <1>6, <1>8, <1>9, <3>1, <3>2
    <3>4. Asks(rows[a], gen[h].target) /\ messages[b].known /\ messages[b].role = "user" /\ Same(messages[b], rows[a])
      BY <1>4, <2>1, <3>1 DEF ChatInv, EditsKnown, Asks, Same
    <3>5. b \in 1 .. b /\ b \in DOMAIN rows /\ Same(messages[b], rows[b])
      BY <1>8, <3>1, <3>4 DEF ChatInv, Aligned
    <3>6. a = b
      BY <3>4, <3>5 DEF ChatInv, EachOnce, Once, Same
    <3> QED
      BY <1>4, <1>8, <1>9, <1>10, <1>11, <3>3, <3>6
  <2>4. CASE i \in DOMAIN before /\ \A b \in DOMAIN messages : ~Asks(messages[b], gen[h].target)
    <3>1. i \in DOMAIN messages /\ Same(rows[j], messages[i]) /\ Asks(rows[a], gen[h].target)
      BY <1>4, <1>6, <2>1, <2>4 DEF Same, Asks
    <3> QED
      BY <1>4, <2>1, <2>4, <3>1 DEF ChatInv, NothingShownBehind
  <2> QED
    BY <1>15, <2>2, <2>3, <2>4
<1> QED
  BY <1>2, <1>16, <1>17, <1>18, <1>19, <1>20, <1>21, <1>22, <1>23, <1>24, <1>25, <1>26 DEF ChatInv

-----------------------------------------------------------------------------
LEMMA ChatInitInv == ChatInit => ChatInv
<1> SUFFICES ASSUME ChatInit PROVE ChatInv
  OBVIOUS
<1>1. ChatTyped
  BY ChatInitTyped
<1>2. OldRows \in Seq(StoredMessage)
  BY IdsKnown, TextsTyped, RowTyped DEF OldRows
<1>3. /\ rows = OldRows /\ messages = Load(OldRows) /\ posts = {} /\ drifted = {}
      /\ \A g \in Gens : gen[g].at = "none"
  BY DEF ChatInit
<1>4. /\ DOMAIN rows = 1 .. 2 /\ DOMAIN messages = 1 .. 2
      /\ rows[1].id = Old /\ rows[1].role = "user" /\ rows[2].id = Old /\ rows[2].role = "ai"
      /\ \A i \in 1 .. 2 : messages[i].id = rows[i].id /\ messages[i].role = rows[i].role
                           /\ messages[i].text = rows[i].text
  <2> DEFINE a == Row(Old, "user", Text("ask", Old))
             b == Row(Old, "ai", Text("answer", Old))
  <2>1. a.id = Old /\ a.role = "user" /\ b.id = Old /\ b.role = "ai"
    BY DEF Row
  <2>2. OldRows = <<a, b>>
    BY DEF OldRows
  <2> HIDE DEF a, b
  <2>3. DOMAIN OldRows = 1 .. 2 /\ OldRows[1] = a /\ OldRows[2] = b
    BY <2>2
  <2> QED
    BY <1>2, <1>3, <2>1, <2>3, Loaded
<1>5. Unbegun /\ Disturbed /\ AnswerShown /\ EditsKnown /\ NothingBehind /\ NothingShownBehind
  BY <1>3, <1>4, IdsKnown DEF Unbegun, Disturbed, AnswerShown, EditsKnown, NothingBehind, NothingShownBehind, Editing, Under
<1>6. EachOnce /\ Aligned /\ SameText /\ ShownIsSaved /\ SavedIsShown
  BY <1>3, <1>4 DEF EachOnce, Aligned, SameText, ShownIsSaved, SavedIsShown, Saved, IsShown, Same
<1> QED
  BY <1>1, <1>5, <1>6 DEF ChatInv

LEMMA ChatNextInv == ChatInv /\ [ChatNext]_chatVars => ChatInv'
<1> SUFFICES ASSUME ChatInv, [ChatNext]_chatVars PROVE ChatInv'
  OBVIOUS
<1>1. ASSUME NEW g \in Gens, Send(g) PROVE ChatInv'
  BY <1>1, SendKeeps
<1>2. ASSUME NEW g \in Gens, Edit(g) PROVE ChatInv'
  BY <1>2, EditKeeps
<1>3. ASSUME NEW g \in Gens, DeleteAfter(g) PROVE ChatInv'
  BY <1>3, DeleteAfterKeeps
<1>4. ASSUME NEW g \in Gens, EditDone(g) PROVE ChatInv'
  BY <1>4, EditDoneKeeps
<1>5. ASSUME NEW g \in Gens, EditFails(g) PROVE ChatInv'
  BY <1>5, EditFailsKeeps
<1>6. ASSUME NEW g \in Gens, ReadChunk(g) \/ ReadLast(g) \/ Finish(g) \/ Stop(g) \/ CutOff(g) PROVE ChatInv'
  BY <1>6, AnswerTurns
<1>7. ASSUME NEW p \in posts, SaveLands(p) \/ SaveLost(p) PROVE ChatInv'
  BY <1>7, SaveLandsKeeps, SaveLostKeeps
<1>8. CASE Reopen \/ ListLoaded
  BY <1>8, ReopenKeeps, ListLoadedKeeps
<1>9. CASE UNCHANGED chatVars
  <2>1. UNCHANGED <<messages, rows, posts, gen, panel, hook, list, faults, drifted>>
    BY <1>9 DEF chatVars
  <2> QED
    BY <2>1 DEF ChatInv, ChatTyped, Unbegun, EachOnce, Aligned, Disturbed, AnswerShown, SameText, ShownIsSaved,
                SavedIsShown, EditsKnown, NothingBehind, NothingShownBehind, Once, Saved, Doomed, IsShown, Editing, Under
<1> QED
  BY <1>1, <1>2, <1>3, <1>4, <1>5, <1>6, <1>7, <1>8, <1>9 DEF ChatNext

\* The chat's variables keep their types.
THEOREM ChatIsTyped == ChatSpec => []ChatTyped
<1>1. ChatInit => ChatInv
  BY ChatInitInv
<1>2. ChatInv /\ [ChatNext]_chatVars => ChatInv'
  BY ChatNextInv
<1>3. ChatInv => ChatTyped
  BY DEF ChatInv
<1> QED
  BY <1>1, <1>2, <1>3, PTL DEF ChatSpec

LEMMA QuietAgrees == ChatInv => ReloadShowsTheSame
<1> DEFINE shown == [i \in DOMAIN messages |-> Shown(messages[i])]
<1> SUFFICES ASSUME ChatInv, Quiet, NEW m \in ToSet(shown) \cup ToSet(rows), m.id \notin drifted
             PROVE  /\ Cardinality({i \in DOMAIN shown : shown[i] = m}) = 1
                    /\ Cardinality({j \in DOMAIN rows : rows[j] = m}) = 1
  BY DEF ReloadShowsTheSame
<1>1. /\ \A i \in DOMAIN messages : messages[i] \in ShownMessage
      /\ \A j \in DOMAIN rows : rows[j] \in StoredMessage
  BY Domains DEF ChatInv
<1>2. /\ DOMAIN shown = DOMAIN messages
      /\ \A i \in DOMAIN messages : shown[i].id = messages[i].id /\ shown[i].role = messages[i].role
                                    /\ shown[i].text = messages[i].text /\ shown[i] \in StoredMessage
  BY <1>1 DEF Shown, Row, ShownMessage, StoredMessage
<1> HIDE DEF shown
<1>3. PICK i \in DOMAIN messages, j \in DOMAIN rows : shown[i] = m /\ rows[j] = m
  <2>1. ASSUME NEW i \in DOMAIN messages, NEW j \in DOMAIN rows, messages[i].id \notin drifted, Same(messages[i], rows[j])
        PROVE  shown[i] = rows[j]
    <3>1. messages[i].text = rows[j].text
      BY <2>1 DEF ChatInv, SameText
    <3> QED
      BY <1>1, <1>2, <2>1, <3>1 DEF Same, StoredMessage
  <2>2. CASE \E i \in DOMAIN messages : shown[i] = m
    <3>1. PICK i \in DOMAIN messages : shown[i] = m
      BY <2>2
    <3>2. messages[i].id \notin drifted
      BY <1>2, <3>1
    <3>3. \A g \in Gens : gen[g].at \notin {"reading", "updating"}
      BY DEF Quiet, Under
    <3>4. PICK j \in DOMAIN rows : Same(messages[i], rows[j])
      BY <3>2, <3>3 DEF ChatInv, ShownIsSaved, Saved, Doomed, Quiet
    <3> QED
      BY <2>1, <3>1, <3>2, <3>4
  <2>3. CASE \E j \in DOMAIN rows : rows[j] = m
    <3>1. PICK j \in DOMAIN rows : rows[j] = m
      BY <2>3
    <3>2. PICK i \in DOMAIN messages : Same(messages[i], rows[j])
      BY <3>1 DEF ChatInv, SavedIsShown, IsShown, Quiet
    <3> QED
      BY <2>1, <3>1, <3>2 DEF Same
  <2> QED
    BY <1>2, <2>2, <2>3 DEF ToSet
<1>4. {n \in DOMAIN shown : shown[n] = m} = {i}
  BY <1>2, <1>3 DEF ChatInv, EachOnce, Once, Same
<1>5. {n \in DOMAIN rows : rows[n] = m} = {j}
  BY <1>3 DEF ChatInv, EachOnce, Once, Same
<1> QED
  BY <1>4, <1>5, FS_Singleton

\* A quiet chat shows what it will show when it is loaded again, for any number of answers,
\* of openings of the panel and of requests lost: useAiChat.ts, aiChatSlice.ts.
THEOREM QuietChatIsSaved == ChatSpec => []ReloadShowsTheSame
<1>1. ChatInit => ChatInv
  BY ChatInitInv
<1>2. ChatInv /\ [ChatNext]_chatVars => ChatInv'
  BY ChatNextInv
<1>3. ChatInv => ReloadShowsTheSame
  BY QuietAgrees
<1> QED
  BY <1>1, <1>2, <1>3, PTL DEF ChatSpec

\* The assistant's two stores share nothing: each behaves as it does on its own.
THEOREM AssistantKeepsApart == AssistantSpec => Spec /\ ChatSpec
<1>1. AssistantInit => Init /\ ChatInit
  BY DEF AssistantInit
<1>2. [AssistantNext]_<<focus, vars, chatVars>> => [Next]_vars
  BY DEF AssistantNext
<1>3. [AssistantNext]_<<focus, vars, chatVars>> => [ChatNext]_chatVars
  BY DEF AssistantNext
<1> QED
  BY <1>1, <1>2, <1>3, PTL DEF AssistantSpec, Spec, ChatSpec
=============================================================================
