----------------------------- MODULE QueryTabs -----------------------------
(***************************************************************************)
(* The query tabs of one browser: QueryEditor, the query cache it reads    *)
(* results through, the question before a destructive statement, and the   *)
(* requests on their way to the server.  A result is cached under the      *)
(* connection, the statement and the number of runs in its tab, not under  *)
(* the tab.  Pages are left out: only reading statements have them.        *)
(***************************************************************************)
EXTENDS FiniteSets, Naturals

CONSTANTS Tabs, Conns,
          MaxRuns,  \* bound: Run pressed
          MaxMoves, \* bound: connection switches, page loads, results cleared, tabs closed
          MaxFaults \* bound: executions that fail or whose answer is lost

VARIABLES active,   \* the active connection
          tab,      \* what each tab has executed, and how often it ran
          kept,     \* the executed statement as saved with the tab
          cache,    \* the query cache: one entry for all tabs that share a key
          requests, \* requests under way
          asking,   \* the one question on screen
          faults, moves,
          shown,    \* ghost: who has shown the result under which key since the page was loaded
          pressed, occasions, confirms, ran \* ghosts: counts for each statement

queryTabsVars == <<active, tab, kept, cache, requests, asking, faults, moves,
                   shown, pressed, occasions, confirms, ran>>

\* A statement that changes data, and one that is asked about first.
Statements == {"write", "drop"}
Keys == [conn : Conns, sql : Statements, nonce : 1 .. MaxRuns + 1]
Entry == {"none", "waiting", "done", "stale", "failed"}
NoQuestion == [pc |-> "none"]
Counts == pressed["write"] + pressed["drop"]

Init ==
  /\ active \in Conns
  /\ tab = [t \in Tabs |-> [sql |-> "none", nonce |-> 0]]
  /\ kept = [t \in Tabs |-> "none"]
  /\ cache = [k \in Keys |-> "none"]
  /\ requests = {} /\ asking = NoQuestion /\ faults = 0 /\ moves = 0 /\ shown = {}
  /\ pressed = [s \in Statements |-> 0] /\ occasions = pressed /\ confirms = pressed /\ ran = pressed

Key(t) == [conn |-> active, sql |-> tab[t].sql, nonce |-> tab[t].nonce]

\* A tab that renders fetches what the cache does not hold; what it holds but
\* is stale or failed, only when the tab has come to it from another key.
Wants(t, held) ==
  /\ tab'[t].sql # "none"
  /\ held[Key(t)'] \in IF Key(t)' = Key(t) THEN {"none"} ELSE {"none", "stale", "failed"}

Showing == {<<t, Key(t)>> : t \in {u \in Tabs : tab[u].sql # "none"}}

\* Every change of the store renders every tab.
Render(held, sent, before) ==
  LET wanted == {Key(t)' : t \in {u \in Tabs : Wants(u, held)}}
  IN /\ shown' = before \cup Showing'
     /\ cache' = [k \in Keys |-> IF k \in wanted THEN "waiting" ELSE held[k]]
     /\ requests' = sent \cup {[key |-> k, pc |-> "sent", home |-> "cache", since |-> moves'] : k \in wanted}

\* Run, by its button or by its shortcut, which works behind the question too.
Run(t, s) ==
  /\ Counts < MaxRuns
  /\ tab' = [tab EXCEPT ![t] = [sql |-> s, nonce |-> @.nonce + 1]]
  /\ pressed' = [pressed EXCEPT ![s] = @ + 1]
  /\ UNCHANGED <<active, kept, asking, faults, moves, occasions, confirms, ran>>
  /\ Render(cache, requests, shown)

\* The executed statement is saved with the tab half a second later.
Keep(t) ==
  /\ kept[t] # tab[t].sql
  /\ kept' = [kept EXCEPT ![t] = tab[t].sql]
  /\ UNCHANGED <<active, tab, asking, faults, moves, pressed, occasions, confirms, ran>>
  /\ Render(cache, requests, shown)

Move == moves < MaxMoves /\ moves' = moves + 1

\* An occasion to execute again, for each of the tabs that shows the statement.
Occasion(executed) ==
  occasions' = [s \in Statements |-> occasions[s] + Cardinality({t \in Tabs : executed[t] = s})]

\* Another connection becomes the active one: every tab looks its statement up there.
Switch(c) ==
  /\ Move /\ asking = NoQuestion /\ c # active
  /\ active' = c
  /\ Occasion([t \in Tabs |-> tab[t].sql])
  /\ UNCHANGED <<tab, kept, asking, faults, pressed, confirms, ran>>
  /\ Render(cache, requests, shown)

\* The page is loaded again: the cache is empty, the tabs and what they had
\* executed come from the browser's store; the requests left behind may
\* still be carried out.
Load ==
  /\ Move
  /\ tab' = [t \in Tabs |-> [sql |-> kept[t], nonce |-> IF kept[t] = "none" THEN 0 ELSE 1]]
  /\ asking' = NoQuestion
  /\ Occasion(kept)
  /\ UNCHANGED <<active, kept, faults, pressed, confirms, ran>>
  /\ shown' = Showing'
  /\ LET left == {[r EXCEPT !.home = "gone"] : r \in {q \in requests : q.pc # "asked"}}
         fetched == {Key(t)' : t \in {u \in Tabs : tab'[u].sql # "none"}}
     IN /\ cache' = [k \in Keys |-> IF k \in fetched THEN "waiting" ELSE "none"]
        /\ requests' = left \cup {[key |-> k, pc |-> "sent", home |-> "cache", since |-> moves'] : k \in fetched}

\* Clear removes every result of the active connection from the cache.
Clear(t) ==
  /\ Move /\ asking = NoQuestion
  /\ tab[t].sql # "none" /\ cache[Key(t)] \in {"done", "stale", "failed"}
  /\ tab' = [tab EXCEPT ![t].sql = "none"]
  /\ cache' = [k \in Keys |-> IF k.conn = active THEN "none" ELSE cache[k]]
  /\ requests' = {IF r.key.conn = active /\ r.home = "cache" THEN [r EXCEPT !.home = "cleared"] ELSE r : r \in requests}
  /\ Occasion([u \in Tabs |-> IF u = t THEN "none" ELSE tab[u].sql])
  /\ UNCHANGED <<active, kept, asking, faults, shown, pressed, confirms, ran>>

\* A tab is closed, for a new one to be opened in its place.
Close(t) ==
  /\ Move /\ asking = NoQuestion /\ tab[t].nonce > 0
  /\ tab' = [tab EXCEPT ![t] = [sql |-> "none", nonce |-> 0]]
  /\ kept' = [kept EXCEPT ![t] = "none"]
  /\ UNCHANGED <<active, asking, faults, pressed, occasions, confirms, ran>>
  /\ Render(cache, requests, {<<IF p[1] = t THEN "closed" ELSE p[1], p[2]>> : p \in shown})

\* staleTime has passed.
Age(k) ==
  /\ cache[k] = "done"
  /\ cache' = [cache EXCEPT ![k] = "stale"]
  /\ UNCHANGED <<active, tab, kept, requests, asking, faults, moves, shown, pressed, occasions, confirms, ran>>

Settle(r, entry) ==
  /\ requests' = requests \ {r}
  /\ cache' = IF r.home = "cache" THEN [cache EXCEPT ![r.key] = entry] ELSE cache

Executed(r) == ran' = [ran EXCEPT ![r.key.sql] = @ + 1]

\* The server executes what needs no confirmation, or has it.
Admitted(r) == r.pc = "again" \/ (r.pc = "sent" /\ r.key.sql # "drop")

Answer(r) ==
  /\ Admitted(r) /\ Executed(r) /\ Settle(r, "done")
  /\ UNCHANGED <<active, tab, kept, asking, faults, moves, shown, pressed, occasions, confirms>>

\* Mutant: the query library's default, which sends a failed query again.
SentAgain(r, entry) == UNCHANGED <<requests, cache>>

GivenUp(r, entry) == Settle(r, entry)

\* Refused, failed before or after the statement took effect, or the answer lost.
Fail(r) ==
  /\ faults < MaxFaults /\ r.pc \in {"sent", "again"}
  /\ faults' = faults + 1
  /\ (Executed(r) /\ Admitted(r)) \/ ran' = ran
  /\ GivenUp(r, "failed")
  /\ UNCHANGED <<active, tab, kept, asking, moves, shown, pressed, occasions, confirms>>

\* The server asks for confirmation.  There is one question on screen: a
\* second one takes the place of the first, which nobody answers any more.
Ask(r) ==
  /\ r.pc = "sent" /\ r.key.sql = "drop"
  /\ IF r.home = "gone"
     THEN requests' = requests \ {r} /\ UNCHANGED asking
     ELSE /\ asking' = [r EXCEPT !.pc = "asked"]
          /\ requests' = (requests \ {r}) \cup {asking'}
  /\ UNCHANGED <<active, tab, kept, cache, faults, moves, shown, pressed, occasions, confirms, ran>>

Confirm ==
  /\ asking # NoQuestion
  /\ asking' = NoQuestion
  /\ confirms' = [confirms EXCEPT ![asking.key.sql] = @ + 1]
  /\ UNCHANGED <<active, tab, kept, faults, moves, pressed, occasions, ran>>
  /\ Render(cache, (requests \ {asking}) \cup {[asking EXCEPT !.pc = "again"]}, shown)

Cancel ==
  /\ asking # NoQuestion
  /\ asking' = NoQuestion
  /\ Settle(asking, "failed")
  /\ UNCHANGED <<active, tab, kept, faults, moves, shown, pressed, occasions, confirms, ran>>

Next ==
  \/ \E t \in Tabs : Keep(t) \/ Clear(t) \/ Close(t) \/ (\E s \in Statements : Run(t, s))
  \/ \E c \in Conns : Switch(c)
  \/ Load
  \/ \E k \in Keys : Age(k)
  \/ \E r \in requests : Answer(r) \/ Fail(r) \/ Ask(r)
  \/ Confirm \/ Cancel

Spec == Init /\ [][Next]_queryTabsVars

-----------------------------------------------------------------------------
\* A statement is executed no more often than Run was pressed for it, plus once
\* for each tab that showed it when the connection was switched, the page was
\* loaded or another tab's results were cleared; a destructive one no more often
\* than its question was confirmed.  And Run sends a request, unless another tab,
\* or one closed since, has shown the statement's result under the same number.
RunsAreAskedFor ==
  /\ [](/\ \A s \in Statements : ran[s] <= pressed[s] + occasions[s]
        /\ ran["drop"] <= confirms["drop"])
  /\ [][\A t \in Tabs :
           tab'[t].nonce = tab[t].nonce + 1 /\ cache[Key(t)'] \in {"waiting", "done"} =>
             \E p \in shown : p[1] # t /\ p[2] = Key(t)']_queryTabsVars
=============================================================================
