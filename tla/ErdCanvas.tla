----------------------------- MODULE ErdCanvas -----------------------------
(***************************************************************************)
(* The ERD canvas of one connection, in a tab of the explorer or on a page *)
(* of its own, and the workspaces it saves (useERDLogic, the dialogs that  *)
(* save and open workspaces, ERDPage, the ERD workspaces of the server).   *)
(* A drawing stands for tables, positions, edges and settings; drawings    *)
(* are numbered as they are made and 0 is the empty one.  A workspace is   *)
(* a number, 0 is none; names and notes go with it.  One user; others who  *)
(* save the same workspace, and versions, are in Sharing.                  *)
(***************************************************************************)
EXTENDS Naturals, Sequences

CONSTANTS Databases,
          Home,        \* the database the tab was opened for
          Saves,       \* saves that may be under way at once
          MaxDrawings, \* bound: drawings made
          MaxTurns     \* bound: saves, loads, deletions, departures, lost answers

VARIABLES page,       \* is it the page? (a tab otherwise)
          canvas,     \* what is open
          remembered, \* pageStates, or the tab's metadata: the state of the canvas by its key
          workspaces, \* the rows of the server
          listed,     \* the list that the browser has
          posts,      \* saves under way
          removal,    \* the deletion under way
          drawings,   \* ghost: the workspace and database under which each drawing was made
          astray,     \* ghost: drawings put under another workspace or database than theirs
          unheard,    \* ghost: drawings saved anew while the canvas had not heard of a first time
          turns

erdVars == <<page, canvas, remembered, workspaces, listed, posts, removal, drawings, astray, unheard, turns>>
server == <<workspaces, listed>>
calls == <<posts, removal>>

None == [st |-> "none"]
Nothing == [w \in {} |-> 0]

Init ==
  /\ page \in BOOLEAN
  /\ canvas = [shown |-> TRUE, database |-> Home, current |-> 0, drawing |-> 0]
  /\ remembered = [d \in Databases |-> [current |-> 0, drawing |-> 0]]
  /\ workspaces = <<>> /\ listed = Nothing
  /\ posts = [s \in Saves |-> None] /\ removal = None
  /\ drawings = <<>> /\ astray = {} /\ unheard = {} /\ turns = 0

Turn == turns < MaxTurns /\ turns' = turns + 1

\* Open, and not at the bound, behind which nobody asks for what is drawn or read.
InUse == canvas.shown /\ turns < MaxTurns

-----------------------------------------------------------------------------
(* The component *)

\* The page is keyed by the active database, the tab by itself.
Key == IF page THEN canvas.database ELSE Home

\* A canvas that is mounted starts from what was remembered under its key.
Mounted(d) ==
  [shown |-> TRUE, database |-> d, current |-> remembered[d].current, drawing |-> remembered[d].drawing]

\* A save whose answer has not been heard by the canvas, and what it made.
Unlearned ==
  IF remembered[Key].current = canvas.current THEN {} ELSE {remembered[Key].drawing}

\* Calls under way go on, and nobody waits for them.
Unmount ==
  /\ posts' = [s \in Saves |-> IF posts[s] = None THEN None ELSE [posts[s] EXCEPT !.here = FALSE]]
  /\ removal' = IF removal = None THEN None ELSE [removal EXCEPT !.here = FALSE]
  /\ unheard' = unheard \cup Unlearned

Displaced(n, d) == {k \in {n} \ {0} : drawings[k].database # d}

Draw ==
  /\ InUse /\ Len(drawings) < MaxDrawings
  /\ drawings' = Append(drawings, [workspace |-> canvas.current, database |-> canvas.database])
  /\ canvas' = [canvas EXCEPT !.drawing = Len(drawings) + 1]
  /\ UNCHANGED <<page, remembered, server, calls, astray, unheard, turns>>

\* Mutant: the timer keeps the drawing and forgets whose it is.
RememberedAlone == [remembered[Key] EXCEPT !.drawing = canvas.drawing]

Remembered == [current |-> canvas.current, drawing |-> canvas.drawing]

\* The timer that every change starts again, and departures cancel.
Remember ==
  /\ InUse
  /\ remembered' = [remembered EXCEPT ![Key] = Remembered]
  /\ UNCHANGED <<page, canvas, server, calls, drawings, astray, unheard, turns>>

\* Another tab or page: the state of the component is gone.
Leave ==
  /\ canvas.shown /\ Turn
  /\ canvas' = [canvas EXCEPT !.shown = FALSE]
  /\ Unmount
  /\ UNCHANGED <<page, remembered, server, drawings, astray>>

\* A tab comes back to the database it was opened for.
Return ==
  /\ ~canvas.shown
  /\ canvas' = Mounted(Key)
  /\ astray' = astray \cup Displaced(remembered[Key].drawing, Key)
  /\ UNCHANGED <<page, remembered, server, calls, drawings, unheard, turns>>

\* The connection's entry in the store is renewed, and the tab's own database with it.
Renew ==
  /\ canvas.shown /\ ~page /\ canvas.database # Home
  /\ canvas' = [canvas EXCEPT !.database = Home]
  /\ astray' = astray \cup Displaced(canvas.drawing, Home)
  /\ UNCHANGED <<page, remembered, server, calls, drawings, unheard, turns>>

\* The sidebar: the tab takes all tables off, the page becomes that of the database.
ChooseDatabase(d) ==
  /\ canvas.shown /\ d # canvas.database /\ Turn
  /\ IF page THEN canvas' = Mounted(d) /\ Unmount
     ELSE canvas' = [canvas EXCEPT !.database = d, !.drawing = 0] /\ UNCHANGED <<calls, unheard>>
  /\ UNCHANGED <<page, remembered, server, drawings, astray>>

-----------------------------------------------------------------------------
(* The list *)

Rows == [w \in {v \in DOMAIN workspaces : workspaces[v].there} |-> workspaces[w]]

\* The list is asked for again when it is old or was invalidated, which nobody waits for.
Read ==
  /\ InUse /\ listed' = Rows
  /\ UNCHANGED <<page, canvas, remembered, workspaces, calls, drawings, astray, unheard, turns>>

\* An error shows an empty list.
ReadFails ==
  /\ canvas.shown /\ Turn /\ listed' = Nothing
  /\ UNCHANGED <<page, canvas, remembered, workspaces, calls, drawings, astray, unheard>>

\* Opening a workspace; of another database, the page becomes that of the database.
Load(w) ==
  /\ canvas.shown /\ w \in DOMAIN listed /\ Turn
  /\ IF page /\ listed[w].database # canvas.database
     THEN canvas' = Mounted(listed[w].database) /\ Unmount
     ELSE /\ canvas' = [canvas EXCEPT !.current = w, !.database = listed[w].database, !.drawing = listed[w].drawing]
          /\ UNCHANGED <<calls, unheard>>
  /\ UNCHANGED <<page, remembered, server, drawings, astray>>

-----------------------------------------------------------------------------
(* Saves and deletions *)

\* The button is enabled again whenever the canvas renders, while a save is under way too.
Save(s) ==
  /\ canvas.shown /\ posts[s] = None /\ Turn
  /\ posts' = [posts EXCEPT ![s] = [st |-> "sent", here |-> TRUE, target |-> canvas.current, id |-> 0,
                                    row |-> [there |-> TRUE, database |-> canvas.database, drawing |-> canvas.drawing]]]
  /\ unheard' = IF canvas.current = 0 /\ \E q \in Saves : posts[q] # None /\ posts[q].target = 0
                THEN unheard \cup {canvas.drawing} ELSE unheard
  /\ UNCHANGED <<page, canvas, remembered, server, removal, drawings, astray>>

\* The server creates a workspace, or writes one that is still there.
Store(s) ==
  LET post == posts[s] IN
  /\ post.st = "sent"
  /\ IF post.target = 0 THEN workspaces' = Append(workspaces, post.row)
     ELSE workspaces' = [workspaces EXCEPT ![post.target] = IF @.there THEN post.row ELSE @]
  /\ posts' = [posts EXCEPT ![s] =
       IF post.target = 0 THEN [post EXCEPT !.st = "stored", !.id = Len(workspaces) + 1]
       ELSE IF workspaces[post.target].there THEN [post EXCEPT !.st = "stored", !.id = post.target]
       ELSE None]
  /\ UNCHANGED <<page, canvas, remembered, listed, removal, drawings, astray, unheard, turns>>

\* The answer of a save gives the canvas its workspace, whatever it shows by now.
Saved(s) ==
  LET post == posts[s] IN
  /\ post.st = "stored"
  /\ posts' = [posts EXCEPT ![s] = None]
  /\ IF post.here
     THEN /\ canvas' = [canvas EXCEPT !.current = post.id]
          /\ astray' = IF canvas.current = post.target THEN astray ELSE astray \cup {canvas.drawing}
          /\ UNCHANGED unheard
     ELSE unheard' = unheard \cup {post.row.drawing} /\ UNCHANGED <<canvas, astray>>
  /\ UNCHANGED <<page, remembered, server, removal, drawings, turns>>

\* A call that failed, or whose answer is lost, changes nothing here.
Lose ==
  /\ Turn
  /\ \/ \E s \in Saves :
          /\ posts[s] # None /\ posts' = [posts EXCEPT ![s] = None]
          /\ unheard' = IF posts[s].st = "stored" THEN unheard \cup {posts[s].row.drawing} ELSE unheard
          /\ UNCHANGED removal
     \/ removal # None /\ removal' = None /\ UNCHANGED <<posts, unheard>>
  /\ UNCHANGED <<page, canvas, remembered, server, drawings, astray>>

\* A deletion remembers whether the workspace was open when it was confirmed.
Delete(w) ==
  /\ canvas.shown /\ w \in DOMAIN listed /\ removal = None /\ Turn
  /\ removal' = [st |-> "sent", id |-> w, here |-> TRUE, open |-> w = canvas.current]
  /\ UNCHANGED <<page, canvas, remembered, server, posts, drawings, astray, unheard>>

Remove ==
  /\ removal.st = "sent"
  /\ removal' = IF workspaces[removal.id].there THEN [removal EXCEPT !.st = "removed"] ELSE None
  /\ workspaces' = [workspaces EXCEPT ![removal.id].there = FALSE]
  /\ UNCHANGED <<page, canvas, remembered, listed, posts, drawings, astray, unheard, turns>>

Deleted ==
  /\ removal.st = "removed" /\ removal' = None
  /\ IF removal.open /\ removal.here
     THEN /\ canvas' = [canvas EXCEPT !.current = 0]
          /\ astray' = IF canvas.current = removal.id THEN astray ELSE astray \cup {canvas.drawing}
          /\ unheard' = unheard \cup Unlearned
     ELSE UNCHANGED <<canvas, astray, unheard>>
  /\ UNCHANGED <<page, remembered, server, posts, drawings, turns>>

Next ==
  \/ Draw \/ Remember \/ Leave \/ Return \/ Renew \/ Read \/ ReadFails \/ Lose \/ Remove \/ Deleted
  \/ \E d \in Databases : ChooseDatabase(d)
  \/ \E w \in DOMAIN listed : Load(w) \/ Delete(w)
  \/ \E s \in Saves : Save(s) \/ Store(s) \/ Saved(s)

Spec == Init /\ [][Next]_erdVars

-----------------------------------------------------------------------------
There(w) == w # 0 /\ workspaces[w].there

\* Drawing n may lie in workspace w of database d.
Belongs(n, w, d) ==
  n \notin {0} \cup astray =>
    /\ drawings[n].database = d
    /\ There(drawings[n].workspace) => drawings[n].workspace = w

\* A canvas and the workspaces hold drawings of their own, made under their database and
\* not under another workspace that still exists, unless an answer came after the canvas
\* had turned to something else or a tab fell back to its own database; and a drawing lies in
\* one workspace, unless the canvas asked again before it knew the first, or was left, or its
\* workspace deleted, before it had remembered that one.
DrawingsStayApart ==
  /\ canvas.shown => Belongs(canvas.drawing, canvas.current, canvas.database)
  /\ \A w \in DOMAIN Rows : Belongs(Rows[w].drawing, w, Rows[w].database)
  /\ \A v, w \in DOMAIN Rows :
       v # w /\ Rows[v].drawing = Rows[w].drawing => Rows[v].drawing \in {0} \cup astray \cup unheard
=============================================================================
