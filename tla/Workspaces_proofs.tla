-------------------------- MODULE Workspaces_proofs --------------------------
(***************************************************************************)
(* Proofs about Designs.  The canvas, for any number of databases,         *)
(* drawings and saves: every drawing has one place at a time.  The team,   *)
(* for any number of users, requests and restarts: a write that no other   *)
(* request has outdated still has the rights its check saw, so an owner is *)
(* left.  The resource, for any organization and history of its members:   *)
(* saves that do not meet see the row they write, so the policy and the    *)
(* history they leave belong to it; numbers are right where they meet too. *)
(***************************************************************************)
EXTENDS Designs, SequenceTheorems, TLAPS

-----------------------------------------------------------------------------
(* The canvas *)

StoredRow == [there : BOOLEAN, database : Databases, drawing : Nat]
Origin == [workspace : Nat, database : Databases]
State == [current : Nat, drawing : Nat]
Post == [st : {"sent", "stored"}, here : BOOLEAN, target : Nat, id : Nat, row : StoredRow]
Deletion == [st : {"sent", "removed"}, id : Nat, here : BOOLEAN, open : BOOLEAN]

CanvasTyped ==
  /\ page \in BOOLEAN
  /\ canvas \in [shown : BOOLEAN, database : Databases, current : Nat, drawing : Nat]
  /\ remembered \in [Databases -> State]
  /\ workspaces \in Seq(StoredRow)
  /\ listed \in [DOMAIN listed -> StoredRow]
  /\ posts \in [CanvasSaves -> {ErdCanvas!None} \cup Post]
  /\ removal \in {ErdCanvas!None} \cup Deletion
  /\ drawings \in Seq(Origin)

\* Every number stands for a drawing that was made or a workspace that was stored.
NumbersKnown ==
  /\ canvas.current <= Len(workspaces) /\ canvas.drawing <= Len(drawings)
  /\ \A d \in Databases : remembered[d].current <= Len(workspaces) /\ remembered[d].drawing <= Len(drawings)
  /\ \A w \in DOMAIN workspaces : workspaces[w].drawing <= Len(drawings)
  /\ \A w \in DOMAIN listed : w \in DOMAIN workspaces /\ listed[w].drawing <= Len(drawings)
  /\ \A s \in CanvasSaves : posts[s] # ErdCanvas!None =>
       /\ posts[s].target <= Len(workspaces) /\ posts[s].id <= Len(workspaces)
       /\ posts[s].row.drawing <= Len(drawings)
  /\ removal # ErdCanvas!None => removal.id \in DOMAIN workspaces
  /\ \A n \in DOMAIN drawings : drawings[n].workspace <= Len(workspaces)

\* What waits here, waits in the canvas that asked; a tab is remembered under its own database.
CallsMatch ==
  /\ ~page => \A d \in Databases \ {Home} : remembered[d] = [current |-> 0, drawing |-> 0]
  /\ \A s \in CanvasSaves : posts[s] # ErdCanvas!None =>
       /\ posts[s].here => canvas.shown /\ (page => canvas.database = posts[s].row.database)
       /\ posts[s].st = "stored" => posts[s].id # 0 /\ posts[s].target \in {0, posts[s].id}
       /\ posts[s].row.there
  /\ removal # ErdCanvas!None =>
       /\ removal.here => canvas.shown
       /\ removal.here /\ removal.open => canvas.current # 0
       /\ removal.st = "removed" => ~workspaces[removal.id].there

\* The workspace that a save is about to write or has written.
Place(post) == IF post.st = "stored" THEN post.id ELSE post.target

Sure(n) == n \notin {0} \cup astray \cup unheard

\* Drawing n is held for workspace w, or in database d, by the canvas, its memory, the server,
\* the list or a save.
HeldFor(n, w) ==
  \/ canvas.shown /\ canvas.drawing = n /\ canvas.current = w
  \/ \E d \in Databases : remembered[d].drawing = n /\ remembered[d].current = w
  \/ w \in DOMAIN workspaces /\ workspaces[w].drawing = n
  \/ w \in DOMAIN listed /\ listed[w].drawing = n
  \/ \E s \in CanvasSaves : posts[s] # ErdCanvas!None /\ posts[s].row.drawing = n /\ Place(posts[s]) = w

HeldIn(n, d) ==
  \/ canvas.shown /\ canvas.drawing = n /\ canvas.database = d
  \/ page /\ remembered[d].drawing = n
  \/ \E w \in DOMAIN workspaces : workspaces[w].drawing = n /\ workspaces[w].database = d
  \/ \E w \in DOMAIN listed : listed[w].drawing = n /\ listed[w].database = d
  \/ \E s \in CanvasSaves : posts[s] # ErdCanvas!None /\ posts[s].row.drawing = n /\ posts[s].row.database = d

\* Whoever holds a drawing, holds it for the workspace and database it was made under.
HeldRightly ==
  \A n \in DOMAIN drawings \ astray :
    /\ \A w \in Nat : HeldFor(n, w) /\ ErdCanvas!There(drawings[n].workspace) => drawings[n].workspace = w
    /\ \A d \in Databases : HeldIn(n, d) => drawings[n].database = d

Lies(n, w) == workspaces[w].there /\ HeldFor(n, w)

Lying(n) == \E w \in DOMAIN workspaces : Lies(n, w)

\* Save s makes a workspace of drawing n.
Makes(n, s) == posts[s] # ErdCanvas!None /\ posts[s].target = 0 /\ posts[s].row.drawing = n

Making(n) == \E s \in CanvasSaves : Makes(n, s) /\ posts[s].st = "sent"

Placed(n) == Lying(n) \/ Making(n)

\* A drawing lies in one workspace at most, and one save makes it one that has none.
OnePlace ==
  \A n \in DOMAIN drawings : Sure(n) =>
    /\ \A v, w \in DOMAIN workspaces : Lies(n, v) /\ Lies(n, w) => v = w
    /\ \A s, q \in CanvasSaves : Makes(n, s) /\ Makes(n, q) => s = q
    /\ ~(Making(n) /\ Lying(n))

\* A canvas without workspace whose drawing has a place waits to hear of it, and of no other.
CanvasWaits ==
  \A n \in DOMAIN drawings :
    canvas.shown /\ canvas.drawing = n /\ canvas.current = 0 /\ Sure(n) /\ Placed(n) =>
      /\ \E s \in CanvasSaves : Makes(n, s)
      /\ \A s \in CanvasSaves : posts[s] # ErdCanvas!None /\ posts[s].here /\ posts[s].target = 0 =>
           posts[s].row.drawing = n

\* A canvas that is left with a memory of its drawing without the place is known to be mistaken.
MemoryWaits ==
  \A n \in DOMAIN drawings, d \in Databases :
    remembered[d].drawing = n /\ remembered[d].current = 0 /\ Sure(n) /\ Placed(n) =>
      \/ canvas.shown /\ d = ErdCanvas!Key /\ canvas.current # 0
      \/ \E s \in CanvasSaves : Makes(n, s)

\* Nothing drawn in a workspace that the canvas is about to forget has another place.
ForgottenAlone ==
  \A n \in DOMAIN drawings, w \in DOMAIN workspaces :
    /\ removal # ErdCanvas!None /\ removal.st = "removed" /\ removal.here /\ removal.open
    /\ w = removal.id /\ Sure(n) /\ HeldFor(n, w)
    => ~Placed(n)

CanvasInv ==
  /\ CanvasTyped /\ NumbersKnown /\ CallsMatch /\ HeldRightly
  /\ OnePlace /\ CanvasWaits /\ MemoryWaits /\ ForgottenAlone

-----------------------------------------------------------------------------
LEMMA KeyTyped == ASSUME CanvasTyped PROVE ErdCanvas!Key \in Databases
BY DesignsAssumption DEF CanvasTyped, ErdCanvas!Key

LEMMA RowsTyped ==
  ASSUME CanvasTyped
  PROVE  /\ \A w \in DOMAIN workspaces : workspaces[w] \in StoredRow
         /\ DOMAIN workspaces = 1 .. Len(workspaces) /\ Len(workspaces) \in Nat
BY ElementOfSeq DEF CanvasTyped

LEMMA DrawingsTyped ==
  ASSUME CanvasTyped
  PROVE  /\ \A n \in DOMAIN drawings : drawings[n] \in Origin
         /\ DOMAIN drawings = 1 .. Len(drawings) /\ Len(drawings) \in Nat
BY ElementOfSeq DEF CanvasTyped

LEMMA NoneIsNoCall == ErdCanvas!None \notin Post /\ ErdCanvas!None \notin Deletion
BY DEF ErdCanvas!None, Post, Deletion

\* A canvas and the workspaces of an empty server hold nothing.
LEMMA CanvasInvInit == ErdCanvas!Init => CanvasInv
<1> SUFFICES ASSUME ErdCanvas!Init PROVE CanvasInv
  OBVIOUS
<1>1. CanvasTyped /\ NumbersKnown /\ CallsMatch
  BY DesignsAssumption DEF ErdCanvas!Init, CanvasTyped, NumbersKnown, CallsMatch, StoredRow, State, ErdCanvas!Nothing
<1>2. HeldRightly
  BY DEF ErdCanvas!Init, HeldRightly
<1>3. OnePlace /\ ForgottenAlone
  BY DEF ErdCanvas!Init, OnePlace, ForgottenAlone
<1>4. CanvasWaits /\ MemoryWaits
  BY DEF ErdCanvas!Init, CanvasWaits, MemoryWaits, Sure
<1> QED
  BY <1>1, <1>2, <1>3, <1>4 DEF CanvasInv

LEMMA CanvasInvMeans == CanvasInv => DrawingsStayApart
<1> SUFFICES ASSUME CanvasInv PROVE DrawingsStayApart
  OBVIOUS
<1>0. CanvasTyped /\ NumbersKnown /\ HeldRightly
  BY DEF CanvasInv
<1>1. ASSUME NEW n \in Nat, n <= Len(drawings), NEW w \in Nat, NEW d \in Databases, HeldFor(n, w), HeldIn(n, d)
      PROVE  ErdCanvas!Belongs(n, w, d)
  BY <1>0, <1>1, DrawingsTyped DEF HeldRightly, ErdCanvas!Belongs
<1>2. \A w \in DOMAIN ErdCanvas!Rows : w \in DOMAIN workspaces /\ workspaces[w].there /\ ErdCanvas!Rows[w] = workspaces[w]
  BY DEF ErdCanvas!Rows
<1>a. canvas.shown => ErdCanvas!Belongs(canvas.drawing, canvas.current, canvas.database)
  <2> SUFFICES ASSUME canvas.shown PROVE ErdCanvas!Belongs(canvas.drawing, canvas.current, canvas.database)
    OBVIOUS
  <2>1. canvas.drawing \in Nat /\ canvas.drawing <= Len(drawings) /\ canvas.current \in Nat /\ canvas.database \in Databases
    BY <1>0 DEF CanvasTyped, NumbersKnown
  <2>2. HeldFor(canvas.drawing, canvas.current) /\ HeldIn(canvas.drawing, canvas.database)
    BY DEF HeldFor, HeldIn
  <2> QED
    BY <1>1, <2>1, <2>2
<1>3. ASSUME NEW w \in DOMAIN ErdCanvas!Rows
      PROVE  ErdCanvas!Belongs(ErdCanvas!Rows[w].drawing, w, ErdCanvas!Rows[w].database)
  <2>1. /\ w \in Nat /\ w \in DOMAIN workspaces
        /\ workspaces[w].drawing \in Nat /\ workspaces[w].drawing <= Len(drawings) /\ workspaces[w].database \in Databases
    BY <1>0, <1>2, <1>3, RowsTyped DEF NumbersKnown, StoredRow
  <2>2. HeldFor(workspaces[w].drawing, w) /\ HeldIn(workspaces[w].drawing, workspaces[w].database)
    BY <2>1 DEF HeldFor, HeldIn
  <2>3. ErdCanvas!Belongs(workspaces[w].drawing, w, workspaces[w].database)
    BY <1>1, <2>1, <2>2
  <2> QED
    BY <1>2, <1>3, <2>3
<1>4. ASSUME NEW v \in DOMAIN ErdCanvas!Rows, NEW w \in DOMAIN ErdCanvas!Rows,
             v # w, ErdCanvas!Rows[v].drawing = ErdCanvas!Rows[w].drawing
      PROVE  ErdCanvas!Rows[v].drawing \in {0} \cup astray \cup unheard
  <2> DEFINE n == workspaces[v].drawing
  <2>1. n \in Nat /\ n <= Len(drawings)
    BY <1>2, <1>4, RowsTyped DEF CanvasInv, NumbersKnown, StoredRow
  <2>2. Lies(n, v) /\ Lies(n, w)
    BY <1>2, <1>4 DEF Lies, HeldFor
  <2>3. Sure(n) => n \in DOMAIN drawings
    BY <2>1, DrawingsTyped DEF Sure, CanvasInv
  <2> QED
    BY <1>2, <1>4, <2>2, <2>3 DEF CanvasInv, OnePlace, Sure
<1> QED
  BY <1>a, <1>3, <1>4 DEF DrawingsStayApart, ErdCanvas!DrawingsStayApart

-----------------------------------------------------------------------------
(* Types and numbers *)

LEMMA MountedTyped ==
  ASSUME CanvasTyped, NEW d \in Databases
  PROVE  ErdCanvas!Mounted(d) \in [shown : BOOLEAN, database : Databases, current : Nat, drawing : Nat]
BY DEF CanvasTyped, State, ErdCanvas!Mounted

LEMMA UnmountTyped ==
  ASSUME CanvasTyped, ErdCanvas!Unmount
  PROVE  /\ posts' \in [CanvasSaves -> {ErdCanvas!None} \cup Post]
         /\ removal' \in {ErdCanvas!None} \cup Deletion
         /\ \A s \in CanvasSaves : posts[s] # ErdCanvas!None => posts'[s] = [posts[s] EXCEPT !.here = FALSE]
         /\ \A s \in CanvasSaves : posts[s] = ErdCanvas!None => posts'[s] = ErdCanvas!None
         /\ removal # ErdCanvas!None => removal' = [removal EXCEPT !.here = FALSE]
         /\ removal = ErdCanvas!None => removal' = ErdCanvas!None
<1>1. \A p \in Post : [p EXCEPT !.here = FALSE] \in Post
  BY DEF Post
<1>2. \A p \in Deletion : [p EXCEPT !.here = FALSE] \in Deletion
  BY DEF Deletion
<1> QED
  BY <1>1, <1>2, NoneIsNoCall DEF CanvasTyped, ErdCanvas!Unmount

LEMMA AnsweredPost ==
  ASSUME NEW post \in Post, NEW i \in Nat
  PROVE  /\ [post EXCEPT !.st = "stored", !.id = i] \in Post
         /\ [post EXCEPT !.st = "stored", !.id = i] =
              [st |-> "stored", here |-> post.here, target |-> post.target, id |-> i, row |-> post.row]
<1>1. PICK p : p = [post EXCEPT !.st = "stored"]
  OBVIOUS
<1>2. p \in Post /\ p.st = "stored" /\ p.here = post.here /\ p.target = post.target /\ p.row = post.row
  BY <1>1 DEF Post
<1>3. [post EXCEPT !.st = "stored", !.id = i] = [p EXCEPT !.id = i]
  BY <1>1, Zenon
<1>4. /\ [p EXCEPT !.id = i] \in Post
      /\ [p EXCEPT !.id = i] =
           [st |-> "stored", here |-> post.here, target |-> post.target, id |-> i, row |-> post.row]
  BY <1>2 DEF Post
<1> QED
  BY <1>3, <1>4, Zenon

LEMMA TurnedCanvas ==
  ASSUME CanvasTyped, NEW d \in Databases, NEW n \in Nat
  PROVE  [canvas EXCEPT !.database = d, !.drawing = n] =
           [shown |-> canvas.shown, database |-> d, current |-> canvas.current, drawing |-> n]
<1>1. PICK c : c = [canvas EXCEPT !.database = d]
  OBVIOUS
<1>2. c = [shown |-> canvas.shown, database |-> d, current |-> canvas.current, drawing |-> canvas.drawing]
  BY <1>1 DEF CanvasTyped
<1>3. [canvas EXCEPT !.database = d, !.drawing = n] = [c EXCEPT !.drawing = n]
  BY <1>1, Zenon
<1>4. [c EXCEPT !.drawing = n] =
        [shown |-> canvas.shown, database |-> d, current |-> canvas.current, drawing |-> n]
  BY <1>2
<1> QED
  BY <1>3, <1>4, Zenon

LEMMA OpenedCanvas ==
  ASSUME CanvasTyped, NEW w \in Nat, NEW d \in Databases, NEW n \in Nat
  PROVE  [canvas EXCEPT !.current = w, !.database = d, !.drawing = n] =
           [shown |-> canvas.shown, database |-> d, current |-> w, drawing |-> n]
<1>1. PICK b : b = [canvas EXCEPT !.current = w]
  OBVIOUS
<1>2. PICK c : c = [b EXCEPT !.database = d]
  OBVIOUS
<1>3. b = [shown |-> canvas.shown, database |-> canvas.database, current |-> w, drawing |-> canvas.drawing]
  BY <1>1 DEF CanvasTyped
<1>4. c = [shown |-> canvas.shown, database |-> d, current |-> w, drawing |-> canvas.drawing]
  BY <1>2, <1>3
<1>5. [canvas EXCEPT !.current = w, !.database = d, !.drawing = n] = [c EXCEPT !.drawing = n]
  BY <1>1, <1>2, Zenon
<1>6. [c EXCEPT !.drawing = n] = [shown |-> canvas.shown, database |-> d, current |-> w, drawing |-> n]
  BY <1>4
<1> QED
  BY <1>5, <1>6, Zenon

\* The page of another database starts from what was remembered; the tab goes on, and forgets the drawing.
LEMMA ChoiceTurns ==
  ASSUME CanvasTyped, NEW d \in Databases, ErdCanvas!ChooseDatabase(d)
  PROVE  /\ canvas.shown /\ d # canvas.database
         /\ UNCHANGED <<page, remembered, workspaces, listed, drawings, astray>>
         /\ \/ page /\ canvas' = ErdCanvas!Mounted(d) /\ ErdCanvas!Unmount
            \/ /\ ~page /\ UNCHANGED <<posts, removal, unheard>>
               /\ canvas' = [shown |-> canvas.shown, database |-> d, current |-> canvas.current, drawing |-> 0]
<1>1. CASE page
  BY <1>1 DEF ErdCanvas!ChooseDatabase, ErdCanvas!server
<1>2. CASE ~page
  <2>1. canvas' = [canvas EXCEPT !.database = d, !.drawing = 0]
    BY <1>2, Zenon DEF ErdCanvas!ChooseDatabase
  <2>2. /\ canvas.shown /\ d # canvas.database
        /\ UNCHANGED <<page, remembered, workspaces, listed, drawings, astray, posts, removal, unheard>>
    BY <1>2, Zenon DEF ErdCanvas!ChooseDatabase, ErdCanvas!server, ErdCanvas!calls
  <2> QED
    BY <1>2, <2>1, <2>2, TurnedCanvas
<1> QED
  BY <1>1, <1>2

\* A listed workspace of another database turns the page to that database, and is not opened.
LEMMA LoadTurns ==
  ASSUME CanvasTyped, NumbersKnown, NEW w \in DOMAIN listed, ErdCanvas!Load(w)
  PROVE  /\ canvas.shown /\ listed[w] \in StoredRow /\ w \in DOMAIN workspaces
         /\ UNCHANGED <<page, remembered, workspaces, listed, drawings, astray>>
         /\ \/ /\ page /\ listed[w].database # canvas.database
               /\ canvas' = ErdCanvas!Mounted(listed[w].database) /\ ErdCanvas!Unmount
            \/ /\ page => listed[w].database = canvas.database
               /\ UNCHANGED <<posts, removal, unheard>>
               /\ canvas' = [shown |-> canvas.shown, database |-> listed[w].database, current |-> w,
                             drawing |-> listed[w].drawing]
<1>1. listed[w] \in StoredRow /\ w \in DOMAIN workspaces
  BY DEF CanvasTyped, NumbersKnown
<1>2. canvas.shown /\ UNCHANGED <<page, remembered, workspaces, listed, drawings, astray>>
  BY Zenon DEF ErdCanvas!Load, ErdCanvas!server
<1>3. CASE page /\ listed[w].database # canvas.database
  BY <1>1, <1>2, <1>3 DEF ErdCanvas!Load
<1>4. CASE ~(page /\ listed[w].database # canvas.database)
  <2>1. canvas' = [canvas EXCEPT !.current = w, !.database = listed[w].database, !.drawing = listed[w].drawing]
    BY <1>4, Zenon DEF ErdCanvas!Load
  <2>2. UNCHANGED <<posts, removal, unheard>>
    BY <1>4, Zenon DEF ErdCanvas!Load, ErdCanvas!calls
  <2>3. w \in Nat /\ listed[w].database \in Databases /\ listed[w].drawing \in Nat
    BY <1>1, RowsTyped DEF StoredRow
  <2>4. canvas' = [shown |-> canvas.shown, database |-> listed[w].database, current |-> w,
                   drawing |-> listed[w].drawing]
    BY <2>1, <2>3, OpenedCanvas, Zenon
  <2> QED
    BY <1>1, <1>2, <1>4, <2>2, <2>4
<1> QED
  BY <1>3, <1>4

\* A save makes a workspace, writes one that is there, or finds it gone.
LEMMA StoreAnswers ==
  ASSUME CanvasTyped, NumbersKnown, NEW s \in CanvasSaves, ErdCanvas!Store(s)
  PROVE  /\ posts[s] \in Post /\ posts[s].st = "sent"
         /\ UNCHANGED <<page, canvas, remembered, listed, removal, drawings, astray, unheard>>
         /\ \/ /\ posts[s].target = 0 /\ workspaces' = Append(workspaces, posts[s].row)
               /\ posts' = [posts EXCEPT ![s] =
                    [st |-> "stored", here |-> posts[s].here, target |-> 0, id |-> Len(workspaces) + 1,
                     row |-> posts[s].row]]
            \/ /\ posts[s].target \in DOMAIN workspaces /\ workspaces[posts[s].target].there
               /\ workspaces' = [workspaces EXCEPT ![posts[s].target] = posts[s].row]
               /\ posts' = [posts EXCEPT ![s] =
                    [st |-> "stored", here |-> posts[s].here, target |-> posts[s].target,
                     id |-> posts[s].target, row |-> posts[s].row]]
            \/ /\ posts[s].target \in DOMAIN workspaces /\ ~workspaces[posts[s].target].there
               /\ workspaces' = workspaces /\ posts' = [posts EXCEPT ![s] = ErdCanvas!None]
<1>1. posts[s] \in Post /\ posts[s].st = "sent"
  BY DEF CanvasTyped, ErdCanvas!Store, ErdCanvas!None
<1>2. UNCHANGED <<page, canvas, remembered, listed, removal, drawings, astray, unheard>>
  BY Zenon DEF ErdCanvas!Store
<1>3. CASE posts[s].target = 0
  <2>1. workspaces' = Append(workspaces, posts[s].row)
    BY <1>3, Zenon DEF ErdCanvas!Store
  <2>2. posts' = [posts EXCEPT ![s] = [posts[s] EXCEPT !.st = "stored", !.id = Len(workspaces) + 1]]
    BY <1>3, Zenon DEF ErdCanvas!Store
  <2>3. Len(workspaces) + 1 \in Nat
    BY RowsTyped
  <2>4. [posts[s] EXCEPT !.st = "stored", !.id = Len(workspaces) + 1] =
          [st |-> "stored", here |-> posts[s].here, target |-> 0, id |-> Len(workspaces) + 1, row |-> posts[s].row]
    BY <1>1, <1>3, <2>3, AnsweredPost, Zenon
  <2>5. posts' = [posts EXCEPT ![s] =
          [st |-> "stored", here |-> posts[s].here, target |-> 0, id |-> Len(workspaces) + 1, row |-> posts[s].row]]
    BY <2>2, <2>4, Zenon
  <2> QED
    BY <1>1, <1>2, <1>3, <2>1, <2>5, Zenon
<1>4. CASE posts[s].target # 0
  <2>1. posts[s].target \in DOMAIN workspaces
    BY <1>1, <1>4, RowsTyped, NoneIsNoCall DEF NumbersKnown, Post
  <2>2. workspaces' = [workspaces EXCEPT ![posts[s].target] =
          IF workspaces[posts[s].target].there THEN posts[s].row ELSE workspaces[posts[s].target]]
    BY <1>4, Zenon DEF ErdCanvas!Store
  <2>3. CASE workspaces[posts[s].target].there
    <3>1. posts' = [posts EXCEPT ![s] = [posts[s] EXCEPT !.st = "stored", !.id = posts[s].target]]
      BY <1>4, <2>3, Zenon DEF ErdCanvas!Store
    <3>2. posts[s].target \in Nat
      BY <1>1 DEF Post
    <3>3. [posts[s] EXCEPT !.st = "stored", !.id = posts[s].target] =
            [st |-> "stored", here |-> posts[s].here, target |-> posts[s].target, id |-> posts[s].target,
             row |-> posts[s].row]
      BY <1>1, <3>2, AnsweredPost, Zenon
    <3>4. posts' = [posts EXCEPT ![s] =
            [st |-> "stored", here |-> posts[s].here, target |-> posts[s].target, id |-> posts[s].target,
             row |-> posts[s].row]]
      BY <3>1, <3>3, Zenon
    <3>5. workspaces' = [workspaces EXCEPT ![posts[s].target] = posts[s].row]
      BY <2>2, <2>3, Zenon
    <3> QED
      BY <1>1, <1>2, <2>1, <2>3, <3>4, <3>5, Zenon
  <2>4. CASE ~workspaces[posts[s].target].there
    <3>1. posts' = [posts EXCEPT ![s] = ErdCanvas!None]
      BY <1>4, <2>4, Zenon DEF ErdCanvas!Store
    <3>2. workspaces' = workspaces
      BY <2>1, <2>2, <2>4 DEF CanvasTyped
    <3> QED
      BY <1>1, <1>2, <2>1, <2>4, <3>1, <3>2, Zenon
  <2> QED
    BY <2>3, <2>4
<1> QED
  BY <1>3, <1>4

\* What is called keeps its type, whatever is done.
LEMMA CanvasTypedStep == CanvasInv /\ ErdCanvas!Next => CanvasTyped'
<1> SUFFICES ASSUME CanvasInv, ErdCanvas!Next PROVE CanvasTyped'
  OBVIOUS
<1> USE DEF ErdCanvas!server, ErdCanvas!calls
<1>0. CanvasTyped /\ NumbersKnown /\ CallsMatch
  BY DEF CanvasInv
<1>1. CASE ErdCanvas!Draw
  <2>1. drawings' \in Seq(Origin)
    <3>1. [workspace |-> canvas.current, database |-> canvas.database] \in Origin
      BY <1>0 DEF CanvasTyped, Origin
    <3> QED
      BY <1>0, <1>1, <3>1, AppendProperties DEF CanvasTyped, ErdCanvas!Draw
  <2> QED
    BY <1>0, <1>1, <2>1, DrawingsTyped, SMTT(60) DEF CanvasTyped, ErdCanvas!Draw
<1>2. CASE ErdCanvas!Remember
  BY <1>0, <1>2, KeyTyped DEF CanvasTyped, State, ErdCanvas!Remember, ErdCanvas!Remembered
<1>3. CASE ErdCanvas!Leave
  BY <1>0, <1>3, UnmountTyped DEF CanvasTyped, ErdCanvas!Leave
<1>4. CASE ErdCanvas!Return
  BY <1>0, <1>4, KeyTyped, MountedTyped DEF CanvasTyped, ErdCanvas!Return
<1>5. CASE ErdCanvas!Renew
  BY <1>0, <1>5, DesignsAssumption DEF CanvasTyped, ErdCanvas!Renew
<1>6. CASE ErdCanvas!Read
  BY <1>0, <1>6, RowsTyped DEF CanvasTyped, ErdCanvas!Read, ErdCanvas!Rows
<1>7. CASE ErdCanvas!ReadFails
  BY <1>0, <1>7 DEF CanvasTyped, ErdCanvas!ReadFails, ErdCanvas!Nothing
<1>8. CASE ErdCanvas!Lose
  BY <1>0, <1>8 DEF CanvasTyped, ErdCanvas!Lose
<1>9. CASE ErdCanvas!Remove
  <2>1. removal \in Deletion /\ removal.id \in DOMAIN workspaces
    BY <1>0, <1>9 DEF CanvasTyped, NumbersKnown, ErdCanvas!Remove, ErdCanvas!None
  <2>2. workspaces' \in Seq(StoredRow)
    <3>1. [workspaces[removal.id] EXCEPT !.there = FALSE] \in StoredRow
      BY <1>0, <2>1, RowsTyped DEF StoredRow
    <3>2. workspaces' = [workspaces EXCEPT ![removal.id] = [workspaces[removal.id] EXCEPT !.there = FALSE]]
      BY <1>9 DEF ErdCanvas!Remove
    <3> QED
      BY <1>0, <2>1, <3>1, <3>2, ExceptSeq DEF CanvasTyped
  <2> QED
    BY <1>0, <1>9, <2>1, <2>2 DEF CanvasTyped, Deletion, ErdCanvas!Remove
<1>10. CASE ErdCanvas!Deleted
  BY <1>0, <1>10 DEF CanvasTyped, ErdCanvas!Deleted
<1>11. ASSUME NEW d \in Databases, ErdCanvas!ChooseDatabase(d) PROVE CanvasTyped'
  BY <1>0, <1>11, ChoiceTurns, MountedTyped, UnmountTyped DEF CanvasTyped
<1>12. ASSUME NEW w \in DOMAIN listed, ErdCanvas!Load(w) PROVE CanvasTyped'
  <2>1. listed[w] \in StoredRow /\ w \in Nat
    BY <1>0, <1>12, LoadTurns, RowsTyped
  <2> QED
    BY <1>0, <1>12, <2>1, LoadTurns, MountedTyped, UnmountTyped DEF CanvasTyped, StoredRow
<1>13. ASSUME NEW w \in DOMAIN listed, ErdCanvas!Delete(w) PROVE CanvasTyped'
  <2>1. w \in Nat
    BY <1>0, RowsTyped DEF NumbersKnown
  <2> QED
    BY <1>0, <1>13, <2>1 DEF CanvasTyped, Deletion, ErdCanvas!Delete
<1>14. ASSUME NEW s \in CanvasSaves, ErdCanvas!Save(s) PROVE CanvasTyped'
  BY <1>0, <1>14 DEF CanvasTyped, Post, StoredRow, ErdCanvas!Save
<1>15. ASSUME NEW s \in CanvasSaves, ErdCanvas!Store(s) PROVE CanvasTyped'
  <2>1. posts[s] \in Post /\ posts[s].row \in StoredRow
    BY <1>0, <1>15, StoreAnswers DEF Post
  <2>2. workspaces' \in Seq(StoredRow)
    <3>1. CASE workspaces' = Append(workspaces, posts[s].row)
      BY <1>0, <2>1, <3>1, AppendProperties DEF CanvasTyped
    <3>2. ASSUME posts[s].target \in DOMAIN workspaces,
                 workspaces' = [workspaces EXCEPT ![posts[s].target] = posts[s].row]
          PROVE  workspaces' \in Seq(StoredRow)
      BY <1>0, <2>1, <3>2, ExceptSeq DEF CanvasTyped
    <3> QED
      BY <1>0, <1>15, <3>1, <3>2, StoreAnswers DEF CanvasTyped
  <2>3. PICK post \in {ErdCanvas!None} \cup Post : posts' = [posts EXCEPT ![s] = post]
    <3>1. \A i \in Nat :
            [st |-> "stored", here |-> posts[s].here, target |-> posts[s].target, id |-> i, row |-> posts[s].row] \in Post
      BY <2>1 DEF Post
    <3>2. Len(workspaces) + 1 \in Nat /\ DOMAIN workspaces \subseteq Nat
      BY <1>0, RowsTyped
    <3> QED
      BY <1>0, <1>15, <3>1, <3>2, StoreAnswers
  <2> QED
    BY <1>0, <1>15, <2>2, <2>3, StoreAnswers DEF CanvasTyped
<1>16. ASSUME NEW s \in CanvasSaves, ErdCanvas!Saved(s) PROVE CanvasTyped'
  <2>1. posts[s] \in Post
    BY <1>0, <1>16 DEF CanvasTyped, ErdCanvas!Saved, ErdCanvas!None
  <2> QED
    BY <1>0, <1>16, <2>1 DEF CanvasTyped, Post, ErdCanvas!Saved
<1> QED
  BY <1>1, <1>2, <1>3, <1>4, <1>5, <1>6, <1>7, <1>8, <1>9, <1>10, <1>11, <1>12, <1>13, <1>14, <1>15, <1>16
     DEF ErdCanvas!Next

-----------------------------------------------------------------------------
(* What the server does *)

StoredPost(s, w) ==
  [st |-> "stored", here |-> posts[s].here, target |-> posts[s].target, id |-> w, row |-> posts[s].row]

LEMMA StoredPostIs ==
  ASSUME NEW s \in CanvasSaves, NEW w
  PROVE  /\ StoredPost(s, w).st = "stored" /\ StoredPost(s, w).here = posts[s].here
         /\ StoredPost(s, w).target = posts[s].target /\ StoredPost(s, w).id = w
         /\ StoredPost(s, w).row = posts[s].row /\ StoredPost(s, w) # ErdCanvas!None
BY DEF StoredPost, ErdCanvas!None

LEMMA StoreWrites ==
  ASSUME CanvasTyped, NumbersKnown, NEW s \in CanvasSaves, ErdCanvas!Store(s)
  PROVE  /\ posts[s] \in Post /\ posts[s].st = "sent"
         /\ UNCHANGED <<page, canvas, remembered, listed, removal, drawings, astray, unheard>>
         /\ \A q \in CanvasSaves \ {s} : posts'[q] = posts[q]
         /\ DOMAIN workspaces' = 1 .. Len(workspaces') /\ Len(workspaces') \in Nat
         /\ \/ /\ posts[s].target = 0 /\ Len(workspaces') = Len(workspaces) + 1
               /\ \A w \in DOMAIN workspaces : workspaces'[w] = workspaces[w]
               /\ workspaces'[Len(workspaces) + 1] = posts[s].row
               /\ posts'[s] = StoredPost(s, Len(workspaces) + 1)
            \/ /\ posts[s].target \in DOMAIN workspaces /\ workspaces[posts[s].target].there
               /\ Len(workspaces') = Len(workspaces)
               /\ \A w \in DOMAIN workspaces :
                    workspaces'[w] = IF w = posts[s].target THEN posts[s].row ELSE workspaces[w]
               /\ posts'[s] = StoredPost(s, posts[s].target)
            \/ /\ posts[s].target \in DOMAIN workspaces /\ ~workspaces[posts[s].target].there
               /\ workspaces' = workspaces /\ posts'[s] = ErdCanvas!None
<1>1. posts[s] \in Post /\ posts[s].row \in StoredRow /\ posts[s].st = "sent"
  BY StoreAnswers DEF Post
<1>2. UNCHANGED <<page, canvas, remembered, listed, removal, drawings, astray, unheard>>
  BY StoreAnswers, Zenon
<1>3. PICK post : posts' = [posts EXCEPT ![s] = post]
  BY StoreAnswers
<1>4. \A q \in CanvasSaves \ {s} : posts'[q] = posts[q]
  BY <1>3 DEF CanvasTyped
<1>5. CASE workspaces' = Append(workspaces, posts[s].row) /\ posts[s].target = 0
           /\ posts' = [posts EXCEPT ![s] = StoredPost(s, Len(workspaces) + 1)]
  <2>1. /\ workspaces' \in Seq(StoredRow) /\ Len(workspaces') = Len(workspaces) + 1
        /\ \A w \in DOMAIN workspaces : workspaces'[w] = workspaces[w]
        /\ workspaces'[Len(workspaces) + 1] = posts[s].row
    BY <1>1, <1>5, RowsTyped, AppendProperties DEF CanvasTyped
  <2>2. posts'[s] = StoredPost(s, Len(workspaces) + 1)
    BY <1>5 DEF CanvasTyped
  <2>3. DOMAIN workspaces' = 1 .. Len(workspaces') /\ Len(workspaces') \in Nat
    BY <2>1
  <2> QED
    BY <1>1, <1>2, <1>4, <1>5, <2>1, <2>2, <2>3, Zenon
<1>6. CASE /\ posts[s].target \in DOMAIN workspaces /\ workspaces[posts[s].target].there
           /\ workspaces' = [workspaces EXCEPT ![posts[s].target] = posts[s].row]
           /\ posts' = [posts EXCEPT ![s] = StoredPost(s, posts[s].target)]
  <2>1. /\ workspaces' \in Seq(StoredRow) /\ Len(workspaces') = Len(workspaces)
        /\ \A w \in DOMAIN workspaces :
             workspaces'[w] = IF w = posts[s].target THEN posts[s].row ELSE workspaces[w]
    BY <1>1, <1>6, RowsTyped, ExceptSeq DEF CanvasTyped
  <2>2. posts'[s] = StoredPost(s, posts[s].target)
    BY <1>6 DEF CanvasTyped
  <2>3. DOMAIN workspaces' = 1 .. Len(workspaces') /\ Len(workspaces') \in Nat
    BY <2>1
  <2> QED
    BY <1>1, <1>2, <1>4, <1>6, <2>1, <2>2, <2>3, Zenon
<1>7. CASE /\ posts[s].target \in DOMAIN workspaces /\ ~workspaces[posts[s].target].there
           /\ workspaces' = workspaces /\ posts' = [posts EXCEPT ![s] = ErdCanvas!None]
  <2>1. posts'[s] = ErdCanvas!None
    BY <1>7 DEF CanvasTyped
  <2>2. DOMAIN workspaces' = 1 .. Len(workspaces') /\ Len(workspaces') \in Nat
    BY <1>7, RowsTyped
  <2> QED
    BY <1>1, <1>2, <1>4, <1>7, <2>1, <2>2, Zenon
<1> QED
  BY <1>5, <1>6, <1>7, StoreAnswers, Zenon DEF StoredPost

LEMMA RemoveWrites ==
  ASSUME CanvasTyped, NumbersKnown, ErdCanvas!Remove
  PROVE  /\ removal \in Deletion /\ removal.st = "sent" /\ removal.id \in DOMAIN workspaces
         /\ UNCHANGED <<page, canvas, remembered, listed, posts, drawings, astray, unheard>>
         /\ Len(workspaces') = Len(workspaces) /\ DOMAIN workspaces' = DOMAIN workspaces
         /\ \A w \in DOMAIN workspaces : w # removal.id => workspaces'[w] = workspaces[w]
         /\ ~workspaces'[removal.id].there
         /\ workspaces'[removal.id].database = workspaces[removal.id].database
         /\ workspaces'[removal.id].drawing = workspaces[removal.id].drawing
         /\ \/ /\ workspaces[removal.id].there
               /\ removal' = [st |-> "removed", id |-> removal.id, here |-> removal.here, open |-> removal.open]
            \/ ~workspaces[removal.id].there /\ removal' = ErdCanvas!None
<1>1. removal \in Deletion /\ removal.st = "sent" /\ removal.id \in DOMAIN workspaces
  BY DEF CanvasTyped, NumbersKnown, ErdCanvas!Remove, ErdCanvas!None
<1>2. workspaces[removal.id] \in StoredRow
  BY <1>1, RowsTyped
<1> DEFINE gone == [workspaces[removal.id] EXCEPT !.there = FALSE]
<1>3. /\ gone \in StoredRow /\ ~gone.there
      /\ gone.database = workspaces[removal.id].database /\ gone.drawing = workspaces[removal.id].drawing
  BY <1>2 DEF StoredRow
<1>4. workspaces' = [workspaces EXCEPT ![removal.id] = gone]
  BY DEF ErdCanvas!Remove
<1> HIDE DEF gone
<1>5. /\ workspaces' \in Seq(StoredRow) /\ Len(workspaces') = Len(workspaces)
      /\ \A w \in DOMAIN workspaces : workspaces'[w] = IF w = removal.id THEN gone ELSE workspaces[w]
  BY <1>1, <1>3, <1>4, RowsTyped, ExceptSeq DEF CanvasTyped
<1>6. DOMAIN workspaces' = DOMAIN workspaces
  BY <1>5, RowsTyped
<1>7. removal' = IF workspaces[removal.id].there THEN [removal EXCEPT !.st = "removed"] ELSE ErdCanvas!None
  BY DEF ErdCanvas!Remove
<1>8. [removal EXCEPT !.st = "removed"] =
        [st |-> "removed", id |-> removal.id, here |-> removal.here, open |-> removal.open]
  BY <1>1 DEF Deletion
<1>9. UNCHANGED <<page, canvas, remembered, listed, posts, drawings, astray, unheard>>
  BY Zenon DEF ErdCanvas!Remove
<1> QED
  BY <1>1, <1>3, <1>5, <1>6, <1>7, <1>8, <1>9

LEMMA DrawAdds ==
  ASSUME CanvasTyped, ErdCanvas!Draw
  PROVE  /\ Len(drawings') = Len(drawings) + 1 /\ DOMAIN drawings' = DOMAIN drawings \cup {Len(drawings) + 1}
         /\ \A n \in DOMAIN drawings : drawings'[n] = drawings[n]
         /\ drawings'[Len(drawings) + 1] = [workspace |-> canvas.current, database |-> canvas.database]
         /\ canvas.shown
         /\ canvas' = [shown |-> canvas.shown, database |-> canvas.database, current |-> canvas.current,
                       drawing |-> Len(drawings) + 1]
         /\ UNCHANGED <<page, remembered, workspaces, listed, posts, removal, astray, unheard>>
<1>1. [workspace |-> canvas.current, database |-> canvas.database] \in Origin
  BY DEF CanvasTyped, Origin
<1>2. /\ drawings' \in Seq(Origin) /\ Len(drawings') = Len(drawings) + 1
      /\ \A n \in 1 .. Len(drawings) : drawings'[n] = drawings[n]
      /\ drawings'[Len(drawings) + 1] = [workspace |-> canvas.current, database |-> canvas.database]
  BY <1>1, AppendProperties DEF CanvasTyped, ErdCanvas!Draw
<1>3. DOMAIN drawings' = DOMAIN drawings \cup {Len(drawings) + 1}
  BY <1>2, DrawingsTyped
<1>4. canvas' = [shown |-> canvas.shown, database |-> canvas.database, current |-> canvas.current,
                 drawing |-> Len(drawings) + 1]
  BY DEF CanvasTyped, ErdCanvas!Draw
<1>5. canvas.shown /\ UNCHANGED <<page, remembered, workspaces, listed, posts, removal, astray, unheard>>
  BY Zenon DEF ErdCanvas!Draw, ErdCanvas!InUse, ErdCanvas!server, ErdCanvas!calls
<1> QED
  BY <1>2, <1>3, <1>4, <1>5, DrawingsTyped

LEMMA SaveSends ==
  ASSUME CanvasTyped, NEW s \in CanvasSaves, ErdCanvas!Save(s)
  PROVE  /\ canvas.shown /\ posts[s] = ErdCanvas!None
         /\ UNCHANGED <<page, canvas, remembered, workspaces, listed, removal, drawings, astray>>
         /\ \A q \in CanvasSaves \ {s} : posts'[q] = posts[q]
         /\ posts'[s] = [st |-> "sent", here |-> TRUE, target |-> canvas.current, id |-> 0,
                         row |-> [there |-> TRUE, database |-> canvas.database, drawing |-> canvas.drawing]]
         /\ unheard' = IF canvas.current = 0 /\ \E q \in CanvasSaves : posts[q] # ErdCanvas!None /\ posts[q].target = 0
                       THEN unheard \cup {canvas.drawing} ELSE unheard
BY DEF CanvasTyped, ErdCanvas!Save, ErdCanvas!server

\* An answer that is heard gives the canvas its workspace.
LEMMA SavedTells ==
  ASSUME CanvasTyped, NEW s \in CanvasSaves, ErdCanvas!Saved(s)
  PROVE  /\ posts[s] \in Post /\ posts[s].st = "stored"
         /\ UNCHANGED <<page, remembered, workspaces, listed, removal, drawings>>
         /\ \A q \in CanvasSaves \ {s} : posts'[q] = posts[q]
         /\ posts'[s] = ErdCanvas!None
         /\ \/ /\ posts[s].here
               /\ canvas' = [shown |-> canvas.shown, database |-> canvas.database, current |-> posts[s].id,
                             drawing |-> canvas.drawing]
               /\ astray' = IF canvas.current = posts[s].target THEN astray ELSE astray \cup {canvas.drawing}
               /\ unheard' = unheard
            \/ /\ ~posts[s].here /\ unheard' = unheard \cup {posts[s].row.drawing}
               /\ UNCHANGED <<canvas, astray>>
<1>1. posts[s] \in Post /\ posts[s].st = "stored"
  BY DEF CanvasTyped, ErdCanvas!Saved, ErdCanvas!None
<1>2. /\ \A q \in CanvasSaves \ {s} : posts'[q] = posts[q]
      /\ posts'[s] = ErdCanvas!None
  BY DEF CanvasTyped, ErdCanvas!Saved
<1>3. UNCHANGED <<page, remembered, workspaces, listed, removal, drawings>>
  BY Zenon DEF ErdCanvas!Saved, ErdCanvas!server
<1>4. CASE posts[s].here
  BY <1>1, <1>2, <1>3, <1>4 DEF CanvasTyped, ErdCanvas!Saved
<1>5. CASE ~posts[s].here
  BY <1>1, <1>2, <1>3, <1>5 DEF ErdCanvas!Saved
<1> QED
  BY <1>4, <1>5

\* Calls whose canvas is left are what they were, but for who waits.
LEMMA UnmountLeaves ==
  ASSUME CanvasTyped, ErdCanvas!Unmount
  PROVE  /\ \A s \in CanvasSaves : posts'[s] = ErdCanvas!None <=> posts[s] = ErdCanvas!None
         /\ \A s \in CanvasSaves : posts[s] # ErdCanvas!None =>
              /\ posts'[s].st = posts[s].st /\ ~posts'[s].here /\ posts'[s].target = posts[s].target
              /\ posts'[s].id = posts[s].id /\ posts'[s].row = posts[s].row
         /\ removal' = ErdCanvas!None <=> removal = ErdCanvas!None
         /\ removal # ErdCanvas!None =>
              /\ removal'.st = removal.st /\ ~removal'.here /\ removal'.id = removal.id
              /\ removal'.open = removal.open
         /\ unheard \subseteq unheard'
         /\ remembered[ErdCanvas!Key].current # canvas.current =>
              remembered[ErdCanvas!Key].drawing \in unheard'
<1>1. \A p \in Post : /\ [p EXCEPT !.here = FALSE] # ErdCanvas!None
                      /\ [p EXCEPT !.here = FALSE].st = p.st /\ ~[p EXCEPT !.here = FALSE].here
                      /\ [p EXCEPT !.here = FALSE].target = p.target
                      /\ [p EXCEPT !.here = FALSE].id = p.id /\ [p EXCEPT !.here = FALSE].row = p.row
  BY DEF Post, ErdCanvas!None
<1>2. \A p \in Deletion : /\ [p EXCEPT !.here = FALSE] # ErdCanvas!None
                          /\ [p EXCEPT !.here = FALSE].st = p.st /\ ~[p EXCEPT !.here = FALSE].here
                          /\ [p EXCEPT !.here = FALSE].id = p.id /\ [p EXCEPT !.here = FALSE].open = p.open
  BY DEF Deletion, ErdCanvas!None
<1>3. \A s \in CanvasSaves : posts[s] # ErdCanvas!None => posts[s] \in Post
  BY DEF CanvasTyped
<1>4. removal # ErdCanvas!None => removal \in Deletion
  BY DEF CanvasTyped
<1>5. /\ unheard \subseteq unheard'
      /\ remembered[ErdCanvas!Key].current # canvas.current => remembered[ErdCanvas!Key].drawing \in unheard'
  BY DEF ErdCanvas!Unmount, ErdCanvas!Unlearned
<1>6. \A s \in CanvasSaves : posts'[s] = ErdCanvas!None <=> posts[s] = ErdCanvas!None
  BY <1>1, <1>3, UnmountTyped
<1>7. removal' = ErdCanvas!None <=> removal = ErdCanvas!None
  BY <1>2, <1>4, UnmountTyped
<1>8. ASSUME NEW s \in CanvasSaves, posts[s] # ErdCanvas!None
      PROVE  /\ posts'[s].st = posts[s].st /\ ~posts'[s].here /\ posts'[s].target = posts[s].target
             /\ posts'[s].id = posts[s].id /\ posts'[s].row = posts[s].row
  <2>1. posts'[s] = [posts[s] EXCEPT !.here = FALSE]
    BY <1>8, UnmountTyped, Zenon
  <2> QED
    BY <1>1, <1>3, <1>8, <2>1, Zenon
<1>9. ASSUME removal # ErdCanvas!None
      PROVE  /\ removal'.st = removal.st /\ ~removal'.here /\ removal'.id = removal.id
             /\ removal'.open = removal.open
  BY <1>2, <1>4, <1>9, UnmountTyped
<1> QED
  BY <1>5, <1>6, <1>7, <1>8, <1>9

-----------------------------------------------------------------------------
(* Numbers *)

LEMMA NumbersGrow ==
  ASSUME CanvasTyped, NumbersKnown, NEW ws \in Nat, NEW ds \in Nat,
         Len(workspaces) <= ws, Len(drawings) <= ds
  PROVE  /\ canvas.current <= ws /\ canvas.drawing <= ds
         /\ \A d \in Databases : remembered[d].current <= ws /\ remembered[d].drawing <= ds
         /\ \A w \in DOMAIN workspaces : workspaces[w].drawing <= ds
         /\ \A w \in DOMAIN listed : listed[w].drawing <= ds
         /\ \A s \in CanvasSaves : posts[s] # ErdCanvas!None =>
              posts[s].target <= ws /\ posts[s].id <= ws /\ posts[s].row.drawing <= ds
         /\ \A n \in DOMAIN drawings : drawings[n].workspace <= ws
<1>1. Len(workspaces) \in Nat /\ Len(drawings) \in Nat
  BY RowsTyped, DrawingsTyped
<1>2. \A n \in Nat : (n <= Len(workspaces) => n <= ws) /\ (n <= Len(drawings) => n <= ds)
  BY <1>1
<1>3. canvas.current <= ws /\ canvas.drawing <= ds
  BY <1>2 DEF CanvasTyped, NumbersKnown
<1>4. \A d \in Databases : remembered[d].current <= ws /\ remembered[d].drawing <= ds
  BY <1>2 DEF CanvasTyped, NumbersKnown, State
<1>5. \A w \in DOMAIN workspaces : workspaces[w].drawing <= ds
  BY <1>2, RowsTyped DEF NumbersKnown, StoredRow
<1>6. \A w \in DOMAIN listed : listed[w].drawing <= ds
  BY <1>2 DEF CanvasTyped, NumbersKnown, StoredRow
<1>7. ASSUME NEW s \in CanvasSaves, posts[s] # ErdCanvas!None
      PROVE  posts[s].target <= ws /\ posts[s].id <= ws /\ posts[s].row.drawing <= ds
  <2>1. posts[s].target \in Nat /\ posts[s].id \in Nat /\ posts[s].row.drawing \in Nat
    BY <1>7 DEF CanvasTyped, Post, StoredRow
  <2> QED
    BY <1>2, <1>7, <2>1 DEF NumbersKnown
<1>8. \A n \in DOMAIN drawings : drawings[n].workspace <= ws
  BY <1>2, DrawingsTyped DEF NumbersKnown, Origin
<1> QED
  BY <1>3, <1>4, <1>5, <1>6, <1>7, <1>8

LEMMA NumbersKnownStep == CanvasInv /\ ErdCanvas!Next => NumbersKnown'
<1> SUFFICES ASSUME CanvasInv, ErdCanvas!Next PROVE NumbersKnown'
  OBVIOUS
<1> USE DEF ErdCanvas!server, ErdCanvas!calls
<1>0. CanvasTyped /\ NumbersKnown /\ CanvasTyped'
  BY CanvasTypedStep DEF CanvasInv
<1>a. DOMAIN workspaces = 1 .. Len(workspaces) /\ Len(workspaces) \in Nat /\ Len(drawings) \in Nat
      /\ DOMAIN drawings = 1 .. Len(drawings)
  BY <1>0, RowsTyped, DrawingsTyped
<1>b. ASSUME NEW d \in Databases
      PROVE  ErdCanvas!Mounted(d).current <= Len(workspaces) /\ ErdCanvas!Mounted(d).drawing <= Len(drawings)
  BY <1>0 DEF NumbersKnown, ErdCanvas!Mounted
<1>c. CASE UNCHANGED <<canvas, remembered, workspaces, listed, posts, removal, drawings>>
  BY <1>0, <1>c DEF NumbersKnown
<1>1. CASE ErdCanvas!Draw
  <2>1. Len(drawings) + 1 \in Nat /\ Len(drawings) <= Len(drawings) + 1
    BY <1>a
  <2>2. /\ Len(drawings') = Len(drawings) + 1 /\ DOMAIN drawings' = DOMAIN drawings \cup {Len(drawings) + 1}
        /\ canvas'.current = canvas.current /\ canvas'.drawing = Len(drawings) + 1
        /\ UNCHANGED <<remembered, workspaces, listed, posts, removal>>
    BY <1>0, <1>1, DrawAdds, SMTT(60)
  <2>3. \A n \in DOMAIN drawings' : drawings'[n].workspace <= Len(workspaces)
    BY <1>0, <1>1, <1>a, <2>2, DrawAdds DEF NumbersKnown
  <2>4. /\ canvas.current <= Len(workspaces)
        /\ \A d \in Databases :
             remembered[d].current <= Len(workspaces) /\ remembered[d].drawing <= Len(drawings) + 1
        /\ \A w \in DOMAIN workspaces : workspaces[w].drawing <= Len(drawings) + 1
        /\ \A w \in DOMAIN listed : listed[w].drawing <= Len(drawings) + 1
        /\ \A s \in CanvasSaves : posts[s] # ErdCanvas!None =>
             /\ posts[s].target <= Len(workspaces) /\ posts[s].id <= Len(workspaces)
             /\ posts[s].row.drawing <= Len(drawings) + 1
    BY <1>0, <1>a, <2>1, NumbersGrow
  <2> QED
    BY <1>0, <1>a, <2>1, <2>2, <2>3, <2>4 DEF NumbersKnown
<1>2. CASE ErdCanvas!Remember
  BY <1>0, <1>2, KeyTyped DEF CanvasTyped, NumbersKnown, ErdCanvas!Remember, ErdCanvas!Remembered
<1>3. CASE ErdCanvas!Leave
  BY <1>0, <1>3, UnmountLeaves DEF CanvasTyped, NumbersKnown, ErdCanvas!Leave
<1>4. CASE ErdCanvas!Return
  BY <1>0, <1>4, <1>b, KeyTyped DEF NumbersKnown, ErdCanvas!Return
<1>5. CASE ErdCanvas!Renew
  BY <1>0, <1>5 DEF CanvasTyped, NumbersKnown, ErdCanvas!Renew
<1>6. CASE ErdCanvas!Read
  BY <1>0, <1>6 DEF NumbersKnown, ErdCanvas!Read, ErdCanvas!Rows
<1>7. CASE ErdCanvas!ReadFails
  BY <1>0, <1>7 DEF NumbersKnown, ErdCanvas!ReadFails, ErdCanvas!Nothing
<1>8. CASE ErdCanvas!Lose
  BY <1>0, <1>8 DEF CanvasTyped, NumbersKnown, ErdCanvas!Lose
<1>9. CASE ErdCanvas!Remove
  BY <1>0, <1>9, RemoveWrites DEF NumbersKnown
<1>10. CASE ErdCanvas!Deleted
  <2>1. canvas'.current <= Len(workspaces) /\ canvas'.drawing = canvas.drawing
    BY <1>0, <1>10, <1>a DEF CanvasTyped, NumbersKnown, ErdCanvas!Deleted
  <2>2. removal' = ErdCanvas!None /\ UNCHANGED <<remembered, workspaces, listed, posts, drawings>>
    BY <1>10, Zenon DEF ErdCanvas!Deleted
  <2> QED
    BY <1>0, <2>1, <2>2 DEF NumbersKnown
<1>11. ASSUME NEW d \in Databases, ErdCanvas!ChooseDatabase(d) PROVE NumbersKnown'
  <2>1. canvas'.current <= Len(workspaces) /\ canvas'.drawing <= Len(drawings)
    BY <1>0, <1>11, <1>a, <1>b, ChoiceTurns DEF NumbersKnown
  <2> QED
    BY <1>0, <1>11, <2>1, ChoiceTurns, UnmountLeaves DEF NumbersKnown
<1>12. ASSUME NEW w \in DOMAIN listed, ErdCanvas!Load(w) PROVE NumbersKnown'
  <2>1. canvas'.current <= Len(workspaces) /\ canvas'.drawing <= Len(drawings)
    BY <1>0, <1>12, <1>a, <1>b, LoadTurns DEF NumbersKnown, StoredRow
  <2> QED
    BY <1>0, <1>12, <2>1, LoadTurns, UnmountLeaves DEF NumbersKnown
<1>13. ASSUME NEW w \in DOMAIN listed, ErdCanvas!Delete(w) PROVE NumbersKnown'
  BY <1>0, <1>13 DEF NumbersKnown, ErdCanvas!Delete
<1>14. ASSUME NEW s \in CanvasSaves, ErdCanvas!Save(s) PROVE NumbersKnown'
  <2>1. /\ \A q \in CanvasSaves \ {s} : posts'[q] = posts[q]
        /\ posts'[s].target = canvas.current /\ posts'[s].id = 0 /\ posts'[s].row.drawing = canvas.drawing
        /\ UNCHANGED <<canvas, remembered, workspaces, listed, removal, drawings>>
    BY <1>0, <1>14, SaveSends
  <2> QED
    BY <1>0, <1>a, <2>1 DEF NumbersKnown
<1>15. ASSUME NEW s \in CanvasSaves, ErdCanvas!Store(s) PROVE NumbersKnown'
  <2>1. posts[s] # ErdCanvas!None
    BY <1>0, <1>15, StoreAnswers, NoneIsNoCall
  <2>2. /\ Len(workspaces') \in Nat /\ Len(workspaces) <= Len(workspaces')
        /\ DOMAIN workspaces' = 1 .. Len(workspaces')
    BY <1>0, <1>15, <1>a, StoreWrites
  <2>3. \A w \in DOMAIN workspaces' : workspaces'[w].drawing <= Len(drawings)
    BY <1>0, <1>15, <1>a, <2>1, StoreWrites DEF NumbersKnown
  <2>4. /\ canvas.current <= Len(workspaces')
        /\ \A d \in Databases : remembered[d].current <= Len(workspaces')
        /\ \A q \in CanvasSaves : posts[q] # ErdCanvas!None =>
             posts[q].target <= Len(workspaces') /\ posts[q].id <= Len(workspaces')
        /\ \A n \in DOMAIN drawings : drawings[n].workspace <= Len(workspaces')
    BY <1>0, <1>a, <2>2, NumbersGrow
  <2>5. posts[s].target <= Len(workspaces') /\ posts[s].row.drawing <= Len(drawings)
    BY <1>0, <2>1, <2>4 DEF NumbersKnown
  <2>6. posts'[s] # ErdCanvas!None =>
          /\ posts'[s].target <= Len(workspaces') /\ posts'[s].id <= Len(workspaces')
          /\ posts'[s].row.drawing <= Len(drawings)
    <3>1. ASSUME posts'[s] # ErdCanvas!None
          PROVE  \E w : posts'[s] = StoredPost(s, w) /\ w <= Len(workspaces')
      <4>1. CASE posts[s].target = 0
        BY <1>0, <1>15, <1>a, <3>1, <4>1, StoreWrites
      <4>2. CASE posts[s].target # 0
        <5>1. posts'[s] = StoredPost(s, posts[s].target)
          BY <1>0, <1>15, <1>a, <3>1, <4>2, StoreWrites
        <5> QED
          BY <2>5, <5>1
      <4> QED
        BY <4>1, <4>2
    <3> QED
      BY <2>5, <3>1, StoredPostIs
  <2>7. \A w \in DOMAIN workspaces : w \in DOMAIN workspaces'
    BY <1>a, <2>2
  <2>8. /\ \A q \in CanvasSaves \ {s} : posts'[q] = posts[q]
        /\ UNCHANGED <<canvas, remembered, listed, removal, drawings>>
    BY <1>0, <1>15, StoreWrites
  <2> QED
    BY <1>0, <2>3, <2>4, <2>6, <2>7, <2>8 DEF NumbersKnown
<1>16. ASSUME NEW s \in CanvasSaves, ErdCanvas!Saved(s) PROVE NumbersKnown'
  BY <1>0, <1>16, <1>a, SavedTells, NoneIsNoCall DEF NumbersKnown
<1> QED
  BY <1>1, <1>2, <1>3, <1>4, <1>5, <1>6, <1>7, <1>8, <1>9, <1>10, <1>11, <1>12, <1>13, <1>14, <1>15, <1>16
     DEF ErdCanvas!Next

-----------------------------------------------------------------------------
(* Calls *)

\* The conditions of CallsMatch on a save and on the deletion.
PostMatches(post) ==
  post # ErdCanvas!None =>
    /\ post.here => canvas.shown /\ (page => canvas.database = post.row.database)
    /\ post.st = "stored" => post.id # 0 /\ post.target \in {0, post.id}
    /\ post.row.there

DeletionMatches ==
  removal # ErdCanvas!None =>
    /\ removal.here => canvas.shown
    /\ removal.here /\ removal.open => canvas.current # 0
    /\ removal.st = "removed" => ~workspaces[removal.id].there

LEMMA CallsMatchParts ==
  CallsMatch <=> /\ ~page => \A d \in Databases \ {Home} : remembered[d] = [current |-> 0, drawing |-> 0]
                 /\ \A s \in CanvasSaves : PostMatches(posts[s])
                 /\ DeletionMatches
BY DEF CallsMatch, PostMatches, DeletionMatches

\* CanvasSaves and the deletion match a canvas that stays, and any canvas once theirs was left.
LEMMA CallsStay ==
  ASSUME CanvasTyped, CallsMatch, UNCHANGED <<page, remembered, posts, removal, workspaces>>,
         canvas'.shown, canvas.shown, page => canvas'.database = canvas.database,
         canvas.current # 0 => canvas'.current # 0
  PROVE  CallsMatch'
BY DEF CallsMatch

LEMMA CallsLeft ==
  ASSUME CanvasTyped, CallsMatch, UNCHANGED <<page, remembered, workspaces>>, ErdCanvas!Unmount
  PROVE  CallsMatch'
BY UnmountLeaves DEF CallsMatch

LEMMA CallsMatchStep == CanvasInv /\ ErdCanvas!Next => CallsMatch'
<1> SUFFICES ASSUME CanvasInv, ErdCanvas!Next PROVE CallsMatch'
  OBVIOUS
<1> USE DEF ErdCanvas!server, ErdCanvas!calls
<1>0. CanvasTyped /\ NumbersKnown /\ CallsMatch
  BY DEF CanvasInv
<1>1. CASE ErdCanvas!Draw
  BY <1>0, <1>1, DrawAdds, CallsStay
<1>2. CASE ErdCanvas!Remember
  BY <1>0, <1>2 DEF CallsMatch, CanvasTyped, ErdCanvas!Remember, ErdCanvas!Key
<1>3. CASE ErdCanvas!Leave
  BY <1>0, <1>3, CallsLeft DEF ErdCanvas!Leave
<1>4. CASE ErdCanvas!Return
  BY <1>0, <1>4 DEF CallsMatch, ErdCanvas!Return
<1>5. CASE ErdCanvas!Renew
  BY <1>0, <1>5 DEF CallsMatch, CanvasTyped, ErdCanvas!Renew
<1>6. CASE ErdCanvas!Read
  BY <1>0, <1>6 DEF CallsMatch, ErdCanvas!Read
<1>7. CASE ErdCanvas!ReadFails
  BY <1>0, <1>7 DEF CallsMatch, ErdCanvas!ReadFails
<1>8. CASE ErdCanvas!Lose
  BY <1>0, <1>8 DEF CallsMatch, CanvasTyped, ErdCanvas!Lose
<1>9. CASE ErdCanvas!Remove
  BY <1>0, <1>9, RemoveWrites, NoneIsNoCall DEF CallsMatch
<1>10. CASE ErdCanvas!Deleted
  BY <1>0, <1>10 DEF CallsMatch, CanvasTyped, ErdCanvas!Deleted
<1>11. ASSUME NEW d \in Databases, ErdCanvas!ChooseDatabase(d) PROVE CallsMatch'
  BY <1>0, <1>11, ChoiceTurns, CallsLeft, CallsStay
<1>12. ASSUME NEW w \in DOMAIN listed, ErdCanvas!Load(w) PROVE CallsMatch'
  BY <1>0, <1>12, LoadTurns, CallsLeft, CallsStay, RowsTyped
<1>13. ASSUME NEW w \in DOMAIN listed, ErdCanvas!Delete(w) PROVE CallsMatch'
  <2>1. /\ canvas.shown /\ UNCHANGED <<page, canvas, remembered, workspaces, posts>>
        /\ removal' = [st |-> "sent", id |-> w, here |-> TRUE, open |-> w = canvas.current]
    BY <1>13, Zenon DEF ErdCanvas!Delete
  <2>2. w # 0
    BY <1>0, RowsTyped DEF NumbersKnown
  <2>3. DeletionMatches'
    BY <2>1, <2>2 DEF DeletionMatches
  <2> QED
    BY <1>0, <2>1, <2>3 DEF CallsMatch, DeletionMatches
<1>14. ASSUME NEW s \in CanvasSaves, ErdCanvas!Save(s) PROVE CallsMatch'
  BY <1>0, <1>14, SaveSends DEF CallsMatch
<1>15. ASSUME NEW s \in CanvasSaves, ErdCanvas!Store(s) PROVE CallsMatch'
  <2>1. posts[s] # ErdCanvas!None /\ posts[s].row.there /\ PostMatches(posts[s])
    BY <1>0, <1>15, StoreAnswers, NoneIsNoCall, CallsMatchParts DEF CallsMatch
  <2>2. UNCHANGED <<page, canvas, remembered, removal>> /\ \A q \in CanvasSaves \ {s} : posts'[q] = posts[q]
    BY <1>0, <1>15, StoreWrites
  <2>3. posts'[s] # ErdCanvas!None =>
          \E w : posts'[s] = StoredPost(s, w) /\ w # 0 /\ posts[s].target \in {0, w}
    <3>1. DOMAIN workspaces = 1 .. Len(workspaces) /\ Len(workspaces) \in Nat
      BY <1>0, RowsTyped
    <3>2. CASE posts[s].target = 0
      BY <1>0, <1>15, <3>1, <3>2, StoreWrites
    <3>3. CASE posts[s].target # 0
      BY <1>0, <1>15, <3>1, <3>3, StoreWrites
    <3> QED
      BY <3>2, <3>3
  <2>4. PostMatches(posts[s])'
    BY <2>1, <2>2, <2>3, StoredPostIs DEF PostMatches
  <2>5. \A q \in CanvasSaves : PostMatches(posts[q])'
    BY <1>0, <2>2, <2>4, CallsMatchParts DEF PostMatches
  <2>6. DeletionMatches'
    <3>1. removal # ErdCanvas!None /\ removal.st = "removed" => ~workspaces'[removal.id].there
      BY <1>0, <1>15, StoreWrites, RowsTyped DEF CallsMatch, NumbersKnown
    <3> QED
      BY <1>0, <2>2, <3>1 DEF CallsMatch, DeletionMatches
  <2> QED
    BY <1>0, <2>2, <2>5, <2>6 DEF CallsMatch, PostMatches, DeletionMatches
<1>16. ASSUME NEW s \in CanvasSaves, ErdCanvas!Saved(s) PROVE CallsMatch'
  BY <1>0, <1>16, SavedTells, NoneIsNoCall DEF CallsMatch
<1> QED
  BY <1>1, <1>2, <1>3, <1>4, <1>5, <1>6, <1>7, <1>8, <1>9, <1>10, <1>11, <1>12, <1>13, <1>14, <1>15, <1>16
     DEF ErdCanvas!Next

-----------------------------------------------------------------------------
(* What is held, and for what *)

\* No step brings a drawing to a workspace where it was not, but for four that are
\* considered below, and none to a database that is not its own.
NoNewPlace == \A n \in DOMAIN drawings, w \in Nat : n \notin astray' /\ HeldFor(n, w)' => HeldFor(n, w)

NoNewBase ==
  \A n \in DOMAIN drawings, d \in Databases :
    n \notin astray' /\ HeldIn(n, d)' => HeldIn(n, d) \/ drawings[n].database = d

\* If nothing but the canvas changes, it must hold what it holds from somewhere.
LEMMA CanvasTurns ==
  ASSUME UNCHANGED <<page, remembered, workspaces, listed, drawings>>,
         \A s \in CanvasSaves : posts'[s] = ErdCanvas!None <=> posts[s] = ErdCanvas!None,
         \A s \in CanvasSaves : posts[s] # ErdCanvas!None =>
           /\ posts'[s].row = posts[s].row /\ posts'[s].st = posts[s].st
           /\ posts'[s].id = posts[s].id /\ posts'[s].target = posts[s].target,
         canvas'.shown /\ canvas'.drawing \in DOMAIN drawings =>
           /\ HeldFor(canvas'.drawing, canvas'.current)
           /\ \/ HeldIn(canvas'.drawing, canvas'.database) \/ canvas'.drawing \in astray'
              \/ drawings[canvas'.drawing].database = canvas'.database
  PROVE  NoNewPlace /\ NoNewBase
<1>1. ASSUME NEW n \in DOMAIN drawings, NEW w \in Nat, HeldFor(n, w)' PROVE HeldFor(n, w)
  BY <1>1 DEF HeldFor, Place
<1>2. ASSUME NEW n \in DOMAIN drawings, NEW d \in Databases, n \notin astray', HeldIn(n, d)'
      PROVE  HeldIn(n, d) \/ drawings[n].database = d
  BY <1>2 DEF HeldIn
<1> QED
  BY <1>1, <1>2 DEF NoNewPlace, NoNewBase

\* What was remembered is held, by the page in the database it is remembered for.
LEMMA MemoryHolds ==
  ASSUME CanvasTyped, NEW d \in Databases
  PROVE  /\ ErdCanvas!Mounted(d).shown /\ ErdCanvas!Mounted(d).database = d
         /\ ErdCanvas!Mounted(d).drawing = remembered[d].drawing
         /\ ErdCanvas!Mounted(d).current = remembered[d].current
         /\ HeldFor(ErdCanvas!Mounted(d).drawing, ErdCanvas!Mounted(d).current)
         /\ page => HeldIn(ErdCanvas!Mounted(d).drawing, d)
<1>1. /\ ErdCanvas!Mounted(d).shown /\ ErdCanvas!Mounted(d).database = d
      /\ ErdCanvas!Mounted(d).drawing = remembered[d].drawing
      /\ ErdCanvas!Mounted(d).current = remembered[d].current
  BY DEF ErdCanvas!Mounted
<1>2. HeldFor(remembered[d].drawing, remembered[d].current) /\ (page => HeldIn(remembered[d].drawing, d))
  BY DEF HeldFor, HeldIn
<1> QED
  BY <1>1, <1>2

LEMMA CanvasHolds ==
  canvas.shown => HeldFor(canvas.drawing, canvas.current) /\ HeldIn(canvas.drawing, canvas.database)
BY DEF HeldFor, HeldIn

LEMMA CallsLeave ==
  ASSUME CanvasTyped, ErdCanvas!Unmount, NEW s \in CanvasSaves
  PROVE  /\ posts'[s] = ErdCanvas!None <=> posts[s] = ErdCanvas!None
         /\ posts[s] # ErdCanvas!None =>
              /\ posts'[s].row = posts[s].row /\ posts'[s].st = posts[s].st
              /\ posts'[s].id = posts[s].id /\ posts'[s].target = posts[s].target
BY UnmountLeaves

\* Steps of the canvas that open what is remembered, or what is listed.
LEMMA TurnsHold ==
  ASSUME CanvasInv,
         \/ ErdCanvas!Leave \/ ErdCanvas!Return \/ ErdCanvas!Renew
         \/ \E d \in Databases : ErdCanvas!ChooseDatabase(d)
         \/ \E w \in DOMAIN listed : ErdCanvas!Load(w)
  PROVE  NoNewPlace /\ NoNewBase
<1> USE DEF ErdCanvas!server, ErdCanvas!calls
<1>0. CanvasTyped /\ NumbersKnown
  BY DEF CanvasInv
<1>1. CASE ErdCanvas!Leave
  <2>1. ~canvas'.shown /\ UNCHANGED <<page, remembered, workspaces, listed, drawings>>
    BY <1>0, <1>1 DEF CanvasTyped, ErdCanvas!Leave
  <2> QED
    BY <1>0, <1>1, <2>1, CallsLeave, CanvasTurns DEF ErdCanvas!Leave
<1>2. CASE ErdCanvas!Return
  <2>1. /\ canvas' = ErdCanvas!Mounted(ErdCanvas!Key) /\ ErdCanvas!Key \in Databases
        /\ UNCHANGED <<page, remembered, workspaces, listed, posts, drawings>>
    BY <1>0, <1>2, KeyTyped DEF ErdCanvas!Return
  <2>2. canvas'.drawing \in DOMAIN drawings =>
          \/ canvas'.drawing \in astray'
          \/ drawings[canvas'.drawing].database = canvas'.database
    BY <1>0, <1>2, <2>1, MemoryHolds, DrawingsTyped DEF ErdCanvas!Return, ErdCanvas!Displaced
  <2> QED
    BY <1>0, <2>1, <2>2, MemoryHolds, CanvasTurns
<1>3. CASE ErdCanvas!Renew
  <2>1. /\ canvas'.shown = canvas.shown /\ canvas'.current = canvas.current /\ canvas'.drawing = canvas.drawing
        /\ canvas'.database = Home /\ canvas.shown
        /\ UNCHANGED <<page, remembered, workspaces, listed, posts, drawings>>
    BY <1>0, <1>3 DEF CanvasTyped, ErdCanvas!Renew
  <2>2. canvas'.drawing \in DOMAIN drawings =>
          \/ canvas'.drawing \in astray'
          \/ drawings[canvas'.drawing].database = canvas'.database
    BY <1>0, <1>3, <2>1, DrawingsTyped DEF ErdCanvas!Renew, ErdCanvas!Displaced
  <2> QED
    BY <2>1, <2>2, CanvasHolds, CanvasTurns
<1>4. ASSUME NEW d \in Databases, ErdCanvas!ChooseDatabase(d) PROVE NoNewPlace /\ NoNewBase
  <2>1. CASE canvas' = ErdCanvas!Mounted(d) /\ ErdCanvas!Unmount /\ page
    <3>1. UNCHANGED <<page, remembered, workspaces, listed, drawings>>
      BY <1>0, <1>4, ChoiceTurns
    <3> QED
      BY <1>0, <2>1, <3>1, CallsLeave, CanvasTurns, MemoryHolds
  <2>2. CASE canvas'.drawing = 0 /\ UNCHANGED posts
    <3>1. UNCHANGED <<page, remembered, workspaces, listed, drawings>>
      BY <1>0, <1>4, ChoiceTurns
    <3> QED
      BY <1>0, <2>2, <3>1, CanvasTurns, DrawingsTyped
  <2> QED
    BY <1>0, <1>4, <2>1, <2>2, ChoiceTurns
<1>5. ASSUME NEW w \in DOMAIN listed, ErdCanvas!Load(w) PROVE NoNewPlace /\ NoNewBase
  <2>1. UNCHANGED <<page, remembered, workspaces, listed, drawings>> /\ listed[w].database \in Databases
    BY <1>0, <1>5, LoadTurns DEF StoredRow
  <2>2. CASE page /\ canvas' = ErdCanvas!Mounted(listed[w].database) /\ ErdCanvas!Unmount
    BY <1>0, <2>1, <2>2, CallsLeave, CanvasTurns, MemoryHolds
  <2>3. CASE /\ UNCHANGED posts /\ canvas'.database = listed[w].database /\ canvas'.current = w
             /\ canvas'.drawing = listed[w].drawing
    <3>1. HeldFor(listed[w].drawing, w) /\ HeldIn(listed[w].drawing, listed[w].database)
      BY DEF HeldFor, HeldIn
    <3> QED
      BY <2>1, <2>3, <3>1, CanvasTurns
  <2> QED
    BY <1>0, <1>5, <2>2, <2>3, LoadTurns
<1> QED
  BY <1>1, <1>2, <1>3, <1>4, <1>5

\* Steps that leave the canvas alone, or draw what nobody holds.
LEMMA OthersHold ==
  ASSUME CanvasInv,
         \/ ErdCanvas!Draw \/ ErdCanvas!Remember \/ ErdCanvas!Read \/ ErdCanvas!ReadFails
         \/ ErdCanvas!Lose \/ ErdCanvas!Remove
         \/ \E w \in DOMAIN listed : ErdCanvas!Delete(w)
         \/ \E s \in CanvasSaves : ErdCanvas!Save(s)
  PROVE  NoNewPlace /\ NoNewBase
<1> USE DEF ErdCanvas!server, ErdCanvas!calls
<1>0. CanvasTyped /\ NumbersKnown
  BY DEF CanvasInv
<1>1. CASE ErdCanvas!Draw
  <2>1. canvas'.drawing \notin DOMAIN drawings
    BY <1>0, <1>1, DrawAdds, DrawingsTyped
  <2>2. UNCHANGED <<page, remembered, workspaces, listed, posts>>
    BY <1>0, <1>1, DrawAdds
  <2>3. ASSUME NEW n \in DOMAIN drawings, NEW w \in Nat, HeldFor(n, w)' PROVE HeldFor(n, w)
    BY <2>1, <2>2, <2>3 DEF HeldFor, Place
  <2>4. ASSUME NEW n \in DOMAIN drawings, NEW d \in Databases, HeldIn(n, d)' PROVE HeldIn(n, d)
    BY <2>1, <2>2, <2>4 DEF HeldIn
  <2> QED
    BY <2>3, <2>4 DEF NoNewPlace, NoNewBase
<1>2. CASE ErdCanvas!Remember
  <2>1. /\ canvas.shown /\ UNCHANGED <<page, canvas, workspaces, listed, posts, drawings>>
        /\ \A d \in Databases : remembered'[d] =
             IF d = ErdCanvas!Key THEN [current |-> canvas.current, drawing |-> canvas.drawing] ELSE remembered[d]
    BY <1>0, <1>2 DEF CanvasTyped, ErdCanvas!Remember, ErdCanvas!Remembered, ErdCanvas!InUse
  <2>2. ASSUME NEW n \in DOMAIN drawings, NEW w \in Nat, HeldFor(n, w)' PROVE HeldFor(n, w)
    BY <2>1, <2>2 DEF HeldFor, Place
  <2>3. ASSUME NEW n \in DOMAIN drawings, NEW d \in Databases, HeldIn(n, d)' PROVE HeldIn(n, d)
    BY <2>1, <2>3 DEF HeldIn, ErdCanvas!Key
  <2> QED
    BY <2>2, <2>3 DEF NoNewPlace, NoNewBase
<1>3. CASE ErdCanvas!Read
  <2>1. /\ UNCHANGED <<page, canvas, remembered, workspaces, posts, drawings>>
        /\ DOMAIN listed' \subseteq DOMAIN workspaces
        /\ \A w \in DOMAIN listed' : listed'[w] = workspaces[w]
    BY <1>3 DEF ErdCanvas!Read, ErdCanvas!Rows
  <2>2. ASSUME NEW n \in DOMAIN drawings, NEW w \in Nat, HeldFor(n, w)' PROVE HeldFor(n, w)
    BY <2>1, <2>2 DEF HeldFor, Place
  <2>3. ASSUME NEW n \in DOMAIN drawings, NEW d \in Databases, HeldIn(n, d)' PROVE HeldIn(n, d)
    BY <2>1, <2>3 DEF HeldIn
  <2> QED
    BY <2>2, <2>3 DEF NoNewPlace, NoNewBase
<1>4. CASE ErdCanvas!ReadFails
  <2>1. UNCHANGED <<page, canvas, remembered, workspaces, posts, drawings>> /\ DOMAIN listed' = {}
    BY <1>4 DEF ErdCanvas!ReadFails, ErdCanvas!Nothing
  <2>2. ASSUME NEW n \in DOMAIN drawings, NEW w \in Nat, HeldFor(n, w)' PROVE HeldFor(n, w)
    BY <2>1, <2>2 DEF HeldFor, Place
  <2>3. ASSUME NEW n \in DOMAIN drawings, NEW d \in Databases, HeldIn(n, d)' PROVE HeldIn(n, d)
    BY <2>1, <2>3 DEF HeldIn
  <2> QED
    BY <2>2, <2>3 DEF NoNewPlace, NoNewBase
<1>5. CASE ErdCanvas!Lose
  <2>1. /\ UNCHANGED <<page, canvas, remembered, workspaces, listed, drawings>>
        /\ \A s \in CanvasSaves : posts'[s] # ErdCanvas!None => posts'[s] = posts[s]
    BY <1>0, <1>5 DEF CanvasTyped, ErdCanvas!Lose
  <2>2. ASSUME NEW n \in DOMAIN drawings, NEW w \in Nat, HeldFor(n, w)' PROVE HeldFor(n, w)
    BY <2>1, <2>2 DEF HeldFor, Place
  <2>3. ASSUME NEW n \in DOMAIN drawings, NEW d \in Databases, HeldIn(n, d)' PROVE HeldIn(n, d)
    BY <2>1, <2>3 DEF HeldIn
  <2> QED
    BY <2>2, <2>3 DEF NoNewPlace, NoNewBase
<1>6. CASE ErdCanvas!Remove
  <2>1. /\ UNCHANGED <<page, canvas, remembered, listed, posts, drawings>> /\ DOMAIN workspaces' = DOMAIN workspaces
        /\ \A w \in DOMAIN workspaces :
             workspaces'[w].drawing = workspaces[w].drawing /\ workspaces'[w].database = workspaces[w].database
    BY <1>0, <1>6, RemoveWrites
  <2>2. ASSUME NEW n \in DOMAIN drawings, NEW w \in Nat, HeldFor(n, w)' PROVE HeldFor(n, w)
    BY <2>1, <2>2 DEF HeldFor, Place
  <2>3. ASSUME NEW n \in DOMAIN drawings, NEW d \in Databases, HeldIn(n, d)' PROVE HeldIn(n, d)
    BY <2>1, <2>3 DEF HeldIn
  <2> QED
    BY <2>2, <2>3 DEF NoNewPlace, NoNewBase
<1>7. CASE \E w \in DOMAIN listed : ErdCanvas!Delete(w)
  <2>1. UNCHANGED <<page, canvas, remembered, workspaces, listed, posts, drawings>>
    BY <1>7 DEF ErdCanvas!Delete
  <2>2. ASSUME NEW n \in DOMAIN drawings, NEW w \in Nat, HeldFor(n, w)' PROVE HeldFor(n, w)
    BY <2>1, <2>2 DEF HeldFor, Place
  <2>3. ASSUME NEW n \in DOMAIN drawings, NEW d \in Databases, HeldIn(n, d)' PROVE HeldIn(n, d)
    BY <2>1, <2>3 DEF HeldIn
  <2> QED
    BY <2>2, <2>3 DEF NoNewPlace, NoNewBase
<1>8. ASSUME NEW s \in CanvasSaves, ErdCanvas!Save(s) PROVE NoNewPlace /\ NoNewBase
  <2>1. /\ canvas.shown /\ UNCHANGED <<page, canvas, remembered, workspaces, listed, drawings>>
        /\ \A q \in CanvasSaves \ {s} : posts'[q] = posts[q]
        /\ Place(posts'[s]) = canvas.current /\ posts'[s].row.drawing = canvas.drawing
        /\ posts'[s].row.database = canvas.database
    BY <1>0, <1>8, SaveSends DEF Place
  <2>2. ASSUME NEW n \in DOMAIN drawings, NEW w \in Nat, HeldFor(n, w)' PROVE HeldFor(n, w)
    BY <2>1, <2>2 DEF HeldFor, Place
  <2>3. ASSUME NEW n \in DOMAIN drawings, NEW d \in Databases, HeldIn(n, d)' PROVE HeldIn(n, d)
    BY <2>1, <2>3 DEF HeldIn
  <2> QED
    BY <2>2, <2>3 DEF NoNewPlace, NoNewBase
<1> QED
  BY <1>1, <1>2, <1>3, <1>4, <1>5, <1>6, <1>7, <1>8

\* A new workspace gets the drawing of the save that makes it.
LEMMA StoreHolds ==
  ASSUME CanvasInv, NEW s \in CanvasSaves, ErdCanvas!Store(s)
  PROVE  /\ NoNewBase
         /\ \A n \in DOMAIN drawings, w \in Nat : HeldFor(n, w)' =>
              \/ HeldFor(n, w)
              \/ w = Len(workspaces) + 1 /\ Makes(n, s) /\ posts[s].st = "sent" /\ HeldFor(n, 0)
<1>0. CanvasTyped /\ NumbersKnown
  BY DEF CanvasInv
<1>1. /\ UNCHANGED <<page, canvas, remembered, listed, drawings>>
      /\ posts[s] # ErdCanvas!None /\ posts[s].st = "sent"
      /\ \A q \in CanvasSaves \ {s} : posts'[q] = posts[q]
  BY <1>0, StoreWrites, NoneIsNoCall
<1>a. DOMAIN workspaces = 1 .. Len(workspaces) /\ Len(workspaces) \in Nat
  BY <1>0, RowsTyped
<1>2. CASE posts[s].target = 0
  <2>1. /\ DOMAIN workspaces' = DOMAIN workspaces \cup {Len(workspaces) + 1}
        /\ \A w \in DOMAIN workspaces : workspaces'[w] = workspaces[w]
        /\ workspaces'[Len(workspaces) + 1] = posts[s].row
        /\ posts'[s].row = posts[s].row /\ Place(posts'[s]) = Len(workspaces) + 1
    <3>1. /\ Len(workspaces') = Len(workspaces) + 1 /\ DOMAIN workspaces' = 1 .. Len(workspaces')
          /\ \A w \in DOMAIN workspaces : workspaces'[w] = workspaces[w]
          /\ workspaces'[Len(workspaces) + 1] = posts[s].row
          /\ posts'[s] = StoredPost(s, Len(workspaces) + 1)
      BY <1>0, <1>2, <1>a, StoreWrites
    <3> QED
      BY <1>a, <3>1, StoredPostIs DEF Place
  <2>2. ASSUME NEW n \in DOMAIN drawings, NEW w \in Nat, HeldFor(n, w)'
        PROVE  HeldFor(n, w) \/ (w = Len(workspaces) + 1 /\ posts[s].row.drawing = n)
    BY <1>1, <2>1, <2>2 DEF HeldFor, Place
  <2>3. ASSUME NEW n \in DOMAIN drawings, NEW d \in Databases, HeldIn(n, d)' PROVE HeldIn(n, d)
    BY <1>1, <2>1, <2>3 DEF HeldIn
  <2>4. \A n : posts[s].row.drawing = n => Makes(n, s) /\ HeldFor(n, 0)
    BY <1>1, <1>2 DEF Makes, HeldFor, Place
  <2> QED
    BY <1>1, <2>2, <2>3, <2>4 DEF NoNewBase
<1>3. CASE posts[s].target # 0 /\ posts'[s] # ErdCanvas!None
  <2>1. /\ DOMAIN workspaces' = DOMAIN workspaces /\ Place(posts[s]) = posts[s].target
        /\ \A w \in DOMAIN workspaces :
             workspaces'[w] = IF w = posts[s].target THEN posts[s].row ELSE workspaces[w]
        /\ posts'[s].row = posts[s].row /\ Place(posts'[s]) = posts[s].target
    BY <1>0, <1>1, <1>3, <1>a, StoreWrites, StoredPostIs DEF Place
  <2>2. ASSUME NEW n \in DOMAIN drawings, NEW w \in Nat, HeldFor(n, w)' PROVE HeldFor(n, w)
    BY <1>1, <2>1, <2>2 DEF HeldFor
  <2>3. ASSUME NEW n \in DOMAIN drawings, NEW d \in Databases, HeldIn(n, d)' PROVE HeldIn(n, d)
    BY <1>1, <2>1, <2>3 DEF HeldIn
  <2> QED
    BY <2>2, <2>3 DEF NoNewBase
<1>4. CASE posts[s].target # 0 /\ posts'[s] = ErdCanvas!None
  <2>1. workspaces' = workspaces
    BY <1>0, <1>4, StoreWrites, StoredPostIs
  <2>2. ASSUME NEW n \in DOMAIN drawings, NEW w \in Nat, HeldFor(n, w)' PROVE HeldFor(n, w)
    BY <1>1, <1>4, <2>1, <2>2 DEF HeldFor
  <2>3. ASSUME NEW n \in DOMAIN drawings, NEW d \in Databases, HeldIn(n, d)' PROVE HeldIn(n, d)
    BY <1>1, <1>4, <2>1, <2>3 DEF HeldIn
  <2> QED
    BY <2>2, <2>3 DEF NoNewBase
<1> QED
  BY <1>2, <1>3, <1>4

\* An answer puts the canvas into the workspace that was made, unless it is there.
LEMMA SavedHolds ==
  ASSUME CanvasInv, NEW s \in CanvasSaves, ErdCanvas!Saved(s)
  PROVE  /\ NoNewBase
         /\ \A n \in DOMAIN drawings, w \in Nat : n \notin astray' /\ HeldFor(n, w)' =>
              \/ HeldFor(n, w)
              \/ /\ canvas.shown /\ canvas.current = 0 /\ n = canvas.drawing /\ HeldFor(n, 0)
                 /\ posts[s].here /\ posts[s].target = 0 /\ w = posts[s].id
<1>0. CanvasTyped /\ NumbersKnown /\ CallsMatch
  BY DEF CanvasInv
<1>1. /\ UNCHANGED <<page, remembered, workspaces, listed, drawings>>
      /\ posts[s] # ErdCanvas!None /\ posts[s].st = "stored" /\ posts'[s] = ErdCanvas!None
      /\ \A q \in CanvasSaves \ {s} : posts'[q] = posts[q]
  BY <1>0, SavedTells, NoneIsNoCall
<1>2. canvas'.shown = canvas.shown /\ canvas'.drawing = canvas.drawing /\ canvas'.database = canvas.database
  BY <1>0, SavedTells
<1>3. ASSUME NEW n \in DOMAIN drawings, NEW d \in Databases, HeldIn(n, d)' PROVE HeldIn(n, d)
  BY <1>1, <1>2, <1>3 DEF HeldIn
<1>4. ASSUME NEW n \in DOMAIN drawings, NEW w \in Nat, HeldFor(n, w)'
      PROVE  HeldFor(n, w) \/ (canvas.shown /\ n = canvas.drawing /\ w = canvas'.current)
  BY <1>1, <1>2, <1>4 DEF HeldFor, Place
<1>5. ASSUME canvas.shown, canvas.drawing \notin astray'
      PROVE  \/ HeldFor(canvas.drawing, canvas'.current)
             \/ /\ canvas.current = 0 /\ HeldFor(canvas.drawing, 0) /\ posts[s].here /\ posts[s].target = 0
                /\ canvas'.current = posts[s].id
  <2>1. CASE posts[s].here
    <3>1. canvas'.current = posts[s].id /\ canvas.current = posts[s].target
      BY <1>0, <1>5, <2>1, SavedTells
    <3>2. HeldFor(canvas.drawing, canvas.current)
      BY <1>5, CanvasHolds
    <3>3. posts[s].target \in {0, posts[s].id}
      BY <1>0, <1>1 DEF CallsMatch
    <3> QED
      BY <2>1, <3>1, <3>2, <3>3
  <2>2. CASE ~posts[s].here
    BY <1>0, <1>5, <2>2, SavedTells, CanvasHolds
  <2> QED
    BY <2>1, <2>2
<1> QED
  BY <1>3, <1>4, <1>5 DEF NoNewBase

\* A deletion that is heard leaves the canvas without workspace.
LEMMA DeletedTells ==
  ASSUME CanvasTyped, NumbersKnown, ErdCanvas!Deleted
  PROVE  /\ removal \in Deletion /\ removal.st = "removed" /\ removal' = ErdCanvas!None
         /\ UNCHANGED <<page, remembered, workspaces, listed, posts, drawings>>
         /\ canvas'.shown = canvas.shown /\ canvas'.drawing = canvas.drawing /\ canvas'.database = canvas.database
         /\ \/ /\ removal.open /\ removal.here /\ canvas'.current = 0
               /\ astray' = IF canvas.current = removal.id THEN astray ELSE astray \cup {canvas.drawing}
               /\ unheard' = unheard \cup ErdCanvas!Unlearned
            \/ ~(removal.open /\ removal.here) /\ UNCHANGED <<canvas, astray, unheard>>
<1>1. removal \in Deletion /\ removal.st = "removed"
  BY DEF CanvasTyped, ErdCanvas!Deleted, ErdCanvas!None
<1>2. removal' = ErdCanvas!None /\ UNCHANGED <<page, remembered, workspaces, listed, posts, drawings>>
  BY Zenon DEF ErdCanvas!Deleted, ErdCanvas!server
<1>3. CASE removal.open /\ removal.here
  BY <1>1, <1>2, <1>3 DEF CanvasTyped, ErdCanvas!Deleted
<1>4. CASE ~(removal.open /\ removal.here)
  BY <1>1, <1>2, <1>4, Zenon DEF ErdCanvas!Deleted
<1> QED
  BY <1>3, <1>4

LEMMA DeletedHolds ==
  ASSUME CanvasInv, ErdCanvas!Deleted
  PROVE  /\ NoNewBase
         /\ \A n \in DOMAIN drawings, w \in Nat : n \notin astray' /\ HeldFor(n, w)' =>
              \/ HeldFor(n, w)
              \/ /\ w = 0 /\ canvas.shown /\ n = canvas.drawing /\ canvas.current = removal.id
                 /\ removal.open /\ removal.here /\ HeldFor(n, removal.id)
<1>0. CanvasTyped /\ NumbersKnown
  BY DEF CanvasInv
<1>1. /\ UNCHANGED <<page, remembered, workspaces, listed, posts, drawings>>
      /\ canvas'.shown = canvas.shown /\ canvas'.drawing = canvas.drawing /\ canvas'.database = canvas.database
  BY <1>0, DeletedTells
<1>2. ASSUME NEW n \in DOMAIN drawings, NEW d \in Databases, HeldIn(n, d)' PROVE HeldIn(n, d)
  BY <1>1, <1>2 DEF HeldIn
<1>3. ASSUME NEW n \in DOMAIN drawings, NEW w \in Nat, HeldFor(n, w)'
      PROVE  HeldFor(n, w) \/ (canvas.shown /\ n = canvas.drawing /\ w = canvas'.current)
  BY <1>1, <1>3 DEF HeldFor, Place
<1>4. ASSUME canvas.shown, canvas.drawing \notin astray'
      PROVE  \/ HeldFor(canvas.drawing, canvas'.current)
             \/ /\ canvas'.current = 0 /\ canvas.current = removal.id /\ removal.open /\ removal.here
                /\ HeldFor(canvas.drawing, removal.id)
  BY <1>0, <1>4, DeletedTells, CanvasHolds
<1> QED
  BY <1>2, <1>3, <1>4 DEF NoNewBase

\* Nothing holds a drawing that was not made, and who draws it holds it rightly.
LEMMA FreshIsHeld ==
  ASSUME CanvasTyped, NumbersKnown, ErdCanvas!Draw, NEW n, n = Len(drawings) + 1
  PROVE  /\ drawings'[n] = [workspace |-> canvas.current, database |-> canvas.database]
         /\ \A w : HeldFor(n, w)' => w = canvas.current
         /\ \A d \in Databases : HeldIn(n, d)' => d = canvas.database
         /\ \A s \in CanvasSaves : ~Makes(n, s)'
<1>1. /\ canvas'.current = canvas.current /\ canvas'.database = canvas.database
      /\ UNCHANGED <<page, remembered, workspaces, listed, posts>>
      /\ drawings'[n] = [workspace |-> canvas.current, database |-> canvas.database]
  BY DrawAdds
<1>2. /\ \A d \in Databases : remembered[d].drawing # n
      /\ \A w \in DOMAIN workspaces : workspaces[w].drawing # n
      /\ \A w \in DOMAIN listed : listed[w].drawing # n
      /\ \A s \in CanvasSaves : posts[s] # ErdCanvas!None => posts[s].row.drawing # n
  BY DrawingsTyped DEF NumbersKnown
<1>3. \A w : HeldFor(n, w)' => w = canvas.current
  BY <1>1, <1>2 DEF HeldFor
<1>4. \A d \in Databases : HeldIn(n, d)' => d = canvas.database
  BY <1>1, <1>2 DEF HeldIn
<1>5. \A s \in CanvasSaves : ~Makes(n, s)'
  BY <1>1, <1>2 DEF Makes
<1> QED
  BY <1>1, <1>3, <1>4, <1>5

\* No workspace comes back, and no ghost forgets.
LEMMA NothingReturns ==
  ASSUME CanvasInv, ErdCanvas!Next
  PROVE  /\ \A w \in DOMAIN workspaces : w \in DOMAIN workspaces' /\ (workspaces'[w].there => workspaces[w].there)
         /\ astray \subseteq astray' /\ unheard \subseteq unheard'
         /\ drawings' = drawings \/ ErdCanvas!Draw
<1> USE DEF ErdCanvas!server, ErdCanvas!calls
<1>0. CanvasTyped /\ NumbersKnown
  BY DEF CanvasInv
<1> DEFINE Grows == astray \subseteq astray' /\ unheard \subseteq unheard'
<1>1. CASE ErdCanvas!Draw
  BY <1>0, <1>1, DrawAdds
<1>2. CASE ErdCanvas!Remember \/ ErdCanvas!Return \/ ErdCanvas!Renew \/ ErdCanvas!Read \/ ErdCanvas!ReadFails
  BY <1>2 DEF ErdCanvas!Remember, ErdCanvas!Return, ErdCanvas!Renew, ErdCanvas!Read, ErdCanvas!ReadFails
<1>3. CASE ErdCanvas!Leave
  BY <1>0, <1>3, UnmountLeaves DEF ErdCanvas!Leave
<1>4. CASE ErdCanvas!Lose
  BY <1>4 DEF ErdCanvas!Lose
<1>5. CASE ErdCanvas!Remove
  BY <1>0, <1>5, RemoveWrites
<1>6. CASE ErdCanvas!Deleted
  BY <1>0, <1>6, DeletedTells
<1>7. CASE \E d \in Databases : ErdCanvas!ChooseDatabase(d)
  BY <1>0, <1>7, ChoiceTurns, UnmountLeaves
<1>8. CASE \E w \in DOMAIN listed : ErdCanvas!Load(w)
  BY <1>0, <1>8, LoadTurns, UnmountLeaves
<1>9. CASE \E w \in DOMAIN listed : ErdCanvas!Delete(w)
  BY <1>9 DEF ErdCanvas!Delete
<1>10. ASSUME NEW s \in CanvasSaves, ErdCanvas!Save(s) PROVE UNCHANGED <<workspaces, drawings>> /\ Grows
  BY <1>0, <1>10, SaveSends
<1>11. ASSUME NEW s \in CanvasSaves, ErdCanvas!Store(s)
       PROVE  /\ \A w \in DOMAIN workspaces : w \in DOMAIN workspaces' /\ (workspaces'[w].there => workspaces[w].there)
              /\ UNCHANGED <<drawings, astray, unheard>>
  <2>1. /\ DOMAIN workspaces = 1 .. Len(workspaces) /\ Len(workspaces) \in Nat
        /\ DOMAIN workspaces' = 1 .. Len(workspaces') /\ Len(workspaces') \in Nat
        /\ Len(workspaces') >= Len(workspaces)
    BY <1>0, <1>11, RowsTyped, StoreWrites
  <2>2. \A w \in DOMAIN workspaces : w \in DOMAIN workspaces'
    BY <2>1
  <2>3. \A w \in DOMAIN workspaces : workspaces'[w].there => workspaces[w].there
    BY <1>0, <1>11, StoreWrites
  <2> QED
    BY <1>0, <1>11, <2>2, <2>3, StoreWrites
<1>12. ASSUME NEW s \in CanvasSaves, ErdCanvas!Saved(s) PROVE UNCHANGED <<workspaces, drawings>> /\ Grows
  BY <1>0, <1>12, SavedTells
<1> QED
  BY <1>1, <1>2, <1>3, <1>4, <1>5, <1>6, <1>7, <1>8, <1>9, <1>10, <1>11, <1>12 DEF ErdCanvas!Next

\* Where a drawing may get to: it was there, or it had no workspace and gets one or loses it.
LEMMA NewPlaces ==
  ASSUME CanvasInv, ErdCanvas!Next
  PROVE  /\ NoNewBase
         /\ \A n \in DOMAIN drawings, w \in Nat : n \notin astray' /\ HeldFor(n, w)' =>
              \/ HeldFor(n, w)
              \/ w \notin DOMAIN workspaces /\ HeldFor(n, 0)
              \/ HeldFor(n, 0) /\ \E s \in CanvasSaves : ErdCanvas!Saved(s) /\ w = posts[s].id
              \/ w = 0 /\ ErdCanvas!Deleted /\ removal.id # 0 /\ HeldFor(n, removal.id)
                 /\ ~ErdCanvas!There(removal.id)
<1>0. CanvasTyped /\ NumbersKnown /\ CallsMatch
  BY DEF CanvasInv
<1>a. DOMAIN workspaces = 1 .. Len(workspaces) /\ Len(workspaces) \in Nat
  BY <1>0, RowsTyped
<1>1. CASE NoNewBase /\ NoNewPlace
  BY <1>1 DEF NoNewPlace
<1>2. ASSUME NEW s \in CanvasSaves, ErdCanvas!Store(s)
      PROVE  /\ NoNewBase
             /\ \A n \in DOMAIN drawings, w \in Nat : n \notin astray' /\ HeldFor(n, w)' =>
                  HeldFor(n, w) \/ (w \notin DOMAIN workspaces /\ HeldFor(n, 0))
  BY <1>2, <1>a, StoreHolds
<1>3. ASSUME NEW s \in CanvasSaves, ErdCanvas!Saved(s)
      PROVE  /\ NoNewBase
             /\ \A n \in DOMAIN drawings, w \in Nat : n \notin astray' /\ HeldFor(n, w)' =>
                  HeldFor(n, w) \/ (HeldFor(n, 0) /\ w = posts[s].id)
  BY <1>3, SavedHolds
<1>4. CASE ErdCanvas!Deleted
  <2>1. removal # ErdCanvas!None /\ removal.st = "removed" /\ removal.id # 0 /\ ~ErdCanvas!There(removal.id)
    BY <1>0, <1>4, <1>a, DeletedTells, NoneIsNoCall DEF CallsMatch, NumbersKnown, ErdCanvas!There
  <2> QED
    BY <1>4, <2>1, DeletedHolds
<1> QED
  BY <1>1, <1>2, <1>3, <1>4, TurnsHold, OthersHold DEF ErdCanvas!Next

LEMMA HeldRightlyStep == CanvasInv /\ ErdCanvas!Next => HeldRightly'
<1> SUFFICES ASSUME CanvasInv, ErdCanvas!Next PROVE HeldRightly'
  OBVIOUS
<1>0. CanvasTyped /\ NumbersKnown /\ CallsMatch /\ HeldRightly
  BY DEF CanvasInv
<1>1. /\ DOMAIN workspaces = 1 .. Len(workspaces) /\ Len(workspaces) \in Nat
      /\ \A n \in DOMAIN drawings : drawings[n].workspace \in Nat /\ drawings[n].workspace <= Len(workspaces)
  BY <1>0, RowsTyped, DrawingsTyped DEF NumbersKnown, Origin
<1>2. \A n \in DOMAIN drawings : ErdCanvas!There(drawings[n].workspace)' /\ drawings'[n] = drawings[n]
        => ErdCanvas!There(drawings[n].workspace) /\ drawings[n].workspace \in DOMAIN workspaces
  <2> SUFFICES ASSUME NEW n \in DOMAIN drawings, ErdCanvas!There(drawings[n].workspace)', drawings'[n] = drawings[n]
               PROVE  ErdCanvas!There(drawings[n].workspace) /\ drawings[n].workspace \in DOMAIN workspaces
    OBVIOUS
  <2>1. drawings[n].workspace # 0 /\ workspaces'[drawings[n].workspace].there
    BY DEF ErdCanvas!There
  <2>2. drawings[n].workspace \in DOMAIN workspaces
    BY <1>1, <2>1
  <2> QED
    BY <2>1, <2>2, NothingReturns DEF ErdCanvas!There
<1>3. ASSUME NEW n \in DOMAIN drawings, n \notin astray', drawings'[n] = drawings[n]
      PROVE  /\ \A w \in Nat : HeldFor(n, w)' /\ ErdCanvas!There(drawings[n].workspace)' => drawings'[n].workspace = w
             /\ \A d \in Databases : HeldIn(n, d)' => drawings'[n].database = d
  <2>1. n \notin astray
    BY <1>3, NothingReturns
  <2>2. ASSUME NEW w \in Nat, HeldFor(n, w)', ErdCanvas!There(drawings[n].workspace)'
        PROVE  drawings[n].workspace = w
    <3>1. ErdCanvas!There(drawings[n].workspace) /\ drawings[n].workspace \in DOMAIN workspaces
          /\ drawings[n].workspace # 0
      BY <1>2, <1>3, <2>2 DEF ErdCanvas!There
    <3>2. ~HeldFor(n, 0)
      BY <1>0, <2>1, <3>1 DEF HeldRightly
    <3>3. \A v \in Nat : HeldFor(n, v) => drawings[n].workspace = v
      BY <1>0, <2>1, <3>1 DEF HeldRightly
    <3>4. ErdCanvas!Deleted => removal.id \in Nat
      BY <1>0, DeletedTells DEF Deletion
    <3> QED
      BY <1>3, <2>2, <3>1, <3>2, <3>3, <3>4, NewPlaces
  <2>3. ASSUME NEW d \in Databases, HeldIn(n, d)' PROVE drawings[n].database = d
    BY <1>0, <1>3, <2>1, <2>3, NewPlaces DEF NoNewBase, HeldRightly
  <2> QED
    BY <1>3, <2>2, <2>3
<1>4. CASE drawings' = drawings
  BY <1>3, <1>4 DEF HeldRightly
<1>5. CASE ErdCanvas!Draw
  <2>1. /\ DOMAIN drawings' = DOMAIN drawings \cup {Len(drawings) + 1}
        /\ \A n \in DOMAIN drawings : drawings'[n] = drawings[n]
    BY <1>0, <1>5, DrawAdds
  <2>2. PICK m : m = Len(drawings) + 1
    OBVIOUS
  <2>3. /\ drawings'[m] = [workspace |-> canvas.current, database |-> canvas.database]
        /\ \A w : HeldFor(m, w)' => w = canvas.current
        /\ \A d \in Databases : HeldIn(m, d)' => d = canvas.database
    BY <1>0, <1>5, <2>2, FreshIsHeld
  <2> QED
    BY <1>3, <2>1, <2>2, <2>3 DEF HeldRightly
<1> QED
  BY <1>4, <1>5, NothingReturns

-----------------------------------------------------------------------------
(* One place *)

Quiet ==
  /\ drawings' = drawings /\ DOMAIN workspaces' = DOMAIN workspaces
  /\ \A n \in DOMAIN drawings, w \in DOMAIN workspaces : n \notin astray' /\ HeldFor(n, w)' => HeldFor(n, w)
  /\ \A n \in DOMAIN drawings, s \in CanvasSaves :
       Makes(n, s)' => Makes(n, s) /\ (posts'[s].st = "sent" => posts[s].st = "sent")

\* A quiet step gives no drawing a place.
LEMMA QuietPlaces ==
  ASSUME CanvasInv, ErdCanvas!Next, Quiet
  PROVE  /\ OnePlace'
         /\ \A n \in DOMAIN drawings : Sure(n)' => Sure(n) /\ (Placed(n)' => Placed(n))
<1>1. ASSUME NEW n \in DOMAIN drawings, Sure(n)' PROVE Sure(n) /\ n \notin astray'
  BY <1>1, NothingReturns DEF Sure
<1>2. ASSUME NEW n \in DOMAIN drawings, n \notin astray', NEW w \in DOMAIN workspaces, Lies(n, w)' PROVE Lies(n, w)
  BY <1>2, NothingReturns DEF Quiet, Lies
<1>3. ASSUME NEW n \in DOMAIN drawings, n \notin astray' PROVE Lying(n)' => Lying(n)
  BY <1>2, <1>3 DEF Lying, Quiet
<1>4. ASSUME NEW n \in DOMAIN drawings PROVE Making(n)' => Making(n)
  BY <1>4 DEF Making, Quiet
<1>5. OnePlace
  BY DEF CanvasInv
<1>6. ASSUME NEW n \in DOMAIN drawings, Sure(n)'
      PROVE  /\ \A v, w \in DOMAIN workspaces' : Lies(n, v)' /\ Lies(n, w)' => v = w
             /\ \A s, q \in CanvasSaves : Makes(n, s)' /\ Makes(n, q)' => s = q
             /\ ~(Making(n)' /\ Lying(n)')
  BY <1>1, <1>2, <1>3, <1>4, <1>5, <1>6 DEF OnePlace, Quiet
<1>7. OnePlace'
  BY <1>6 DEF OnePlace, Quiet
<1> QED
  BY <1>1, <1>3, <1>4, <1>7 DEF Placed

LEMMA MakingStays ==
  ASSUME CanvasTyped, NEW n, NEW s \in CanvasSaves,
         posts'[s] = ErdCanvas!None <=> posts[s] = ErdCanvas!None,
         posts[s] # ErdCanvas!None =>
           posts'[s].st = posts[s].st /\ posts'[s].target = posts[s].target /\ posts'[s].row = posts[s].row
  PROVE  /\ Makes(n, s)' <=> Makes(n, s)
         /\ Makes(n, s) => posts'[s].st = posts[s].st
BY DEF Makes

LEMMA QuietTurns ==
  ASSUME CanvasInv,
         \/ ErdCanvas!Leave \/ ErdCanvas!Return \/ ErdCanvas!Renew
         \/ \E d \in Databases : ErdCanvas!ChooseDatabase(d)
         \/ \E w \in DOMAIN listed : ErdCanvas!Load(w)
  PROVE  Quiet /\ \A n \in DOMAIN drawings, s \in CanvasSaves : Makes(n, s) => Makes(n, s)'
<1>0. CanvasTyped /\ NumbersKnown /\ NoNewPlace
  BY TurnsHold DEF CanvasInv
<1>1. DOMAIN workspaces \subseteq Nat
  BY <1>0, RowsTyped
<1>2. /\ UNCHANGED <<workspaces, drawings>>
      /\ \A s \in CanvasSaves : posts'[s] = posts[s] \/ ErdCanvas!Unmount
  BY <1>0, ChoiceTurns, LoadTurns
     DEF ErdCanvas!Leave, ErdCanvas!Return, ErdCanvas!Renew, ErdCanvas!server, ErdCanvas!calls
<1>3. ASSUME NEW n \in DOMAIN drawings, NEW s \in CanvasSaves
      PROVE  (Makes(n, s)' <=> Makes(n, s)) /\ (Makes(n, s) => posts'[s].st = posts[s].st)
  <2>1. /\ posts'[s] = ErdCanvas!None <=> posts[s] = ErdCanvas!None
        /\ posts[s] # ErdCanvas!None =>
             posts'[s].st = posts[s].st /\ posts'[s].target = posts[s].target /\ posts'[s].row = posts[s].row
    BY <1>0, <1>2, CallsLeave
  <2> QED
    BY <1>0, <2>1, MakingStays
<1> QED
  BY <1>0, <1>1, <1>2, <1>3 DEF Quiet, NoNewPlace

LEMMA QuietOthers ==
  ASSUME CanvasInv,
         \/ ErdCanvas!Remember \/ ErdCanvas!Read \/ ErdCanvas!ReadFails \/ ErdCanvas!Remove
         \/ \E w \in DOMAIN listed : ErdCanvas!Delete(w)
  PROVE  Quiet /\ UNCHANGED posts
<1>0. CanvasTyped /\ NumbersKnown /\ NoNewPlace
  BY OthersHold DEF CanvasInv
<1>1. DOMAIN workspaces \subseteq Nat
  BY <1>0, RowsTyped
<1>2. DOMAIN workspaces' = DOMAIN workspaces /\ UNCHANGED <<posts, drawings>>
  BY <1>0, RemoveWrites
     DEF ErdCanvas!Remember, ErdCanvas!Read, ErdCanvas!ReadFails, ErdCanvas!Delete, ErdCanvas!server, ErdCanvas!calls
<1>3. ASSUME NEW n \in DOMAIN drawings, NEW s \in CanvasSaves
      PROVE  (Makes(n, s)' <=> Makes(n, s)) /\ (Makes(n, s) => posts'[s].st = posts[s].st)
  BY <1>2 DEF Makes
<1> QED
  BY <1>0, <1>1, <1>2, <1>3 DEF Quiet, NoNewPlace

LEMMA QuietLose ==
  ASSUME CanvasInv, ErdCanvas!Lose
  PROVE  Quiet
<1>0. CanvasTyped /\ NumbersKnown /\ NoNewPlace
  BY OthersHold DEF CanvasInv
<1>1. DOMAIN workspaces \subseteq Nat
  BY <1>0, RowsTyped
<1>2. /\ UNCHANGED <<workspaces, drawings>>
      /\ \A s \in CanvasSaves : posts'[s] # ErdCanvas!None => posts'[s] = posts[s]
  BY <1>0 DEF CanvasTyped, ErdCanvas!Lose, ErdCanvas!server
<1>3. ASSUME NEW n \in DOMAIN drawings, NEW s \in CanvasSaves, Makes(n, s)'
      PROVE  Makes(n, s) /\ posts'[s].st = posts[s].st
  BY <1>2, <1>3 DEF Makes
<1> QED
  BY <1>0, <1>1, <1>2, <1>3 DEF Quiet, NoNewPlace

LEMMA QuietDeleted ==
  ASSUME CanvasInv, ErdCanvas!Deleted
  PROVE  Quiet /\ UNCHANGED posts
<1>0. CanvasTyped /\ NumbersKnown
  BY DEF CanvasInv
<1>1. DOMAIN workspaces \subseteq Nat /\ 0 \notin DOMAIN workspaces
  BY <1>0, RowsTyped
<1>2. UNCHANGED <<workspaces, posts, drawings>>
  BY <1>0, DeletedTells
<1>3. ASSUME NEW n \in DOMAIN drawings, NEW s \in CanvasSaves
      PROVE  (Makes(n, s)' <=> Makes(n, s)) /\ (Makes(n, s) => posts'[s].st = posts[s].st)
  BY <1>2 DEF Makes
<1>4. \A n \in DOMAIN drawings, w \in DOMAIN workspaces : n \notin astray' /\ HeldFor(n, w)' => HeldFor(n, w)
  BY <1>1, DeletedHolds
<1> QED
  BY <1>2, <1>3, <1>4 DEF Quiet

-----------------------------------------------------------------------------
(* Who waits *)

Waits == CanvasWaits /\ MemoryWaits /\ ForgottenAlone

\* A quiet step that leaves the canvas alone and ends no save of a drawing with a place.
LEMMA CanvasStays ==
  ASSUME CanvasInv, ErdCanvas!Next, Quiet, UNCHANGED <<page, canvas, remembered>>,
         removal' \in {removal, ErdCanvas!None},
         \A s \in CanvasSaves : posts'[s] # ErdCanvas!None =>
           /\ posts[s] # ErdCanvas!None /\ posts'[s].here = posts[s].here
           /\ posts'[s].target = posts[s].target /\ posts'[s].row = posts[s].row,
         \A n \in DOMAIN drawings, s \in CanvasSaves : Sure(n)' /\ Placed(n)' /\ Makes(n, s) => Makes(n, s)'
  PROVE  Waits'
<1>0. CanvasWaits /\ MemoryWaits /\ ForgottenAlone /\ drawings' = drawings /\ DOMAIN workspaces' = DOMAIN workspaces
  BY DEF CanvasInv, Quiet
<1>1. \A n \in DOMAIN drawings : Sure(n)' => Sure(n) /\ n \notin astray' /\ (Placed(n)' => Placed(n))
  BY QuietPlaces DEF Sure
<1>2. CanvasWaits'
  <2> SUFFICES ASSUME NEW n \in DOMAIN drawings, canvas.shown, canvas.drawing = n, canvas.current = 0,
                      Sure(n)', Placed(n)'
               PROVE  /\ \E s \in CanvasSaves : Makes(n, s)'
                      /\ \A s \in CanvasSaves : posts'[s] # ErdCanvas!None /\ posts'[s].here /\ posts'[s].target = 0 =>
                           posts'[s].row.drawing = n
    BY <1>0 DEF CanvasWaits
  <2> QED
    BY <1>0, <1>1 DEF CanvasWaits
<1>3. MemoryWaits'
  <2> SUFFICES ASSUME NEW n \in DOMAIN drawings, NEW d \in Databases, remembered[d].drawing = n,
                      remembered[d].current = 0, Sure(n)', Placed(n)'
               PROVE  \/ canvas.shown /\ d = ErdCanvas!Key /\ canvas.current # 0
                      \/ \E s \in CanvasSaves : Makes(n, s)'
    BY <1>0 DEF MemoryWaits, ErdCanvas!Key
  <2> QED
    BY <1>0, <1>1 DEF MemoryWaits
<1>4. ForgottenAlone'
  BY <1>0, <1>1 DEF ForgottenAlone, Quiet
<1> QED
  BY <1>2, <1>3, <1>4 DEF Waits

\* Remembering, reading and asking for a deletion.
LEMMA OthersWait ==
  ASSUME CanvasInv, ErdCanvas!Next,
         \/ ErdCanvas!Remember \/ ErdCanvas!Read \/ ErdCanvas!ReadFails \/ ErdCanvas!Remove
         \/ \E w \in DOMAIN listed : ErdCanvas!Delete(w)
  PROVE  OnePlace' /\ Waits'
<1>0. CanvasTyped /\ NumbersKnown /\ CanvasWaits /\ MemoryWaits /\ ForgottenAlone
  BY DEF CanvasInv
<1>1. /\ Quiet /\ drawings' = drawings /\ UNCHANGED posts /\ DOMAIN workspaces' = DOMAIN workspaces
      /\ OnePlace' /\ \A n \in DOMAIN drawings : Sure(n)' => Sure(n) /\ n \notin astray' /\ (Placed(n)' => Placed(n))
  BY QuietOthers, QuietPlaces DEF Quiet, Sure
<1>a. \A n \in DOMAIN drawings, s \in CanvasSaves : Makes(n, s)' <=> Makes(n, s)
  BY <1>1 DEF Makes
<1>2. CASE ErdCanvas!Read \/ ErdCanvas!ReadFails
  <2>1. UNCHANGED <<page, canvas, remembered, removal>>
    BY <1>2 DEF ErdCanvas!Read, ErdCanvas!ReadFails, ErdCanvas!calls
  <2> QED
    BY <1>1, <1>a, <2>1, CanvasStays
<1>3. CASE ErdCanvas!Remember
  <2>1. /\ canvas.shown /\ UNCHANGED <<page, canvas, removal>>
        /\ \A d \in Databases : remembered'[d] =
             IF d = ErdCanvas!Key THEN [current |-> canvas.current, drawing |-> canvas.drawing] ELSE remembered[d]
    BY <1>0, <1>3 DEF CanvasTyped, ErdCanvas!Remember, ErdCanvas!Remembered, ErdCanvas!InUse, ErdCanvas!calls
  <2>2. CanvasWaits'
    BY <1>0, <1>1, <1>a, <2>1 DEF CanvasWaits
  <2>3. MemoryWaits'
    <3> SUFFICES ASSUME NEW n \in DOMAIN drawings, NEW d \in Databases, remembered'[d].drawing = n,
                        remembered'[d].current = 0, Sure(n)', Placed(n)'
                 PROVE  \/ canvas.shown /\ d = ErdCanvas!Key /\ canvas.current # 0
                        \/ \E s \in CanvasSaves : Makes(n, s)'
      BY <1>1, <2>1 DEF MemoryWaits, ErdCanvas!Key
    <3>1. CASE d = ErdCanvas!Key
      BY <1>0, <1>1, <1>a, <2>1, <3>1 DEF CanvasWaits
    <3>2. CASE d # ErdCanvas!Key
      BY <1>0, <1>1, <1>a, <2>1, <3>2 DEF MemoryWaits
    <3> QED
      BY <3>1, <3>2
  <2>4. ForgottenAlone'
    BY <1>0, <1>1, <2>1 DEF ForgottenAlone, Quiet
  <2> QED
    BY <1>1, <2>2, <2>3, <2>4 DEF Waits
<1>4. CASE \E w \in DOMAIN listed : ErdCanvas!Delete(w)
  <2>1. UNCHANGED <<page, canvas, remembered>> /\ removal'.st # "removed"
    BY <1>4 DEF ErdCanvas!Delete
  <2>2. CanvasWaits'
    BY <1>0, <1>1, <1>a, <2>1 DEF CanvasWaits
  <2>3. MemoryWaits'
    BY <1>0, <1>1, <1>a, <2>1 DEF MemoryWaits, ErdCanvas!Key
  <2>4. ForgottenAlone'
    BY <2>1 DEF ForgottenAlone
  <2> QED
    BY <1>1, <2>2, <2>3, <2>4 DEF Waits
<1>5. CASE ErdCanvas!Remove
  <2>1. /\ UNCHANGED <<page, canvas, remembered>> /\ removal.id \in DOMAIN workspaces
        /\ ~workspaces'[removal.id].there
        /\ removal' # ErdCanvas!None => workspaces[removal.id].there /\ removal'.id = removal.id
    BY <1>0, <1>5, RemoveWrites
  <2>2. CanvasWaits'
    BY <1>0, <1>1, <1>a, <2>1 DEF CanvasWaits
  <2>3. MemoryWaits'
    BY <1>0, <1>1, <1>a, <2>1 DEF MemoryWaits, ErdCanvas!Key
  <2>4. ForgottenAlone'
    <3> SUFFICES ASSUME NEW n \in DOMAIN drawings, NEW w \in DOMAIN workspaces, removal' # ErdCanvas!None,
                        w = removal.id, Sure(n)', HeldFor(n, w)'
                 PROVE  ~Placed(n)'
      BY <1>1, <2>1 DEF ForgottenAlone
    <3>1. Sure(n) /\ Lies(n, w)
      BY <1>1, <2>1 DEF Quiet, Lies
    <3>2. ~Making(n) /\ \A v \in DOMAIN workspaces : Lies(n, v) => v = w
      BY <3>1 DEF CanvasInv, OnePlace, Lying
    <3>3. ~Making(n)'
      BY <1>1, <3>2 DEF Making, Quiet
    <3>4. ASSUME NEW v \in DOMAIN workspaces, Lies(n, v)' PROVE FALSE
      <4>1. Lies(n, v)
        BY <1>1, <3>4, NothingReturns DEF Quiet, Lies
      <4>2. v = removal.id
        BY <3>2, <4>1
      <4> QED
        BY <2>1, <3>4, <4>2 DEF Lies
    <3> QED
      BY <1>1, <3>3, <3>4 DEF Placed, Lying
  <2> QED
    BY <1>1, <2>2, <2>3, <2>4 DEF Waits
<1> QED
  BY <1>2, <1>3, <1>4, <1>5

\* A lost call that was made for a drawing was its only place, or its answer was lost.
LEMMA LoseWaits ==
  ASSUME CanvasInv, ErdCanvas!Next, ErdCanvas!Lose
  PROVE  OnePlace' /\ Waits'
<1>0. CanvasTyped /\ OnePlace
  BY DEF CanvasInv
<1>1. /\ Quiet /\ drawings' = drawings /\ OnePlace'
      /\ \A n \in DOMAIN drawings : Sure(n)' => Sure(n) /\ (Placed(n)' => Placed(n)) /\ n \notin unheard' /\ n \notin astray'
  BY QuietLose, QuietPlaces DEF Quiet, Sure
<1>2. /\ UNCHANGED <<page, canvas, remembered, workspaces>> /\ removal' \in {removal, ErdCanvas!None}
      /\ \A s \in CanvasSaves : posts'[s] # ErdCanvas!None => posts'[s] = posts[s]
      /\ \A s \in CanvasSaves : posts[s] # ErdCanvas!None /\ posts'[s] # posts[s] /\ posts[s].st = "stored" =>
           posts[s].row.drawing \in unheard'
  BY <1>0 DEF CanvasTyped, ErdCanvas!Lose, ErdCanvas!server
<1>3. ASSUME NEW n \in DOMAIN drawings, NEW s \in CanvasSaves, Sure(n)', Placed(n)', Makes(n, s), ~Makes(n, s)'
      PROVE  FALSE
  <2>1. posts[s] # ErdCanvas!None /\ posts'[s] = ErdCanvas!None /\ posts[s].row.drawing = n
    BY <1>2, <1>3 DEF Makes
  <2>2. posts[s].st = "sent"
    BY <1>0, <1>1, <1>2, <1>3, <2>1 DEF CanvasTyped, Post
  <2>3. Making(n) /\ Sure(n)
    BY <1>1, <1>3, <2>2 DEF Making
  <2>4. ~Lying(n) /\ \A q \in CanvasSaves : Makes(n, q) => q = s
    BY <1>0, <1>3, <2>3 DEF OnePlace
  <2>5. ~Making(n)'
    BY <1>1, <1>3, <2>4 DEF Making, Quiet
  <2>6. ~Lying(n)'
    BY <1>1, <1>2, <1>3, <2>4 DEF Lying, Lies, Quiet
  <2> QED
    BY <1>3, <2>5, <2>6 DEF Placed
<1> QED
  BY <1>1, <1>2, <1>3, CanvasStays

\* A canvas that was left hears nothing, and what it had not remembered is known.
LEMMA LeavingWaits ==
  ASSUME CanvasInv, ErdCanvas!Next, Quiet, canvas.shown, ErdCanvas!Unmount, UNCHANGED remembered,
         NEW n \in DOMAIN drawings, NEW d \in Databases,
         remembered[d].drawing = n, remembered[d].current = 0, Sure(n)', Placed(n)'
  PROVE  \E s \in CanvasSaves : Makes(n, s) /\ Makes(n, s)'
<1>0. CanvasTyped /\ MemoryWaits
  BY DEF CanvasInv
<1>1. Sure(n) /\ Placed(n) /\ n \notin unheard'
  BY QuietPlaces DEF Sure
<1>2. ~(d = ErdCanvas!Key /\ canvas.current # 0)
  BY <1>0, <1>1, UnmountLeaves
<1>3. PICK s \in CanvasSaves : Makes(n, s)
  BY <1>0, <1>1, <1>2 DEF MemoryWaits
<1>4. Makes(n, s)'
  BY <1>0, <1>3, UnmountLeaves, MakingStays
<1> QED
  BY <1>3, <1>4

LEMMA TurnsWait ==
  ASSUME CanvasInv, ErdCanvas!Next,
         \/ ErdCanvas!Leave \/ ErdCanvas!Return \/ ErdCanvas!Renew
         \/ \E d \in Databases : ErdCanvas!ChooseDatabase(d)
         \/ \E w \in DOMAIN listed : ErdCanvas!Load(w)
  PROVE  OnePlace' /\ Waits'
<1>0. CanvasTyped /\ NumbersKnown /\ CallsMatch /\ CanvasWaits /\ MemoryWaits /\ ForgottenAlone
  BY DEF CanvasInv
<1>1. /\ Quiet /\ drawings' = drawings /\ DOMAIN workspaces' = DOMAIN workspaces
      /\ OnePlace' /\ \A n \in DOMAIN drawings : Sure(n)' => Sure(n) /\ n \notin astray' /\ (Placed(n)' => Placed(n))
  BY QuietTurns, QuietPlaces DEF Quiet, Sure
<1>2. \A n \in DOMAIN drawings, s \in CanvasSaves : Makes(n, s) => Makes(n, s)'
  BY QuietTurns
\* The canvas goes, and another may come from what is remembered.
<1>3. ASSUME canvas.shown, ErdCanvas!Unmount, UNCHANGED <<remembered, page>>,
             canvas'.shown => canvas'.database \in Databases /\ canvas' = ErdCanvas!Mounted(canvas'.database)
      PROVE  Waits'
  <2>1. /\ \A s \in CanvasSaves : posts'[s] # ErdCanvas!None => ~posts'[s].here
        /\ removal' # ErdCanvas!None => ~removal'.here
    BY <1>0, <1>3, UnmountLeaves
  <2>2. CanvasWaits'
    <3> SUFFICES ASSUME NEW n \in DOMAIN drawings, canvas'.shown, canvas'.drawing = n, canvas'.current = 0,
                        Sure(n)', Placed(n)'
                 PROVE  \E s \in CanvasSaves : Makes(n, s)'
      BY <1>1, <2>1 DEF CanvasWaits
    <3>1. remembered[canvas'.database].drawing = n /\ remembered[canvas'.database].current = 0
      BY <1>0, <1>3, MemoryHolds
    <3> QED
      BY <1>1, <1>3, <3>1, LeavingWaits
  <2>3. MemoryWaits'
    <3> SUFFICES ASSUME NEW n \in DOMAIN drawings, NEW d \in Databases, remembered[d].drawing = n,
                        remembered[d].current = 0, Sure(n)', Placed(n)'
                 PROVE  \E s \in CanvasSaves : Makes(n, s)'
      BY <1>1, <1>3 DEF MemoryWaits
    <3> QED
      BY <1>1, <1>3, LeavingWaits
  <2>4. ForgottenAlone'
    BY <2>1 DEF ForgottenAlone
  <2> QED
    BY <2>2, <2>3, <2>4 DEF Waits
\* The canvas opens a listed workspace.
<1>4. ASSUME canvas.shown, canvas'.shown, canvas'.current # 0, UNCHANGED <<posts, removal, remembered, page>>,
             page => canvas'.database = canvas.database
      PROVE  Waits'
  <2>1. CanvasWaits'
    BY <1>4 DEF CanvasWaits
  <2>2. ErdCanvas!Key' = ErdCanvas!Key
    BY <1>4 DEF ErdCanvas!Key
  <2>3. MemoryWaits'
    BY <1>0, <1>1, <1>2, <1>4, <2>2 DEF MemoryWaits
  <2>4. ForgottenAlone'
    BY <1>0, <1>1, <1>4 DEF ForgottenAlone, Quiet
  <2> QED
    BY <2>1, <2>3, <2>4 DEF Waits
<1>5. CASE ErdCanvas!Leave
  <2>1. ~canvas'.shown /\ canvas.shown /\ ErdCanvas!Unmount /\ UNCHANGED <<remembered, page>>
    BY <1>0, <1>5 DEF CanvasTyped, ErdCanvas!Leave
  <2> QED
    BY <1>1, <1>3, <2>1
<1>6. CASE ErdCanvas!Return
  <2>1. /\ ~canvas.shown /\ canvas' = ErdCanvas!Mounted(ErdCanvas!Key) /\ ErdCanvas!Key \in Databases
        /\ UNCHANGED <<page, remembered, posts, removal>>
    BY <1>0, <1>6, KeyTyped DEF ErdCanvas!Return, ErdCanvas!calls
  <2>2. /\ \A s \in CanvasSaves : posts[s] # ErdCanvas!None => ~posts[s].here
        /\ removal # ErdCanvas!None => ~removal.here
    BY <1>0, <2>1 DEF CallsMatch
  <2>3. \A n \in DOMAIN drawings, d \in Databases :
          remembered[d].drawing = n /\ remembered[d].current = 0 /\ Sure(n)' /\ Placed(n)' =>
            \E s \in CanvasSaves : Makes(n, s)'
    BY <1>0, <1>1, <1>2, <2>1 DEF MemoryWaits
  <2>4. CanvasWaits'
    <3> SUFFICES ASSUME NEW n \in DOMAIN drawings, canvas'.drawing = n, canvas'.current = 0, Sure(n)', Placed(n)'
                 PROVE  \E s \in CanvasSaves : Makes(n, s)'
      BY <1>1, <2>1, <2>2 DEF CanvasWaits
    <3>1. remembered[ErdCanvas!Key].drawing = n /\ remembered[ErdCanvas!Key].current = 0
      BY <1>0, <2>1, MemoryHolds
    <3> QED
      BY <2>1, <2>3, <3>1
  <2>5. MemoryWaits'
    BY <1>1, <2>1, <2>3 DEF MemoryWaits
  <2>6. ForgottenAlone'
    BY <2>1, <2>2 DEF ForgottenAlone
  <2> QED
    BY <1>1, <2>4, <2>5, <2>6 DEF Waits
<1>7. CASE ErdCanvas!Renew
  <2>1. /\ canvas.shown /\ canvas'.shown /\ canvas'.current = canvas.current /\ canvas'.drawing = canvas.drawing
        /\ ~page /\ UNCHANGED <<page, remembered, posts, removal>>
    BY <1>0, <1>7 DEF CanvasTyped, ErdCanvas!Renew, ErdCanvas!calls
  <2>2. CanvasWaits'
    BY <1>0, <1>1, <1>2, <2>1 DEF CanvasWaits
  <2>3. MemoryWaits'
    BY <1>0, <1>1, <1>2, <2>1 DEF MemoryWaits, ErdCanvas!Key
  <2>4. ForgottenAlone'
    BY <1>0, <1>1, <2>1 DEF ForgottenAlone, Quiet
  <2> QED
    BY <1>1, <2>2, <2>3, <2>4 DEF Waits
<1>8. ASSUME NEW d \in Databases, ErdCanvas!ChooseDatabase(d) PROVE Waits'
  <2>1. CASE canvas' = ErdCanvas!Mounted(d) /\ ErdCanvas!Unmount
    <3>1. canvas.shown /\ UNCHANGED <<remembered, page>> /\ canvas'.database = d
      BY <1>0, <1>8, <2>1, ChoiceTurns, MemoryHolds
    <3> QED
      BY <1>3, <2>1, <3>1
  <2>2. CASE /\ ~page /\ UNCHANGED <<posts, removal>> /\ canvas'.shown = canvas.shown
             /\ canvas'.current = canvas.current /\ canvas'.drawing = 0
    <3>1. canvas.shown /\ UNCHANGED <<remembered, page>> /\ 0 \notin DOMAIN drawings
      BY <1>0, <1>8, ChoiceTurns, DrawingsTyped
    <3>2. CanvasWaits'
      BY <1>1, <2>2, <3>1 DEF CanvasWaits
    <3>3. MemoryWaits'
      BY <1>0, <1>1, <1>2, <2>2, <3>1 DEF MemoryWaits, ErdCanvas!Key
    <3>4. ForgottenAlone'
      BY <1>0, <1>1, <2>2, <3>1 DEF ForgottenAlone, Quiet
    <3> QED
      BY <3>2, <3>3, <3>4 DEF Waits
  <2> QED
    BY <1>0, <1>8, <2>1, <2>2, ChoiceTurns
<1>9. ASSUME NEW w \in DOMAIN listed, ErdCanvas!Load(w) PROVE Waits'
  <2>1. canvas.shown /\ UNCHANGED <<remembered, page>> /\ w # 0 /\ listed[w].database \in Databases
    BY <1>0, <1>9, LoadTurns, RowsTyped DEF StoredRow
  <2>2. CASE canvas' = ErdCanvas!Mounted(listed[w].database) /\ ErdCanvas!Unmount
    <3>1. canvas'.database = listed[w].database
      BY <1>0, <2>1, <2>2, MemoryHolds
    <3> QED
      BY <1>3, <2>1, <2>2, <3>1
  <2>3. CASE /\ page => listed[w].database = canvas.database
             /\ UNCHANGED <<posts, removal>>
             /\ canvas' = [shown |-> canvas.shown, database |-> listed[w].database, current |-> w,
                           drawing |-> listed[w].drawing]
    <3>1. canvas'.shown /\ canvas'.current # 0 /\ canvas'.database = listed[w].database
      BY <2>1, <2>3
    <3> QED
      BY <1>4, <2>1, <2>3, <3>1
  <2> QED
    BY <1>0, <1>9, <2>2, <2>3, LoadTurns
<1> QED
  BY <1>1, <1>5, <1>6, <1>7, <1>8, <1>9

\* A deletion that is heard: what the canvas shows has no place, and what it had not remembered is known.
LEMMA DeletedWaits ==
  ASSUME CanvasInv, ErdCanvas!Next, ErdCanvas!Deleted
  PROVE  OnePlace' /\ Waits'
<1>0. CanvasTyped /\ NumbersKnown /\ CanvasWaits /\ MemoryWaits /\ ForgottenAlone
  BY DEF CanvasInv
<1>1. /\ Quiet /\ drawings' = drawings /\ UNCHANGED posts
      /\ OnePlace'
      /\ \A n \in DOMAIN drawings :
           Sure(n)' => Sure(n) /\ n \notin astray' /\ n \notin unheard' /\ (Placed(n)' => Placed(n))
  BY QuietDeleted, QuietPlaces DEF Quiet, Sure
<1>2. /\ removal \in Deletion /\ removal # ErdCanvas!None /\ removal.id \in DOMAIN workspaces
      /\ removal.st = "removed" /\ removal' = ErdCanvas!None
      /\ UNCHANGED <<page, remembered>> /\ canvas'.shown = canvas.shown
      /\ canvas'.drawing = canvas.drawing /\ canvas'.database = canvas.database
  BY <1>0, DeletedTells, NoneIsNoCall DEF NumbersKnown
<1>3. ForgottenAlone'
  BY <1>2 DEF ForgottenAlone
<1>a. \A n \in DOMAIN drawings, s \in CanvasSaves : Makes(n, s)' <=> Makes(n, s)
  BY <1>1 DEF Makes
<1>4. CASE removal.open /\ removal.here
  <2>1. /\ canvas'.current = 0
        /\ canvas.current # removal.id => canvas.drawing \in astray'
        /\ remembered[ErdCanvas!Key].current # canvas.current => remembered[ErdCanvas!Key].drawing \in unheard'
    BY <1>0, <1>4, DeletedTells DEF ErdCanvas!Unlearned
  <2>2. CanvasWaits'
    <3> SUFFICES ASSUME NEW n \in DOMAIN drawings, canvas.shown, canvas.drawing = n, Sure(n)', Placed(n)'
                 PROVE  FALSE
      BY <1>1, <1>2 DEF CanvasWaits
    <3>1. canvas.current = removal.id /\ HeldFor(n, removal.id)
      BY <1>1, <2>1 DEF HeldFor
    <3> QED
      BY <1>0, <1>1, <1>2, <1>4, <3>1 DEF ForgottenAlone
  <2>3. MemoryWaits'
    <3> SUFFICES ASSUME NEW n \in DOMAIN drawings, NEW d \in Databases, remembered[d].drawing = n,
                        remembered[d].current = 0, Sure(n)', Placed(n)'
                 PROVE  \E s \in CanvasSaves : Makes(n, s)'
      BY <1>1, <1>2 DEF MemoryWaits
    <3>1. ~(d = ErdCanvas!Key /\ canvas.current # 0)
      BY <1>1, <2>1
    <3> QED
      BY <1>0, <1>1, <1>a, <3>1 DEF MemoryWaits
  <2> QED
    BY <1>1, <1>3, <2>2, <2>3 DEF Waits
<1>5. CASE ~(removal.open /\ removal.here)
  <2>1. UNCHANGED <<page, canvas, remembered>>
    BY <1>0, <1>2, <1>5, DeletedTells
  <2> QED
    BY <1>1, <1>2, <1>a, <2>1, CanvasStays
<1> QED
  BY <1>4, <1>5

\* A drawing that is open is remembered by nobody but the canvas that has it open.
LEMMA RememberedHere ==
  ASSUME CanvasInv, NEW n \in DOMAIN drawings, n \notin astray, NEW d \in Databases,
         remembered[d].drawing = n, page => HeldIn(n, canvas.database)
  PROVE  d = ErdCanvas!Key
<1>0. CanvasTyped /\ CallsMatch /\ HeldRightly
  BY DEF CanvasInv
<1>1. n # 0
  BY <1>0, DrawingsTyped
<1>2. CASE ~page
  BY <1>0, <1>1, <1>2 DEF CallsMatch, ErdCanvas!Key
<1>3. CASE page
  <2>1. HeldIn(n, d) /\ canvas.database \in Databases
    BY <1>0, <1>3 DEF HeldIn, CanvasTyped
  <2>2. drawings[n].database = d /\ drawings[n].database = canvas.database
    BY <1>0, <1>3, <2>1 DEF HeldRightly
  <2> QED
    BY <1>3, <2>2 DEF ErdCanvas!Key
<1> QED
  BY <1>2, <1>3

\* Nothing is held for a workspace that was not stored.
LEMMA PlacesKnown ==
  ASSUME CanvasTyped, NumbersKnown, NEW n, NEW w \in Nat, HeldFor(n, w)
  PROVE  w <= Len(workspaces)
<1>1. DOMAIN workspaces = 1 .. Len(workspaces) /\ Len(workspaces) \in Nat
  BY RowsTyped
<1>2. \A s \in CanvasSaves : posts[s] # ErdCanvas!None => Place(posts[s]) <= Len(workspaces)
  BY DEF NumbersKnown, Place
<1> QED
  BY <1>1, <1>2 DEF HeldFor, NumbersKnown

\* A canvas that asks for a workspace asks for the first time, or it is known that it asks again.
LEMMA SaveWaits ==
  ASSUME CanvasInv, ErdCanvas!Next, NEW s \in CanvasSaves, ErdCanvas!Save(s)
  PROVE  OnePlace' /\ Waits'
<1>0. CanvasTyped /\ NumbersKnown /\ CallsMatch /\ OnePlace /\ CanvasWaits /\ MemoryWaits /\ ForgottenAlone
  BY DEF CanvasInv
<1>1. /\ canvas.shown /\ posts[s] = ErdCanvas!None
      /\ UNCHANGED <<page, canvas, remembered, workspaces, listed, removal, drawings, astray>>
      /\ \A q \in CanvasSaves \ {s} : posts'[q] = posts[q]
      /\ posts'[s] # ErdCanvas!None /\ posts'[s].st = "sent" /\ posts'[s].target = canvas.current
      /\ posts'[s].row.drawing = canvas.drawing
  BY <1>0, SaveSends DEF ErdCanvas!None
<1>2. canvas.current = 0 /\ (\E q \in CanvasSaves : posts[q] # ErdCanvas!None /\ posts[q].target = 0)
        => canvas.drawing \in unheard'
  BY <1>0, SaveSends
<1>3. \A n \in DOMAIN drawings : Sure(n)' => Sure(n) /\ n \notin astray' /\ n \notin unheard'
  BY NothingReturns DEF Sure
<1>4. DOMAIN workspaces \subseteq Nat
  BY <1>0, RowsTyped
<1>5. \A n \in DOMAIN drawings, w \in DOMAIN workspaces : n \notin astray' /\ HeldFor(n, w)' => HeldFor(n, w)
  BY <1>4, OthersHold DEF NoNewPlace
<1>6. \A n \in DOMAIN drawings : Sure(n)' => (Lying(n)' => Lying(n))
  BY <1>1, <1>3, <1>5 DEF Lying, Lies
<1>7. \A n \in DOMAIN drawings, q \in CanvasSaves \ {s} :
        (Makes(n, q)' <=> Makes(n, q)) /\ posts'[q].st = posts[q].st
  BY <1>1 DEF Makes
<1>8. \A n \in DOMAIN drawings : ~Makes(n, s) /\ (Makes(n, s)' <=> canvas.current = 0 /\ canvas.drawing = n)
  BY <1>1 DEF Makes
<1>9. ASSUME NEW n \in DOMAIN drawings, Sure(n)', canvas.current = 0, canvas.drawing = n
      PROVE  /\ \A q \in CanvasSaves : ~Makes(n, q)
             /\ ~Placed(n)
             /\ \A q \in CanvasSaves \ {s} : posts[q] # ErdCanvas!None => posts[q].target # 0
  <2>1. \A q \in CanvasSaves : posts[q] # ErdCanvas!None => posts[q].target # 0
    BY <1>2, <1>3, <1>9
  <2>2. \A q \in CanvasSaves : ~Makes(n, q)
    BY <2>1 DEF Makes
  <2>3. ~Placed(n)
    BY <1>0, <1>1, <1>3, <1>9, <2>2 DEF CanvasWaits
  <2> QED
    BY <2>1, <2>2, <2>3
<1>10. OnePlace'
  <2> SUFFICES ASSUME NEW n \in DOMAIN drawings, Sure(n)'
               PROVE  /\ \A v, w \in DOMAIN workspaces : Lies(n, v)' /\ Lies(n, w)' => v = w
                      /\ \A p, q \in CanvasSaves : Makes(n, p)' /\ Makes(n, q)' => p = q
                      /\ ~(Making(n)' /\ Lying(n)')
    BY <1>1 DEF OnePlace
  <2>1. \A v, w \in DOMAIN workspaces : Lies(n, v)' /\ Lies(n, w)' => v = w
    BY <1>0, <1>1, <1>3, <1>5 DEF OnePlace, Lies
  <2>2. \A p, q \in CanvasSaves : Makes(n, p)' /\ Makes(n, q)' => p = q
    BY <1>0, <1>3, <1>7, <1>8, <1>9 DEF OnePlace
  <2>3. CASE canvas.current = 0 /\ canvas.drawing = n
    BY <1>6, <1>9, <2>1, <2>2, <2>3 DEF Placed
  <2>4. CASE ~(canvas.current = 0 /\ canvas.drawing = n)
    <3>1. Making(n)' => Making(n)
      BY <1>7, <1>8, <2>4 DEF Making
    <3> QED
      BY <1>0, <1>3, <1>6, <2>1, <2>2, <3>1 DEF OnePlace
  <2> QED
    BY <2>3, <2>4
<1>11. CanvasWaits'
  <2> SUFFICES ASSUME NEW n \in DOMAIN drawings, canvas.drawing = n, canvas.current = 0, Sure(n)'
               PROVE  /\ \E q \in CanvasSaves : Makes(n, q)'
                      /\ \A q \in CanvasSaves : posts'[q] # ErdCanvas!None /\ posts'[q].here /\ posts'[q].target = 0 =>
                           posts'[q].row.drawing = n
    BY <1>1 DEF CanvasWaits
  <2> QED
    BY <1>1, <1>8, <1>9
<1>12. MemoryWaits'
  <2> SUFFICES ASSUME NEW n \in DOMAIN drawings, NEW d \in Databases, remembered[d].drawing = n,
                      remembered[d].current = 0, Sure(n)', Placed(n)', ~(d = ErdCanvas!Key /\ canvas.current # 0)
               PROVE  \E q \in CanvasSaves : Makes(n, q)'
    BY <1>1 DEF MemoryWaits, ErdCanvas!Key
  <2>1. CASE Placed(n)
    <3>1. PICK q \in CanvasSaves : Makes(n, q)
      BY <1>0, <1>3, <2>1 DEF MemoryWaits
    <3> QED
      BY <1>7, <1>8, <3>1
  <2>2. CASE ~Placed(n)
    BY <1>6, <2>2 DEF Placed, Making
  <2> QED
    BY <2>1, <2>2
<1>13. ForgottenAlone'
  <2> SUFFICES ASSUME NEW n \in DOMAIN drawings, NEW w \in DOMAIN workspaces, removal # ErdCanvas!None,
                      removal.st = "removed", removal.here, removal.open, w = removal.id, Sure(n)', HeldFor(n, w)'
               PROVE  ~Placed(n)'
    BY <1>1 DEF ForgottenAlone
  <2>1. canvas.current # 0 /\ ~Placed(n)
    BY <1>0, <1>3, <1>5 DEF CallsMatch, ForgottenAlone
  <2>2. Making(n)' => Making(n)
    BY <1>7, <1>8, <2>1 DEF Making
  <2> QED
    BY <1>6, <2>1, <2>2 DEF Placed
<1> QED
  BY <1>10, <1>11, <1>12, <1>13 DEF Waits

\* A drawing keeps its place when the save that was to make a workspace has made it.
LEMMA StoreWaits ==
  ASSUME CanvasInv, ErdCanvas!Next, NEW s \in CanvasSaves, ErdCanvas!Store(s)
  PROVE  OnePlace' /\ Waits'
<1>0. CanvasTyped /\ NumbersKnown /\ CallsMatch /\ OnePlace /\ CanvasWaits /\ MemoryWaits /\ ForgottenAlone
  BY DEF CanvasInv
<1>1. /\ posts[s] # ErdCanvas!None /\ posts[s].st = "sent" /\ posts[s].target \in Nat
      /\ UNCHANGED <<page, canvas, remembered, listed, removal, drawings, astray, unheard>>
      /\ \A q \in CanvasSaves \ {s} : posts'[q] = posts[q]
  BY <1>0, StoreWrites, NoneIsNoCall DEF Post
<1>2. DOMAIN workspaces = 1 .. Len(workspaces) /\ Len(workspaces) \in Nat
  BY <1>0, RowsTyped
<1>3. posts'[s] # ErdCanvas!None =>
        /\ posts'[s].here = posts[s].here /\ posts'[s].target = posts[s].target /\ posts'[s].row = posts[s].row
        /\ posts'[s].st = "stored"
  BY <1>0, StoreWrites, StoredPostIs
<1>4. CASE posts[s].target # 0
  <2>1. DOMAIN workspaces' = DOMAIN workspaces
    BY <1>0, <1>2, <1>4, StoreWrites
  <2>2. \A n \in DOMAIN drawings, w \in DOMAIN workspaces : n \notin astray' /\ HeldFor(n, w)' => HeldFor(n, w)
    BY <1>2, <1>4, StoreHolds DEF Makes
  <2>3. \A n \in DOMAIN drawings, q \in CanvasSaves :
          (Makes(n, q)' <=> Makes(n, q)) /\ (Makes(n, q) => posts'[q].st = posts[q].st)
    BY <1>1, <1>3, <1>4 DEF Makes
  <2>4. Quiet
    BY <1>1, <2>1, <2>2, <2>3 DEF Quiet
  <2>5. Waits'
    BY <1>1, <1>3, <2>3, <2>4, CanvasStays
  <2> QED
    BY <2>4, <2>5, QuietPlaces
<1>5. CASE posts[s].target = 0
  <2> DEFINE new == Len(workspaces) + 1
  <2>1. /\ DOMAIN workspaces' = DOMAIN workspaces \cup {new} /\ new \notin DOMAIN workspaces /\ new \in Nat
        /\ \A w \in DOMAIN workspaces : workspaces'[w] = workspaces[w]
        /\ posts'[s] # ErdCanvas!None
    <3>1. /\ Len(workspaces') = Len(workspaces) + 1 /\ DOMAIN workspaces' = 1 .. Len(workspaces')
          /\ \A w \in DOMAIN workspaces : workspaces'[w] = workspaces[w]
          /\ posts'[s] # ErdCanvas!None
      BY <1>0, <1>2, <1>5, StoreWrites, StoredPostIs
    <3> QED
      BY <1>2, <3>1
  <2>2. \A n \in DOMAIN drawings : ~HeldFor(n, new)
    BY <1>0, <1>2, PlacesKnown
  <2>3. \A n \in DOMAIN drawings, w \in DOMAIN workspaces' : HeldFor(n, w)' =>
          (w \in DOMAIN workspaces /\ HeldFor(n, w)) \/ (w = new /\ Makes(n, s))
    BY <1>2, <2>1, <2>2, StoreHolds
  <2> HIDE DEF new
  <2>4. \A n \in DOMAIN drawings, w \in DOMAIN workspaces' : Lies(n, w)' =>
          (w \in DOMAIN workspaces /\ Lies(n, w)) \/ (w = new /\ Makes(n, s))
    BY <2>1, <2>3 DEF Lies
  <2>5. \A n \in DOMAIN drawings, q \in CanvasSaves : Makes(n, q)' <=> Makes(n, q)
    BY <1>1, <1>3, <2>1 DEF Makes
  <2>6. \A n \in DOMAIN drawings : Making(n)' => \E q \in CanvasSaves \ {s} : Makes(n, q) /\ posts[q].st = "sent"
    BY <1>1, <1>3, <2>1, <2>5 DEF Making
  <2>7. \A n : Sure(n)' <=> Sure(n)
    BY <1>1 DEF Sure
  <2>8. \A n \in DOMAIN drawings : Sure(n) /\ Makes(n, s) => ~Lying(n) /\ Making(n) /\ ~Making(n)'
    <3> SUFFICES ASSUME NEW n \in DOMAIN drawings, Sure(n), Makes(n, s)
                 PROVE  ~Lying(n) /\ Making(n) /\ ~Making(n)'
      OBVIOUS
    <3>1. Making(n)
      BY <1>1 DEF Making
    <3>2. \A q \in CanvasSaves : Makes(n, q) => q = s
      BY <1>0 DEF OnePlace
    <3>3. ~Making(n)'
      BY <2>6, <3>2
    <3> QED
      BY <1>0, <3>1, <3>3 DEF OnePlace
  <2>9. \A n \in DOMAIN drawings : ~Makes(n, s) => (Lying(n)' => Lying(n)) /\ (Making(n)' => Making(n))
    BY <2>4, <2>6 DEF Lying, Making
  <2>10. \A n \in DOMAIN drawings : Sure(n)' /\ Placed(n)' => Placed(n)
    BY <2>7, <2>8, <2>9 DEF Placed
  <2>11. OnePlace'
    <3> SUFFICES ASSUME NEW n \in DOMAIN drawings, Sure(n)
                 PROVE  /\ \A v, w \in DOMAIN workspaces' : Lies(n, v)' /\ Lies(n, w)' => v = w
                        /\ \A p, q \in CanvasSaves : Makes(n, p)' /\ Makes(n, q)' => p = q
                        /\ ~(Making(n)' /\ Lying(n)')
      BY <1>1, <2>7 DEF OnePlace
    <3>1. \A p, q \in CanvasSaves : Makes(n, p)' /\ Makes(n, q)' => p = q
      BY <1>0, <2>5 DEF OnePlace
    <3>2. CASE Makes(n, s)
      BY <2>4, <2>8, <3>1, <3>2 DEF Lying
    <3>3. CASE ~Makes(n, s)
      BY <1>0, <2>4, <2>9, <3>1, <3>3 DEF OnePlace
    <3> QED
      BY <3>2, <3>3
  <2>12. CanvasWaits'
    <3> SUFFICES ASSUME NEW n \in DOMAIN drawings, canvas.shown, canvas.drawing = n, canvas.current = 0,
                        Sure(n), Placed(n)
                 PROVE  /\ \E q \in CanvasSaves : Makes(n, q)'
                        /\ \A q \in CanvasSaves : posts'[q] # ErdCanvas!None /\ posts'[q].here /\ posts'[q].target = 0 =>
                             posts'[q].row.drawing = n
      BY <1>1, <2>7, <2>10 DEF CanvasWaits
    <3>1. /\ \E q \in CanvasSaves : Makes(n, q)
          /\ \A q \in CanvasSaves : posts[q] # ErdCanvas!None /\ posts[q].here /\ posts[q].target = 0 =>
               posts[q].row.drawing = n
      BY <1>0 DEF CanvasWaits
    <3> QED
      BY <1>1, <1>3, <2>5, <3>1
  <2>13. MemoryWaits'
    BY <1>0, <1>1, <2>5, <2>7, <2>10 DEF MemoryWaits, ErdCanvas!Key
  <2>14. ForgottenAlone'
    <3> SUFFICES ASSUME NEW n \in DOMAIN drawings, NEW w \in DOMAIN workspaces', removal # ErdCanvas!None,
                        removal.st = "removed", removal.here, removal.open, w = removal.id, Sure(n), HeldFor(n, w)'
                 PROVE  ~Placed(n)'
      BY <1>1, <2>7 DEF ForgottenAlone
    <3>1. w \in DOMAIN workspaces
      BY <1>0 DEF NumbersKnown
    <3>2. HeldFor(n, w)
      BY <2>1, <2>3, <3>1
    <3> QED
      BY <1>0, <2>7, <2>10, <3>1, <3>2 DEF ForgottenAlone
  <2> QED
    BY <2>11, <2>12, <2>13, <2>14 DEF Waits
<1> QED
  BY <1>4, <1>5

\* An answer that the canvas hears gives its drawing the place that was made for it, or the drawing
\* is astray; an answer that nobody hears is known.
LEMMA SavedWaits ==
  ASSUME CanvasInv, ErdCanvas!Next, NEW s \in CanvasSaves, ErdCanvas!Saved(s)
  PROVE  OnePlace' /\ Waits'
<1>0. CanvasTyped /\ NumbersKnown /\ CallsMatch /\ OnePlace /\ CanvasWaits /\ MemoryWaits /\ ForgottenAlone
  BY DEF CanvasInv
<1>1. /\ posts[s] \in Post /\ posts[s] # ErdCanvas!None /\ posts[s].st = "stored"
      /\ UNCHANGED <<page, remembered, workspaces, listed, removal, drawings>>
      /\ \A q \in CanvasSaves \ {s} : posts'[q] = posts[q]
      /\ posts'[s] = ErdCanvas!None
  BY <1>0, SavedTells, NoneIsNoCall
<1>2. \A n \in DOMAIN drawings, q \in CanvasSaves :
        /\ Makes(n, q)' => Makes(n, q) /\ posts'[q].st = posts[q].st
        /\ q # s /\ Makes(n, q) => Makes(n, q)'
  BY <1>1 DEF Makes
<1>3. \A n \in DOMAIN drawings : Sure(n)' => Sure(n) /\ n \notin astray /\ n \notin astray' /\ n \notin unheard'
  BY NothingReturns DEF Sure
<1>4. DOMAIN workspaces \subseteq Nat
  BY <1>0, RowsTyped
<1>5. CASE ~posts[s].here
  <2>1. UNCHANGED canvas /\ posts[s].row.drawing \in unheard'
    BY <1>0, <1>5, SavedTells
  <2>2. Quiet
    BY <1>1, <1>2, <1>4, <1>5, SavedHolds DEF Quiet
  <2>3. \A n \in DOMAIN drawings, q \in CanvasSaves : Sure(n)' /\ Makes(n, q) => Makes(n, q)'
    BY <1>2, <1>3, <2>1 DEF Makes
  <2>4. Waits'
    BY <1>1, <2>1, <2>2, <2>3, CanvasStays
  <2> QED
    BY <2>2, <2>4, QuietPlaces
<1>6. CASE posts[s].here
  <2>1. /\ canvas.shown /\ canvas'.shown /\ canvas'.drawing = canvas.drawing /\ canvas'.database = canvas.database
        /\ canvas'.current = posts[s].id /\ posts[s].id # 0
        /\ page => canvas.database = posts[s].row.database
        /\ posts[s].target \in {0, posts[s].id}
        /\ canvas.current # posts[s].target => canvas.drawing \in astray'
    BY <1>0, <1>1, <1>6, SavedTells DEF CallsMatch
  <2>a. ErdCanvas!Key' = ErdCanvas!Key
    BY <1>1, <2>1 DEF ErdCanvas!Key
  \* A drawing without place gets one from the save that was made for it.
  <2>2. \A n \in DOMAIN drawings, w \in DOMAIN workspaces : Sure(n)' /\ HeldFor(n, w)' =>
          \/ HeldFor(n, w)
          \/ n = canvas.drawing /\ w = posts[s].id /\ canvas.current = 0 /\ ~Placed(n)
    <3> SUFFICES ASSUME NEW n \in DOMAIN drawings, NEW w \in DOMAIN workspaces, Sure(n)', HeldFor(n, w)',
                        ~HeldFor(n, w), Placed(n)
                 PROVE  FALSE
      BY <1>3, <1>4, SavedHolds
    <3>1. canvas.current = 0 /\ n = canvas.drawing /\ posts[s].target = 0 /\ w = posts[s].id
      BY <1>3, <1>4, SavedHolds
    <3>2. posts[s].row.drawing = n
      BY <1>0, <1>1, <1>3, <1>6, <2>1, <3>1 DEF CanvasWaits
    <3>3. HeldFor(n, w)
      BY <1>1, <3>1, <3>2 DEF HeldFor, Place
    <3> QED
      BY <3>3
  <2>3. \A n \in DOMAIN drawings, w \in DOMAIN workspaces : Sure(n)' /\ Lies(n, w)' =>
          Lies(n, w) \/ (n = canvas.drawing /\ w = posts[s].id /\ ~Placed(n))
    BY <1>1, <2>2 DEF Lies
  <2>4. \A n \in DOMAIN drawings : Making(n)' => Making(n)
    BY <1>2 DEF Making
  <2>5. \A n \in DOMAIN drawings : Sure(n)' /\ Placed(n)' => Placed(n) \/ n = canvas.drawing
    BY <1>1, <2>3, <2>4 DEF Placed, Lying
  <2>6. OnePlace'
    <3> SUFFICES ASSUME NEW n \in DOMAIN drawings, Sure(n)'
                 PROVE  /\ \A v, w \in DOMAIN workspaces : Lies(n, v)' /\ Lies(n, w)' => v = w
                        /\ \A p, q \in CanvasSaves : Makes(n, p)' /\ Makes(n, q)' => p = q
                        /\ ~(Making(n)' /\ Lying(n)')
      BY <1>1 DEF OnePlace
    <3>1. \A p, q \in CanvasSaves : Makes(n, p)' /\ Makes(n, q)' => p = q
      BY <1>0, <1>2, <1>3 DEF OnePlace
    <3>2. CASE Placed(n)
      <4>1. \A w \in DOMAIN workspaces : Lies(n, w)' => Lies(n, w)
        BY <2>3, <3>2
      <4>2. Lying(n)' => Lying(n)
        BY <1>1, <4>1 DEF Lying
      <4> QED
        BY <1>0, <1>3, <2>4, <3>1, <4>1, <4>2 DEF OnePlace
    <3>3. CASE ~Placed(n)
      <4>1. \A w \in DOMAIN workspaces : ~Lies(n, w)
        BY <3>3 DEF Placed, Lying
      <4>2. \A w \in DOMAIN workspaces : Lies(n, w)' => w = posts[s].id
        BY <2>3, <4>1
      <4> QED
        BY <2>4, <3>1, <3>3, <4>2 DEF Placed
    <3> QED
      BY <3>2, <3>3
  <2>7. CanvasWaits'
    BY <2>1 DEF CanvasWaits
  <2>8. MemoryWaits'
    <3> SUFFICES ASSUME NEW n \in DOMAIN drawings, NEW d \in Databases, remembered[d].drawing = n,
                        remembered[d].current = 0, Sure(n)', Placed(n)', \A q \in CanvasSaves : ~Makes(n, q)'
                 PROVE  d = ErdCanvas!Key
      BY <1>1, <2>1, <2>a DEF MemoryWaits
    <3>1. \A q \in CanvasSaves : Makes(n, q) => q = s
      BY <1>2
    <3>2. CASE n = canvas.drawing
      <4>1. HeldIn(n, canvas.database)
        BY <2>1, <3>2, CanvasHolds
      <4> QED
        BY <1>3, <4>1, RememberedHere
    <3>3. CASE Placed(n) /\ ~Makes(n, s)
      BY <1>0, <1>3, <3>1, <3>3 DEF MemoryWaits
    <3>4. CASE Makes(n, s)
      <4>1. HeldIn(n, posts[s].row.database)
        BY <3>4 DEF Makes, HeldIn
      <4> QED
        BY <1>3, <2>1, <4>1, RememberedHere
    <3> QED
      BY <2>5, <3>2, <3>3, <3>4
  <2>9. ForgottenAlone'
    <3> SUFFICES ASSUME NEW n \in DOMAIN drawings, NEW w \in DOMAIN workspaces, removal # ErdCanvas!None,
                        removal.st = "removed", removal.here, removal.open, w = removal.id, Sure(n)', HeldFor(n, w)'
                 PROVE  ~Placed(n)'
      BY <1>1 DEF ForgottenAlone
    <3>1. canvas.current # 0
      BY <1>0 DEF CallsMatch
    <3>2. HeldFor(n, w) /\ ~Placed(n)
      BY <1>0, <1>3, <2>2, <3>1 DEF ForgottenAlone
    <3>3. \A v \in DOMAIN workspaces : HeldFor(n, v)' => HeldFor(n, v)
      BY <2>2, <3>1
    <3>4. Lying(n)' => Lying(n)
      BY <1>1, <3>3 DEF Lying, Lies
    <3> QED
      BY <2>4, <3>2, <3>4 DEF Placed
  <2> QED
    BY <2>6, <2>7, <2>8, <2>9 DEF Waits
<1> QED
  BY <1>5, <1>6

\* What is drawn anew has the place of the canvas, or none.
LEMMA DrawWaits ==
  ASSUME CanvasInv, ErdCanvas!Next, ErdCanvas!Draw
  PROVE  OnePlace' /\ Waits'
<1>0. CanvasTyped /\ NumbersKnown /\ CallsMatch /\ OnePlace /\ CanvasWaits /\ MemoryWaits /\ ForgottenAlone
  BY DEF CanvasInv
<1>1. PICK m : m = Len(drawings) + 1
  OBVIOUS
<1>2. /\ DOMAIN drawings' = DOMAIN drawings \cup {m}
      /\ canvas.shown /\ canvas'.shown /\ canvas'.drawing = m
      /\ canvas'.current = canvas.current /\ canvas'.database = canvas.database
      /\ UNCHANGED <<page, remembered, workspaces, listed, posts, removal, astray, unheard>>
  BY <1>0, <1>1, DrawAdds
<1>3. /\ \A w : HeldFor(m, w)' => w = canvas.current
      /\ \A q \in CanvasSaves : ~Makes(m, q)'
  BY <1>0, <1>1, FreshIsHeld
<1>4. DOMAIN workspaces \subseteq Nat /\ 0 \notin DOMAIN workspaces
  BY <1>0, RowsTyped
<1>5. \A n \in DOMAIN drawings, w \in DOMAIN workspaces : HeldFor(n, w)' /\ Sure(n)' => HeldFor(n, w)
  BY <1>2, <1>4, OthersHold DEF NoNewPlace, Sure
<1>6. \A n, q : (Makes(n, q)' <=> Makes(n, q)) /\ (Sure(n)' <=> Sure(n))
  BY <1>2 DEF Makes, Sure
<1>7. \A n \in DOMAIN drawings : Sure(n) => (Lying(n)' => Lying(n)) /\ (Making(n)' => Making(n))
  BY <1>2, <1>5, <1>6 DEF Lying, Lies, Making
<1>8. ~Making(m)' /\ \A w \in DOMAIN workspaces : Lies(m, w)' => w = canvas.current /\ workspaces[w].there
  BY <1>2, <1>3 DEF Making, Lies
<1>a. /\ DOMAIN drawings \subseteq Nat /\ \A d \in Databases : remembered[d].drawing # m
      /\ m \notin DOMAIN drawings
  BY <1>0, <1>1, DrawingsTyped DEF NumbersKnown
<1>9. OnePlace'
  <2>1. ASSUME NEW n \in DOMAIN drawings, Sure(n)
        PROVE  /\ \A v, w \in DOMAIN workspaces : Lies(n, v)' /\ Lies(n, w)' => v = w
               /\ \A p, q \in CanvasSaves : Makes(n, p)' /\ Makes(n, q)' => p = q
               /\ ~(Making(n)' /\ Lying(n)')
    <3>1. \A w \in DOMAIN workspaces : Lies(n, w)' => Lies(n, w)
      BY <1>2, <1>5, <1>6, <2>1 DEF Lies
    <3> QED
      BY <1>0, <1>6, <1>7, <2>1, <3>1 DEF OnePlace
  <2>2. /\ \A v, w \in DOMAIN workspaces : Lies(m, v)' /\ Lies(m, w)' => v = w
        /\ \A p, q \in CanvasSaves : Makes(m, p)' /\ Makes(m, q)' => p = q
        /\ ~(Making(m)' /\ Lying(m)')
    BY <1>3, <1>8
  <2> QED
    <3> SUFFICES ASSUME NEW n \in DOMAIN drawings \cup {m}, Sure(n)
                 PROVE  /\ \A v, w \in DOMAIN workspaces : Lies(n, v)' /\ Lies(n, w)' => v = w
                        /\ \A p, q \in CanvasSaves : Makes(n, p)' /\ Makes(n, q)' => p = q
                        /\ ~(Making(n)' /\ Lying(n)')
      BY <1>2, <1>6 DEF OnePlace
    <3>1. CASE n = m
      BY <2>2, <3>1
    <3>2. CASE n \in DOMAIN drawings
      BY <2>1, <3>2
    <3> QED
      BY <3>1, <3>2
<1>10. CanvasWaits'
  <2>1. canvas.current = 0 => ~Placed(m)'
    BY <1>2, <1>4, <1>8 DEF Placed, Lying
  <2> QED
    BY <1>2, <1>a, <2>1 DEF CanvasWaits
<1>11. MemoryWaits'
  <2> SUFFICES ASSUME NEW n \in DOMAIN drawings, NEW d \in Databases, remembered[d].drawing = n,
                      remembered[d].current = 0, Sure(n), Placed(n)'
               PROVE  \/ canvas.shown /\ d = ErdCanvas!Key /\ canvas.current # 0
                      \/ \E s \in CanvasSaves : Makes(n, s)'
    BY <1>2, <1>6, <1>a DEF MemoryWaits, ErdCanvas!Key
  <2>1. Placed(n)
    BY <1>7 DEF Placed
  <2> QED
    BY <1>0, <1>6, <2>1 DEF MemoryWaits
<1>12. ForgottenAlone'
  <2> SUFFICES ASSUME NEW n \in DOMAIN drawings \cup {m}, NEW w \in DOMAIN workspaces, removal # ErdCanvas!None,
                      removal.st = "removed", removal.here, removal.open, w = removal.id, Sure(n), HeldFor(n, w)'
               PROVE  ~Placed(n)'
    BY <1>2, <1>6 DEF ForgottenAlone
  <2>1. CASE n \in DOMAIN drawings
    <3>1. HeldFor(n, w)
      BY <1>5, <1>6, <2>1
    <3>2. ~Placed(n)
      BY <1>0, <2>1, <3>1 DEF ForgottenAlone
    <3> QED
      BY <1>7, <2>1, <3>2 DEF Placed
  <2>2. CASE n = m
    <3>1. w = canvas.current /\ ~workspaces[w].there
      BY <1>0, <1>3, <2>2 DEF CallsMatch
    <3> QED
      BY <1>2, <1>8, <2>2, <3>1 DEF Placed, Lying
  <2> QED
    BY <2>1, <2>2
<1> QED
  BY <1>9, <1>10, <1>11, <1>12 DEF Waits

LEMMA CanvasInvStep ==
  ASSUME CanvasInv, [ErdCanvas!Next]_ErdCanvas!erdVars
  PROVE  CanvasInv'
<1>1. CASE ErdCanvas!Next
  <2>1. OnePlace' /\ Waits'
    BY <1>1, DrawWaits, OthersWait, LoseWaits, TurnsWait, DeletedWaits, SaveWaits, StoreWaits, SavedWaits
       DEF ErdCanvas!Next
  <2> QED
    BY <1>1, <2>1, CanvasTypedStep, NumbersKnownStep, CallsMatchStep, HeldRightlyStep DEF CanvasInv, Waits
<1>2. CASE UNCHANGED ErdCanvas!erdVars
  <2> USE DEF ErdCanvas!erdVars
  <2>1. CanvasTyped' /\ NumbersKnown' /\ CallsMatch'
    BY <1>2 DEF CanvasInv, CanvasTyped, NumbersKnown, CallsMatch
  <2>2. HeldRightly'
    BY <1>2 DEF CanvasInv, HeldRightly, HeldFor, HeldIn, Place, ErdCanvas!There
  <2>3. (OnePlace' <=> OnePlace) /\ (CanvasWaits' <=> CanvasWaits) /\ (MemoryWaits' <=> MemoryWaits)
        /\ (ForgottenAlone' <=> ForgottenAlone)
    BY <1>2 DEF OnePlace, CanvasWaits, MemoryWaits, ForgottenAlone, Sure, Placed, Lying, Making, Lies, Makes,
                HeldFor, Place, ErdCanvas!Key
  <2> QED
    BY <2>1, <2>2, <2>3 DEF CanvasInv
<1> QED
  BY <1>1, <1>2

\* Drawings lie where they were made, in one workspace each, however saves, loads, deletions and
\* departures interleave, but for the ghosts that the property names.
THEOREM DrawingsKeepApart == ErdCanvas!Spec => []DrawingsStayApart
<1>1. CanvasInv /\ [ErdCanvas!Next]_ErdCanvas!erdVars => CanvasInv'
  BY CanvasInvStep
<1> QED
  BY <1>1, CanvasInvInit, CanvasInvMeans, PTL DEF ErdCanvas!Spec

-----------------------------------------------------------------------------
(* The team *)

USE WorkspaceAssumption, FounderIsUser

TeamRequest == [op : TeamOps, by : Users, target : Users, role : Roles,
                pc : {"free", "addOwner", "write", "mark"}, stale : BOOLEAN]

\* What a checked request still knows when it writes, unless it is outdated.
ChecksHold ==
  \A q \in TeamRequests : treq[q].pc = "write" /\ ~treq[q].stale =>
    /\ treq[q].op = "setRole" => role[treq[q].by] = "OWNER" /\ treq[q].by # treq[q].target
    /\ treq[q].op = "expel" => role[treq[q].target] # "OWNER"

\* Only a creation adds its owner; nobody is invited as an owner.
StagesFit ==
  \A q \in TeamRequests :
    /\ treq[q].pc = "addOwner" => treq[q].op = "create"
    /\ treq[q].pc = "write" /\ treq[q].op = "invite" => treq[q].role \in Invitable

TeamInv == TypeOK /\ ChecksHold /\ StagesFit /\ OwnerRemains

USE DEF TeamRequest

-----------------------------------------------------------------------------
(* Requests that are answered or outdated *)

LEMMA FreeRequestTyped == NoTeamRequest \in TeamRequest
BY DEF NoTeamRequest, TeamOps, Roles, Invitable

LEMMA AnswerTyped ==
  ASSUME TypeOK, NEW q \in TeamRequests, Answer(q)
  PROVE  treq' \in [TeamRequests -> TeamRequest]
BY FreeRequestTyped DEF TypeOK, Answer

\* The other requests keep what they were, but may become stale; those that
\* do not have their user and target as they were.
LEMMA Outdated ==
  ASSUME TypeOK, NEW q \in TeamRequests, NEW next \in TeamRequest, Outdate(q, next)
  PROVE  /\ treq' \in [TeamRequests -> TeamRequest]
         /\ treq'[q] = next
         /\ overtaken' \in BOOLEAN
         /\ treq[q].stale \/ overtaken => overtaken'
         /\ \A p \in TeamRequests \ {q} :
              /\ treq'[p].op = treq[p].op /\ treq'[p].pc = treq[p].pc /\ treq'[p].role = treq[p].role
              /\ treq'[p].by = treq[p].by /\ treq'[p].target = treq[p].target
              /\ ~treq'[p].stale => /\ ~treq[p].stale
                                    /\ role'[treq[p].by] = role[treq[p].by]
                                    /\ role'[treq[p].target] = role[treq[p].target]
<1> DEFINE late(p) == treq[p].stale \/ \E u \in {treq[p].by, treq[p].target} : role'[u] # role[u]
           other(p) == [treq[p] EXCEPT !.stale = late(p)]
<1>1. treq' = [p \in TeamRequests |-> IF p = q THEN next ELSE other(p)]
  BY Zenon DEF Outdate, TypeOK
<1>2. ASSUME NEW p \in TeamRequests
      PROVE  /\ other(p) \in TeamRequest
             /\ other(p).op = treq[p].op /\ other(p).pc = treq[p].pc /\ other(p).role = treq[p].role
             /\ other(p).by = treq[p].by /\ other(p).target = treq[p].target
             /\ other(p).stale = late(p)
  <2>1. treq[p] \in TeamRequest
    BY DEF TypeOK
  <2>2. late(p) \in BOOLEAN
    BY <2>1
  <2> HIDE DEF late
  <2> QED
    BY <2>1, <2>2
<1>3. ASSUME NEW p \in TeamRequests, ~late(p)
      PROVE  /\ ~treq[p].stale
             /\ role'[treq[p].by] = role[treq[p].by]
             /\ role'[treq[p].target] = role[treq[p].target]
  BY <1>3
<1> HIDE DEF late, other
<1>4. treq' \in [TeamRequests -> TeamRequest] /\ treq'[q] = next
  BY <1>1, <1>2
<1>5. \A p \in TeamRequests \ {q} : treq'[p] = other(p)
  BY <1>1
<1>6. overtaken' \in BOOLEAN /\ (treq[q].stale \/ overtaken => overtaken')
  BY DEF Outdate, TypeOK
<1> QED
  BY <1>2, <1>3, <1>4, <1>5, <1>6

-----------------------------------------------------------------------------
(* Initial states *)

LEMMA InitTeam == WorkspaceInit => TeamInv
<1> SUFFICES ASSUME WorkspaceInit PROVE TeamInv
  OBVIOUS
<1> USE FreeRequestTyped
<1>1. CASE FromScratch
  BY <1>1 DEF FromScratch, Init, TeamInv, TypeOK, ChecksHold, StagesFit, OwnerRemains,
              NoTeamRequest, NoInvitation, Invitable
<1>2. CASE Settled
  <2>1. teamCalls \in Nat
    BY <1>2 DEF Settled
  <2>2. TypeOK
    BY <1>2, <2>1 DEF Settled, TypeOK, NoInvitation, Invitable
  <2>3. ChecksHold /\ StagesFit /\ OwnerRemains
    BY <1>2 DEF Settled, ChecksHold, StagesFit, OwnerRemains, NoTeamRequest
  <2> QED
    BY <2>2, <2>3 DEF TeamInv
<1> QED
  BY <1>1, <1>2 DEF WorkspaceInit

-----------------------------------------------------------------------------
(* Steps *)

\* The deletion of an organization, which the resource's side notices.
TeamNext == Work \/ \E q \in TeamRequests : Dissolve(q)

LEMMA WorkspaceStepIsTeamStep ==
  ASSUME [WorkspaceNext]_vars
  PROVE  [TeamNext]_teamVars
BY Zenon DEF WorkspaceNext, vars, TeamNext

\* A step without a change of the membership that answers q or moves it on
\* to a stage other than a write keeps what the other requests know.
LEMMA QuietStep ==
  ASSUME TeamInv, NEW q \in TeamRequests,
         UNCHANGED <<org, role, halfMade, overtaken>>,
         NEW next \in TeamRequest, treq' = [treq EXCEPT ![q] = next],
         next.pc \notin {"write", "addOwner"}, treq[q].pc # "addOwner"
  PROVE  ChecksHold' /\ StagesFit' /\ OwnerRemains'
<1> USE DEF TeamInv
<1>1. treq'[q] = next /\ \A p \in TeamRequests \ {q} : treq'[p] = treq[p]
  BY DEF TypeOK
<1>2. ChecksHold'
  BY <1>1 DEF ChecksHold
<1>3. StagesFit'
  BY <1>1 DEF StagesFit
<1>4. OwnerRemains'
  BY <1>1 DEF OwnerRemains
<1> QED
  BY <1>2, <1>3, <1>4

\* A step that changes the membership keeps what the others know of it, since
\* it outdates those it touches.
LEMMA OutdatingStep ==
  ASSUME TeamInv, NEW q \in TeamRequests,
         NEW next \in TeamRequest, next.pc \notin {"write", "addOwner"}, Outdate(q, next)
  PROVE  ChecksHold' /\ StagesFit'
<1> USE DEF TeamInv
<1>1. ChecksHold'
  BY Outdated DEF ChecksHold
<1>2. StagesFit'
  BY Outdated DEF StagesFit
<1> QED
  BY <1>1, <1>2

LEMMA CreateKeeps ==
  ASSUME TeamInv, NEW q \in TeamRequests, Create(q)
  PROVE  TeamInv'
<1> USE DEF TeamInv
<1> DEFINE next == [NoTeamRequest EXCEPT !.pc = "addOwner"]
<1>1. next \in TeamRequest /\ next.pc = "addOwner" /\ next.op = "create"
  BY FreeRequestTyped DEF NoTeamRequest
<1> HIDE DEF next
<1>2. /\ treq' = [treq EXCEPT ![q] = next] /\ treq[q].pc = "free"
      /\ org' = "live" /\ teamCalls' = teamCalls + 1
      /\ UNCHANGED <<role, invited, crashes, overtaken, halfMade>>
  BY DEF next, Create, Active
<1>3. TypeOK'
  BY <1>1, <1>2 DEF TypeOK
<1>4. treq'[q] = next /\ \A p \in TeamRequests \ {q} : treq'[p] = treq[p]
  BY <1>2 DEF TypeOK
<1>5. ChecksHold'
  BY <1>1, <1>2, <1>4 DEF ChecksHold
<1>6. StagesFit'
  BY <1>1, <1>2, <1>4 DEF StagesFit
<1>7. OwnerRemains'
  BY <1>1, <1>2, <1>4 DEF OwnerRemains
<1> QED
  BY <1>3, <1>5, <1>6, <1>7

LEMMA AddOwnerKeeps ==
  ASSUME TeamInv, NEW q \in TeamRequests, AddOwner(q)
  PROVE  TeamInv'
<1> USE DEF TeamInv, AddOwner
<1>1. Outdate(q, NoTeamRequest) /\ NoTeamRequest.pc = "free"
  BY DEF NoTeamRequest
<1>2. ChecksHold' /\ StagesFit'
  BY <1>1, FreeRequestTyped, OutdatingStep
<1>3. role' \in [Users -> Roles \cup {"none"}]
  BY DEF TypeOK, Roles
<1>4. TypeOK'
  BY <1>1, <1>3, FreeRequestTyped, Outdated DEF TypeOK
<1>5. OwnerRemains'
  BY <1>3 DEF OwnerRemains, TypeOK
<1> QED
  BY <1>2, <1>4, <1>5

LEMMA CheckKeeps ==
  ASSUME TeamInv, NEW q \in TeamRequests, NEW op \in TeamOps \ {"create"},
         NEW by \in Users, NEW target \in Users, NEW r \in Roles, Check(q, op, by, target, r)
  PROVE  TeamInv'
<1> USE DEF TeamInv, Check, Active
<1> DEFINE next == [op |-> op, by |-> by, target |-> target, role |-> r, stale |-> FALSE,
                    pc |-> IF op = "accept" /\ role[by] # "none" THEN "mark" ELSE "write"]
<1>1. /\ next \in TeamRequest /\ next.pc \in {"mark", "write"} /\ next.op = op
      /\ next.by = by /\ next.target = target
  OBVIOUS
<1>2. /\ op = "setRole" => role[by] = "OWNER" /\ by # target
      /\ op = "expel" => role[target] # "OWNER"
      /\ op = "invite" => next.role \in Invitable
  BY DEF Allowed
<1> HIDE DEF next
<1>3. treq' = [treq EXCEPT ![q] = next]
  BY DEF next
<1>4. TypeOK'
  BY <1>1, <1>3 DEF TypeOK
<1>5. treq'[q] = next /\ \A p \in TeamRequests \ {q} : treq'[p] = treq[p]
  BY <1>3 DEF TypeOK
<1>6. ChecksHold'
  BY <1>1, <1>2, <1>5 DEF ChecksHold
<1>7. StagesFit'
  BY <1>1, <1>2, <1>5 DEF StagesFit
<1>8. OwnerRemains'
  BY <1>5 DEF OwnerRemains
<1> QED
  BY <1>4, <1>6, <1>7, <1>8

\* Invitations are not what the other requests have checked.
LEMMA InvitationStepsKeep ==
  ASSUME TeamInv, NEW q \in TeamRequests, Invite(q) \/ MarkAccepted(q) \/ Decline(q)
  PROVE  TeamInv'
<1> USE DEF TeamInv
<1>1. Answer(q) /\ treq[q].pc # "addOwner" /\ UNCHANGED <<org, role, teamCalls, crashes, overtaken, halfMade>>
  BY DEF Invite, MarkAccepted, Decline
<1>2. NoTeamRequest.pc = "free" /\ treq' = [treq EXCEPT ![q] = NoTeamRequest]
  BY <1>1 DEF NoTeamRequest, Answer
<1>3. ChecksHold' /\ StagesFit' /\ OwnerRemains'
  BY <1>1, <1>2, FreeRequestTyped, QuietStep
<1>4. invited' \in [Users -> [state : {"none", "pending", "accepted"}, role : Invitable]]
  <2>1. CASE Invite(q)
    BY <2>1 DEF Invite, TypeOK, StagesFit
  <2>2. CASE MarkAccepted(q)
    BY <2>2 DEF MarkAccepted, TypeOK
  <2>3. CASE Decline(q)
    BY <2>3 DEF Decline, TypeOK, NoInvitation, Invitable
  <2> QED
    BY <2>1, <2>2, <2>3
<1>5. TypeOK'
  BY <1>1, <1>4, AnswerTyped DEF TypeOK
<1> QED
  BY <1>3, <1>5

\* A member joins: nobody who is a member already changes.
LEMMA JoinKeeps ==
  ASSUME TeamInv, NEW q \in TeamRequests, Join(q)
  PROVE  TeamInv'
<1> USE DEF TeamInv
<1>1. CASE org = "live" /\ role[treq[q].by] = "none"
  <2> DEFINE next == [treq[q] EXCEPT !.pc = "mark"]
  <2>1. next \in TeamRequest /\ next.pc = "mark" /\ treq[q] \in TeamRequest
    BY DEF TypeOK
  <2> HIDE DEF next
  <2>2. Outdate(q, next) /\ role' = [role EXCEPT ![treq[q].by] = treq[q].role] /\ treq[q].pc = "write"
        /\ UNCHANGED <<org, invited, teamCalls, crashes, halfMade>>
    BY <1>1, Zenon DEF Join, next
  <2>3. ChecksHold' /\ StagesFit'
    BY <2>1, <2>2, OutdatingStep
  <2>4. role' \in [Users -> Roles \cup {"none"}]
    BY <2>1, <2>2 DEF TypeOK
  <2>5. TypeOK'
    BY <2>1, <2>2, <2>4, Outdated DEF TypeOK
  <2>6. \A u \in Users : role[u] = "OWNER" => role'[u] = "OWNER"
    BY <1>1, <2>1, <2>2 DEF TypeOK
  <2>7. OwnerRemains'
    BY <2>1, <2>2, <2>6, Outdated DEF OwnerRemains
  <2> QED
    BY <2>3, <2>5, <2>7
<1>2. CASE ~(org = "live" /\ role[treq[q].by] = "none")
  <2>1. /\ treq' = [treq EXCEPT ![q] = NoTeamRequest] /\ treq[q].pc = "write" /\ NoTeamRequest.pc = "free"
        /\ UNCHANGED teamVars \/ UNCHANGED <<org, role, invited, teamCalls, crashes, overtaken, halfMade>>
    BY <1>2 DEF Join, Answer, NoTeamRequest
  <2>2. ChecksHold' /\ StagesFit' /\ OwnerRemains'
    BY <2>1, FreeRequestTyped, QuietStep DEF teamVars
  <2>3. TypeOK'
    BY <2>1, FreeRequestTyped DEF TypeOK, teamVars
  <2> QED
    BY <2>2, <2>3
<1> QED
  BY <1>1, <1>2

\* An owner changes or removes another member: the owner stays, or the check was outdated.
LEMMA ChangeKeeps ==
  ASSUME TeamInv, NEW q \in TeamRequests, SetRole(q) \/ Expel(q)
  PROVE  TeamInv'
<1> USE DEF TeamInv
<1>1. /\ Outdate(q, NoTeamRequest) /\ NoTeamRequest.pc = "free" /\ treq[q].pc = "write"
      /\ UNCHANGED <<org, invited, teamCalls, crashes, halfMade>>
  BY DEF SetRole, Expel, NoTeamRequest
<1>2. treq[q] \in TeamRequest
  BY DEF TypeOK
<1>3. ChecksHold' /\ StagesFit'
  BY <1>1, FreeRequestTyped, OutdatingStep
<1>4. role' \in [Users -> Roles \cup {"none"}]
  BY <1>2 DEF SetRole, Expel, TypeOK
<1>5. TypeOK'
  BY <1>1, <1>4, FreeRequestTyped, Outdated DEF TypeOK
<1>6. \A u \in Users \ {treq[q].target} : role'[u] = role[u]
  BY <1>2 DEF SetRole, Expel, TypeOK
<1>7. (\E u \in Users : role[u] = "OWNER") /\ ~treq[q].stale => \E u \in Users : role'[u] = "OWNER"
  BY <1>1, <1>2, <1>6 DEF ChecksHold, SetRole, Expel
<1>8. OwnerRemains'
  BY <1>1, <1>7, FreeRequestTyped, Outdated DEF OwnerRemains
<1> QED
  BY <1>3, <1>5, <1>8

LEMMA DissolveKeeps ==
  ASSUME TeamInv, NEW q \in TeamRequests, Dissolve(q)
  PROVE  TeamInv'
<1> USE DEF TeamInv
<1>1. Outdate(q, NoTeamRequest) /\ NoTeamRequest.pc = "free" /\ org' = "gone"
  BY DEF Dissolve, NoTeamRequest
<1>2. ChecksHold' /\ StagesFit'
  BY <1>1, FreeRequestTyped, OutdatingStep
<1>3. TypeOK'
  BY <1>1, FreeRequestTyped, Outdated DEF TypeOK, Dissolve, NoInvitation, Invitable
<1>4. OwnerRemains'
  BY <1>1 DEF OwnerRemains
<1> QED
  BY <1>2, <1>3, <1>4

LEMMA CrashKeeps ==
  ASSUME TeamInv, Crash
  PROVE  TeamInv'
<1> USE DEF TeamInv, Crash, NoTeamRequest
<1>1. TypeOK'
  <2>1. treq' \in [TeamRequests -> TeamRequest]
    BY FreeRequestTyped
  <2>2. halfMade' \in BOOLEAN
    BY DEF TypeOK
  <2> QED
    BY <2>1, <2>2 DEF TypeOK
<1>2. ChecksHold' /\ StagesFit'
  BY DEF ChecksHold, StagesFit
<1>3. OwnerRemains'
  BY DEF OwnerRemains
<1> QED
  BY <1>1, <1>2, <1>3

LEMMA TeamStep ==
  ASSUME TeamInv, [TeamNext]_teamVars
  PROVE  TeamInv'
<1>1. CASE UNCHANGED teamVars
  BY <1>1 DEF teamVars, TeamInv, TypeOK, ChecksHold, StagesFit, OwnerRemains
<1>2. CASE TeamNext
  BY <1>2, CrashKeeps, CreateKeeps, AddOwnerKeeps, InvitationStepsKeep, JoinKeeps, ChangeKeeps,
     CheckKeeps, DissolveKeeps DEF TeamNext, Work
<1> QED
  BY <1>1, <1>2

LEMMA TeamInvariant == WorkspaceSpec => []TeamInv
<1>1. TeamInv /\ [WorkspaceNext]_vars => TeamInv'
  BY WorkspaceStepIsTeamStep, TeamStep
<1> QED
  BY InitTeam, <1>1, PTL DEF WorkspaceSpec

-----------------------------------------------------------------------------
(* Results *)

\* A team is never left without an owner by changes of roles and removals
\* alone (updateMemberRole, removeMember), however many requests overlap.
THEOREM TeamKeepsOwner == WorkspaceSpec => []OwnerRemains
BY TeamInvariant, PTL DEF TeamInv

\* Accepting an invitation never changes the role of a member: the insert of
\* acceptInvitation fails when the membership is there.
THEOREM AcceptKeepsRoles == WorkspaceSpec => AcceptNeverOverrides
<1> DEFINE Kept == \A u \in Users : role[u] # "none" /\ role'[u] # role[u]
                     => \E q \in TeamRequests : treq[q].op \in {"create", "setRole", "expel", "dissolve"}
                                                /\ treq[q].pc # "free" /\ treq'[q].pc = "free"
<1>1. ASSUME TeamInv, TeamNext PROVE Kept
  <2> SUFFICES ASSUME NEW u \in Users, role[u] # "none", role'[u] # role[u]
               PROVE  \E q \in TeamRequests : treq[q].op \in {"create", "setRole", "expel", "dissolve"}
                                              /\ treq[q].pc # "free" /\ treq'[q].pc = "free"
    OBVIOUS
  <2>1. PICK q \in TeamRequests : AddOwner(q) \/ SetRole(q) \/ Expel(q) \/ Dissolve(q)
    <3>1. \A q \in TeamRequests : ~Join(q)
      BY <1>1 DEF TeamInv, TypeOK, Join
    <3> QED
      BY <1>1, <3>1 DEF TeamNext, Work, Crash, Create, Invite, MarkAccepted, Decline, Check
  <2>2. Outdate(q, NoTeamRequest) /\ treq[q].pc # "free" /\ NoTeamRequest.pc = "free"
    BY <2>1 DEF AddOwner, SetRole, Expel, Dissolve, NoTeamRequest
  <2>3. treq'[q].pc = "free"
    BY <1>1, <2>2, FreeRequestTyped, Outdated DEF TeamInv
  <2>4. treq[q].op \in {"create", "setRole", "expel", "dissolve"}
    BY <1>1, <2>1 DEF AddOwner, SetRole, Expel, Dissolve, TeamInv, StagesFit
  <2> QED
    BY <2>2, <2>3, <2>4
<1>2. ASSUME TeamInv, [WorkspaceNext]_vars PROVE [Kept]_teamVars
  BY <1>1, <1>2, WorkspaceStepIsTeamStep
<1> HIDE DEF Kept
<1>3. WorkspaceSpec => [][Kept]_teamVars
  BY <1>2, TeamInvariant, PTL DEF WorkspaceSpec
<1> QED
  BY <1>3 DEF Kept, AcceptNeverOverrides

-----------------------------------------------------------------------------
(* The resource *)

Request == [op : Resource!Ops, by : Users, old : BOOLEAN, next : Nat,
            visibility : {"private", "workspace"}, content : 0 .. MaxCalls,
            pc : {"free", "find", "check", "manage", "write", "policy", "read", "insert"}]

Recording == {"policy", "read", "insert"}

\* Only saves write, keep the policy and record versions; dashboards have no
\* history and ERD workspaces no policy of their own.
Fits(r) ==
  /\ r.pc \in Recording => r.op \in Resource!Saves
  /\ r.pc = "policy" => kind # "ERD"
  /\ r.pc \in {"read", "insert"} => kind # "DASHBOARD"
  /\ r.op = "restore" => r.pc # "check" /\ (r.pc = "write" => kind # "DASHBOARD")

StagesMatch == \A q \in Requests : Fits(req[q])

\* The numbers of the history are 1 .. Latest; a save inserts one of them, which
\* the index then refuses, or the next.
Numbered ==
  /\ Resource!Latest \in Nat
  /\ \A v \in versions : v.n \in 1 .. Resource!Latest
  /\ \A i \in 1 .. Resource!Latest : \E v \in versions : v.n = i
  /\ \A v, w \in versions : v.n = w.n => v = w
  /\ \A q \in Requests : req[q].pc = "insert" => req[q].next \in 1 .. Resource!Latest + 1

\* A resource is shared with an organization that is there.
SharedIsLive == row.org => org = "live" /\ row.live

\* One request at a time records what it has written.
Alone == \A p, q \in Requests : req[p].pc \in Recording /\ req[q].pc \in Recording => p = q

\* A save writes back the scope that the row still has.
FoundIsCurrent ==
  \A q \in Requests : req[q].pc \in {"check", "write"} /\ req[q].op \in Resource!Saves \ {"restore"} =>
    req[q].old = row.org /\ req[q].visibility = row.visibility

\* What a save has still to record is what the row holds.
WrittenIsCurrent ==
  \A q \in Requests :
    /\ req[q].pc \in Recording => req[q].content = row.content
    /\ req[q].pc = "insert" => req[q].next = Resource!Latest + 1
    /\ req[q].pc = "policy" => (req[q].visibility = "workspace" <=> row.org)

\* While saves have not met.
Apart == ~crossed /\ (row.live \/ kind = "DASHBOARD") => Alone /\ FoundIsCurrent /\ WrittenIsCurrent

SharingInv ==
  /\ Resource!TypeOK /\ StagesMatch /\ Numbered /\ SharedIsLive
  /\ Apart /\ LatestIsCurrent /\ PolicyFollowsSharing

USE DEF Request, Recording

-----------------------------------------------------------------------------
(* The largest number of a history *)

Largest(S) == IF S = {} THEN 0 ELSE CHOOSE n \in {v.n : v \in S} : \A v \in S : v.n <= n

LEMMA LargestIs ==
  ASSUME NEW S, NEW k \in Nat, \A v \in S : v.n \in 1 .. k, \A i \in 1 .. k : \E v \in S : v.n = i
  PROVE  Largest(S) = k
<1>1. CASE k = 0
  <2>1. S = {}
    BY <1>1
  <2> QED
    BY <1>1, <2>1 DEF Largest
<1>2. CASE k > 0
  <2> DEFINE Top(n) == n \in {v.n : v \in S} /\ \A v \in S : v.n <= n
  <2>1. k \in 1 .. k
    BY <1>2
  <2>2. Top(k)
    BY <2>1
  <2>3. ASSUME NEW n, Top(n) PROVE n = k
    <3>1. PICK v \in S : v.n = n
      BY <2>3
    <3>2. PICK w \in S : w.n = k
      BY <2>1
    <3>3. n \in 1 .. k /\ k <= n
      BY <2>3, <3>1, <3>2
    <3> QED
      BY <3>3
  <2>4. S # {}
    BY <2>1
  <2>5. Largest(S) = CHOOSE n \in {v.n : v \in S} : \A v \in S : v.n <= n
    BY <2>4 DEF Largest
  <2>6. (CHOOSE n \in {v.n : v \in S} : \A v \in S : v.n <= n) = k
    BY <2>2, <2>3
  <2> QED
    BY <2>5, <2>6
<1> QED
  BY <1>1, <1>2

-----------------------------------------------------------------------------
(* Steps that leave the row, its policy and its history alone *)

LEMMA NoRequestTyped == Resource!NoRequest \in Request /\ Resource!NoRequest.pc = "free" /\ Resource!NoRequest.op = "edit"
BY WorkspaceAssumption DEF Resource!NoRequest, Resource!Ops, Resource!Saves

LEMMA RequestTyped ==
  ASSUME Resource!TypeOK, NEW q \in Requests
  PROVE  req[q] \in Request
BY DEF Resource!TypeOK

LEMMA Replaced ==
  ASSUME Resource!TypeOK, NEW q \in Requests, NEW next \in Request, req' = [req EXCEPT ![q] = next]
  PROVE  /\ req' \in [Requests -> Request]
         /\ req'[q] = next
         /\ \A p \in Requests \ {q} : req'[p] = req[p]
BY DEF Resource!TypeOK

\* A request that moves to a stage before its records, or ends with nothing to
\* record unless saves have met.
LEMMA QuietMove ==
  ASSUME SharingInv, NEW q \in Requests, NEW next \in Request, req' = [req EXCEPT ![q] = next],
         UNCHANGED <<org, kind, row, policy, teamspace, versions>>,
         calls' \in 0 .. MaxCalls, faults' \in 0 .. MaxFaults, crossed' \in BOOLEAN,
         crossed => crossed', UNCHANGED dangling, Fits(next), next.pc \notin Recording,
         req[q].pc \in Recording => crossed',
         ~crossed' /\ (row.live \/ kind = "DASHBOARD") /\ next.pc \in {"check", "write"}
           /\ next.op \in Resource!Saves \ {"restore"}
           => next.old = row.org /\ next.visibility = row.visibility
  PROVE  SharingInv'
<1> USE DEF SharingInv
<1>1. /\ req' \in [Requests -> Request] /\ req'[q] = next
      /\ \A p \in Requests \ {q} : req'[p] = req[p]
  BY Replaced
<1>2. Resource!TypeOK'
  BY <1>1 DEF Resource!TypeOK
<1>3. StagesMatch'
  BY <1>1 DEF StagesMatch, Fits
<1>4. Resource!Latest' = Resource!Latest
  BY DEF Resource!Latest
<1>5. Numbered'
  BY <1>1, <1>4 DEF Numbered
<1>6. SharedIsLive'
  BY DEF SharedIsLive
<1>7. Apart'
  <2> SUFFICES ASSUME ~crossed', row.live \/ kind = "DASHBOARD"
               PROVE  Alone' /\ FoundIsCurrent' /\ WrittenIsCurrent'
    BY DEF Apart
  <2>1. Alone /\ FoundIsCurrent /\ WrittenIsCurrent
    BY DEF Apart
  <2>2. Alone'
    BY <1>1, <2>1 DEF Alone
  <2>3. FoundIsCurrent'
    BY <1>1, <2>1 DEF FoundIsCurrent
  <2>4. WrittenIsCurrent'
    BY <1>1, <1>4, <2>1 DEF WrittenIsCurrent
  <2> QED
    BY <2>2, <2>3, <2>4
<1>8. LatestIsCurrent'
  BY <1>1, <1>4 DEF LatestIsCurrent, Resource!LatestIsCurrent
<1>9. PolicyFollowsSharing'
  BY <1>1 DEF PolicyFollowsSharing, Resource!PolicyFollowsSharing
<1> QED
  BY <1>2, <1>3, <1>5, <1>6, <1>7, <1>8, <1>9

\* The frame of most steps.
Still == UNCHANGED <<org, kind, row, policy, teamspace, versions, calls, faults, crossed, dangling>>

LEMMA FrameTyped ==
  ASSUME Resource!TypeOK, Still
  PROVE  /\ UNCHANGED <<org, kind, row, policy, teamspace, versions, crossed, dangling>>
         /\ calls' \in 0 .. MaxCalls /\ faults' \in 0 .. MaxFaults /\ crossed' \in BOOLEAN
BY DEF Resource!TypeOK, Still

LEMMA AnswerKeeps ==
  ASSUME SharingInv, NEW q \in Requests, Resource!Answer(q), Still, req[q].pc \notin Recording
  PROVE  SharingInv'
<1>1. req' = [req EXCEPT ![q] = Resource!NoRequest]
  BY DEF Resource!Answer
<1>2. Fits(Resource!NoRequest) /\ Resource!NoRequest.pc \notin Recording \cup {"check", "write"}
  BY NoRequestTyped DEF Fits
<1>3. /\ UNCHANGED <<org, kind, row, policy, teamspace, versions, crossed, dangling>>
      /\ calls' \in 0 .. MaxCalls /\ faults' \in 0 .. MaxFaults /\ crossed' \in BOOLEAN
  BY FrameTyped DEF SharingInv
<1> QED
  BY <1>1, <1>2, <1>3, NoRequestTyped, QuietMove

\* Passing the checks keeps the scope that was found.
LEMMA PassKeeps ==
  ASSUME SharingInv, NEW q \in Requests, Resource!Pass(q), Still,
         req[q].pc = "check" \/ (req[q].pc = "manage" /\ req[q].op \notin Resource!Saves)
  PROVE  SharingInv'
<1> DEFINE next == [req[q] EXCEPT !.pc = "write", !.by = Owner]
<1> USE DEF SharingInv
<1>1. next \in Request /\ next.pc = "write" /\ next.op = req[q].op /\ next.old = req[q].old
      /\ next.visibility = req[q].visibility
  BY RequestTyped, WorkspaceAssumption
<1>2. req' = [req EXCEPT ![q] = next]
  BY DEF Resource!Pass
<1>3. Fits(next)
  BY <1>1 DEF Fits, StagesMatch, Resource!Saves
<1>4. /\ UNCHANGED <<org, kind, row, policy, teamspace, versions, crossed, dangling>>
      /\ calls' \in 0 .. MaxCalls /\ faults' \in 0 .. MaxFaults /\ crossed' \in BOOLEAN
  BY FrameTyped
<1> HIDE DEF next
<1>5. /\ ~crossed' /\ (row.live \/ kind = "DASHBOARD")
      /\ next.pc \in {"check", "write"} /\ next.op \in Resource!Saves \ {"restore"}
      => next.old = row.org /\ next.visibility = row.visibility
  BY <1>1, <1>4 DEF Apart, FoundIsCurrent
<1> QED
  BY <1>1, <1>2, <1>3, <1>4, <1>5, QuietMove

LEMMA AskKeeps ==
  ASSUME SharingInv, NEW q \in Requests, NEW op \in Resource!Ops, NEW u \in Users,
         Resource!Ask(q, op, u), UNCHANGED org
  PROVE  SharingInv'
<1> DEFINE stage == IF op \in {"assign", "unassign", "drop"} THEN "manage" ELSE "find"
           next == [Resource!NoRequest EXCEPT !.op = op, !.by = u,
                     !.content = IF op \in Resource!Saves THEN calls + 1 ELSE 0, !.pc = stage]
<1>1. calls + 1 \in 0 .. MaxCalls /\ 0 \in 0 .. MaxCalls
  BY WorkspaceAssumption DEF SharingInv, Resource!TypeOK, Resource!Ask
<1>2. next \in Request /\ next.pc \in {"manage", "find"} /\ next.op = op
  BY <1>1, NoRequestTyped
<1>3. Fits(next)
  BY <1>2 DEF Fits
<1>4. req' = [req EXCEPT ![q] = next] /\ req[q].pc = "free"
  BY DEF Resource!Ask
<1>5. /\ UNCHANGED <<org, kind, row, policy, teamspace, versions, crossed, dangling>>
      /\ calls' \in 0 .. MaxCalls /\ faults' \in 0 .. MaxFaults /\ crossed' \in BOOLEAN
  BY <1>1 DEF Resource!Ask, SharingInv, Resource!TypeOK
<1> HIDE DEF next
<1> QED
  BY <1>2, <1>3, <1>4, <1>5, QuietMove

LEMMA FindKeeps ==
  ASSUME SharingInv, NEW q \in Requests, Resource!Find(q)
  PROVE  SharingInv'
<1> USE DEF SharingInv
<1>1. req[q].pc = "find" /\ req[q].op # "restore" /\ Still
  BY DEF Resource!Find, Still
<1>2. CASE row.live
  <2> DEFINE next == [req[q] EXCEPT !.pc = "check", !.old = row.org, !.visibility = row.visibility]
  <2>1. row.org \in BOOLEAN /\ row.visibility \in {"private", "workspace"}
    BY DEF Resource!TypeOK, Resource!Row
  <2>2. /\ next \in Request /\ next.pc = "check" /\ next.op = req[q].op
        /\ next.old = row.org /\ next.visibility = row.visibility
    BY <2>1, RequestTyped
  <2>3. req' = [req EXCEPT ![q] = next]
    BY <1>2 DEF Resource!Find
  <2>4. Fits(next)
    BY <1>1, <2>2 DEF Fits
  <2>5. /\ UNCHANGED <<org, kind, row, policy, teamspace, versions, crossed, dangling>>
        /\ calls' \in 0 .. MaxCalls /\ faults' \in 0 .. MaxFaults /\ crossed' \in BOOLEAN
    BY <1>1, FrameTyped
  <2> HIDE DEF next
  <2> QED
    BY <1>1, <2>2, <2>3, <2>4, <2>5, QuietMove
<1>3. CASE ~row.live
  BY <1>1, <1>3, AnswerKeeps DEF Resource!Find
<1> QED
  BY <1>2, <1>3

LEMMA CheckRightsKeeps ==
  ASSUME SharingInv, NEW q \in Requests, Resource!Check(q) \/ Resource!Assign(q)
  PROVE  SharingInv'
<1>1. /\ Resource!Pass(q) \/ Resource!Answer(q)
      /\ req[q].pc = "check" \/ (req[q].pc = "manage" /\ req[q].op \in {"assign", "unassign"})
      /\ Still
  <2>1. CASE Resource!Check(q)
    <3>1. req[q].pc = "check" /\ Still
      BY <2>1, Zenon DEF Resource!Check, Still
    <3>2. Resource!Pass(q) \/ Resource!Answer(q)
      BY <2>1, Zenon DEF Resource!Check
    <3> QED
      BY <3>1, <3>2
  <2>2. CASE Resource!Assign(q)
    BY <2>2 DEF Resource!Assign, Still
  <2> QED
    BY <2>1, <2>2
<1>2. CASE Resource!Pass(q)
  BY <1>1, <1>2, PassKeeps DEF Resource!Saves
<1>3. CASE Resource!Answer(q)
  BY <1>1, <1>3, AnswerKeeps
<1> QED
  BY <1>1, <1>2, <1>3

LEMMA FindVersionKeeps ==
  ASSUME SharingInv, NEW q \in Requests, NEW v \in versions, Resource!FindVersion(q, v)
  PROVE  SharingInv'
<1> USE DEF SharingInv
<1>1. req[q].pc = "find" /\ req[q].op = "restore" /\ kind # "DASHBOARD" /\ Still
  BY DEF Resource!FindVersion, Still
<1>2. CASE row.live
  <2> DEFINE next == [req[q] EXCEPT !.pc = "write", !.old = row.org,
                        !.content = v.content, !.visibility = v.visibility]
  <2>1. row.org \in BOOLEAN /\ v.content \in 0 .. MaxCalls /\ v.visibility \in {"private", "workspace"}
    BY DEF Resource!TypeOK, Resource!Row
  <2>2. next \in Request /\ next.pc = "write" /\ next.op = req[q].op
    BY <2>1, RequestTyped
  <2>3. req' = [req EXCEPT ![q] = next]
    BY <1>2 DEF Resource!FindVersion
  <2>4. Fits(next)
    BY <1>1, <2>2 DEF Fits
  <2>5. /\ UNCHANGED <<org, kind, row, policy, teamspace, versions, crossed, dangling>>
        /\ calls' \in 0 .. MaxCalls /\ faults' \in 0 .. MaxFaults /\ crossed' \in BOOLEAN
    BY <1>1, FrameTyped
  <2> HIDE DEF next
  <2> QED
    BY <1>1, <2>2, <2>3, <2>4, <2>5, QuietMove
<1>3. CASE ~row.live
  BY <1>1, <1>3, AnswerKeeps DEF Resource!FindVersion
<1> QED
  BY <1>2, <1>3

LEMMA HistoryUnavailableKeeps ==
  ASSUME SharingInv, NEW q \in Requests, Resource!HistoryUnavailable(q), UNCHANGED org
  PROVE  SharingInv'
<1>1. req' = [req EXCEPT ![q] = Resource!NoRequest]
  BY DEF Resource!Answer, Resource!HistoryUnavailable
<1>2. Fits(Resource!NoRequest) /\ Resource!NoRequest.pc \notin Recording \cup {"check", "write"}
  BY NoRequestTyped DEF Fits
<1>3. /\ UNCHANGED <<org, kind, row, policy, teamspace, versions, dangling>> /\ crossed'
      /\ calls' \in 0 .. MaxCalls /\ faults' \in 0 .. MaxFaults /\ crossed' \in BOOLEAN
  BY WorkspaceAssumption DEF Resource!HistoryUnavailable, SharingInv, Resource!TypeOK
<1> QED
  BY <1>1, <1>2, <1>3, NoRequestTyped, QuietMove

-----------------------------------------------------------------------------
(* Steps that record what was written *)

LEMMA LatestTyped ==
  ASSUME SharingInv
  PROVE  Resource!Latest \in Nat /\ \A v \in versions : v.n \in 1 .. Resource!Latest
BY DEF SharingInv, Numbered

LEMMA ReadLatestKeeps ==
  ASSUME SharingInv, NEW q \in Requests, Resource!ReadLatest(q)
  PROVE  SharingInv'
<1> USE DEF SharingInv
<1> DEFINE next == [req[q] EXCEPT !.pc = "insert", !.next = Resource!Latest + 1]
<1>0. Resource!Latest + 1 \in Nat
  BY LatestTyped
<1>1. /\ next \in Request /\ next.pc = "insert" /\ next.next = Resource!Latest + 1
      /\ next.op = req[q].op /\ next.content = req[q].content
  BY <1>0, RequestTyped
<1>2. req' = [req EXCEPT ![q] = next] /\ req[q].pc = "read" /\ Still
  BY DEF Resource!ReadLatest, Still
<1>3. /\ UNCHANGED <<org, kind, row, policy, teamspace, versions, crossed, dangling>>
      /\ calls' \in 0 .. MaxCalls /\ faults' \in 0 .. MaxFaults /\ crossed' \in BOOLEAN
  BY <1>2, FrameTyped
<1> HIDE DEF next
<1>4. /\ req' \in [Requests -> Request] /\ req'[q] = next
      /\ \A p \in Requests \ {q} : req'[p] = req[p]
  BY <1>1, <1>2, Replaced
<1>5. Resource!Latest' = Resource!Latest
  BY <1>3 DEF Resource!Latest
<1>6. Resource!TypeOK'
  BY <1>3, <1>4 DEF Resource!TypeOK
<1>7. StagesMatch'
  BY <1>1, <1>2, <1>3, <1>4 DEF StagesMatch, Fits
<1>8. Numbered'
  BY <1>1, <1>3, <1>4, <1>5 DEF Numbered
<1>9. SharedIsLive'
  BY <1>3 DEF SharedIsLive
<1>10. Apart'
  <2> SUFFICES ASSUME ~crossed, row.live \/ kind = "DASHBOARD"
               PROVE  Alone' /\ FoundIsCurrent' /\ WrittenIsCurrent'
    BY <1>3 DEF Apart
  <2>1. Alone'
    BY <1>1, <1>2, <1>4 DEF Alone, Apart
  <2>2. FoundIsCurrent'
    BY <1>1, <1>3, <1>4 DEF FoundIsCurrent, Apart
  <2>3. WrittenIsCurrent'
    BY <1>1, <1>2, <1>3, <1>4, <1>5 DEF WrittenIsCurrent, Apart
  <2> QED
    BY <2>1, <2>2, <2>3
<1>11. LatestIsCurrent'
  BY <1>1, <1>4 DEF LatestIsCurrent, Resource!LatestIsCurrent
<1>12. PolicyFollowsSharing'
  BY <1>1, <1>2, <1>3, <1>4 DEF PolicyFollowsSharing, Resource!PolicyFollowsSharing
<1> QED
  BY <1>6, <1>7, <1>8, <1>9, <1>10, <1>11, <1>12

\* The policy is written: it follows the scope that was saved.
LEMMA KeepPolicyKeeps ==
  ASSUME SharingInv, NEW q \in Requests, Resource!KeepPolicy(q)
  PROVE  SharingInv'
<1> USE DEF SharingInv
<1> DEFINE shared == req[q].visibility = "workspace"
           next == IF kind = "QUERY" /\ (shared => org = "live")
                   THEN [req[q] EXCEPT !.pc = "read"] ELSE Resource!NoRequest
<1>1. req[q].pc = "policy" /\ req[q] \in Request /\ kind # "ERD" /\ req[q].op \in Resource!Saves
  BY RequestTyped DEF Resource!KeepPolicy, StagesMatch, Fits
<1>2. /\ next \in Request /\ next.pc \in {"read", "free"}
      /\ next.pc = "read" => kind = "QUERY" /\ next.op = req[q].op /\ next.content = req[q].content
      /\ next.pc = "free" => next = Resource!NoRequest /\ (kind = "QUERY" => shared /\ org # "live")
  BY <1>1, NoRequestTyped
<1>3. /\ req' = [req EXCEPT ![q] = next]
      /\ UNCHANGED <<org, role, kind, row, teamspace, versions, calls, faults, crossed>>
      /\ dangling' = FALSE
      /\ ~shared => policy' = "none"
      /\ shared /\ org = "live" /\ policy = "none" => policy' = "plain"
      /\ shared /\ ~(org = "live" /\ policy = "none") => policy' = policy
  BY DEF Resource!KeepPolicy, Resource!Go, Resource!Answer
<1> HIDE DEF next
<1>4. /\ req' \in [Requests -> Request] /\ req'[q] = next
      /\ \A p \in Requests \ {q} : req'[p] = req[p]
  BY <1>2, <1>3, Replaced
<1>5. Resource!Latest' = Resource!Latest
  BY <1>3 DEF Resource!Latest
<1>6. Resource!TypeOK'
  <2>1. policy' \in {"none", "plain", "assigned"}
    BY <1>3 DEF Resource!TypeOK
  <2> QED
    BY <2>1, <1>3, <1>4 DEF Resource!TypeOK
<1>7. StagesMatch'
  BY <1>1, <1>2, <1>3, <1>4, NoRequestTyped DEF StagesMatch, Fits
<1>8. Numbered'
  BY <1>2, <1>3, <1>4, <1>5 DEF Numbered
<1>9. SharedIsLive'
  BY <1>3 DEF SharedIsLive
<1>10. Apart'
  <2> SUFFICES ASSUME ~crossed, row.live \/ kind = "DASHBOARD"
               PROVE  Alone' /\ FoundIsCurrent' /\ WrittenIsCurrent'
    BY <1>3 DEF Apart
  <2>1. Alone'
    BY <1>1, <1>2, <1>4 DEF Alone, Apart
  <2>2. FoundIsCurrent'
    BY <1>2, <1>3, <1>4 DEF FoundIsCurrent, Apart
  <2>3. WrittenIsCurrent'
    BY <1>1, <1>2, <1>3, <1>4, <1>5 DEF WrittenIsCurrent, Apart
  <2> QED
    BY <2>1, <2>2, <2>3
<1>11. LatestIsCurrent'
  <2> SUFFICES ASSUME kind # "DASHBOARD", row.live, ~crossed,
                      \A p \in Requests : req'[p].pc \notin Recording
               PROVE  FALSE
    BY <1>3 DEF LatestIsCurrent, Resource!LatestIsCurrent
  <2>1. next.pc = "free"
    BY <1>2, <1>4
  <2>2. kind = "QUERY"
    BY <1>1 DEF Resource!TypeOK
  <2>3. shared /\ org # "live"
    BY <1>2, <2>1, <2>2
  <2>4. row.org
    BY <1>1, <2>3 DEF Apart, WrittenIsCurrent
  <2> QED
    BY <2>3, <2>4 DEF SharedIsLive
<1>12. PolicyFollowsSharing'
  <2> SUFFICES ASSUME row.live \/ kind = "DASHBOARD", ~crossed
               PROVE  row.org <=> policy' # "none"
    BY <1>3 DEF PolicyFollowsSharing, Resource!PolicyFollowsSharing
  <2>1. shared <=> row.org
    BY <1>1 DEF Apart, WrittenIsCurrent
  <2>2. row.org => org = "live"
    BY DEF SharedIsLive
  <2> QED
    BY <1>3, <2>1, <2>2
<1> QED
  BY <1>6, <1>7, <1>8, <1>9, <1>10, <1>11, <1>12

\* The policy is left as it is: the save goes on or is given up.
LEMMA PolicyFailsKeeps ==
  ASSUME SharingInv, NEW q \in Requests, Resource!PolicyFails(q), UNCHANGED org
  PROVE  SharingInv'
<1> USE DEF SharingInv
<1> DEFINE goes == req' = [req EXCEPT ![q] = [req[q] EXCEPT !.pc = "read"]] /\ kind = "QUERY"
<1>1. /\ req[q].pc = "policy" /\ req[q] \in Request /\ kind # "ERD" /\ req[q].op \in Resource!Saves
      /\ UNCHANGED <<org, kind, row, policy, teamspace, versions, calls>>
      /\ faults' \in 0 .. MaxFaults /\ dangling'
      /\ dangling' \in BOOLEAN
  BY RequestTyped, WorkspaceAssumption DEF Resource!PolicyFails, StagesMatch, Fits, Resource!TypeOK
<1>2. \/ goes /\ UNCHANGED crossed
      \/ /\ req' = [req EXCEPT ![q] = Resource!NoRequest]
         /\ crossed' = TRUE \/ (UNCHANGED crossed /\ kind # "QUERY")
  BY DEF Resource!PolicyFails, Resource!Go, Resource!Answer
<1> DEFINE next == IF goes THEN [req[q] EXCEPT !.pc = "read"] ELSE Resource!NoRequest
<1>3. /\ next \in Request /\ next.pc \in {"read", "free"}
      /\ next.pc = "read" => kind = "QUERY" /\ next.op = req[q].op /\ next.content = req[q].content
      /\ next.pc = "free" => next = Resource!NoRequest /\ (crossed' \/ kind = "DASHBOARD")
      /\ req' = [req EXCEPT ![q] = next]
  BY <1>1, <1>2, NoRequestTyped DEF Resource!TypeOK
<1>4. crossed' \in BOOLEAN /\ (crossed => crossed')
  BY <1>2 DEF Resource!TypeOK
<1> HIDE DEF next, goes
<1>5. /\ req' \in [Requests -> Request] /\ req'[q] = next
      /\ \A p \in Requests \ {q} : req'[p] = req[p]
  BY <1>3, Replaced
<1>6. Resource!Latest' = Resource!Latest
  BY <1>1 DEF Resource!Latest
<1>7. Resource!TypeOK' /\ SharedIsLive'
  BY <1>1, <1>4, <1>5 DEF Resource!TypeOK, SharedIsLive
<1>8. StagesMatch'
  BY <1>1, <1>3, <1>5, NoRequestTyped DEF StagesMatch, Fits
<1>9. Numbered'
  BY <1>1, <1>3, <1>5, <1>6 DEF Numbered
<1>10. Apart'
  <2> SUFFICES ASSUME ~crossed', row.live \/ kind = "DASHBOARD"
               PROVE  Alone' /\ FoundIsCurrent' /\ WrittenIsCurrent'
    BY <1>1 DEF Apart
  <2>1. Alone /\ FoundIsCurrent /\ WrittenIsCurrent
    BY <1>4 DEF Apart
  <2>2. Alone' /\ FoundIsCurrent'
    BY <1>1, <1>3, <1>5, <2>1 DEF Alone, FoundIsCurrent
  <2>3. WrittenIsCurrent'
    BY <1>1, <1>3, <1>5, <1>6, <2>1 DEF WrittenIsCurrent
  <2> QED
    BY <2>2, <2>3
<1>11. LatestIsCurrent'
  BY <1>1, <1>3, <1>5 DEF LatestIsCurrent, Resource!LatestIsCurrent
<1>12. PolicyFollowsSharing'
  BY <1>1 DEF PolicyFollowsSharing, Resource!PolicyFollowsSharing
<1> QED
  BY <1>7, <1>8, <1>9, <1>10, <1>11, <1>12

\* The version is recorded under the next number, or the index refuses it.
LEMMA InsertKeeps ==
  ASSUME SharingInv, NEW q \in Requests, Resource!Insert(q), UNCHANGED org
  PROVE  SharingInv'
<1> USE DEF SharingInv
<1> DEFINE v == [n |-> req[q].next, content |-> req[q].content, visibility |-> req[q].visibility]
           latest == Resource!Latest
<1>1. /\ req[q].pc = "insert" /\ req[q] \in Request /\ kind # "DASHBOARD"
      /\ latest \in Nat /\ req[q].next \in 1 .. latest + 1
  BY RequestTyped DEF Resource!Insert, StagesMatch, Fits, Numbered
<1>2. /\ req' = [req EXCEPT ![q] = Resource!NoRequest]
      /\ UNCHANGED <<org, role, kind, row, policy, teamspace, calls, faults, dangling>>
  BY DEF Resource!Insert, Resource!Answer
<1>3. /\ req' \in [Requests -> Request] /\ req'[q] = Resource!NoRequest
      /\ \A p \in Requests \ {q} : req'[p] = req[p]
  BY <1>2, NoRequestTyped, Replaced
<1>4. StagesMatch' /\ SharedIsLive'
  BY <1>2, <1>3, NoRequestTyped DEF StagesMatch, Fits, SharedIsLive
<1>5. CASE \E w \in versions : w.n = req[q].next
  <2>1. crossed' /\ crossed' \in BOOLEAN /\ versions' = versions
    BY <1>5 DEF Resource!Insert
  <2>2. Resource!Latest' = latest
    BY <2>1 DEF Resource!Latest
  <2>3. Resource!TypeOK'
    BY <1>2, <1>3, <2>1 DEF Resource!TypeOK
  <2>4. Numbered'
    BY <1>3, <2>1, <2>2, NoRequestTyped DEF Numbered
  <2>5. Apart' /\ LatestIsCurrent' /\ PolicyFollowsSharing'
    BY <2>1 DEF Apart, LatestIsCurrent, Resource!LatestIsCurrent, PolicyFollowsSharing,
                Resource!PolicyFollowsSharing
  <2> QED
    BY <1>4, <2>3, <2>4, <2>5
<1>6. CASE ~\E w \in versions : w.n = req[q].next
  <2>1. crossed' = crossed /\ versions' = versions \cup {v}
    BY <1>6 DEF Resource!Insert
  <2>2. req[q].next = latest + 1
    <3>1. req[q].next \notin 1 .. latest
      BY <1>6 DEF Numbered
    <3> QED
      BY <1>1, <3>1
  <2>3. v.n = latest + 1 /\ v.content = req[q].content
    BY <2>2
  <2>4. v \in [n : Nat, content : 0 .. MaxCalls, visibility : {"private", "workspace"}]
    BY <1>1
  <2> HIDE DEF v, latest
  <2>5. Resource!TypeOK'
    BY <1>2, <1>3, <2>1, <2>4 DEF Resource!TypeOK
  <2>6. \A w \in versions : w.n \in 1 .. latest
    BY DEF Numbered, latest
  <2>7. /\ \A w \in versions' : w.n \in 1 .. latest + 1
        /\ \A i \in 1 .. latest + 1 : \E w \in versions' : w.n = i
        /\ \A w, x \in versions' : w.n = x.n => w = x
    <3>1. \A w \in versions' : w.n \in 1 .. latest + 1
      BY <1>1, <2>1, <2>3, <2>6
    <3>2. \A i \in 1 .. latest + 1 : \E w \in versions' : w.n = i
      <4>1. \A i \in 1 .. latest : \E w \in versions : w.n = i
        BY DEF Numbered, latest
      <4>2. \A i \in 1 .. latest + 1 : i \in 1 .. latest \/ i = latest + 1
        BY <1>1
      <4> QED
        BY <2>1, <2>3, <4>1, <4>2
    <3>3. \A w, x \in versions' : w.n = x.n => w = x
      <4>1. \A w \in versions : w.n # v.n
        BY <1>1, <2>3, <2>6
      <4> QED
        BY <2>1, <4>1 DEF Numbered
    <3> QED
      BY <3>1, <3>2, <3>3
  <2>8. Resource!Latest' = latest + 1
    <3>1. latest + 1 \in Nat
      BY <1>1
    <3>2. Largest(versions') = latest + 1
      BY <2>7, <3>1, LargestIs
    <3>3. Resource!Latest' = Largest(versions')
      BY DEF Resource!Latest, Largest
    <3> QED
      BY <3>2, <3>3
  <2>9. Numbered'
    <3>1. \A p \in Requests : req'[p].pc = "insert" => req'[p].next \in 1 .. latest + 1
      BY <1>3, NoRequestTyped DEF Numbered, latest
    <3>2. \A p \in Requests : req'[p].pc = "insert" => req'[p].next \in 1 .. (latest + 1) + 1
      BY <1>1, <3>1
    <3> QED
      BY <1>1, <2>7, <2>8, <3>2 DEF Numbered
  <2>10. ASSUME ~crossed, row.live \/ kind = "DASHBOARD"
         PROVE  /\ \A p \in Requests : req'[p].pc \notin Recording
                /\ req[q].content = row.content
    BY <1>1, <1>3, <2>10, NoRequestTyped DEF Apart, Alone, WrittenIsCurrent
  <2>11. Apart'
    <3> SUFFICES ASSUME ~crossed, row.live \/ kind = "DASHBOARD"
                 PROVE  Alone' /\ FoundIsCurrent' /\ WrittenIsCurrent'
      BY <1>2, <2>1 DEF Apart
    <3>1. Alone' /\ WrittenIsCurrent'
      BY <2>10 DEF Alone, WrittenIsCurrent
    <3>2. FoundIsCurrent'
      BY <1>2, <1>3, NoRequestTyped DEF FoundIsCurrent, Apart
    <3> QED
      BY <3>1, <3>2
  <2>12. LatestIsCurrent'
    <3>1. ~crossed /\ row.live => v \in versions' /\ v.n = Resource!Latest' /\ v.content = row'.content
      BY <1>2, <2>1, <2>3, <2>8, <2>10
    <3> QED
      BY <1>2, <2>1, <3>1 DEF LatestIsCurrent, Resource!LatestIsCurrent
  <2>13. PolicyFollowsSharing'
    BY <1>1, <1>2, <1>3, <2>1 DEF PolicyFollowsSharing, Resource!PolicyFollowsSharing
  <2> QED
    BY <1>4, <2>5, <2>9, <2>11, <2>12, <2>13
<1> QED
  BY <1>5, <1>6

-----------------------------------------------------------------------------
(* Steps that write the row or its policy *)

\* A write by q of a row that keeps its organization known, where the other
\* requests were saving nothing unless saves have met.
LEMMA Undisturbed ==
  ASSUME SharingInv, NEW q \in Requests, ~Resource!Meets(q)
  PROVE  \A p \in Requests \ {q} :
           /\ req[p].pc \notin Recording
           /\ ~(req[p].pc \in {"check", "write"} /\ req[p].op \in Resource!Saves)
BY DEF SharingInv, StagesMatch, Fits, Resource!Meets, Resource!Saving

\* A save writes content and scope; it is the only one to record what it wrote.
LEMMA SaveKeeps ==
  ASSUME SharingInv, NEW q \in Requests, NEW next \in Request, req' = [req EXCEPT ![q] = next],
         UNCHANGED <<org, kind, policy, teamspace, versions, calls, faults, dangling>>,
         row.live, row' \in Resource!Row, row'.live, row'.org => org = "live",
         crossed' = (crossed \/ Resource!Meets(q)), req[q].pc = "write",
         next.op \in Resource!Saves, Fits(next), next.pc # "free" => row'.content = next.content,
         next.pc \in {"policy", "read"} \/ (kind = "DASHBOARD" /\ next.pc = "free"),
         next.pc = "policy" => (next.visibility = "workspace" <=> row'.org),
         next.pc # "policy" /\ ~crossed' => row'.org = row.org
  PROVE  SharingInv'
<1> USE DEF SharingInv
<1>1. /\ req' \in [Requests -> Request] /\ req'[q] = next
      /\ \A p \in Requests \ {q} : req'[p] = req[p]
  BY Replaced
<1>2. crossed' \in BOOLEAN
  BY DEF Resource!TypeOK
<1>3. Resource!TypeOK'
  BY <1>1, <1>2 DEF Resource!TypeOK
<1>4. StagesMatch'
  BY <1>1 DEF StagesMatch, Fits
<1>5. Resource!Latest' = Resource!Latest
  BY DEF Resource!Latest
<1>6. Numbered'
  BY <1>1, <1>5 DEF Numbered
<1>7. SharedIsLive'
  BY DEF SharedIsLive
<1>8. ASSUME ~crossed'
      PROVE  /\ ~crossed
             /\ \A p \in Requests \ {q} : /\ req'[p].pc \notin Recording
                                          /\ ~(req'[p].pc \in {"check", "write"} /\ req'[p].op \in Resource!Saves)
  BY <1>1, <1>8, Undisturbed
<1>9. Apart'
  <2> SUFFICES ASSUME ~crossed' PROVE Alone' /\ FoundIsCurrent' /\ WrittenIsCurrent'
    BY DEF Apart
  <2>1. Alone'
    BY <1>1, <1>8 DEF Alone
  <2>2. FoundIsCurrent'
    BY <1>1, <1>8 DEF FoundIsCurrent
  <2>3. WrittenIsCurrent'
    BY <1>1, <1>8 DEF WrittenIsCurrent
  <2> QED
    BY <2>1, <2>2, <2>3
<1>10. LatestIsCurrent'
  BY <1>1 DEF LatestIsCurrent, Resource!LatestIsCurrent
<1>11. PolicyFollowsSharing'
  <2> SUFFICES ASSUME ~crossed', ~dangling, next.pc # "policy"
               PROVE  row'.org <=> policy # "none"
    BY <1>1 DEF PolicyFollowsSharing, Resource!PolicyFollowsSharing
  <2>1. \A p \in Requests : req[p].pc # "policy"
    BY <1>1, <1>8
  <2>2. row.org <=> policy # "none"
    BY <1>8, <2>1 DEF PolicyFollowsSharing, Resource!PolicyFollowsSharing
  <2> QED
    BY <2>2
<1> QED
  BY <1>3, <1>4, <1>6, <1>7, <1>9, <1>10, <1>11

LEMMA SharesTyped ==
  ASSUME Resource!TypeOK, NEW q \in Requests
  PROVE  Resource!Shares(q) \in BOOLEAN
<1>1. req[q].old \in BOOLEAN
  BY RequestTyped
<1> QED
  BY <1>1 DEF Resource!Shares

\* update: the scope written is the one found, so the policy needs no change
\* unless the save asks for another.
LEMMA UpdateKeeps ==
  ASSUME SharingInv, NEW q \in Requests, Resource!Update(q)
  PROVE  SharingInv'
<1> USE DEF SharingInv
<1> DEFINE shares == Resource!Shares(q)
           stage == Resource!AfterWrite(q)
<1>1. /\ req[q].pc = "write" /\ req[q].op \in Resource!Saves \ {"restore"} /\ req[q] \in Request
      /\ UNCHANGED <<org, role, kind, policy, teamspace, versions, calls, faults, dangling>>
      /\ shares \in BOOLEAN
  BY RequestTyped, SharesTyped DEF Resource!Update
<1>2. CASE row.live /\ (shares => org = "live")
  <2> DEFINE scope == IF kind = "ERD" THEN row.org ELSE shares
             visibility == IF shares THEN "workspace" ELSE "private"
             next == IF stage = "free" THEN Resource!NoRequest
                     ELSE [req[q] EXCEPT !.pc = stage, !.visibility = visibility]
  <2>1. /\ row' = [row EXCEPT !.content = req[q].content, !.org = scope, !.visibility = visibility]
        /\ crossed' = (crossed \/ Resource!Meets(q))
    BY <1>2 DEF Resource!Update
  <2>2. /\ row \in Resource!Row /\ scope \in BOOLEAN /\ visibility \in {"private", "workspace"}
        /\ req[q].content \in 0 .. MaxCalls
    BY <1>1 DEF Resource!TypeOK, Resource!Row
  <2>3. /\ row' \in Resource!Row /\ row'.live /\ row'.org = scope /\ row'.visibility = visibility
        /\ row'.content = req[q].content
    BY <1>2, <2>1, <2>2 DEF Resource!Row
  <2>4. row.org => org = "live"
    BY DEF SharedIsLive
  <2>5. row'.org => org = "live"
    BY <1>2, <2>3, <2>4
  <2>6. stage = IF kind # "ERD" /\ (req[q].old # scope \/ (kind = "QUERY" /\ scope)) THEN "policy"
                ELSE IF kind = "DASHBOARD" THEN "free" ELSE "read"
    BY <1>1, <2>3 DEF Resource!AfterWrite
  <2>7. req' = [req EXCEPT ![q] = next]
    <3>1. CASE stage = "free"
      BY <1>2, <3>1, Zenon DEF Resource!Update, Resource!Answer
    <3>2. CASE stage # "free"
      <4>1. req' = [req EXCEPT ![q].pc = stage, ![q].visibility = row'.visibility]
        BY <1>2, <3>2 DEF Resource!Update
      <4> QED
        BY <2>3, <3>2, <4>1 DEF Resource!TypeOK
    <3> QED
      BY <3>1, <3>2
  <2>8. /\ next \in Request /\ next.pc = stage /\ next.op \in Resource!Saves
        /\ stage # "free" => next.op = req[q].op /\ next.visibility = visibility /\ next.content = req[q].content
    <3>1. stage \in {"policy", "read", "free"}
      BY <2>6
    <3> HIDE DEF stage, visibility
    <3>2. CASE stage = "free"
      BY <3>2, NoRequestTyped DEF Resource!Saves
    <3>3. CASE stage # "free"
      BY <1>1, <2>2, <3>1, <3>3
    <3> QED
      BY <3>2, <3>3
  <2>9. ~crossed => req[q].old = row.org
    BY <1>1, <1>2 DEF Apart, FoundIsCurrent
  <2> HIDE DEF next, stage, shares
  <2>10. Fits(next)
    BY <1>1, <2>6, <2>8 DEF Fits
  <2>11. next.pc # "policy" /\ ~crossed' => row'.org = row.org
    BY <2>1, <2>3, <2>6, <2>8, <2>9
  <2>12. /\ next.pc = "policy" => (next.visibility = "workspace" <=> row'.org)
         /\ next.pc \in {"policy", "read"} \/ (kind = "DASHBOARD" /\ next.pc = "free")
    BY <2>3, <2>6, <2>8
  <2>13. next.pc # "free" => row'.content = next.content
    BY <2>3, <2>8
  <2> QED
    BY <1>1, <1>2, <2>1, <2>3, <2>5, <2>7, <2>8, <2>10, <2>11, <2>12, <2>13, SaveKeeps
<1>3. CASE ~(row.live /\ (shares => org = "live"))
  <2>1. Resource!Answer(q) /\ UNCHANGED <<row, crossed>>
    BY <1>3 DEF Resource!Update
  <2> QED
    BY <1>1, <2>1, AnswerKeeps DEF Still
<1> QED
  BY <1>2, <1>3

\* restoreVersion: content and visibility of the snapshot, the organization as it is.
LEMMA RestoreKeeps ==
  ASSUME SharingInv, NEW q \in Requests, Resource!Restore(q)
  PROVE  SharingInv'
<1> USE DEF SharingInv
<1>1. /\ req[q].pc = "write" /\ req[q].op = "restore" /\ req[q] \in Request /\ kind # "DASHBOARD"
      /\ UNCHANGED <<org, role, kind, policy, teamspace, versions, calls, faults, dangling>>
  BY RequestTyped DEF Resource!Restore, StagesMatch, Fits
<1>2. CASE row.live
  <2> DEFINE visibility == IF kind = "QUERY" /\ req[q].old THEN req[q].visibility ELSE "private"
             next == [req[q] EXCEPT !.pc = "read", !.visibility = visibility]
  <2>1. /\ row' = [row EXCEPT !.content = req[q].content, !.visibility = visibility]
        /\ crossed' = (crossed \/ Resource!Meets(q))
        /\ req' = [req EXCEPT ![q].pc = "read", ![q].visibility = row'.visibility]
    BY <1>2 DEF Resource!Restore
  <2>2. row \in Resource!Row /\ visibility \in {"private", "workspace"} /\ req[q].content \in 0 .. MaxCalls
    BY <1>1 DEF Resource!TypeOK
  <2>3. /\ row' \in Resource!Row /\ row'.live /\ row'.org = row.org /\ row'.visibility = visibility
        /\ row'.content = req[q].content
    BY <1>2, <2>1, <2>2 DEF Resource!Row
  <2> HIDE DEF visibility
  <2>4. req' = [req EXCEPT ![q] = next]
    BY <2>1, <2>3 DEF Resource!TypeOK
  <2>5. /\ next \in Request /\ next.pc = "read" /\ next.op = "restore" /\ next.content = req[q].content
    BY <1>1, <2>2
  <2> HIDE DEF next
  <2>6. Fits(next) /\ next.op \in Resource!Saves
    BY <1>1, <2>5 DEF Fits, Resource!Saves
  <2>7. row'.org => org = "live"
    BY <2>3 DEF SharedIsLive
  <2> QED
    BY <1>1, <1>2, <2>1, <2>3, <2>4, <2>5, <2>6, <2>7, SaveKeeps
<1>3. CASE ~row.live
  <2>1. Resource!Answer(q) /\ UNCHANGED <<row, crossed>>
    BY <1>3 DEF Resource!Restore
  <2> QED
    BY <1>1, <2>1, AnswerKeeps DEF Still
<1> QED
  BY <1>2, <1>3

\* A request that ends after it changed no more than the policy and the
\* teamspace, the policy to what the scope of the row asks for.
LEMMA PolicyWriteKeeps ==
  ASSUME SharingInv, NEW q \in Requests, Resource!Answer(q), req[q].pc \notin Recording,
         UNCHANGED <<org, kind, row, versions, calls, faults>>,
         policy' \in {"none", "plain", "assigned"}, teamspace' \in BOOLEAN,
         UNCHANGED crossed, dangling' \in BOOLEAN, dangling => dangling',
         ~dangling' => policy' = policy \/ (row.org /\ policy' # "none")
                       \/ (policy # "none" /\ policy' # "none")
  PROVE  SharingInv'
<1> USE DEF SharingInv
<1>1. req' = [req EXCEPT ![q] = Resource!NoRequest]
  BY DEF Resource!Answer
<1>2. /\ req' \in [Requests -> Request] /\ req'[q] = Resource!NoRequest
      /\ \A p \in Requests \ {q} : req'[p] = req[p]
  BY <1>1, NoRequestTyped, Replaced
<1>3. Resource!Latest' = Resource!Latest
  BY DEF Resource!Latest
<1>4. Resource!TypeOK' /\ SharedIsLive'
  BY <1>2 DEF Resource!TypeOK, SharedIsLive
<1>5. StagesMatch'
  BY <1>2, NoRequestTyped DEF StagesMatch, Fits
<1>6. Numbered'
  BY <1>2, <1>3, NoRequestTyped DEF Numbered
<1>7. Apart'
  <2> SUFFICES ASSUME ~crossed', row.live \/ kind = "DASHBOARD"
               PROVE  Alone' /\ FoundIsCurrent' /\ WrittenIsCurrent'
    BY DEF Apart
  <2>1. Alone /\ FoundIsCurrent /\ WrittenIsCurrent
    BY DEF Apart
  <2>2. Alone' /\ FoundIsCurrent'
    BY <1>2, <2>1, NoRequestTyped DEF Alone, FoundIsCurrent
  <2>3. WrittenIsCurrent'
    BY <1>2, <1>3, <2>1, NoRequestTyped DEF WrittenIsCurrent
  <2> QED
    BY <2>2, <2>3
<1>8. LatestIsCurrent'
  BY <1>2, <1>3 DEF LatestIsCurrent, Resource!LatestIsCurrent
<1>9. PolicyFollowsSharing'
  BY <1>2 DEF PolicyFollowsSharing, Resource!PolicyFollowsSharing
<1> QED
  BY <1>4, <1>5, <1>6, <1>7, <1>8, <1>9

LEMMA WriteAssignmentKeeps ==
  ASSUME SharingInv, NEW q \in Requests, Resource!WriteAssignment(q), UNCHANGED org
  PROVE  SharingInv'
<1> USE DEF SharingInv
<1>1. /\ Resource!Answer(q) /\ req[q].pc = "write"
      /\ UNCHANGED <<org, kind, row, versions, teamspace, calls, faults, crossed>>
      /\ dangling' = (dangling \/ (~row.org /\ policy' # "none"))
      /\ policy' = policy \/ policy' \in {"plain", "assigned"}
  BY DEF Resource!WriteAssignment
<1>2. row.org \in BOOLEAN /\ dangling \in BOOLEAN /\ teamspace \in BOOLEAN
      /\ policy \in {"none", "plain", "assigned"}
  BY DEF Resource!TypeOK, Resource!Row
<1>3. policy' \in {"none", "plain", "assigned"} /\ teamspace' \in BOOLEAN /\ dangling' \in BOOLEAN
  BY <1>1, <1>2
<1>4. ~dangling' => policy' = policy \/ (row.org /\ policy' # "none")
  BY <1>1, <1>2
<1> QED
  BY <1>1, <1>3, <1>4, PolicyWriteKeeps

LEMMA DropTeamspaceKeeps ==
  ASSUME SharingInv, NEW q \in Requests, Resource!DropTeamspace(q), UNCHANGED org
  PROVE  SharingInv'
<1> USE DEF SharingInv
<1>1. /\ Resource!Answer(q) /\ req[q].pc = "manage"
      /\ UNCHANGED <<org, kind, row, versions, calls, faults, crossed, dangling>>
  BY DEF Resource!DropTeamspace
<1>2. /\ policy' = policy \/ (policy = "assigned" /\ policy' = "plain")
      /\ teamspace' = FALSE \/ teamspace' = teamspace
  BY DEF Resource!DropTeamspace
<1>3. policy' \in {"none", "plain", "assigned"} /\ teamspace' \in BOOLEAN /\ dangling' \in BOOLEAN
  BY <1>1, <1>2 DEF Resource!TypeOK
<1> QED
  BY <1>1, <1>2, <1>3, PolicyWriteKeeps

\* The row goes away, a dashboard's policy with it.
LEMMA RemoveKeeps ==
  ASSUME SharingInv, NEW q \in Requests, Resource!Remove(q), UNCHANGED org
  PROVE  SharingInv'
<1> USE DEF SharingInv
<1>1. /\ req' = [req EXCEPT ![q] = Resource!NoRequest] /\ req[q].pc = "write" /\ req[q].op = "remove"
      /\ UNCHANGED <<org, kind, teamspace, versions, calls, faults>>
      /\ row' = [row EXCEPT !.live = FALSE, !.org = FALSE]
      /\ crossed' = (crossed \/ Resource!Meets(q))
      /\ policy' = IF kind = "DASHBOARD" /\ row.live THEN "none" ELSE policy
      /\ dangling' = (dangling /\ ~(kind = "DASHBOARD" /\ row.live))
  BY DEF Resource!Remove, Resource!Answer
<1>2. /\ req' \in [Requests -> Request] /\ req'[q] = Resource!NoRequest
      /\ \A p \in Requests \ {q} : req'[p] = req[p]
  BY <1>1, NoRequestTyped, Replaced
<1>3. row' \in Resource!Row /\ ~row'.live /\ ~row'.org
  BY <1>1 DEF Resource!TypeOK, Resource!Row
<1>4. Resource!TypeOK'
  <2>1. policy' \in {"none", "plain", "assigned"} /\ crossed' \in BOOLEAN /\ dangling' \in BOOLEAN
    BY <1>1 DEF Resource!TypeOK
  <2> QED
    BY <1>1, <1>2, <1>3, <2>1 DEF Resource!TypeOK
<1>5. StagesMatch'
  BY <1>1, <1>2, NoRequestTyped DEF StagesMatch, Fits
<1>6. Resource!Latest' = Resource!Latest
  BY <1>1 DEF Resource!Latest
<1>7. Numbered'
  BY <1>1, <1>2, <1>6, NoRequestTyped DEF Numbered
<1>8. SharedIsLive'
  BY <1>3 DEF SharedIsLive
<1>9. ASSUME ~crossed'
      PROVE  /\ ~crossed
             /\ \A p \in Requests : /\ req'[p].pc \notin Recording
                                   /\ ~(req'[p].pc \in {"check", "write"} /\ req'[p].op \in Resource!Saves)
             /\ \A p \in Requests : req[p].pc # "policy"
  <2>1. ~crossed /\ ~Resource!Meets(q)
    BY <1>1, <1>9
  <2>2. \A p \in Requests \ {q} :
           /\ req[p].pc \notin Recording
           /\ ~(req[p].pc \in {"check", "write"} /\ req[p].op \in Resource!Saves)
    BY <2>1, Undisturbed
  <2> QED
    BY <1>1, <1>2, <2>1, <2>2, NoRequestTyped
<1>10. Apart'
  BY <1>9 DEF Apart, Alone, FoundIsCurrent, WrittenIsCurrent
<1>11. LatestIsCurrent'
  BY <1>3 DEF LatestIsCurrent, Resource!LatestIsCurrent
<1>12. PolicyFollowsSharing'
  <2> SUFFICES ASSUME ~crossed', ~dangling', kind = "DASHBOARD", ~row.live
               PROVE  policy' = "none"
    BY <1>1, <1>3 DEF PolicyFollowsSharing, Resource!PolicyFollowsSharing
  <2>1. row.org <=> policy # "none"
    BY <1>1, <1>9 DEF PolicyFollowsSharing, Resource!PolicyFollowsSharing
  <2>2. ~row.org
    BY DEF SharedIsLive
  <2> QED
    BY <1>1, <2>1, <2>2
<1> QED
  BY <1>4, <1>5, <1>7, <1>8, <1>10, <1>11, <1>12

-----------------------------------------------------------------------------
(* Steps of the team *)

LEMMA OrganizationGoneKeeps ==
  ASSUME SharingInv, Resource!OrganizationGone
  PROVE  SharingInv'
<1> USE DEF SharingInv
<1>1. /\ row' = [row EXCEPT !.org = FALSE] /\ policy' = "none" /\ teamspace' = FALSE
      /\ crossed' = (crossed \/ \E q \in Requests : req[q].pc # "free") /\ dangling' = FALSE
      /\ UNCHANGED <<kind, versions, req, calls, faults>>
  BY DEF Resource!OrganizationGone
<1>2. row' \in Resource!Row /\ ~row'.org /\ row'.live = row.live /\ row'.content = row.content
  BY <1>1 DEF Resource!TypeOK, Resource!Row
<1>3. Resource!TypeOK'
  BY <1>1, <1>2 DEF Resource!TypeOK
<1>4. StagesMatch' /\ SharedIsLive'
  BY <1>1, <1>2 DEF StagesMatch, Fits, SharedIsLive
<1>5. Resource!Latest' = Resource!Latest
  BY <1>1 DEF Resource!Latest
<1>6. Numbered'
  BY <1>1, <1>5 DEF Numbered
<1>7. ~crossed' => ~crossed /\ \A q \in Requests : req[q].pc = "free"
  BY <1>1
<1>8. Apart'
  BY <1>1, <1>7 DEF Apart, Alone, FoundIsCurrent, WrittenIsCurrent
<1>9. LatestIsCurrent'
  BY <1>1, <1>2, <1>5, <1>7 DEF LatestIsCurrent, Resource!LatestIsCurrent
<1>10. PolicyFollowsSharing'
  BY <1>1, <1>2 DEF PolicyFollowsSharing, Resource!PolicyFollowsSharing
<1> QED
  BY <1>3, <1>4, <1>6, <1>8, <1>9, <1>10

\* Nothing but its deletion ends an organization.
LEMMA UnchangedKeeps ==
  ASSUME SharingInv, UNCHANGED resourceVars, org = "live" => org' = "live"
  PROVE  SharingInv'
<1> USE DEF SharingInv, resourceVars
<1>1. Resource!Latest' = Resource!Latest
  BY DEF Resource!Latest
<1>2. Resource!TypeOK' /\ StagesMatch' /\ SharedIsLive'
  BY DEF Resource!TypeOK, StagesMatch, Fits, SharedIsLive
<1>3. Numbered'
  BY <1>1 DEF Numbered
<1>4. Apart'
  BY <1>1 DEF Apart, Alone, FoundIsCurrent, WrittenIsCurrent
<1>5. LatestIsCurrent' /\ PolicyFollowsSharing'
  BY <1>1 DEF LatestIsCurrent, Resource!LatestIsCurrent, PolicyFollowsSharing, Resource!PolicyFollowsSharing
<1> QED
  BY <1>2, <1>3, <1>4, <1>5

LEMMA WorkKeepsOrganization ==
  ASSUME Work
  PROVE  org = "live" => org' = "live"
BY DEF Work, Crash, Create, AddOwner, Invite, Join, MarkAccepted, Decline, SetRole, Expel, Check

LEMMA ResourceStep ==
  ASSUME SharingInv, Resource!Next, UNCHANGED teamVars
  PROVE  SharingInv'
<1>1. UNCHANGED org
  BY DEF teamVars
<1> QED
  BY <1>1, AskKeeps, FindKeeps, CheckRightsKeeps, UpdateKeeps, KeepPolicyKeeps, RestoreKeeps, RemoveKeeps,
     ReadLatestKeeps, InsertKeeps, HistoryUnavailableKeeps, FindVersionKeeps, WriteAssignmentKeeps,
     DropTeamspaceKeeps, PolicyFailsKeeps DEF Resource!Next

LEMMA SharingStep ==
  ASSUME SharingInv, [WorkspaceNext]_vars
  PROVE  SharingInv'
<1>1. CASE Work /\ UNCHANGED resourceVars
  BY <1>1, WorkKeepsOrganization, UnchangedKeeps
<1>2. CASE Resource!OrganizationGone
  BY <1>2, OrganizationGoneKeeps
<1>3. CASE Resource!Next /\ UNCHANGED teamVars
  BY <1>3, ResourceStep
<1>4. CASE UNCHANGED vars
  BY <1>4, UnchangedKeeps DEF vars, teamVars
<1> QED
  BY <1>1, <1>2, <1>3, <1>4 DEF WorkspaceNext

-----------------------------------------------------------------------------
(* Initial states *)

LEMMA InitResource ==
  ASSUME NEW spent \in {0, 1, MaxCalls}, Resource!InitWith(spent), kind = "QUERY" \/ org = "live"
  PROVE  SharingInv
<1>1. spent \in 0 .. MaxCalls
  BY WorkspaceAssumption
<1>2. PICK shared \in BOOLEAN :
        /\ shared => kind = "ERD"
        /\ row = [live |-> TRUE, org |-> shared, visibility |-> "private", content |-> 0]
        /\ policy = IF shared THEN "plain" ELSE "none"
  BY DEF Resource!InitWith
<1>3. /\ kind \in {"QUERY", "DASHBOARD", "ERD"} /\ teamspace = TRUE /\ calls = spent /\ faults = 0
      /\ crossed = FALSE /\ dangling = FALSE
      /\ versions = IF kind = "DASHBOARD" THEN {} ELSE {[n |-> 1, content |-> 0, visibility |-> "private"]}
      /\ req = [q \in Requests |-> Resource!NoRequest]
  BY DEF Resource!InitWith
<1>4. 0 \in 0 .. MaxCalls /\ 0 \in 0 .. MaxFaults
  BY WorkspaceAssumption
<1>5. Resource!TypeOK
  <2>1. req \in [Requests -> Request]
    BY <1>3, NoRequestTyped
  <2>2. row \in Resource!Row /\ policy \in {"none", "plain", "assigned"}
    BY <1>2, <1>4 DEF Resource!Row
  <2>3. versions \subseteq [n : Nat, content : 0 .. MaxCalls, visibility : {"private", "workspace"}]
    BY <1>3, <1>4
  <2> QED
    BY <1>1, <1>3, <1>4, <2>1, <2>2, <2>3 DEF Resource!TypeOK
<1>6. \A q \in Requests : req[q].pc = "free" /\ req[q].op = "edit"
  BY <1>3, NoRequestTyped
<1>7. Resource!Latest = Largest(versions)
  BY DEF Resource!Latest, Largest
<1>8. Resource!Latest = IF kind = "DASHBOARD" THEN 0 ELSE 1
  <2>1. ASSUME kind = "DASHBOARD" PROVE Largest(versions) = 0
    BY <1>3, <2>1 DEF Largest
  <2>2. ASSUME kind # "DASHBOARD" PROVE Largest(versions) = 1
    <3>1. versions = {[n |-> 1, content |-> 0, visibility |-> "private"]}
      BY <1>3, <2>2
    <3>2. (\A v \in versions : v.n \in 1 .. 1) /\ (\A i \in 1 .. 1 : \E v \in versions : v.n = i)
      BY <3>1
    <3> QED
      BY <3>2, LargestIs
  <2> QED
    BY <1>7, <2>1, <2>2
<1>9. Numbered
  <2>1. CASE kind = "DASHBOARD"
    BY <1>3, <1>6, <1>8, <2>1 DEF Numbered
  <2>2. CASE kind # "DASHBOARD"
    <3>1. versions = {[n |-> 1, content |-> 0, visibility |-> "private"]} /\ Resource!Latest = 1
      BY <1>3, <1>8, <2>2
    <3> QED
      BY <1>6, <3>1 DEF Numbered
  <2> QED
    BY <2>1, <2>2
<1>10. StagesMatch /\ SharedIsLive /\ Apart
  BY <1>2, <1>3, <1>6 DEF StagesMatch, Fits, SharedIsLive, Apart, Alone, FoundIsCurrent, WrittenIsCurrent
<1>11. LatestIsCurrent /\ PolicyFollowsSharing
  BY <1>2, <1>3, <1>8 DEF LatestIsCurrent, Resource!LatestIsCurrent, PolicyFollowsSharing,
                          Resource!PolicyFollowsSharing
<1> QED
  BY <1>5, <1>9, <1>10, <1>11 DEF SharingInv

LEMMA InitSharing == WorkspaceInit => SharingInv
BY InitResource DEF WorkspaceInit, FromScratch, Settled

LEMMA SharingInvariant == WorkspaceSpec => []SharingInv
<1>1. SharingInv /\ [WorkspaceNext]_vars => SharingInv'
  BY SharingStep
<1> QED
  BY InitSharing, <1>1, PTL DEF WorkspaceSpec

-----------------------------------------------------------------------------
(* Results *)

\* The rows and requests of the team and of the resource keep their types.
THEOREM WorkspacesTyped == WorkspaceSpec => []WorkspaceTypeOK
<1>1. TeamInv /\ SharingInv => WorkspaceTypeOK
  BY DEF TeamInv, SharingInv, WorkspaceTypeOK
<1> QED
  BY TeamInvariant, SharingInvariant, <1>1, PTL

\* Version numbers have no gap and no duplicate, however createVersionRecord
\* is interleaved: the number is read before the insert the index may refuse.
THEOREM HistoryNumbered == WorkspaceSpec => []VersionsNumbered
<1>1. SharingInv => VersionsNumbered
  <2> SUFFICES ASSUME SharingInv PROVE VersionsNumbered
    OBVIOUS
  <2>1. \A v, w \in versions : v.n = w.n => v = w
    BY DEF SharingInv, Numbered
  <2>2. ASSUME NEW v \in versions, v.n > 1 PROVE \E w \in versions : w.n = v.n - 1
    <3>1. v.n \in 1 .. Resource!Latest /\ Resource!Latest \in Nat
      BY DEF SharingInv, Numbered
    <3>2. v.n - 1 \in 1 .. Resource!Latest
      BY <2>2, <3>1
    <3> QED
      BY <3>2 DEF SharingInv, Numbered
  <2> QED
    BY <2>1, <2>2 DEF VersionsNumbered, Resource!VersionsNumbered
<1> QED
  BY SharingInvariant, <1>1, PTL

\* Unless saves meet or one leaves no version, the last version is what the
\* query or workspace holds when nothing is under way.
THEOREM HistoryIsCurrent == WorkspaceSpec => []LatestIsCurrent
BY SharingInvariant, PTL DEF SharingInv

\* So the history has no gap and ends with what the resource holds, however the saves
\* of its users interleave.
THEOREM HistoryIsFaithful == WorkspaceSpec => []HistoryFaithful
BY HistoryNumbered, HistoryIsCurrent, PTL DEF HistoryFaithful

\* Policy and teamspace rows follow the scope of the row: unsharing clears
\* them, sharing makes them, however the other requests interleave.
THEOREM PolicyIsRight == WorkspaceSpec => []PolicyFollowsSharing
BY SharingInvariant, PTL DEF SharingInv

\* An edit, for which the right to write is enough, leaves the scope as it is
\* (update writes back what it found), unless saves have met or a restore has
\* left a shared query private.
THEOREM EditKeepsScope == WorkspaceSpec => ScopeNeedsManage
<1> DEFINE Kept == \A q \in Requests : req[q].op = "edit" /\ req[q].pc = "write" /\ req'[q].pc # "write"
                     => row'.org = row.org \/ crossed' \/ (row.org /\ row.visibility = "private")
<1>1. ASSUME SharingInv, [WorkspaceNext]_vars PROVE Kept
  <2> SUFFICES ASSUME NEW q \in Requests, req[q].op = "edit", req[q].pc = "write", req'[q].pc # "write",
                      ~crossed', row'.org # row.org
               PROVE  row.org /\ row.visibility = "private"
    BY Zenon
  <2>1. Resource!Next
    <3>1. req' # req
      OBVIOUS
    <3> QED
      BY <1>1, <3>1 DEF WorkspaceNext, vars, resourceVars, Resource!OrganizationGone
  <2>2. PICK p \in Requests : Resource!Update(p) \/ Resource!Remove(p)
    <3>1. PICK p \in Requests : Resource!Update(p) \/ Resource!Remove(p) \/ Resource!Restore(p) \/ UNCHANGED row
      BY <2>1, Zenon DEF Resource!Next, Resource!Ask, Resource!Find, Resource!Check, Resource!KeepPolicy,
         Resource!PolicyFails, Resource!ReadLatest, Resource!Insert, Resource!HistoryUnavailable, Resource!FindVersion,
         Resource!Assign, Resource!WriteAssignment, Resource!DropTeamspace
    <3>2. ASSUME Resource!Restore(p) PROVE row'.org = row.org
      BY <1>1, <3>2 DEF Resource!Restore, SharingInv, Resource!TypeOK, Resource!Row
    <3> QED
      BY <3>1, <3>2
  <2>3. p = q
    <3>1. req' = [req EXCEPT ![p] = req'[p]]
      <4>1. \A r \in Requests \ {p} : req'[r] = req[r]
        BY <1>1, <2>2 DEF Resource!Update, Resource!Remove, Resource!Answer, SharingInv, Resource!TypeOK
      <4> QED
        BY <1>1, <4>1, SharingStep DEF SharingInv, Resource!TypeOK
    <3> QED
      BY <1>1, <3>1 DEF SharingInv, Resource!TypeOK
  <2>4. Resource!Update(q)
    BY <2>2, <2>3 DEF Resource!Remove
  <2>5. /\ row.live /\ kind # "ERD" /\ ~crossed
        /\ row'.org = Resource!Shares(q)
    <3>1. row' = [row EXCEPT !.content = req[q].content,
                    !.org = IF kind = "ERD" THEN @ ELSE Resource!Shares(q),
                    !.visibility = IF Resource!Shares(q) THEN "workspace" ELSE "private"]
          /\ row.live /\ crossed' = (crossed \/ Resource!Meets(q))
      BY <2>4 DEF Resource!Update
    <3> QED
      BY <1>1, <3>1 DEF SharingInv, Resource!TypeOK, Resource!Row
  <2>6. req[q].old = row.org /\ req[q].visibility = row.visibility
    BY <1>1, <2>5 DEF SharingInv, Apart, FoundIsCurrent, Resource!Saves
  <2>7. Resource!Shares(q) <=> req[q].old /\ req[q].visibility = "workspace"
    BY DEF Resource!Shares
  <2>8. row.org \in BOOLEAN /\ row.visibility \in {"private", "workspace"} /\ Resource!Shares(q) \in BOOLEAN
    BY <1>1, SharesTyped DEF SharingInv, Resource!TypeOK, Resource!Row
  <2> QED
    BY <2>5, <2>6, <2>7, <2>8
<1> HIDE DEF Kept
<1>2. WorkspaceSpec => [][Kept]_(Resource!sharingVars)
  BY <1>1, SharingInvariant, PTL DEF WorkspaceSpec
<1> QED
  BY <1>2 DEF Kept, ScopeNeedsManage, Resource!ScopeNeedsManage

-----------------------------------------------------------------------------
(* The composition *)

\* Whichever of them a behaviour exercises, the server and the canvas each behave as their own
\* specification says.
THEOREM DesignsKeepApart == DesignsSpec => WorkspaceSpec /\ ErdCanvas!Spec
<1>1. DesignsInit => WorkspaceInit /\ ErdCanvas!Init
  BY DEF DesignsInit
<1>2. [DesignsNext]_<<focus, vars, erd>> => [WorkspaceNext]_vars
  BY DEF DesignsNext
<1>3. [DesignsNext]_<<focus, vars, erd>> => [ErdCanvas!Next]_ErdCanvas!erdVars
  BY DEF DesignsNext, erd, ErdCanvas!erdVars
<1> QED
  BY <1>1, <1>2, <1>3, PTL DEF DesignsSpec, WorkspaceSpec, ErdCanvas!Spec
=============================================================================
