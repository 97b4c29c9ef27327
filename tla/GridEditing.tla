---------------------------- MODULE GridEditing ----------------------------
(***************************************************************************)
(* Edits of a table's rows in the data grid: what was typed is held in the *)
(* component until Save writes it row by row (useDataGridEditing, the      *)
(* grid's inputs and buttons, and the server's updateRow and deleteRows).  *)
(* One column stands for the columns of a row; edits are numbered as they  *)
(* are typed.                                                              *)
(***************************************************************************)
EXTENDS Naturals, Sequences

CONSTANTS Rows, Conns,
          Saves,    \* saves that may be under way at once
          MaxEdits, \* bound: edits typed
          MaxMoves, \* bound: cancels, departures, connection switches, other operations
          MaxFaults \* bound: row writes that fail or whose answer is lost

VARIABLES conn,        \* the active connection
          isEditMode, pendingChanges, isSaving,
          save,        \* a save under way: the changes it captured and the rows left to write
          jobs,        \* schema changes, deletions and insertions under way
          stored,      \* the last edit stored in each row, by connection
          deleted,     \* rows that are gone
          edits,       \* ghost: the edits typed, their row and connection
          spent, broken,
          open,        \* ghost: edits not stored, replaced or discarded
          during,      \* ghost: edits typed while a save was under way
          carried,     \* ghost: edits pending when the connection was switched
          missed,      \* ghost: edits written to a row that is gone
          latest,      \* ghost: the newest edit that was ever stored in each row
          overlapped   \* ghost: two saves were under way at once

gridVars == <<conn, isEditMode, pendingChanges, isSaving, save, jobs, stored, deleted,
              edits, spent, broken, open, during, carried, missed, latest, overlapped>>
ghosts == <<edits, open, during, carried, missed, latest, overlapped>>

Nothing == [r \in Rows |-> 0]
Changed(changes) == {r \in Rows : changes[r] # 0}
NoSave == [here |-> FALSE, conn |-> CHOOSE c \in Conns : TRUE, changes |-> Nothing, left |-> {}, busy |-> FALSE]

Init ==
  /\ conn \in Conns
  /\ isEditMode = FALSE /\ pendingChanges = Nothing /\ isSaving = FALSE
  /\ save = [s \in Saves |-> NoSave] /\ jobs = {}
  /\ stored = [c \in Conns |-> Nothing] /\ latest = stored /\ deleted = {}
  /\ edits = <<>> /\ spent = 0 /\ broken = 0
  /\ open = {} /\ during = {} /\ carried = {} /\ missed = {} /\ overlapped = FALSE

Move == spent < MaxMoves /\ spent' = spent + 1

Edit ==
  /\ ~isEditMode /\ isEditMode' = TRUE
  /\ UNCHANGED <<conn, pendingChanges, isSaving, save, jobs, stored, deleted, spent, broken, ghosts>>

\* handleCellChange, and a bulk replacement: the inputs stay open during a save.
Type(r) ==
  /\ isEditMode /\ Len(edits) < MaxEdits
  /\ LET e == Len(edits) + 1
     IN /\ pendingChanges' = [pendingChanges EXCEPT ![r] = e]
        /\ edits' = Append(edits, [row |-> r, conn |-> conn])
        /\ open' = (open \ {pendingChanges[r]}) \cup {e}
        /\ during' = IF \E s \in Saves : save[s].here THEN during \cup {e} ELSE during
  /\ UNCHANGED <<conn, isEditMode, isSaving, save, jobs, stored, deleted, spent, broken,
                 carried, missed, latest, overlapped>>

\* Cancel drops the changes; a save under way goes on.
Cancel ==
  /\ isEditMode /\ Move
  /\ isEditMode' = FALSE /\ pendingChanges' = Nothing
  /\ open' = open \ {pendingChanges[r] : r \in Rows}
  /\ UNCHANGED <<conn, isSaving, save, jobs, stored, deleted, broken,
                 edits, during, carried, missed, latest, overlapped>>

\* The tab is closed or the page left: a new grid starts from nothing, while
\* what was under way goes on without a grid, or ends with the page.
Leave(goesOn) ==
  /\ Move
  /\ isEditMode' = FALSE /\ pendingChanges' = Nothing /\ isSaving' = FALSE
  /\ save' = [s \in Saves |-> IF goesOn THEN [save[s] EXCEPT !.here = FALSE] ELSE NoSave]
  /\ jobs' = IF goesOn THEN {[j EXCEPT !.here = FALSE] : j \in jobs} ELSE {}
  /\ open' = open \ {pendingChanges[r] : r \in Rows}
  /\ UNCHANGED <<conn, stored, deleted, broken, edits, during, carried, missed, latest, overlapped>>

\* Another connection becomes active: the grid shows the table of that name
\* there, and keeps its changes.
Switch(c) ==
  /\ c # conn /\ Move
  /\ conn' = c
  /\ carried' = carried \cup {pendingChanges[r] : r \in Changed(pendingChanges)}
  /\ UNCHANGED <<isEditMode, pendingChanges, isSaving, save, jobs, stored, deleted, broken,
                 edits, open, during, missed, latest, overlapped>>

\* handleSaveData captures the changes and the active connection.
Save(s) ==
  /\ ~save[s].busy /\ ~isSaving /\ Changed(pendingChanges) # {}
  /\ isSaving' = TRUE
  /\ save' = [save EXCEPT ![s] = [here |-> TRUE, conn |-> conn, changes |-> pendingChanges,
                                  left |-> Changed(pendingChanges), busy |-> TRUE]]
  /\ overlapped' = (overlapped \/ \E p \in Saves \ {s} : save[p].busy)
  /\ UNCHANGED <<conn, isEditMode, pendingChanges, jobs, stored, deleted, spent, broken,
                 edits, open, during, carried, missed, latest>>

\* updateRow: an UPDATE by primary key, a success also when it finds no row.
Update(s, r) ==
  LET c == save[s].conn
      e == save[s].changes[r]
  IN IF <<c, r>> \in deleted
     THEN missed' = missed \cup {e} /\ UNCHANGED <<stored, latest, open>>
     ELSE /\ stored' = [stored EXCEPT ![c][r] = e]
          /\ latest' = [latest EXCEPT ![c][r] = IF e > @ THEN e ELSE @]
          /\ open' = open \ {e}
          /\ UNCHANGED missed

WriteRow(s, r) ==
  /\ r \in save[s].left
  /\ Update(s, r)
  /\ save' = [save EXCEPT ![s].left = @ \ {r}]
  /\ UNCHANGED <<conn, isEditMode, pendingChanges, isSaving, jobs, deleted, spent, broken,
                 edits, during, carried, overlapped>>

\* Every row is written: all changes are dropped.
SaveEnds(s) ==
  /\ save[s].busy /\ save[s].left = {}
  /\ save' = [save EXCEPT ![s] = NoSave]
  /\ IF save[s].here
     THEN pendingChanges' = Nothing /\ isEditMode' = FALSE /\ isSaving' = FALSE
     ELSE UNCHANGED <<pendingChanges, isEditMode, isSaving>>
  /\ UNCHANGED <<conn, jobs, stored, deleted, spent, broken, ghosts>>

\* Mutant: the changes are dropped whether or not the save went well.
DropsChanges(s) == pendingChanges' = IF save[s].here THEN Nothing ELSE pendingChanges

KeepsChanges(s) == pendingChanges' = pendingChanges

\* A row's write fails, or its answer is lost: the rest is not written, and
\* all changes stay, those that were stored too.
SaveFails(s) ==
  /\ broken < MaxFaults /\ broken' = broken + 1
  /\ \E r \in save[s].left : Update(s, r) \/ UNCHANGED <<stored, missed, latest, open>>
  /\ save' = [save EXCEPT ![s] = NoSave]
  /\ isSaving' = (isSaving /\ ~save[s].here)
  /\ KeepsChanges(s)
  /\ UNCHANGED <<conn, isEditMode, jobs, deleted, spent, edits, during, carried, overlapped>>

\* handleSaveSchema, handleDeleteRows, handleInsertRow: all say that they are
\* saving, but the designer's button does not ask whether something else is.
Start(op, r) ==
  /\ Move
  /\ op \in {"delete", "insert"} => ~isSaving
  /\ isSaving' = TRUE
  /\ jobs' = jobs \cup {[op |-> op, row |-> r, conn |-> conn, here |-> TRUE]}
  /\ UNCHANGED <<conn, isEditMode, pendingChanges, save, stored, deleted, broken, ghosts>>

End(j) ==
  /\ jobs' = jobs \ {j}
  /\ isSaving' = (isSaving /\ ~j.here)
  /\ \/ deleted' = IF j.op = "delete" THEN deleted \cup {<<j.conn, j.row>>} ELSE deleted
     \/ UNCHANGED deleted
  /\ UNCHANGED <<conn, isEditMode, pendingChanges, save, stored, spent, broken, ghosts>>

Next ==
  \/ Edit \/ Cancel
  \/ \E r \in Rows : Type(r) \/ \E op \in {"schema", "delete", "insert"} : Start(op, r)
  \/ \E goesOn \in BOOLEAN : Leave(goesOn)
  \/ \E c \in Conns : Switch(c)
  \/ \E s \in Saves : Save(s) \/ SaveEnds(s) \/ SaveFails(s) \/ \E r \in Rows : WriteRow(s, r)
  \/ \E j \in jobs : End(j)

Spec == Init /\ [][Next]_gridVars

-----------------------------------------------------------------------------
\* An edit that is not stored, replaced or discarded is still shown as pending,
\* unless it was typed during a save or its row is gone; what is stored was
\* typed on that connection, unless it was pending when the connection was
\* switched; and no save puts an older edit over a newer one unless two ran at once.
EditsLand ==
  /\ \A e \in open : pendingChanges[edits[e].row] = e \/ e \in during \cup missed
  /\ \A c \in Conns, r \in Rows :
       LET e == stored[c][r]
       IN /\ e # 0 => edits[e].conn = c \/ e \in carried
          /\ e # latest[c][r] => overlapped
=============================================================================
