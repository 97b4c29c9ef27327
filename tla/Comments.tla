------------------------------ MODULE Comments ------------------------------
(***************************************************************************)
(* The comment threads of one resource (collaboration.service.ts).  They   *)
(* have no table: a comment, a reply and a resolution are rows of the      *)
(* audit log, threads are put together from the first rows of the log on   *)
(* every request, a row that cannot be written is given up silently, and   *)
(* the retention job deletes the oldest rows.                              *)
(***************************************************************************)
EXTENDS Naturals, Sequences, SequencesExt

CONSTANTS Commenters, \* requests that may be under way at once
          Window,     \* rows that a request reads (500)
          MaxIds,     \* bound: comments and replies
          MaxResolves,\* bound: resolutions
          MaxLost     \* bound: rows that could not be written

VARIABLES log,      \* rows of the resource's comments, oldest first
          comment,  \* the requests
          ids,      \* ids given out
          resolves, lost,
          acked,    \* ghost: ids of the threads whose creation was answered with the thread
          retained  \* ghost: ids of the comments whose row retention has deleted

commentVars == <<log, comment, ids, resolves, lost, acked, retained>>

NoComment == [pc |-> "idle", row |-> [kind |-> "create", id |-> 1, thread |-> 1]]

Init ==
  /\ log = <<>> /\ ids = 0 /\ resolves = 0 /\ lost = 0
  /\ comment = [q \in Commenters |-> NoComment]
  /\ acked = {} /\ retained = {}

\* Mutant: the newest rows are read, the order the audit service defaults to.
ReadNewest(rows) == IF Len(rows) <= Window THEN rows ELSE SubSeq(rows, Len(rows) - Window + 1, Len(rows))

\* findOrganizationLogs with order asc.
Read(rows) == IF Len(rows) <= Window THEN rows ELSE SubSeq(rows, 1, Window)

\* buildCommentThreads: replies and resolutions count when their thread came before.
Threads(rows) == {r.thread : r \in {x \in ToSet(rows) : x.kind = "create"}}
Under(rows, kind) ==
  {rows[i] : i \in {j \in DOMAIN rows : /\ rows[j].kind = kind
                                        /\ rows[j].thread \in Threads(SubSeq(rows, 1, j))}}
Replies(rows) == Under(rows, "reply")

\* The thread of a comment: its own, or the one that it replies to.
ThreadsWith(rows, id) ==
  {t \in Threads(rows) : t = id \/ \E r \in Replies(rows) : r.id = id /\ r.thread = t}

Start(q, row) == comment' = [comment EXCEPT ![q] = [pc |-> "log", row |-> row]]

\* createComment
Create(q) ==
  /\ comment[q].pc = "idle" /\ ids < MaxIds
  /\ ids' = ids + 1
  /\ Start(q, [kind |-> "create", id |-> ids + 1, thread |-> ids + 1])
  /\ UNCHANGED <<log, resolves, lost, acked, retained>>

\* replyToComment: the reply's thread is the comment it was given, whichever
\* comment of the thread that is.
Reply(q, id) ==
  /\ comment[q].pc = "idle" /\ ids < MaxIds
  /\ ThreadsWith(Read(log), id) # {}
  /\ ids' = ids + 1
  /\ Start(q, [kind |-> "reply", id |-> ids + 1, thread |-> id])
  /\ UNCHANGED <<log, resolves, lost, acked, retained>>

\* resolveComment
Resolve(q, id) ==
  /\ comment[q].pc = "idle" /\ resolves < MaxResolves
  /\ resolves' = resolves + 1
  /\ \E t \in ThreadsWith(Read(log), id) : Start(q, [kind |-> "resolve", id |-> t, thread |-> t])
  /\ UNCHANGED <<log, ids, lost, acked, retained>>

\* audit.log, which swallows the error of a row that could not be written.
Log(q) ==
  /\ comment[q].pc = "log"
  /\ \/ log' = Append(log, comment[q].row) /\ UNCHANGED lost
     \/ lost < MaxLost /\ lost' = lost + 1 /\ UNCHANGED log
  /\ comment' = [comment EXCEPT ![q].pc = "find"]
  /\ UNCHANGED <<ids, resolves, acked, retained>>

\* findCommentThreadInResource: the answer is the thread, or that there is none.
Answer(q) ==
  LET row == comment[q].row IN
  /\ comment[q].pc = "find"
  /\ acked' = IF row.kind = "create" /\ ThreadsWith(Read(log), row.thread) # {}
              THEN acked \cup {row.id} ELSE acked
  /\ comment' = [comment EXCEPT ![q] = NoComment]
  /\ UNCHANGED <<log, ids, resolves, lost, retained>>

\* DataRetentionService.runCleanup: rows older than the retention time go.
Retain(n) ==
  /\ n \in DOMAIN log
  /\ log' = SubSeq(log, n + 1, Len(log))
  /\ retained' = retained \cup {log[i].id : i \in {j \in 1 .. n : log[j].kind # "resolve"}}
  /\ UNCHANGED <<comment, ids, resolves, lost, acked>>

Next ==
  \/ \E q \in Commenters :
       Create(q) \/ Log(q) \/ Answer(q) \/ \E id \in 1 .. ids : Reply(q, id) \/ Resolve(q, id)
  \/ \E n \in 1 .. Len(log) : Retain(n)

Spec == Init /\ [][Next]_commentVars

-----------------------------------------------------------------------------
\* A thread whose creation was answered with the thread is there for everybody
\* until retention deletes its row, however many rows follow and get lost.
AnsweredThreadsStay == acked \ retained \subseteq Threads(Read(log))
=============================================================================
