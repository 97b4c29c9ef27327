------------------------- MODULE MigrationPipeline -------------------------
(***************************************************************************)
(* One migration job: MigrationService.runMigrationPipeline inside its     *)
(* BullMQ worker.                                                          *)
(*                                                                         *)
(* Rows 1..N leave the source in order, by the events of a stream or by an *)
(* async iterator (SQLite).  They are buffered, and flushed to the target  *)
(* in batches whose size shrinks when an import fails in a way that a      *)
(* smaller batch may cure.  Every step below lies between two awaits.      *)
(* Rows are consecutive, so counters stand for the promise chain, the      *)
(* buffer and the pending rows of a flush: the last `held` or `left` of    *)
(* the rows handled.                                                       *)
(***************************************************************************)
EXTENDS Integers

CONSTANTS
  N,            \* rows of the source table
  MinBatch,     \* minimumBatchSize of the plan
  Recommended,  \* recommendedBatchSize of the plan
  MaxFaults,    \* bound: failures of the databases, the queue and the stream
  MaxStalled    \* BullMQ: times a job whose worker died is run again

ASSUME PlanAssumption ==
  /\ N \in Nat
  /\ MinBatch \in Nat \ {0} /\ Recommended \in Nat /\ MinBatch <= Recommended
  /\ MaxFaults \in Nat /\ MaxStalled \in Nat

Rows == 1..N
Smaller(a, b) == IF a <= b THEN a ELSE b
Larger(a, b) == IF a <= b THEN b ELSE a

VARIABLES
  kind,       \* "events" or "iterator": what exportStream of the source returns
  job,        \* the job's state in the queue
  stalls,     \* times its worker died
  processed,  \* processedRows of its progress, which survives the worker
  pc,         \* where runMigrationPipeline is
  ctx,        \* resolveMigrationContext has returned
  pools,      \* the pools of the job that are open
  chain,      \* chunks chained on `processing` and not handled yet
  handled,    \* chunks handled
  held,       \* rows in the buffer
  owner,      \* who runs flushBuffer: a chunk, handleEnd, the loop, its last flush
  flush,      \* what the flush awaits: importData or updateJob
  left,       \* pendingRows from the cursor on
  attempt,    \* attemptSize
  batchSize,  \* currentBatchSize
  paused,     \* isPaused
  ended,      \* the stream has emitted 'end', or an 'error' of its own
  endPc,      \* where handleEnd is
  failing,    \* handleError calls that await failJob
  settled,    \* finish has run: the listeners are gone
  imported,   \* imported[r]: times row r was written to the target
  faults,     \* failures so far
  threw,      \* history: a flush or the stream failed in this run of the job
  recounted,  \* history: rows that an update of the progress counted and then failed
  doubtful    \* history: rows written by an attempt that was then taken as failed

jobVars == <<job, stalls, processed, recounted>>
setupVars == <<ctx, pools>>
streamVars == <<chain, handled, paused, ended>>
flushVars == <<owner, flush, left, attempt, batchSize>>
endVars == <<endPc, failing, settled>>
targetVars == <<imported, doubtful>>
vars == <<kind, jobVars, pc, setupVars, streamVars, held, flushVars, endVars, targetVars,
          faults, threw>>

-----------------------------------------------------------------------------
(* Types *)

Resolving == {"validating", "connecting", "openTarget", "preflight", "opening"}

TypeFlags ==
  /\ ctx \in BOOLEAN /\ paused \in BOOLEAN /\ ended \in BOOLEAN
  /\ settled \in BOOLEAN /\ threw \in BOOLEAN

TypeData ==
  /\ kind \in {"events", "iterator"}
  /\ job \in {"waiting", "active", "failed", "completed"}
  /\ stalls \in Nat /\ processed \in Nat /\ recounted \in Nat /\ faults \in Nat
  /\ pc \in Resolving \cup {"idle", "streaming", "catch", "closing", "rethrow", "returned",
                            "thrown"}
  /\ pools \subseteq {"source", "target"}
  /\ chain \in 0..N /\ handled \in 0..N /\ held \in 0..N
  /\ owner \in {"none", "chunk", "end", "loop", "last"}
  /\ flush \in {"off", "import", "progress"}
  /\ left \in 0..N /\ attempt \in 0..N /\ batchSize \in Nat
  /\ endPc \in {"off", "check", "drain", "flush", "failing"}
  /\ failing \in Nat
  /\ imported \in [Rows -> Nat]
  /\ doubtful \subseteq Rows

\* What the job and the locals of runMigrationPipeline may hold; the buffer and the
\* pending rows never exceed the table.
TypeOK == TypeData /\ TypeFlags

\* What the worker process keeps in memory, at the start of a run of the job.
Volatile(ps) ==
  /\ ctx' = FALSE /\ pools' = ps
  /\ chain' = 0 /\ handled' = 0 /\ held' = 0
  /\ owner' = "none" /\ flush' = "off" /\ left' = 0 /\ attempt' = 0
  /\ batchSize' = Recommended
  /\ paused' = FALSE /\ ended' = FALSE
  /\ endPc' = "off" /\ failing' = 0 /\ settled' = FALSE

Init ==
  /\ kind \in {"events", "iterator"}
  /\ job = "waiting" /\ stalls = 0 /\ processed = 0 /\ recounted = 0
  /\ pc = "idle" /\ ctx = FALSE /\ pools = {}
  /\ chain = 0 /\ handled = 0 /\ held = 0
  /\ owner = "none" /\ flush = "off" /\ left = 0 /\ attempt = 0
  /\ batchSize = Recommended
  /\ paused = FALSE /\ ended = FALSE
  /\ endPc = "off" /\ failing = 0 /\ settled = FALSE
  /\ imported = [r \in Rows |-> 0]
  /\ faults = 0 /\ threw = FALSE /\ doubtful = {}

-----------------------------------------------------------------------------
(* The worker *)

\* The worker takes the job and calls process.
Dequeue ==
  /\ job = "waiting" /\ pc = "idle"
  /\ job' = "active" /\ pc' = "validating" /\ threw' = FALSE
  /\ Volatile({})
  /\ UNCHANGED <<kind, stalls, processed, recounted, targetVars, faults>>

\* The worker process dies, before or after Redis has an update of the progress that it
\* awaits.  BullMQ finds the job stalled and queues it again, from row 1 on and whatever
\* `attempts` says, at most MaxStalled times.
Die ==
  /\ pc' = "idle"
  /\ \/ UNCHANGED processed
     \/ flush = "progress" /\ processed' = processed + attempt
  /\ Volatile({})
  /\ job' = IF job # "active" THEN job
            ELSE IF stalls < MaxStalled THEN "waiting" ELSE "failed"
  /\ stalls' = IF job = "active" THEN stalls + 1 ELSE stalls
  /\ UNCHANGED <<kind, recounted, targetVars, threw>>

Crash ==
  /\ job = "active" /\ pc # "idle"
  /\ faults < MaxFaults
  /\ faults' = faults + 1
  /\ Die

\* process returned or threw: the worker completes the job, or fails it, unless failJob
\* was there before.
WorkerEnds ==
  /\ pc \in {"returned", "thrown"}
  /\ pc' = "idle"
  /\ job' = IF job # "active" THEN job
            ELSE IF pc = "returned" THEN "completed" ELSE "failed"
  /\ UNCHANGED <<kind, stalls, processed, recounted, setupVars, streamVars, held, flushVars,
                 endVars, targetVars, faults, threw>>

-----------------------------------------------------------------------------
(* resolveMigrationContext and the frame of the pipeline *)

setup == <<kind, jobVars, streamVars, held, flushVars, endVars, targetVars, faults, threw>>

Validated ==
  /\ pc = "validating" /\ pc' = "connecting"
  /\ UNCHANGED <<setupVars, setup>>

SourceOpened ==
  /\ pc = "connecting" /\ pc' = "openTarget"
  /\ pools' = pools \cup {"source"}
  /\ UNCHANGED <<ctx, setup>>

TargetOpened ==
  /\ pc = "openTarget" /\ pc' = "preflight"
  /\ pools' = pools \cup {"target"}
  /\ UNCHANGED <<ctx, setup>>

PreflightPassed ==
  /\ pc = "preflight" /\ pc' = "opening"
  /\ ctx' = TRUE
  /\ UNCHANGED <<pools, setup>>

StreamOpened ==
  /\ pc = "opening" /\ pc' = "streaming"
  /\ UNCHANGED <<setupVars, setup>>

\* Anything before the stream throws: the queue, a connection, a check.
SetupFails ==
  /\ pc \in Resolving /\ pc' = "catch"
  /\ UNCHANGED <<setupVars, setup>>

\* failJob in the catch: moveToFailed is accepted, or rejects (the token is not the
\* worker's) and the pipeline throws after its finally.
CatchFailsJob ==
  /\ pc = "catch"
  /\ \/ pc' = "closing" /\ job' = (IF job = "active" THEN "failed" ELSE job)
     \/ pc' = "rethrow" /\ UNCHANGED job
  /\ UNCHANGED <<kind, stalls, processed, recounted, setupVars, streamVars, held, flushVars,
                 endVars, targetVars, faults, threw>>

\* The finally closes the pools, if the context was ever assigned.
CloseResources ==
  /\ \/ pc = "closing" /\ pc' = "returned"
     \/ pc = "rethrow" /\ pc' = "thrown"
  /\ pools' = IF ctx THEN {} ELSE pools
  /\ UNCHANGED <<ctx, setup>>

-----------------------------------------------------------------------------
(* flushBuffer *)

\* Its synchronous start: the buffer becomes the pending rows, all n of them.
StartFlush(who, n) ==
  /\ owner' = who /\ flush' = "import"
  /\ left' = n /\ held' = 0
  /\ attempt' = Smaller(batchSize, n)
  /\ UNCHANGED batchSize

\* The first n rows from the cursor on.
FirstLeft(n) == (handled - left + 1)..(handled - left + n)
Written(n) == [r \in Rows |-> IF r \in FirstLeft(n) THEN imported[r] + 1 ELSE imported[r]]

\* reduceMigrationBatchSize, for a size above the minimum.
Reduce(size) == Larger(MinBatch, size \div 2)

Finish ==
  /\ settled' = TRUE
  /\ pc' = IF pc = "streaming" THEN "closing" ELSE pc

Idle == owner' = "none" /\ flush' = "off" /\ left' = 0 /\ attempt' = 0

\* Mutant: the stream is not resumed.
FlushReturnsPaused ==
  /\ Idle
  /\ \/ /\ owner = "chunk"
        /\ UNCHANGED <<pc, endVars>>
     \/ /\ owner = "end"
        /\ Finish /\ endPc' = "off"
        /\ UNCHANGED failing
     \/ /\ owner \in {"loop", "last"}
        /\ pc' = IF owner = "last" THEN "closing" ELSE pc
        /\ UNCHANGED endVars
  /\ UNCHANGED <<chain, paused>>

\* flushBuffer returns to its caller.
FlushReturns ==
  /\ Idle
  /\ \/ /\ owner = "chunk"
        /\ paused' = FALSE
        /\ UNCHANGED <<pc, endVars>>
     \/ /\ owner = "end"
        /\ Finish /\ endPc' = "off"
        /\ UNCHANGED <<failing, paused>>
     \/ /\ owner \in {"loop", "last"}
        /\ pc' = IF owner = "last" THEN "closing" ELSE pc
        /\ UNCHANGED <<endVars, paused>>
  /\ UNCHANGED chain

\* flushBuffer throws, and the pending rows are gone.  A chunk emits 'error' on the
\* stream, which stays paused; without listeners the emit throws, and breaks the
\* promise chain unless the driver listens: the chunks on it are lost, and handleEnd,
\* if it awaits the chain, fails too.  An iterator has no emit: its loop throws.
FlushThrows ==
  /\ Idle
  /\ threw' = TRUE
  /\ \/ /\ owner = "chunk"
        /\ failing' = failing + 1
        /\ \/ UNCHANGED <<chain, endPc>>
           \/ /\ settled
              /\ chain' = 0
              /\ endPc' = IF endPc = "drain" THEN "failing" ELSE endPc
        /\ UNCHANGED <<pc, settled>>
     \/ /\ owner = "end"
        /\ endPc' = "failing"
        /\ UNCHANGED <<pc, chain, failing, settled>>
     \/ /\ owner \in {"loop", "last"}
        /\ pc' = "catch"
        /\ UNCHANGED <<chain, endVars>>
  /\ UNCHANGED <<batchSize, paused>>

\* The catch around importData and updateJob.
Retry(retryable) ==
  \/ /\ retryable /\ attempt > MinBatch
     /\ attempt' = Reduce(attempt) /\ batchSize' = Reduce(attempt)
     /\ flush' = "import"
     /\ UNCHANGED <<pc, owner, left, chain, paused, endVars, threw>>
  \/ ~(retryable /\ attempt > MinBatch) /\ FlushThrows

\* importData resolves; the pool must be there.
ImportDone ==
  /\ flush = "import" /\ "target" \in pools
  /\ imported' = Written(attempt)
  /\ flush' = "progress"
  /\ UNCHANGED <<kind, jobVars, pc, setupVars, streamVars, held, owner, left, attempt,
                 batchSize, endVars, faults, threw, doubtful>>

\* importData rejects.  SQLite and MongoDB may have written some of the rows, and any
\* target all of them when what failed was the answer.
ImportFails(n, retryable) ==
  /\ flush = "import"
  /\ n \in 0..(IF "target" \in pools THEN attempt ELSE 0)
  /\ "target" \in pools => faults < MaxFaults
  /\ faults' = IF "target" \in pools THEN faults + 1 ELSE faults
  /\ imported' = Written(n)
  /\ doubtful' = doubtful \cup FirstLeft(n)
  /\ Retry(retryable)
  /\ UNCHANGED <<kind, jobVars, setupVars, handled, ended, held>>

\* Mutant: the cursor moves by one row, not by the batch.
ProgressByOne ==
  /\ flush = "progress"
  /\ processed' = processed + attempt
  /\ batchSize' = Larger(MinBatch, attempt)
  /\ \/ /\ left > 1
        /\ left' = left - 1 /\ attempt' = Smaller(batchSize', left') /\ flush' = "import"
        /\ UNCHANGED <<pc, owner, chain, paused, endVars>>
     \/ left = 1 /\ FlushReturns
  /\ UNCHANGED <<kind, job, stalls, recounted, setupVars, handled, ended, held, targetVars, faults,
                 threw>>

\* Mutant: the progress counts all the pending rows with every batch.
ProgressOfAll ==
  /\ flush = "progress"
  /\ processed' = processed + left
  /\ batchSize' = Larger(MinBatch, attempt)
  /\ \/ /\ left > attempt
        /\ left' = left - attempt /\ attempt' = Smaller(batchSize', left')
        /\ flush' = "import"
        /\ UNCHANGED <<pc, owner, chain, paused, endVars>>
     \/ left = attempt /\ FlushReturns
  /\ UNCHANGED <<kind, job, stalls, recounted, setupVars, handled, ended, held, targetVars, faults,
                 threw>>

\* updateJob writes the progress: the batch is done, and its size, down to the minimum,
\* is the next one's.
ProgressDone ==
  LET size == Larger(MinBatch, attempt)
      rest == left - attempt
  IN  /\ flush = "progress"
      /\ processed' = processed + attempt
      /\ batchSize' = size
      /\ \/ /\ rest > 0
            /\ left' = rest /\ attempt' = Smaller(size, rest) /\ flush' = "import"
            /\ UNCHANGED <<pc, owner, chain, paused, endVars>>
         \/ rest = 0 /\ FlushReturns
      /\ UNCHANGED <<kind, job, stalls, recounted, setupVars, handled, ended, held, targetVars, faults,
                     threw>>

\* updateJob rejects in the same try: the batch, already written, is tried again.  Its
\* update may have been applied, when the reply was lost or a listener of the emit threw.
ProgressFails(retryable, applied) ==
  LET counted == IF applied THEN attempt ELSE 0
  IN  /\ flush = "progress"
      /\ faults < MaxFaults
      /\ faults' = faults + 1
      /\ processed' = processed + counted /\ recounted' = recounted + counted
      /\ doubtful' = doubtful \cup FirstLeft(attempt)
      /\ Retry(retryable)
      /\ UNCHANGED <<kind, job, stalls, setupVars, handled, ended, held, imported>>

-----------------------------------------------------------------------------
(* The stream that emits events *)

\* 'data' or 'row': enqueueChunk chains the chunk.
Deliver ==
  /\ kind = "events" /\ pc = "streaming"
  /\ ~paused /\ ~ended /\ ~settled
  /\ handled + chain < N
  /\ chain' = chain + 1
  /\ UNCHANGED <<kind, jobVars, pc, setupVars, handled, paused, ended, held, flushVars,
                 endVars, targetVars, faults, threw>>

\* handleChunk, up to its first await: the chunk joins the buffer, and a full buffer is
\* flushed with the stream paused.
HandleChunk ==
  /\ kind = "events" /\ chain > 0 /\ owner = "none"
  /\ chain' = chain - 1 /\ handled' = handled + 1
  /\ \/ /\ held + 1 < batchSize
        /\ held' = held + 1
        /\ UNCHANGED <<flushVars, paused>>
     \/ /\ held + 1 >= batchSize
        /\ paused' = TRUE
        /\ StartFlush("chunk", held + 1)
  /\ UNCHANGED <<kind, jobVars, pc, setupVars, ended, endVars, targetVars, faults, threw>>

\* 'end': handleEnd starts.
StreamEnds ==
  /\ kind = "events" /\ pc = "streaming"
  /\ ~ended /\ ~settled /\ handled + chain = N
  /\ ended' = TRUE /\ endPc' = "check"
  /\ UNCHANGED <<kind, jobVars, pc, setupVars, chain, handled, paused, held, flushVars,
                 failing, settled, targetVars, faults, threw>>

\* The source fails: handleError starts.
StreamFails ==
  /\ kind = "events" /\ pc = "streaming"
  /\ ~ended /\ ~settled
  /\ faults < MaxFaults
  /\ faults' = faults + 1
  /\ ended' = TRUE /\ failing' = failing + 1 /\ threw' = TRUE
  /\ UNCHANGED <<kind, jobVars, pc, setupVars, chain, handled, paused, held, flushVars,
                 endPc, settled, targetVars>>

\* handleEnd has read the state of the job.
EndChecked ==
  /\ endPc = "check"
  /\ \/ /\ job = "failed"
        /\ endPc' = "off" /\ Finish
     \/ /\ job # "failed"
        /\ endPc' = "drain"
        /\ UNCHANGED <<pc, settled>>
  /\ UNCHANGED <<kind, jobVars, setupVars, streamVars, held, flushVars, failing, targetVars,
                 faults, threw>>

\* Mutant: handleEnd does not await `processing`.
EndDrainsAtOnce ==
  /\ endPc = "drain"
  /\ \/ /\ held = 0
        /\ endPc' = "off" /\ Finish
        /\ UNCHANGED <<held, flushVars>>
     \/ /\ held > 0
        /\ endPc' = "flush" /\ StartFlush("end", held)
        /\ UNCHANGED <<pc, settled>>
  /\ UNCHANGED <<kind, jobVars, setupVars, streamVars, failing, targetVars, faults, threw>>

\* handleEnd has awaited `processing` and flushes what is left in the buffer.
EndDrains ==
  /\ endPc = "drain" /\ chain = 0 /\ owner = "none"
  /\ \/ /\ held = 0
        /\ endPc' = "off" /\ Finish
        /\ UNCHANGED <<held, flushVars>>
     \/ /\ held > 0
        /\ endPc' = "flush" /\ StartFlush("end", held)
        /\ UNCHANGED <<pc, settled>>
  /\ UNCHANGED <<kind, jobVars, setupVars, streamVars, failing, targetVars, faults, threw>>

\* failJob of handleEnd or of a handleError is accepted: then finish.
FailAccepted ==
  /\ job = "active" /\ job' = "failed"
  /\ \/ endPc = "failing" /\ endPc' = "off" /\ UNCHANGED failing
     \/ failing > 0 /\ failing' = failing - 1 /\ UNCHANGED endPc
  /\ Finish
  /\ UNCHANGED <<kind, stalls, processed, recounted, setupVars, streamVars, held, flushVars,
                 targetVars, faults, threw>>

\* moveToFailed rejects: nobody handles the rejection, which ends the process.
FailRejected ==
  /\ endPc = "failing" \/ failing > 0
  /\ Die
  /\ UNCHANGED faults

-----------------------------------------------------------------------------
(* The stream that is iterated *)

\* One turn of the for await loop.
Pull ==
  /\ kind = "iterator" /\ pc = "streaming" /\ owner = "none" /\ handled < N
  /\ handled' = handled + 1
  /\ \/ /\ held + 1 < batchSize
        /\ held' = held + 1
        /\ UNCHANGED flushVars
     \/ /\ held + 1 >= batchSize
        /\ StartFlush("loop", held + 1)
  /\ UNCHANGED <<kind, jobVars, pc, setupVars, chain, paused, ended, endVars, targetVars,
                 faults, threw>>

\* The loop is over: the last flush.
LoopEnds ==
  /\ kind = "iterator" /\ pc = "streaming" /\ owner = "none" /\ handled = N
  /\ \/ /\ held = 0
        /\ pc' = "closing"
        /\ UNCHANGED <<held, flushVars>>
     \/ /\ held > 0
        /\ StartFlush("last", held)
        /\ UNCHANGED pc
  /\ UNCHANGED <<kind, jobVars, setupVars, streamVars, endVars, targetVars, faults, threw>>

-----------------------------------------------------------------------------
(* Specification *)

Setup == Validated \/ SourceOpened \/ TargetOpened \/ PreflightPassed \/ StreamOpened
           \/ SetupFails \/ CatchFailsJob \/ CloseResources

FlushStep ==
  \/ ImportDone
  \/ \E n \in 0..N, retryable \in BOOLEAN : ImportFails(n, retryable)
  \/ ProgressDone
  \/ \E retryable, applied \in BOOLEAN : ProgressFails(retryable, applied)

StreamStep == Deliver \/ HandleChunk \/ StreamEnds \/ Pull \/ LoopEnds

EndStep == EndChecked \/ EndDrains

Next ==
  \/ Dequeue \/ Crash \/ WorkerEnds
  \/ Setup
  \/ FlushStep
  \/ StreamStep \/ StreamFails
  \/ EndStep
  \/ FailAccepted \/ FailRejected

Spec == Init /\ [][Next]_vars

\* The databases and the queue answer or time out, and the source produces its rows.
Fairness ==
  /\ WF_vars(Dequeue) /\ WF_vars(WorkerEnds) /\ WF_vars(Setup)
  /\ WF_vars(FlushStep) /\ WF_vars(StreamStep) /\ WF_vars(EndStep)
  /\ WF_vars(FailAccepted \/ FailRejected)

FairSpec == Spec /\ Fairness

-----------------------------------------------------------------------------
(* Properties *)

\* A job that completes, without a flush or the stream having failed in that run, has
\* brought every row to the target: no row is left in the promise chain, the buffer or
\* the pending rows when the pipeline ends (handleEnd, flushBuffer).
CompletedIsComplete ==
  job = "completed" /\ ~threw => \A r \in Rows : imported[r] >= 1

\* A row is written twice only by an attempt that followed one taken as failed, or by
\* a second run after the worker died (flushBuffer).
NoDuplicates ==
  \A r \in Rows : imported[r] > 1 => r \in doubtful \/ stalls > 0

\* The progress of a job that completed in its first run counts each row once, whatever
\* was retried on the way, and once more what an updateJob had counted before it rejected
\* (updateJob in flushBuffer).
ProgressAgrees ==
  job = "completed" /\ ~threw /\ stalls = 0 => processed = N + recounted

\* A batch is never empty, never exceeds the pending rows or the current size, and the
\* size stays within the plan however often it is reduced (flushBuffer).
BatchInPlan ==
  /\ batchSize \in MinBatch..Recommended
  /\ flush # "off" => attempt >= 1 /\ attempt <= left /\ attempt <= batchSize

\* A job that was taken ends, as completed or failed: neither a paused stream, a failed
\* flush nor the death of the worker leaves it running; and it does not keep the pools of a
\* context that was resolved.
JobSettles ==
  /\ job = "active" ~> job \in {"completed", "failed"}
  /\ ctx ~> pools = {}

-----------------------------------------------------------------------------
(* The inductive invariant behind them *)

\* Who is where: a flush has an owner and rows, handleEnd flushes last and alone, the
\* iterator has no stream, and a failure on its way to failJob was recorded.
Shape ==
  /\ owner = "none" <=> flush = "off"
  /\ owner = "none" <=> left = 0
  /\ owner # "none" => held = 0
  /\ held + left <= handled /\ handled + chain <= N
  /\ owner = "end" <=> endPc = "flush"
  /\ kind = "events" => owner \notin {"loop", "last"}
  /\ kind = "iterator" => /\ owner \notin {"chunk", "end"} /\ chain = 0
                          /\ endPc = "off" /\ failing = 0
  /\ owner \in {"loop", "last"} => pc = "streaming"
  /\ owner = "last" => handled = N
  /\ endPc # "off" => ended
  /\ endPc = "flush" => chain = 0
  /\ failing > 0 \/ endPc = "failing" => threw
  /\ endPc # "off" /\ ~threw => pc = "streaming" /\ handled + chain = N
  /\ pc = "idle" => job # "active"
  /\ pc \notin {"idle", "returned", "closing"} => job \notin {"waiting", "completed"}
  /\ job = "completed" => pc = "idle"
  /\ job = "waiting" => pc = "idle" /\ owner = "none" /\ chain = 0 /\ endPc = "off"
  /\ pc \in Resolving => handled = 0 /\ chain = 0 /\ ~threw /\ owner = "none" /\ endPc = "off"

\* The rows behind the buffer and the pending rows have been written.
RowsBehind ==
  ~threw /\ job = "active" =>
    /\ \A r \in 1..(handled - held - left) : imported[r] >= 1
    /\ flush = "progress" => \A r \in FirstLeft(attempt) : imported[r] >= 1
    /\ stalls = 0 => processed = handled - held - left + recounted

\* When the pipeline ends well nothing is under way.
EndsDrained ==
  ~threw /\ (job = "completed" \/ (job = "active" /\ pc \in {"closing", "returned"})) =>
    owner = "none" /\ chain = 0 /\ (job = "active" => held = 0 /\ handled = N)

\* In a first run, a row from the cursor on was written only by a doubtful attempt or by
\* the one whose progress is awaited.
FreshAhead ==
  stalls = 0 =>
    /\ job = "waiting" => processed = 0 /\ recounted = 0 /\ \A r \in Rows : imported[r] = 0
    /\ (pc # "idle" \/ chain > 0 \/ owner # "none" \/ endPc # "off") =>
         \A r \in Rows : imported[r] >= 1 /\ r \notin doubtful =>
           \/ r <= handled - held - left
           \/ flush = "progress" /\ r \in FirstLeft(attempt)

IInv == /\ Shape /\ RowsBehind /\ EndsDrained /\ FreshAhead
        /\ BatchInPlan /\ CompletedIsComplete /\ NoDuplicates /\ ProgressAgrees

-----------------------------------------------------------------------------
(* What a test claims, and the code does not keep *)

\* "should set job to failed if target importData throws mid-stream".
FailedImportFailsJob == job = "completed" => ~threw
=============================================================================
