---------------------- MODULE MigrationPipeline_proofs ----------------------
(***************************************************************************)
(* Proofs about MigrationPipeline, for any table size, batch plan and      *)
(* number of failures.                                                     *)
(***************************************************************************)
EXTENDS MigrationPipeline, BatchSizing, TLAPS

USE PlanAssumption

-----------------------------------------------------------------------------
(* Types *)

LEMMA WrittenTyped ==
  ASSUME TypeData, NEW n \in Nat
  PROVE  Written(n) \in [Rows -> Nat]
BY DEF Written, TypeData

LEMMA FirstLeftRows ==
  ASSUME TypeData, Shape, NEW n \in Int, n <= left
  PROVE  FirstLeft(n) \subseteq Rows
BY DEF FirstLeft, Rows, Shape, TypeData

LEMMA ReduceBounds ==
  ASSUME NEW size \in Nat, size > MinBatch
  PROVE  Reduce(size) \in Nat /\ Reduce(size) >= MinBatch /\ Reduce(size) < size
BY DEF Reduce, Larger

LEMMA StartFlushTyped ==
  ASSUME TypeData, BatchInPlan, NEW n \in 1..N,
         NEW who \in {"chunk", "end", "loop", "last"}, StartFlush(who, n)
  PROVE  /\ owner' = who /\ flush' = "import" /\ left' = n /\ held' = 0
         /\ attempt' \in 1..n /\ attempt' <= batchSize /\ batchSize' = batchSize
BY DEF StartFlush, Smaller, TypeData, BatchInPlan

LEMMA RetryTyped ==
  ASSUME TypeData, BatchInPlan, NEW b \in BOOLEAN, flush # "off", Retry(b)
  PROVE  /\ owner' \in {"none", "chunk", "end", "loop", "last"}
         /\ flush' \in {"off", "import", "progress"}
         /\ left' \in 0..N /\ attempt' \in 0..N /\ batchSize' \in Nat
         /\ chain' \in 0..N
         /\ endPc' \in {"off", "check", "drain", "flush", "failing"}
         /\ failing' \in Nat
         /\ pc' \in Resolving \cup {"idle", "streaming", "catch", "closing", "rethrow",
                                    "returned", "thrown"}
<1>1. CASE b /\ attempt > MinBatch
  <2>1. Reduce(attempt) \in 0..N
    BY <1>1, ReduceBounds DEF TypeData
  <2> QED
    BY <1>1, <2>1 DEF Retry, TypeData, endVars
<1>2. CASE ~(b /\ attempt > MinBatch)
  <2>1. FlushThrows
    BY <1>2 DEF Retry
  <2>2. CASE owner = "chunk"
    BY <2>1, <2>2 DEF FlushThrows, Idle, TypeData
  <2>3. CASE owner = "end"
    BY <2>1, <2>3 DEF FlushThrows, Idle, TypeData
  <2>4. CASE owner \in {"loop", "last"}
    BY <2>1, <2>4 DEF FlushThrows, Idle, TypeData, endVars
  <2> QED
    BY <2>1, <2>2, <2>3, <2>4 DEF FlushThrows
<1> QED
  BY <1>1, <1>2

LEMMA FlushReturnsTyped ==
  ASSUME TypeData, FlushReturns
  PROVE  /\ owner' = "none" /\ flush' = "off" /\ left' = 0 /\ attempt' = 0
         /\ chain' \in 0..N
         /\ endPc' \in {"off", "check", "drain", "flush", "failing"}
         /\ failing' \in Nat
         /\ pc' \in Resolving \cup {"idle", "streaming", "catch", "closing", "rethrow",
                                    "returned", "thrown"}
BY DEF FlushReturns, Idle, Finish, TypeData, endVars

LEMMA SetupTyped ==
  ASSUME TypeData, Setup
  PROVE  TypeData'
<1> USE DEF setup, jobVars, setupVars, streamVars, flushVars, endVars, targetVars
<1>1. CASE Validated \/ StreamOpened \/ PreflightPassed \/ SetupFails
  <2>1. /\ pc' \in Resolving \cup {"streaming", "catch"}
        /\ UNCHANGED <<pools, setup>>
    BY <1>1 DEF Validated, PreflightPassed, StreamOpened, SetupFails, Resolving
  <2> QED
    BY <2>1 DEF TypeData
<1>2. CASE SourceOpened \/ TargetOpened
  <2>1. /\ pc' \in {"openTarget", "preflight"}
        /\ pools' \in {pools \cup {"source"}, pools \cup {"target"}}
        /\ UNCHANGED setup
    BY <1>2 DEF SourceOpened, TargetOpened
  <2>2. pools' \subseteq {"source", "target"}
    BY <2>1 DEF TypeData
  <2> QED
    BY <2>1, <2>2 DEF TypeData, Resolving
<1>3. CASE CatchFailsJob
  BY <1>3 DEF TypeData, CatchFailsJob
<1>4. CASE CloseResources
  BY <1>4 DEF TypeData, CloseResources
<1> QED
  BY <1>1, <1>2, <1>3, <1>4 DEF Setup

LEMMA VolatileTyped ==
  ASSUME Volatile({})
  PROVE  /\ pools' \subseteq {"source", "target"}
         /\ chain' \in 0..N /\ handled' \in 0..N /\ held' \in 0..N
         /\ owner' \in {"none", "chunk", "end", "loop", "last"}
         /\ flush' \in {"off", "import", "progress"}
         /\ left' \in 0..N /\ attempt' \in 0..N /\ batchSize' \in Nat
         /\ endPc' \in {"off", "check", "drain", "flush", "failing"}
         /\ failing' \in Nat
BY DEF Volatile

LEMMA WorkerTyped ==
  ASSUME TypeData, Dequeue \/ Crash \/ WorkerEnds \/ FailRejected
  PROVE  TypeData'
<1>1. CASE Dequeue
  BY <1>1, VolatileTyped DEF TypeData, Dequeue, Resolving, targetVars
<1>2. CASE Crash \/ FailRejected
  BY <1>2, VolatileTyped DEF TypeData, Crash, FailRejected, Die, targetVars
<1>3. CASE WorkerEnds
  BY <1>3 DEF TypeData, WorkerEnds, setupVars, streamVars, flushVars, endVars, targetVars
<1> QED
  BY <1>1, <1>2, <1>3

LEMMA FlushTyped ==
  ASSUME TypeData, Shape, BatchInPlan, FlushStep
  PROVE  TypeData'
<1> USE DEF jobVars, setupVars, streamVars, endVars, targetVars
<1>1. CASE ImportDone
  BY <1>1, WrittenTyped DEF TypeData, ImportDone
<1>2. ASSUME NEW n \in 0..N, NEW b \in BOOLEAN, ImportFails(n, b)
      PROVE  TypeData'
  <2>1. FirstLeft(n) \subseteq Rows
    BY <1>2, FirstLeftRows DEF ImportFails, BatchInPlan, TypeData, Shape
  <2>2. flush # "off" /\ Retry(b)
    BY <1>2 DEF ImportFails
  <2> QED
    BY <1>2, <2>1, <2>2, RetryTyped, WrittenTyped DEF TypeData, ImportFails
<1>3. CASE ProgressDone
  <2>1. CASE left - attempt > 0
    BY <1>3, <2>1 DEF ProgressDone, Smaller, Larger, TypeData, BatchInPlan
  <2>2. CASE left - attempt = 0
    BY <1>3, <2>2, FlushReturnsTyped DEF ProgressDone, Larger, TypeData, BatchInPlan
  <2> QED
    BY <1>3, <2>1, <2>2 DEF ProgressDone
<1>4. ASSUME NEW b \in BOOLEAN, NEW a \in BOOLEAN, ProgressFails(b, a)
      PROVE  TypeData'
  <2>1. FirstLeft(attempt) \subseteq Rows
    BY <1>4, FirstLeftRows DEF ProgressFails, BatchInPlan, TypeData
  <2>2. flush # "off" /\ Retry(b)
    BY <1>4 DEF ProgressFails
  <2> QED
    BY <1>4, <2>1, <2>2, RetryTyped DEF TypeData, ProgressFails
<1> QED
  BY <1>1, <1>2, <1>3, <1>4 DEF FlushStep

LEMMA StreamTyped ==
  ASSUME TypeData, Shape, BatchInPlan, StreamStep \/ StreamFails
  PROVE  TypeData'
<1> USE DEF jobVars, setupVars, streamVars, flushVars, endVars, targetVars
<1>1. CASE Deliver \/ StreamEnds \/ StreamFails
  <2>1. CASE Deliver
    BY <2>1 DEF TypeData, Deliver
  <2>2. CASE StreamEnds
    BY <2>2 DEF TypeData, StreamEnds
  <2>3. CASE StreamFails
    BY <2>3 DEF TypeData, StreamFails
  <2> QED
    BY <1>1, <2>1, <2>2, <2>3
<1>2. CASE HandleChunk
  <2>1. handled + 1 \in 1..N /\ held + 1 \in 1..N
    BY <1>2 DEF HandleChunk, Shape, TypeData
  <2>2. CASE held + 1 < batchSize
    BY <1>2, <2>1, <2>2 DEF TypeData, HandleChunk
  <2>3. CASE StartFlush("chunk", held + 1) /\ paused' = TRUE
    BY <1>2, <2>1, <2>3, StartFlushTyped DEF TypeData, HandleChunk
  <2> QED
    BY <1>2, <2>2, <2>3 DEF HandleChunk, TypeData
<1>3. CASE Pull
  <2>1. handled + 1 \in 1..N /\ held + 1 \in 1..N
    BY <1>3 DEF Pull, Shape, TypeData
  <2> QED
    BY <1>3, <2>1, StartFlushTyped DEF TypeData, Pull
<1>4. CASE LoopEnds
  BY <1>4, StartFlushTyped DEF TypeData, LoopEnds
<1> QED
  BY <1>1, <1>2, <1>3, <1>4 DEF StreamStep

LEMMA EndTyped ==
  ASSUME TypeData, BatchInPlan, EndStep \/ FailAccepted
  PROVE  TypeData'
<1> USE DEF jobVars, setupVars, streamVars, flushVars, endVars, targetVars
<1>1. CASE EndChecked \/ FailAccepted
  <2>1. CASE EndChecked
    BY <2>1 DEF TypeData, EndChecked, Finish
  <2>2. CASE FailAccepted /\ endPc = "failing" /\ endPc' = "off" /\ UNCHANGED failing
    BY <2>2 DEF TypeData, FailAccepted, Finish
  <2>3. CASE FailAccepted /\ failing > 0 /\ failing' = failing - 1 /\ UNCHANGED endPc
    BY <2>3 DEF TypeData, FailAccepted, Finish
  <2> QED
    BY <1>1, <2>1, <2>2, <2>3 DEF FailAccepted
<1>2. CASE EndDrains
  <2>1. CASE held = 0
    BY <1>2, <2>1 DEF TypeData, EndDrains, Finish
  <2>2. CASE held > 0
    BY <1>2, <2>2, StartFlushTyped DEF TypeData, EndDrains
  <2> QED
    BY <2>1, <2>2 DEF TypeData
<1> QED
  BY <1>1, <1>2 DEF EndStep

LEMMA FlagsTyped == TypeFlags /\ [Next]_vars => TypeFlags'
<1> SUFFICES ASSUME TypeFlags, [Next]_vars
             PROVE  TypeFlags'
  OBVIOUS
<1> USE DEF TypeFlags, setup, setupVars, streamVars, endVars
<1>1. CASE Dequeue \/ Crash \/ WorkerEnds \/ FailRejected
  BY <1>1 DEF Dequeue, Crash, WorkerEnds, FailRejected, Die, Volatile
<1>2. CASE Setup
  BY <1>2 DEF Setup, Validated, SourceOpened, TargetOpened, PreflightPassed, StreamOpened,
              SetupFails, CatchFailsJob, CloseResources
<1>3. CASE FlushStep
  BY <1>3 DEF FlushStep, ImportDone, ImportFails, ProgressDone, ProgressFails, Retry,
              FlushThrows, FlushReturns, Finish
<1>4. CASE StreamStep \/ StreamFails
  BY <1>4 DEF StreamStep, Deliver, HandleChunk, StreamEnds, Pull, LoopEnds, StreamFails
<1>5. CASE EndStep \/ FailAccepted
  BY <1>5 DEF EndStep, EndChecked, EndDrains, FailAccepted, Finish
<1>6. CASE UNCHANGED vars
  BY <1>6 DEF vars
<1> QED
  BY <1>1, <1>2, <1>3, <1>4, <1>5, <1>6 DEF Next

LEMMA DataTyped == TypeData /\ Shape /\ BatchInPlan /\ [Next]_vars => TypeData'
<1>1. ASSUME TypeData, UNCHANGED vars
      PROVE  TypeData'
  BY <1>1 DEF TypeData, vars, jobVars, setupVars, streamVars, flushVars, endVars, targetVars
<1> QED
  BY <1>1, SetupTyped, WorkerTyped, FlushTyped, StreamTyped, EndTyped DEF Next

-----------------------------------------------------------------------------
(* The batch plan *)

LEMMA StartFlushPlans ==
  ASSUME TypeData, BatchInPlan, NEW n \in 1..N,
         NEW who \in {"chunk", "end", "loop", "last"}, StartFlush(who, n)
  PROVE  BatchInPlan'
BY StartFlushTyped DEF BatchInPlan

LEMMA RetryPlans ==
  ASSUME TypeData, BatchInPlan, NEW b \in BOOLEAN, flush # "off", Retry(b)
  PROVE  BatchInPlan'
<1>1. CASE b /\ attempt > MinBatch
  <2>1. /\ Reduce(attempt) \in Nat /\ Reduce(attempt) >= MinBatch
        /\ Reduce(attempt) < attempt
    BY <1>1, ReduceBounds DEF TypeData
  <2> QED
    BY <1>1, <2>1 DEF Retry, BatchInPlan, TypeData
<1>2. CASE ~(b /\ attempt > MinBatch)
  BY <1>2 DEF Retry, FlushThrows, Idle, BatchInPlan
<1> QED
  BY <1>1, <1>2

LEMMA VolatilePlans == Volatile({}) => BatchInPlan'
BY DEF Volatile, BatchInPlan

LEMMA BatchPlanned == TypeData /\ Shape /\ BatchInPlan /\ [Next]_vars => BatchInPlan'
<1> SUFFICES ASSUME TypeData, Shape, BatchInPlan, [Next]_vars
             PROVE  BatchInPlan'
  OBVIOUS
<1> USE DEF setup, flushVars
<1>1. CASE Dequeue \/ Crash \/ FailRejected
  BY <1>1, VolatilePlans DEF Dequeue, Crash, FailRejected, Die
<1>2. CASE WorkerEnds \/ Setup
  BY <1>2 DEF WorkerEnds, Setup, Validated, SourceOpened, TargetOpened, PreflightPassed,
              StreamOpened, SetupFails, CatchFailsJob, CloseResources, BatchInPlan
<1>3. CASE ImportDone
  BY <1>3 DEF ImportDone, BatchInPlan
<1>4. ASSUME NEW n \in 0..N, NEW b \in BOOLEAN, ImportFails(n, b)
      PROVE  BatchInPlan'
  BY <1>4, RetryPlans DEF ImportFails
<1>5. ASSUME NEW b \in BOOLEAN, NEW a \in BOOLEAN, ProgressFails(b, a)
      PROVE  BatchInPlan'
  BY <1>5, RetryPlans DEF ProgressFails
<1>6. CASE ProgressDone
  BY <1>6 DEF ProgressDone, FlushReturns, Idle, Larger, Smaller, BatchInPlan, TypeData
<1>7. CASE HandleChunk
  <2>1. held + 1 \in 1..N
    BY <1>7 DEF HandleChunk, Shape, TypeData
  <2> QED
    BY <1>7, <2>1, StartFlushPlans DEF HandleChunk, BatchInPlan
<1>8. CASE Pull
  <2>1. held + 1 \in 1..N
    BY <1>8 DEF Pull, Shape, TypeData
  <2> QED
    BY <1>8, <2>1, StartFlushPlans DEF Pull, BatchInPlan
<1>9. CASE LoopEnds \/ EndDrains
  BY <1>9, StartFlushPlans DEF LoopEnds, EndDrains, BatchInPlan, TypeData
<1>10. CASE Deliver \/ StreamEnds \/ StreamFails \/ EndChecked \/ FailAccepted
  BY <1>10 DEF Deliver, StreamEnds, StreamFails, EndChecked, FailAccepted, BatchInPlan
<1>11. CASE UNCHANGED vars
  BY <1>11 DEF vars, BatchInPlan
<1> QED
  BY <1>1, <1>2, <1>3, <1>4, <1>5, <1>6, <1>7, <1>8, <1>9, <1>10, <1>11
  DEF Next, FlushStep, StreamStep, EndStep

-----------------------------------------------------------------------------
(* Who is where *)

LEMMA SetupShapes ==
  ASSUME TypeOK, Shape, Setup
  PROVE  Shape'
<1> USE DEF setup, jobVars, setupVars, streamVars, flushVars, endVars
<1>1. CASE Validated \/ SourceOpened \/ TargetOpened \/ PreflightPassed
  BY <1>1 DEF Validated, SourceOpened, TargetOpened, PreflightPassed, Shape, Resolving
<1>2. CASE StreamOpened
  BY <1>2 DEF StreamOpened, Shape, Resolving
<1>3. CASE SetupFails
  BY <1>3 DEF SetupFails, Shape, Resolving
<1>4. CASE CatchFailsJob
  BY <1>4 DEF CatchFailsJob, Shape, Resolving
<1>5. CASE CloseResources
  BY <1>5 DEF CloseResources, Shape, Resolving
<1> QED
  BY <1>1, <1>2, <1>3, <1>4, <1>5 DEF Setup

LEMMA WorkerShapes ==
  ASSUME TypeOK, Shape, Dequeue \/ Crash \/ WorkerEnds \/ FailRejected
  PROVE  Shape'
<1>1. CASE Dequeue
  BY <1>1 DEF Dequeue, Volatile, Shape, Resolving, TypeOK, TypeData
<1>2. CASE Crash \/ FailRejected
  BY <1>2 DEF Crash, FailRejected, Die, Volatile, Shape, Resolving, TypeOK, TypeData
<1>3. CASE WorkerEnds
  BY <1>3 DEF WorkerEnds, Shape, Resolving, setupVars, streamVars, flushVars, endVars
<1> QED
  BY <1>1, <1>2, <1>3

LEMMA ReturnShapes ==
  ASSUME TypeOK, Shape, owner # "none", FlushReturns,
         UNCHANGED <<kind, job, handled, held, ended, threw>>
  PROVE  Shape'
<1>1. CASE owner = "chunk"
  BY <1>1 DEF FlushReturns, Idle, Shape, Resolving, TypeOK, TypeData, endVars
<1>2. CASE owner = "end"
  BY <1>2 DEF FlushReturns, Idle, Finish, Shape, Resolving, TypeOK, TypeData
<1>3. CASE owner \in {"loop", "last"}
  BY <1>3 DEF FlushReturns, Idle, Shape, Resolving, TypeOK, TypeData, endVars
<1> QED
  BY <1>1, <1>2, <1>3 DEF FlushReturns

LEMMA ThrowShapes ==
  ASSUME TypeOK, Shape, owner # "none", FlushThrows, UNCHANGED <<kind, job, handled, held, ended>>
  PROVE  Shape'
<1>1. CASE owner = "chunk"
  BY <1>1 DEF FlushThrows, Idle, Shape, Resolving, TypeOK, TypeData
<1>2. CASE owner = "end"
  BY <1>2 DEF FlushThrows, Idle, Shape, Resolving, TypeOK, TypeData
<1>3. CASE owner \in {"loop", "last"}
  BY <1>3 DEF FlushThrows, Idle, Shape, Resolving, TypeOK, TypeData, endVars
<1> QED
  BY <1>1, <1>2, <1>3 DEF FlushThrows

LEMMA RetryShapes ==
  ASSUME TypeOK, Shape, NEW b \in BOOLEAN, flush # "off", Retry(b),
         UNCHANGED <<kind, job, handled, held, ended>>
  PROVE  Shape'
<1>1. CASE b /\ attempt > MinBatch
  BY <1>1 DEF Retry, Shape, endVars
<1>2. CASE ~(b /\ attempt > MinBatch)
  BY <1>2, ThrowShapes DEF Retry, Shape
<1> QED
  BY <1>1, <1>2

LEMMA FlushShapes ==
  ASSUME TypeOK, Shape, BatchInPlan, FlushStep
  PROVE  Shape'
<1> USE DEF jobVars
<1>1. CASE ImportDone
  BY <1>1 DEF ImportDone, Shape, endVars, streamVars
<1>2. ASSUME NEW n \in 0..N, NEW b \in BOOLEAN, ImportFails(n, b)
      PROVE  Shape'
  BY <1>2, RetryShapes DEF ImportFails
<1>3. CASE ProgressDone
  <2>1. CASE left - attempt > 0
    BY <1>3, <2>1 DEF ProgressDone, Shape, BatchInPlan, TypeOK, TypeData, endVars
  <2>2. CASE FlushReturns
    BY <1>3, <2>2, ReturnShapes DEF ProgressDone, Shape
  <2> QED
    BY <1>3, <2>1, <2>2 DEF ProgressDone
<1>4. ASSUME NEW b \in BOOLEAN, NEW a \in BOOLEAN, ProgressFails(b, a)
      PROVE  Shape'
  BY <1>4, RetryShapes DEF ProgressFails
<1> QED
  BY <1>1, <1>2, <1>3, <1>4 DEF FlushStep

LEMMA StreamShapes ==
  ASSUME TypeOK, Shape, BatchInPlan, StreamStep \/ StreamFails
  PROVE  Shape'
<1> USE DEF jobVars, streamVars, flushVars, endVars, TypeOK, TypeData
<1>1. CASE Deliver
  BY <1>1 DEF Deliver, Shape, Resolving
<1>2. CASE StreamEnds
  BY <1>2 DEF StreamEnds, Shape, Resolving
<1>3. CASE StreamFails
  BY <1>3 DEF StreamFails, Shape, Resolving
<1>4. CASE HandleChunk
  <2>1. CASE held + 1 < batchSize
    BY <1>4, <2>1 DEF HandleChunk, Shape, BatchInPlan
  <2>2. CASE held + 1 >= batchSize
    BY <1>4, <2>2 DEF HandleChunk, StartFlush, Shape, BatchInPlan, Resolving
  <2> QED
    BY <2>1, <2>2
<1>5. CASE Pull
  <2>1. CASE held + 1 < batchSize
    BY <1>5, <2>1 DEF Pull, Shape, BatchInPlan, Resolving
  <2>2. CASE held + 1 >= batchSize
    BY <1>5, <2>2 DEF Pull, StartFlush, Shape, BatchInPlan, Resolving
  <2> QED
    BY <2>1, <2>2
<1>6. CASE LoopEnds
  BY <1>6 DEF LoopEnds, StartFlush, Shape, Resolving
<1> QED
  BY <1>1, <1>2, <1>3, <1>4, <1>5, <1>6 DEF StreamStep

LEMMA EndShapes ==
  ASSUME TypeOK, Shape, EndStep \/ FailAccepted
  PROVE  Shape'
<1> USE DEF jobVars, streamVars, flushVars, endVars, TypeOK, TypeData
<1>1. CASE EndChecked
  <2>1. CASE job = "failed"
    BY <1>1, <2>1 DEF EndChecked, Finish, Shape, Resolving
  <2>2. CASE job # "failed"
    BY <1>1, <2>2 DEF EndChecked, Shape, Resolving
  <2> QED
    BY <2>1, <2>2
<1>2. CASE EndDrains
  <2>1. CASE held = 0
    BY <1>2, <2>1 DEF EndDrains, Finish, Shape, Resolving
  <2>2. CASE held > 0
    BY <1>2, <2>2 DEF EndDrains, StartFlush, Shape, Resolving
  <2> QED
    BY <2>1, <2>2
<1>3. CASE FailAccepted
  BY <1>3 DEF FailAccepted, Finish, Shape, Resolving
<1> QED
  BY <1>1, <1>2, <1>3 DEF EndStep

-----------------------------------------------------------------------------
(* The rows behind the cursor *)

LEMMA WrittenGrows ==
  ASSUME TypeData, NEW n \in 0..N, NEW r \in Rows
  PROVE  /\ Written(n)[r] >= imported[r]
         /\ r \in FirstLeft(n) => Written(n)[r] >= 1
BY DEF Written, TypeData

LEMMA BehindFrame ==
  ASSUME TypeData, RowsBehind,
         handled' - held' - left' = handled - held - left,
         stalls' = stalls, processed' - recounted' = processed - recounted,
         processed' \in Nat, recounted' \in Nat,
         \A r \in Rows : imported'[r] >= imported[r],
         imported' \in [Rows -> Nat],
         handled \in 0..N,
         handled - held - left \in Nat,
         threw => threw', job' = "active" => job = "active",
         flush' # "progress" \/ UNCHANGED <<handled, left, flush, attempt, imported>>
  PROVE  RowsBehind'
<1> SUFFICES ASSUME ~threw', job' = "active"
             PROVE  /\ \A r \in 1..(handled - held - left) : imported'[r] >= 1
                    /\ flush' = "progress" => \A r \in FirstLeft(attempt)' : imported'[r] >= 1
                    /\ stalls = 0 => processed' = handled - held - left + recounted'
  BY DEF RowsBehind
<1>1. \A r \in 1..(handled - held - left) : imported[r] >= 1 /\ r \in Rows
  BY DEF RowsBehind, Rows, TypeData
<1>2. \A r \in 1..(handled - held - left) : imported'[r] >= 1
  BY <1>1 DEF TypeData
<1>3. flush' = "progress" => \A r \in FirstLeft(attempt)' : imported'[r] >= 1
  BY DEF RowsBehind, FirstLeft
<1>4. ASSUME stalls = 0
      PROVE  processed' = handled - held - left + recounted'
  <2>1. processed = handled - held - left + recounted
    BY <1>4 DEF RowsBehind
  <2>2. processed \in Nat /\ recounted \in Nat
    BY DEF TypeData
  <2> QED
    BY <2>1, <2>2
<1> QED
  BY <1>2, <1>3, <1>4 DEF RowsBehind

LEMMA QuietBehind ==
  ASSUME TypeOK, Shape, RowsBehind,
         UNCHANGED <<handled, held, left, flush, attempt, imported, stalls, processed, recounted>>,
         threw => threw', job' = "active" => job = "active"
  PROVE  RowsBehind'
<1>1. /\ handled - held - left \in Nat /\ handled \in 0..N
      /\ imported' \in [Rows -> Nat] /\ \A r \in Rows : imported'[r] >= imported[r]
      /\ processed' \in Nat /\ recounted' \in Nat
  BY DEF Shape, TypeOK, TypeData
<1> QED
  BY <1>1, BehindFrame DEF TypeOK

LEMMA FlushBehind ==
  ASSUME TypeOK, Shape, BatchInPlan, RowsBehind, FlushStep
  PROVE  RowsBehind'
<1> USE DEF jobVars
<1>1. CASE ImportDone
  <2>1. attempt \in 0..N /\ FirstLeft(attempt) \subseteq Rows
    BY <1>1, FirstLeftRows DEF ImportDone, BatchInPlan, TypeOK, TypeData
  <2>2. \A r \in Rows : imported'[r] >= imported[r]
    BY <1>1, <2>1, WrittenGrows DEF ImportDone, TypeOK
  <2>3. \A r \in FirstLeft(attempt) : imported'[r] >= 1
    BY <1>1, <2>1, WrittenGrows DEF ImportDone, TypeOK
  <2>4. FirstLeft(attempt)' = FirstLeft(attempt)
    BY <1>1 DEF ImportDone, FirstLeft, streamVars
  <2>5. imported' \in [Rows -> Nat] /\ imported \in [Rows -> Nat]
    BY <1>1, <2>1, WrittenTyped DEF ImportDone, TypeOK, TypeData
  <2>6. \A r \in 1..(handled - held - left) : r \in Rows
    BY DEF TypeOK, TypeData, Rows
  <2> QED
    BY <1>1, <2>2, <2>3, <2>4, <2>5, <2>6 DEF ImportDone, RowsBehind, streamVars
<1>2. ASSUME NEW n \in 0..N, NEW b \in BOOLEAN, ImportFails(n, b)
      PROVE  RowsBehind'
  <2>1. CASE b /\ attempt > MinBatch
    <3>1. /\ UNCHANGED <<handled, held, left, job, stalls, processed, recounted, threw>>
          /\ flush' = "import"
      BY <1>2, <2>1 DEF ImportFails, Retry
    <3>2. imported' = Written(n)
      BY <1>2 DEF ImportFails
    <3>3. imported' \in [Rows -> Nat] /\ \A r \in Rows : imported'[r] >= imported[r]
      BY <3>2, WrittenGrows, WrittenTyped DEF TypeOK
    <3>4. /\ handled - held - left \in Nat /\ handled \in 0..N
          /\ processed' \in Nat /\ recounted' \in Nat
      BY <3>1 DEF Shape, TypeOK, TypeData
    <3> QED
      BY <3>1, <3>3, <3>4, BehindFrame DEF TypeOK
  <2>2. CASE ~(b /\ attempt > MinBatch)
    BY <1>2, <2>2 DEF ImportFails, Retry, FlushThrows, RowsBehind
  <2> QED
    BY <2>1, <2>2
<1>3. CASE ProgressDone
  <2>1. /\ left' = left - attempt /\ held' = held /\ handled' = handled
        /\ imported' = imported /\ flush' # "progress"
        /\ processed' = processed + attempt /\ recounted' = recounted
        /\ stalls' = stalls /\ job' = job
        /\ threw' = threw
    BY <1>3 DEF ProgressDone, FlushReturns, Idle, targetVars, TypeOK, TypeData
  <2>2. flush = "progress" /\ held = 0
    BY <1>3 DEF ProgressDone, Shape
  <2>3. \A r \in 1..(handled - left + attempt) :
           r \in 1..(handled - held - left) \/ r \in FirstLeft(attempt)
    BY <2>2 DEF FirstLeft, TypeOK, TypeData
  <2>4. handled' - held' - left' = handled - left + attempt
    BY <2>1, <2>2 DEF TypeOK, TypeData
  <2>5. stalls = 0 /\ ~threw /\ job = "active" =>
            processed' = handled' - held' - left' + recounted'
    BY <2>1, <2>2, <2>4 DEF RowsBehind, TypeOK, TypeData
  <2> QED
    BY <2>1, <2>2, <2>3, <2>4, <2>5 DEF RowsBehind
<1>4. ASSUME NEW b \in BOOLEAN, NEW a \in BOOLEAN, ProgressFails(b, a)
      PROVE  RowsBehind'
  <2>1. CASE b /\ attempt > MinBatch
    <3>1. /\ UNCHANGED <<handled, held, left, job, stalls, threw, imported>>
          /\ flush' = "import"
      BY <1>4, <2>1 DEF ProgressFails, Retry
    <3>2. /\ processed' \in Nat /\ recounted' \in Nat
          /\ processed' - recounted' = processed - recounted
      BY <1>4 DEF ProgressFails, TypeOK, TypeData
    <3>3. /\ imported' \in [Rows -> Nat] /\ \A r \in Rows : imported'[r] >= imported[r]
          /\ handled - held - left \in Nat /\ handled \in 0..N
      BY <3>1 DEF Shape, TypeOK, TypeData
    <3> QED
      BY <3>1, <3>2, <3>3, BehindFrame DEF TypeOK
  <2>2. CASE ~(b /\ attempt > MinBatch)
    BY <1>4, <2>2 DEF ProgressFails, Retry, FlushThrows, RowsBehind
  <2> QED
    BY <2>1, <2>2
<1> QED
  BY <1>1, <1>2, <1>3, <1>4 DEF FlushStep

\* A chunk that is handled, and a flush that starts, leave the rows behind where they were.
LEMMA HandleBehind ==
  ASSUME TypeOK, Shape, RowsBehind, HandleChunk \/ Pull \/ LoopEnds \/ EndDrains
  PROVE  RowsBehind'
<1>1. /\ handled' - held' - left' = handled - held - left
      /\ UNCHANGED <<stalls, processed, recounted, job, threw, imported>>
      /\ flush' # "progress"
  BY DEF HandleChunk, Pull, LoopEnds, EndDrains, StartFlush, jobVars, streamVars, flushVars,
         targetVars, Shape, TypeOK, TypeData
<1>2. /\ imported' \in [Rows -> Nat] /\ \A r \in Rows : imported'[r] >= imported[r]
      /\ handled - held - left \in Nat /\ handled \in 0..N
      /\ processed' \in Nat /\ recounted' \in Nat
      /\ processed' - recounted' = processed - recounted
  BY <1>1 DEF Shape, TypeOK, TypeData
<1> QED
  BY <1>1, <1>2, BehindFrame DEF TypeOK

LEMMA NextBehind == TypeOK /\ IInv /\ [Next]_vars => RowsBehind'
<1> SUFFICES ASSUME TypeOK, IInv, [Next]_vars
             PROVE  RowsBehind'
  OBVIOUS
<1>1. CASE Dequeue
  BY <1>1 DEF Dequeue, Volatile, IInv, FreshAhead, RowsBehind
<1>2. CASE Crash \/ FailRejected
  <2>1. job' # "active"
    BY <1>2 DEF Crash, FailRejected, Die
  <2> QED
    BY <2>1 DEF RowsBehind
<1>3. CASE WorkerEnds \/ Setup
  BY <1>3, QuietBehind DEF WorkerEnds, Setup, Validated, SourceOpened, TargetOpened,
     PreflightPassed, StreamOpened, SetupFails, CatchFailsJob, CloseResources, setup, jobVars,
     streamVars, flushVars, targetVars, IInv
<1>4. CASE Deliver \/ StreamEnds \/ StreamFails \/ EndChecked \/ FailAccepted
  BY <1>4, QuietBehind DEF Deliver, StreamEnds, StreamFails, EndChecked, FailAccepted, jobVars,
     streamVars, flushVars, targetVars, IInv
<1>5. CASE HandleChunk \/ Pull \/ LoopEnds \/ EndDrains
  BY <1>5, HandleBehind DEF IInv
<1>6. CASE FlushStep
  BY <1>6, FlushBehind DEF IInv
<1>7. CASE UNCHANGED vars
  BY <1>7, QuietBehind DEF vars, jobVars, streamVars, flushVars, targetVars, IInv
<1> QED
  BY <1>1, <1>2, <1>3, <1>4, <1>5, <1>6, <1>7 DEF Next, StreamStep, EndStep

-----------------------------------------------------------------------------
(* The end of the pipeline *)

LEMMA FlushEnds ==
  ASSUME TypeOK, Shape, EndsDrained, FlushStep
  PROVE  EndsDrained'
<1> USE DEF jobVars
<1>1. owner # "none" /\ job' = job /\ handled' = handled
  BY DEF FlushStep, ImportDone, ImportFails, ProgressDone, ProgressFails, Shape, streamVars
<1>2. threw => threw'
  BY DEF FlushStep, ImportDone, ImportFails, ProgressDone, ProgressFails, Retry, FlushThrows
<1>3. ~threw => job # "completed" /\ ~(job = "active" /\ pc \in {"closing", "returned"})
  BY <1>1 DEF EndsDrained
<1>4. threw' \/ pc' = pc \/ FlushReturns
  BY DEF FlushStep, ImportDone, ImportFails, ProgressDone, ProgressFails, Retry, FlushThrows
<1>5. CASE ~threw' /\ FlushReturns /\ pc' # pc /\ owner = "end"
  <2>1. owner' = "none" /\ chain' = 0 /\ handled' = N
    BY <1>1, <1>2, <1>5 DEF FlushReturns, Idle, Shape, TypeOK, TypeData
  <2>2. held' = 0
    BY <1>1, <1>5 DEF FlushStep, ImportDone, ImportFails, ProgressDone, ProgressFails, Shape
  <2> QED
    BY <2>1, <2>2 DEF EndsDrained
<1>6. CASE ~threw' /\ FlushReturns /\ pc' # pc /\ owner # "end"
  <2>1. owner = "last"
    BY <1>6 DEF FlushReturns
  <2>2. owner' = "none" /\ chain' = 0 /\ handled' = N
    BY <1>1, <1>6, <2>1 DEF FlushReturns, Idle, Shape, TypeOK, TypeData
  <2>3. held' = 0
    BY <1>1 DEF FlushStep, ImportDone, ImportFails, ProgressDone, ProgressFails, Shape
  <2> QED
    BY <2>2, <2>3 DEF EndsDrained
<1> QED
  BY <1>1, <1>2, <1>3, <1>4, <1>5, <1>6 DEF EndsDrained

LEMMA NextEnds == TypeOK /\ IInv /\ [Next]_vars => EndsDrained'
<1> SUFFICES ASSUME TypeOK, IInv, [Next]_vars
             PROVE  EndsDrained'
  OBVIOUS
<1> USE DEF IInv, jobVars, streamVars, flushVars, endVars, setup
<1>1. CASE Dequeue
  BY <1>1 DEF Dequeue, Volatile, EndsDrained
<1>2. CASE Crash \/ FailRejected
  BY <1>2 DEF Crash, FailRejected, Die, Volatile, EndsDrained
<1>3. CASE WorkerEnds
  BY <1>3 DEF WorkerEnds, EndsDrained, Shape
<1>4. CASE Setup
  <2>1. CASE Validated \/ SourceOpened \/ TargetOpened \/ PreflightPassed \/ StreamOpened
               \/ SetupFails
    BY <2>1 DEF Validated, SourceOpened, TargetOpened, PreflightPassed, StreamOpened,
                SetupFails, Resolving, EndsDrained
  <2>2. CASE CatchFailsJob
    BY <2>2 DEF CatchFailsJob, EndsDrained, Shape
  <2>3. CASE CloseResources
    BY <2>3 DEF CloseResources, EndsDrained
  <2> QED
    BY <1>4, <2>1, <2>2, <2>3 DEF Setup
<1>5. CASE FlushStep
  BY <1>5, FlushEnds
<1>6. CASE Deliver \/ StreamEnds \/ StreamFails
  BY <1>6 DEF Deliver, StreamEnds, StreamFails, EndsDrained, Shape
<1>7. CASE HandleChunk
  BY <1>7 DEF HandleChunk, EndsDrained, TypeOK, TypeData
<1>8. CASE Pull
  BY <1>8 DEF Pull, EndsDrained, Shape
<1>9. CASE LoopEnds
  BY <1>9 DEF LoopEnds, EndsDrained, Shape
<1>10. CASE EndChecked
  BY <1>10 DEF EndChecked, Finish, EndsDrained, Shape
<1>11. CASE EndDrains
  BY <1>11 DEF EndDrains, Finish, EndsDrained, Shape, TypeOK, TypeData
<1>12. CASE FailAccepted
  BY <1>12 DEF FailAccepted, EndsDrained
<1>13. CASE UNCHANGED vars
  BY <1>13 DEF vars, EndsDrained
<1> QED
  BY <1>1, <1>2, <1>3, <1>4, <1>5, <1>6, <1>7, <1>8, <1>9, <1>10, <1>11, <1>12, <1>13
  DEF Next, StreamStep, EndStep

LEMMA NextComplete ==
  ASSUME TypeOK, IInv, [Next]_vars
  PROVE  CompletedIsComplete' /\ ProgressAgrees'
<1> USE DEF IInv, jobVars, targetVars, setup
<1>1. CASE WorkerEnds /\ job' = "completed" /\ ~threw'
  <2>1. job = "active" /\ pc = "returned"
    BY <1>1 DEF WorkerEnds, Shape
  <2>2. ~threw /\ UNCHANGED <<imported, processed, recounted, stalls>>
    BY <1>1 DEF WorkerEnds
  <2>3. held = 0 /\ left = 0 /\ handled = N
    BY <2>1, <2>2 DEF EndsDrained, Shape
  <2>4. handled - held - left = N
    BY <2>3
  <2> QED
    BY <2>1, <2>2, <2>4 DEF RowsBehind, CompletedIsComplete, ProgressAgrees, Rows
<1>2. CASE job' = "completed" /\ ~WorkerEnds
  <2>1. job = "completed"
    BY <1>2 DEF Next, Dequeue, Crash, Die, Setup, Validated, SourceOpened, TargetOpened,
       PreflightPassed, StreamOpened, SetupFails, CatchFailsJob, CloseResources, FlushStep,
       ImportDone, ImportFails, ProgressDone, ProgressFails, StreamStep, Deliver,
       HandleChunk, StreamEnds, Pull, LoopEnds, StreamFails, EndStep, EndChecked, EndDrains,
       FailAccepted, FailRejected, vars
  <2>2. threw => threw'
    BY <2>1 DEF Next, Dequeue, Crash, Die, WorkerEnds, Setup, Validated, SourceOpened,
       TargetOpened, PreflightPassed, StreamOpened, SetupFails, CatchFailsJob,
       CloseResources, FlushStep, ImportDone, ImportFails, ProgressDone, ProgressFails,
       Retry, FlushThrows, StreamStep, Deliver, HandleChunk, StreamEnds, Pull, LoopEnds,
       StreamFails, EndStep, EndChecked, EndDrains, FailAccepted, FailRejected, vars
  <2>3. CASE ~threw
    <3>1. flush = "off"
      BY <2>1, <2>3 DEF EndsDrained, Shape
    <3>2. UNCHANGED <<imported, processed, recounted>> /\ (stalls' = 0 => stalls = 0)
      BY <2>1, <3>1 DEF Next, Dequeue, Crash, Die, WorkerEnds, Setup, Validated,
         SourceOpened, TargetOpened, PreflightPassed, StreamOpened, SetupFails,
         CatchFailsJob, CloseResources, FlushStep, ImportDone, ImportFails, ProgressDone,
         ProgressFails, StreamStep, Deliver, HandleChunk, StreamEnds, Pull, LoopEnds,
         StreamFails, EndStep, EndChecked, EndDrains, FailAccepted, FailRejected, vars
    <3> QED
      BY <2>1, <2>3, <3>2 DEF CompletedIsComplete, ProgressAgrees
  <2> QED
    BY <2>2, <2>3 DEF CompletedIsComplete, ProgressAgrees
<1> QED
  BY <1>1, <1>2 DEF CompletedIsComplete, ProgressAgrees

-----------------------------------------------------------------------------
(* Rows written twice *)

\* Nothing is written, and the rows ahead stay ahead.
LEMMA FreshFrame ==
  ASSUME TypeOK, FreshAhead,
         UNCHANGED <<imported, stalls, processed, recounted>>, doubtful \subseteq doubtful',
         handled' - held' - left' >= handled - held - left,
         handled' - held' - left' \in Int,
         job' = "waiting" => job = "waiting",
         flush # "progress" \/ UNCHANGED <<flush, handled, left, attempt>>
                            \/ FirstLeft(attempt) \subseteq doubtful',
         pc # "idle" \/ chain > 0 \/ owner # "none" \/ endPc # "off" \/
           ~(pc' # "idle" \/ chain' > 0 \/ owner' # "none" \/ endPc' # "off")
  PROVE  FreshAhead'
<1> SUFFICES ASSUME stalls = 0
             PROVE  FreshAhead'
  BY DEF FreshAhead
<1>1. CASE ~(pc' # "idle" \/ chain' > 0 \/ owner' # "none" \/ endPc' # "off")
  BY <1>1 DEF FreshAhead
<1>2. CASE pc # "idle" \/ chain > 0 \/ owner # "none" \/ endPc # "off"
  <2> SUFFICES ASSUME NEW r \in Rows, imported[r] >= 1, r \notin doubtful'
               PROVE  \/ r <= handled' - held' - left'
                      \/ flush' = "progress" /\ r \in FirstLeft(attempt)'
    BY DEF FreshAhead
  <2>1. r \notin doubtful
    OBVIOUS
  <2>2. \/ r <= handled - held - left
        \/ flush = "progress" /\ r \in FirstLeft(attempt)
    BY <1>2, <2>1 DEF FreshAhead
  <2>3. CASE r <= handled - held - left
    BY <2>3 DEF TypeOK, TypeData, Rows
  <2>4. CASE flush = "progress" /\ r \in FirstLeft(attempt)
    BY <2>4 DEF FirstLeft
  <2> QED
    BY <2>2, <2>3, <2>4
<1> QED
  BY <1>1, <1>2

LEMMA FlushFresh ==
  ASSUME TypeOK, Shape, BatchInPlan, FreshAhead, FlushStep
  PROVE  FreshAhead'
<1> USE DEF jobVars
<1>1. owner # "none" /\ job' = job /\ stalls' = stalls /\ handled' = handled
  BY DEF FlushStep, ImportDone, ImportFails, ProgressDone, ProgressFails, Shape, streamVars
<1>2. held = 0 /\ left \in 1..N /\ job # "waiting"
  BY <1>1 DEF Shape, TypeOK, TypeData
<1>3. held' = 0
  BY <1>2 DEF FlushStep, ImportDone, ImportFails, ProgressDone, ProgressFails
<1> SUFFICES ASSUME stalls = 0, NEW r \in Rows, imported'[r] >= 1, r \notin doubtful'
             PROVE  \/ r <= handled - left'
                    \/ flush' = "progress" /\ r \in FirstLeft(attempt)'
  BY <1>1, <1>2, <1>3 DEF FreshAhead, TypeOK, TypeData
<1>4. imported[r] >= 1 /\ r \notin doubtful =>
         r <= handled - left \/ (flush = "progress" /\ r \in FirstLeft(attempt))
  BY <1>1, <1>2 DEF FreshAhead, TypeOK, TypeData
<1>5. CASE ImportDone
  <2>1. r \in FirstLeft(attempt) \/ imported'[r] = imported[r]
    BY <1>5 DEF ImportDone, Written, TypeOK, TypeData
  <2>2. /\ UNCHANGED <<left, attempt, doubtful>> /\ flush = "import" /\ flush' = "progress"
    BY <1>5 DEF ImportDone, targetVars
  <2>3. FirstLeft(attempt)' = FirstLeft(attempt)
    BY <1>1, <2>2 DEF FirstLeft
  <2> QED
    BY <1>4, <2>1, <2>2, <2>3
<1>6. ASSUME NEW n \in 0..N, NEW b \in BOOLEAN, ImportFails(n, b)
      PROVE  r <= handled - left'
  <2>1. imported'[r] = imported[r] /\ r \notin doubtful /\ flush = "import"
    BY <1>6 DEF ImportFails, Written, TypeOK, TypeData
  <2>2. left' = left \/ left' = 0
    BY <1>6 DEF ImportFails, Retry, FlushThrows, Idle
  <2> QED
    BY <1>2, <1>4, <2>1, <2>2 DEF TypeOK, TypeData, Rows
<1>7. CASE ProgressDone
  <2>1. imported' = imported /\ doubtful' = doubtful /\ left' = left - attempt
    BY <1>7 DEF ProgressDone, FlushReturns, Idle, targetVars, TypeOK, TypeData
  <2>2. attempt \in 1..left
    BY <1>7 DEF ProgressDone, BatchInPlan, TypeOK, TypeData
  <2> QED
    BY <1>2, <1>4, <2>1, <2>2 DEF FirstLeft, TypeOK, TypeData, Rows
<1>8. ASSUME NEW b \in BOOLEAN, NEW a \in BOOLEAN, ProgressFails(b, a)
      PROVE  r <= handled - left'
  <2>1. imported' = imported /\ r \notin doubtful /\ r \notin FirstLeft(attempt)
    BY <1>8 DEF ProgressFails
  <2>2. left' = left \/ left' = 0
    BY <1>8 DEF ProgressFails, Retry, FlushThrows, Idle
  <2> QED
    BY <1>2, <1>4, <2>1, <2>2 DEF TypeOK, TypeData, Rows
<1> QED
  BY <1>5, <1>6, <1>7, <1>8 DEF FlushStep

LEMMA NextFresh == TypeOK /\ IInv /\ [Next]_vars => FreshAhead'
<1> SUFFICES ASSUME TypeOK, IInv, [Next]_vars
             PROVE  FreshAhead'
  OBVIOUS
<1> USE DEF IInv, jobVars, streamVars, flushVars, endVars, targetVars, setup
<1>0. handled - held - left \in Int
  BY DEF TypeOK, TypeData
<1>1. CASE Dequeue
  BY <1>1 DEF Dequeue, Volatile, FreshAhead
<1>2. CASE Crash \/ FailRejected
  <2>1. /\ UNCHANGED <<imported, recounted, doubtful>>
        /\ pc' = "idle" /\ chain' = 0 /\ owner' = "none" /\ endPc' = "off"
    BY <1>2 DEF Crash, FailRejected, Die, Volatile
  <2>2. stalls' = 0 => stalls = 0 /\ job' = job
    BY <1>2 DEF Crash, FailRejected, Die, TypeOK, TypeData
  <2>3. job = "waiting" => processed' = processed
    BY <1>2 DEF Crash, FailRejected, Die, Shape
  <2> QED
    BY <2>1, <2>2, <2>3 DEF FreshAhead
<1>3. CASE WorkerEnds \/ Setup
  <2>1. /\ UNCHANGED <<imported, stalls, processed, recounted, doubtful, handled, held, left, flush,
                       attempt>>
        /\ pc # "idle" /\ (job' = "waiting" => job = "waiting")
    BY <1>3 DEF WorkerEnds, Setup, Validated, SourceOpened, TargetOpened, PreflightPassed,
       StreamOpened, SetupFails, CatchFailsJob, CloseResources, Resolving
  <2> QED
    BY <1>0, <2>1, FreshFrame
<1>4. CASE Deliver \/ StreamEnds \/ StreamFails \/ EndChecked \/ FailAccepted
  <2>1. /\ UNCHANGED <<imported, stalls, processed, recounted, doubtful, handled, held, left, flush,
                       attempt, owner>>
        /\ (job' = "waiting" => job = "waiting")
        /\ \/ pc = "streaming" \/ endPc # "off"
           \/ UNCHANGED <<chain, endPc>> /\ (pc' # "idle" => pc # "idle")
    BY <1>4 DEF Deliver, StreamEnds, StreamFails, EndChecked, FailAccepted, Finish
  <2> QED
    BY <1>0, <2>1, FreshFrame
<1>5. CASE HandleChunk \/ Pull \/ LoopEnds \/ EndDrains
  <2>1. /\ UNCHANGED <<imported, stalls, processed, recounted, doubtful, job>>
        /\ handled' - held' - left' = handled - held - left
        /\ flush # "progress"
    BY <1>5 DEF HandleChunk, Pull, LoopEnds, EndDrains, StartFlush, Shape, TypeOK, TypeData
  <2>2. pc # "idle" \/ chain > 0 \/ endPc # "off"
    BY <1>5 DEF HandleChunk, Pull, LoopEnds, EndDrains
  <2> QED
    BY <1>0, <2>1, <2>2, FreshFrame
<1>6. CASE FlushStep
  BY <1>6, FlushFresh
<1>7. CASE UNCHANGED vars
  BY <1>7 DEF vars, FreshAhead, FirstLeft
<1> QED
  BY <1>1, <1>2, <1>3, <1>4, <1>5, <1>6, <1>7 DEF Next, StreamStep, EndStep

LEMMA NextSingle == TypeOK /\ IInv /\ [Next]_vars => NoDuplicates'
<1> SUFFICES ASSUME TypeOK, IInv, [Next]_vars, ~(stalls' > 0),
                    NEW r \in Rows, imported'[r] > 1, r \notin doubtful'
             PROVE  FALSE
  BY DEF NoDuplicates
<1> USE DEF IInv, jobVars, targetVars, setup
<1>1. ~(imported[r] > 1 /\ r \notin doubtful /\ ~(stalls > 0))
  BY DEF NoDuplicates
<1>2. CASE ImportDone
  <2>1. stalls = 0 /\ r \notin doubtful /\ owner # "none" /\ held = 0 /\ flush = "import"
    BY <1>2 DEF ImportDone, Shape, TypeOK, TypeData
  <2>2. r \in FirstLeft(attempt) /\ imported'[r] = imported[r] + 1
    BY <1>1, <1>2, <2>1 DEF ImportDone, Written, TypeOK, TypeData
  <2>3. imported[r] >= 1
    BY <2>2 DEF TypeOK, TypeData
  <2>4. r <= handled - left
    BY <2>1, <2>3 DEF FreshAhead, TypeOK, TypeData
  <2> QED
    BY <2>2, <2>4 DEF FirstLeft, TypeOK, TypeData
<1>3. ASSUME NEW n \in 0..N, NEW b \in BOOLEAN, ImportFails(n, b)
      PROVE  FALSE
  <2>1. r \notin FirstLeft(n) /\ r \notin doubtful /\ ~(stalls > 0)
    BY <1>3 DEF ImportFails
  <2>2. imported'[r] = imported[r]
    BY <1>3, <2>1 DEF ImportFails, Written
  <2> QED
    BY <1>1, <2>1, <2>2
<1>4. CASE ~FlushStep \/ ProgressDone \/ \E b, a \in BOOLEAN : ProgressFails(b, a)
  <2>1. imported' = imported
    BY <1>4 DEF Next, Dequeue, Crash, Die, WorkerEnds, Setup, Validated, SourceOpened,
       TargetOpened, PreflightPassed, StreamOpened, SetupFails, CatchFailsJob,
       CloseResources, ProgressDone, ProgressFails, StreamStep, Deliver, HandleChunk,
       StreamEnds, Pull, LoopEnds, StreamFails, EndStep, EndChecked, EndDrains,
       FailAccepted, FailRejected, vars
  <2>2. r \notin doubtful
    BY <1>4 DEF Next, Dequeue, Crash, Die, WorkerEnds, Setup, Validated, SourceOpened,
       TargetOpened, PreflightPassed, StreamOpened, SetupFails, CatchFailsJob,
       CloseResources, ProgressDone, ProgressFails, StreamStep, Deliver, HandleChunk,
       StreamEnds, Pull, LoopEnds, StreamFails, EndStep, EndChecked, EndDrains,
       FailAccepted, FailRejected, vars
  <2>3. ~(stalls > 0)
    BY <1>4 DEF Next, Dequeue, Crash, Die, WorkerEnds, Setup, Validated, SourceOpened,
       TargetOpened, PreflightPassed, StreamOpened, SetupFails, CatchFailsJob,
       CloseResources, ProgressDone, ProgressFails, StreamStep, Deliver, HandleChunk,
       StreamEnds, Pull, LoopEnds, StreamFails, EndStep, EndChecked, EndDrains,
       FailAccepted, FailRejected, vars, TypeOK, TypeData
  <2> QED
    BY <1>1, <2>1, <2>2, <2>3
<1> QED
  BY <1>2, <1>3, <1>4 DEF FlushStep

-----------------------------------------------------------------------------
(* The theorems *)

LEMMA NextShape == TypeOK /\ IInv /\ [Next]_vars => Shape'
<1> SUFFICES ASSUME TypeOK, IInv, [Next]_vars
             PROVE  Shape'
  OBVIOUS
<1>1. Shape /\ BatchInPlan
  BY DEF IInv
<1>2. CASE UNCHANGED vars
  BY <1>1, <1>2 DEF vars, Shape, jobVars, streamVars, flushVars, endVars
<1>3. CASE Next
  BY <1>1, <1>3, SetupShapes, WorkerShapes, FlushShapes, StreamShapes, EndShapes DEF Next
<1> QED
  BY <1>2, <1>3

LEMMA InitData == Init => TypeOK /\ Shape
<1> SUFFICES ASSUME Init
             PROVE  TypeData /\ TypeFlags /\ Shape
  BY DEF TypeOK
<1>1. TypeData
  BY DEF Init, TypeData, Resolving, Rows
<1>2. TypeFlags
  BY DEF Init, TypeFlags
<1>3. Shape
  BY DEF Init, Shape, Resolving
<1> QED
  BY <1>1, <1>2, <1>3

LEMMA InitHistory == Init => /\ RowsBehind /\ EndsDrained /\ FreshAhead /\ BatchInPlan
                             /\ CompletedIsComplete /\ NoDuplicates /\ ProgressAgrees
BY DEF Init, RowsBehind, EndsDrained, FreshAhead, BatchInPlan,
   CompletedIsComplete, NoDuplicates, ProgressAgrees, Rows

LEMMA NextTyped == TypeOK /\ IInv /\ [Next]_vars => TypeOK'
BY FlagsTyped, DataTyped DEF TypeOK, IInv

LEMMA NextIInv == TypeOK /\ IInv /\ [Next]_vars => IInv'
<1> SUFFICES ASSUME TypeOK, IInv, [Next]_vars
             PROVE  IInv'
  OBVIOUS
<1>1. BatchInPlan'
  BY BatchPlanned DEF TypeOK, IInv
<1> QED
  BY <1>1, NextShape, NextBehind, NextEnds, NextFresh, NextComplete, NextSingle DEF IInv

LEMMA Inductive == Spec => [](TypeOK /\ IInv)
<1>1. Init => TypeOK /\ IInv
  BY InitData, InitHistory DEF IInv
<1>2. TypeOK /\ IInv /\ [Next]_vars => TypeOK' /\ IInv'
  BY NextTyped, NextIInv
<1> QED
  BY <1>1, <1>2, PTL DEF Spec

\* The counters of the pipeline stay in their ranges, for every size of the table, every
\* plan and every number of failures: a flush never takes more rows than there are.
THEOREM TypeCorrect == Spec => []TypeOK
BY Inductive, PTL

\* Batches stay within the plan of planMigrationBatchSizing and within the pending rows,
\* however often flushBuffer reduces the size.
THEOREM BatchesStayInPlan == Spec => []BatchInPlan
<1>1. IInv => BatchInPlan
  BY DEF IInv
<1> QED
  BY <1>1, Inductive, PTL

\* A migration that completes with no failed flush and no failed stream has brought every
\* row, whatever runMigrationPipeline retried and however its callbacks interleaved.
THEOREM NoRowIsLost == Spec => []CompletedIsComplete
<1>1. IInv => CompletedIsComplete
  BY DEF IInv
<1> QED
  BY <1>1, Inductive, PTL

\* flushBuffer writes a row twice only after an attempt taken as failed or in a second run.
THEOREM DuplicatesNeedAFailure == Spec => []NoDuplicates
<1>1. IInv => NoDuplicates
  BY DEF IInv
<1> QED
  BY <1>1, Inductive, PTL

\* A job that completes in its first run without a failed flush reports N rows: updateJob
\* counts every batch once.
THEOREM ProgressIsExact == Spec => []ProgressAgrees
<1>1. IInv => ProgressAgrees
  BY DEF IInv
<1> QED
  BY <1>1, Inductive, PTL

-----------------------------------------------------------------------------
(* The plan of the batches *)

LEMMA ScaleBounds ==
  ASSUME NEW rows \in Nat, NEW amount \in Nat, NEW some \in Nat, NEW many \in Nat, NEW most \in Nat
  PROVE  Scale(rows, amount, some, many, most) \in Nat
  BY DEF Scale

LEMMA EngineBounds ==
  ASSUME NEW type
  PROVE  /\ BaseBatch(type) \in Nat /\ LeastBatch(type) \in Nat \ {0}
         /\ LeastBatch(type) <= BaseBatch(type)
  BY DEF BaseBatch, LeastBatch

LEMMA BudgetBounds ==
  ASSUME NEW columns \in Nat
  PROVE  ParameterBudget(columns) \in Nat
  BY DEF ParameterBudget, Greater

\* planMigrationBatchSizing gives the pipeline what it assumes of its batches, for every
\* engine, known or not, any number of columns and any size of a row.
THEOREM PlanMeetsAssumption ==
  ASSUME NEW type, NEW columns \in Nat, NEW bytes \in Nat
  PROVE  /\ LeastBatch(type) \in Nat \ {0}
         /\ RecommendedBatch(type, columns, bytes) \in Nat
         /\ LeastBatch(type) <= RecommendedBatch(type, columns, bytes)
         /\ RecommendedBatch(type, columns, bytes) <= BaseBatch(type)
<1> DEFINE scaled == Scale(Scale(BaseBatch(type), columns, 10, 20, 40), bytes, 512, 1500, 4000)
           capped == IF type = "mssql" THEN Lesser(scaled, ParameterBudget(columns)) ELSE scaled
<1>1. scaled \in Nat
  <2>1. Scale(BaseBatch(type), columns, 10, 20, 40) \in Nat
    BY EngineBounds, ScaleBounds
  <2> QED
    BY <2>1 DEF Scale
<1>2. capped \in Nat
  BY <1>1, BudgetBounds DEF Lesser
<1>3. RecommendedBatch(type, columns, bytes) = Greater(LeastBatch(type), Lesser(BaseBatch(type), capped))
  BY DEF RecommendedBatch
<1> HIDE DEF capped
<1> QED
  BY <1>2, <1>3, EngineBounds DEF Greater, Lesser

\* The parameter budget of SQL Server holds up to 80 columns and is exceeded by every wider
\* table: the least batch of 25 rows wins over the budget, and no retry goes below it.
THEOREM BudgetEndsAtEightyColumns ==
  ASSUME NEW columns \in Nat, columns > 80, NEW bytes \in Nat
  PROVE  /\ RecommendedBatch("mssql", columns, bytes) = 25
         /\ RecommendedBatch("mssql", columns, bytes) * columns > 2000
<1> DEFINE scaled == Scale(Scale(BaseBatch("mssql"), columns, 10, 20, 40), bytes, 512, 1500, 4000)
           capped == Lesser(scaled, ParameterBudget(columns))
<1>1. Scale(BaseBatch("mssql"), columns, 10, 20, 40) = 62
  BY DEF Scale, BaseBatch
<1>2. scaled \in {15, 31, 46, 62}
  BY <1>1 DEF Scale
<1>3. ParameterBudget(columns) \in Nat /\ ParameterBudget(columns) <= 25
  <2>1. 2000 \div columns <= 25
    OBVIOUS
  <2> QED
    BY <2>1 DEF ParameterBudget, Greater
<1>4. capped \in Nat /\ capped <= 25
  BY <1>2, <1>3 DEF Lesser
<1>5. RecommendedBatch("mssql", columns, bytes) = Greater(25, Lesser(250, capped))
  BY DEF RecommendedBatch, BaseBatch, LeastBatch
<1> HIDE DEF capped
<1>6. RecommendedBatch("mssql", columns, bytes) = 25
  BY <1>4, <1>5 DEF Greater, Lesser
<1> QED
  BY <1>6
=============================================================================
