--------------------------- MODULE PipelineProofs ---------------------------
(***************************************************************************)
(* Theorems about Pipeline, for every set of videos, every number of jobs, *)
(* every batch size and any number of rewrites in flight.                  *)
(***************************************************************************)
EXTENDS Pipeline, FiniteSetTheorems, TLAPS

-----------------------------------------------------------------------------
(* Typing.                                                                  *)

(* What the activities refer to exists: jobs are about videos, the runner   *)
(* has a job in hand outside of idle and next, the drain has a video.       *)
Refs ==
    /\ \A j \in Job : jobs[j].status # "none" => jobs[j].video \in Video
    /\ \A j \in runner.todo : jobs[j].status # "none"
    /\ runner.pc \notin {"idle", "next"} =>
         runner.job \in Job /\ jobs[runner.job].status # "none"
    /\ drain.pc # "idle" => drain.video \in Video

Typed == TypeOK /\ Refs

LEMMA FreshIsVersion == ASSUME NEW v, CanName(v) PROVE Fresh(v) \in Version
  BY DEF CanName, Fresh

LEMMA WrittenAtType ==
    ASSUME videos \in [Video -> Row], NEW v \in Video
    PROVE  WrittenAt(v) \in Nat
<1>. DEFINE W == {w \in Video : videos[w].written_at # 0}
<1>1. Cardinality(W) \in Nat
  BY PipelineAssumption, FS_Subset, FS_CardinalityType
<1>2. videos[v].written_at \in Nat
  BY DEF Row
<1>. QED
  BY <1>1, <1>2 DEF WrittenAt

(* What replacing one row of a well-typed table leaves.                     *)
LEMMA PutType ==
    ASSUME videos \in [Video -> Row], NEW v \in Video, NEW row \in Row
    PROVE  Put(v, row) \in [Video -> Row]
<1>. DEFINE old == videos[v].asr_queued_at
            left == old # 0 /\ row.asr_queued_at = 0
<1>1. old \in Nat
  BY DEF Row
<1>2. ASSUME NEW w \in Video, left, videos[w].asr_queued_at > old
      PROVE  [videos[w] EXCEPT !.asr_queued_at = @ - 1] \in Row
  <2>1. videos[w] \in Row
    OBVIOUS
  <2>2. videos[w].asr_queued_at - 1 \in Nat
    BY <1>1, <1>2, <2>1 DEF Row
  <2>. QED
    BY <2>1, <2>2 DEF Row
<1>3. \A w \in Video : Put(v, row)[w] \in Row
  BY <1>2 DEF Put
<1>. QED
  BY <1>3 DEF Put

LEMMA TranscribedType ==
    ASSUME videos \in [Video -> Row], NEW v \in Video, CanName(v),
           NEW s \in Stage
    PROVE  Transcribed(v, s) \in Row
<1>1. Fresh(v) \in Version
  BY FreshIsVersion
<1>2. videos[v] \in Row
  OBVIOUS
<1>. QED
  BY <1>1, <1>2 DEF Transcribed, Row, Stage

LEMMA InitTyped == Init => Typed
  BY PipelineAssumption
  DEF Init, Typed, TypeOK, Refs, NoRow, IdleRunner, IdleDrain, IdleRewriter,
      Row, Stage, JobRow, RunnerAwait, RunnerSync, Outcome, RunnerState, DrainState, RewriterState

-----------------------------------------------------------------------------
(* The steps of run_job and what surrounds it that keep the job in hand.    *)
RunMove ==
    \/ RunReset \/ RunS2Begin \/ RunS2Skip \/ RunFetchPage \/ RunNeedsASR
    \/ RunWorkerUp \/ RunAcquired \/ RunParked \/ RunAcquireFailed
    \/ RunS4Begin \/ RunS4Skip \/ RunSummarized \/ RunSummarizeDeferred
    \/ RunSummarizeFailed \/ RunS5Begin \/ RunS5Skip \/ RunProject
    \/ RunPublished \/ RunWriteDone \/ RunWriteDeferred \/ RunWriteFailed
    \/ RunNotified

(* What they have in common: only the runner's position, the row of the job *)
(* in hand and its note change.                                             *)
Moved ==
    /\ runner.pc \notin {"idle", "next", "finish", "crashed"}
    /\ runner' \in RunnerState
    /\ runner'.job = runner.job
    /\ runner'.todo = runner.todo
    /\ runner'.pc \notin {"idle", "next", "crashed"}
    /\ runner'.pc = "finish" /\ runner'.outcome = "parked" => RunParked
    /\ UNCHANGED <<jobs, drain, rewriter, requeued>>

LEMMA RunMoveMoves == ASSUME Typed, RunMove PROVE Moved
<1>. USE DEF Typed, TypeOK, RunnerState, Moved, RunnerAwait, RunnerSync,
             AtWork, Outcome, Goto, Return, RunnerOnly
<1>1. CASE RunReset
  BY <1>1 DEF RunReset
<1>2. CASE RunS2Begin
  BY <1>2 DEF RunS2Begin
<1>3. CASE RunS2Skip
  BY <1>3 DEF RunS2Skip
<1>4. CASE RunFetchPage
  BY <1>4 DEF RunFetchPage
<1>5. CASE RunNeedsASR
  BY <1>5 DEF RunNeedsASR
<1>6. CASE RunWorkerUp
  BY <1>6 DEF RunWorkerUp
<1>7. CASE RunAcquired
  BY <1>7 DEF RunAcquired
<1>8. CASE RunParked
  BY <1>8 DEF RunParked
<1>9. CASE RunAcquireFailed
  BY <1>9 DEF RunAcquireFailed
<1>10. CASE RunS4Begin
  <2>1. Current \in Video
    BY <1>10 DEF RunS4Begin, Refs, Current, JobRow
  <2>2. videos[Current] \in Row
    BY <2>1
  <2>. QED
    BY <1>10, <2>2 DEF RunS4Begin, Row
<1>11. CASE RunS4Skip
  BY <1>11 DEF RunS4Skip
<1>12. CASE RunSummarized
  BY <1>12 DEF RunSummarized
<1>13. CASE RunSummarizeDeferred
  BY <1>13 DEF RunSummarizeDeferred
<1>14. CASE RunSummarizeFailed
  BY <1>14 DEF RunSummarizeFailed
<1>15. CASE RunS5Begin
  <2>1. Current \in Video
    BY <1>15 DEF RunS5Begin, Refs, Current, JobRow
  <2>2. videos[Current] \in Row
    BY <2>1
  <2>. QED
    BY <1>15, <2>2 DEF RunS5Begin, Row
<1>16. CASE RunS5Skip
  BY <1>16 DEF RunS5Skip
<1>17. CASE RunProject
  BY <1>17 DEF RunProject
<1>18. CASE RunPublished
  BY <1>18 DEF RunPublished
<1>19. CASE RunWriteDone
  BY <1>19 DEF RunWriteDone
<1>20. CASE RunWriteDeferred
  BY <1>20 DEF RunWriteDeferred
<1>21. CASE RunWriteFailed
  BY <1>21 DEF RunWriteFailed
<1>22. CASE RunNotified
  BY <1>22 DEF RunNotified
<1>. QED
  BY <1>1, <1>2, <1>3, <1>4, <1>5, <1>6, <1>7, <1>8, <1>9, <1>10, <1>11, <1>12, <1>13, <1>14, <1>15, <1>16, <1>17, <1>18, <1>19, <1>20, <1>21, <1>22 DEF RunMove

LEMMA CurrentIsVideo ==
    ASSUME Typed, runner.pc \notin {"idle", "next"}
    PROVE  Current \in Video
  BY DEF Typed, TypeOK, Refs, RunnerState, JobRow, Current

LEMMA RunMoveTyped == ASSUME Typed, RunMove PROVE Typed'
<1>1. Moved
  BY RunMoveMoves
<1>2. Current \in Video
  BY <1>1, CurrentIsVideo DEF Moved
<1>3. videos \in [Video -> Row] /\ videos[Current] \in Row
  BY <1>2 DEF Typed, TypeOK
<1>4. videos' \in [Video -> Row]
  <2>1. CASE RunReset
    <3>1. ResetRow(Current) \in Row
      BY <1>3 DEF ResetRow, Row, Stage
    <3>. QED
      BY <2>1, <1>2, <1>3, <3>1, PutType DEF RunReset
  <2>2. CASE RunAcquired
    BY <2>2, <1>2, <1>3, PutType, TranscribedType DEF RunAcquired, Stage
  <2>3. CASE RunParked
    <3>1. Parked \subseteq Video /\ Cardinality(Parked) \in Nat
      BY PipelineAssumption, FS_Subset, FS_CardinalityType DEF Parked
    <3>2. videos[Current].asr_queued_at \in Nat
      BY <1>3 DEF Row
    <3>. DEFINE n == IF videos[Current].asr_queued_at # 0
                     THEN videos[Current].asr_queued_at
                     ELSE 1 + Cardinality(Parked)
    <3>3. n \in Nat
      BY <3>1, <3>2
    <3>4. videos' = [videos EXCEPT ![Current].stage_transcript = "pending",
                                   ![Current].asr_queued_at = n]
      BY <2>3 DEF RunParked
    <3>. HIDE DEF n
    <3>. QED
      BY <1>3, <3>3, <3>4 DEF Row, Stage
  <2>4. CASE RunSummarized
    BY <2>4, <1>3 DEF RunSummarized, Row, Stage, Typed, TypeOK, RunnerState
  <2>5. CASE RunPublished
    <3>1. WrittenAt(Current) \in Nat
      BY <1>2, <1>3, WrittenAtType
    <3>. QED
      BY <2>5, <1>3, <3>1 DEF RunPublished, Row
  <2>6. CASE RunS2Begin
    BY <2>6, <1>3 DEF RunS2Begin, Row, Stage
  <2>7. CASE RunS2Skip
    BY <2>7, <1>3 DEF RunS2Skip, Row, Stage
  <2>8. CASE RunAcquireFailed
    BY <2>8, <1>3 DEF RunAcquireFailed, Row, Stage
  <2>9. CASE RunS4Begin
    BY <2>9, <1>3 DEF RunS4Begin, Row, Stage
  <2>10. CASE RunSummarizeDeferred
    BY <2>10, <1>3 DEF RunSummarizeDeferred, Row, Stage
  <2>11. CASE RunSummarizeFailed
    BY <2>11, <1>3 DEF RunSummarizeFailed, Row, Stage
  <2>12. CASE RunS5Begin
    BY <2>12, <1>3 DEF RunS5Begin, Row, Stage
  <2>13. CASE RunWriteDone
    BY <2>13, <1>3 DEF RunWriteDone, Row, Stage
  <2>14. CASE RunWriteDeferred
    BY <2>14, <1>3 DEF RunWriteDeferred, Row, Stage
  <2>15. CASE RunWriteFailed
    BY <2>15, <1>3 DEF RunWriteFailed, Row, Stage
  <2>16. CASE RunFetchPage
    BY <2>16, <1>3 DEF RunFetchPage
  <2>17. CASE RunNeedsASR
    BY <2>17, <1>3 DEF RunNeedsASR
  <2>18. CASE RunWorkerUp
    BY <2>18, <1>3 DEF RunWorkerUp
  <2>19. CASE RunS4Skip
    BY <2>19, <1>3 DEF RunS4Skip
  <2>20. CASE RunS5Skip
    BY <2>20, <1>3 DEF RunS5Skip
  <2>21. CASE RunProject
    BY <2>21, <1>3 DEF RunProject
  <2>22. CASE RunNotified
    BY <2>22, <1>3 DEF RunNotified
  <2>. QED
    BY <2>1, <2>2, <2>3, <2>4, <2>5, <2>6, <2>7, <2>8, <2>9, <2>10, <2>11, <2>12, <2>13, <2>14, <2>15, <2>16, <2>17, <2>18, <2>19, <2>20, <2>21, <2>22 DEF RunMove
<1>5. vault' \in [Video -> Version \cup {None}]
  <2>1. CASE RunProject
    BY <2>1 DEF RunProject, Typed, TypeOK, RunnerState
  <2>2. CASE UNCHANGED vault
    BY <2>2 DEF Typed, TypeOK
  <2>. QED
    BY <2>1, <2>2 DEF RunMove, RunReset, RunS2Begin, RunS2Skip, RunFetchPage, RunNeedsASR, RunWorkerUp, RunAcquired, RunParked, RunAcquireFailed, RunS4Begin, RunS4Skip, RunSummarized, RunSummarizeDeferred, RunSummarizeFailed, RunS5Begin, RunS5Skip, RunPublished, RunWriteDone, RunWriteDeferred, RunWriteFailed, RunNotified
<1>6. Refs'
  BY <1>1 DEF Typed, Refs, Moved
<1>. QED
  BY <1>1, <1>4, <1>5, <1>6 DEF Typed, TypeOK, Moved

LEMMA EnqueueTyped ==
    ASSUME Typed, NEW v \in Video, NEW f \in BOOLEAN, Enqueue(v, f)
    PROVE  Typed'
<1>1. videos' \in [Video -> Row]
  BY DEF Typed, TypeOK, Enqueue, Row
<1>2. jobs' \in [Job -> JobRow]
  BY DEF Typed, TypeOK, Enqueue, AddJob, JobRow
<1>3. Refs'
  BY DEF Typed, TypeOK, Refs, Enqueue, AddJob, JobRow, RunnerState
<1>. QED
  BY <1>1, <1>2, <1>3 DEF Typed, TypeOK, Enqueue

LEMMA RequestTyped == ASSUME Typed, Request PROVE Typed'
<1>1. ASSUME NEW v \in Video, Reject(v) PROVE Typed'
  <2>1. videos' \in [Video -> Row]
    BY <1>1 DEF Typed, TypeOK, Reject, Row
  <2>. QED
    BY <1>1, <2>1 DEF Typed, TypeOK, Refs, Reject
<1>. QED
  BY <1>1, EnqueueTyped DEF Request

LEMMA RunPassTyped == ASSUME Typed, RunPass \/ RunPassEnds PROVE Typed'
<1>1. CASE RunPass
  <2>1. Queue \subseteq Job /\ \A j \in Queue : jobs[j].status # "none"
    BY DEF Queue, OldestPerVideo, Due, Live
  <2>. QED
    BY <1>1, <2>1 DEF Typed, TypeOK, Refs, RunPass, IdleRunner, RunnerState,
         RunnerAwait, RunnerSync, Outcome
<1>2. CASE RunPassEnds
  BY <1>2 DEF Typed, TypeOK, Refs, RunPassEnds, IdleRunner, RunnerState,
       RunnerAwait, RunnerSync, Outcome
<1>. QED
  BY <1>1, <1>2

(* The job that a pass takes next.                                          *)
LEMMA RunNextTakes ==
    ASSUME Typed, RunNext
    PROVE  \E j \in Job :
             /\ j \in runner.todo
             /\ jobs' = [jobs EXCEPT ![j].status = "running"]
             /\ runner' = [IdleRunner EXCEPT
                             !.pc = IF jobs[j].force THEN "reset" ELSE "s2",
                             !.todo = runner.todo \ {j}, !.job = j]
  BY DEF RunNext, Typed, TypeOK, RunnerState, SetStatus

LEMMA RunNextTyped == ASSUME Typed, RunNext PROVE Typed'
<1>1. PICK j \in Job :
        /\ j \in runner.todo
        /\ jobs' = [jobs EXCEPT ![j].status = "running"]
        /\ runner' = [IdleRunner EXCEPT
                        !.pc = IF jobs[j].force THEN "reset" ELSE "s2",
                        !.todo = runner.todo \ {j}, !.job = j]
  BY RunNextTakes
<1>2. jobs' \in [Job -> JobRow]
  BY <1>1 DEF Typed, TypeOK, JobRow
<1>3. runner' \in RunnerState
  BY <1>1 DEF Typed, TypeOK, IdleRunner, RunnerState, RunnerAwait,
       RunnerSync, Outcome
<1>4. Refs'
  BY <1>1 DEF Typed, TypeOK, Refs, RunNext, JobRow, RunnerState, IdleRunner
<1>. QED
  BY <1>2, <1>3, <1>4 DEF Typed, TypeOK, RunNext

(* Setting the status of the job in hand, at its end or in a crash.         *)
LEMMA StatusTyped ==
    ASSUME Typed, runner.pc \notin {"idle", "next"},
           NEW s \in {"queued", "running", "done", "failed"},
           SetStatus(runner.job, s)
    PROVE  /\ jobs' \in [Job -> JobRow]
           /\ \A j \in Job : jobs'[j].video = jobs[j].video
           /\ \A j \in Job : jobs[j].status # "none" => jobs'[j].status # "none"
           /\ \A j \in Job : jobs'[j].status # "none" => jobs[j].video \in Video
  BY DEF Typed, TypeOK, Refs, RunnerState, SetStatus, JobRow

LEMMA RunEndsTyped ==
    ASSUME Typed, RunFinish \/ RunCrashed \/ RunCrashNotified
    PROVE  Typed'
<1>. USE DEF RunnerState, RunnerAwait, RunnerSync, Outcome
<1>1. CASE RunFinish
  <2>1. StatusAfter(runner.outcome) \in {"queued", "running", "done", "failed"}
    BY DEF StatusAfter
  <2>2. /\ jobs' \in [Job -> JobRow]
        /\ \A j \in Job : jobs'[j].video = jobs[j].video
        /\ \A j \in Job : jobs[j].status # "none" => jobs'[j].status # "none"
        /\ \A j \in Job : jobs'[j].status # "none" => jobs[j].video \in Video
    BY <1>1, <2>1, StatusTyped DEF RunFinish
  <2>3. runner' \in RunnerState /\ runner'.todo = runner.todo /\ runner'.pc = "next"
    BY <1>1 DEF RunFinish, IdleRunner, Typed, TypeOK
  <2>4. requeued' \subseteq Job
    BY <1>1 DEF RunFinish, Typed, TypeOK, Refs
  <2>5. Refs'
    BY <1>1, <2>2, <2>3 DEF Typed, TypeOK, Refs, RunFinish
  <2>. QED
    BY <1>1, <2>2, <2>3, <2>4, <2>5 DEF Typed, TypeOK, RunFinish
<1>2. CASE RunCrashed
  <2>1. /\ jobs' \in [Job -> JobRow]
        /\ \A j \in Job : jobs'[j].video = jobs[j].video
        /\ \A j \in Job : jobs[j].status # "none" => jobs'[j].status # "none"
        /\ \A j \in Job : jobs'[j].status # "none" => jobs[j].video \in Video
    BY <1>2, StatusTyped DEF RunCrashed
  <2>2. /\ runner' \in RunnerState /\ runner'.todo = runner.todo
        /\ runner'.job = runner.job /\ runner'.pc = "crashed"
    BY <1>2 DEF RunCrashed, Goto, Typed, TypeOK
  <2>3. Refs'
    BY <1>2, <2>1, <2>2 DEF Typed, TypeOK, Refs, RunCrashed, RunnerOnly
  <2>. QED
    BY <1>2, <2>1, <2>2, <2>3 DEF Typed, TypeOK, RunCrashed, RunnerOnly
<1>3. CASE RunCrashNotified
  <2>1. runner' \in RunnerState /\ runner'.todo = runner.todo /\ runner'.pc = "next"
    BY <1>3 DEF RunCrashNotified, Goto, Typed, TypeOK
  <2>. QED
    BY <1>3, <2>1 DEF Typed, TypeOK, Refs, RunCrashNotified, RunnerOnly
<1>. QED
  BY <1>1, <1>2, <1>3

LEMMA RunnerStepTyped == ASSUME Typed, RunnerStep PROVE Typed'
  BY RunMoveTyped, RunPassTyped, RunNextTyped, RunEndsTyped
  DEF RunnerStep, RunMove

(* What taking the next row, or ending the pass, makes of the drain.        *)
LEMMA DrainTakeTyped ==
    ASSUME NEW rows \in SUBSET Video, DrainTake(rows)
    PROVE  /\ drain' \in DrainState
           /\ drain'.pc # "idle" =>
                /\ drain'.video \in rows
                /\ drain'.todo = rows \ {drain'.video}
<1>1. CASE rows = {}
  BY <1>1 DEF DrainTake, DrainState, IdleDrain
<1>2. CASE rows # {}
  BY <1>2 DEF DrainTake, DrainState
<1>. QED
  BY <1>1, <1>2

LEMMA DrainStepTyped == ASSUME Typed, DrainStep PROVE Typed'
<1>1. CASE DrainPass
  <2>1. Parked \in SUBSET Video
    BY DEF Parked
  <2>. QED
    BY <1>1, <2>1, DrainTakeTyped DEF DrainPass, DrainOnly, Typed, TypeOK, Refs
<1>2. CASE DrainWorkerUp
  BY <1>2 DEF DrainWorkerUp, DrainOnly, Typed, TypeOK, Refs, DrainState
<1>3. CASE DrainTranscribed
  <2>1. drain.video \in Video /\ drain.todo \in SUBSET Video
    BY <1>3 DEF DrainTranscribed, Typed, TypeOK, Refs, DrainState
  <2>2. videos[drain.video] \in Row
    BY <2>1 DEF Typed, TypeOK
  <2>3. videos[drain.video].stage_normalize \in Stage
    BY <2>2 DEF Row
  <2>4. Transcribed(drain.video, videos[drain.video].stage_normalize) \in Row
    BY <1>3, <2>1, <2>3, TranscribedType DEF DrainTranscribed, Typed, TypeOK
  <2>5. videos' \in [Video -> Row]
    BY <1>3, <2>1, <2>4, PutType DEF DrainTranscribed, Typed, TypeOK
  <2>. QED
    BY <1>3, <2>1, <2>5, DrainTakeTyped
    DEF DrainTranscribed, DrainOnly, Typed, TypeOK, Refs
<1>4. CASE DrainAborts
  BY <1>4 DEF DrainAborts, DrainOnly, Typed, TypeOK, Refs, DrainState, IdleDrain
<1>. QED
  BY <1>1, <1>2, <1>3, <1>4 DEF DrainStep

(* The two commits of a rewrite, on whatever video.                         *)
LEMMA WrittenRow ==
    ASSUME videos \in [Video -> Row], NEW v, NEW n, v \in Video => n \in Nat
    PROVE  [videos EXCEPT ![v].written_at = n] \in [Video -> Row]
  BY DEF Row

LEMMA WriteDoneRow ==
    ASSUME videos \in [Video -> Row], NEW v
    PROVE  [videos EXCEPT ![v].stage_write = "done"] \in [Video -> Row]
  BY DEF Row, Stage

LEMMA RewriteStepTyped == ASSUME Typed, RewriteStep PROVE Typed'
<1>. PICK r \in Rewriter :
        \/ \E v \in Video : RewriteBegin(r, v)
        \/ RewriteProject(r) \/ RewritePublished(r)
        \/ RewriteDone(r) \/ RewriteFailed(r)
  BY DEF RewriteStep
<1>. DEFINE v == rewriter[r].video
<1>. USE DEF RewriterOnly
<1>0. rewriter[r] \in RewriterState
  BY DEF Typed, TypeOK
<1>1. ASSUME NEW w \in Video, RewriteBegin(r, w) PROVE Typed'
  <2>1. videos[w].digest \in Version \cup {None}
    BY DEF Typed, TypeOK, Row
  <2>. QED
    BY <1>1, <2>1 DEF RewriteBegin, Typed, TypeOK, Refs, RewriterState
<1>2. CASE RewriteProject(r)
  <2>1. vault' \in [Video -> Version \cup {None}]
    BY <1>0, <1>2 DEF RewriteProject, Typed, TypeOK, RewriterState
  <2>2. rewriter' \in [Rewriter -> RewriterState]
    BY <1>2 DEF RewriteProject, Typed, TypeOK, RewriterState
  <2>. QED
    BY <1>2, <2>1, <2>2 DEF RewriteProject, Typed, TypeOK, Refs
<1>3. CASE RewritePublished(r)
  <2>1. v \in Video => WrittenAt(v) \in Nat
    BY WrittenAtType DEF Typed, TypeOK
  <2>2. videos' \in [Video -> Row]
    BY <1>3, <2>1, WrittenRow DEF RewritePublished, Typed, TypeOK
  <2>3. rewriter' \in [Rewriter -> RewriterState]
    BY <1>3 DEF RewritePublished, Typed, TypeOK, RewriterState
  <2>. QED
    BY <1>3, <2>2, <2>3 DEF RewritePublished, Typed, TypeOK, Refs
<1>4. CASE RewriteDone(r)
  <2>1. videos' \in [Video -> Row]
    BY <1>4, WriteDoneRow DEF RewriteDone, Typed, TypeOK
  <2>2. rewriter' \in [Rewriter -> RewriterState]
    BY <1>4 DEF RewriteDone, Typed, TypeOK, RewriterState, IdleRewriter
  <2>. QED
    BY <1>4, <2>1, <2>2 DEF RewriteDone, Typed, TypeOK, Refs
<1>5. CASE RewriteFailed(r)
  <2>1. rewriter' \in [Rewriter -> RewriterState]
    BY <1>5 DEF RewriteFailed, Typed, TypeOK, RewriterState, IdleRewriter
  <2>. QED
    BY <1>5, <2>1 DEF RewriteFailed, Typed, TypeOK, Refs
<1>. QED
  BY <1>1, <1>2, <1>3, <1>4, <1>5

LEMMA CrashTyped == ASSUME Typed, Crash PROVE Typed'
  BY DEF Crash, Typed, TypeOK, Refs, IdleRunner, IdleDrain, IdleRewriter,
    RunnerState, DrainState, RewriterState, RunnerAwait, RunnerSync, Outcome

LEMMA NextTyped == Typed /\ [Next]_vars => Typed'
<1>1. ASSUME Typed, UNCHANGED vars PROVE Typed'
  BY <1>1 DEF vars, Typed, TypeOK, Refs
<1>. QED
  BY <1>1, RequestTyped, RunnerStepTyped, DrainStepTyped, RewriteStepTyped,
     CrashTyped DEF Next, Step

(* Every variable keeps its type, and whatever an activity refers to        *)
(* exists.                                                                  *)
THEOREM PipelineTyped == Spec => []Typed
  BY InitTyped, NextTyped, PTL DEF Spec

(* The type invariant that the runs check.                                  *)
THEOREM PipelineTypeOK == Spec => []TypeOK
<1>1. Typed => TypeOK
  BY DEF Typed
<1>. QED
  BY <1>1, PipelineTyped, PTL

-----------------------------------------------------------------------------
(* The runner and the drain keep apart.                                     *)

Rank(v) == videos[v].asr_queued_at

(* The one exception: the job in hand has just been parked.                 *)
JustParked == runner.pc = "finish" /\ runner.outcome = "parked"

(* The two passes read asr_queued_at once, at their start.  What keeps      *)
(* their answer true until they act on it: the drain's rows stay parked     *)
(* until it clears them; the runner's stay unparked until it parks one, and *)
(* then no later job of the pass is about that video.                       *)
Exclusive ==
    /\ drain.pc # "idle" => /\ Rank(drain.video) # 0
                            /\ drain.video \notin drain.todo
                            /\ \A v \in drain.todo : Rank(v) # 0
    /\ \A j \in runner.todo : Rank(jobs[j].video) = 0
    /\ \A j, k \in runner.todo : jobs[j].video = jobs[k].video => j = k
    /\ runner.pc \notin {"idle", "next"} =>
         /\ \A j \in runner.todo : jobs[j].video # Current
         /\ ~JustParked => Rank(Current) = 0

LEMMA InitExclusive == Init => Exclusive
  BY DEF Init, Exclusive, IdleRunner, IdleDrain

(* Replacing an unparked row by an unparked one leaves every rank alone.    *)
LEMMA PutKeepsRanks ==
    ASSUME videos \in [Video -> Row], NEW v \in Video, NEW row \in Row,
           Rank(v) = 0, row.asr_queued_at = 0, videos' = Put(v, row)
    PROVE  \A w \in Video : Rank(w)' = Rank(w)
  BY DEF Put, Rank

LEMMA RunMoveRanks ==
    ASSUME Typed, Exclusive, RunMove, ~RunParked
    PROVE  \A w \in Video : Rank(w)' = Rank(w)
<1>1. Moved
  BY RunMoveMoves
<1>2. Current \in Video
  BY <1>1, CurrentIsVideo DEF Moved
<1>3. videos \in [Video -> Row] /\ videos[Current] \in Row
  BY <1>2 DEF Typed, TypeOK
<1>4. Rank(Current) = 0
  BY <1>1 DEF Exclusive, Moved, JustParked
<1>5. CASE RunReset
  <2>1. ResetRow(Current) \in Row /\ ResetRow(Current).asr_queued_at = 0
    BY <1>3 DEF ResetRow, Row, Stage
  <2>. QED
    BY <1>2, <1>3, <1>4, <1>5, <2>1, PutKeepsRanks DEF RunReset
<1>6. CASE RunAcquired
  <2>1. Transcribed(Current, "done") \in Row
    BY <1>2, <1>3, <1>6, TranscribedType DEF RunAcquired, Stage
  <2>2. Transcribed(Current, "done").asr_queued_at = 0
    BY <1>3 DEF Transcribed, Row
  <2>. QED
    BY <1>2, <1>3, <1>4, <1>6, <2>1, <2>2, PutKeepsRanks DEF RunAcquired
<1>7. ASSUME UNCHANGED videos PROVE \A w \in Video : Rank(w)' = Rank(w)
  BY <1>7 DEF Rank
<1>8. CASE RunS2Begin \/ RunS2Skip \/ RunAcquireFailed \/ RunS4Begin
  BY <1>3, <1>8 DEF RunS2Begin, RunS2Skip, RunAcquireFailed, RunS4Begin, Rank, Row
<1>9. CASE RunSummarized \/ RunSummarizeDeferred \/ RunSummarizeFailed
  BY <1>3, <1>9 DEF RunSummarized, RunSummarizeDeferred, RunSummarizeFailed, Rank, Row
<1>10. CASE RunS5Begin \/ RunPublished \/ RunWriteDone \/ RunWriteDeferred \/ RunWriteFailed
  BY <1>3, <1>10 DEF RunS5Begin, RunPublished, RunWriteDone, RunWriteDeferred,
       RunWriteFailed, Rank, Row
<1>11. CASE RunFetchPage \/ RunNeedsASR \/ RunWorkerUp \/ RunS4Skip
            \/ RunS5Skip \/ RunProject \/ RunNotified
  BY <1>7, <1>11 DEF RunFetchPage, RunNeedsASR, RunWorkerUp, RunS4Skip,
       RunS5Skip, RunProject, RunNotified
<1>. QED
  BY <1>5, <1>6, <1>8, <1>9, <1>10, <1>11 DEF RunMove

(* A park touches the rank of the video in hand alone.                      *)
LEMMA RunParkedRanks ==
    ASSUME Typed, RunParked
    PROVE  /\ Current \in Video
           /\ Rank(Current)' # 0
           /\ \A w \in Video : w # Current => videos'[w] = videos[w]
<1>1. Current \in Video
  BY CurrentIsVideo DEF RunParked
<1>2. Cardinality(Parked) \in Nat
  BY PipelineAssumption, FS_Subset, FS_CardinalityType DEF Parked
<1>3. videos \in [Video -> Row] /\ videos[Current] \in Row
  BY <1>1 DEF Typed, TypeOK
<1>4. UNCHANGED <<runner.job, jobs>>
  BY DEF RunParked, Return, Typed, TypeOK, RunnerState
<1>5. Current' = Current
  BY <1>4 DEF Current
<1>. QED
  BY <1>1, <1>2, <1>3, <1>5 DEF RunParked, Rank, Row

LEMMA RunMoveExclusive == ASSUME Typed, Exclusive, RunMove PROVE Exclusive'
<1>1. Moved
  BY RunMoveMoves
<1>2. Current' = Current /\ Current \in Video
  BY <1>1, CurrentIsVideo DEF Moved, Current
<1>3. \A j \in runner.todo : jobs[j].video \in Video
  BY DEF Typed, TypeOK, Refs, RunnerState
<1>4. drain.pc # "idle" => drain.video \in Video /\ drain.todo \subseteq Video
  BY DEF Typed, TypeOK, Refs, DrainState
<1>5. CASE RunParked
  <2>1. /\ Rank(Current)' # 0
        /\ \A w \in Video : w # Current => Rank(w)' = Rank(w)
    BY <1>5, RunParkedRanks DEF Rank
  <2>2. \A w \in Video : Rank(w) # 0 => Rank(w)' # 0
    BY <1>2, <2>1
  <2>3. JustParked'
    BY <1>1, <1>5 DEF RunParked, Return, JustParked, Typed, TypeOK, RunnerState
  <2>. QED
    BY <1>1, <1>2, <1>3, <1>4, <2>1, <2>2, <2>3 DEF Exclusive, Moved
<1>6. CASE ~RunParked
  <2>1. \A w \in Video : Rank(w)' = Rank(w)
    BY <1>6, RunMoveRanks
  <2>2. ~JustParked /\ ~JustParked'
    BY <1>1, <1>6 DEF Moved, JustParked
  <2>. QED
    BY <1>1, <1>2, <1>3, <1>4, <2>1, <2>2 DEF Exclusive, Moved
<1>. QED
  BY <1>5, <1>6

(* A pass takes unparked videos, each once.                                 *)
LEMMA RunPassExclusive ==
    ASSUME Typed, Exclusive, RunPass
    PROVE  Exclusive'
<1>1. runner'.todo = Queue /\ runner'.pc = "next"
  BY DEF RunPass, IdleRunner
<1>2. \A j \in Queue : Rank(jobs[j].video) = 0
  BY DEF Queue, OldestPerVideo, Due, Rank
<1>3. \A j, k \in Queue : j \in Nat /\ k \in Nat
  BY PipelineAssumption DEF Queue, OldestPerVideo, Due, Job
<1>4. \A j, k \in Queue : jobs[j].video = jobs[k].video => j <= k /\ k <= j
  BY DEF Queue, OldestPerVideo
<1>5. \A j, k \in Queue : jobs[j].video = jobs[k].video => j = k
  BY <1>3, <1>4
<1>. QED
  BY <1>1, <1>2, <1>5 DEF RunPass, Exclusive, Rank

LEMMA RunNextExclusive ==
    ASSUME Typed, Exclusive, RunNext
    PROVE  Exclusive'
<1>1. PICK j \in Job :
        /\ j \in runner.todo
        /\ jobs' = [jobs EXCEPT ![j].status = "running"]
        /\ runner' = [IdleRunner EXCEPT
                        !.pc = IF jobs[j].force THEN "reset" ELSE "s2",
                        !.todo = runner.todo \ {j}, !.job = j]
  BY RunNextTakes
<1>2. \A k \in Job : jobs'[k].video = jobs[k].video
  BY <1>1 DEF Typed, TypeOK, JobRow
<1>3. /\ runner'.todo = runner.todo \ {j} /\ runner'.job = j
      /\ runner'.pc \in {"reset", "s2"}
  BY <1>1 DEF IdleRunner
<1>4. Current' = jobs[j].video
  BY <1>1, <1>2, <1>3 DEF Current
<1>5. runner.todo \subseteq Job
  BY DEF Typed, TypeOK, RunnerState
<1>. QED
  BY <1>1, <1>2, <1>3, <1>4, <1>5 DEF Exclusive, RunNext, Rank, JustParked

LEMMA RunEndsExclusive ==
    ASSUME Typed, Exclusive,
           RunFinish \/ RunCrashed \/ RunCrashNotified \/ RunPassEnds
    PROVE  Exclusive'
<1>1. runner.todo \subseteq Job
  BY DEF Typed, TypeOK, RunnerState
<1>2. CASE RunFinish
  <2>1. \A k \in Job : jobs'[k].video = jobs[k].video
    BY <1>2 DEF RunFinish, SetStatus, Typed, TypeOK, JobRow
  <2>2. runner'.todo = runner.todo /\ runner'.pc = "next"
    BY <1>2 DEF RunFinish, IdleRunner
  <2>. QED
    BY <1>1, <1>2, <2>1, <2>2 DEF RunFinish, Exclusive, Rank
<1>3. CASE RunCrashed
  <2>1. \A k \in Job : jobs'[k].video = jobs[k].video
    BY <1>3 DEF RunCrashed, SetStatus, Typed, TypeOK, JobRow
  <2>2. /\ runner'.todo = runner.todo /\ runner'.job = runner.job
        /\ runner'.pc = "crashed" /\ ~JustParked
    BY <1>3 DEF RunCrashed, Goto, JustParked, Typed, TypeOK, RunnerState
  <2>3. Current' = Current
    BY <1>3, <2>1, <2>2 DEF Current, Typed, Refs, RunCrashed
  <2>. QED
    BY <1>1, <1>3, <2>1, <2>2, <2>3
    DEF RunCrashed, RunnerOnly, Exclusive, Rank
<1>4. CASE RunCrashNotified
  <2>1. runner'.todo = runner.todo /\ runner'.pc = "next"
    BY <1>4 DEF RunCrashNotified, Goto, Typed, TypeOK, RunnerState
  <2>. QED
    BY <1>4, <2>1 DEF RunCrashNotified, RunnerOnly, Exclusive, Rank
<1>5. CASE RunPassEnds
  BY <1>5 DEF RunPassEnds, IdleRunner, Exclusive, Rank
<1>. QED
  BY <1>2, <1>3, <1>4, <1>5

(* The drain clears its own row; the others in the queue stay in it, and    *)
(* what was not in it stays out.                                            *)
LEMMA DrainClears ==
    ASSUME Typed, DrainTranscribed
    PROVE  /\ drain.video \in Video
           /\ Rank(drain.video)' = 0 \/ drain'.video # drain.video
           /\ \A w \in Video : w # drain.video =>
                /\ Rank(w) = 0 => Rank(w)' = 0
                /\ Rank(w) # 0 /\ Rank(drain.video) # 0 => Rank(w)' # 0
           /\ videos'[drain.video].asr_queued_at = 0
<1>. DEFINE v == drain.video
            row == Transcribed(v, videos[v].stage_normalize)
<1>1. v \in Video /\ videos \in [Video -> Row]
  BY DEF DrainTranscribed, Typed, TypeOK, Refs
<1>2. \A w \in Video : Rank(w) \in Nat
  BY <1>1 DEF Rank, Row
<1>3. row.asr_queued_at = 0
  BY <1>1 DEF Transcribed, Row
<1>4. videos'[v] = row
  BY <1>1 DEF DrainTranscribed, Put
<1>5. ASSUME NEW w \in Video, w # v
      PROVE  /\ Rank(w) = 0 => Rank(w)' = 0
             /\ Rank(w) # 0 /\ Rank(v) # 0 => Rank(w)' # 0
  <2>1. videos'[w] = IF Rank(v) # 0 /\ Rank(w) > Rank(v)
                     THEN [videos[w] EXCEPT !.asr_queued_at = @ - 1]
                     ELSE videos[w]
    BY <1>1, <1>3, <1>5 DEF DrainTranscribed, Put, Rank
  <2>2. videos[w] \in Row
    BY <1>1
  <2>. QED
    BY <1>1, <1>2, <2>1, <2>2 DEF Rank, Row
<1>. QED
  BY <1>1, <1>3, <1>4, <1>5 DEF Rank

LEMMA DrainStepExclusive == ASSUME Typed, Exclusive, DrainStep PROVE Exclusive'
<1>1. CASE DrainPass
  <2>1. Parked \in SUBSET Video
    BY DEF Parked
  <2>2. \A v \in Parked : Rank(v) # 0
    BY DEF Parked, Rank
  <2>. QED
    BY <1>1, <2>1, <2>2, DrainTakeTyped
    DEF DrainPass, DrainOnly, Exclusive, Rank, Current, JustParked
<1>2. CASE DrainWorkerUp
  BY <1>2 DEF DrainWorkerUp, DrainOnly, Exclusive, Rank, Current, JustParked,
     Typed, TypeOK, DrainState
<1>3. CASE DrainTranscribed
  <2>1. /\ drain.pc # "idle" /\ drain.todo \in SUBSET Video
        /\ \A j \in runner.todo : jobs[j].video \in Video
        /\ runner.pc \notin {"idle", "next"} => Current \in Video
    BY <1>3, CurrentIsVideo
    DEF DrainTranscribed, Typed, TypeOK, Refs, DrainState, RunnerState
  <2>2. /\ drain.video \in Video
        /\ \A w \in Video : Rank(w) = 0 => Rank(w)' = 0
        /\ \A w \in drain.todo : Rank(w)' # 0
    BY <1>3, <2>1, DrainClears DEF Exclusive, Rank
  <2>3. drain'.pc # "idle" => /\ drain'.video \in drain.todo
                              /\ drain'.todo = drain.todo \ {drain'.video}
    BY <1>3, <2>1, DrainTakeTyped DEF DrainTranscribed
  <2>4. UNCHANGED <<jobs, runner, Current, JustParked>>
    BY <1>3 DEF DrainTranscribed, DrainOnly, Current, JustParked
  <2>. QED
    BY <2>1, <2>2, <2>3, <2>4 DEF Exclusive
<1>4. CASE DrainAborts
  BY <1>4 DEF DrainAborts, DrainOnly, Exclusive, Rank, Current, JustParked, IdleDrain
<1>. QED
  BY <1>1, <1>2, <1>3, <1>4 DEF DrainStep

LEMMA RequestExclusive == ASSUME Typed, Exclusive, Request PROVE Exclusive'
<1>1. ASSUME NEW v \in Video, NEW f \in BOOLEAN, Enqueue(v, f) PROVE Exclusive'
  <2>1. \A w \in Video : Rank(w)' = Rank(w)
    BY <1>1 DEF Enqueue, Rank, Typed, TypeOK, Row
  <2>2. \A j \in Job : jobs[j].status # "none" => jobs'[j] = jobs[j]
    BY <1>1 DEF Enqueue, AddJob, Typed, TypeOK
  <2>3. runner.todo \subseteq Job /\ \A j \in runner.todo : jobs'[j] = jobs[j]
    BY <2>2 DEF Typed, TypeOK, Refs, RunnerState
  <2>4. runner.pc \notin {"idle", "next"} => Current' = Current
    BY <1>1, <2>2 DEF Typed, Refs, Current, Enqueue
  <2>5. /\ \A j \in runner.todo : jobs[j].video \in Video
        /\ runner.pc \notin {"idle", "next"} => Current \in Video
        /\ drain.pc # "idle" => drain.video \in Video /\ drain.todo \subseteq Video
    BY CurrentIsVideo DEF Typed, TypeOK, Refs, RunnerState, DrainState
  <2>. QED
    BY <1>1, <2>1, <2>3, <2>4, <2>5 DEF Enqueue, Exclusive, JustParked
<1>2. ASSUME NEW v \in Video, Reject(v) PROVE Exclusive'
  <2>1. \A w \in Video : Rank(w)' = Rank(w)
    BY <1>2 DEF Reject, Rank, Typed, TypeOK, Row
  <2>2. /\ \A j \in runner.todo : jobs[j].video \in Video
        /\ runner.pc \notin {"idle", "next"} => Current \in Video
        /\ drain.pc # "idle" => drain.video \in Video /\ drain.todo \subseteq Video
    BY CurrentIsVideo DEF Typed, TypeOK, Refs, RunnerState, DrainState
  <2>. QED
    BY <1>2, <2>1, <2>2 DEF Reject, Exclusive, JustParked, Current
<1>. QED
  BY <1>1, <1>2 DEF Request

(* A rewrite changes no rank, and nothing of the runner or the drain.       *)
LEMMA RewriteStepExclusive ==
    ASSUME Typed, Exclusive, RewriteStep
    PROVE  Exclusive'
<1>. PICK r \in Rewriter :
        \/ \E v \in Video : RewriteBegin(r, v)
        \/ RewriteProject(r) \/ RewritePublished(r)
        \/ RewriteDone(r) \/ RewriteFailed(r)
  BY DEF RewriteStep
<1>1. UNCHANGED <<jobs, runner, drain>>
  BY DEF RewriteBegin, RewriteProject, RewritePublished, RewriteDone,
     RewriteFailed, RewriterOnly
<1>2. \A w \in Video : Rank(w)' = Rank(w)
  <2>1. CASE UNCHANGED videos
    BY <2>1 DEF Rank
  <2>2. ASSUME NEW v, NEW n, videos' = [videos EXCEPT ![v].written_at = n]
        PROVE  \A w \in Video : Rank(w)' = Rank(w)
    BY <2>2 DEF Rank, Typed, TypeOK, Row
  <2>3. ASSUME NEW v, videos' = [videos EXCEPT ![v].stage_write = "done"]
        PROVE  \A w \in Video : Rank(w)' = Rank(w)
    BY <2>3 DEF Rank, Typed, TypeOK, Row
  <2>. QED
    BY <2>1, <2>2, <2>3
    DEF RewriteBegin, RewriteProject, RewritePublished, RewriteDone, RewriteFailed
<1>3. /\ \A j \in runner.todo : jobs[j].video \in Video
      /\ runner.pc \notin {"idle", "next"} => Current \in Video
      /\ drain.pc # "idle" => drain.video \in Video /\ drain.todo \subseteq Video
  BY CurrentIsVideo DEF Typed, TypeOK, Refs, RunnerState, DrainState
<1>. QED
  BY <1>1, <1>2, <1>3 DEF Exclusive, JustParked, Current

LEMMA NextExclusive == Typed /\ Exclusive /\ [Next]_vars => Exclusive'
<1>1. ASSUME Exclusive, UNCHANGED vars PROVE Exclusive'
  BY <1>1 DEF vars, Exclusive, Rank, JustParked, Current
<1>2. ASSUME Exclusive, Crash PROVE Exclusive'
  BY <1>2 DEF Crash, IdleRunner, IdleDrain, Exclusive
<1>. QED
  BY <1>1, <1>2, RequestExclusive, RunMoveExclusive, RunPassExclusive,
     RunNextExclusive, RunEndsExclusive, DrainStepExclusive, RewriteStepExclusive
  DEF Next, Step, RunnerStep, RunMove

(* The passes of the runner and of the drain never hold the same video: two *)
(* queries at the start of the passes are guard enough, in every            *)
(* interleaving and after every kill.                                       *)
THEOREM PipelineDisjoint == Spec => []RunnerDrainDisjoint
<1>1. Typed /\ Exclusive => RunnerDrainDisjoint
  BY DEF Exclusive, RunnerDrainDisjoint, AtWork, JustParked, Rank
<1>2. Spec => [](Typed /\ Exclusive)
  BY InitTyped, InitExclusive, NextTyped, NextExclusive, PTL DEF Spec
<1>. QED
  BY <1>1, <1>2, PTL

-----------------------------------------------------------------------------
(* The jobs table.                                                          *)

(* What the runner relies on when it sets a status: the rest of its pass    *)
(* is live, the job in hand is the one it has marked running, and any other *)
(* running job is one that a kill has orphaned.                             *)
Booked ==
    /\ \A j \in runner.todo : Live(j)
    /\ runner.pc \notin {"idle", "next", "crashed"} =>
         jobs[runner.job].status = "running"
    /\ runner.pc = "crashed" => jobs[runner.job].status = "failed"
    /\ RunningIsCurrent

(* A status is final.                                                       *)
Final == \A j \in Job : jobs[j].status \in {"done", "failed"} => jobs'[j] = jobs[j]

LEMMA InitBooked == Init => Booked
  BY DEF Init, Booked, RunningIsCurrent, IdleRunner

LEMMA RunTurnBooked ==
    ASSUME Typed, Exclusive, Booked, RunPass \/ RunPassEnds \/ RunNext
    PROVE  Booked' /\ Final
<1>1. CASE RunPass
  <2>1. runner'.todo = Queue /\ runner'.pc = "next"
    BY <1>1 DEF RunPass, IdleRunner
  <2>2. \A j \in Queue : Live(j)
    BY DEF Queue, OldestPerVideo, Due
  <2>. QED
    BY <1>1, <2>1, <2>2 DEF RunPass, Booked, RunningIsCurrent, Live, Final
<1>2. CASE RunPassEnds
  BY <1>2 DEF RunPassEnds, IdleRunner, Booked, RunningIsCurrent, Live, Final
<1>3. CASE RunNext
  <2>1. PICK j \in Job :
          /\ j \in runner.todo
          /\ jobs' = [jobs EXCEPT ![j].status = "running"]
          /\ runner' = [IdleRunner EXCEPT
                          !.pc = IF jobs[j].force THEN "reset" ELSE "s2",
                          !.todo = runner.todo \ {j}, !.job = j]
    BY <1>3, RunNextTakes
  <2>2. /\ runner'.todo = runner.todo \ {j} /\ runner'.job = j
        /\ runner'.pc \in {"reset", "s2"}
    BY <2>1 DEF IdleRunner
  <2>3. /\ jobs'[j].status = "running"
        /\ \A k \in Job : k # j => jobs'[k] = jobs[k]
    BY <2>1 DEF Typed, TypeOK, JobRow
  <2>4. Live(j) /\ runner.todo \subseteq Job
    BY <2>1 DEF Booked, Typed, TypeOK, RunnerState
  <2>5. Final
    BY <2>3, <2>4 DEF Final, Live
  <2>6. RunningIsCurrent'
    BY <1>3, <2>2, <2>3 DEF RunNext, Booked, RunningIsCurrent
  <2>. QED
    BY <2>2, <2>3, <2>4, <2>5, <2>6 DEF Booked, Live
<1>. QED
  BY <1>1, <1>2, <1>3

(* The job in hand ends; it is not one of those the pass has yet to take.   *)
LEMMA RunEndsBooked ==
    ASSUME Typed, Exclusive, Booked, RunFinish \/ RunCrashed \/ RunCrashNotified
    PROVE  Booked' /\ Final
<1>. DEFINE i == runner.job
<1>1. runner.pc \notin {"idle", "next"}
  BY DEF RunFinish, RunCrashed, RunCrashNotified
<1>2. /\ i \in Job /\ i \notin runner.todo /\ runner.todo \subseteq Job
  BY <1>1 DEF Typed, TypeOK, Refs, RunnerState, Exclusive, Current
<1>3. CASE RunCrashNotified
  <2>1. runner'.todo = runner.todo /\ runner'.pc = "next" /\ runner'.job = i
    BY <1>3 DEF RunCrashNotified, Goto, Typed, TypeOK, RunnerState
  <2>2. UNCHANGED <<jobs, requeued>>
    BY <1>3 DEF RunCrashNotified, RunnerOnly
  <2>. QED
    BY <1>3, <2>1, <2>2
    DEF RunCrashNotified, Booked, RunningIsCurrent, Live, Final
<1>4. ASSUME NEW s, SetStatus(i, s)
      PROVE  /\ jobs'[i].status = s
             /\ \A k \in Job : k # i => jobs'[k] = jobs[k]
  BY <1>2, <1>4 DEF SetStatus, Typed, TypeOK, JobRow
<1>5. CASE RunFinish
  <2>1. runner'.todo = runner.todo /\ runner'.pc = "next"
    BY <1>5 DEF RunFinish, IdleRunner
  <2>2. /\ jobs'[i].status # "running"
        /\ \A k \in Job : k # i => jobs'[k] = jobs[k]
    BY <1>4, <1>5 DEF RunFinish, StatusAfter
  <2>3. jobs[i].status = "running" /\ requeued \subseteq requeued'
    BY <1>5 DEF RunFinish, Booked
  <2>4. Final
    BY <2>2, <2>3 DEF Final
  <2>5. RunningIsCurrent'
    BY <1>2, <2>2, <2>3 DEF Booked, RunningIsCurrent
  <2>. QED
    BY <1>2, <2>1, <2>2, <2>4, <2>5 DEF Booked, Live
<1>6. CASE RunCrashed
  <2>1. runner'.todo = runner.todo /\ runner'.pc = "crashed"
    BY <1>6 DEF RunCrashed, Goto, Typed, TypeOK, RunnerState
  <2>2. /\ jobs'[i].status = "failed"
        /\ \A k \in Job : k # i => jobs'[k] = jobs[k]
    BY <1>4, <1>6 DEF RunCrashed
  <2>3. jobs[i].status = "running" /\ requeued' = requeued
    BY <1>6 DEF RunCrashed, RunnerOnly, Booked
  <2>4. Final
    BY <2>2, <2>3 DEF Final
  <2>5. RunningIsCurrent'
    BY <1>2, <2>2, <2>3 DEF Booked, RunningIsCurrent
  <2>6. runner'.job = i
    BY <1>6 DEF RunCrashed, Goto, Typed, TypeOK, RunnerState
  <2>. QED
    BY <1>2, <2>1, <2>2, <2>4, <2>5, <2>6 DEF Booked, Live
<1>. QED
  BY <1>3, <1>5, <1>6

(* A request adds a job; nobody's job is it yet.                            *)
LEMMA RequestBooked == ASSUME Typed, Booked, Request PROVE Booked' /\ Final
<1>1. UNCHANGED <<runner, requeued>>
  BY DEF Request, Enqueue, Reject
<1>2. \A j \in Job : \/ jobs'[j] = jobs[j]
                     \/ jobs[j].status = "none" /\ jobs'[j].status = "queued"
  <2>1. ASSUME NEW v \in Video, NEW f \in BOOLEAN, AddJob(v, f)
        PROVE  \A j \in Job :
                 \/ jobs'[j] = jobs[j]
                 \/ jobs[j].status = "none" /\ jobs'[j].status = "queued"
    BY <2>1 DEF AddJob, Typed, TypeOK
  <2>. QED
    BY <2>1 DEF Request, Enqueue, Reject
<1>3. runner.todo \subseteq Job
  BY DEF Typed, TypeOK, RunnerState
<1>4. RunningIsCurrent'
  BY <1>1, <1>2 DEF Booked, RunningIsCurrent
<1>. QED
  BY <1>1, <1>2, <1>3, <1>4 DEF Booked, Live, Final, Typed, Refs

LEMMA NextBooked ==
    Typed /\ Exclusive /\ Booked /\ [Next]_vars => Booked' /\ Final
<1>1. ASSUME Booked, UNCHANGED <<jobs, runner, requeued>>
      PROVE  Booked' /\ Final
  BY <1>1 DEF Booked, RunningIsCurrent, Live, Final
<1>2. ASSUME Typed, Booked, RunMove PROVE Booked' /\ Final
  <2>1. Moved
    BY <1>2, RunMoveMoves
  <2>. QED
    BY <1>2, <2>1 DEF Moved, Booked, RunningIsCurrent, Live, Final
<1>3. ASSUME Booked, Crash PROVE Booked' /\ Final
  BY <1>3 DEF Crash, IdleRunner, Booked, RunningIsCurrent, Live, Final
<1>4. ASSUME UNCHANGED vars \/ DrainStep \/ RewriteStep
      PROVE  UNCHANGED <<jobs, runner, requeued>>
  BY <1>4 DEF vars, DrainStep, DrainPass, DrainWorkerUp, DrainTranscribed,
     DrainAborts, DrainOnly, RewriteStep, RewriteBegin, RewriteProject,
     RewritePublished, RewriteDone, RewriteFailed, RewriterOnly
<1>. QED
  BY <1>1, <1>2, <1>3, <1>4, RunTurnBooked, RunEndsBooked, RequestBooked
  DEF Next, Step, RunnerStep, RunMove

(* Only the job in hand is marked running, but for those that a kill has    *)
(* orphaned and that the query of the next pass picks up (runner.py:359).   *)
THEOREM PipelineRunning == Spec => []RunningIsCurrent
<1>1. Booked => RunningIsCurrent
  BY DEF Booked
<1>2. Spec => [](Typed /\ Exclusive /\ Booked)
  BY InitTyped, InitExclusive, InitBooked,
     NextTyped, NextExclusive, NextBooked, PTL DEF Spec
<1>. QED
  BY <1>1, <1>2, PTL

(* A job that has ended is never touched again, whatever passes, kills and  *)
(* new requests for its video follow: a re-run is a new job.                *)
THEOREM PipelineFinal == Spec => TerminalJobsStay
<1>1. Typed /\ Exclusive /\ Booked /\ [Next]_vars => [Final]_vars
  BY NextBooked
<1>2. Spec => [](Typed /\ Exclusive /\ Booked)
  BY InitTyped, InitExclusive, InitBooked,
     NextTyped, NextExclusive, NextBooked, PTL DEF Spec
<1>3. Spec => [][Final]_vars
  BY <1>1, <1>2, PTL DEF Spec
<1>. QED
  BY <1>3 DEF Final, TerminalJobsStay
=============================================================================
