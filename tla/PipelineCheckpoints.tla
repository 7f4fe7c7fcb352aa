------------------------- MODULE PipelineCheckpoints -------------------------
(***************************************************************************)
(* A done stage may be skipped: the proof that the checkpoints of a row    *)
(* hold, whatever the runner, the drain, the rewrites and kills interleave. *)
(* And what rests on them: a transcript lands once, a parked video is not  *)
(* forgotten, the export shows what the vault was written from.            *)
(***************************************************************************)
EXTENDS PipelineProofs

(* One row's checkpoints, both ways for the transcript, and why the drain   *)
(* may overwrite a transcript: the rows it takes have none.                 *)
Sound(r) ==
    /\ r.stage_transcript = "done" <=> r.transcript_json # None
    /\ r.stage_normalize = "done" => r.stage_transcript = "done"
    /\ r.stage_summarize = "done" =>
         /\ r.stage_normalize = "done"
         /\ r.digest # None /\ r.digest = r.transcript_json
    /\ r.asr_queued_at # 0 => r.stage_transcript # "done"

(* What the runner learnt from the row of the job in hand stays true while  *)
(* it waits: no transcript lands behind its back, and none is replaced.     *)
RunnerKnows ==
    /\ runner.pc \in {"ladder", "page", "probe", "asr"} =>
         videos[Current].stage_transcript # "done"
    /\ runner.pc \in {"s4", "summarize"} =>
         videos[Current].stage_normalize = "done"
    /\ runner.pc = "summarize" =>
         runner.text = videos[Current].transcript_json

Checkpointed == (\A v \in Video : Sound(videos[v])) /\ RunnerKnows

(* A step that changes none of the columns that the checkpoints are about,  *)
(* and parks nothing.                                                       *)
Untouched(v) ==
    /\ videos'[v].stage_transcript = videos[v].stage_transcript
    /\ videos'[v].stage_normalize = videos[v].stage_normalize
    /\ videos'[v].stage_summarize = videos[v].stage_summarize
    /\ videos'[v].transcript_json = videos[v].transcript_json
    /\ videos'[v].digest = videos[v].digest
    /\ videos'[v].asr_queued_at # 0 => videos[v].asr_queued_at # 0

LEMMA UntouchedSound ==
    ASSUME NEW v \in Video, Sound(videos[v]), Untouched(v)
    PROVE  Sound(videos'[v])
  BY DEF Sound, Untouched

(* When the runner stays where it is, an untouched row is all it needs.     *)
LEMMA UntouchedKnows ==
    ASSUME RunnerKnows, UNCHANGED runner, Current' = Current, Untouched(Current)
    PROVE  RunnerKnows'
  BY DEF RunnerKnows, Untouched

LEMMA InitCheckpointed == Init => Checkpointed
  BY DEF Init, Checkpointed, Sound, RunnerKnows, NoRow, IdleRunner

(* Replacing a row touches no other.                                        *)
LEMMA PutTouchesOne ==
    ASSUME videos \in [Video -> Row], NEW v \in Video, NEW row \in Row,
           videos' = Put(v, row)
    PROVE  /\ videos'[v] = row
           /\ \A w \in Video : w # v => Untouched(w)
<1>1. videos'[v] = row
  BY DEF Put
<1>2. ASSUME NEW w \in Video, w # v PROVE Untouched(w)
  <2>1. videos[v] \in Row /\ videos[w] \in Row
    OBVIOUS
  <2>2. \/ videos'[w] = videos[w]
        \/ /\ videos[w].asr_queued_at > videos[v].asr_queued_at
           /\ videos'[w] = [videos[w] EXCEPT !.asr_queued_at = @ - 1]
    BY <1>2 DEF Put
  <2>3. CASE videos'[w] = videos[w]
    BY <2>3 DEF Untouched
  <2>4. CASE /\ videos[w].asr_queued_at > videos[v].asr_queued_at
             /\ videos'[w] = [videos[w] EXCEPT !.asr_queued_at = @ - 1]
    BY <2>1, <2>4 DEF Untouched, Row
  <2>. QED
    BY <2>2, <2>3, <2>4
<1>. QED
  BY <1>1, <1>2

-----------------------------------------------------------------------------
(* The runner.                                                              *)

(* What each step of run_job does to the row in hand, given that the rest   *)
(* of the table is untouched.                                               *)
LEMMA RunMoveCheckpointed ==
    ASSUME Typed, Exclusive, Checkpointed, RunMove
    PROVE  Checkpointed'
<1>. DEFINE c == Current
<1>1. Moved
  BY RunMoveMoves
<1>2. c \in Video /\ c' = c
  BY <1>1, CurrentIsVideo DEF Moved, Current
<1>3. videos \in [Video -> Row] /\ videos[c] \in Row /\ Sound(videos[c])
  BY <1>2 DEF Typed, TypeOK, Checkpointed
<1>4. runner \in RunnerState
  BY DEF Typed, TypeOK
<1>. SUFFICES /\ Sound(videos'[c])
              /\ RunnerKnows'
              /\ \A w \in Video : w # c => Untouched(w)
  BY <1>2, UntouchedSound DEF Checkpointed
<1>5. CASE RunReset
  <2>1. ResetRow(c) \in Row /\ Sound(ResetRow(c))
    BY <1>3 DEF ResetRow, Row, Stage, Sound
  <2>2. /\ videos'[c] = ResetRow(c)
        /\ \A w \in Video : w # c => Untouched(w)
    BY <1>2, <1>3, <1>5, <2>1, PutTouchesOne DEF RunReset
  <2>3. runner'.pc = "s2"
    BY <1>4, <1>5 DEF RunReset, Goto, RunnerState
  <2>. QED
    BY <2>1, <2>2, <2>3 DEF RunnerKnows
<1>6. CASE RunAcquired
  <2>1. Transcribed(c, "done") \in Row
    BY <1>2, <1>3, <1>6, TranscribedType DEF RunAcquired, Stage
  <2>2. /\ videos'[c] = Transcribed(c, "done")
        /\ \A w \in Video : w # c => Untouched(w)
    BY <1>2, <1>3, <1>6, <2>1, PutTouchesOne DEF RunAcquired
  <2>3. videos[c].stage_transcript # "done"
    BY <1>6 DEF RunAcquired, Checkpointed, RunnerKnows
  <2>4. Fresh(c) # None
    BY <1>6, FreshIsVersion, PipelineAssumption DEF RunAcquired
  <2>5. Sound(Transcribed(c, "done"))
    BY <1>3, <2>3, <2>4 DEF Transcribed, Row, Sound
  <2>6. runner'.pc = "s4"
    BY <1>4, <1>6 DEF RunAcquired, Goto, RunnerState
  <2>7. videos'[c].stage_normalize = "done"
    BY <1>3, <2>2 DEF Transcribed, Row
  <2>. QED
    BY <1>2, <2>2, <2>5, <2>6, <2>7 DEF RunnerKnows
<1>7. CASE RunS2Begin
  <2>1. runner'.pc = "ladder"
    BY <1>4, <1>7 DEF RunS2Begin, Goto, RunnerState
  <2>2. videos'[c].stage_transcript # "done"
    BY <1>2, <1>3, <1>7 DEF RunS2Begin, Row
  <2>3. Sound(videos'[c])
    BY <1>2, <1>3, <1>7 DEF RunS2Begin, Row, Sound
  <2>. QED
    BY <1>2, <1>3, <1>7, <2>1, <2>2, <2>3 DEF RunS2Begin, Untouched, RunnerKnows
<1>8. CASE RunS2Skip
  <2>1. runner'.pc = "s4"
    BY <1>4, <1>8 DEF RunS2Skip, Goto, RunnerState
  <2>2. videos'[c].stage_normalize = "done"
    BY <1>2, <1>3, <1>8 DEF RunS2Skip, Row
  <2>3. Sound(videos'[c])
    BY <1>2, <1>3, <1>8 DEF RunS2Skip, Row, Sound
  <2>. QED
    BY <1>2, <1>3, <1>8, <2>1, <2>2, <2>3 DEF RunS2Skip, Untouched, RunnerKnows
<1>9. CASE RunFetchPage \/ RunNeedsASR \/ RunWorkerUp
  <2>1. /\ runner.pc \in {"ladder", "probe"}
        /\ runner'.pc \in {"page", "probe", "asr"}
        /\ UNCHANGED videos
    BY <1>4, <1>9 DEF RunFetchPage, RunNeedsASR, RunWorkerUp, Goto, RunnerState
  <2>. QED
    BY <1>2, <1>3, <2>1 DEF Checkpointed, RunnerKnows, Untouched
<1>10. CASE RunParked \/ RunAcquireFailed
  <2>1. videos[c].stage_transcript # "done"
    BY <1>10 DEF RunParked, RunAcquireFailed, Checkpointed, RunnerKnows
  <2>2. /\ runner'.pc \in {"finish", "notify"}
        /\ \A w \in Video : w # c => Untouched(w)
    BY <1>2, <1>3, <1>4, <1>10
    DEF RunParked, RunAcquireFailed, Goto, Return, RunnerState, Untouched
  <2>3. Sound(videos'[c])
    BY <1>2, <1>3, <1>10, <2>1 DEF RunParked, RunAcquireFailed, Row, Sound
  <2>. QED
    BY <2>2, <2>3 DEF RunnerKnows
<1>11. CASE RunS4Begin
  <2>1. videos[c].stage_normalize = "done"
    BY <1>11 DEF RunS4Begin, Checkpointed, RunnerKnows
  <2>2. /\ runner'.pc = "summarize"
        /\ runner'.text = videos[c].transcript_json
    BY <1>4, <1>11 DEF RunS4Begin, RunnerState
  <2>3. /\ videos'[c].stage_normalize = videos[c].stage_normalize
        /\ videos'[c].transcript_json = videos[c].transcript_json
        /\ Sound(videos'[c])
    BY <1>2, <1>3, <1>11 DEF RunS4Begin, Row, Sound
  <2>. QED
    BY <1>2, <1>3, <1>11, <2>1, <2>2, <2>3 DEF RunS4Begin, Untouched, RunnerKnows
<1>12. CASE RunSummarized
  <2>1. /\ videos[c].stage_normalize = "done"
        /\ runner.text = videos[c].transcript_json
    BY <1>12 DEF RunSummarized, Checkpointed, RunnerKnows
  <2>2. runner'.pc = "s5" /\ \A w \in Video : w # c => Untouched(w)
    BY <1>2, <1>3, <1>4, <1>12 DEF RunSummarized, Goto, RunnerState, Untouched
  <2>3. Sound(videos'[c])
    BY <1>2, <1>3, <1>12, <2>1 DEF RunSummarized, Row, Sound
  <2>. QED
    BY <2>2, <2>3 DEF RunnerKnows
<1>13. CASE RunSummarizeDeferred \/ RunSummarizeFailed
  <2>1. /\ runner'.pc \in {"finish", "notify"}
        /\ \A w \in Video : w # c => Untouched(w)
    BY <1>2, <1>3, <1>4, <1>13
    DEF RunSummarizeDeferred, RunSummarizeFailed, Goto, Return, RunnerState, Untouched
  <2>2. Sound(videos'[c])
    BY <1>2, <1>3, <1>13 DEF RunSummarizeDeferred, RunSummarizeFailed, Row, Sound
  <2>. QED
    BY <2>1, <2>2 DEF RunnerKnows
<1>14. CASE RunS5Begin \/ RunPublished \/ RunWriteDone \/ RunWriteDeferred
             \/ RunWriteFailed
  <2>1. runner'.pc \in {"write", "mark", "finish", "notify"}
    BY <1>4, <1>14
    DEF RunS5Begin, RunPublished, RunWriteDone, RunWriteDeferred, RunWriteFailed,
        Goto, Return, RunnerState
  <2>2. \A w \in Video : Untouched(w)
    BY <1>2, <1>3, <1>14
    DEF RunS5Begin, RunPublished, RunWriteDone, RunWriteDeferred, RunWriteFailed,
        Untouched, Row
  <2>. QED
    BY <1>2, <1>3, <2>1, <2>2, UntouchedSound DEF RunnerKnows
<1>15. CASE RunS4Skip \/ RunS5Skip \/ RunProject \/ RunNotified
  <2>1. /\ runner'.pc \in {"s5", "finish", "published"}
        /\ UNCHANGED videos
    BY <1>4, <1>15 DEF RunS4Skip, RunS5Skip, RunProject, RunNotified, Goto,
       Return, RunnerState
  <2>. QED
    BY <1>2, <1>3, <2>1 DEF RunnerKnows, Untouched
<1>. QED
  BY <1>5, <1>6, <1>7, <1>8, <1>9, <1>10, <1>11, <1>12, <1>13, <1>14, <1>15
  DEF RunMove

(* Between two jobs the runner knows nothing and touches no row.            *)
LEMMA RunTurnCheckpointed ==
    ASSUME Typed, Checkpointed,
           \/ RunPass \/ RunPassEnds \/ RunNext
           \/ RunFinish \/ RunCrashed \/ RunCrashNotified
    PROVE  Checkpointed'
<1>1. UNCHANGED videos
  BY DEF RunPass, RunPassEnds, RunNext, RunFinish, RunCrashed, RunCrashNotified
<1>2. CASE RunNext
  <2>1. runner'.pc \in {"reset", "s2"}
    BY <1>2, RunNextTakes DEF IdleRunner
  <2>. QED
    BY <1>1, <2>1 DEF Checkpointed, RunnerKnows
<1>3. CASE RunPass \/ RunPassEnds \/ RunFinish
  <2>1. runner'.pc \in {"idle", "next"}
    <3>1. CASE RunPass
      BY <3>1 DEF RunPass, IdleRunner
    <3>2. CASE RunPassEnds
      BY <3>2 DEF RunPassEnds, IdleRunner
    <3>3. CASE RunFinish
      BY <3>3 DEF RunFinish, IdleRunner
    <3>. QED
      BY <1>3, <3>1, <3>2, <3>3
  <2>. QED
    BY <1>1, <2>1 DEF Checkpointed, RunnerKnows
<1>4. CASE RunCrashed \/ RunCrashNotified
  <2>1. runner'.pc \in {"next", "crashed"}
    BY <1>4 DEF RunCrashed, RunCrashNotified, Goto, Typed, TypeOK, RunnerState
  <2>. QED
    BY <1>1, <2>1 DEF Checkpointed, RunnerKnows
<1>. QED
  BY <1>2, <1>3, <1>4

-----------------------------------------------------------------------------
(* The others.                                                              *)

(* A step of another activity that touches no row's checkpoints.            *)
LEMMA UntouchedCheckpointed ==
    ASSUME Typed, Checkpointed, UNCHANGED runner,
           \A w \in Video : Untouched(w),
           runner.pc \notin {"idle", "next"} => Current' = Current
    PROVE  Checkpointed'
<1>1. \A w \in Video : Sound(videos'[w])
  BY UntouchedSound DEF Checkpointed
<1>2. CASE runner.pc \in {"idle", "next"}
  BY <1>1, <1>2 DEF Checkpointed, RunnerKnows
<1>3. CASE runner.pc \notin {"idle", "next"}
  BY <1>1, <1>3, CurrentIsVideo, UntouchedKnows DEF Checkpointed
<1>. QED
  BY <1>2, <1>3

LEMMA RequestCheckpointed ==
    ASSUME Typed, Checkpointed, Request
    PROVE  Checkpointed'
<1>1. ASSUME NEW v \in Video, NEW f \in BOOLEAN, Enqueue(v, f)
      PROVE  Checkpointed'
  <2>1. \A w \in Video : Untouched(w)
    BY <1>1 DEF Enqueue, Untouched, Typed, TypeOK, Row
  <2>2. \A j \in Job : jobs[j].status # "none" => jobs'[j] = jobs[j]
    BY <1>1 DEF Enqueue, AddJob, Typed, TypeOK
  <2>3. runner.pc \notin {"idle", "next"} => Current' = Current
    BY <1>1, <2>2 DEF Typed, Refs, Current, Enqueue
  <2>. QED
    BY <1>1, <2>1, <2>3, UntouchedCheckpointed DEF Enqueue
<1>2. ASSUME NEW v \in Video, Reject(v) PROVE Checkpointed'
  <2>1. \A w \in Video : Untouched(w)
    BY <1>2 DEF Reject, Untouched, Typed, TypeOK, Row
  <2>. QED
    BY <1>2, <2>1, UntouchedCheckpointed DEF Reject, Current
<1>. QED
  BY <1>1, <1>2 DEF Request

(* The drain's row is parked, so it has no transcript and no digest, and it *)
(* is not the one that the runner is waiting for.                           *)
LEMMA DrainStepCheckpointed ==
    ASSUME Typed, Exclusive, Checkpointed, DrainStep
    PROVE  Checkpointed'
<1>1. CASE DrainPass \/ DrainWorkerUp \/ DrainAborts
  BY <1>1 DEF DrainPass, DrainWorkerUp, DrainAborts, DrainOnly, Checkpointed,
     RunnerKnows, Current
<1>2. CASE DrainTranscribed
  <2>. DEFINE v == drain.video
              row == Transcribed(v, videos[v].stage_normalize)
  <2>1. v \in Video /\ videos \in [Video -> Row] /\ videos[v] \in Row
    BY <1>2 DEF DrainTranscribed, Typed, TypeOK, Refs
  <2>2. videos[v].asr_queued_at # 0 /\ Sound(videos[v])
    BY <1>2, <2>1 DEF DrainTranscribed, Exclusive, Rank, Checkpointed
  <2>3. row \in Row
    BY <1>2, <2>1, TranscribedType DEF DrainTranscribed, Row
  <2>4. videos'[v] = row /\ \A w \in Video : w # v => Untouched(w)
    BY <1>2, <2>1, <2>3, PutTouchesOne DEF DrainTranscribed
  <2>5. Fresh(v) # None
    BY <1>2, FreshIsVersion, PipelineAssumption DEF DrainTranscribed
  <2>6. Sound(row)
    BY <2>1, <2>2, <2>5 DEF Transcribed, Row, Sound
  <2>7. \A w \in Video : Sound(videos'[w])
    BY <2>1, <2>4, <2>6, UntouchedSound DEF Checkpointed
  <2>8. UNCHANGED runner /\ Current' = Current
    BY <1>2 DEF DrainTranscribed, DrainOnly, Current
  <2>9. CASE runner.pc \in {"ladder", "page", "probe", "asr", "s4", "summarize"}
    <3>1. Current \in Video /\ Rank(Current) = 0
      BY <2>9, CurrentIsVideo DEF Exclusive, JustParked
    <3>2. Untouched(Current)
      BY <2>2, <2>4, <3>1 DEF Rank
    <3>. QED
      BY <2>7, <2>8, <3>2, UntouchedKnows DEF Checkpointed
  <2>10. CASE runner.pc \notin {"ladder", "page", "probe", "asr", "s4", "summarize"}
    BY <2>7, <2>8, <2>10 DEF Checkpointed, RunnerKnows
  <2>. QED
    BY <2>9, <2>10
<1>. QED
  BY <1>1, <1>2 DEF DrainStep

LEMMA RewriteStepCheckpointed ==
    ASSUME Typed, Checkpointed, RewriteStep
    PROVE  Checkpointed'
<1>. PICK r \in Rewriter :
        \/ \E v \in Video : RewriteBegin(r, v)
        \/ RewriteProject(r) \/ RewritePublished(r)
        \/ RewriteDone(r) \/ RewriteFailed(r)
  BY DEF RewriteStep
<1>1. UNCHANGED <<jobs, runner>>
  BY DEF RewriteBegin, RewriteProject, RewritePublished, RewriteDone,
     RewriteFailed, RewriterOnly
<1>2. \A w \in Video : Untouched(w)
  <2>1. CASE UNCHANGED videos
    BY <2>1 DEF Untouched
  <2>2. ASSUME NEW v, NEW n, videos' = [videos EXCEPT ![v].written_at = n]
        PROVE  \A w \in Video : Untouched(w)
    BY <2>2 DEF Untouched, Typed, TypeOK, Row
  <2>3. ASSUME NEW v, videos' = [videos EXCEPT ![v].stage_write = "done"]
        PROVE  \A w \in Video : Untouched(w)
    BY <2>3 DEF Untouched, Typed, TypeOK, Row
  <2>. QED
    BY <2>1, <2>2, <2>3
    DEF RewriteBegin, RewriteProject, RewritePublished, RewriteDone, RewriteFailed
<1>. QED
  BY <1>1, <1>2, UntouchedCheckpointed DEF Current

LEMMA NextCheckpointed ==
    Typed /\ Exclusive /\ Checkpointed /\ [Next]_vars => Checkpointed'
<1>1. ASSUME Checkpointed, UNCHANGED vars PROVE Checkpointed'
  BY <1>1 DEF vars, Checkpointed, RunnerKnows, Current
<1>2. ASSUME Checkpointed, Crash PROVE Checkpointed'
  BY <1>2 DEF Crash, IdleRunner, Checkpointed, RunnerKnows
<1>. QED
  BY <1>1, <1>2, RequestCheckpointed, RunMoveCheckpointed, RunTurnCheckpointed,
     DrainStepCheckpointed, RewriteStepCheckpointed
  DEF Next, Step, RunnerStep, RunMove

(* A stage marked done has left what the stages after it start from, in     *)
(* every interleaving and after every kill (runner.py:9-11): a resumed job  *)
(* skips nothing it needs, and a digest is of the transcript on its row.    *)
THEOREM PipelineCheckpointsHold == Spec => []CheckpointsHold
<1>1. Checkpointed => CheckpointsHold
  BY DEF Checkpointed, Sound, CheckpointsHold
<1>2. Spec => [](Typed /\ Exclusive /\ Checkpointed)
  BY InitTyped, InitExclusive, InitCheckpointed,
     NextTyped, NextExclusive, NextCheckpointed, PTL DEF Spec
<1>. QED
  BY <1>1, <1>2, PTL

-----------------------------------------------------------------------------
(* A transcript is replaced only by a reset.                                *)

Lands ==
    \A v \in Video :
        LET old == videos[v].transcript_json
            new == videos'[v].transcript_json
        IN  old # None /\ new # old => new = None

LEMMA RunMoveLands ==
    ASSUME Typed, Exclusive, Checkpointed, RunMove
    PROVE  Lands
<1>. DEFINE c == Current
<1>1. c \in Video
  BY RunMoveMoves, CurrentIsVideo DEF Moved
<1>2. videos \in [Video -> Row] /\ videos[c] \in Row /\ Sound(videos[c])
  BY <1>1 DEF Typed, TypeOK, Checkpointed
<1>3. CASE RunReset
  <2>1. ResetRow(c) \in Row /\ ResetRow(c).transcript_json = None
    BY <1>2 DEF ResetRow, Row, Stage
  <2>2. /\ videos'[c] = ResetRow(c)
        /\ \A w \in Video : w # c => Untouched(w)
    BY <1>1, <1>2, <1>3, <2>1, PutTouchesOne DEF RunReset
  <2>. QED
    BY <2>1, <2>2 DEF Lands, Untouched
<1>4. CASE RunAcquired
  <2>1. Transcribed(c, "done") \in Row
    BY <1>1, <1>2, <1>4, TranscribedType DEF RunAcquired, Stage
  <2>2. \A w \in Video : w # c => Untouched(w)
    BY <1>1, <1>2, <1>4, <2>1, PutTouchesOne DEF RunAcquired
  <2>3. videos[c].transcript_json = None
    BY <1>2, <1>4 DEF RunAcquired, Checkpointed, RunnerKnows, Sound
  <2>. QED
    BY <2>2, <2>3 DEF Lands, Untouched
<1>5. CASE RunS2Begin \/ RunS2Skip \/ RunParked \/ RunAcquireFailed
  BY <1>1, <1>2, <1>5 DEF RunS2Begin, RunS2Skip, RunParked, RunAcquireFailed,
     Lands, Row
<1>6. CASE RunS4Begin \/ RunSummarized \/ RunSummarizeDeferred \/ RunSummarizeFailed
  BY <1>1, <1>2, <1>6 DEF RunS4Begin, RunSummarized, RunSummarizeDeferred,
     RunSummarizeFailed, Lands, Row
<1>7. CASE RunS5Begin \/ RunPublished \/ RunWriteDone \/ RunWriteDeferred
            \/ RunWriteFailed
  BY <1>1, <1>2, <1>7 DEF RunS5Begin, RunPublished, RunWriteDone,
     RunWriteDeferred, RunWriteFailed, Lands, Row
<1>8. CASE RunFetchPage \/ RunNeedsASR \/ RunWorkerUp \/ RunS4Skip
            \/ RunS5Skip \/ RunProject \/ RunNotified
  BY <1>8 DEF RunFetchPage, RunNeedsASR, RunWorkerUp, RunS4Skip, RunS5Skip,
     RunProject, RunNotified, Lands
<1>. QED
  BY <1>3, <1>4, <1>5, <1>6, <1>7, <1>8 DEF RunMove

LEMMA DrainStepLands ==
    ASSUME Typed, Exclusive, Checkpointed, DrainStep
    PROVE  Lands
<1>1. CASE DrainPass \/ DrainWorkerUp \/ DrainAborts
  BY <1>1 DEF DrainPass, DrainWorkerUp, DrainAborts, Lands
<1>2. CASE DrainTranscribed
  <2>. DEFINE v == drain.video
              row == Transcribed(v, videos[v].stage_normalize)
  <2>1. v \in Video /\ videos \in [Video -> Row] /\ videos[v] \in Row
    BY <1>2 DEF DrainTranscribed, Typed, TypeOK, Refs
  <2>2. videos[v].transcript_json = None
    BY <1>2, <2>1 DEF DrainTranscribed, Exclusive, Rank, Checkpointed, Sound
  <2>3. row \in Row
    BY <1>2, <2>1, TranscribedType DEF DrainTranscribed, Row
  <2>4. \A w \in Video : w # v => Untouched(w)
    BY <1>2, <2>1, <2>3, PutTouchesOne DEF DrainTranscribed
  <2>. QED
    BY <2>2, <2>4 DEF Lands, Untouched
<1>. QED
  BY <1>1, <1>2 DEF DrainStep

(* Requests and rewrites store no transcript.                               *)
LEMMA OthersLand ==
    ASSUME Typed, Request \/ RewriteStep
    PROVE  Lands
<1>. USE DEF Typed, TypeOK, Row, Lands
<1>1. ASSUME NEW v \in Video, NEW f \in BOOLEAN, Enqueue(v, f) PROVE Lands
  BY <1>1 DEF Enqueue
<1>2. ASSUME NEW v \in Video, Reject(v) PROVE Lands
  BY <1>2 DEF Reject
<1>3. ASSUME NEW r \in Rewriter,
             \/ \E v \in Video : RewriteBegin(r, v)
             \/ RewriteProject(r) \/ RewriteFailed(r)
      PROVE  Lands
  BY <1>3 DEF RewriteBegin, RewriteProject, RewriteFailed
<1>4. ASSUME NEW r \in Rewriter, RewritePublished(r) PROVE Lands
  BY <1>4 DEF RewritePublished
<1>5. ASSUME NEW r \in Rewriter, RewriteDone(r) PROVE Lands
  BY <1>5 DEF RewriteDone
<1>. QED
  BY <1>1, <1>2, <1>3, <1>4, <1>5 DEF Request, RewriteStep

LEMMA NextLands ==
    Typed /\ Exclusive /\ Checkpointed /\ [Next]_vars => Lands
<1>1. ASSUME UNCHANGED videos PROVE Lands
  BY <1>1 DEF Lands
<1>2. ASSUME \/ UNCHANGED vars \/ Crash
             \/ RunPass \/ RunPassEnds \/ RunNext
             \/ RunFinish \/ RunCrashed \/ RunCrashNotified
      PROVE  UNCHANGED videos
  BY <1>2 DEF vars, Crash, RunPass, RunPassEnds, RunNext, RunFinish, RunCrashed,
     RunCrashNotified
<1>. QED
  BY <1>1, <1>2, RunMoveLands, DrainStepLands, OthersLand
  DEF Next, Step, RunnerStep, RunMove

(* Two acquisitions of the same video never both land, whoever makes them   *)
(* (runner.py:191-207, asr_drain.py:69-84): the runner waits for one only   *)
(* while the row has none, the drain only while it is parked, and never     *)
(* both for the same video.                                                 *)
THEOREM PipelineLandsOnce == Spec => TranscriptLandsOnce
<1>1. Typed /\ Exclusive /\ Checkpointed /\ [Next]_vars => [Lands]_vars
  BY NextLands
<1>2. Spec => [](Typed /\ Exclusive /\ Checkpointed)
  BY InitTyped, InitExclusive, InitCheckpointed,
     NextTyped, NextExclusive, NextCheckpointed, PTL DEF Spec
<1>3. Spec => [][Lands]_vars
  BY <1>1, <1>2, PTL DEF Spec
<1>. QED
  BY <1>3 DEF Lands, TranscriptLandsOnce

-----------------------------------------------------------------------------
(* The columns that the checkpoints are not about.                          *)

(* A step leaves a row alone, but for its place in the ASR queue.           *)
Aside(w) ==
    /\ Untouched(w)
    /\ videos'[w].stage_write = videos[w].stage_write
    /\ videos'[w].written_at = videos[w].written_at

Stamped(w) ==
    videos[w].written_at # 0 => videos'[w].written_at = videos[w].written_at

LEMMA SameAside == ASSUME NEW w, videos'[w] = videos[w] PROVE Aside(w)
  BY DEF Aside, Untouched

LEMMA PutAside ==
    ASSUME videos \in [Video -> Row], NEW v \in Video, NEW row \in Row,
           videos' = Put(v, row)
    PROVE  /\ videos'[v] = row
           /\ \A w \in Video : w # v => Aside(w)
<1>1. ASSUME NEW w \in Video, w # v PROVE Aside(w)
  <2>1. videos[w] \in Row
    OBVIOUS
  <2>2. \/ videos'[w] = videos[w]
        \/ videos'[w] = [videos[w] EXCEPT !.asr_queued_at = @ - 1]
    BY <1>1 DEF Put
  <2>3. /\ videos'[w].stage_write = videos[w].stage_write
        /\ videos'[w].written_at = videos[w].written_at
    BY <2>1, <2>2 DEF Row
  <2>. QED
    BY <1>1, <2>3, PutTouchesOne DEF Aside
<1>. QED
  BY <1>1, PutTouchesOne

(* A step of run_job writes the row of the job in hand, and stamps it once. *)
LEMMA RunMoveAside ==
    ASSUME Typed, RunMove
    PROVE  \A w \in Video : Stamped(w) /\ (w # Current => Aside(w))
<1>. DEFINE c == Current
<1>1. c \in Video
  BY RunMoveMoves, CurrentIsVideo DEF Moved
<1>2. videos \in [Video -> Row] /\ videos[c] \in Row
  BY <1>1 DEF Typed, TypeOK
<1>. SUFFICES Stamped(c) /\ \A w \in Video : w # c => Aside(w)
  BY DEF Aside, Stamped
<1>3. ASSUME \A w \in Video : w # c => videos'[w] = videos[w]
      PROVE  \A w \in Video : w # c => Aside(w)
  BY <1>3, SameAside
<1>4. CASE RunReset
  <2>1. /\ ResetRow(c) \in Row
        /\ ResetRow(c).written_at = videos[c].written_at
    BY <1>2 DEF ResetRow, Row, Stage
  <2>. QED
    BY <1>1, <1>2, <1>4, <2>1, PutAside DEF RunReset, Stamped
<1>5. CASE RunAcquired
  <2>1. Transcribed(c, "done") \in Row
    BY <1>1, <1>2, <1>5, TranscribedType DEF RunAcquired, Stage
  <2>2. Transcribed(c, "done").written_at = videos[c].written_at
    BY <1>2 DEF Transcribed, Row
  <2>3. videos' = Put(c, Transcribed(c, "done"))
    BY <1>5 DEF RunAcquired
  <2>4. /\ videos'[c] = Transcribed(c, "done")
        /\ \A w \in Video : w # c => Aside(w)
    BY <1>1, <1>2, <2>1, <2>3, PutAside
  <2>. QED
    BY <2>2, <2>4 DEF Stamped
<1>6. CASE RunS2Begin \/ RunS2Skip \/ RunParked \/ RunAcquireFailed
  BY <1>1, <1>2, <1>3, <1>6 DEF RunS2Begin, RunS2Skip, RunParked,
     RunAcquireFailed, Stamped, Row
<1>7. CASE RunS4Begin \/ RunSummarized \/ RunSummarizeDeferred \/ RunSummarizeFailed
  BY <1>1, <1>2, <1>3, <1>7 DEF RunS4Begin, RunSummarized,
     RunSummarizeDeferred, RunSummarizeFailed, Stamped, Row
<1>8. CASE RunS5Begin \/ RunWriteDone \/ RunWriteDeferred \/ RunWriteFailed
  BY <1>1, <1>2, <1>3, <1>8 DEF RunS5Begin, RunWriteDone, RunWriteDeferred,
     RunWriteFailed, Stamped, Row
<1>9. CASE RunPublished
  BY <1>1, <1>2, <1>3, <1>9 DEF RunPublished, WrittenAt, Stamped, Row
<1>10. CASE RunFetchPage \/ RunNeedsASR \/ RunWorkerUp \/ RunS4Skip
            \/ RunS5Skip \/ RunProject \/ RunNotified
  BY <1>3, <1>10 DEF RunFetchPage, RunNeedsASR, RunWorkerUp, RunS4Skip,
     RunS5Skip, RunProject, RunNotified, Stamped
<1>. QED
  BY <1>4, <1>5, <1>6, <1>7, <1>8, <1>9, <1>10 DEF RunMove

(* A step of the drain writes the row that it has transcribed.              *)
LEMMA DrainStepAside ==
    ASSUME Typed, DrainStep
    PROVE  /\ \A w \in Video : Stamped(w)
           /\ \/ \A w \in Video : Aside(w)
              \/ /\ DrainTranscribed
                 /\ drain.video \in Video
                 /\ \A w \in Video : w # drain.video => Aside(w)
                 /\ videos'[drain.video] =
                      Transcribed(drain.video, videos[drain.video].stage_normalize)
<1>1. CASE DrainPass \/ DrainWorkerUp \/ DrainAborts
  BY <1>1, SameAside DEF DrainPass, DrainWorkerUp, DrainAborts, Stamped
<1>2. CASE DrainTranscribed
  <2>. DEFINE v == drain.video
              row == Transcribed(v, videos[v].stage_normalize)
  <2>1. v \in Video /\ videos \in [Video -> Row] /\ videos[v] \in Row
    BY <1>2 DEF DrainTranscribed, Typed, TypeOK, Refs
  <2>2. row \in Row /\ row.written_at = videos[v].written_at
    BY <1>2, <2>1, TranscribedType DEF DrainTranscribed, Row, Transcribed
  <2>3. videos'[v] = row /\ \A w \in Video : w # v => Aside(w)
    BY <1>2, <2>1, <2>2, PutAside DEF DrainTranscribed
  <2>4. \A w \in Video : Stamped(w)
    BY <2>2, <2>3 DEF Aside, Stamped
  <2>. QED
    BY <1>2, <2>1, <2>3, <2>4
<1>. QED
  BY <1>1, <1>2 DEF DrainStep

(* A request touches the metadata alone.                                    *)
LEMMA RequestAside ==
    ASSUME Typed, Request
    PROVE  \A w \in Video : Aside(w) /\ Stamped(w)
<1>. USE DEF Typed, TypeOK, Row, Aside, Untouched, Stamped
<1>1. ASSUME NEW v \in Video, NEW f \in BOOLEAN, Enqueue(v, f)
      PROVE  \A w \in Video : Aside(w) /\ Stamped(w)
  BY <1>1 DEF Enqueue
<1>2. ASSUME NEW v \in Video, Reject(v)
      PROVE  \A w \in Video : Aside(w) /\ Stamped(w)
  BY <1>2 DEF Reject
<1>. QED
  BY <1>1, <1>2 DEF Request

(* A rewrite stores its stamp, once, and its end.                           *)
LEMMA RewriteStepAside ==
    ASSUME Typed, RewriteStep
    PROVE  \A w \in Video : Untouched(w) /\ Stamped(w)
<1>. USE DEF Typed, TypeOK, Row, Untouched, Stamped
<1>1. ASSUME NEW r \in Rewriter, RewritePublished(r)
      PROVE  \A w \in Video : Untouched(w) /\ Stamped(w)
  BY <1>1 DEF RewritePublished, WrittenAt
<1>2. ASSUME NEW r \in Rewriter, RewriteDone(r)
      PROVE  \A w \in Video : Untouched(w) /\ Stamped(w)
  BY <1>2 DEF RewriteDone
<1>3. ASSUME UNCHANGED videos
      PROVE  \A w \in Video : Untouched(w) /\ Stamped(w)
  BY <1>3
<1>. QED
  BY <1>1, <1>2, <1>3 DEF RewriteStep, RewriteBegin, RewriteProject, RewriteFailed

LEMMA OthersKeepVideos ==
    ASSUME \/ UNCHANGED vars \/ Crash
           \/ RunPass \/ RunPassEnds \/ RunNext
           \/ RunFinish \/ RunCrashed \/ RunCrashNotified
    PROVE  UNCHANGED videos
  BY DEF vars, Crash, RunPass, RunPassEnds, RunNext, RunFinish, RunCrashed,
     RunCrashNotified

LEMMA NextStamped == Typed /\ [Next]_vars => \A v \in Video : Stamped(v)
<1>1. ASSUME UNCHANGED videos PROVE \A v \in Video : Stamped(v)
  BY <1>1 DEF Stamped
<1>. QED
  BY <1>1, OthersKeepVideos, RunMoveAside, DrainStepAside, RequestAside,
     RewriteStepAside
  DEF Next, Step, RunnerStep, RunMove

(* The key that the export pages by is set once and never moves, whatever   *)
(* is forced, rewritten or killed (db.py:55-60, write.py:326-331).          *)
THEOREM PipelineStampsOnce == Spec => WrittenAtIsForever
<1>1. Typed /\ [Next]_vars => [\A v \in Video : Stamped(v)]_vars
  BY NextStamped
<1>2. Spec => [][\A v \in Video : Stamped(v)]_vars
  BY <1>1, PipelineTyped, PTL DEF Spec
<1>. QED
  BY <1>2 DEF Stamped, WrittenAtIsForever

-----------------------------------------------------------------------------
(* A parked video has a job that goes on once the drain is done.            *)

LEMMA WaitingKept ==
    ASSUME ParkedHasLiveJob,
           \A w \in Video : Untouched(w),
           \A j \in Job : Live(j) => Live(j)' /\ jobs'[j].video = jobs[j].video
    PROVE  ParkedHasLiveJob'
  BY DEF ParkedHasLiveJob, Parked, Untouched

LEMMA RunMoveWaiting ==
    ASSUME Typed, Exclusive, Booked, ParkedHasLiveJob, RunMove
    PROVE  ParkedHasLiveJob'
<1>. DEFINE c == Current
<1>1. Moved /\ c \in Video /\ runner.job \in Job
  BY RunMoveMoves, CurrentIsVideo DEF Moved, Typed, Refs
<1>2. UNCHANGED jobs
  BY <1>1 DEF Moved
<1>3. \A w \in Video : w # c /\ videos'[w].asr_queued_at # 0 =>
        /\ videos'[w].stage_transcript = "pending"
        /\ \E j \in Job : jobs'[j].video = w /\ Live(j)'
  BY <1>2, RunMoveAside
  DEF Aside, Untouched, ParkedHasLiveJob, Parked, Live
<1>4. videos'[c].asr_queued_at # 0 =>
        /\ videos'[c].stage_transcript = "pending"
        /\ \E j \in Job : jobs'[j].video = c /\ Live(j)'
  <2>1. CASE RunParked
    <3>1. videos'[c].stage_transcript = "pending"
      BY <1>1, <2>1 DEF RunParked, Typed, TypeOK, Row
    <3>2. jobs'[runner.job].video = c /\ Live(runner.job)
      BY <1>2, <2>1 DEF RunParked, Booked, Live, Current
    <3>3. jobs'[runner.job].status \in {"queued", "running"}
      BY <1>2, <3>2 DEF Live
    <3>. QED
      BY <1>1, <3>1, <3>2, <3>3 DEF Live
  <2>2. CASE ~RunParked
    <3>1. Rank(c) = 0
      BY <1>1 DEF Exclusive, Moved, JustParked
    <3>2. \A w \in Video : Rank(w)' = Rank(w)
      BY <2>2, RunMoveRanks
    <3>3. videos'[c].asr_queued_at = 0
      BY <1>1, <3>1, <3>2 DEF Rank
    <3>. QED
      BY <3>3
  <2>. QED
    BY <2>1, <2>2
<1>. QED
  BY <1>3, <1>4 DEF ParkedHasLiveJob, Parked

(* A job that ends as done or failed is of a video that is not parked.      *)
LEMMA RunTurnWaiting ==
    ASSUME Typed, Exclusive, Booked, ParkedHasLiveJob,
           RunNext \/ RunFinish \/ RunCrashed
    PROVE  ParkedHasLiveJob'
<1>1. UNCHANGED videos
  BY OthersKeepVideos
<1>2. CASE RunNext
  <2>1. PICK j \in Job :
          /\ j \in runner.todo
          /\ jobs' = [jobs EXCEPT ![j].status = "running"]
    BY <1>2, RunNextTakes
  <2>2. \A k \in Job : Live(k) => Live(k)' /\ jobs'[k].video = jobs[k].video
    BY <2>1 DEF Live, Typed, TypeOK, JobRow
  <2>. QED
    BY <1>1, <2>2 DEF ParkedHasLiveJob, Parked
<1>3. ASSUME NEW s, SetStatus(runner.job, s),
             Rank(Current) # 0 => s = "queued",
             runner.pc \notin {"idle", "next"}
      PROVE  ParkedHasLiveJob'
  <2>1. runner.job \in Job /\ jobs \in [Job -> JobRow]
    BY <1>3 DEF Typed, TypeOK, Refs
  <2>2. /\ jobs'[runner.job].status = s
        /\ jobs'[runner.job].video = Current
        /\ \A k \in Job : k # runner.job => jobs'[k] = jobs[k]
    BY <1>3, <2>1 DEF SetStatus, JobRow, Current
  <2>3. ASSUME NEW v \in Video, videos'[v].asr_queued_at # 0
        PROVE  /\ videos'[v].stage_transcript = "pending"
               /\ \E j \in Job : jobs'[j].video = v /\ Live(j)'
    <3>1. PICK k \in Job : jobs[k].video = v /\ Live(k)
      BY <1>1, <2>3 DEF ParkedHasLiveJob, Parked
    <3>2. videos'[v].stage_transcript = "pending"
      BY <1>1, <2>3 DEF ParkedHasLiveJob, Parked
    <3>3. jobs'[k].video = v /\ Live(k)'
      <4>1. CASE k = runner.job
        BY <1>1, <1>3, <2>2, <2>3, <3>1, <4>1 DEF Live, Rank, Current
      <4>2. CASE k # runner.job
        BY <2>2, <3>1, <4>2 DEF Live
      <4>. QED
        BY <4>1, <4>2
    <3>. QED
      BY <3>1, <3>2, <3>3
  <2>. QED
    BY <2>3 DEF ParkedHasLiveJob, Parked
<1>4. CASE RunFinish
  <2>1. Rank(Current) # 0 => StatusAfter(runner.outcome) = "queued"
    BY <1>4 DEF RunFinish, Exclusive, JustParked, StatusAfter
  <2>. QED
    BY <1>3, <1>4, <2>1 DEF RunFinish
<1>5. CASE RunCrashed
  <2>1. Rank(Current) = 0
    BY <1>5 DEF RunCrashed, Exclusive, JustParked
  <2>. QED
    BY <1>3, <1>5, <2>1 DEF RunCrashed
<1>. QED
  BY <1>2, <1>4, <1>5

LEMMA OthersWaiting ==
    ASSUME Typed, Exclusive, ParkedHasLiveJob, DrainStep \/ RewriteStep \/ Request
    PROVE  ParkedHasLiveJob'
<1>1. CASE RewriteStep
  <2>1. UNCHANGED jobs
    BY <1>1 DEF RewriteStep, RewriteBegin, RewriteProject, RewritePublished,
       RewriteDone, RewriteFailed, RewriterOnly
  <2>2. \A j \in Job : Live(j) => Live(j)' /\ jobs'[j].video = jobs[j].video
    BY <2>1 DEF Live
  <2>. QED
    BY <1>1, <2>2, RewriteStepAside, WaitingKept
<1>2. CASE Request
  <2>1. \A j \in Job : jobs[j].status # "none" => jobs'[j] = jobs[j]
    <3>1. ASSUME NEW v \in Video, NEW f \in BOOLEAN, AddJob(v, f)
          PROVE  \A j \in Job : jobs[j].status # "none" => jobs'[j] = jobs[j]
      BY <3>1 DEF AddJob, Typed, TypeOK
    <3>. QED
      BY <1>2, <3>1 DEF Request, Enqueue, Reject
  <2>2. \A j \in Job : Live(j) => Live(j)' /\ jobs'[j].video = jobs[j].video
    BY <2>1 DEF Live
  <2>. QED
    BY <1>2, <2>2, RequestAside, WaitingKept DEF Aside
<1>3. CASE DrainStep
  <2>1. UNCHANGED jobs
    BY <1>3 DEF DrainStep, DrainPass, DrainWorkerUp, DrainTranscribed,
       DrainAborts, DrainOnly
  <2>2. \A j \in Job : Live(j) => Live(j)' /\ jobs'[j].video = jobs[j].video
    BY <2>1 DEF Live
  <2>3. CASE \A w \in Video : Aside(w)
    BY <2>2, <2>3, WaitingKept DEF Aside
  <2>4. CASE /\ DrainTranscribed
             /\ \A w \in Video : w # drain.video => Aside(w)
    <3>1. videos'[drain.video].asr_queued_at = 0
      BY <2>4, DrainClears
    <3>. QED
      BY <2>1, <2>4, <3>1
      DEF ParkedHasLiveJob, Parked, Live, Aside, Untouched
  <2>. QED
    BY <1>3, <2>3, <2>4, DrainStepAside
<1>. QED
  BY <1>1, <1>2, <1>3

LEMMA NextWaiting ==
    Typed /\ Exclusive /\ Booked /\ ParkedHasLiveJob /\ [Next]_vars
      => ParkedHasLiveJob'
<1>1. ASSUME ParkedHasLiveJob, UNCHANGED <<videos, jobs>>
      PROVE  ParkedHasLiveJob'
  BY <1>1 DEF ParkedHasLiveJob, Parked, Live
<1>2. ASSUME \/ UNCHANGED vars \/ Crash
             \/ RunPass \/ RunPassEnds \/ RunCrashNotified
      PROVE  UNCHANGED <<videos, jobs>>
  BY <1>2 DEF vars, Crash, RunPass, RunPassEnds, RunCrashNotified
<1>. QED
  BY <1>1, <1>2, RunMoveWaiting, RunTurnWaiting, OthersWaiting
  DEF Next, Step, RunnerStep, RunMove

(* Parking, failing, draining, being killed and being asked for again never *)
(* leave a parked row without a job that will finish it (runner.py:14-16).  *)
THEOREM PipelineParkedHasJob == Spec => []ParkedHasLiveJob
<1>1. Init => ParkedHasLiveJob
  BY DEF Init, ParkedHasLiveJob, Parked, NoRow
<1>2. Spec => [](Typed /\ Exclusive /\ Booked /\ ParkedHasLiveJob)
  BY <1>1, InitTyped, InitExclusive, InitBooked,
     NextTyped, NextExclusive, NextBooked, NextWaiting, PTL DEF Spec
<1>. QED
  BY <1>2, PTL

-----------------------------------------------------------------------------
(* What the export shows is what the vault's note was made from: with       *)
(* rewrites and forced runs both, it is not (the run forced_rewrite); with  *)
(* either alone it is.                                                      *)

(* A digest is there from S4 on, until a reset.                             *)
Exported(v) ==
    /\ videos[v].digest # None => videos[v].stage_summarize = "done"
    /\ videos[v].stage_write = "done" =>
         /\ videos[v].stage_summarize = "done"
         /\ vault[v] = videos[v].digest
         /\ videos[v].written_at # 0

(* What the runner knows of the row in hand at S4 and S5.                   *)
WriterKnows ==
    /\ runner.pc = "summarize" => videos[Current].stage_summarize = "running"
    /\ runner.pc \in {"s5", "write", "published", "mark"} =>
         videos[Current].stage_summarize = "done"
    /\ runner.pc = "write" => runner.text = videos[Current].digest
    /\ runner.pc \in {"published", "mark"} => vault[Current] = videos[Current].digest
    /\ runner.pc = "mark" => videos[Current].written_at # 0
    /\ runner.pc = "finish" /\ runner.outcome = "done" =>
         videos[Current].stage_write = "done"

(* What a rewrite has read is still on the row when it writes.              *)
RewriterKnows ==
    \A r \in Rewriter : rewriter[r].pc # "idle" =>
        LET v == rewriter[r].video IN
        /\ v \in Video
        /\ videos[v].stage_summarize = "done"
        /\ rewriter[r].digest = videos[v].digest
        /\ rewriter[r].pc \in {"published", "mark"} => vault[v] = videos[v].digest
        /\ rewriter[r].pc = "mark" => videos[v].written_at # 0

(* Without forced requests, no job resets its row.                          *)
Unforced ==
    ForceVideo = {} => /\ \A j \in Job : ~jobs[j].force
                       /\ runner.pc # "reset"

ExportSound ==
    /\ \A v \in Video : Exported(v)
    /\ WriterKnows
    /\ RewriterKnows
    /\ Unforced

(* A row with a digest keeps it, and its note stays or becomes of it.       *)
Kept(v) ==
    videos[v].stage_summarize = "done" =>
        /\ videos'[v].stage_summarize = "done"
        /\ videos'[v].digest = videos[v].digest
        /\ vault'[v] = vault[v] \/ vault'[v] = videos[v].digest
        /\ videos[v].written_at # 0 => videos'[v].written_at # 0

LEMMA AsideExported ==
    ASSUME NEW v, Aside(v), vault'[v] = vault[v]
    PROVE  Kept(v) /\ (Exported(v) => Exported(v)')
  BY DEF Aside, Untouched, Kept, Exported

LEMMA KeptRewriterKnows ==
    ASSUME RewriterKnows, UNCHANGED rewriter,
           Rewriter = {} \/ \A v \in Video : Kept(v)
    PROVE  RewriterKnows'
  BY DEF RewriterKnows, Kept

LEMMA RunMoveExported ==
    ASSUME Typed, Checkpointed, ExportSound, Rewriter = {} \/ ForceVideo = {},
           RunMove
    PROVE  ExportSound'
<1>. DEFINE c == Current
<1>1. Moved
  BY RunMoveMoves
<1>2. c \in Video /\ c' = c
  BY <1>1, CurrentIsVideo DEF Moved, Current
<1>3. /\ videos \in [Video -> Row] /\ videos[c] \in Row /\ Sound(videos[c])
      /\ vault \in [Video -> Version \cup {None}]
      /\ Exported(c) /\ Unforced /\ WriterKnows
  BY <1>2 DEF Typed, TypeOK, Checkpointed, ExportSound
<1>4. runner \in RunnerState
  BY DEF Typed, TypeOK
<1>5. \A w \in Video : w # c => Aside(w) /\ vault'[w] = vault[w]
  <2>1. \A w \in Video : w # c => vault'[w] = vault[w]
    BY <1>3
    DEF RunMove, RunReset, RunS2Begin, RunS2Skip, RunFetchPage, RunNeedsASR,
        RunWorkerUp, RunAcquired, RunParked, RunAcquireFailed, RunS4Begin,
        RunS4Skip, RunSummarized, RunSummarizeDeferred, RunSummarizeFailed,
        RunS5Begin, RunS5Skip, RunProject, RunPublished, RunWriteDone,
        RunWriteDeferred, RunWriteFailed, RunNotified
  <2>. QED
    BY <2>1, RunMoveAside
<1>. SUFFICES /\ Exported(c)'
              /\ WriterKnows'
              /\ Rewriter = {} \/ Kept(c)
              /\ runner'.pc # "reset"
  <2>1. \A v \in Video : Exported(v)'
    BY <1>2, <1>5, AsideExported DEF ExportSound
  <2>2. RewriterKnows'
    BY <1>1, <1>5, AsideExported, KeptRewriterKnows DEF ExportSound, Moved
  <2>3. Unforced'
    BY <1>1, <1>3 DEF Unforced, Moved
  <2>. QED
    BY <2>1, <2>2, <2>3 DEF ExportSound
<1>6. CASE RunReset
  <2>1. ResetRow(c) \in Row /\ ResetRow(c).digest = None
                            /\ ResetRow(c).stage_write = "pending"
    BY <1>3 DEF ResetRow, Row, Stage
  <2>2. videos'[c] = ResetRow(c)
    BY <1>2, <1>3, <1>6, <2>1, PutTouchesOne DEF RunReset
  <2>3. runner'.pc = "s2"
    BY <1>4, <1>6 DEF RunReset, Goto, RunnerState
  <2>4. Rewriter = {}
    BY <1>3, <1>6 DEF RunReset, Unforced
  <2>. QED
    BY <1>2, <2>1, <2>2, <2>3, <2>4 DEF Exported, WriterKnows
<1>7. CASE RunAcquired
  <2>. DEFINE row == Transcribed(c, "done")
  <2>1. row \in Row
    BY <1>2, <1>3, <1>7, TranscribedType DEF RunAcquired, Stage
  <2>2. /\ row.digest = videos[c].digest
        /\ row.stage_summarize = videos[c].stage_summarize
        /\ row.stage_write = videos[c].stage_write
    BY <1>3 DEF Transcribed, Row
  <2>3. videos'[c] = row
    BY <1>2, <1>3, <1>7, <2>1, PutTouchesOne DEF RunAcquired
  <2>4. videos[c].stage_summarize # "done"
    BY <1>3, <1>7 DEF RunAcquired, Checkpointed, RunnerKnows, Sound
  <2>5. runner'.pc = "s4"
    BY <1>4, <1>7 DEF RunAcquired, Goto, RunnerState
  <2>. QED
    BY <1>2, <1>3, <2>2, <2>3, <2>4, <2>5 DEF Exported, WriterKnows, Kept
<1>8. CASE RunS2Begin \/ RunS2Skip \/ RunParked \/ RunAcquireFailed
  <2>1. /\ vault'[c] = vault[c]
        /\ videos'[c].digest = videos[c].digest
        /\ videos'[c].stage_summarize = videos[c].stage_summarize
        /\ videos'[c].stage_write = videos[c].stage_write
        /\ videos'[c].written_at = videos[c].written_at
    BY <1>2, <1>3, <1>8
    DEF RunS2Begin, RunS2Skip, RunParked, RunAcquireFailed, Row
  <2>2. /\ runner'.pc \in {"ladder", "s4", "finish", "notify"}
        /\ runner'.pc = "finish" => runner'.outcome = "parked"
    BY <1>4, <1>8
    DEF RunS2Begin, RunS2Skip, RunParked, RunAcquireFailed, Goto, Return, RunnerState
  <2>. QED
    BY <1>2, <1>3, <2>1, <2>2 DEF Exported, WriterKnows, Kept
<1>9. CASE RunFetchPage \/ RunNeedsASR \/ RunWorkerUp \/ RunNotified
  <2>1. UNCHANGED <<videos, vault>>
    BY <1>9 DEF RunFetchPage, RunNeedsASR, RunWorkerUp, RunNotified
  <2>2. /\ runner'.pc \in {"page", "probe", "asr", "finish"}
        /\ runner'.pc = "finish" => runner'.outcome = "failed"
    BY <1>4, <1>9
    DEF RunFetchPage, RunNeedsASR, RunWorkerUp, RunNotified, Goto, Return, RunnerState
  <2>. QED
    BY <1>2, <1>3, <2>1, <2>2 DEF Exported, WriterKnows, Kept
<1>10. CASE RunS4Begin
  <2>1. /\ vault'[c] = vault[c]
        /\ videos'[c] = [videos[c] EXCEPT !.stage_summarize = "running"]
    BY <1>2, <1>3, <1>10 DEF RunS4Begin
  <2>2. runner'.pc = "summarize"
    BY <1>4, <1>10 DEF RunS4Begin, RunnerState
  <2>3. videos[c].stage_summarize # "done"
    BY <1>10 DEF RunS4Begin
  <2>. QED
    BY <1>2, <1>3, <2>1, <2>2, <2>3 DEF Exported, WriterKnows, Kept, Row
<1>11. CASE RunSummarized
  <2>1. /\ vault'[c] = vault[c]
        /\ videos'[c].stage_summarize = "done"
        /\ videos'[c].stage_write = videos[c].stage_write
    BY <1>2, <1>3, <1>11 DEF RunSummarized, Row
  <2>2. runner'.pc = "s5"
    BY <1>4, <1>11 DEF RunSummarized, Goto, RunnerState
  <2>3. videos[c].stage_summarize = "running"
    BY <1>3, <1>11 DEF RunSummarized, WriterKnows
  <2>. QED
    BY <1>2, <1>3, <2>1, <2>2, <2>3 DEF Exported, WriterKnows, Kept
<1>12. CASE RunSummarizeDeferred \/ RunSummarizeFailed
  <2>1. /\ vault'[c] = vault[c]
        /\ videos'[c].digest = videos[c].digest
        /\ videos'[c].stage_write = videos[c].stage_write
    BY <1>2, <1>3, <1>12 DEF RunSummarizeDeferred, RunSummarizeFailed, Row
  <2>2. /\ runner'.pc \in {"finish", "notify"}
        /\ runner'.pc = "finish" => runner'.outcome = "deferred"
    BY <1>4, <1>12
    DEF RunSummarizeDeferred, RunSummarizeFailed, Goto, Return, RunnerState
  <2>3. videos[c].stage_summarize = "running"
    BY <1>3, <1>12 DEF RunSummarizeDeferred, RunSummarizeFailed, WriterKnows
  <2>. QED
    BY <1>2, <1>3, <2>1, <2>2, <2>3 DEF Exported, WriterKnows, Kept
<1>13. CASE RunS4Skip \/ RunS5Skip
  <2>1. UNCHANGED <<videos, vault>>
    BY <1>13 DEF RunS4Skip, RunS5Skip
  <2>2. \/ runner'.pc = "s5" /\ videos[c].stage_summarize = "done"
        \/ runner'.pc = "finish" /\ videos[c].stage_write = "done"
    BY <1>4, <1>13 DEF RunS4Skip, RunS5Skip, Goto, Return, RunnerState
  <2>. QED
    BY <1>2, <1>3, <2>1, <2>2 DEF Exported, WriterKnows, Kept
<1>14. CASE RunS5Begin
  <2>1. /\ vault'[c] = vault[c]
        /\ videos'[c] = [videos[c] EXCEPT !.stage_write = "running"]
    BY <1>2, <1>3, <1>14 DEF RunS5Begin
  <2>2. runner'.pc = "write" /\ runner'.text = videos[c].digest
    BY <1>4, <1>14 DEF RunS5Begin, RunnerState
  <2>3. videos[c].stage_summarize = "done"
    BY <1>3, <1>14 DEF RunS5Begin, WriterKnows
  <2>. QED
    BY <1>2, <1>3, <2>1, <2>2, <2>3 DEF Exported, WriterKnows, Kept, Row
<1>15. CASE RunProject
  <2>1. videos' = videos /\ vault'[c] = videos[c].digest
    BY <1>2, <1>3, <1>15 DEF RunProject, WriterKnows
  <2>2. runner'.pc = "published"
    BY <1>4, <1>15 DEF RunProject, Goto, RunnerState
  <2>3. videos[c].stage_summarize = "done"
    BY <1>3, <1>15 DEF RunProject, WriterKnows
  <2>. QED
    BY <1>2, <1>3, <2>1, <2>2, <2>3 DEF Exported, WriterKnows, Kept
<1>16. CASE RunPublished
  <2>1. WrittenAt(c) # 0
    <3>1. Cardinality({w \in Video : videos[w].written_at # 0}) \in Nat
      BY PipelineAssumption, FS_Subset, FS_CardinalityType
    <3>. QED
      BY <3>1 DEF WrittenAt
  <2>2. /\ vault'[c] = vault[c]
        /\ videos'[c] = [videos[c] EXCEPT !.written_at = WrittenAt(c)]
    BY <1>2, <1>3, <1>16 DEF RunPublished
  <2>3. runner'.pc = "mark"
    BY <1>4, <1>16 DEF RunPublished, Goto, RunnerState
  <2>4. videos[c].stage_summarize = "done" /\ vault[c] = videos[c].digest
    BY <1>3, <1>16 DEF RunPublished, WriterKnows
  <2>. QED
    BY <1>2, <1>3, <2>1, <2>2, <2>3, <2>4 DEF Exported, WriterKnows, Kept, Row
<1>17. CASE RunWriteDone
  <2>1. /\ vault'[c] = vault[c]
        /\ videos'[c] = [videos[c] EXCEPT !.stage_write = "done"]
    BY <1>2, <1>3, <1>17 DEF RunWriteDone
  <2>2. runner'.pc = "finish" /\ runner'.outcome = "done"
    BY <1>4, <1>17 DEF RunWriteDone, Return, RunnerState
  <2>3. /\ videos[c].stage_summarize = "done" /\ vault[c] = videos[c].digest
        /\ videos[c].written_at # 0
    BY <1>3, <1>17 DEF RunWriteDone, WriterKnows
  <2>. QED
    BY <1>2, <1>3, <2>1, <2>2, <2>3 DEF Exported, WriterKnows, Kept, Row
<1>18. CASE RunWriteDeferred \/ RunWriteFailed
  <2>1. /\ vault'[c] = vault[c]
        /\ \/ videos'[c] = [videos[c] EXCEPT !.stage_write = "pending"]
           \/ videos'[c] = [videos[c] EXCEPT !.stage_write = "failed"]
    BY <1>2, <1>3, <1>18 DEF RunWriteDeferred, RunWriteFailed
  <2>2. /\ runner'.pc \in {"finish", "notify"}
        /\ runner'.pc = "finish" => runner'.outcome = "deferred"
    BY <1>4, <1>18
    DEF RunWriteDeferred, RunWriteFailed, Goto, Return, RunnerState
  <2>. QED
    BY <1>2, <1>3, <2>1, <2>2 DEF Exported, WriterKnows, Kept, Row
<1>. QED
  BY <1>6, <1>7, <1>8, <1>9, <1>10, <1>11, <1>12, <1>13, <1>14, <1>15, <1>16,
     <1>17, <1>18 DEF RunMove

LEMMA RunTurnExported ==
    ASSUME Typed, ExportSound,
           \/ RunPass \/ RunPassEnds \/ RunNext
           \/ RunFinish \/ RunCrashed \/ RunCrashNotified
    PROVE  ExportSound'
<1>1. UNCHANGED <<videos, vault, rewriter>>
  BY DEF RunPass, RunPassEnds, RunNext, RunFinish, RunCrashed, RunCrashNotified,
     RunnerOnly
<1>2. \A v \in Video : Exported(v)'
  BY <1>1 DEF ExportSound, Exported
<1>3. RewriterKnows'
  BY <1>1 DEF ExportSound, RewriterKnows
<1>4. CASE RunNext
  <2>1. PICK j \in Job :
          /\ j \in runner.todo
          /\ jobs' = [jobs EXCEPT ![j].status = "running"]
          /\ runner' = [IdleRunner EXCEPT
                          !.pc = IF jobs[j].force THEN "reset" ELSE "s2",
                          !.todo = runner.todo \ {j}, !.job = j]
    BY <1>4, RunNextTakes
  <2>2. runner'.pc = IF jobs[j].force THEN "reset" ELSE "s2"
    BY <2>1 DEF IdleRunner
  <2>3. \A k \in Job : jobs'[k].force = jobs[k].force
    BY <2>1 DEF Typed, TypeOK, JobRow
  <2>4. WriterKnows'
    BY <2>2 DEF WriterKnows
  <2>5. Unforced'
    BY <2>1, <2>2, <2>3 DEF ExportSound, Unforced
  <2>. QED
    BY <1>2, <1>3, <2>4, <2>5 DEF ExportSound
<1>5. CASE \/ RunPass \/ RunPassEnds
           \/ RunFinish \/ RunCrashed \/ RunCrashNotified
  <2>1. \A k \in Job : jobs'[k].force = jobs[k].force
    BY <1>5
    DEF RunPass, RunPassEnds, RunFinish, RunCrashed, RunCrashNotified, SetStatus,
        Typed, TypeOK, JobRow
  <2>2. runner'.pc \in {"idle", "next", "crashed"}
    <3>1. CASE RunPass
      BY <3>1 DEF RunPass, IdleRunner
    <3>2. CASE RunPassEnds
      BY <3>2 DEF RunPassEnds, IdleRunner
    <3>3. CASE RunFinish
      BY <3>3 DEF RunFinish, IdleRunner
    <3>4. CASE RunCrashed \/ RunCrashNotified
      BY <3>4 DEF RunCrashed, RunCrashNotified, Goto, Typed, TypeOK, RunnerState
    <3>. QED
      BY <1>5, <3>1, <3>2, <3>3, <3>4
  <2>3. WriterKnows'
    BY <2>2 DEF WriterKnows
  <2>4. Unforced'
    BY <2>1, <2>2 DEF ExportSound, Unforced
  <2>. QED
    BY <1>2, <1>3, <2>3, <2>4 DEF ExportSound
<1>. QED
  BY <1>4, <1>5

(* The runner is from S4 on, and what it relies on is about a digest.       *)
Writing ==
    \/ runner.pc \in {"summarize", "s5", "write", "published", "mark"}
    \/ runner.pc = "finish" /\ runner.outcome = "done"

(* The runner waits while another activity touches other rows only.         *)
LEMMA AsideWriterKnows ==
    ASSUME WriterKnows, UNCHANGED <<vault, runner>>,
           Writing => Current' = Current /\ Aside(Current)
    PROVE  WriterKnows'
  BY DEF Writing, WriterKnows, Aside, Untouched

(* A parked row has no transcript yet, so nothing of it is exported, and    *)
(* the runner is not waiting for its digest.                                *)
LEMMA DrainStepExported ==
    ASSUME Typed, Exclusive, Checkpointed, ExportSound, DrainStep
    PROVE  ExportSound'
<1>1. UNCHANGED <<jobs, vault, runner, rewriter>>
  BY DEF DrainStep, DrainPass, DrainWorkerUp, DrainTranscribed, DrainAborts,
     DrainOnly
<1>2. Current' = Current
  BY <1>1 DEF Current
<1>3. Unforced'
  BY <1>1 DEF ExportSound, Unforced
<1>4. runner.pc \notin {"idle", "next"} => Current \in Video
  BY CurrentIsVideo
<1>5. CASE \A w \in Video : Aside(w)
  <2>1. \A w \in Video : Kept(w) /\ Exported(w)'
    BY <1>1, <1>5, AsideExported DEF ExportSound
  <2>2. WriterKnows'
    BY <1>1, <1>2, <1>4, <1>5, AsideWriterKnows DEF ExportSound, Writing
  <2>3. RewriterKnows'
    BY <1>1, <2>1, KeptRewriterKnows DEF ExportSound
  <2>. QED
    BY <1>3, <2>1, <2>2, <2>3 DEF ExportSound
<1>6. ASSUME /\ DrainTranscribed
             /\ drain.video \in Video
             /\ \A w \in Video : w # drain.video => Aside(w)
             /\ videos'[drain.video] =
                  Transcribed(drain.video, videos[drain.video].stage_normalize)
      PROVE  ExportSound'
  <2>. PICK d \in Video : d = drain.video
    BY <1>6
  <2>1. videos[d] \in Row /\ Sound(videos[d]) /\ Exported(d)
    BY <1>6 DEF Typed, TypeOK, Checkpointed, ExportSound
  <2>2. Rank(d) # 0
    BY <1>6 DEF DrainTranscribed, Exclusive
  <2>3. videos[d].stage_summarize # "done"
    BY <2>1, <2>2 DEF Rank, Sound
  <2>4. videos[d].digest = None /\ videos[d].stage_write # "done"
    BY <2>1, <2>3 DEF Exported
  <2>5. videos'[d].digest = None /\ videos'[d].stage_write # "done"
    BY <1>6, <2>1, <2>4 DEF Transcribed, Row
  <2>6. Exported(d)' /\ Kept(d)
    BY <2>3, <2>5 DEF Exported, Kept
  <2>7. \A w \in Video : w # d => Kept(w) /\ Exported(w)'
    BY <1>1, <1>6, AsideExported DEF ExportSound
  <2>8. Writing => Current # d
    BY <2>2 DEF Exclusive, JustParked, Rank, Writing
  <2>9. WriterKnows'
    BY <1>1, <1>2, <1>4, <1>6, <2>8, AsideWriterKnows DEF ExportSound, Writing
  <2>10. RewriterKnows'
    BY <1>1, <2>6, <2>7, KeptRewriterKnows DEF ExportSound
  <2>. QED
    BY <1>3, <2>6, <2>7, <2>9, <2>10 DEF ExportSound
<1>. QED
  BY <1>5, <1>6, DrainStepAside

LEMMA RequestExported ==
    ASSUME Typed, ExportSound, Request
    PROVE  ExportSound'
<1>1. UNCHANGED <<vault, runner, rewriter>>
  BY DEF Request, Enqueue, Reject
<1>2. /\ \A j \in Job : jobs[j].status # "none" => jobs'[j] = jobs[j]
      /\ \A j \in Job : jobs'[j] = jobs[j] \/ ~jobs'[j].force \/ ForceVideo # {}
  <2>1. ASSUME NEW v \in Video, NEW f \in BOOLEAN, AddJob(v, f),
               f => ForceVideo # {}
        PROVE  /\ \A j \in Job : jobs[j].status # "none" => jobs'[j] = jobs[j]
               /\ \A j \in Job :
                    jobs'[j] = jobs[j] \/ ~jobs'[j].force \/ ForceVideo # {}
    BY <2>1 DEF AddJob, Typed, TypeOK
  <2>. QED
    BY <2>1 DEF Request, Enqueue, Reject
<1>3. \A w \in Video : Aside(w)
  BY RequestAside
<1>4. \A w \in Video : Kept(w) /\ Exported(w)'
  BY <1>1, <1>3, AsideExported DEF ExportSound
<1>5. runner.pc \notin {"idle", "next"} => Current \in Video /\ Current' = Current
  BY <1>1, <1>2, CurrentIsVideo DEF Typed, Refs, Current
<1>6. WriterKnows'
  BY <1>1, <1>3, <1>5, AsideWriterKnows DEF ExportSound, Writing
<1>7. RewriterKnows'
  BY <1>1, <1>4, KeptRewriterKnows DEF ExportSound
<1>8. Unforced'
  BY <1>1, <1>2 DEF ExportSound, Unforced
<1>. QED
  BY <1>4, <1>6, <1>7, <1>8 DEF ExportSound

(* A rewrite renders the digest that is on the row, so that it may come     *)
(* between any two steps of the runner's own writing.                       *)
LEMMA RewriteStepExported ==
    ASSUME Typed, ExportSound, RewriteStep
    PROVE  ExportSound'
<1>. PICK r \in Rewriter :
        \/ \E v \in Video : RewriteBegin(r, v)
        \/ RewriteProject(r) \/ RewritePublished(r)
        \/ RewriteDone(r) \/ RewriteFailed(r)
  BY DEF RewriteStep
<1>1. UNCHANGED <<jobs, runner>>
  BY DEF RewriteBegin, RewriteProject, RewritePublished, RewriteDone,
     RewriteFailed, RewriterOnly
<1>2. Current' = Current /\ Unforced'
  BY <1>1 DEF Current, ExportSound, Unforced
<1>3. /\ videos \in [Video -> Row] /\ rewriter \in [Rewriter -> RewriterState]
      /\ vault \in [Video -> Version \cup {None}]
      /\ runner.pc \notin {"idle", "next"} => Current \in Video
  BY CurrentIsVideo DEF Typed, TypeOK
<1>4. /\ \A v \in Video : Exported(v)
      /\ WriterKnows /\ RewriterKnows
  BY DEF ExportSound
<1>5. CASE (\E v \in Video : RewriteBegin(r, v)) \/ RewriteFailed(r)
  <2>1. UNCHANGED <<videos, vault>>
    BY <1>5 DEF RewriteBegin, RewriteFailed
  <2>2. RewriterKnows'
    <3>1. CASE RewriteFailed(r)
      BY <1>3, <1>4, <2>1, <3>1 DEF RewriteFailed, IdleRewriter, RewriterKnows
    <3>2. ASSUME NEW v \in Video, RewriteBegin(r, v) PROVE RewriterKnows'
      <4>1. videos[v].stage_summarize = "done"
        BY <1>4, <3>2 DEF RewriteBegin, Exported
      <4>2. rewriter' = [rewriter EXCEPT ![r] =
                [pc |-> "write", video |-> v, digest |-> videos[v].digest]]
        BY <3>2 DEF RewriteBegin
      <4>. QED
        BY <1>3, <1>4, <2>1, <4>1, <4>2 DEF RewriterKnows
    <3>. QED
      BY <1>5, <3>1, <3>2
  <2>. QED
    BY <1>1, <1>2, <1>4, <2>1, <2>2 DEF ExportSound, Exported, WriterKnows
<1>. DEFINE v == rewriter[r].video
<1>6. CASE RewriteProject(r)
  <2>1. /\ v \in Video /\ videos[v].stage_summarize = "done"
        /\ rewriter[r].digest = videos[v].digest
    BY <1>4, <1>6 DEF RewriteProject, RewriterKnows
  <2>2. /\ UNCHANGED videos
        /\ vault' = [vault EXCEPT ![v] = videos[v].digest]
        /\ rewriter' = [rewriter EXCEPT ![r].pc = "published"]
    BY <1>6, <2>1 DEF RewriteProject
  <2>3. \A w \in Video : vault'[w] = vault[w] \/ vault'[w] = videos[w].digest
    BY <1>3, <2>2
  <2>4. vault'[v] = videos[v].digest
    BY <1>3, <2>1, <2>2
  <2>5. \A w \in Video : Exported(w)'
    BY <1>4, <2>2, <2>3 DEF Exported
  <2>6. WriterKnows'
    BY <1>1, <1>2, <1>3, <1>4, <2>2, <2>3 DEF WriterKnows
  <2>7. RewriterKnows'
    BY <1>3, <1>4, <2>1, <2>2, <2>3, <2>4 DEF RewriterKnows, RewriterState
  <2>. QED
    BY <1>2, <2>5, <2>6, <2>7 DEF ExportSound
<1>7. CASE RewritePublished(r)
  <2>1. WrittenAt(v) # 0
    <3>1. Cardinality({w \in Video : videos[w].written_at # 0}) \in Nat
      BY PipelineAssumption, FS_Subset, FS_CardinalityType
    <3>. QED
      BY <3>1 DEF WrittenAt
  <2>2. /\ UNCHANGED vault
        /\ videos' = [videos EXCEPT ![v].written_at = WrittenAt(v)]
        /\ rewriter' = [rewriter EXCEPT ![r].pc = "mark"]
    BY <1>7 DEF RewritePublished
  <2>3. /\ v \in Video /\ vault[v] = videos[v].digest
    BY <1>4, <1>7 DEF RewritePublished, RewriterKnows
  <2>4. \A w \in Video :
          /\ videos'[w].digest = videos[w].digest
          /\ videos'[w].stage_summarize = videos[w].stage_summarize
          /\ videos'[w].stage_write = videos[w].stage_write
          /\ videos[w].written_at # 0 => videos'[w].written_at # 0
    BY <1>3, <2>1, <2>2 DEF Row
  <2>5. videos'[v].written_at # 0
    BY <1>3, <2>1, <2>2, <2>3 DEF Row
  <2>6. \A w \in Video : Exported(w)'
    BY <1>4, <2>2, <2>4 DEF Exported
  <2>7. WriterKnows'
    BY <1>1, <1>2, <1>3, <1>4, <2>2, <2>4 DEF WriterKnows
  <2>8. \A q \in Rewriter :
          /\ rewriter'[q].video = rewriter[q].video
          /\ rewriter'[q].digest = rewriter[q].digest
          /\ q # r => rewriter'[q].pc = rewriter[q].pc
    BY <1>3, <2>2 DEF RewriterState
  <2>9. rewriter[r].pc = "published"
    BY <1>7 DEF RewritePublished
  <2>10. RewriterKnows'
    BY <1>4, <2>2, <2>3, <2>4, <2>5, <2>8, <2>9 DEF RewriterKnows
  <2>. QED
    BY <1>2, <2>6, <2>7, <2>10 DEF ExportSound
<1>8. CASE RewriteDone(r)
  <2>1. /\ v \in Video /\ videos[v].stage_summarize = "done"
        /\ vault[v] = videos[v].digest /\ videos[v].written_at # 0
    BY <1>4, <1>8 DEF RewriteDone, RewriterKnows
  <2>2. /\ UNCHANGED vault
        /\ videos' = [videos EXCEPT ![v].stage_write = "done"]
        /\ rewriter' = [rewriter EXCEPT ![r] = IdleRewriter]
    BY <1>8 DEF RewriteDone
  <2>3. \A w \in Video :
          /\ videos'[w].digest = videos[w].digest
          /\ videos'[w].stage_summarize = videos[w].stage_summarize
          /\ videos'[w].written_at = videos[w].written_at
          /\ videos'[w].stage_write = videos[w].stage_write \/ w = v
          /\ videos[w].stage_write = "done" => videos'[w].stage_write = "done"
    BY <1>3, <2>1, <2>2 DEF Row
  <2>4. \A w \in Video : Exported(w)'
    BY <1>4, <2>1, <2>2, <2>3 DEF Exported
  <2>5. WriterKnows'
    BY <1>1, <1>2, <1>3, <1>4, <2>2, <2>3 DEF WriterKnows
  <2>6. RewriterKnows'
    BY <1>3, <1>4, <2>2, <2>3 DEF RewriterKnows, IdleRewriter
  <2>. QED
    BY <1>2, <2>4, <2>5, <2>6 DEF ExportSound
<1>. QED
  BY <1>5, <1>6, <1>7, <1>8

LEMMA NextExported ==
    ASSUME Rewriter = {} \/ ForceVideo = {},
           Typed, Exclusive, Checkpointed, ExportSound, [Next]_vars
    PROVE  ExportSound'
<1>1. ASSUME UNCHANGED vars PROVE ExportSound'
  BY <1>1 DEF vars, ExportSound, Exported, WriterKnows, RewriterKnows, Unforced,
     Current
<1>2. ASSUME Crash PROVE ExportSound'
  BY <1>2 DEF Crash, IdleRunner, IdleRewriter, ExportSound, Exported, WriterKnows,
     RewriterKnows, Unforced
<1>. QED
  BY <1>1, <1>2, RunMoveExported, RunTurnExported, DrainStepExported,
     RequestExported, RewriteStepExported
  DEF Next, Step, RunnerStep, RunMove

LEMMA InitExported == Init => ExportSound
  BY DEF Init, NoRow, IdleRunner, IdleRewriter, ExportSound, Exported,
     WriterKnows, RewriterKnows, Unforced

(* The rows that GET /videos exports show the digest their note was made    *)
(* from (runner.py:116-124, routes.py:227-231), for any requests, drains,   *)
(* failures and kills, as long as forced runs and rewrites do not meet.     *)
THEOREM PipelineExportMatches ==
    ASSUME Rewriter = {} \/ ForceVideo = {}
    PROVE  Spec => []ExportMatchesVault
<1>1. Checkpointed /\ ExportSound => ExportMatchesVault
  BY DEF Checkpointed, Sound, ExportSound, Exported, ExportMatchesVault
<1>2. Typed /\ Exclusive /\ Checkpointed /\ ExportSound /\ [Next]_vars
        => ExportSound'
  BY NextExported
<1>3. Spec => [](Typed /\ Exclusive /\ Checkpointed /\ ExportSound)
  BY <1>2, InitTyped, InitExclusive, InitCheckpointed, InitExported,
     NextTyped, NextExclusive, NextCheckpointed, PTL DEF Spec
<1>. QED
  BY <1>1, <1>3, PTL

Publishes ==
    \A j \in Job :
        jobs'[j].status = "done" /\ jobs[j].status # "done" =>
            LET v == jobs[j].video IN
            /\ videos[v].stage_write = "done"
            /\ vault[v] # None /\ vault[v] = videos[v].digest

(* Only RunFinish sets a job done, and only for the outcome that S5 left.   *)
LEMMA NextPublishes ==
    ASSUME Typed, Exclusive, Booked, Checkpointed, ExportSound, [Next]_vars
    PROVE  Publishes
<1>1. CASE RunFinish
  <2>. DEFINE i == runner.job
  <2>1. i \in Job /\ jobs \in [Job -> JobRow] /\ Current \in Video
    BY <1>1, CurrentIsVideo DEF RunFinish, Typed, TypeOK, Refs
  <2>2. /\ \A k \in Job : k # i => jobs'[k] = jobs[k]
        /\ jobs'[i].status = "done" => runner.outcome = "done"
    BY <1>1, <2>1 DEF RunFinish, SetStatus, StatusAfter, JobRow
  <2>3. runner.outcome = "done" =>
          /\ videos[Current].stage_write = "done"
          /\ vault[Current] # None /\ vault[Current] = videos[Current].digest
    BY <1>1, <2>1
    DEF RunFinish, ExportSound, WriterKnows, Exported, Checkpointed, Sound
  <2>. QED
    BY <2>2, <2>3 DEF Publishes, Current
<1>2. ASSUME UNCHANGED jobs PROVE Publishes
  BY <1>2 DEF Publishes
<1>3. CASE RunNext \/ RunCrashed
  <2>1. ASSUME NEW j, NEW s \in {"running", "failed"}, SetStatus(j, s)
        PROVE  \A k \in Job : jobs'[k].status = "done" => jobs[k].status = "done"
    BY <2>1 DEF SetStatus, Typed, TypeOK, JobRow
  <2>. QED
    BY <1>3, <2>1 DEF RunNext, RunCrashed, Publishes
<1>4. CASE Request
  <2>1. ASSUME NEW v \in Video, NEW f \in BOOLEAN, AddJob(v, f)
        PROVE  \A k \in Job : jobs'[k].status = "done" => jobs[k].status = "done"
    BY <2>1 DEF AddJob, Typed, TypeOK
  <2>. QED
    BY <1>2, <1>4, <2>1 DEF Request, Enqueue, Reject, Publishes
<1>5. ASSUME \/ UNCHANGED vars \/ Crash \/ DrainStep \/ RewriteStep
             \/ RunPass \/ RunPassEnds \/ RunCrashNotified
      PROVE  UNCHANGED jobs
  BY <1>5 DEF vars, Crash, RunPass, RunPassEnds, RunCrashNotified, DrainStep,
     DrainPass, DrainWorkerUp, DrainTranscribed, DrainAborts, DrainOnly,
     RewriteStep, RewriteBegin, RewriteProject, RewritePublished, RewriteDone,
     RewriteFailed, RewriterOnly
<1>6. ASSUME RunMove PROVE UNCHANGED jobs
  BY <1>6, RunMoveMoves DEF Moved
<1>. QED
  BY <1>1, <1>2, <1>3, <1>4, <1>5, <1>6 DEF Next, Step, RunnerStep, RunMove

(* A job ends as done only when its video's digest is in the vault, under   *)
(* the same condition.                                                      *)
THEOREM PipelineDoneIsPublished ==
    ASSUME Rewriter = {} \/ ForceVideo = {}
    PROVE  Spec => DoneJobIsPublished
<1>1. Typed /\ Exclusive /\ Checkpointed /\ ExportSound /\ [Next]_vars
        => ExportSound'
  BY NextExported
<1>2. Spec => [](Typed /\ Exclusive /\ Booked /\ Checkpointed /\ ExportSound)
  BY <1>1, InitTyped, InitExclusive, InitBooked, InitCheckpointed, InitExported,
     NextTyped, NextExclusive, NextBooked, NextCheckpointed, PTL DEF Spec
<1>3. Typed /\ Exclusive /\ Booked /\ Checkpointed /\ ExportSound /\ [Next]_vars
        => [Publishes]_vars
  BY NextPublishes
<1>4. Spec => [][Publishes]_vars
  BY <1>2, <1>3, PTL DEF Spec
<1>. QED
  BY <1>4 DEF Publishes, DoneJobIsPublished

-----------------------------------------------------------------------------
(* Pipeline implements Digests, under the same condition.                   *)

(* A job is of a video that has a row, so that a request without force adds *)
(* no second one; and only a forced job resets.                             *)
Answered ==
    /\ \A j \in Job : jobs[j].status = "none" => jobs[j].video = None
    /\ \A j \in Job : jobs[j].status # "none" =>
         videos[jobs[j].video].metadata # "absent"
    /\ runner.pc = "reset" => jobs[runner.job].force

(* All that is known of a state.                                            *)
Solid ==
    /\ Typed /\ Exclusive /\ Booked /\ Checkpointed /\ ParkedHasLiveJob
    /\ ExportSound /\ Answered

LEMMA InitAnswered == Init => Answered
  BY DEF Init, Answered, IdleRunner

(* The metadata of a row is what requests alone change, and never back.     *)
LEMMA MetadataStays ==
    ASSUME Typed, [Next]_vars
    PROVE  \A v \in Video :
             videos[v].metadata # "absent" => videos'[v].metadata # "absent"
<1>. USE DEF Typed, TypeOK, Row
<1>1. ASSUME NEW v \in Video, NEW row \in Row, videos' = Put(v, row),
             row.metadata = videos[v].metadata
      PROVE  \A w \in Video : videos'[w].metadata = videos[w].metadata
  BY <1>1 DEF Put
<1>2. CASE RunReset
  <2>1. Current \in Video
    BY <1>2, CurrentIsVideo DEF RunReset
  <2>2. /\ ResetRow(Current) \in Row
        /\ ResetRow(Current).metadata = videos[Current].metadata
    BY <2>1 DEF ResetRow, Stage
  <2>. QED
    BY <1>1, <1>2, <2>1, <2>2 DEF RunReset
<1>3. CASE RunAcquired
  <2>1. Current \in Video
    BY <1>3, CurrentIsVideo DEF RunAcquired
  <2>2. Transcribed(Current, "done") \in Row
    BY <1>3, <2>1, TranscribedType DEF RunAcquired, Stage
  <2>3. Transcribed(Current, "done").metadata = videos[Current].metadata
    BY <2>1 DEF Transcribed
  <2>. QED
    BY <1>1, <1>3, <2>1, <2>2, <2>3 DEF RunAcquired
<1>4. CASE DrainTranscribed
  <2>. DEFINE v == drain.video
              row == Transcribed(v, videos[v].stage_normalize)
  <2>1. v \in Video
    BY <1>4 DEF DrainTranscribed, Refs
  <2>2. row \in Row
    BY <1>4, <2>1, TranscribedType DEF DrainTranscribed
  <2>3. row.metadata = videos[v].metadata
    BY <2>1 DEF Transcribed
  <2>. QED
    BY <1>1, <1>4, <2>1, <2>2, <2>3 DEF DrainTranscribed
<1>5. CASE RunS2Begin \/ RunS2Skip \/ RunParked \/ RunAcquireFailed
            \/ RunS4Begin \/ RunSummarized \/ RunSummarizeDeferred
            \/ RunSummarizeFailed
  BY <1>5
  DEF RunS2Begin, RunS2Skip, RunParked, RunAcquireFailed, RunS4Begin,
      RunSummarized, RunSummarizeDeferred, RunSummarizeFailed
<1>6. CASE RunS5Begin \/ RunPublished \/ RunWriteDone \/ RunWriteDeferred
            \/ RunWriteFailed
  BY <1>6
  DEF RunS5Begin, RunPublished, RunWriteDone, RunWriteDeferred, RunWriteFailed
<1>7. CASE Request
  <2>1. ASSUME NEW v \in Video, NEW f \in BOOLEAN, Enqueue(v, f) \/ Reject(v)
        PROVE  \A w \in Video :
                 videos[w].metadata # "absent" => videos'[w].metadata # "absent"
    BY <2>1 DEF Enqueue, Reject
  <2>. QED
    BY <1>7, <2>1 DEF Request
<1>8. CASE RewriteStep
  <2>1. ASSUME NEW r \in Rewriter, RewritePublished(r) \/ RewriteDone(r)
        PROVE  \A w \in Video : videos'[w].metadata = videos[w].metadata
    BY <2>1 DEF RewritePublished, RewriteDone
  <2>. QED
    BY <1>8, <2>1 DEF RewriteStep, RewriteBegin, RewriteProject, RewriteFailed
<1>9. CASE \/ RunFetchPage \/ RunNeedsASR \/ RunWorkerUp \/ RunS4Skip
           \/ RunS5Skip \/ RunProject \/ RunNotified
           \/ DrainPass \/ DrainWorkerUp \/ DrainAborts
  BY <1>9
  DEF RunFetchPage, RunNeedsASR, RunWorkerUp, RunS4Skip, RunS5Skip, RunProject,
      RunNotified, DrainPass, DrainWorkerUp, DrainAborts
<1>. QED
  BY <1>2, <1>3, <1>4, <1>5, <1>6, <1>7, <1>8, <1>9, OthersKeepVideos
  DEF Next, Step, RunnerStep, DrainStep

(* Setting a status, or none, leaves what jobs are about.                   *)
LEMMA AnsweredStays ==
    ASSUME Typed, Answered, [Next]_vars,
           \A j \in Job :
             /\ jobs'[j].video = jobs[j].video
             /\ jobs'[j].status = "none" <=> jobs[j].status = "none",
           runner'.pc = "reset" => jobs'[runner'.job].force
    PROVE  Answered'
<1>1. \A j \in Job : jobs[j].status # "none" => jobs[j].video \in Video
  BY DEF Typed, Refs
<1>. QED
  BY <1>1, MetadataStays DEF Answered

LEMMA NextAnswered ==
    ASSUME Typed, Booked, Answered, [Next]_vars
    PROVE  Answered'
<1>. USE DEF Typed, TypeOK
<1>1. CASE RunMove
  <2>1. Moved
    BY <1>1, RunMoveMoves
  <2>2. runner'.pc # "reset"
    BY <1>1
    DEF RunMove, RunReset, RunS2Begin, RunS2Skip, RunFetchPage, RunNeedsASR,
        RunWorkerUp, RunAcquired, RunParked, RunAcquireFailed, RunS4Begin,
        RunS4Skip, RunSummarized, RunSummarizeDeferred, RunSummarizeFailed,
        RunS5Begin, RunS5Skip, RunProject, RunPublished, RunWriteDone,
        RunWriteDeferred, RunWriteFailed, RunNotified, Goto, Return, RunnerState
  <2>. QED
    BY <2>1, <2>2, AnsweredStays DEF Moved
<1>2. CASE RunNext
  <2>1. PICK j \in Job :
          /\ j \in runner.todo
          /\ jobs' = [jobs EXCEPT ![j].status = "running"]
          /\ runner' = [IdleRunner EXCEPT
                          !.pc = IF jobs[j].force THEN "reset" ELSE "s2",
                          !.todo = runner.todo \ {j}, !.job = j]
    BY <1>2, RunNextTakes
  <2>2. jobs[j].status # "none"
    BY <2>1 DEF Refs
  <2>3. \A k \in Job : /\ jobs'[k].video = jobs[k].video
                       /\ jobs'[k].force = jobs[k].force
                       /\ jobs'[k].status = "none" <=> jobs[k].status = "none"
    BY <2>1, <2>2 DEF JobRow
  <2>4. runner'.pc = "reset" => jobs'[runner'.job].force
    BY <2>1, <2>3 DEF IdleRunner
  <2>. QED
    BY <2>3, <2>4, AnsweredStays
<1>3. CASE RunFinish \/ RunCrashed
  <2>1. runner.job \in Job /\ jobs[runner.job].status # "none"
    BY <1>3 DEF RunFinish, RunCrashed, Refs
  <2>2. PICK s \in {"queued", "done", "failed"} : SetStatus(runner.job, s)
    BY <1>3 DEF RunFinish, RunCrashed, StatusAfter
  <2>3. \A k \in Job : /\ jobs'[k].video = jobs[k].video
                       /\ jobs'[k].status = "none" <=> jobs[k].status = "none"
    BY <2>1, <2>2 DEF SetStatus, JobRow
  <2>4. runner'.pc # "reset"
    BY <1>3 DEF RunFinish, RunCrashed, IdleRunner, Goto, RunnerState
  <2>. QED
    BY <2>3, <2>4, AnsweredStays
<1>4. CASE RunPass \/ RunPassEnds \/ RunCrashNotified \/ Crash
  <2>1. UNCHANGED jobs
    BY <1>4 DEF RunPass, RunPassEnds, RunCrashNotified, Crash
  <2>2. runner'.pc # "reset"
    <3>1. CASE RunPass
      BY <3>1 DEF RunPass, IdleRunner
    <3>2. CASE RunPassEnds \/ Crash
      BY <3>2 DEF RunPassEnds, Crash, IdleRunner
    <3>3. CASE RunCrashNotified
      BY <3>3 DEF RunCrashNotified, Goto, RunnerState
    <3>. QED
      BY <1>4, <3>1, <3>2, <3>3
  <2>. QED
    BY <2>1, <2>2, AnsweredStays
<1>5. CASE UNCHANGED vars \/ DrainStep \/ RewriteStep
  <2>1. UNCHANGED <<jobs, runner>>
    BY <1>5
    DEF vars, DrainStep, DrainPass, DrainWorkerUp, DrainTranscribed, DrainAborts,
        DrainOnly, RewriteStep, RewriteBegin, RewriteProject, RewritePublished,
        RewriteDone, RewriteFailed, RewriterOnly
  <2>2. runner'.pc = "reset" => jobs'[runner'.job].force
    BY <2>1 DEF Answered
  <2>. QED
    BY <2>1, <2>2, AnsweredStays
<1>6. CASE Request
  <2>1. ASSUME NEW v \in Video, Reject(v) PROVE Answered'
    <3>1. UNCHANGED <<jobs, runner>>
      BY <2>1 DEF Reject
    <3>. QED
      BY <3>1, AnsweredStays DEF Answered
  <2>2. ASSUME NEW v \in Video, NEW f \in BOOLEAN, Enqueue(v, f)
        PROVE  Answered'
    <3>1. PICK i \in Job :
            /\ jobs[i].status = "none"
            /\ jobs' = [jobs EXCEPT ![i] = [video |-> v, force |-> f,
                                            status |-> "queued"]]
      BY <2>2 DEF Enqueue, AddJob
    <3>2. UNCHANGED runner /\ videos' = [videos EXCEPT ![v].metadata = "done"]
      BY <2>2 DEF Enqueue
    <3>3. /\ jobs'[i].video = v /\ jobs'[i].status = "queued"
          /\ \A j \in Job : j # i => jobs'[j] = jobs[j]
      BY <3>1
    <3>4. videos'[v].metadata # "absent"
      BY <3>2 DEF Row
    <3>5. \A j \in Job : jobs[j].status # "none" => jobs[j].video \in Video
      BY DEF Refs
    <3>6. \A j \in Job : jobs'[j].status # "none" =>
            videos'[jobs'[j].video].metadata # "absent"
      BY <3>3, <3>4, <3>5, MetadataStays DEF Answered
    <3>7. runner.pc = "reset" =>
            /\ runner.job \in Job /\ jobs[runner.job].status # "none"
            /\ jobs'[runner.job].force
      BY <3>1, <3>3 DEF Refs, Answered
    <3>. QED
      BY <3>2, <3>3, <3>6, <3>7 DEF Answered
  <2>. QED
    BY <1>6, <2>1, <2>2 DEF Request
<1>. QED
  BY <1>1, <1>2, <1>3, <1>4, <1>5, <1>6 DEF Next, Step, RunnerStep, RunMove

LEMMA NextSolid ==
    ASSUME Rewriter = {} \/ ForceVideo = {}, Solid, [Next]_vars
    PROVE  Solid'
  BY NextTyped, NextExclusive, NextBooked, NextCheckpointed, NextWaiting,
     NextExported, NextAnswered DEF Solid

-----------------------------------------------------------------------------
(* What the steps of Pipeline are for Digests.                              *)

(* The columns that Digests is about.                                       *)
SameFor(v) ==
    /\ videos'[v].transcript_json = videos[v].transcript_json
    /\ videos'[v].digest = videos[v].digest
    /\ videos'[v].stage_write = "done" <=> videos[v].stage_write = "done"

SameVideos == UNCHANGED <<Transcripts, DigestsOf, InExport>>
SameJobs   == UNCHANGED <<Requests, States>>

Promised == [Promise!DigestsNext]_(Promise!digestsVars)

LEMMA RowsStay == ASSUME \A v \in Video : SameFor(v) PROVE SameVideos
  BY DEF SameFor, SameVideos, Transcripts, DigestsOf, InExport

LEMMA OneRow ==
    ASSUME NEW v \in Video, \A w \in Video : w # v => SameFor(w)
    PROVE  /\ Transcripts' = [Transcripts EXCEPT ![v] = videos'[v].transcript_json]
           /\ DigestsOf' = [DigestsOf EXCEPT ![v] = videos'[v].digest]
           /\ InExport' = IF videos'[v].stage_write = "done"
                          THEN InExport \cup {v} ELSE InExport \ {v}
<1>1. Transcripts' = [Transcripts EXCEPT ![v] = videos'[v].transcript_json]
  BY DEF SameFor, Transcripts
<1>2. DigestsOf' = [DigestsOf EXCEPT ![v] = videos'[v].digest]
  BY DEF SameFor, DigestsOf
<1>3. InExport' = IF videos'[v].stage_write = "done"
                  THEN InExport \cup {v} ELSE InExport \ {v}
  BY DEF SameFor, InExport
<1>. QED
  BY <1>1, <1>2, <1>3

LEMMA AsideSame == ASSUME NEW v, Aside(v) PROVE SameFor(v)
  BY DEF Aside, Untouched, SameFor

LEMMA Stutters ==
    ASSUME SameVideos, SameJobs, UNCHANGED vault PROVE Promised
  BY DEF SameVideos, SameJobs, Promised, Promise!digestsVars

(* A job that has started is one for its video.                             *)
LEMMA StartedIsInHand ==
    ASSUME Typed, Booked, runner.pc \notin {"idle", "next", "reset", "crashed"}
    PROVE  /\ runner.job \in Job
           /\ States[runner.job] = "started"
           /\ Requests[runner.job].video = Current
           /\ Promise!InHand(Current) /\ Promise!Wanted(Current)
<1>1. runner.job \in Job /\ jobs[runner.job].status = "running"
  BY DEF Typed, Refs, Booked
<1>2. States[runner.job] = "started" /\ Requests[runner.job].video = Current
  BY <1>1 DEF States, StateOf, Live, Requests, Current
<1>. QED
  BY <1>1, <1>2 DEF Promise!InHand, Promise!Wanted

LEMMA LiveIsWanted ==
    ASSUME NEW v, NEW j \in Job, Live(j), jobs[j].video = v
    PROVE  Promise!Wanted(v)
<1>1. States[j] \in {"live", "started"} /\ Requests[j].video = v
  BY DEF States, StateOf, Requests
<1>. QED
  BY <1>1 DEF Promise!Wanted

(* A runner that goes on with a started job.                                *)
LEMMA JobsStay ==
    ASSUME UNCHANGED jobs,
           \/ /\ UNCHANGED runner
           \/ /\ runner'.job = runner.job
              /\ runner.pc \notin {"idle", "next", "reset"}
              /\ runner'.pc \notin {"idle", "next", "reset"}
    PROVE  SameJobs
<1>1. \A j \in Job : StateOf(j)' = StateOf(j)
  BY DEF StateOf, Live
<1>. QED
  BY <1>1 DEF SameJobs, States, Requests

(* A step past the reset that leaves what Digests is about.                 *)
LEMMA RunMoveOn ==
    ASSUME Typed, RunMove, ~RunReset
    PROVE  SameJobs
<1>1. Moved
  BY RunMoveMoves
<1>2. runner.pc # "reset"
  BY DEF RunMove, RunS2Begin, RunS2Skip, RunFetchPage, RunNeedsASR, RunWorkerUp,
     RunAcquired, RunParked, RunAcquireFailed, RunS4Begin, RunS4Skip,
     RunSummarized, RunSummarizeDeferred, RunSummarizeFailed, RunS5Begin,
     RunS5Skip, RunProject, RunPublished, RunWriteDone, RunWriteDeferred,
     RunWriteFailed, RunNotified
<1>3. runner'.pc # "reset"
  BY DEF RunMove, RunS2Begin, RunS2Skip, RunFetchPage, RunNeedsASR, RunWorkerUp,
     RunAcquired, RunParked, RunAcquireFailed, RunS4Begin, RunS4Skip,
     RunSummarized, RunSummarizeDeferred, RunSummarizeFailed, RunS5Begin,
     RunS5Skip, RunProject, RunPublished, RunWriteDone, RunWriteDeferred,
     RunWriteFailed, RunNotified, Goto, Return, Typed, TypeOK, RunnerState
<1>. QED
  BY <1>1, <1>2, <1>3, JobsStay DEF Moved

(* What it takes to see one job change.                                     *)
LEMMA OneState ==
    ASSUME NEW i \in Job, NEW s, StateOf(i)' = s,
           \A k \in Job : k # i => StateOf(k)' = StateOf(k)
    PROVE  States' = [States EXCEPT ![i] = s]
<1>1. /\ States' = [k \in Job |-> StateOf(k)']
      /\ States = [k \in Job |-> StateOf(k)]
  BY DEF States
<1>2. \A k \in Job : States'[k] = [States EXCEPT ![i] = s][k]
  BY <1>1
<1>. QED
  BY <1>1, <1>2

(* The reset is the start of a forced job.                                  *)
LEMMA ResetStarts ==
    ASSUME Solid, RunReset
    PROVE  \E i \in Job : Promise!Start(i)
<1>. DEFINE c == Current
<1>. USE DEF Solid
<1>0. PICK i \in Job : i = runner.job
  BY DEF RunReset, Typed, Refs
<1>1. /\ c \in Video /\ Live(i) /\ jobs[i].force
      /\ jobs[i].video = c /\ runner.pc = "reset"
  BY <1>0, CurrentIsVideo
  DEF RunReset, Typed, Refs, Booked, Live, Answered, Current
<1>2. UNCHANGED <<jobs, vault>> /\ runner'.pc = "s2" /\ runner'.job = i
  BY <1>0 DEF RunReset, Goto, Typed, TypeOK, RunnerState
<1>3. /\ videos'[c].transcript_json = None
      /\ videos'[c].digest = None
      /\ videos'[c].stage_write # "done"
      /\ \A w \in Video : w # c => SameFor(w)
  <2>1. videos \in [Video -> Row] /\ videos[c] \in Row
    BY <1>1 DEF Typed, TypeOK
  <2>2. /\ ResetRow(c) \in Row
        /\ ResetRow(c).transcript_json = None
        /\ ResetRow(c).digest = None
        /\ ResetRow(c).stage_write = "pending"
    BY <2>1 DEF ResetRow, Row, Stage
  <2>3. videos' = Put(c, ResetRow(c))
    BY DEF RunReset
  <2>4. videos'[c] = ResetRow(c) /\ \A w \in Video : w # c => Aside(w)
    BY <1>1, <2>1, <2>2, <2>3, PutAside
  <2>. QED
    BY <2>2, <2>4, AsideSame
<1>4. \A k \in Job : States[k] # "started"
  <2>1. \A k \in Job : jobs[k].status # "started"
    BY DEF Typed, TypeOK, JobRow
  <2>2. \A k \in Job : StateOf(k) # "started"
    BY <1>0, <1>1, <2>1 DEF StateOf
  <2>. QED
    BY <2>2 DEF States
<1>5. States[i] = "live"
  BY <1>0, <1>1 DEF States, StateOf
<1>6. States' = [States EXCEPT ![i] = "started"]
  <2>1. StateOf(i)' = "started"
    BY <1>0, <1>1, <1>2 DEF StateOf, Live
  <2>2. \A k \in Job : k # i => StateOf(k)' = StateOf(k)
    BY <1>0, <1>2 DEF StateOf, Live
  <2>. QED
    BY OneState, <2>1, <2>2
<1>7. Requests[i].force /\ Requests[i].video = c /\ Requests' = Requests
  BY <1>1, <1>2 DEF Requests
<1>8. Promise!Discard(c)
  BY <1>1, <1>3, OneRow DEF Promise!Discard
<1>. QED
  BY <1>2, <1>4, <1>5, <1>6, <1>7, <1>8 DEF Promise!Start

(* A transcript lands on a row that has none, for somebody who waits.       *)
LEMMA LandingTranscribes ==
    ASSUME Typed, NEW v \in Video, Promise!Wanted(v), SameJobs, UNCHANGED vault,
           videos[v].transcript_json = None, CanName(v),
           videos'[v].transcript_json = Fresh(v),
           videos'[v].digest = videos[v].digest,
           videos'[v].stage_write = videos[v].stage_write,
           \A w \in Video : w # v => SameFor(w)
    PROVE  Promise!Transcribe(v)
<1>1. Fresh(v) \in Version \ {vault[v]}
  BY DEF Fresh, CanName, Held
<1>2. Transcripts' = [Transcripts EXCEPT ![v] = Fresh(v)]
  BY OneRow
<1>3. UNCHANGED <<DigestsOf, InExport>>
  BY DEF DigestsOf, InExport, SameFor
<1>4. Transcripts[v] = None
  BY DEF Transcripts
<1>. QED
  BY <1>1, <1>2, <1>3, <1>4 DEF Promise!Transcribe, SameJobs

(* The note becomes the digest's, or stays so.                              *)
LEMMA ProjectingWrites ==
    ASSUME NEW v \in Video, SameJobs, SameVideos, DigestsOf[v] # None,
           vault \in [Video -> Version \cup {None}],
           vault' = [vault EXCEPT ![v] = DigestsOf[v]]
    PROVE  Promised
<1>1. CASE vault[v] = DigestsOf[v]
  <2>1. vault' = vault
    BY <1>1
  <2>. QED
    BY <2>1, Stutters
<1>2. CASE vault[v] # DigestsOf[v]
  <2>1. Promise!Write(v)
    BY <1>2 DEF Promise!Write, SameJobs, SameVideos
  <2>. QED
    BY <2>1 DEF Promised, Promise!DigestsNext
<1>. QED
  BY <1>1, <1>2

(* A row enters the export with the note of its digest.                     *)
LEMMA MarkingExports ==
    ASSUME NEW v \in Video, SameJobs, UNCHANGED vault,
           videos[v].digest # None, vault[v] = videos[v].digest,
           videos'[v].transcript_json = videos[v].transcript_json,
           videos'[v].digest = videos[v].digest,
           videos'[v].stage_write = "done",
           \A w \in Video : w # v => SameFor(w)
    PROVE  Promised
<1>1. UNCHANGED <<Transcripts, DigestsOf>>
  BY DEF Transcripts, DigestsOf, SameFor
<1>2. InExport' = InExport \cup {v}
  BY OneRow
<1>3. CASE v \in InExport
  <2>1. SameVideos
    BY <1>1, <1>2, <1>3 DEF SameVideos
  <2>. QED
    BY <2>1, Stutters
<1>4. CASE v \notin InExport
  <2>1. DigestsOf[v] = videos[v].digest
    BY DEF DigestsOf
  <2>2. Promise!Export(v)
    BY <1>1, <1>2, <1>4, <2>1 DEF Promise!Export, SameJobs
  <2>. QED
    BY <2>2 DEF Promised, Promise!DigestsNext
<1>. QED
  BY <1>3, <1>4

(* A failed write takes the row out of the export, if it was there.         *)
LEMMA FailingWithdraws ==
    ASSUME NEW v \in Video, Promise!InHand(v), SameJobs, UNCHANGED vault,
           videos'[v].transcript_json = videos[v].transcript_json,
           videos'[v].digest = videos[v].digest,
           videos'[v].stage_write # "done",
           \A w \in Video : w # v => SameFor(w)
    PROVE  Promised
<1>1. UNCHANGED <<Transcripts, DigestsOf>>
  BY DEF Transcripts, DigestsOf, SameFor
<1>2. InExport' = InExport \ {v}
  BY OneRow
<1>3. CASE v \notin InExport
  <2>1. SameVideos
    BY <1>1, <1>2, <1>3 DEF SameVideos
  <2>. QED
    BY <2>1, Stutters
<1>4. CASE v \in InExport
  <2>1. Promise!Withdraw(v)
    BY <1>1, <1>2, <1>4 DEF Promise!Withdraw, SameJobs
  <2>. QED
    BY <2>1 DEF Promised, Promise!DigestsNext
<1>. QED
  BY <1>3, <1>4

LEMMA RunMoveImplements == ASSUME Solid, RunMove PROVE Promised
<1>. DEFINE c == Current
<1>. USE DEF Solid
<1>1. Moved /\ c \in Video
  BY RunMoveMoves, CurrentIsVideo DEF Moved
<1>2. /\ videos \in [Video -> Row] /\ videos[c] \in Row
      /\ vault \in [Video -> Version \cup {None}]
      /\ Sound(videos[c]) /\ Exported(c) /\ RunnerKnows /\ WriterKnows
  BY <1>1 DEF Typed, TypeOK, Checkpointed, ExportSound
<1>3. \A w \in Video : w # c => SameFor(w)
  BY RunMoveAside, AsideSame
<1>4. CASE RunReset
  <2>1. \E i \in Job : Promise!Start(i)
    BY <1>4, ResetStarts
  <2>. QED
    BY <2>1 DEF Promised, Promise!DigestsNext
<1>5. ASSUME ~RunReset
      PROVE  /\ SameJobs /\ runner.pc # "reset"
             /\ Promise!InHand(c) /\ Promise!Wanted(c)
  <2>1. runner.pc # "reset"
    BY <1>5
    DEF RunMove, RunS2Begin, RunS2Skip, RunFetchPage, RunNeedsASR, RunWorkerUp,
        RunAcquired, RunParked, RunAcquireFailed, RunS4Begin, RunS4Skip,
        RunSummarized, RunSummarizeDeferred, RunSummarizeFailed, RunS5Begin,
        RunS5Skip, RunProject, RunPublished, RunWriteDone, RunWriteDeferred,
        RunWriteFailed, RunNotified
  <2>2. runner.pc \notin {"idle", "next", "reset", "crashed"}
    BY <1>1, <2>1 DEF Moved
  <2>. QED
    BY <1>5, <2>1, <2>2, RunMoveOn, StartedIsInHand
<1>6. ASSUME ~RunReset, UNCHANGED vault, SameFor(c) PROVE Promised
  <2>1. SameVideos
    BY <1>3, <1>6, RowsStay
  <2>. QED
    BY <1>5, <1>6, <2>1, Stutters
<1>7. CASE RunAcquired
  <2>. DEFINE row == Transcribed(c, "done")
  <2>1. row \in Row
    BY <1>1, <1>2, <1>7, TranscribedType DEF RunAcquired, Stage
  <2>2. videos' = Put(c, row) /\ CanName(c) /\ UNCHANGED vault
    BY <1>7 DEF RunAcquired
  <2>3. videos'[c] = row
    BY <1>1, <1>2, <2>1, <2>2, PutAside
  <2>4. /\ row.transcript_json = Fresh(c)
        /\ row.digest = videos[c].digest
        /\ row.stage_write = videos[c].stage_write
    BY <1>2 DEF Transcribed, Row
  <2>5. videos[c].transcript_json = None
    BY <1>2, <1>7 DEF RunAcquired, RunnerKnows, Sound
  <2>6. ~RunReset
    BY <1>7 DEF RunAcquired, RunReset
  <2>7. Promise!Transcribe(c)
    BY <1>1, <1>3, <1>5, <2>2, <2>3, <2>4, <2>5, <2>6, LandingTranscribes
  <2>. QED
    BY <1>1, <2>7 DEF Promised, Promise!DigestsNext
<1>8. CASE RunSummarized
  <2>1. /\ videos'[c].digest = videos[c].transcript_json
        /\ videos'[c].transcript_json = videos[c].transcript_json
        /\ videos'[c].stage_write = videos[c].stage_write
        /\ UNCHANGED vault /\ ~RunReset
    BY <1>1, <1>2, <1>8 DEF RunSummarized, RunReset, RunnerKnows, Row
  <2>2. videos[c].digest = None /\ videos[c].transcript_json # None
    BY <1>2, <1>8 DEF RunSummarized, RunnerKnows, WriterKnows, Sound, Exported
  <2>3. DigestsOf' = [DigestsOf EXCEPT ![c] = videos[c].transcript_json]
    BY <1>1, <1>3, <2>1, OneRow
  <2>4. UNCHANGED <<Transcripts, InExport>>
    BY <1>3, <2>1 DEF Transcripts, InExport, SameFor
  <2>5. Transcripts[c] = videos[c].transcript_json /\ DigestsOf[c] = None
    BY <1>1, <2>2 DEF Transcripts, DigestsOf
  <2>6. Promise!Summarize(c)
    BY <1>5, <2>1, <2>2, <2>3, <2>4, <2>5 DEF Promise!Summarize, SameJobs
  <2>. QED
    BY <1>1, <2>6 DEF Promised, Promise!DigestsNext
<1>9. CASE RunProject
  <2>1. vault' = [vault EXCEPT ![c] = runner.text] /\ UNCHANGED videos /\ ~RunReset
    BY <1>9 DEF RunProject, RunReset
  <2>2. runner.text = videos[c].digest /\ videos[c].digest # None
    BY <1>2, <1>9 DEF RunProject, WriterKnows, Sound
  <2>3. DigestsOf[c] = videos[c].digest
    BY <1>1 DEF DigestsOf
  <2>4. SameVideos
    BY <2>1, RowsStay DEF SameFor
  <2>. QED
    BY <1>1, <1>2, <1>5, <2>1, <2>2, <2>3, <2>4, ProjectingWrites
<1>10. CASE RunWriteDone
  <2>1. /\ videos'[c].transcript_json = videos[c].transcript_json
        /\ videos'[c].digest = videos[c].digest
        /\ videos'[c].stage_write = "done"
        /\ UNCHANGED vault /\ ~RunReset
    BY <1>1, <1>2, <1>10 DEF RunWriteDone, RunReset, Row
  <2>2. vault[c] = videos[c].digest /\ videos[c].digest # None
    BY <1>2, <1>10 DEF RunWriteDone, WriterKnows, Sound
  <2>. QED
    BY <1>1, <1>3, <1>5, <2>1, <2>2, MarkingExports
<1>11. CASE RunWriteDeferred \/ RunWriteFailed
  <2>1. /\ videos'[c].transcript_json = videos[c].transcript_json
        /\ videos'[c].digest = videos[c].digest
        /\ videos'[c].stage_write # "done"
        /\ UNCHANGED vault /\ ~RunReset
    BY <1>1, <1>2, <1>11 DEF RunWriteDeferred, RunWriteFailed, RunReset, Row
  <2>. QED
    BY <1>1, <1>3, <1>5, <2>1, FailingWithdraws
<1>12. CASE RunS2Begin \/ RunS2Skip \/ RunParked \/ RunAcquireFailed
            \/ RunS4Begin \/ RunSummarizeDeferred \/ RunSummarizeFailed
            \/ RunS5Begin \/ RunPublished
  <2>1. SameFor(c) /\ UNCHANGED vault
    BY <1>1, <1>2, <1>12
    DEF RunS2Begin, RunS2Skip, RunParked, RunAcquireFailed, RunS4Begin,
        RunSummarizeDeferred, RunSummarizeFailed, RunS5Begin, RunPublished,
        SameFor, Row
  <2>2. ~RunReset
    BY <1>12
    DEF RunS2Begin, RunS2Skip, RunParked, RunAcquireFailed, RunS4Begin,
        RunSummarizeDeferred, RunSummarizeFailed, RunS5Begin, RunPublished, RunReset
  <2>. QED
    BY <1>6, <2>1, <2>2
<1>13. CASE RunFetchPage \/ RunNeedsASR \/ RunWorkerUp \/ RunS4Skip
            \/ RunS5Skip \/ RunNotified
  <2>1. SameFor(c) /\ UNCHANGED vault /\ ~RunReset
    BY <1>13
    DEF RunFetchPage, RunNeedsASR, RunWorkerUp, RunS4Skip, RunS5Skip,
        RunNotified, RunReset, SameFor
  <2>. QED
    BY <1>6, <2>1
<1>. QED
  BY <1>4, <1>7, <1>8, <1>9, <1>10, <1>11, <1>12, <1>13 DEF RunMove

(* Between two jobs: a pass takes a job up, or a job ends.                  *)
LEMMA RunTurnImplements ==
    ASSUME Solid,
           \/ RunPass \/ RunPassEnds \/ RunNext
           \/ RunFinish \/ RunCrashed \/ RunCrashNotified
    PROVE  Promised
<1>. USE DEF Solid
<1>1. UNCHANGED <<videos, vault>>
  BY DEF RunPass, RunPassEnds, RunNext, RunFinish, RunCrashed, RunCrashNotified
<1>2. SameVideos /\ UNCHANGED vault
  BY <1>1, RowsStay DEF SameFor
<1>3. jobs \in [Job -> JobRow] /\ \A k \in Job : jobs[k].status # "started"
  BY DEF Typed, TypeOK, JobRow
<1>4. CASE RunPass \/ RunPassEnds
  <2>1. runner.pc \in {"idle", "next"} /\ UNCHANGED jobs
    BY <1>4 DEF RunPass, RunPassEnds
  <2>2. runner'.pc \in {"idle", "next"}
    <3>1. CASE RunPass
      BY <3>1 DEF RunPass, IdleRunner
    <3>2. CASE RunPassEnds
      BY <3>2 DEF RunPassEnds, IdleRunner
    <3>. QED
      BY <1>4, <3>1, <3>2
  <2>3. SameJobs
    BY <2>1, <2>2 DEF SameJobs, Requests, States, StateOf, Live
  <2>. QED
    BY <1>2, <2>3, Stutters
<1>5. CASE RunCrashNotified
  <2>1. /\ runner.pc = "crashed" /\ runner'.pc = "next"
        /\ UNCHANGED jobs
        /\ ~Live(runner.job)
    BY <1>5
    DEF RunCrashNotified, Goto, Typed, TypeOK, RunnerState, Booked, Live
  <2>2. SameJobs
    BY <2>1 DEF SameJobs, Requests, States, StateOf, Live
  <2>. QED
    BY <1>2, <2>2, Stutters
<1>6. CASE RunNext
  <2>1. PICK j \in Job :
          /\ j \in runner.todo
          /\ jobs' = [jobs EXCEPT ![j].status = "running"]
          /\ runner' = [IdleRunner EXCEPT
                          !.pc = IF jobs[j].force THEN "reset" ELSE "s2",
                          !.todo = runner.todo \ {j}, !.job = j]
    BY <1>6, RunNextTakes
  <2>2. Live(j) /\ runner.pc = "next"
    BY <1>6, <2>1 DEF RunNext, Booked
  <2>3. /\ runner'.job = j
        /\ runner'.pc = IF jobs[j].force THEN "reset" ELSE "s2"
    BY <2>1 DEF IdleRunner
  <2>4. /\ jobs'[j].status = "running"
        /\ \A k \in Job : /\ k # j => jobs'[k] = jobs[k]
                          /\ jobs'[k].video = jobs[k].video
                          /\ jobs'[k].force = jobs[k].force
    BY <1>3, <2>1 DEF JobRow
  <2>5. Requests' = Requests
    BY <2>4 DEF Requests
  <2>6. \A k \in Job : k # j => StateOf(k)' = StateOf(k)
    BY <2>2, <2>3, <2>4 DEF StateOf, Live
  <2>7. StateOf(j) = "live" /\ \A k \in Job : StateOf(k) # "started"
    BY <1>3, <2>2 DEF StateOf
  <2>8. CASE jobs[j].force
    <3>1. StateOf(j)' = "live"
      BY <2>3, <2>4, <2>8 DEF StateOf, Live
    <3>2. SameJobs
      BY <2>5, <2>6, <2>7, <3>1 DEF SameJobs, States
    <3>. QED
      BY <1>2, <3>2, Stutters
  <2>9. CASE ~jobs[j].force
    <3>1. StateOf(j)' = "started"
      BY <2>3, <2>4, <2>9 DEF StateOf, Live
    <3>2. States' = [States EXCEPT ![j] = "started"]
      BY <2>6, <3>1, OneState
    <3>3. /\ States[j] = "live" /\ \A k \in Job : States[k] # "started"
          /\ ~Requests[j].force
      BY <2>7, <2>9 DEF States, Requests
    <3>4. Promise!Start(j)
      BY <1>2, <2>5, <3>2, <3>3 DEF Promise!Start, SameVideos
    <3>. QED
      BY <3>4 DEF Promised, Promise!DigestsNext
  <2>. QED
    BY <2>8, <2>9
<1>7. CASE RunFinish \/ RunCrashed
  <2>1. PICK i \in Job : i = runner.job
    BY <1>7 DEF RunFinish, RunCrashed, Typed, Refs
  <2>2. Live(i)
    BY <1>7, <2>1 DEF RunFinish, RunCrashed, Booked, Live
  <2>3. runner'.pc \in {"next", "crashed"}
    <3>1. CASE RunFinish
      BY <3>1 DEF RunFinish, IdleRunner
    <3>2. CASE RunCrashed
      BY <3>2 DEF RunCrashed, Goto, Typed, TypeOK, RunnerState
    <3>. QED
      BY <1>7, <3>1, <3>2
  <2>4. PICK s \in {"queued", "done", "failed"} :
          /\ SetStatus(i, s)
          /\ RunFinish => s = StatusAfter(runner.outcome)
          /\ RunCrashed => s = "failed"
    <3>1. CASE RunFinish
      <4>1. ~RunCrashed
        BY <3>1 DEF RunFinish, RunCrashed
      <4>. QED
        BY <2>1, <3>1, <4>1 DEF RunFinish, StatusAfter
    <3>2. CASE RunCrashed
      <4>1. ~RunFinish
        BY <3>2 DEF RunFinish, RunCrashed
      <4>. QED
        BY <2>1, <3>2, <4>1 DEF RunCrashed
    <3>. QED
      BY <1>7, <3>1, <3>2
  <2>5. /\ jobs'[i].status = s
        /\ \A k \in Job : /\ k # i => jobs'[k] = jobs[k]
                          /\ jobs'[k].video = jobs[k].video
                          /\ jobs'[k].force = jobs[k].force
    BY <1>3, <2>4 DEF SetStatus, JobRow
  <2>6. Requests' = Requests
    BY <2>5 DEF Requests
  <2>7. \A k \in Job : k # i => StateOf(k)' = StateOf(k)
    <3>1. \A k \in Job : k # i => StateOf(k) # "started"
      BY <1>3, <2>1 DEF StateOf
    <3>2. ASSUME NEW k \in Job, k # i PROVE StateOf(k)' = StateOf(k)
      <4>1. CASE runner'.pc = "next"
        BY <2>1, <2>5, <3>2, <4>1 DEF StateOf, Live
      <4>2. CASE runner'.pc = "crashed"
        <5>1. runner'.job = i
          BY <1>7, <2>1, <4>2
          DEF RunFinish, RunCrashed, IdleRunner, Goto, Typed, TypeOK, RunnerState
        <5>. QED
          BY <2>1, <2>5, <3>2, <5>1 DEF StateOf, Live
      <4>. QED
        BY <2>3, <4>1, <4>2
    <3>. QED
      BY <3>2
  <2>8. StateOf(i) \in {"live", "started"}
    BY <2>2 DEF StateOf
  <2>9. RunFinish => StateOf(i) = "started"
    BY <2>1, <2>2 DEF RunFinish, StateOf
  <2>10. CASE s = "queued"
    <3>1. RunFinish
      BY <1>7, <2>4, <2>10
    <3>2. StateOf(i)' = "live"
      <4>1. runner'.pc = "next"
        BY <3>1 DEF RunFinish, IdleRunner
      <4>. QED
        BY <2>5, <2>10, <4>1 DEF StateOf, Live
    <3>3. States[i] = "started" /\ States' = [States EXCEPT ![i] = "live"]
      BY <2>7, <2>9, <3>1, <3>2, OneState DEF States
    <3>4. Promise!Stop(i)
      BY <1>2, <2>6, <3>3 DEF Promise!Stop, SameVideos
    <3>. QED
      BY <3>4 DEF Promised, Promise!DigestsNext
  <2>11. CASE s = "failed"
    <3>1. StateOf(i)' = "failed"
      BY <2>5, <2>11 DEF StateOf, Live
    <3>2. /\ States[i] \in {"live", "started"}
          /\ States' = [States EXCEPT ![i] = "failed"]
      BY <2>7, <2>8, <3>1, OneState DEF States
    <3>3. Promise!GiveUp(i)
      BY <1>2, <2>6, <3>2 DEF Promise!GiveUp, SameVideos
    <3>. QED
      BY <3>3 DEF Promised, Promise!DigestsNext
  <2>12. CASE s = "done"
    <3>1. RunFinish /\ runner.outcome = "done" /\ Current \in Video
      BY <1>7, <2>4, <2>12, CurrentIsVideo DEF StatusAfter, RunFinish
    <3>2. videos[Current].stage_write = "done" /\ jobs[i].video = Current
      BY <2>1, <3>1 DEF RunFinish, ExportSound, WriterKnows, Current
    <3>3. Requests[i].video \in InExport
      BY <3>1, <3>2 DEF Requests, InExport
    <3>4. StateOf(i)' = "done"
      BY <2>5, <2>12 DEF StateOf, Live
    <3>5. States[i] = "started" /\ States' = [States EXCEPT ![i] = "done"]
      BY <2>7, <2>9, <3>1, <3>4, OneState DEF States
    <3>6. Promise!Finish(i)
      BY <1>2, <2>6, <3>3, <3>5 DEF Promise!Finish, SameVideos
    <3>. QED
      BY <3>6 DEF Promised, Promise!DigestsNext
  <2>. QED
    BY <2>10, <2>11, <2>12
<1>. QED
  BY <1>4, <1>5, <1>6, <1>7

(* What the drain transcribes is parked, so that somebody waits for it.     *)
LEMMA DrainStepImplements == ASSUME Solid, DrainStep PROVE Promised
<1>. USE DEF Solid
<1>1. UNCHANGED <<jobs, vault, runner>>
  BY DEF DrainStep, DrainPass, DrainWorkerUp, DrainTranscribed, DrainAborts,
     DrainOnly
<1>2. SameJobs
  BY <1>1, JobsStay
<1>3. CASE \A w \in Video : Aside(w)
  <2>1. SameVideos
    BY <1>3, AsideSame, RowsStay
  <2>. QED
    BY <1>1, <1>2, <2>1, Stutters
<1>4. CASE /\ DrainTranscribed
           /\ drain.video \in Video
           /\ \A w \in Video : w # drain.video => Aside(w)
           /\ videos'[drain.video] =
                Transcribed(drain.video, videos[drain.video].stage_normalize)
  <2>. DEFINE v == drain.video
  <2>1. /\ v \in Video /\ videos[v] \in Row /\ Sound(videos[v]) /\ v \in Parked
    BY <1>4
    DEF DrainTranscribed, Typed, TypeOK, Checkpointed, Exclusive, Rank, Parked
  <2>2. videos[v].transcript_json = None
    BY <2>1 DEF Sound, Parked
  <2>3. /\ videos'[v].transcript_json = Fresh(v)
        /\ videos'[v].digest = videos[v].digest
        /\ videos'[v].stage_write = videos[v].stage_write
    BY <1>4, <2>1 DEF Transcribed, Row
  <2>4. Promise!Wanted(v)
    BY <2>1, LiveIsWanted DEF ParkedHasLiveJob
  <2>5. CanName(v) /\ \A w \in Video : w # v => SameFor(w)
    BY <1>4, AsideSame DEF DrainTranscribed
  <2>6. Promise!Transcribe(v)
    BY <1>1, <1>2, <2>1, <2>2, <2>3, <2>4, <2>5, LandingTranscribes
  <2>. QED
    BY <2>1, <2>6 DEF Promised, Promise!DigestsNext
<1>. QED
  BY <1>3, <1>4, DrainStepAside

(* A rewrite writes the row's own digest again.                             *)
LEMMA RewriteStepImplements ==
    ASSUME Solid, RewriteStep
    PROVE  Promised
<1>. USE DEF Solid
<1>1. UNCHANGED <<jobs, runner>> /\ SameJobs
  BY JobsStay
  DEF RewriteStep, RewriteBegin, RewriteProject, RewritePublished, RewriteDone,
      RewriteFailed, RewriterOnly
<1>2. /\ videos \in [Video -> Row]
      /\ vault \in [Video -> Version \cup {None}]
  BY DEF Typed, TypeOK
<1>3. ASSUME UNCHANGED <<videos, vault>> PROVE Promised
  BY <1>1, <1>3, RowsStay, Stutters DEF SameFor
<1>4. ASSUME NEW r \in Rewriter, rewriter[r].pc # "idle"
      PROVE  LET v == rewriter[r].video IN
             /\ v \in Video /\ rewriter[r].digest = videos[v].digest
             /\ videos[v].digest # None
             /\ rewriter[r].pc = "mark" => vault[v] = videos[v].digest
  BY <1>4 DEF ExportSound, RewriterKnows, Checkpointed, Sound
<1>5. ASSUME NEW r \in Rewriter, RewriteProject(r) PROVE Promised
  <2>1. PICK v \in Video : v = rewriter[r].video
    BY <1>4, <1>5 DEF RewriteProject
  <2>2. videos[v].digest # None /\ DigestsOf[v] = rewriter[r].digest
    BY <1>4, <1>5, <2>1 DEF RewriteProject, DigestsOf
  <2>3. vault' = [vault EXCEPT ![v] = DigestsOf[v]] /\ UNCHANGED videos
    BY <1>5, <2>1, <2>2 DEF RewriteProject
  <2>4. SameVideos /\ DigestsOf[v] # None
    BY <2>2, <2>3, RowsStay DEF SameFor, DigestsOf
  <2>. QED
    BY <1>1, <1>2, <2>3, <2>4, ProjectingWrites
<1>6. ASSUME NEW r \in Rewriter, RewritePublished(r) PROVE Promised
  <2>1. \A w \in Video : SameFor(w)
    BY <1>2, <1>6 DEF RewritePublished, SameFor, Row
  <2>2. UNCHANGED vault
    BY <1>6 DEF RewritePublished
  <2>. QED
    BY <1>1, <2>1, <2>2, RowsStay, Stutters
<1>7. ASSUME NEW r \in Rewriter, RewriteDone(r) PROVE Promised
  <2>1. PICK v \in Video : v = rewriter[r].video
    BY <1>4, <1>7 DEF RewriteDone
  <2>2. videos[v].digest # None /\ vault[v] = videos[v].digest
    BY <1>4, <1>7, <2>1 DEF RewriteDone
  <2>3. /\ videos' = [videos EXCEPT ![v].stage_write = "done"]
        /\ UNCHANGED vault
    BY <1>7, <2>1 DEF RewriteDone
  <2>4. /\ videos'[v].transcript_json = videos[v].transcript_json
        /\ videos'[v].digest = videos[v].digest
        /\ videos'[v].stage_write = "done"
        /\ \A w \in Video : w # v => SameFor(w)
    BY <1>2, <2>3 DEF Row, SameFor
  <2>. QED
    BY <1>1, <2>2, <2>3, <2>4, MarkingExports
<1>. QED
  BY <1>3, <1>5, <1>6, <1>7 DEF RewriteStep, RewriteBegin, RewriteFailed

(* A kill stops the job in hand.                                            *)
LEMMA CrashImplements == ASSUME Solid, Crash PROVE Promised
<1>. USE DEF Solid
<1>1. /\ UNCHANGED <<videos, jobs, vault>>
      /\ runner'.pc = "idle"
  BY DEF Crash, IdleRunner
<1>2. SameVideos /\ Requests' = Requests
  BY <1>1, RowsStay DEF SameFor, Requests
<1>3. CASE runner.pc \in {"idle", "next", "reset", "crashed"}
  <2>1. runner.pc = "crashed" => ~Live(runner.job)
    BY DEF Booked, Live
  <2>2. \A k \in Job : StateOf(k)' = StateOf(k)
    BY <1>1, <1>3, <2>1 DEF StateOf, Live
  <2>3. SameJobs
    BY <1>2, <2>2 DEF SameJobs, States
  <2>. QED
    BY <1>1, <1>2, <2>3, Stutters
<1>4. CASE runner.pc \notin {"idle", "next", "reset", "crashed"}
  <2>1. PICK i \in Job : i = runner.job
    BY <1>4 DEF Typed, Refs
  <2>2. States[i] = "started" /\ Live(i)
    BY <1>4, <2>1, StartedIsInHand DEF Booked, Live
  <2>3. /\ StateOf(i)' = "live"
        /\ \A k \in Job : k # i => StateOf(k)' = StateOf(k)
    BY <1>1, <2>1, <2>2 DEF StateOf, Live
  <2>4. States' = [States EXCEPT ![i] = "live"]
    BY <2>3, OneState
  <2>5. Promise!Stop(i)
    BY <1>1, <1>2, <2>2, <2>4 DEF Promise!Stop, SameVideos
  <2>. QED
    BY <2>5 DEF Promised, Promise!DigestsNext
<1>. QED
  BY <1>3, <1>4

(* A row answers a request without force, so that a job is the first one.   *)
LEMMA RequestImplements == ASSUME Solid, Request PROVE Promised
<1>. USE DEF Solid
<1>1. UNCHANGED <<vault, runner>> /\ SameVideos
  BY RequestAside, AsideSame, RowsStay DEF Request, Enqueue, Reject
<1>2. ASSUME NEW v \in Video, Reject(v) PROVE Promised
  <2>1. SameJobs
    BY <1>2, JobsStay DEF Reject
  <2>. QED
    BY <1>1, <2>1, Stutters
<1>3. ASSUME NEW v \in Video, NEW f \in BOOLEAN, Enqueue(v, f) PROVE Promised
  <2>1. PICK i \in Job :
          /\ jobs[i].status = "none"
          /\ jobs' = [jobs EXCEPT ![i] = [video |-> v, force |-> f,
                                          status |-> "queued"]]
    BY <1>3 DEF Enqueue, AddJob
  <2>2. jobs \in [Job -> JobRow] /\ runner \in RunnerState
    BY DEF Typed, TypeOK
  <2>3. /\ jobs'[i] = [video |-> v, force |-> f, status |-> "queued"]
        /\ \A k \in Job : k # i => jobs'[k] = jobs[k]
    BY <2>1, <2>2
  <2>4. runner.pc \in {"idle", "next"} \/ runner.job # i
    BY <2>1 DEF Typed, Refs
  <2>5. /\ StateOf(i)' = "live"
        /\ \A k \in Job : k # i => StateOf(k)' = StateOf(k)
    BY <1>1, <2>3, <2>4 DEF StateOf, Live
  <2>6. States[i] = "none" /\ States' = [States EXCEPT ![i] = "live"]
    <3>1. States[i] = "none"
      BY <2>1 DEF States, StateOf, Live
    <3>. QED
      BY <2>5, <3>1, OneState
  <2>7. Requests' = [Requests EXCEPT ![i] = [video |-> v, force |-> f]]
    <3>. DEFINE asked(k) == [video |-> jobs[k].video, force |-> jobs[k].force]
    <3>1. asked(i)' = [video |-> v, force |-> f]
      BY <2>3
    <3>2. \A k \in Job : k # i => asked(k)' = asked(k)
      BY <2>3
    <3>3. Requests' = [k \in Job |-> asked(k)'] /\ Requests = [k \in Job |-> asked(k)]
      BY DEF Requests
    <3>. HIDE DEF asked
    <3>4. \A k \in Job :
            Requests'[k] = [Requests EXCEPT ![i] = [video |-> v, force |-> f]][k]
      BY <3>1, <3>2, <3>3
    <3>. QED
      BY <3>3, <3>4
  <2>8. f \/ \A k \in Job : Requests[k].video # v
    <3>1. ASSUME ~f, NEW k \in Job, jobs[k].video = v PROVE FALSE
      <4>1. videos[v].metadata = "absent"
        BY <1>3, <3>1 DEF Enqueue
      <4>2. jobs[k].status = "none" /\ jobs[k].video = None
        BY <3>1, <4>1 DEF Answered
      <4>. QED
        BY <3>1, <4>2, PipelineAssumption
    <3>. QED
      BY <3>1 DEF Requests
  <2>9. Promise!Ask(i)
    BY <1>1, <2>6, <2>7, <2>8 DEF Promise!Ask, SameVideos
  <2>. QED
    BY <2>9 DEF Promised, Promise!DigestsNext
<1>. QED
  BY <1>2, <1>3 DEF Request

LEMMA NextImplements == Solid /\ [Next]_vars => Promised
<1>1. ASSUME UNCHANGED vars PROVE Promised
  <2>1. UNCHANGED <<videos, jobs, vault, runner>>
    BY <1>1 DEF vars
  <2>. QED
    BY <2>1, RowsStay, JobsStay, Stutters DEF SameFor
<1>. QED
  BY <1>1, RunMoveImplements, RunTurnImplements, DrainStepImplements,
     RewriteStepImplements, CrashImplements, RequestImplements
  DEF Next, Step, RunnerStep, RunMove

LEMMA InitImplements == Init => Promise!DigestsInit
<1>. SUFFICES ASSUME Init PROVE Promise!DigestsInit
  OBVIOUS
<1>1. Requests = [j \in Job |-> [video |-> None, force |-> FALSE]]
  BY DEF Init, Requests
<1>2. States = [j \in Job |-> "none"]
  BY DEF Init, States, StateOf, Live
<1>3. /\ Transcripts = [v \in Video |-> None]
      /\ DigestsOf = [v \in Video |-> None]
      /\ InExport = {}
  BY DEF Init, NoRow, Transcripts, DigestsOf, InExport
<1>. QED
  BY <1>1, <1>2, <1>3 DEF Init, Promise!DigestsInit

(* Stages and checkpoints, parking and the drain, rewrites, failures and    *)
(* kills amount to what Digests promises to somebody who asks for a video,  *)
(* for any of them, as long as forced runs and rewrites do not meet.        *)
THEOREM PipelineImplements ==
    ASSUME Rewriter = {} \/ ForceVideo = {}
    PROVE  Spec => ImplementsDigests
<1>1. Solid /\ [Next]_vars => Solid'
  BY NextSolid
<1>2. Init => Solid
  <2>1. Init => ParkedHasLiveJob
    BY DEF Init, ParkedHasLiveJob, Parked, NoRow
  <2>. QED
    BY <2>1, InitTyped, InitExclusive, InitBooked, InitCheckpointed,
       InitExported, InitAnswered DEF Solid
<1>3. Solid /\ [Next]_vars => [Promise!DigestsNext]_(Promise!digestsVars)
  BY NextImplements DEF Promised
<1>4. Spec => Promise!DigestsInit /\ [][Promise!DigestsNext]_(Promise!digestsVars)
  BY <1>1, <1>2, <1>3, InitImplements, PTL DEF Spec
<1>. QED
  BY <1>4 DEF ImplementsDigests, Promise!DigestsSpec
=============================================================================
