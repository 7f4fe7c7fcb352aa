------------------------------ MODULE Pipeline ------------------------------
(***************************************************************************)
(* The job pipeline of video-digest: the `videos` and `jobs` tables, the   *)
(* vault's digest notes, and the four activities that share them on one    *)
(* asyncio event loop:                                                     *)
(*   - POST /jobs and the inbox, which enqueue  (pipeline/resolve.py);     *)
(*   - the runner, S2..S5 of one job at a time  (pipeline/runner.py);      *)
(*   - the ASR drain, which transcribes parked videos (asr_drain.py);      *)
(*   - POST /videos/{id}/rewrite, any number at once (runner.py).          *)
(*                                                                         *)
(* One step of the model is one database commit with the code around it    *)
(* up to the next commit or the next `await`.  The event loop is           *)
(* cooperative, so an activity that sits at an await lets every other one  *)
(* run, while one that is between two commits without an await lets nobody *)
(* run (LoopFree) -- but the process may be killed there (Crash).          *)
(***************************************************************************)
EXTENDS Naturals, FiniteSets

CONSTANTS
    Video,        \* rows the service may hold
    MaxJobs,      \* BOUND: rows the jobs table ever gets
    Batch,        \* _DEFAULT_BATCH, the jobs one runner pass advances
    Version,      \* BOUND: names of transcripts (see Fresh)
    Rewriter,     \* BOUND: rewrite requests in flight at once
    ForceVideo,   \* videos that get force=true requests
    Rejectable,   \* videos whose source may come to reject them
    Wired,        \* videos of the wired adapter: their page is the transcript
    Poison,       \* videos with no captions whose transcription never succeeds
    Stuck,        \* videos whose summary every endpoint refuses
    None

Job == 1 .. MaxJobs

ASSUME PipelineAssumption ==
    /\ IsFiniteSet(Video)
    /\ MaxJobs \in Nat
    /\ Batch \in Nat \ {0}
    /\ ForceVideo \subseteq Video
    /\ Wired \subseteq Video
    /\ None \notin Video \cup Version \cup Job

VARIABLES
    videos,    \* the videos table
    jobs,      \* the jobs table; ids in the order of created_at
    vault,     \* which transcript the digest note in the vault was made from
    runner,    \* run_due_jobs / run_job, its locals
    drain,     \* drain_pending_asr, its locals
    rewriter,  \* the rewrite requests in flight
    requeued   \* history: jobs that ran and went back to the queue

vars == <<videos, jobs, vault, runner, drain, rewriter, requeued>>

-----------------------------------------------------------------------------
(* Types.                                                                   *)

Stage == {"pending", "running", "done", "failed"}

(* A row.  metadata = "absent" says that there is no row.  transcript_json, *)
(* digest and the note carry the name of the transcript they come from;     *)
(* asr_queued_at and written_at are the rank of the time stamp, 0 for NULL. *)
Row == [metadata         : {"absent", "done", "failed"},
        stage_transcript : Stage,
        stage_normalize  : Stage,
        stage_summarize  : Stage,
        stage_write      : Stage,
        transcript_json  : Version \cup {None},
        digest           : Version \cup {None},
        asr_queued_at    : Nat,
        written_at       : Nat]

JobRow == [video  : Video \cup {None},
           force  : BOOLEAN,
           status : {"none", "queued", "running", "done", "failed"}]

(* Where the runner is: at an await ...                                     *)
RunnerAwait == {"idle", "page", "probe", "asr", "summarize", "write",
                "published", "notify", "crashed"}
(* ... or between two commits with no await in between.                     *)
RunnerSync  == {"next", "reset", "s2", "ladder", "s4", "s5", "mark", "finish"}

(* Inside run_job.                                                          *)
AtWork == (RunnerAwait \cup RunnerSync)
          \ {"idle", "next", "notify", "crashed", "finish"}

Outcome == {"none", "done", "parked", "deferred", "failed"}

RunnerState == [pc      : RunnerAwait \cup RunnerSync,
                todo    : SUBSET Job,               \* the rest of this pass
                job     : Job \cup {None},          \* the job in hand
                text    : Version \cup {None},      \* the digest S4/S5 works on
                outcome : Outcome]

DrainState == [pc    : {"idle", "probe", "asr"},
               todo  : SUBSET Video,                \* the rest of this pass
               video : Video \cup {None}]

RewriterState == [pc     : {"idle", "write", "published", "mark"},
                  video  : Video \cup {None},
                  digest : Version \cup {None}]

TypeOK ==
    /\ videos \in [Video -> Row]
    /\ jobs \in [Job -> JobRow]
    /\ vault \in [Video -> Version \cup {None}]
    /\ runner \in RunnerState
    /\ drain \in DrainState
    /\ rewriter \in [Rewriter -> RewriterState]
    /\ requeued \subseteq Job

-----------------------------------------------------------------------------
(* Helpers.                                                                 *)

NoRow == [metadata |-> "absent", stage_transcript |-> "pending",
          stage_normalize |-> "pending", stage_summarize |-> "pending",
          stage_write |-> "pending", transcript_json |-> None,
          digest |-> None, asr_queued_at |-> 0, written_at |-> 0]

IdleRunner   == [pc |-> "idle", todo |-> {}, job |-> None, text |-> None,
                 outcome |-> "none"]
IdleDrain    == [pc |-> "idle", todo |-> {}, video |-> None]
IdleRewriter == [pc |-> "idle", video |-> None, digest |-> None]

(* No activity is between two commits: the others may run.                  *)
LoopFree == /\ runner.pc \in RunnerAwait
            /\ \A r \in Rewriter : rewriter[r].pc # "mark"

(* Mutants: an orphan is not picked up again, a failed job is.              *)
LiveQueuedOnly(j) == jobs[j].status = "queued"
LiveOrFailed(j) == jobs[j].status \in {"queued", "running", "failed"}

Live(j) == jobs[j].status \in {"queued", "running"}

(* The video of the job that the runner is advancing.                       *)
Current == jobs[runner.job].video

Parked == {v \in Video : videos[v].asr_queued_at # 0}

(* The ranks of asr_queued_at stay 1..n: a row that leaves the queue moves  *)
(* the younger ones down.  Only the order of the time stamps matters.       *)
Put(v, row) ==
    LET old == videos[v].asr_queued_at
        left == old # 0 /\ row.asr_queued_at = 0
    IN  [w \in Video |->
            IF w = v THEN row
            ELSE IF left /\ videos[w].asr_queued_at > old
            THEN [videos[w] EXCEPT !.asr_queued_at = @ - 1]
            ELSE videos[w]]

(* Mutant: the time stamp is renewed by every write.                        *)
WrittenNow(v) == 1 + Cardinality({w \in Video : videos[w].written_at # 0})

(* COALESCE(written_at, now): the first write stamps, a later one does not. *)
WrittenAt(v) ==
    IF videos[v].written_at # 0 THEN videos[v].written_at
    ELSE 1 + Cardinality({w \in Video : videos[w].written_at # 0})

(* A name nothing still holds for v: the transcript just acquired differs   *)
(* from the ones the row, the note and the activities in flight come from.  *)
Held(v) == {videos[v].transcript_json, videos[v].digest, vault[v]}
           \cup {rewriter[r].digest : r \in {q \in Rewriter : rewriter[q].video = v}}
Fresh(v) == CHOOSE n \in Version : n \notin Held(v)
CanName(v) == Version \ Held(v) # {}

(* The row with a transcript acquired now, as both S2 and the drain store it. *)
Transcribed(v, normalize) ==
    [videos[v] EXCEPT !.stage_transcript = "done",
                      !.stage_normalize = normalize,
                      !.transcript_json = Fresh(v),
                      !.asr_queued_at = 0]

-----------------------------------------------------------------------------
(* Ingress: pipeline/resolve.py, called by POST /jobs and by the inbox.     *)

AddJob(v, force) ==
    \E j \in Job :
        /\ jobs[j].status = "none"
        /\ \A k \in Job : k < j => jobs[k].status # "none"
        /\ jobs' = [jobs EXCEPT ![j] = [video |-> v, force |-> force,
                                        status |-> "queued"]]

(* Mutant: only a finished video answers a request without force.           *)
EnqueueAgain(v, force) ==
    /\ LoopFree
    /\ force \/ videos[v].stage_write # "done"
    /\ videos' = [videos EXCEPT ![v].metadata = "done"]
    /\ AddJob(v, force)
    /\ UNCHANGED <<vault, runner, drain, rewriter, requeued>>

(* A request the source accepts: the row is upserted and a job added in one *)
(* commit.  Without force an existing row answers the request instead.      *)
Enqueue(v, force) ==
    /\ LoopFree
    /\ force \/ videos[v].metadata = "absent"
    /\ videos' = [videos EXCEPT ![v].metadata = "done"]
    /\ AddJob(v, force)
    /\ UNCHANGED <<vault, runner, drain, rewriter, requeued>>

(* A request the source rejects: only the metadata stage is recorded. A URL *)
(* that carries no id (a playlist's entries) is fetched before the existing *)
(* row is looked up, so a finished video may be rejected too.               *)
Reject(v) ==
    /\ v \in Rejectable
    /\ LoopFree
    /\ videos[v].metadata # "failed"
    /\ videos' = [videos EXCEPT ![v].metadata = "failed"]
    /\ UNCHANGED <<jobs, vault, runner, drain, rewriter, requeued>>

-----------------------------------------------------------------------------
(* The runner: run_due_jobs.                                                *)

(* Mutant: the query forgets asr_queued_at IS NULL.                         *)
DueOrParked == {j \in Job : Live(j)}

Due == {j \in Job : Live(j) /\ videos[jobs[j].video].asr_queued_at = 0}

(* The oldest due job of each video, the first Batch of them.               *)
OldestPerVideo ==
    {j \in Due : \A k \in Due : jobs[k].video = jobs[j].video => j <= k}
Queue == {j \in OldestPerVideo :
            Cardinality({k \in OldestPerVideo : k < j}) < Batch}

RunPass ==
    /\ LoopFree
    /\ runner.pc = "idle"
    /\ Due # {}
    /\ runner' = [IdleRunner EXCEPT !.pc = "next", !.todo = Queue]
    /\ UNCHANGED <<videos, jobs, vault, drain, rewriter, requeued>>

SetStatus(j, s) == jobs' = [jobs EXCEPT ![j].status = s]

(* Mutant: a forced job that has run before goes on where it was.           *)
RunNextResumes ==
    /\ runner.pc = "next"
    /\ \E j \in runner.todo :
        /\ \A k \in runner.todo : j <= k
        /\ SetStatus(j, "running")
        /\ runner' = [IdleRunner EXCEPT
                        !.pc = IF jobs[j].force /\ j \notin requeued
                               THEN "reset" ELSE "s2",
                        !.todo = runner.todo \ {j}, !.job = j]
    /\ UNCHANGED <<videos, vault, drain, rewriter, requeued>>

RunNext ==
    /\ runner.pc = "next"
    /\ \E j \in runner.todo :
        /\ \A k \in runner.todo : j <= k
        /\ SetStatus(j, "running")
        /\ runner' = [IdleRunner EXCEPT
                        !.pc = IF jobs[j].force THEN "reset" ELSE "s2",
                        !.todo = runner.todo \ {j}, !.job = j]
    /\ UNCHANGED <<videos, vault, drain, rewriter, requeued>>

RunPassEnds ==
    /\ runner.pc = "next"
    /\ runner.todo = {}
    /\ runner' = IdleRunner
    /\ UNCHANGED <<videos, jobs, vault, drain, rewriter, requeued>>

-----------------------------------------------------------------------------
(* The runner: run_job, from whatever the row's checkpoints left to do.     *)

Goto(pc) == runner' = [runner EXCEPT !.pc = pc]
Return(outcome) == runner' = [runner EXCEPT !.pc = "finish", !.outcome = outcome]

RunnerOnly == UNCHANGED <<drain, rewriter, requeued>>

(* Mutant: the reset forgets one of its columns.                            *)
ResetKeepsSummarize(v) ==
    [videos[v] EXCEPT !.stage_transcript = "pending",
                      !.stage_normalize = "pending",
                      !.stage_write = "pending",
                      !.transcript_json = None,
                      !.digest = None,
                      !.asr_queued_at = 0]
(* force=true: every stage again, written_at and the note stay.             *)
ResetRow(v) ==
    [videos[v] EXCEPT !.stage_transcript = "pending",
                      !.stage_normalize = "pending",
                      !.stage_summarize = "pending",
                      !.stage_write = "pending",
                      !.transcript_json = None,
                      !.digest = None,
                      !.asr_queued_at = 0]

RunReset ==
    /\ runner.pc = "reset"
    /\ videos' = Put(Current, ResetRow(Current))
    /\ Goto("s2")
    /\ UNCHANGED <<jobs, vault>> /\ RunnerOnly

(* S2 is to do: mark it running and acquire.                                *)
RunS2Begin ==
    /\ runner.pc = "s2"
    /\ videos[Current].stage_transcript # "done"
    /\ videos' = [videos EXCEPT ![Current].stage_transcript = "running"]
    /\ Goto("ladder")
    /\ UNCHANGED <<jobs, vault>> /\ RunnerOnly

(* The transcript is there: S3 is all that is left of the drain's work.     *)
RunS2Skip ==
    /\ runner.pc = "s2"
    /\ videos[Current].stage_transcript = "done"
    /\ videos' = [videos EXCEPT ![Current].stage_normalize = "done"]
    /\ Goto("s4")
    /\ UNCHANGED <<jobs, vault>> /\ RunnerOnly

(* acquire_transcript: a wired page is fetched in a thread; captions are    *)
(* looked for without an await (and skipped with force_asr); without any,   *)
(* the ASR worker is probed; if it answers, audio is downloaded and sent.   *)
RunFetchPage ==
    /\ runner.pc = "ladder" /\ Current \in Wired
    /\ Goto("page")
    /\ UNCHANGED <<videos, jobs, vault>> /\ RunnerOnly

RunNeedsASR ==
    /\ runner.pc = "ladder" /\ Current \notin Wired
    /\ Goto("probe")
    /\ UNCHANGED <<videos, jobs, vault>> /\ RunnerOnly

RunWorkerUp ==
    /\ LoopFree
    /\ runner.pc = "probe"
    /\ Goto("asr")
    /\ UNCHANGED <<videos, jobs, vault>> /\ RunnerOnly

(* Captions (pc = "ladder"), captions accepted under looser rules because   *)
(* the worker is down ("probe"), a transcription ("asr") or a page.         *)
RunAcquired ==
    /\ \/ runner.pc = "ladder" /\ Current \notin Wired
       \/ runner.pc \in {"page", "probe", "asr"} /\ LoopFree
    /\ Current \notin Poison
    /\ CanName(Current)
    /\ videos' = Put(Current, Transcribed(Current, "done"))
    /\ Goto("s4")
    /\ UNCHANGED <<jobs, vault>> /\ RunnerOnly

(* ParkedForASR: the worker was asleep at the probe, or failed afterwards.  *)
RunParked ==
    /\ LoopFree
    /\ runner.pc \in {"probe", "asr"}
    /\ LET rank == videos[Current].asr_queued_at IN
       videos' = [videos EXCEPT
                    ![Current].stage_transcript = "pending",
                    ![Current].asr_queued_at =
                        IF rank # 0 THEN rank ELSE 1 + Cardinality(Parked)]
    /\ Return("parked")
    /\ UNCHANGED <<jobs, vault>> /\ RunnerOnly

RunAcquireFailed ==
    /\ runner.pc = "ladder" \/ (runner.pc \in {"page", "probe", "asr"} /\ LoopFree)
    /\ videos' = [videos EXCEPT ![Current].stage_transcript = "failed"]
    /\ Goto("notify")
    /\ UNCHANGED <<jobs, vault>> /\ RunnerOnly

(* S4.                                                                      *)
RunS4Begin ==
    /\ runner.pc = "s4"
    /\ videos[Current].stage_summarize # "done"
    /\ videos' = [videos EXCEPT ![Current].stage_summarize = "running"]
    /\ runner' = [runner EXCEPT !.pc = "summarize",
                                !.text = videos[Current].transcript_json]
    /\ UNCHANGED <<jobs, vault>> /\ RunnerOnly

RunS4Skip ==
    /\ runner.pc = "s4"
    /\ videos[Current].stage_summarize = "done"
    /\ Goto("s5")
    /\ UNCHANGED <<videos, jobs, vault>> /\ RunnerOnly

RunSummarized ==
    /\ LoopFree
    /\ runner.pc = "summarize"
    /\ Current \notin Stuck
    /\ videos' = [videos EXCEPT ![Current].stage_summarize = "done",
                                ![Current].digest = runner.text]
    /\ Goto("s5")
    /\ UNCHANGED <<jobs, vault>> /\ RunnerOnly

(* LLMUnavailable is not a failure: the work waits.                         *)
RunSummarizeDeferred ==
    /\ LoopFree
    /\ runner.pc = "summarize"
    /\ videos' = [videos EXCEPT ![Current].stage_summarize = "pending"]
    /\ Return("deferred")
    /\ UNCHANGED <<jobs, vault>> /\ RunnerOnly

RunSummarizeFailed ==
    /\ LoopFree
    /\ runner.pc = "summarize"
    /\ Current \notin Stuck
    /\ videos' = [videos EXCEPT ![Current].stage_summarize = "failed"]
    /\ Goto("notify")
    /\ UNCHANGED <<jobs, vault>> /\ RunnerOnly

(* S5: the digest is read from the row, then write_video_note.              *)
RunS5Begin ==
    /\ runner.pc = "s5"
    /\ videos[Current].stage_write # "done"
    /\ videos' = [videos EXCEPT ![Current].stage_write = "running"]
    /\ runner' = [runner EXCEPT !.pc = "write", !.text = videos[Current].digest]
    /\ UNCHANGED <<jobs, vault>> /\ RunnerOnly

RunS5Skip ==
    /\ runner.pc = "s5"
    /\ videos[Current].stage_write = "done"
    /\ Return("done")
    /\ UNCHANGED <<videos, jobs, vault>> /\ RunnerOnly

(* The digest note's entry lands in the vault; the topic pages follow.      *)
RunProject ==
    /\ LoopFree
    /\ runner.pc = "write"
    /\ vault' = [vault EXCEPT ![Current] = runner.text]
    /\ Goto("published")
    /\ UNCHANGED <<videos, jobs>> /\ RunnerOnly

(* write_video_note's own commit, after the last topic page.                *)
RunPublished ==
    /\ LoopFree
    /\ runner.pc = "published"
    /\ videos' = [videos EXCEPT ![Current].written_at = WrittenAt(Current)]
    /\ Goto("mark")
    /\ UNCHANGED <<jobs, vault>> /\ RunnerOnly

RunWriteDone ==
    /\ runner.pc = "mark"
    /\ videos' = [videos EXCEPT ![Current].stage_write = "done"]
    /\ Return("done")
    /\ UNCHANGED <<jobs, vault>> /\ RunnerOnly

(* VaultUnavailable, before or after the note itself has landed.            *)
RunWriteDeferred ==
    /\ LoopFree
    /\ runner.pc \in {"write", "published"}
    /\ videos' = [videos EXCEPT ![Current].stage_write = "pending"]
    /\ Return("deferred")
    /\ UNCHANGED <<jobs, vault>> /\ RunnerOnly

RunWriteFailed ==
    /\ LoopFree
    /\ runner.pc \in {"write", "published"}
    /\ videos' = [videos EXCEPT ![Current].stage_write = "failed"]
    /\ Goto("notify")
    /\ UNCHANGED <<jobs, vault>> /\ RunnerOnly

(* A failed stage is notified before run_job returns.                       *)
RunNotified ==
    /\ LoopFree
    /\ runner.pc = "notify"
    /\ Return("failed")
    /\ UNCHANGED <<videos, jobs, vault>> /\ RunnerOnly

(* An exception run_job does not catch -- a stored transcript or digest     *)
(* that no longer validates, a commit that fails: the job fails where it    *)
(* stands, whatever stage it had marked running.                            *)
RunCrashed ==
    /\ \/ runner.pc \in {"reset", "s2", "ladder", "s4", "s5", "mark"}
       \/ runner.pc \in {"page", "probe", "asr", "summarize", "write"} /\ LoopFree
    /\ SetStatus(runner.job, "failed")
    /\ Goto("crashed")
    /\ UNCHANGED <<videos, vault>> /\ RunnerOnly

RunCrashNotified ==
    /\ LoopFree
    /\ runner.pc = "crashed"
    /\ Goto("next")
    /\ UNCHANGED <<videos, jobs, vault>> /\ RunnerOnly

(* Mutants: an outcome ends as the wrong status.                            *)
StatusIsOutcome(outcome) == outcome
StatusParkedFails(outcome) ==
    IF outcome = "parked" THEN "failed"
    ELSE IF outcome \in {"done", "failed"} THEN outcome ELSE "queued"
StatusDeferredDone(outcome) ==
    IF outcome = "deferred" THEN "done"
    ELSE IF outcome = "parked" THEN "queued" ELSE outcome
StatusStaysRunning(outcome) ==
    IF outcome \in {"done", "failed"} THEN outcome ELSE "running"

(* The outcome becomes the job's status: parked and deferred queue again.   *)
StatusAfter(outcome) ==
    IF outcome \in {"done", "failed"} THEN outcome ELSE "queued"

RunFinish ==
    /\ runner.pc = "finish"
    /\ SetStatus(runner.job, StatusAfter(runner.outcome))
    /\ requeued' = IF StatusAfter(runner.outcome) = "queued"
                   THEN requeued \cup {runner.job} ELSE requeued
    /\ runner' = [IdleRunner EXCEPT !.pc = "next", !.todo = runner.todo]
    /\ UNCHANGED <<videos, vault, drain, rewriter>>

RunnerStep ==
    \/ RunPass \/ RunNext \/ RunPassEnds \/ RunReset
    \/ RunS2Begin \/ RunS2Skip \/ RunFetchPage \/ RunNeedsASR \/ RunWorkerUp
    \/ RunAcquired \/ RunParked \/ RunAcquireFailed
    \/ RunS4Begin \/ RunS4Skip \/ RunSummarized \/ RunSummarizeDeferred
    \/ RunSummarizeFailed
    \/ RunS5Begin \/ RunS5Skip \/ RunProject \/ RunPublished \/ RunWriteDone
    \/ RunWriteDeferred \/ RunWriteFailed
    \/ RunNotified \/ RunCrashed \/ RunCrashNotified \/ RunFinish

-----------------------------------------------------------------------------
(* The ASR drain: drain_pending_asr.                                        *)

(* Take the longest parked row of the pass's snapshot, or end the pass.     *)
DrainTake(rows) ==
    IF rows = {} THEN drain' = IdleDrain
    ELSE \E v \in rows :
            /\ \A w \in rows :
                 videos[v].asr_queued_at <= videos[w].asr_queued_at
            /\ drain' = [pc |-> "probe", todo |-> rows \ {v}, video |-> v]

DrainOnly == UNCHANGED <<jobs, vault, runner, rewriter, requeued>>

(* The worker answered the first probe: snapshot the parked rows.           *)
DrainPass ==
    /\ LoopFree
    /\ drain.pc = "idle"
    /\ Parked # {}
    /\ DrainTake(Parked)
    /\ UNCHANGED videos /\ DrainOnly

(* acquire_transcript(force_asr=True) probes again before the download.     *)
DrainWorkerUp ==
    /\ LoopFree
    /\ drain.pc = "probe"
    /\ drain' = [drain EXCEPT !.pc = "asr"]
    /\ UNCHANGED videos /\ DrainOnly

(* stage_transcript alone moves; S3 is left to the runner's next pass.      *)
DrainTranscribed ==
    /\ LoopFree
    /\ drain.pc = "asr"
    /\ drain.video \notin Poison
    /\ CanName(drain.video)
    /\ videos' = Put(drain.video,
                     Transcribed(drain.video,
                                 videos[drain.video].stage_normalize))
    /\ DrainTake(drain.todo)
    /\ DrainOnly

(* ParkedForASR stops the pass; any other exception leaves it through the   *)
(* scheduler's handler.  Both leave the row parked as it was.               *)
DrainAborts ==
    /\ LoopFree
    /\ drain.pc \in {"probe", "asr"}
    /\ drain' = IdleDrain
    /\ UNCHANGED videos /\ DrainOnly

DrainStep == DrainPass \/ DrainWorkerUp \/ DrainTranscribed \/ DrainAborts

-----------------------------------------------------------------------------
(* POST /videos/{id}/rewrite: rewrite_from_stored_digest.                   *)

RewriterOnly == UNCHANGED <<jobs, runner, drain, requeued>>

(* Mutant: the check that there is a digest to render is gone.              *)
RewriteUnchecked(r, v) ==
    /\ LoopFree
    /\ rewriter[r].pc = "idle"
    /\ videos[v].metadata # "absent"
    /\ rewriter' = [rewriter EXCEPT ![r] = [pc |-> "write", video |-> v,
                                            digest |-> videos[v].digest]]
    /\ UNCHANGED <<videos, vault>> /\ RewriterOnly

RewriteBegin(r, v) ==
    /\ LoopFree
    /\ rewriter[r].pc = "idle"
    /\ videos[v].digest # None
    /\ videos[v].transcript_json # None
    /\ rewriter' = [rewriter EXCEPT ![r] = [pc |-> "write", video |-> v,
                                            digest |-> videos[v].digest]]
    /\ UNCHANGED <<videos, vault>> /\ RewriterOnly

RewriteProject(r) ==
    /\ LoopFree
    /\ rewriter[r].pc = "write"
    /\ vault' = [vault EXCEPT ![rewriter[r].video] = rewriter[r].digest]
    /\ rewriter' = [rewriter EXCEPT ![r].pc = "published"]
    /\ UNCHANGED videos /\ RewriterOnly

RewritePublished(r) ==
    /\ LoopFree
    /\ rewriter[r].pc = "published"
    /\ videos' = [videos EXCEPT ![rewriter[r].video].written_at =
                                    WrittenAt(rewriter[r].video)]
    /\ rewriter' = [rewriter EXCEPT ![r].pc = "mark"]
    /\ UNCHANGED vault /\ RewriterOnly

RewriteDone(r) ==
    /\ rewriter[r].pc = "mark"
    /\ videos' = [videos EXCEPT ![rewriter[r].video].stage_write = "done"]
    /\ rewriter' = [rewriter EXCEPT ![r] = IdleRewriter]
    /\ UNCHANGED vault /\ RewriterOnly

RewriteFailed(r) ==
    /\ LoopFree
    /\ rewriter[r].pc \in {"write", "published"}
    /\ rewriter' = [rewriter EXCEPT ![r] = IdleRewriter]
    /\ UNCHANGED <<videos, vault>> /\ RewriterOnly

RewriteStep ==
    \E r \in Rewriter :
        \/ \E v \in Video : RewriteBegin(r, v)
        \/ RewriteProject(r) \/ RewritePublished(r)
        \/ RewriteDone(r) \/ RewriteFailed(r)

-----------------------------------------------------------------------------
(* The process is killed at any point; the database and the vault stay.     *)

Crash ==
    /\ \/ runner # IdleRunner \/ drain # IdleDrain
       \/ \E r \in Rewriter : rewriter[r] # IdleRewriter
    /\ runner' = IdleRunner
    /\ drain' = IdleDrain
    /\ rewriter' = [r \in Rewriter |-> IdleRewriter]
    /\ requeued' = requeued \cup {j \in Job : jobs[j].status = "running"}
    /\ UNCHANGED <<videos, jobs, vault>>

Request ==
    \E v \in Video :
        \/ Enqueue(v, FALSE)
        \/ v \in ForceVideo /\ Enqueue(v, TRUE)
        \/ Reject(v)

Init ==
    /\ videos = [v \in Video |-> NoRow]
    /\ jobs = [j \in Job |-> [video |-> None, force |-> FALSE, status |-> "none"]]
    /\ vault = [v \in Video |-> None]
    /\ runner = IdleRunner
    /\ drain = IdleDrain
    /\ rewriter = [r \in Rewriter |-> IdleRewriter]
    /\ requeued = {}

Step == Request \/ RunnerStep \/ DrainStep \/ RewriteStep

Next == Step \/ Crash

Spec == Init /\ [][Next]_vars

-----------------------------------------------------------------------------
(* Safety.                                                                  *)

(* The runner and the drain never work on the same video: asr_queued_at,    *)
(* read once at the start of each pass, is all that keeps them apart        *)
(* (runner.py:355-357, asr_drain.py:48-67).                                 *)
RunnerDrainDisjoint ==
    drain.pc # "idle" =>
        LET mine  == {drain.video} \cup drain.todo
            yours == {jobs[j].video : j \in runner.todo}
                     \cup (IF runner.pc \in AtWork THEN {Current} ELSE {})
        IN  mine \cap yours = {}

(* A stage that is done has left what the stages after it start from, so    *)
(* that a resumed job may skip it (runner.py:9-11): the transcript is on    *)
(* the row, the digest was made from that very transcript.                  *)
CheckpointsHold ==
    \A v \in Video : LET r == videos[v] IN
        /\ r.stage_transcript = "done" => r.transcript_json # None
        /\ r.stage_normalize = "done" => r.stage_transcript = "done"
        /\ r.stage_summarize = "done" =>
              /\ r.stage_normalize = "done"
              /\ r.digest # None /\ r.digest = r.transcript_json

(* A row that GET /videos exports (stage_write = done) shows the digest     *)
(* that its note in the vault was rendered from, and has its ordering key   *)
(* (runner.py:116-124, routes.py:227-231).                                  *)
ExportMatchesVault ==
    \A v \in Video : videos[v].stage_write = "done" =>
        /\ videos[v].digest # None
        /\ vault[v] = videos[v].digest
        /\ videos[v].written_at # 0

(* A parked video has not been transcribed and still has a job that will    *)
(* take it to S4 once the drain has (runner.py:14-16): parking, failing and *)
(* being killed between them never leave a row that nothing will finish.    *)
ParkedHasLiveJob ==
    \A v \in Parked :
        /\ videos[v].stage_transcript = "pending"
        /\ \E j \in Job : jobs[j].video = v /\ Live(j)

(* Only the job in hand may be running, but for jobs a kill has orphaned    *)
(* (runner.py:359-363).                                                     *)
RunningIsCurrent ==
    \A j \in Job : jobs[j].status = "running" =>
        j \in requeued \/ (runner.job = j /\ runner.pc \notin {"idle", "next"})

(* written_at is set once and never moves, whatever is rewritten or forced  *)
(* (db.py:55-60, write.py:326-331).                                         *)
WrittenAtIsForever ==
    [][\A v \in Video : videos[v].written_at # 0 =>
            videos'[v].written_at = videos[v].written_at]_vars

(* A transcript is replaced only by a reset: no two acquisitions of the     *)
(* same video ever both land (runner.py:191-207, asr_drain.py:69-84).       *)
TranscriptLandsOnce ==
    [][\A v \in Video :
            LET old == videos[v].transcript_json
                new == videos'[v].transcript_json
            IN  old # None /\ new # old => new = None]_vars

(* A job that ends as done has its video's digest in the vault.             *)
DoneJobIsPublished ==
    [][\A j \in Job :
            jobs'[j].status = "done" /\ jobs[j].status # "done" =>
                LET v == jobs[j].video IN
                /\ videos[v].stage_write = "done"
                /\ vault[v] # None /\ vault[v] = videos[v].digest]_vars

(* A finished job stays finished: a re-run is always a new job.             *)
TerminalJobsStay ==
    [][\A j \in Job : jobs[j].status \in {"done", "failed"} =>
            jobs'[j] = jobs[j]]_vars

(* Documented in runner.py:9-16: a failure at S4 never re-downloads media,  *)
(* a re-run costs only the stages that had not finished, and a parked job   *)
(* resumes from S4.  So a job that has gone back to the queue never throws  *)
(* away the transcript of its video.                                        *)
ResumeKeepsTranscript ==
    [][\A v \in Video :
            (/\ videos[v].stage_transcript = "done"
             /\ videos'[v].stage_transcript # "done")
            => runner.job \notin requeued]_vars

(* Documented in runner.py:116-123: a forced re-run re-summarises, reusing  *)
(* nothing, and its item is out of the export (stage_write = done) until    *)
(* its S5 finishes.  So when one is done, the note is of the digest it made.*)
ForcedRunWritesNote ==
    (/\ runner.pc = "finish" /\ runner.outcome = "done"
     /\ jobs[runner.job].force)
    => vault[Current] = videos[Current].digest

-----------------------------------------------------------------------------
(* What the tables and the vault amount to, for Digests.                    *)

Requests == [j \in Job |-> [video |-> jobs[j].video, force |-> jobs[j].force]]

(* A job has started once it is past the reset that force asks for.         *)
StateOf(j) ==
    IF ~Live(j) THEN jobs[j].status
    ELSE IF runner.job = j /\ runner.pc \notin {"idle", "next", "reset"}
         THEN "started" ELSE "live"

States      == [j \in Job |-> StateOf(j)]
Transcripts == [v \in Video |-> videos[v].transcript_json]
DigestsOf   == [v \in Video |-> videos[v].digest]
InExport    == {v \in Video : videos[v].stage_write = "done"}

Promise == INSTANCE Digests
    WITH request <- Requests, state <- States, transcript <- Transcripts,
         digest <- DigestsOf, note <- vault, exported <- InExport

(* Checkpoints, parking, the drain, rewrites and kills amount to what       *)
(* Digests promises: each request's work is done once and for it alone, a   *)
(* forced job starts over whenever it starts, and what is done or exported  *)
(* is published (runner.py:9-20, 57-60, 116-128, 296-329).                  *)
ImplementsDigests == Promise!DigestsSpec

-----------------------------------------------------------------------------
(* Liveness.  The scheduler fires each activity again and again with        *)
(* max_instances = 1 (scheduler.py:81-96), and asyncio's ready queue is     *)
(* first in, first out: an activity whose await has returned is not passed  *)
(* over for ever by the others, and one between two commits goes on.  That  *)
(* an outside service answers is the environment's part: the ASR worker     *)
(* wakes up often enough to finish a transcription, an endpoint answers S4, *)
(* CouchDB accepts the writes of S5.                                        *)
Fairness ==
    /\ SF_vars(RunnerStep)
    /\ SF_vars(DrainStep)
    /\ \A r \in Rewriter : WF_vars(RewriteDone(r))
    /\ SF_vars(DrainWorkerUp)
    /\ SF_vars(DrainTranscribed)
    /\ SF_vars(RunSummarized)
    /\ SF_vars(RunProject)
    /\ SF_vars(RunPublished)

FairSpec == Spec /\ Fairness

(* From some point on every step is one of the program's own.               *)
KillsStop == <>[][Step]_vars

(* Unless the process is killed for ever, every job ends, parked and        *)
(* deferred ones included (runner.py:11-20).                                *)
EveryJobEnds ==
    KillsStop => \A j \in Job : Live(j) ~> jobs[j].status \in {"done", "failed"}

(* Documented in runner.py:57-60, 14-16: a pass is short because the next   *)
(* fire picks up the rest; so a job whose video nothing is wrong with ends, *)
(* whatever becomes of the others.                                          *)
GoodJobEnds ==
    KillsStop =>
        \A j \in Job : (Live(j) /\ jobs[j].video \notin Stuck \cup Poison)
                        ~> jobs[j].status \in {"done", "failed"}

(* Documented in runner.py:14-16 and asr_drain.py:1-8: a parked video is    *)
(* transcribed when the worker is next awake, whatever the others hold.     *)
GoodVideoUnparks ==
    KillsStop =>
        \A v \in Video \ Poison : v \in Parked ~> v \notin Parked
=============================================================================
