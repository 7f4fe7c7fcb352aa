# video-digest: a formal model

A TLA+ development of the video-digest service: modules that model its parts
commit by commit, TLC runs over small instances, and theorems with proofs that
TLAPS checks. Paths below are relative to `src/video_digest/`.

## 1. The system

The service takes video URLs, obtains a transcript, has it summarised by a
language model and writes a note to an Obsidian vault (a CouchDB database in the
LiveSync layout). It is one process with one asyncio event loop, one SQLite file
and one scheduler. Activities interleave only where one awaits; a kill can come
between any two commits.

| Part | State | Operations | What makes it correct |
|---|---|---|---|
| Enqueue (`pipeline/resolve.py`) | rows of `videos`, `jobs` | `enqueue` from POST /jobs and from the inbox | one row per video, a job for each accepted request |
| Runner (`pipeline/runner.py`) | stage columns, `jobs.status`, its own locals across awaits | `run_due_jobs`, `run_job`, `_reset_for_force` | resumes at the first unfinished stage; a job ends once, with what it claims |
| ASR drain (`pipeline/asr_drain.py`, `pipeline/transcript.py`) | `asr_queued_at`, `transcript_json` | `drain_pending_asr`, `park_pending_asr` | never acquires what the runner acquires; parked videos are finished |
| Rewrite (`pipeline/runner.py`, POST /videos/{id}/rewrite) | `stage_write`, the note | `rewrite_from_stored_digest` | the note is the one the row's digest renders to; `written_at` stays |
| LLM client and summary (`llm/client.py`, `pipeline/summarize.py`) | cooldowns of the endpoints | `complete_structured`, `_walk`, `summarize_video` | failover in order, no endless retry, no cloud endpoint unless allowed |
| Database (`db.py`) | the file, `meta.schema_version` | `connect`, `_apply_migrations` | every older or half-upgraded file opens |
| S5 writer (`pipeline/write.py`) | notes, topic pages, `written_at`, `note_path` | `write_video_note`, `resolve_topic_links`, `_update_topic_page` | `written_at` is set once; text of others on a topic page survives |
| Vault client (`vault/livesync.py`, `vault/notes.py`) | chunks, entries, revisions | `read_note`, `project`, `_put_chunk`, `_put_entry` | a call is one write of one whole text or none; deletions are respected |
| Inbox (`pipeline/inbox.py`) | the queue note, the completed note | `poll_inbox` | finished lines leave the queue, once; the queue comes back |
| Names (`vault/names.py`) | `note_names`, `topic_note_names` | `resolve_*_filename`, `adopt_topic_filename` | a name is pinned once and is unique |
| Export (`api/routes.py`) | none (reads `videos`) | GET /videos with a cursor | an importer that follows `next` sees every row once |
| Throttle (`api/auth.py`) | `_failures` | `require_api_key` | an address waits only for its own failures; the table is bounded |
| Transcript acquisition (`pipeline/transcript.py`, `transcripts/ladder.py`, `transcripts/asr.py`) | the audio file, the row's transcript | `acquire_transcript`, `ladder.acquire` | a tier is taken only for what it is, and passed only when it gave nothing; no file outlives its use |
| Cleanup sweep (`pipeline/cleanup.py`) | the audio directory | `sweep_orphaned_media` | takes what a kill left |
| Normalisation and chunking (`transcripts/normalize.py`, `pipeline/summarize.py`) | none | `_dedupe_rolling`, `merge_paragraphs`, `chunk_transcript` | no word lost; no paragraph or chunk over a chapter, a cap or a budget it has to keep |
| Sources, rendering, configuration, deployment | network, text | I/O and formatting | out of scope, see section 8 |

The runner and the drain share rows of `videos` with `asr_queued_at` as their
only hand-over; requests and the inbox add rows and jobs at any await of theirs;
rewrites share the row and the note with the runner. What is hard to test is
listed, line by line, in `PROJECT.json` under `hazards`, with the properties that
cover each.

## 2. Modules

| Module | Models |
|---|---|
| `Digests` | the abstract pipeline: what somebody who asks for a video may rely on |
| `Pipeline` | `videos`, `jobs`, the digest notes; enqueue, runner, drain, rewrites, kills; implements `Digests` |
| `MCPipeline` | model values for the `Pipeline*.cfg` |
| `PipelineProofs` | type correctness, the separation of runner and drain, the jobs table, proved |
| `PipelineCheckpoints` | the checkpoints, the single landing of a transcript, parked rows and the export, and that `Pipeline` implements `Digests`, proved |
| `LlmChain` | one summary after another: chunks, calls, walk, retries, cooldowns |
| `MCLlmChain` | the tiers of the run |
| `LlmChainProofs` | its invariants, proved |
| `Schema` | `connect()`: script, stamp, migrations, on files of either version |
| `LiveSyncTypes` | notes, texts, calls and the merge, shared by the next two |
| `NoteStore` | the abstract store: a call lands at most once, whole, or not at all |
| `LiveSync` | the client and the database request by request; implements `NoteStore` |
| `LiveSyncProofs` | its invariant and that it implements `NoteStore`, proved |
| `Vault` | `poll_inbox`, `write_video_note` and people, composed over `LiveSync` |
| `MCVault` | model values for the `Vault*.cfg` |
| `VaultProofs` | that `Vault` uses the client as specified, and what follows, proved |
| `Acquire` | one video's acquisition, its captions, its audio file, and the sweep |
| `Export` | GET /videos and an importer that follows its cursor |
| `Throttle` | the API key's throttle |
| `Names` | the pinned filenames of videos and topics |
| `Cues` | from cues to fragments, paragraphs and chunks |
| `MCParts` | small instances of the five parts above; the initial state picks one |
| `PartsProofs` | invariants and action properties of `Acquire`, `Export`, `Names`, proved |
| `CountProofs` | that a sweep of the export misses nothing, that no two videos share a name, the throttle, and the types of the parts, proved |
| `CuesProofs` | `Cues`: types, words, paragraphs and chunks, proved |

### Pipeline

One step is one commit together with the code around it up to the next commit or
`await`. `runner.pc`, `drain.pc` and `rewriter[r].pc` name the await an activity
sits at, or the place between two commits where it has no await. `LoopFree` says
that nobody is between two commits: every activity other than the one that is
there waits for it, as on the event loop, while `Crash` does not.

* `videos[v]` is the row: the stage columns, `transcript_json` and `digest` as
  the *name* of the transcript they come from, and the ranks of `asr_queued_at`
  and `written_at` instead of time stamps. `Fresh` names a new transcript
  differently from every one still referred to, so that `digest =
  transcript_json` says "made from this very transcript". `stage_metadata =
  failed` (`Reject`) is kept because a rejected row may already have a job.
* `jobs` are numbered in the order of `created_at`; `MaxJobs` bounds them.
* `vault[v]` is the transcript that the digest note of `v` was rendered from.
  That a person may delete a note, after which a write is skipped, is in `Vault`.
* `RunNext` to `RunFinish` are the branches of `run_job`, in its order, with
  `RunCrashed` for an exception that it does not catch. `runner.text` is what S4
  and S5 hold across their awaits.
* `DrainPass` takes the snapshot of the parked rows; `DrainTranscribed` commits
  and takes the next; any failure ends the pass (`DrainAborts`).
* `RewriteBegin` .. `RewriteDone` are a request's check, the note, the commit of
  `written_at`, and `stage_write = 'done'`.
* `requeued` is a history variable: jobs that ran and went back to the queue.
* Captions, probe, download, transcription, the summary and the vault are
  choices among their outcomes. `Wired`, `Poison` and `Stuck` fix for some videos
  what always happens to them, for the liveness runs.

`Digests` knows none of this: no stages, queue, passes, parking or overlapping
requests. It has what each job was asked for, whether it is live, started, done or
failed, and for each video its transcript, the transcript its digest was made
from, the one its note shows, and whether it is exported. `Promise` in `Pipeline`
maps the tables onto it. A job is `"started"` while the runner has it in hand and
is past the reset of a forced job, and live otherwise, so that parking, deferring
and a kill are all `Stop`; a transcript that the runner acquires and one that the
drain stores are the same `Transcribe`; a note by S5 and one by a rewrite are the
same `Write`; `exported` is `stage_write = 'done'`. Commits that only move
`asr_queued_at`, a `pc` or a stage that repeats what a column says are stutters.
`Start` of a forced job discards what the video has, each time it starts: this is
what the code does, and disagreement 1 of section 4.

### LlmChain

`step` is the call that `summarize_video` is at, `call` the locals of
`complete_structured` (`walk` is what is left of it), `cooling` the time left of
each endpoint's cooldown, `last` a history of the replies. Prompts, telemetry and
the content of objects are left out. Two endpoints cool independently per tier,
as the aliases do in the code. `Tick` may pass at any time, also during a
request.

### Schema

`executescript` commits statement by statement and SQLite's `ALTER TABLE` commits
by itself, so each of them is a step that a kill may follow; the backfill and the
version stamp are one transaction. `Init` is no file or a file of version 1.

### NoteStore, LiveSync

A note is an entry document and the chunk with its text. `client[c]` is the call
an activity has in progress: its arguments, and the locals of `read_note`,
`project` and `_put_entry`. `pc` names the request it waits for: the read, the
PUT of the chunk, the PUT of the entry, the GET and the PUT that follow a
conflict. Any request may fail (`raised`), and a PUT may land and fail all the
same (`landed` without an answer). A revision is only compared with the current
one, so `fresh` (the one read is still current) stands for it; a chunk is
content-addressed, so `whole` and `stored` (the chunk of this text exists) stand
for it. `OtherClient` and `ChunkArrives` are Obsidian's own replication, which
may bring an entry before its chunk: such a note reads as missing. `SoftDelete`
is what a deletion in Obsidian leaves.

`NoteStore` says what a caller may rely on: `Prepare` fixes the text of a merge
from the page at that moment, `Land` is the whole write in one step, and
`MayLand` is when a write is wanted. `LiveSync!ImplementsNoteStore` maps `entries`
and the calls onto it: chunk, entry, conflict, take-over of the revision and the
write whose answer was lost are one `Land` or stuttering. What `NoteStore` does
*not* promise is part of it: a merge lands over what others wrote after
`Prepare`, because the code takes over whatever revision the conflict shows.

### Vault

`poll` and `writer[w]` are the locals of `poll_inbox` and `write_video_note`
across their vault calls; between two calls they have no await, so each
`Poll*` and `Writer*` action is the code from one answer to the next call. A
note's text is the set of its items, which tells apart what the properties tell
apart; order, date headings, frontmatter and the wording of sections are layout.
`known` is a row in `videos`, `noted` a `note_path`. The transcript note is
written exactly as the digest note and left out; one topic page stands for all of
them. A line may stand for several videos (a playlist). People paste lines, leave
links in the queue, write prose on the topic page, empty or delete notes, and
delete documents for good.

### Acquire, Export, Throttle, Names, Cues

* `Acquire` is `acquire_transcript` with the ladder's choice (`Pick`, by language
  and kind), the loosened second pass, the probe, the download, the
  transcription and the removal of the file, beside kills and
  `sweep_orphaned_media`. `Meta` is the set of track lists a source may report.
  A kill leaves the file (`orphan`). The sweep does not know `.part` and `.mp4`
  files, which a killed download may leave: the file of the model is one that it
  knows. A T0 track found by the second pass comes back marked degraded, as in
  the code. An HTTP error of a caption fetch leads on to the worker, like captions
  that do not suit; a track that has gone missing and an error of yt-dlp do not,
  and fail the video, in either pass. `worker` is what the probe said, `unfetched`
  a history variable: a fetch met an HTTP error.
* `Export`: rows are written, taken out by a forced run and written again with
  the time stamp they had, several with one time stamp (the code's stamps have
  microseconds, so this is more than is likely there); one page is one statement
  and one step. `next` is null after a page that is not
  full, which a page with a malformed row never is; `SweepMissesNothing`
  therefore excepts what follows such a page, and says so.
* `Throttle`: `_failures`, an ordered dict, as `order`, its keys from the least
  recent, and `times`, the value of each; `Touch` prunes an entry and moves it to
  the end, `WrongKey` adds a failure and forgets the first address over the
  capacity. `wrong` is a history variable: what `WaitIsEarned` counts, without the
  pruning. `now` moves by whole seconds.
* `Names`: one row per video and per topic, the UNIQUE columns, the suffixes, and
  the adoption of a page already in the vault. A slug is a sequence of numbers, so
  that a title may look like another's suffixed name. The page is written in the
  step that resolves its name.
* `Cues`: three loops, one turn a step. Times are in parts of a second (`Second`
  of them): the merge compares the exact times, and the chunks see those of
  paragraphs and chapters after the code's `int()` (`Whole`), chapters of one
  second as one. The size of a text is the number of its words (the separators
  between paragraphs are not counted).

## 3. Runs

| Run | Shows | Bounds |
|---|---|---|
| `pipeline_forced` | the safety of the pipeline under forced re-runs and kills, and that it implements `Digests` | 2 videos, 3 jobs, batch 2; `v1` is forced |
| `pipeline_rewrite` | the export, and that the pipeline still implements `Digests`, with rewrites beside it | 2 videos, 2 jobs, 2 rewrite requests at once; `v1` may be rejected, `v2` is a wired page |
| `pipeline_live` | every job ends | 2 videos, 2 jobs, batch 1 |
| `llm_chain` | the chain's invariants and that a summary ends | 3 endpoints (2 cloud), 1 retry, cooldown 2, 2 chunks; a second tier local-only |
| `vault` | deletions, merges, links and lines of the vault; that it implements `NoteStore`; that the queue comes back and finished lines leave it | 1 poller, 1 writer, 1 video, 1 line, 4 notes, each line pasted once, 1 other edit by people |
| `parts` | the five parts, each on its own | 4 rows (1 malformed), pages of 2, 3 time stamps; 3 addresses, capacity 2, 2 failures, window 2; 2 videos and 2 topics over colliding slugs; 3 languages; 4 cues of at most 2 words, 4 start times in half seconds, chapter sets with and without a cue |
| `pipeline_resume`, `pipeline_forced_rewrite`, `pipeline_poison`, `pipeline_starved`, `schema_upgrade`, `vault_lost` | the disagreements of section 4 | see the `.cfg` |

Why they are enough: the pipeline's activities meet over one video, and two are
what it takes to have an order between videos, a batch that is smaller than the
queue and a drain pass with a rest; the two rewrite requests are alike and no
property names one, so the run takes them as symmetric; three jobs are two of
one video, one of them forced, beside one of the other. `pipeline_forced` has no
rewriter and `pipeline_rewrite` no forced run, because together they violate
`ExportMatchesVault`: that is the finding `pipeline_forced_rewrite`. Two
versions of a transcript suffice because a name is reused once nothing refers to
it. Three endpoints give a call one it stepped over before and one after the one
it asks; two ticks let cooldowns of different ages overlap.

In `vault`, the poller and a writer meet people on the queue, the completed note,
the topic page and the digest; any number of requests fail, and kills are not
bounded. One edit beside the pastes is enough to delete, empty, tear or link a
note at any await. Larger instances are what the proofs are for: `LiveSyncProofs`
and `VaultProofs` hold for every number of writers, videos, lines, people and
edits. In `parts`, three addresses are one more than the table holds; four rows
and pages of two give a second page and one with the malformed row; the slugs
contain one that is another with a suffix; the chapter sets contain two chapters
between neighbouring cues, so that the index of the next one lags, two in one
second, and one in the second of a paragraph that begins before it.

Deadlock is not checked for `Pipeline`, `Vault` and the parts: with everything
they were asked done and no more allowed by their bounds, they rightly stop.

## 4. Where the code and its documentation disagree

Each is a run that finds the documented property violated; `findings` in
`PROJECT.json` quotes the lines.

1. `pipeline_resume`: a forced job that was parked, deferred or orphaned is reset
   again each time it is picked up, and loses the transcript it had.
2. `pipeline_forced_rewrite`: a rewrite that begins before a forced run's reset
   puts the old digest into the note and marks the row written, which is back in
   the export without a digest; the forced run then skips S5 and is done, with its
   new digest on the row and the old one in the note.
3. `pipeline_poison`: a video whose transcription always fails blocks the drain
   for every video parked after it.
4. `pipeline_starved`: as many permanently deferred videos as a pass holds keep
   every younger job waiting.
5. `schema_upgrade`: a version 1 database cannot be opened; the index on
   `written_at` is created before the migration that adds the column.
6. `vault_lost`: a line of the queue can be lost, against `inbox.py:6-13`: it is
   to stay in the queue or to move to the completed note. The run shows the
   shortest case; the ways are: a queue note whose chunk has not arrived is
   replaced by the placeholder; a line pasted during a poll is overwritten by the
   rewrite of the queue; a kill or a failure between that rewrite and the append
   loses the finished line; and appending to a completed note that people
   deleted is skipped silently.

Met while modelling, plain from the code, and without a run:

* `asr_drain.py:6-8` and `runner.py:22-24` say one transcription at a time;
  `scheduler.py:83-98` schedules runner and drain as two jobs, each of which may
  transcribe, and `max_concurrent_asr` (`config.py:149`) is read nowhere.
* `summarize.py:50-53` speaks of a chunk per chapter; after a chapter without a
  paragraph the index of the next one lags and a paragraph may be cut off early.
  The chunks still keep `ChunksFit`; a chunk of one paragraph may be wholly
  repeated at the start of the next.
* `summarize.py:50-53` says that paragraph boundaries already sit on chapter
  starts. `normalize.py:146-149` takes these as fractions, `summarize.py:65-67` cuts
  them and `normalize.py:190` the paragraphs to whole seconds: with a chapter at
  100.7 and paragraphs at 100.5 (a break at the cap) and 101.0, the chunk begins at
  the first and runs over the chapter. By `ChunksKeptToTheSecond` this happens only
  within the second in which a chunk begins.
* `routes.py:263-268`: `next` is null after a page with a malformed row although
  rows follow.
* `names.py:53-63`: adoption inserts with a UNIQUE column and ignores a conflict,
  so a second topic that adopts the same page is not pinned to it and gets a name
  of its own on the next call; and a topic's candidate names are compared with
  the table only, not with the pages in the vault.

## 5. Fairness

`Pipeline`: strong fairness of the runner's and of the drain's steps, because the
scheduler fires them again and again with one instance each and asyncio's ready
queue is first in first out; a step may be disabled now and then because another
activity is between two commits, which is why weak fairness would not do. A
rewrite's last commit follows without an await. Beyond the code, `Fairness`
assumes of the outside world that the worker wakes often enough to finish, that
S4 is answered and that the vault accepts writes: without it jobs are deferred
for ever, as designed. `KillsStop` restricts liveness to
behaviours in which, from some point on, the process is no longer killed.

`Vault`: weak fairness of the poll, which the scheduler starts again and again;
strong fairness of each of its requests being answered (not: of each answer being
good, and nothing of the writers, people or other clients), because CouchDB may
fail now and then but not whenever it is asked; and that a line whose enqueue may
succeed is accepted in the end. `KillsStop` as above. `QueueComesBack` also
assumes that people do not delete the note over and over, which `MaxEdits`
ensures.

The five parts have safety properties only.

`LlmChain`: weak fairness of the call as a whole, since every request ends by a
reply or by `timeout_s`. No reply is assumed to be good.

## 6. Proofs

`PipelineProofs`, for every set of videos, number of jobs, batch and set of
rewriters:

* `PipelineTyped`, `PipelineTypeOK`: type correctness. `Typed` adds to `TypeOK`
  what the actions rely on: a runner at work has a job with a video, a drain at
  work has a video.
* `PipelineDisjoint`: `RunnerDrainDisjoint`. It is not inductive: that the
  runner's list and the drain's are disjoint now says nothing about a row that
  unparks later. `Exclusive` adds why they are disjoint: each video of the
  drain's list is still parked, each video in the runner's list is not, and only
  the runner's own `park` can change the latter, for a video it is about to
  leave. The proof goes over how an action moves ranks (`RunMoveRanks`,
  `DrainClears`) and then one action at a time.
* `PipelineRunning`, `PipelineFinal`: `RunningIsCurrent` and `TerminalJobsStay`.
  `Booked` adds that the rest of a pass is live and that the job in hand is the
  one marked running (or failed, in a crash); `Exclusive` that it is not in the
  rest of the pass.

`PipelineCheckpoints`, on top of `Typed` and `Exclusive`:

* `PipelineCheckpointsHold`: `CheckpointsHold`. Alone it says nothing of an
  activity at an await: a drain that stores a transcript late, or a runner that
  stores a digest late, could break it. `Sound` adds that a row has a transcript
  exactly when S2 is done and that a parked row has none, and `RunnerKnows` that
  what the runner read before its await still holds at each `pc`: no transcript
  while it acquires one, the transcript it summarizes while it summarizes. That
  the drain does not disturb the latter is `Exclusive`.
* `PipelineLandsOnce`: `TranscriptLandsOnce`, from the same invariant.
* `PipelineStampsOnce`: `WrittenAtIsForever`, from how each action writes a row.
* `PipelineParkedHasJob`: `ParkedHasLiveJob`. With `Booked`, the job that parks its
  video is live; with `Exclusive`, a job that ends otherwise is of a video that is
  not parked.
* `PipelineExportMatches`, `PipelineDoneIsPublished`: `ExportMatchesVault` and
  `DoneJobIsPublished`, if there are no rewrites or no forced requests: with both
  the former fails (disagreement 2 of section 4).
  `ExportSound` says what the runner (`WriterKnows`) and each rewrite
  (`RewriterKnows`) know between the digest they read and the note they wrote: it
  is still the row's. A reset is the only step that takes a digest from a row, so
  a rewrite is safe where none happens (`Unforced`).
* `PipelineImplements`: initial states of `Pipeline` map to initial states of
  `Digests`, and every step to a step of it or a stutter, under the same condition
  (a rewrite across a reset exports a note of a digest that is gone). The
  invariant is `Solid`: all of the above, and `Answered`, that a job without a
  status has no video yet, that the video of any other has a row, and that only a
  forced job is at a reset. Each kind of step has a lemma that says what it is for
  `Digests`: `ResetStarts`, `LandingTranscribes`, `ProjectingWrites`,
  `MarkingExports`, `FailingWithdraws`; `OneState` and `OneRow` reduce a step that
  touches one job or one row to the columns of it. What needs the invariant is
  that the drain's transcript finds a row without one and a live job that waits
  for it (`Exclusive`, `ParkedHasLiveJob`), that S4's digest is of the transcript
  the row still has, and that a note written is the row's digest when S5 or the
  rewrite marks the row.

`LlmChainProofs`, for every number of endpoints, retries and chunks, every
cooldown and every choice of cloud endpoints: `UnavailableHasExcuse`,
`AnsweredIsNotCooling`, `PrimaryFirst`, `Sovereignty`, `TypeOK`. Their inductive
invariant is `Cold` (what cools has failed when last asked), `Walking` (what the
call neither asked nor will ask is what it stepped over, so it was cooling; and
the rest is asked in order) and `GaveUp` (a summary given up has kept the state
of its last call).

`LiveSyncProofs`, for every set of clients, notes and texts and any number of
retries and kills:

* `LiveSyncInvariant`: what each `pc` knows. A call that waits for a write holds
  the text it is to write and has not landed; one that holds a fresh revision
  holds that of the entry in which it found the write wanted (`RevisionGuards`).
  A revision goes stale in the very step that changes the entry, whoever takes
  it, which is what makes this inductive.
* `LiveSyncImplements`: initial states map to initial states, and every step to
  `Ask`, `Prepare`, `Land`, `End`, a change by others, or a stutter. The case that
  needs the invariant is the PUT by a taken-over revision: it is a `Land` only
  because the write was wanted when the revision was read and nothing has changed
  since.

`VaultProofs`, for every set of writers, videos, lines and people:

* `VaultUsesLiveSync`: every step of `Vault` is a step of `LiveSync`, so that all
  of the above holds of the composition (`VaultRevisionsGuard`,
  `VaultImplements`). It needs the invariant `VaultInv`: that every call begun
  fits `Call`, which is about the texts the poller and the writers hold.
* `DeletionsRespected`, `MergesKeepOthers`: the invariant says which calls the
  activities have in progress (a call that may revive is the poller's restore of
  the queue with the placeholder, a merge is a writer's into the topic page);
  `VaultImplements`' step lemma says what a call's landing does; together they
  give both action properties. `MergesKeepOthers` is about what was on the page
  when it was read: what others add between that read and the write is
  overwritten, and a page that could not be read is replaced whole.
* `LinksHaveNotes`: `LinkHasNote` is about the completed note only; its
  strengthening follows a link back through every text on the way there: what the
  poller has read, holds and is writing, what a call was asked to write, and what
  the digest's entry is at each point of a writer.
* `LinesHaveOneHome`: `LineHasOneHome`, a line is never both in the queue and, with
  the links of all its videos, in the completed note. Alone this says nothing of the
  poll between its calls. `PollAsks` and `WriterAsks` say that the poll's calls are
  those of its place and that no other activity of the service touches its two
  notes; `FromPeople`, that all the queue will ever hold again was pasted by
  people (or is the placeholder); `OneHome`, that the links of a line come past
  the rewrite of the queue only when the line has left every text that may be
  written to it (`Left`), and that a rewrite which has returned, even one that
  was skipped, has seen to that. The queue's own lines are compared item by item,
  so it is for lines no other pasted item of which names the same video
  (`Alone`), which is part of the property.

`PartsProofs`: `TiersEarned` (`LadderIsOpen` adds what each `pc` of an acquisition
knows before anything is decided: at the probe, that the ladder gave nothing; at
the loosened pass, that the worker sleeps; `LadderGives` is what an outcome of
the ladder says of the tracks), `AudioOwned`, `RowsOnce` (the cursor is never behind what
was shown: `CursorInv`, with a clock that only moves on and a row that keeps its
time stamp) and `NamesForever`.

`CountProofs`, for every finite table of rows and set of names:

* `SweepsComplete`: `SweepMissesNothing`. A row ahead of the cursor that is not on
  the page is below all of the page (`PageIsTop`), and a page with a row left
  below it is full (`PageIsFull`), so that `next` is not null and the sweep goes
  on. Both go over the rank of a row, the number of rows above it.
* `NamesOwned`: `NamesAreOwn`. There are more suffixes than names given away, so
  one is free, and the least free one is what `GiveName` takes.
* `WaitsAreEarned`, `TheTableIsBounded`: an address is told to wait exactly when
  `MaxFailures` wrong keys of its own are inside the window, and the table never
  holds more than `MaxTracked` addresses nor one of them twice. The first
  compares the pruned list with the unpruned history: inside the window they
  have the same members in the same order (`SameFailures`), and as the window
  only moves on, pruning loses nothing that counts. The lemmas about filtering
  (`Only`) are proved by taking a shortest sequence that violates them. The
  second needs that no address is in `order` twice (`Apart`), so that its length
  counts addresses (`ApartCounts`).
* `ThrottleTypes`, `NamesTypes`, and `PartsTypeOK`, `TypeOK` of all five parts
  together: a behaviour of the run `parts` is a behaviour of each part
  (`PartsAreParts`), which is why theorems about a part speak of that run. In
  `Names` the type of the suffix in use needs a count too: fewer names are taken
  than there may be.

`CuesProofs`, for every vocabulary, cues, chapters, targets and budget:

* `CuesTypes`: type correctness, from the invariants of the three loops below.
* `WordsKept`: the text ends with the cue just read, whatever overlap was cut off.
  The overlap is a suffix of the cue before, with which the text ended.
* `ParagraphsKept`: fragments are in the order of their times; a chapter that the
  loop has passed starts no later than the last paragraph (`Passed`). That is why
  a lagging index never lets a paragraph run over a chapter: what is not ahead any
  more is behind the paragraph's beginning.
* `ChunksKept`: the same for chunks (`PassedChunk`), by whole seconds, which keep
  the order of the times they are cut from (`WholeOrder`); and sizes add up because
  paragraphs and fragments are contiguous (`SizesAdd`).
* `ChunksKeptToTheSecond`: what that says of the exact times.

Assumptions: the named `ASSUME`s of the modules, which say what a configuration
the program accepts looks like; TLC evaluates them in every run.

Only model-checked: liveness (`EveryJobEnds`, `SummaryEnds`, `QueueComesBack`,
`FinishedLineLeaves`), for which TLAPS has no support. Every other property of a
passing run is a theorem.

## 7. Plan

Done: pipeline, LLM chain, schema; then vault client, inbox and writer with their
abstract store and its refinement, and the parts; then the abstract pipeline and
its refinement, and a proof of every safety property of the passing runs. What is
left:

1. `Vault` with the transcript note and two topic pages, to compose it with
   `Names`.
2. What follows from `Digests` alone (an export is of a video somebody asked for;
   a video without a forced job is transcribed and summarised once), proved of it
   and carried over to `Pipeline` by `PipelineImplements`.

## 8. Not modelled

Parsing of URLs, pages, WebVTT and frontmatter, prompts, note templates, slugs:
text, with no state of its own. The sources and notifications: requests whose
outcomes are choices in `Pipeline` and `Acquire`. `list_prefix` and `ping` of the
vault client only read; nothing calls its `soft_delete`. `stage_errors`,
`attempts`, metrics and telemetry are written and only read back for display. Cron
times and misfire grace: the models let every activity start whenever it may.
Two scheduled jobs only report. `config.py` and `logging_setup.py` are
declarations; the settings that matter are constants of the modules.
