------------------------------ MODULE Digests ------------------------------
(***************************************************************************)
(* What somebody who asks for a video may rely on, without stages, queues, *)
(* parking, passes or the requests that overlap them:                      *)
(*   - work is done only for a request, one job at a time, and a job that  *)
(*     has ended stays as it ended;                                        *)
(*   - a transcript is acquired once and summarised once, and is given up  *)
(*     only for a forced job, which starts with nothing each time it does; *)
(*   - a note is written from a digest, whole, and a video is exported     *)
(*     only while its note is the one of its digest;                       *)
(*   - a job is done only with its video exported.                         *)
(***************************************************************************)
EXTENDS Naturals

CONSTANTS Video, Job, Version, None

VARIABLES
    request,      \* what each job was asked for
    state,        \* "none", "live", "started", "done", "failed"
    transcript,   \* the transcript of each video
    digest,       \* the transcript that its digest was made from
    note,         \* and the one that its note in the vault shows
    exported      \* the videos that GET /videos exports

digestsVars == <<request, state, transcript, digest, note, exported>>

DigestsInit ==
    /\ request = [j \in Job |-> [video |-> None, force |-> FALSE]]
    /\ state = [j \in Job |-> "none"]
    /\ transcript = [v \in Video |-> None]
    /\ digest = [v \in Video |-> None]
    /\ note = [v \in Video |-> None]
    /\ exported = {}

(* Somebody waits for v; a job is at work on v.                             *)
Wanted(v) ==
    \E j \in Job : request[j].video = v /\ state[j] \in {"live", "started"}
InHand(v) ==
    \E j \in Job : request[j].video = v /\ state[j] = "started"

(* Only the first request for a video, or a forced one, makes a job.        *)
Ask(j) ==
    /\ state[j] = "none"
    /\ \E v \in Video, force \in BOOLEAN :
        /\ force \/ \A k \in Job : request[k].video # v
        /\ request' = [request EXCEPT ![j] = [video |-> v, force |-> force]]
    /\ state' = [state EXCEPT ![j] = "live"]
    /\ UNCHANGED <<transcript, digest, note, exported>>

(* What was done for v is gone, but for its note.                           *)
Discard(v) ==
    /\ transcript' = [transcript EXCEPT ![v] = None]
    /\ digest' = [digest EXCEPT ![v] = None]
    /\ exported' = exported \ {v}

Start(j) ==
    /\ state[j] = "live"
    /\ \A k \in Job : state[k] # "started"
    /\ state' = [state EXCEPT ![j] = "started"]
    /\ IF request[j].force THEN Discard(request[j].video)
                           ELSE UNCHANGED <<transcript, digest, exported>>
    /\ UNCHANGED <<request, note>>

(* A job that parks, is put off or is killed starts again some day.         *)
Stop(j) ==
    /\ state[j] = "started"
    /\ state' = [state EXCEPT ![j] = "live"]
    /\ UNCHANGED <<request, transcript, digest, note, exported>>

Finish(j) ==
    /\ state[j] = "started"
    /\ request[j].video \in exported
    /\ state' = [state EXCEPT ![j] = "done"]
    /\ UNCHANGED <<request, transcript, digest, note, exported>>

GiveUp(j) ==
    /\ state[j] \in {"live", "started"}
    /\ state' = [state EXCEPT ![j] = "failed"]
    /\ UNCHANGED <<request, transcript, digest, note, exported>>

(* A transcript that v's note was not made from.                            *)
Transcribe(v) ==
    /\ transcript[v] = None
    /\ Wanted(v)
    /\ \E t \in Version \ {note[v]} : transcript' = [transcript EXCEPT ![v] = t]
    /\ UNCHANGED <<request, state, digest, note, exported>>

Summarize(v) ==
    /\ digest[v] = None
    /\ transcript[v] # None
    /\ InHand(v)
    /\ digest' = [digest EXCEPT ![v] = transcript[v]]
    /\ UNCHANGED <<request, state, transcript, note, exported>>

(* By a job, or by a request to write the note again.                       *)
Write(v) ==
    /\ digest[v] \notin {None, note[v]}
    /\ note' = [note EXCEPT ![v] = digest[v]]
    /\ UNCHANGED <<request, state, transcript, digest, exported>>

Export(v) ==
    /\ v \notin exported
    /\ note[v] = digest[v] /\ digest[v] # None
    /\ exported' = exported \cup {v}
    /\ UNCHANGED <<request, state, transcript, digest, note>>

(* A job at work on v could not write its note.                             *)
Withdraw(v) ==
    /\ v \in exported
    /\ InHand(v)
    /\ exported' = exported \ {v}
    /\ UNCHANGED <<request, state, transcript, digest, note>>

DigestsNext ==
    \/ \E j \in Job : Ask(j) \/ Start(j) \/ Stop(j) \/ Finish(j) \/ GiveUp(j)
    \/ \E v \in Video :
         Transcribe(v) \/ Summarize(v) \/ Write(v) \/ Export(v) \/ Withdraw(v)

DigestsSpec == DigestsInit /\ [][DigestsNext]_digestsVars
=============================================================================
