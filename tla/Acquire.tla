------------------------------ MODULE Acquire ------------------------------
(***************************************************************************)
(* How one video's transcript is acquired: acquire_transcript              *)
(* (pipeline/transcript.py) with the captions ladder (transcripts/         *)
(* ladder.py), and the audio file it leaves behind if it is killed, for    *)
(* the sweep of pipeline/cleanup.py.  Pipeline takes the outcome for a     *)
(* choice; here is what it is chosen by.                                   *)
(***************************************************************************)
EXTENDS Naturals, Sequences

CONSTANTS
    Lang,          \* caption languages
    Primary,       \* primary subtag of each, as a function
    Preferred,     \* subtitle_languages, in the order of preference
    NoLang,
    Degrade,       \* degrade_to_captions_when_offline
    KeepAudio

ASSUME AcquireAssumption ==
    /\ Preferred \in Seq(Lang)
    /\ DOMAIN Primary = Lang
    /\ NoLang \notin Lang
    /\ Degrade \in BOOLEAN /\ KeepAudio \in BOOLEAN

VARIABLES
    meta,      \* what is known of the video
    acquiring, \* acquire_transcript, its locals
    audio,     \* the file in work_dir
    orphan     \* history: a kill has left it there

acquireVars == <<meta, acquiring, audio, orphan>>

\* density: words per minute, below half the floor, below it, or enough.
Meta == [wired : BOOLEAN, manual : SUBSET Lang, auto : SUBSET Lang,
         declared : Lang \cup {NoLang}, density : 0 .. 2]

AcquireState == [pc : {"idle", "page", "captions", "probe", "loose", "download",
                       "transcribe", "unlink", "acquired", "parked", "failed"},
                 forced : BOOLEAN, tier : {"none", "T0", "T1", "T2"},
                 degraded : BOOLEAN,
                 worker : {"unknown", "up", "down"},  \* worker_up
                 unfetched : BOOLEAN]  \* history: a caption fetch met an HTTP error

NotAcquiring == [pc |-> "idle", forced |-> FALSE, tier |-> "none", degraded |-> FALSE,
                 worker |-> "unknown", unfetched |-> FALSE]

AcquireTypeOK ==
    /\ meta \in Meta /\ acquiring \in AcquireState
    /\ audio \in {"none", "new", "old"}
    /\ orphan \in BOOLEAN

AcquireInit ==
    /\ meta \in Meta
    /\ acquiring = NotAcquiring
    /\ audio = "none" /\ orphan = FALSE

-----------------------------------------------------------------------------
(* The ladder.                                                              *)

(* _pick_language: the first one wanted that is available.                  *)
Pick(available) ==
    IF \E i \in DOMAIN Preferred : Preferred[i] \in available
    THEN Preferred[CHOOSE i \in DOMAIN Preferred :
                    /\ Preferred[i] \in available
                    /\ \A j \in 1 .. i - 1 : Preferred[j] \notin available]
    ELSE NoLang

(* Machine-translated: not in the language the video says it is in.         *)
Translated(lang) ==
    meta.declared # NoLang /\ Primary[meta.declared] # Primary[lang]

(* t1_is_trustworthy: the floor is halved when loosened, a translation is   *)
(* never accepted.                                                          *)
Trustworthy(lang, loosen) ==
    ~Translated(lang) /\ meta.density >= IF loosen THEN 1 ELSE 2

(* acquire.  NeedsASR is "unfit", for captions there are none of or that    *)
(* are not trustworthy, or "unfetched", for an HTTP error.  Whatever else   *)
(* the fetch raises, a track that has gone missing or an error of yt-dlp,   *)
(* is not caught, and comes before the heuristic has seen any text.         *)
Ladder(loosen) ==
    LET auto == Pick(meta.auto) IN
    IF Pick(meta.manual) # NoLang THEN {"T0", "unfetched", "raised"}
    ELSE IF auto = NoLang THEN {"unfit"}
    ELSE {IF Trustworthy(auto, loosen) THEN "T1" ELSE "unfit", "unfetched", "raised"}

-----------------------------------------------------------------------------
(* acquire_transcript.                                                      *)

Moves(from, to) ==
    /\ acquiring.pc = from
    /\ acquiring' = [acquiring EXCEPT !.pc = to]

AcquireBegins(forced) ==
    /\ acquiring.pc = "idle"
    /\ acquiring' = [NotAcquiring EXCEPT
                        !.forced = forced,
                        !.pc = IF meta.wired THEN "page"
                               ELSE IF forced THEN "probe" ELSE "captions"]
    /\ UNCHANGED <<meta, audio, orphan>>

(* The page has its own transcript, or its fetch raises.                    *)
PageFetched ==
    /\ acquiring.pc = "page"
    /\ \/ acquiring' = [acquiring EXCEPT !.pc = "acquired", !.tier = "T0"]
       \/ acquiring' = [acquiring EXCEPT !.pc = "failed"]
    /\ UNCHANGED <<meta, audio, orphan>>

(* Only NeedsASR leads on: a tier ends the acquisition, so does an error.   *)
TryCaptions(loosen, otherwise) ==
    /\ \E found \in Ladder(loosen) :
          LET tier == IF found \in {"T0", "T1"} THEN found ELSE "none" IN
          acquiring' = [acquiring EXCEPT
                            !.pc = IF tier # "none" THEN "acquired"
                                   ELSE IF found = "raised" THEN "failed" ELSE otherwise,
                            !.tier = tier,
                            !.degraded = tier # "none" /\ loosen,
                            !.unfetched = @ \/ found = "unfetched"]
    /\ UNCHANGED <<meta, audio, orphan>>

Captions == acquiring.pc = "captions" /\ TryCaptions(FALSE, "probe")

(* Where the worker's state leads when captions are not to be had.          *)
Onward(up) == IF up THEN "download" ELSE "parked"

(* Mutant: captions are loosened while the worker is awake, too.            *)
ProbedThenLoosened(up) ==
    /\ acquiring.pc = "probe"
    /\ acquiring' = [acquiring EXCEPT
                        !.worker = IF up THEN "up" ELSE "down",
                        !.pc = IF Degrade /\ ~acquiring.forced THEN "loose"
                               ELSE Onward(up)]
    /\ UNCHANGED <<meta, audio, orphan>>

(* The worker answers, or it does not: captions that are good enough for    *)
(* now, or parked.                                                          *)
Probed(up) ==
    /\ acquiring.pc = "probe"
    /\ acquiring' = [acquiring EXCEPT
                        !.worker = IF up THEN "up" ELSE "down",
                        !.pc = IF ~up /\ Degrade /\ ~acquiring.forced THEN "loose"
                               ELSE Onward(up)]
    /\ UNCHANGED <<meta, audio, orphan>>

LooseCaptions ==
    acquiring.pc = "loose" /\ TryCaptions(TRUE, Onward(acquiring.worker = "up"))

(* A file may come with the date its server gives it.                       *)
Downloaded ==
    /\ Moves("download", "transcribe")
    /\ audio' \in {"new", "old"}
    /\ orphan' = FALSE
    /\ UNCHANGED meta

DownloadFails == Moves("download", "failed") /\ UNCHANGED <<meta, audio, orphan>>

(* T2; or ASRUnavailable, a file swept away meanwhile included; or another  *)
(* exception.  The file is removed in every case.                           *)
Transcribed ==
    /\ acquiring.pc = "transcribe"
    /\ \/ /\ audio # "none"
          /\ acquiring' = [acquiring EXCEPT !.pc = "unlink", !.tier = "T2"]
       \/ acquiring' = [acquiring EXCEPT !.pc = "unlink"]
    /\ UNCHANGED <<meta, audio, orphan>>

(* Mutant: only a transcript that was made removes its file.                *)
UnlinkedIfDone(fails) ==
    /\ acquiring.pc = "unlink"
    /\ audio' = IF KeepAudio \/ acquiring.tier = "none" THEN audio ELSE "none"
    /\ acquiring' = [acquiring EXCEPT !.pc =
                        IF acquiring.tier = "T2" THEN "acquired"
                        ELSE IF fails THEN "failed" ELSE "parked"]
    /\ UNCHANGED <<meta, orphan>>

Unlinked(fails) ==
    /\ acquiring.pc = "unlink"
    /\ audio' = IF KeepAudio THEN audio ELSE "none"
    /\ acquiring' = [acquiring EXCEPT !.pc =
                        IF acquiring.tier = "T2" THEN "acquired"
                        ELSE IF fails THEN "failed" ELSE "parked"]
    /\ UNCHANGED <<meta, orphan>>

(* The caller takes the result.                                             *)
AcquireEnds ==
    /\ acquiring.pc \in {"acquired", "parked", "failed"}
    /\ acquiring' = NotAcquiring
    /\ UNCHANGED <<meta, audio, orphan>>

AcquireStep ==
    \/ \E forced \in BOOLEAN : AcquireBegins(forced)
    \/ PageFetched \/ Captions \/ LooseCaptions
    \/ \E up \in BOOLEAN : Probed(up)
    \/ Downloaded \/ DownloadFails \/ Transcribed
    \/ \E fails \in BOOLEAN : Unlinked(fails)
    \/ AcquireEnds

AcquireKilled ==
    /\ acquiring.pc # "idle"
    /\ acquiring' = NotAcquiring
    /\ orphan' = (orphan \/ audio # "none")
    /\ UNCHANGED <<meta, audio>>

-----------------------------------------------------------------------------
(* orphan_media_hours go by.                                                *)
AudioAges ==
    /\ audio = "new"
    /\ audio' = "old"
    /\ UNCHANGED <<meta, acquiring, orphan>>

(* sweep_orphaned_media: whatever is old, whoever uses it.                  *)
Sweep ==
    /\ audio = "old"
    /\ audio' = "none"
    /\ UNCHANGED <<meta, acquiring, orphan>>

AcquireNext == AcquireStep \/ AcquireKilled \/ AudioAges \/ Sweep

AcquireSpec == AcquireInit /\ [][AcquireNext]_acquireVars

-----------------------------------------------------------------------------
(* There are captions to take: written by hand, or by machine in the        *)
(* video's own language and at least this dense.                            *)
Suits(floor) ==
    \/ Pick(meta.manual) # NoLang
    \/ /\ Pick(meta.auto) # NoLang
       /\ ~Translated(Pick(meta.auto))
       /\ meta.density >= floor

(* A tier is taken only for what it is, and passed only when it gave        *)
(* nothing (ladder.py:68-109, 112-185, transcript.py:105-142).  Captions    *)
(* are never those of a forced run; degraded only when the settings allow   *)
(* it and the probe found the worker asleep; by machine only when none by   *)
(* hand are offered, never a translation, thinner than the floor only when  *)
(* degraded.  The worker is asked, or the video is parked, only for a run   *)
(* that was forced, captions whose fetch failed, or captions that do not    *)
(* suit, by the lower floor where the worker sleeps; and a worker that is   *)
(* asked has answered the probe.                                            *)
TiersAreEarned ==
    ~meta.wired =>
        /\ acquiring.tier \in {"T0", "T1"} =>
              /\ ~acquiring.forced
              /\ acquiring.degraded => Degrade /\ acquiring.worker = "down"
              /\ acquiring.tier = "T1" =>
                    /\ Pick(meta.manual) = NoLang
                    /\ ~Translated(Pick(meta.auto))
                    /\ meta.density >= IF acquiring.degraded THEN 1 ELSE 2
        /\ acquiring.pc \in {"download", "transcribe", "unlink"} \/ acquiring.tier = "T2" =>
              /\ acquiring.worker = "up"
              /\ acquiring.forced \/ acquiring.unfetched \/ ~Suits(2)
        /\ acquiring.pc = "parked" =>
              \/ acquiring.forced \/ acquiring.unfetched
              \/ ~Suits(IF Degrade /\ acquiring.worker = "down" THEN 1 ELSE 2)

(* Outside an acquisition there is an audio file only where a kill left it, *)
(* which is what the sweep is for: transcribed, parked or failed, a file is *)
(* removed (transcript.py:132-146, cleanup.py:31-55).                       *)
AudioHasOwner ==
    audio # "none" /\ ~KeepAudio =>
        orphan \/ acquiring.pc \in {"transcribe", "unlink"}
=============================================================================
