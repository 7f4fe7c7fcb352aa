------------------------------- MODULE Vault -------------------------------
(***************************************************************************)
(* The activities that share the vault, over the client of LiveSync:       *)
(*   - poll_inbox, which moves finished lines from the queue note to the   *)
(*     completed note                               (pipeline/inbox.py);   *)
(*   - write_video_note, for the runner's S5 and for a rewrite request     *)
(*                                                  (pipeline/write.py);   *)
(*   - people, who paste URLs, write on topic pages, delete notes.         *)
(* A line with a playlist URL stands for several videos.  A note's text is *)
(* the set of its items: the order of lines and the date headings of the   *)
(* completed note are left out.                                            *)
(***************************************************************************)
EXTENDS LiveSync

CONSTANTS
    Video,      \* videos that lines may name
    Line,       \* URLs that people may paste
    VideosOf,   \* the videos a URL resolves to
    Writer,     \* write_video_note calls that may be in progress at once
    Poller,     \* poll_inbox; max_instances = 1
    Person,     \* prose that people may write on the topic page
    MaxEdits    \* BOUND: deletions and emptied notes

QueueNote      == <<"queue", None>>
CompletedNote  == <<"completed", None>>
TopicNote      == <<"topic", None>>
DigestNote(v)  == <<"digest", v>>

Placeholder == <<"placeholder", None>>
Url(l)      == <<"url", l>>
Link(v)     == <<"link", v>>
Body(v)     == <<"body", v>>
Section(v)  == <<"section", v>>
Alias(v)    == <<"alias", v>>
Title(v)    == <<"title", v>>
Prose(p)    == <<"prose", p>>

ASSUME VaultAssumption ==
    /\ Client = {Poller} \cup Writer
    /\ Poller \notin Writer
    /\ VideosOf \in [Line -> SUBSET Video]
    /\ \A l \in Line : VideosOf[l] # {}
    /\ MaxEdits \in Nat
    /\ Note = {QueueNote, CompletedNote, TopicNote} \cup {DigestNote(v) : v \in Video}
    /\ Owned = {Section(v) : v \in Video} \cup {Alias(v) : v \in Video}
    /\ Seeds = {Title(v) : v \in Video}
    /\ Item = Owned \cup Seeds \cup {Placeholder}
              \cup {Url(l) : l \in Line} \cup {Prose(p) : p \in Person}
              \cup {Link(v) : v \in Video} \cup {Body(v) : v \in Video}

VARIABLES
    known,    \* videos with a row: enqueue has accepted them
    noted,    \* videos whose row has a note_path
    poll,     \* poll_inbox, its locals
    writer,   \* write_video_note, its locals
    pasted,   \* lines people have put into the queue (BOUND: each once)
    edits     \* BOUND: edits left

dbVars == <<known, noted>>
vars == <<entries, client, known, noted, poll, writer, pasted, edits>>

(* seen: the note read last.  text: what the queue is to become.            *)
(* finished: the lines taken out of it, on their way to the completed note. *)
PollState == [pc : {"idle", "read", "restore", "queue", "list", "append"},
              seen : Text, text : Text, finished : Text]

WriterState == [pc : {"idle", "digest", "look", "topic"},
                video : Video \cup {None}, aliases : Text]

IdlePoll   == [pc |-> "idle", seen |-> {}, text |-> {}, finished |-> {}]
IdleWriter == [pc |-> "idle", video |-> None, aliases |-> {}]

TypeOK ==
    /\ LiveSyncTypeOK
    /\ known \subseteq Video /\ noted \subseteq known
    /\ poll \in PollState
    /\ writer \in [Writer -> WriterState]
    /\ pasted \subseteq Item
    /\ edits \in 0 .. MaxEdits

Init ==
    /\ LiveSyncInit
    /\ known = {} /\ noted = {}
    /\ poll = IdlePoll
    /\ writer = [w \in Writer |-> IdleWriter]
    /\ pasted = {}
    /\ edits = MaxEdits

Read(n) == [op |-> "read", note |-> n, ours |-> {}, revive |-> FALSE]
Put(n, text) == [op |-> "put", note |-> n, ours |-> text, revive |-> FALSE]
PutBack(n, text) == [op |-> "put", note |-> n, ours |-> text, revive |-> TRUE]
MergeInto(n, text) == [op |-> "merge", note |-> n, ours |-> text, revive |-> FALSE]

-----------------------------------------------------------------------------
(* poll_inbox.                                                              *)

PollOnly == UNCHANGED <<writer, pasted, edits>>

(* An empty queue keeps one line of text: a 0-byte note is gone.            *)
OrPlaceholder(text) == IF text = {} THEN {Placeholder} ELSE text

Returned(c) == client[c].pc = "returned"

(* Mutant: the queue is not restored if it was deleted.                     *)
PollCallRespects ==
    CASE poll.pc = "idle"    -> Read(QueueNote)
      [] poll.pc = "restore" -> Put(QueueNote, {Placeholder})
      [] poll.pc = "queue"   -> Put(QueueNote, poll.text)
      [] poll.pc = "list"    -> Read(CompletedNote)
      [] poll.pc = "append"  -> Put(CompletedNote, poll.seen \cup poll.finished)

(* The call each point of poll_inbox waits for.                             *)
PollCall ==
    CASE poll.pc = "idle"    -> Read(QueueNote)
      [] poll.pc = "restore" -> PutBack(QueueNote, {Placeholder})
      [] poll.pc = "queue"   -> Put(QueueNote, poll.text)
      [] poll.pc = "list"    -> Read(CompletedNote)
      [] poll.pc = "append"  -> Put(CompletedNote, poll.seen \cup poll.finished)

PollBegins ==
    /\ poll.pc # "read"
    /\ Begin(Poller, PollCall)
    /\ poll' = IF poll.pc = "idle" THEN [poll EXCEPT !.pc = "read"] ELSE poll
    /\ UNCHANGED dbVars /\ PollOnly

(* Missing, deleted, torn or blank: put it back and leave it at that.       *)
PollFindsNoQueue ==
    /\ poll.pc = "read" /\ Returned(Poller)
    /\ client[Poller].seen \in {None, {}}
    /\ Ends(Poller)
    /\ poll' = [poll EXCEPT !.pc = "restore"]
    /\ UNCHANGED dbVars /\ PollOnly

(* Mutant: a URL is left to become a link by other means.                   *)
ResolvedLinksOnly(item, accepted) ==
    IF item \in {Link(v) : v \in Video} THEN {item} ELSE {}

(* _resolve_line: what a line becomes in the completed note, {} while it    *)
(* has to stay.  `accepted` are the lines whose enqueue did not raise.      *)
Resolved(item, accepted) ==
    IF item \in {Link(v) : v \in Video} THEN {item}
    ELSE UNION {IF item = Url(l) /\ VideosOf[l] \subseteq noted
                THEN {Link(v) : v \in VideosOf[l]} ELSE {} : l \in accepted}

(* Every line is resolved, and every new URL enqueued, without an await.    *)
PollResolves ==
    /\ poll.pc = "read" /\ Returned(Poller)
    /\ client[Poller].seen \notin {None, {}}
    /\ Ends(Poller)
    /\ LET current == client[Poller].seen IN
       \E accepted \in SUBSET {l \in Line : Url(l) \in current} :
          LET done == {i \in current : Resolved(i, accepted) # {}} IN
          /\ known' = known \cup UNION {VideosOf[l] : l \in accepted}
          /\ poll' = IF done = {} THEN IdlePoll
                     ELSE [pc |-> "queue", seen |-> current,
                           text |-> OrPlaceholder(current \ done),
                           finished |-> UNION {Resolved(i, accepted) : i \in done}]
    /\ UNCHANGED noted /\ PollOnly

(* The queue has been rewritten, or its deletion was respected.             *)
PollMoves ==
    /\ poll.pc = "queue" /\ Returned(Poller)
    /\ Ends(Poller)
    /\ poll' = [poll EXCEPT !.pc = "list", !.seen = {}, !.text = {}]
    /\ UNCHANGED dbVars /\ PollOnly

(* A completed note that cannot be read is taken for an empty one.          *)
PollLists ==
    /\ poll.pc = "list" /\ Returned(Poller)
    /\ Ends(Poller)
    /\ poll' = [poll EXCEPT !.pc = "append",
                            !.seen = IF client[Poller].seen = None THEN {}
                                     ELSE client[Poller].seen]
    /\ UNCHANGED dbVars /\ PollOnly

PollEnds ==
    /\ poll.pc \in {"restore", "append"} /\ Returned(Poller)
    /\ Ends(Poller)
    /\ poll' = IdlePoll
    /\ UNCHANGED dbVars /\ PollOnly

(* Mutant: a rewrite of the queue that fails is logged, and the poll goes on.*)
PollRaisesLate ==
    /\ client[Poller].pc = "raised"
    /\ Ends(Poller)
    /\ poll' = IF poll.pc = "queue" THEN [poll EXCEPT !.pc = "list", !.seen = {}]
               ELSE IdlePoll
    /\ UNCHANGED dbVars /\ PollOnly

(* VaultUnavailable ends the poll wherever it was.                          *)
PollRaises ==
    /\ client[Poller].pc = "raised"
    /\ Ends(Poller)
    /\ poll' = IdlePoll
    /\ UNCHANGED dbVars /\ PollOnly

PollStep ==
    \/ PollBegins \/ PollFindsNoQueue \/ PollResolves \/ PollMoves
    \/ PollLists \/ PollEnds \/ PollRaises

-----------------------------------------------------------------------------
(* write_video_note.                                                        *)

WriterOnly == UNCHANGED <<poll, pasted, edits>>

WriterGoes(w, pc) == writer' = [writer EXCEPT ![w].pc = pc]

(* Mutants: a row is not needed; the commit comes before the pages.         *)
WriterStartsUnknown(w, v) ==
    /\ writer[w].pc = "idle"
    /\ Begin(w, Put(DigestNote(v), {Body(v)}))
    /\ writer' = [writer EXCEPT ![w] = [IdleWriter EXCEPT !.pc = "digest",
                                                          !.video = v]]
    /\ UNCHANGED dbVars /\ WriterOnly
WriterCommitsEarly(w, v) ==
    /\ writer[w].pc = "idle"
    /\ v \in known
    /\ Begin(w, Put(DigestNote(v), {Body(v)}))
    /\ writer' = [writer EXCEPT ![w] = [IdleWriter EXCEPT !.pc = "digest",
                                                          !.video = v]]
    /\ noted' = noted \cup {v}
    /\ UNCHANGED known /\ WriterOnly

WriterStarts(w, v) ==
    /\ writer[w].pc = "idle"
    /\ v \in known
    /\ Begin(w, Put(DigestNote(v), {Body(v)}))
    /\ writer' = [writer EXCEPT ![w] = [IdleWriter EXCEPT !.pc = "digest",
                                                          !.video = v]]
    /\ UNCHANGED dbVars /\ WriterOnly

(* _update_topic_page's own fields of the page: this video's section, and   *)
(* the spellings of the topic that other videos have used.                  *)
TopicRegion(w) ==
    {Section(writer[w].video), Title(writer[w].video)} \cup writer[w].aliases

WriterBegins(w) ==
    /\ \/ /\ writer[w].pc = "look"
          /\ Begin(w, Read(TopicNote))
       \/ /\ writer[w].pc = "topic"
          /\ Begin(w, MergeInto(TopicNote, TopicRegion(w)))
    /\ UNCHANGED <<writer, known, noted>> /\ WriterOnly

(* The note is in the vault, or its deletion was respected.                 *)
WriterProjects(w) ==
    /\ writer[w].pc = "digest" /\ Returned(w)
    /\ Ends(w)
    /\ WriterGoes(w, "look")
    /\ UNCHANGED dbVars /\ WriterOnly

(* The page's aliases, and this video's spelling if the page's title is     *)
(* another's.                                                               *)
AliasesOn(page, v) ==
    (page \cap {Alias(u) : u \in Video})
    \cup (IF \E u \in Video \ {v} : Title(u) \in page THEN {Alias(v)} ELSE {})

WriterLooks(w) ==
    /\ writer[w].pc = "look" /\ Returned(w)
    /\ Ends(w)
    /\ writer' = [writer EXCEPT
                    ![w].pc = "topic",
                    ![w].aliases =
                        IF client[w].seen = None THEN {}
                        ELSE AliasesOn(client[w].seen, writer[w].video)]
    /\ UNCHANGED dbVars /\ WriterOnly

(* The last page is written: the commit that sets note_path.                *)
WriterCommits(w) ==
    /\ writer[w].pc = "topic" /\ Returned(w)
    /\ Ends(w)
    /\ noted' = noted \cup {writer[w].video}
    /\ writer' = [writer EXCEPT ![w] = IdleWriter]
    /\ UNCHANGED known /\ WriterOnly

(* VaultUnavailable: the S5 of a job is deferred, a rewrite answers 503.    *)
WriterRaises(w) ==
    /\ client[w].pc = "raised"
    /\ Ends(w)
    /\ writer' = [writer EXCEPT ![w] = IdleWriter]
    /\ UNCHANGED dbVars /\ WriterOnly

WriterStep ==
    \E w \in Writer :
        \/ \E v \in Video : WriterStarts(w, v)
        \/ WriterBegins(w) \/ WriterProjects(w) \/ WriterLooks(w)
        \/ WriterCommits(w) \/ WriterRaises(w)

-----------------------------------------------------------------------------
(* The requests, one at a time.                                             *)

VaultStep ==
    /\ \E c \in Client : ClientStep(c)
    /\ UNCHANGED <<known, noted, poll, writer, pasted, edits>>

(* People, through Obsidian and its LiveSync plugin.                        *)

PersonOnly == UNCHANGED <<known, noted, poll, writer>>

(* What the vault's readers see of a note, and could add to.                *)
Shown(n) == IF entries[n].state = "live" THEN entries[n].text ELSE {}

(* The chunk of a text exists already: the entry cannot arrive ahead of it. *)
ChunkExists(text) ==
    \/ \E n \in Note : entries[n].whole /\ entries[n].text = text
    \/ \E c \in Client : client[c].stored /\ client[c].text = text

PersonWrites(n, text) ==
    \E whole \in BOOLEAN :
        /\ ChunkExists(text) => whole
        /\ OtherClient(n, [state |-> "live", text |-> text, whole |-> whole])

PersonPastes(l) ==
    /\ Url(l) \notin pasted
    /\ pasted' = pasted \cup {Url(l)}
    /\ PersonWrites(QueueNote, Shown(QueueNote) \cup {Url(l)})
    /\ UNCHANGED edits /\ PersonOnly

(* A wikilink in the queue, from before the completed note existed.         *)
PersonLinks(v) ==
    /\ edits > 0
    /\ edits' = edits - 1
    /\ v \in noted
    /\ Link(v) \notin pasted
    /\ pasted' = pasted \cup {Link(v)}
    /\ PersonWrites(QueueNote, Shown(QueueNote) \cup {Link(v)})
    /\ PersonOnly

PersonAdds(p) ==
    /\ edits > 0
    /\ edits' = edits - 1
    /\ Prose(p) \notin Shown(TopicNote)
    /\ PersonWrites(TopicNote, Shown(TopicNote) \cup {Prose(p)})
    /\ UNCHANGED pasted /\ PersonOnly

PersonEmpties ==
    /\ edits > 0
    /\ edits' = edits - 1
    /\ entries[QueueNote].state = "live"
    /\ OtherClient(QueueNote, Whole({}))
    /\ UNCHANGED pasted /\ PersonOnly

(* A deletion in Obsidian, or a document really deleted by another client.  *)
PersonDeletes(n) ==
    /\ edits > 0
    /\ edits' = edits - 1
    /\ \/ SoftDelete(n)
       \/ /\ n \in {QueueNote, CompletedNote, TopicNote}
          /\ entries[n].state # "absent"
          /\ OtherClient(n, NoEntry)
    /\ UNCHANGED pasted /\ PersonOnly

Arrives ==
    /\ \E n \in Note : ChunkArrives(n)
    /\ UNCHANGED <<known, noted, poll, writer, pasted, edits>>

PersonStep ==
    \/ \E l \in Line : PersonPastes(l)
    \/ \E v \in Video : PersonLinks(v)
    \/ \E p \in Person : PersonAdds(p)
    \/ PersonEmpties
    \/ \E n \in Note : PersonDeletes(n)

(* The process is killed: the database and the vault stay.                  *)
Kill ==
    /\ Killed
    /\ poll' = IdlePoll
    /\ writer' = [w \in Writer |-> IdleWriter]
    /\ UNCHANGED <<known, noted, pasted, edits>>

Step == PollStep \/ WriterStep \/ VaultStep \/ PersonStep \/ Arrives

Next == Step \/ Kill

Spec == Init /\ [][Next]_vars

-----------------------------------------------------------------------------
(* Safety.                                                                  *)

(* A link on its way to the completed note, or on it, is to a video whose   *)
(* digest note has been in the vault: the note lands before the commit that *)
(* sets note_path, and the poll reads note_path (write.py:317-337,          *)
(* inbox.py:192-197).                                                       *)
LinkHasNote ==
    \A v \in Video :
        Link(v) \in poll.finished \cup entries[CompletedNote].text =>
            v \in noted /\ entries[DigestNote(v)].state # "absent"

(* A line whose videos are on the completed note is no longer in the queue, *)
(* unless people have put them into the queue twice: however polls fail,    *)
(* are killed and are retried, no line is filed twice (inbox.py:97-103).    *)
Names(item, v) == item = Link(v) \/ \E l \in Line : item = Url(l) /\ v \in VideosOf[l]

LineHasOneHome ==
    \A l \in Line :
        (/\ Url(l) \in Shown(QueueNote)
         /\ \A v \in VideosOf[l] : Link(v) \in entries[CompletedNote].text)
        => \E item \in pasted \ {Url(l)}, v \in VideosOf[l] : Names(item, v)

Lands(c, n) == /\ ~client[c].landed /\ client'[c].landed
               /\ client[c].ask.note = n

(* A deleted note stays deleted, but for the queue, which comes back with   *)
(* no line in it: a rewrite of the queue that meets the deletion does not   *)
(* (livesync.py:287-296, inbox.py:68-76,97).                                *)
DeletionIsRespected ==
    [][\A c \in Client, n \in Note :
            Lands(c, n) /\ entries[n].state = "deleted" =>
                n = QueueNote /\ entries'[n].text = {Placeholder}]_vars

(* All that was not this service's on a topic page when it was read is in   *)
(* the page that is written for it, whatever happened to the page since,    *)
(* and on whatever conflict or retry it lands (notes.py:120-154,            *)
(* livesync.py:221-229, 277-304).  Not so what others put there after the   *)
(* read, which is overwritten, nor a page that could not be read, which is  *)
(* replaced whole.                                                          *)
MergeKeepsOthers ==
    [][\A c \in Client :
            Lands(c, TopicNote) /\ client[c].seen # None =>
                client[c].seen \ Owned \subseteq entries'[TopicNote].text]_vars

(* Documented in inbox.py:6-13: a line stays in the queue untouched, or is  *)
(* removed from it and appended to the completed note.  So whatever the     *)
(* service does, and wherever it is killed, a line that people have put     *)
(* into the queue is in the queue, with the poll, or, as its links, on the  *)
(* completed note.                                                          *)
OnTheWay ==
    IF poll.pc = "append" /\ client[Poller].landed THEN {} ELSE poll.finished

HasHome(l) ==
    \/ Url(l) \in Shown(QueueNote)
    \/ \A v \in VideosOf[l] : Link(v) \in OnTheWay \cup Shown(CompletedNote)

LineIsKept ==
    [][PersonStep \/ \A l \in Line : HasHome(l) => HasHome(l)']_vars

-----------------------------------------------------------------------------
(* Liveness.  The scheduler polls again and again (scheduler.py:97-105);    *)
(* that CouchDB answers often enough for a poll to get through, and that a  *)
(* known URL is accepted, is the environment's part.                        *)
Answered(c) ==
    /\ SF_vars(ReadReturns(c) /\ VaultStep)
    /\ SF_vars(PutChunk(c) /\ VaultStep)
    /\ SF_vars(PutEntry(c) /\ VaultStep)
    /\ SF_vars(PutEntryConflict(c) /\ VaultStep)
    /\ SF_vars(GetConflict(c) /\ VaultStep)
    /\ SF_vars(PutRevision(c) /\ VaultStep)
    /\ SF_vars(PutRevisionConflict(c) /\ VaultStep)

Fairness == /\ WF_vars(PollStep)
            /\ SF_vars(PollResolves /\ poll'.pc = "queue")
            /\ Answered(Poller)

FairSpec == Spec /\ Fairness

KillsStop == <>[][Step]_vars

(* A queue note that was deleted or emptied is put back, so that there is   *)
(* somewhere to paste into (inbox.py:68-76,106-109).                        *)
QueueComesBack ==
    KillsStop => <>[](Shown(QueueNote) # {})

(* A line whose videos all have notes leaves the queue (inbox.py:11-20).    *)
FinishedLineLeaves ==
    KillsStop =>
        \A l \in Line :
            (Url(l) \in Shown(QueueNote) /\ VideosOf[l] \subseteq noted)
            ~> Url(l) \notin Shown(QueueNote)
=============================================================================
