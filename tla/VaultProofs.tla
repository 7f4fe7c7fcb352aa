---------------------------- MODULE VaultProofs ----------------------------
(***************************************************************************)
(* The composition of the poll, the writers and the people who own the     *)
(* vault: it uses the client of LiveSync as LiveSyncProofs assumes, for    *)
(* any number of videos, lines, writers and edits.                         *)
(***************************************************************************)
EXTENDS Vault, LiveSyncProofs

(* A writer at work has a video with a row.                                 *)
WriterHasRow == \A w \in Writer : writer[w].pc # "idle" => writer[w].video \in known

VaultInv == TypeOK /\ LiveSyncInv /\ WriterHasRow

-----------------------------------------------------------------------------
(* Every step is a step of LiveSync.                                        *)

(* The calls that the service makes.                                        *)
LEMMA CallsAreCalls ==
    ASSUME NEW n \in Note, NEW text \in Text
    PROVE  /\ Read(n) \in Call /\ Put(n, text) \in Call
           /\ PutBack(n, text) \in Call /\ MergeInto(n, text) \in Call
BY DEF Read, Put, PutBack, MergeInto, Call, Text

LEMMA ItemsAreText ==
    /\ \A v \in Video : /\ DigestNote(v) \in Note
                        /\ {Body(v)} \in Text /\ {Alias(v)} \in Text
                        /\ {Section(v), Title(v)} \in Text /\ {Link(v)} \in Text
    /\ \A l \in Line : {Url(l)} \in Text
    /\ \A p \in Person : {Prose(p)} \in Text
    /\ {Placeholder} \in Text /\ {} \in Text
    /\ QueueNote \in Note /\ CompletedNote \in Note /\ TopicNote \in Note
    /\ Poller \in Client /\ Writer \subseteq Client
<1> USE VaultAssumption
<1>1. \A v \in Video : /\ DigestNote(v) \in Note
                       /\ Body(v) \in Item /\ Alias(v) \in Item
                       /\ Section(v) \in Item /\ Title(v) \in Item /\ Link(v) \in Item
  OBVIOUS
<1>2. /\ \A l \in Line : Url(l) \in Item
      /\ \A p \in Person : Prose(p) \in Item
      /\ Placeholder \in Item
  OBVIOUS
<1>3. /\ QueueNote \in Note /\ CompletedNote \in Note /\ TopicNote \in Note
      /\ Poller \in Client /\ Writer \subseteq Client
  OBVIOUS
<1> QED
  BY <1>1, <1>2, <1>3 DEF Text

LEMMA UnionsAreText ==
    ASSUME NEW a \in Text, NEW b \in Text
    PROVE  a \cup b \in Text
BY DEF Text

LEMMA ShownIsText ==
    ASSUME LiveSyncTypeOK, NEW n \in Note
    PROVE  Shown(n) \in Text
BY DEF LiveSyncTypeOK, Shown, Entry, Text

LEMMA PollCallIsCall ==
    ASSUME TypeOK, poll.pc # "read"
    PROVE  PollCall \in Call
<1>1. poll.pc \in {"idle", "restore", "queue", "list", "append"}
  BY DEF TypeOK, PollState
<1>2. /\ poll.text \in Text /\ poll.seen \cup poll.finished \in Text
  BY UnionsAreText DEF TypeOK, PollState
<1> QED
  BY <1>1, <1>2, CallsAreCalls, ItemsAreText DEF PollCall

LEMMA RegionIsText ==
    ASSUME VaultInv, NEW w \in Writer, writer[w].pc # "idle"
    PROVE  TopicRegion(w) \in Text
<1>1. writer[w].video \in Video /\ writer[w].aliases \in Text
  BY DEF VaultInv, WriterHasRow, TypeOK, WriterState
<1> QED
  BY <1>1, ItemsAreText, UnionsAreText DEF TopicRegion

LEMMA PersonWritesStep ==
    ASSUME LiveSyncTypeOK, NEW n \in Note, NEW text \in Text, PersonWrites(n, text)
    PROVE  LiveSyncNext
<1>1. PICK whole \in BOOLEAN :
        OtherClient(n, [state |-> "live", text |-> text, whole |-> whole])
  BY DEF PersonWrites
<1>2. [state |-> "live", text |-> text, whole |-> whole] \in Entry
  BY DEF Entry
<1> QED
  BY <1>1, <1>2 DEF LiveSyncNext

LEMMA PersonStepStep ==
    ASSUME LiveSyncTypeOK, PersonStep
    PROVE  LiveSyncNext
<1>1. ASSUME NEW n \in Note, NEW i, {i} \in Text, PersonWrites(n, Shown(n) \cup {i})
      PROVE  LiveSyncNext
  BY <1>1, ShownIsText, UnionsAreText, PersonWritesStep
<1>2. ASSUME NEW n \in Note, NEW entry \in Entry, OtherClient(n, entry)
      PROVE  LiveSyncNext
  BY <1>2 DEF LiveSyncNext
<1>3. ASSUME NEW l \in Line, PersonPastes(l) PROVE LiveSyncNext
  BY <1>1, <1>3, ItemsAreText DEF PersonPastes
<1>4. ASSUME NEW v \in Video, PersonLinks(v) PROVE LiveSyncNext
  BY <1>1, <1>4, ItemsAreText DEF PersonLinks
<1>5. ASSUME NEW p \in Person, PersonAdds(p) PROVE LiveSyncNext
  BY <1>1, <1>5, ItemsAreText DEF PersonAdds
<1>6. CASE PersonEmpties
  <2>1. Whole({}) \in Entry
    BY ItemsAreText DEF Whole, Entry
  <2> QED
    BY <1>2, <1>6, <2>1, ItemsAreText DEF PersonEmpties
<1>7. ASSUME NEW n \in Note, PersonDeletes(n) PROVE LiveSyncNext
  <2>1. NoEntry \in Entry /\ [entries[n] EXCEPT !.state = "deleted"] \in Entry
    BY ItemsAreText DEF NoEntry, Entry, LiveSyncTypeOK
  <2> QED
    BY <1>2, <1>7, <2>1 DEF PersonDeletes, SoftDelete
<1> QED
  BY <1>3, <1>4, <1>5, <1>6, <1>7 DEF PersonStep

LEMMA PollStepStep ==
    ASSUME VaultInv, PollStep
    PROVE  LiveSyncNext
<1>1. CASE PollBegins
  BY <1>1, PollCallIsCall, ItemsAreText DEF PollBegins, LiveSyncNext, VaultInv
<1>2. CASE Ends(Poller)
  BY <1>2, ItemsAreText DEF LiveSyncNext
<1> QED
  BY <1>1, <1>2 DEF PollStep, PollFindsNoQueue, PollResolves, PollMoves, PollLists,
                    PollEnds, PollRaises

LEMMA WriterStepStep ==
    ASSUME VaultInv, WriterStep
    PROVE  LiveSyncNext
<1>1. PICK w \in Writer :
        \/ \E v \in Video : WriterStarts(w, v)
        \/ WriterBegins(w) \/ WriterProjects(w) \/ WriterLooks(w)
        \/ WriterCommits(w) \/ WriterRaises(w)
  BY DEF WriterStep
<1>2. w \in Client
  BY ItemsAreText
<1>3. ASSUME NEW v \in Video, WriterStarts(w, v) PROVE LiveSyncNext
  BY <1>2, <1>3, CallsAreCalls, ItemsAreText DEF WriterStarts, LiveSyncNext
<1>4. CASE WriterBegins(w)
  <2>1. TopicRegion(w) \in Text
    BY <1>4, RegionIsText DEF WriterBegins
  <2>2. Read(TopicNote) \in Call /\ MergeInto(TopicNote, TopicRegion(w)) \in Call
    BY <2>1, CallsAreCalls, ItemsAreText
  <2> QED
    BY <1>2, <1>4, <2>2 DEF WriterBegins, LiveSyncNext
<1>5. CASE Ends(w)
  BY <1>2, <1>5 DEF LiveSyncNext
<1> QED
  BY <1>1, <1>3, <1>4, <1>5 DEF WriterProjects, WriterLooks, WriterCommits, WriterRaises

LEMMA VaultStepIsLiveSync ==
    ASSUME VaultInv, [Next]_vars
    PROVE  [LiveSyncNext]_liveSyncVars
<1>1. CASE VaultStep
  BY <1>1 DEF VaultStep, LiveSyncNext
<1>2. CASE Arrives
  BY <1>2 DEF Arrives, LiveSyncNext
<1>3. CASE Kill
  BY <1>3 DEF Kill, LiveSyncNext
<1>4. CASE UNCHANGED vars
  BY <1>4 DEF vars, liveSyncVars
<1> QED
  BY <1>1, <1>2, <1>3, <1>4, PollStepStep, WriterStepStep, PersonStepStep
  DEF Next, Step, VaultInv, TypeOK

-----------------------------------------------------------------------------
(* The locals of the poll and of the writers.                               *)

LEMMA ResolvedIsText ==
    ASSUME NEW item \in Item, NEW accepted \in SUBSET Line
    PROVE  Resolved(item, accepted) \in Text
<1>1. CASE item \in {Link(v) : v \in Video}
  BY <1>1 DEF Resolved, Text
<1>2. CASE item \notin {Link(v) : v \in Video}
  <2>1. \A l \in accepted : {Link(v) : v \in VideosOf[l]} \subseteq Item
    BY VaultAssumption
  <2> QED
    BY <1>2, <2>1 DEF Resolved, Text
<1> QED
  BY <1>1, <1>2

LEMMA PollStepTypes ==
    ASSUME VaultInv, PollStep
    PROVE  poll' \in PollState /\ known' \subseteq Video /\ known \subseteq known'
           /\ UNCHANGED <<noted, writer, pasted, edits>>
<1> USE DEF VaultInv, TypeOK, PollOnly, dbVars
<1>0. IdlePoll \in PollState
  BY ItemsAreText DEF IdlePoll, PollState
<1>1. CASE PollBegins
  BY <1>1 DEF PollBegins, PollState
<1>2. CASE PollFindsNoQueue
  BY <1>2 DEF PollFindsNoQueue, PollState
<1>3. CASE PollResolves
  <2> DEFINE current == client[Poller].seen
  <2>1. PICK accepted \in SUBSET {l \in Line : Url(l) \in current} :
          LET done == {i \in current : Resolved(i, accepted) # {}} IN
          /\ known' = known \cup UNION {VideosOf[l] : l \in accepted}
          /\ poll' = IF done = {} THEN IdlePoll
                     ELSE [pc |-> "queue", seen |-> current,
                           text |-> OrPlaceholder(current \ done),
                           finished |-> UNION {Resolved(i, accepted) : i \in done}]
    BY <1>3 DEF PollResolves
  <2>2. current \in Text
    BY <1>3, ItemsAreText DEF PollResolves, LiveSyncTypeOK, ClientState
  <2> HIDE DEF current
  <2> DEFINE done == {i \in current : Resolved(i, accepted) # {}}
             finished == UNION {Resolved(i, accepted) : i \in done}
  <2>3. \A i \in done : Resolved(i, accepted) \subseteq Item
    BY <2>2, ResolvedIsText DEF Text
  <2>4. finished \in Text
    BY <2>3 DEF Text
  <2>5. OrPlaceholder(current \ done) \in Text
    BY <2>2, ItemsAreText DEF OrPlaceholder, Text
  <2>6. poll' = IF done = {} THEN IdlePoll
                ELSE [pc |-> "queue", seen |-> current,
                      text |-> OrPlaceholder(current \ done), finished |-> finished]
    BY <2>1
  <2> HIDE DEF done, finished
  <2>7. poll' \in PollState
    BY <1>0, <2>2, <2>4, <2>5, <2>6 DEF PollState
  <2>8. known' \subseteq Video
    BY <2>1, VaultAssumption
  <2> QED
    BY <1>3, <2>1, <2>7, <2>8 DEF PollResolves
<1>4. CASE PollMoves
  BY <1>4, ItemsAreText DEF PollMoves, PollState
<1>5. CASE PollLists
  BY <1>5, ItemsAreText DEF PollLists, PollState, LiveSyncTypeOK, ClientState
<1>6. CASE PollEnds \/ PollRaises
  BY <1>0, <1>6 DEF PollEnds, PollRaises
<1> QED
  BY <1>1, <1>2, <1>3, <1>4, <1>5, <1>6 DEF PollStep

LEMMA AliasesAreText ==
    ASSUME NEW page \in {None} \cup Text, NEW v \in Video
    PROVE  AliasesOn(page, v) \in Text
<1>1. page \cap {Alias(u) : u \in Video} \in Text
  BY VaultAssumption DEF Text
<1> QED
  BY <1>1, ItemsAreText, UnionsAreText DEF AliasesOn

LEMMA WriterStepTypes ==
    ASSUME VaultInv, WriterStep
    PROVE  /\ writer' \in [Writer -> WriterState] /\ WriterHasRow'
           /\ noted' \subseteq known
           /\ UNCHANGED <<known, poll, pasted, edits>>
<1> USE DEF VaultInv, TypeOK, WriterOnly, dbVars, WriterHasRow
<1>1. PICK w \in Writer :
        \/ \E v \in Video : WriterStarts(w, v)
        \/ WriterBegins(w) \/ WriterProjects(w) \/ WriterLooks(w)
        \/ WriterCommits(w) \/ WriterRaises(w)
  BY DEF WriterStep
<1>2. IdleWriter \in WriterState /\ IdleWriter.pc = "idle"
  BY ItemsAreText DEF IdleWriter, WriterState
<1>3. ASSUME NEW s \in WriterState, writer' = [writer EXCEPT ![w] = s],
             s.pc # "idle" => s.video \in known, UNCHANGED known
      PROVE  writer' \in [Writer -> WriterState] /\ WriterHasRow'
  BY <1>3
<1>k. UNCHANGED known
  BY <1>1 DEF WriterStarts, WriterBegins, WriterProjects, WriterLooks, WriterCommits,
              WriterRaises
<1>4. ASSUME NEW v \in Video, WriterStarts(w, v)
      PROVE  writer' \in [Writer -> WriterState] /\ WriterHasRow'
  <2> DEFINE s == [IdleWriter EXCEPT !.pc = "digest", !.video = v]
  <2>1. s \in WriterState /\ s.video \in known
    BY <1>2, <1>4 DEF WriterState, IdleWriter, WriterStarts
  <2>2. writer' = [writer EXCEPT ![w] = s]
    BY <1>4 DEF WriterStarts
  <2> HIDE DEF s
  <2> QED
    BY <1>3, <1>k, <2>1, <2>2
<1>5. ASSUME WriterProjects(w)
      PROVE  writer' \in [Writer -> WriterState] /\ WriterHasRow'
  <2> DEFINE s == [writer[w] EXCEPT !.pc = "look"]
  <2>1. s \in WriterState /\ s.video \in known
    BY <1>5 DEF WriterState, WriterProjects
  <2>2. writer' = [writer EXCEPT ![w] = s]
    BY <1>5 DEF WriterProjects, WriterGoes
  <2> HIDE DEF s
  <2> QED
    BY <1>3, <1>k, <2>1, <2>2
<1>6. ASSUME WriterLooks(w)
      PROVE  writer' \in [Writer -> WriterState] /\ WriterHasRow'
  <2> DEFINE aliases == IF client[w].seen = None THEN {}
                        ELSE AliasesOn(client[w].seen, writer[w].video)
             s == [writer[w] EXCEPT !.pc = "topic", !.aliases = aliases]
  <2>1. writer[w].video \in known /\ client[w].seen \in {None} \cup Text
    BY <1>6, ItemsAreText DEF WriterLooks, LiveSyncTypeOK, ClientState
  <2>2. aliases \in Text
    BY <2>1, AliasesAreText, ItemsAreText
  <2>3. writer' = [writer EXCEPT ![w] = s]
    BY <1>6 DEF WriterLooks
  <2> HIDE DEF aliases
  <2>4. s \in WriterState /\ s.video \in known
    BY <2>1, <2>2 DEF WriterState
  <2> HIDE DEF s
  <2> QED
    BY <1>3, <1>k, <2>3, <2>4
<1>7. ASSUME WriterCommits(w) \/ WriterRaises(w)
      PROVE  writer' \in [Writer -> WriterState] /\ WriterHasRow'
  BY <1>2, <1>3, <1>k, <1>7 DEF WriterCommits, WriterRaises
<1>8. ASSUME WriterBegins(w)
      PROVE  writer' \in [Writer -> WriterState] /\ WriterHasRow'
  BY <1>k, <1>8 DEF WriterBegins
<1>9. writer' \in [Writer -> WriterState] /\ WriterHasRow'
  BY <1>1, <1>4, <1>5, <1>6, <1>7, <1>8
<1>10. UNCHANGED <<known, poll, pasted, edits>>
  BY <1>k, <1>1 DEF WriterStarts, WriterBegins, WriterProjects, WriterLooks,
                    WriterCommits, WriterRaises
<1>11. noted' \subseteq known
  BY <1>1 DEF WriterStarts, WriterBegins, WriterProjects, WriterLooks, WriterCommits,
              WriterRaises
<1> QED
  BY <1>9, <1>10, <1>11

LEMMA PersonStepTypes ==
    ASSUME VaultInv, PersonStep
    PROVE  /\ pasted' \subseteq Item /\ edits' \in 0 .. MaxEdits
           /\ UNCHANGED <<known, noted, poll, writer>>
<1> USE ItemsAreText, VaultAssumption DEF VaultInv, TypeOK, PersonOnly, Text
<1>1. ASSUME NEW l \in Line, PersonPastes(l)
      PROVE  pasted' \subseteq Item /\ UNCHANGED <<edits, known, noted, poll, writer>>
  BY <1>1 DEF PersonPastes
<1>2. ASSUME NEW v \in Video, PersonLinks(v)
      PROVE  pasted' \subseteq Item /\ edits > 0 /\ edits' = edits - 1
             /\ UNCHANGED <<known, noted, poll, writer>>
  BY <1>2 DEF PersonLinks
<1>3. ASSUME NEW p \in Person, PersonAdds(p)
      PROVE  edits > 0 /\ edits' = edits - 1
             /\ UNCHANGED <<pasted, known, noted, poll, writer>>
  BY <1>3 DEF PersonAdds
<1>4. ASSUME NEW n \in Note, PersonDeletes(n)
      PROVE  edits > 0 /\ edits' = edits - 1
             /\ UNCHANGED <<pasted, known, noted, poll, writer>>
  BY <1>4 DEF PersonDeletes
<1>5. CASE PersonEmpties
  BY <1>5 DEF PersonEmpties
<1> QED
  BY <1>1, <1>2, <1>3, <1>4, <1>5 DEF PersonStep

LEMMA VaultInitInv == Init => VaultInv
BY InitInv, VaultAssumption, ItemsAreText
DEF Init, VaultInv, TypeOK, LiveSyncInv, WriterHasRow, IdlePoll, PollState,
    IdleWriter, WriterState

LEMMA VaultNextInv == VaultInv /\ [Next]_vars => VaultInv'
<1> SUFFICES ASSUME VaultInv, [Next]_vars PROVE VaultInv'
  OBVIOUS
<1>1. LiveSyncInv'
  BY VaultStepIsLiveSync, NextInv DEF VaultInv
<1>2. LiveSyncTypeOK'
  BY <1>1 DEF LiveSyncInv
<1> USE DEF VaultInv, TypeOK, WriterHasRow
<1>3. CASE PollStep
  BY <1>1, <1>2, <1>3, PollStepTypes
<1>4. CASE WriterStep
  BY <1>1, <1>2, <1>4, WriterStepTypes
<1>5. CASE PersonStep
  BY <1>1, <1>2, <1>5, PersonStepTypes
<1>6. CASE VaultStep \/ Arrives
  BY <1>1, <1>2, <1>6 DEF VaultStep, Arrives
<1>7. CASE Kill
  <2>1. IdlePoll \in PollState /\ IdleWriter \in WriterState /\ IdleWriter.pc = "idle"
    BY ItemsAreText DEF IdlePoll, PollState, IdleWriter, WriterState
  <2> QED
    BY <1>1, <1>2, <1>7, <2>1 DEF Kill
<1>8. CASE UNCHANGED vars
  BY <1>1, <1>2, <1>8 DEF vars
<1> QED
  BY <1>3, <1>4, <1>5, <1>6, <1>7, <1>8 DEF Next, Step

(* Every call, entry and local of the poll and the writers is one the code  *)
(* can be in, and what a writer works on has a row.                         *)
THEOREM VaultInvariant == Spec => []VaultInv
<1>1. Init => VaultInv
  BY VaultInitInv
<1>2. VaultInv /\ [Next]_vars => VaultInv'
  BY VaultNextInv
<1> QED
  BY <1>1, <1>2, PTL DEF Spec

(* Each variable of the composition has its type.                           *)
THEOREM VaultTypeOK == Spec => []TypeOK
<1>1. VaultInv => TypeOK
  BY DEF VaultInv
<1> QED
  BY <1>1, VaultInvariant, PTL

(* What the service does to the vault, whoever calls, is what LiveSync does *)
(* (inbox.py and write.py only use project and read_note).                  *)
THEOREM VaultUsesLiveSync == Spec => LiveSyncSpec
<1>1. Init => LiveSyncInit
  BY DEF Init
<1>2. VaultInv /\ [Next]_vars => [LiveSyncNext]_liveSyncVars
  BY VaultStepIsLiveSync
<1> QED
  BY <1>1, <1>2, VaultInvariant, PTL DEF Spec, LiveSyncSpec

(* With the poll, the writers and people all at the same notes, a revision  *)
(* is only used for an entry that is still to be replaced                   *)
(* (livesync.py:281-303).                                                   *)
THEOREM VaultRevisionsGuard == Spec => []RevisionGuards
BY VaultUsesLiveSync, RevisionsGuard, PTL

(* And their calls are those of NoteStore (livesync.py:174-304).            *)
THEOREM VaultImplements == Spec => ImplementsNoteStore
BY VaultUsesLiveSync, LiveSyncImplements, PTL

-----------------------------------------------------------------------------
(* What the service asks for, and what its calls write.                     *)

(* The topic page is only ever merged, and only the queue is brought back.  *)
ProperAsk(ask) ==
    /\ ask.note = TopicNote => ask.op # "put"
    /\ ask.revive => ask = PutBack(QueueNote, {Placeholder})

(* What a call is to write is what it was asked to, or the merge of that    *)
(* with what it has read.                                                   *)
Proper(s) ==
    s.ask # None =>
        /\ ProperAsk(s.ask)
        /\ s.ask.op = "read" => s.text = None
        /\ s.ask.op = "put" => s.text = s.ask.ours
        /\ s.ask.op = "merge" /\ s.text # None => s.text = Merge(s.seen, s.ask.ours)

ProperCalls == \A c \in Client : Proper(client[c])

LEMMA StaleSees ==
    ASSUME NEW n, NEW s \in ClientState
    PROVE  Stale(n, s).seen = s.seen
BY DEF Stale, ClientState

(* A step of one client changes what a client has read or is to write only  *)
(* by reading.                                                              *)
ReadsNothing(d) == /\ client'[d].ask = client[d].ask
                   /\ client'[d].text = client[d].text
                   /\ client'[d].seen = client[d].seen

ReadsNote(d) == /\ client'[d].ask = client[d].ask /\ client[d].ask \in Call
                /\ client'[d].seen = Readable(entries[client[d].ask.note])
                /\ \/ client[d].ask.op = "read" /\ client'[d].text = client[d].text
                   \/ /\ client[d].ask.op = "merge"
                      /\ client'[d].text = Merge(client'[d].seen, client[d].ask.ours)

LEMMA ClientStepReads ==
    ASSUME LiveSyncInv, NEW c \in Client, ClientStep(c), NEW d \in Client
    PROVE  ReadsNothing(d) \/ ReadsNote(d)
<1> USE DEF LiveSyncInv, LiveSyncTypeOK
<1>1. ASSUME NEW next, Goes(c, next) \/ Store(c, next) PROVE ReadsNothing(d)
  BY <1>1 DEF Goes, Store, ReadsNothing, ClientState
<1>2. ASSUME NEW next, Write(c, next) PROVE ReadsNothing(d)
  <2>1. CASE d = c
    BY <1>2, <2>1 DEF Write, ReadsNothing, ClientState
  <2>2. CASE d # c
    BY <1>2, <2>2, StaleKeeps, StaleSees DEF Write, ReadsNothing
  <2> QED
    BY <2>1, <2>2
<1>3. CASE GetConflict(c)
  BY <1>3 DEF GetConflict, ReadsNothing, ClientState
<1>4. CASE ReadReturns(c) \/ ReadMerges(c)
  <2>1. client[c].ask \in Call
    BY <1>4 DEF ReadReturns, ReadMerges, Holds
  <2>2. CASE d # c
    BY <1>4, <2>2 DEF ReadReturns, ReadMerges, ReadsNothing
  <2>3. CASE d = c /\ ReadReturns(c)
    BY <2>1, <2>3 DEF ReadReturns, ReadsNote, ClientState
  <2>4. CASE d = c /\ ReadMerges(c)
    <3> DEFINE current == Readable(entries[client[c].ask.note])
               merged == Merge(current, client[c].ask.ours)
    <3>1. client' = [client EXCEPT
                        ![c].pc = IF current = merged THEN "returned" ELSE "chunk",
                        ![c].seen = current,
                        ![c].text = merged]
          /\ client[c].ask.op = "merge"
      BY <2>4 DEF ReadMerges
    <3> HIDE DEF merged
    <3>2. client'[c].seen = current /\ client'[c].text = merged
          /\ client'[c].ask = client[c].ask
      BY <3>1 DEF ClientState
    <3> QED
      BY <2>1, <2>4, <3>1, <3>2 DEF ReadsNote, merged
  <2> QED
    BY <1>4, <2>2, <2>3, <2>4
<1> QED
  BY <1>1, <1>2, <1>3, <1>4
  DEF ClientStep, PutChunk, PutEntry, PutEntryConflict, PutRevision,
      PutRevisionConflict, Unavailable, LandsUnanswered

LEMMA ClientStepProper ==
    ASSUME LiveSyncInv, ProperCalls, NEW c \in Client, ClientStep(c)
    PROVE  ProperCalls'
<1> SUFFICES ASSUME NEW d \in Client PROVE Proper(client'[d])
  BY DEF ProperCalls
<1>1. Proper(client[d])
  BY DEF ProperCalls
<1>2. CASE ReadsNothing(d)
  BY <1>1, <1>2 DEF ReadsNothing, Proper
<1>3. CASE ReadsNote(d)
  BY <1>1, <1>3 DEF ReadsNote, Proper
<1> QED
  BY <1>2, <1>3, ClientStepReads

LEMMA BeginProper ==
    ASSUME LiveSyncInv, ProperCalls, NEW c \in Client, NEW ask \in Call,
           Begin(c, ask), ProperAsk(ask)
    PROVE  ProperCalls'
<1> DEFINE put == ask.op = "put"
           s == [IdleClient EXCEPT !.ask = ask,
                                   !.pc = IF put THEN "chunk" ELSE "read",
                                   !.text = IF put THEN ask.ours ELSE None]
<1>1. client' = [client EXCEPT ![c] = s]
  BY DEF Begin
<1>2. s.ask = ask /\ s.text = IF put THEN ask.ours ELSE None
  BY DEF IdleClient
<1> HIDE DEF s
<1>3. Proper(s)
  BY <1>2 DEF Proper, Call
<1> QED
  BY <1>1, <1>3 DEF ProperCalls, LiveSyncInv, LiveSyncTypeOK

LEMMA EndsProper ==
    ASSUME LiveSyncInv, ProperCalls, NEW c \in Client, Ends(c)
    PROVE  ProperCalls'
BY DEF Ends, ProperCalls, Proper, IdleClient, LiveSyncInv, LiveSyncTypeOK

(* What others write makes a revision stale, and no more.                   *)
LEMMA StaleProper ==
    ASSUME LiveSyncInv, ProperCalls, NEW n \in Note, NEW entry,
           OtherClient(n, entry)
    PROVE  ProperCalls'
<1> SUFFICES ASSUME NEW d \in Client PROVE Proper(client'[d])
  BY DEF ProperCalls
<1>1. client[d] \in ClientState /\ client'[d] = Stale(n, client[d])
  BY DEF OtherClient, LiveSyncInv, LiveSyncTypeOK
<1> QED
  BY <1>1, StaleKeeps, StaleSees DEF ProperCalls, Proper

(* Notes are not each other.                                                *)
LEMMA NotesDiffer ==
    /\ QueueNote # CompletedNote /\ QueueNote # TopicNote /\ CompletedNote # TopicNote
    /\ \A v : DigestNote(v) \notin {QueueNote, CompletedNote, TopicNote}
    /\ \A u, v : DigestNote(u) = DigestNote(v) => u = v
BY DEF QueueNote, CompletedNote, TopicNote, DigestNote

LEMMA PollCallProper ==
    ASSUME TypeOK, poll.pc # "read"
    PROVE  ProperAsk(PollCall)
<1>1. poll.pc \in {"idle", "restore", "queue", "list", "append"}
  BY DEF TypeOK, PollState
<1> QED
  BY <1>1, NotesDiffer DEF PollCall, ProperAsk, Read, Put, PutBack

(* Every write to a note by others.                                         *)
LEMMA PersonStepOthers ==
    ASSUME PersonStep
    PROVE  \E n \in Note : \E entry : OtherClient(n, entry)
<1>1. ASSUME NEW n \in Note, NEW text, PersonWrites(n, text)
      PROVE  \E entry : OtherClient(n, entry)
  BY <1>1 DEF PersonWrites
<1> QED
  BY <1>1, ItemsAreText DEF PersonStep, PersonPastes, PersonLinks, PersonAdds,
     PersonEmpties, PersonDeletes, SoftDelete

LEMMA VaultNextProper ==
    ASSUME VaultInv, ProperCalls, [Next]_vars
    PROVE  ProperCalls'
<1> USE DEF VaultInv
<1>1. CASE PollBegins
  BY <1>1, PollCallIsCall, PollCallProper, BeginProper, ItemsAreText DEF PollBegins
<1>2. ASSUME NEW w \in Writer, NEW v \in Video, WriterStarts(w, v) PROVE ProperCalls'
  BY <1>2, BeginProper, NotesDiffer, ItemsAreText, CallsAreCalls
  DEF WriterStarts, ProperAsk, Put
<1>3. ASSUME NEW w \in Writer, WriterBegins(w) PROVE ProperCalls'
  <2>1. TopicRegion(w) \in Text /\ TopicNote \in Note /\ w \in Client
    BY <1>3, RegionIsText, ItemsAreText DEF WriterBegins
  <2>2. Read(TopicNote) \in Call /\ MergeInto(TopicNote, TopicRegion(w)) \in Call
    BY <2>1, CallsAreCalls, ItemsAreText
  <2>3. ProperAsk(Read(TopicNote)) /\ ProperAsk(MergeInto(TopicNote, TopicRegion(w)))
    BY DEF ProperAsk, Read, MergeInto
  <2> QED
    BY <1>3, <2>1, <2>2, <2>3, BeginProper DEF WriterBegins
<1>4. ASSUME NEW c \in Client, Ends(c) PROVE ProperCalls'
  BY <1>4, EndsProper
<1>5. CASE PollStep
  BY <1>1, <1>4, <1>5, ItemsAreText
  DEF PollStep, PollFindsNoQueue, PollResolves, PollMoves, PollLists, PollEnds, PollRaises
<1>6. CASE WriterStep
  BY <1>2, <1>3, <1>4, <1>6, ItemsAreText
  DEF WriterStep, WriterProjects, WriterLooks, WriterCommits, WriterRaises
<1>7. CASE VaultStep
  BY <1>7, ClientStepProper DEF VaultStep
<1>8. CASE PersonStep
  BY <1>8, PersonStepOthers, StaleProper
<1>9. CASE Arrives \/ UNCHANGED vars
  BY <1>9 DEF Arrives, ChunkArrives, vars, ProperCalls
<1>10. CASE Kill
  BY <1>10 DEF Kill, Killed, ProperCalls, Proper, IdleClient
<1> QED
  BY <1>5, <1>6, <1>7, <1>8, <1>9, <1>10 DEF Next, Step

LEMMA VaultProper == Spec => [](VaultInv /\ ProperCalls)
<1>1. Init => ProperCalls
  BY DEF Init, LiveSyncInit, ProperCalls, Proper, IdleClient
<1>2. VaultInv /\ ProperCalls /\ [Next]_vars => ProperCalls'
  BY VaultNextProper
<1> QED
  BY <1>1, <1>2, VaultInvariant, PTL DEF Spec

(* NoteStore sees every write: it is one of its calls that lands.           *)
LEMMA LandsIsLand ==
    ASSUME LiveSyncInv, [LiveSyncNext]_liveSyncVars, NEW c \in Client, NEW n \in Note,
           Lands(c, n)
    PROVE  /\ Promise!MayLand(entries[n], client[c].ask, client[c].text)
           /\ client[c].text # None /\ client[c].ask # None /\ client[c].ask.note = n
           /\ entries'[n].text = client[c].text
<1> DEFINE call == SeenCalls
<1>1. /\ call[c] = Seen(client[c]) /\ call'[c] = Seen(client'[c])
      /\ ~call[c].landed /\ call'[c].landed
  BY DEF SeenCalls, Seen, Lands
<1>2. /\ call[c].ask = client[c].ask /\ call[c].text = client[c].text
  BY <1>1 DEF Seen
<1>3. call \in [Client -> {Seen(client[d]) : d \in Client}]
  BY DEF SeenCalls
<1>4. [Promise!StoreNext]_(Promise!storeVars)
  BY NextMaps
<1> HIDE DEF call
<1>5. ~ (call' = call)
  BY <1>1
<1>6. ASSUME NEW d \in Client, Promise!Ask(d) PROVE FALSE
  BY <1>1, <1>3, <1>6 DEF Promise!Ask, Promise!Asked, call
<1>7. ASSUME NEW d \in Client, Promise!Prepare(d) PROVE FALSE
  BY <1>1, <1>3, <1>7 DEF Promise!Prepare, Seen, call
<1>8. ASSUME NEW C \in SUBSET Client, Promise!End(C) PROVE FALSE
  BY <1>1, <1>8 DEF Promise!End, Promise!NoCall, call
<1>9. Promise!Land(c)
  <2>1. ASSUME NEW d \in Client, d # c, Promise!Land(d) PROVE FALSE
    BY <1>1, <1>3, <2>1 DEF Promise!Land, call
  <2> QED
    BY <1>4, <1>5, <1>6, <1>7, <1>8, <2>1
    DEF Promise!StoreNext, Promise!storeVars, Promise!OtherWrites, Promise!Complete, call
<1>10. /\ call[c].text # None /\ call[c].ask.note = n
       /\ Promise!MayLand(entries[n], call[c].ask, call[c].text)
       /\ entries' = [entries EXCEPT ![n] = Whole(call[c].text)]
  BY <1>2, <1>9 DEF Promise!Land, Lands, call, Promise!Whole, Whole
<1>11. client[c].pc # "idle"
  BY <1>2, <1>10 DEF LiveSyncInv, Holds, IdleClient
<1>12. client[c].ask # None
  BY <1>11, LiveSyncAssumption DEF LiveSyncInv, Holds
<1> QED
  BY <1>2, <1>10, <1>12 DEF Whole, LiveSyncInv, LiveSyncTypeOK

(* A deleted note stays deleted, but for the queue, which comes back with   *)
(* no line in it (livesync.py:287-296, inbox.py:68-76,97).                  *)
THEOREM DeletionsRespected == Spec => DeletionIsRespected
<1>1. ASSUME VaultInv, ProperCalls, [Next]_vars, NEW c \in Client, NEW n \in Note,
             Lands(c, n), entries[n].state = "deleted"
      PROVE  n = QueueNote /\ entries'[n].text = {Placeholder}
  <2>1. /\ Promise!MayLand(entries[n], client[c].ask, client[c].text)
        /\ client[c].ask # None /\ client[c].ask.note = n
        /\ entries'[n].text = client[c].text
    BY <1>1, VaultStepIsLiveSync, LandsIsLand DEF VaultInv
  <2>2. client[c].ask.revive
    BY <1>1, <2>1 DEF Promise!MayLand
  <2>3. client[c].ask = PutBack(QueueNote, {Placeholder})
        /\ (client[c].ask.op = "put" => client[c].text = client[c].ask.ours)
    BY <1>1, <2>1, <2>2 DEF ProperCalls, Proper, ProperAsk
  <2> QED
    BY <2>1, <2>3 DEF PutBack
<1>2. VaultInv /\ ProperCalls /\ [Next]_vars =>
        [\A c \in Client, n \in Note :
            Lands(c, n) /\ entries[n].state = "deleted" =>
                n = QueueNote /\ entries'[n].text = {Placeholder}]_vars
  BY <1>1
<1> QED
  BY <1>2, VaultProper, PTL DEF Spec, DeletionIsRespected

(* All that was not this service's on a topic page when it was read is in   *)
(* the page that is written for it (notes.py:120-154, livesync.py:221-229,  *)
(* 277-304); what others put there after the read is not.                   *)
THEOREM MergesKeepOthers == Spec => MergeKeepsOthers
<1>1. ASSUME VaultInv, ProperCalls, [Next]_vars, NEW c \in Client,
             Lands(c, TopicNote), client[c].seen # None
      PROVE  client[c].seen \ Owned \subseteq entries'[TopicNote].text
  <2>1. /\ client[c].text # None /\ client[c].ask # None
        /\ client[c].ask.note = TopicNote
        /\ entries'[TopicNote].text = client[c].text
    BY <1>1, VaultStepIsLiveSync, LandsIsLand, ItemsAreText DEF VaultInv
  <2>2. client[c].ask \in Call
    BY <1>1, <2>1 DEF VaultInv, LiveSyncInv, LiveSyncTypeOK, ClientState
  <2>3. client[c].text = Merge(client[c].seen, client[c].ask.ours)
    BY <1>1, <2>1, <2>2 DEF ProperCalls, Proper, ProperAsk, Call
  <2> QED
    BY <1>1, <2>1, <2>3 DEF Merge
<1>2. VaultInv /\ ProperCalls /\ [Next]_vars =>
        [\A c \in Client :
            Lands(c, TopicNote) /\ client[c].seen # None =>
                client[c].seen \ Owned \subseteq entries'[TopicNote].text]_vars
  BY <1>1
<1> QED
  BY <1>2, VaultProper, PTL DEF Spec, MergeKeepsOthers

-----------------------------------------------------------------------------
(* Links are earned.                                                        *)

(* A link in any text, of a note or on its way into one, is to a video      *)
(* whose row has a note_path.                                               *)
Earned(text, videos) ==
    text # None => \A v \in Video : Link(v) \in text => v \in videos

EarnedCall(s, videos) == /\ Earned(s.seen, videos) /\ Earned(s.text, videos)
                         /\ s.ask # None => Earned(s.ask.ours, videos)

EarnedPoll(p, videos) == /\ Earned(p.seen, videos) /\ Earned(p.text, videos)
                         /\ Earned(p.finished, videos)

EarnedLinks ==
    /\ \A n \in Note : Earned(entries[n].text, noted)
    /\ \A c \in Client : EarnedCall(client[c], noted)
    /\ EarnedPoll(poll, noted)
    /\ \A w \in Writer : Earned(writer[w].aliases, noted)

Lasts(v) == entries[DigestNote(v)].state # "absent"

(* The digest note of a writer that is past it, or whose PUT was answered,  *)
(* or met one that was there, is in the vault.                              *)
DigestWritten(w) ==
    /\ writer[w].pc = "digest" =>
          client[w].ask = Put(DigestNote(writer[w].video), {Body(writer[w].video)})
    /\ writer[w].pc = "digest" /\ client[w].pc \in {"conflict", "rev", "returned"} =>
          Lasts(writer[w].video)
    /\ writer[w].pc \in {"look", "topic"} => Lasts(writer[w].video)

LinksInv == /\ EarnedLinks
            /\ \A v \in noted : Lasts(v)
            /\ \A w \in Writer : DigestWritten(w)

(* A digest note is never really deleted, only flagged.                     *)
LEMMA WriteLasts ==
    ASSUME LiveSyncInv, NEW n \in Note, NEW m \in Note, NEW entry,
           entries' = [entries EXCEPT ![m] = entry], entry.state # "absent",
           entries[n].state # "absent" \/ n = m
    PROVE  entries'[n].state # "absent"
BY DEF LiveSyncInv, LiveSyncTypeOK

LEMMA DigestsLast ==
    ASSUME VaultInv, [Next]_vars, NEW v \in Video, Lasts(v)
    PROVE  Lasts(v)'
<1> DEFINE n == DigestNote(v)
<1>0. n \in Note /\ n \notin {QueueNote, CompletedNote, TopicNote}
      /\ entries[n].state # "absent"
  BY ItemsAreText, NotesDiffer DEF Lasts
<1> SUFFICES entries'[n].state # "absent"
  BY DEF Lasts
<1> HIDE DEF n
<1> USE DEF VaultInv
<1>1. ASSUME NEW m \in Note, NEW entry, OtherClient(m, entry),
             entry.state # "absent" \/ m # n
      PROVE  entries'[n].state # "absent"
  BY <1>0, <1>1 DEF OtherClient, LiveSyncInv, LiveSyncTypeOK
<1>2. CASE UNCHANGED entries
  BY <1>0, <1>2
<1>3. CASE PollStep \/ WriterStep
  BY <1>2, <1>3 DEF PollStep, PollBegins, PollFindsNoQueue, PollResolves, PollMoves,
     PollLists, PollEnds, PollRaises, WriterStep, WriterStarts, WriterBegins,
     WriterProjects, WriterLooks, WriterCommits, WriterRaises, Begin, Ends
<1>4. CASE VaultStep
  <2>1. PICK c \in Client : ClientStep(c)
    BY <1>4 DEF VaultStep
  <2>2. ASSUME NEW next, Store(c, next) PROVE entries'[n].state # "absent"
    BY <1>0, <2>2 DEF Store, LiveSyncInv, LiveSyncTypeOK, Entry
  <2>3. ASSUME NEW next, Write(c, next) PROVE entries'[n].state # "absent"
    BY <1>0, <2>3 DEF Write, LiveSyncInv, LiveSyncTypeOK
  <2> QED
    BY <1>2, <2>1, <2>2, <2>3
    DEF ClientStep, ReadReturns, ReadMerges, PutChunk, PutEntry, PutEntryConflict,
        GetConflict, PutRevision, PutRevisionConflict, Unavailable, LandsUnanswered, Goes
<1>5. CASE PersonStep
  <2>1. ASSUME NEW m \in Note, NEW text, PersonWrites(m, text)
        PROVE  entries'[n].state # "absent"
    <3>1. PICK whole \in BOOLEAN :
            OtherClient(m, [state |-> "live", text |-> text, whole |-> whole])
      BY <2>1 DEF PersonWrites
    <3> QED
      BY <1>1, <3>1
  <2>2. CASE PersonEmpties
    BY <1>1, <2>2, ItemsAreText DEF PersonEmpties, Whole
  <2>3. ASSUME NEW m \in Note, PersonDeletes(m) PROVE entries'[n].state # "absent"
    <3>1. CASE SoftDelete(m)
      <4>1. [entries[m] EXCEPT !.state = "deleted"].state # "absent"
        BY DEF LiveSyncInv, LiveSyncTypeOK, Entry
      <4> QED
        BY <1>1, <3>1, <4>1 DEF SoftDelete
    <3>2. CASE m \in {QueueNote, CompletedNote, TopicNote} /\ OtherClient(m, NoEntry)
      BY <1>0, <1>1, <3>2
    <3> QED
      BY <2>3, <3>1, <3>2 DEF PersonDeletes
  <2> QED
    BY <1>5, <2>1, <2>2, <2>3, ItemsAreText
    DEF PersonStep, PersonPastes, PersonLinks, PersonAdds
<1>6. CASE Arrives
  BY <1>0, <1>6 DEF Arrives, ChunkArrives, LiveSyncInv, LiveSyncTypeOK, Entry
<1>7. CASE Kill \/ UNCHANGED vars
  BY <1>2, <1>7 DEF Kill, Killed, vars
<1> QED
  BY <1>3, <1>4, <1>5, <1>6, <1>7 DEF Next, Step

LEMMA EarnedGrows ==
    ASSUME NEW text, NEW a, NEW b, a \subseteq b, Earned(text, a)
    PROVE  Earned(text, b)
BY DEF Earned

LEMMA EarnedCup ==
    ASSUME NEW s \in Text, NEW t \in Text, NEW videos,
           Earned(s, videos), Earned(t, videos)
    PROVE  Earned(s \cup t, videos)
BY LiveSyncAssumption DEF Earned

LEMMA EarnedMerge ==
    ASSUME NEW existing \in {None} \cup Text, NEW ours \in Text, NEW videos,
           Earned(existing, videos), Earned(ours, videos)
    PROVE  Earned(Merge(existing, ours), videos)
BY LiveSyncAssumption DEF Earned, Merge

LEMMA EarnedReadable ==
    ASSUME NEW entry, NEW videos, Earned(entry.text, videos)
    PROVE  Earned(Readable(entry), videos)
BY DEF Earned, Readable

(* No other item is a link.                                                 *)
LEMMA LinksDiffer ==
    \A v : /\ Link(v) # Placeholder
           /\ \A l : Link(v) # Url(l)
           /\ \A p : Link(v) # Prose(p)
           /\ \A u : /\ Link(v) # Body(u) /\ Link(v) # Section(u)
                     /\ Link(v) # Alias(u) /\ Link(v) # Title(u)
                     /\ Link(v) = Link(u) => v = u
BY DEF Link, Placeholder, Url, Prose, Body, Section, Alias, Title

LEMMA PlainEarned ==
    ASSUME NEW videos
    PROVE  /\ Earned({}, videos) /\ Earned({Placeholder}, videos)
           /\ \A l : Earned({Url(l)}, videos)
           /\ \A p : Earned({Prose(p)}, videos)
           /\ \A v : /\ Earned({Body(v)}, videos) /\ Earned({Alias(v)}, videos)
                     /\ Earned({Section(v), Title(v)}, videos)
                     /\ v \in videos => Earned({Link(v)}, videos)
BY LinksDiffer DEF Earned

LEMMA ShownEarned ==
    ASSUME NEW n \in Note, Earned(entries[n].text, noted)
    PROVE  Earned(Shown(n), noted)
BY DEF Shown, Earned

LEMMA NotesEarned ==
    ASSUME VaultInv, EarnedLinks, [Next]_vars, NEW n \in Note
    PROVE  Earned(entries'[n].text, noted)
<1> USE DEF VaultInv
<1>0. Earned(entries[n].text, noted)
  BY DEF EarnedLinks
<1>1. ASSUME NEW m \in Note, NEW entry, OtherClient(m, entry),
             Earned(entry.text, noted)
      PROVE  Earned(entries'[n].text, noted)
  BY <1>0, <1>1 DEF OtherClient, LiveSyncInv, LiveSyncTypeOK
<1>2. CASE UNCHANGED entries
  BY <1>0, <1>2
<1>3. CASE PollStep \/ WriterStep
  BY <1>2, <1>3 DEF PollStep, PollBegins, PollFindsNoQueue, PollResolves, PollMoves,
     PollLists, PollEnds, PollRaises, WriterStep, WriterStarts, WriterBegins,
     WriterProjects, WriterLooks, WriterCommits, WriterRaises, Begin, Ends
<1>4. CASE VaultStep
  <2>1. PICK c \in Client : ClientStep(c)
    BY <1>4 DEF VaultStep
  <2>2. ASSUME NEW next, Store(c, next) PROVE Earned(entries'[n].text, noted)
    <3>1. entries'[n].text = entries[n].text
      BY <2>2 DEF Store, LiveSyncInv, LiveSyncTypeOK, Entry
    <3> QED
      BY <1>0, <3>1
  <2>3. ASSUME NEW next, Write(c, next) PROVE Earned(entries'[n].text, noted)
    <3>1. entries'[n].text \in {entries[n].text, client[c].text}
      BY <2>3 DEF Write, LiveSyncInv, LiveSyncTypeOK
    <3> QED
      BY <1>0, <3>1 DEF EarnedLinks, EarnedCall
  <2> QED
    BY <1>2, <2>1, <2>2, <2>3
    DEF ClientStep, ReadReturns, ReadMerges, PutChunk, PutEntry, PutEntryConflict,
        GetConflict, PutRevision, PutRevisionConflict, Unavailable, LandsUnanswered, Goes
<1>5. CASE PersonStep
  <2>1. ASSUME NEW m \in Note, NEW i, {i} \in Text, Earned({i}, noted),
               PersonWrites(m, Shown(m) \cup {i})
        PROVE  Earned(entries'[n].text, noted)
    <3>1. Earned(Shown(m) \cup {i}, noted)
      BY <2>1, ShownIsText, ShownEarned, EarnedCup DEF EarnedLinks, LiveSyncInv
    <3>2. PICK whole \in BOOLEAN :
            OtherClient(m, [state |-> "live", text |-> Shown(m) \cup {i}, whole |-> whole])
      BY <2>1 DEF PersonWrites
    <3> QED
      BY <1>1, <3>1, <3>2
  <2>2. ASSUME NEW l \in Line, PersonPastes(l) PROVE Earned(entries'[n].text, noted)
    BY <2>1, <2>2, ItemsAreText, PlainEarned DEF PersonPastes
  <2>3. ASSUME NEW v \in Video, PersonLinks(v) PROVE Earned(entries'[n].text, noted)
    BY <2>1, <2>3, ItemsAreText, PlainEarned DEF PersonLinks
  <2>4. ASSUME NEW p \in Person, PersonAdds(p) PROVE Earned(entries'[n].text, noted)
    BY <2>1, <2>4, ItemsAreText, PlainEarned DEF PersonAdds
  <2>5. CASE PersonEmpties
    <3>1. Earned(Whole({}).text, noted)
      BY PlainEarned DEF Whole
    <3> QED
      BY <1>1, <2>5, <3>1, ItemsAreText DEF PersonEmpties
  <2>6. ASSUME NEW m \in Note, PersonDeletes(m) PROVE Earned(entries'[n].text, noted)
    <3>1. [entries[m] EXCEPT !.state = "deleted"].text = entries[m].text
          /\ NoEntry.text = {}
      BY DEF LiveSyncInv, LiveSyncTypeOK, Entry, NoEntry
    <3>2. Earned([entries[m] EXCEPT !.state = "deleted"].text, noted)
          /\ Earned(NoEntry.text, noted)
      BY <3>1, PlainEarned DEF EarnedLinks
    <3> QED
      BY <1>1, <2>6, <3>2 DEF PersonDeletes, SoftDelete
  <2> QED
    BY <1>5, <2>2, <2>3, <2>4, <2>5, <2>6 DEF PersonStep
<1>6. CASE Arrives
  <2>1. entries'[n].text = entries[n].text
    BY <1>6 DEF Arrives, ChunkArrives, LiveSyncInv, LiveSyncTypeOK, Entry
  <2> QED
    BY <1>0, <2>1
<1>7. CASE Kill \/ UNCHANGED vars
  BY <1>2, <1>7 DEF Kill, Killed, vars
<1> QED
  BY <1>3, <1>4, <1>5, <1>6, <1>7 DEF Next, Step

LEMMA IdleEarned ==
    ASSUME NEW videos
    PROVE  EarnedCall(IdleClient, videos) /\ EarnedPoll(IdlePoll, videos)
BY PlainEarned DEF EarnedCall, EarnedPoll, Earned, IdleClient, IdlePoll

LEMMA BeginEarned ==
    ASSUME VaultInv, EarnedLinks, NEW b \in Client, NEW ask \in Call, Begin(b, ask),
           Earned(ask.ours, noted), NEW c \in Client
    PROVE  EarnedCall(client'[c], noted)
<1> DEFINE put == ask.op = "put"
           s == [IdleClient EXCEPT !.ask = ask,
                                   !.pc = IF put THEN "chunk" ELSE "read",
                                   !.text = IF put THEN ask.ours ELSE None]
<1>1. client' = [client EXCEPT ![b] = s]
  BY DEF Begin
<1>2. s.ask = ask /\ s.text \in {None, ask.ours} /\ s.seen = None
  BY DEF IdleClient
<1> HIDE DEF s
<1>3. EarnedCall(s, noted)
  BY <1>2 DEF EarnedCall, Earned
<1> QED
  BY <1>1, <1>3 DEF EarnedLinks, VaultInv, LiveSyncInv, LiveSyncTypeOK

LEMMA CallsEarned ==
    ASSUME VaultInv, EarnedLinks, [Next]_vars, NEW c \in Client
    PROVE  EarnedCall(client'[c], noted)
<1> USE DEF VaultInv
<1>0. EarnedCall(client[c], noted) /\ client[c] \in ClientState
  BY DEF EarnedLinks, LiveSyncInv, LiveSyncTypeOK
<1>1. CASE PollBegins
  <2>1. poll.pc \in {"idle", "restore", "queue", "list", "append"}
    BY <1>1 DEF PollBegins, TypeOK, PollState
  <2>2. Earned(poll.seen \cup poll.finished, noted) /\ Earned(poll.text, noted)
    BY EarnedCup DEF EarnedLinks, EarnedPoll, TypeOK, PollState
  <2>3. Earned(PollCall.ours, noted)
    BY <2>1, <2>2, PlainEarned DEF PollCall, Read, Put, PutBack
  <2> QED
    BY <1>1, <2>3, PollCallIsCall, BeginEarned, ItemsAreText DEF PollBegins
<1>2. ASSUME NEW w \in Writer, NEW v \in Video, WriterStarts(w, v)
      PROVE  EarnedCall(client'[c], noted)
  <2>1. Earned(Put(DigestNote(v), {Body(v)}).ours, noted)
    BY PlainEarned DEF Put
  <2> QED
    BY <1>2, <2>1, BeginEarned, ItemsAreText, CallsAreCalls DEF WriterStarts
<1>3. ASSUME NEW w \in Writer, WriterBegins(w)
      PROVE  EarnedCall(client'[c], noted)
  <2>1. /\ TopicRegion(w) \in Text /\ TopicNote \in Note /\ w \in Client
        /\ writer[w].video \in Video /\ writer[w].aliases \in Text
    BY <1>3, RegionIsText, ItemsAreText
    DEF WriterBegins, WriterHasRow, TypeOK, WriterState
  <2> DEFINE own == {Section(writer[w].video), Title(writer[w].video)}
  <2>o. own \in Text /\ Earned(own, noted)
    BY <2>1, PlainEarned, ItemsAreText
  <2>a. Earned(writer[w].aliases, noted) /\ TopicRegion(w) = own \cup writer[w].aliases
    BY DEF EarnedLinks, TopicRegion
  <2> HIDE DEF own
  <2>2. Earned(TopicRegion(w), noted)
    BY <2>1, <2>o, <2>a, EarnedCup
  <2>3. Read(TopicNote) \in Call /\ MergeInto(TopicNote, TopicRegion(w)) \in Call
    BY <2>1, CallsAreCalls, ItemsAreText
  <2>4. Read(TopicNote).ours = {} /\ MergeInto(TopicNote, TopicRegion(w)).ours = TopicRegion(w)
    BY DEF Read, MergeInto
  <2> QED
    BY <1>3, <2>1, <2>2, <2>3, <2>4, PlainEarned, BeginEarned DEF WriterBegins
<1>4. ASSUME NEW d \in Client, Ends(d) PROVE EarnedCall(client'[c], noted)
  BY <1>0, <1>4, IdleEarned DEF Ends, LiveSyncInv, LiveSyncTypeOK
<1>5. CASE PollStep
  BY <1>1, <1>4, <1>5, ItemsAreText
  DEF PollStep, PollFindsNoQueue, PollResolves, PollMoves, PollLists, PollEnds, PollRaises
<1>6. CASE WriterStep
  BY <1>2, <1>3, <1>4, <1>6, ItemsAreText
  DEF WriterStep, WriterProjects, WriterLooks, WriterCommits, WriterRaises
<1>7. CASE VaultStep
  <2>1. CASE ReadsNothing(c)
    BY <1>0, <2>1 DEF ReadsNothing, EarnedCall
  <2>2. CASE ReadsNote(c)
    <3> DEFINE ask == client[c].ask
               current == Readable(entries[ask.note])
    <3>1. /\ ask \in Call /\ ask # None /\ ask.ours \in Text /\ ask.note \in Note
          /\ Earned(ask.ours, noted)
      BY <1>0, <2>2, LiveSyncAssumption DEF ReadsNote, EarnedCall, Call
    <3>2. current \in {None} \cup Text /\ Earned(current, noted)
      BY <3>1, ReadableIsText, EarnedReadable DEF EarnedLinks, LiveSyncInv, LiveSyncTypeOK
    <3>3. Earned(Merge(current, ask.ours), noted)
      BY <3>1, <3>2, EarnedMerge
    <3>4. /\ client'[c].ask = ask /\ client'[c].seen = current
          /\ client'[c].text \in {client[c].text, Merge(current, ask.ours)}
      BY <2>2 DEF ReadsNote
    <3> HIDE DEF ask, current
    <3> QED
      BY <1>0, <3>1, <3>2, <3>3, <3>4 DEF EarnedCall
  <2> QED
    BY <1>7, <2>1, <2>2, ClientStepReads DEF VaultStep
<1>8. CASE PersonStep
  <2>1. PICK n \in Note : \E entry : OtherClient(n, entry)
    BY <1>8, PersonStepOthers
  <2>2. client'[c] = Stale(n, client[c])
    BY <2>1 DEF OtherClient
  <2> QED
    BY <1>0, <2>2, StaleKeeps, StaleSees DEF EarnedCall
<1>9. CASE Arrives \/ UNCHANGED vars
  BY <1>0, <1>9 DEF Arrives, ChunkArrives, vars
<1>10. CASE Kill
  BY <1>10, IdleEarned DEF Kill, Killed
<1> QED
  BY <1>5, <1>6, <1>7, <1>8, <1>9, <1>10 DEF Next, Step

LEMMA ResolvedEarned ==
    ASSUME NEW current, Earned(current, noted), current # None, NEW item \in current,
           NEW accepted
    PROVE  Earned(Resolved(item, accepted), noted)
<1>1. CASE item \in {Link(v) : v \in Video}
  BY <1>1 DEF Resolved, Earned
<1>2. CASE item \notin {Link(v) : v \in Video}
  <2> SUFFICES ASSUME NEW v \in Video, Link(v) \in Resolved(item, accepted)
               PROVE  v \in noted
    BY DEF Earned
  <2>1. PICK l \in accepted :
          Link(v) \in IF item = Url(l) /\ VideosOf[l] \subseteq noted
                      THEN {Link(u) : u \in VideosOf[l]} ELSE {}
    BY <1>2 DEF Resolved
  <2>2. PICK u \in VideosOf[l] : Link(v) = Link(u) /\ VideosOf[l] \subseteq noted
    BY <2>1
  <2> QED
    BY <2>2, LinksDiffer
<1> QED
  BY <1>1, <1>2

LEMMA PollEarned ==
    ASSUME VaultInv, EarnedLinks, PollStep
    PROVE  EarnedPoll(poll', noted)
<1> USE DEF VaultInv
<1>0. EarnedPoll(poll, noted) /\ EarnedPoll(IdlePoll, noted) /\ poll \in PollState
  BY IdleEarned DEF EarnedLinks, TypeOK
<1>1. CASE PollBegins \/ PollFindsNoQueue
  BY <1>0, <1>1 DEF PollBegins, PollFindsNoQueue, EarnedPoll, PollState
<1>2. CASE PollResolves
  <2> DEFINE current == client[Poller].seen
  <2>1. PICK accepted \in SUBSET {l \in Line : Url(l) \in current} :
          LET done == {i \in current : Resolved(i, accepted) # {}} IN
          poll' = IF done = {} THEN IdlePoll
                  ELSE [pc |-> "queue", seen |-> current,
                        text |-> OrPlaceholder(current \ done),
                        finished |-> UNION {Resolved(i, accepted) : i \in done}]
    BY <1>2 DEF PollResolves
  <2>2. current # None /\ Earned(current, noted)
    BY <1>2, ItemsAreText DEF PollResolves, EarnedLinks, EarnedCall
  <2> HIDE DEF current
  <2> DEFINE done == {i \in current : Resolved(i, accepted) # {}}
             finished == UNION {Resolved(i, accepted) : i \in done}
  <2>3. Earned(finished, noted)
    <3>1. \A i \in done : Earned(Resolved(i, accepted), noted)
      BY <2>2, ResolvedEarned
    <3>2. ASSUME NEW v \in Video, Link(v) \in finished PROVE v \in noted
      <4>1. PICK i \in done : Link(v) \in Resolved(i, accepted)
        BY <3>2
      <4>2. Resolved(i, accepted) # None
        <5>1. i \in Item /\ accepted \in SUBSET Line
          BY <2>2, <1>2, ItemsAreText
          DEF PollResolves, current, LiveSyncTypeOK, ClientState, TypeOK, Text
        <5> QED
          BY <5>1, ResolvedIsText, LiveSyncAssumption
      <4> QED
        BY <3>1, <4>1, <4>2 DEF Earned
    <3> QED
      BY <3>2 DEF Earned
  <2>4. Earned(OrPlaceholder(current \ done), noted)
    BY <2>2, PlainEarned DEF OrPlaceholder, Earned
  <2>5. poll' = IF done = {} THEN IdlePoll
                ELSE [pc |-> "queue", seen |-> current,
                      text |-> OrPlaceholder(current \ done), finished |-> finished]
    BY <2>1
  <2> HIDE DEF done, finished
  <2> QED
    BY <1>0, <2>2, <2>3, <2>4, <2>5 DEF EarnedPoll
<1>3. CASE PollMoves
  BY <1>0, <1>3, PlainEarned DEF PollMoves, EarnedPoll, PollState
<1>4. CASE PollLists
  <2> DEFINE seen == IF client[Poller].seen = None THEN {} ELSE client[Poller].seen
  <2>1. Earned(seen, noted)
    BY PlainEarned, ItemsAreText DEF EarnedLinks, EarnedCall
  <2>2. poll' = [poll EXCEPT !.pc = "append", !.seen = seen]
    BY <1>4 DEF PollLists
  <2> HIDE DEF seen
  <2> QED
    BY <1>0, <2>1, <2>2 DEF EarnedPoll, PollState
<1>5. CASE PollEnds \/ PollRaises
  BY <1>0, <1>5 DEF PollEnds, PollRaises
<1> QED
  BY <1>1, <1>2, <1>3, <1>4, <1>5 DEF PollStep

LEMMA AliasesEarned ==
    ASSUME VaultInv, EarnedLinks, WriterStep, NEW u \in Writer
    PROVE  Earned(writer'[u].aliases, noted)
<1> USE DEF VaultInv, TypeOK
<1>0. Earned(writer[u].aliases, noted)
  BY DEF EarnedLinks
<1>1. PICK w \in Writer :
        \/ \E v \in Video : WriterStarts(w, v)
        \/ WriterBegins(w) \/ WriterProjects(w) \/ WriterLooks(w)
        \/ WriterCommits(w) \/ WriterRaises(w)
  BY DEF WriterStep
<1>2. ASSUME NEW v \in Video, WriterStarts(w, v) PROVE Earned(writer'[u].aliases, noted)
  <2>1. [IdleWriter EXCEPT !.pc = "digest", !.video = v].aliases = {}
    BY DEF IdleWriter
  <2>2. writer'[u].aliases \in {{}, writer[u].aliases}
    BY <1>2, <2>1 DEF WriterStarts
  <2> QED
    BY <1>0, <2>2, PlainEarned
<1>3. CASE WriterBegins(w) \/ WriterProjects(w)
  BY <1>0, <1>3 DEF WriterBegins, WriterProjects, WriterGoes, WriterState
<1>4. CASE WriterLooks(w)
  <2> DEFINE aliases == IF client[w].seen = None THEN {}
                        ELSE AliasesOn(client[w].seen, writer[w].video)
  <2>1. Earned(aliases, noted)
    BY LinksDiffer, PlainEarned DEF AliasesOn, Earned
  <2>2. writer' = [writer EXCEPT ![w].pc = "topic", ![w].aliases = aliases]
    BY <1>4 DEF WriterLooks
  <2> HIDE DEF aliases
  <2>3. writer'[u].aliases \in {aliases, writer[u].aliases}
    BY <2>2 DEF WriterState
  <2> QED
    BY <1>0, <2>1, <2>3
<1>5. CASE WriterCommits(w) \/ WriterRaises(w)
  <2>1. writer'[u].aliases \in {{}, writer[u].aliases}
    BY <1>5 DEF WriterCommits, WriterRaises, IdleWriter
  <2> QED
    BY <1>0, <2>1, PlainEarned
<1> QED
  BY <1>1, <1>2, <1>3, <1>4, <1>5

LEMMA LocalsEarned ==
    ASSUME VaultInv, EarnedLinks, [Next]_vars
    PROVE  /\ EarnedPoll(poll', noted)
           /\ \A w \in Writer : Earned(writer'[w].aliases, noted)
<1>1. EarnedPoll(poll, noted) /\ \A w \in Writer : Earned(writer[w].aliases, noted)
  BY DEF EarnedLinks
<1>2. CASE PollStep
  BY <1>1, <1>2, PollEarned, PollStepTypes
<1>3. CASE WriterStep
  BY <1>1, <1>3, AliasesEarned, WriterStepTypes
<1>4. CASE PersonStep
  BY <1>1, <1>4, PersonStepTypes
<1>5. CASE VaultStep \/ Arrives \/ UNCHANGED vars
  BY <1>1, <1>5 DEF VaultStep, Arrives, vars
<1>6. CASE Kill
  BY <1>6, IdleEarned, PlainEarned DEF Kill, IdleWriter
<1> QED
  BY <1>2, <1>3, <1>4, <1>5, <1>6 DEF Next, Step

(* A video joins `noted` when the last of its notes is written.             *)
LEMMA NotedGrows ==
    ASSUME VaultInv, [Next]_vars
    PROVE  /\ noted \subseteq noted'
           /\ \A v \in noted' \ noted :
                 \E w \in Writer : writer[w].pc = "topic" /\ writer[w].video = v
<1>1. CASE PollStep
  BY <1>1, PollStepTypes
<1>2. CASE WriterStep
  BY <1>2 DEF WriterStep, WriterStarts, WriterBegins, WriterProjects, WriterLooks,
     WriterCommits, WriterRaises, dbVars
<1>3. CASE PersonStep
  BY <1>3, PersonStepTypes
<1>4. CASE VaultStep \/ Arrives \/ Kill \/ UNCHANGED vars
  BY <1>4 DEF VaultStep, Arrives, Kill, vars
<1> QED
  BY <1>1, <1>2, <1>3, <1>4 DEF Next, Step

(* The PUT of a digest note: answered, or in conflict, the note is there.   *)
LEMMA PutLeavesNote ==
    ASSUME LiveSyncInv, NEW c \in Client, ClientStep(c), NEW n \in Note, NEW text,
           client[c].ask = Put(n, text),
           client[c].pc \in {"conflict", "rev", "returned"} => entries[n].state # "absent",
           client'[c].pc \in {"conflict", "rev", "returned"}
    PROVE  entries'[n].state # "absent"
<1> USE DEF LiveSyncInv, LiveSyncTypeOK
<1>0. client[c].ask.note = n /\ client[c].ask.op = "put"
  BY DEF Put
<1>1. CASE PutEntry(c) \/ PutRevision(c)
  BY <1>0, <1>1 DEF PutEntry, PutRevision, Write
<1>2. CASE PutEntryConflict(c) \/ GetConflict(c)
  BY <1>0, <1>2 DEF PutEntryConflict, GetConflict, Goes
<1>3. ~ (ReadReturns(c) \/ ReadMerges(c))
  BY <1>0 DEF ReadReturns, ReadMerges
<1>4. ASSUME NEW next, next \notin {"conflict", "rev", "returned"},
             Goes(c, next) \/ Store(c, next) \/ Write(c, next)
      PROVE  FALSE
  <2>0. client \in [Client -> ClientState]
    OBVIOUS
  <2>1. CASE Goes(c, next)
    BY <1>4, <2>0, <2>1 DEF Goes, ClientState
  <2>2. CASE Store(c, next)
    BY <1>4, <2>0, <2>2 DEF Store, ClientState
  <2>3. CASE Write(c, next)
    BY <1>4, <2>0, <2>3 DEF Write, ClientState
  <2> QED
    BY <1>4, <2>1, <2>2, <2>3
<1>5. "entry" \notin {"conflict", "rev", "returned"}
      /\ "raised" \notin {"conflict", "rev", "returned"}
  OBVIOUS
<1>6. ~ (PutChunk(c) \/ PutRevisionConflict(c) \/ Unavailable(c))
  BY <1>4, <1>5 DEF PutChunk, PutRevisionConflict, Unavailable
<1>7. ~ LandsUnanswered(c)
  BY <1>4, <1>5 DEF LandsUnanswered
<1> QED
  BY <1>1, <1>2, <1>3, <1>6, <1>7 DEF ClientStep

LEMMA OtherClientsGoOn ==
    ASSUME LiveSyncInv, NEW c \in Client, ClientStep(c), NEW d \in Client, d # c
    PROVE  client'[d].pc = client[d].pc
<1> USE DEF LiveSyncInv, LiveSyncTypeOK
<1>1. ASSUME NEW next, Write(c, next) PROVE client'[d].pc = client[d].pc
  BY <1>1, StaleKeeps DEF Write
<1> QED
  BY <1>1 DEF ClientStep, ReadReturns, ReadMerges, PutChunk, PutEntry,
     PutEntryConflict, GetConflict, PutRevision, PutRevisionConflict, Unavailable,
     LandsUnanswered, Goes, Store

LEMMA DigestsWritten ==
    ASSUME VaultInv, LinksInv, [Next]_vars, NEW u \in Writer
    PROVE  DigestWritten(u)'
<1> USE DEF VaultInv
<1>0. DigestWritten(u) /\ u \in Client /\ u # Poller
  BY VaultAssumption DEF LinksInv
<1>1. ASSUME NEW v \in Video, Lasts(v) PROVE Lasts(v)'
  BY <1>1, DigestsLast
<1>2. writer[u].pc # "idle" => writer[u].video \in Video
  BY DEF WriterHasRow, TypeOK
(* Nothing happens to this writer, nor to its call.                         *)
<1>3. ASSUME writer'[u] = writer[u], client'[u].ask = client[u].ask,
             client'[u].pc = client[u].pc
      PROVE  DigestWritten(u)'
  BY <1>0, <1>1, <1>2, <1>3 DEF DigestWritten
<1>4. CASE PollStep
  BY <1>0, <1>3, <1>4, PollStepTypes DEF PollStep, PollBegins, PollFindsNoQueue,
     PollResolves, PollMoves, PollLists, PollEnds, PollRaises, Begin, Ends,
     LiveSyncInv, LiveSyncTypeOK
<1>5. CASE WriterStep
  <2>1. PICK w \in Writer :
          \/ \E v \in Video : WriterStarts(w, v)
          \/ WriterBegins(w) \/ WriterProjects(w) \/ WriterLooks(w)
          \/ WriterCommits(w) \/ WriterRaises(w)
    BY <1>5 DEF WriterStep
  <2>2. CASE w # u
    <3>1. writer'[u] = writer[u] /\ client'[u] = client[u]
      BY <1>0, <2>1, <2>2, ItemsAreText
      DEF WriterStarts, WriterBegins, WriterProjects, WriterLooks, WriterCommits,
          WriterRaises, WriterGoes, Begin, Ends, LiveSyncInv, LiveSyncTypeOK, TypeOK
    <3> QED
      BY <1>3, <3>1
  <2>3. ASSUME NEW v \in Video, w = u, WriterStarts(w, v) PROVE DigestWritten(u)'
    <3> DEFINE ask == Put(DigestNote(v), {Body(v)})
    <3>1. writer'[u].pc = "digest" /\ writer'[u].video = v
      BY <2>3 DEF WriterStarts, TypeOK, WriterState, IdleWriter
    <3>2. Begin(u, ask) /\ ask.op = "put"
      BY <2>3 DEF WriterStarts, Put
    <3> HIDE DEF ask
    <3>3. client'[u].ask = ask /\ client'[u].pc = "chunk"
      BY <1>0, <3>2 DEF Begin, LiveSyncInv, LiveSyncTypeOK, IdleClient
    <3> QED
      BY <3>1, <3>3 DEF DigestWritten, ask
  <2>4. CASE w = u /\ WriterBegins(w)
    BY <1>0, <1>1, <1>2, <2>4 DEF WriterBegins, DigestWritten
  <2>5. CASE w = u /\ (WriterProjects(w) \/ WriterLooks(w))
    <3>1. /\ writer'[u].pc \in {"look", "topic"} /\ writer'[u].video = writer[u].video
          /\ Lasts(writer[u].video) /\ writer[u].pc # "idle"
      BY <1>0, <2>5 DEF WriterProjects, WriterLooks, WriterGoes, DigestWritten, TypeOK,
                        WriterState, Returned
    <3> QED
      BY <1>1, <1>2, <3>1 DEF DigestWritten
  <2>6. CASE w = u /\ (WriterCommits(w) \/ WriterRaises(w))
    BY <2>6 DEF WriterCommits, WriterRaises, DigestWritten, IdleWriter, TypeOK
  <2> QED
    BY <2>1, <2>2, <2>3, <2>4, <2>5, <2>6
<1>6. CASE VaultStep
  <2>1. PICK c \in Client : ClientStep(c)
    BY <1>6 DEF VaultStep
  <2>2. writer'[u] = writer[u] /\ client'[u].ask = client[u].ask
    BY <1>0, <1>6, <2>1, ClientStepReads DEF VaultStep, ReadsNothing, ReadsNote
  <2>3. CASE c # u
    BY <1>0, <1>3, <2>1, <2>2, <2>3, OtherClientsGoOn
  <2>4. CASE c = u /\ writer[u].pc = "digest"
    <3> DEFINE v == writer[u].video
    <3>1. /\ client[u].ask = Put(DigestNote(v), {Body(v)})
          /\ client[u].pc \in {"conflict", "rev", "returned"} => Lasts(v)
          /\ v \in Video /\ DigestNote(v) \in Note
      BY <1>0, <1>2, <2>4, ItemsAreText DEF DigestWritten
    <3>2. client'[u].pc \in {"conflict", "rev", "returned"} => Lasts(v)'
      <4> SUFFICES ASSUME client'[u].pc \in {"conflict", "rev", "returned"}
                   PROVE  entries'[DigestNote(v)].state # "absent"
        BY <2>2 DEF Lasts
      <4> QED
        BY <1>0, <2>1, <2>4, <3>1, PutLeavesNote DEF Lasts
    <3> QED
      BY <2>2, <2>4, <3>1, <3>2 DEF DigestWritten
  <2>5. CASE c = u /\ writer[u].pc # "digest"
    BY <1>0, <1>1, <1>2, <2>2, <2>5 DEF DigestWritten
  <2> QED
    BY <2>3, <2>4, <2>5
<1>7. CASE PersonStep
  <2>1. PICK n \in Note : \E entry : OtherClient(n, entry)
    BY <1>7, PersonStepOthers
  <2>2. client'[u] = Stale(n, client[u]) /\ client[u] \in ClientState
    BY <1>0, <2>1 DEF OtherClient, LiveSyncInv, LiveSyncTypeOK
  <2> QED
    BY <1>3, <1>7, <2>2, StaleKeeps, PersonStepTypes
<1>8. CASE Arrives \/ UNCHANGED vars
  <2>1. UNCHANGED client /\ UNCHANGED writer
    BY <1>8 DEF Arrives, ChunkArrives, vars
  <2> QED
    BY <1>3, <2>1
<1>9. CASE Kill
  BY <1>9 DEF Kill, DigestWritten, IdleWriter
<1> QED
  BY <1>4, <1>5, <1>6, <1>7, <1>8, <1>9 DEF Next, Step

LEMMA LinksNextInv ==
    ASSUME VaultInv, LinksInv, [Next]_vars
    PROVE  LinksInv'
<1> USE DEF LinksInv
<1>1. \A n \in Note : Earned(entries'[n].text, noted')
  BY NotesEarned, NotedGrows, EarnedGrows
<1>2. \A c \in Client : EarnedCall(client'[c], noted')
  BY CallsEarned, NotedGrows, EarnedGrows DEF EarnedCall
<1>3. /\ EarnedPoll(poll', noted')
      /\ \A w \in Writer : Earned(writer'[w].aliases, noted')
  BY LocalsEarned, NotedGrows, EarnedGrows DEF EarnedPoll
<1>4. EarnedLinks'
  BY <1>1, <1>2, <1>3 DEF EarnedLinks
<1>5. ASSUME NEW v \in noted' PROVE Lasts(v)'
  <2>1. CASE v \in noted
    BY <2>1, DigestsLast DEF VaultInv, TypeOK
  <2>2. CASE v \notin noted
    <3>1. PICK w \in Writer : writer[w].pc = "topic" /\ writer[w].video = v
      BY <1>5, <2>2, NotedGrows
    <3>2. v \in Video /\ Lasts(v)
      BY <3>1 DEF DigestWritten, VaultInv, WriterHasRow, TypeOK
    <3> QED
      BY <3>2, DigestsLast
  <2> QED
    BY <2>1, <2>2
<1>6. \A w \in Writer : DigestWritten(w)'
  BY DigestsWritten
<1> QED
  BY <1>4, <1>5, <1>6

LEMMA LinksInitInv == Init => LinksInv
<1> SUFFICES ASSUME Init PROVE LinksInv
  OBVIOUS
<1>1. \A n \in Note : Earned(entries[n].text, noted)
  BY PlainEarned DEF Init, LiveSyncInit, NoEntry
<1>2. \A c \in Client : EarnedCall(client[c], noted)
  BY IdleEarned DEF Init, LiveSyncInit
<1>3. EarnedPoll(poll, noted)
  BY IdleEarned DEF Init
<1>4. \A w \in Writer : Earned(writer[w].aliases, noted) /\ DigestWritten(w)
  BY PlainEarned DEF Init, IdleWriter, DigestWritten
<1> QED
  BY <1>1, <1>2, <1>3, <1>4 DEF LinksInv, EarnedLinks, Init

(* A link on its way to the completed note, or on it, is to a video whose   *)
(* digest note has been in the vault (write.py:317-337, inbox.py:192-197).  *)
THEOREM LinksHaveNotes == Spec => []LinkHasNote
<1>1. Init => LinksInv
  BY LinksInitInv
<1>2. VaultInv /\ LinksInv /\ [Next]_vars => LinksInv'
  BY LinksNextInv
<1>3. VaultInv /\ LinksInv => LinkHasNote
  <2> SUFFICES ASSUME VaultInv, LinksInv, NEW v \in Video,
                      Link(v) \in poll.finished \cup entries[CompletedNote].text
               PROVE  v \in noted /\ entries[DigestNote(v)].state # "absent"
    BY DEF LinkHasNote
  <2>1. poll.finished \in Text /\ entries[CompletedNote].text \in Text
    BY ItemsAreText DEF VaultInv, TypeOK, PollState, LiveSyncTypeOK, Entry
  <2>2. Earned(poll.finished, noted) /\ Earned(entries[CompletedNote].text, noted)
    BY ItemsAreText DEF LinksInv, EarnedLinks, EarnedPoll
  <2>3. v \in noted
    BY <2>1, <2>2, LiveSyncAssumption DEF Earned
  <2> QED
    BY <2>3 DEF LinksInv, Lasts
<1> QED
  BY <1>1, <1>2, <1>3, VaultInvariant, PTL DEF Spec

-----------------------------------------------------------------------------
(* A line has one home.                                                     *)

SeenText == IF client[Poller].seen = None THEN {} ELSE client[Poller].seen

(* Each call of the poll is that of its point, and nobody else reads or     *)
(* writes its two notes.                                                    *)
PollAsks ==
    /\ poll.pc = "idle" => client[Poller].pc = "idle"
    /\ poll.pc = "read" => client[Poller].pc # "idle"
    /\ client[Poller].pc # "idle" =>
          client[Poller].ask = IF poll.pc = "read" THEN Read(QueueNote) ELSE PollCall

WriterAsks ==
    \A w \in Writer : client[w].ask # None =>
        client[w].ask.note \notin {QueueNote, CompletedNote}

(* What the poll may yet write to the queue, and to the completed note.     *)
QueueInPoll ==
    IF poll.pc = "read" THEN SeenText
    ELSE IF poll.pc = "queue" THEN poll.text ELSE {}

LinksInPoll ==
    IF poll.pc = "list" THEN poll.finished \cup SeenText
    ELSE IF poll.pc = "append" THEN poll.finished \cup poll.seen ELSE {}

InQueue == entries[QueueNote].text \cup QueueInPoll
Filed   == entries[CompletedNote].text \cup LinksInPoll

FromPeople == InQueue \subseteq pasted \cup {Placeholder}

(* No other item of the queue names a video of the line.                    *)
Alone(l) == \A item \in pasted \ {Url(l)}, v \in VideosOf[l] : ~ Names(item, v)

Links(l) == {Link(v) : v \in VideosOf[l]}

(* The line has left the queue, and no text on its way there has it: it was *)
(* pasted, so it is not pasted again.                                       *)
Left(l) == Url(l) \in pasted \ (Shown(QueueNote) \cup QueueInPoll)

(* Its links are only past the rewrite of the queue when the line has left; *)
(* the rewrite has happened, or was not needed, when its call returns.      *)
OneHome(l) ==
    /\ Links(l) \cap Filed # {} => Left(l)
    /\ poll.pc = "queue" /\ Links(l) \cap poll.finished # {} =>
          /\ Url(l) \in pasted \ poll.text
          /\ Returned(Poller) => Left(l)

HomeInv == /\ PollAsks /\ WriterAsks /\ FromPeople
           /\ \A l \in Line : Alone(l) => OneHome(l)

LEMMA HomeInitInv == Init => HomeInv
<1> SUFFICES ASSUME Init PROVE HomeInv
  OBVIOUS
<1>1. /\ \A n \in Note : entries[n].text = {}
      /\ \A c \in Client : client[c] = IdleClient
      /\ poll = IdlePoll
  BY DEF Init, LiveSyncInit, NoEntry
<1>2. PollAsks /\ WriterAsks
  BY <1>1, ItemsAreText DEF PollAsks, WriterAsks, IdleClient, IdlePoll
<1>3. InQueue = {} /\ Filed = {} /\ poll.pc = "idle"
  BY <1>1, ItemsAreText
  DEF InQueue, Filed, QueueInPoll, LinksInPoll, IdlePoll
<1> QED
  BY <1>2, <1>3 DEF HomeInv, FromPeople, OneHome

(* Who asks for what.                                                       *)
LEMMA ClientGoes ==
    ASSUME LiveSyncInv, NEW c \in Client, ClientStep(c), NEW d \in Client
    PROVE  /\ client'[d].ask = client[d].ask
           /\ client[d].pc = "idle" <=> client'[d].pc = "idle"
<1> USE DEF LiveSyncInv, LiveSyncTypeOK
<1>1. client'[d].ask = client[d].ask
  BY ClientStepReads DEF ReadsNothing, ReadsNote
<1>2. CASE d # c
  BY <1>1, <1>2, OtherClientsGoOn
<1>3. CASE d = c
  <2>0. client \in [Client -> ClientState]
    OBVIOUS
  <2>1. ASSUME NEW next, next # "idle", Goes(c, next) \/ Store(c, next) \/ Write(c, next)
        PROVE  client'[c].pc # "idle"
    <3>1. CASE Goes(c, next)
      BY <2>0, <2>1, <3>1 DEF Goes, ClientState
    <3>2. CASE Store(c, next)
      BY <2>0, <2>1, <3>2 DEF Store, ClientState
    <3>3. CASE Write(c, next)
      BY <2>0, <2>1, <3>3 DEF Write, ClientState
    <3> QED
      BY <2>1, <3>1, <3>2, <3>3
  <2>2. "entry" # "idle" /\ "conflict" # "idle" /\ "returned" # "idle" /\ "raised" # "idle"
    OBVIOUS
  <2>3. ASSUME ReadReturns(c) \/ GetConflict(c) PROVE client'[c].pc # "idle"
    BY <2>0, <2>3 DEF ReadReturns, GetConflict, ClientState
  <2>4. ASSUME ReadMerges(c) PROVE client'[c].pc # "idle"
    <3> DEFINE current == Readable(entries[client[c].ask.note])
               merged == Merge(current, client[c].ask.ours)
    <3>1. client' = [client EXCEPT
                        ![c].pc = IF current = merged THEN "returned" ELSE "chunk",
                        ![c].seen = current,
                        ![c].text = merged]
      BY <2>4 DEF ReadMerges
    <3> HIDE DEF current, merged
    <3> QED
      BY <2>0, <3>1 DEF ClientState
  <2>5. client'[c].pc # "idle"
    BY <2>1, <2>2, <2>3, <2>4
    DEF ClientStep, PutChunk, PutEntry, PutEntryConflict, PutRevision,
        PutRevisionConflict, Unavailable, LandsUnanswered
  <2>6. client[c].pc # "idle"
    BY DEF ClientStep, ReadReturns, ReadMerges, PutChunk, PutEntry, PutEntryConflict,
        GetConflict, PutRevision, PutRevisionConflict, Unavailable, LandsUnanswered, InFlight
  <2> QED
    BY <1>1, <1>3, <2>5, <2>6
<1> QED
  BY <1>2, <1>3

LEMMA BegunAsk ==
    ASSUME LiveSyncInv, NEW c \in Client, NEW ask, Begin(c, ask), NEW d \in Client
    PROVE  /\ d # c => client'[d] = client[d]
           /\ d = c => /\ client'[d].ask = ask /\ client'[d].pc \in {"chunk", "read"}
                       /\ client'[d].seen = None
<1> DEFINE put == ask.op = "put"
           s == [IdleClient EXCEPT !.ask = ask,
                                   !.pc = IF put THEN "chunk" ELSE "read",
                                   !.text = IF put THEN ask.ours ELSE None]
<1>1. client' = [client EXCEPT ![c] = s]
  BY DEF Begin
<1>2. s.ask = ask /\ s.pc \in {"chunk", "read"} /\ s.seen = None
  BY DEF IdleClient
<1> HIDE DEF s
<1> QED
  BY <1>1, <1>2 DEF LiveSyncInv, LiveSyncTypeOK

LEMMA Ended ==
    ASSUME LiveSyncInv, NEW c \in Client, Ends(c), NEW d \in Client
    PROVE  /\ d # c => client'[d] = client[d]
           /\ d = c => client'[d] = IdleClient
BY DEF Ends, LiveSyncInv, LiveSyncTypeOK

(* The poll is only taken further by its own steps, and by a kill.          *)
LEMMA PollWaits ==
    ASSUME VaultInv, [Next]_vars, ~ PollStep, ~ Kill
    PROVE  poll' = poll
BY WriterStepTypes, PersonStepTypes DEF Next, Step, VaultStep, Arrives, vars

LEMMA PollerUntouched ==
    ASSUME VaultInv, WriterStep
    PROVE  client'[Poller] = client[Poller] /\ entries' = entries
<1>1. PICK w \in Writer :
        \/ \E v \in Video : WriterStarts(w, v)
        \/ WriterBegins(w) \/ WriterProjects(w) \/ WriterLooks(w)
        \/ WriterCommits(w) \/ WriterRaises(w)
  BY DEF WriterStep
<1>2. w \in Client /\ Poller \in Client /\ w # Poller
  BY VaultAssumption
<1>3. ASSUME NEW ask, Begin(w, ask)
      PROVE  client'[Poller] = client[Poller] /\ entries' = entries
  BY <1>2, <1>3, BegunAsk DEF Begin, VaultInv
<1>4. ASSUME Ends(w)
      PROVE  client'[Poller] = client[Poller] /\ entries' = entries
  BY <1>2, <1>4, Ended DEF Ends, VaultInv
<1> QED
  BY <1>1, <1>3, <1>4 DEF WriterStarts, WriterBegins, WriterProjects, WriterLooks,
     WriterCommits, WriterRaises

LEMMA PollAsksNext ==
    ASSUME VaultInv, PollAsks, [Next]_vars
    PROVE  PollAsks'
<1> USE DEF VaultInv
<1>0. Poller \in Client /\ poll \in PollState
  BY ItemsAreText DEF TypeOK
<1>1. CASE PollBegins
  <2>1. /\ client'[Poller].ask = PollCall /\ client'[Poller].pc # "idle"
        /\ poll.pc # "read"
    BY <1>0, <1>1, BegunAsk DEF PollBegins
  <2>2. CASE poll.pc = "idle"
    <3>1. poll'.pc = "read" /\ PollCall = Read(QueueNote)
      BY <1>0, <1>1, <2>2 DEF PollBegins, PollState, PollCall
    <3> QED
      BY <2>1, <3>1 DEF PollAsks
  <2>3. CASE poll.pc # "idle"
    <3>1. poll' = poll
      BY <1>1, <2>3 DEF PollBegins
    <3>2. PollCall' = PollCall
      BY <3>1 DEF PollCall
    <3> QED
      BY <2>1, <2>3, <3>1, <3>2 DEF PollAsks
  <2> QED
    BY <2>2, <2>3
<1>2. CASE PollStep /\ ~ PollBegins
  <2>1. Ends(Poller)
    BY <1>2 DEF PollStep, PollFindsNoQueue, PollResolves, PollMoves, PollLists,
                PollEnds, PollRaises
  <2>2. client'[Poller].pc = "idle"
    BY <1>0, <2>1, Ended DEF IdleClient
  <2>3. poll'.pc # "read"
    <3>1. IdlePoll.pc # "read"
      BY DEF IdlePoll
    <3>2. CASE PollResolves
      BY <3>1, <3>2 DEF PollResolves
    <3>3. CASE PollFindsNoQueue \/ PollMoves
      BY <1>0, <3>3 DEF PollFindsNoQueue, PollMoves, PollState
    <3>4. CASE PollLists
      BY <1>0, <3>4 DEF PollLists, PollState
    <3>5. CASE PollEnds \/ PollRaises
      BY <3>1, <3>5 DEF PollEnds, PollRaises
    <3> QED
      BY <1>2, <3>2, <3>3, <3>4, <3>5 DEF PollStep
  <2> QED
    BY <2>2, <2>3 DEF PollAsks
(* The call may go on; its argument and the poll stay.                      *)
<1>3. ASSUME poll' = poll, client'[Poller].ask = client[Poller].ask,
             client'[Poller].pc = "idle" <=> client[Poller].pc = "idle"
      PROVE  PollAsks'
  <2>1. PollCall' = PollCall
    BY <1>3 DEF PollCall
  <2> QED
    BY <1>3, <2>1 DEF PollAsks
<1>4. CASE WriterStep
  BY <1>3, <1>4, PollerUntouched, WriterStepTypes
<1>5. CASE VaultStep
  BY <1>0, <1>3, <1>5, ClientGoes DEF VaultStep
<1>6. CASE PersonStep
  <2>1. PICK n \in Note : \E entry : OtherClient(n, entry)
    BY <1>6, PersonStepOthers
  <2>2. client'[Poller] = Stale(n, client[Poller]) /\ client[Poller] \in ClientState
    BY <1>0, <2>1 DEF OtherClient, LiveSyncInv, LiveSyncTypeOK
  <2> QED
    BY <1>3, <1>6, <2>2, StaleKeeps, PersonStepTypes
<1>7. CASE Arrives \/ UNCHANGED vars
  <2>1. UNCHANGED client /\ UNCHANGED poll
    BY <1>7 DEF Arrives, ChunkArrives, vars
  <2> QED
    BY <1>3, <2>1
<1>8. CASE Kill
  BY <1>0, <1>8 DEF Kill, Killed, PollAsks, IdleClient, IdlePoll
<1> QED
  BY <1>1, <1>2, <1>4, <1>5, <1>6, <1>7, <1>8 DEF Next, Step

LEMMA WriterAsksNext ==
    ASSUME VaultInv, WriterAsks, [Next]_vars
    PROVE  WriterAsks'
<1> USE DEF VaultInv
<1> SUFFICES ASSUME NEW u \in Writer, client'[u].ask # None
             PROVE  client'[u].ask.note \notin {QueueNote, CompletedNote}
  BY DEF WriterAsks
<1>0. u \in Client /\ u # Poller /\ Poller \in Client
  BY VaultAssumption
<1>1. ASSUME client'[u].ask = client[u].ask
      PROVE  client'[u].ask.note \notin {QueueNote, CompletedNote}
  BY <1>1 DEF WriterAsks
<1>2. ASSUME NEW w \in Writer, NEW ask, Begin(w, ask),
             ask.note \notin {QueueNote, CompletedNote}
      PROVE  client'[u].ask.note \notin {QueueNote, CompletedNote}
  BY <1>0, <1>1, <1>2, BegunAsk, ItemsAreText
<1>3. ASSUME NEW c \in Client, Ends(c)
      PROVE  client'[u].ask.note \notin {QueueNote, CompletedNote}
  BY <1>0, <1>1, <1>3, Ended DEF IdleClient
<1>4. CASE PollStep
  <2>1. CASE PollBegins
    BY <1>0, <1>1, <2>1, BegunAsk DEF PollBegins
  <2> QED
    BY <1>0, <1>3, <1>4, <2>1 DEF PollStep, PollFindsNoQueue, PollResolves, PollMoves,
                PollLists, PollEnds, PollRaises
<1>5. CASE WriterStep
  <2>1. PICK w \in Writer :
          \/ \E v \in Video : WriterStarts(w, v)
          \/ WriterBegins(w) \/ WriterProjects(w) \/ WriterLooks(w)
          \/ WriterCommits(w) \/ WriterRaises(w)
    BY <1>5 DEF WriterStep
  <2>2. ASSUME NEW v \in Video, WriterStarts(w, v)
        PROVE  client'[u].ask.note \notin {QueueNote, CompletedNote}
    <3>1. Put(DigestNote(v), {Body(v)}).note \notin {QueueNote, CompletedNote}
      BY NotesDiffer DEF Put
    <3> QED
      BY <1>2, <2>2, <3>1 DEF WriterStarts
  <2>3. ASSUME WriterBegins(w)
        PROVE  client'[u].ask.note \notin {QueueNote, CompletedNote}
    <3>1. /\ Read(TopicNote).note \notin {QueueNote, CompletedNote}
          /\ MergeInto(TopicNote, TopicRegion(w)).note \notin {QueueNote, CompletedNote}
      BY NotesDiffer DEF Read, MergeInto
    <3> QED
      BY <1>2, <2>3, <3>1 DEF WriterBegins
  <2> QED
    BY <1>3, <2>1, <2>2, <2>3, ItemsAreText
    DEF WriterProjects, WriterLooks, WriterCommits, WriterRaises
<1>6. CASE VaultStep
  BY <1>0, <1>1, <1>6, ClientGoes DEF VaultStep
<1>7. CASE PersonStep
  <2>1. PICK n \in Note : \E entry : OtherClient(n, entry)
    BY <1>7, PersonStepOthers
  <2>2. client'[u] = Stale(n, client[u]) /\ client[u] \in ClientState
    BY <1>0, <2>1 DEF OtherClient, LiveSyncInv, LiveSyncTypeOK
  <2> QED
    BY <1>1, <2>2, StaleKeeps
<1>8. CASE Arrives \/ UNCHANGED vars
  BY <1>1, <1>8 DEF Arrives, ChunkArrives, vars
<1>9. CASE Kill
  BY <1>0, <1>9 DEF Kill, Killed, IdleClient
<1> QED
  BY <1>4, <1>5, <1>6, <1>7, <1>8, <1>9 DEF Next, Step

(* What a step of a client makes of a note.                                 *)
LEMMA NoteOfStep ==
    ASSUME VaultInv, ProperCalls, NEW c \in Client, ClientStep(c), NEW n \in Note
    PROVE  \/ /\ entries'[n].text = entries[n].text
              /\ entries'[n].state = entries[n].state
           \/ /\ client[c].pc # "idle" /\ client[c].ask # None /\ client[c].ask.note = n
              /\ entries'[n].state = "live"
              /\ entries'[n].text = client[c].text /\ client[c].text \in Text
<1> USE DEF VaultInv, LiveSyncInv, LiveSyncTypeOK
<1>1. ASSUME NEW next, Store(c, next)
      PROVE  entries'[n].text = entries[n].text /\ entries'[n].state = entries[n].state
  BY <1>1 DEF Store, Entry
<1>2. ASSUME NEW next, Write(c, next), client[c].pc \in {"entry", "rev"}
      PROVE  \/ /\ entries'[n].text = entries[n].text
                /\ entries'[n].state = entries[n].state
             \/ /\ client[c].pc # "idle" /\ client[c].ask # None
                /\ client[c].ask.note = n
                /\ entries'[n].state = "live"
                /\ entries'[n].text = client[c].text /\ client[c].text \in Text
  <2>1. client[c].ask \in Call /\ client[c].ask # None /\ client[c].text \in Text
    BY <1>2, LiveSyncAssumption DEF Holds
  <2>2. CASE client[c].ask.note = n
    BY <1>2, <2>1, <2>2 DEF Write
  <2>3. CASE client[c].ask.note # n
    BY <1>2, <2>3 DEF Write
  <2> QED
    BY <2>2, <2>3
<1> QED
  BY <1>1, <1>2 DEF ClientStep, ReadReturns, ReadMerges, PutChunk, PutEntry,
     PutEntryConflict, GetConflict, PutRevision, PutRevisionConflict, Unavailable,
     LandsUnanswered, Goes

(* Where the queue's and the completed note's texts come from in a step of  *)
(* the client of the poll or of a writer.                                   *)
LEMMA StepWritesQueue ==
    ASSUME VaultInv, ProperCalls, PollAsks, WriterAsks, NEW c \in Client, ClientStep(c)
    PROVE  \/ /\ entries'[QueueNote].text = entries[QueueNote].text
              /\ entries'[QueueNote].state = entries[QueueNote].state
           \/ /\ poll.pc \in {"restore", "queue"}
              /\ entries'[QueueNote].state = "live"
              /\ entries'[QueueNote].text \subseteq QueueInPoll \cup {Placeholder}
<1> SUFFICES ASSUME client[c].pc # "idle", client[c].ask # None,
                    client[c].ask.note = QueueNote,
                    entries'[QueueNote].state = "live",
                    entries'[QueueNote].text = client[c].text, client[c].text \in Text
             PROVE  /\ poll.pc \in {"restore", "queue"}
                    /\ entries'[QueueNote].state = "live"
                    /\ entries'[QueueNote].text \subseteq QueueInPoll \cup {Placeholder}
  BY NoteOfStep, ItemsAreText
<1>1. c = Poller
  BY VaultAssumption DEF WriterAsks
<1>2. /\ client[c].ask = IF poll.pc = "read" THEN Read(QueueNote) ELSE PollCall
      /\ poll.pc # "idle" /\ poll \in PollState
  BY <1>1 DEF PollAsks, VaultInv, TypeOK
<1>3. client[c].ask.op = "put" => client[c].text = client[c].ask.ours
  BY DEF ProperCalls, Proper
<1>4. CASE poll.pc = "read"
  <2>1. client[c].text = None
    BY <1>2, <1>4 DEF ProperCalls, Proper, Read
  <2> QED
    BY <2>1, LiveSyncAssumption
<1>5. CASE poll.pc = "restore"
  <2>1. client[c].ask = PutBack(QueueNote, {Placeholder})
    BY <1>2, <1>5 DEF PollCall
  <2> QED
    BY <1>3, <1>5, <2>1 DEF PutBack
<1>6. CASE poll.pc = "queue"
  <2>1. client[c].ask = Put(QueueNote, poll.text)
    BY <1>2, <1>6 DEF PollCall
  <2> QED
    BY <1>3, <1>6, <2>1 DEF Put, QueueInPoll
<1>7. CASE poll.pc \in {"list", "append"}
  <2>1. client[c].ask.note = CompletedNote
    BY <1>2, <1>7 DEF PollCall, Read, Put
  <2> QED
    BY <2>1, NotesDiffer
<1> QED
  BY <1>2, <1>4, <1>5, <1>6, <1>7 DEF PollState

LEMMA StepWritesCompleted ==
    ASSUME VaultInv, ProperCalls, PollAsks, WriterAsks, NEW c \in Client, ClientStep(c)
    PROVE  entries'[CompletedNote].text \subseteq Filed
<1> SUFFICES ASSUME client[c].pc # "idle", client[c].ask # None,
                    client[c].ask.note = CompletedNote,
                    entries'[CompletedNote].text = client[c].text, client[c].text \in Text
             PROVE  entries'[CompletedNote].text \subseteq Filed
  BY NoteOfStep, ItemsAreText DEF Filed
<1>1. c = Poller
  BY VaultAssumption DEF WriterAsks
<1>2. /\ client[c].ask = IF poll.pc = "read" THEN Read(QueueNote) ELSE PollCall
      /\ poll.pc # "idle" /\ poll \in PollState
  BY <1>1 DEF PollAsks, VaultInv, TypeOK
<1>3. CASE poll.pc \in {"read", "restore", "queue"}
  <2>1. client[c].ask.note = QueueNote
    BY <1>2, <1>3 DEF PollCall, Read, Put, PutBack
  <2> QED
    BY <2>1, NotesDiffer
<1>4. CASE poll.pc = "list"
  <2>1. client[c].text = None
    BY <1>2, <1>4 DEF ProperCalls, Proper, Read, PollCall
  <2> QED
    BY <2>1, LiveSyncAssumption
<1>5. CASE poll.pc = "append"
  <2>1. client[c].ask = Put(CompletedNote, poll.seen \cup poll.finished)
    BY <1>2, <1>5 DEF PollCall
  <2>2. client[c].text = poll.seen \cup poll.finished
    BY <2>1 DEF ProperCalls, Proper, Put
  <2> QED
    BY <1>5, <2>2 DEF Filed, LinksInPoll
<1> QED
  BY <1>2, <1>3, <1>4, <1>5 DEF PollState

(* What the poll has read, after a step of a client.                        *)
LEMMA StepReads ==
    ASSUME VaultInv, PollAsks, NEW c \in Client, ClientStep(c)
    PROVE  \/ SeenText' = SeenText
           \/ SeenText' \subseteq Shown(QueueNote) /\ poll.pc # "list"
           \/ SeenText' \subseteq entries[CompletedNote].text /\ poll.pc # "read"
<1>1. CASE ReadsNothing(Poller)
  BY <1>1 DEF ReadsNothing, SeenText
<1>2. CASE ReadsNote(Poller)
  <2>1. client[Poller].ask \in Call /\ client[Poller].ask # None
    BY <1>2, LiveSyncAssumption DEF ReadsNote
  <2>2. client[Poller].pc # "idle"
    BY <2>1, ItemsAreText DEF VaultInv, LiveSyncInv, Holds, IdleClient
  <2>3. /\ client[Poller].ask = IF poll.pc = "read" THEN Read(QueueNote) ELSE PollCall
        /\ poll.pc # "idle" /\ poll \in PollState
        /\ client[Poller].ask.op \in {"read", "merge"}
    BY <1>2, <2>2 DEF PollAsks, VaultInv, TypeOK, ReadsNote
  <2>4. \/ poll.pc = "read" /\ client[Poller].ask.note = QueueNote
        \/ poll.pc = "list" /\ client[Poller].ask.note = CompletedNote
    BY <2>3 DEF PollCall, Read, Put, PutBack, PollState
  <2>5. client'[Poller].seen = Readable(entries[client[Poller].ask.note])
    BY <1>2 DEF ReadsNote
  <2> QED
    BY <2>4, <2>5, ItemsAreText, LiveSyncAssumption DEF Readable, SeenText, Shown
<1> QED
  BY <1>1, <1>2, ClientStepReads, ItemsAreText DEF VaultInv

(* A rewrite of the queue that returns has left no other text to be seen:   *)
(* it landed, or found this text there already, or found no note.           *)
LEMMA QueuePutReturns ==
    ASSUME LiveSyncInv, NEW c \in Client, ClientStep(c), NEW n \in Note, NEW text \in Text,
           client[c].ask = Put(n, text), client[c].text = text,
           client'[c].pc = "returned"
    PROVE  Shown(n)' \subseteq text
<1> USE DEF LiveSyncInv, LiveSyncTypeOK
<1>0. client[c].ask.note = n /\ client[c].ask.op = "put" /\ ~ client[c].ask.revive
  BY DEF Put
<1>1. CASE PutEntry(c) \/ PutRevision(c)
  <2>1. entries'[n].text = text
    BY <1>0, <1>1 DEF PutEntry, PutRevision, Write
  <2> QED
    BY <2>1 DEF Shown
<1>2. CASE GetConflict(c)
  <2>1. ~ Wanted(entries[n], c) /\ UNCHANGED entries
    BY <1>0, <1>2 DEF GetConflict
  <2> QED
    BY <1>0, <2>1 DEF Wanted, Shown
<1>3. ~ (ReadReturns(c) \/ ReadMerges(c))
  BY <1>0 DEF ReadReturns, ReadMerges
<1>4. ASSUME NEW next, next # "returned", Goes(c, next) \/ Store(c, next) \/ Write(c, next)
      PROVE  FALSE
  <2>0. client \in [Client -> ClientState]
    OBVIOUS
  <2>1. CASE Goes(c, next)
    BY <1>4, <2>0, <2>1 DEF Goes, ClientState
  <2>2. CASE Store(c, next)
    BY <1>4, <2>0, <2>2 DEF Store, ClientState
  <2>3. CASE Write(c, next)
    BY <1>4, <2>0, <2>3 DEF Write, ClientState
  <2> QED
    BY <1>4, <2>1, <2>2, <2>3
<1>5. "entry" # "returned" /\ "raised" # "returned" /\ "conflict" # "returned"
  OBVIOUS
<1>6. ~ (PutChunk(c) \/ PutEntryConflict(c) \/ PutRevisionConflict(c) \/ Unavailable(c))
  BY <1>4, <1>5 DEF PutChunk, PutEntryConflict, PutRevisionConflict, Unavailable
<1>7. ~ LandsUnanswered(c)
  BY <1>4, <1>5 DEF LandsUnanswered
<1> QED
  BY <1>1, <1>2, <1>3, <1>6, <1>7 DEF ClientStep

(* People only add to the queue what they have not pasted yet.              *)
LEMMA PersonWritesText ==
    ASSUME VaultInv, NEW m \in Note, NEW text, PersonWrites(m, text), NEW n \in Note
    PROVE  /\ n = m => entries'[n].text = text
           /\ n # m => entries'[n] = entries[n]
BY DEF PersonWrites, OtherClient, VaultInv, LiveSyncInv, LiveSyncTypeOK

LEMMA PeopleQueue ==
    ASSUME VaultInv, PersonStep
    PROVE  /\ pasted \subseteq pasted'
           /\ entries'[QueueNote].text \subseteq entries[QueueNote].text \cup (pasted' \ pasted)
           /\ Shown(QueueNote)' \subseteq Shown(QueueNote) \cup (pasted' \ pasted)
           /\ entries'[CompletedNote].text \subseteq entries[CompletedNote].text
<1> DEFINE Same(n) == /\ entries'[n].text \subseteq entries[n].text
                      /\ entries'[n].state = "live" => entries[n].state = "live"
           More == /\ pasted \subseteq pasted'
                   /\ entries'[QueueNote].text \subseteq
                         entries[QueueNote].text \cup (pasted' \ pasted)
                   /\ Shown(QueueNote)' \subseteq Shown(QueueNote) \cup (pasted' \ pasted)
                   /\ Same(CompletedNote)
<1> USE ItemsAreText, NotesDiffer
<1>0. Shown(QueueNote) \subseteq entries[QueueNote].text
  BY DEF Shown
<1>1. ASSUME NEW i, PersonWrites(QueueNote, Shown(QueueNote) \cup {i}),
             pasted' = pasted \cup {i}, i \notin pasted
      PROVE  More
  <2>1. /\ entries'[QueueNote].text = Shown(QueueNote) \cup {i}
        /\ entries'[CompletedNote] = entries[CompletedNote]
    BY <1>1, PersonWritesText
  <2> QED
    BY <1>0, <1>1, <2>1 DEF Shown
<1>2. ASSUME Same(QueueNote), Same(CompletedNote), pasted' = pasted PROVE More
  BY <1>2 DEF Shown
<1>3. ASSUME NEW l \in Line, PersonPastes(l) PROVE More
  BY <1>1, <1>3 DEF PersonPastes
<1>4. ASSUME NEW v \in Video, PersonLinks(v) PROVE More
  BY <1>1, <1>4 DEF PersonLinks
<1>5. ASSUME NEW p \in Person, PersonAdds(p) PROVE More
  <2>1. PersonWrites(TopicNote, Shown(TopicNote) \cup {Prose(p)}) /\ pasted' = pasted
    BY <1>5 DEF PersonAdds
  <2>2. /\ entries'[QueueNote] = entries[QueueNote]
        /\ entries'[CompletedNote] = entries[CompletedNote]
    BY <2>1, PersonWritesText
  <2> QED
    BY <1>2, <2>1, <2>2
<1>6. ASSUME PersonEmpties PROVE More
  BY <1>2, <1>6 DEF PersonEmpties, OtherClient, Whole, VaultInv, LiveSyncInv, LiveSyncTypeOK
<1>7. ASSUME NEW m \in Note, PersonDeletes(m) PROVE More
  <2>1. \A n \in Note : Same(n)
    <3> SUFFICES ASSUME NEW n \in Note PROVE Same(n)
      OBVIOUS
    <3>1. CASE SoftDelete(m)
      <4>1. entries' = [entries EXCEPT ![m] = [entries[m] EXCEPT !.state = "deleted"]]
        BY <3>1 DEF SoftDelete, OtherClient
      <4>2. [entries[m] EXCEPT !.state = "deleted"].text = entries[m].text
            /\ [entries[m] EXCEPT !.state = "deleted"].state = "deleted"
        BY DEF VaultInv, LiveSyncInv, LiveSyncTypeOK, Entry
      <4>3. n = m => /\ entries'[n].text = entries[n].text
                     /\ entries'[n].state = "deleted"
        BY <4>1, <4>2 DEF VaultInv, LiveSyncInv, LiveSyncTypeOK
      <4>4. n # m => entries'[n] = entries[n]
        BY <4>1 DEF VaultInv, LiveSyncInv, LiveSyncTypeOK
      <4> QED
        BY <4>3, <4>4
    <3>2. CASE OtherClient(m, NoEntry)
      BY <3>2 DEF OtherClient, NoEntry, VaultInv, LiveSyncInv, LiveSyncTypeOK
    <3> QED
      BY <1>7, <3>1, <3>2 DEF PersonDeletes
  <2>2. pasted' = pasted
    BY <1>7 DEF PersonDeletes
  <2> QED
    BY <1>2, <2>1, <2>2
<1> QED
  BY <1>3, <1>4, <1>5, <1>6, <1>7 DEF PersonStep

LEMMA PastedGrows ==
    ASSUME VaultInv, [Next]_vars
    PROVE  pasted \subseteq pasted'
BY PollStepTypes, WriterStepTypes, PeopleQueue DEF Next, Step, VaultStep, Arrives, Kill, vars

(* A step that is neither the poll's nor a client's leaves what the poll    *)
(* has read.                                                                *)
LEMMA OthersLeavePoll ==
    ASSUME VaultInv, WriterStep \/ PersonStep \/ Arrives \/ UNCHANGED vars
    PROVE  /\ poll' = poll /\ SeenText' = SeenText
           /\ client'[Poller].pc = client[Poller].pc
<1> USE DEF VaultInv
<1>1. CASE WriterStep
  BY <1>1, PollerUntouched, WriterStepTypes DEF SeenText
<1>2. CASE PersonStep
  <2>1. PICK n \in Note : \E entry : OtherClient(n, entry)
    BY <1>2, PersonStepOthers
  <2>2. client'[Poller] = Stale(n, client[Poller]) /\ client[Poller] \in ClientState
    BY <2>1, ItemsAreText DEF OtherClient, LiveSyncInv, LiveSyncTypeOK
  <2> QED
    BY <1>2, <2>2, StaleKeeps, StaleSees, PersonStepTypes DEF SeenText
<1>3. CASE Arrives \/ UNCHANGED vars
  BY <1>3 DEF Arrives, ChunkArrives, vars, SeenText
<1> QED
  BY <1>1, <1>2, <1>3

LEMMA ArrivesKeeps ==
    ASSUME VaultInv, Arrives, NEW n \in Note
    PROVE  entries'[n].text = entries[n].text /\ entries'[n].state = entries[n].state
BY DEF Arrives, ChunkArrives, VaultInv, LiveSyncInv, LiveSyncTypeOK, Entry

(* What a poll at its own step holds of the queue, and of the completed     *)
(* note.                                                                    *)
LEMMA PollStepHolds ==
    ASSUME VaultInv, PollStep
    PROVE  /\ entries' = entries
           /\ QueueInPoll' \subseteq QueueInPoll \cup {Placeholder}
           /\ LinksInPoll' \subseteq LinksInPoll \cup
                 (IF poll.pc = "queue" /\ Returned(Poller) THEN poll.finished ELSE {})
<1> USE DEF VaultInv
<1>0. Poller \in Client /\ poll \in PollState
  BY ItemsAreText DEF TypeOK
<1>1. ASSUME poll' = IdlePoll PROVE QueueInPoll' = {} /\ LinksInPoll' = {}
  BY <1>1 DEF IdlePoll, QueueInPoll, LinksInPoll
<1>2. CASE PollBegins
  <2>1. entries' = entries /\ client'[Poller].seen = None
    BY <1>0, <1>2, BegunAsk DEF PollBegins, Begin
  <2>2. SeenText' = {}
    BY <2>1 DEF SeenText
  <2>3. CASE poll.pc = "idle"
    <3>1. poll'.pc = "read"
      BY <1>0, <1>2, <2>3 DEF PollBegins, PollState
    <3> QED
      BY <2>1, <2>2, <3>1 DEF QueueInPoll, LinksInPoll
  <2>4. CASE poll.pc # "idle"
    <3>1. poll' = poll /\ poll.pc # "read"
      BY <1>2, <2>4 DEF PollBegins
    <3> QED
      BY <2>1, <2>2, <3>1 DEF QueueInPoll, LinksInPoll
  <2> QED
    BY <2>3, <2>4
<1>3. ASSUME Ends(Poller) PROVE entries' = entries /\ SeenText' = {}
  <2>1. client'[Poller].seen = None
    BY <1>0, <1>3, Ended DEF IdleClient
  <2> QED
    BY <1>3, <2>1 DEF SeenText, Ends
<1>4. CASE PollFindsNoQueue
  <2>1. poll'.pc = "restore"
    BY <1>0, <1>4 DEF PollFindsNoQueue, PollState
  <2> QED
    BY <1>3, <1>4, <2>1 DEF PollFindsNoQueue, QueueInPoll, LinksInPoll
<1>5. CASE PollResolves
  <2>1. QueueInPoll = client[Poller].seen
    BY <1>5 DEF PollResolves, QueueInPoll, SeenText
  <2>2. \/ poll' = IdlePoll
        \/ /\ poll'.pc = "queue"
           /\ poll'.text \subseteq client[Poller].seen \cup {Placeholder}
    BY <1>5 DEF PollResolves, OrPlaceholder
  <2> QED
    BY <1>1, <1>3, <1>5, <2>1, <2>2 DEF PollResolves, QueueInPoll, LinksInPoll
<1>6. CASE PollMoves
  <2>1. /\ poll'.pc = "list" /\ poll'.finished = poll.finished
        /\ poll.pc = "queue" /\ Returned(Poller)
    BY <1>0, <1>6 DEF PollMoves, PollState
  <2> QED
    BY <1>3, <1>6, <2>1 DEF PollMoves, QueueInPoll, LinksInPoll
<1>7. CASE PollLists
  <2>1. poll' = [poll EXCEPT !.pc = "append", !.seen = SeenText] /\ poll.pc = "list"
    BY <1>7 DEF PollLists, SeenText
  <2>2. /\ poll'.pc = "append" /\ poll'.finished = poll.finished
        /\ poll'.seen = SeenText
    BY <1>0, <2>1 DEF PollState
  <2> QED
    BY <1>3, <1>7, <2>1, <2>2 DEF PollLists, QueueInPoll, LinksInPoll
<1>8. CASE PollEnds \/ PollRaises
  BY <1>1, <1>3, <1>8 DEF PollEnds, PollRaises
<1> QED
  BY <1>2, <1>4, <1>5, <1>6, <1>7, <1>8 DEF PollStep

(* What may be in the queue after a step, with all that may be on its way:  *)
(* a line that has left comes back only if people paste it.                 *)
LEMMA QueueNext ==
    ASSUME VaultInv, ProperCalls, PollAsks, WriterAsks, [Next]_vars
    PROVE  /\ InQueue' \subseteq InQueue \cup {Placeholder} \cup (pasted' \ pasted)
           /\ (Shown(QueueNote) \cup QueueInPoll)' \subseteq
                 Shown(QueueNote) \cup QueueInPoll \cup {Placeholder} \cup (pasted' \ pasted)
<1> USE DEF InQueue
<1>0. QueueNote \in Note /\ Shown(QueueNote) \subseteq entries[QueueNote].text
  BY ItemsAreText DEF Shown
<1>1. CASE PollStep
  BY <1>1, PollStepHolds DEF Shown
<1>2. ASSUME poll' = poll, SeenText' = SeenText PROVE QueueInPoll' = QueueInPoll
  BY <1>2 DEF QueueInPoll
<1>3. CASE WriterStep
  BY <1>2, <1>3, OthersLeavePoll, PollerUntouched DEF Shown
<1>4. CASE PersonStep
  BY <1>2, <1>4, OthersLeavePoll, PeopleQueue
<1>5. CASE Arrives
  BY <1>0, <1>2, <1>5, OthersLeavePoll, ArrivesKeeps DEF Shown
<1>6. CASE UNCHANGED vars
  BY <1>2, <1>6, OthersLeavePoll DEF Shown, vars
<1>7. CASE Kill
  <2>1. entries' = entries /\ poll'.pc = "idle"
    BY <1>7 DEF Kill, Killed, IdlePoll
  <2> QED
    BY <2>1 DEF QueueInPoll, Shown
<1>8. CASE VaultStep
  <2>1. PICK c \in Client : ClientStep(c)
    BY <1>8 DEF VaultStep
  <2>2. poll' = poll
    BY <1>8 DEF VaultStep
  <2>3. QueueInPoll' \subseteq QueueInPoll \cup Shown(QueueNote)
    BY <2>1, <2>2, StepReads DEF QueueInPoll
  <2>4. /\ entries'[QueueNote].text \subseteq
             entries[QueueNote].text \cup QueueInPoll \cup {Placeholder}
        /\ Shown(QueueNote)' \subseteq Shown(QueueNote) \cup QueueInPoll \cup {Placeholder}
    BY <2>1, StepWritesQueue DEF Shown
  <2> QED
    BY <1>0, <2>3, <2>4
<1> QED
  BY <1>1, <1>3, <1>4, <1>5, <1>6, <1>7, <1>8 DEF Next, Step

(* Links get to the completed note only from a poll whose rewrite of the    *)
(* queue has returned.                                                      *)
LEMMA FiledNext ==
    ASSUME VaultInv, ProperCalls, PollAsks, WriterAsks, [Next]_vars
    PROVE  Filed' \subseteq Filed \cup
             (IF poll.pc = "queue" /\ Returned(Poller) THEN poll.finished ELSE {})
<1> USE DEF Filed
<1>0. CompletedNote \in Note
  BY ItemsAreText
<1>1. CASE PollStep
  BY <1>1, PollStepHolds
<1>2. ASSUME poll' = poll, SeenText' = SeenText PROVE LinksInPoll' = LinksInPoll
  BY <1>2 DEF LinksInPoll
<1>3. CASE WriterStep
  BY <1>2, <1>3, OthersLeavePoll, PollerUntouched
<1>4. CASE PersonStep
  BY <1>2, <1>4, OthersLeavePoll, PeopleQueue
<1>5. CASE Arrives
  BY <1>0, <1>2, <1>5, OthersLeavePoll, ArrivesKeeps
<1>6. CASE UNCHANGED vars
  BY <1>2, <1>6, OthersLeavePoll DEF vars
<1>7. CASE Kill
  <2>1. entries' = entries /\ poll'.pc = "idle"
    BY <1>7 DEF Kill, Killed, IdlePoll
  <2> QED
    BY <2>1 DEF LinksInPoll
<1>8. CASE VaultStep
  <2>1. PICK c \in Client : ClientStep(c)
    BY <1>8 DEF VaultStep
  <2>2. poll' = poll
    BY <1>8 DEF VaultStep
  <2>3. LinksInPoll' \subseteq LinksInPoll \cup entries[CompletedNote].text
    BY <2>1, <2>2, StepReads DEF LinksInPoll
  <2> QED
    BY <2>1, <2>3, StepWritesCompleted
<1> QED
  BY <1>1, <1>3, <1>4, <1>5, <1>6, <1>7, <1>8 DEF Next, Step

(* A line whose links the poll takes out of the queue, alone, is taken out. *)
LEMMA LineResolved ==
    ASSUME VaultInv, FromPeople, PollResolves, NEW l \in Line, Alone(l),
           poll'.pc = "queue", Links(l) \cap poll'.finished # {}
    PROVE  Url(l) \in pasted \ poll'.text
<1> DEFINE current == client[Poller].seen
<1>1. PICK accepted \in SUBSET {k \in Line : Url(k) \in current} :
        LET done == {i \in current : Resolved(i, accepted) # {}} IN
        poll' = IF done = {} THEN IdlePoll
                ELSE [pc |-> "queue", seen |-> current,
                      text |-> OrPlaceholder(current \ done),
                      finished |-> UNION {Resolved(i, accepted) : i \in done}]
  BY DEF PollResolves
<1>2. current \subseteq pasted \cup {Placeholder}
  BY DEF PollResolves, FromPeople, InQueue, QueueInPoll, SeenText
<1>3. IdlePoll.pc # "queue"
  BY DEF IdlePoll
<1> HIDE DEF current
<1> DEFINE done == {i \in current : Resolved(i, accepted) # {}}
<1>4. /\ poll'.text = OrPlaceholder(current \ done)
      /\ poll'.finished = UNION {Resolved(i, accepted) : i \in done}
  BY <1>1, <1>3
<1>5. PICK v \in VideosOf[l], i \in done : Link(v) \in Resolved(i, accepted)
  BY <1>4 DEF Links
<1>6. i \in current /\ v \in Video
  BY <1>5, VaultAssumption
<1>7. Names(i, v)
  <2>1. CASE i \in {Link(u) : u \in Video}
    BY <1>5, <2>1 DEF Resolved, Names
  <2>2. CASE i \notin {Link(u) : u \in Video}
    <3>1. PICK k \in accepted :
            Link(v) \in IF i = Url(k) /\ VideosOf[k] \subseteq noted
                        THEN {Link(u) : u \in VideosOf[k]} ELSE {}
      BY <1>5, <2>2 DEF Resolved
    <3>2. PICK u \in VideosOf[k] : Link(v) = Link(u) /\ i = Url(k)
      BY <3>1
    <3>3. k \in Line /\ v \in VideosOf[k]
      BY <1>1, <3>1, <3>2, LinksDiffer
    <3> QED
      BY <3>2, <3>3 DEF Names
  <2> QED
    BY <2>1, <2>2
<1>8. i # Placeholder
  <2>1. Placeholder # Link(v) /\ \A k : Placeholder # Url(k)
    BY LinksDiffer DEF Placeholder, Url
  <2> QED
    BY <1>7, <2>1 DEF Names
<1>9. i = Url(l) /\ i \in pasted
  BY <1>2, <1>5, <1>6, <1>7, <1>8 DEF Alone
<1>10. Url(l) \notin poll'.text
  BY <1>4, <1>5, <1>8, <1>9 DEF OrPlaceholder
<1> QED
  BY <1>9, <1>10

LEMMA OneHomeNext ==
    ASSUME VaultInv, ProperCalls, PollAsks, WriterAsks, FromPeople, [Next]_vars,
           NEW l \in Line, Alone(l), OneHome(l)
    PROVE  OneHome(l)'
<1> USE DEF VaultInv
<1>0. Poller \in Client /\ poll \in PollState /\ Url(l) # Placeholder
  BY ItemsAreText DEF TypeOK, Url, Placeholder
<1>1. ASSUME Left(l) PROVE Left(l)'
  <2>1. Url(l) \in pasted'
    BY <1>1, PastedGrows DEF Left
  <2>2. Url(l) \notin (Shown(QueueNote) \cup QueueInPoll)'
    BY <1>0, <1>1, QueueNext DEF Left
  <2> QED
    BY <2>1, <2>2 DEF Left
<1>2. Links(l)' = Links(l)
  BY DEF Links
<1>3. ASSUME Links(l) \cap Filed' # {} PROVE Left(l)'
  BY <1>1, <1>3, FiledNext DEF OneHome
<1>4. ASSUME poll'.pc = "queue", Links(l) \cap poll'.finished # {}
      PROVE  Url(l) \in pasted' \ poll'.text /\ (Returned(Poller)' => Left(l)')
  <2>1. CASE PollResolves
    <3>1. ~ Returned(Poller)'
      BY <1>0, <2>1, Ended DEF PollResolves, Returned, IdleClient
    <3> QED
      BY <1>4, <2>1, <3>1, LineResolved, PastedGrows
  <2>2. CASE PollBegins
    <3>1. poll' = poll
      BY <1>0, <1>4, <2>2 DEF PollBegins, PollState
    <3>2. ~ Returned(Poller)'
      BY <1>0, <2>2, BegunAsk DEF PollBegins, Returned
    <3> QED
      BY <1>4, <3>1, <3>2, PastedGrows DEF OneHome
  <2>3. CASE PollFindsNoQueue \/ PollMoves
    BY <1>0, <1>4, <2>3 DEF PollFindsNoQueue, PollMoves, PollState
  <2>4. CASE PollLists
    BY <1>0, <1>4, <2>4 DEF PollLists, PollState
  <2>5. CASE PollEnds \/ PollRaises \/ Kill
    BY <1>4, <2>5 DEF PollEnds, PollRaises, Kill, IdlePoll
  <2>6. CASE WriterStep \/ PersonStep \/ Arrives \/ UNCHANGED vars
    <3>1. poll' = poll /\ (Returned(Poller)' => Returned(Poller))
      BY <2>6, OthersLeavePoll DEF Returned
    <3> QED
      BY <1>1, <1>4, <3>1, PastedGrows DEF OneHome
  <2>7. CASE VaultStep
    <3>1. PICK c \in Client : ClientStep(c)
      BY <2>7 DEF VaultStep
    <3>2. poll' = poll
      BY <2>7 DEF VaultStep
    <3>3. Url(l) \in pasted' \ poll'.text
      BY <1>4, <3>2, PastedGrows DEF OneHome
    <3>4. CASE Returned(Poller)
      BY <1>1, <1>4, <3>2, <3>3, <3>4 DEF OneHome
    <3>5. ASSUME ~ Returned(Poller), Returned(Poller)' PROVE Left(l)'
      <4>1. c = Poller
        BY <1>0, <3>1, <3>5, OtherClientsGoOn DEF Returned
      <4>2. client[Poller].pc # "idle"
        BY <1>0, <3>1, <3>5, ClientGoes DEF Returned
      <4>3. client[Poller].ask = Put(QueueNote, poll.text)
        BY <1>4, <3>2, <4>2 DEF PollAsks, PollCall
      <4>4. client[Poller].text = poll.text /\ poll.text \in Text
        <5>1. client[Poller].ask # None
          BY <1>0, <4>2, LiveSyncAssumption DEF LiveSyncInv, Holds
        <5>2. client[Poller].ask.op = "put" /\ client[Poller].ask.ours = poll.text
          BY <4>3 DEF Put
        <5> QED
          BY <1>0, <5>1, <5>2 DEF ProperCalls, Proper, PollState
      <4>5. Shown(QueueNote)' \subseteq poll.text
        BY <1>0, <3>1, <3>5, <4>1, <4>3, <4>4, QueuePutReturns, ItemsAreText DEF Returned
      <4>6. QueueInPoll' = poll.text
        BY <1>4, <3>2 DEF QueueInPoll
      <4> QED
        BY <3>2, <3>3, <4>5, <4>6 DEF Left
    <3> QED
      BY <3>3, <3>4, <3>5
  <2> QED
    BY <2>1, <2>2, <2>3, <2>4, <2>5, <2>6, <2>7 DEF Next, Step, PollStep
<1> QED
  BY <1>2, <1>3, <1>4 DEF OneHome

LEMMA HomeNextInv ==
    ASSUME VaultInv, ProperCalls, HomeInv, [Next]_vars
    PROVE  HomeInv'
<1> USE DEF HomeInv
<1>1. PollAsks' /\ WriterAsks'
  BY PollAsksNext, WriterAsksNext
<1>2. FromPeople'
  BY QueueNext, PastedGrows DEF FromPeople
<1>3. ASSUME NEW l \in Line, Alone(l)' PROVE OneHome(l)'
  <2>1. Alone(l)
    BY <1>3, PastedGrows DEF Alone, Names
  <2> QED
    BY <2>1, OneHomeNext
<1> QED
  BY <1>1, <1>2, <1>3

(* A line whose videos are on the completed note is no longer in the queue, *)
(* unless people have put them into the queue twice: however polls fail,    *)
(* are killed and are retried, no line is filed twice (inbox.py:97-103).    *)
THEOREM LinesHaveOneHome == Spec => []LineHasOneHome
<1>1. Init => HomeInv
  BY HomeInitInv
<1>2. VaultInv /\ ProperCalls /\ HomeInv /\ [Next]_vars => HomeInv'
  BY HomeNextInv
<1>3. VaultInv /\ HomeInv => LineHasOneHome
  <2> SUFFICES ASSUME HomeInv, NEW l \in Line,
                      Url(l) \in Shown(QueueNote),
                      \A v \in VideosOf[l] : Link(v) \in entries[CompletedNote].text,
                      Alone(l)
               PROVE  FALSE
    BY DEF LineHasOneHome, Alone
  <2>1. PICK v \in VideosOf[l] : TRUE
    BY VaultAssumption
  <2>2. Links(l) \cap Filed # {}
    BY <2>1 DEF Links, Filed
  <2> QED
    BY <2>2 DEF HomeInv, OneHome, Left
<1> QED
  BY <1>1, <1>2, <1>3, VaultProper, PTL DEF Spec
=============================================================================
