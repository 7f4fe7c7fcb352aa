--------------------------- MODULE LiveSyncProofs ---------------------------
(***************************************************************************)
(* The vault's client keeps the promise of NoteStore, for any number of    *)
(* clients, notes and items and any other writers.                         *)
(***************************************************************************)
EXTENDS LiveSync, TLAPS

(* What a call holds at each point.  RevisionGuards says that a revision    *)
(* is only used for an entry that is still to be replaced; without the rest *)
(* it is not inductive: `text` is there from the first PUT on, its chunk    *)
(* from the second, and nothing has landed before the call returns.         *)
Holds(s) ==
    /\ s.pc = "idle" => s = IdleClient
    /\ s.pc # "idle" => s.ask \in Call
    /\ s.pc = "read" => s.text = None /\ s.ask.op \in {"read", "merge"}
    /\ s.pc \in {"chunk", "entry", "conflict", "rev"} => s.text \in Text
    /\ s.pc \in {"entry", "conflict", "rev"} => s.stored
    /\ s.pc \in InFlight => ~s.landed

LiveSyncInv ==
    /\ LiveSyncTypeOK
    /\ \A c \in Client : Holds(client[c])
    /\ RevisionGuards

-----------------------------------------------------------------------------
(* A merge of texts is a text (notes.py:120-154).                           *)
LEMMA MergeIsText ==
    ASSUME NEW existing \in {None} \cup Text, NEW ours \in Text
    PROVE  Merge(existing, ours) \in Text
BY LiveSyncAssumption DEF Merge, Text

LEMMA ReadableIsText ==
    ASSUME NEW entry \in Entry
    PROVE  Readable(entry) \in {None} \cup Text
BY DEF Readable, Entry

(* A revision that moved on is not fresh, and nothing else of a call changes.*)
LEMMA StaleKeeps ==
    ASSUME NEW n, NEW s \in ClientState
    PROVE  /\ Stale(n, s) \in ClientState
           /\ Stale(n, s).pc = s.pc /\ Stale(n, s).ask = s.ask
           /\ Stale(n, s).text = s.text /\ Stale(n, s).stored = s.stored
           /\ Stale(n, s).landed = s.landed
           /\ Stale(n, s).fresh => s.fresh /\ (s.ask = None \/ s.ask.note # n)
           /\ s = IdleClient => Stale(n, s) = s
<1>1. CASE s.ask # None /\ s.ask.note = n
  <2>1. Stale(n, s) = [s EXCEPT !.fresh = FALSE]
    BY <1>1 DEF Stale
  <2>2. s # IdleClient
    BY <1>1 DEF IdleClient
  <2> QED
    BY <2>1, <2>2 DEF ClientState
<1>2. CASE ~(s.ask # None /\ s.ask.note = n)
  BY <1>2 DEF Stale
<1> QED
  BY <1>1, <1>2

-----------------------------------------------------------------------------
(* The invariant.                                                           *)

LEMMA InitInv == LiveSyncInit => LiveSyncInv
BY DEF LiveSyncInit, LiveSyncInv, LiveSyncTypeOK, NoEntry, Entry, Text, IdleClient,
       ClientState, Holds, InFlight, RevisionGuards

(* Client c goes on, the entries keep what Wanted looks at.                 *)
LEMMA OneClientInv ==
    ASSUME LiveSyncInv, NEW c \in Client, NEW s \in ClientState,
           client' = [client EXCEPT ![c] = s],
           entries' \in [Note -> Entry],
           \A n \in Note : /\ entries'[n].state = entries[n].state
                           /\ entries'[n].text = entries[n].text,
           Holds(s),
           s.pc = "rev" /\ s.fresh => Wanted(entries[s.ask.note], c)'
    PROVE  LiveSyncInv'
<1> USE DEF LiveSyncInv
<1>1. LiveSyncTypeOK'
  BY DEF LiveSyncTypeOK
<1>2. \A d \in Client : client'[d] = IF d = c THEN s ELSE client[d]
  BY DEF LiveSyncTypeOK
<1>3. \A d \in Client : Holds(client'[d])
  BY <1>2
<1>4. RevisionGuards'
  <2> SUFFICES ASSUME NEW d \in Client, client'[d].pc = "rev", client'[d].fresh
               PROVE  Wanted(entries[client[d].ask.note], d)'
    BY DEF RevisionGuards
  <2>1. CASE d = c
    BY <1>2, <2>1 DEF Wanted
  <2>2. CASE d # c
    <3>1. client[d].ask \in Call /\ client'[d] = client[d]
      BY <1>2, <2>2 DEF Holds
    <3>2. client[d].ask.note \in Note
      BY <3>1 DEF Call
    <3> QED
      BY <3>1, <3>2 DEF RevisionGuards, Wanted
  <2> QED
    BY <2>1, <2>2
<1> QED
  BY <1>1, <1>3, <1>4

(* A step of one client that leaves the entries alone.                      *)
LEMMA OneClientGoes ==
    ASSUME LiveSyncInv, NEW c \in Client, NEW s \in ClientState,
           client' = [client EXCEPT ![c] = s], UNCHANGED entries,
           Holds(s),
           s.pc = "rev" /\ s.fresh => Wanted(entries[s.ask.note], c)'
    PROVE  LiveSyncInv'
BY OneClientInv DEF LiveSyncInv, LiveSyncTypeOK

LEMMA BeginInv ==
    ASSUME LiveSyncInv, NEW c \in Client, NEW ask \in Call, Begin(c, ask)
    PROVE  LiveSyncInv'
<1> DEFINE put == ask.op = "put"
           s == [IdleClient EXCEPT !.ask = ask,
                                   !.pc = IF put THEN "chunk" ELSE "read",
                                   !.text = IF put THEN ask.ours ELSE None]
<1>1. client' = [client EXCEPT ![c] = s] /\ UNCHANGED entries
  BY DEF Begin
<1>2. s \in ClientState
  BY DEF ClientState, Call, IdleClient
<1>3. Holds(s)
  BY DEF Holds, Call, InFlight, IdleClient
<1>4. s.pc # "rev"
  BY DEF IdleClient
<1> HIDE DEF s
<1> QED
  BY <1>1, <1>2, <1>3, <1>4, OneClientGoes

(* ReadReturns and ReadMerges.                                              *)
LEMMA ReadInv ==
    ASSUME LiveSyncInv, NEW c \in Client, ReadReturns(c) \/ ReadMerges(c)
    PROVE  LiveSyncInv'
<1> DEFINE ask     == client[c].ask
           current == Readable(entries[ask.note])
           merged  == Merge(current, ask.ours)
<1>1. /\ client[c] \in ClientState /\ client[c].pc = "read"
      /\ Holds(client[c]) /\ ask \in Call /\ UNCHANGED entries
  BY DEF LiveSyncInv, LiveSyncTypeOK, ReadReturns, ReadMerges, Holds
<1>2. current \in {None} \cup Text
  BY <1>1, ReadableIsText DEF LiveSyncInv, LiveSyncTypeOK, Call
<1>3. merged \in Text
  BY <1>1, <1>2, MergeIsText DEF Call
<1> HIDE DEF current, merged
<1>4. CASE ReadReturns(c)
  <2> DEFINE s == [client[c] EXCEPT !.pc = "returned", !.seen = current]
  <2>1. client' = [client EXCEPT ![c] = s]
    BY <1>4 DEF ReadReturns, current, LiveSyncInv, LiveSyncTypeOK
  <2>2. s \in ClientState /\ Holds(s) /\ s.pc = "returned"
    BY <1>1, <1>2 DEF ClientState, Holds, InFlight
  <2> HIDE DEF s
  <2> QED
    BY <1>1, <2>1, <2>2, OneClientGoes
<1>5. CASE ReadMerges(c)
  <2> DEFINE s == [client[c] EXCEPT
                     !.pc = IF current = merged THEN "returned" ELSE "chunk",
                     !.seen = current, !.text = merged]
  <2>1. client' = [client EXCEPT ![c] = s]
    BY <1>5 DEF ReadMerges, current, merged, LiveSyncInv, LiveSyncTypeOK
  <2>2. s \in ClientState /\ Holds(s) /\ s.pc # "rev"
    BY <1>1, <1>2, <1>3 DEF ClientState, Holds, InFlight
  <2> HIDE DEF s
  <2> QED
    BY <1>1, <2>1, <2>2, OneClientGoes
<1> QED
  BY <1>4, <1>5

(* PutEntryConflict, PutRevisionConflict and Unavailable.                   *)
LEMMA GoesInv ==
    ASSUME LiveSyncInv, NEW c \in Client, NEW next \in {"conflict", "raised"},
           client[c].pc \in InFlight, Goes(c, next),
           next = "conflict" => client[c].pc = "entry"
    PROVE  LiveSyncInv'
<1> DEFINE s == [client[c] EXCEPT !.pc = next]
<1>1. client' = [client EXCEPT ![c] = s] /\ UNCHANGED entries
  BY DEF Goes, LiveSyncInv, LiveSyncTypeOK
<1>2. client[c] \in ClientState /\ Holds(client[c])
  BY DEF LiveSyncInv, LiveSyncTypeOK
<1>3. s \in ClientState /\ Holds(s) /\ s.pc # "rev"
  BY <1>2 DEF ClientState, Holds, InFlight
<1> HIDE DEF s
<1> QED
  BY <1>1, <1>3, OneClientGoes

LEMMA GetConflictInv ==
    ASSUME LiveSyncInv, NEW c \in Client, GetConflict(c)
    PROVE  LiveSyncInv'
<1>1. client[c] \in ClientState /\ Holds(client[c]) /\ client[c].pc = "conflict"
  BY DEF LiveSyncInv, LiveSyncTypeOK, GetConflict
<1>2. CASE Wanted(entries[client[c].ask.note], c)
  <2>0. [client[c] EXCEPT !.pc = "rev", !.fresh = TRUE] \in ClientState
    BY <1>1 DEF ClientState
  <2>s. PICK s \in ClientState : s = [client[c] EXCEPT !.pc = "rev", !.fresh = TRUE]
    BY <2>0
  <2>1. client' = [client EXCEPT ![c] = s] /\ UNCHANGED entries
    BY <1>2, <2>s DEF GetConflict, LiveSyncInv, LiveSyncTypeOK
  <2>2. Holds(s)
    BY <1>1, <2>s DEF ClientState, Holds, InFlight
  <2>3. client'[c] = s /\ s.ask = client[c].ask /\ s.text = client[c].text
    BY <1>1, <2>1, <2>s DEF ClientState, LiveSyncInv, LiveSyncTypeOK
  <2>4. Wanted(entries[s.ask.note], c)'
    BY <1>2, <2>1, <2>3 DEF Wanted
  <2> QED
    BY <2>1, <2>2, <2>4, OneClientGoes
<1>3. CASE ~Wanted(entries[client[c].ask.note], c)
  <2> DEFINE s == [client[c] EXCEPT !.pc = "returned"]
  <2>1. client' = [client EXCEPT ![c] = s] /\ UNCHANGED entries
    BY <1>3 DEF GetConflict, LiveSyncInv, LiveSyncTypeOK
  <2>2. s \in ClientState /\ Holds(s) /\ s.pc # "rev"
    BY <1>1 DEF ClientState, Holds, InFlight
  <2> HIDE DEF s
  <2> QED
    BY <2>1, <2>2, OneClientGoes
<1> QED
  BY <1>2, <1>3

(* PutChunk, answered or not.                                               *)
LEMMA StoreInv ==
    ASSUME LiveSyncInv, NEW c \in Client, NEW next \in {"entry", "raised"},
           client[c].pc = "chunk", Store(c, next)
    PROVE  LiveSyncInv'
<1> DEFINE s == [client[c] EXCEPT !.pc = next, !.stored = TRUE]
<1>1. client' = [client EXCEPT ![c] = s]
  BY DEF Store, LiveSyncInv, LiveSyncTypeOK
<1>2. client[c] \in ClientState /\ Holds(client[c])
  BY DEF LiveSyncInv, LiveSyncTypeOK
<1>3. s \in ClientState /\ Holds(s) /\ s.pc # "rev"
  BY <1>2 DEF ClientState, Holds, InFlight
<1>4. /\ entries' \in [Note -> Entry]
      /\ \A n \in Note : /\ entries'[n].state = entries[n].state
                         /\ entries'[n].text = entries[n].text
  BY DEF Store, LiveSyncInv, LiveSyncTypeOK, Entry
<1> HIDE DEF s
<1> QED
  BY <1>1, <1>3, <1>4, OneClientInv

(* An entry that changes takes the revisions that were read of it along.    *)
LEMMA ManyStale ==
    ASSUME LiveSyncInv, NEW n \in Note, NEW entry \in Entry,
           entries' = [entries EXCEPT ![n] = entry],
           client' \in [Client -> ClientState],
           \A d \in Client : \/ client'[d] = Stale(n, client[d])
                             \/ Holds(client'[d]) /\ client'[d].pc # "rev"
    PROVE  LiveSyncInv'
<1>1. LiveSyncTypeOK'
  BY DEF LiveSyncInv, LiveSyncTypeOK
<1>2. \A d \in Client : client[d] \in ClientState
  BY DEF LiveSyncInv, LiveSyncTypeOK
<1>3. ASSUME NEW d \in Client PROVE Holds(client'[d])
  <2>1. CASE Holds(client'[d])
    BY <2>1
  <2>2. CASE client'[d] = Stale(n, client[d])
    <3> DEFINE t == Stale(n, client[d])
    <3>1. client'[d] = t
      BY <2>2
    <3>2. /\ t.pc = client[d].pc /\ t.ask = client[d].ask
          /\ t.text = client[d].text /\ t.stored = client[d].stored
          /\ t.landed = client[d].landed
          /\ client[d] = IdleClient => t = client[d]
      BY <1>2, StaleKeeps
    <3>3. Holds(client[d])
      BY DEF LiveSyncInv
    <3> HIDE DEF t
    <3> QED
      BY <3>1, <3>2, <3>3 DEF Holds
  <2> QED
    BY <2>1, <2>2
<1>4. RevisionGuards'
  <2> SUFFICES ASSUME NEW d \in Client, client'[d].pc = "rev", client'[d].fresh
               PROVE  Wanted(entries[client[d].ask.note], d)'
    BY DEF RevisionGuards
  <2>1. client'[d] = Stale(n, client[d])
    OBVIOUS
  <2>2. /\ client'[d].ask = client[d].ask /\ client'[d].text = client[d].text
        /\ client[d].pc = "rev" /\ client[d].fresh
        /\ client[d].ask = None \/ client[d].ask.note # n
    BY <1>2, <2>1, StaleKeeps
  <2>3. client[d].ask \in Call /\ client[d].ask # None
    BY <2>2, LiveSyncAssumption DEF LiveSyncInv, Holds
  <2>4. client[d].ask.note \in Note
    BY <2>3 DEF Call
  <2>5. entries'[client[d].ask.note] = entries[client[d].ask.note]
    BY <2>2, <2>3, <2>4 DEF LiveSyncInv, LiveSyncTypeOK
  <2>6. Wanted(entries[client[d].ask.note], d)
    BY <2>2 DEF LiveSyncInv, RevisionGuards
  <2> QED
    BY <2>2, <2>5, <2>6 DEF Wanted
<1> QED
  BY <1>1, <1>3, <1>4 DEF LiveSyncInv

(* PutEntry and PutRevision, answered or not.                               *)
LEMMA WriteInv ==
    ASSUME LiveSyncInv, NEW c \in Client, NEW next \in {"returned", "raised"},
           client[c].pc \in {"entry", "rev"}, Write(c, next)
    PROVE  LiveSyncInv'
<1> DEFINE n == client[c].ask.note
           s == [client[c] EXCEPT !.pc = next, !.fresh = FALSE, !.landed = TRUE]
           entry == [state |-> "live", text |-> client[c].text,
                     whole |-> client[c].stored]
<1>1. client[c] \in ClientState /\ Holds(client[c])
  BY DEF LiveSyncInv, LiveSyncTypeOK
<1>2. n \in Note /\ entry \in Entry
  BY <1>1 DEF Holds, Call, Entry, ClientState
<1>3. s \in ClientState /\ Holds(s) /\ s.pc # "rev"
  BY <1>1 DEF ClientState, Holds, InFlight
<1>4. /\ entries' = [entries EXCEPT ![n] = entry]
      /\ client' = [d \in Client |-> IF d = c THEN s ELSE Stale(n, client[d])]
  BY DEF Write
<1>5. \A d \in Client : Stale(n, client[d]) \in ClientState
  BY StaleKeeps DEF LiveSyncInv, LiveSyncTypeOK
<1> HIDE DEF s, n, entry
<1>6. client' \in [Client -> ClientState]
  BY <1>3, <1>4, <1>5
<1>7. \A d \in Client : \/ client'[d] = Stale(n, client[d])
                        \/ Holds(client'[d]) /\ client'[d].pc # "rev"
  BY <1>3, <1>4
<1> QED
  BY <1>2, <1>4, <1>6, <1>7, ManyStale

LEMMA OtherClientInv ==
    ASSUME LiveSyncInv, NEW n \in Note, NEW entry \in Entry, OtherClient(n, entry)
    PROVE  LiveSyncInv'
<1>1. client' \in [Client -> ClientState]
  BY StaleKeeps DEF OtherClient, LiveSyncInv, LiveSyncTypeOK
<1>2. \A d \in Client : client'[d] = Stale(n, client[d])
  BY DEF OtherClient
<1> QED
  BY <1>1, <1>2, ManyStale DEF OtherClient

LEMMA ChunkArrivesInv ==
    ASSUME LiveSyncInv, NEW n \in Note, ChunkArrives(n)
    PROVE  LiveSyncInv'
<1>1. /\ entries' \in [Note -> Entry]
      /\ \A m \in Note : /\ entries'[m].state = entries[m].state
                         /\ entries'[m].text = entries[m].text
  BY DEF ChunkArrives, LiveSyncInv, LiveSyncTypeOK, Entry
<1>2. LiveSyncTypeOK' /\ client' = client
  BY <1>1 DEF ChunkArrives, LiveSyncInv, LiveSyncTypeOK
<1>3. RevisionGuards'
  <2> SUFFICES ASSUME NEW d \in Client, client[d].pc = "rev", client[d].fresh
               PROVE  Wanted(entries[client[d].ask.note], d)'
    BY <1>2 DEF RevisionGuards
  <2>1. client[d].ask.note \in Note
    BY DEF LiveSyncInv, Holds, Call
  <2> QED
    BY <1>1, <1>2, <2>1 DEF LiveSyncInv, RevisionGuards, Wanted
<1> QED
  BY <1>2, <1>3 DEF LiveSyncInv

LEMMA IdleInv ==
    ASSUME LiveSyncInv, NEW C \in SUBSET Client,
           client' = [c \in Client |-> IF c \in C THEN IdleClient ELSE client[c]],
           UNCHANGED entries
    PROVE  LiveSyncInv'
<1>1. IdleClient \in ClientState /\ Holds(IdleClient) /\ IdleClient.pc # "rev"
  BY DEF IdleClient, ClientState, Holds, InFlight
<1>2. LiveSyncTypeOK'
  BY <1>1 DEF LiveSyncInv, LiveSyncTypeOK
<1>3. \A d \in Client : Holds(client'[d])
  BY <1>1 DEF LiveSyncInv
<1>4. RevisionGuards'
  BY <1>1 DEF LiveSyncInv, RevisionGuards, Wanted
<1> QED
  BY <1>2, <1>3, <1>4 DEF LiveSyncInv

LEMMA NextInv == LiveSyncInv /\ [LiveSyncNext]_liveSyncVars => LiveSyncInv'
<1> SUFFICES ASSUME LiveSyncInv, [LiveSyncNext]_liveSyncVars PROVE LiveSyncInv'
  OBVIOUS
<1>1. ASSUME NEW c \in Client, NEW ask \in Call, Begin(c, ask) PROVE LiveSyncInv'
  BY <1>1, BeginInv
<1>2. ASSUME NEW c \in Client, ClientStep(c) PROVE LiveSyncInv'
  <2>1. CASE ReadReturns(c) \/ ReadMerges(c)
    BY <2>1, ReadInv
  <2>2. CASE PutChunk(c)
    BY <2>2, StoreInv DEF PutChunk
  <2>3. CASE PutEntry(c) \/ PutRevision(c)
    BY <2>3, WriteInv DEF PutEntry, PutRevision
  <2>4. CASE PutEntryConflict(c) \/ PutRevisionConflict(c) \/ Unavailable(c)
    BY <2>4, GoesInv DEF PutEntryConflict, PutRevisionConflict, Unavailable, InFlight
  <2>5. CASE GetConflict(c)
    BY <2>5, GetConflictInv
  <2>6. CASE LandsUnanswered(c)
    BY <2>6, StoreInv, WriteInv DEF LandsUnanswered
  <2> QED
    BY <1>2, <2>1, <2>2, <2>3, <2>4, <2>5, <2>6 DEF ClientStep
<1>3. ASSUME NEW c \in Client, Ends(c) PROVE LiveSyncInv'
  <2>1. client' = [d \in Client |-> IF d \in {c} THEN IdleClient ELSE client[d]]
    BY <1>3 DEF Ends, LiveSyncInv, LiveSyncTypeOK
  <2> QED
    BY <1>3, <2>1, IdleInv DEF Ends
<1>4. ASSUME NEW n \in Note, NEW entry \in Entry, OtherClient(n, entry)
      PROVE  LiveSyncInv'
  BY <1>4, OtherClientInv
<1>5. ASSUME NEW n \in Note, ChunkArrives(n) PROVE LiveSyncInv'
  BY <1>5, ChunkArrivesInv
<1>6. CASE Killed
  <2>1. client' = [d \in Client |-> IF d \in Client THEN IdleClient ELSE client[d]]
    BY <1>6 DEF Killed
  <2> QED
    BY <1>6, <2>1, IdleInv DEF Killed
<1>7. CASE UNCHANGED liveSyncVars
  BY <1>7 DEF liveSyncVars, LiveSyncInv, LiveSyncTypeOK, RevisionGuards, Wanted
<1> QED
  BY <1>1, <1>2, <1>3, <1>4, <1>5, <1>6, <1>7 DEF LiveSyncNext

(* The state of every call and entry is one the code can be in, and holds   *)
(* what its next request needs.                                             *)
THEOREM LiveSyncInvariant == LiveSyncSpec => []LiveSyncInv
<1>1. LiveSyncInit => LiveSyncInv
  BY InitInv
<1>2. LiveSyncInv /\ [LiveSyncNext]_liveSyncVars => LiveSyncInv'
  BY NextInv
<1> QED
  BY <1>1, <1>2, PTL DEF LiveSyncSpec

(* A revision read on a conflict is only ever used to replace an entry that *)
(* is to be replaced when the PUT lands (livesync.py:281-303).              *)
THEOREM RevisionsGuard == LiveSyncSpec => []RevisionGuards
<1>1. LiveSyncInv => RevisionGuards
  BY DEF LiveSyncInv
<1> QED
  BY <1>1, LiveSyncInvariant, PTL

-----------------------------------------------------------------------------
(* The refinement: each step of the client is a step of NoteStore, or none. *)

(* Both speak of the same notes.                                            *)
LEMMA SameNotes ==
    /\ Promise!Text = Text /\ Promise!Entry = Entry /\ Promise!Call = Call
    /\ \A text : Promise!Whole(text) = Whole(text)
    /\ \A entry : Promise!Readable(entry) = Readable(entry)
    /\ \A existing, ours : Promise!Merge(existing, ours) = Merge(existing, ours)
BY DEF Text, Promise!Text, Entry, Promise!Entry, Call, Promise!Call, Whole,
       Promise!Whole, Readable, Promise!Readable, Merge, Promise!Merge

LEMMA InitMaps == LiveSyncInit => Promise!StoreInit
<1> SUFFICES ASSUME LiveSyncInit PROVE Promise!StoreInit
  OBVIOUS
<1>1. entries \in [Note -> Entry]
  BY DEF LiveSyncInit, NoEntry, Entry, Text
<1>2. \A c \in Client : Seen(client[c]) = Promise!NoCall
  BY DEF LiveSyncInit, IdleClient, Seen, Promise!NoCall
<1> QED
  BY <1>1, <1>2, SameNotes DEF Promise!StoreInit, SeenCalls

(* A step that leaves the entries and what NoteStore sees of the calls      *)
(* alone.                                                                   *)
LEMMA Stutters ==
    ASSUME UNCHANGED entries, UNCHANGED SeenCalls
    PROVE  UNCHANGED Promise!storeVars
BY DEF SeenCalls, Seen, Promise!storeVars

(* One client moves, and nothing NoteStore sees of it changes.              *)
LEMMA SeenKept ==
    ASSUME LiveSyncInv, NEW c \in Client, NEW s,
           client' = [client EXCEPT ![c] = s], Seen(s) = Seen(client[c])
    PROVE  UNCHANGED SeenCalls
BY DEF SeenCalls, LiveSyncInv, LiveSyncTypeOK

LEMMA BeginMaps ==
    ASSUME LiveSyncInv, NEW c \in Client, NEW ask \in Call, Begin(c, ask)
    PROVE  Promise!Ask(c)
<1>0. client[c] = IdleClient
  BY DEF Begin, LiveSyncInv, Holds
<1>1. Seen(client[c]) = Promise!NoCall
  BY <1>0 DEF IdleClient, Seen, Promise!NoCall
<1>2. /\ client'[c].ask = ask /\ client'[c].landed = FALSE
      /\ client'[c].text = IF ask.op = "put" THEN ask.ours ELSE None
      /\ \A d \in Client : d # c => client'[d] = client[d]
  BY DEF Begin, LiveSyncInv, LiveSyncTypeOK, IdleClient
<1>3. Seen(client'[c]) = Promise!Asked(ask)
  BY <1>2 DEF Seen, Promise!Asked
<1>4. SeenCalls' = [SeenCalls EXCEPT ![c] = Promise!Asked(ask)]
  BY <1>2, <1>3 DEF SeenCalls
<1>5. SeenCalls'[c].ask = ask /\ SeenCalls[c] = Promise!NoCall
  BY <1>1, <1>2 DEF SeenCalls, Seen
<1>6. SeenCalls' = [SeenCalls EXCEPT ![c] = Promise!Asked(SeenCalls'[c].ask)]
  BY <1>4, <1>5
<1>7. SeenCalls'[c].ask \in Promise!Call
  BY <1>5, SameNotes
<1> QED
  BY <1>5, <1>6, <1>7 DEF Promise!Ask, Begin

LEMMA MergeMaps ==
    ASSUME LiveSyncInv, NEW c \in Client, ReadMerges(c)
    PROVE  Promise!Prepare(c)
<1> DEFINE ask    == client[c].ask
           merged == Merge(Readable(entries[ask.note]), ask.ours)
<1>1. /\ ask \in Call /\ ask # None /\ ask.op = "merge" /\ client[c].text = None
      /\ UNCHANGED entries
  BY LiveSyncAssumption DEF ReadMerges, LiveSyncInv, Holds
<1>2. /\ client'[c].ask = ask /\ client'[c].landed = client[c].landed
      /\ client'[c].text = merged
      /\ \A d \in Client : d # c => client'[d] = client[d]
  BY DEF ReadMerges, LiveSyncInv, LiveSyncTypeOK, ClientState
<1> HIDE DEF merged
<1>3. SeenCalls' = [SeenCalls EXCEPT ![c].text = merged]
  BY <1>2 DEF SeenCalls, Seen
<1> QED
  BY <1>1, <1>3, SameNotes DEF Promise!Prepare, SeenCalls, Seen, merged

(* The write of an entry is the landing of the call: the first one finds no *)
(* document, the second replaces one that is to be replaced.                *)
LEMMA WriteMaps ==
    ASSUME LiveSyncInv, NEW c \in Client, NEW next, Write(c, next),
           \/ client[c].pc = "entry" /\ entries[client[c].ask.note].state = "absent"
           \/ client[c].pc = "rev" /\ client[c].fresh
    PROVE  Promise!Land(c)
<1> DEFINE n == client[c].ask.note
<1>1. /\ client[c].text \in Text /\ client[c].text # None
      /\ client[c].stored /\ ~client[c].landed
  BY LiveSyncAssumption DEF LiveSyncInv, Holds, InFlight
<1>2. client[c].stored = TRUE
  BY <1>1 DEF LiveSyncInv, LiveSyncTypeOK, ClientState
<1>3. Promise!MayLand(entries[n], client[c].ask, client[c].text)
  BY DEF LiveSyncInv, RevisionGuards, Wanted, Promise!MayLand
<1>4. entries' = [entries EXCEPT ![n] = Whole(client[c].text)]
  BY <1>2 DEF Write, Whole
<1>5. \A d \in Client : d # c => Seen(client'[d]) = Seen(client[d])
  BY StaleKeeps DEF Write, Seen, LiveSyncInv, LiveSyncTypeOK
<1>6. /\ client'[c].ask = client[c].ask /\ client'[c].text = client[c].text
      /\ client'[c].landed = TRUE
  BY DEF Write, LiveSyncInv, LiveSyncTypeOK, ClientState
<1>7. SeenCalls' = [SeenCalls EXCEPT ![c].landed = TRUE]
  BY <1>5, <1>6 DEF SeenCalls, Seen
<1> QED
  BY <1>1, <1>3, <1>4, <1>7, SameNotes DEF Promise!Land, SeenCalls, Seen

LEMMA StoreMaps ==
    ASSUME LiveSyncInv, NEW c \in Client, NEW next, Store(c, next)
    PROVE  Promise!Complete
<1>1. /\ entries' \in [Note -> Entry]
      /\ \A n \in Note : entries'[n] \in {entries[n], [entries[n] EXCEPT !.whole = TRUE]}
  BY DEF Store, LiveSyncInv, LiveSyncTypeOK, Entry
<1> DEFINE s == [client[c] EXCEPT !.pc = next, !.stored = TRUE]
<1>2. client' = [client EXCEPT ![c] = s] /\ Seen(s) = Seen(client[c])
  BY DEF Store, Seen, LiveSyncInv, LiveSyncTypeOK, ClientState
<1> HIDE DEF s
<1>3. UNCHANGED SeenCalls
  BY <1>2, SeenKept
<1> QED
  BY <1>1, <1>3, SameNotes DEF Promise!Complete

(* ReadReturns, GetConflict and the requests that are refused.              *)
LEMMA GoesMaps ==
    ASSUME LiveSyncInv, NEW c \in Client,
           \/ ReadReturns(c) \/ GetConflict(c)
           \/ \E next \in {"conflict", "raised"} : Goes(c, next)
    PROVE  UNCHANGED Promise!storeVars
<1>1. UNCHANGED entries /\ \A d \in Client : Seen(client'[d]) = Seen(client[d])
  BY DEF ReadReturns, GetConflict, Goes, Seen, LiveSyncInv, LiveSyncTypeOK, ClientState
<1>2. UNCHANGED SeenCalls
  BY <1>1 DEF SeenCalls
<1> QED
  BY <1>1, <1>2, Stutters

LEMMA OtherMaps ==
    ASSUME LiveSyncInv, NEW n \in Note, NEW entry \in Entry, OtherClient(n, entry)
    PROVE  Promise!OtherWrites(n)
<1>1. \A d \in Client : Seen(client'[d]) = Seen(client[d])
  BY StaleKeeps DEF OtherClient, Seen, LiveSyncInv, LiveSyncTypeOK
<1>2. UNCHANGED SeenCalls
  BY <1>1 DEF SeenCalls
<1>3. entries' = [entries EXCEPT ![n] = entry] /\ entries'[n] = entry
  BY DEF OtherClient, LiveSyncInv, LiveSyncTypeOK
<1>4. entries' = [entries EXCEPT ![n] = entries'[n]]
  BY <1>3
<1>5. entries'[n] \in Promise!Entry
  BY <1>3, SameNotes
<1> QED
  BY <1>2, <1>4, <1>5 DEF Promise!OtherWrites

LEMMA ArrivesMaps ==
    ASSUME LiveSyncInv, NEW n \in Note, ChunkArrives(n)
    PROVE  Promise!Complete
<1>1. /\ entries' \in [Note -> Entry]
      /\ \A m \in Note : entries'[m] \in {entries[m], [entries[m] EXCEPT !.whole = TRUE]}
  BY DEF ChunkArrives, LiveSyncInv, LiveSyncTypeOK, Entry
<1>2. UNCHANGED client
  BY DEF ChunkArrives
<1> QED
  BY <1>1, <1>2, SameNotes DEF Promise!Complete, SeenCalls

LEMMA IdleMaps ==
    ASSUME LiveSyncInv, NEW C \in SUBSET Client,
           client' = [c \in Client |-> IF c \in C THEN IdleClient ELSE client[c]],
           UNCHANGED entries
    PROVE  Promise!End(C)
<1>1. Seen(IdleClient) = Promise!NoCall
  BY DEF Seen, IdleClient, Promise!NoCall
<1>2. SeenCalls' = [c \in Client |-> IF c \in C THEN Promise!NoCall ELSE SeenCalls[c]]
  BY <1>1 DEF SeenCalls
<1> QED
  BY <1>2 DEF Promise!End

LEMMA NextMaps ==
    ASSUME LiveSyncInv, [LiveSyncNext]_liveSyncVars
    PROVE  [Promise!StoreNext]_(Promise!storeVars)
<1>1. ASSUME NEW c \in Client, NEW ask \in Call, Begin(c, ask)
      PROVE  Promise!StoreNext
  BY <1>1, BeginMaps DEF Promise!StoreNext
<1>2. ASSUME NEW c \in Client, ClientStep(c)
      PROVE  [Promise!StoreNext]_(Promise!storeVars)
  <2>1. CASE ReadReturns(c) \/ GetConflict(c)
    BY <2>1, GoesMaps
  <2>2. CASE ReadMerges(c)
    BY <2>2, MergeMaps DEF Promise!StoreNext
  <2>3. CASE PutEntry(c) \/ PutRevision(c)
    BY <2>3, WriteMaps DEF PutEntry, PutRevision, Promise!StoreNext
  <2>4. CASE PutEntryConflict(c) \/ PutRevisionConflict(c) \/ Unavailable(c)
    BY <2>4, GoesMaps DEF PutEntryConflict, PutRevisionConflict, Unavailable
  <2>5. CASE PutChunk(c)
    BY <2>5, StoreMaps DEF PutChunk, Promise!StoreNext
  <2>6. CASE LandsUnanswered(c)
    BY <2>6, StoreMaps, WriteMaps DEF LandsUnanswered, Promise!StoreNext
  <2> QED
    BY <1>2, <2>1, <2>2, <2>3, <2>4, <2>5, <2>6 DEF ClientStep
<1>3. ASSUME NEW c \in Client, Ends(c) PROVE Promise!StoreNext
  <2>1. client' = [d \in Client |-> IF d \in {c} THEN IdleClient ELSE client[d]]
    BY <1>3 DEF Ends, LiveSyncInv, LiveSyncTypeOK
  <2>2. Promise!End({c})
    BY <1>3, <2>1, IdleMaps DEF Ends
  <2> QED
    BY <2>2 DEF Promise!StoreNext
<1>4. ASSUME NEW n \in Note, NEW entry \in Entry, OtherClient(n, entry)
      PROVE  Promise!StoreNext
  BY <1>4, OtherMaps DEF Promise!StoreNext
<1>5. ASSUME NEW n \in Note, ChunkArrives(n) PROVE Promise!StoreNext
  BY <1>5, ArrivesMaps DEF Promise!StoreNext
<1>6. CASE Killed
  <2>1. client' = [d \in Client |-> IF d \in Client THEN IdleClient ELSE client[d]]
    BY <1>6 DEF Killed
  <2>2. Promise!End(Client)
    BY <1>6, <2>1, IdleMaps DEF Killed
  <2> QED
    BY <2>2 DEF Promise!StoreNext
<1>7. CASE UNCHANGED liveSyncVars
  BY <1>7, Stutters DEF liveSyncVars, SeenCalls
<1> QED
  BY <1>1, <1>2, <1>3, <1>4, <1>5, <1>6, <1>7 DEF LiveSyncNext

(* project and read_note implement NoteStore (livesync.py:174-304): chunk   *)
(* and entry, the conflict and the take-over of its revision, a PUT that    *)
(* landed and was never answered are one write of one whole text, or none.  *)
THEOREM LiveSyncImplements == LiveSyncSpec => ImplementsNoteStore
<1>1. LiveSyncInit => Promise!StoreInit
  BY InitMaps
<1>2. LiveSyncInv /\ [LiveSyncNext]_liveSyncVars
        => [Promise!StoreNext]_(Promise!storeVars)
  BY NextMaps
<1> QED
  BY <1>1, <1>2, LiveSyncInvariant, PTL
  DEF LiveSyncSpec, ImplementsNoteStore, Promise!StoreSpec
=============================================================================
