------------------------------ MODULE LiveSync ------------------------------
(***************************************************************************)
(* The vault's CouchDB and the service's client for it                     *)
(* (vault/livesync.py).  A note is two documents, an entry and the chunk   *)
(* with its text; a call is several requests, and between two of them the  *)
(* other activities of the service, and the vault's other clients, run.    *)
(* Any request may fail, and a PUT that timed out may have landed.         *)
(*                                                                         *)
(* A revision is only ever compared with the current one, so it is not a   *)
(* number here: a client that holds one knows whether it is still current. *)
(* A chunk is content-addressed, so it is a property of the entries with   *)
(* that text and of the call that put it (`whole`, `stored`).              *)
(***************************************************************************)
EXTENDS LiveSyncTypes

VARIABLES
    entries,   \* the entry documents of the database
    client     \* the call in progress of each activity, its locals

liveSyncVars == <<entries, client>>

NoEntry == [state |-> "absent", text |-> {}, whole |-> FALSE]

(* ask: the arguments.  seen: what `read` returned.  text: what is to be    *)
(* written.  stored: its chunk exists.  fresh: the revision read is still   *)
(* the current one.  landed: the entry was written.                         *)
ClientState == [pc : {"idle", "read", "chunk", "entry", "conflict", "rev",
                      "returned", "raised"},
                ask : {None} \cup Call, seen : {None} \cup Text,
                text : {None} \cup Text,
                stored : BOOLEAN, fresh : BOOLEAN, landed : BOOLEAN]

IdleClient == [pc |-> "idle", ask |-> None, seen |-> None, text |-> None,
               stored |-> FALSE, fresh |-> FALSE, landed |-> FALSE]

LiveSyncTypeOK ==
    /\ entries \in [Note -> Entry]
    /\ client \in [Client -> ClientState]

LiveSyncInit ==
    /\ entries = [n \in Note |-> NoEntry]
    /\ client = [c \in Client |-> IdleClient]

-----------------------------------------------------------------------------
(* The database.                                                            *)

(* The revision of n moves on: whoever holds the old one holds a stale one. *)
Stale(n, state) ==
    IF state.ask # None /\ state.ask.note = n THEN [state EXCEPT !.fresh = FALSE]
    ELSE state

(* Client c writes its entry, and goes on as `next`.                        *)
Write(c, next) ==
    LET n == client[c].ask.note IN
    /\ entries' = [entries EXCEPT ![n] = [state |-> "live",
                                          text  |-> client[c].text,
                                          whole |-> client[c].stored]]
    /\ client' = [d \in Client |->
                    IF d = c THEN [client[c] EXCEPT !.pc = next,
                                                    !.fresh = FALSE,
                                                    !.landed = TRUE]
                    ELSE Stale(n, client[d])]

(* The chunk of c's text exists from now on, for every entry that lists it. *)
Store(c, next) ==
    /\ entries' = [n \in Note |->
                    IF entries[n].state # "absent" /\ entries[n].text = client[c].text
                    THEN [entries[n] EXCEPT !.whole = TRUE] ELSE entries[n]]
    /\ client' = [client EXCEPT ![c].pc = next, ![c].stored = TRUE]

Goes(c, next) ==
    /\ client' = [client EXCEPT ![c].pc = next]
    /\ UNCHANGED entries

-----------------------------------------------------------------------------
(* read_note and project.                                                   *)

(* Mutant: the entry is put before its chunk.                               *)
BeginEntryFirst(c, ask) ==
    /\ client[c].pc = "idle"
    /\ client' = [client EXCEPT ![c] =
                    [IdleClient EXCEPT
                        !.ask = ask,
                        !.pc = IF ask.op = "put" THEN "entry" ELSE "read",
                        !.text = IF ask.op = "put" THEN ask.ours ELSE None]]
    /\ UNCHANGED entries

(* merge=False does not read: the given text becomes the file.              *)
Begin(c, ask) ==
    /\ client[c].pc = "idle"
    /\ client' = [client EXCEPT ![c] =
                    [IdleClient EXCEPT
                        !.ask = ask,
                        !.pc = IF ask.op = "put" THEN "chunk" ELSE "read",
                        !.text = IF ask.op = "put" THEN ask.ours ELSE None]]
    /\ UNCHANGED entries

ReadReturns(c) ==
    /\ client[c].pc = "read"
    /\ client[c].ask.op = "read"
    /\ client' = [client EXCEPT ![c].pc = "returned",
                                ![c].seen = Readable(entries[client[c].ask.note])]
    /\ UNCHANGED entries

(* Our section already says exactly this, or it has to be written.          *)
ReadMerges(c) ==
    /\ client[c].pc = "read"
    /\ client[c].ask.op = "merge"
    /\ LET current == Readable(entries[client[c].ask.note])
           merged  == Merge(current, client[c].ask.ours)
       IN  client' = [client EXCEPT
                        ![c].pc = IF current = merged THEN "returned" ELSE "chunk",
                        ![c].seen = current,
                        ![c].text = merged]
    /\ UNCHANGED entries

(* _put_chunk: there already, soft-deleted or a tombstone, it is there now. *)
PutChunk(c) ==
    /\ client[c].pc = "chunk"
    /\ Store(c, "entry")

(* _put_entry, without a revision: only a path that has no document yet     *)
(* accepts it.                                                              *)
PutEntry(c) ==
    /\ client[c].pc = "entry"
    /\ entries[client[c].ask.note].state = "absent"
    /\ Write(c, "returned")

PutEntryConflict(c) ==
    /\ client[c].pc = "entry"
    /\ entries[client[c].ask.note].state # "absent"
    /\ Goes(c, "conflict")

(* Mutant: a deletion is not respected.                                     *)
WantedReviving(entry, c) ==
    \/ entry.state = "live" /\ entry.text # client[c].text
    \/ entry.state = "deleted"

(* Whether an existing entry is to be replaced.  One that has gone since is *)
(* a deletion that raced us; one that is flagged deleted is left alone      *)
(* unless the caller owns the note; one with the same children says this    *)
(* already.                                                                 *)
Wanted(entry, c) ==
    \/ entry.state = "live" /\ entry.text # client[c].text
    \/ entry.state = "deleted" /\ client[c].ask.revive

(* Mutant: the revision is taken over whatever the entry says.              *)
GetConflictTakesOver(c) ==
    /\ client[c].pc = "conflict"
    /\ client' = [client EXCEPT ![c].pc = "rev", ![c].fresh = TRUE]
    /\ UNCHANGED entries

GetConflict(c) ==
    /\ client[c].pc = "conflict"
    /\ LET entry == entries[client[c].ask.note] IN
       client' = IF Wanted(entry, c)
                 THEN [client EXCEPT ![c].pc = "rev", ![c].fresh = TRUE]
                 ELSE [client EXCEPT ![c].pc = "returned"]
    /\ UNCHANGED entries

(* The last writer wins: whatever was there when the revision was read.     *)
PutRevision(c) ==
    /\ client[c].pc = "rev"
    /\ client[c].fresh
    /\ Write(c, "returned")

(* _put_or_raise: a second conflict is given up.                            *)
PutRevisionConflict(c) ==
    /\ client[c].pc = "rev"
    /\ ~client[c].fresh
    /\ Goes(c, "raised")

InFlight == {"read", "chunk", "entry", "conflict", "rev"}

(* VaultUnavailable: refused, unreachable, or timed out before it landed.   *)
Unavailable(c) ==
    /\ client[c].pc \in InFlight
    /\ Goes(c, "raised")

(* VaultUnavailable, but the PUT that timed out had landed.                 *)
LandsUnanswered(c) ==
    \/ client[c].pc = "chunk" /\ Store(c, "raised")
    \/ /\ \/ client[c].pc = "entry" /\ entries[client[c].ask.note].state = "absent"
          \/ client[c].pc = "rev" /\ client[c].fresh
       /\ Write(c, "raised")

(* The caller takes the result, or the exception.                           *)
Ends(c) ==
    /\ client[c].pc \in {"returned", "raised"}
    /\ client' = [client EXCEPT ![c] = IdleClient]
    /\ UNCHANGED entries

ClientStep(c) ==
    \/ ReadReturns(c) \/ ReadMerges(c) \/ PutChunk(c)
    \/ PutEntry(c) \/ PutEntryConflict(c) \/ GetConflict(c)
    \/ PutRevision(c) \/ PutRevisionConflict(c)
    \/ Unavailable(c) \/ LandsUnanswered(c)

-----------------------------------------------------------------------------
(* The vault's other clients.                                               *)

(* Another client's entry arrives, with its chunk or ahead of it.           *)
OtherClient(n, entry) ==
    /\ entries' = [entries EXCEPT ![n] = entry]
    /\ client' = [c \in Client |-> Stale(n, client[c])]

(* soft_delete, and a deletion in Obsidian: the document stays, flagged.    *)
SoftDelete(n) ==
    /\ entries[n].state = "live"
    /\ OtherClient(n, [entries[n] EXCEPT !.state = "deleted"])

ChunkArrives(n) ==
    /\ entries[n].state # "absent"
    /\ ~entries[n].whole
    /\ entries' = [entries EXCEPT ![n].whole = TRUE]
    /\ UNCHANGED client

(* The process is killed.                                                   *)
Killed ==
    /\ client' = [c \in Client |-> IdleClient]
    /\ UNCHANGED entries

LiveSyncNext ==
    \/ \E c \in Client :
          \/ \E ask \in Call : Begin(c, ask)
          \/ ClientStep(c)
          \/ Ends(c)
    \/ \E n \in Note :
          \/ \E entry \in Entry : OtherClient(n, entry)
          \/ ChunkArrives(n)
    \/ Killed

LiveSyncSpec == LiveSyncInit /\ [][LiveSyncNext]_liveSyncVars

-----------------------------------------------------------------------------
(* A write by the revision read on a conflict is one that was wanted, and   *)
(* still is: the entry cannot have changed since without the revision       *)
(* having moved (livesync.py:281-303).                                      *)
RevisionGuards ==
    \A c \in Client : client[c].pc = "rev" /\ client[c].fresh =>
        Wanted(entries[client[c].ask.note], c)

(* A call as NoteStore sees it.                                             *)
Seen(s) == [ask |-> s.ask, text |-> s.text, landed |-> s.landed]

SeenCalls == [c \in Client |-> Seen(client[c])]

(* project and read_note do what NoteStore promises: chunk and entry, the   *)
(* conflict and the take-over of its revision, a PUT that lands and is      *)
(* never answered amount to one write of one whole text, or to none         *)
(* (livesync.py:174-304).                                                   *)
Promise == INSTANCE NoteStore WITH note <- entries, call <- SeenCalls

ImplementsNoteStore == Promise!StoreSpec
=============================================================================
