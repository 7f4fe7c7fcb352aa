----------------------------- MODULE NoteStore -----------------------------
(***************************************************************************)
(* What the service may rely on when it reads and writes a note of the     *)
(* vault (vault/livesync.py's `read_note` and `project`), and what the     *)
(* people who own the vault may rely on, without chunks, revisions,        *)
(* conflicts, or requests that time out:                                   *)
(*   - a call lands at most once, in one step, with the whole of the text  *)
(*     it was prepared with: nobody ever reads half of it;                 *)
(*   - it never brings a deleted note back unless it was asked to revive;  *)
(*   - a call that would change nothing writes nothing;                    *)
(*   - a merge keeps what the page held when it was read.                  *)
(***************************************************************************)
EXTENDS LiveSyncTypes

VARIABLES
    note,   \* each note as the vault's readers see it
    call    \* the calls in progress, one per client

storeVars == <<note, call>>

NoCall == [ask |-> None, text |-> None, landed |-> FALSE]

StoreInit ==
    /\ note \in [Note -> Entry]
    /\ call = [c \in Client |-> NoCall]

Asked(ask) == [ask    |-> ask,
               text   |-> IF ask.op = "put" THEN ask.ours ELSE None,
               landed |-> FALSE]

Ask(c) ==
    /\ call[c] = NoCall
    /\ call'[c].ask \in Call
    /\ call' = [call EXCEPT ![c] = Asked(call'[c].ask)]
    /\ UNCHANGED note

(* The text of a merge is made from the page as it is at this moment.       *)
Prepare(c) ==
    /\ call[c].ask # None
    /\ call[c].ask.op = "merge"
    /\ call[c].text = None
    /\ call' = [call EXCEPT ![c].text =
                    Merge(Readable(note[call[c].ask.note]), call[c].ask.ours)]
    /\ UNCHANGED note

MayLand(entry, ask, text) ==
    \/ entry.state = "absent"
    \/ entry.state = "deleted" /\ ask.revive
    \/ entry.state = "live" /\ entry.text # text

Land(c) ==
    /\ call[c].text # None
    /\ ~call[c].landed
    /\ MayLand(note[call[c].ask.note], call[c].ask, call[c].text)
    /\ note' = [note EXCEPT ![call[c].ask.note] = Whole(call[c].text)]
    /\ call' = [call EXCEPT ![c].landed = TRUE]

(* A call ends whether it landed or not; a kill ends them all.              *)
End(C) ==
    /\ call' = [c \in Client |-> IF c \in C THEN NoCall ELSE call[c]]
    /\ UNCHANGED note

(* The vault's other clients: people, and applications of theirs.           *)
OtherWrites(n) ==
    /\ note'[n] \in Entry
    /\ note' = [note EXCEPT ![n] = note'[n]]
    /\ UNCHANGED call

(* The rest of notes that were only half there arrives.                     *)
Complete ==
    /\ note' \in [Note -> Entry]
    /\ \A n \in Note : note'[n] \in {note[n], [note[n] EXCEPT !.whole = TRUE]}
    /\ UNCHANGED call

StoreNext ==
    \/ \E c \in Client : Ask(c) \/ Prepare(c) \/ Land(c)
    \/ \E C \in SUBSET Client : End(C)
    \/ \E n \in Note : OtherWrites(n)
    \/ Complete

StoreSpec == StoreInit /\ [][StoreNext]_storeVars
=============================================================================
