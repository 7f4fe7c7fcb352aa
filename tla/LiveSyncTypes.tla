--------------------------- MODULE LiveSyncTypes ---------------------------
(***************************************************************************)
(* Notes and calls, as vault/livesync.py's client and its specification    *)
(* (NoteStore) both see them, and the merge of a shared page               *)
(* (vault/notes.py).  The text of a note is the set of its items: a line,  *)
(* a paragraph, a marked region, a frontmatter key.                        *)
(***************************************************************************)
EXTENDS Naturals, FiniteSets

CONSTANTS
    Client,   \* activities of the service that use the vault
    Note,     \* paths
    Item,     \* what a text is made of
    Owned,    \* items in this service's marked region or prefixed keys
    Seeds,    \* frontmatter keys that only the page's creator supplies
    None

Text == SUBSET Item

(* An entry of the database.  `whole` says that the chunk it lists exists;  *)
(* "deleted" is the flag in the body that a deletion in Obsidian leaves,    *)
(* the entry keeps its children.                                            *)
Entry == [state : {"absent", "live", "deleted"}, text : Text, whole : BOOLEAN]

Whole(text) == [state |-> "live", text |-> text, whole |-> TRUE]

(* _existing_markdown: a note that is missing, deleted or torn is no note.  *)
Readable(entry) ==
    IF entry.state = "live" /\ entry.whole THEN entry.text ELSE None

Call == [op : {"read", "put", "merge"}, note : Note, ours : Text,
         revive : BOOLEAN]

ASSUME LiveSyncAssumption ==
    /\ Owned \subseteq Item
    /\ Seeds \subseteq Item
    /\ Owned \cap Seeds = {}
    /\ \A text \in Text : text # None
    /\ \A ask \in Call : ask # None

(* Mutant: the shared page is written whole.                                *)
MergeOverwrites(existing, ours) == ours

(* merge_owned_section: our region and our prefixed keys are replaced, a    *)
(* key that describes the page is supplied when the page has none, and      *)
(* everything else stays.                                                   *)
Merge(existing, ours) ==
    IF existing = None \/ existing = {} THEN ours
    ELSE (existing \ Owned) \cup (ours \cap Owned)
         \cup (IF existing \cap Seeds = {} THEN ours \cap Seeds ELSE {})
=============================================================================
