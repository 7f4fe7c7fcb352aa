------------------------------- MODULE Names -------------------------------
(***************************************************************************)
(* The files of notes and topic pages (vault/names.py, and                 *)
(* resolve_topic_links in pipeline/write.py).  A file name is a slug, as   *)
(* the sequence of its parts, numbered: "x-2" is both the second "x" and   *)
(* what the title "X 2" gives.  The vault's topic pages are written by     *)
(* others too, and the index of them that a link is resolved with was      *)
(* swept earlier.                                                          *)
(***************************************************************************)
EXTENDS Naturals, Sequences, FiniteSets

CONSTANTS
    NamedVideo,
    Slug,         \* what slugify makes of titles and topics
    Topic,        \* canonical keys
    Spelling,     \* slugs of the ways to write a topic: [Topic -> SUBSET Slug]
    Threshold,    \* vault.topic_creation_threshold
    Unnamed

ASSUME NamesAssumption ==
    /\ Slug \subseteq Seq(Nat)
    /\ Spelling \in [Topic -> SUBSET Slug]
    /\ Threshold \in Nat
    /\ IsFiniteSet(NamedVideo) /\ IsFiniteSet(Topic)

VARIABLES
    noteName,    \* note_names
    topicName,   \* topic_note_names
    pages,       \* topic pages in the vault: file |-> topics it has as aliases
    index,       \* the pages when they were swept
    mentions     \* stored digests that mention a topic (BOUND: Threshold)

namesVars == <<noteName, topicName, pages, index, mentions>>

Suffixed(base, n) == IF n = 1 THEN base ELSE Append(base, n)

(* No suffix is above the number of those that need a name.                 *)
Suffix == {1} \cup 1 .. Cardinality(Topic) + Cardinality(NamedVideo)

File == {Suffixed(s, n) : s \in Slug, n \in Suffix}

NamesTypeOK ==
    /\ noteName \in [NamedVideo -> File \cup {Unnamed}]
    /\ topicName \in [Topic -> File \cup {Unnamed}]
    /\ \A p \in {pages, index} : DOMAIN p \subseteq File
                                 /\ \A f \in DOMAIN p : p[f] \subseteq Topic
    /\ mentions \in [Topic -> 0 .. Threshold]

NamesInit ==
    /\ noteName = [v \in NamedVideo |-> Unnamed]
    /\ topicName = [t \in Topic |-> Unnamed]
    /\ pages = <<>> /\ index = <<>>
    /\ mentions = [t \in Topic |-> 0]

-----------------------------------------------------------------------------
(* Mutant: the suffix is the number of names with this base, plus one.      *)
FreeByCount(base, names) ==
    Suffixed(base, 1 + Cardinality({n \in 1 .. Cardinality(names) + 1 :
                                        Suffixed(base, n) \in names}))

(* The first of base, base-2, base-3, ... that no row has.                  *)
Free(base, names) ==
    Suffixed(base, CHOOSE n \in 1 .. Cardinality(names) + 1 :
                      /\ Suffixed(base, n) \notin names
                      /\ \A k \in 1 .. n - 1 : Suffixed(base, k) \in names)

Taken(names) == {names[k] : k \in DOMAIN names} \ {Unnamed}

(* resolve_note_filename: pinned by the first call, whatever title a later  *)
(* one comes with.                                                          *)
ResolveNote(v, title) ==
    /\ noteName' = IF noteName[v] # Unnamed THEN noteName
                   ELSE [noteName EXCEPT ![v] = Free(title, Taken(noteName))]
    /\ UNCHANGED <<topicName, pages, index, mentions>>

(* A digest with topic t is stored.                                         *)
Mention(t) ==
    /\ mentions[t] < Threshold
    /\ mentions' = [mentions EXCEPT ![t] = @ + 1]
    /\ UNCHANGED <<noteName, topicName, pages, index>>

(* load_topic_index.                                                        *)
SweepPages ==
    /\ index' = pages
    /\ UNCHANGED <<noteName, topicName, pages, mentions>>

(* Mutant: INSERT OR REPLACE takes the other topic's row away.              *)
AdoptReplaces(t, f) ==
    [u \in Topic |-> IF u = t THEN f ELSE IF topicName[u] = f THEN Unnamed
                     ELSE topicName[u]]

(* INSERT OR IGNORE: the file may be another topic's row already.           *)
Adopt(t, f) == IF f \in Taken(topicName) THEN topicName
               ELSE [topicName EXCEPT ![t] = f]

(* resolve_topic_links for one name: its pin, the page of that slug, a page *)
(* that lists it as an alias, or a new page if it is mentioned enough.      *)
LinkTo(t, f, pins) ==
    /\ topicName' = pins
    /\ pages' = IF f \in DOMAIN pages THEN pages
                ELSE [g \in DOMAIN pages \cup {f} |->
                        IF g = f THEN {} ELSE pages[g]]
    /\ UNCHANGED <<noteName, index, mentions>>

Aliased(t) == {f \in DOMAIN index : t \in index[f]}

LinkPinned(t) ==
    /\ topicName[t] # Unnamed
    /\ LinkTo(t, topicName[t], topicName)

LinkSlug(t, slug) ==
    /\ topicName[t] = Unnamed
    /\ slug \in DOMAIN index
    /\ LinkTo(t, slug, Adopt(t, slug))

LinkAlias(t, slug) ==
    /\ topicName[t] = Unnamed
    /\ slug \notin DOMAIN index
    /\ \E f \in Aliased(t) : LinkTo(t, f, Adopt(t, f))

LinkNew(t, slug) ==
    /\ topicName[t] = Unnamed
    /\ slug \notin DOMAIN index /\ Aliased(t) = {}
    /\ mentions[t] >= Threshold
    /\ LET f == Free(slug, Taken(topicName)) IN
       LinkTo(t, f, [topicName EXCEPT ![t] = f])

(* Another writer, or a person: a new page, an alias, a deletion.           *)
OtherPage(f, aliases) ==
    /\ pages' = [g \in DOMAIN pages \cup {f} |-> IF g = f THEN aliases ELSE pages[g]]
    /\ UNCHANGED <<noteName, topicName, index, mentions>>

PageDeleted(f) ==
    /\ f \in DOMAIN pages
    /\ pages' = [g \in DOMAIN pages \ {f} |-> pages[g]]
    /\ UNCHANGED <<noteName, topicName, index, mentions>>

NamesNext ==
    \/ \E v \in NamedVideo, title \in Slug : ResolveNote(v, title)
    \/ \E t \in Topic :
          \/ Mention(t) \/ LinkPinned(t)
          \/ \E slug \in Spelling[t] :
                LinkSlug(t, slug) \/ LinkAlias(t, slug) \/ LinkNew(t, slug)
    \/ SweepPages
    \/ \E f \in Slug : PageDeleted(f) \/ \E aliases \in SUBSET Topic : OtherPage(f, aliases)

NamesSpec == NamesInit /\ [][NamesNext]_namesVars

-----------------------------------------------------------------------------
(* No two videos have one note, and no two topics one row's file: the       *)
(* UNIQUE columns never refuse an insert, though titles give the names that *)
(* suffixes make (names.py:22-45, 65-87).                                   *)
OwnFile(names) ==
    \A j, k \in DOMAIN names : j # k /\ names[j] # Unnamed => names[j] # names[k]

NamesAreOwn == OwnFile(noteName) /\ OwnFile(topicName)

(* A name once given is never given up: neither a corrected title, another  *)
(* spelling, a page that is gone, nor another topic that adopts its page    *)
(* takes a row away (names.py:1-4, 22-26, 53-63).                           *)
NamesAreForever ==
    [][/\ \A v \in NamedVideo : noteName[v] # Unnamed => noteName'[v] = noteName[v]
       /\ \A t \in Topic : topicName[t] # Unnamed => topicName'[t] = topicName[t]]_namesVars
=============================================================================
