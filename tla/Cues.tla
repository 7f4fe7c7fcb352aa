-------------------------------- MODULE Cues --------------------------------
(***************************************************************************)
(* From caption cues to the chunks that are summarised: _dedupe_rolling    *)
(* and merge_paragraphs (transcripts/normalize.py), chunk_transcript       *)
(* (pipeline/summarize.py).  Three loops, one after the other; a step is   *)
(* one turn of a loop, and the cues are any a caption file may hold, in    *)
(* the order of their times.  Times are in parts of a second, and a        *)
(* paragraph and the chunks see them cut to whole seconds; the size of a   *)
(* text is the number of its words.                                        *)
(***************************************************************************)
EXTENDS Naturals, Sequences, FiniteSets

CONSTANTS
    Word,
    SentenceEnd,   \* words that end a sentence
    CueWords,      \* texts a cue may have
    MaxCues,       \* BOUND
    Second,        \* parts of a second a time is told in
    Starts,        \* BOUND: when a cue may start
    ChapterSets,   \* sets of chapter starts a video may have
    ParagraphTarget, ParagraphCap,
    ChunkTarget

ASSUME CuesAssumption ==
    /\ SentenceEnd \subseteq Word
    /\ CueWords \subseteq Seq(Word)
    /\ Starts \subseteq Nat /\ MaxCues \in Nat
    /\ Second \in Nat \ {0}
    /\ \A starts \in ChapterSets : starts \subseteq Nat
    /\ ParagraphTarget \in Nat /\ ParagraphCap \in Nat \ {0}
    /\ ParagraphTarget <= ParagraphCap
    /\ ChunkTarget \in Nat

VARIABLES
    stage,       \* the loop
    all,         \* chapter starts of the video
    chapters,    \* those still ahead (next_boundary_idx), as the loop sees them
    cues,        \* how many cues were read
    prev,        \* words of the cue before
    text,        \* the words of all fragments
    fragments,   \* [start, from, upto]: when, and where in `text`
    paragraphs,  \* [first, last]: of which fragments
    chunks,      \* [first, last]: of which paragraphs; the last may grow
    at           \* what the loop looks at: a fragment, then a paragraph

cuesVars == <<stage, all, chapters, cues, prev, text, fragments, paragraphs, chunks, at>>

Span == [first : Nat \ {0}, last : Nat \ {0}]

(* int(): the second a time falls into.                                     *)
Whole(t) == t \div Second

(* Chapters of one second are one.                                          *)
WholeStarts == {Whole(c) : c \in all}

CuesTypeOK ==
    /\ stage \in {"dedupe", "merge", "chunk", "done"}
    /\ all \in ChapterSets
    /\ chapters \subseteq IF stage \in {"dedupe", "merge"} THEN all ELSE WholeStarts
    /\ cues \in 0 .. MaxCues
    /\ prev \in Seq(Word) /\ text \in Seq(Word)
    /\ fragments \in Seq([start : Nat, from : Nat \ {0}, upto : Nat \ {0}])
    /\ paragraphs \in Seq(Span) /\ chunks \in Seq(Span)
    /\ at \in Nat

CuesInit ==
    /\ stage = "dedupe"
    /\ all \in ChapterSets /\ chapters = all
    /\ cues = 0 /\ prev = <<>> /\ text = <<>>
    /\ fragments = <<>> /\ paragraphs = <<>> /\ chunks = <<>>
    /\ at = 0

Final(s) == s[Len(s)]

-----------------------------------------------------------------------------
(* _dedupe_rolling: a cue repeats the tail of the one before.               *)

LastOf(s, n) == SubSeq(s, Len(s) - n + 1, Len(s))

(* Mutant: the leading words that the cue before has anywhere.              *)
OverlapsAnywhere(words) ==
    {n \in 0 .. Len(words) : \A k \in 1 .. n : \E i \in DOMAIN prev : prev[i] = words[k]}

Overlaps(words) ==
    {n \in 0 .. Len(words) : n <= Len(prev) /\ LastOf(prev, n) = SubSeq(words, 1, n)}

(* A cue at time `start`, not before the one before it.                     *)
Adds(added, start) ==
    /\ fragments' = IF added = <<>> THEN fragments
                    ELSE Append(fragments, [start |-> start, from |-> Len(text) + 1,
                                            upto |-> Len(text) + Len(added)])
    /\ text' = text \o added

ReadCue(words, start) ==
    /\ stage = "dedupe"
    /\ cues < MaxCues
    /\ fragments # <<>> => start >= Final(fragments).start
    /\ cues' = cues + 1
    /\ \E longest \in Overlaps(words) :
          /\ \A n \in Overlaps(words) : n <= longest
          /\ Adds(SubSeq(words, longest + 1, Len(words)), start)
    /\ prev' = words
    /\ UNCHANGED <<stage, all, chapters, paragraphs, chunks, at>>

(* Chapters that start at or before the first fragment are no break.        *)
CuesEnd ==
    /\ stage = "dedupe"
    /\ fragments # <<>>
    /\ stage' = "merge"
    /\ at' = 1
    /\ chapters' = {c \in all : c > fragments[1].start}
    /\ UNCHANGED <<all, cues, prev, text, fragments, paragraphs, chunks>>

-----------------------------------------------------------------------------
(* Both loops look at the next chapter only, and pass one at a time.        *)
AtChapter(start) == \E c \in chapters : c <= start

PassChapter(start) ==
    IF AtChapter(start)
    THEN \E next \in chapters : /\ \A c \in chapters : next <= c
                                /\ chapters' = chapters \ {next}
    ELSE UNCHANGED chapters

-----------------------------------------------------------------------------
(* merge_paragraphs.                                                        *)

FirstFragment(p) == fragments[p.first]

Elapsed(f) == f.start - FirstFragment(Final(paragraphs)).start

AtSentenceEnd == text[fragments[at - 1].upto] \in SentenceEnd

(* Mutant: the cap waits for the end of a sentence too.                     *)
BreakAtSentence(f) ==
    \/ AtChapter(f.start)
    \/ Elapsed(f) >= ParagraphTarget /\ AtSentenceEnd

Break(f) ==
    \/ AtChapter(f.start)
    \/ Elapsed(f) >= ParagraphCap
    \/ Elapsed(f) >= ParagraphTarget /\ AtSentenceEnd

MergeFragment ==
    /\ stage = "merge"
    /\ at <= Len(fragments)
    /\ at' = at + 1
    /\ IF paragraphs # <<>> /\ ~Break(fragments[at])
       THEN /\ paragraphs' = [paragraphs EXCEPT ![Len(paragraphs)].last = at]
            /\ UNCHANGED chapters
       ELSE /\ paragraphs' = Append(paragraphs, [first |-> at, last |-> at])
            /\ PassChapter(fragments[at].start)
    /\ UNCHANGED <<stage, all, cues, prev, text, fragments, chunks>>

(* When a paragraph starts, as the chunks see it.                           *)
SecondOf(p) == Whole(FirstFragment(p).start)

FragmentsEnd ==
    /\ stage = "merge"
    /\ at > Len(fragments)
    /\ stage' = "chunk"
    /\ at' = 1
    /\ chapters' = {c \in WholeStarts : c > SecondOf(paragraphs[1])}
    /\ UNCHANGED <<all, cues, prev, text, fragments, paragraphs, chunks>>

-----------------------------------------------------------------------------
(* chunk_transcript.                                                        *)

(* The size of paragraphs first .. last.                                    *)
Size(first, last) ==
    fragments[paragraphs[last].last].upto
        - fragments[paragraphs[first].first].from + 1

OverBudget(chunk, p) == Size(chunk.first, chunk.last) + Size(p, p) > ChunkTarget

(* Mutant: the overlap is carried across a chapter too.                     *)
ChunkParagraphOverlapping ==
    /\ stage = "chunk"
    /\ at <= Len(paragraphs)
    /\ at' = at + 1
    /\ LET start == SecondOf(paragraphs[at])
           over  == chunks # <<>> /\ OverBudget(Final(chunks), at)
       IN  IF chunks # <<>> /\ ~AtChapter(start) /\ ~over
           THEN /\ chunks' = [chunks EXCEPT ![Len(chunks)].last = at]
                /\ UNCHANGED chapters
           ELSE /\ chunks' = Append(chunks,
                        [first |-> IF over THEN at - 1 ELSE at, last |-> at])
                /\ PassChapter(start)
    /\ UNCHANGED <<stage, all, cues, prev, text, fragments, paragraphs>>

ChunkParagraph ==
    /\ stage = "chunk"
    /\ at <= Len(paragraphs)
    /\ at' = at + 1
    /\ LET start == SecondOf(paragraphs[at])
           over  == chunks # <<>> /\ OverBudget(Final(chunks), at)
       IN  IF chunks # <<>> /\ ~AtChapter(start) /\ ~over
           THEN /\ chunks' = [chunks EXCEPT ![Len(chunks)].last = at]
                /\ UNCHANGED chapters
           ELSE /\ chunks' = Append(chunks,
                        [first |-> IF over /\ ~AtChapter(start) THEN at - 1 ELSE at,
                         last  |-> at])
                /\ PassChapter(start)
    /\ UNCHANGED <<stage, all, cues, prev, text, fragments, paragraphs>>

ParagraphsEnd ==
    /\ stage = "chunk"
    /\ at > Len(paragraphs)
    /\ stage' = "done"
    /\ UNCHANGED <<all, chapters, cues, prev, text, fragments, paragraphs, chunks, at>>

CuesNext ==
    \/ \E words \in CueWords, start \in Starts : ReadCue(words, start)
    \/ CuesEnd \/ MergeFragment \/ FragmentsEnd \/ ChunkParagraph \/ ParagraphsEnd

CuesSpec == CuesInit /\ [][CuesNext]_cuesVars

-----------------------------------------------------------------------------
(* No word is lost: when a cue has been read, the text ends with all of it, *)
(* however it overlaps with the cue before (normalize.py:100-128).          *)
TextKeepsCues ==
    /\ Len(prev) <= Len(text)
    /\ LastOf(text, Len(prev)) = prev

(* One of `starts` lies between two times.                                  *)
Between(starts, from, to) == \E c \in starts : from < c /\ c <= to

(* No paragraph reaches from one chapter into the next, or over the cap,    *)
(* and together they are the fragments, each once, also when a chapter has  *)
(* no cue and the index of the next one lags (normalize.py:164-214).        *)
ParagraphsFit ==
    /\ \A i \in DOMAIN paragraphs :
          LET p == paragraphs[i] IN
          /\ p.first = (IF i = 1 THEN 1 ELSE paragraphs[i - 1].last + 1)
          /\ \A f \in p.first .. p.last :
                /\ fragments[f].start - FirstFragment(p).start < ParagraphCap
                /\ ~Between(all, FirstFragment(p).start, fragments[f].start)
    /\ stage \in {"chunk", "done"} => Final(paragraphs).last = Len(fragments)

(* No chunk has paragraphs of two chapters, the seconds of both told whole: *)
(* a chunk may run over a chapter's exact start only where that start falls *)
(* into the second in which the chunk begins.  Only two paragraphs that do  *)
(* not fit together make a chunk larger than the target; and every          *)
(* paragraph is in a chunk, in two only where a chapter had to be split,    *)
(* and never in three (summarize.py:45-106, normalize.py:190).              *)
ChunksFit ==
    /\ \A i \in DOMAIN chunks :
          LET chunk == chunks[i] IN
          /\ ~Between(WholeStarts, SecondOf(paragraphs[chunk.first]),
                      SecondOf(paragraphs[chunk.last]))
          /\ Size(chunk.first, chunk.last) > ChunkTarget => chunk.last <= chunk.first + 1
          /\ IF i = 1 THEN chunk.first = 1
             ELSE /\ chunk.first \in {chunks[i - 1].last, chunks[i - 1].last + 1}
                  /\ chunk.last > chunks[i - 1].last
    /\ stage = "done" => Final(chunks).last = Len(paragraphs)
=============================================================================
