----------------------------- MODULE CuesProofs -----------------------------
(***************************************************************************)
(* From cues to chunks, for any cues, times, chapters and budgets: no word *)
(* is lost, and neither a paragraph nor a chunk reaches over a chapter, a  *)
(* cap or a budget that it has to keep.                                    *)
(***************************************************************************)
EXTENDS Cues, SequenceTheorems, TLAPS

Fragment == [start : Nat, from : Nat \ {0}, upto : Nat \ {0}]

-----------------------------------------------------------------------------
(* Sequences that grow at their end, or whose last element does.            *)

LEMMA Grown ==
    ASSUME NEW S, NEW s \in Seq(S), NEW e \in S
    PROVE  /\ Append(s, e) \in Seq(S) /\ Append(s, e) # <<>>
           /\ Len(Append(s, e)) = Len(s) + 1 /\ DOMAIN Append(s, e) = 1 .. Len(s) + 1
           /\ Final(Append(s, e)) = e /\ Append(s, e)[Len(s) + 1] = e
           /\ \A i \in 1 .. Len(s) : Append(s, e)[i] = s[i]
BY DEF Final

LEMMA Finals ==
    ASSUME NEW S, NEW s \in Seq(S), s # <<>>
    PROVE  /\ Len(s) \in Nat \ {0} /\ DOMAIN s = 1 .. Len(s)
           /\ Len(s) \in DOMAIN s /\ Final(s) = s[Len(s)] /\ Final(s) \in S
BY EmptySeq DEF Final

LEMMA FinalGrown ==
    ASSUME NEW s \in Seq(Span), s # <<>>, NEW n \in Nat \ {0}
    PROVE  LET t == [s EXCEPT ![Len(s)].last = n] IN
           /\ t \in Seq(Span) /\ t # <<>> /\ Len(t) = Len(s) /\ DOMAIN t = DOMAIN s
           /\ Final(t) = [first |-> Final(s).first, last |-> n]
           /\ \A i \in DOMAIN s : i # Len(s) => t[i] = s[i]
           /\ t[Len(s)] = [first |-> Final(s).first, last |-> n]
<1> DEFINE e == [first |-> Final(s).first, last |-> n]
<1>1. Len(s) \in 1 .. Len(s) /\ Final(s) = s[Len(s)] /\ Final(s) \in Span
  BY Finals
<1>2. e \in Span /\ [s[Len(s)] EXCEPT !.last = n] = e
  BY <1>1 DEF Span
<1>3. [s EXCEPT ![Len(s)].last = n] = [s EXCEPT ![Len(s)] = e]
  BY <1>2
<1> HIDE DEF e
<1>4. /\ [s EXCEPT ![Len(s)] = e] \in Seq(Span)
      /\ Len([s EXCEPT ![Len(s)] = e]) = Len(s)
      /\ \A j \in 1 .. Len(s) : [s EXCEPT ![Len(s)] = e][j] = IF j = Len(s) THEN e ELSE s[j]
  BY <1>1, <1>2, ExceptSeq
<1> DEFINE t == [s EXCEPT ![Len(s)] = e]
<1>5. t # <<>> /\ DOMAIN t = DOMAIN s /\ Final(t) = e /\ t[Len(s)] = e
  BY <1>1, <1>4 DEF Final
<1> QED
  BY <1>1, <1>3, <1>4, <1>5 DEF e

-----------------------------------------------------------------------------
(* The fragments.                                                           *)

(* They are in the order of their times, and each begins where the one      *)
(* before it ends.                                                          *)
FragmentsInv ==
    /\ \A i, j \in DOMAIN fragments : i <= j => fragments[i].start <= fragments[j].start
    /\ \A i \in DOMAIN fragments : i > 1 => fragments[i].from = fragments[i - 1].upto + 1
    /\ fragments # <<>> => Final(fragments).upto = Len(text)

LEMMA AddsInv ==
    ASSUME fragments \in Seq(Fragment), text \in Seq(Word), FragmentsInv,
           NEW added \in Seq(Word), NEW start \in Nat,
           fragments # <<>> => start >= Final(fragments).start,
           Adds(added, start)
    PROVE  /\ fragments' \in Seq(Fragment) /\ text' \in Seq(Word) /\ FragmentsInv'
           /\ text' = text \o added
<1>1. text' = text \o added /\ text' \in Seq(Word) /\ Len(text') = Len(text) + Len(added)
  BY ConcatProperties DEF Adds
<1>2. CASE added = <<>>
  <2>1. fragments' = fragments /\ Len(text') = Len(text)
    BY <1>1, <1>2 DEF Adds
  <2> QED
    BY <1>1, <2>1 DEF FragmentsInv
<1>3. CASE added # <<>>
  <2> DEFINE f == [start |-> start, from |-> Len(text) + 1,
                   upto |-> Len(text) + Len(added)]
  <2>1. Len(text) \in Nat /\ Len(added) \in Nat \ {0}
    BY <1>3, EmptySeq, LenProperties
  <2>2. f \in Fragment /\ f.start = start /\ f.from = Len(text) + 1 /\ f.upto = Len(text')
    BY <1>1, <2>1 DEF Fragment
  <2>3. fragments' = Append(fragments, f)
    BY <1>3 DEF Adds
  <2> HIDE DEF f
  <2>4. /\ fragments' \in Seq(Fragment) /\ fragments' # <<>>
        /\ DOMAIN fragments' = 1 .. Len(fragments) + 1 /\ Final(fragments') = f
        /\ fragments'[Len(fragments) + 1] = f
        /\ \A i \in 1 .. Len(fragments) : fragments'[i] = fragments[i]
    BY <2>2, <2>3, Grown
  <2>5. Len(fragments) \in Nat /\ DOMAIN fragments = 1 .. Len(fragments)
    BY LenProperties
  <2>6. ASSUME fragments # <<>>
        PROVE  /\ Len(fragments) \in DOMAIN fragments
               /\ Final(fragments) = fragments[Len(fragments)]
               /\ \A i \in DOMAIN fragments : fragments[i].start <= Final(fragments).start
               /\ \A i \in DOMAIN fragments : fragments[i].start \in Nat
    <3>1. Len(fragments) \in DOMAIN fragments /\ Final(fragments) = fragments[Len(fragments)]
      BY <2>5, <2>6, Finals
    <3>2. \A i \in DOMAIN fragments : i <= Len(fragments) /\ fragments[i] \in Fragment
      BY <2>5, ElementOfSeq
    <3>3. \A i \in DOMAIN fragments : fragments[i].start \in Nat
      BY <3>2 DEF Fragment
    <3> QED
      BY <3>1, <3>2, <3>3 DEF FragmentsInv
  <2>7. ASSUME NEW i \in DOMAIN fragments', NEW j \in DOMAIN fragments', i <= j
        PROVE  fragments'[i].start <= fragments'[j].start
    <3>1. CASE j <= Len(fragments)
      BY <2>4, <2>5, <2>7, <3>1 DEF FragmentsInv
    <3>2. CASE i <= Len(fragments) /\ j = Len(fragments) + 1
      <4>1. fragments # <<>> /\ i \in DOMAIN fragments
        BY <2>4, <2>5, <2>7, <3>2
      <4> QED
        BY <2>2, <2>4, <2>5, <2>6, <3>2, <4>1
    <3>3. CASE i = Len(fragments) + 1 /\ j = Len(fragments) + 1
      BY <2>2, <2>4, <3>3
    <3> QED
      BY <2>4, <2>5, <2>7, <3>1, <3>2, <3>3
  <2>8. ASSUME NEW i \in DOMAIN fragments', i > 1
        PROVE  fragments'[i].from = fragments'[i - 1].upto + 1
    <3>1. CASE i <= Len(fragments)
      BY <2>4, <2>5, <2>8, <3>1 DEF FragmentsInv
    <3>2. CASE i = Len(fragments) + 1
      <4>1. fragments # <<>> /\ i - 1 = Len(fragments) /\ i - 1 \in 1 .. Len(fragments)
        BY <2>4, <2>5, <2>8, <3>2
      <4> QED
        BY <2>2, <2>4, <2>6, <3>2, <4>1 DEF FragmentsInv
    <3> QED
      BY <2>4, <2>5, <3>1, <3>2
  <2> QED
    BY <1>1, <2>2, <2>4, <2>7, <2>8 DEF FragmentsInv
<1> QED
  BY <1>2, <1>3

LEMMA SubSeqFrom ==
    ASSUME NEW s \in Seq(Word), NEW k \in Nat, k <= Len(s)
    PROVE  /\ SubSeq(s, k + 1, Len(s)) \in Seq(Word)
           /\ Len(SubSeq(s, k + 1, Len(s))) = Len(s) - k
           /\ \A i \in 1 .. Len(s) - k : SubSeq(s, k + 1, Len(s))[i] = s[k + i]
<1> DEFINE t == SubSeq(s, k + 1, Len(s))
<1>1. PICK n \in Nat : n = Len(s)
  BY LenProperties
<1>2. \A i \in k + 1 .. n : s[i] \in Word
  BY <1>1, ElementOfSeq
<1>3. k + 1 \in Int /\ n \in Int
  OBVIOUS
<1>4. /\ t \in Seq(Word)
      /\ Len(t) = IF k + 1 <= n THEN n - (k + 1) + 1 ELSE 0
      /\ \A i \in 1 .. n - (k + 1) + 1 : t[i] = s[(k + 1) + i - 1]
  BY <1>1, <1>2, <1>3, SubSeqProperties
<1> HIDE DEF t
<1>5. Len(t) = n - k
  BY <1>1, <1>4
<1>6. ASSUME NEW i \in 1 .. n - k PROVE t[i] = s[k + i]
  <2>1. i \in 1 .. n - (k + 1) + 1 /\ (k + 1) + i - 1 = k + i
    OBVIOUS
  <2> QED
    BY <1>4, <2>1
<1> QED
  BY <1>1, <1>4, <1>5, <1>6 DEF t

LEMMA LastOfProperties ==
    ASSUME NEW s \in Seq(Word), NEW n \in 0 .. Len(s)
    PROVE  /\ LastOf(s, n) \in Seq(Word) /\ Len(LastOf(s, n)) = n
           /\ \A i \in 1 .. n : LastOf(s, n)[i] = s[Len(s) - n + i]
<1>0. PICK m \in Nat : m = Len(s)
  BY LenProperties
<1>1. PICK k \in Nat : k = Len(s) - n /\ k <= Len(s) /\ Len(s) - k = n
  <2>1. m - n \in Nat /\ m - n <= m /\ m - (m - n) = n
    BY <1>0
  <2> QED
    BY <1>0, <2>1
<1>2. /\ SubSeq(s, k + 1, Len(s)) \in Seq(Word)
      /\ Len(SubSeq(s, k + 1, Len(s))) = Len(s) - k
      /\ \A i \in 1 .. Len(s) - k : SubSeq(s, k + 1, Len(s))[i] = s[k + i]
  BY <1>1, SubSeqFrom
<1> QED
  BY <1>1, <1>2 DEF LastOf

(* The text goes on with what the cue does not repeat of the one before.    *)
LEMMA TextKeeps ==
    ASSUME text \in Seq(Word), prev \in Seq(Word), TextKeepsCues,
           NEW words \in Seq(Word), NEW longest \in Overlaps(words),
           text' = text \o SubSeq(words, longest + 1, Len(words)), prev' = words
    PROVE  TextKeepsCues' /\ SubSeq(words, longest + 1, Len(words)) \in Seq(Word)
<1> DEFINE added == SubSeq(words, longest + 1, Len(words))
<1>1. PICK n \in Nat, p \in Nat, t \in Nat :
          n = Len(words) /\ p = Len(prev) /\ t = Len(text)
  BY LenProperties
<1>2. /\ longest \in Nat /\ longest <= n /\ longest <= p
      /\ LastOf(prev, longest) = SubSeq(words, 1, longest)
  BY <1>1 DEF Overlaps
<1>3. p <= t /\ LastOf(text, p) = prev
  BY <1>1 DEF TextKeepsCues
<1>4. /\ added \in Seq(Word) /\ Len(added) = n - longest
      /\ \A i \in 1 .. n - longest : added[i] = words[longest + i]
  BY <1>1, <1>2, SubSeqFrom
<1>5. \A i \in 1 .. longest : SubSeq(words, 1, longest)[i] = words[i]
  <2>1. \A i \in 1 .. longest : words[i] \in Word
    BY <1>1, <1>2, ElementOfSeq
  <2>2. \A i \in 1 .. longest - 1 + 1 : SubSeq(words, 1, longest)[i] = words[1 + i - 1]
    BY <1>2, <2>1, SubSeqProperties
  <2>3. ASSUME NEW i \in 1 .. longest PROVE SubSeq(words, 1, longest)[i] = words[i]
    <3>1. i \in 1 .. longest - 1 + 1 /\ 1 + i - 1 = i
      BY <1>2
    <3> QED
      BY <2>2, <3>1
  <2> QED
    BY <2>3
<1> HIDE DEF added
<1>6. /\ text' \in Seq(Word) /\ Len(text') = t + (n - longest)
      /\ \A i \in 1 .. t + (n - longest) :
            text'[i] = IF i <= t THEN text[i] ELSE added[i - t]
  BY <1>1, <1>4, ConcatProperties DEF added
<1>7. PICK m \in Nat : m = Len(text') /\ m - n = t - longest /\ n <= m
  <2>1. t + (n - longest) \in Nat /\ (t + (n - longest)) - n = t - longest
        /\ n <= t + (n - longest)
    BY <1>2, <1>3
  <2> QED
    BY <1>6, <2>1
<1>m. n \in 0 .. m /\ m - n \in Int
  <2>1. n <= m
    BY <1>7
  <2> QED
    BY <2>1
<1>8. \A i \in 1 .. longest : words[i] = prev[p - longest + i]
  <2>1. longest \in 0 .. Len(prev)
    BY <1>1, <1>2
  <2>2. \A i \in 1 .. longest : LastOf(prev, longest)[i] = prev[Len(prev) - longest + i]
    BY <2>1, LastOfProperties
  <2> QED
    BY <1>1, <1>2, <1>5, <2>2
<1>9. \A i \in 1 .. p : prev[i] = text[t - p + i]
  <2>1. p \in 0 .. Len(text)
    BY <1>1, <1>3
  <2>2. \A i \in 1 .. p : LastOf(text, p)[i] = text[Len(text) - p + i]
    BY <2>1, LastOfProperties
  <2> QED
    BY <1>1, <1>3, <2>2
<1>10. ASSUME NEW i \in 1 .. n PROVE text'[m - n + i] = words[i]
  <2>1. m - n + i = t - longest + i
    BY <1>2, <1>7
  <2>2. CASE i <= longest
    <3>1. /\ t - longest + i \in 1 .. t + (n - longest) /\ t - longest + i <= t
          /\ p - longest + i \in 1 .. p /\ t - p + (p - longest + i) = t - longest + i
          /\ i \in 1 .. longest
      BY <1>2, <1>3, <2>2
    <3>2. text'[t - longest + i] = text[t - longest + i]
      BY <1>6, <3>1
    <3>3. text[t - longest + i] = prev[p - longest + i]
      BY <1>9, <3>1
    <3> QED
      BY <1>8, <2>1, <3>1, <3>2, <3>3
  <2>3. CASE i > longest
    <3>1. /\ t - longest + i \in 1 .. t + (n - longest) /\ ~(t - longest + i <= t)
          /\ (t - longest + i) - t = i - longest /\ i - longest \in 1 .. n - longest
          /\ longest + (i - longest) = i
      BY <1>2, <1>3, <2>3
    <3>2. text'[t - longest + i] = added[i - longest]
      BY <1>6, <3>1
    <3>3. added[i - longest] = words[i]
      BY <1>4, <3>1
    <3> QED
      BY <2>1, <3>2, <3>3
  <2>4. i <= longest \/ i > longest
    BY <1>2
  <2> QED
    BY <2>2, <2>3, <2>4
<1>11. LastOf(text', n) = words
  <2>1. n \in 0 .. Len(text')
    BY <1>7, <1>m
  <2>2. /\ LastOf(text', n) \in Seq(Word) /\ Len(LastOf(text', n)) = n
        /\ \A i \in 1 .. n : LastOf(text', n)[i] = text'[m - n + i]
    <3>1. text' \in Seq(Word)
      BY <1>6
    <3>2. /\ LastOf(text', n) \in Seq(Word) /\ Len(LastOf(text', n)) = n
          /\ \A i \in 1 .. n : LastOf(text', n)[i] = text'[Len(text') - n + i]
      BY <2>1, <3>1, LastOfProperties
    <3> QED
      BY <1>7, <3>2
  <2>3. \A i \in 1 .. Len(LastOf(text', n)) : LastOf(text', n)[i] = words[i]
    BY <1>10, <2>2
  <2> QED
    BY <1>1, <2>2, <2>3, SeqEqual
<1> QED
  BY <1>1, <1>4, <1>7, <1>11 DEF TextKeepsCues, added

-----------------------------------------------------------------------------
DedupeInv ==
    /\ fragments \in Seq(Fragment)
    /\ text \in Seq(Word) /\ prev \in Seq(Word)
    /\ FragmentsInv
    /\ TextKeepsCues

LEMMA DedupeInit == CuesInit => DedupeInv
<1> SUFFICES ASSUME CuesInit PROVE DedupeInv
  OBVIOUS
<1>1. fragments = <<>> /\ text = <<>> /\ prev = <<>>
  BY DEF CuesInit
<1>2. FragmentsInv
  BY <1>1 DEF FragmentsInv
<1>3. fragments \in Seq(Fragment) /\ text \in Seq(Word) /\ prev \in Seq(Word)
  BY <1>1
<1>4. Len(prev) = 0 /\ Len(text) = 0
  BY <1>1
<1>5. LastOf(text, 0) = <<>>
  <2>1. 0 \in 0 .. Len(text)
    BY <1>4
  <2>2. LastOf(text, 0) \in Seq(Word) /\ Len(LastOf(text, 0)) = 0
    BY <1>3, <2>1, LastOfProperties
  <2> QED
    BY <2>2, EmptySeq
<1> QED
  BY <1>1, <1>2, <1>3, <1>4, <1>5 DEF DedupeInv, TextKeepsCues

LEMMA DedupeStep == DedupeInv /\ [CuesNext]_cuesVars => DedupeInv'
<1> SUFFICES ASSUME DedupeInv, [CuesNext]_cuesVars PROVE DedupeInv'
  OBVIOUS
<1>1. ASSUME NEW words \in CueWords, NEW start \in Starts, ReadCue(words, start)
      PROVE  DedupeInv'
  <2>1. words \in Seq(Word) /\ start \in Nat
    BY <1>1, CuesAssumption
  <2>2. PICK longest \in Overlaps(words) :
            Adds(SubSeq(words, longest + 1, Len(words)), start)
    BY <1>1 DEF ReadCue
  <2>3. prev' = words /\ (fragments # <<>> => start >= Final(fragments).start)
    BY <1>1 DEF ReadCue
  <2>4. text' = text \o SubSeq(words, longest + 1, Len(words))
    BY <2>2 DEF Adds
  <2>5. TextKeepsCues' /\ SubSeq(words, longest + 1, Len(words)) \in Seq(Word)
    BY <2>1, <2>2, <2>3, <2>4, TextKeeps DEF DedupeInv
  <2>6. fragments' \in Seq(Fragment) /\ text' \in Seq(Word) /\ FragmentsInv'
    BY <2>1, <2>2, <2>3, <2>5, AddsInv DEF DedupeInv
  <2> QED
    BY <2>1, <2>3, <2>5, <2>6 DEF DedupeInv
<1>2. CASE UNCHANGED <<fragments, text, prev>>
  BY <1>2 DEF DedupeInv, FragmentsInv, TextKeepsCues
<1>3. CASE CuesEnd \/ MergeFragment \/ FragmentsEnd \/ ChunkParagraph \/ ParagraphsEnd
  BY <1>2, <1>3 DEF CuesEnd, MergeFragment, FragmentsEnd, ChunkParagraph, ParagraphsEnd
<1> QED
  BY <1>1, <1>2, <1>3 DEF CuesNext, cuesVars

(* No word of a cue is lost when what it repeats of the cue before is cut   *)
(* off: the text so far ends with all of it (normalize.py:100-128), for any *)
(* words and any number of cues.                                            *)
THEOREM WordsKept == CuesSpec => []TextKeepsCues
<1>1. DedupeInv => TextKeepsCues
  BY DEF DedupeInv
<1> QED
  BY <1>1, DedupeInit, DedupeStep, PTL DEF CuesSpec

-----------------------------------------------------------------------------
(* The paragraphs.                                                          *)

StartOf(p) == fragments[p.first].start

Fits(p) ==
    /\ p.first <= p.last /\ p.last <= Len(fragments)
    /\ \A f \in p.first .. p.last :
          /\ fragments[f].start - StartOf(p) < ParagraphCap
          /\ ~Between(all, StartOf(p), fragments[f].start)

(* Every paragraph begins where the one before it ends.                     *)
Consecutive ==
    /\ \A i \in DOMAIN paragraphs :
          paragraphs[i].first = (IF i = 1 THEN 1 ELSE paragraphs[i - 1].last + 1)
    /\ \A i, j \in DOMAIN paragraphs : i <= j => paragraphs[i].first <= paragraphs[j].first

(* A chapter that the loop has passed starts no later than the last         *)
(* paragraph: what is not behind the paragraph is still ahead.              *)
Passed(c) == IF paragraphs = <<>> THEN c <= fragments[1].start
                                  ELSE c <= StartOf(Final(paragraphs))

Merging ==
    /\ at \in 1 .. Len(fragments) + 1
    /\ paragraphs = <<>> => at = 1
    /\ paragraphs # <<>> => Final(paragraphs).last = at - 1
    /\ \A c \in all \ chapters : Passed(c)

Merged == paragraphs # <<>> /\ Final(paragraphs).last = Len(fragments)

ParagraphsInv ==
    /\ stage \in {"dedupe", "merge", "chunk", "done"}
    /\ all \subseteq Nat
    /\ stage \in {"dedupe", "merge"} => chapters \subseteq all
    /\ paragraphs \in Seq(Span)
    /\ stage = "dedupe" => paragraphs = <<>>
    /\ stage # "dedupe" => fragments # <<>>
    /\ stage = "merge" => Merging
    /\ stage \in {"chunk", "done"} => Merged
    /\ \A i \in DOMAIN paragraphs : Fits(paragraphs[i])
    /\ Consecutive

LEMMA PassedNext ==
    ASSUME NEW starts \in SUBSET Nat, chapters \subseteq starts, NEW start \in Nat,
           PassChapter(start), NEW c \in starts \ chapters'
    PROVE  c \notin chapters \/ c <= start
<1>1. CASE AtChapter(start)
  <2>1. PICK next \in chapters :
            (\A d \in chapters : next <= d) /\ chapters' = chapters \ {next}
    BY <1>1 DEF PassChapter
  <2>2. PICK d \in chapters : d <= start
    BY <1>1 DEF AtChapter
  <2>3. CASE c \notin chapters
    BY <2>3
  <2>4. CASE c = next
    <3>1. next \in Nat /\ d \in Nat /\ next <= d
      BY <2>1
    <3> QED
      BY <2>2, <2>4, <3>1
  <2> QED
    BY <2>1, <2>3, <2>4
<1>2. CASE ~AtChapter(start)
  BY <1>2 DEF PassChapter
<1> QED
  BY <1>1, <1>2

LEMMA NothingWithin ==
    ASSUME NEW starts \in SUBSET Nat, NEW time \in Nat
    PROVE  ~Between(starts, time, time)
BY DEF Between

(* A chapter is between two times only if it is ahead or was passed later.  *)
LEMMA NothingBetween ==
    ASSUME NEW starts \in SUBSET Nat, chapters \subseteq starts,
           NEW from \in Nat, NEW to \in Nat,
           ~AtChapter(to), \A c \in starts \ chapters : c <= from
    PROVE  ~Between(starts, from, to)
<1> SUFFICES ASSUME NEW c \in starts, from < c, c <= to PROVE FALSE
  BY DEF Between
<1>1. c \notin chapters
  BY DEF AtChapter
<1>2. c <= from /\ c \in Nat
  BY <1>1
<1> QED
  BY <1>2

LEMMA MergeStep ==
    ASSUME fragments \in Seq(Fragment), FragmentsInv, ParagraphsInv, MergeFragment
    PROVE  ParagraphsInv'
<1> USE LenProperties
<1>1. /\ stage = "merge" /\ at <= Len(fragments) /\ at' = at + 1 /\ stage' = stage
      /\ UNCHANGED <<all, fragments>>
  BY DEF MergeFragment
<1>2. /\ all \subseteq Nat /\ chapters \subseteq all /\ paragraphs \in Seq(Span)
      /\ fragments # <<>> /\ Merging /\ Consecutive
      /\ \A i \in DOMAIN paragraphs : Fits(paragraphs[i])
  BY <1>1 DEF ParagraphsInv
<1>3. PICK n \in Nat \ {0}, k \in Nat :
          n = Len(fragments) /\ k = Len(paragraphs) /\ DOMAIN paragraphs = 1 .. k
          /\ DOMAIN fragments = 1 .. n
  BY <1>2, Finals
<1>4. at \in 1 .. n /\ at \in Nat \ {0} /\ at + 1 \in 1 .. n + 1
  BY <1>1, <1>2, <1>3 DEF Merging
<1>5. \A i \in 1 .. n : fragments[i].start \in Nat
  <2>1. \A i \in 1 .. n : fragments[i] \in Fragment
    BY <1>3, ElementOfSeq
  <2> QED
    BY <2>1 DEF Fragment
<1>6. \A p : StartOf(p)' = StartOf(p) /\ FirstFragment(p) = fragments[p.first]
  BY <1>1 DEF StartOf, FirstFragment
<1>8. CASE paragraphs # <<>> /\ ~Break(fragments[at])
  <2> DEFINE q == Final(paragraphs)
             e == [first |-> q.first, last |-> at]
  <2>1. /\ k \in 1 .. k /\ q = paragraphs[k] /\ q \in Span /\ k \in Nat \ {0}
    BY <1>2, <1>3, <1>8, Finals
  <2>2. /\ paragraphs' \in Seq(Span) /\ paragraphs' # <<>> /\ DOMAIN paragraphs' = 1 .. k
        /\ Final(paragraphs') = e /\ paragraphs'[k] = e
        /\ \A i \in 1 .. k : i # k => paragraphs'[i] = paragraphs[i]
    <3>1. paragraphs' = [paragraphs EXCEPT ![Len(paragraphs)].last = at]
      BY <1>8 DEF MergeFragment
    <3> DEFINE s == [paragraphs EXCEPT ![Len(paragraphs)].last = at]
    <3>2. /\ s \in Seq(Span) /\ s # <<>> /\ Len(s) = Len(paragraphs)
          /\ DOMAIN s = DOMAIN paragraphs /\ Final(s) = e
          /\ \A i \in DOMAIN paragraphs : i # Len(paragraphs) => s[i] = paragraphs[i]
          /\ s[Len(paragraphs)] = e
      BY <1>2, <1>4, <1>8, FinalGrown
    <3> HIDE DEF s, e
    <3>3. paragraphs' = s
      BY <3>1 DEF s
    <3> QED
      BY <1>3, <3>2, <3>3
  <2>3. /\ chapters' = chapters
    BY <1>8 DEF MergeFragment
  <2>4. /\ q.first \in Nat \ {0} /\ q.last = at - 1 /\ Fits(q)
        /\ q.first <= at - 1 /\ q.first \in 1 .. n
    <3>1. q.first \in Nat \ {0} /\ q.last = at - 1 /\ Fits(q)
      BY <1>2, <1>3, <1>8, <2>1 DEF Merging, Span
    <3>2. q.first <= at - 1
      BY <3>1 DEF Fits
    <3> QED
      BY <1>4, <3>1, <3>2
  <2>5. StartOf(q) = fragments[q.first].start /\ StartOf(q) \in Nat
    BY <1>5, <2>4 DEF StartOf
  <2>6. fragments[at].start \in Nat
    BY <1>4, <1>5
  <2>7. fragments[at].start - StartOf(q) < ParagraphCap
    <3>1. ~(Elapsed(fragments[at]) >= ParagraphCap)
      BY <1>8 DEF Break
    <3>2. Elapsed(fragments[at]) = fragments[at].start - StartOf(q)
      BY DEF Elapsed, StartOf, FirstFragment
    <3> QED
      BY <2>5, <2>6, <3>1, <3>2, CuesAssumption
  <2>8. ~Between(all, StartOf(q), fragments[at].start)
    <3>1. ~AtChapter(fragments[at].start)
      BY <1>8 DEF Break
    <3>2. \A c \in all \ chapters : c <= StartOf(q)
      BY <1>2, <1>8 DEF Merging, Passed
    <3> QED
      BY <1>2, <2>5, <2>6, <3>1, <3>2, NothingBetween
  <2>9. e.first = q.first /\ e.last = at /\ StartOf(e) = StartOf(q)
    BY DEF StartOf
  <2> HIDE DEF e, q
  <2>10. Fits(e)
    <3>1. e.first <= e.last /\ e.last <= Len(fragments)
      BY <1>1, <1>4, <2>4, <2>9
    <3>2. ASSUME NEW f \in e.first .. e.last
          PROVE  /\ fragments[f].start - StartOf(e) < ParagraphCap
                 /\ ~Between(all, StartOf(e), fragments[f].start)
      <4>1. CASE f = at
        BY <2>7, <2>8, <2>9, <4>1
      <4>2. CASE f # at
        <5>1. f \in q.first .. q.last
          BY <1>4, <2>4, <2>9, <4>2
        <5> QED
          BY <2>4, <2>9, <5>1 DEF Fits
      <4> QED
        BY <4>1, <4>2
    <3> QED
      BY <3>1, <3>2 DEF Fits
  <2>11. ASSUME NEW i \in DOMAIN paragraphs' PROVE Fits(paragraphs[i])'
    <3>1. i \in 1 .. k
      BY <2>2
    <3>2. CASE i = k
      BY <1>1, <2>2, <2>10, <3>2 DEF Fits, StartOf, Between
    <3>3. CASE i # k
      <4>1. Fits(paragraphs[i]) /\ paragraphs'[i] = paragraphs[i]
        BY <1>2, <1>3, <2>2, <3>1, <3>3
      <4> QED
        BY <1>1, <4>1 DEF Fits, StartOf, Between
    <3> QED
      BY <3>2, <3>3
  <2>12. \A i \in 1 .. k : paragraphs'[i].first = paragraphs[i].first
    BY <2>1, <2>2, <2>9
  <2>13. Consecutive'
    <3>1. ASSUME NEW i \in 1 .. k
          PROVE  paragraphs'[i].first
                    = (IF i = 1 THEN 1 ELSE paragraphs'[i - 1].last + 1)
      <4>1. i # 1 => i - 1 \in 1 .. k /\ i - 1 # k
        OBVIOUS
      <4> QED
        BY <1>2, <1>3, <2>2, <2>12, <4>1 DEF Consecutive
    <3>2. \A i, j \in 1 .. k : i <= j => paragraphs'[i].first <= paragraphs'[j].first
      BY <1>2, <1>3, <2>12 DEF Consecutive
    <3> QED
      BY <2>2, <3>1, <3>2 DEF Consecutive
  <2>14. Merging'
    <3>1. \A c \in all \ chapters : c <= StartOf(q)
      BY <1>2, <1>8 DEF Merging, Passed, q
    <3>2. \A c \in all' \ chapters' : Passed(c)'
      BY <1>1, <1>6, <2>2, <2>3, <2>9, <3>1 DEF Passed
    <3>3. at' = at + 1 /\ at' - 1 = at
      BY <1>1, <1>4
    <3> QED
      BY <1>1, <1>3, <1>4, <2>2, <2>9, <3>2, <3>3 DEF Merging
  <2> QED
    BY <1>1, <1>2, <2>2, <2>3, <2>11, <2>13, <2>14 DEF ParagraphsInv
<1>9. CASE ~(paragraphs # <<>> /\ ~Break(fragments[at]))
  <2> DEFINE e == [first |-> at, last |-> at]
  <2>1. e \in Span /\ e.first = at /\ e.last = at /\ StartOf(e) = fragments[at].start
    BY <1>4 DEF Span, StartOf
  <2>2. paragraphs' = Append(paragraphs, e) /\ PassChapter(fragments[at].start)
    BY <1>9 DEF MergeFragment
  <2> HIDE DEF e
  <2>3. /\ paragraphs' \in Seq(Span) /\ paragraphs' # <<>>
        /\ DOMAIN paragraphs' = 1 .. k + 1
        /\ Final(paragraphs') = e /\ paragraphs'[k + 1] = e
        /\ \A i \in 1 .. k : paragraphs'[i] = paragraphs[i]
    BY <1>2, <1>3, <2>1, <2>2, Grown
  <2>4. fragments[at].start \in Nat
    BY <1>4, <1>5
  <2>5. Fits(e)
    <3>1. ASSUME NEW f \in e.first .. e.last
          PROVE  /\ fragments[f].start - StartOf(e) < ParagraphCap
                 /\ ~Between(all, StartOf(e), fragments[f].start)
      <4>1. f = at /\ fragments[f].start - StartOf(e) = 0
        BY <1>4, <2>1, <2>4
      <4>2. ~Between(all, fragments[at].start, fragments[at].start)
        BY <1>2, <2>4 DEF Between
      <4> QED
        BY <2>1, <4>1, <4>2, CuesAssumption
    <3> QED
      BY <1>1, <1>4, <2>1, <3>1 DEF Fits
  <2>6. ASSUME NEW i \in DOMAIN paragraphs' PROVE Fits(paragraphs[i])'
    <3>1. i \in 1 .. k \/ i = k + 1
      BY <1>3, <2>3
    <3>2. CASE i = k + 1
      BY <1>1, <2>3, <2>5, <3>2 DEF Fits, StartOf, Between
    <3>3. CASE i \in 1 .. k
      <4>1. Fits(paragraphs[i]) /\ paragraphs'[i] = paragraphs[i]
        BY <1>2, <1>3, <2>3, <3>3
      <4> QED
        BY <1>1, <4>1 DEF Fits, StartOf, Between
    <3> QED
      BY <3>1, <3>2, <3>3
  <2>7. ASSUME paragraphs # <<>>
        PROVE  /\ k \in 1 .. k /\ Final(paragraphs) = paragraphs[k]
               /\ paragraphs[k].last = at - 1 /\ Fits(paragraphs[k])
               /\ paragraphs[k].first \in 1 .. n /\ paragraphs[k].first <= at - 1
    <3>1. k \in 1 .. k /\ Final(paragraphs) = paragraphs[k] /\ paragraphs[k] \in Span
      BY <1>2, <1>3, <2>7, Finals
    <3>2. /\ paragraphs[k].last = at - 1 /\ Fits(paragraphs[k])
          /\ paragraphs[k].first \in Nat \ {0}
      BY <1>2, <1>3, <2>7, <3>1 DEF Merging, Span
    <3>3. paragraphs[k].first <= at - 1
      BY <3>2 DEF Fits
    <3> QED
      BY <1>4, <3>1, <3>2, <3>3
  <2>8. Consecutive'
    <3>1. ASSUME NEW i \in 1 .. k + 1
          PROVE  paragraphs'[i].first
                    = (IF i = 1 THEN 1 ELSE paragraphs'[i - 1].last + 1)
      <4>1. CASE i \in 1 .. k
        <5>1. i # 1 => i - 1 \in 1 .. k
          BY <4>1
        <5> QED
          BY <1>2, <1>3, <2>3, <4>1, <5>1 DEF Consecutive
      <4>2. CASE i = k + 1 /\ k = 0
        <5>1. paragraphs = <<>>
          BY <1>2, <1>3, <4>2, EmptySeq
        <5>2. at = 1
          BY <1>2, <5>1 DEF Merging
        <5> QED
          BY <2>1, <2>3, <4>2, <5>2
      <4>3. CASE i = k + 1 /\ k # 0
        <5>1. paragraphs # <<>> /\ i # 1 /\ i - 1 = k /\ k \in 1 .. k
          BY <1>3, <4>3
        <5>2. (at - 1) + 1 = at
          BY <1>4
        <5> QED
          BY <2>1, <2>3, <2>7, <4>3, <5>1, <5>2
      <4> QED
        BY <1>3, <4>1, <4>2, <4>3
    <3>2. ASSUME NEW i \in 1 .. k + 1, NEW j \in 1 .. k + 1, i <= j
          PROVE  paragraphs'[i].first <= paragraphs'[j].first
      <4>1. CASE j \in 1 .. k
        <5>1. i \in 1 .. k
          BY <3>2, <4>1
        <5> QED
          BY <1>2, <1>3, <2>3, <3>2, <4>1, <5>1 DEF Consecutive
      <4>2. CASE i \in 1 .. k /\ j = k + 1
        <5>1. paragraphs # <<>> /\ k \in 1 .. k /\ i <= k
          BY <1>3, <4>2
        <5>2. paragraphs[i].first <= paragraphs[k].first
          BY <1>2, <1>3, <4>2, <5>1 DEF Consecutive
        <5>3. paragraphs[i].first \in Nat
          <6>1. paragraphs[i] \in Span
            BY <1>2, <1>3, <4>2, ElementOfSeq
          <6> QED
            BY <6>1 DEF Span
        <5>4. paragraphs[i].first <= at
          BY <1>4, <2>7, <5>1, <5>2, <5>3
        <5> QED
          BY <2>1, <2>3, <4>2, <5>4
      <4>3. CASE i = k + 1 /\ j = k + 1
        BY <1>4, <2>1, <2>3, <4>3
      <4> QED
        BY <1>3, <3>2, <4>1, <4>2, <4>3
    <3> QED
      BY <2>3, <3>1, <3>2 DEF Consecutive
  <2>9. chapters' \subseteq all
    BY <1>2, <2>2 DEF PassChapter
  <2>10. ASSUME NEW c \in all' \ chapters' PROVE c <= fragments[at].start
    <3>1. c \notin chapters \/ c <= fragments[at].start
      BY <1>1, <1>2, <2>2, <2>4, PassedNext
    <3>2. CASE c \notin chapters
      <4>1. Passed(c) /\ c \in Nat
        BY <1>1, <1>2, <3>2 DEF Merging
      <4>2. CASE paragraphs = <<>>
        BY <1>2, <4>1, <4>2 DEF Passed, Merging
      <4>3. CASE paragraphs # <<>>
        <5>1. c <= fragments[paragraphs[k].first].start
          BY <2>7, <4>1, <4>3 DEF Passed, StartOf
        <5>2. fragments[paragraphs[k].first].start <= fragments[at].start
          <6>1. paragraphs[k].first <= at
            BY <1>4, <2>7, <4>3
          <6> QED
            BY <1>3, <1>4, <2>7, <4>3, <6>1 DEF FragmentsInv
        <5>3. fragments[paragraphs[k].first].start \in Nat
          BY <1>5, <2>7, <4>3
        <5> QED
          BY <2>4, <4>1, <5>1, <5>2, <5>3
      <4> QED
        BY <4>2, <4>3
    <3> QED
      BY <3>1, <3>2
  <2>11. Merging'
    <3>1. \A c \in all' \ chapters' : Passed(c)'
      BY <1>6, <2>1, <2>3, <2>10 DEF Passed
    <3>2. at' = at + 1 /\ at' - 1 = at
      BY <1>1, <1>4
    <3> QED
      BY <1>1, <1>3, <1>4, <2>1, <2>3, <3>1, <3>2 DEF Merging
  <2> QED
    BY <1>1, <1>2, <2>3, <2>6, <2>8, <2>9, <2>11 DEF ParagraphsInv
<1> QED
  BY <1>8, <1>9

LEMMA ParagraphsInit == CuesInit => ParagraphsInv
<1> SUFFICES ASSUME CuesInit PROVE ParagraphsInv
  OBVIOUS
<1>1. all \subseteq Nat /\ chapters \subseteq all /\ stage = "dedupe" /\ paragraphs = <<>>
  BY CuesAssumption DEF CuesInit
<1>2. paragraphs \in Seq(Span) /\ DOMAIN paragraphs = {}
  BY <1>1
<1> QED
  BY <1>1, <1>2 DEF ParagraphsInv, Consecutive

LEMMA MergeEnds ==
    ASSUME fragments \in Seq(Fragment), ParagraphsInv, FragmentsEnd
    PROVE  Merged
<1>1. Merging /\ at > Len(fragments) /\ Len(fragments) \in Nat \ {0}
  BY Finals DEF FragmentsEnd, ParagraphsInv
<1>2. at = Len(fragments) + 1 /\ at - 1 = Len(fragments) /\ at # 1
  BY <1>1 DEF Merging
<1> QED
  BY <1>1, <1>2 DEF Merging, Merged

LEMMA ParagraphsStep ==
    ASSUME DedupeInv, ParagraphsInv, [CuesNext]_cuesVars
    PROVE  ParagraphsInv'
<1>0. fragments \in Seq(Fragment) /\ FragmentsInv
  BY DEF DedupeInv
<1>1. ASSUME NEW words \in CueWords, NEW start \in Starts, ReadCue(words, start)
      PROVE  ParagraphsInv'
  <2>1. /\ stage = "dedupe" /\ paragraphs = <<>>
        /\ UNCHANGED <<stage, all, chapters, paragraphs>>
    BY <1>1 DEF ReadCue, ParagraphsInv
  <2>2. DOMAIN paragraphs' = {}
    BY <2>1
  <2> QED
    BY <2>1, <2>2 DEF ParagraphsInv, Consecutive
<1>2. CASE CuesEnd
  <2>1. /\ stage = "dedupe" /\ paragraphs = <<>> /\ fragments # <<>> /\ at' = 1
        /\ stage' = "merge" /\ chapters' = {c \in all : c > fragments[1].start}
        /\ UNCHANGED <<all, paragraphs, fragments>>
    BY <1>2 DEF CuesEnd, ParagraphsInv
  <2>2. DOMAIN paragraphs' = {} /\ all \subseteq Nat
    BY <2>1 DEF ParagraphsInv
  <2>3. Len(fragments) \in Nat \ {0} /\ fragments[1].start \in Nat
    <3>1. Len(fragments) \in Nat \ {0}
      BY <1>0, <2>1, Finals
    <3>2. fragments[1] \in Fragment
      BY <1>0, <3>1, ElementOfSeq
    <3> QED
      BY <3>1, <3>2 DEF Fragment
  <2>4. \A c \in all' \ chapters' : Passed(c)'
    BY <2>1, <2>2, <2>3 DEF Passed
  <2>5. Merging'
    BY <2>1, <2>3, <2>4 DEF Merging
  <2> QED
    BY <2>1, <2>2, <2>5 DEF ParagraphsInv, Consecutive
<1>3. CASE MergeFragment
  BY <1>0, <1>3, MergeStep
<1>4. CASE UNCHANGED <<all, paragraphs, fragments>>
           /\ stage \in {"merge", "chunk"} /\ stage' \in {"chunk", "done"}
           /\ Merged
  <2>1. Merged' /\ Consecutive' /\ \A i \in DOMAIN paragraphs' : Fits(paragraphs[i])'
    BY <1>4 DEF ParagraphsInv, Merged, Consecutive, Fits, StartOf, Between
  <2> QED
    BY <1>4, <2>1 DEF ParagraphsInv
<1>5. CASE FragmentsEnd
  BY <1>0, <1>4, <1>5, MergeEnds DEF FragmentsEnd
<1>6. CASE ChunkParagraph \/ ParagraphsEnd
  <2>1. /\ stage = "chunk" /\ stage' \in {"chunk", "done"}
        /\ UNCHANGED <<all, paragraphs, fragments>>
    BY <1>6 DEF ChunkParagraph, ParagraphsEnd
  <2>2. Merged
    BY <2>1 DEF ParagraphsInv
  <2> QED
    BY <1>4, <2>1, <2>2
<1>7. CASE UNCHANGED cuesVars
  BY <1>7 DEF cuesVars, ParagraphsInv, Merging, Merged, Passed, Consecutive, Fits,
              StartOf, Between
<1> QED
  BY <1>1, <1>2, <1>3, <1>5, <1>6, <1>7 DEF CuesNext

(* No paragraph reaches from one chapter into the next, or over the cap,    *)
(* and together they are the fragments, each once: for any cues, chapters,  *)
(* target and cap, though the index of the next chapter moves on by one at  *)
(* a time and only where a paragraph begins (normalize.py:164-214).         *)
THEOREM ParagraphsKept == CuesSpec => []ParagraphsFit
<1>1. CuesInit => DedupeInv /\ ParagraphsInv
  BY DedupeInit, ParagraphsInit
<1>2. (DedupeInv /\ ParagraphsInv) /\ [CuesNext]_cuesVars => (DedupeInv /\ ParagraphsInv)'
  BY DedupeStep, ParagraphsStep
<1>3. ParagraphsInv => ParagraphsFit
  BY DEF ParagraphsInv, ParagraphsFit, Consecutive, Fits, Merged, StartOf, FirstFragment
<1> QED
  BY <1>1, <1>2, <1>3, PTL DEF CuesSpec

-----------------------------------------------------------------------------
(* The chunks.                                                              *)

(* int() keeps the order of times that are not negative.                    *)
LEMMA WholeOrder ==
    ASSUME NEW t \in Nat
    PROVE  /\ Whole(t) \in Nat
           /\ \A u \in Nat : t <= u => Whole(t) <= Whole(u)
<1>1. Whole(t) \in Nat
  BY CuesAssumption DEF Whole
<1>2. ASSUME NEW u \in Nat, t <= u PROVE Whole(t) <= Whole(u)
  <2> DEFINE q == t \div Second
             r == u \div Second
  <2>1. q \in Int /\ r \in Int /\ Second * q <= t /\ u < Second * (r + 1)
    BY CuesAssumption
  <2>2. Second * q < Second * (r + 1)
    BY <1>2, <2>1, CuesAssumption
  <2>3. q < r + 1
    BY <2>1, <2>2, CuesAssumption
  <2> QED
    BY <2>1, <2>3 DEF Whole
<1> QED
  BY <1>1, <1>2

LEMMA WholeStartsAreNat ==
    ASSUME all \subseteq Nat
    PROVE  WholeStarts \in SUBSET Nat
<1>1. ASSUME NEW c \in all PROVE Whole(c) \in Nat
  BY WholeOrder
<1> QED
  BY <1>1 DEF WholeStarts

(* The second in which the paragraph begins.                                *)
When(i) == SecondOf(paragraphs[i])

PassedChunk(c) == IF chunks = <<>> THEN c <= When(1)
                                   ELSE c <= When(Final(chunks).first)

Holds(chunk) ==
    /\ chunk.first <= chunk.last
    /\ chunk.last <= Len(paragraphs)
    /\ ~Between(WholeStarts, When(chunk.first), When(chunk.last))
    /\ Size(chunk.first, chunk.last) > ChunkTarget => chunk.last <= chunk.first + 1

Chained ==
    \A i \in DOMAIN chunks :
        IF i = 1 THEN chunks[i].first = 1
        ELSE /\ chunks[i].first \in {chunks[i - 1].last, chunks[i - 1].last + 1}
             /\ chunks[i].last > chunks[i - 1].last

Chunking ==
    /\ at \in 1 .. Len(paragraphs) + 1
    /\ chunks = <<>> => at = 1
    /\ chunks # <<>> => Final(chunks).last = at - 1
    /\ \A c \in WholeStarts \ chapters : PassedChunk(c)

ChunksInv ==
    /\ chunks \in Seq(Span)
    /\ stage \in {"chunk", "done"} => chapters \subseteq WholeStarts
    /\ stage \in {"dedupe", "merge"} => chunks = <<>>
    /\ stage = "chunk" => Chunking
    /\ stage = "done" => chunks # <<>> /\ Final(chunks).last = Len(paragraphs)
    /\ \A i \in DOMAIN chunks : Holds(chunks[i])
    /\ Chained

(* What is known of the paragraphs once they are complete.                  *)
Complete ==
    /\ Len(paragraphs) \in Nat \ {0} /\ DOMAIN paragraphs = 1 .. Len(paragraphs)
    /\ \A i \in 1 .. Len(paragraphs) :
          /\ When(i) \in Nat /\ StartOf(paragraphs[i]) \in Nat
          /\ fragments[paragraphs[i].first].from \in Nat
          /\ fragments[paragraphs[i].last].upto \in Nat
    /\ \A i, j \in 1 .. Len(paragraphs) : i <= j => When(i) <= When(j)
    /\ \A i \in 1 .. Len(paragraphs) : i > 1 =>
          fragments[paragraphs[i].first].from = fragments[paragraphs[i - 1].last].upto + 1
    /\ paragraphs[1].first = 1

LEMMA ParagraphsComplete ==
    ASSUME DedupeInv, ParagraphsInv, Merged
    PROVE  Complete
<1>1. /\ fragments \in Seq(Fragment) /\ FragmentsInv /\ paragraphs \in Seq(Span)
      /\ paragraphs # <<>> /\ Consecutive /\ \A i \in DOMAIN paragraphs : Fits(paragraphs[i])
  BY DEF DedupeInv, ParagraphsInv, Merged
<1>2. PICK k \in Nat \ {0}, n \in Nat :
          k = Len(paragraphs) /\ DOMAIN paragraphs = 1 .. k
          /\ n = Len(fragments) /\ DOMAIN fragments = 1 .. n
  BY <1>1, Finals, LenProperties
<1>3. ASSUME NEW i \in 1 .. k
      PROVE  paragraphs[i].first \in 1 .. n /\ paragraphs[i].last \in 1 .. n
  <2>1. paragraphs[i] \in Span
    BY <1>1, <1>2, ElementOfSeq
  <2>2. paragraphs[i].first \in Nat \ {0} /\ paragraphs[i].last \in Nat \ {0}
    BY <2>1 DEF Span
  <2>3. paragraphs[i].first <= paragraphs[i].last /\ paragraphs[i].last <= n
    BY <1>1, <1>2 DEF Fits
  <2> QED
    BY <2>2, <2>3
<1>4. ASSUME NEW f \in 1 .. n
      PROVE  /\ fragments[f].start \in Nat /\ fragments[f].from \in Nat
             /\ fragments[f].upto \in Nat
  <2>1. fragments[f] \in Fragment
    BY <1>1, <1>2, ElementOfSeq
  <2> QED
    BY <2>1 DEF Fragment
<1>5. ASSUME NEW i \in 1 .. k
      PROVE  /\ When(i) \in Nat /\ StartOf(paragraphs[i]) \in Nat
             /\ fragments[paragraphs[i].first].from \in Nat
             /\ fragments[paragraphs[i].last].upto \in Nat
  BY <1>3, <1>4, WholeOrder DEF When, SecondOf, FirstFragment, StartOf
<1>6. ASSUME NEW i \in 1 .. k, NEW j \in 1 .. k, i <= j
      PROVE  When(i) <= When(j)
  <2>1. paragraphs[i].first <= paragraphs[j].first
    BY <1>1, <1>2, <1>6 DEF Consecutive
  <2>2. StartOf(paragraphs[i]) <= StartOf(paragraphs[j])
    BY <1>1, <1>2, <1>3, <2>1 DEF FragmentsInv, StartOf
  <2>3. StartOf(paragraphs[i]) \in Nat /\ StartOf(paragraphs[j]) \in Nat
    BY <1>3, <1>4 DEF StartOf
  <2> QED
    BY <2>2, <2>3, WholeOrder DEF When, SecondOf, FirstFragment, StartOf
<1>7. ASSUME NEW i \in 1 .. k, i > 1
      PROVE  fragments[paragraphs[i].first].from
                = fragments[paragraphs[i - 1].last].upto + 1
  <2>1. i - 1 \in 1 .. k /\ i # 1
    BY <1>7
  <2>2. paragraphs[i].first = paragraphs[i - 1].last + 1
    BY <1>1, <1>2, <2>1 DEF Consecutive
  <2>3. /\ paragraphs[i].first \in 1 .. n /\ paragraphs[i].first > 1
        /\ paragraphs[i].first - 1 = paragraphs[i - 1].last
    BY <1>3, <2>1, <2>2
  <2> QED
    BY <1>1, <1>2, <2>3 DEF FragmentsInv
<1>8. paragraphs[1].first = 1
  BY <1>1, <1>2 DEF Consecutive
<1> QED
  BY <1>2, <1>5, <1>6, <1>7, <1>8 DEF Complete

LEMMA Telescopes ==
    ASSUME NEW u \in Nat, NEW v \in Nat, NEW w \in Nat
    PROVE  w - u + 1 = (v - u + 1) + (w - (v + 1) + 1)
OBVIOUS

(* Sizes add up.                                                            *)
LEMMA SizesAdd ==
    ASSUME Complete, NEW a \in 1 .. Len(paragraphs), NEW b \in 1 .. Len(paragraphs),
           b + 1 <= Len(paragraphs)
    PROVE  Size(a, b + 1) = Size(a, b) + Size(b + 1, b + 1)
<1>1. PICK k \in Nat \ {0} : k = Len(paragraphs)
  BY DEF Complete
<1>2. b + 1 \in 1 .. k /\ b + 1 > 1 /\ (b + 1) - 1 = b
  BY <1>1
<1>3. fragments[paragraphs[b + 1].first].from = fragments[paragraphs[b].last].upto + 1
  BY <1>1, <1>2 DEF Complete
<1>4. PICK u \in Nat, v \in Nat, w \in Nat :
        /\ u = fragments[paragraphs[a].first].from
        /\ v = fragments[paragraphs[b].last].upto
        /\ w = fragments[paragraphs[b + 1].last].upto
  BY <1>1, <1>2 DEF Complete
<1>5. /\ Size(a, b + 1) = w - u + 1
      /\ Size(a, b) = v - u + 1
      /\ Size(b + 1, b + 1) = w - (v + 1) + 1
  <2>1. Size(a, b + 1) = w - u + 1
    BY <1>4, Zenon DEF Size
  <2>2. Size(a, b) = v - u + 1
    BY <1>4, Zenon DEF Size
  <2>3. Size(b + 1, b + 1) = w - (v + 1) + 1
    BY <1>3, <1>4, Zenon DEF Size
  <2> QED
    BY <2>1, <2>2, <2>3
<1>6. u \in Nat /\ v \in Nat /\ w \in Nat
  BY <1>4
<1>7. w - u + 1 = (v - u + 1) + (w - (v + 1) + 1)
  BY <1>6, Telescopes
<1> QED
  BY <1>5, <1>7, Zenon

LEMMA SizeIsNumber ==
    ASSUME Complete, NEW a \in 1 .. Len(paragraphs), NEW b \in 1 .. Len(paragraphs)
    PROVE  Size(a, b) \in Int
<1>1. /\ fragments[paragraphs[a].first].from \in Nat
      /\ fragments[paragraphs[b].last].upto \in Nat
  BY DEF Complete
<1> QED
  BY <1>1 DEF Size

LEMMA ChunkStep ==
    ASSUME DedupeInv, ParagraphsInv, ChunksInv, ChunkParagraph
    PROVE  ChunksInv'
<1>1. /\ stage = "chunk" /\ at <= Len(paragraphs) /\ at' = at + 1 /\ stage' = stage
      /\ UNCHANGED <<all, fragments, paragraphs>>
  BY DEF ChunkParagraph
<1>2. /\ WholeStarts \in SUBSET Nat /\ chapters \subseteq WholeStarts /\ chunks \in Seq(Span)
      /\ Chunking /\ Chained /\ \A i \in DOMAIN chunks : Holds(chunks[i])
  BY <1>1, WholeStartsAreNat DEF ParagraphsInv, ChunksInv
<1>3. Complete
  BY <1>1, ParagraphsComplete DEF ParagraphsInv
<1>4. PICK n \in Nat \ {0}, k \in Nat :
          n = Len(paragraphs) /\ k = Len(chunks) /\ DOMAIN chunks = 1 .. k
  BY <1>2, <1>3, LenProperties DEF Complete
<1>5. at \in 1 .. n /\ at \in Nat \ {0} /\ at + 1 \in 1 .. n + 1
  BY <1>1, <1>2, <1>4 DEF Chunking
<1>6. /\ \A i \in 1 .. n : When(i) \in Nat
      /\ \A i, j \in 1 .. n : i <= j => When(i) <= When(j)
  BY <1>3, <1>4 DEF Complete
<1>7. When(at) \in Nat /\ SecondOf(paragraphs[at]) = When(at)
  BY <1>5, <1>6 DEF When
<1>8. ASSUME chunks # <<>>
      PROVE  /\ k \in 1 .. k /\ k \in Nat \ {0} /\ Final(chunks) = chunks[k]
             /\ chunks[k].last = at - 1 /\ at - 1 \in 1 .. n /\ at - 1 \in Nat \ {0}
             /\ chunks[k].first \in 1 .. n /\ chunks[k].first <= at - 1
             /\ Holds(chunks[k]) /\ When(chunks[k].first) \in Nat
             /\ \A c \in WholeStarts \ chapters : c <= When(chunks[k].first)
  <2>1. /\ k \in 1 .. k /\ k \in Nat \ {0} /\ Final(chunks) = chunks[k]
        /\ chunks[k] \in Span
    BY <1>2, <1>4, <1>8, Finals
  <2>2. /\ chunks[k].last = at - 1 /\ Holds(chunks[k])
        /\ chunks[k].first \in Nat \ {0} /\ chunks[k].last \in Nat \ {0}
    BY <1>2, <1>4, <1>8, <2>1 DEF Chunking, Span
  <2>3. chunks[k].first <= at - 1
    BY <2>2 DEF Holds
  <2>4. at - 1 \in 1 .. n /\ chunks[k].first \in 1 .. n /\ at - 1 \in Nat \ {0}
    BY <1>5, <2>2, <2>3
  <2>5. \A c \in WholeStarts \ chapters : c <= When(chunks[k].first)
    BY <1>2, <1>8, <2>1 DEF Chunking, PassedChunk
  <2> QED
    BY <1>6, <2>1, <2>2, <2>3, <2>4, <2>5
<1>9. (\A i : When(i)' = When(i)) /\ WholeStarts' = WholeStarts
  BY <1>1 DEF When, SecondOf, FirstFragment, WholeStarts
<1>10. \A a, b : Size(a, b)' = Size(a, b)
  BY <1>1 DEF Size
<1>11. chapters' \subseteq WholeStarts'
  BY <1>2, <1>9 DEF ChunkParagraph, PassChapter
<1> DEFINE over == chunks # <<>> /\ OverBudget(Final(chunks), at)
<1>12. CASE chunks # <<>> /\ ~AtChapter(When(at)) /\ ~over
  <2> DEFINE e == [first |-> chunks[k].first, last |-> at]
             s == [chunks EXCEPT ![Len(chunks)].last = at]
  <2>1. chunks' = s /\ chapters' = chapters
    BY <1>7, <1>12 DEF ChunkParagraph
  <2>2. /\ s \in Seq(Span) /\ s # <<>> /\ DOMAIN s = DOMAIN chunks
        /\ Final(s) = [first |-> Final(chunks).first, last |-> at]
        /\ \A i \in DOMAIN chunks : i # Len(chunks) => s[i] = chunks[i]
        /\ s[Len(chunks)] = [first |-> Final(chunks).first, last |-> at]
    BY <1>2, <1>5, <1>12, FinalGrown
  <2>3. e.first = chunks[k].first /\ e.last = at
    OBVIOUS
  <2>4. [first |-> Final(chunks).first, last |-> at] = e
    BY <1>8, <1>12
  <2> HIDE DEF s, e
  <2>5. /\ chunks' \in Seq(Span) /\ chunks' # <<>> /\ DOMAIN chunks' = 1 .. k
        /\ Final(chunks') = e /\ chunks'[k] = e
        /\ \A i \in 1 .. k : i # k => chunks'[i] = chunks[i]
    BY <1>4, <2>1, <2>2, <2>4
  <2>6. Size(chunks[k].first, at) <= ChunkTarget
    <3>1. ~(Size(chunks[k].first, at - 1) + Size(at, at) > ChunkTarget)
      BY <1>8, <1>12 DEF OverBudget
    <3>2. /\ chunks[k].first \in 1 .. Len(paragraphs) /\ at - 1 \in 1 .. Len(paragraphs)
          /\ (at - 1) + 1 = at /\ at \in 1 .. Len(paragraphs)
      BY <1>4, <1>5, <1>8, <1>12
    <3>3. Size(chunks[k].first, at) = Size(chunks[k].first, at - 1) + Size(at, at)
      <4>1. Size(chunks[k].first, (at - 1) + 1)
                = Size(chunks[k].first, at - 1) + Size((at - 1) + 1, (at - 1) + 1)
        BY <1>1, <1>3, <3>2, SizesAdd
      <4> QED
        BY <3>2, <4>1
    <3>4. Size(chunks[k].first, at) \in Int
      BY <1>3, <3>2, SizeIsNumber
    <3> QED
      BY <3>1, <3>3, <3>4, CuesAssumption
  <2>7. ~Between(WholeStarts, When(chunks[k].first), When(at))
    BY <1>2, <1>7, <1>8, <1>12, NothingBetween
  <2>8. Holds(e)
    <3>1. e.first <= e.last /\ e.last <= Len(paragraphs)
      BY <1>1, <1>5, <1>8, <1>12, <2>3
    <3>2. ~(Size(e.first, e.last) > ChunkTarget)
      <4>1. Size(chunks[k].first, at) \in Int
        BY <1>3, <1>4, <1>5, <1>8, <1>12, SizeIsNumber
      <4> QED
        BY <2>3, <2>6, <4>1, CuesAssumption
    <3> QED
      BY <2>3, <2>7, <3>1, <3>2 DEF Holds
  <2>9. ASSUME NEW i \in DOMAIN chunks' PROVE Holds(chunks[i])'
    <3>1. CASE i = k
      BY <1>1, <2>5, <2>8, <3>1 DEF Holds, When, SecondOf, FirstFragment, Size, Between, WholeStarts
    <3>2. CASE i # k
      <4>1. Holds(chunks[i]) /\ chunks'[i] = chunks[i]
        BY <1>2, <1>4, <2>5, <3>2
      <4> QED
        BY <1>1, <4>1 DEF Holds, When, SecondOf, FirstFragment, Size, Between, WholeStarts
    <3> QED
      BY <3>1, <3>2
  <2>10. Chained'
    <3>1. ASSUME NEW i \in 1 .. k
          PROVE  IF i = 1 THEN chunks'[i].first = 1
                 ELSE /\ chunks'[i].first \in {chunks'[i - 1].last, chunks'[i - 1].last + 1}
                      /\ chunks'[i].last > chunks'[i - 1].last
      <4>1. chunks'[i].first = chunks[i].first
        BY <2>3, <2>5
      <4>2. i # 1 => i - 1 \in 1 .. k /\ i - 1 # k
        OBVIOUS
      <4>3. CASE i = 1
        BY <1>2, <1>4, <4>1, <4>3 DEF Chained
      <4>4. CASE i # 1
        <5>1. /\ chunks[i].first \in {chunks[i - 1].last, chunks[i - 1].last + 1}
              /\ chunks[i].last > chunks[i - 1].last
              /\ chunks'[i - 1] = chunks[i - 1]
          BY <1>2, <1>4, <2>5, <4>2, <4>4 DEF Chained
        <5>2. chunks'[i].last > chunks[i - 1].last
          <6>1. CASE i = k
            <7>1. chunks[i - 1].last \in Nat
              <8>1. chunks[i - 1] \in Span
                BY <1>2, <1>4, <4>2, <4>4, ElementOfSeq
              <8> QED
                BY <8>1 DEF Span
            <7>2. at > chunks[i - 1].last
              BY <1>5, <1>8, <1>12, <5>1, <6>1, <7>1
            <7> QED
              BY <2>3, <2>5, <6>1, <7>2
          <6>2. CASE i # k
            BY <2>5, <5>1, <6>2
          <6> QED
            BY <6>1, <6>2
        <5> QED
          BY <4>1, <4>4, <5>1, <5>2
      <4> QED
        BY <4>3, <4>4
    <3> QED
      BY <2>5, <3>1 DEF Chained
  <2>11. Chunking'
    <3>1. \A c \in WholeStarts' \ chapters' : PassedChunk(c)'
      BY <1>1, <1>8, <1>9, <1>12, <2>1, <2>3, <2>5 DEF PassedChunk
    <3>2. at' = at + 1 /\ at' - 1 = at
      BY <1>1, <1>5
    <3> QED
      BY <1>1, <1>4, <1>5, <2>3, <2>5, <3>1, <3>2 DEF Chunking
  <2> QED
    BY <1>1, <1>11, <2>5, <2>9, <2>10, <2>11 DEF ChunksInv
<1>13. CASE ~(chunks # <<>> /\ ~AtChapter(When(at)) /\ ~over)
  <2> DEFINE e == [first |-> IF over /\ ~AtChapter(When(at)) THEN at - 1 ELSE at,
                   last |-> at]
  <2>1. chunks' = Append(chunks, e) /\ PassChapter(When(at))
    BY <1>7, <1>13 DEF ChunkParagraph
  <2>2. e.last = at
    OBVIOUS
  <2>3. \/ e.first = at
        \/ e.first = at - 1 /\ chunks # <<>> /\ ~AtChapter(When(at))
    OBVIOUS
  <2> HIDE DEF over
  <2>4. e = [first |-> e.first, last |-> at]
    OBVIOUS
  <2> HIDE DEF e
  <2>5. e.first \in Nat \ {0} /\ e.first \in 1 .. n /\ e.first <= at /\ at <= e.first + 1
    BY <1>5, <1>8, <2>3
  <2>6. e \in Span
    BY <1>5, <2>4, <2>5 DEF Span
  <2>7. /\ chunks' \in Seq(Span) /\ chunks' # <<>> /\ DOMAIN chunks' = 1 .. k + 1
        /\ Final(chunks') = e /\ chunks'[k + 1] = e
        /\ \A i \in 1 .. k : chunks'[i] = chunks[i]
    BY <1>2, <1>4, <2>1, <2>6, Grown
  <2>8. ASSUME NEW c \in WholeStarts \ chapters PROVE c <= When(e.first)
    <3>1. c \in Nat
      BY <1>2
    <3>2. CASE chunks = <<>>
      <4>1. at = 1 /\ e.first = 1 /\ c <= When(1)
        BY <1>2, <2>3, <3>2 DEF Chunking, PassedChunk
      <4> QED
        BY <4>1
    <3>3. CASE chunks # <<>>
      <4>1. c <= When(chunks[k].first) /\ When(chunks[k].first) \in Nat
        BY <1>8, <3>3
      <4>2. chunks[k].first <= e.first /\ chunks[k].first \in 1 .. n
        BY <1>5, <1>8, <2>3, <3>3
      <4>3. When(chunks[k].first) <= When(e.first) /\ When(e.first) \in Nat
        BY <1>6, <2>5, <4>2
      <4>4. PICK x \in Nat, y \in Nat :
                x = When(chunks[k].first) /\ y = When(e.first)
        BY <4>1, <4>3
      <4>5. c <= x /\ x <= y
        BY <4>1, <4>3, <4>4, Zenon
      <4>6. c <= y
        BY <3>1, <4>4, <4>5
      <4> QED
        BY <4>4, <4>6, Zenon
    <3> QED
      BY <3>2, <3>3
  <2>9. ~Between(WholeStarts, When(e.first), When(at))
    <3>1. CASE e.first = at
      BY <1>2, <1>7, <3>1, NothingWithin
    <3>2. CASE ~AtChapter(When(at))
      <4>1. When(e.first) \in Nat
        BY <1>6, <2>5
      <4> QED
        BY <1>2, <1>7, <2>8, <3>2, <4>1, NothingBetween
    <3> QED
      BY <2>3, <3>1, <3>2
  <2>10. Holds(e)
    <3>1. e.first <= e.last /\ e.last <= Len(paragraphs) /\ e.last <= e.first + 1
      BY <1>1, <2>2, <2>5
    <3> QED
      BY <2>2, <2>9, <3>1 DEF Holds
  <2>11. ASSUME NEW i \in DOMAIN chunks' PROVE Holds(chunks[i])'
    <3>1. i \in 1 .. k \/ i = k + 1
      BY <1>4, <2>7
    <3>2. CASE i = k + 1
      BY <1>1, <2>7, <2>10, <3>2 DEF Holds, When, SecondOf, FirstFragment, Size, Between, WholeStarts
    <3>3. CASE i \in 1 .. k
      <4>1. Holds(chunks[i]) /\ chunks'[i] = chunks[i]
        BY <1>2, <1>4, <2>7, <3>3
      <4> QED
        BY <1>1, <4>1 DEF Holds, When, SecondOf, FirstFragment, Size, Between, WholeStarts
    <3> QED
      BY <3>1, <3>2, <3>3
  <2>12. Chained'
    <3>1. ASSUME NEW i \in 1 .. k + 1
          PROVE  IF i = 1 THEN chunks'[i].first = 1
                 ELSE /\ chunks'[i].first \in {chunks'[i - 1].last, chunks'[i - 1].last + 1}
                      /\ chunks'[i].last > chunks'[i - 1].last
      <4>1. CASE i \in 1 .. k
        <5>1. i # 1 => i - 1 \in 1 .. k
          BY <4>1
        <5> QED
          BY <1>2, <1>4, <2>7, <4>1, <5>1 DEF Chained
      <4>2. CASE i = k + 1 /\ k = 0
        <5>1. chunks = <<>>
          BY <1>2, <1>4, <4>2, EmptySeq
        <5>2. at = 1
          BY <1>2, <5>1 DEF Chunking
        <5> QED
          BY <2>3, <2>7, <4>2, <5>1, <5>2
      <4>3. CASE i = k + 1 /\ k # 0
        <5>1. chunks # <<>>
          BY <1>4, <4>3
        <5>2. i # 1 /\ i - 1 = k /\ k \in 1 .. k
          BY <1>4, <4>3
        <5>3. chunks'[i - 1].last = at - 1
          BY <1>8, <2>7, <5>1, <5>2
        <5>4. at = (at - 1) + 1 /\ at > at - 1
          BY <1>5
        <5>5. e.first \in {at - 1, (at - 1) + 1}
          BY <2>3, <5>4
        <5>6. chunks'[i] = e
          BY <2>7, <4>3
        <5> QED
          BY <2>2, <5>2, <5>3, <5>4, <5>5, <5>6
      <4> QED
        BY <1>4, <4>1, <4>2, <4>3
    <3> QED
      BY <2>7, <3>1 DEF Chained
  <2>13. Chunking'
    <3>1. ASSUME NEW c \in WholeStarts' \ chapters' PROVE PassedChunk(c)'
      <4>1. c \notin chapters \/ c <= When(at)
        BY <1>2, <1>7, <1>9, <2>1, PassedNext
      <4>2. c <= When(e.first)
        <5>1. CASE c \notin chapters
          BY <1>9, <2>8, <5>1
        <5>2. CASE c \in chapters /\ e.first = at
          BY <4>1, <5>2
        <5>3. CASE c \in chapters /\ ~AtChapter(When(at))
          BY <2>1, <3>1, <5>3 DEF PassChapter
        <5> QED
          BY <2>3, <5>1, <5>2, <5>3
      <4> QED
        BY <1>9, <2>7, <4>2 DEF PassedChunk
    <3>2. at' = at + 1 /\ at' - 1 = at
      BY <1>1, <1>5
    <3> QED
      BY <1>1, <1>4, <1>5, <2>2, <2>7, <3>1, <3>2 DEF Chunking
  <2> QED
    BY <1>1, <1>11, <2>7, <2>11, <2>12, <2>13 DEF ChunksInv
<1> QED
  BY <1>12, <1>13

LEMMA ChunksInit == CuesInit => ChunksInv
<1> SUFFICES ASSUME CuesInit PROVE ChunksInv
  OBVIOUS
<1>1. stage = "dedupe" /\ chunks = <<>>
  BY DEF CuesInit
<1>2. chunks \in Seq(Span) /\ DOMAIN chunks = {}
  BY <1>1
<1> QED
  BY <1>1, <1>2 DEF ChunksInv, Chained

LEMMA ChunksStep ==
    ASSUME DedupeInv, ParagraphsInv, ChunksInv, [CuesNext]_cuesVars
    PROVE  ChunksInv'
<1>1. CASE UNCHANGED chunks /\ chunks = <<>> /\ stage' \in {"dedupe", "merge"}
  <2>1. DOMAIN chunks' = {}
    BY <1>1
  <2> QED
    BY <1>1, <2>1 DEF ChunksInv, Chained
<1>2. ASSUME NEW words \in CueWords, NEW start \in Starts, ReadCue(words, start)
      PROVE  ChunksInv'
  BY <1>1, <1>2 DEF ReadCue, ChunksInv
<1>3. CASE CuesEnd \/ MergeFragment
  BY <1>1, <1>3 DEF CuesEnd, MergeFragment, ChunksInv
<1>4. CASE FragmentsEnd
  <2>1. /\ stage = "merge" /\ chunks = <<>> /\ stage' = "chunk" /\ at' = 1
        /\ chapters' = {c \in WholeStarts : c > When(1)}
        /\ UNCHANGED <<all, fragments, paragraphs, chunks>>
    BY <1>4 DEF FragmentsEnd, ChunksInv, When
  <2>2. WholeStarts \in SUBSET Nat /\ WholeStarts' = WholeStarts
    BY <2>1, WholeStartsAreNat DEF ParagraphsInv, WholeStarts
  <2>3. When(1) \in Nat /\ When(1)' = When(1)
    <3>1. Complete
      BY <1>4, MergeEnds, ParagraphsComplete DEF DedupeInv
    <3> QED
      BY <2>1, <3>1 DEF Complete, When, SecondOf, FirstFragment
  <2>4. \A c \in WholeStarts' \ chapters' : PassedChunk(c)'
    BY <2>1, <2>2, <2>3 DEF PassedChunk
  <2>5. Len(paragraphs) \in Nat
    BY LenProperties DEF ParagraphsInv
  <2>6. Chunking'
    BY <2>1, <2>4, <2>5 DEF Chunking
  <2>7. DOMAIN chunks' = {} /\ chunks' \in Seq(Span)
    BY <2>1
  <2> QED
    BY <2>1, <2>2, <2>6, <2>7 DEF ChunksInv, Chained
<1>5. CASE ChunkParagraph
  BY <1>5, ChunkStep
<1>6. CASE ParagraphsEnd
  <2>1. /\ stage = "chunk" /\ stage' = "done" /\ at > Len(paragraphs)
        /\ UNCHANGED <<all, fragments, paragraphs, chunks>>
    BY <1>6 DEF ParagraphsEnd
  <2>2. Chunking /\ Len(paragraphs) \in Nat \ {0}
    BY <2>1, ParagraphsComplete DEF ChunksInv, ParagraphsInv, Complete
  <2>3. at - 1 = Len(paragraphs) /\ at # 1
    BY <2>1, <2>2 DEF Chunking
  <2>4. chunks # <<>> /\ Final(chunks).last = Len(paragraphs)
    BY <2>2, <2>3 DEF Chunking
  <2>5. Chained' /\ \A i \in DOMAIN chunks' : Holds(chunks[i])'
    BY <2>1 DEF ChunksInv, Chained, Holds, When, SecondOf, FirstFragment, Size, Between,
           WholeStarts
  <2>6. chapters' \subseteq WholeStarts'
    BY <1>6, <2>1 DEF ParagraphsEnd, ChunksInv, WholeStarts
  <2> QED
    BY <2>1, <2>4, <2>5, <2>6 DEF ChunksInv
<1>7. CASE UNCHANGED cuesVars
  BY <1>7 DEF cuesVars, ChunksInv, Chunking, PassedChunk, Chained, Holds, When,
              SecondOf, FirstFragment, Size, Between, WholeStarts
<1> QED
  BY <1>2, <1>3, <1>4, <1>5, <1>6, <1>7 DEF CuesNext

(* No chunk has paragraphs of two chapters, the seconds of both told whole; *)
(* only two paragraphs that do not fit together make a chunk larger than    *)
(* the target; every paragraph is in a chunk, in two only where a chapter   *)
(* had to be split, and never in three: for any paragraphs, chapters and    *)
(* target, in any fraction of a second (summarize.py:45-106).               *)
THEOREM ChunksKept == CuesSpec => []ChunksFit
<1> DEFINE IInv == DedupeInv /\ ParagraphsInv /\ ChunksInv
<1>1. CuesInit => IInv
  BY DedupeInit, ParagraphsInit, ChunksInit
<1>2. IInv /\ [CuesNext]_cuesVars => IInv'
  BY DedupeStep, ParagraphsStep, ChunksStep
<1>3. IInv => ChunksFit
  <2> SUFFICES ASSUME ChunksInv PROVE ChunksFit
    OBVIOUS
  <2> QED
    BY DEF ChunksInv, Chained, Holds, When, ChunksFit
<1> QED
  BY <1>1, <1>2, <1>3, PTL DEF CuesSpec

(* How far that can be from what chunk_transcript promises of chapters: a   *)
(* chapter that begins inside a chunk, by the times before int(), begins in *)
(* the very second of the chunk's first paragraph (summarize.py:50-53,      *)
(* 65-67, normalize.py:190).                                                *)
ChunkOverlapsOneSecond ==
    \A i \in DOMAIN chunks, c \in all :
        LET from == StartOf(paragraphs[chunks[i].first])
            upto == StartOf(paragraphs[chunks[i].last])
        IN  from < c /\ c <= upto => Whole(c) = Whole(from)

THEOREM ChunksKeptToTheSecond == CuesSpec => []ChunkOverlapsOneSecond
<1> DEFINE IInv == DedupeInv /\ ParagraphsInv /\ ChunksInv
<1>1. CuesInit => IInv
  BY DedupeInit, ParagraphsInit, ChunksInit
<1>2. IInv /\ [CuesNext]_cuesVars => IInv'
  BY DedupeStep, ParagraphsStep, ChunksStep
<1>3. IInv => ChunkOverlapsOneSecond
  <2> SUFFICES ASSUME IInv, NEW i \in DOMAIN chunks, NEW c \in all,
                      StartOf(paragraphs[chunks[i].first]) < c,
                      c <= StartOf(paragraphs[chunks[i].last])
               PROVE  Whole(c) = Whole(StartOf(paragraphs[chunks[i].first]))
    BY DEF ChunkOverlapsOneSecond
  <2> DEFINE from == StartOf(paragraphs[chunks[i].first])
             upto == StartOf(paragraphs[chunks[i].last])
  <2>1. Complete /\ Holds(chunks[i]) /\ chunks[i] \in Span
    <3>1. Len(chunks) \in Nat /\ DOMAIN chunks = 1 .. Len(chunks) /\ chunks # <<>>
      BY LenProperties DEF ChunksInv
    <3>2. Merged
      BY <3>1 DEF ChunksInv, ParagraphsInv
    <3> QED
      BY <3>1, <3>2, ParagraphsComplete, ElementOfSeq DEF ChunksInv
  <2>2. /\ chunks[i].first \in 1 .. Len(paragraphs)
        /\ chunks[i].last \in 1 .. Len(paragraphs)
    BY <2>1 DEF Complete, Holds, Span
  <2>3. from \in Nat /\ upto \in Nat /\ c \in Nat
    BY <2>1, <2>2 DEF Complete, ParagraphsInv
  <2>4. /\ Whole(from) \in Nat /\ Whole(c) \in Nat
        /\ Whole(from) <= Whole(c) /\ Whole(c) <= Whole(upto)
    BY <2>3, WholeOrder
  <2>5. ~(Whole(from) < Whole(c) /\ Whole(c) <= Whole(upto))
    <3>1. When(chunks[i].first) = Whole(from) /\ When(chunks[i].last) = Whole(upto)
      BY DEF When, SecondOf, FirstFragment, StartOf
    <3>2. Whole(c) \in WholeStarts
      BY DEF WholeStarts
    <3> QED
      BY <2>1, <3>1, <3>2 DEF Holds, Between
  <2> QED
    BY <2>4, <2>5
<1> QED
  BY <1>1, <1>2, <1>3, PTL DEF CuesSpec

(* The three loops keep to their types: every fragment, paragraph and chunk *)
(* has positive bounds, and what is counted never goes below zero           *)
(* (normalize.py:100-214, summarize.py:45-106).                             *)
THEOREM CuesTypes == CuesSpec => []CuesTypeOK
<1> DEFINE Counted == all \in ChapterSets /\ cues \in 0 .. MaxCues /\ at \in Nat
           IInv == DedupeInv /\ ParagraphsInv /\ ChunksInv /\ Counted
<1>1. CuesInit => IInv
  <2>1. CuesInit => Counted
    BY CuesAssumption DEF CuesInit
  <2> QED
    BY <2>1, DedupeInit, ParagraphsInit, ChunksInit
<1>2. IInv /\ [CuesNext]_cuesVars => IInv'
  <2>1. Counted /\ [CuesNext]_cuesVars => Counted'
    BY CuesAssumption DEF CuesNext, ReadCue, CuesEnd, MergeFragment, FragmentsEnd,
                          ChunkParagraph, ParagraphsEnd, cuesVars
  <2> QED
    BY <2>1, DedupeStep, ParagraphsStep, ChunksStep
<1>3. IInv => CuesTypeOK
  BY DEF DedupeInv, ParagraphsInv, ChunksInv, CuesTypeOK, Fragment
<1> QED
  BY <1>1, <1>2, <1>3, PTL DEF CuesSpec
=============================================================================
