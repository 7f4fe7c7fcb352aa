---------------------------- MODULE PartsProofs ----------------------------
(***************************************************************************)
(* Theorems about the parts that do not interact: the acquisition of a     *)
(* transcript, the cursor of the export, and the pins of file names.       *)
(***************************************************************************)
EXTENDS Acquire, Export, Names, TLAPS

-----------------------------------------------------------------------------
(* Acquire.                                                                 *)

LEMMA IdleIsState == NotAcquiring \in AcquireState
BY DEF NotAcquiring, AcquireState

LEMMA AcquireTypes == AcquireSpec => []AcquireTypeOK
<1>1. AcquireInit => AcquireTypeOK
  BY IdleIsState DEF AcquireInit, AcquireTypeOK
<1>2. AcquireTypeOK /\ [AcquireNext]_acquireVars => AcquireTypeOK'
  <2> SUFFICES ASSUME AcquireTypeOK, [AcquireNext]_acquireVars PROVE AcquireTypeOK'
    OBVIOUS
  <2> USE DEF AcquireTypeOK, AcquireState, NotAcquiring
  <2>1. ASSUME NEW forced \in BOOLEAN, AcquireBegins(forced) PROVE AcquireTypeOK'
    BY <2>1 DEF AcquireBegins
  <2>2. CASE PageFetched
    BY <2>2 DEF PageFetched
  <2>3. CASE Captions \/ LooseCaptions
    <3>1. ASSUME NEW loosen \in BOOLEAN, NEW otherwise \in {"probe", "download", "parked"},
                 TryCaptions(loosen, otherwise)
          PROVE  AcquireTypeOK'
      <4>1. PICK found \in Ladder(loosen) :
              LET tier == IF found \in {"T0", "T1"} THEN found ELSE "none" IN
              acquiring' = [acquiring EXCEPT
                              !.pc = IF tier # "none" THEN "acquired"
                                     ELSE IF found = "raised" THEN "failed" ELSE otherwise,
                              !.tier = tier,
                              !.degraded = tier # "none" /\ loosen,
                              !.unfetched = @ \/ found = "unfetched"]
        BY <3>1 DEF TryCaptions
      <4> DEFINE tier == IF found \in {"T0", "T1"} THEN found ELSE "none"
                 pc   == IF tier # "none" THEN "acquired"
                         ELSE IF found = "raised" THEN "failed" ELSE otherwise
                 thin == tier # "none" /\ loosen
                 lost == acquiring.unfetched \/ found = "unfetched"
      <4>2. /\ tier \in {"none", "T0", "T1"} /\ thin \in BOOLEAN /\ lost \in BOOLEAN
            /\ pc \in {"probe", "download", "parked", "acquired", "failed"}
        OBVIOUS
      <4>3. acquiring' = [acquiring EXCEPT !.pc = pc, !.tier = tier, !.degraded = thin,
                                           !.unfetched = lost]
        BY <4>1
      <4>4. acquiring' \in AcquireState
        <5> HIDE DEF tier, pc, thin, lost
        <5> QED
          BY <4>2, <4>3
      <4>5. UNCHANGED <<meta, audio, orphan>>
        BY <3>1 DEF TryCaptions
      <4> QED
        BY <4>4, <4>5
    <3> QED
      BY <2>3, <3>1 DEF Captions, LooseCaptions, Onward
  <2>4. ASSUME NEW up \in BOOLEAN, Probed(up) PROVE AcquireTypeOK'
    BY <2>4 DEF Probed, Onward
  <2>5. CASE Downloaded \/ DownloadFails
    BY <2>5 DEF Downloaded, DownloadFails, Moves
  <2>6. CASE Transcribed
    BY <2>6 DEF Transcribed
  <2>7. ASSUME NEW fails \in BOOLEAN, Unlinked(fails) PROVE AcquireTypeOK'
    <3>1. (IF acquiring.tier = "T2" THEN "acquired"
           ELSE IF fails THEN "failed" ELSE "parked") \in {"acquired", "failed", "parked"}
      BY <2>7
    <3> QED
      BY <2>7, <3>1 DEF Unlinked
  <2>8. CASE AcquireEnds \/ AcquireKilled \/ AudioAges \/ Sweep
    <3>1. (orphan \/ audio # "none") \in BOOLEAN
      OBVIOUS
    <3> QED
      BY <2>8, <3>1, IdleIsState DEF AcquireEnds, AcquireKilled, AudioAges, Sweep
  <2>9. CASE UNCHANGED acquireVars
    BY <2>9 DEF acquireVars
  <2> QED
    BY <2>1, <2>2, <2>3, <2>4, <2>5, <2>6, <2>7, <2>8, <2>9
    DEF AcquireNext, AcquireStep
<1> QED
  BY <1>1, <1>2, PTL DEF AcquireSpec

(* What TiersAreEarned leaves out, at the points where nothing is decided   *)
(* yet: the ladder is tried before there is any transcript, neither pass    *)
(* for a forced run, the loosened one only while the worker sleeps and the  *)
(* settings allow it, and the probe comes after a ladder that gave nothing. *)
LadderIsOpen ==
    /\ acquiring.pc \in {"captions", "loose"} => ~acquiring.forced
    /\ acquiring.pc = "loose" => Degrade /\ acquiring.worker = "down"
    /\ acquiring.pc = "page" => meta.wired
    /\ acquiring.pc \notin {"acquired", "unlink"} => acquiring.tier = "none"
    /\ acquiring.pc = "unlink" => acquiring.tier \in {"none", "T2"}
    /\ acquiring.pc \in {"probe", "loose"} /\ ~meta.wired =>
          acquiring.forced \/ acquiring.unfetched \/ ~Suits(2)

AcquireInv == AcquireTypeOK /\ LadderIsOpen /\ TiersAreEarned

(* A transcript of machine captions is one the heuristic accepted; and when *)
(* the ladder gave none of either kind, nothing suits or a fetch failed.    *)
LEMMA LadderGives ==
    ASSUME AcquireTypeOK, NEW loosen \in BOOLEAN, NEW found \in Ladder(loosen)
    PROVE  LET floor == IF loosen THEN 1 ELSE 2 IN
           /\ found \in {"T0", "T1", "unfit", "unfetched", "raised"}
           /\ found = "T1" => /\ Pick(meta.manual) = NoLang
                              /\ ~Translated(Pick(meta.auto))
                              /\ meta.density >= floor
           /\ found = "unfit" => ~Suits(floor)
BY DEF Ladder, Suits, Trustworthy

LEMMA LadderEarns ==
    ASSUME AcquireInv, AcquireTypeOK', NEW loosen \in BOOLEAN,
           NEW otherwise \in {"probe", "download", "parked"},
           TryCaptions(loosen, otherwise),
           \/ acquiring.pc = "captions" /\ ~loosen /\ otherwise = "probe"
           \/ acquiring.pc = "loose" /\ loosen /\ otherwise = Onward(acquiring.worker = "up")
    PROVE  LadderIsOpen' /\ TiersAreEarned'
<1> USE DEF AcquireInv, AcquireTypeOK
<1>1. PICK found \in Ladder(loosen) :
        LET tier == IF found \in {"T0", "T1"} THEN found ELSE "none" IN
        acquiring' = [acquiring EXCEPT
                        !.pc = IF tier # "none" THEN "acquired"
                               ELSE IF found = "raised" THEN "failed" ELSE otherwise,
                        !.tier = tier,
                        !.degraded = tier # "none" /\ loosen,
                        !.unfetched = @ \/ found = "unfetched"]
  BY DEF TryCaptions
<1>2. UNCHANGED meta
  BY DEF TryCaptions
<1> DEFINE tier == IF found \in {"T0", "T1"} THEN found ELSE "none"
           floor == IF loosen THEN 1 ELSE 2
<1>3. /\ found \in {"T0", "T1", "unfit", "unfetched", "raised"}
      /\ found = "T1" => /\ Pick(meta.manual) = NoLang
                         /\ ~Translated(Pick(meta.auto))
                         /\ meta.density >= floor
      /\ found = "unfit" => ~Suits(floor)
  BY LadderGives
<1>4. /\ acquiring'.pc = IF tier # "none" THEN "acquired"
                         ELSE IF found = "raised" THEN "failed" ELSE otherwise
      /\ acquiring'.tier = tier /\ acquiring'.forced = acquiring.forced
      /\ acquiring'.degraded = (tier # "none" /\ loosen)
      /\ acquiring'.worker = acquiring.worker
      /\ acquiring'.unfetched = (acquiring.unfetched \/ found = "unfetched")
  BY <1>1 DEF AcquireState
<1>5. /\ ~acquiring.forced
      /\ loosen => Degrade /\ acquiring.worker = "down"
      /\ loosen => otherwise = "parked"
      /\ ~loosen => otherwise = "probe"
  BY DEF LadderIsOpen, Onward
<1>6. /\ Pick(meta.manual)' = Pick(meta.manual)
      /\ Translated(Pick(meta.auto))' = Translated(Pick(meta.auto))
      /\ meta'.density = meta.density
      /\ Suits(1)' = Suits(1) /\ Suits(2)' = Suits(2)
  BY <1>2 DEF Suits, Translated, Pick
<1>7. LadderIsOpen'
  <2>1. acquiring'.pc # "unlink" /\ acquiring'.pc # "page"
        /\ acquiring'.pc # "captions" /\ acquiring'.pc # "loose"
    BY <1>4, <1>5
  <2>2. acquiring'.pc # "acquired" => acquiring'.tier = "none"
    BY <1>4, <1>5
  <2>3. acquiring'.pc = "probe" => found \in {"unfit", "unfetched"} /\ ~loosen
    BY <1>3, <1>4, <1>5
  <2>4. acquiring'.pc = "probe" => acquiring'.unfetched \/ ~Suits(2)'
    BY <2>3, <1>3, <1>4, <1>6
  <2> QED
    BY <2>1, <2>2, <2>4 DEF LadderIsOpen
<1>8. TiersAreEarned'
  <2>1. acquiring'.tier \in {"T0", "T1"} => acquiring'.degraded = loosen
    BY <1>4
  <2>2. acquiring'.tier = "T1" => found = "T1"
    BY <1>3, <1>4
  <2>3. acquiring'.tier # "T2"
    BY <1>3, <1>4
  <2>4. acquiring'.pc \notin {"download", "transcribe", "unlink"}
    BY <1>4, <1>5
  <2>5. acquiring'.pc = "parked" => found \in {"unfit", "unfetched"} /\ loosen
    BY <1>3, <1>4, <1>5
  <2>6. acquiring'.pc = "parked" =>
          acquiring'.unfetched \/ (~Suits(1)' /\ Degrade /\ acquiring'.worker = "down")
    BY <2>5, <1>3, <1>4, <1>5, <1>6
  <2> QED
    BY <2>1, <2>2, <2>3, <2>4, <2>6, <1>3, <1>4, <1>5, <1>6 DEF TiersAreEarned
<1> QED
  BY <1>7, <1>8

(* A step that leaves the video as it is leaves what suits as it is.        *)
LEMMA SuitsStays ==
    ASSUME UNCHANGED meta
    PROVE  /\ Pick(meta.manual)' = Pick(meta.manual)
           /\ Translated(Pick(meta.auto))' = Translated(Pick(meta.auto))
           /\ Suits(1)' = Suits(1) /\ Suits(2)' = Suits(2)
BY DEF Suits, Translated, Pick

LEMMA AcquireNextInv ==
    ASSUME AcquireInv, AcquireTypeOK', [AcquireNext]_acquireVars
    PROVE  LadderIsOpen' /\ TiersAreEarned'
<1> DEFINE Goal == LadderIsOpen' /\ TiersAreEarned'
<1> USE DEF AcquireInv, AcquireTypeOK, AcquireState
<1>1. ASSUME NEW forced \in BOOLEAN, AcquireBegins(forced) PROVE Goal
  BY <1>1 DEF AcquireBegins, NotAcquiring, LadderIsOpen, TiersAreEarned
<1>2. CASE PageFetched
  BY <1>2 DEF PageFetched, LadderIsOpen, TiersAreEarned
<1>3. CASE Captions \/ LooseCaptions
  BY <1>3, LadderEarns DEF Captions, LooseCaptions, Onward
<1>4. ASSUME NEW up \in BOOLEAN, Probed(up) PROVE Goal
  <2>1. UNCHANGED meta
    BY <1>4 DEF Probed
  <2>2. ~meta.wired => acquiring.forced \/ acquiring.unfetched \/ ~Suits(2)
    BY <1>4 DEF Probed, LadderIsOpen
  <2>3. /\ acquiring'.worker = (IF up THEN "up" ELSE "down")
        /\ acquiring'.pc = (IF ~up /\ Degrade /\ ~acquiring.forced THEN "loose"
                            ELSE IF up THEN "download" ELSE "parked")
        /\ acquiring'.forced = acquiring.forced
        /\ acquiring'.unfetched = acquiring.unfetched
        /\ acquiring'.tier = "none"
    BY <1>4 DEF Probed, Onward, LadderIsOpen
  <2> QED
    BY <2>1, <2>2, <2>3, SuitsStays DEF LadderIsOpen, TiersAreEarned
<1>5. ASSUME UNCHANGED meta,
             acquiring.pc \in {"download", "transcribe", "unlink"},
             /\ acquiring'.forced = acquiring.forced
             /\ acquiring'.unfetched = acquiring.unfetched
             /\ acquiring'.worker = acquiring.worker
             /\ acquiring'.tier \in {"none", "T2"},
             acquiring'.pc \in {"transcribe", "unlink", "acquired", "parked", "failed"},
             acquiring'.pc \notin {"acquired", "unlink"} => acquiring'.tier = "none"
      PROVE  Goal
  BY <1>5, SuitsStays DEF LadderIsOpen, TiersAreEarned
<1>6. CASE Downloaded \/ DownloadFails \/ Transcribed
  <2>1. acquiring.pc \in {"download", "transcribe"} => acquiring.tier = "none"
    BY DEF LadderIsOpen
  <2> QED
    BY <1>5, <1>6, <2>1 DEF Downloaded, DownloadFails, Moves, Transcribed
<1>7. ASSUME NEW fails \in BOOLEAN, Unlinked(fails) PROVE Goal
  <2>1. acquiring.pc = "unlink" /\ acquiring.tier \in {"none", "T2"}
    BY <1>7 DEF LadderIsOpen, Unlinked
  <2>2. acquiring' = [acquiring EXCEPT !.pc =
                        IF acquiring.tier = "T2" THEN "acquired"
                        ELSE IF fails THEN "failed" ELSE "parked"]
    BY <1>7 DEF Unlinked
  <2> QED
    BY <1>5, <1>7, <2>1, <2>2 DEF Unlinked
<1>8. CASE AcquireEnds \/ AcquireKilled
  BY <1>8 DEF AcquireEnds, AcquireKilled, NotAcquiring, LadderIsOpen, TiersAreEarned
<1>9. CASE UNCHANGED <<meta, acquiring>>
  BY <1>9, SuitsStays DEF LadderIsOpen, TiersAreEarned
<1> QED
  BY <1>1, <1>2, <1>3, <1>4, <1>6, <1>7, <1>8, <1>9
  DEF AcquireNext, AcquireStep, AudioAges, Sweep, acquireVars

(* A tier is taken only for what it is and passed only when it gave         *)
(* nothing: captions never for a forced run, loosened only while the worker *)
(* sleeps; the worker or the park only where no captions suit or their      *)
(* fetch failed (ladder.py:68-109, 112-185, transcript.py:105-142).         *)
THEOREM TiersEarned == AcquireSpec => []TiersAreEarned
<1>1. AcquireInit => AcquireInv
  <2>1. /\ NotAcquiring.pc = "idle" /\ NotAcquiring.tier = "none"
    BY DEF NotAcquiring
  <2> QED
    BY <2>1, IdleIsState
    DEF AcquireInit, AcquireInv, AcquireTypeOK, LadderIsOpen, TiersAreEarned
<1>2. AcquireInv /\ AcquireTypeOK' /\ [AcquireNext]_acquireVars => AcquireInv'
  BY AcquireNextInv DEF AcquireInv
<1>3. AcquireInv => TiersAreEarned
  BY DEF AcquireInv
<1> QED
  BY <1>1, <1>2, <1>3, AcquireTypes, PTL DEF AcquireSpec

(* Outside an acquisition there is an audio file only where a kill left it  *)
(* (transcript.py:132-146, cleanup.py:31-55).                               *)
THEOREM AudioOwned == AcquireSpec => []AudioHasOwner
<1>1. AcquireInit => AudioHasOwner
  BY DEF AcquireInit, AudioHasOwner
<1>2. AcquireTypeOK /\ AudioHasOwner /\ [AcquireNext]_acquireVars => AudioHasOwner'
  <2> SUFFICES ASSUME AcquireTypeOK, AudioHasOwner, [AcquireNext]_acquireVars
               PROVE  AudioHasOwner'
    OBVIOUS
  <2> USE DEF AcquireTypeOK, AcquireState, NotAcquiring, AudioHasOwner
  <2>1. ASSUME acquiring.pc \notin {"transcribe", "unlink"}, UNCHANGED <<audio, orphan>>
        PROVE  AudioHasOwner'
    BY <2>1
  <2>2. ASSUME NEW forced \in BOOLEAN, AcquireBegins(forced) PROVE AudioHasOwner'
    BY <2>1, <2>2 DEF AcquireBegins
  <2>3. CASE PageFetched \/ Captions \/ LooseCaptions \/ AcquireEnds
    BY <2>1, <2>3 DEF PageFetched, Captions, LooseCaptions, TryCaptions, AcquireEnds
  <2>4. ASSUME NEW up \in BOOLEAN, Probed(up) PROVE AudioHasOwner'
    BY <2>1, <2>4 DEF Probed, Moves
  <2>5. CASE Downloaded
    BY <2>5 DEF Downloaded, Moves
  <2>6. CASE DownloadFails
    BY <2>1, <2>6 DEF DownloadFails, Moves
  <2>7. CASE Transcribed
    BY <2>7 DEF Transcribed
  <2>8. ASSUME NEW fails \in BOOLEAN, Unlinked(fails) PROVE AudioHasOwner'
    BY <2>8 DEF Unlinked
  <2>9. CASE AcquireKilled
    BY <2>9 DEF AcquireKilled
  <2>10. CASE AudioAges \/ Sweep \/ UNCHANGED acquireVars
    BY <2>10 DEF AudioAges, Sweep, acquireVars
  <2> QED
    BY <2>2, <2>3, <2>4, <2>5, <2>6, <2>7, <2>8, <2>9, <2>10 DEF AcquireNext, AcquireStep
<1> QED
  BY <1>1, <1>2, AcquireTypes, PTL DEF AcquireSpec

-----------------------------------------------------------------------------
(* Export.                                                                  *)

(* A row is stamped before it is exported, and for good; what the importer  *)
(* has got is not past its cursor.                                          *)
CursorInv ==
    /\ stamp \in [Row -> Nat] /\ clock \in Nat \ {0}
    /\ exported \subseteq Row /\ sweep.got \subseteq Row
    /\ \A r \in exported \cup sweep.got : stamp[r] > 0
    /\ sweep.since \in Nat /\ sweep.sinceId \in Nat
    /\ sweep.pc = "paging" => \A r \in sweep.got : ~Past(r)

LEMMA RowsArePast ==
    \A r \in Page : r \in exported /\ Past(r)
BY DEF Page

LEMMA FetchPageInv ==
    ASSUME CursorInv, sweep \in SweepState, FetchPage
    PROVE  CursorInv'
<1>1. PICK last \in Page \ Malformed :
        /\ \A r \in Page \ Malformed : r = last \/ Above(r, last)
        /\ Fetched([sweep EXCEPT !.since = stamp[last], !.sinceId = last])
  BY DEF FetchPage
<1>2. /\ sweep.pc = "paging" /\ UNCHANGED <<clock, exported, stamp>>
      /\ sweep'.since = stamp[last] /\ sweep'.sinceId = last
      /\ sweep'.got = sweep.got \cup (Page \ Malformed)
  BY <1>1 DEF Fetched, SweepState
<1>3. last \in exported /\ Past(last)
  BY <1>1, RowsArePast
<1>4. ASSUME NEW r \in sweep'.got PROVE ~Past(r)'
  <2>1. r \in Row /\ r \in Nat /\ stamp[r] \in Nat /\ last \in Nat /\ stamp[last] \in Nat
    BY <1>2, <1>3, RowsArePast, ExportAssumption DEF CursorInv
  <2>2. CASE r \in sweep.got
    BY <1>2, <1>3, <2>1, <2>2 DEF CursorInv, Past
  <2>3. CASE r \in Page \ Malformed
    BY <1>1, <1>2, <2>1, <2>3 DEF Past, Above
  <2> QED
    BY <1>2, <2>2, <2>3
<1>5. \A r \in (exported \cup sweep.got)' : r \in Row /\ stamp[r] > 0
  BY <1>2, RowsArePast DEF CursorInv
<1>6. sweep'.since \in Nat /\ sweep'.sinceId \in Nat
  BY <1>2, <1>3, ExportAssumption DEF CursorInv
<1> QED
  BY <1>2, <1>4, <1>5, <1>6 DEF CursorInv

LEMMA CursorNextInv ==
    ASSUME CursorInv, ExportTypeOK, [ExportNext]_exportVars
    PROVE  CursorInv'
<1> USE ExportAssumption DEF CursorInv, ExportTypeOK
<1>1. ASSUME NEW r \in Row, Written(r) PROVE CursorInv'
  <2>1. /\ stamp' \in [Row -> Nat] /\ stamp'[r] > 0
        /\ \A s \in Row : stamp[s] > 0 => stamp'[s] = stamp[s]
    BY <1>1 DEF Written, Stamp
  <2>2. UNCHANGED <<clock, sweep>> /\ exported' = exported \cup {r}
    BY <1>1 DEF Written
  <2> QED
    BY <2>1, <2>2 DEF Past
<1>2. ASSUME NEW r \in Row, TakenOut(r) PROVE CursorInv'
  <2>1. /\ sweep'.got = sweep.got /\ sweep'.pc = sweep.pc
        /\ sweep'.since = sweep.since /\ sweep'.sinceId = sweep.sinceId
    BY <1>2 DEF TakenOut, SweepState
  <2> QED
    BY <1>2, <2>1 DEF TakenOut, Past
<1>3. CASE SecondPasses
  BY <1>3 DEF SecondPasses, Past
<1>4. CASE SweepBegins
  <2>1. /\ sweep'.got = {} /\ sweep'.sinceId = 0 /\ sweep'.since = MaxClock + 1
    BY <1>4 DEF SweepBegins, NoSweep
  <2> QED
    BY <1>4, <2>1 DEF SweepBegins
<1>5. CASE FetchPage
  BY <1>5, FetchPageInv
<1>6. CASE FetchLast
  <2>1. /\ sweep'.pc = "idle" /\ sweep'.got = sweep.got \cup (Page \ Malformed)
        /\ sweep'.since = sweep.since /\ sweep'.sinceId = sweep.sinceId
        /\ UNCHANGED <<clock, exported, stamp>>
    BY <1>6 DEF FetchLast, Fetched, SweepState
  <2> QED
    BY <2>1, RowsArePast
<1>7. CASE UNCHANGED exportVars
  BY <1>7 DEF exportVars, Past
<1> QED
  BY <1>1, <1>2, <1>3, <1>4, <1>5, <1>6, <1>7 DEF ExportNext

LEMMA ExportTypes ==
    ASSUME ExportTypeOK, [ExportNext]_exportVars
    PROVE  ExportTypeOK'
<1> USE ExportAssumption DEF ExportTypeOK
<1>1. ASSUME NEW r \in Row, Written(r) PROVE ExportTypeOK'
  BY <1>1 DEF Written, Stamp
<1>2. ASSUME NEW r \in Row, TakenOut(r) PROVE ExportTypeOK'
  BY <1>2 DEF TakenOut, SweepState
<1>3. CASE SecondPasses
  BY <1>3 DEF SecondPasses
<1>4. CASE SweepBegins
  <2>1. NoSweep \in SweepState /\ "paging" \in {"idle", "paging"}
    BY DEF NoSweep, SweepState
  <2>2. MaxClock + 1 \in 0 .. MaxClock + 1 /\ exported \in SUBSET Row
    OBVIOUS
  <2> QED
    BY <1>4, <2>1, <2>2 DEF SweepBegins, SweepState
<1>5. ASSUME NEW next \in SweepState, Fetched(next) PROVE ExportTypeOK'
  <2>1. Page \subseteq Row
    BY RowsArePast
  <2>2. (next.cut \/ Page \cap Malformed # {}) \in BOOLEAN
    BY DEF SweepState
  <2> QED
    <3> DEFINE got == next.got \cup (Page \ Malformed)
               cut == next.cut \/ Page \cap Malformed # {}
    <3>1. got \in SUBSET Row /\ cut \in BOOLEAN
      BY <2>1, <2>2 DEF SweepState
    <3>2. sweep' = [next EXCEPT !.got = got, !.cut = cut]
          /\ UNCHANGED <<clock, exported, stamp>>
      BY <1>5 DEF Fetched
    <3> HIDE DEF got, cut
    <3> QED
      BY <3>1, <3>2 DEF SweepState
<1>6. CASE FetchPage
  <2>1. PICK last \in Page \ Malformed :
          Fetched([sweep EXCEPT !.since = stamp[last], !.sinceId = last])
    BY <1>6 DEF FetchPage
  <2>2. last \in Row /\ stamp[last] \in 0 .. MaxClock + 1
    <3>1. last \in Row /\ stamp[last] \in 0 .. MaxClock
      BY RowsArePast
    <3> QED
      BY <3>1
  <2>3. [sweep EXCEPT !.since = stamp[last], !.sinceId = last] \in SweepState
    BY <2>2 DEF SweepState
  <2> QED
    BY <1>5, <2>1, <2>3
<1>7. CASE FetchLast
  <2>1. [sweep EXCEPT !.pc = "idle"] \in SweepState
    BY DEF SweepState
  <2> QED
    BY <1>5, <1>7, <2>1 DEF FetchLast
<1>8. CASE UNCHANGED exportVars
  BY <1>8 DEF exportVars
<1> QED
  BY <1>1, <1>2, <1>3, <1>4, <1>6, <1>7, <1>8 DEF ExportNext

(* No page repeats a row of an earlier one of its sweep (routes.py:233-236).*)
THEOREM RowsOnce == ExportSpec => RowsComeOnce
<1>1. ExportInit => ExportTypeOK /\ CursorInv
  BY ExportAssumption DEF ExportInit, ExportTypeOK, CursorInv, NoSweep, SweepState
<1>2. ExportTypeOK /\ CursorInv /\ [ExportNext]_exportVars => (ExportTypeOK /\ CursorInv)'
  BY ExportTypes, CursorNextInv
<1>3. CursorInv =>
        [sweep.pc = "paging" /\ sweep'.got # sweep.got => Page \cap sweep.got = {}]_exportVars
  BY RowsArePast DEF CursorInv
<1> QED
  BY <1>1, <1>2, <1>3, PTL DEF ExportSpec, RowsComeOnce

-----------------------------------------------------------------------------
(* Names.                                                                   *)

(* A name once given is never given up (names.py:1-4, 22-26, 53-63).        *)
THEOREM NamesForever == NamesSpec => NamesAreForever
<1> DEFINE Keeps == /\ \A v \in NamedVideo : noteName[v] # Unnamed =>
                                            noteName'[v] = noteName[v]
                    /\ \A t \in Topic : topicName[t] # Unnamed =>
                                         topicName'[t] = topicName[t]
           Domains == DOMAIN noteName = NamedVideo /\ DOMAIN topicName = Topic
<1>1. NamesInit => Domains
  BY DEF NamesInit
<1>2. ASSUME Domains, [NamesNext]_namesVars PROVE Keeps /\ Domains'
  <2>1. ASSUME NEW v \in NamedVideo, NEW title \in Slug, ResolveNote(v, title)
        PROVE  Keeps /\ Domains'
    BY <1>2, <2>1 DEF ResolveNote
  <2>2. ASSUME NEW t \in Topic, NEW f, NEW pins, LinkTo(t, f, pins),
               pins \in {topicName, [topicName EXCEPT ![t] = f]},
               topicName[t] = Unnamed \/ pins = topicName
        PROVE  Keeps /\ Domains'
    BY <1>2, <2>2 DEF LinkTo
  <2>3. ASSUME NEW t \in Topic, LinkPinned(t) PROVE Keeps /\ Domains'
    BY <2>2, <2>3 DEF LinkPinned
  <2>4. ASSUME NEW t \in Topic, NEW slug,
               LinkSlug(t, slug) \/ LinkAlias(t, slug) \/ LinkNew(t, slug)
        PROVE  Keeps /\ Domains'
    <3>1. \A f : Adopt(t, f) \in {topicName, [topicName EXCEPT ![t] = f]}
      BY DEF Adopt
    <3> QED
      BY <2>2, <2>4, <3>1 DEF LinkSlug, LinkAlias, LinkNew
  <2>5. CASE UNCHANGED <<noteName, topicName>>
    BY <1>2, <2>5
  <2> QED
    BY <1>2, <2>1, <2>3, <2>4, <2>5
    DEF NamesNext, Mention, SweepPages, PageDeleted, OtherPage, namesVars
<1>3. Domains /\ [NamesNext]_namesVars => [Keeps]_namesVars /\ Domains'
  BY <1>2
<1> QED
  BY <1>1, <1>3, PTL DEF NamesSpec, NamesAreForever
=============================================================================
