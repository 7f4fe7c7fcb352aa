---------------------------- MODULE CountProofs ----------------------------
(***************************************************************************)
(* What rests on counting: that a full page ends where the next begins     *)
(* (Export), that there is always a free suffix (Names), and that an       *)
(* address waits for its own failures only (Throttle).  At the end, that   *)
(* what TLC runs as MCParts is each of the parts.                          *)
(***************************************************************************)
EXTENDS PartsProofs, CuesProofs, MCParts, FiniteSetTheorems, WellFoundedInduction

LEMMA LeastOf ==
    ASSUME NEW S \in SUBSET Nat, S # {}
    PROVE  \E x \in S : \A y \in S : x <= y
<1>1. PICK x \in S : \A y \in S : ~(<<y, x>> \in OpToRel(<, Nat))
  BY NatLessThanWellFounded, WFMin
<1>2. \A y \in S : ~(y < x)
  BY <1>1 DEF OpToRel
<1> QED
  BY <1>2

-----------------------------------------------------------------------------
(* The page.                                                                *)

Ahead == {r \in exported : Past(r)}

Higher(r) == {s \in Ahead : Above(s, r)}

Rank(r) == Cardinality(Higher(r))

LEMMA PageByRank == Page = {r \in Ahead : Rank(r) < PageLimit}
BY DEF Page, Ahead, Higher, Rank

LEMMA RankOrders ==
    ASSUME ExportTypeOK
    PROVE  /\ IsFiniteSet(Ahead)
           /\ \A r : IsFiniteSet(Higher(r)) /\ Rank(r) \in Nat
           /\ \A r, s \in Ahead : r = s \/ Above(r, s) \/ Above(s, r)
           /\ \A r, s \in Ahead : Above(s, r) => Rank(s) < Rank(r)
<1>1. /\ \A r \in Ahead : r \in Nat /\ stamp[r] \in Nat
      /\ Ahead \subseteq Row
  <2>1. Ahead \subseteq Row
    BY DEF ExportTypeOK, Ahead
  <2>2. \A r \in Row : r \in Nat /\ stamp[r] \in 0 .. MaxClock
    BY ExportAssumption DEF ExportTypeOK
  <2>3. \A n \in 0 .. MaxClock : n \in Nat
    BY ExportAssumption
  <2> QED
    BY <2>1, <2>2, <2>3
<1>2. IsFiniteSet(Ahead)
  BY <1>1, FS_Subset, ExportAssumption
<1>3. ASSUME NEW r PROVE IsFiniteSet(Higher(r)) /\ Rank(r) \in Nat
  <2>1. Higher(r) \in SUBSET Ahead
    BY DEF Higher
  <2>2. IsFiniteSet(Higher(r))
    BY <1>2, <2>1, FS_Subset
  <2> QED
    BY <2>2, FS_CardinalityType DEF Rank
<1>4. ASSUME NEW r \in Ahead, NEW s \in Ahead PROVE r = s \/ Above(r, s) \/ Above(s, r)
  BY <1>1 DEF Above
<1>5. ASSUME NEW r \in Ahead, NEW s \in Ahead, Above(s, r) PROVE Rank(s) < Rank(r)
  <2>1. Higher(s) \in SUBSET Higher(r)
    BY <1>1, <1>5 DEF Higher, Above
  <2>2. s \in Higher(r) /\ s \notin Higher(s)
    BY <1>1, <1>5 DEF Higher, Above
  <2>3. Rank(s) <= Rank(r) /\ Rank(s) # Rank(r)
    BY <1>3, <2>1, <2>2, FS_Subset DEF Rank
  <2> QED
    BY <1>3, <2>3
<1> QED
  BY <1>2, <1>3, <1>4, <1>5

(* What is ahead and not on the page is below all of the page.              *)
LEMMA PageIsTop ==
    ASSUME ExportTypeOK, NEW r \in Ahead \ Page, NEW p \in Page
    PROVE  Above(p, r)
<1>1. p \in Ahead /\ Rank(p) < PageLimit /\ ~(Rank(r) < PageLimit)
  BY PageByRank
<1>2. r = p \/ Above(r, p) \/ Above(p, r)
  BY <1>1, RankOrders
<1>3. Rank(r) \in Nat /\ Rank(p) \in Nat /\ PageLimit \in Nat
  BY RankOrders, ExportAssumption
<1>4. CASE Above(r, p)
  <2>1. Rank(r) < Rank(p)
    BY <1>1, <1>4, RankOrders
  <2> QED
    BY <1>1, <1>3, <2>1
<1> QED
  BY <1>1, <1>2, <1>4

(* A page with rows left below it is full.                                  *)
LEMMA PageIsFull ==
    ASSUME ExportTypeOK, Ahead \ Page # {}
    PROVE  Cardinality(Page) = PageLimit
<1> DEFINE Rest == Ahead \ Page
<1>1. /\ \A r : Rank(r) \in Nat /\ IsFiniteSet(Higher(r))
      /\ PageLimit \in Nat \ {0} /\ IsFiniteSet(Ahead)
  BY RankOrders, ExportAssumption
<1>2. Page \in SUBSET Ahead /\ IsFiniteSet(Page) /\ Cardinality(Page) \in Nat
  BY <1>1, PageByRank, FS_Subset, FS_CardinalityType
<1>3. PICK low \in Rest : \A r \in Rest : Rank(low) <= Rank(r)
  <2> DEFINE ranks == {Rank(r) : r \in Rest}
  <2>1. ranks \in SUBSET Nat /\ ranks # {}
    BY <1>1
  <2>2. PICK n \in ranks : \A m \in ranks : n <= m
    BY <2>1, LeastOf
  <2> QED
    BY <2>2
<1>4. Higher(low) \in SUBSET Page
  <2> SUFFICES ASSUME NEW s \in Higher(low), s \notin Page PROVE FALSE
    OBVIOUS
  <2>1. s \in Rest /\ low \in Ahead /\ s \in Ahead /\ Above(s, low)
    BY DEF Higher
  <2>2. Rank(s) < Rank(low)
    BY <2>1, RankOrders
  <2> QED
    BY <1>1, <1>3, <2>1, <2>2
<1>5. PageLimit <= Cardinality(Page)
  <2>1. Rank(low) <= Cardinality(Page)
    BY <1>2, <1>4, FS_Subset DEF Rank
  <2>2. ~(Rank(low) < PageLimit)
    BY PageByRank
  <2> QED
    BY <1>1, <1>2, <2>1, <2>2
<1>6. PICK end \in Page : \A q \in Page : Rank(q) <= Rank(end)
  <2> DEFINE gaps == {PageLimit - Rank(q) : q \in Page}
  <2>1. \A q \in Page : PageLimit - Rank(q) \in Nat
    BY <1>1, PageByRank
  <2>2. Page # {}
    BY <1>1, <1>5, FS_EmptySet
  <2>3. PICK n \in gaps : \A m \in gaps : n <= m
    <3>1. gaps \in SUBSET Nat /\ gaps # {}
      BY <2>1, <2>2
    <3> QED
      BY <3>1, LeastOf
  <2>4. PICK p \in Page : n = PageLimit - Rank(p)
    OBVIOUS
  <2>5. ASSUME NEW q \in Page PROVE Rank(q) <= Rank(p)
    <3>1. PageLimit - Rank(p) <= PageLimit - Rank(q)
      BY <2>3, <2>4
    <3> QED
      BY <1>1, <3>1
  <2> QED
    BY <2>5
<1>7. Page \ {end} \in SUBSET Higher(end)
  <2> SUFFICES ASSUME NEW q \in Page, q # end PROVE q \in Higher(end)
    OBVIOUS
  <2>1. q \in Ahead /\ end \in Ahead /\ (Above(q, end) \/ Above(end, q))
    BY <1>2, RankOrders
  <2>2. ~Above(end, q)
    <3>1. Above(end, q) => Rank(end) < Rank(q)
      BY <2>1, RankOrders
    <3> QED
      BY <1>1, <1>6, <3>1
  <2> QED
    BY <2>1, <2>2 DEF Higher
<1>8. Cardinality(Page) <= PageLimit
  <2>1. Cardinality(Page \ {end}) = Cardinality(Page) - 1
    BY <1>2, FS_RemoveElement
  <2>2. Cardinality(Page \ {end}) <= Rank(end)
    BY <1>1, <1>7, FS_Subset DEF Rank
  <2>3. Rank(end) < PageLimit
    BY PageByRank
  <2> QED
    BY <1>1, <1>2, <2>1, <2>2, <2>3
<1> QED
  BY <1>1, <1>2, <1>5, <1>8

-----------------------------------------------------------------------------
(* The sweep: what the importer has not got of the rows that stayed is      *)
(* still ahead of its cursor.                                               *)
SweepInv ==
    /\ sweep.staying \subseteq exported
    /\ sweep.pc = "paging" =>
          sweep.cut \/ \A r \in sweep.staying : r \in sweep.got \/ Past(r)
    /\ SweepMissesNothing

LEMMA FetchedInv ==
    ASSUME ExportTypeOK, SweepInv, FetchPage \/ FetchLast
    PROVE  SweepInv'
<1>1. /\ sweep \in SweepState /\ sweep.pc = "paging"
      /\ UNCHANGED <<clock, exported, stamp>>
  BY DEF FetchPage, FetchLast, Fetched, ExportTypeOK
<1>2. sweep.cut \/ \A r \in sweep.staying : r \in sweep.got \/ r \in Ahead
  BY <1>1 DEF SweepInv, Ahead
<1>3. CASE FetchPage
  <2>1. PICK last \in Page \ Malformed :
            Fetched([sweep EXCEPT !.since = stamp[last], !.sinceId = last])
    BY <1>3 DEF FetchPage
  <2>2. /\ sweep'.since = stamp[last] /\ sweep'.sinceId = last
        /\ sweep'.pc = "paging" /\ sweep'.staying = sweep.staying
        /\ sweep'.got = sweep.got \cup (Page \ Malformed)
        /\ sweep'.cut <=> sweep.cut \/ Page \cap Malformed # {}
    BY <1>1, <2>1 DEF Fetched, SweepState
  <2>3. ASSUME NEW r \in sweep.staying, ~sweep'.cut
        PROVE  r \in sweep'.got \/ Past(r)'
    <3>1. r \in sweep.got \/ r \in Page \/ r \in Ahead \ Page
      BY <1>2, <2>2, <2>3
    <3>2. CASE r \in sweep.got \/ r \in Page
      BY <2>2, <2>3, <3>2
    <3>3. CASE r \in Ahead \ Page
      <4>1. Above(last, r)
        BY <3>3, PageIsTop
      <4> QED
        BY <1>1, <2>2, <4>1 DEF Past, Above
    <3> QED
      BY <3>1, <3>2, <3>3
  <2> QED
    BY <1>1, <2>2, <2>3 DEF SweepInv, SweepMissesNothing
<1>4. CASE FetchLast
  <2>1. /\ sweep'.pc = "idle" /\ sweep'.staying = sweep.staying
        /\ sweep'.got = sweep.got \cup (Page \ Malformed)
        /\ sweep'.cut <=> sweep.cut \/ Page \cap Malformed # {}
        /\ ~Full
    BY <1>1, <1>4 DEF FetchLast, Fetched, SweepState
  <2>2. ASSUME ~sweep'.cut PROVE sweep.staying \subseteq sweep'.got
    <3>1. Page \ Malformed = Page /\ Cardinality(Page) # PageLimit
      BY <2>1, <2>2 DEF Full
    <3>2. Ahead \subseteq Page
      BY <3>1, PageIsFull
    <3> QED
      BY <1>2, <2>1, <2>2, <3>1, <3>2
  <2> QED
    BY <1>1, <2>1, <2>2 DEF SweepInv, SweepMissesNothing
<1> QED
  BY <1>3, <1>4

LEMMA SweepNextInv ==
    ASSUME ExportTypeOK, SweepInv, [ExportNext]_exportVars
    PROVE  SweepInv'
<1> USE DEF SweepInv, SweepMissesNothing
<1>1. ASSUME NEW r \in Row, Written(r) PROVE SweepInv'
  <2>1. \A s \in exported : stamp'[s] = stamp[s]
    BY <1>1, ExportAssumption DEF Written, Stamp, ExportTypeOK
  <2>2. UNCHANGED sweep /\ exported' = exported \cup {r}
    BY <1>1 DEF Written
  <2> QED
    BY <2>1, <2>2 DEF Past
<1>2. ASSUME NEW r \in Row, TakenOut(r) PROVE SweepInv'
  <2>1. /\ sweep'.got = sweep.got /\ sweep'.pc = sweep.pc /\ sweep'.cut = sweep.cut
        /\ sweep'.since = sweep.since /\ sweep'.sinceId = sweep.sinceId
        /\ sweep'.staying = sweep.staying \ {r}
    BY <1>2 DEF TakenOut, SweepState, ExportTypeOK
  <2> QED
    BY <1>2, <2>1 DEF TakenOut, Past
<1>3. CASE SecondPasses
  BY <1>3 DEF SecondPasses, Past
<1>4. CASE SweepBegins
  <2>1. /\ sweep'.pc = "paging" /\ sweep'.staying = exported
        /\ sweep'.since = MaxClock + 1 /\ UNCHANGED <<exported, stamp>>
    BY <1>4 DEF SweepBegins, NoSweep
  <2>2. \A r \in exported : stamp[r] < MaxClock + 1
    <3>1. \A r \in exported : stamp[r] \in 0 .. MaxClock
      BY DEF ExportTypeOK
    <3>2. \A n \in 0 .. MaxClock : n < MaxClock + 1
      BY ExportAssumption
    <3> QED
      BY <3>1, <3>2
  <2> QED
    BY <2>1, <2>2 DEF Past
<1>5. CASE FetchPage \/ FetchLast
  BY <1>5, FetchedInv
<1>6. CASE UNCHANGED exportVars
  BY <1>6 DEF exportVars, Past
<1> QED
  BY <1>1, <1>2, <1>3, <1>4, <1>5, <1>6 DEF ExportNext

(* When the cursor comes to its end the importer has every row that was     *)
(* exported all the while, for any rows, time stamps they share, writes and *)
(* forced runs between two pages, and any size of page - unless a page held *)
(* a malformed row (routes.py:233-270).                                     *)
THEOREM SweepsComplete == ExportSpec => []SweepMissesNothing
<1>1. ExportInit => ExportTypeOK /\ SweepInv
  BY ExportAssumption DEF ExportInit, ExportTypeOK, SweepInv, SweepMissesNothing,
                          NoSweep, SweepState
<1>2. ExportTypeOK /\ SweepInv /\ [ExportNext]_exportVars => (ExportTypeOK /\ SweepInv)'
  BY ExportTypes, SweepNextInv
<1>3. SweepInv => SweepMissesNothing
  BY DEF SweepInv
<1> QED
  BY <1>1, <1>2, <1>3, PTL DEF ExportSpec

-----------------------------------------------------------------------------
(* Names.                                                                   *)

LEMMA SuffixesDiffer ==
    ASSUME NEW base \in Seq(Nat), NEW n \in Nat, NEW m \in Nat,
           Suffixed(base, n) = Suffixed(base, m)
    PROVE  n = m
<1>1. ASSUME NEW k \in Nat
      PROVE  /\ Len(Append(base, k)) = Len(base) + 1
             /\ Append(base, k)[Len(base) + 1] = k
  BY <1>1, AppendProperties
<1>2. Len(base) \in Nat
  BY LenProperties
<1>3. CASE n = 1 \/ m = 1
  <2>1. \A k \in Nat : Append(base, k) # base
    BY <1>1, <1>2
  <2>2. CASE n = 1 /\ m # 1
    BY <2>1, <2>2 DEF Suffixed
  <2>3. CASE m = 1 /\ n # 1
    BY <2>1, <2>3 DEF Suffixed
  <2> QED
    BY <1>3, <2>2, <2>3
<1>4. CASE n # 1 /\ m # 1
  BY <1>1, <1>4 DEF Suffixed
<1> QED
  BY <1>3, <1>4

(* One of base, base-2, ... is free: there are more of them than names.     *)
LEMMA SomeIsFree ==
    ASSUME NEW base \in Seq(Nat), NEW names, IsFiniteSet(names)
    PROVE  \E n \in 1 .. Cardinality(names) + 1 : Suffixed(base, n) \notin names
<1> SUFFICES ASSUME \A n \in 1 .. Cardinality(names) + 1 : Suffixed(base, n) \in names
             PROVE  FALSE
  OBVIOUS
<1>1. PICK c \in Nat : c = Cardinality(names)
  BY FS_CardinalityType
<1> DEFINE f == [n \in 1 .. c + 1 |-> Suffixed(base, n)]
<1>2. f \in Injection(1 .. c + 1, names)
  <2>1. f \in [1 .. c + 1 -> names]
    BY <1>1
  <2>2. ASSUME NEW n \in 1 .. c + 1, NEW m \in 1 .. c + 1, f[n] = f[m]
        PROVE  n = m
    BY <2>2, SuffixesDiffer
  <2> QED
    BY <2>1, <2>2 DEF Injection, IsInjective
<1>3. Cardinality(1 .. c + 1) <= c
  BY <1>1, <1>2, FS_Injection
<1>4. Cardinality(1 .. c + 1) = c + 1
  <2>1. 1 \in Int /\ c + 1 \in Int /\ ~(1 > c + 1) /\ (c + 1) - 1 + 1 = c + 1
    BY <1>1
  <2> QED
    BY <2>1, FS_Interval
<1> QED
  BY <1>1, <1>3, <1>4

LEMMA FreeIsFree ==
    ASSUME NEW base \in Seq(Nat), NEW names, IsFiniteSet(names)
    PROVE  /\ Free(base, names) \notin names /\ Free(base, names) \in Seq(Nat)
           /\ \E n \in 1 .. Cardinality(names) + 1 : Free(base, names) = Suffixed(base, n)
<1>1. PICK c \in Nat : c = Cardinality(names)
  BY FS_CardinalityType
<1> DEFINE frees == {n \in 1 .. c + 1 : Suffixed(base, n) \notin names}
           First(n) == /\ Suffixed(base, n) \notin names
                       /\ \A k \in 1 .. n - 1 : Suffixed(base, k) \in names
<1>2. PICK n \in frees : \A m \in frees : n <= m
  <2>1. frees \in SUBSET Nat /\ frees # {}
    BY <1>1, SomeIsFree
  <2> QED
    BY <2>1, LeastOf
<1>3. First(n)
  <2> SUFFICES ASSUME NEW k \in 1 .. n - 1, Suffixed(base, k) \notin names PROVE FALSE
    BY <1>2
  <2>1. n \in 1 .. c + 1
    BY <1>2
  <2>2. k \in 1 .. c + 1 /\ ~(n <= k)
    BY <1>1, <2>1
  <2> QED
    BY <1>2, <2>2
<1>4. PICK m \in 1 .. c + 1 : First(m) /\ Free(base, names) = Suffixed(base, m)
  <2>1. \E m \in 1 .. c + 1 : First(m)
    BY <1>2, <1>3
  <2> DEFINE m == CHOOSE m \in 1 .. c + 1 : First(m)
  <2>2. m \in 1 .. c + 1 /\ First(m)
    BY <2>1
  <2>3. Free(base, names) = Suffixed(base, m)
    BY <1>1 DEF Free
  <2> HIDE DEF m
  <2> QED
    BY <2>2, <2>3
<1> QED
  BY <1>1, <1>4, AppendProperties DEF Suffixed

-----------------------------------------------------------------------------
Named == Seq(Nat) \cup {Unnamed}

OwnNames(names, S) == names \in [S -> Named] /\ OwnFile(names)

NamesInv ==
    /\ OwnNames(noteName, NamedVideo)
    /\ OwnNames(topicName, Topic)
    /\ DOMAIN pages \subseteq Seq(Nat) /\ DOMAIN index \subseteq Seq(Nat)

LEMMA TakenIsFinite ==
    ASSUME NEW S, IsFiniteSet(S), NEW names \in [S -> Named]
    PROVE  IsFiniteSet(Taken(names))
<1> DEFINE given == {names[k] : k \in S}
<1>1. names \in Surjection(S, given)
  BY DEF Surjection
<1>2. IsFiniteSet(given)
  BY <1>1, FS_Surjection
<1>3. Taken(names) \in SUBSET given
  BY DEF Taken
<1> QED
  BY <1>2, <1>3, FS_Subset

(* A name that no other has may be given.                                   *)
LEMMA GiveName ==
    ASSUME NEW S, NEW names, OwnNames(names, S), NEW k \in S,
           NEW file \in Named, file \notin Taken(names)
    PROVE  OwnNames([names EXCEPT ![k] = file], S)
<1> DEFINE given == [names EXCEPT ![k] = file]
<1>1. /\ names \in [S -> Named]
      /\ \A i, j \in S : i # j /\ names[i] # Unnamed => names[i] # names[j]
  BY DEF OwnNames, OwnFile
<1>2. given \in [S -> Named] /\ given[k] = file /\ \A i \in S \ {k} : given[i] = names[i]
  BY <1>1
<1>3. \A i \in S : names[i] = Unnamed \/ names[i] # file
  BY <1>1 DEF Taken
<1> HIDE DEF given
<1>4. ASSUME NEW i \in S, NEW j \in S, i # j, given[i] # Unnamed
      PROVE  given[i] # given[j]
  <2>1. CASE i = k
    BY <1>2, <1>3, <1>4, <2>1
  <2>2. CASE j = k
    BY <1>2, <1>3, <1>4, <2>2
  <2>3. CASE i # k /\ j # k
    BY <1>1, <1>2, <1>4, <2>3
  <2> QED
    BY <2>1, <2>2, <2>3
<1>5. DOMAIN given = S
  BY <1>2
<1> QED
  BY <1>2, <1>4, <1>5 DEF OwnNames, OwnFile, given

LEMMA NamesNextInv == NamesInv /\ [NamesNext]_namesVars => NamesInv'
<1> SUFFICES ASSUME NamesInv, [NamesNext]_namesVars PROVE NamesInv'
  OBVIOUS
<1>1. /\ OwnNames(noteName, NamedVideo) /\ OwnNames(topicName, Topic)
      /\ noteName \in [NamedVideo -> Named] /\ topicName \in [Topic -> Named]
      /\ DOMAIN pages \subseteq Seq(Nat) /\ DOMAIN index \subseteq Seq(Nat)
  BY DEF NamesInv, OwnNames
<1>2. IsFiniteSet(Taken(noteName)) /\ IsFiniteSet(Taken(topicName))
  BY <1>1, TakenIsFinite, NamesAssumption
<1>3. Slug \subseteq Seq(Nat) /\ \A t \in Topic : Spelling[t] \subseteq Slug
  BY NamesAssumption
<1>4. ASSUME NEW t \in Topic, NEW f \in Seq(Nat), NEW pins,
             OwnNames(pins, Topic), LinkTo(t, f, pins)
      PROVE  NamesInv'
  <2>1. topicName' = pins /\ UNCHANGED <<noteName, index>>
    BY <1>4 DEF LinkTo
  <2>2. DOMAIN pages' \subseteq Seq(Nat)
    BY <1>1, <1>4 DEF LinkTo
  <2> QED
    BY <1>1, <1>4, <2>1, <2>2 DEF NamesInv
<1>5. ASSUME NEW t \in Topic, NEW f \in Seq(Nat) PROVE OwnNames(Adopt(t, f), Topic)
  <2>1. CASE f \in Taken(topicName)
    BY <1>1, <2>1 DEF Adopt
  <2>2. CASE f \notin Taken(topicName)
    BY <1>1, <2>2, GiveName DEF Adopt, Named
  <2> QED
    BY <2>1, <2>2
<1>6. ASSUME NEW v \in NamedVideo, NEW title \in Slug, ResolveNote(v, title)
      PROVE  NamesInv'
  <2>1. UNCHANGED <<topicName, pages, index>>
    BY <1>6 DEF ResolveNote
  <2>2. OwnNames(noteName, NamedVideo)'
    <3>1. CASE noteName[v] # Unnamed
      BY <1>1, <1>6, <3>1 DEF ResolveNote
    <3>2. CASE noteName[v] = Unnamed
      <4> DEFINE f == Free(title, Taken(noteName))
      <4>1. f \in Named /\ f \notin Taken(noteName)
        BY <1>2, <1>3, <1>6, FreeIsFree DEF Named
      <4>2. noteName' = [noteName EXCEPT ![v] = f]
        BY <1>6, <3>2 DEF ResolveNote
      <4> HIDE DEF f
      <4>3. OwnNames([noteName EXCEPT ![v] = f], NamedVideo)
        BY <1>1, <4>1, GiveName
      <4> QED
        BY <4>2, <4>3
    <3> QED
      BY <3>1, <3>2
  <2> QED
    BY <1>1, <2>1, <2>2 DEF NamesInv
<1>7. ASSUME NEW t \in Topic, LinkPinned(t) PROVE NamesInv'
  <2>1. topicName[t] \in Seq(Nat)
    BY <1>1, <1>7 DEF LinkPinned, Named
  <2> QED
    BY <1>1, <1>4, <1>7, <2>1 DEF LinkPinned
<1>8. ASSUME NEW t \in Topic, NEW slug \in Spelling[t], LinkSlug(t, slug)
      PROVE  NamesInv'
  BY <1>3, <1>4, <1>5, <1>8 DEF LinkSlug
<1>9. ASSUME NEW t \in Topic, NEW slug \in Spelling[t], LinkAlias(t, slug)
      PROVE  NamesInv'
  BY <1>1, <1>4, <1>5, <1>9 DEF LinkAlias, Aliased
<1>10. ASSUME NEW t \in Topic, NEW slug \in Spelling[t], LinkNew(t, slug)
       PROVE  NamesInv'
  <2> DEFINE f == Free(slug, Taken(topicName))
  <2>1. f \in Seq(Nat) /\ f \notin Taken(topicName)
    BY <1>2, <1>3, FreeIsFree
  <2>2. LinkTo(t, f, [topicName EXCEPT ![t] = f])
    BY <1>10 DEF LinkNew
  <2> HIDE DEF f
  <2>3. OwnNames([topicName EXCEPT ![t] = f], Topic)
    BY <1>1, <2>1, GiveName DEF Named
  <2> QED
    BY <1>4, <2>1, <2>2, <2>3
<1>11. ASSUME NEW t \in Topic, Mention(t) PROVE NamesInv'
  BY <1>1, <1>11 DEF Mention, NamesInv
<1>12. CASE SweepPages
  BY <1>1, <1>12 DEF SweepPages, NamesInv
<1>13. ASSUME NEW f \in Slug, NEW aliases \in SUBSET Topic, OtherPage(f, aliases)
       PROVE  NamesInv'
  BY <1>1, <1>3, <1>13 DEF OtherPage, NamesInv
<1>14. ASSUME NEW f \in Slug, PageDeleted(f) PROVE NamesInv'
  BY <1>1, <1>14 DEF PageDeleted, NamesInv
<1>15. CASE UNCHANGED namesVars
  BY <1>1, <1>15 DEF namesVars, NamesInv
<1> QED
  BY <1>6, <1>7, <1>8, <1>9, <1>10, <1>11, <1>12, <1>13, <1>14, <1>15 DEF NamesNext

(* No two videos have one note, and no two topics one row's file, for any   *)
(* titles, spellings and pages that others write: there is always a free    *)
(* suffix, and an adoption never takes another's file (names.py:22-87).     *)
THEOREM NamesOwned == NamesSpec => []NamesAreOwn
<1>1. NamesInit => NamesInv
  <2> SUFFICES ASSUME NamesInit PROVE NamesInv
    OBVIOUS
  <2>1. noteName \in [NamedVideo -> Named] /\ topicName \in [Topic -> Named]
    BY DEF NamesInit, Named
  <2>2. OwnFile(noteName) /\ OwnFile(topicName)
    BY DEF NamesInit, OwnFile
  <2>3. DOMAIN pages = {} /\ DOMAIN index = {}
    BY DEF NamesInit
  <2> QED
    BY <2>1, <2>2, <2>3 DEF NamesInv, OwnNames
<1>2. NamesInv => NamesAreOwn
  BY DEF NamesInv, OwnNames, NamesAreOwn
<1> QED
  BY <1>1, <1>2, NamesNextInv, PTL DEF NamesSpec

(* As long as one has no name, fewer names are taken than there may be.     *)
LEMMA FreeIsFile ==
    ASSUME NEW S, IsFiniteSet(S),
           NEW most \in Nat, Cardinality(S) <= most, 1 .. most \subseteq Suffix,
           NEW names, DOMAIN names = S, NEW k \in S, names[k] = Unnamed,
           NEW base \in Slug
    PROVE  Free(base, Taken(names)) \in File
<1> DEFINE rest == S \ {k}
           image == {names[j] : j \in rest}
<1>1. IsFiniteSet(rest) /\ Cardinality(rest) = Cardinality(S) - 1 /\ Cardinality(S) \in Nat
  BY FS_RemoveElement, FS_CardinalityType
<1>2. IsFiniteSet(image) /\ Cardinality(image) <= Cardinality(rest)
  <2>1. [j \in rest |-> names[j]] \in Surjection(rest, image)
    BY DEF Surjection
  <2> QED
    BY <1>1, <2>1, FS_Surjection
<1>3. Taken(names) \in SUBSET image
  BY DEF Taken
<1>4. /\ IsFiniteSet(Taken(names)) /\ Cardinality(Taken(names)) \in Nat
      /\ Cardinality(Taken(names)) <= Cardinality(image) /\ Cardinality(image) \in Nat
  BY <1>2, <1>3, FS_Subset, FS_CardinalityType
<1>5. base \in Seq(Nat)
  BY NamesAssumption
<1>6. PICK n \in 1 .. Cardinality(Taken(names)) + 1 :
          Free(base, Taken(names)) = Suffixed(base, n)
  BY <1>4, <1>5, FreeIsFree
<1>7. n \in 1 .. most
  BY <1>1, <1>2, <1>4, <1>6
<1> QED
  BY <1>6, <1>7 DEF File

LEMMA NamesTypeNext == NamesTypeOK /\ [NamesNext]_namesVars => NamesTypeOK'
<1> SUFFICES ASSUME NamesTypeOK, [NamesNext]_namesVars PROVE NamesTypeOK'
  OBVIOUS
<1>1. /\ noteName \in [NamedVideo -> File \cup {Unnamed}]
      /\ topicName \in [Topic -> File \cup {Unnamed}]
      /\ mentions \in [Topic -> 0 .. Threshold]
      /\ DOMAIN pages \subseteq File /\ \A f \in DOMAIN pages : pages[f] \subseteq Topic
      /\ DOMAIN index \subseteq File /\ \A f \in DOMAIN index : index[f] \subseteq Topic
  BY DEF NamesTypeOK
<1>2. PICK v \in Nat, u \in Nat : v = Cardinality(NamedVideo) /\ u = Cardinality(Topic)
  BY NamesAssumption, FS_CardinalityType
<1>3. u + v \in Nat /\ u <= u + v /\ v <= u + v /\ 1 .. u + v \subseteq Suffix
  BY <1>2 DEF Suffix
<1>4. Slug \subseteq File
  <2> SUFFICES ASSUME NEW s \in Slug PROVE s \in File
    OBVIOUS
  <2>1. s = Suffixed(s, 1) /\ 1 \in Suffix
    BY DEF Suffixed, Suffix
  <2> QED
    BY <2>1 DEF File
<1>5. \A t \in Topic : Spelling[t] \subseteq Slug
  BY NamesAssumption
<1>6. ASSUME NEW t \in Topic, NEW f \in File, NEW pins \in [Topic -> File \cup {Unnamed}],
             LinkTo(t, f, pins)
      PROVE  NamesTypeOK'
  <2>1. topicName' = pins /\ UNCHANGED <<noteName, index, mentions>>
    BY <1>6 DEF LinkTo
  <2>2. DOMAIN pages' \subseteq File /\ \A g \in DOMAIN pages' : pages'[g] \subseteq Topic
    BY <1>1, <1>6 DEF LinkTo
  <2> QED
    BY <1>1, <2>1, <2>2 DEF NamesTypeOK
<1>7. ASSUME NEW t \in Topic, NEW f \in File
      PROVE  /\ [topicName EXCEPT ![t] = f] \in [Topic -> File \cup {Unnamed}]
             /\ Adopt(t, f) \in [Topic -> File \cup {Unnamed}]
  BY <1>1 DEF Adopt
<1>8. ASSUME NEW w \in NamedVideo, NEW title \in Slug, ResolveNote(w, title)
      PROVE  NamesTypeOK'
  <2>1. UNCHANGED <<topicName, pages, index, mentions>>
    BY <1>8 DEF ResolveNote
  <2>2. noteName' \in [NamedVideo -> File \cup {Unnamed}]
    <3>1. CASE noteName[w] # Unnamed
      BY <1>1, <1>8, <3>1 DEF ResolveNote
    <3>2. CASE noteName[w] = Unnamed
      <4>1. Free(title, Taken(noteName)) \in File
        <5>1. DOMAIN noteName = NamedVideo /\ IsFiniteSet(NamedVideo)
              /\ Cardinality(NamedVideo) <= u + v
          BY <1>1, <1>2, <1>3, NamesAssumption
        <5> QED
          BY <1>3, <3>2, <5>1, FreeIsFile
      <4>2. noteName' = [noteName EXCEPT ![w] = Free(title, Taken(noteName))]
        BY <1>8, <3>2 DEF ResolveNote
      <4> QED
        BY <1>1, <4>1, <4>2
    <3> QED
      BY <3>1, <3>2
  <2> QED
    BY <1>1, <2>1, <2>2 DEF NamesTypeOK
<1>9. ASSUME NEW t \in Topic, LinkPinned(t) PROVE NamesTypeOK'
  <2>1. topicName[t] \in File
    BY <1>1, <1>9 DEF LinkPinned
  <2> QED
    BY <1>1, <1>6, <1>9, <2>1 DEF LinkPinned
<1>10. ASSUME NEW t \in Topic, NEW slug \in Spelling[t], LinkSlug(t, slug)
       PROVE  NamesTypeOK'
  BY <1>4, <1>5, <1>6, <1>7, <1>10 DEF LinkSlug
<1>11. ASSUME NEW t \in Topic, NEW slug \in Spelling[t], LinkAlias(t, slug)
       PROVE  NamesTypeOK'
  BY <1>1, <1>6, <1>7, <1>11 DEF LinkAlias, Aliased
<1>12. ASSUME NEW t \in Topic, NEW slug \in Spelling[t], LinkNew(t, slug)
       PROVE  NamesTypeOK'
  <2> DEFINE f == Free(slug, Taken(topicName))
  <2>1. f \in File
    <3>1. DOMAIN topicName = Topic /\ IsFiniteSet(Topic) /\ Cardinality(Topic) <= u + v
          /\ topicName[t] = Unnamed /\ slug \in Slug
      BY <1>1, <1>2, <1>3, <1>5, <1>12, NamesAssumption DEF LinkNew
    <3> QED
      BY <1>3, <3>1, FreeIsFile
  <2>2. LinkTo(t, f, [topicName EXCEPT ![t] = f])
    BY <1>12 DEF LinkNew
  <2> HIDE DEF f
  <2> QED
    BY <1>6, <1>7, <2>1, <2>2
<1>13. ASSUME NEW t \in Topic, Mention(t) PROVE NamesTypeOK'
  <2>1. mentions' \in [Topic -> 0 .. Threshold]
    BY <1>1, <1>13, NamesAssumption DEF Mention
  <2> QED
    BY <1>1, <1>13, <2>1 DEF Mention, NamesTypeOK
<1>14. CASE SweepPages
  BY <1>1, <1>14 DEF SweepPages, NamesTypeOK
<1>15. ASSUME NEW f \in Slug, NEW aliases \in SUBSET Topic, OtherPage(f, aliases)
       PROVE  NamesTypeOK'
  <2>1. DOMAIN pages' \subseteq File /\ \A g \in DOMAIN pages' : pages'[g] \subseteq Topic
    BY <1>1, <1>4, <1>15 DEF OtherPage
  <2> QED
    BY <1>1, <1>15, <2>1 DEF OtherPage, NamesTypeOK
<1>16. ASSUME NEW f \in Slug, PageDeleted(f) PROVE NamesTypeOK'
  <2>1. DOMAIN pages' \subseteq File /\ \A g \in DOMAIN pages' : pages'[g] \subseteq Topic
    BY <1>1, <1>16 DEF PageDeleted
  <2> QED
    BY <1>1, <1>16, <2>1 DEF PageDeleted, NamesTypeOK
<1>17. CASE UNCHANGED namesVars
  BY <1>1, <1>17 DEF namesVars, NamesTypeOK
<1> QED
  BY <1>8, <1>9, <1>10, <1>11, <1>12, <1>13, <1>14, <1>15, <1>16, <1>17 DEF NamesNext

(* A file name is a slug, and its suffix no larger than the number of those *)
(* that need a name: the search for a free one ends (names.py:29-37).       *)
THEOREM NamesTypes == NamesSpec => []NamesTypeOK
<1>1. NamesInit => NamesTypeOK
  <2> SUFFICES ASSUME NamesInit PROVE NamesTypeOK
    OBVIOUS
  <2>1. DOMAIN pages = {} /\ DOMAIN index = {}
    BY DEF NamesInit
  <2> QED
    BY <2>1, NamesAssumption DEF NamesInit, NamesTypeOK
<1> QED
  BY <1>1, NamesTypeNext, PTL DEF NamesSpec

-----------------------------------------------------------------------------
(* What is left of a sequence when some of its members are taken out.       *)

LEMMA SequencesGrow ==
    ASSUME NEW A, NEW G \in SUBSET Seq(A), <<>> \in G,
           \A s \in G : \A x \in A : Append(s, x) \in G
    PROVE  G = Seq(A)
<1> SUFFICES ASSUME NEW r \in Seq(A) \ G PROVE FALSE
  OBVIOUS
<1> DEFINE lengths == {Len(s) : s \in Seq(A) \ G}
<1>1. lengths \in SUBSET Nat /\ lengths # {}
  <2>1. \A s \in Seq(A) : Len(s) \in Nat
    BY LenProperties
  <2>2. Len(r) \in lengths
    OBVIOUS
  <2> QED
    BY <2>1, <2>2
<1>2. PICK n \in lengths : \A m \in lengths : n <= m
  BY <1>1, LeastOf
<1>3. PICK s \in Seq(A) \ G : Len(s) = n
  BY <1>2
<1>4. PICK t \in Seq(A), x \in A : s = Append(t, x)
  BY <1>3, SequenceEmptyOrAppend
<1>5. Len(t) \in Nat /\ Len(s) = Len(t) + 1
  BY <1>4, LenProperties, AppendProperties
<1>6. Len(t) \notin lengths
  <2>1. ~ (n <= Len(t))
    BY <1>3, <1>5
  <2> QED
    BY <1>2, <2>1
<1>7. t \in G
  BY <1>6
<1> QED
  BY <1>3, <1>4, <1>7

(* f is how Only goes through the first n members of s.                     *)
KeptAt(s, S, f, i) ==
    IF i = 0 THEN <<>>
    ELSE IF s[i] \in S THEN Append(f[i - 1], s[i]) ELSE f[i - 1]

Keeps(s, S, n, f) == f = [i \in 0 .. n |-> KeptAt(s, S, f, i)]

LEMMA KeepsGoes ==
    ASSUME NEW s, NEW S, NEW n \in Nat, NEW f, Keeps(s, S, n, f), NEW i \in 0 .. n
    PROVE  f[i] = KeptAt(s, S, f, i)
BY DEF Keeps

More(kept, x, S) == IF x \in S THEN Append(kept, x) ELSE kept

LEMMA KeptStep ==
    ASSUME NEW s, NEW S, NEW f, NEW i, i # 0
    PROVE  KeptAt(s, S, f, i) = More(f[i - 1], s[i], S)
BY Zenon DEF KeptAt, More

LEMMA KeepsLast ==
    ASSUME NEW s, NEW S, NEW n \in Nat, NEW g, Keeps(s, S, n + 1, g)
    PROVE  g[n + 1] = More(g[n], s[n + 1], S)
<1>1. PICK k \in Nat : k = n + 1 /\ k # 0 /\ k - 1 = n /\ k \in 0 .. k
  OBVIOUS
<1>2. Keeps(s, S, k, g)
  BY <1>1
<1>3. g[k] = KeptAt(s, S, g, k)
  BY <1>1, <1>2, KeepsGoes
<1>4. KeptAt(s, S, g, k) = More(g[k - 1], s[k], S)
  BY <1>1, KeptStep
<1> QED
  BY <1>1, <1>3, <1>4

LEMMA KeepsExists ==
    ASSUME NEW s, NEW S, NEW n \in Nat
    PROVE  \E f : Keeps(s, S, n, f)
<1> DEFINE bad == {m \in Nat : ~ \E f : Keeps(s, S, m, f)}
<1> SUFFICES ASSUME bad # {} PROVE FALSE
  OBVIOUS
<1>1. PICK m \in bad : \A k \in bad : m <= k
  BY LeastOf
<1>2. m # 0
  <2>1. Keeps(s, S, 0, [i \in 0 .. 0 |-> <<>>])
    BY DEF Keeps, KeptAt
  <2> QED
    BY <1>1, <2>1
<1>3. m \in Nat /\ m - 1 \in Nat /\ m - 1 \notin bad
  BY <1>1, <1>2
<1>4. PICK g : Keeps(s, S, m - 1, g)
  BY <1>3
<1> DEFINE h == [i \in 0 .. m |-> IF i < m THEN g[i] ELSE KeptAt(s, S, g, m)]
<1>5. /\ \A i \in 0 .. m - 1 : h[i] = g[i]
      /\ h[m] = KeptAt(s, S, g, m)
      /\ h = [i \in 0 .. m |-> h[i]]
  BY <1>3
<1> HIDE DEF h
<1>6. ASSUME NEW i \in 0 .. m PROVE h[i] = KeptAt(s, S, h, i)
  <2>1. i # 0 => h[i - 1] = g[i - 1]
    <3>1. i # 0 => i - 1 \in 0 .. m - 1
      BY <1>3
    <3> QED
      BY <1>5, <3>1
  <2>2. KeptAt(s, S, h, i) = KeptAt(s, S, g, i)
    BY <2>1 DEF KeptAt
  <2>3. h[i] = KeptAt(s, S, g, i)
    <3>1. CASE i = m
      BY <1>5, <3>1
    <3>2. CASE i # m
      <4>1. i \in 0 .. m - 1
        BY <1>3, <3>2
      <4> QED
        BY <1>3, <1>4, <1>5, <4>1, KeepsGoes
    <3> QED
      BY <3>1, <3>2
  <2> QED
    BY <2>2, <2>3
<1>7. Keeps(s, S, m, h)
  BY <1>5, <1>6 DEF Keeps
<1> QED
  BY <1>1, <1>7

LEMMA KeepsAgree ==
    ASSUME NEW s, NEW t, NEW S, NEW n \in Nat, NEW m \in Nat, n <= m,
           NEW f, Keeps(s, S, n, f), NEW g, Keeps(t, S, m, g),
           \A i \in 1 .. n : s[i] = t[i]
    PROVE  f[n] = g[n]
<1> DEFINE bad == {i \in 0 .. n : f[i] # g[i]}
<1> SUFFICES ASSUME bad # {} PROVE FALSE
  OBVIOUS
<1>1. bad \in SUBSET Nat
  OBVIOUS
<1>2. PICK i \in bad : \A k \in bad : i <= k
  BY <1>1, LeastOf
<1>3. i \in 0 .. n /\ i \in 0 .. m
  BY <1>2
<1>4. f[i] = KeptAt(s, S, f, i) /\ g[i] = KeptAt(t, S, g, i)
  BY <1>3, KeepsGoes
<1>5. i # 0
  BY <1>2, <1>4 DEF KeptAt
<1>6. i - 1 \in 0 .. n /\ i - 1 \notin bad /\ s[i] = t[i]
  BY <1>2, <1>3, <1>5
<1>7. f[i - 1] = g[i - 1]
  BY <1>6
<1> QED
  BY <1>2, <1>4, <1>6, <1>7 DEF KeptAt

LEMMA OnlyIs ==
    ASSUME NEW A, NEW s \in Seq(A), NEW S
    PROVE  \E f : Keeps(s, S, Len(s), f) /\ Only(s, S) = f[Len(s)]
<1> DEFINE F == CHOOSE f : f = [i \in 0 .. Len(s) |->
            IF i = 0 THEN <<>>
            ELSE IF s[i] \in S THEN Append(f[i - 1], s[i]) ELSE f[i - 1]]
<1>1. Only(s, S) = F[Len(s)]
  BY DEF Only
<1>2. PICK f : Keeps(s, S, Len(s), f)
  BY KeepsExists, LenProperties
<1>3. Keeps(s, S, Len(s), F)
  <2>1. f = [i \in 0 .. Len(s) |->
            IF i = 0 THEN <<>>
            ELSE IF s[i] \in S THEN Append(f[i - 1], s[i]) ELSE f[i - 1]]
    BY <1>2, Zenon DEF Keeps, KeptAt
  <2>2. F = [i \in 0 .. Len(s) |->
            IF i = 0 THEN <<>>
            ELSE IF s[i] \in S THEN Append(F[i - 1], s[i]) ELSE F[i - 1]]
    BY <2>1, Zenon
  <2> HIDE DEF F
  <2> QED
    BY <2>2, Zenon DEF Keeps, KeptAt
<1> HIDE DEF F
<1> QED
  BY <1>1, <1>3

(* Only, member by member.                                                  *)
LEMMA OnlyOfNone ==
    ASSUME NEW S
    PROVE  Only(<<>>, S) = <<>>
<1>1. <<>> \in Seq({}) /\ Len(<<>>) = 0
  BY EmptySeq
<1>2. PICK f : Keeps(<<>>, S, 0, f) /\ Only(<<>>, S) = f[0]
  BY <1>1, OnlyIs
<1> QED
  BY <1>2 DEF Keeps, KeptAt

LEMMA OnlyOfMore ==
    ASSUME NEW A, NEW s \in Seq(A), NEW x \in A, NEW S
    PROVE  Only(Append(s, x), S) = IF x \in S THEN Append(Only(s, S), x) ELSE Only(s, S)
<1> DEFINE t == Append(s, x)
           n == Len(s)
<1>1. /\ n \in Nat /\ t \in Seq(A) /\ Len(t) = n + 1 /\ t[n + 1] = x
      /\ \A i \in 1 .. n : s[i] = t[i]
  BY LenProperties, AppendProperties
<1>2. PICK f : Keeps(s, S, n, f) /\ Only(s, S) = f[n]
  BY OnlyIs
<1> HIDE DEF t, n
<1>3. PICK g : Keeps(t, S, n + 1, g) /\ Only(t, S) = g[n + 1]
  BY <1>1, OnlyIs
<1>4. f[n] = g[n]
  BY <1>1, <1>2, <1>3, KeepsAgree
<1>5. g[n + 1] = More(g[n], x, S)
  BY <1>1, <1>3, KeepsLast
<1> QED
  BY <1>1, <1>2, <1>3, <1>4, <1>5 DEF t, More

LEMMA OnlyTakes ==
    ASSUME NEW A, NEW S, NEW s \in Seq(A), NEW x \in A, x \in S
    PROVE  Only(Append(s, x), S) = Append(Only(s, S), x)
BY OnlyOfMore

Mems(s)  == {s[i] : i \in 1 .. Len(s)}
Apart(s) == \A i, j \in 1 .. Len(s) : s[i] = s[j] => i = j

LEMMA MemsOfMore ==
    ASSUME NEW A, NEW s \in Seq(A), NEW x \in A
    PROVE  /\ Append(s, x) \in Seq(A) /\ Append(s, x) # <<>>
           /\ Len(Append(s, x)) = Len(s) + 1 /\ Len(s) \in Nat
           /\ Mems(Append(s, x)) = Mems(s) \cup {x}
           /\ Apart(Append(s, x)) <=> Apart(s) /\ x \notin Mems(s)
<1> DEFINE t == Append(s, x)
           n == Len(s)
<1>1. /\ n \in Nat /\ t \in Seq(A) /\ Len(t) = n + 1 /\ t[n + 1] = x /\ t # <<>>
      /\ \A i \in 1 .. n : t[i] = s[i]
  BY LenProperties, AppendProperties
<1> HIDE DEF t, n
<1>2. 1 .. n + 1 = (1 .. n) \cup {n + 1} /\ n + 1 \notin 1 .. n
  BY <1>1
<1>3. Mems(t) = Mems(s) \cup {x}
  <2>1. Mems(s) = {t[i] : i \in 1 .. n}
    BY <1>1 DEF Mems, n
  <2> QED
    BY <1>1, <1>2, <2>1 DEF Mems
<1>4. Apart(t) <=> Apart(s) /\ x \notin Mems(s)
  <2>1. Apart(s) <=> \A i, j \in 1 .. n : t[i] = t[j] => i = j
    BY <1>1 DEF Apart, n
  <2>2. x \notin Mems(s) <=> \A i \in 1 .. n : t[i] # t[n + 1]
    BY <1>1 DEF Mems, n
  <2>3. Apart(t) <=> \A i, j \in (1 .. n) \cup {n + 1} : t[i] = t[j] => i = j
    BY <1>1, <1>2 DEF Apart
  <2> QED
    BY <1>2, <2>1, <2>2, <2>3
<1> QED
  BY <1>1, <1>3, <1>4 DEF t, n

LEMMA MemsOfNone == Mems(<<>>) = {} /\ Apart(<<>>) /\ Len(<<>>) = 0
<1>1. Len(<<>>) = 0
  BY EmptySeq
<1>2. 1 .. 0 = {}
  OBVIOUS
<1> QED
  BY <1>1, <1>2 DEF Mems, Apart

(* What is left is in S, was there before, is no longer, and repeats        *)
(* nothing that did not repeat.                                             *)
LEMMA OnlyKeeps ==
    ASSUME NEW A, NEW s \in Seq(A), NEW S
    PROVE  /\ Only(s, S) \in Seq(A) /\ Len(Only(s, S)) \in Nat
           /\ Mems(Only(s, S)) = Mems(s) \cap S
           /\ Len(Only(s, S)) <= Len(s)
           /\ Apart(s) => Apart(Only(s, S))
<1> DEFINE Good(r) == /\ Only(r, S) \in Seq(A)
                      /\ Mems(Only(r, S)) = Mems(r) \cap S
                      /\ Len(Only(r, S)) <= Len(r)
                      /\ Apart(r) => Apart(Only(r, S))
           G == {r \in Seq(A) : Good(r)}
<1>1. <<>> \in G
  <2>1. <<>> \in Seq(A)
    BY EmptySeq
  <2>2. Only(<<>>, S) = <<>>
    BY OnlyOfNone
  <2>3. Mems(<<>>) = Mems(<<>>) \cap S /\ Len(<<>>) <= Len(<<>>)
    BY MemsOfNone
  <2> QED
    BY <2>1, <2>2, <2>3
<1>2. ASSUME NEW r \in G, NEW x \in A PROVE Append(r, x) \in G
  <2>1. CASE x \in S
    <3>1. Only(Append(r, x), S) = Append(Only(r, S), x)
      BY <2>1, OnlyOfMore
    <3>2. Good(r) /\ r \in Seq(A)
      OBVIOUS
    <3> DEFINE o == Only(r, S)
    <3>3. /\ Append(o, x) \in Seq(A) /\ Len(Append(o, x)) = Len(o) + 1 /\ Len(o) \in Nat
          /\ Mems(Append(o, x)) = Mems(o) \cup {x}
          /\ Apart(Append(o, x)) <=> Apart(o) /\ x \notin Mems(o)
      <4> HIDE DEF o
      <4>1. o \in Seq(A)
        BY <3>2 DEF o
      <4> QED
        BY <4>1, MemsOfMore
    <3>4. /\ Append(r, x) \in Seq(A) /\ Len(Append(r, x)) = Len(r) + 1 /\ Len(r) \in Nat
          /\ Mems(Append(r, x)) = Mems(r) \cup {x}
          /\ Apart(Append(r, x)) <=> Apart(r) /\ x \notin Mems(r)
      BY <3>2, MemsOfMore
    <3>5. Len(Append(o, x)) <= Len(Append(r, x))
      BY <3>2, <3>3, <3>4
    <3>6. Mems(Append(o, x)) = Mems(Append(r, x)) \cap S
      BY <2>1, <3>2, <3>3, <3>4
    <3>7. Apart(Append(r, x)) => Apart(Append(o, x))
      BY <3>2, <3>3, <3>4
    <3> QED
      BY <3>1, <3>3, <3>4, <3>5, <3>6, <3>7
  <2>2. CASE x \notin S
    <3>1. Only(Append(r, x), S) = Only(r, S)
      BY <2>2, OnlyOfMore
    <3>2. Good(r) /\ r \in Seq(A) /\ Len(Only(r, S)) \in Nat
      BY LenProperties
    <3>4. /\ Append(r, x) \in Seq(A) /\ Len(Append(r, x)) = Len(r) + 1 /\ Len(r) \in Nat
          /\ Mems(Append(r, x)) = Mems(r) \cup {x}
          /\ Apart(Append(r, x)) <=> Apart(r) /\ x \notin Mems(r)
      BY <3>2, MemsOfMore
    <3> QED
      BY <2>2, <3>1, <3>2, <3>4
  <2> QED
    BY <2>1, <2>2
<1> HIDE DEF Good
<1>3. G = Seq(A)
  BY <1>1, <1>2, SequencesGrow
<1>4. Good(s)
  BY <1>3
<1> QED
  BY <1>4, LenProperties DEF Good

LEMMA OnlyTwice ==
    ASSUME NEW A, NEW s \in Seq(A), NEW S, NEW T
    PROVE  Only(Only(s, S), T) = Only(s, S \cap T)
<1> DEFINE G == {r \in Seq(A) : Only(Only(r, S), T) = Only(r, S \cap T)}
<1>1. <<>> \in G
  <2>1. <<>> \in Seq(A)
    BY EmptySeq
  <2> QED
    BY <2>1, OnlyOfNone
<1>2. ASSUME NEW r \in G, NEW x \in A PROVE Append(r, x) \in G
  <2>1. r \in Seq(A) /\ Only(r, S) \in Seq(A) /\ Append(r, x) \in Seq(A)
    BY OnlyKeeps, MemsOfMore
  <2>2. Only(Append(r, x), S) = IF x \in S THEN Append(Only(r, S), x) ELSE Only(r, S)
    BY <2>1, OnlyOfMore
  <2>3. Only(Append(r, x), S \cap T)
            = IF x \in S \cap T THEN Append(Only(r, S \cap T), x) ELSE Only(r, S \cap T)
    BY <2>1, OnlyOfMore
  <2>4. Only(Append(Only(r, S), x), T)
            = IF x \in T THEN Append(Only(Only(r, S), T), x) ELSE Only(Only(r, S), T)
    BY <2>1, OnlyOfMore
  <2>5. Only(Only(r, S), T) = Only(r, S \cap T)
    OBVIOUS
  <2>6. CASE x \in S
    <3>1. Only(Only(Append(r, x), S), T) = Only(Append(Only(r, S), x), T)
      BY <2>2, <2>6
    <3>2. Only(Append(r, x), S \cap T) = Only(Only(Append(r, x), S), T)
      BY <2>3, <2>4, <2>5, <2>6, <3>1, Zenon
    <3> QED
      BY <2>1, <3>2
  <2>7. CASE x \notin S
    <3>1. Only(Only(Append(r, x), S), T) = Only(Only(r, S), T)
      BY <2>2, <2>7
    <3>2. Only(Append(r, x), S \cap T) = Only(r, S \cap T)
      BY <2>3, <2>7
    <3> QED
      BY <2>1, <2>5, <3>1, <3>2
  <2> QED
    BY <2>6, <2>7
<1>3. G = Seq(A)
  <2> HIDE DEF G
  <2>1. G \in SUBSET Seq(A)
    BY DEF G
  <2> QED
    BY <1>1, <1>2, <2>1, SequencesGrow
<1> QED
  BY <1>3

(* How many are left.                                                       *)
LEMMA OnlyCounts ==
    ASSUME NEW A, NEW s \in Seq(A), NEW S
    PROVE  Len(Only(s, S)) = Cardinality({i \in 1 .. Len(s) : s[i] \in S})
<1> DEFINE places(r) == {i \in 1 .. Len(r) : r[i] \in S}
           G == {r \in Seq(A) : Len(Only(r, S)) = Cardinality(places(r)) /\ IsFiniteSet(places(r))}
<1>1. <<>> \in G
  <2>1. <<>> \in Seq(A) /\ places(<<>>) = {}
    BY EmptySeq
  <2> QED
    BY <2>1, OnlyOfNone, MemsOfNone, FS_EmptySet
<1>2. ASSUME NEW r \in G, NEW x \in A PROVE Append(r, x) \in G
  <2> DEFINE t == Append(r, x)
             n == Len(r)
  <2>1. /\ r \in Seq(A) /\ n \in Nat /\ t \in Seq(A) /\ Len(t) = n + 1 /\ t[n + 1] = x
        /\ \A i \in 1 .. n : t[i] = r[i]
    BY LenProperties, AppendProperties
  <2>2. Only(t, S) = IF x \in S THEN Append(Only(r, S), x) ELSE Only(r, S)
    BY <2>1, OnlyOfMore
  <2>3. Only(r, S) \in Seq(A) /\ Len(Append(Only(r, S), x)) = Len(Only(r, S)) + 1
    BY <2>1, OnlyKeeps, AppendProperties
  <2>4. /\ places(t) = places(r) \cup (IF x \in S THEN {n + 1} ELSE {})
        /\ n + 1 \notin places(r)
    <3> HIDE DEF t
    <3>1. 1 .. n + 1 = (1 .. n) \cup {n + 1} /\ n + 1 \notin 1 .. n
      BY <2>1
    <3> QED
      BY <2>1, <3>1
  <2>5. Cardinality(places(r) \cup {n + 1}) = Cardinality(places(r)) + 1 /\ IsFiniteSet(places(r) \cup {n + 1})
    BY <2>4, FS_AddElement
  <2>6. Len(Only(r, S)) = Cardinality(places(r)) /\ IsFiniteSet(places(r))
    OBVIOUS
  <2> HIDE DEF t, n, places
  <2>7. Len(Only(t, S)) = Cardinality(places(t)) /\ IsFiniteSet(places(t))
    BY <2>2, <2>3, <2>4, <2>5, <2>6
  <2> QED
    BY <2>1, <2>7 DEF t
<1> HIDE DEF places
<1>3. G = Seq(A)
  BY <1>1, <1>2, SequencesGrow
<1> QED
  BY <1>3 DEF places

LEMMA ApartCounts ==
    ASSUME NEW A, NEW s \in Seq(A), Apart(s)
    PROVE  IsFiniteSet(Mems(s)) /\ Cardinality(Mems(s)) = Len(s)
<1> DEFINE G == {r \in Seq(A) :
                    Apart(r) => IsFiniteSet(Mems(r)) /\ Cardinality(Mems(r)) = Len(r)}
<1>1. <<>> \in G
  <2>1. <<>> \in Seq(A)
    BY EmptySeq
  <2> QED
    BY <2>1, MemsOfNone, FS_EmptySet
<1>2. ASSUME NEW r \in G, NEW x \in A PROVE Append(r, x) \in G
  <2>1. /\ r \in Seq(A) /\ Append(r, x) \in Seq(A) /\ Len(Append(r, x)) = Len(r) + 1
        /\ Mems(Append(r, x)) = Mems(r) \cup {x}
        /\ Apart(Append(r, x)) <=> Apart(r) /\ x \notin Mems(r)
    BY MemsOfMore
  <2>2. IsFiniteSet(Mems(r)) /\ x \notin Mems(r)
            => /\ IsFiniteSet(Mems(r) \cup {x})
               /\ Cardinality(Mems(r) \cup {x}) = Cardinality(Mems(r)) + 1
    BY FS_AddElement
  <2> QED
    BY <2>1, <2>2
<1>3. G = Seq(A)
  BY <1>1, <1>2, SequencesGrow
<1> QED
  BY <1>3

(* The head taken off.                                                      *)
LEMMA TailKeeps ==
    ASSUME NEW A, NEW s \in Seq(A), s # <<>>
    PROVE  /\ Tail(s) \in Seq(A) /\ Len(Tail(s)) = Len(s) - 1 /\ Len(s) \in Nat
           /\ s[1] \in Mems(s)
           /\ Apart(s) => Apart(Tail(s)) /\ Mems(Tail(s)) = Mems(s) \ {s[1]}
<1> DEFINE t == Tail(s)
           n == Len(s)
<1>1. /\ t \in Seq(A) /\ n \in Nat /\ n >= 1 /\ Len(t) = n - 1
      /\ \A i \in 1 .. Len(t) : t[i] = s[i + 1]
  BY HeadTailProperties, LenProperties, EmptySeq
<1> HIDE DEF t
<1>2. s[1] \in Mems(s)
  BY <1>1 DEF Mems
<1>3. ASSUME Apart(s) PROVE Apart(t)
  BY <1>1, <1>3 DEF Apart
<1>4. ASSUME Apart(s) PROVE Mems(t) = Mems(s) \ {s[1]}
  <2>1. ASSUME NEW a \in Mems(t) PROVE a \in Mems(s) \ {s[1]}
    <3>1. PICK i \in 1 .. n - 1 : a = s[i + 1]
      BY <1>1 DEF Mems
    <3>2. i + 1 \in 1 .. n /\ i + 1 # 1 /\ 1 \in 1 .. n
      BY <1>1
    <3> QED
      BY <1>4, <3>1, <3>2 DEF Mems, Apart
  <2>2. ASSUME NEW a \in Mems(s) \ {s[1]} PROVE a \in Mems(t)
    <3>1. PICK i \in 1 .. n : a = s[i]
      BY DEF Mems
    <3>2. i # 1
      BY <2>2, <3>1
    <3>3. i - 1 \in 1 .. Len(t) /\ i - 1 + 1 = i
      BY <1>1, <3>1, <3>2
    <3> QED
      BY <1>1, <3>1, <3>3 DEF Mems
  <2> QED
    BY <2>1, <2>2
<1> QED
  BY <1>1, <1>2, <1>3, <1>4 DEF t

-----------------------------------------------------------------------------
(* The throttle.  Pruning the table loses nothing that still counts: in     *)
(* the window, it holds the failures of the history, member by member.      *)
SameFailures == \A a \in Address : Only(times[a], Window) = Only(wrong[a], Window)

ThrottleInv ==
    /\ ThrottleTypeOK
    /\ Apart(order) /\ Len(order) <= MaxTracked
    /\ SameFailures

LEMMA TrackedIs ==
    ASSUME order \in Seq(Address)
    PROVE  Tracked = Mems(order)
<1>1. DOMAIN order = 1 .. Len(order)
  BY LenProperties
<1> QED
  BY <1>1 DEF Tracked, Mems

LEMMA RecentIs ==
    ASSUME ThrottleTypeOK, NEW a \in Address
    PROVE  /\ Recent(a) \in Seq(0 .. MaxNow)
           /\ Len(Recent(a)) \in Nat /\ Len(Recent(a)) <= MaxFailures
           /\ Recent(a) # <<>> => a \in Tracked
           /\ Only(Recent(a), Window) = Recent(a)
<1>1. times[a] \in Seq(0 .. MaxNow) /\ Len(times[a]) <= MaxFailures
  BY DEF ThrottleTypeOK
<1>2. /\ Recent(a) \in Seq(0 .. MaxNow) /\ Len(Recent(a)) \in Nat
      /\ Len(Recent(a)) <= Len(times[a])
  BY <1>1, OnlyKeeps DEF Recent
<1>3. Len(times[a]) \in Nat /\ MaxFailures \in Nat
  BY <1>1, LenProperties, ThrottleAssumption
<1>4. ASSUME Recent(a) # <<>> PROVE a \in Tracked
  <2>1. times[a] # <<>>
    BY <1>4, OnlyOfNone DEF Recent
  <2> QED
    BY <2>1 DEF ThrottleTypeOK
<1>5. Only(Recent(a), Window) = Recent(a)
  <2>1. Only(Only(times[a], Window), Window) = Only(times[a], Window \cap Window)
    BY <1>1, OnlyTwice
  <2>2. Window \cap Window = Window
    OBVIOUS
  <2> QED
    BY <2>1, <2>2 DEF Recent
<1> QED
  BY <1>1, <1>2, <1>3, <1>4, <1>5

LEMMA WithoutIs ==
    ASSUME ThrottleTypeOK, Apart(order), NEW a \in Address
    PROVE  /\ Without(a) \in Seq(Address) /\ Apart(Without(a))
           /\ Mems(Without(a)) = Tracked \ {a}
           /\ Len(Without(a)) \in Nat /\ Len(order) \in Nat
           /\ Len(Without(a)) <= Len(order)
           /\ a \in Tracked => Len(Without(a)) + 1 <= Len(order)
<1>1. order \in Seq(Address) /\ Tracked = Mems(order)
  BY TrackedIs DEF ThrottleTypeOK
<1>2. /\ Without(a) \in Seq(Address) /\ Apart(Without(a))
      /\ Mems(Without(a)) = Mems(order) \cap (Address \ {a})
      /\ Len(Without(a)) \in Nat /\ Len(order) \in Nat
      /\ Len(Without(a)) <= Len(order)
  BY <1>1, OnlyKeeps, LenProperties DEF Without
<1>3. Mems(order) \subseteq Address
  BY <1>1, ElementOfSeq DEF Mems
<1>4. Mems(Without(a)) = Mems(order) \ {a}
  BY <1>2, <1>3
<1>5. ASSUME a \in Mems(order) PROVE Len(Without(a)) + 1 <= Len(order)
  <2>1. IsFiniteSet(Mems(order)) /\ Cardinality(Mems(order)) = Len(order)
    BY <1>1, ApartCounts
  <2>2. Cardinality(Mems(Without(a))) = Len(Without(a))
    BY <1>2, ApartCounts
  <2>3. Cardinality(Mems(order) \ {a}) = Cardinality(Mems(order)) - 1
    BY <1>5, <2>1, FS_RemoveElement
  <2>4. Len(Without(a)) = Len(order) - 1
    BY <1>4, <2>1, <2>2, <2>3, Zenon
  <2> QED
    BY <1>2, <2>4
<1> QED
  BY <1>1, <1>2, <1>4, <1>5

LEMMA ThrottleInitInv == ThrottleInit => ThrottleInv
<1> SUFFICES ASSUME ThrottleInit PROVE ThrottleInv
  OBVIOUS
<1>1. Mems(order) = {} /\ Apart(order) /\ Len(order) = 0
  BY MemsOfNone DEF ThrottleInit
<1>2. order \in Seq(Address)
  BY EmptySeq DEF ThrottleInit
<1>3. <<>> \in Seq(0 .. MaxNow) /\ Len(<<>>) = 0
  BY EmptySeq
<1>4. Tracked = {}
  BY <1>1, <1>2, TrackedIs
<1>5. ThrottleTypeOK
  BY <1>2, <1>3, <1>4, ThrottleAssumption DEF ThrottleInit, ThrottleTypeOK
<1>6. SameFailures
  BY DEF ThrottleInit, SameFailures
<1> QED
  BY <1>1, <1>5, <1>6, ThrottleAssumption DEF ThrottleInv

(* What a table needs to be a state of the throttle again.                  *)
LEMMA TableAgain ==
    ASSUME now' \in 0 .. MaxNow, order' \in Seq(Address),
           times' \in [Address -> Seq(0 .. MaxNow)],
           wrong' \in [Address -> Seq(0 .. MaxNow)],
           Apart(order'), Len(order') <= MaxTracked,
           \A b \in Address : /\ Len(times'[b]) <= MaxFailures
                              /\ times'[b] # <<>> <=> b \in Mems(order')
                              /\ Only(times'[b], Window') = Only(wrong'[b], Window')
    PROVE  ThrottleInv'
<1>1. DOMAIN order' = 1 .. Len(order')
  BY LenProperties
<1>2. Tracked' = Mems(order')
  BY <1>1 DEF Tracked, Mems
<1>3. ThrottleTypeOK'
  BY <1>2 DEF ThrottleTypeOK
<1>4. SameFailures'
  BY DEF SameFailures
<1> QED
  BY <1>3, <1>4 DEF ThrottleInv

LEMMA TooManyInv ==
    ASSUME ThrottleInv, NEW a \in Address, TooMany(a)
    PROVE  ThrottleInv'
<1>1. /\ ThrottleTypeOK /\ Apart(order) /\ Len(order) <= MaxTracked /\ SameFailures
      /\ order \in Seq(Address) /\ times \in [Address -> Seq(0 .. MaxNow)]
      /\ Tracked = Mems(order)
  BY TrackedIs DEF ThrottleInv, ThrottleTypeOK
<1>2. /\ Recent(a) \in Seq(0 .. MaxNow) /\ Len(Recent(a)) <= MaxFailures
      /\ Recent(a) # <<>> => a \in Tracked
      /\ Only(Recent(a), Window) = Recent(a)
  BY <1>1, RecentIs
<1>3. Recent(a) # <<>> /\ a \in Tracked
  <2>1. Len(<<>>) = 0
    BY MemsOfNone
  <2> QED
    BY <1>2, <2>1, ThrottleAssumption DEF TooMany, Throttled
<1>4. /\ order' = Append(Without(a), a)
      /\ times' = [times EXCEPT ![a] = Recent(a)]
      /\ now' = now /\ wrong' = wrong
  BY <1>3 DEF TooMany, Touch
<1>5. /\ order' \in Seq(Address) /\ Apart(order') /\ Mems(order') = Tracked
      /\ Len(order') <= MaxTracked
  <2>1. /\ Without(a) \in Seq(Address) /\ Apart(Without(a))
        /\ Mems(Without(a)) = Tracked \ {a}
        /\ Len(Without(a)) + 1 <= Len(order)
        /\ Len(Without(a)) \in Nat /\ Len(order) \in Nat
    BY <1>1, <1>3, WithoutIs
  <2>2. /\ order' \in Seq(Address) /\ Len(order') = Len(Without(a)) + 1
        /\ Mems(order') = Mems(Without(a)) \cup {a}
        /\ Apart(order') <=> Apart(Without(a)) /\ a \notin Mems(Without(a))
    BY <1>4, <2>1, MemsOfMore
  <2> QED
    BY <1>1, <1>3, <2>1, <2>2, ThrottleAssumption
<1>6. Window' = Window
  BY <1>4 DEF Window
<1>7. ASSUME NEW b \in Address
      PROVE  /\ times'[b] \in Seq(0 .. MaxNow)
             /\ Len(times'[b]) <= MaxFailures
             /\ times'[b] # <<>> <=> b \in Mems(order')
             /\ Only(times'[b], Window') = Only(wrong'[b], Window')
  <2>1. CASE b = a
    <3>1. times'[b] = Recent(a)
      BY <1>1, <1>4, <2>1
    <3>2. Recent(a) = Only(wrong[a], Window)
      BY <1>1 DEF SameFailures, Recent
    <3> QED
      BY <1>2, <1>3, <1>4, <1>5, <1>6, <2>1, <3>1, <3>2
  <2>2. CASE b # a
    <3>1. times'[b] = times[b]
      BY <1>1, <1>4, <2>2
    <3>2. Only(times[b], Window) = Only(wrong[b], Window)
      BY <1>1 DEF SameFailures
    <3>3. times[b] \in Seq(0 .. MaxNow) /\ Len(times[b]) <= MaxFailures
          /\ (times[b] # <<>> <=> b \in Tracked)
      BY <1>1 DEF ThrottleTypeOK
    <3> QED
      BY <1>4, <1>5, <1>6, <3>1, <3>2, <3>3
  <2> QED
    BY <2>1, <2>2
<1>8. times' \in [Address -> Seq(0 .. MaxNow)]
  BY <1>1, <1>2, <1>4
<1>9. now' \in 0 .. MaxNow /\ wrong' \in [Address -> Seq(0 .. MaxNow)]
  BY <1>1, <1>4 DEF ThrottleTypeOK
<1> QED
  BY <1>5, <1>7, <1>8, <1>9, TableAgain

(* Only the newest key and older ones are in the table, and the newest is   *)
(* never the one pushed out.                                                *)
LEMMA PushedOut ==
    ASSUME ThrottleTypeOK, Apart(order), Len(order) <= MaxTracked,
           NEW a \in Address, order' = Bounded(Append(Without(a), a))
    PROVE  /\ order' \in Seq(Address) /\ Apart(order') /\ Len(order') <= MaxTracked
           /\ a \in Mems(order')
           /\ Mems(order') \subseteq Tracked \cup {a}
           /\ Tracked' = Mems(order')
<1> DEFINE k == Append(Without(a), a)
<1>1. /\ Without(a) \in Seq(Address) /\ Apart(Without(a))
      /\ Mems(Without(a)) = Tracked \ {a}
      /\ Len(Without(a)) \in Nat /\ Len(order) \in Nat
      /\ Len(Without(a)) <= Len(order)
  BY WithoutIs
<1>2. /\ k \in Seq(Address) /\ Len(k) = Len(Without(a)) + 1 /\ k # <<>>
      /\ Mems(k) = Mems(Without(a)) \cup {a}
      /\ Apart(k) <=> Apart(Without(a)) /\ a \notin Mems(Without(a))
      /\ k[Len(k)] = a
  BY <1>1, MemsOfMore, AppendProperties
<1>3. Apart(k) /\ Mems(k) = Tracked \cup {a} /\ order' = Bounded(k)
  BY <1>1, <1>2
<1> HIDE DEF k
<1>4. /\ order' \in Seq(Address) /\ Apart(order') /\ Len(order') <= MaxTracked
      /\ a \in Mems(order') /\ Mems(order') \subseteq Tracked \cup {a}
  <2>1. CASE Len(k) > MaxTracked
    <3>1. order' = Tail(k)
      BY <1>3, <2>1 DEF Bounded
    <3>2. /\ order' \in Seq(Address) /\ Len(order') = Len(k) - 1 /\ Len(k) \in Nat
          /\ Apart(order') /\ Mems(order') = Mems(k) \ {k[1]}
      BY <1>2, <1>3, <3>1, TailKeeps
    <3>3. k[1] # a
      <4>1. 1 \in 1 .. Len(k) /\ Len(k) \in 1 .. Len(k) /\ Len(k) # 1
        BY <2>1, <3>2, ThrottleAssumption
      <4> QED
        BY <1>2, <1>3, <4>1 DEF Apart
    <3>4. Len(order') <= MaxTracked
      BY <1>1, <1>2, <3>2, ThrottleAssumption
    <3> QED
      BY <1>3, <3>2, <3>3, <3>4
  <2>2. CASE ~ (Len(k) > MaxTracked)
    <3>1. order' = k
      BY <1>3, <2>2 DEF Bounded
    <3>2. Len(order') <= MaxTracked
      BY <1>1, <1>2, <2>2, <3>1, ThrottleAssumption
    <3> QED
      BY <1>2, <1>3, <3>1, <3>2
  <2> QED
    BY <2>1, <2>2
<1>5. DOMAIN order' = 1 .. Len(order')
  BY <1>4, LenProperties
<1> QED
  BY <1>4, <1>5 DEF Tracked, Mems

LEMMA WrongKeyInv ==
    ASSUME ThrottleInv, NEW a \in Address, WrongKey(a)
    PROVE  ThrottleInv'
<1>1. /\ ThrottleTypeOK /\ Apart(order) /\ Len(order) <= MaxTracked /\ SameFailures
      /\ order \in Seq(Address) /\ now \in 0 .. MaxNow
      /\ times \in [Address -> Seq(0 .. MaxNow)]
      /\ wrong \in [Address -> Seq(0 .. MaxNow)]
      /\ Tracked = Mems(order)
  BY TrackedIs DEF ThrottleInv, ThrottleTypeOK
<1>2. /\ Recent(a) \in Seq(0 .. MaxNow) /\ Len(Recent(a)) \in Nat
      /\ Len(Recent(a)) + 1 <= MaxFailures
      /\ Only(Recent(a), Window) = Recent(a)
  <2>1. ~ (Len(Recent(a)) >= MaxFailures)
    BY DEF WrongKey, Throttled
  <2> QED
    BY <1>1, <2>1, RecentIs, ThrottleAssumption
<1>3. /\ order' = Bounded(Append(Without(a), a))
      /\ times' = Kept(times, a, Append(Recent(a), now))
      /\ wrong' = Kept(wrong, a, Append(wrong[a], now))
      /\ now' = now
  BY DEF WrongKey
<1>4. /\ order' \in Seq(Address) /\ Apart(order') /\ Len(order') <= MaxTracked
      /\ a \in Mems(order') /\ Mems(order') \subseteq Tracked \cup {a}
      /\ Tracked' = Mems(order')
  BY <1>1, <1>3, PushedOut
<1>5. Window' = Window /\ now \in Window
  BY <1>1, <1>3, ThrottleAssumption DEF Window
<1>6. /\ Append(Recent(a), now) \in Seq(0 .. MaxNow)
      /\ Append(Recent(a), now) # <<>>
      /\ Len(Append(Recent(a), now)) <= MaxFailures
      /\ Append(wrong[a], now) \in Seq(0 .. MaxNow)
  <2>1. /\ Append(Recent(a), now) \in Seq(0 .. MaxNow)
        /\ Append(Recent(a), now) # <<>>
        /\ Len(Append(Recent(a), now)) = Len(Recent(a)) + 1
    BY <1>1, <1>2, MemsOfMore
  <2>2. Append(wrong[a], now) \in Seq(0 .. MaxNow)
    BY <1>1, MemsOfMore
  <2> QED
    BY <1>2, <2>1, <2>2
<1>7. Only(Append(Recent(a), now), Window) = Only(Append(wrong[a], now), Window)
  <2>1. Only(Append(Recent(a), now), Window) = Append(Only(Recent(a), Window), now)
    BY <1>1, <1>2, <1>5, OnlyTakes
  <2>2. Only(Append(wrong[a], now), Window) = Append(Only(wrong[a], Window), now)
    <3>1. wrong[a] \in Seq(0 .. MaxNow) /\ now \in 0 .. MaxNow /\ now \in Window
      BY <1>1, <1>5
    <3> QED
      BY <3>1, OnlyTakes
  <2>3. Only(wrong[a], Window) = Recent(a)
    BY <1>1 DEF SameFailures, Recent
  <2> QED
    BY <1>2, <2>1, <2>2, <2>3
<1>8. ASSUME NEW b \in Address
      PROVE  /\ times'[b] \in Seq(0 .. MaxNow) /\ wrong'[b] \in Seq(0 .. MaxNow)
             /\ Len(times'[b]) <= MaxFailures
             /\ times'[b] # <<>> <=> b \in Mems(order')
             /\ Only(times'[b], Window') = Only(wrong'[b], Window')
  <2>1. CASE b = a
    <3>1. times'[b] = Append(Recent(a), now) /\ wrong'[b] = Append(wrong[a], now)
      BY <1>3, <2>1 DEF Kept
    <3> QED
      BY <1>4, <1>5, <1>6, <1>7, <2>1, <3>1
  <2>2. CASE b # a /\ b \in Tracked \ Tracked'
    <3>1. times'[b] = <<>> /\ wrong'[b] = <<>>
      BY <1>3, <2>2 DEF Kept
    <3>2. <<>> \in Seq(0 .. MaxNow) /\ Len(<<>>) <= MaxFailures
      BY EmptySeq, MemsOfNone, ThrottleAssumption
    <3> QED
      BY <1>4, <2>2, <3>1, <3>2
  <2>3. CASE b # a /\ b \notin Tracked \ Tracked'
    <3>1. times'[b] = times[b] /\ wrong'[b] = wrong[b]
      BY <1>3, <2>3 DEF Kept
    <3>2. b \in Mems(order') <=> b \in Tracked
      BY <1>4, <2>3
    <3>3. Only(times[b], Window) = Only(wrong[b], Window)
      BY <1>1 DEF SameFailures
    <3>4. /\ times[b] \in Seq(0 .. MaxNow) /\ wrong[b] \in Seq(0 .. MaxNow)
          /\ Len(times[b]) <= MaxFailures
          /\ times[b] # <<>> <=> b \in Tracked
      BY <1>1 DEF ThrottleTypeOK
    <3> QED
      BY <1>5, <3>1, <3>2, <3>3, <3>4
  <2> QED
    BY <2>1, <2>2, <2>3
<1>9. /\ times' \in [Address -> Seq(0 .. MaxNow)]
      /\ wrong' \in [Address -> Seq(0 .. MaxNow)]
  BY <1>3, <1>8 DEF Kept
<1> QED
  BY <1>1, <1>3, <1>4, <1>8, <1>9, TableAgain

LEMMA RightKeyInv ==
    ASSUME ThrottleInv, NEW a \in Address, RightKey(a)
    PROVE  ThrottleInv'
<1>1. /\ ThrottleTypeOK /\ Apart(order) /\ Len(order) <= MaxTracked /\ SameFailures
      /\ order \in Seq(Address) /\ now \in 0 .. MaxNow
      /\ times \in [Address -> Seq(0 .. MaxNow)]
      /\ wrong \in [Address -> Seq(0 .. MaxNow)]
  BY DEF ThrottleInv, ThrottleTypeOK
<1>2. /\ order' = Without(a) /\ now' = now
      /\ times' = [times EXCEPT ![a] = <<>>]
      /\ wrong' = [wrong EXCEPT ![a] = <<>>]
  BY DEF RightKey
<1>3. /\ order' \in Seq(Address) /\ Apart(order') /\ Len(order') <= MaxTracked
      /\ Mems(order') = Tracked \ {a}
  BY <1>1, <1>2, WithoutIs, ThrottleAssumption
<1>4. Window' = Window
  BY <1>2 DEF Window
<1>5. <<>> \in Seq(0 .. MaxNow) /\ Len(<<>>) <= MaxFailures
  BY EmptySeq, MemsOfNone, ThrottleAssumption
<1>6. ASSUME NEW b \in Address
      PROVE  /\ Len(times'[b]) <= MaxFailures
             /\ times'[b] # <<>> <=> b \in Mems(order')
             /\ Only(times'[b], Window') = Only(wrong'[b], Window')
  <2>1. CASE b = a
    <3>1. times'[b] = <<>> /\ wrong'[b] = <<>>
      BY <1>1, <1>2, <2>1
    <3> QED
      BY <1>3, <1>5, <2>1, <3>1
  <2>2. CASE b # a
    <3>1. times'[b] = times[b] /\ wrong'[b] = wrong[b]
      BY <1>1, <1>2, <2>2
    <3>2. Only(times[b], Window) = Only(wrong[b], Window)
      BY <1>1 DEF SameFailures
    <3>3. Len(times[b]) <= MaxFailures /\ (times[b] # <<>> <=> b \in Tracked)
      BY <1>1 DEF ThrottleTypeOK
    <3> QED
      BY <1>3, <1>4, <2>2, <3>1, <3>2, <3>3
  <2> QED
    BY <2>1, <2>2
<1>7. /\ times' \in [Address -> Seq(0 .. MaxNow)]
      /\ wrong' \in [Address -> Seq(0 .. MaxNow)]
  BY <1>1, <1>2, <1>5
<1> QED
  BY <1>1, <1>2, <1>3, <1>6, <1>7, TableAgain

(* A second later a failure that has left the window leaves both.           *)
LEMMA SecondGoesInv ==
    ASSUME ThrottleInv, SecondGoes
    PROVE  ThrottleInv'
<1>1. /\ ThrottleTypeOK /\ Apart(order) /\ Len(order) <= MaxTracked /\ SameFailures
      /\ order \in Seq(Address) /\ now \in 0 .. MaxNow
      /\ times \in [Address -> Seq(0 .. MaxNow)]
      /\ wrong \in [Address -> Seq(0 .. MaxNow)]
      /\ Tracked = Mems(order)
  BY TrackedIs DEF ThrottleInv, ThrottleTypeOK
<1>2. /\ order' = order /\ times' = times /\ wrong' = wrong
      /\ now' = now + 1 /\ now < MaxNow
  BY DEF SecondGoes
<1>3. Window \cap Window' = Window'
  BY <1>1, <1>2, ThrottleAssumption DEF Window
<1>4. ASSUME NEW b \in Address
      PROVE  /\ Len(times'[b]) <= MaxFailures
             /\ times'[b] # <<>> <=> b \in Mems(order')
             /\ Only(times'[b], Window') = Only(wrong'[b], Window')
  <2>1. /\ times[b] \in Seq(0 .. MaxNow) /\ wrong[b] \in Seq(0 .. MaxNow)
        /\ Len(times[b]) <= MaxFailures
        /\ times[b] # <<>> <=> b \in Tracked
    BY <1>1 DEF ThrottleTypeOK
  <2>2. Only(Only(times[b], Window), Window') = Only(times[b], Window \cap Window')
    BY <2>1, OnlyTwice
  <2>3. Only(Only(wrong[b], Window), Window') = Only(wrong[b], Window \cap Window')
    BY <2>1, OnlyTwice
  <2>4. Only(times[b], Window) = Only(wrong[b], Window)
    BY <1>1 DEF SameFailures
  <2> QED
    BY <1>1, <1>2, <1>3, <2>1, <2>2, <2>3, <2>4
<1>5. now' \in 0 .. MaxNow
  BY <1>1, <1>2, ThrottleAssumption
<1> QED
  BY <1>1, <1>2, <1>4, <1>5, TableAgain

LEMMA ThrottleNextInv == ThrottleInv /\ [ThrottleNext]_throttleVars => ThrottleInv'
<1> SUFFICES ASSUME ThrottleInv, [ThrottleNext]_throttleVars PROVE ThrottleInv'
  OBVIOUS
<1>1. ASSUME NEW a \in Address, TooMany(a) PROVE ThrottleInv'
  BY <1>1, TooManyInv
<1>2. ASSUME NEW a \in Address, WrongKey(a) PROVE ThrottleInv'
  BY <1>2, WrongKeyInv
<1>3. ASSUME NEW a \in Address, RightKey(a) PROVE ThrottleInv'
  BY <1>3, RightKeyInv
<1>4. CASE SecondGoes
  BY <1>4, SecondGoesInv
<1>5. CASE UNCHANGED throttleVars
  BY <1>5 DEF throttleVars, ThrottleInv, ThrottleTypeOK, SameFailures, Tracked, Window
<1> QED
  BY <1>1, <1>2, <1>3, <1>4, <1>5 DEF ThrottleNext

LEMMA ThrottleHolds == ThrottleSpec => []ThrottleInv
<1> QED
  BY ThrottleInitInv, ThrottleNextInv, PTL DEF ThrottleSpec

(* The throttle keeps to its types (api/auth.py:43-60): no address has more *)
(* than MaxFailures recorded, and a key of the table has at least one.      *)
THEOREM ThrottleTypes == ThrottleSpec => []ThrottleTypeOK
<1>1. ThrottleInv => ThrottleTypeOK
  BY DEF ThrottleInv
<1> QED
  BY <1>1, ThrottleHolds, PTL

(* However many addresses send wrong keys, the table stays within           *)
(* MaxTracked and holds none twice (auth.py:54-60).                         *)
THEOREM TheTableIsBounded == ThrottleSpec => []TableIsBounded
<1>1. ThrottleInv => TableIsBounded
  <2> SUFFICES ASSUME ThrottleInv PROVE TableIsBounded
    OBVIOUS
  <2>1. order \in Seq(Address) /\ Apart(order) /\ Len(order) <= MaxTracked
    BY DEF ThrottleInv, ThrottleTypeOK
  <2>2. Cardinality(Mems(order)) = Len(order) /\ Tracked = Mems(order)
    BY <2>1, ApartCounts, TrackedIs
  <2> QED
    BY <2>1, <2>2 DEF TableIsBounded
<1> QED
  BY <1>1, ThrottleHolds, PTL

(* For any number of addresses, failures and seconds: who waits has earned  *)
(* it, and who has earned it waits (auth.py:43-101).                        *)
THEOREM WaitsAreEarned == ThrottleSpec => []WaitIsEarned
<1>1. ThrottleInv => WaitIsEarned
  <2> SUFFICES ASSUME ThrottleInv, NEW a \in Address
               PROVE  Throttled(a) <=> Cardinality(WrongLately(a)) >= MaxFailures
    BY DEF WaitIsEarned
  <2>1. wrong[a] \in Seq(0 .. MaxNow) /\ now \in 0 .. MaxNow
    BY DEF ThrottleInv, ThrottleTypeOK
  <2>2. Recent(a) = Only(wrong[a], Window)
    BY DEF ThrottleInv, SameFailures, Recent
  <2>3. Len(Only(wrong[a], Window))
            = Cardinality({i \in 1 .. Len(wrong[a]) : wrong[a][i] \in Window})
    BY <2>1, OnlyCounts
  <2>4. DOMAIN wrong[a] = 1 .. Len(wrong[a])
    BY <2>1, LenProperties
  <2>5. ASSUME NEW i \in 1 .. Len(wrong[a])
        PROVE  wrong[a][i] \in Window <=> now < wrong[a][i] + WindowS
    <3>1. wrong[a][i] \in 0 .. MaxNow
      BY <2>1, ElementOfSeq
    <3> QED
      BY <2>1, <3>1, ThrottleAssumption DEF Window
  <2>6. WrongLately(a) = {i \in 1 .. Len(wrong[a]) : wrong[a][i] \in Window}
    BY <2>4, <2>5 DEF WrongLately
  <2> QED
    BY <2>2, <2>3, <2>6 DEF Throttled
<1> QED
  BY <1>1, ThrottleHolds, PTL

-----------------------------------------------------------------------------
(* The parts together.                                                      *)

LEMMA PartsStart ==
    ASSUME Init
    PROVE  ExportInit /\ ThrottleInit /\ NamesInit /\ AcquireInit /\ CuesInit
<1>1. ExportInit /\ ThrottleInit /\ NamesInit /\ CuesInit
  BY DEF Init
<1>2. AcquireInit
  <2>1. CASE part = "acquire"
    BY <2>1 DEF Init
  <2>2. CASE part # "acquire"
    <3>1. [wired |-> TRUE, manual |-> {}, auto |-> {}, declared |-> NoLang, density |-> 0]
              \in {m \in Meta : m.wired}
      BY DEF Meta
    <3>2. meta = CHOOSE m \in Meta : m.wired
      BY <2>2 DEF Init
    <3>3. meta \in Meta
      BY <3>1, <3>2
    <3> QED
      BY <2>2, <3>3 DEF Init, AcquireInit
  <2> QED
    BY <2>1, <2>2
<1> QED
  BY <1>1, <1>2

(* What is run as MCParts is each of the parts: what holds of a part holds  *)
(* of the run, so the theorems about a part are about its runs.             *)
THEOREM PartsAreParts ==
    Spec => ExportSpec /\ ThrottleSpec /\ NamesSpec /\ AcquireSpec /\ CuesSpec
<1>1. Init => ExportInit /\ ThrottleInit /\ NamesInit /\ AcquireInit /\ CuesInit
  BY PartsStart
<1>2. [Next]_partsVars =>
        /\ [ExportNext]_exportVars /\ [ThrottleNext]_throttleVars
        /\ [NamesNext]_namesVars /\ [AcquireNext]_acquireVars /\ [CuesNext]_cuesVars
  <2>1. CASE Next
    BY <2>1 DEF Next
  <2>2. CASE UNCHANGED partsVars
    BY <2>2 DEF partsVars
  <2> QED
    BY <2>1, <2>2
<1> QED
  BY <1>1, <1>2, PTL
  DEF Spec, ExportSpec, ThrottleSpec, NamesSpec, AcquireSpec, CuesSpec

(* Type correctness of all five parts, for every value of their constants.  *)
THEOREM PartsTypeOK == Spec => []TypeOK
<1>1. ExportSpec => []ExportTypeOK
  <2>1. ExportInit => ExportTypeOK
    BY ExportAssumption DEF ExportInit, ExportTypeOK, NoSweep, SweepState
  <2>2. ExportTypeOK /\ [ExportNext]_exportVars => ExportTypeOK'
    BY ExportTypes
  <2> QED
    BY <2>1, <2>2, PTL DEF ExportSpec
<1>2. /\ ExportTypeOK /\ ThrottleTypeOK /\ NamesTypeOK /\ AcquireTypeOK /\ CuesTypeOK
      => TypeOK
  BY DEF TypeOK
<1> QED
  BY <1>1, <1>2, PartsAreParts, ThrottleTypes, NamesTypes, AcquireTypes, CuesTypes, PTL
=============================================================================
