------------------------------- MODULE Export -------------------------------
(***************************************************************************)
(* GET /videos and an importer that follows its cursor (api/routes.py),    *)
(* while rows are written, taken out by forced runs and written again      *)
(* (pipeline/write.py).  A page is one statement on one connection, so it  *)
(* is one step.  Several rows may have one time stamp: rarer in the code,  *)
(* whose stamps have microseconds, but nothing there rules it out.         *)
(***************************************************************************)
EXTENDS Naturals, FiniteSets

CONSTANTS
    Row,        \* ids, as numbers: their order breaks ties
    Malformed,  \* rows whose metadata or digest does not parse
    PageLimit,  \* the importer's `limit`
    MaxClock    \* BOUND

ASSUME ExportAssumption ==
    /\ Row \subseteq Nat /\ Malformed \subseteq Row
    /\ IsFiniteSet(Row)
    /\ PageLimit \in Nat \ {0} /\ MaxClock \in Nat \ {0}

VARIABLES
    clock,
    exported,   \* rows the filter lets through
    stamp,      \* written_at; 0 is NULL
    sweep       \* the importer: its cursor, what it got

exportVars == <<clock, exported, stamp, sweep>>

\* staying: exported since the sweep began.  cut: a page lost a malformed row.
SweepState == [pc : {"idle", "paging"}, since : 0 .. MaxClock + 1,
               sinceId : Row \cup {0}, got : SUBSET Row,
               staying : SUBSET Row, cut : BOOLEAN]

ExportTypeOK ==
    /\ clock \in 1 .. MaxClock
    /\ exported \subseteq Row
    /\ stamp \in [Row -> 0 .. MaxClock]
    /\ \A r \in exported : stamp[r] > 0
    /\ sweep \in SweepState

NoSweep == [pc |-> "idle", since |-> 0, sinceId |-> 0, got |-> {},
            staying |-> {}, cut |-> FALSE]

ExportInit ==
    /\ clock = 1 /\ exported = {} /\ sweep = NoSweep
    /\ stamp = [r \in Row |-> 0]

-----------------------------------------------------------------------------
(* The rows.                                                                *)

(* written_at = COALESCE(written_at, now).                                  *)
Stamp(r) == IF stamp[r] = 0 THEN [stamp EXCEPT ![r] = clock] ELSE stamp

Written(r) ==
    /\ exported' = exported \cup {r}
    /\ stamp' = Stamp(r)
    /\ UNCHANGED <<clock, sweep>>

(* A forced run resets stage_write and the digest.                          *)
TakenOut(r) ==
    /\ exported' = exported \ {r}
    /\ sweep' = [sweep EXCEPT !.staying = @ \ {r}]
    /\ UNCHANGED <<clock, stamp>>

SecondPasses ==
    /\ clock < MaxClock
    /\ clock' = clock + 1
    /\ UNCHANGED <<exported, stamp, sweep>>

-----------------------------------------------------------------------------
(* The importer.                                                            *)

Above(r, s) == \/ stamp[r] > stamp[s]
               \/ stamp[r] = stamp[s] /\ r > s

(* Mutants: the time stamp alone; the cursor's row again.                   *)
PastStrictly(r) == stamp[r] < sweep.since
PastOrAt(r) ==
    \/ stamp[r] < sweep.since
    \/ stamp[r] = sweep.since /\ r <= sweep.sinceId

Past(r) ==
    \/ stamp[r] < sweep.since
    \/ stamp[r] = sweep.since /\ r < sweep.sinceId

(* ORDER BY written_at DESC, id DESC LIMIT ?                                *)
Page == LET rows == {r \in exported : Past(r)} IN
        {r \in rows : Cardinality({s \in rows : Above(s, r)}) < PageLimit}

SweepBegins ==
    /\ sweep.pc = "idle"
    /\ sweep' = [NoSweep EXCEPT !.pc = "paging", !.since = MaxClock + 1,
                                !.staying = exported]
    /\ UNCHANGED <<clock, exported, stamp>>

(* A page, without its malformed rows.                                      *)
Fetched(next) ==
    /\ sweep.pc = "paging"
    /\ sweep' = [next EXCEPT !.got = @ \cup (Page \ Malformed),
                             !.cut = @ \/ Page \cap Malformed # {}]
    /\ UNCHANGED <<clock, exported, stamp>>

(* There is a next page if this one has PageLimit rows all the same.        *)
Full == Cardinality(Page \ Malformed) = PageLimit

FetchPage ==
    \E last \in Page \ Malformed :
        /\ Full
        /\ \A r \in Page \ Malformed : r = last \/ Above(r, last)
        /\ Fetched([sweep EXCEPT !.since = stamp[last], !.sinceId = last])

FetchLast == ~Full /\ Fetched([sweep EXCEPT !.pc = "idle"])

ExportNext ==
    \/ \E r \in Row : Written(r) \/ TakenOut(r)
    \/ SecondPasses \/ SweepBegins \/ FetchPage \/ FetchLast

ExportSpec == ExportInit /\ [][ExportNext]_exportVars

-----------------------------------------------------------------------------
(* When the cursor comes to its end the importer has every row that was     *)
(* exported all the while, whatever was written, taken out or rewritten     *)
(* between two pages, and however many rows share a second - unless a page  *)
(* held a malformed row: such a page is never full, and ends the sweep with *)
(* older rows still to come (routes.py:233-270).                            *)
SweepMissesNothing ==
    sweep.pc = "idle" => sweep.staying \subseteq sweep.got \/ sweep.cut

(* No page repeats a row of an earlier one of its sweep (routes.py:233-236).*)
RowsComeOnce ==
    [][sweep.pc = "paging" /\ sweep'.got # sweep.got => Page \cap sweep.got = {}]_exportVars
=============================================================================
