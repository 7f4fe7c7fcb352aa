------------------------------ MODULE MCParts ------------------------------
(* Small instances of the parts that do not interact, one at a time: the   *)
(* initial state chooses which of them runs.                               *)
EXTENDS Export, Throttle, Names, Acquire, Cues
CONSTANTS t1, t2

VARIABLE part

partsVars == <<part, exportVars, throttleVars, namesVars, acquireVars, cuesVars>>

MCSlug       == {<<0>>, <<0, 2>>}
MCSpelling   == [t \in Topic |-> IF t = t1 THEN {<<0>>} ELSE MCSlug]
MCPrimary    == [l \in Lang |-> IF l = "pt" THEN "pt" ELSE "en"]
MCPreferred  == <<"en-US", "pt">>
MCCueWords   == [1 .. 1 -> Word] \cup [1 .. 2 -> Word]
MCChapters   == {{}, {3}, {2, 3}, {1, 3, 4}}

Init ==
    /\ part \in {"export", "throttle", "names", "acquire", "cues"}
    /\ ExportInit /\ ThrottleInit /\ NamesInit
    /\ IF part = "acquire" THEN AcquireInit
       ELSE /\ meta = CHOOSE m \in Meta : m.wired
            /\ acquiring = NotAcquiring /\ audio = "none" /\ orphan = FALSE
    /\ IF part = "cues" THEN CuesInit
       ELSE CuesInit /\ all = {}

Next ==
    /\ UNCHANGED part
    /\ IF part = "export" THEN ExportNext ELSE UNCHANGED exportVars
    /\ IF part = "throttle" THEN ThrottleNext ELSE UNCHANGED throttleVars
    /\ IF part = "names" THEN NamesNext ELSE UNCHANGED namesVars
    /\ IF part = "acquire" THEN AcquireNext ELSE UNCHANGED acquireVars
    /\ IF part = "cues" THEN CuesNext ELSE UNCHANGED cuesVars

Spec == Init /\ [][Next]_partsVars

(* Type correctness of each part (its own state, as it is declared there).  *)
TypeOK ==
    /\ ExportTypeOK /\ ThrottleTypeOK /\ NamesTypeOK /\ AcquireTypeOK /\ CuesTypeOK
=============================================================================
