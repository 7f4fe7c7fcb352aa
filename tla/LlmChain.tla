------------------------------ MODULE LlmChain ------------------------------
(***************************************************************************)
(* Summarising one video (pipeline/summarize.py): a call of the map tier   *)
(* for every chunk, then one of the reduce tier; and what a call does      *)
(* (llm/client.py): walk the tier's chain of endpoints from the primary,   *)
(* stepping over those in cooldown, until one returns a valid object.      *)
(* The runner is the only caller, so there is one call at a time.          *)
(***************************************************************************)
EXTENDS Naturals

CONSTANTS
    MaxEndpoint,  \* BOUND: primary and fallbacks configured for a tier
    Cloud,        \* by tier, the positions that are cloud providers
    AllowCloud,   \* by tier, allow_cloud_fallback
    Retries,      \* validation_retries
    Cooldown,     \* ENDPOINT_COOLDOWN_S, in ticks
    Chunks        \* BOUND: chunks of the transcript

Tier == {"map", "reduce"}
Endpoint == 1 .. MaxEndpoint

(* LLMTierConfig.active_chain: without allow_cloud_fallback the cloud       *)
(* endpoints are dropped; the configuration refuses an empty chain.         *)

Chain(t) == IF AllowCloud[t] THEN Endpoint ELSE Endpoint \ Cloud[t]

ASSUME LlmAssumption ==
    /\ MaxEndpoint \in Nat /\ Retries \in Nat
    /\ Cooldown \in Nat \ {0} /\ Chunks \in Nat \ {0}
    /\ Cloud \in [Tier -> SUBSET Endpoint]
    /\ AllowCloud \in [Tier -> BOOLEAN]
    /\ \A t \in Tier : Chain(t) # {}

VARIABLES
    step,      \* 0: nobody summarises; 1..Chunks: map; Chunks + 1: reduce
    call,      \* the call under way, or the last one
    cooling,   \* _cooling: time left until an endpoint is tried again
    last,      \* history: how each endpoint replied when it was last asked
    outcome    \* of the last summary

vars == <<step, call, cooling, last, outcome>>

Reply == {"none", "answer", "invalid", "transport", "other"}

(* Each variable holds a value of its kind, and the validation failures of  *)
(* one endpoint in one call stay within validation_retries.                 *)
TypeOK ==
    /\ step \in 0 .. Chunks + 1
    /\ call \in [pc : {"ready", "trying"}, tier : Tier,
                 walk : SUBSET Endpoint, attempted : SUBSET Endpoint,
                 failures : 0 .. Retries]
    /\ cooling \in [Tier -> [Endpoint -> 0 .. Cooldown]]
    /\ last \in [Tier -> [Endpoint -> Reply]]
    /\ outcome \in {"none", "digest", "unavailable"}

-----------------------------------------------------------------------------

TierOf(s) == IF s = Chunks + 1 THEN "reduce" ELSE "map"
Now == TierOf(step)

ReadyFor(t) == [pc |-> "ready", tier |-> t, walk |-> {}, attempted |-> {},
                failures |-> 0]

(* _walk: the endpoints not cooling, or the whole chain when all are.       *)
WalkNoFallback(t) == {e \in Chain(t) : cooling[t][e] = 0}   \* mutant
WalkConfigured(t) == LET warm == {e \in Chain(t) : cooling[t][e] = 0}
                     IN  IF warm # {} THEN warm ELSE Endpoint \* mutant

Walk(t) == LET warm == {e \in Chain(t) : cooling[t][e] = 0}
           IN  IF warm # {} THEN warm ELSE Chain(t)

(* The endpoint being tried: the walk goes in the order of the chain.       *)
LastChoice(e) == e \in call.walk /\ \A f \in call.walk : f <= e   \* mutant
Trying(e) == e \in call.walk /\ \A f \in call.walk : e <= f

Summarize ==
    /\ step = 0
    /\ step' = 1
    /\ call' = ReadyFor("map")
    /\ outcome' = "none"
    /\ UNCHANGED <<cooling, last>>

Dispatch ==
    /\ step # 0
    /\ call.pc = "ready"
    /\ call' = [ReadyFor(Now) EXCEPT !.pc = "trying", !.walk = Walk(Now)]
    /\ UNCHANGED <<step, cooling, last, outcome>>

Asked(e, reply) ==
    /\ step # 0
    /\ call.pc = "trying"
    /\ Trying(e)
    /\ last' = [last EXCEPT ![Now][e] = reply]

NextEndpoint(e) ==
    call' = [call EXCEPT !.walk = @ \ {e}, !.attempted = @ \cup {e},
                         !.failures = 0]

(* A valid object: whatever was wrong with the endpoint is over; the next   *)
(* chunk, the reduce call, or the digest.                                   *)
Thaw(e) == [cooling EXCEPT ![Now][e] = 0]
StayCold(e) == cooling   \* mutant: an endpoint that answered goes on cooling
Warmed(e) == Thaw(e)

Answer(e) ==
    /\ Asked(e, "answer")
    /\ cooling' = Warmed(e)
    /\ IF step = Chunks + 1
       THEN step' = 0 /\ outcome' = "digest"
       ELSE step' = step + 1 /\ UNCHANGED outcome
    /\ call' = ReadyFor(TierOf(step'))

(* An object that does not validate: ask again, Retries times at most.      *)
InvalidStartsOver(e) ==  \* mutant: the same endpoint again, counted anew
    /\ Asked(e, "invalid")
    /\ call' = [call EXCEPT !.failures = IF @ < Retries THEN @ + 1 ELSE 0,
                            !.attempted = @ \cup {e}]
    /\ UNCHANGED <<step, cooling, outcome>>

InvalidOnceMore(e) ==    \* mutant: one retry too many
    /\ Asked(e, "invalid")
    /\ IF call.failures <= Retries
       THEN call' = [call EXCEPT !.failures = @ + 1, !.attempted = @ \cup {e}]
       ELSE NextEndpoint(e)
    /\ UNCHANGED <<step, cooling, outcome>>

Invalid(e) ==
    /\ Asked(e, "invalid")
    /\ IF call.failures < Retries
       THEN call' = [call EXCEPT !.failures = @ + 1, !.attempted = @ \cup {e}]
       ELSE NextEndpoint(e)
    /\ UNCHANGED <<step, cooling, outcome>>

(* A transport error starts the endpoint's cooldown ...                     *)
Transport(e) ==
    /\ Asked(e, "transport")
    /\ cooling' = [cooling EXCEPT ![Now][e] = Cooldown]
    /\ NextEndpoint(e)
    /\ UNCHANGED <<step, outcome>>

(* ... any other error does not.                                            *)
OtherError(e) ==
    /\ Asked(e, "other")
    /\ NextEndpoint(e)
    /\ UNCHANGED <<step, cooling, outcome>>

(* LLMUnavailable: the walk is at its end; the summary is given up, with    *)
(* the chunks done so far.                                                  *)
Unavailable ==
    /\ step # 0
    /\ call.pc = "trying"
    /\ call.walk = {}
    /\ outcome' = "unavailable"
    /\ step' = 0
    /\ UNCHANGED <<call, cooling, last>>

(* Time passes, during a request too.                                       *)
Tick ==
    /\ \E t \in Tier, e \in Endpoint : cooling[t][e] > 0
    /\ cooling' = [t \in Tier |-> [e \in Endpoint |->
                     IF cooling[t][e] = 0 THEN 0 ELSE cooling[t][e] - 1]]
    /\ UNCHANGED <<step, call, last, outcome>>

Call == \/ Dispatch \/ Unavailable
        \/ \E e \in Endpoint : Answer(e) \/ Invalid(e) \/ Transport(e) \/ OtherError(e)

Init ==
    /\ step = 0
    /\ call = ReadyFor("map")
    /\ cooling = [t \in Tier |-> [e \in Endpoint |-> 0]]
    /\ last = [t \in Tier |-> [e \in Endpoint |-> "none"]]
    /\ outcome = "none"

Next == Summarize \/ Call \/ Tick

Spec == Init /\ [][Next]_vars

(* Every request to an endpoint ends, by a reply or by the tier's timeout,  *)
(* and the code between two requests does not wait: the call moves on. No   *)
(* fairness for the caller, the clock, or for any one kind of reply.        *)
FairSpec == Spec /\ WF_vars(Call)

-----------------------------------------------------------------------------

(* A summary is given up only when a request was really made, and every     *)
(* endpoint of the chain that was not asked failed the last time it was: a  *)
(* cooldown never turns "slow" into "unavailable" by leaving nothing to try *)
(* (_walk walks the whole chain when all of it is cooling).                 *)
UnavailableHasExcuse ==
    outcome = "unavailable" =>
        /\ call.attempted # {}
        /\ \A e \in Chain(call.tier) \ call.attempted :
               last[call.tier][e] \in {"invalid", "transport", "other"}

(* An endpoint whose last word was a valid object is in nobody's cooldown,  *)
(* also when it was asked while it was cooling: the next call asks it.      *)
AnsweredIsNotCooling ==
    \A t \in Tier, e \in Endpoint : last[t][e] = "answer" => cooling[t][e] = 0

(* A fallback is asked only after every endpoint before it was asked by the *)
(* same call, or had failed when it was last asked: work never goes to a    *)
(* fallback while the primary works.                                        *)
PrimaryFirst ==
    \A e \in call.attempted, f \in Chain(call.tier) :
        f < e /\ f \notin call.attempted =>
            last[call.tier][f] \in {"invalid", "transport", "other"}

(* Data sovereignty: with allow_cloud_fallback off no cloud endpoint of the *)
(* tier is ever asked, all the local ones cooling down included.            *)
Sovereignty ==
    \A t \in Tier : ~AllowCloud[t] =>
        \A e \in Cloud[t] : last[t][e] = "none"

(* A summary ends, with a digest or given up, whatever the endpoints reply  *)
(* and however the clock runs: no sequence of invalid replies holds it.     *)
SummaryEnds == step # 0 ~> step = 0
=============================================================================
