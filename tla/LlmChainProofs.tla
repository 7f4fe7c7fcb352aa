--------------------------- MODULE LlmChainProofs ---------------------------
(***************************************************************************)
(* For any number of endpoints, retries and chunks, any cooldown and any   *)
(* choice of cloud endpoints: what LlmChain's run checks on one instance.  *)
(*                                                                         *)
(* The invariant relates the call to the history of replies.  An endpoint  *)
(* that is cooling failed when it was last asked (Cold).  The endpoints of *)
(* the chain that a call neither asked nor still has to ask are the ones   *)
(* it stepped over, so they were cooling (Walking), and it asks the others *)
(* in their order.  A summary that was given up has kept its last call     *)
(* (GaveUp).                                                               *)
(***************************************************************************)
EXTENDS LlmChain, TLAPS

Bad == {"invalid", "transport", "other"}

Cold ==
    \A t \in Tier, e \in Endpoint : cooling[t][e] # 0 => last[t][e] \in Bad

Walking ==
    /\ step # 0 => call.tier = Now
    /\ call.walk \subseteq Chain(call.tier)
    /\ call.pc = "ready" => call.attempted = {}
    /\ call.pc = "trying" =>
          /\ call.walk \cup call.attempted # {}
          /\ \A f \in Chain(call.tier) \ (call.walk \cup call.attempted) :
                last[call.tier][f] \in Bad
    /\ \A e \in call.attempted, f \in call.walk : e <= f

GaveUp ==
    outcome = "unavailable" =>
        step = 0 /\ call.pc = "trying" /\ call.walk = {}

IInv == TypeOK /\ Cold /\ Walking /\ GaveUp /\ Sovereignty

-----------------------------------------------------------------------------

(* A tier's chain holds endpoints, at least one, and no cloud endpoint when *)
(* they are not allowed (LLMTierConfig).                                    *)
LEMMA ChainFacts ==
    ASSUME NEW t \in Tier
    PROVE  /\ Chain(t) \subseteq Endpoint
           /\ Chain(t) # {}
           /\ ~AllowCloud[t] => Chain(t) \cap Cloud[t] = {}
  BY LlmAssumption DEF Chain

(* A call has something to ask, and steps over cooling endpoints only.      *)
LEMMA WalkFacts ==
    ASSUME NEW t \in Tier
    PROVE  /\ Walk(t) \subseteq Chain(t)
           /\ Walk(t) # {}
           /\ \A f \in Chain(t) \ Walk(t) : cooling[t][f] # 0
  BY ChainFacts DEF Walk

(* The tier of a step is one of the two.                                    *)
LEMMA TierFacts == \A s \in Nat : TierOf(s) \in Tier
  BY DEF TierOf, Tier

(* The initial state.                                                       *)
LEMMA InitIInv == Init => IInv
<1> SUFFICES ASSUME Init PROVE IInv
  OBVIOUS
<1> USE LlmAssumption DEF Init
<1>1. TypeOK
  BY DEF TypeOK, ReadyFor, Reply, Tier
<1>2. Cold /\ GaveUp /\ Sovereignty
  BY DEF Cold, GaveUp, Sovereignty, Tier, Endpoint
<1>3. Walking
  BY DEF Walking, ReadyFor
<1> QED
  BY <1>1, <1>2, <1>3 DEF IInv

(* What asking an endpoint changes: the reply of one endpoint of the call's *)
(* own chain, the first one that is left to ask.                            *)
LEMMA AskedFacts ==
    ASSUME IInv, NEW e \in Endpoint, NEW r \in Reply, Asked(e, r)
    PROVE  /\ Now \in Tier /\ call.tier = Now
           /\ e \in Chain(Now)
           /\ last' \in [Tier -> [Endpoint -> Reply]]
           /\ last'[Now][e] = r
           /\ \A t \in Tier, f \in Endpoint :
                 <<t, f>> # <<Now, e>> => last'[t][f] = last[t][f]
           /\ Sovereignty'
<1> USE DEF IInv
<1>1. step \in Nat
  BY LlmAssumption DEF TypeOK
<1>2. Now \in Tier /\ call.tier = Now
  BY <1>1, TierFacts DEF Now, Walking, Asked
<1>3. e \in Chain(Now)
  BY <1>2 DEF Asked, Trying, Walking
<1>4. /\ last' \in [Tier -> [Endpoint -> Reply]]
      /\ last'[Now][e] = r
      /\ \A t \in Tier, f \in Endpoint :
            <<t, f>> # <<Now, e>> => last'[t][f] = last[t][f]
  BY <1>2 DEF Asked, TypeOK
<1>5. Sovereignty'
  <2> SUFFICES ASSUME NEW t \in Tier, ~AllowCloud[t], NEW f \in Cloud[t]
               PROVE  last'[t][f] = "none"
    BY DEF Sovereignty
  <2>1. f \in Endpoint
    BY LlmAssumption
  <2>2. <<t, f>> # <<Now, e>>
    BY <1>2, <1>3, ChainFacts
  <2> QED
    BY <1>4, <2>1, <2>2 DEF Sovereignty
<1> QED
  BY <1>2, <1>3, <1>4, <1>5

(* Moving on to the next endpoint keeps the call as it should be.           *)
LEMMA NextEndpointFacts ==
    ASSUME IInv, NEW e \in Endpoint, NEW r \in Bad, Asked(e, r),
           NextEndpoint(e), UNCHANGED <<step, outcome>>
    PROVE  Walking' /\ GaveUp' /\ call' \in
             [pc : {"ready", "trying"}, tier : Tier, walk : SUBSET Endpoint,
              attempted : SUBSET Endpoint, failures : 0 .. Retries]
<1> USE DEF IInv
<1>1. r \in Reply
  BY DEF Bad, Reply
<1>2. /\ call.tier = Now /\ e \in call.walk /\ call.pc = "trying" /\ step # 0
      /\ \A f \in call.walk : e <= f
  BY <1>1, AskedFacts DEF Asked, Trying
<1>3. /\ call'.pc = "trying" /\ call'.tier = call.tier
      /\ call'.walk = call.walk \ {e}
      /\ call'.attempted = call.attempted \cup {e}
      /\ call'.failures = 0
      /\ call' \in [pc : {"ready", "trying"}, tier : Tier,
                    walk : SUBSET Endpoint, attempted : SUBSET Endpoint,
                    failures : 0 .. Retries]
  <2>1. call \in [pc : {"ready", "trying"}, tier : Tier, walk : SUBSET Endpoint,
                  attempted : SUBSET Endpoint, failures : 0 .. Retries]
    BY DEF TypeOK
  <2>2. call' = [pc |-> "trying", tier |-> call.tier, walk |-> call.walk \ {e},
                 attempted |-> call.attempted \cup {e}, failures |-> 0]
    BY <1>2, <2>1 DEF NextEndpoint
  <2>3. /\ call.walk \ {e} \in SUBSET Endpoint
        /\ call.attempted \cup {e} \in SUBSET Endpoint
        /\ 0 \in 0 .. Retries /\ call.tier \in Tier
    BY <2>1, LlmAssumption
  <2> QED
    BY <2>2, <2>3
<1>4. Walking'
  <2>1. Now' = Now
    BY DEF Now
  <2>2. \A f \in Chain(call.tier) \ (call'.walk \cup call'.attempted) :
           last'[call.tier][f] \in Bad
    <3> SUFFICES ASSUME NEW f \in Chain(call.tier),
                        f \notin call'.walk \cup call'.attempted
                 PROVE  last'[call.tier][f] \in Bad
      OBVIOUS
    <3>1. f # e /\ f \notin call.walk \cup call.attempted
      BY <1>3
    <3>2. f \in Endpoint /\ call.tier \in Tier
      BY <1>1, AskedFacts, ChainFacts, <1>2
    <3>3. last'[call.tier][f] = last[call.tier][f]
      BY <1>1, AskedFacts, <3>1, <3>2
    <3> QED
      BY <1>2, <3>1, <3>3 DEF Walking
  <2>3. \A d \in call'.attempted, f \in call'.walk : d <= f
    BY <1>2, <1>3 DEF Walking
  <2>4. Chain(call.tier)' = Chain(call.tier)
    BY <1>3 DEF Chain
  <2> QED
    BY <1>2, <1>3, <2>1, <2>2, <2>3, <2>4 DEF Walking
<1>5. GaveUp'
  BY <1>2 DEF GaveUp
<1> QED
  BY <1>3, <1>4, <1>5

(* The invariant is inductive.                                              *)
LEMMA NextIInv == IInv /\ [Next]_vars => IInv'
<1> SUFFICES ASSUME IInv, [Next]_vars PROVE IInv'
  OBVIOUS
<1> USE DEF IInv
<1> DEFINE CallType == [pc : {"ready", "trying"}, tier : Tier,
                        walk : SUBSET Endpoint, attempted : SUBSET Endpoint,
                        failures : 0 .. Retries]
<1>0. /\ step \in 0 .. Chunks + 1 /\ step \in Nat /\ Chunks \in Nat \ {0}
      /\ Cooldown \in Nat \ {0} /\ Retries \in Nat
      /\ call \in CallType
      /\ cooling \in [Tier -> [Endpoint -> 0 .. Cooldown]]
      /\ last \in [Tier -> [Endpoint -> Reply]]
      /\ outcome \in {"none", "digest", "unavailable"}
  BY LlmAssumption DEF TypeOK
<1>1. CASE Summarize
  <2>1. step' = 1 /\ call' = ReadyFor("map") /\ outcome' = "none"
        /\ UNCHANGED <<cooling, last>>
    BY <1>1 DEF Summarize
  <2>2. TypeOK'
    BY <1>0, <2>1 DEF TypeOK, ReadyFor, Tier
  <2>3. Now' = "map"
    BY <1>0, <2>1 DEF Now, TierOf
  <2>4. Walking'
    BY <2>1, <2>3 DEF Walking, ReadyFor
  <2> QED
    BY <2>1, <2>2, <2>4 DEF Cold, GaveUp, Sovereignty
<1>2. CASE Dispatch
  <2>1. /\ step # 0 /\ UNCHANGED <<step, cooling, last, outcome>>
        /\ call' = [pc |-> "trying", tier |-> Now, walk |-> Walk(Now),
                    attempted |-> {}, failures |-> 0]
    BY <1>2 DEF Dispatch, ReadyFor
  <2>2. Now \in Tier /\ Now' = Now
    BY <1>0, <2>1, TierFacts DEF Now
  <2>3. /\ Walk(Now) \subseteq Chain(Now) /\ Walk(Now) # {}
        /\ Chain(Now) \subseteq Endpoint
        /\ \A f \in Chain(Now) \ Walk(Now) : last[Now][f] \in Bad
    BY <2>2, WalkFacts, ChainFacts DEF Cold
  <2>4. TypeOK'
    BY <1>0, <2>1, <2>2, <2>3 DEF TypeOK
  <2>5. Chain(Now)' = Chain(Now)
    BY <2>2 DEF Chain
  <2>6. Walking'
    <3>1. call'.tier = Now /\ call'.walk = Walk(Now) /\ call'.attempted = {}
          /\ call'.pc = "trying" /\ last' = last
      BY <2>1
    <3>2. Chain(call.tier)' = Chain(Now)
      BY <3>1, <2>5 DEF Chain
    <3> QED
      BY <3>1, <3>2, <2>2, <2>3 DEF Walking
  <2> QED
    BY <2>1, <2>4, <2>6 DEF Cold, GaveUp, Sovereignty
<1>3. ASSUME NEW e \in Endpoint, Answer(e) PROVE IInv'
  <2>1. Asked(e, "answer") /\ "answer" \in Reply
    BY <1>3 DEF Answer, Reply
  <2>2. /\ Now \in Tier
        /\ last' \in [Tier -> [Endpoint -> Reply]]
        /\ \A t \in Tier, f \in Endpoint :
              <<t, f>> # <<Now, e>> => last'[t][f] = last[t][f]
        /\ Sovereignty'
    BY <2>1, AskedFacts
  <2>3. /\ cooling' \in [Tier -> [Endpoint -> 0 .. Cooldown]]
        /\ cooling'[Now][e] = 0
        /\ \A t \in Tier, f \in Endpoint :
              <<t, f>> # <<Now, e>> => cooling'[t][f] = cooling[t][f]
    BY <1>0, <1>3, <2>2 DEF Answer, Warmed, Thaw
  <2>4. /\ step # 0 /\ outcome # "unavailable"
        /\ step' \in 0 .. Chunks + 1
        /\ outcome' \in {"none", "digest"}
    BY <1>0, <1>3, <2>1 DEF Answer, Asked, GaveUp
  <2>5. call' = ReadyFor(TierOf(step')) /\ TierOf(step') \in Tier
    BY <1>0, <1>3, <2>4, TierFacts DEF Answer
  <2>6. TypeOK'
    BY <1>0, <2>2, <2>3, <2>4, <2>5 DEF TypeOK, ReadyFor
  <2>7. Cold'
    BY <2>2, <2>3 DEF Cold
  <2>8. Walking'
    BY <2>5 DEF Walking, ReadyFor, Now
  <2> QED
    BY <2>2, <2>4, <2>6, <2>7, <2>8 DEF GaveUp
<1>4. ASSUME NEW e \in Endpoint, Invalid(e) PROVE IInv'
  <2>1. Asked(e, "invalid") /\ "invalid" \in Reply /\ "invalid" \in Bad
    BY <1>4 DEF Invalid, Reply, Bad
  <2>2. /\ Now \in Tier /\ call.tier = Now
        /\ last' \in [Tier -> [Endpoint -> Reply]]
        /\ last'[Now][e] = "invalid"
        /\ \A t \in Tier, f \in Endpoint :
              <<t, f>> # <<Now, e>> => last'[t][f] = last[t][f]
        /\ Sovereignty'
    BY <2>1, AskedFacts
  <2>3. UNCHANGED <<step, cooling, outcome>>
    BY <1>4 DEF Invalid
  <2>4. Cold'
    BY <2>1, <2>2, <2>3 DEF Cold
  <2>5. Walking' /\ GaveUp' /\ call' \in CallType
    <3>1. CASE call.failures < Retries
      <4>1. /\ e \in call.walk /\ call.pc = "trying" /\ step # 0
            /\ \A f \in call.walk : e <= f
        BY <2>1 DEF Asked, Trying
      <4>2. /\ call'.pc = "trying" /\ call'.tier = call.tier
            /\ call'.walk = call.walk
            /\ call'.attempted = call.attempted \cup {e}
            /\ call' \in CallType
        <5>1. call' = [pc |-> "trying", tier |-> call.tier,
                       walk |-> call.walk,
                       attempted |-> call.attempted \cup {e},
                       failures |-> call.failures + 1]
          BY <1>0, <1>4, <3>1, <4>1 DEF Invalid
        <5>2. /\ call.attempted \cup {e} \in SUBSET Endpoint
              /\ call.failures + 1 \in 0 .. Retries
              /\ call.tier \in Tier /\ call.walk \in SUBSET Endpoint
          BY <1>0, <3>1
        <5> QED
          BY <5>1, <5>2
      <4>3. \A f \in Chain(call.tier) \ (call'.walk \cup call'.attempted) :
               last'[call.tier][f] \in Bad
        BY <2>2, <4>1, <4>2, ChainFacts DEF Walking
      <4>4. \A d \in call'.attempted, f \in call'.walk : d <= f
        BY <4>1, <4>2 DEF Walking
      <4>5. Chain(call.tier)' = Chain(call.tier) /\ Now' = Now
        BY <2>3, <4>2 DEF Chain, Now
      <4>6. Walking'
        BY <2>2, <4>1, <4>2, <4>3, <4>4, <4>5 DEF Walking
      <4> QED
        BY <2>3, <4>1, <4>2, <4>6 DEF GaveUp
    <3>2. CASE ~(call.failures < Retries)
      <4>1. NextEndpoint(e)
        BY <1>4, <3>2 DEF Invalid
      <4> QED
        BY <2>1, <2>3, <4>1, NextEndpointFacts
    <3> QED
      BY <3>1, <3>2
  <2> QED
    BY <1>0, <2>2, <2>3, <2>4, <2>5 DEF TypeOK
<1>5. ASSUME NEW e \in Endpoint, Transport(e) PROVE IInv'
  <2>1. Asked(e, "transport") /\ "transport" \in Reply /\ "transport" \in Bad
    BY <1>5 DEF Transport, Reply, Bad
  <2>2. /\ Now \in Tier
        /\ last' \in [Tier -> [Endpoint -> Reply]]
        /\ last'[Now][e] = "transport"
        /\ \A t \in Tier, f \in Endpoint :
              <<t, f>> # <<Now, e>> => last'[t][f] = last[t][f]
        /\ Sovereignty'
    BY <2>1, AskedFacts
  <2>3. UNCHANGED <<step, outcome>> /\ NextEndpoint(e)
    BY <1>5 DEF Transport
  <2>4. /\ cooling' \in [Tier -> [Endpoint -> 0 .. Cooldown]]
        /\ \A t \in Tier, f \in Endpoint :
              <<t, f>> # <<Now, e>> => cooling'[t][f] = cooling[t][f]
    BY <1>0, <1>5, <2>2 DEF Transport
  <2>5. Cold'
    BY <2>1, <2>2, <2>4 DEF Cold
  <2> QED
    BY <1>0, <2>1, <2>2, <2>3, <2>4, <2>5, NextEndpointFacts DEF TypeOK
<1>6. ASSUME NEW e \in Endpoint, OtherError(e) PROVE IInv'
  <2>1. Asked(e, "other") /\ "other" \in Reply /\ "other" \in Bad
    BY <1>6 DEF OtherError, Reply, Bad
  <2>2. /\ Now \in Tier
        /\ last' \in [Tier -> [Endpoint -> Reply]]
        /\ last'[Now][e] = "other"
        /\ \A t \in Tier, f \in Endpoint :
              <<t, f>> # <<Now, e>> => last'[t][f] = last[t][f]
        /\ Sovereignty'
    BY <2>1, AskedFacts
  <2>3. UNCHANGED <<step, cooling, outcome>> /\ NextEndpoint(e)
    BY <1>6 DEF OtherError
  <2>4. Cold'
    BY <2>1, <2>2, <2>3 DEF Cold
  <2> QED
    BY <1>0, <2>1, <2>2, <2>3, <2>4, NextEndpointFacts DEF TypeOK
<1>7. CASE Unavailable
  <2>1. /\ call.pc = "trying" /\ call.walk = {} /\ step' = 0
        /\ outcome' = "unavailable" /\ UNCHANGED <<call, cooling, last>>
    BY <1>7 DEF Unavailable
  <2>2. Chain(call.tier)' = Chain(call.tier)
    BY <2>1 DEF Chain
  <2>3. Walking'
    BY <2>1, <2>2 DEF Walking
  <2> QED
    BY <1>0, <2>1, <2>3 DEF TypeOK, Cold, GaveUp, Sovereignty
<1>8. CASE Tick
  <2>1. /\ UNCHANGED <<step, call, last, outcome>>
        /\ cooling' = [t \in Tier |-> [e \in Endpoint |->
                         IF cooling[t][e] = 0 THEN 0 ELSE cooling[t][e] - 1]]
    BY <1>8 DEF Tick
  <2>2. cooling' \in [Tier -> [Endpoint -> 0 .. Cooldown]]
    <3>1. \A t \in Tier, e \in Endpoint :
             (IF cooling[t][e] = 0 THEN 0 ELSE cooling[t][e] - 1) \in 0 .. Cooldown
      <4>1. \A c \in 0 .. Cooldown :
               (IF c = 0 THEN 0 ELSE c - 1) \in 0 .. Cooldown
        BY <1>0
      <4>2. \A t \in Tier, e \in Endpoint : cooling[t][e] \in 0 .. Cooldown
        BY <1>0
      <4> QED
        BY <4>1, <4>2
    <3>2. \A t \in Tier : [e \in Endpoint |->
             IF cooling[t][e] = 0 THEN 0 ELSE cooling[t][e] - 1]
                \in [Endpoint -> 0 .. Cooldown]
      BY <3>1
    <3> QED
      BY <2>1, <3>2
  <2>3. Cold'
    BY <2>1 DEF Cold
  <2>4. Walking'
    BY <2>1 DEF Walking, Now, Chain
  <2> QED
    BY <1>0, <2>1, <2>2, <2>3, <2>4 DEF TypeOK, GaveUp, Sovereignty
<1>9. CASE UNCHANGED vars
  BY <1>9 DEF vars, TypeOK, Cold, Walking, GaveUp, Sovereignty, Now, Chain
<1> QED
  BY <1>1, <1>2, <1>3, <1>4, <1>5, <1>6, <1>7, <1>8, <1>9 DEF Next, Call

(* IInv holds in every reachable state.                                     *)
THEOREM LlmInvariant == Spec => []IInv
<1>1. Init => IInv
  BY InitIInv
<1>2. IInv /\ [Next]_vars => IInv'
  BY NextIInv
<1> QED
  BY <1>1, <1>2, PTL DEF Spec

(* The variables keep to their types; in particular no endpoint is asked    *)
(* more than Retries + 1 times in a call.                                   *)
THEOREM LlmTypeOK == Spec => []TypeOK
<1>1. IInv => TypeOK
  BY DEF IInv
<1> QED
  BY <1>1, LlmInvariant, PTL

(* A summary is given up only when every endpoint was asked or had failed   *)
(* when it was last asked (client.py: _walk and the end of                  *)
(* complete_structured).                                                    *)
THEOREM LlmUnavailable == Spec => []UnavailableHasExcuse
<1>1. IInv => UnavailableHasExcuse
  BY DEF IInv, UnavailableHasExcuse, Walking, GaveUp, Bad
<1> QED
  BY <1>1, LlmInvariant, PTL

(* A valid object ends an endpoint's cooldown, and nothing but a failure    *)
(* starts one.                                                              *)
THEOREM LlmAnswered == Spec => []AnsweredIsNotCooling
<1>1. IInv => AnsweredIsNotCooling
  BY DEF IInv, AnsweredIsNotCooling, Cold, Bad
<1> QED
  BY <1>1, LlmInvariant, PTL

(* The endpoints are asked in the order of the chain; only failed ones are  *)
(* stepped over.                                                            *)
THEOREM LlmPrimaryFirst == Spec => []PrimaryFirst
<1>1. IInv => PrimaryFirst
  <2> SUFFICES ASSUME IInv, NEW e \in call.attempted,
                      NEW f \in Chain(call.tier), f < e, f \notin call.attempted
               PROVE  last[call.tier][f] \in {"invalid", "transport", "other"}
    BY DEF PrimaryFirst
  <2>1. e \in Nat /\ f \in Nat /\ call.pc = "trying"
    BY LlmAssumption DEF IInv, TypeOK, Walking, Chain, Endpoint
  <2>2. f \notin call.walk
    BY <2>1 DEF IInv, Walking
  <2> QED
    BY <2>1, <2>2 DEF IInv, Walking, Bad
<1> QED
  BY <1>1, LlmInvariant, PTL

(* A local-only tier never asks a cloud endpoint.                           *)
THEOREM LlmSovereignty == Spec => []Sovereignty
<1>1. IInv => Sovereignty
  BY DEF IInv
<1> QED
  BY <1>1, LlmInvariant, PTL
=============================================================================
