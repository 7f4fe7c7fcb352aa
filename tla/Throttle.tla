------------------------------ MODULE Throttle ------------------------------
(***************************************************************************)
(* The throttle on wrong API keys (api/auth.py): per address the times of  *)
(* its failures in the last WindowS seconds, for MaxTracked addresses, the *)
(* one used least recently forgotten first.  require_api_key has no await, *)
(* so a request is one step.                                               *)
(***************************************************************************)
EXTENDS Naturals, Sequences, FiniteSets

CONSTANTS
    Address,
    MaxFailures, WindowS, MaxTracked,
    MaxNow      \* BOUND

ASSUME ThrottleAssumption ==
    /\ MaxFailures \in Nat \ {0} /\ WindowS \in Nat \ {0}
    /\ MaxTracked \in Nat \ {0} /\ MaxNow \in Nat

VARIABLES
    now,
    order,     \* the keys of the OrderedDict, least recent first
    times,     \* its values; <<>> of an address that is not a key
    wrong      \* history: times of the wrong keys since the last right one,
               \* of addresses that were not pushed out since

throttleVars == <<now, order, times, wrong>>

Tracked == {order[i] : i \in DOMAIN order}

ThrottleTypeOK ==
    /\ now \in 0 .. MaxNow
    /\ order \in Seq(Address)
    /\ times \in [Address -> Seq(0 .. MaxNow)]
    /\ \A a \in Address : /\ Len(times[a]) <= MaxFailures
                          /\ times[a] # <<>> <=> a \in Tracked
    /\ wrong \in [Address -> Seq(0 .. MaxNow)]

ThrottleInit ==
    /\ now = 0 /\ order = <<>>
    /\ times = [a \in Address |-> <<>>]
    /\ wrong = [a \in Address |-> <<>>]

(* The members of a sequence that are in S, in their order.                 *)
Only(s, S) ==
    LET kept[i \in 0 .. Len(s)] ==
            IF i = 0 THEN <<>>
            ELSE IF s[i] \in S THEN Append(kept[i - 1], s[i]) ELSE kept[i - 1]
    IN  kept[Len(s)]

(* Mutant: a failure leaves the window a second late.                       *)
WindowLate == {t \in 0 .. MaxNow : now - t <= WindowS}

Window == {t \in 0 .. MaxNow : now - t < WindowS}

(* _recent, its result: the failures still inside the window.               *)
Recent(a) == Only(times[a], Window)

Without(a) == Only(order, Address \ {a})

(* _recent, its effect: pruned in place and moved to the end.               *)
Touch(a) ==
    /\ order' = IF Recent(a) = <<>> THEN Without(a) ELSE Append(Without(a), a)
    /\ times' = [times EXCEPT ![a] = Recent(a)]

(* Mutant: room is made before the new address is added.                    *)
BoundedBefore(keys) ==
    IF Len(keys) > MaxTracked + 1 THEN Tail(keys) ELSE keys

(* while len(_failures) > MAX_TRACKED: popitem(last=False).                 *)
Bounded(keys) == IF Len(keys) > MaxTracked THEN Tail(keys) ELSE keys

(* Mutant: one failure more.                                                *)
ThrottledLate(a) == Len(Recent(a)) > MaxFailures

Throttled(a) == Len(Recent(a)) >= MaxFailures

(* 429, whatever the key is.                                                *)
TooMany(a) ==
    /\ Throttled(a)
    /\ Touch(a)
    /\ UNCHANGED <<now, wrong>>

(* What is kept of each address when `a` has failed once more: nothing of   *)
(* one that is pushed out.                                                  *)
Kept(table, a, mine) ==
    [b \in Address |-> IF b = a THEN mine
                       ELSE IF b \in Tracked \ Tracked' THEN <<>>
                       ELSE table[b]]

WrongKey(a) ==
    /\ ~Throttled(a)
    /\ order' = Bounded(Append(Without(a), a))
    /\ times' = Kept(times, a, Append(Recent(a), now))
    /\ wrong' = Kept(wrong, a, Append(wrong[a], now))
    /\ UNCHANGED now

(* A correct key clears the address.                                        *)
RightKey(a) ==
    /\ ~Throttled(a)
    /\ order' = Without(a)
    /\ times' = [times EXCEPT ![a] = <<>>]
    /\ wrong' = [wrong EXCEPT ![a] = <<>>]
    /\ UNCHANGED now

SecondGoes ==
    /\ now < MaxNow
    /\ now' = now + 1
    /\ UNCHANGED <<order, times, wrong>>

ThrottleNext ==
    \/ \E a \in Address : TooMany(a) \/ WrongKey(a) \/ RightKey(a)
    \/ SecondGoes

ThrottleSpec == ThrottleInit /\ [][ThrottleNext]_throttleVars

-----------------------------------------------------------------------------
(* An address waits exactly when it has sent MaxFailures wrong keys in the  *)
(* last WindowS seconds, and no right one since, unless MaxTracked others   *)
(* have pushed it out: never for longer, and pruning, the order of the      *)
(* table and attempts while it waits do not change that (auth.py:43-101).   *)
WrongLately(a) == {i \in DOMAIN wrong[a] : now < wrong[a][i] + WindowS}

WaitIsEarned ==
    \A a \in Address : Throttled(a) <=> Cardinality(WrongLately(a)) >= MaxFailures

(* The table never outgrows its bound, and holds an address once            *)
(* (auth.py:54-60).                                                         *)
TableIsBounded ==
    Len(order) <= MaxTracked /\ Cardinality(Tracked) = Len(order)
=============================================================================
