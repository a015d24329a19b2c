-------------------------- MODULE CircuitBreaker --------------------------
(***************************************************************************)
(* What the proxy pool promises about each proxy, with no settings, states *)
(* or handlers: requests begin only while the proxy is not resting, unless *)
(* the list names it more than once; a rest begins only with the report of *)
(* a failure that makes the streak reach the threshold, never lasts longer *)
(* than MaxRest and ends with time alone; only a reported success ends the *)
(* streak. All of it is forgotten when the list changes.                   *)
(***************************************************************************)
EXTENDS Integers

CONSTANTS Proxies, Threshold, MaxRest

VARIABLES
    list,     \* the proxies the breakers are for
    strikes,  \* proxy -> failures reported in a row
    rest,     \* proxy -> how long it still rests
    using     \* proxy -> requests in progress through it

Zero == [p \in Proxies |-> 0]

Init == list = <<>> /\ strikes = Zero /\ rest = Zero /\ using = Zero

Pass ==
    /\ rest' = [p \in Proxies |-> IF rest[p] > 0 THEN rest[p] - 1 ELSE 0]
    /\ UNCHANGED <<list, strikes, using>>

\* The breakers that a step finds: new ones if it changes the list.
FoundStrikes == IF list' = list THEN strikes ELSE Zero
FoundRest    == IF list' = list THEN rest ELSE Zero

Keep == strikes' = FoundStrikes /\ rest' = FoundRest

Succeed(p) ==
    /\ strikes' = [FoundStrikes EXCEPT ![p] = 0]
    /\ rest' = FoundRest

Fail(p) ==
    /\ strikes' = [FoundStrikes EXCEPT ![p] = strikes'[p]]
    /\ rest' = [FoundRest EXCEPT ![p] = rest'[p]]
    /\ strikes'[p] >= FoundStrikes[p]
    /\ rest'[p] \in FoundRest[p] .. MaxRest
    /\ rest'[p] > FoundRest[p] => strikes'[p] >= Threshold

ListedTwice(p) ==
    \E i, j \in DOMAIN list' : i # j /\ list'[i] = p /\ list'[j] = p

Begin(p) ==
    /\ FoundRest[p] = 0 \/ ListedTwice(p)
    /\ Keep
    /\ using' = [using EXCEPT ![p] = @ + 1]

Report(p) == Keep \/ Succeed(p) \/ Fail(p)

End(p) ==
    /\ using[p] > 0
    /\ Report(p)
    /\ using' = [using EXCEPT ![p] = @ - 1]

Next ==
    \/ Pass
    \/ \E p \in Proxies : Begin(p) \/ End(p) \/ (Report(p) /\ UNCHANGED using)

Spec == Init /\ [][Next]_<<list, strikes, rest, using>>

===========================================================================
