--------------------------- MODULE KeyLifecycle ---------------------------
(***************************************************************************)
(* What the pool promises about the life of one key, with no rows, copies  *)
(* or commits: only a key in the rotation begins to serve, traffic can     *)
(* only push a key out, a key comes into the rotation or back into it by a *)
(* check that saw it out of the rotation and by nothing else, no key is    *)
(* ever unchecked again, and a removed key never comes back under its id.  *)
(*                                                                         *)
(* A check may rule long after it looked. What it is not promised is that  *)
(* the check is the last to have heard of the key: one that saw the key    *)
(* out of the rotation and found it in order readmits it over a refusal    *)
(* that came in between.                                                   *)
(***************************************************************************)
EXTENDS Naturals

CONSTANTS KeyIds, Checkers

VARIABLES
    phase,    \* the life of a key
    serving,  \* requests in progress with it
    seen      \* check -> key -> the phase in which the check saw the key

Checked == {"healthy", "unhealthy", "invalid"}
Stored == Checked \cup {"pending"}
Phases == Stored \cup {"absent", "gone"}

NothingSeen == [i \in KeyIds |-> "unseen"]

Init ==
    /\ phase = [i \in KeyIds |-> "absent"]
    /\ serving = [i \in KeyIds |-> 0]
    /\ seen = [c \in Checkers |-> NothingSeen]

Upload(i) ==
    /\ phase[i] = "absent"
    /\ phase' = [phase EXCEPT ![i] = "pending"]
    /\ UNCHANGED <<serving, seen>>

Remove(i) ==
    /\ phase[i] \in Stored
    /\ phase' = [phase EXCEPT ![i] = "gone"]
    /\ UNCHANGED <<serving, seen>>

\* A check looks at some of the stored keys, or gives up.
Look(c) ==
    /\ \E s \in [KeyIds -> Stored \cup {"unseen"}] :
         /\ \A i \in KeyIds : s[i] # "unseen" => s[i] = phase[i]
         /\ seen' = [seen EXCEPT ![c] = s]
    /\ UNCHANGED <<phase, serving>>

\* A check rules, all in one step, on some of the keys it has seen: only where
\* its verdict is not what it saw.
Rule(c) ==
    /\ phase' \in [KeyIds -> Phases]
    /\ \A i \in KeyIds : phase'[i] # phase[i] =>
         /\ seen[c][i] # "unseen"
         /\ phase[i] \in Stored
         /\ phase'[i] \in Checked \ {seen[c][i]}
    /\ seen' = [seen EXCEPT ![c] = NothingSeen]
    /\ UNCHANGED serving

Begin(i) ==
    /\ phase[i] = "healthy"
    /\ serving' = [serving EXCEPT ![i] = @ + 1]
    /\ UNCHANGED <<phase, seen>>

End(i) ==
    /\ serving[i] > 0
    /\ serving' = [serving EXCEPT ![i] = @ - 1]
    /\ \/ UNCHANGED phase
       \/ /\ phase[i] \in Checked
          /\ \E p \in {"unhealthy", "invalid"} : phase' = [phase EXCEPT ![i] = p]
    /\ UNCHANGED seen

Next ==
    \/ \E c \in Checkers : Look(c) \/ Rule(c)
    \/ \E i \in KeyIds : Upload(i) \/ Remove(i) \/ Begin(i) \/ End(i)

Spec == Init /\ [][Next]_<<phase, serving, seen>>

==========================================================================
