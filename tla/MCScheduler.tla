---------------------------- MODULE MCScheduler ----------------------------
(* Small instances of Scheduler for TLC: administrators switch the loop off *)
(* and on and move it from n1 to n2 and back.                               *)
EXTENDS Scheduler, TLC

CONSTANTS n1, n2, w1, w2

MCDefaults == [k \in {"enabled", "leader"} |-> IF k = "enabled" THEN TRUE ELSE n1]
MCWrites ==
    [key : {"enabled"}, value : {"true", " true", "false"}]
    \cup [key : {"leader"}, value : {n1, n2}]

\* Text settings are taken as they are; the names of the nodes are such.
MCCasted(true) == [t \in {"true", " true", "false", n1, n2} |->
    IF t \in {n1, n2} THEN t ELSE t \in true]
MCCast == MCCasted({"true", " true"})
MCCastOnSave == MCCasted({"true"})

===========================================================================
