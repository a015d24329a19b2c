-------------------------- MODULE MCSystemConfig --------------------------
(* Small instances of SystemConfig for TLC. *)
EXTENDS SystemConfigHistory, TLC

CONSTANTS n1, n2, w1, w2

MCDefaults == [k \in {"base_rpm", "max_rpm"} |-> 0]
MCCast == [t \in {1} |-> t]
MCWrites == {[key |-> "base_rpm", value |-> 1], [key |-> "max_rpm", value |-> 1]}

==========================================================================
