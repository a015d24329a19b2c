--------------------------- MODULE QuotaHistory ---------------------------
(***************************************************************************)
(* Quota with the highest quotas that users had, which no step of the      *)
(* program reads.                                                          *)
(***************************************************************************)
EXTENDS Quota

VARIABLES
    peak,    \* slot -> the highest quota of its user since authentication, by
             \* the manual_rpm of then
    top      \* user -> the highest quota so far, of the user or a request

allVars == <<vars, peak, top>>

Rpms == [u \in Users |-> Rpm(u, manual[u])]
RequestRpms == [r \in DOMAIN request |-> Rpm(request[r].user, request[r].manual)]

HistoryInit ==
    /\ Init
    /\ top = Rpms
    /\ peak = Empty

Observe ==
    /\ peak' = [r \in DOMAIN request' |->
         Max({RequestRpms'[r]} \cup {peak[x] : x \in DOMAIN peak \cap {r}})]
    /\ top' = [u \in Users |-> Max({top[u], Rpms'[u]}
         \cup {peak'[r] : r \in {x \in DOMAIN request' : request'[x].user = u}})]

HistoryNext == Next /\ Observe

HistorySpec == HistoryInit /\ [][HistoryNext]_allVars

---------------------------------------------------------------------------
(* Properties *)

\* The quota that get_user_rpm finds with two statements, on a user read before,
\* is no higher than what the user had at one moment of the request.
RateNotAbove ==
    \A r \in DOMAIN request : At(r, "rated") => request[r].rpm <= peak[r]

\* Requests in flight are not in the log that enforce_rate_limit counts, and
\* that is all that slips through: within a minute no more requests go upstream
\* than the quota and one for each other request in progress (requests that
\* leave no row excepted).
BurstBounded ==
    \A u \in Users : SentLately(u) < top[u] + Cardinality(Requests)

===========================================================================
