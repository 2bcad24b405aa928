-------------------------- MODULE MCTrRequestQueue --------------------------
(***************************************************************************)
(* Three requests of one name, so that replies can be confused; the first  *)
(* is paginated.  Three screens: as many as the requests, which is what    *)
(* 9000 screens are to a day's requests between a loss and its late reply. *)
(***************************************************************************)
EXTENDS TrRequestQueue

CONSTANTS r1, r2, r3

MCRequests == {r1, r2, r3}
MCPaginated == {r1}
MCNameOf == [r \in MCRequests |-> "opt10081"]
MCOverloadBackoff == <<1, 3>>
=============================================================================
