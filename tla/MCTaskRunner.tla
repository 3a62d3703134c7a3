---------------------------- MODULE MCTaskRunner ----------------------------
(* Handlers with and without inner generators, nested twice and empty. *)
EXTENDS TaskRunner

CONSTANTS flat, inner, empty, middle, outer

Handlers ==
    [g \in Gen |->
        CASE g = flat   -> <<"promise", "value", "promise">>
          [] g = inner  -> <<"value", "promise">>
          [] g = empty  -> <<>>
          [] g = middle -> <<inner, "promise", empty>>
          [] g = outer  -> <<"value", inner, "promise", middle>>]

=============================================================================
