---------------------------- MODULE MCOperations ----------------------------
(* One route, one admin and one run of seed-routes.ts at a time; two mints   *)
(* and two keys.  A run of deploy.ts has the first mint and keeper, or the   *)
(* second mint and keeper.                                                   *)
EXTENDS Operations

CONSTANTS r1, adm, owner, k1, k2, m1, m2, s1

MCArgs == {[oracle |-> k1, keeper |-> k1, mint |-> m1],
           [oracle |-> k1, keeper |-> k2, mint |-> m2]}

MCClients == {"v1", "v2"}

MCNewDefaults == {[premium |-> 1, payoff |-> 2, delay_hours |-> 1]}

MCNewOverrides == {NoOverrides}
=============================================================================
