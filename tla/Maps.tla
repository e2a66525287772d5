-------------------------------- MODULE Maps --------------------------------
(***************************************************************************)
(* A function put over another one: a key has the value of the first that   *)
(* knows it.  It is @@ of module TLC, which has no definition to prove      *)
(* about.                                                                   *)
(***************************************************************************)
f ++ g == [k \in DOMAIN f \union DOMAIN g |-> IF k \in DOMAIN f THEN f[k] ELSE g[k]]
=============================================================================
