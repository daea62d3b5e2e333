-------------------------- MODULE MCDataItemStore --------------------------
(* A chain of three localities, 3, 1 and 0; two threads race on locality 3. *)
EXTENDS DataItemStore, TLC

CONSTANTS r0, r1, r2, u1, u2

MCRefs  == {r0, r1, r2}
MCHome  == (r0 :> 0) @@ (r1 :> 3) @@ (r2 :> 3)
MCUsers == {u1, u2}
MCWhere == (u1 :> 3) @@ (u2 :> 3)
=============================================================================
