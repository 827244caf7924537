------------------------------ MODULE MCUnbound ------------------------------
(***************************************************************************)
(* UnboundEdits with two devices, and the clients that a budget lets act:  *)
(* one or two callers of the firewall, or one beside another editor, or    *)
(* the two editors.                                                        *)
(***************************************************************************)
EXTENDS UnboundEdits, TLC

CONSTANTS c1, c2, d1, r1, m1, m2

Give(n) == [x \in Client |-> IF x \in DOMAIN n THEN n[x] ELSE 0]

\* Three requests of one caller fill the table, empty it and change it between.
MCBudgets ==
  {Give(c1 :> 3 @@ Dhcp :> 1), Give(c1 :> 1 @@ c2 :> 1 @@ Dhcp :> 1),
   Give(c1 :> 1 @@ d1 :> 2 @@ Dhcp :> 1), Give(c1 :> 2 @@ r1 :> 1), Give(d1 :> 1 @@ r1 :> 2)}

\* A reservation is moved and another one removed.
MCBindings == {m1 :> 1 @@ m2 :> 2, m1 :> 3 @@ m2 :> 0}
==============================================================================
