-------------------------- MODULE MCControlPlaneLife --------------------------
(* Small instances of ControlPlaneLife: who has which build. *)
EXTENDS ControlPlaneLife, TLC

CONSTANTS c1, c2, c3, b1, b2

TwoBuilds == (c1 :> b1) @@ (c2 :> b2)
OneBuild == [c \in Cli |-> b1]
=============================================================================
