------------------------------ MODULE MCEgress ------------------------------
(* Small instances of Egress for TLC.                                      *)
EXTENDS Egress

CONSTANTS d1, i1, i2, u1

R(d, s) == [dst |-> d, svc |-> s]

\* A domain and a rule for one of its addresses on the same service.
OneAddress == [d \in Domain |-> {i1}]
BothRules == {R(d1, u1), R(i1, u1)}

\* One domain with two addresses.
TwoAddresses == [d \in Domain |-> Ip]
DomainRule == {R(d1, u1)}
=============================================================================
