---------------------------- MODULE MCClickConsumer ----------------------------
(* Instances of ClickConsumer for TLC.                                     *)
EXTENDS ClickConsumer, TLC

CONSTANTS r1, r2, m1, m2, m3, bad

OneReplica == {r1}
TwoReplicas == {r1, r2}
TwoMessages == {m1, bad}
ThreeMessages == {m1, m2, bad}
FourMessages == {m1, m2, m3, bad}
OneBad == {bad}

\* Replicas are interchangeable, and so are the well-formed events.
Symmetry == Permutations(Replica) \cup Permutations(Valid)
================================================================================
