---------------------------- MODULE MCMembership ----------------------------
(* Model values for TLC: o1 starts approved, and o2 may be registered. *)
EXTENDS Membership

CONSTANTS o1, o2, e1, e2

TwoOwners == [o \in {o1, o2} |-> IF o = o1 THEN {e1, e2} ELSE {}]
OneOwner == [o \in {o1, o2} |-> IF o = o1 THEN {e1} ELSE {}]
=============================================================================
