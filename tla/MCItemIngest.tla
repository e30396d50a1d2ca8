---------------------------- MODULE MCItemIngest ----------------------------
(* Two messages carry the content c1, whose item may already be there; c2 is *)
(* another item of the same topic that may be there with a story to match.   *)
EXTENDS ItemIngest
CONSTANTS m1, m2, c1, c2, t1, w1, w2

SameContent == [m \in Messages |-> c1]
SameTopic == [c \in Contents |-> t1]
=============================================================================
