---------------------------- MODULE MCSwipeStore -----------------------------
(* Small instances of SwipeStore for TLC.                                  *)
EXTENDS SwipeStore

Gesture(id, cands) == [type |-> "gesture", id |-> id, cands |-> cands]
Resolved(id, outcome, rank) ==
  [type |-> "resolution", id |-> id, outcome |-> outcome, rank |-> rank]
Feedback(key) == [type |-> "feedback", key |-> key]
Malformed == [type |-> "malformed"]

Mixed == {Gesture(1, 1), Resolved(1, "alternate-selected", 1), Gesture(2, 0),
          Feedback("k"), Malformed}
=============================================================================
