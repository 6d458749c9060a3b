------------------------------ MODULE MCGroups ------------------------------
(* Groups for TLC. *)
EXTENDS Groups

CONSTANTS
  Menu,     \* the operations that arrive in this run
  States,   \* the enrollment states they set
  Subjects  \* the users they are about; every user may act

bounded(q) ==
  /\ q.op \in Menu
  /\ q.state \in States \cup {None}
  /\ q.member = None \/ q.member.UserID \in Subjects \cup {None}

MCNext ==
  /\ Next
  /\ \A r \in Requests : req[r] = Idle /\ req'[r] # Idle => bounded(req'[r])
  /\ erased' \subseteq Subjects
  /\ \A t \in bypassed' : t[2].UserID \in Subjects

MCSpec == Init /\ [][MCNext]_vars
=============================================================================
