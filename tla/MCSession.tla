----------------------------- MODULE MCSession -----------------------------
(***************************************************************************)
(* Small instances of Session: the constants of its configurations.        *)
(***************************************************************************)
EXTENDS Session

CONSTANTS c1, c2, a1, a2, p1, p2

OneCli == {c1}
TwoClis == {c1, c2}
OneAttempt == {a1}
TwoAttempts == {a1, a2}
TwoPasswords == {p1, p2}

=============================================================================
