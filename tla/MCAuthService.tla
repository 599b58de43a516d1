--------------------------- MODULE MCAuthService ---------------------------
(***************************************************************************)
(* Small instances of AuthService: the constants of its configurations.    *)
(***************************************************************************)
EXTENDS AuthService, TLC

CONSTANTS u1, u2, h1, h2, h3

OneUser == {u1}
TwoUsers == {u1, u2}
TwoHandlers == {h1, h2}
ThreeHandlers == {h1, h2, h3}

\* Handlers are like each other, and so are users.
Swap == Permutations(Handler) \union Permutations(User)

=============================================================================
