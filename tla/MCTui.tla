------------------------------- MODULE MCTui -------------------------------
(***************************************************************************)
(* A small instance of Tui: the constants of its configuration.            *)
(***************************************************************************)
EXTENDS Tui, TLC

CONSTANTS a1, a2, p1, e1, e2, s1, s2, f1, f2

NoCli == {}
TwoAttempts == {a1, a2}
OnePassword == {p1}
OneEntry == {e1}
TwoEntries == {e1, e2}
TwoSlots == {s1, s2}
TwoForms == {f1, f2}

\* Slots, forms and logins are like each other; entries differ, one holds a file.
Swap == Permutations(Slot) \union Permutations(Form) \union Permutations(Attempt)

\* What the future depends on: the login's fields matter only on its screen, the
\* entry being viewed only while it is viewed, the form while it is open or to be saved.
Relevant ==
  <<sessionVars, running, screen, err, session, list, data, adding, cmd, held, marked,
    loadsCross, left,
    IF screen = "auth" THEN <<step, action>> ELSE <<>>,
    IF screen = "view" THEN <<viewing, viewsCross>> ELSE <<>>,
    IF screen = "add" \/ Pending({"save"}) THEN form ELSE None>>

=============================================================================
