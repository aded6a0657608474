-------------------------------- MODULE MCAuth --------------------------------
(***************************************************************************)
(* Accounts and AuthSessions for TLC.  The two share no table, so one      *)
(* behaviour runs one of them: "focus" says which.                         *)
(***************************************************************************)
EXTENDS Accounts, AuthSessions, TLC

CONSTANTS p1, p2, u1, u2, e1, e3, g1, g2

VARIABLE focus

vars == <<accountVars, authVars, focus>>

MCEmailOf   == [i \in {g1, g2} |-> IF i = g1 THEN e1 ELSE None]
MCSynthetic == [i \in {g1, g2} |-> e3]

Symmetry == Permutations({p1, p2})

Init == AccountsInit /\ AuthInit /\ focus \in {"accounts", "sessions"}

Next ==
  \/ focus = "accounts" /\ AccountsNext /\ UNCHANGED <<authVars, focus>>
  \/ focus = "sessions" /\ AuthNext /\ UNCHANGED <<accountVars, focus>>

AuthRun == Init /\ [][Next]_vars
=============================================================================
