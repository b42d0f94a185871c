---------------------------- MODULE AccountScope ----------------------------
(***************************************************************************)
(* What the adapter promises about the accounts behind one gateway: at any *)
(* moment it works for exactly one account, everything it remembers was    *)
(* learnt for that account, and moving to another account forgets all of   *)
(* it in the same step.  CHANGELOG.md:7 states the promise: "rotated       *)
(* credentials clear account-scoped model caches and session usage".       *)
(***************************************************************************)
CONSTANTS
  Accounts,   \* credentials the user may configure, one per account
  None        \* no catalog learnt yet

VARIABLES
  current,    \* the account requests are made for
  catalog,    \* the account the remembered catalog belongs to, or None
  usage       \* the accounts whose tokens the session counters hold

scopeVars == <<current, catalog, usage>>

ScopeInit ==
  /\ current \in Accounts
  /\ catalog = None
  /\ usage = {}

\* A rotation takes effect: nothing learnt for the old account survives it.
Switch(a) ==
  /\ a # current
  /\ current' = a
  /\ catalog' = None
  /\ usage' = {}

\* A completed discovery for the current account is remembered.
Learn ==
  /\ catalog' = current
  /\ UNCHANGED <<current, usage>>

\* The tokens of a completed message are added to the current session's totals.
Count ==
  /\ usage' = usage \cup {current}
  /\ UNCHANGED <<current, catalog>>

ScopeNext == (\E a \in Accounts : Switch(a)) \/ Learn \/ Count

ScopeSpec == ScopeInit /\ [][ScopeNext]_scopeVars
=============================================================================
