------------------------------- MODULE Spaces -------------------------------
(***************************************************************************)
(* What the smaller components share: identifiers of calls, and            *)
(* the Account Spaces they serve (electron/account-store.ts).              *)
(***************************************************************************)
EXTENDS Integers, FiniteSets, Sequences, Absent

CONSTANTS
  AccountSpaces,
  Calls     \* identifiers, each used for one call of an operation that waits

(* How the controller sees an Account Space: in use, with a handler waiting *)
(* half way, locked or removed.                                            *)
SpaceStates == {"open", "locking", "clearing", "deleting", "locked", "gone"}

\* accounts.require() finds a record that is not locked
Usable(s) == s \notin {"locked", "gone"}
=============================================================================
