--------------------------- MODULE ServedRelease ---------------------------
(***************************************************************************)
(* What the download service promises whoever asks it for the latest       *)
(* release: it serves one release at a time.  A newer build takes the      *)
(* place of an older one; an older one comes back only if it was published *)
(* before, and somebody asked for it by name.                              *)
(***************************************************************************)
EXTENDS Integers

CONSTANTS
  Releases, \* records with a build
  None

VARIABLES served, published

Init == served = None /\ published = {}

Publish(r) ==
  /\ served # None => served.build <= r.build
  /\ served' = r
  /\ published' = published \cup {r}

Restore(r) ==
  /\ r \in published
  /\ served' = r
  /\ UNCHANGED published

Next == \E r \in Releases : Publish(r) \/ Restore(r)

Spec == Init /\ [][Next]_<<served, published>>
=============================================================================
