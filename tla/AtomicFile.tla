----------------------------- MODULE AtomicFile -----------------------------
(***************************************************************************)
(* What a file written with a temporary file and a rename promises its     *)
(* readers: at every moment it is missing or holds one of the values some  *)
(* writer meant to store, whole; once it is there it never goes missing;   *)
(* and only a complete write changes it.                                   *)
(***************************************************************************)
CONSTANTS
  Values,  \* what writers store
  Missing  \* no file

VARIABLE content

AtomicInit == content \in Values \cup {Missing}

Replace(v) == content' = v

AtomicSpec == AtomicInit /\ [][\E v \in Values : Replace(v)]_content
=============================================================================
