----------------------------- MODULE TaskClaims -----------------------------
(***************************************************************************)
(* What the documentation of the Global Task Framework says of it and the  *)
(* code does not keep: a run of TaskFramework violates it, and             *)
(* PROJECT.json quotes the sentence.                                       *)
(***************************************************************************)
EXTENDS TaskFramework

\* Two tasks of one key never execute side by side.
OneBodyPerKey ==
  \A r, s \in Runs :
    /\ run[r].pc \in {"body", "listen"}
    /\ run[s].pc \in {"body", "listen"}
    /\ TaskOf(r).key = TaskOf(s).key
    => r = s
=============================================================================
