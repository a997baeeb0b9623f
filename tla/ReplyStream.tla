---------------------------- MODULE ReplyStream ----------------------------
(***************************************************************************)
(* What the engine promises the client of a request: the request waits, is *)
(* taken, streams at most its budget of tokens and ends once; nothing      *)
(* comes after the end, and a reply that finished carries a token. The     *)
(* requests share a batch: one step may serve several of them.             *)
(***************************************************************************)
EXTENDS Naturals

CONSTANTS Requests, Budget

VARIABLES phase, got

Init == phase = [r \in Requests |-> "new"] /\ got = [r \in Requests |-> 0]

\* Request r goes from a phase to another with so many tokens.
Moves(r, from, to, tokens) ==
  /\ phase[r] = from /\ phase'[r] = to
  /\ got'[r] = got[r] + tokens /\ got'[r] <= Budget[r]

Step(r) ==
  \/ phase'[r] = phase[r] /\ got'[r] = got[r]
  \/ Moves(r, "new", "waiting", 0)
  \/ Moves(r, "waiting", "running", 0)
  \/ Moves(r, "running", "running", 1)
  \/ Moves(r, "running", "finished", 1)
  \/ Moves(r, "waiting", "broken", 0)
  \/ Moves(r, "running", "broken", 0)

Next ==
  /\ phase' \in [Requests -> {"new", "waiting", "running", "finished", "broken"}]
  /\ got' \in [Requests -> Nat]
  /\ \A r \in Requests : Step(r)

Spec == Init /\ [][Next]_<<phase, got>>
=============================================================================
