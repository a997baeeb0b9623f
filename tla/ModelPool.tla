----------------------------- MODULE ModelPool -----------------------------
(***************************************************************************)
(* What the residency pool promises the requests it serves: a model a      *)
(* request uses is loaded, and stays loaded until the request is done      *)
(* with it. When models come and go otherwise is the pool's affair.        *)
(***************************************************************************)
CONSTANTS Threads, Models

VARIABLES
  resident,  \* the models loaded
  uses       \* uses[t]: the models a request of thread t relies on

vars == <<resident, uses>>

Init ==
  /\ resident = {}
  /\ uses = [t \in Threads |-> {}]

InUse == UNION {uses[t] : t \in Threads}

\* A request of t gets model m, loaded now or before.
Use(t, m) ==
  /\ resident' = resident \cup {m}
  /\ uses' = [uses EXCEPT ![t] = @ \cup {m}]

\* A request of t no longer relies on m: it ended, or is the preload's,
\* whose model may be unloaded on demand.
Done(t, m) ==
  /\ uses' = [uses EXCEPT ![t] = @ \ {m}]
  /\ UNCHANGED resident

\* Models no request relies on go.
Evict(S) ==
  /\ S \cap InUse = {}
  /\ resident' = resident \ S
  /\ UNCHANGED uses

Next ==
  \/ \E t \in Threads, m \in Models : Use(t, m) \/ Done(t, m)
  \/ \E S \in SUBSET resident : Evict(S)

Spec == Init /\ [][Next]_vars
=============================================================================
