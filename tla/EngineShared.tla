---------------------------- MODULE EngineShared ----------------------------
(***************************************************************************)
(* The engine of EngineTick beside another one of the same process. Each   *)
(* resident model has its engine thread, and they tick concurrently; the   *)
(* mailbox of failed rows (patches/row_failed.py) is one list of the       *)
(* process, whose entries bear a uid alone, and each generator counts its  *)
(* uids from the start. The other engine is reduced to what it does to the *)
(* mailbox.                                                                *)
(***************************************************************************)
EXTENDS EngineTick

\* Its bridge, after its own tick, empties the mailbox: no row it finds there
\* under its own uids is this engine's.
NeighbourTakes ==
  /\ mailbox # {} /\ mailbox' = {}
  /\ UNCHANGED <<clients, queues, owner, active, rows, gates, guard, out, pc, history>>

\* Its guard or governor fails one of its rows.
NeighbourFails(u) ==
  /\ Comes("neighbour") /\ mailbox' = mailbox \cup {[uid |-> u, mine |-> FALSE]}
  /\ UNCHANGED <<clients, queues, owner, active, rows, gates, guard, out, pc, dropped,
                 failed, closes>>

NextShared ==
  \/ Next
  \/ NeighbourTakes \/ \E u \in UidSet : NeighbourFails(u)

SpecShared == Init /\ [][NextShared]_vars /\ Fairness
=============================================================================
