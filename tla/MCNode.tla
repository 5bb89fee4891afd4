------------------------------- MODULE MCNode -------------------------------
(***************************************************************************)
(* The node for TLC.  The chain and the clients have nothing in common but *)
(* the life of the process, so in each behaviour one of them is busy.      *)
(***************************************************************************)
EXTENDS NodeProcess

VARIABLE busy

MCInit ==
  /\ NodeInit
  /\ busy \in {"Chain", "Clients", "Nobody"}
  /\ busy # "Nobody" => launcher = "node" /\ contained /\ remote # {}
  /\ busy # "Chain" => pinned

MCNext ==
  /\ busy' = busy
  /\ \/ ProcessSteps \/ Create \/ Started \/ Close \/ Leave
     \/ Killed /\ MemoryLost
     \/ Polls
     \/ busy = "Clients" /\ (Answers \/ WorldMoves)
     \/ busy = "Chain" /\ ChainMoves

MCSpec == MCInit /\ [][MCNext]_<<nodeVars, busy>> /\ NodeFairness
=============================================================================
