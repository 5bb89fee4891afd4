----------------------------- MODULE NodeProcess -----------------------------
(***************************************************************************)
(* The node (scripts/prime-server-node.mjs, main): providers first, then   *)
(* the registry, the indexer and the gateway, a first poll for events, and *)
(* only then the handlers of SIGINT and SIGTERM; the container starts it   *)
(* again when it ends (deploy/aws/bootstrap.sh).  What the node has in     *)
(* memory, the events and the challenges of wallets, lives as long as the  *)
(* process.                                                                *)
(***************************************************************************)
EXTENDS ProviderProcesses, EventIndexer, WalletSessions

nodeVars == <<processVars, indexerVars, sessionVars>>

NodeInit == ProcessInit /\ IndexerInit /\ SessionsInit

MemoryLost == ForgetIndexer /\ ForgetSessions
MemoryKept == UNCHANGED <<indexerVars, sessionVars>>

(* createFlareRegistry and its checks, the indexer, createPrimeRpcServer,  *)
(* listen; any of them may fail.                                           *)
Create ==
  /\ phase = "Create"
  /\ \/ phase' = "First" /\ BootIndexer /\ UNCHANGED <<trouble, sessionVars>>
     \/ phase' = "Close" /\ Trouble /\ MemoryKept
  /\ UNCHANGED <<ownVars, life, at, listed, alive, port, waiting, saved, leaked>>

(* The first poll is over, well or not.                                    *)
Started ==
  /\ phase = "First" /\ ready /\ poll = "Idle"
  /\ phase' = "Serve"
  /\ UNCHANGED <<ownVars, life, at, listed, alive, port, waiting, saved, leaked, trouble>>
  /\ MemoryKept

(* closeServer waits for the calls that are being answered.                *)
Close ==
  /\ \A c \in Calls : verifying[c] = NoCall
  /\ StopProviders /\ MemoryKept

(* A poll in progress keeps the process alive after main has returned.     *)
Leave ==
  /\ poll = "Idle"
  /\ Stopped /\ MemoryLost

Listening == launcher = "node" /\ phase \in {"First", "Serve"}

Polls ==
  /\ launcher = "node"
  /\ \/ (phase = "Serve" \/ (phase = "First" /\ ~ready)) /\ StartPoll
     \/ phase \in {"First", "Serve", "Close", "Stop"} /\ PollStep
  /\ UNCHANGED <<processVars, sessionVars>>

Answers ==
  /\ \/ Listening /\ SessionCalls
     \/ (Listening \/ phase = "Close") /\ SessionSteps
  /\ UNCHANGED <<processVars, indexerVars>>

WorldMoves == SessionWorld /\ UNCHANGED <<processVars, indexerVars>>
ChainMoves == NewBlock /\ UNCHANGED <<processVars, sessionVars>>

ProcessSteps ==
  /\ \/ LauncherSteps \/ ChildSteps \/ Unhealthy \/ SaveState \/ Shutdown \/ StopCommand
     \/ \E i \in Providers : ChildEnds(i)
     \/ \E child \in alive : ChildCrashes(child)
  /\ MemoryKept

NodeNext ==
  \/ ProcessSteps \/ Create \/ Started \/ Close \/ Leave
  \/ Killed /\ MemoryLost
  \/ Polls \/ Answers \/ WorldMoves \/ ChainMoves

(* Processes run, the poll timer fires, calls are answered, and a launcher *)
(* that ended is started again.                                            *)
NodeFairness ==
  /\ WF_nodeVars(LauncherSteps /\ MemoryKept)
  /\ WF_nodeVars(ChildSteps /\ MemoryKept)
  /\ WF_nodeVars((Unhealthy \/ SaveState) /\ MemoryKept)
  /\ WF_nodeVars(Create) /\ WF_nodeVars(Started)
  /\ WF_nodeVars(Close) /\ WF_nodeVars(Leave)
  /\ \A i \in Providers : WF_nodeVars(ChildEnds(i) /\ MemoryKept)
  /\ WF_nodeVars(Polls) /\ WF_nodeVars(Answers)

NodeSpec == NodeInit /\ [][NodeNext]_nodeVars /\ NodeFairness
=============================================================================
