-------------------------- MODULE ProviderProcesses --------------------------
(***************************************************************************)
(* The two programs that run the storage providers as child processes: the *)
(* node (scripts/prime-server-node.mjs), which serves the gateway as well, *)
(* and the development suite (scripts/providers.mjs), which leaves the     *)
(* pids in a file for its stop command.                                    *)
(*                                                                         *)
(* A launcher starts its children one after the other, each after the one  *)
(* before answered on its port, and stops them when it is told to.  Who    *)
(* answers on a port is not asked: it may be a child that an earlier       *)
(* launcher left behind, and then the new child cannot listen and exits.   *)
(* One launcher runs at a time.  The steps of the node that concern the    *)
(* gateway are in NodeProcess.                                             *)
(***************************************************************************)
EXTENDS Integers

CONSTANTS
  NumProviders,
  MaxTrouble    \* bound on signals, kills, crashes and failures

ASSUME ProcessBounds == NumProviders \in Nat \ {0} /\ MaxTrouble \in Nat

VARIABLES
  launcher,   \* "node" or "suite"
  remote,     \* the providers the node is given the URL of: no child
  contained,  \* the launcher runs in a container, which ends its children too
  life,       \* launchers so far; children are known by <<life, provider>>
  phase,      \* of the launcher
  at,         \* the provider it is starting
  listed,     \* the providers in its list
  alive,      \* the children that run
  port,       \* per provider, the life of the child that listens, or none
  waiting,    \* the providers whose exit the launcher waits for
  saved,      \* the children in the state file of the suite
  leaked,     \* history: children an ending launcher could not stop
  trouble

ownVars == <<launcher, remote, contained>>
processVars == <<ownVars, life, phase, at, listed, alive, port, waiting, saved, leaked,
                 trouble>>

Providers == 1..NumProviders
Own == {<<life, i>> : i \in Providers}
Child(i) == <<life, i>>

ProcessInit ==
  /\ launcher \in {"node", "suite"} /\ contained \in BOOLEAN
  /\ remote \in {{}, {NumProviders}}
  /\ launcher = "suite" => remote = {} /\ ~contained
  /\ life = 0 /\ phase = "Down" /\ at = 1
  /\ listed = {} /\ alive = {} /\ port = [i \in Providers |-> 0] /\ waiting = {}
  /\ saved = {} /\ leaked = {}
  /\ trouble = 0

Trouble == trouble < MaxTrouble /\ trouble' = trouble + 1

Launch ==
  /\ phase = "Down"
  /\ life' = life + 1 /\ phase' = "Spawn" /\ at' = 1 /\ listed' = {} /\ waiting' = {}
  /\ UNCHANGED <<ownVars, alive, port, saved, leaked, trouble>>

(* The node lists a provider before it waits for its health, the suite     *)
(* after.  Variant: always after.                                          *)
ListedAfterHealth == {}
ListedAtSpawn == IF launcher = "node" THEN {at} ELSE {}

Spawn ==
  /\ phase = "Spawn"
  /\ alive' = IF at \in remote THEN alive ELSE alive \cup {Child(at)}
  /\ listed' = listed \cup ListedAtSpawn
  /\ phase' = "Health"
  /\ UNCHANGED <<ownVars, life, at, port, waiting, saved, leaked, trouble>>

(* What remains when some children end.                                    *)
Exit(gone) ==
  /\ alive' = alive \ gone
  /\ port' = [i \in Providers |-> IF <<port[i], i>> \in gone THEN 0 ELSE port[i]]
  /\ waiting' = {i \in waiting : Child(i) \notin gone}

(* provider/src/server.mjs, main: a port in use is an uncaught error.      *)
Listen(l, i) ==
  /\ <<l, i>> \in alive /\ port[i] # l
  /\ IF port[i] = 0
     THEN port' = [port EXCEPT ![i] = l] /\ UNCHANGED <<alive, waiting>>
     ELSE Exit({<<l, i>>})
  /\ UNCHANGED <<ownVars, life, phase, at, listed, saved, leaked, trouble>>

ChildCrashes(child) ==
  /\ child \in alive
  /\ Trouble
  /\ Exit({child})
  /\ UNCHANGED <<ownVars, life, phase, at, listed, saved, leaked>>

(* waitForHealth: somebody answered.                                       *)
Healthy ==
  /\ phase = "Health"
  /\ at \in remote \/ port[at] # 0
  /\ listed' = listed \cup {at}
  /\ IF at < NumProviders
     THEN at' = at + 1 /\ phase' = "Spawn"
     ELSE at' = at /\ phase' = IF launcher = "node" THEN "Create" ELSE "Save"
  /\ UNCHANGED <<ownVars, life, alive, port, waiting, saved, leaked, trouble>>

(* Nobody did in time: the child has gone, or is slow, or a remote provider *)
(* is down.  A slow child of the suite is not in its list, and stays.      *)
Unhealthy ==
  /\ phase = "Health"
  /\ IF at \in remote \/ Child(at) \in alive
     THEN Trouble /\ (at \notin remote => port[at] = 0)
     ELSE port[at] = 0 /\ UNCHANGED trouble
  /\ phase' = "Close"
  /\ leaked' = leaked \cup {c \in alive : c = Child(at) /\ launcher = "suite"}
  /\ UNCHANGED <<ownVars, life, at, listed, alive, port, waiting, saved>>

(* saveState, which is outside of every try: if it fails, the suite ends   *)
(* and stops nothing.                                                      *)
SaveState ==
  /\ phase = "Save"
  /\ \/ /\ saved' = {Child(i) : i \in listed}
        /\ phase' = "Serve"
        /\ UNCHANGED <<leaked, trouble>>
     \/ /\ Trouble
        /\ phase' = "Down"
        /\ leaked' = leaked \cup (alive \cap Own)
        /\ UNCHANGED saved
  /\ UNCHANGED <<ownVars, life, at, listed, alive, port, waiting>>

(* The first signal, when its handler is in place.                         *)
Shutdown ==
  /\ phase = "Serve"
  /\ Trouble
  /\ phase' = "Close"
  /\ UNCHANGED <<ownVars, life, at, listed, alive, port, waiting, saved, leaked>>

(* Variant: the exit of a child that has exited is waited for.             *)
EveryChild == listed \ remote
StillRunning == {i \in listed : Child(i) \in alive}

(* stopProviders, stopProviderProcesses: SIGTERM to every child, then wait *)
(* for all of them.                                                        *)
StopProviders ==
  /\ phase = "Close"
  /\ phase' = "Stop"
  /\ waiting' = StillRunning
  /\ UNCHANGED <<ownVars, life, at, listed, alive, port, saved, leaked, trouble>>

(* A child has no handler for SIGTERM and ends.                            *)
ChildEnds(i) ==
  /\ phase = "Stop" /\ i \in waiting
  /\ Child(i) \in alive
  /\ Exit({Child(i)})
  /\ UNCHANGED <<ownVars, life, phase, at, listed, saved, leaked, trouble>>

(* The state file goes with a suite that had come to serve.                *)
Stopped ==
  /\ phase = "Stop" /\ waiting = {}
  /\ phase' = "Down"
  /\ saved' = IF launcher = "suite" /\ listed = Providers THEN {} ELSE saved
  /\ UNCHANGED <<ownVars, life, at, listed, alive, port, waiting, leaked, trouble>>

(* The launcher is killed, or gets a signal while it starts or a second    *)
(* one while it stops: its handlers are not installed yet, or removed.     *)
(* Only a container takes the children along.                              *)
Killed ==
  /\ phase # "Down"
  /\ Trouble
  /\ phase' = "Down"
  /\ IF contained
     THEN Exit(alive) /\ UNCHANGED leaked
     ELSE leaked' = leaked \cup (alive \cap Own) /\ UNCHANGED <<alive, port, waiting>>
  /\ UNCHANGED <<ownVars, life, at, listed, saved>>

(* stopCommand; a pid that is gone is passed over.                         *)
StopCommand ==
  /\ launcher = "suite" /\ saved # {}
  /\ Exit(saved)
  /\ saved' = {}
  /\ UNCHANGED <<ownVars, life, phase, at, listed, leaked, trouble>>

ChildSteps == \E l \in 1..life, i \in Providers : Listen(l, i)

LauncherSteps == Launch \/ Spawn \/ Healthy

-----------------------------------------------------------------------------
(* No child outlives its launcher, whatever failed during its start and    *)
(* whichever children crashed or could not listen, except those of a       *)
(* launcher that was killed outside of a container, and the two the suite  *)
(* forgets: the one whose health it waited for in vain, and all of them    *)
(* when the state file cannot be written (scripts/prime-server-node.mjs,   *)
(* 281-285; scripts/providers.mjs, 72 and 89-98).                          *)
NoOrphans == phase = "Down" => alive \subseteq leaked

(* A shutdown comes to its end although children exit at any time, before  *)
(* they are sent the signal too (stopProviders, waitForProcessExit).       *)
StopCompletes == phase \in {"Close", "Stop"} ~> phase = "Down"
=============================================================================
