----------------------------- MODULE NodeProofs -----------------------------
(***************************************************************************)
(* Proofs about the node: what its indexer scans, for windows, polls and   *)
(* chains of any length and any sequence of starts, stops and kills; whom  *)
(* its sessions stand for, for any number of wallets and calls at a time;  *)
(* and that no child outlives its launcher unless the launcher was killed. *)
(***************************************************************************)
EXTENDS NodeProcess, TLAPS

(* The indexer follows the phases of the node: it has looked for a cursor  *)
(* only in a process that got as far as the first poll, and has in one     *)
(* that serves.                                                            *)
ReadyInPhase ==
  /\ ready => launcher = "node" /\ phase \in {"First", "Serve", "Close", "Stop"}
  /\ launcher = "node" /\ phase = "Serve" => ready
  /\ launcher \in {"node", "suite"}
  /\ phase = "Create" => launcher = "node"
  /\ phase = "Save" => launcher = "suite"

IndexerTypes ==
  /\ head \in Nat \ {0} /\ nextBlock \in Nat \ {0}
  /\ pinned \in BOOLEAN /\ ready \in BOOLEAN /\ unsaved \in BOOLEAN
  /\ events \in [Blocks -> Nat]
  /\ poll \in {"Idle", "Window", "Save"}
  /\ latest \in Nat /\ target \in Nat /\ lifeStart \in Nat /\ first \in Nat
  /\ cursorMem \in Nat /\ cursorDisk \in Nat

(* A window that is due is not empty, and a process scans forward.         *)
WindowsFit ==
  /\ poll = "Window" => nextBlock <= target
  /\ poll # "Idle" => ready
  /\ ready => lifeStart <= nextBlock
  /\ ~ready => \A b \in Blocks : events[b] = 0

(* Before the first poll the cursor in memory is that of the file; a       *)
(* process without any begins where the first one did, or some process     *)
(* ended too early.                                                        *)
CursorIsLoaded ==
  /\ launcher = "node" /\ phase = "First" /\ ~ready =>
       cursorMem = cursorDisk /\ (pinned => nextBlock = DeploymentBlock + 1)
  /\ first = 0 => cursorDisk = NoCursor /\ ~ready
  /\ ~ready /\ first # 0 /\ cursorDisk = NoCursor => unsaved

IndexerInv ==
  /\ ReadyInPhase /\ IndexerTypes /\ WindowsFit /\ CursorIsLoaded
  /\ ScannedOnce /\ NothingSkipped
-----------------------------------------------------------------------------
(* A step that does not touch the indexer, and starts no first poll.       *)
LEMMA IndexerUntouched ==
  ASSUME IndexerInv, UNCHANGED <<indexerVars, launcher>>, ReadyInPhase',
         phase' = "First" => phase = "First"
  PROVE  IndexerInv'
<1> USE DEF indexerVars, scanVars, indexerHistory
<1>1. IndexerTypes' /\ WindowsFit'
  BY DEF IndexerInv, IndexerTypes, WindowsFit
<1>2. CursorIsLoaded'
  BY DEF IndexerInv, CursorIsLoaded
<1>3. ScannedOnce' /\ NothingSkipped'
  BY DEF IndexerInv, ScannedOnce, NothingSkipped
<1> QED
  BY <1>1, <1>2, <1>3 DEF IndexerInv

LEMMA IndexerBoots ==
  ASSUME IndexerInv, phase = "Create", launcher = "node", BootIndexer,
         phase' = "First", launcher' = launcher
  PROVE  IndexerInv'
<1>1. ~ready /\ ~ready'
  BY DEF IndexerInv, ReadyInPhase, BootIndexer
<1>2. ReadyInPhase' /\ WindowsFit'
  BY <1>1, IndexerBounds DEF ReadyInPhase, WindowsFit, BootIndexer
<1>3. IndexerTypes'
  <2>1. nextBlock' \in Nat \ {0}
    BY IndexerBounds DEF IndexerInv, IndexerTypes, BootIndexer
  <2> QED
    BY <2>1 DEF IndexerInv, IndexerTypes, BootIndexer
<1>4. CursorIsLoaded'
  BY <1>1 DEF IndexerInv, CursorIsLoaded, BootIndexer
<1>5. ScannedOnce' /\ NothingSkipped'
  BY <1>1 DEF IndexerInv, ScannedOnce, NothingSkipped, BootIndexer
<1> QED
  BY <1>2, <1>3, <1>4, <1>5 DEF IndexerInv

LEMMA IndexerForgets ==
  ASSUME IndexerInv, ForgetIndexer, phase' = "Down", launcher' = launcher
  PROVE  IndexerInv'
<1>1. ReadyInPhase' /\ WindowsFit'
  BY DEF IndexerInv, ReadyInPhase, WindowsFit, ForgetIndexer
<1>2. IndexerTypes'
  BY DEF IndexerInv, IndexerTypes, ForgetIndexer
<1>3. CursorIsLoaded'
  BY DEF IndexerInv, CursorIsLoaded, ForgetIndexer
<1>4. ScannedOnce' /\ NothingSkipped'
  BY DEF IndexerInv, ScannedOnce, NothingSkipped, ForgetIndexer
<1> QED
  BY <1>1, <1>2, <1>3, <1>4 DEF IndexerInv

LEMMA ChainGrows ==
  ASSUME IndexerInv, NewBlock, UNCHANGED <<phase, launcher>>
  PROVE  IndexerInv'
<1> USE DEF NewBlock, scanVars, indexerHistory
<1>1. IndexerTypes' /\ WindowsFit' /\ ReadyInPhase'
  BY DEF IndexerInv, IndexerTypes, WindowsFit, ReadyInPhase
<1>2. CursorIsLoaded'
  BY DEF IndexerInv, CursorIsLoaded
<1>3. ScannedOnce' /\ NothingSkipped'
  BY DEF IndexerInv, ScannedOnce, NothingSkipped
<1> QED
  BY <1>1, <1>2, <1>3 DEF IndexerInv
-----------------------------------------------------------------------------
(* A poll has at least one window, and a window at least one block.        *)
LEMMA PollHasBlocks ==
  ASSUME NEW from \in Nat \ {0}, NEW top \in Nat, from <= top
  PROVE  PollTarget(from, top) \in Nat /\ from <= PollTarget(from, top)
<1>1. MaxBlockRange * MaxRangesPerPoll \in Nat /\ MaxBlockRange * MaxRangesPerPoll >= 1
  <2>1. \A m, n \in Nat \ {0} : m * n \in Nat /\ m * n >= 1
    OBVIOUS
  <2> QED
    BY <2>1, IndexerBounds
<1> QED
  BY <1>1 DEF PollTarget, Lesser

LEMMA WindowHasBlocks ==
  ASSUME IndexerInv, poll = "Window"
  PROVE  WindowEnd(nextBlock) \in Nat /\ nextBlock <= WindowEnd(nextBlock)
BY IndexerBounds DEF IndexerInv, IndexerTypes, WindowsFit, WindowEnd

(* The first thing a poll does is to look for the cursor.                  *)
LEMMA CursorIsRead ==
  ASSUME IndexerInv, launcher = "node", phase = "Serve" \/ phase = "First",
         BecomesReady, poll = "Idle",
         UNCHANGED <<phase, launcher, head, pinned, events, cursorMem, cursorDisk, seen,
                     unsaved>>,
         poll' \in {"Idle", "Window"}, latest' \in Nat, target' \in Nat,
         poll' = "Window" => StartBlock <= target'
  PROVE  IndexerInv'
<1>1. StartBlock \in Nat \ {0}
  BY DEF IndexerInv, IndexerTypes, StartBlock, NoCursor
<1>2. nextBlock' = StartBlock /\ ready' /\ first' # 0
  BY <1>1 DEF BecomesReady
<1>3. IndexerTypes'
  BY <1>1 DEF IndexerInv, IndexerTypes, BecomesReady
<1>4. ReadyInPhase' /\ CursorIsLoaded'
  BY <1>2 DEF IndexerInv, ReadyInPhase, CursorIsLoaded
<1>5. CASE ready
  <2>1. StartBlock = nextBlock /\ lifeStart' = lifeStart /\ first' = first
    BY <1>5 DEF IndexerInv, CursorIsLoaded, StartBlock, BecomesReady
  <2>2. WindowsFit' /\ ScannedOnce' /\ NothingSkipped'
    BY <1>2, <1>5, <2>1 DEF IndexerInv, WindowsFit, ScannedOnce, NothingSkipped
  <2> QED
    BY <1>3, <1>4, <2>2 DEF IndexerInv
<1>6. CASE ~ready
  <2>1. lifeStart' = nextBlock' /\ \A b \in Blocks : events'[b] = 0
    BY <1>2, <1>6 DEF IndexerInv, WindowsFit, BecomesReady
  <2>2. WindowsFit'
    BY <1>1, <1>2, <2>1 DEF WindowsFit
  <2>3. ScannedOnce'
    BY <1>1, <1>2, <2>1 DEF ScannedOnce, Blocks
  <2>4. cursorMem = cursorDisk /\ (pinned => nextBlock = DeploymentBlock + 1)
    BY <1>6 DEF IndexerInv, ReadyInPhase, CursorIsLoaded
  <2>5. ASSUME first = 0 PROVE NothingSkipped'
    <3>1. cursorDisk = 0 /\ first' = nextBlock' /\ StartBlock = nextBlock
      BY <1>2, <2>4, <2>5 DEF IndexerInv, CursorIsLoaded, BecomesReady, StartBlock, NoCursor
    <3>2. first'..(nextBlock' - 1) = {} /\ first'..(cursorDisk' - 1) = {}
      BY <1>1, <1>2, <3>1
    <3> QED
      BY <1>2, <1>3, <2>4, <3>1, <3>2 DEF NothingSkipped, IndexerTypes
  <2>6. ASSUME first # 0 /\ cursorDisk # 0 PROVE NothingSkipped'
    <3>1. first' = first /\ nextBlock' = cursorDisk
      BY <1>2, <1>6, <2>4, <2>6 DEF BecomesReady, StartBlock, NoCursor
    <3> QED
      BY <1>3, <2>6, <3>1 DEF IndexerInv, IndexerTypes, NothingSkipped
  <2>7. ASSUME first # 0 /\ cursorDisk = 0 PROVE NothingSkipped'
    <3>1. unsaved /\ first' = first /\ StartBlock = nextBlock
      BY <1>6, <2>4, <2>7 DEF IndexerInv, CursorIsLoaded, BecomesReady, StartBlock, NoCursor
    <3>2. pinned => first' = nextBlock'
      BY <1>2, <2>4, <2>7, <3>1 DEF IndexerInv, NothingSkipped
    <3>3. pinned => first'..(nextBlock' - 1) = {} /\ first'..(cursorDisk' - 1) = {}
      BY <1>1, <1>2, <2>7, <3>2
    <3> QED
      BY <1>3, <2>7, <3>1, <3>3 DEF IndexerInv, IndexerTypes, NothingSkipped
  <2> QED
    BY <1>3, <1>4, <2>2, <2>3, <2>5, <2>6, <2>7 DEF IndexerInv
<1> QED
  BY <1>5, <1>6

LEMMA PollStarts ==
  ASSUME IndexerInv, launcher = "node", phase = "Serve" \/ phase = "First", StartPoll,
         UNCHANGED <<phase, launcher>>
  PROVE  IndexerInv'
<1>1. CASE BeginPoll
  <2>1. StartBlock \in Nat \ {0} /\ head \in Nat
    BY DEF IndexerInv, IndexerTypes, StartBlock, NoCursor
  <2>2. target' \in Nat /\ StartBlock <= target'
    BY <1>1, <2>1, PollHasBlocks DEF BeginPoll
  <2> QED
    BY <1>1, <2>1, <2>2, CursorIsRead DEF BeginPoll
<1>2. CASE PollNothing
  BY <1>2, CursorIsRead DEF PollNothing, IndexerInv, IndexerTypes
<1>3. CASE poll = "Idle" /\ PollFails
  BY <1>3, CursorIsRead DEF PollFails, EndsInFailure, IndexerInv, IndexerTypes
<1> QED
  BY <1>1, <1>2, <1>3 DEF StartPoll

LEMMA PollGoesOn ==
  ASSUME IndexerInv, PollStep, UNCHANGED <<phase, launcher>>
  PROVE  IndexerInv'
<1>1. ready
  BY DEF IndexerInv, WindowsFit, PollStep, FinishPoll, ScanWindow, SaveCursor, SaveCursorFails
<1>2. CASE ScanWindow
  <2> DEFINE to == WindowEnd(nextBlock)
  <2>1. to \in Nat /\ nextBlock <= to
    BY <1>2, WindowHasBlocks DEF ScanWindow
  <2> HIDE DEF to
  <2>2. /\ nextBlock' = to + 1 /\ seen' = seen \cup (nextBlock..to) /\ poll' = "Save"
        /\ events' = [b \in Blocks |-> IF b \in nextBlock..to THEN events[b] + 1
                                       ELSE events[b]]
        /\ UNCHANGED <<head, pinned, ready, latest, target, cursorMem, cursorDisk,
                       lifeStart, first, unsaved>>
    BY <1>2 DEF ScanWindow, NextAfter, to
  <2>3. nextBlock \in Nat \ {0} /\ lifeStart \in Nat /\ first \in Nat
        /\ lifeStart <= nextBlock
    BY <1>1 DEF IndexerInv, IndexerTypes, WindowsFit
  <2>4. IndexerTypes'
    BY <2>1, <2>2 DEF IndexerInv, IndexerTypes
  <2>5. ReadyInPhase' /\ CursorIsLoaded' /\ WindowsFit'
    BY <1>1, <2>1, <2>2, <2>3 DEF IndexerInv, ReadyInPhase, CursorIsLoaded, WindowsFit
  <2>6. ScannedOnce'
    <3> SUFFICES ASSUME NEW b \in Blocks
                 PROVE  events'[b] = IF lifeStart <= b /\ b < to + 1 THEN 1 ELSE 0
      BY <2>2 DEF ScannedOnce
    <3>1. events[b] = IF lifeStart <= b /\ b < nextBlock THEN 1 ELSE 0
      BY <1>1 DEF IndexerInv, ScannedOnce
    <3>2. b \in Nat
      BY DEF Blocks
    <3> QED
      BY <2>1, <2>2, <2>3, <3>1, <3>2
  <2>7. NothingSkipped'
    <3>1. first..(nextBlock' - 1) \subseteq (first..(nextBlock - 1)) \cup (nextBlock..to)
      BY <2>1, <2>2, <2>3
    <3> QED
      BY <1>1, <2>2, <3>1 DEF IndexerInv, NothingSkipped
  <2> QED
    BY <2>4, <2>5, <2>6, <2>7 DEF IndexerInv
<1>3. CASE SaveCursor \/ SaveCursorFails
  <2>1. /\ cursorMem' = nextBlock /\ cursorDisk' \in {cursorDisk, nextBlock}
        /\ poll' = "Idle" \/ (poll' = "Window" /\ nextBlock <= target)
        /\ UNCHANGED <<head, pinned, nextBlock, ready, events, latest, target, lifeStart,
                       first, seen, unsaved>>
    BY <1>3 DEF SaveCursor, SaveCursorFails, AfterSave, EndsInFailure, indexerHistory
  <2>2. IndexerTypes' /\ WindowsFit' /\ ReadyInPhase'
    BY <1>1, <2>1 DEF IndexerInv, IndexerTypes, WindowsFit, ReadyInPhase
  <2>3. CursorIsLoaded'
    BY <1>1, <2>1 DEF IndexerInv, CursorIsLoaded
  <2>4. ScannedOnce' /\ NothingSkipped'
    BY <1>1, <2>1 DEF IndexerInv, ScannedOnce, NothingSkipped
  <2> QED
    BY <2>2, <2>3, <2>4 DEF IndexerInv
<1>4. CASE poll = "Window" /\ PollFails
  <2>1. /\ poll' = "Idle"
        /\ UNCHANGED <<head, pinned, nextBlock, ready, events, latest, target, cursorMem,
                       cursorDisk, lifeStart, first, seen, unsaved>>
    BY <1>4 DEF PollFails, EndsInFailure
  <2>2. IndexerTypes' /\ WindowsFit' /\ ReadyInPhase'
    BY <1>1, <2>1 DEF IndexerInv, IndexerTypes, WindowsFit, ReadyInPhase
  <2>3. CursorIsLoaded' /\ ScannedOnce' /\ NothingSkipped'
    BY <1>1, <2>1 DEF IndexerInv, CursorIsLoaded, ScannedOnce, NothingSkipped
  <2> QED
    BY <2>2, <2>3 DEF IndexerInv
<1> QED
  BY <1>2, <1>3, <1>4 DEF PollStep, FinishPoll
-----------------------------------------------------------------------------
(* The inductive invariant of the indexer in the node.                     *)
LEMMA IndexerInvariance == NodeSpec => []IndexerInv
<1>1. NodeInit => IndexerInv
  <2> SUFFICES ASSUME NodeInit PROVE IndexerInv
    OBVIOUS
  <2> USE DEF NodeInit, ProcessInit, IndexerInit
  <2>1. ReadyInPhase
    BY DEF ReadyInPhase
  <2>3. IndexerTypes
    <3>1. head \in Nat \ {0} /\ nextBlock \in Nat \ {0} /\ events \in [Blocks -> Nat]
      BY IndexerBounds
    <3>2. pinned \in BOOLEAN /\ ready \in BOOLEAN /\ unsaved \in BOOLEAN
      OBVIOUS
    <3> QED
      BY <3>1, <3>2 DEF IndexerTypes, NoCursor
  <2>2. WindowsFit /\ CursorIsLoaded
    BY DEF WindowsFit, CursorIsLoaded
  <2> QED
    BY <2>1, <2>2, <2>3 DEF IndexerInv, ScannedOnce, NothingSkipped
<1>2. IndexerInv /\ [NodeNext]_nodeVars => IndexerInv'
  <2> SUFFICES ASSUME IndexerInv, [NodeNext]_nodeVars PROVE IndexerInv'
    OBVIOUS
  <2>1. CASE ProcessSteps
    <3>1. UNCHANGED <<indexerVars, launcher>>
      BY <2>1 DEF ProcessSteps, MemoryKept, LauncherSteps, Launch, Spawn, Healthy, ChildSteps,
                  Listen, Unhealthy, SaveState, Shutdown, StopCommand, ChildEnds,
                  ChildCrashes, ownVars
    <3>2. /\ phase' = "First" => phase = "First"
          /\ phase' = "Serve" => phase = "Serve" \/ phase = "Save"
          /\ phase' = "Save" => phase = "Save" \/ launcher = "suite"
          /\ phase' = "Create" => phase = "Create" \/ launcher = "node"
          /\ phase \in {"First", "Serve", "Close", "Stop"} =>
               phase' \in {"First", "Serve", "Close", "Stop"}
      BY <2>1 DEF ProcessSteps, LauncherSteps, Launch, Spawn, Healthy, ChildSteps,
                  Listen, Unhealthy, SaveState, Shutdown, StopCommand, ChildEnds,
                  ChildCrashes, IndexerInv, ReadyInPhase
    <3>3. ReadyInPhase'
      BY <3>1, <3>2 DEF IndexerInv, ReadyInPhase, indexerVars, scanVars
    <3> QED
      BY <3>1, <3>2, <3>3, IndexerUntouched
  <2>2. CASE Create
    <3>1. CASE phase' = "First" /\ BootIndexer
      BY <2>2, <3>1, IndexerBoots DEF Create, ownVars, IndexerInv, ReadyInPhase
    <3>2. CASE phase' = "Close" /\ MemoryKept
      <4>1. UNCHANGED <<indexerVars, launcher>>
        BY <2>2, <3>2 DEF Create, MemoryKept, ownVars
      <4>2. ReadyInPhase'
        BY <3>2, <4>1 DEF IndexerInv, ReadyInPhase, indexerVars, scanVars
      <4> QED
        BY <3>2, <4>1, <4>2, IndexerUntouched
    <3> QED
      BY <2>2, <3>1, <3>2 DEF Create
  <2>3. CASE Started \/ Close
    <3>1. UNCHANGED <<indexerVars, launcher>> /\ phase' \in {"Serve", "Stop"}
      BY <2>3 DEF Started, Close, StopProviders, MemoryKept, ownVars
    <3>2. ReadyInPhase'
      BY <2>3, <3>1 DEF IndexerInv, ReadyInPhase, indexerVars, scanVars, Started, Close,
                        StopProviders
    <3> QED
      BY <3>1, <3>2, IndexerUntouched
  <2>4. CASE Leave \/ (Killed /\ MemoryLost)
    BY <2>4, IndexerForgets DEF Leave, Killed, MemoryLost, Stopped, ownVars
  <2>5. CASE Polls
    <3>1. UNCHANGED <<phase, launcher>>
      BY <2>5 DEF Polls, processVars, ownVars
    <3>2. CASE (phase = "Serve" \/ (phase = "First" /\ ~ready)) /\ StartPoll
      BY <2>5, <3>1, <3>2, PollStarts DEF Polls
    <3>3. CASE PollStep
      BY <3>1, <3>3, PollGoesOn
    <3> QED
      BY <2>5, <3>2, <3>3 DEF Polls
  <2>6. CASE Answers \/ WorldMoves \/ UNCHANGED nodeVars
    <3>1. UNCHANGED <<indexerVars, launcher, phase>>
      BY <2>6 DEF Answers, WorldMoves, nodeVars, processVars, ownVars
    <3>2. ReadyInPhase'
      BY <3>1 DEF IndexerInv, ReadyInPhase, indexerVars, scanVars
    <3> QED
      BY <3>1, <3>2, IndexerUntouched
  <2>7. CASE ChainMoves
    BY <2>7, ChainGrows DEF ChainMoves, processVars, ownVars
  <2> QED
    BY <2>1, <2>2, <2>3, <2>4, <2>5, <2>6, <2>7 DEF NodeNext
<1> QED
  BY <1>1, <1>2, PTL DEF NodeSpec

(* For windows and polls of any length: a process holds the events of      *)
(* every block it scanned exactly once (event-indexer.mjs, poll).          *)
THEOREM ScansOnce == NodeSpec => []ScannedOnce
<1>1. IndexerInv => ScannedOnce
  BY DEF IndexerInv
<1> QED
  BY <1>1, IndexerInvariance, PTL

(* For any sequence of starts, kills and failed writes: no block before    *)
(* the cursor is left out, unless there is no deployment block and a       *)
(* process ended before it had saved a cursor (poll; prime-server-node.mjs,*)
(* fromBlock).                                                             *)
THEOREM SkipsNothing == NodeSpec => []NothingSkipped
<1>1. IndexerInv => NothingSkipped
  BY DEF IndexerInv
<1> QED
  BY <1>1, IndexerInvariance, PTL
-----------------------------------------------------------------------------
(* The sessions.  What a call verifies was issued to its wallet and was    *)
(* not expired when the call began, and so was what a token came from.     *)
Pending == [wallet : Wallets, nonce : Nonces, at : Nat]

SessionTypes ==
  /\ clock \in Nat
  /\ issued \in [Nonces -> [wallet : Wallets \cup {NoWallet}, at : Nat]]
  /\ challenges \subseteq Nonces /\ signatures \subseteq Nonces
  /\ verifying \in [Calls -> Pending \cup {NoCall}]
  /\ given \in [Nonces -> Nat]
  /\ tokens \subseteq [wallet : Wallets, nonce : signatures, expiresAt : Nat]

IssuedInTime ==
  /\ \A c \in Calls : LET call == verifying[c] IN
       call # NoCall => /\ issued[call.nonce].wallet = call.wallet
                        /\ call.at < issued[call.nonce].at + ChallengeTtl
  /\ \A t \in tokens :
       /\ issued[t.nonce].wallet = t.wallet
       /\ t.expiresAt < issued[t.nonce].at + ChallengeTtl + SessionTtl

(* A challenge that gave its session is gone, and nobody verifies it.      *)
UsedUp(n) ==
  /\ n \notin challenges /\ issued[n] # NotIssued
  /\ \A c \in Calls : verifying[c] # NoCall => verifying[c].nonce # n

ChallengesUsedUp ==
  \A n \in Nonces : n \notin doubled =>
    given[n] = 0 \/ (given[n] = 1 /\ UsedUp(n))

SessionInv == SessionTypes /\ IssuedInTime /\ ChallengesUsedUp

LEMMA PendingIsCall == \A call \in Pending : call # NoCall /\ call.wallet # NoWallet
BY NoWalletIsNone DEF Pending, NoCall

LEMMA SessionsForgotten == ASSUME SessionInv, ForgetSessions PROVE SessionInv'
<1> USE DEF ForgetSessions, historyVars
<1>1. SessionTypes'
  BY DEF SessionInv, SessionTypes
<1>2. IssuedInTime'
  BY DEF SessionInv, IssuedInTime
<1>3. ChallengesUsedUp'
  BY DEF SessionInv, ChallengesUsedUp, UsedUp
<1> QED
  BY <1>1, <1>2, <1>3 DEF SessionInv

LEMMA ChallengeIsNew ==
  ASSUME SessionInv, NEW w \in Wallets, NEW n \in Nonces, CreateChallenge(w, n)
  PROVE  SessionInv'
<1> USE DEF CreateChallenge, historyVars
<1>1. SessionTypes'
  BY DEF SessionInv, SessionTypes
<1>2. \A m \in Nonces : issued[m].wallet \in Wallets => issued'[m] = issued[m]
  BY NoWalletIsNone DEF SessionInv, SessionTypes, NotIssued
<1>3. IssuedInTime'
  <2>1. \A c \in Calls : verifying[c] # NoCall =>
          issued'[verifying[c].nonce] = issued[verifying[c].nonce]
    BY <1>2 DEF SessionInv, SessionTypes, IssuedInTime, Pending
  <2>2. \A t \in tokens : issued'[t.nonce] = issued[t.nonce]
    BY <1>2 DEF SessionInv, SessionTypes, IssuedInTime
  <2> QED
    BY <2>1, <2>2 DEF SessionInv, IssuedInTime
<1>4. ChallengesUsedUp'
  <2>1. \A m \in Nonces \ {n} : issued'[m] = issued[m]
    BY DEF SessionInv, SessionTypes
  <2> QED
    BY <2>1 DEF SessionInv, ChallengesUsedUp, UsedUp
<1> QED
  BY <1>1, <1>3, <1>4 DEF SessionInv

LEMMA SessionBegins ==
  ASSUME SessionInv, NEW c \in Calls, NEW w \in Wallets, NEW n \in Nonces,
         BeginSession(c, w, n)
  PROVE  SessionInv'
<1> USE DEF BeginSession, historyVars
<1> DEFINE call == [wallet |-> w, nonce |-> n, at |-> clock]
<1>1. call \in Pending
  BY DEF SessionInv, SessionTypes, Pending
<1>2. CASE Finds(w, n) /\ Fresh(n) /\ verifying' = [verifying EXCEPT ![c] = call]
             /\ challenges' = challenges
  <2>1. /\ verifying'[c] = call
        /\ \A d \in Calls \ {c} : verifying'[d] = verifying[d]
    BY <1>2 DEF SessionInv, SessionTypes
  <2>2. SessionTypes'
    BY <1>1, <1>2 DEF SessionInv, SessionTypes
  <2>3. issued[n].wallet = w /\ clock < issued[n].at + ChallengeTtl
    BY <1>2, SessionBounds DEF SessionInv, SessionTypes, Finds, Fresh, ExpiresAt
  <2>4. IssuedInTime'
    BY <2>1, <2>3 DEF SessionInv, IssuedInTime
  <2>5. ChallengesUsedUp'
    BY <1>2, <2>1 DEF SessionInv, ChallengesUsedUp, UsedUp, Finds
  <2> QED
    BY <2>2, <2>4, <2>5 DEF SessionInv
<1>3. CASE challenges' = challenges \ {n} /\ verifying' = verifying
  <2>1. SessionTypes' /\ IssuedInTime'
    BY <1>3 DEF SessionInv, SessionTypes, IssuedInTime
  <2>2. ChallengesUsedUp'
    BY <1>3 DEF SessionInv, ChallengesUsedUp, UsedUp
  <2> QED
    BY <2>1, <2>2 DEF SessionInv
<1> QED
  BY <1>2, <1>3

LEMMA SessionEnds ==
  ASSUME SessionInv, NEW c \in Calls, NEW valid \in BOOLEAN, EndSession(c, valid)
  PROVE  SessionInv'
<1> USE DEF EndSession, historyVars
<1> DEFINE call == verifying[c]
<1>1. call \in Pending /\ call # NoCall
  BY DEF SessionInv, SessionTypes
<1>2. call.wallet \in Wallets /\ call.nonce \in Nonces /\ call.at \in Nat
  BY <1>1 DEF Pending
<1>3. /\ verifying'[c] = NoCall
      /\ \A d \in Calls \ {c} : verifying'[d] = verifying[d]
  BY DEF SessionInv, SessionTypes
<1>4. issued[call.nonce].wallet = call.wallet
      /\ call.at < issued[call.nonce].at + ChallengeTtl
  BY <1>1 DEF SessionInv, IssuedInTime
<1>5. CASE ~valid
  <2>1. UNCHANGED <<clock, issued, challenges, signatures, tokens, given, doubled>>
    BY <1>5
  <2>2. SessionTypes' /\ IssuedInTime'
    BY <1>3, <2>1 DEF SessionInv, SessionTypes, IssuedInTime
  <2>3. ChallengesUsedUp'
    BY <1>3, <2>1 DEF SessionInv, ChallengesUsedUp, UsedUp
  <2> QED
    BY <2>2, <2>3 DEF SessionInv
<1>6. CASE valid
  <2>1. /\ challenges' = challenges \ {call.nonce} /\ call.nonce \in signatures
        /\ tokens' = tokens \cup {TokenOf(call)}
        /\ given' = [given EXCEPT ![call.nonce] = @ + 1]
        /\ UNCHANGED <<clock, issued, signatures>>
    BY <1>6 DEF Consumed
  <2>2. SessionTypes'
    <3>1. TokenOf(call) \in [wallet : Wallets, nonce : signatures, expiresAt : Nat]
      BY <1>2, <2>1, SessionBounds DEF TokenOf
    <3>2. verifying' \in [Calls -> Pending \cup {NoCall}]
      BY DEF SessionInv, SessionTypes
    <3>3. given' \in [Nonces -> Nat]
      BY <2>1 DEF SessionInv, SessionTypes
    <3> QED
      BY <2>1, <3>1, <3>2, <3>3 DEF SessionInv, SessionTypes
  <2>3. IssuedInTime'
    <3>1. issued[call.nonce].at \in Nat
      BY <1>2 DEF SessionInv, SessionTypes
    <3>2. LET t == TokenOf(call) IN
          /\ issued[t.nonce].wallet = t.wallet
          /\ t.expiresAt < issued[t.nonce].at + ChallengeTtl + SessionTtl
      BY <1>2, <1>4, <3>1, SessionBounds DEF TokenOf
    <3> QED
      BY <1>3, <2>1, <3>2 DEF SessionInv, IssuedInTime
  <2>4. ChallengesUsedUp'
    <3> SUFFICES ASSUME NEW n \in Nonces, n \notin doubled'
                 PROVE  (given[n] = 0 \/ (given[n] = 1 /\ UsedUp(n)))'
      BY DEF ChallengesUsedUp
    <3>1. n \notin doubled
      BY <1>6
    <3>2. given[n] = 0 \/ (given[n] = 1 /\ UsedUp(n))
      BY <3>1 DEF SessionInv, ChallengesUsedUp
    <3>3. CASE n # call.nonce
      <4>1. given'[n] = given[n]
        BY <2>1, <3>3 DEF SessionInv, SessionTypes
      <4> QED
        BY <1>3, <2>1, <3>2, <4>1 DEF UsedUp
    <3>4. CASE n = call.nonce
      <4>1. given[n] = 0
        BY <1>1, <3>2, <3>4 DEF UsedUp
      <4>2. given'[n] = 1
        BY <2>1, <3>4, <4>1 DEF SessionInv, SessionTypes
      <4>3. \A d \in Calls \ {c} : verifying[d].wallet = NoWallet \/ verifying[d].nonce # n
        BY <1>6, <3>4
      <4>4. \A d \in Calls \ {c} : verifying[d] # NoCall => verifying[d].nonce # n
        BY <4>3, PendingIsCall DEF SessionInv, SessionTypes
      <4>5. issued[n] # NotIssued
        BY <1>2, <1>4, <3>4, NoWalletIsNone DEF NotIssued
      <4> QED
        BY <1>3, <2>1, <3>4, <4>2, <4>4, <4>5 DEF UsedUp
    <3> QED
      BY <3>3, <3>4
  <2> QED
    BY <2>2, <2>3, <2>4 DEF SessionInv
<1> QED
  BY <1>5, <1>6

LEMMA SessionInvariance == NodeSpec => []SessionInv
<1>1. NodeInit => SessionInv
  <2> SUFFICES ASSUME NodeInit PROVE SessionInv
    OBVIOUS
  <2> USE DEF NodeInit, SessionsInit
  <2>1. SessionTypes
    BY DEF SessionTypes, NotIssued
  <2>2. IssuedInTime /\ ChallengesUsedUp
    BY DEF IssuedInTime, ChallengesUsedUp
  <2> QED
    BY <2>1, <2>2 DEF SessionInv
<1>2. SessionInv /\ [NodeNext]_nodeVars => SessionInv'
  <2> SUFFICES ASSUME SessionInv, [NodeNext]_nodeVars PROVE SessionInv'
    OBVIOUS
  <2>1. ASSUME UNCHANGED sessionVars PROVE SessionInv'
    <3> USE <2>1 DEF sessionVars, historyVars
    <3>1. SessionTypes'
      BY DEF SessionInv, SessionTypes
    <3>2. IssuedInTime' /\ ChallengesUsedUp'
      BY DEF SessionInv, IssuedInTime, ChallengesUsedUp, UsedUp
    <3> QED
      BY <3>1, <3>2 DEF SessionInv
  <2>2. CASE ProcessSteps \/ Create \/ Started \/ Close \/ Polls \/ ChainMoves
             \/ UNCHANGED nodeVars
    BY <2>1, <2>2 DEF ProcessSteps, Create, Started, Close, Polls, ChainMoves, MemoryKept,
                      nodeVars
  <2>3. CASE Leave \/ (Killed /\ MemoryLost)
    BY <2>3, SessionsForgotten DEF Leave, MemoryLost
  <2>4. CASE SessionCalls
    BY <2>4, ChallengeIsNew, SessionBegins DEF SessionCalls
  <2>5. CASE SessionSteps
    BY <2>5, SessionEnds DEF SessionSteps
  <2>6. CASE Later
    <3> USE <2>6 DEF Later, historyVars
    <3>1. SessionTypes'
      BY DEF SessionInv, SessionTypes
    <3>2. IssuedInTime' /\ ChallengesUsedUp'
      BY DEF SessionInv, IssuedInTime, ChallengesUsedUp, UsedUp
    <3> QED
      BY <3>1, <3>2 DEF SessionInv
  <2>7. ASSUME NEW n \in Nonces, SignChallenge(n) PROVE SessionInv'
    <3> USE <2>7 DEF SignChallenge, historyVars
    <3>1. SessionTypes'
      BY DEF SessionInv, SessionTypes
    <3>2. IssuedInTime' /\ ChallengesUsedUp'
      BY DEF SessionInv, IssuedInTime, ChallengesUsedUp, UsedUp
    <3> QED
      BY <3>1, <3>2 DEF SessionInv
  <2> QED
    BY <2>2, <2>3, <2>4, <2>5, <2>6, <2>7
       DEF NodeNext, Answers, WorldMoves, SessionWorld
<1> QED
  BY <1>1, <1>2, PTL DEF NodeSpec

(* For any wallets, challenges, calls and lifetimes, and any kill of the   *)
(* process: a wallet is served only with its own signature on a challenge  *)
(* of its own, not older than a challenge and a session last               *)
(* (auth.mjs, createSession and verifyToken).                              *)
THEOREM ServesTheSigner == NodeSpec => []TokensAreSigned
<1>1. SessionInv => TokensAreSigned
  <2> SUFFICES ASSUME SessionInv, NEW w \in Wallets, Authenticated(w)
               PROVE  \E n \in signatures :
                        /\ issued[n].wallet = w
                        /\ clock < issued[n].at + ChallengeTtl + SessionTtl
    BY DEF TokensAreSigned
  <2>1. PICK t \in tokens : t.wallet = w /\ t.expiresAt > clock
    BY DEF Authenticated
  <2>2. /\ t.nonce \in signatures /\ t.expiresAt \in Nat /\ clock \in Nat
        /\ issued[t.nonce].wallet = w /\ issued[t.nonce].at \in Nat
        /\ t.expiresAt < issued[t.nonce].at + ChallengeTtl + SessionTtl
    BY <2>1 DEF SessionInv, SessionTypes, IssuedInTime
  <2>3. clock < issued[t.nonce].at + ChallengeTtl + SessionTtl
    BY <2>1, <2>2, SessionBounds
  <2> QED
    BY <2>2, <2>3
<1> QED
  BY <1>1, SessionInvariance, PTL

(* For any number of calls at once: a challenge gives one session unless   *)
(* two calls were verifying it together (createSession).                   *)
THEOREM OneSessionEach == NodeSpec => []OneSessionPerChallenge
<1>1. SessionInv => OneSessionPerChallenge
  BY DEF SessionInv, ChallengesUsedUp, OneSessionPerChallenge
<1> QED
  BY <1>1, SessionInvariance, PTL
-----------------------------------------------------------------------------
(* The children.  One that nobody gave up is of the running launcher, and  *)
(* this one knows it: it is in its list, or is the one of the suite whose  *)
(* health is awaited; while the launcher stops, it is waited for.          *)
Kept(i) ==
  /\ phase # "Down"
  /\ phase = "Stop" => i \in waiting
  /\ phase # "Stop" => i \in listed \/ (phase = "Health" /\ launcher = "suite" /\ i = at)

ChildrenKept ==
  /\ launcher \in {"node", "suite"} /\ at \in Providers
  /\ \A child \in alive \ leaked : \E i \in Providers : child = Child(i) /\ Kept(i)

(* Children that end leave the others as they were.                        *)
LEMMA ExitKeepsChildren ==
  ASSUME ChildrenKept, NEW gone, Exit(gone), UNCHANGED <<launcher, life, phase, at, listed, leaked>>
  PROVE  ChildrenKept'
<1> SUFFICES ASSUME NEW child \in alive' \ leaked
             PROVE  \E i \in Providers : child = Child(i) /\ Kept(i)'
  BY DEF ChildrenKept, Child
<1>1. child \in alive \ leaked /\ child \notin gone
  BY DEF Exit
<1>2. PICK i \in Providers : child = Child(i) /\ Kept(i)
  BY <1>1 DEF ChildrenKept
<1>3. i \in waiting => i \in waiting'
  BY <1>1, <1>2 DEF Exit
<1>4. Kept(i)'
  BY <1>2, <1>3 DEF Kept
<1> QED
  BY <1>2, <1>4

(* A launcher that goes on to another phase, before or while it serves.    *)
LEMMA PhaseKeepsChildren ==
  ASSUME ChildrenKept, alive' \subseteq alive, leaked \subseteq leaked',
         UNCHANGED <<launcher, life>>, at' \in Providers,
         \A i \in Providers : Child(i) \in alive' \ leaked' /\ Kept(i) => Kept(i)'
  PROVE  ChildrenKept'
BY DEF ChildrenKept, Child

LEMMA LauncherKeepsChildren == ASSUME ChildrenKept, LauncherSteps PROVE ChildrenKept'
<1>1. CASE Launch
  <2>1. alive \subseteq leaked
    BY <1>1 DEF Launch, ChildrenKept, Kept
  <2>2. 1 \in Providers
    BY ProcessBounds DEF Providers
  <2> QED
    BY <1>1, <2>1, <2>2 DEF Launch, ChildrenKept, ownVars
<1>2. CASE Spawn
  <2> SUFFICES ASSUME NEW child \in alive' \ leaked
               PROVE  \E i \in Providers : child = Child(i) /\ Kept(i)'
    BY <1>2 DEF Spawn, ChildrenKept, Child, ownVars
  <2>1. CASE child \in alive
    <3>1. PICK i \in Providers : child = Child(i) /\ Kept(i)
      BY <1>2, <2>1 DEF ChildrenKept
    <3> QED
      BY <1>2, <3>1 DEF Spawn, Kept
  <2>2. CASE child = Child(at)
    <3>1. Kept(at)'
      BY <1>2 DEF Spawn, Kept, ListedAtSpawn, ChildrenKept, ownVars
    <3> QED
      BY <1>2, <2>2, <3>1 DEF Spawn, ChildrenKept
  <2> QED
    BY <1>2, <2>1, <2>2 DEF Spawn
<1>3. CASE Healthy
  <2>1. at' \in Providers
    BY <1>3, ProcessBounds DEF Healthy, Providers, ChildrenKept
  <2>2. \A i \in Providers : Kept(i) => Kept(i)'
    BY <1>3 DEF Healthy, Kept, ownVars, ChildrenKept
  <2> QED
    BY <1>3, <2>1, <2>2, PhaseKeepsChildren DEF Healthy, ownVars
<1> QED
  BY <1>1, <1>2, <1>3 DEF LauncherSteps

LEMMA ProcessStepsKeepChildren == ASSUME ChildrenKept, ProcessSteps PROVE ChildrenKept'
<1> USE DEF ownVars
<1>1. CASE ChildSteps
  <2>1. PICK l \in 1..life, i \in Providers : Listen(l, i)
    BY <1>1 DEF ChildSteps
  <2>2. CASE Exit({<<l, i>>})
    BY <2>1, <2>2, ExitKeepsChildren DEF Listen
  <2>3. CASE UNCHANGED <<alive, waiting>>
    <3>1. \A j \in Providers : Kept(j) => Kept(j)'
      BY <2>1, <2>3 DEF Listen, Kept
    <3> QED
      BY <2>1, <2>3, <3>1, PhaseKeepsChildren DEF Listen, ChildrenKept
  <2> QED
    BY <2>1, <2>2, <2>3 DEF Listen
<1>2. CASE Unhealthy
  <2>1. \A i \in Providers : Child(i) \in alive' \ leaked' /\ Kept(i) => Kept(i)'
    BY <1>2 DEF Unhealthy, Kept
  <2> QED
    BY <1>2, <2>1, PhaseKeepsChildren DEF Unhealthy, ChildrenKept
<1>3. CASE SaveState
  <2>1. \A i \in Providers : Child(i) \in Own
    BY DEF Own, Child
  <2>2. \A i \in Providers : Child(i) \in alive' \ leaked' /\ Kept(i) => Kept(i)'
    BY <1>3, <2>1 DEF SaveState, Kept
  <2> QED
    BY <1>3, <2>2, PhaseKeepsChildren DEF SaveState, ChildrenKept
<1>4. CASE Shutdown
  <2>1. \A i \in Providers : Kept(i) => Kept(i)'
    BY <1>4 DEF Shutdown, Kept
  <2> QED
    BY <1>4, <2>1, PhaseKeepsChildren DEF Shutdown, ChildrenKept
<1>5. CASE StopCommand
  BY <1>5, ExitKeepsChildren DEF StopCommand
<1>6. ASSUME NEW i \in Providers, ChildEnds(i) PROVE ChildrenKept'
  BY <1>6, ExitKeepsChildren DEF ChildEnds
<1>7. ASSUME NEW child \in alive, ChildCrashes(child) PROVE ChildrenKept'
  BY <1>7, ExitKeepsChildren DEF ChildCrashes
<1> QED
  BY <1>1, <1>2, <1>3, <1>4, <1>5, <1>6, <1>7, LauncherKeepsChildren DEF ProcessSteps

LEMMA ChildrenInvariance == NodeSpec => []ChildrenKept
<1> USE DEF ownVars
<1>1. NodeInit => ChildrenKept
  BY ProcessBounds DEF NodeInit, ProcessInit, ChildrenKept, Providers
<1>2. ChildrenKept /\ [NodeNext]_nodeVars => ChildrenKept'
  <2> SUFFICES ASSUME ChildrenKept, [NodeNext]_nodeVars PROVE ChildrenKept'
    OBVIOUS
  <2>1. CASE ProcessSteps
    BY <2>1, ProcessStepsKeepChildren
  <2>2. CASE Create \/ Started
    <3>1. \A i \in Providers : Kept(i) => Kept(i)'
      BY <2>2 DEF Create, Started, Kept
    <3> QED
      BY <2>2, <3>1, PhaseKeepsChildren DEF Create, Started, ChildrenKept
  <2>3. CASE Close
    <3>1. \A i \in Providers : Child(i) \in alive' \ leaked' /\ Kept(i) => Kept(i)'
      BY <2>3 DEF Close, StopProviders, StillRunning, Kept
    <3> QED
      BY <2>3, <3>1, PhaseKeepsChildren DEF Close, StopProviders, ChildrenKept
  <2>4. CASE Leave
    <3>1. \A i \in Providers : ~Kept(i)
      BY <2>4 DEF Leave, Stopped, Kept
    <3> QED
      BY <2>4, <3>1, PhaseKeepsChildren DEF Leave, Stopped, ChildrenKept
  <2>5. CASE Killed
    <3>1. CASE Exit(alive) /\ UNCHANGED leaked
      BY <2>5, <3>1 DEF Killed, Exit, ChildrenKept
    <3>2. CASE leaked' = leaked \cup (alive \cap Own) /\ UNCHANGED <<alive, port, waiting>>
      <4>1. \A i \in Providers : Child(i) \in Own
        BY DEF Own, Child
      <4> QED
        BY <2>5, <3>2, <4>1, PhaseKeepsChildren DEF Killed, ChildrenKept
    <3> QED
      BY <2>5, <3>1, <3>2 DEF Killed
  <2>6. CASE Polls \/ Answers \/ WorldMoves \/ ChainMoves \/ UNCHANGED nodeVars
    <3>1. UNCHANGED processVars
      BY <2>6 DEF Polls, Answers, WorldMoves, ChainMoves, nodeVars
    <3> QED
      BY <3>1 DEF processVars, ChildrenKept, Child, Kept
  <2> QED
    BY <2>1, <2>2, <2>3, <2>4, <2>5, <2>6 DEF NodeNext
<1> QED
  BY <1>1, <1>2, PTL DEF NodeSpec

(* For any number of providers, crashes and kills: no child outlives its   *)
(* launcher but those given up where the property says                     *)
(* (prime-server-node.mjs and providers.mjs).                              *)
THEOREM LeavesNoOrphans == NodeSpec => []NoOrphans
<1>1. ChildrenKept => NoOrphans
  BY DEF ChildrenKept, Kept, NoOrphans
<1> QED
  BY <1>1, ChildrenInvariance, PTL
=============================================================================
