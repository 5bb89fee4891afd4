---------------------------- MODULE EventIndexer ----------------------------
(***************************************************************************)
(* PrimeServerEventIndexer (rpc/src/event-indexer.mjs) with the cursors of *)
(* the operational store and the poll loop of the node process: the chain  *)
(* is scanned in windows of blocks, the events are kept in memory, and the *)
(* next block is persisted after every window.                             *)
(*                                                                         *)
(* A block stands for its events.  Both remote calls and the write of the  *)
(* cursor may fail; Boot and Forget are the start and the end of the       *)
(* process, which NodeProcess drives.                                      *)
(***************************************************************************)
EXTENDS Integers, FiniteSets

CONSTANTS
  DeploymentBlock,   \* the block the contract was deployed in
  MaxBlock,          \* bound on the chain
  MaxBlockRange,     \* maxBlockRange: blocks per getLogs
  MaxRangesPerPoll,  \* maxRangesPerPoll: windows per poll
  MaxPollFailures    \* bound on failing remote calls and writes

ASSUME IndexerBounds ==
  /\ DeploymentBlock \in Nat \ {0} /\ MaxBlock \in Nat
  /\ DeploymentBlock < MaxBlock
  /\ MaxBlockRange \in Nat \ {0} /\ MaxRangesPerPoll \in Nat \ {0}
  /\ MaxPollFailures \in Nat

Blocks == 1..MaxBlock
NoCursor == 0

VARIABLES
  head,        \* the latest block of the chain
  pinned,      \* the deployment block is configured
  nextBlock,   \* nextBlock of the indexer
  ready,       \* the stored cursor was looked for
  events,      \* per block, how often its events are in the indexer's memory
  poll,        \* "Idle", "Window" or "Save": where the poll in progress awaits
  latest,      \* its latest block
  target,      \* the last block it goes to
  cursorMem,   \* the cursor in the memory of the store
  cursorDisk,  \* the cursor in its file
  lifeStart,   \* history: the first block this process scans
  first,       \* history: the first block any process scans
  seen,        \* history: the blocks some process has scanned
  unsaved,     \* history: a process ended before any cursor was in the file
  failures     \* failures so far

scanVars == <<nextBlock, ready, events, poll, latest, target>>
indexerHistory == <<lifeStart, first, seen, unsaved>>
indexerVars == <<head, pinned, scanVars, cursorMem, cursorDisk, indexerHistory,
                 failures>>

IndexerInit ==
  /\ head = DeploymentBlock /\ pinned \in BOOLEAN
  /\ nextBlock = 1 /\ ready = FALSE
  /\ events = [b \in Blocks |-> 0]
  /\ poll = "Idle" /\ latest = 0 /\ target = 0
  /\ cursorMem = NoCursor /\ cursorDisk = NoCursor
  /\ lifeStart = 0 /\ first = 0 /\ seen = {} /\ unsaved = FALSE
  /\ failures = 0

(* The node starts an indexer after the deployment, or where the chain is  *)
(* when no deployment block is configured.                                 *)
BootIndexer ==
  /\ nextBlock' = IF pinned THEN DeploymentBlock + 1 ELSE head
  /\ ready' = FALSE
  /\ events' = [b \in Blocks |-> 0]
  /\ poll' = "Idle" /\ latest' = 0 /\ target' = 0
  /\ cursorMem' = cursorDisk
  /\ lifeStart' = 0
  /\ UNCHANGED <<head, pinned, cursorDisk, first, seen, unsaved, failures>>

(* The process ends, with all it had in memory.                            *)
ForgetIndexer ==
  /\ poll' = "Idle" /\ ready' = FALSE
  /\ events' = [b \in Blocks |-> 0]
  /\ latest' = 0 /\ target' = 0 /\ lifeStart' = 0
  /\ unsaved' = (unsaved \/ (first # 0 /\ cursorDisk = NoCursor))
  /\ UNCHANGED <<head, pinned, nextBlock, cursorMem, cursorDisk, first, seen, failures>>

NewBlock ==
  /\ head < MaxBlock
  /\ head' = head + 1
  /\ UNCHANGED <<pinned, scanVars, cursorMem, cursorDisk, indexerHistory, failures>>
-----------------------------------------------------------------------------
(* ready: a stored cursor replaces the first block.                        *)
StartBlock == IF ready \/ cursorMem = NoCursor THEN nextBlock ELSE cursorMem

Lesser(a, b) == IF a < b THEN a ELSE b

(* The last block of a poll.                                               *)
PollTarget(from, top) ==
  Lesser(from + MaxBlockRange * MaxRangesPerPoll - 1, top)

BecomesReady ==
  /\ ready' = TRUE
  /\ nextBlock' = StartBlock
  /\ lifeStart' = IF ready THEN lifeStart ELSE StartBlock
  /\ first' = IF first = 0 THEN StartBlock ELSE first

(* A poll that finds new blocks; one poll at a time (pollingEvents).       *)
BeginPoll ==
  /\ poll = "Idle"
  /\ BecomesReady
  /\ head >= StartBlock
  /\ latest' = head
  /\ target' = PollTarget(StartBlock, head)
  /\ poll' = "Window"
  /\ UNCHANGED <<head, pinned, events, cursorMem, cursorDisk, seen, unsaved, failures>>

PollNothing ==
  /\ poll = "Idle" /\ ~ready
  /\ BecomesReady
  /\ head < StartBlock
  /\ UNCHANGED <<head, pinned, events, poll, latest, target, cursorMem, cursorDisk, seen,
                 unsaved, failures>>

(* Variant: a failed poll leaves the flag set that keeps others out.       *)
EndsInFailureLocked ==
  /\ failures < MaxPollFailures
  /\ failures' = failures + 1
  /\ poll' = "Locked"

(* Any failure ends the poll; what it did stays, and the loop polls again. *)
EndsInFailure ==
  /\ failures < MaxPollFailures
  /\ failures' = failures + 1
  /\ poll' = "Idle"

PollFails ==
  /\ \/ poll = "Idle" /\ BecomesReady
     \/ poll = "Window" /\ UNCHANGED <<ready, nextBlock, lifeStart, first>>
  /\ EndsInFailure
  /\ UNCHANGED <<head, pinned, events, latest, target, cursorMem, cursorDisk, seen, unsaved>>

(* The end of the window that starts at `from'.                            *)
WindowEnd(from) ==
  IF from + MaxBlockRange - 1 < latest THEN from + MaxBlockRange - 1 ELSE target

(* Variants: a block is skipped; the last block is scanned again.          *)
NextAfterSkipping(to) == to + 2
NextAfterRepeating(to) == to

(* Where scanning goes on after a window.                                  *)
NextAfter(to) == to + 1

ScanWindow ==
  LET to == WindowEnd(nextBlock)
      window == nextBlock..to IN
  /\ poll = "Window"
  /\ events' = [b \in Blocks |-> IF b \in window THEN events[b] + 1 ELSE events[b]]
  /\ seen' = seen \cup window
  /\ nextBlock' = NextAfter(to)
  /\ poll' = "Save"
  /\ UNCHANGED <<head, pinned, ready, latest, target, cursorMem, cursorDisk, lifeStart,
                 first, unsaved, failures>>

AfterSave == IF nextBlock <= target THEN "Window" ELSE "Idle"

SaveCursor ==
  /\ poll = "Save"
  /\ cursorMem' = nextBlock
  /\ cursorDisk' = nextBlock
  /\ poll' = AfterSave
  /\ UNCHANGED <<head, pinned, nextBlock, ready, events, latest, target, indexerHistory,
                 failures>>

(* The store changes its memory first; the write may fail before or after  *)
(* the rename.                                                             *)
SaveCursorFails ==
  /\ poll = "Save"
  /\ cursorMem' = nextBlock
  /\ cursorDisk' \in {cursorDisk, nextBlock}
  /\ EndsInFailure
  /\ UNCHANGED <<head, pinned, nextBlock, ready, events, latest, target, indexerHistory>>

FinishPoll == ScanWindow \/ SaveCursor
PollStep == FinishPoll \/ SaveCursorFails \/ (poll = "Window" /\ PollFails)
StartPoll == BeginPoll \/ PollNothing \/ (poll = "Idle" /\ PollFails)
-----------------------------------------------------------------------------
(* A process holds the events of every block from where it began up to the *)
(* next one exactly once, whatever failed in between (poll).               *)
ScannedOnce ==
  ready =>
    \A b \in Blocks : events[b] = IF lifeStart <= b /\ b < nextBlock THEN 1 ELSE 0

(* No block before the cursor is ever left out, by this process or across  *)
(* restarts.  Without a configured deployment block this holds only once a *)
(* cursor is in the file: a process that ends before is followed by one    *)
(* that starts at a later head (prime-server-node.mjs, fromBlock).         *)
NothingSkipped ==
  /\ first # 0 /\ (pinned \/ ~unsaved) =>
       /\ first..(cursorDisk - 1) \subseteq seen
       /\ ready => first..(nextBlock - 1) \subseteq seen
  /\ pinned /\ first # 0 => first = DeploymentBlock + 1

(* Every block after the deployment is scanned in the end.                 *)
CatchesUp ==
  \A b \in Blocks :
    (pinned /\ DeploymentBlock < b /\ b <= head) ~> b \in seen
=============================================================================
