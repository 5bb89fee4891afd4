--------------------------- MODULE RecoveryQueue ---------------------------
(***************************************************************************)
(* Recovery of blobs at the gateway: the job queue in the operational      *)
(* store (operational-store.mjs) and the requests that drive it            *)
(* (recovery-coordinator.mjs).  There is no background worker: a request   *)
(* POST /v1/blobs/:blobId/recover enqueues a job for its blob, claims the  *)
(* oldest queued job, whichever blob that is for, runs it, and otherwise   *)
(* polls until its own job has succeeded or its time is up.                *)
(*                                                                         *)
(* The store keeps its state in memory and rewrites one file after every   *)
(* change.  Its promise chain admits one reader or writer at a time, so    *)
(* each store call is one step; between two calls of a request anything    *)
(* else may happen, and the process may crash between any two steps.       *)
(***************************************************************************)
EXTENDS Integers, FiniteSets

CONSTANTS
  Blobs,
  Broken,             \* blobs whose rebuild always fails
  Requests,           \* request slots: how many requests run at a time
  NoResult, Failure,  \* no answer yet; an error as answer
  MaxCrashes, MaxWriteFailures, MaxLosses, MaxFailures   \* bounds

ASSUME QueueAssumption ==
  /\ IsFiniteSet(Blobs) /\ Blobs # {}
  /\ Broken \subseteq Blobs
  /\ NoResult # Failure
  /\ {MaxCrashes, MaxWriteFailures, MaxLosses, MaxFailures} \subseteq Nat

(* What rebuildBlob returns: the blob, and whether it rebuilt a shard.     *)
Results == [blob : Blobs, rebuilt : BOOLEAN]

ASSUME ResultAssumption == NoResult \notin Results /\ Failure \notin Results

Jobs ==
  [ status : {"none", "queued", "running", "succeeded"},
    created : Nat,                       \* the order of creation
    lease : {"none", "held", "expired"},
    result : Results \cup {NoResult} ]

NoJob == [status |-> "none", created |-> 0, lease |-> "none", result |-> NoResult]

VARIABLES
  mem,        \* the store's jobs in memory, one per blob
  disk,       \* those in its file
  missing,    \* the blobs some shard of which is missing at its provider
  pc,         \* where each request stands
  asked,      \* the blob it was made for
  working,    \* the blob of the job it claimed, once it has claimed one
  found,      \* what the rebuild it ran returned
  answer,     \* what it was answered
  overrun,    \* the blobs a worker of which outlived its lease
  crashes, writeFailures, losses, failures   \* how often, for the bounds

jobVars == <<mem, disk, writeFailures>>
worldVars == <<missing, losses, failures>>
requestVars == <<pc, asked, working, found, answer>>
vars == <<jobVars, worldVars, requestVars, overrun, crashes>>

Places == {"idle", "look", "enqueue", "claim", "recover", "complete", "fail", "poll"}

Working(t, b) == pc[t] \in {"recover", "complete", "fail"} /\ working[t] = b

Init ==
  /\ mem = [b \in Blobs |-> NoJob]
  /\ disk = mem
  /\ missing = {}
  /\ pc = [t \in Requests |-> "idle"]
  /\ asked = [t \in Requests |-> CHOOSE b \in Blobs : TRUE]
  /\ working = asked
  /\ found = [t \in Requests |-> NoResult]
  /\ answer = [t \in Requests |-> NoResult]
  /\ overrun = {}
  /\ crashes = 0 /\ writeFailures = 0 /\ losses = 0 /\ failures = 0
-----------------------------------------------------------------------------
(***************************************************************************)
(* The store's mutators, as functions of its jobs.                         *)
(***************************************************************************)

(* Variant: a running job is queued again by a new request.                *)
RequeuesRunning(job) == job.status \in {"none", "running"}

Enqueues(job) == job.status \notin {"succeeded", "queued", "running"}

(* enqueueRecovery.                                                        *)
Enqueued(jobs, b) ==
  IF Enqueues(jobs[b])
  THEN [jobs EXCEPT ![b] =
         [NoJob EXCEPT !.status = "queued",
           !.created = Cardinality({c \in Blobs : jobs[c].status # "none"}) + 1]]
  ELSE jobs

(* claimRecovery: jobs whose lease ran out are queued again, and the       *)
(* oldest queued job is taken.                                             *)
Requeued(jobs) ==
  [b \in Blobs |->
     IF jobs[b].status = "running" /\ jobs[b].lease = "expired"
     THEN [jobs[b] EXCEPT !.status = "queued", !.lease = "none"]
     ELSE jobs[b]]

IsOldestQueued(jobs, b) ==
  /\ jobs[b].status = "queued"
  /\ \A c \in Blobs : jobs[c].status = "queued" => jobs[b].created <= jobs[c].created

Claimed(jobs, b) ==
  [jobs EXCEPT ![b] = [@ EXCEPT !.status = "running", !.lease = "held"]]

(* completeRecovery: the first result stays.                               *)
Completed(jobs, b, result) ==
  IF jobs[b].status = "succeeded" THEN jobs
  ELSE [jobs EXCEPT ![b] =
         [@ EXCEPT !.status = "succeeded", !.lease = "none", !.result = result]]

(* Variants: a late failure undoes a success; a failed job keeps its       *)
(* status.                                                                 *)
FailedAlways(jobs, b) ==
  [jobs EXCEPT ![b] = [@ EXCEPT !.status = "queued", !.lease = "none"]]
FailedNotRequeued(jobs, b) ==
  IF jobs[b].status = "succeeded" THEN jobs
  ELSE [jobs EXCEPT ![b] = [@ EXCEPT !.lease = "none"]]

(* failRecovery with retry, which is how it is always called: queued       *)
(* again, even if another request is working on the job by now.            *)
Failed(jobs, b) ==
  IF jobs[b].status = "succeeded" THEN jobs
  ELSE [jobs EXCEPT ![b] = [@ EXCEPT !.status = "queued", !.lease = "none"]]

(* update: the mutator has changed the memory whether or not the file      *)
(* could be written; writing it may also fail after the rename.            *)
Saved(jobs) == mem' = jobs /\ disk' = jobs /\ UNCHANGED writeFailures

NotSaved(jobs) ==
  /\ writeFailures < MaxWriteFailures
  /\ writeFailures' = writeFailures + 1
  /\ mem' = jobs
  /\ disk' \in {disk, jobs}
-----------------------------------------------------------------------------
(***************************************************************************)
(* One request, a step per store call.                                     *)
(***************************************************************************)
Goes(t, place) ==
  /\ pc' = [pc EXCEPT ![t] = place]
  /\ UNCHANGED answer

Answers(t, outcome) ==
  /\ pc' = [pc EXCEPT ![t] = "idle"]
  /\ answer' = [answer EXCEPT ![t] = outcome]

Ask(t, b) ==
  /\ pc[t] = "idle"
  /\ pc' = [pc EXCEPT ![t] = "look"]
  /\ asked' = [asked EXCEPT ![t] = b]
  /\ working' = [working EXCEPT ![t] = b]
  /\ found' = [found EXCEPT ![t] = NoResult]
  /\ answer' = [answer EXCEPT ![t] = NoResult]
  /\ UNCHANGED <<jobVars, worldVars, overrun, crashes>>

Look(t) ==
  LET job == mem[asked[t]]
  IN  /\ pc[t] = "look"
      /\ IF job.status = "succeeded" THEN Answers(t, job.result) ELSE Goes(t, "enqueue")
      /\ UNCHANGED <<jobVars, worldVars, asked, working, found, overrun, crashes>>

Enqueue(t) ==
  LET jobs == Enqueued(mem, asked[t])
  IN  /\ pc[t] = "enqueue"
      /\ \/ /\ Saved(jobs)
            /\ Goes(t, IF jobs[asked[t]].status = "queued" THEN "claim" ELSE "poll")
         \/ NotSaved(jobs) /\ Answers(t, Failure)
      /\ UNCHANGED <<worldVars, asked, working, found, overrun, crashes>>

(* A claim that finds nothing is a change of the store too.                *)
ClaimNothing(t) ==
  LET jobs == Requeued(mem)
  IN  /\ pc[t] = "claim"
      /\ \A b \in Blobs : jobs[b].status # "queued"
      /\ \/ Saved(jobs) /\ Goes(t, "poll")
         \/ NotSaved(jobs) /\ Answers(t, Failure)
      /\ UNCHANGED <<worldVars, asked, working, found, overrun, crashes>>

Claim(t, b) ==
  LET jobs == Requeued(mem)
  IN  /\ pc[t] = "claim"
      /\ IsOldestQueued(jobs, b)
      /\ \/ /\ Saved(Claimed(jobs, b))
            /\ working' = [working EXCEPT ![t] = b]
            /\ Goes(t, "recover")
         \/ NotSaved(Claimed(jobs, b)) /\ Answers(t, Failure) /\ UNCHANGED working
      /\ UNCHANGED <<worldVars, asked, found, overrun, crashes>>

(* rebuildBlob, of which only the outcome is modelled here.                *)
Rebuild(t) ==
  LET b == working[t]
  IN  /\ pc[t] = "recover"
      /\ b \notin Broken
      /\ missing' = missing \ {b}
      /\ found' = [found EXCEPT ![t] = [blob |-> b, rebuilt |-> b \in missing]]
      /\ Goes(t, "complete")
      /\ UNCHANGED <<jobVars, losses, failures, asked, working, overrun, crashes>>

RebuildFails(t) ==
  /\ pc[t] = "recover"
  /\ \/ working[t] \in Broken /\ UNCHANGED failures
     \/ /\ working[t] \notin Broken
        /\ failures < MaxFailures
        /\ failures' = failures + 1
  /\ Goes(t, "fail")
  /\ UNCHANGED <<jobVars, missing, losses, asked, working, found, overrun, crashes>>

(* Variant: the answer is sent although the file could not be written.     *)
CompleteUnsaved(t) ==
  LET jobs == Completed(mem, working[t], found[t])
  IN  /\ pc[t] = "complete"
      /\ mem' = jobs
      /\ Answers(t, found[t])
      /\ UNCHANGED <<disk, writeFailures, worldVars, asked, working, found,
                     overrun, crashes>>

(* A job that could not be recorded as succeeded is reported as failed.    *)
Complete(t) ==
  LET jobs == Completed(mem, working[t], found[t])
  IN  /\ pc[t] = "complete"
      /\ \/ Saved(jobs) /\ Answers(t, found[t])
         \/ NotSaved(jobs) /\ Goes(t, "fail")
      /\ UNCHANGED <<worldVars, asked, working, found, overrun, crashes>>

Fail(t) ==
  LET jobs == Failed(mem, working[t])
  IN  /\ pc[t] = "fail"
      /\ Saved(jobs) \/ NotSaved(jobs)
      /\ Answers(t, Failure)
      /\ UNCHANGED <<worldVars, asked, working, found, overrun, crashes>>

Poll(t) ==
  LET job == mem[asked[t]]
  IN  /\ pc[t] = "poll"
      /\ \/ job.status = "succeeded" /\ Answers(t, job.result)
         \/ job.status = "queued" /\ Goes(t, "claim")
      /\ UNCHANGED <<jobVars, worldVars, asked, working, found, overrun, crashes>>

(* Variant: a request whose job is running waits for it as long as it runs. *)
WaitsForRunning(t) == pc[t] = "poll" /\ mem[asked[t]].status # "running"

MayGiveUp(t) == pc[t] = "poll"

GiveUp(t) ==
  /\ MayGiveUp(t)
  /\ Answers(t, Failure)
  /\ UNCHANGED <<jobVars, worldVars, asked, working, found, overrun, crashes>>
-----------------------------------------------------------------------------
(***************************************************************************)
(* Time, the providers, and the process.                                   *)
(***************************************************************************)
LeaseOver(jobs, b) ==
  IF jobs[b].status = "running"
  THEN [jobs EXCEPT ![b] = [@ EXCEPT !.lease = "expired"]]
  ELSE jobs

ExpireLease(b) ==
  /\ mem[b].status = "running" /\ mem[b].lease = "held"
  /\ mem' = LeaseOver(mem, b)
  /\ disk' = LeaseOver(disk, b)
  /\ overrun' = IF \E t \in Requests : Working(t, b) THEN overrun \cup {b} ELSE overrun
  /\ UNCHANGED <<writeFailures, worldVars, requestVars, crashes>>

Lose(b) ==
  /\ losses < MaxLosses
  /\ losses' = losses + 1
  /\ missing' = missing \cup {b}
  /\ UNCHANGED <<jobVars, failures, requestVars, overrun, crashes>>

(* The process dies and starts again: the jobs are those of the file, and  *)
(* the requests that were running get no answer.                           *)
Crash ==
  /\ crashes < MaxCrashes
  /\ crashes' = crashes + 1
  /\ mem' = disk
  /\ pc' = [t \in Requests |-> "idle"]
  /\ answer' = [t \in Requests |-> IF pc[t] = "idle" THEN answer[t] ELSE Failure]
  /\ overrun' = {}
  /\ UNCHANGED <<disk, writeFailures, worldVars, asked, working, found>>

Works(t) ==
  \/ Look(t) \/ Enqueue(t) \/ ClaimNothing(t) \/ \E b \in Blobs : Claim(t, b)
  \/ Rebuild(t) \/ RebuildFails(t) \/ Complete(t) \/ Fail(t) \/ Poll(t)

Next ==
  \/ \E t \in Requests : Works(t) \/ GiveUp(t) \/ \E b \in Blobs : Ask(t, b)
  \/ \E b \in Blobs : ExpireLease(b) \/ Lose(b)
  \/ Crash

Spec == Init /\ [][Next]_vars

(* A store call and a rebuild return, a request that polls reaches its     *)
(* deadline, and leases run out.  Clients of a blob try again: whenever    *)
(* they can, for each blob, in some slot.                                  *)
Fairness ==
  /\ \A t \in Requests : WF_vars(Works(t)) /\ SF_vars(GiveUp(t))
  /\ \A b \in Blobs : WF_vars(ExpireLease(b))

Retries == \A b \in Blobs : SF_vars(\E t \in Requests : Ask(t, b))

FairSpec == Spec /\ Fairness
RetrySpec == FairSpec /\ Retries
-----------------------------------------------------------------------------
(***************************************************************************)
(* Properties.                                                             *)
(***************************************************************************)

TypeOK ==
  /\ mem \in [Blobs -> Jobs]
  /\ disk \in [Blobs -> Jobs]
  /\ missing \subseteq Blobs
  /\ pc \in [Requests -> Places]
  /\ asked \in [Requests -> Blobs]
  /\ working \in [Requests -> Blobs]
  /\ found \in [Requests -> Results \cup {NoResult}]
  /\ answer \in [Requests -> Results \cup {NoResult, Failure}]
  /\ overrun \subseteq Blobs
  /\ {crashes, writeFailures, losses, failures} \subseteq Nat

(* The lease keeps two requests from rebuilding one blob at a time: until  *)
(* some worker of the blob outlives its lease there is at most one,        *)
(* whatever other requests, failures of the file and restarts do.  After   *)
(* that the lease no longer tells: failRecovery of the late worker queues  *)
(* a job that the next worker holds (lines 158-238 of the store).          *)
AloneUntilOverrun ==
  \A b \in Blobs \ overrun : \A s, t \in Requests :
    Working(s, b) /\ Working(t, b) => s = t

(* As long as the file could always be written, a client that was answered *)
(* with a result will find it again after any crash: the job it comes from *)
(* is recorded as succeeded in the file before the answer is sent.         *)
DurableAnswers ==
  writeFailures = 0 =>
    \A t \in Requests :
      answer[t] \in Results => disk[answer[t].blob].status = "succeeded"

(* SLICES.md: "stores recovery jobs with leases, retry state, and          *)
(* completed results".  What the file holds as completed stays with its    *)
(* first result, against late workers, failures and crashes.               *)
FinishedIsFinalStep ==
  \A b \in Blobs : disk[b].status = "succeeded" => disk'[b] = disk[b]

FinishedIsFinal == [][FinishedIsFinalStep]_vars

(* Every request is answered, with a result or an error, whatever state    *)
(* the restarts and failures left its job in.                              *)
EveryRequestEnds == \A t \in Requests : pc[t] # "idle" ~> pc[t] = "idle"

(* While clients retry and the rebuild does not fail for ever, a job that   *)
(* exists succeeds, as long as the process lives and its file can be       *)
(* written; workers that outlive their leases, and jobs of other blobs     *)
(* that come first, do not stop it.                                        *)
JobSucceeds(b) ==
  disk[b].status \in {"queued", "running"} ~> disk[b].status = "succeeded"

JobsFinish ==
  [](crashes = 0 /\ writeFailures = 0) => \A b \in Blobs \ Broken : JobSucceeds(b)

(* SLICES.md: "A recovery job can be retried safely."  The same when the   *)
(* process may die and start again.                                        *)
JobsSurviveRestart == \A b \in Blobs \ Broken : JobSucceeds(b)

(* SLICES.md: "POST /v1/blobs/:blobId/recover is queue-backed and          *)
(* idempotent", and server.test.mjs compares a repeated answer with the    *)
(* first.  Two requests for a blob are at least answered about the same    *)
(* blob.                                                                   *)
RepeatedAnswersAgree ==
  \A s, t \in Requests :
    /\ asked[s] = asked[t]
    /\ answer[s] \in Results /\ answer[t] \in Results
    => answer[s].blob = answer[t].blob
=============================================================================
