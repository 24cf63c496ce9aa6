----------------------------- MODULE SttRuntime -----------------------------
(***************************************************************************)
(* STTRuntime: callers submit, look up and cancel transcriptions, one      *)
(* worker thread hands them to a slow speech provider, and results live    *)
(* for a limited time in a store of limited size.  A request has at most   *)
(* one job at a time, so jobs are indexed by their request; a serial number*)
(* stands for the identity of the _Job object.  Audio, text and the events *)
(* are left out.  The clock is not modelled: a terminal job may be due at  *)
(* any time, and what is due is expired in a step of its own, whichever    *)
(* operation or round of the idle worker finds it.                         *)
(***************************************************************************)
EXTENDS Integers, Sequences, SequencesExt, FiniteSets

CONSTANTS
    Requests,        \* request identifiers
    QueueCapacity,   \* queue_capacity
    JobCapacity,     \* job_capacity
    MaxJobs          \* bound of the model: jobs created

ASSUME SttAssumption ==
    /\ {QueueCapacity, JobCapacity, MaxJobs} \subseteq Nat \ {0}
    /\ QueueCapacity <= JobCapacity

VARIABLES
    job,         \* _jobs and _request_index
    pending,     \* _pending
    ended,       \* terminal jobs by the time they ended
    early,       \* _pre_cancelled_requests, the oldest first
    accepting,   \* _accepting; false once shutdown has begun
    worker,      \* "idle", "busy" with the provider, or "ended"
    held,        \* the job the worker has in hand
    serial,      \* jobs created
    promised     \* history: requests that were reported as cancelled and
                 \* whose job, or cancellation, has not been forgotten

vars == <<job, pending, ended, early, accepting, worker, held, serial, promised>>

NoJob == [status |-> "none", inflight |-> FALSE, serial |-> 0]
Terminal == {"completed", "failed", "cancelled"}
Stored == {r \in Requests : job[r].status # "none"}

Init ==
    /\ job = [r \in Requests |-> NoJob]
    /\ pending = <<>> /\ ended = <<>> /\ early = <<>>
    /\ accepting = TRUE
    /\ worker = "idle" /\ held = [request |-> CHOOSE r \in Requests : TRUE,
                                  serial |-> 0]
    /\ serial = 0 /\ promised = {}

\* The first element of s that is in S, in a set
First(s, S) ==
    {s[i] : i \in {j \in DOMAIN s : /\ s[j] \in S
                                    /\ \A k \in 1..(j - 1) : s[k] \notin S}}

-----------------------------------------------------------------------------
(* The callers, each under the lock                                        *)

\* Variant: the provider may still be at work on the job.
MayEvict_Inflight(r) == TRUE

\* _evict_one_locked: terminal or expired, and not with the provider
MayEvict(r) == ~job[r].inflight

\* The eviction that submit() needs, if any is needed, and possible.
Evicted ==
    IF Cardinality(Stored) < JobCapacity THEN {}
    ELSE First(ended, {r \in Requests : MayEvict(r)})

\* submit() of a request that has no job.  Its eviction stands even if the queue
\* then turns out to be full.
Submit(r) ==
    /\ job[r] = NoJob
    /\ ~Contains(early, r)
    /\ accepting /\ serial < MaxJobs
    /\ Cardinality(Stored) < JobCapacity \/ Evicted # {}
    /\ LET kept == [q \in Requests |-> IF q \in Evicted THEN NoJob ELSE job[q]]
       IN  IF Len(pending) < QueueCapacity
           THEN /\ job' = [kept EXCEPT ![r] = [status |-> "queued",
                                               inflight |-> FALSE,
                                               serial |-> serial + 1]]
                /\ pending' = Append(pending, r)
                /\ serial' = serial + 1
           ELSE job' = kept /\ UNCHANGED <<pending, serial>>
    /\ ended' = IF Evicted = {} THEN ended
                ELSE RemoveFirst(ended, CHOOSE q \in Evicted : TRUE)
    /\ promised' = promised \ Evicted
    /\ UNCHANGED <<early, accepting, worker, held>>

\* _terminalize_locked
Ends(r, status) ==
    /\ job' = [job EXCEPT ![r].status = status]
    /\ ended' = Append(RemoveFirst(ended, r), r)

\* cancel() by transcription_id refuses what has completed or failed;
\* cancel_request() by request_id cancels that as well.
Cancel(r) ==
    /\ job[r].status \in {"queued", "running", "completed", "failed"}
    /\ Ends(r, "cancelled")
    /\ pending' = RemoveFirst(pending, r)
    /\ promised' = promised \cup {r}
    /\ UNCHANGED <<early, accepting, worker, held, serial>>

\* The room for another cancellation is made by forgetting the oldest.
Remembered(r) ==
    LET kept == IF Len(early) >= JobCapacity THEN Tail(early) ELSE early
    IN  Append(RemoveFirst(kept, r), r)

\* cancel_request() of a request that has no job (yet)
CancelEarly(r) ==
    /\ job[r] = NoJob
    /\ early' = Remembered(r)
    /\ promised' = (promised \ ToSet(early)) \cup ToSet(early')
    /\ UNCHANGED <<job, pending, ended, accepting, worker, held, serial>>

\* Variant: what waits for the worker is overlooked.
Open_Running == {r \in Requests : job[r].status = "running"}

\* What shutdown() has to cancel
Open == {r \in Requests : job[r].status \in {"queued", "running"}}

\* shutdown(), up to the join of the worker
Shutdown ==
    /\ accepting
    /\ accepting' = FALSE
    /\ job' = [r \in Requests |->
                  IF r \in Open THEN [job[r] EXCEPT !.status = "cancelled"]
                  ELSE job[r]]
    /\ ended' = ended \o SetToSeq(Open)
    /\ promised' = (promised \cup Open) \ ToSet(early)
    /\ pending' = <<>> /\ early' = <<>>
    /\ UNCHANGED <<worker, held, serial>>

\* _expire_due_locked: the first to end is the first to expire.
Expire ==
    /\ \E r \in First(ended, {q \in Requests : job[q].status \in Terminal}) :
          job' = [job EXCEPT ![r].status = "expired"]
    /\ UNCHANGED <<pending, ended, early, accepting, worker, held, serial, promised>>

\* _prune_pre_cancelled_locked
Prune ==
    /\ early # <<>>
    /\ early' = Tail(early)
    /\ promised' = promised \ {Head(early)}
    /\ UNCHANGED <<job, pending, ended, accepting, worker, held, serial>>

-----------------------------------------------------------------------------
(* The worker                                                              *)

WorkerTakes ==
    /\ worker = "idle" /\ pending # <<>>
    /\ pending' = Tail(pending)
    /\ LET r == Head(pending)
       IN  IF job[r].status = "queued"
           THEN /\ job' = [job EXCEPT ![r].status = "running", ![r].inflight = TRUE]
                /\ held' = [request |-> r, serial |-> job[r].serial]
                /\ worker' = "busy"
           ELSE UNCHANGED <<job, held, worker>>
    /\ UNCHANGED <<ended, early, accepting, serial, promised>>

\* Variant: the result is stored whatever has become of the job.
MayStore_Late(r) == job[r].status # "none"

\* The job still waits for its result.
MayStore(r) == job[r].status = "running"

\* The job is no longer with the provider.
Settled(r) == [job EXCEPT ![r].inflight = FALSE]

\* The provider returns or raises; a late result is discarded.
ProviderReturns ==
    /\ worker = "busy" /\ worker' = "idle"
    /\ LET r == held.request
       IN  IF job[r].serial # held.serial
           THEN UNCHANGED <<job, ended>>
           ELSE IF MayStore(r)
           THEN \E status \in {"completed", "failed"} :
                   /\ job' = [Settled(r) EXCEPT ![r].status = status]
                   /\ ended' = Append(RemoveFirst(ended, r), r)
           ELSE job' = Settled(r) /\ UNCHANGED ended
    /\ UNCHANGED <<pending, early, accepting, held, serial, promised>>

WorkerEnds ==
    /\ worker = "idle" /\ pending = <<>> /\ ~accepting
    /\ worker' = "ended"
    /\ UNCHANGED <<job, pending, ended, early, accepting, held, serial, promised>>

-----------------------------------------------------------------------------
Next ==
    \/ \E r \in Requests : Submit(r) \/ Cancel(r) \/ CancelEarly(r)
    \/ Shutdown \/ Expire \/ Prune
    \/ WorkerTakes \/ ProviderReturns \/ WorkerEnds

\* The worker runs; provider.transcribe() has timeouts of its own and returns.
\* Nobody need ever submit, cancel or shut down, and results need not expire.
Spec ==
    /\ Init /\ [][Next]_vars
    /\ WF_vars(WorkerTakes) /\ WF_vars(ProviderReturns) /\ WF_vars(WorkerEnds)

-----------------------------------------------------------------------------
(* Properties                                                              *)

TypeOK ==
    /\ job \in [Requests -> [status : Terminal \cup {"none", "queued", "running",
                                                     "expired"},
                             inflight : BOOLEAN, serial : 0..MaxJobs]]
    /\ pending \in Seq(Requests) /\ ended \in Seq(Requests) /\ early \in Seq(Requests)
    /\ accepting \in BOOLEAN
    /\ worker \in {"idle", "busy", "ended"}
    /\ held \in [request : Requests, serial : 0..MaxJobs]
    /\ serial \in 0..MaxJobs
    /\ promised \subseteq Requests

\* cancel(), cancel_request() and _work: as long as a request that was reported as
\* cancelled is remembered, no job of it waits, runs or has a result,
\* in whatever order the cancellation, the request and the provider's answer
\* arrive.
CancelIsKept ==
    \A r \in promised : job[r].status \in {"none", "cancelled", "expired"}

\* _evict_one_locked and _work: a job is marked as being with the provider, and
\* its audio shown as retained, exactly while the worker has it in hand, and it
\* cannot be evicted, nor its request identifier be used again, until then.
WorkIsAccountedFor ==
    /\ worker = "busy" => job[held.request].serial = held.serial
    /\ \A r \in Requests : job[r].inflight <=> worker = "busy" /\ held.request = r

\* _work and shutdown(): every accepted request is completed, failed or
\* cancelled in the end, whatever is cancelled, evicted or submitted meanwhile.
EveryJobEnds ==
    \A r \in Requests :
        job[r].status \in {"queued", "running"}
            ~> job[r].status \notin {"queued", "running"}
=============================================================================
