------------------------- MODULE ArtifactPublication -------------------------
(***************************************************************************)
(* One artifact publication, from the durable job its acceptance queues to *)
(* its bytes in the public bucket: krater/artifact-publication-outbox.ts   *)
(* with its owner recovery and its operator review.                        *)
(*                                                                         *)
(* Verifiers are deliveries, run by overlapping cron invocations; each D1  *)
(* statement, R2 call and provider call is a step of its own.  A verifier  *)
(* runs one delivery at a time, so its name stands for the random token of *)
(* its lease.  Clocks are not modelled: a lease lapses, and a job becomes  *)
(* due, at any moment.                                                     *)
(*                                                                         *)
(* Not modelled: the acceptance of the request, the delivery counter that  *)
(* scales the backoff, the public cursor, the batch limits, idempotent     *)
(* replay of an owner request, and who may send one.                       *)
(***************************************************************************)
EXTENDS Integers, FiniteSets

CONSTANTS
    Verifiers,       \* deliveries that may overlap
    Nobody,          \* no lease
    Requests,        \* recovery requests of the owner
    MaxScreens,      \* paid screening attempts per publication
    MaxGenerations,  \* recovery generations per publication
    MaxMishaps       \* bound: crashes, outages, slow verifiers, changes of visibility

ASSUME PublicationConstants ==
    /\ IsFiniteSet(Verifiers) /\ Nobody \notin Verifiers
    /\ MaxScreens \in Nat \ {0} /\ MaxGenerations \in Nat /\ MaxMishaps \in Nat

VARIABLES
    job,      \* the row of artifact_publication_jobs
    audit,    \* the generations and states the job has been in
    review,   \* the operator's case about the held bytes
    pinned,   \* are the evidence and the request event publicly visible
    public,   \* are the bytes in the public bucket
    late,     \* may a PUT that timed out still complete
    calls,    \* calls made to the screening provider
    task,     \* what each verifier is doing
    asks,     \* what each request of the owner is doing
    mishaps

jobVars == <<job, audit>>
bucketVars == <<public, late>>
vars == <<job, audit, review, pinned, public, late, calls, task, asks, mishaps>>

Released == {"release-authorized", "published"}

Idle == [pc |-> "idle", claimed |-> "none", code |-> "none", hold |-> FALSE, seen |-> "none"]

Init ==
    /\ job = [state |-> "queued", failure |-> "none", screens |-> 0, lease |-> Nobody,
              live |-> FALSE, due |-> TRUE, last |-> "none", receipt |-> "none",
              generation |-> 0]
    /\ audit = {<<0, "queued">>}
    /\ review = "none"
    /\ pinned = TRUE
    /\ public = FALSE /\ late = FALSE
    /\ calls = 0
    /\ task = [v \in Verifiers |-> Idle]
    /\ asks = [r \in Requests |-> [pc |-> "idle", generation |-> 0]]
    /\ mishaps = 0

Mishap == mishaps < MaxMishaps /\ mishaps' = mishaps + 1

(* A statement that moves the job, and the audit trigger it fires. *)
Save(new) ==
    /\ job' = new
    /\ audit' = IF new.state = job.state THEN audit
                ELSE audit \cup {<<new.generation, new.state>>}

Go(v, pc) == task' = [task EXCEPT ![v].pc = pc]

(* The delivery ends in retryOrHold, with the observation it may record. *)
Fail(v, code, hold, seen) ==
    task' = [task EXCEPT ![v] = [@ EXCEPT !.pc = "failing", !.code = code,
                                          !.hold = hold, !.seen = seen]]

Stop(v) == task' = [task EXCEPT ![v] = Idle]

Owns(v) == job.lease = v /\ job.live

-----------------------------------------------------------------------------
\* Mutant: claiming forgets released jobs.
Claimable_QueuedOnly == job.state = "queued" /\ job.due /\ ~job.live

Claimable == job.state \in {"queued", "release-authorized"} /\ job.due /\ ~job.live

Exhausted == job.state = "queued" /\ job.screens = MaxScreens

(* A job whose last paid screen was never heard of is held by its next claim. *)
ClaimHolds(v) ==
    /\ task[v].pc = "idle"
    /\ Claimable /\ Exhausted
    /\ Save([job EXCEPT !.state = "held", !.failure = "dependency-unavailable",
                        !.lease = Nobody])
    /\ UNCHANGED <<review, pinned, bucketVars, calls, task, asks, mishaps>>

ClaimLeases(v) ==
    /\ task[v].pc = "idle"
    /\ Claimable
    /\ job.state = "queued" => job.screens < MaxScreens
    /\ Save([job EXCEPT !.lease = v, !.live = TRUE])
    /\ task' = [task EXCEPT ![v].pc = "reading", ![v].claimed = job.state]
    /\ UNCHANGED <<review, pinned, bucketVars, calls, asks, mishaps>>

(* The private bytes are read and inspected; only a queued job is screened. *)
ReadPrivateBytes(v) ==
    /\ task[v].pc = "reading"
    /\ \/ Go(v, IF task[v].claimed = "queued" THEN "pinning" ELSE "putting")
          /\ UNCHANGED mishaps
       \/ Fail(v, "content-unavailable", TRUE, "none") /\ Mishap
       \/ Fail(v, "dependency-unavailable", FALSE, "none") /\ Mishap
    /\ UNCHANGED <<jobVars, review, pinned, bucketVars, calls, asks>>

LivePublicationPin(v) ==
    /\ task[v].pc = "pinning"
    /\ IF pinned THEN Go(v, "reserving") ELSE Fail(v, "binding-unavailable", TRUE, "none")
    /\ UNCHANGED <<jobVars, review, pinned, bucketVars, calls, asks, mishaps>>

\* Mutant: the attempt is spent without the lease.
MayScreen_Unfenced(v) == job.state = "queued" /\ job.screens < MaxScreens /\ pinned

MayScreen(v) == job.state = "queued" /\ Owns(v) /\ job.screens < MaxScreens /\ pinned

(* A statement has committed: the delivery goes on, or its answer is lost. *)
Committed(v, pc) ==
    \/ Go(v, pc) /\ UNCHANGED mishaps
    \/ Fail(v, "dependency-unavailable", FALSE, "none") /\ Mishap

(* The attempt is paid for before the provider is called. *)
BeginScreen(v) ==
    /\ task[v].pc = "reserving"
    /\ IF MayScreen(v)
       THEN Save([job EXCEPT !.screens = @ + 1]) /\ Committed(v, "calling")
       ELSE /\ UNCHANGED <<jobVars, mishaps>>
            /\ Fail(v, "binding-unavailable", TRUE, "none")
    /\ UNCHANGED <<review, pinned, bucketVars, calls, asks>>

CallProvider(v) ==
    /\ task[v].pc = "calling"
    /\ calls' = calls + 1
    /\ Go(v, "screening")
    /\ UNCHANGED <<jobVars, review, pinned, bucketVars, asks, mishaps>>

(* A provider that fails or times out is a receipt of its own, never a pass. *)
ProviderAnswers(v) ==
    /\ task[v].pc = "screening"
    /\ \/ Go(v, "releasing")
       \/ Fail(v, "screening-held", TRUE, "refused")
       \/ Fail(v, "dependency-unavailable", FALSE, "error")
    /\ UNCHANGED <<jobVars, review, pinned, bucketVars, calls, asks, mishaps>>

\* Mutant: the sources are not checked again after the screen.
MayRelease_Unpinned(v) == job.state = "queued" /\ Owns(v)

MayRelease(v) == job.state = "queued" /\ Owns(v) /\ pinned

Release(v) ==
    /\ task[v].pc = "releasing"
    /\ IF MayRelease(v)
       THEN /\ Save([job EXCEPT !.state = "release-authorized", !.receipt = "policy",
                                !.last = "passed", !.failure = "none", !.live = TRUE])
            /\ Committed(v, "putting")
       ELSE /\ UNCHANGED <<jobVars, mishaps>>
            /\ Fail(v, "binding-unavailable", TRUE, "none")
    /\ UNCHANGED <<review, pinned, bucketVars, calls, asks>>

(* The PUT, or the read that verifies it, fails or times out: the bytes are  *)
(* there, are not, or will be.                                               *)
PutOutage(v) ==
    /\ Mishap
    /\ Fail(v, "dependency-unavailable", FALSE, "none")
    /\ \/ UNCHANGED bucketVars
       \/ public' = TRUE /\ UNCHANGED late
       \/ late' = TRUE /\ UNCHANGED public

PutPublicArtifact(v) ==
    /\ task[v].pc = "putting"
    /\ \/ public' = TRUE /\ Go(v, "finishing") /\ UNCHANGED <<late, mishaps>>
       \/ PutOutage(v)
    /\ UNCHANGED <<jobVars, review, pinned, calls, asks>>

Finished ==
    [job EXCEPT !.state = "published", !.failure = "none", !.lease = Nobody, !.live = FALSE]

Finish(v) ==
    /\ task[v].pc = "finishing"
    /\ IF job.state = "release-authorized" /\ Owns(v)
       THEN Save(Finished)
       ELSE UNCHANGED jobVars
    /\ Stop(v)
    /\ UNCHANGED <<review, pinned, bucketVars, calls, asks, mishaps>>

\* Mutant: the decision uses the job as it was claimed.
Holds_Snapshot(v) ==
    task[v].claimed = "queued" /\ (task[v].hold \/ job.screens >= MaxScreens)

Holds(v) == job.state = "queued" /\ (task[v].hold \/ job.screens >= MaxScreens)

(* The delivery gives up its lease, if it still has it; a screening receipt  *)
(* that holds the job is taken to the operators at once.                     *)
RetryOrHold(v) ==
    /\ task[v].pc = "failing"
    /\ IF Owns(v) /\ job.state \in {"queued", "release-authorized"}
       THEN /\ Save([job EXCEPT !.state = IF Holds(v) THEN "held" ELSE @,
                                !.failure = task[v].code,
                                !.last = IF task[v].seen = "none" THEN @ ELSE task[v].seen,
                                !.lease = Nobody, !.live = FALSE, !.due = FALSE])
            /\ IF Holds(v) /\ task[v].seen # "none" THEN Go(v, "opening") ELSE Stop(v)
       ELSE UNCHANGED jobVars /\ Stop(v)
    /\ UNCHANGED <<review, pinned, bucketVars, calls, asks, mishaps>>

-----------------------------------------------------------------------------
\* Mutant: only the provider's refusals reach the operators.
Reviewable_RefusalsOnly == job.state = "held" /\ job.failure = "screening-held"

(* A hold the operators can judge: it has an observation to judge by. *)
Reviewable ==
    /\ job.state = "held"
    /\ job.failure \in {"screening-held", "dependency-unavailable"}
    /\ job.last # "none"

OpenReview(v) ==
    /\ task[v].pc = "opening"
    /\ IF Reviewable /\ review = "none" /\ pinned
       THEN \/ review' = "pending" /\ UNCHANGED mishaps
            \/ Mishap /\ UNCHANGED review
       ELSE UNCHANGED <<review, mishaps>>
    /\ Stop(v)
    /\ UNCHANGED <<jobVars, pinned, bucketVars, calls, asks>>

(* The scheduled sweep opens what a crash or an outage left unopened. *)
ReconcileReviews ==
    /\ Reviewable /\ review = "none" /\ pinned
    /\ review' = "pending"
    /\ UNCHANGED <<jobVars, pinned, bucketVars, calls, task, asks, mishaps>>

(* An operator decides a pending case once; another one may uphold the       *)
(* sponsor's appeal of a rejection.                                          *)
Decide ==
    /\ \/ review = "pending" /\ review' \in {"approved", "rejected"}
       \/ review = "rejected" /\ review' = "approved"
    /\ UNCHANGED <<jobVars, pinned, bucketVars, calls, task, asks, mishaps>>

\* Mutant: any unreleased hold may be requeued.
Recoverable_AnyHold ==
    job.state = "held" /\ job.screens < MaxScreens /\ job.generation < MaxGenerations

(* A hold for unavailable sources, with screens and generations to spare. *)
Recoverable ==
    /\ job.state = "held" /\ job.failure = "binding-unavailable"
    /\ job.screens < MaxScreens /\ job.generation < MaxGenerations
    /\ job.last # "refused"

(* A hold that an operator has approved and that awaits the owner's consent. *)
Approved ==
    /\ job.state = "held" /\ job.failure \in {"screening-held", "dependency-unavailable"}
    /\ review = "approved"

(* The owner's request reads the job before it writes. *)
AskRecovery(r) ==
    /\ asks[r].pc = "idle"
    /\ pinned
    /\ \/ Approved /\ asks' = [asks EXCEPT ![r] = [pc |-> "consent",
                                                    generation |-> job.generation]]
       \/ Recoverable /\ asks' = [asks EXCEPT ![r] = [pc |-> "requeue",
                                                       generation |-> job.generation]]
    /\ UNCHANGED <<jobVars, review, pinned, bucketVars, calls, task, mishaps>>

\* Mutants: a recovery replenishes the screens, or reuses its generation.
Requeued_Replenished ==
    [job EXCEPT !.state = "queued", !.failure = "none", !.due = TRUE,
                !.generation = @ + 1, !.screens = 0]
Requeued_SameGeneration ==
    [job EXCEPT !.state = "queued", !.failure = "none", !.due = TRUE]

Requeued ==
    [job EXCEPT !.state = "queued", !.failure = "none", !.due = TRUE, !.generation = @ + 1]

RetryPublication(r) ==
    /\ asks[r].pc = "requeue"
    /\ IF Recoverable /\ asks[r].generation = job.generation /\ pinned
       THEN Save(Requeued)
       ELSE UNCHANGED jobVars
    /\ asks' = [asks EXCEPT ![r].pc = "idle"]
    /\ UNCHANGED <<review, pinned, bucketVars, calls, task, mishaps>>

AuthorizeReview(r) ==
    /\ asks[r].pc = "consent"
    /\ IF Approved /\ asks[r].generation = job.generation /\ pinned
       THEN Save([job EXCEPT !.state = "release-authorized", !.receipt = "review",
                                !.failure = "none", !.due = TRUE])
       ELSE UNCHANGED jobVars
    /\ asks' = [asks EXCEPT ![r].pc = "idle"]
    /\ UNCHANGED <<review, pinned, bucketVars, calls, task, mishaps>>

-----------------------------------------------------------------------------
Working(v) == task[v].pc # "idle"

(* Three minutes pass: for a verifier that is gone, or for a slow one. *)
LeaseLapses ==
    /\ job.live
    /\ IF Working(job.lease) THEN Mishap ELSE UNCHANGED mishaps
    /\ job' = [job EXCEPT !.live = FALSE]
    /\ UNCHANGED <<audit, review, pinned, bucketVars, calls, task, asks>>

BackoffEnds ==
    /\ ~job.due
    /\ job' = [job EXCEPT !.due = TRUE]
    /\ UNCHANGED <<audit, review, pinned, bucketVars, calls, task, asks, mishaps>>

LatePutLands ==
    /\ late
    /\ late' = FALSE /\ public' = TRUE
    /\ UNCHANGED <<jobVars, review, pinned, calls, task, asks, mishaps>>

Crash(v) ==
    /\ Working(v)
    /\ Mishap
    /\ Stop(v)
    /\ UNCHANGED <<jobVars, review, pinned, bucketVars, calls, asks>>

(* A statement or a call of the delivery throws before it takes effect. *)
DeliveryFails(v) ==
    /\ task[v].pc \in {"pinning", "reserving", "calling", "screening", "releasing", "putting",
                       "finishing"}
    /\ Mishap
    /\ Fail(v, "dependency-unavailable", FALSE, "none")
    /\ UNCHANGED <<jobVars, review, pinned, bucketVars, calls, asks>>

(* The evidence, its target or the request is hidden, or shown again. *)
VisibilityChanges ==
    /\ Mishap
    /\ pinned' = ~pinned
    /\ UNCHANGED <<jobVars, review, bucketVars, calls, task, asks>>

Claim == \E v \in Verifiers : ClaimHolds(v) \/ ClaimLeases(v)

Deliver(v) ==
    \/ ReadPrivateBytes(v) \/ LivePublicationPin(v) \/ BeginScreen(v) \/ CallProvider(v)
    \/ ProviderAnswers(v) \/ Release(v) \/ PutPublicArtifact(v) \/ Finish(v)
    \/ RetryOrHold(v) \/ OpenReview(v)

Recover == \E r \in Requests : AskRecovery(r) \/ RetryPublication(r) \/ AuthorizeReview(r)

Environment ==
    \/ LeaseLapses \/ BackoffEnds \/ LatePutLands \/ VisibilityChanges
    \/ \E v \in Verifiers : Crash(v) \/ DeliveryFails(v)

Next ==
    \/ Claim \/ (\E v \in Verifiers : Deliver(v)) \/ ReconcileReviews \/ Decide \/ Recover
    \/ Environment

Spec == Init /\ [][Next]_vars

(* The cron keeps claiming and reconciling, a delivery that is not killed    *)
(* goes on, and time passes.  Nothing is assumed of owners and operators.    *)
FairSpec ==
    /\ Spec
    /\ WF_vars(Claim) /\ WF_vars(ReconcileReviews)
    /\ \A v \in Verifiers : WF_vars(Deliver(v))
    /\ WF_vars(LeaseLapses) /\ WF_vars(BackoffEnds)

-----------------------------------------------------------------------------
States == {"queued", "held", "release-authorized", "published"}
Failures == {"none", "content-unavailable", "binding-unavailable", "dependency-unavailable",
             "screening-held"}

Jobs == [state : States, failure : Failures, screens : 0..MaxScreens,
         lease : Verifiers \cup {Nobody}, live : BOOLEAN, due : BOOLEAN,
         last : {"none", "error", "refused", "passed"},
         receipt : {"none", "policy", "review"}, generation : 0..MaxGenerations]

Tasks == [pc : {"idle", "reading", "pinning", "reserving", "calling", "screening", "releasing",
                "putting", "finishing", "failing", "opening"},
          claimed : {"none", "queued", "release-authorized"}, code : Failures,
          hold : BOOLEAN, seen : {"none", "error", "refused"}]

Asks == [pc : {"idle", "requeue", "consent"}, generation : 0..MaxGenerations]

(* Every variable holds a value of its kind; recoveries are bounded. *)
TypeOK ==
    /\ job \in Jobs
    /\ audit \subseteq (0..MaxGenerations) \X States
    /\ review \in {"none", "pending", "approved", "rejected"}
    /\ pinned \in BOOLEAN /\ public \in BOOLEAN /\ late \in BOOLEAN
    /\ calls \in Nat
    /\ task \in [Verifiers -> Tasks]
    /\ asks \in [Requests -> Asks]
    /\ mishaps \in 0..MaxMishaps

(* No statement of any interleaving leaves a row that the table's CHECK      *)
(* constraints would refuse: the delivery that sent it would never get past  *)
(* it.                                                                       *)
JobChecksHold ==
    /\ job.lease # Nobody => job.state \in {"queued", "release-authorized"}
    /\ job.live => job.lease # Nobody
    /\ job.receipt # "none" <=> job.state \in Released
    /\ job.state = "published" => job.failure = "none"
    /\ job.state = "held" => job.failure # "none"

(* Crashed and superseded verifiers, lost answers and owner recoveries       *)
(* together never buy more provider calls than one publication may have.     *)
PaidCallsBounded == calls <= MaxScreens

(* The screen a verifier was promised when it claimed the job is still there *)
(* when it comes to spend it: a predecessor that lost the lease cannot have  *)
(* spent it meanwhile.                                                       *)
SuccessorKeepsBudget ==
    \A v \in Verifiers :
        /\ task[v].pc \in {"reading", "pinning", "reserving"}
        /\ task[v].claimed = "queued" /\ Owns(v)
        => job.state = "queued" /\ job.screens < MaxScreens

(* A recorded refusal of the provider stands until an operator overrules it: *)
(* no retry, recovery or later screen releases the bytes.                    *)
RefusalStands == job.last = "refused" => job.state = "held" \/ job.receipt = "review"

(* The job never enters one state twice in one generation: the audit's       *)
(* unique index would refuse the transition and wedge the job.               *)
AuditIsFresh ==
    [][job'.state # job.state => <<job'.generation, job'.state>> \notin audit]_vars

(* A release finds its sources visible, and its authority in force, at the   *)
(* moment it commits, whatever was read before.                              *)
ReleaseIsCurrent ==
    [][job.receipt = "none" /\ job'.receipt # "none" =>
          /\ pinned
          /\ job'.receipt = "policy" => job.live /\ task[job.lease].pc = "releasing"
          /\ job'.receipt = "review" => review = "approved"]_vars

(* Whatever happens, the bytes are private until a release and the release   *)
(* is irrevocable.                                                           *)
Stage == CASE job.state = "published" -> "delivered"
           [] job.state = "release-authorized" -> "released"
           [] OTHER -> "private"

Boundary == INSTANCE ReleaseBoundary WITH stage <- Stage, exposed <- public

ImplementsReleaseBoundary == Boundary!Spec

(* A queued job is decided, also when every one of its screens is lost, and  *)
(* a release is followed through: crashes, outages and lapsed leases delay   *)
(* the delivery, and neither hidden sources nor a dead provider stop it.     *)
JobsAreSettled ==
    /\ job.state = "queued" ~> job.state # "queued"
    /\ job.state = "release-authorized" ~> job.state = "published"

(* A hold with an observation reaches the operators, if its sources stay     *)
(* visible, also when the verifier dies between the hold and the case.       *)
ObservedHoldsReachReview ==
    <>[]pinned =>
        (job.state = "held" /\ job.failure \in {"screening-held", "dependency-unavailable"}
            /\ job.last # "none" ~> review # "none")

(* "Held artifact bytes enter the existing private human-review queue": so   *)
(* would a job that was held because its screens failed.                     *)
HoldsReachReview ==
    <>[]pinned =>
        (job.state = "held" /\ job.failure \in {"screening-held", "dependency-unavailable"}
            ~> review # "none")
=============================================================================
