---------------------- MODULE ArtifactPublication_proofs ----------------------
(***************************************************************************)
(* Proofs about ArtifactPublication, for any number of verifiers, owner    *)
(* requests, screens and recoveries.                                       *)
(*                                                                         *)
(* The inductive invariant says, of every verifier, what its place in the  *)
(* delivery tells about the job, whether it holds the lease or not; a step *)
(* of another actor keeps that because the release is never undone and     *)
(* because a job changes hands only with its lease.                        *)
(***************************************************************************)
EXTENDS ArtifactPublication, FiniteSetTheorems, TLAPS

USE PublicationConstants

Screening == {"reading", "pinning", "reserving", "calling", "screening", "releasing"}

(* What the place of a verifier tells about the job and the bucket.  With    *)
(* the lease, nobody else moves the job it screens or spends its screen;     *)
(* without it, the verifier knows only what is never undone.                 *)
Fits(v) ==
    /\ task[v].claimed = "release-authorized" => job.state \in Released
    /\ task[v].pc \in {"putting", "finishing"} => job.state \in Released
    /\ task[v].pc = "finishing" => public
    /\ task[v].pc \in Screening \ {"reading"} => task[v].claimed = "queued"
    /\ task[v].pc = "reading" => task[v].claimed \in {"queued", "release-authorized"}
    /\ task[v].pc = "failing" /\ task[v].seen = "refused" => task[v].hold
    /\ task[v].pc = "failing" => task[v].code # "none"
    /\ Owns(v) /\ task[v].claimed = "queued" /\ task[v].pc \in Screening
          => job.state = "queued"
    /\ Owns(v) /\ task[v].claimed = "queued"
       /\ task[v].pc \in {"reading", "pinning", "reserving"} => job.screens < MaxScreens
    /\ Owns(v) /\ task[v].pc = "failing" /\ task[v].seen # "none" => job.state = "queued"

BytesFollowRelease == public \/ late => job.state \in Released

IInv ==
    /\ TypeOK /\ JobChecksHold /\ RefusalStands /\ BytesFollowRelease
    /\ \A v \in Verifiers : Fits(v)

(* No step takes a release back, or bytes out of the public bucket. *)
Grows ==
    /\ job.state \in Released => job'.state \in Released
    /\ public => public'

-----------------------------------------------------------------------------
(* What the helpers of the deliveries do. *)
LEMMA GoTask ==
    ASSUME TypeOK, NEW v \in Verifiers, NEW pc, Go(v, pc),
           pc \in {"idle", "reading", "pinning", "reserving", "calling", "screening",
                   "releasing", "putting", "finishing", "failing", "opening"}
    PROVE  /\ task' \in [Verifiers -> Tasks]
           /\ task'[v].pc = pc /\ task'[v].claimed = task[v].claimed
           /\ \A w \in Verifiers \ {v} : task'[w] = task[w]
  BY DEF Go, TypeOK, Tasks

(* A delivery that fails remembers why, and the others stay where they are. *)
LEMMA FailTask ==
    ASSUME TypeOK, NEW v \in Verifiers, NEW code \in Failures, NEW hold \in BOOLEAN,
           NEW seen \in {"none", "error", "refused"}, Fail(v, code, hold, seen)
    PROVE  /\ task' \in [Verifiers -> Tasks]
           /\ task'[v] = [pc |-> "failing", claimed |-> task[v].claimed, code |-> code,
                          hold |-> hold, seen |-> seen]
           /\ \A w \in Verifiers \ {v} : task'[w] = task[w]
  BY DEF Fail, TypeOK, Tasks

(* A delivery that ends forgets everything. *)
LEMMA StopTask ==
    ASSUME TypeOK, NEW v \in Verifiers, Stop(v)
    PROVE  /\ task' \in [Verifiers -> Tasks]
           /\ task'[v] = Idle
           /\ \A w \in Verifiers \ {v} : task'[w] = task[w]
  BY DEF Stop, Idle, TypeOK, Tasks, Failures

(* A saved row is the new row, and its audit stays well typed. *)
LEMMA SaveJob ==
    ASSUME TypeOK, NEW new \in Jobs, Save(new)
    PROVE  job' = new /\ job' \in Jobs /\ audit' \subseteq (0..MaxGenerations) \X States
  BY DEF Save, TypeOK, Jobs

(* A verifier that takes no part in a step still fits after it. *)
LEMMA Bystander ==
    ASSUME NEW w \in Verifiers, Fits(w), Grows, task'[w] = task[w],
           Owns(w)' => Owns(w) /\ job'.state = job.state /\ job'.screens = job.screens
    PROVE  Fits(w)'
  BY DEF Fits, Grows, Owns, Released

(* A step that leaves the job and the bucket alone, and moves one verifier   *)
(* to a place it fits.                                                       *)
LEMMA PrivateStep ==
    ASSUME IInv, NEW v \in Verifiers, UNCHANGED <<jobVars, bucketVars>>,
           task' \in [Verifiers -> Tasks], \A w \in Verifiers \ {v} : task'[w] = task[w],
           Fits(v)', review' \in {"none", "pending", "approved", "rejected"},
           UNCHANGED <<pinned, asks>>, calls' \in Nat, mishaps' \in 0..MaxMishaps
    PROVE  IInv'
  <1>1. TypeOK' /\ JobChecksHold' /\ RefusalStands' /\ BytesFollowRelease'
    BY DEF IInv, TypeOK, JobChecksHold, RefusalStands, BytesFollowRelease, jobVars, bucketVars,
           Released
  <1>2. ASSUME NEW w \in Verifiers PROVE Fits(w)'
    <2>1. CASE w = v
      BY <2>1
    <2>2. CASE w # v
      BY <2>2, Bystander DEF IInv, Grows, Owns, jobVars, bucketVars
    <2> QED BY <2>1, <2>2
  <1> QED BY <1>1, <1>2 DEF IInv

(* Mishaps stay within their bound. *)
LEMMA MishapCount ==
    ASSUME TypeOK, Mishap \/ UNCHANGED mishaps
    PROVE  mishaps' \in 0..MaxMishaps
  BY DEF TypeOK, Mishap

(* The delivery fails: in particular with a screening receipt while it still *)
(* has the job.                                                              *)
LEMMA PrivateFail ==
    ASSUME IInv, NEW v \in Verifiers, NEW code \in Failures \ {"none"}, NEW hold \in BOOLEAN,
           NEW seen \in {"none", "error", "refused"}, Fail(v, code, hold, seen),
           seen = "refused" => hold, seen # "none" /\ Owns(v) => job.state = "queued",
           UNCHANGED <<jobVars, bucketVars, review, pinned, calls, asks>>,
           Mishap \/ UNCHANGED mishaps
    PROVE  IInv'
  <1>1. mishaps' \in 0..MaxMishaps
    BY MishapCount DEF IInv
  <1>2. /\ task' \in [Verifiers -> Tasks]
        /\ task'[v] = [pc |-> "failing", claimed |-> task[v].claimed, code |-> code,
                       hold |-> hold, seen |-> seen]
        /\ \A w \in Verifiers \ {v} : task'[w] = task[w]
    BY DEF IInv, Fail, TypeOK, Tasks
  <1>3. Fits(v)'
    BY <1>2 DEF IInv, Fits, Owns, Screening, jobVars, bucketVars
  <1> QED
    BY <1>1, <1>2, <1>3, PrivateStep DEF IInv, TypeOK

(* The delivery goes on to a place it fits. *)
LEMMA PrivateGo ==
    ASSUME IInv, NEW v \in Verifiers, NEW pc \in Screening \cup {"putting"}, Go(v, pc), Fits(v)',
           UNCHANGED <<jobVars, bucketVars, review, pinned, asks>>, calls' \in Nat,
           UNCHANGED mishaps
    PROVE  IInv'
  <1>1. /\ task' \in [Verifiers -> Tasks]
        /\ \A w \in Verifiers \ {v} : task'[w] = task[w]
    BY GoTask DEF IInv, Screening
  <1> QED
    BY <1>1, PrivateStep DEF IInv, TypeOK

(* The delivery ends. *)
LEMMA PrivateStop ==
    ASSUME IInv, NEW v \in Verifiers, Stop(v),
           UNCHANGED <<jobVars, bucketVars, pinned, calls, asks>>, Mishap \/ UNCHANGED mishaps,
           review' \in {"none", "pending", "approved", "rejected"}
    PROVE  IInv'
  <1>1. mishaps' \in 0..MaxMishaps
    BY MishapCount DEF IInv
  <1>2. /\ task' \in [Verifiers -> Tasks]
        /\ task'[v] = Idle
        /\ \A w \in Verifiers \ {v} : task'[w] = task[w]
    BY StopTask DEF IInv
  <1>3. Fits(v)'
    BY <1>2 DEF Idle, Fits, Screening
  <1> QED
    BY <1>1, <1>2, <1>3, PrivateStep DEF IInv, TypeOK

-----------------------------------------------------------------------------
(* Steps of a delivery that touch neither the job nor the bucket. *)
LEMMA ReadPrivateBytesStep ==
    ASSUME IInv, NEW v \in Verifiers, ReadPrivateBytes(v)
    PROVE  IInv'
  <1>1. CASE /\ Go(v, IF task[v].claimed = "queued" THEN "pinning" ELSE "putting")
             /\ UNCHANGED mishaps
    <2>1. Fits(v)'
      BY <1>1, GoTask
         DEF IInv, ReadPrivateBytes, Fits, Owns, Screening, jobVars, bucketVars
    <2> QED
      BY <1>1, <2>1, PrivateGo DEF ReadPrivateBytes, Screening, IInv, TypeOK
  <1>2. CASE Fail(v, "content-unavailable", TRUE, "none") /\ Mishap
    BY <1>2, PrivateFail DEF ReadPrivateBytes, Failures
  <1>3. CASE Fail(v, "dependency-unavailable", FALSE, "none") /\ Mishap
    BY <1>3, PrivateFail DEF ReadPrivateBytes, Failures
  <1> QED BY <1>1, <1>2, <1>3 DEF ReadPrivateBytes

(* The sources are looked up before a screen is reserved. *)
LEMMA LivePublicationPinStep ==
    ASSUME IInv, NEW v \in Verifiers, LivePublicationPin(v)
    PROVE  IInv'
  <1>1. CASE Go(v, "reserving")
    <2>1. Fits(v)'
      BY <1>1, GoTask DEF IInv, LivePublicationPin, Fits, Owns, Screening, jobVars, bucketVars
    <2> QED
      BY <1>1, <2>1, PrivateGo DEF LivePublicationPin, Screening, IInv, TypeOK
  <1>2. CASE Fail(v, "binding-unavailable", TRUE, "none")
    BY <1>2, PrivateFail DEF LivePublicationPin, Failures
  <1> QED BY <1>1, <1>2 DEF LivePublicationPin

(* The provider is called for a screen already reserved. *)
LEMMA CallProviderStep ==
    ASSUME IInv, NEW v \in Verifiers, CallProvider(v)
    PROVE  IInv'
  <1>1. Fits(v)'
    BY GoTask DEF IInv, CallProvider, Fits, Owns, Screening, jobVars, bucketVars
  <1> QED
    BY <1>1, PrivateGo DEF CallProvider, Screening, IInv, TypeOK

(* The provider passes, refuses or fails. *)
LEMMA ProviderAnswersStep ==
    ASSUME IInv, NEW v \in Verifiers, ProviderAnswers(v)
    PROVE  IInv'
  <1>1. Owns(v) => job.state = "queued"
    BY DEF IInv, Fits, ProviderAnswers, Screening
  <1>2. CASE Go(v, "releasing")
    <2>1. Fits(v)'
      BY <1>2, GoTask DEF IInv, ProviderAnswers, Fits, Owns, Screening, jobVars, bucketVars
    <2> QED
      BY <1>2, <2>1, PrivateGo DEF ProviderAnswers, Screening, IInv, TypeOK
  <1>3. CASE Fail(v, "screening-held", TRUE, "refused")
    BY <1>1, <1>3, PrivateFail DEF ProviderAnswers, Failures
  <1>4. CASE Fail(v, "dependency-unavailable", FALSE, "error")
    BY <1>1, <1>4, PrivateFail DEF ProviderAnswers, Failures
  <1> QED BY <1>2, <1>3, <1>4 DEF ProviderAnswers

(* A held job is taken to the operators. *)
LEMMA OpenReviewStep ==
    ASSUME IInv, NEW v \in Verifiers, OpenReview(v)
    PROVE  IInv'
  <1>1. review' \in {"none", "pending", "approved", "rejected"}
    BY DEF IInv, OpenReview, TypeOK
  <1> QED
    BY <1>1, PrivateStop DEF OpenReview

(* A verifier dies. *)
LEMMA CrashStep ==
    ASSUME IInv, NEW v \in Verifiers, Crash(v)
    PROVE  IInv'
  BY PrivateStop DEF Crash, IInv, TypeOK

(* A statement or a call throws. *)
LEMMA DeliveryFailsStep ==
    ASSUME IInv, NEW v \in Verifiers, DeliveryFails(v)
    PROVE  IInv'
  BY PrivateFail DEF DeliveryFails, Failures

-----------------------------------------------------------------------------
(* Steps that move the job.  The one that moves it is the only verifier that *)
(* can hold its lease, so the others are bystanders.                         *)
LEMMA JobStep ==
    ASSUME IInv, Grows, job' \in Jobs, audit' \subseteq (0..MaxGenerations) \X States,
           NEW v \in Verifiers, task' \in [Verifiers -> Tasks], Fits(v)',
           \A w \in Verifiers \ {v} : task'[w] = task[w] /\ ~Owns(w)',
           JobChecksHold', RefusalStands', UNCHANGED <<review, pinned, bucketVars, calls, asks>>,
           mishaps' \in 0..MaxMishaps
    PROVE  IInv'
  <1>1. TypeOK' /\ BytesFollowRelease'
    BY DEF IInv, TypeOK, BytesFollowRelease, bucketVars, Grows
  <1>2. ASSUME NEW w \in Verifiers PROVE Fits(w)'
    <2>1. CASE w = v
      BY <2>1
    <2>2. CASE w # v
      BY <2>2, Bystander DEF IInv
    <2> QED BY <2>1, <2>2
  <1> QED BY <1>1, <1>2 DEF IInv

(* The claimant is the only owner, and a queued job has a screen for it. *)
LEMMA ClaimLeasesStep ==
    ASSUME IInv, NEW v \in Verifiers, ClaimLeases(v)
    PROVE  IInv'
  <1> DEFINE new == [job EXCEPT !.lease = v, !.live = TRUE]
  <1>1. job' = new /\ job' \in Jobs /\ audit' \subseteq (0..MaxGenerations) \X States
    BY SaveJob DEF ClaimLeases, IInv, TypeOK, Jobs
  <1>2. /\ task' \in [Verifiers -> Tasks]
        /\ task'[v].pc = "reading" /\ task'[v].claimed = job.state
        /\ \A w \in Verifiers \ {v} : task'[w] = task[w]
    <2>1. task \in [Verifiers -> Tasks] /\ job.state \in {"queued", "release-authorized"}
      BY DEF ClaimLeases, Claimable, IInv, TypeOK
    <2>2. task' = [task EXCEPT ![v].pc = "reading", ![v].claimed = job.state]
      BY DEF ClaimLeases
    <2> QED BY <2>1, <2>2 DEF Tasks
  <1>3. JobChecksHold' /\ RefusalStands' /\ Grows
    BY <1>1 DEF ClaimLeases, Claimable, IInv, JobChecksHold, RefusalStands, Grows, Released,
                bucketVars, TypeOK, Jobs
  <1>4. Fits(v)'
    BY <1>1, <1>2 DEF ClaimLeases, Claimable, Fits, Owns, Screening, Released, IInv, TypeOK,
                      Jobs, Tasks
  <1>5. \A w \in Verifiers \ {v} : ~Owns(w)'
    BY <1>1 DEF Owns, IInv, TypeOK, Jobs
  <1> QED
    BY <1>1, <1>2, <1>3, <1>4, <1>5, JobStep DEF ClaimLeases, IInv, TypeOK

(* A job out of screens is held by its claim; nobody owns it. *)
LEMMA ClaimHoldsStep ==
    ASSUME IInv, NEW v \in Verifiers, ClaimHolds(v)
    PROVE  IInv'
  <1> DEFINE new == [job EXCEPT !.state = "held", !.failure = "dependency-unavailable",
                                !.lease = Nobody]
  <1>1. job' = new /\ job' \in Jobs /\ audit' \subseteq (0..MaxGenerations) \X States
    BY SaveJob DEF ClaimHolds, IInv, TypeOK, Jobs, States, Failures
  <1>2. JobChecksHold' /\ RefusalStands' /\ Grows
    BY <1>1 DEF ClaimHolds, Claimable, Exhausted, IInv, JobChecksHold, RefusalStands, Grows,
                Released, bucketVars, TypeOK, Jobs
  <1>3. \A w \in Verifiers : ~Owns(w)'
    BY <1>1 DEF Owns, IInv, TypeOK, Jobs
  <1>4. Fits(v)'
    BY <1>2, <1>3, Bystander DEF IInv, ClaimHolds
  <1> QED
    BY <1>1, <1>2, <1>3, <1>4, JobStep DEF ClaimHolds, IInv, TypeOK

(* The owner alone spends a screen. *)
LEMMA BeginScreenStep ==
    ASSUME IInv, NEW v \in Verifiers, BeginScreen(v)
    PROVE  IInv'
  <1>1. CASE MayScreen(v)
    <2> DEFINE new == [job EXCEPT !.screens = @ + 1]
    <2>1. new \in Jobs /\ Save(new)
      BY <1>1 DEF BeginScreen, MayScreen, IInv, TypeOK, Jobs
    <2>2. job' = new /\ job' \in Jobs /\ audit' \subseteq (0..MaxGenerations) \X States
      BY <2>1, SaveJob DEF IInv
    <2>3. JobChecksHold' /\ RefusalStands' /\ Grows
      BY <2>2, <1>1 DEF MayScreen, BeginScreen, IInv, JobChecksHold, RefusalStands, Grows,
                        Released, bucketVars, TypeOK, Jobs
    <2>4. \A w \in Verifiers \ {v} : ~Owns(w)'
      BY <2>2, <1>1 DEF MayScreen, Owns, IInv, TypeOK, Jobs
    <2>5. mishaps' \in 0..MaxMishaps
      BY <1>1, MishapCount DEF BeginScreen, Committed, IInv
    <2>6. CASE Go(v, "calling")
      <3>1. Fits(v)'
        BY <2>6, <2>2, <1>1, GoTask
           DEF MayScreen, BeginScreen, Fits, Owns, Screening, IInv, TypeOK, Jobs
      <3> QED BY <3>1, <2>6, <2>2, <2>3, <2>4, <2>5, GoTask, JobStep DEF BeginScreen, IInv
    <2>7. CASE Fail(v, "dependency-unavailable", FALSE, "none")
      <3>1. Fits(v)'
        BY <2>7, <2>2, <1>1 DEF MayScreen, BeginScreen, Fits, Fail, Screening, IInv, TypeOK, Tasks
      <3> QED
        BY <3>1, <2>7, <2>2, <2>3, <2>4, <2>5, FailTask, JobStep DEF BeginScreen, IInv, Failures
    <2> QED BY <1>1, <2>6, <2>7 DEF BeginScreen, Committed
  <1>2. CASE ~MayScreen(v)
    BY <1>2, PrivateFail DEF BeginScreen, Failures
  <1> QED BY <1>1, <1>2

(* The owner alone releases, and a release is remembered by everyone. *)
LEMMA ReleaseStep ==
    ASSUME IInv, NEW v \in Verifiers, Release(v)
    PROVE  IInv'
  <1>1. CASE MayRelease(v)
    <2> DEFINE new == [job EXCEPT !.state = "release-authorized", !.receipt = "policy",
                                  !.last = "passed", !.failure = "none", !.live = TRUE]
    <2>1. new \in Jobs /\ Save(new)
      BY <1>1 DEF Release, MayRelease, IInv, TypeOK, Jobs, States, Failures
    <2>2. job' = new /\ job' \in Jobs /\ audit' \subseteq (0..MaxGenerations) \X States
      BY <2>1, SaveJob DEF IInv
    <2>3. JobChecksHold' /\ RefusalStands' /\ Grows
      BY <2>2, <1>1 DEF MayRelease, Release, IInv, JobChecksHold, RefusalStands, Grows,
                        Released, bucketVars, TypeOK, Jobs, Owns
    <2>4. \A w \in Verifiers \ {v} : ~Owns(w)'
      BY <2>2, <1>1 DEF MayRelease, Owns, IInv, TypeOK, Jobs
    <2>5. mishaps' \in 0..MaxMishaps
      BY <1>1, MishapCount DEF Release, Committed, IInv
    <2>6. CASE Go(v, "putting")
      <3>1. Fits(v)'
        BY <2>6, <2>2, <1>1, GoTask
           DEF MayRelease, Release, Fits, Owns, Screening, Released, IInv, TypeOK, Jobs
      <3> QED BY <3>1, <2>6, <2>2, <2>3, <2>4, <2>5, GoTask, JobStep DEF Release, IInv
    <2>7. CASE Fail(v, "dependency-unavailable", FALSE, "none")
      <3>1. Fits(v)'
        BY <2>7, <2>2, <1>1
           DEF MayRelease, Release, Fits, Fail, Screening, Released, IInv, TypeOK, Tasks, Jobs
      <3> QED
        BY <3>1, <2>7, <2>2, <2>3, <2>4, <2>5, FailTask, JobStep DEF Release, IInv, Failures
    <2> QED BY <1>1, <2>6, <2>7 DEF Release, Committed
  <1>2. CASE ~MayRelease(v)
    BY <1>2, PrivateFail DEF Release, Failures
  <1> QED BY <1>1, <1>2

(* The bytes go out only for a job that is released. *)
LEMMA PutPublicArtifactStep ==
    ASSUME IInv, NEW v \in Verifiers, PutPublicArtifact(v)
    PROVE  IInv'
  <1>1. job.state \in Released
    BY DEF PutPublicArtifact, IInv, Fits
  <1>2. /\ task' \in [Verifiers -> Tasks]
        /\ \A w \in Verifiers \ {v} : task'[w] = task[w]
    BY GoTask, FailTask DEF PutPublicArtifact, PutOutage, IInv, Failures
  <1>3. mishaps' \in 0..MaxMishaps
    BY MishapCount DEF PutPublicArtifact, PutOutage, IInv
  <1>4. TypeOK' /\ JobChecksHold' /\ RefusalStands' /\ BytesFollowRelease' /\ Grows
    BY <1>1, <1>2, <1>3
       DEF PutPublicArtifact, PutOutage, IInv, TypeOK, JobChecksHold, RefusalStands,
           BytesFollowRelease, Grows, jobVars, bucketVars, Released
  <1>5. Fits(v)'
    <2>1. CASE public' = TRUE /\ Go(v, "finishing")
      BY <2>1, <1>1, GoTask
         DEF PutPublicArtifact, Fits, Owns, Screening, IInv, jobVars
    <2>2. CASE Fail(v, "dependency-unavailable", FALSE, "none")
      BY <2>2, <1>1
         DEF PutPublicArtifact, Fits, Fail, Owns, Screening, IInv, TypeOK, Tasks, jobVars
    <2> QED BY <2>1, <2>2 DEF PutPublicArtifact, PutOutage
  <1>6. ASSUME NEW w \in Verifiers \ {v} PROVE Fits(w)'
    BY <1>2, <1>4, Bystander DEF IInv, PutPublicArtifact, jobVars, Owns
  <1> QED BY <1>4, <1>5, <1>6 DEF IInv

(* A job is published once its bytes are out. *)
LEMMA FinishStep ==
    ASSUME IInv, NEW v \in Verifiers, Finish(v)
    PROVE  IInv'
  <1>1. CASE job.state = "release-authorized" /\ Owns(v)
    <2>1. Finished \in Jobs /\ Save(Finished)
      BY <1>1 DEF Finish, Finished, IInv, TypeOK, Jobs, States, Failures
    <2>2. job' = Finished /\ job' \in Jobs /\ audit' \subseteq (0..MaxGenerations) \X States
      BY <2>1, SaveJob DEF IInv
    <2>3. JobChecksHold' /\ RefusalStands' /\ Grows
      BY <2>2, <1>1 DEF Finished, Finish, IInv, JobChecksHold, RefusalStands, Grows,
                        Released, bucketVars, TypeOK, Jobs, Owns
    <2>4. \A w \in Verifiers : ~Owns(w)'
      BY <2>2 DEF Finished, Owns, IInv, TypeOK, Jobs
    <2>5. Fits(v)'
      BY <2>4, StopTask DEF Finish, Fits, Idle, Screening, IInv
    <2> QED
      BY <2>2, <2>3, <2>4, <2>5, StopTask, JobStep DEF Finish, IInv, TypeOK
  <1>2. CASE ~(job.state = "release-authorized" /\ Owns(v))
    BY <1>2, PrivateStop DEF Finish, IInv, TypeOK
  <1> QED BY <1>1, <1>2

(* A failed delivery returns its job, or holds it, only if it still owns it. *)
LEMMA RetryOrHoldStep ==
    ASSUME IInv, NEW v \in Verifiers, RetryOrHold(v)
    PROVE  IInv'
  <1>1. CASE Owns(v) /\ job.state \in {"queued", "release-authorized"}
    <2> DEFINE new == [job EXCEPT !.state = IF Holds(v) THEN "held" ELSE @,
                                  !.failure = task[v].code,
                                  !.last = IF task[v].seen = "none" THEN @ ELSE task[v].seen,
                                  !.lease = Nobody, !.live = FALSE, !.due = FALSE]
    <2>1. task[v] \in Tasks /\ task[v].pc = "failing" /\ Fits(v)
      BY DEF RetryOrHold, IInv, TypeOK
    <2>2. new \in Jobs /\ Save(new)
      BY <1>1, <2>1 DEF RetryOrHold, IInv, TypeOK, Jobs, States, Tasks
    <2>3. job' = new /\ job' \in Jobs /\ audit' \subseteq (0..MaxGenerations) \X States
      BY <2>2, SaveJob DEF IInv
    <2>4. Grows
      BY <1>1, <2>3 DEF RetryOrHold, Holds, Grows, Released, bucketVars, IInv, TypeOK, Jobs
    <2>5. JobChecksHold'
      BY <1>1, <2>1, <2>3 DEF Holds, Fits, JobChecksHold, Released, IInv, TypeOK, Jobs
    <2>6. RefusalStands'
      BY <1>1, <2>1, <2>3 DEF Holds, Fits, RefusalStands, JobChecksHold, Released, IInv, TypeOK,
                              Jobs
    <2>7. \A w \in Verifiers : ~Owns(w)'
      BY <2>3 DEF Owns, IInv, TypeOK, Jobs
    <2>8. \/ Go(v, "opening")
          \/ Stop(v)
      BY <1>1 DEF RetryOrHold
    <2>9. /\ task' \in [Verifiers -> Tasks]
          /\ \A w \in Verifiers \ {v} : task'[w] = task[w]
      BY <2>8, GoTask, StopTask DEF IInv
    <2>10. Fits(v)'
      <3>1. CASE Go(v, "opening")
        BY <3>1, <2>1, <2>4, <2>7, GoTask DEF Fits, Grows, Screening, IInv
      <3>2. CASE Stop(v)
        BY <3>2, <2>7, StopTask DEF Fits, Idle, Screening, IInv
      <3> QED BY <2>8, <3>1, <3>2
    <2> QED
      BY <2>3, <2>4, <2>5, <2>6, <2>7, <2>9, <2>10, JobStep DEF RetryOrHold, IInv, TypeOK
  <1>2. CASE ~(Owns(v) /\ job.state \in {"queued", "release-authorized"})
    BY <1>2, PrivateStop DEF RetryOrHold, IInv, TypeOK
  <1> QED BY <1>1, <1>2

-----------------------------------------------------------------------------
(* Steps of owners, operators, time and the environment: every verifier is a *)
(* bystander.                                                                *)
LEMMA RetryPublicationStep ==
    ASSUME IInv, NEW r \in Requests, RetryPublication(r)
    PROVE  IInv'
  <1>1. asks' \in [Requests -> Asks]
    BY DEF RetryPublication, IInv, TypeOK, Asks
  <1>2. CASE Recoverable /\ asks[r].generation = job.generation /\ pinned
    <2>1. Requeued \in Jobs /\ Save(Requeued)
      <3>1. job \in Jobs /\ job.generation + 1 \in 0..MaxGenerations
        BY <1>2 DEF Recoverable, IInv, TypeOK, Jobs
      <3>2. Requeued \in Jobs
        BY <3>1 DEF Requeued, Jobs, States, Failures
      <3> QED BY <1>2, <3>2 DEF RetryPublication
    <2>2. job' = Requeued /\ job' \in Jobs /\ audit' \subseteq (0..MaxGenerations) \X States
      BY <2>1, SaveJob DEF IInv
    <2>3. job.state = "held" /\ job.last # "refused" /\ job.lease = Nobody
      BY <1>2 DEF Recoverable, IInv, JobChecksHold
    <2>4. TypeOK' /\ JobChecksHold' /\ RefusalStands' /\ BytesFollowRelease' /\ Grows
      BY <1>1, <2>2, <2>3
         DEF RetryPublication, Requeued, IInv, TypeOK, JobChecksHold, RefusalStands,
             BytesFollowRelease, Grows, bucketVars, Released, Jobs
    <2>5. \A w \in Verifiers : ~Owns(w)'
      BY <2>2, <2>3 DEF Requeued, Owns, IInv, TypeOK, Jobs
    <2> QED
      BY <2>4, <2>5, Bystander DEF IInv, RetryPublication
  <1>3. CASE ~(Recoverable /\ asks[r].generation = job.generation /\ pinned)
    BY <1>1, <1>3
       DEF RetryPublication, IInv, TypeOK, JobChecksHold, RefusalStands, BytesFollowRelease,
           Released, Fits, Owns, jobVars, bucketVars
  <1> QED BY <1>2, <1>3

(* The owner consents to the release that an operator approved. *)
LEMMA AuthorizeReviewStep ==
    ASSUME IInv, NEW r \in Requests, AuthorizeReview(r)
    PROVE  IInv'
  <1>1. asks' \in [Requests -> Asks]
    BY DEF AuthorizeReview, IInv, TypeOK, Asks
  <1>2. CASE Approved /\ asks[r].generation = job.generation /\ pinned
    <2> DEFINE new == [job EXCEPT !.state = "release-authorized", !.receipt = "review",
                                  !.failure = "none", !.due = TRUE]
    <2>1. new \in Jobs /\ Save(new)
      BY <1>2 DEF AuthorizeReview, IInv, TypeOK, Jobs, States, Failures
    <2>2. job' = new /\ job' \in Jobs /\ audit' \subseteq (0..MaxGenerations) \X States
      BY <2>1, SaveJob DEF IInv
    <2>3. job.state = "held" /\ job.lease = Nobody
      BY <1>2 DEF Approved, IInv, JobChecksHold
    <2>4. TypeOK' /\ JobChecksHold' /\ RefusalStands' /\ BytesFollowRelease' /\ Grows
      BY <1>1, <2>2, <2>3
         DEF AuthorizeReview, IInv, TypeOK, JobChecksHold, RefusalStands,
             BytesFollowRelease, Grows, bucketVars, Released, Jobs
    <2>5. \A w \in Verifiers : ~Owns(w)'
      BY <2>2, <2>3 DEF Owns, IInv, TypeOK, Jobs
    <2> QED
      BY <2>4, <2>5, Bystander DEF IInv, AuthorizeReview
  <1>3. CASE ~(Approved /\ asks[r].generation = job.generation /\ pinned)
    BY <1>1, <1>3
       DEF AuthorizeReview, IInv, TypeOK, JobChecksHold, RefusalStands, BytesFollowRelease,
           Released, Fits, Owns, jobVars, bucketVars
  <1> QED BY <1>2, <1>3

(* Reviews, requests, time and visibility leave the invariant alone. *)
LEMMA EnvironmentStep ==
    ASSUME IInv, \/ ReconcileReviews \/ Decide \/ LeaseLapses \/ BackoffEnds \/ LatePutLands
                 \/ VisibilityChanges \/ \E r \in Requests : AskRecovery(r)
    PROVE  IInv'
  <1>1. CASE ReconcileReviews \/ Decide
    BY <1>1
       DEF ReconcileReviews, Decide, IInv, TypeOK, JobChecksHold, RefusalStands,
           BytesFollowRelease, Released, Fits, Owns, jobVars, bucketVars
  <1>2. CASE LeaseLapses
    <2>1. mishaps' \in 0..MaxMishaps
      BY <1>2, MishapCount DEF LeaseLapses, IInv
    <2>2. job' = [job EXCEPT !.live = FALSE] /\ job' \in Jobs
      BY <1>2 DEF LeaseLapses, IInv, TypeOK, Jobs
    <2>3. TypeOK' /\ JobChecksHold' /\ RefusalStands' /\ BytesFollowRelease' /\ Grows
      BY <1>2, <2>1, <2>2
         DEF LeaseLapses, IInv, TypeOK, JobChecksHold, RefusalStands, BytesFollowRelease,
             Grows, Released, bucketVars, Jobs
    <2> QED
      BY <1>2, <2>2, <2>3, Bystander DEF LeaseLapses, IInv, TypeOK, Jobs, Owns
  <1>3. CASE BackoffEnds
    <2>1. job' = [job EXCEPT !.due = TRUE] /\ job' \in Jobs
      BY <1>3 DEF BackoffEnds, IInv, TypeOK, Jobs
    <2>2. TypeOK' /\ JobChecksHold' /\ RefusalStands' /\ BytesFollowRelease' /\ Grows
      BY <1>3, <2>1
         DEF BackoffEnds, IInv, TypeOK, JobChecksHold, RefusalStands, BytesFollowRelease,
             Grows, Released, bucketVars, Jobs
    <2> QED
      BY <1>3, <2>1, <2>2, Bystander DEF BackoffEnds, IInv, TypeOK, Jobs, Owns
  <1>4. CASE LatePutLands
    BY <1>4
       DEF LatePutLands, IInv, TypeOK, JobChecksHold, RefusalStands, BytesFollowRelease,
           Released, Fits, Owns, jobVars
  <1>5. CASE VisibilityChanges
    BY <1>5, MishapCount
       DEF VisibilityChanges, IInv, TypeOK, JobChecksHold, RefusalStands, BytesFollowRelease,
           Released, Fits, Owns, jobVars, bucketVars
  <1>6. CASE \E r \in Requests : AskRecovery(r)
    <2>1. PICK r \in Requests : AskRecovery(r)
      BY <1>6
    <2>2. asks' \in [Requests -> Asks]
      BY <2>1 DEF AskRecovery, IInv, TypeOK, Asks, Jobs
    <2> QED
      BY <2>1, <2>2
         DEF AskRecovery, IInv, TypeOK, JobChecksHold, RefusalStands, BytesFollowRelease,
             Released, Fits, Owns, jobVars, bucketVars
  <1> QED BY <1>1, <1>2, <1>3, <1>4, <1>5, <1>6

(* The inductive invariant: what each verifier may assume about the job it   *)
(* serves survives every step of the others, crashes and outages included.   *)
THEOREM InvariantHolds == Spec => []IInv
  <1>1. Init => IInv
    <2> SUFFICES ASSUME Init PROVE IInv
      OBVIOUS
    <2>1. job \in Jobs /\ audit \subseteq (0..MaxGenerations) \X States
      BY DEF Init, Jobs, States, Failures
    <2>2. task \in [Verifiers -> Tasks] /\ asks \in [Requests -> Asks]
      BY DEF Init, Idle, Tasks, Asks, Failures
    <2>3. TypeOK
      <3>1. calls \in Nat /\ mishaps \in 0..MaxMishaps
        BY DEF Init
      <3>2. pinned \in BOOLEAN /\ public \in BOOLEAN /\ late \in BOOLEAN
        BY Zenon DEF Init
      <3>3. review \in {"none", "pending", "approved", "rejected"}
        BY DEF Init
      <3> QED BY <2>1, <2>2, <3>1, <3>2, <3>3, Zenon DEF TypeOK
    <2>4. JobChecksHold /\ RefusalStands /\ BytesFollowRelease
      BY DEF Init, JobChecksHold, RefusalStands, BytesFollowRelease, Released
    <2>5. \A v \in Verifiers : Fits(v)
      BY DEF Init, Idle, Fits, Screening, Owns
    <2> QED BY <2>3, <2>4, <2>5 DEF IInv
  <1>2. IInv /\ [Next]_vars => IInv'
    <2> SUFFICES ASSUME IInv, [Next]_vars PROVE IInv'
      OBVIOUS
    <2>1. CASE Claim
      BY <2>1, ClaimHoldsStep, ClaimLeasesStep DEF Claim
    <2>2. CASE \E v \in Verifiers : Deliver(v)
      BY <2>2, ReadPrivateBytesStep, LivePublicationPinStep, BeginScreenStep, CallProviderStep,
         ProviderAnswersStep, ReleaseStep, PutPublicArtifactStep, FinishStep, RetryOrHoldStep,
         OpenReviewStep DEF Deliver
    <2>3. CASE Recover
      BY <2>3, EnvironmentStep, RetryPublicationStep, AuthorizeReviewStep DEF Recover
    <2>4. CASE ReconcileReviews \/ Decide
      BY <2>4, EnvironmentStep
    <2>5. CASE Environment
      BY <2>5, EnvironmentStep, CrashStep, DeliveryFailsStep DEF Environment
    <2>6. CASE UNCHANGED vars
      BY <2>6 DEF vars, IInv, TypeOK, JobChecksHold, RefusalStands, BytesFollowRelease, Fits,
                  Owns, Released
    <2> QED BY <2>1, <2>2, <2>3, <2>4, <2>5, <2>6 DEF Next
  <1> QED BY <1>1, <1>2, PTL DEF Spec

-----------------------------------------------------------------------------
(* Every reachable state is well typed: in particular no history of retries  *)
(* and recoveries exceeds the screens and generations of the table.          *)
THEOREM PublicationTypeCorrect == Spec => []TypeOK
  BY InvariantHolds, PTL DEF IInv

(* No statement of the drainer, the owner's recovery or the operators'       *)
(* release is refused by the CHECK constraints of the job table.             *)
THEOREM PublicationChecksHold == Spec => []JobChecksHold
  BY InvariantHolds, PTL DEF IInv

(* A verifier that still has the lease has the screen it was promised.       *)
THEOREM SuccessorBudgetKept == Spec => []SuccessorKeepsBudget
  <1>1. IInv => SuccessorKeepsBudget
    BY DEF IInv, Fits, SuccessorKeepsBudget, Screening
  <1> QED BY <1>1, InvariantHolds, PTL

(* A refusal of the provider is overruled by an operator or not at all.      *)
THEOREM RefusalsStand == Spec => []RefusalStands
  BY InvariantHolds, PTL DEF IInv

(* The verifiers that have paid for a call and have not made it yet. *)
Calling == {v \in Verifiers : task[v].pc = "calling"}

PaidAhead == calls + Cardinality(Calling) <= job.screens

(* A step that neither pays nor calls keeps what is paid ahead. *)
LEMMA NoCallStep ==
    ASSUME TypeOK, PaidAhead, calls' = calls, job'.screens = job.screens, Calling' \subseteq Calling
    PROVE  PaidAhead'
  <1>1. IsFiniteSet(Calling)
    BY FS_Subset DEF Calling
  <1>2. Cardinality(Calling') <= Cardinality(Calling)
    BY <1>1, FS_Subset
  <1>3. Cardinality(Calling) \in Nat /\ Cardinality(Calling') \in Nat
    BY <1>1, FS_Subset, FS_CardinalityType
  <1> QED
    BY <1>2, <1>3 DEF PaidAhead, TypeOK, Jobs

(* The verifier that moves does not come to the point of calling. *)
LEMMA QuietMove ==
    ASSUME IInv, PaidAhead, NEW v \in Verifiers, task'[v].pc # "calling",
           \A w \in Verifiers \ {v} : task'[w] = task[w],
           calls' = calls, job'.screens = job.screens
    PROVE  PaidAhead'
  <1>1. Calling' \subseteq Calling
    BY DEF Calling
  <1> QED BY <1>1, NoCallStep DEF IInv

(* It goes on to another place than the call. *)
LEMMA QuietGo ==
    ASSUME IInv, PaidAhead, NEW v \in Verifiers, NEW pc, Go(v, pc), pc # "calling",
           calls' = calls, job'.screens = job.screens
    PROVE  PaidAhead'
  <1>1. task'[v].pc = pc /\ \A w \in Verifiers \ {v} : task'[w] = task[w]
    BY DEF Go, IInv, TypeOK, Tasks
  <1> QED BY <1>1, QuietMove

(* It stops or fails. *)
LEMMA QuietEnd ==
    ASSUME IInv, PaidAhead, NEW v \in Verifiers,
           Stop(v) \/ \E code, hold, seen : Fail(v, code, hold, seen),
           calls' = calls, job'.screens = job.screens
    PROVE  PaidAhead'
  <1>1. CASE Stop(v)
    BY <1>1, StopTask, QuietMove DEF Idle, IInv
  <1>2. ASSUME NEW code, NEW hold, NEW seen, Fail(v, code, hold, seen) PROVE PaidAhead'
    <2>1. task'[v].pc = "failing" /\ \A w \in Verifiers \ {v} : task'[w] = task[w]
      BY <1>2 DEF Fail, IInv, TypeOK, Tasks
    <2> QED BY <2>1, QuietMove
  <1> QED BY <1>1, <1>2

(* No delivery but the one that pays moves the count of screens. *)
LEMMA ScreensStay ==
    ASSUME IInv, NEW v \in Verifiers,
           \/ ReadPrivateBytes(v) \/ LivePublicationPin(v) \/ ProviderAnswers(v) \/ Release(v)
           \/ PutPublicArtifact(v) \/ Finish(v) \/ RetryOrHold(v) \/ OpenReview(v)
           \/ ClaimHolds(v) \/ ClaimLeases(v) \/ Crash(v) \/ DeliveryFails(v)
    PROVE  calls' = calls /\ job'.screens = job.screens
  <1> USE DEF IInv, TypeOK, Jobs, jobVars
  <1>1. CASE \/ ReadPrivateBytes(v) \/ LivePublicationPin(v) \/ ProviderAnswers(v)
             \/ PutPublicArtifact(v) \/ OpenReview(v) \/ Crash(v) \/ DeliveryFails(v)
    BY <1>1 DEF ReadPrivateBytes, LivePublicationPin, ProviderAnswers, PutPublicArtifact,
                OpenReview, Crash, DeliveryFails
  <1>2. CASE Release(v)
    BY <1>2 DEF Release, Save
  <1>3. CASE Finish(v)
    BY <1>3 DEF Finish, Finished, Save
  <1>4. CASE RetryOrHold(v)
    BY <1>4 DEF RetryOrHold, Save
  <1>5. CASE ClaimHolds(v) \/ ClaimLeases(v)
    BY <1>5 DEF ClaimHolds, ClaimLeases, Save
  <1> QED BY <1>1, <1>2, <1>3, <1>4, <1>5

(* Reserving a screen pays for one more call. *)
LEMMA BeginScreenPays ==
    ASSUME IInv, PaidAhead, NEW v \in Verifiers, BeginScreen(v)
    PROVE  PaidAhead'
  <1>1. CASE MayScreen(v)
    <2>1. job'.screens = job.screens + 1 /\ calls' = calls
      BY <1>1 DEF BeginScreen, Save, IInv, TypeOK, Jobs
    <2>2. Calling' \subseteq Calling \cup {v}
      BY <1>1 DEF BeginScreen, Committed, Go, Fail, Calling, IInv, TypeOK, Tasks
    <2>3. IsFiniteSet(Calling) /\ IsFiniteSet(Calling \cup {v})
      BY FS_Subset, FS_AddElement DEF Calling
    <2>4. Cardinality(Calling') <= Cardinality(Calling) + 1
      BY <2>2, <2>3, FS_Subset, FS_AddElement, FS_CardinalityType
    <2>5. Cardinality(Calling) \in Nat /\ Cardinality(Calling') \in Nat
      BY <2>2, <2>3, FS_Subset, FS_CardinalityType
    <2> QED
      BY <2>1, <2>4, <2>5 DEF PaidAhead, IInv, TypeOK, Jobs
  <1>2. CASE ~MayScreen(v)
    <2>1. Calling' \subseteq Calling
      BY <1>2 DEF BeginScreen, Fail, Calling, IInv, TypeOK, Tasks
    <2> QED
      BY <1>2, <2>1, NoCallStep DEF BeginScreen, jobVars, IInv
  <1> QED BY <1>1, <1>2

(* Calling spends what was paid. *)
LEMMA CallProviderSpends ==
    ASSUME IInv, PaidAhead, NEW v \in Verifiers, CallProvider(v)
    PROVE  PaidAhead'
  <1>1. Calling' = Calling \ {v} /\ v \in Calling
    BY DEF CallProvider, Go, Calling, IInv, TypeOK, Tasks
  <1>2. IsFiniteSet(Calling)
    BY FS_Subset DEF Calling
  <1>3. Cardinality(Calling') = Cardinality(Calling) - 1
    BY <1>1, <1>2, FS_RemoveElement
  <1>4. Cardinality(Calling) \in Nat
    BY <1>2, FS_CardinalityType
  <1> QED
    BY <1>3, <1>4 DEF CallProvider, jobVars, PaidAhead, IInv, TypeOK, Jobs

(* Provider calls are paid for before they are made, so no more of them are  *)
(* ever made than the table allows screens.                                  *)
THEOREM PaidCallsAreBounded == Spec => []PaidCallsBounded
  <1>1. Init => PaidAhead
    <2> SUFFICES ASSUME Init PROVE PaidAhead
      OBVIOUS
    <2>1. Calling = {}
      BY DEF Init, Idle, Calling
    <2> QED BY <2>1, FS_EmptySet DEF Init, PaidAhead
  <1>2. IInv /\ PaidAhead /\ [Next]_vars => PaidAhead'
    <2> SUFFICES ASSUME IInv, PaidAhead, [Next]_vars PROVE PaidAhead'
      OBVIOUS
    <2>1. ASSUME NEW v \in Verifiers, Deliver(v) PROVE PaidAhead'
      <3>1. CASE BeginScreen(v)
        BY <3>1, BeginScreenPays
      <3>2. CASE CallProvider(v)
        BY <3>2, CallProviderSpends
      <3>3. CASE ReadPrivateBytes(v)
        BY <3>3, ScreensStay, QuietGo, QuietEnd DEF ReadPrivateBytes
      <3>4. CASE LivePublicationPin(v) \/ ProviderAnswers(v)
        BY <3>4, ScreensStay, QuietGo, QuietEnd DEF LivePublicationPin, ProviderAnswers
      <3>5. CASE Release(v)
        BY <3>5, ScreensStay, QuietGo, QuietEnd DEF Release, Committed
      <3>6. CASE PutPublicArtifact(v)
        BY <3>6, ScreensStay, QuietGo, QuietEnd DEF PutPublicArtifact, PutOutage
      <3>7. CASE Finish(v) \/ OpenReview(v)
        BY <3>7, ScreensStay, QuietEnd DEF Finish, OpenReview
      <3>8. CASE RetryOrHold(v)
        BY <3>8, ScreensStay, QuietGo, QuietEnd DEF RetryOrHold
      <3> QED BY <2>1, <3>1, <3>2, <3>3, <3>4, <3>5, <3>6, <3>7, <3>8 DEF Deliver
    <2>2. CASE Claim
      <3>1. PICK v \in Verifiers : ClaimHolds(v) \/ ClaimLeases(v)
        BY <2>2 DEF Claim
      <3>2. CASE ClaimHolds(v)
        BY <3>2, ScreensStay, NoCallStep DEF ClaimHolds, Calling, IInv
      <3>3. CASE ClaimLeases(v)
        <4>1. task'[v].pc # "calling" /\ \A w \in Verifiers \ {v} : task'[w] = task[w]
          BY <3>3 DEF ClaimLeases, IInv, TypeOK, Tasks
        <4> QED BY <3>3, <4>1, ScreensStay, QuietMove
      <3> QED BY <3>1, <3>2, <3>3
    <2>3. CASE Recover
      BY <2>3, NoCallStep
         DEF Recover, AskRecovery, RetryPublication, Requeued, AuthorizeReview, Save, Calling,
             jobVars, IInv, TypeOK, Jobs
    <2>4. CASE ReconcileReviews \/ Decide
      BY <2>4, NoCallStep DEF ReconcileReviews, Decide, Calling, jobVars, IInv
    <2>5. CASE LeaseLapses \/ BackoffEnds \/ LatePutLands \/ VisibilityChanges
      BY <2>5, NoCallStep
         DEF LeaseLapses, BackoffEnds, LatePutLands, VisibilityChanges, Calling, jobVars, IInv,
             TypeOK, Jobs
    <2>6. CASE \E v \in Verifiers : Crash(v) \/ DeliveryFails(v)
      BY <2>6, ScreensStay, QuietEnd DEF Crash, DeliveryFails
    <2>7. CASE UNCHANGED vars
      BY <2>7, NoCallStep DEF vars, Calling, IInv
    <2> QED BY <2>1, <2>2, <2>3, <2>4, <2>5, <2>6, <2>7 DEF Next, Environment
  <1>3. IInv /\ PaidAhead => PaidCallsBounded
    <2> SUFFICES ASSUME IInv, PaidAhead PROVE PaidCallsBounded
      OBVIOUS
    <2>1. Cardinality(Calling) \in Nat
      BY FS_Subset, FS_CardinalityType DEF Calling
    <2> QED BY <2>1 DEF PaidAhead, PaidCallsBounded, IInv, TypeOK, Jobs
  <1> QED BY <1>1, <1>2, <1>3, InvariantHolds, PTL DEF Spec

(* The deliveries, recoveries and reviews implement the release boundary:    *)
(* bytes are private until a release, and a release is never taken back.     *)
THEOREM PublicationImplementsBoundary == Spec => ImplementsReleaseBoundary
  <1>1. Init => Boundary!Init
    BY DEF Init, Boundary!Init, Stage
  <1>2. IInv /\ IInv' /\ [Next]_vars => [Boundary!Next]_(Boundary!vars)
    <2> SUFFICES ASSUME IInv, IInv', [Next]_vars
                 PROVE  Boundary!Next \/ UNCHANGED <<Stage, public>>
      BY DEF Boundary!vars
    <2> USE DEF Boundary!Next, Boundary!Authorize, Boundary!Expose, Boundary!Deliver
    <2>1. CASE job'.state = job.state /\ UNCHANGED public
      BY <2>1 DEF Stage
    <2>2. CASE Claim
      BY <2>2 DEF Claim, ClaimHolds, ClaimLeases, Exhausted, Save, Stage, bucketVars, IInv,
                  TypeOK, Jobs
    <2>3. ASSUME NEW v \in Verifiers, Deliver(v)
          PROVE  Boundary!Next \/ UNCHANGED <<Stage, public>>
      <3>1. CASE BeginScreen(v)
        BY <3>1 DEF BeginScreen, Save, Stage, jobVars, bucketVars, IInv, TypeOK, Jobs
      <3>2. CASE Release(v)
        BY <3>2 DEF Release, MayRelease, Save, Stage, jobVars, bucketVars, IInv, TypeOK, Jobs
      <3>3. CASE PutPublicArtifact(v)
        BY <3>3 DEF PutPublicArtifact, PutOutage, Fits, Stage, Released, jobVars, bucketVars,
                    IInv
      <3>4. CASE Finish(v)
        BY <3>4 DEF Finish, Finished, Fits, Save, Stage, jobVars, bucketVars, IInv, TypeOK, Jobs
      <3>5. CASE RetryOrHold(v)
        BY <3>5 DEF RetryOrHold, Holds, Save, Stage, jobVars, bucketVars, IInv, TypeOK, Jobs
      <3>6. CASE \/ ReadPrivateBytes(v) \/ LivePublicationPin(v) \/ CallProvider(v)
                 \/ ProviderAnswers(v) \/ OpenReview(v)
        BY <3>6, <2>1 DEF ReadPrivateBytes, LivePublicationPin, CallProvider, ProviderAnswers,
                          OpenReview, jobVars, bucketVars
      <3> QED BY <2>3, <3>1, <3>2, <3>3, <3>4, <3>5, <3>6 DEF Deliver
    <2>4. ASSUME NEW r \in Requests, AskRecovery(r) \/ RetryPublication(r) \/ AuthorizeReview(r)
          PROVE  Boundary!Next \/ UNCHANGED <<Stage, public>>
      BY <2>4 DEF AskRecovery, RetryPublication, Recoverable, Requeued, AuthorizeReview, Approved,
                  Save, Stage, jobVars, bucketVars, IInv, TypeOK, Jobs
    <2>5. CASE ReconcileReviews \/ Decide
      BY <2>5, <2>1 DEF ReconcileReviews, Decide, jobVars, bucketVars
    <2>6. CASE LatePutLands
      BY <2>6 DEF LatePutLands, BytesFollowRelease, Stage, Released, jobVars, IInv
    <2>7. CASE LeaseLapses \/ BackoffEnds \/ VisibilityChanges
      BY <2>7, <2>1 DEF LeaseLapses, BackoffEnds, VisibilityChanges, jobVars, bucketVars, IInv,
                        TypeOK, Jobs
    <2>8. ASSUME NEW v \in Verifiers, Crash(v) \/ DeliveryFails(v)
          PROVE  Boundary!Next \/ UNCHANGED <<Stage, public>>
      BY <2>8, <2>1 DEF Crash, DeliveryFails, jobVars, bucketVars
    <2>9. CASE UNCHANGED vars
      BY <2>9, <2>1 DEF vars
    <2> QED
      BY <2>2, <2>3, <2>4, <2>5, <2>6, <2>7, <2>8, <2>9 DEF Next, Recover, Environment
  <1> QED BY <1>1, <1>2, InvariantHolds, PTL DEF Spec, ImplementsReleaseBoundary, Boundary!Spec

-----------------------------------------------------------------------------
(* How the job moves *)

(* A statement that takes the job from one state to another, with its audit. *)
Moves(from, to) ==
    /\ job.state = from /\ job'.state = to
    /\ audit' = audit \cup {<<job'.generation, to>>}

Rests ==
    /\ job'.state = job.state /\ job'.generation = job.generation /\ job'.receipt = job.receipt
    /\ audit' = audit

Hold == Moves("queued", "held") /\ job'.generation = job.generation /\ job'.receipt = job.receipt
Publication ==
    /\ Moves("release-authorized", "published")
    /\ job'.generation = job.generation /\ job'.receipt = job.receipt
Requeue ==
    /\ Moves("held", "queued")
    /\ job'.generation = job.generation + 1 /\ job'.receipt = job.receipt

(* The two authorities a release may have, as they are when it commits. *)
PolicyRelease ==
    /\ Moves("queued", "release-authorized")
    /\ job'.generation = job.generation /\ job'.receipt = "policy"
    /\ pinned /\ job.live /\ task[job.lease].pc = "releasing"
ReviewRelease ==
    /\ Moves("held", "release-authorized")
    /\ job'.generation = job.generation /\ job'.receipt = "review"
    /\ pinned /\ review = "approved"

(* No other move of the job exists, whoever makes it. *)
LEMMA JobMoves ==
    ASSUME IInv, [Next]_vars
    PROVE  Rests \/ Hold \/ Publication \/ Requeue \/ PolicyRelease \/ ReviewRelease
  <1> USE DEF Rests, Hold, Publication, Requeue, PolicyRelease, ReviewRelease, Moves
  <1>1. job \in Jobs
    BY DEF IInv, TypeOK
  <1>2. UNCHANGED jobVars => Rests
    BY DEF jobVars
  <1>3. CASE Claim
    BY <1>1, <1>3 DEF Claim, ClaimHolds, ClaimLeases, Claimable, Exhausted, Save, Jobs
  <1>4. ASSUME NEW v \in Verifiers, Deliver(v)
        PROVE  Rests \/ Hold \/ Publication \/ PolicyRelease
    <2>1. CASE BeginScreen(v)
      BY <1>1, <1>2, <2>1 DEF BeginScreen, Save, Jobs
    <2>2. CASE Release(v)
      BY <1>1, <1>2, <2>2 DEF Release, MayRelease, Owns, Save, Jobs
    <2>3. CASE Finish(v)
      BY <1>1, <1>2, <2>3 DEF Finish, Finished, Save, Jobs
    <2>4. CASE RetryOrHold(v)
      BY <1>1, <1>2, <2>4 DEF RetryOrHold, Holds, Save, Jobs
    <2>5. CASE \/ ReadPrivateBytes(v) \/ LivePublicationPin(v) \/ CallProvider(v)
               \/ ProviderAnswers(v) \/ PutPublicArtifact(v) \/ OpenReview(v)
      BY <1>2, <2>5 DEF ReadPrivateBytes, LivePublicationPin, CallProvider, ProviderAnswers,
                        PutPublicArtifact, OpenReview
    <2> QED
      BY <1>4, <2>1, <2>2, <2>3, <2>4, <2>5 DEF Deliver
  <1>5. ASSUME NEW r \in Requests, AskRecovery(r) \/ RetryPublication(r) \/ AuthorizeReview(r)
        PROVE  Rests \/ Requeue \/ ReviewRelease
    BY <1>1, <1>2, <1>5 DEF AskRecovery, RetryPublication, Recoverable, Requeued, AuthorizeReview,
                            Approved, Save, Jobs
  <1>6. CASE ReconcileReviews \/ Decide \/ UNCHANGED vars
    BY <1>2, <1>6 DEF ReconcileReviews, Decide, vars, jobVars
  <1>7. CASE Environment
    BY <1>1, <1>2, <1>7 DEF Environment, LeaseLapses, BackoffEnds, LatePutLands,
                            VisibilityChanges, Crash, DeliveryFails, Jobs
  <1> QED
    BY <1>3, <1>4, <1>5, <1>6, <1>7 DEF Next, Recover

(* The states a job may have been in when it reaches a state within one      *)
(* generation.                                                               *)
Passed(state) ==
    CASE state = "queued" -> {"queued"}
      [] state = "held" -> {"queued", "held"}
      [] state = "release-authorized" -> States \ {"published"}
      [] state = "published" -> States

AuditBehind ==
    \A entry \in audit :
        /\ entry[1] <= job.generation
        /\ entry[1] = job.generation => entry[2] \in Passed(job.state)

(* No state is entered twice in one generation, so the unique index of the   *)
(* audit never refuses a transition: a recovery always begins a new one.     *)
THEOREM AuditStaysFresh == Spec => AuditIsFresh
  <1>1. Init => AuditBehind
    BY DEF Init, AuditBehind, Passed
  <1>2. ASSUME IInv, AuditBehind, [Next]_vars
        PROVE  /\ AuditBehind'
               /\ job'.state # job.state => <<job'.generation, job'.state>> \notin audit
    <2>1. /\ job.generation \in Nat /\ job.state \in States
          /\ \A entry \in audit : entry[1] \in Nat
      BY <1>2 DEF IInv, TypeOK, Jobs
    <2>2. CASE Rests
      BY <1>2, <2>2 DEF AuditBehind, Rests
    <2>3. ASSUME NEW from, NEW to, Moves(from, to), job'.generation = job.generation,
                 Passed(from) \subseteq Passed(to), to \in Passed(to) \ Passed(from)
          PROVE  /\ AuditBehind'
                 /\ <<job'.generation, job'.state>> \notin audit
      BY <1>2, <2>1, <2>3 DEF AuditBehind, Moves
    <2>4. CASE Requeue
      <3>1. \A entry \in audit : entry[1] < job'.generation
        BY <1>2, <2>1, <2>4 DEF AuditBehind, Requeue
      <3>2. "queued" \in Passed("queued")
        BY DEF Passed
      <3> QED
        BY <1>2, <2>1, <2>4, <3>1, <3>2 DEF AuditBehind, Requeue, Moves
    <2>5. /\ Passed("queued") = {"queued"} /\ Passed("held") = {"queued", "held"}
          /\ Passed("release-authorized") = {"queued", "held", "release-authorized"}
          /\ Passed("published") = {"queued", "held", "release-authorized", "published"}
      BY DEF Passed, States
    <2>6. CASE Hold \/ Publication \/ PolicyRelease \/ ReviewRelease
      BY <2>3, <2>5, <2>6 DEF Hold, Publication, PolicyRelease, ReviewRelease
    <2> QED
      BY <1>2, <2>2, <2>4, <2>6, JobMoves DEF Rests
  <1>3. IInv /\ AuditBehind /\ [Next]_vars =>
            [job'.state # job.state => <<job'.generation, job'.state>> \notin audit]_vars
    BY <1>2
  <1> QED
    BY <1>1, <1>2, <1>3, InvariantHolds, PTL DEF Spec, AuditIsFresh

(* A release finds its sources visible, and its authority in force, in the   *)
(* statement that commits it: the policy's by the verifier that has screened *)
(* and still has the lease, the review's while it is approved.               *)
THEOREM ReleasesAreCurrent == Spec => ReleaseIsCurrent
  <1>1. IInv /\ [Next]_vars =>
          [job.receipt = "none" /\ job'.receipt # "none" =>
              /\ pinned
              /\ job'.receipt = "policy" => job.live /\ task[job.lease].pc = "releasing"
              /\ job'.receipt = "review" => review = "approved"]_vars
    BY JobMoves DEF Rests, Hold, Publication, Requeue, PolicyRelease, ReviewRelease
  <1> QED
    BY <1>1, InvariantHolds, PTL DEF Spec, ReleaseIsCurrent
=============================================================================
