------------------------------ MODULE VideoJobs ------------------------------
(***************************************************************************)
(* The video jobs of one user: VideoEditService.createJob, the queue's     *)
(* worker (VideoEditProcessor) and the webhook of the provider that        *)
(* recovers a job whose polling timed out (VideoEditWebhookService), with  *)
(* the wallet they are paid from.                                          *)
(*                                                                         *)
(* A job is checked and created in one transaction under the row lock of   *)
(* the wallet.  Everything else is a row of statements, each its own step: *)
(* a process may die, or a statement fail, between any two of them.        *)
(***************************************************************************)
EXTENDS Integers, FiniteSets

CONSTANTS
    Jobs,          \* the jobs the user will ever create
    Recoverable,   \* those of VEO and RUNWAY, the models with a webhook
    Calls,         \* webhook requests at a time
    MaxConcurrent, \* maxConcurrentJobsPerUser
    DayLimit,      \* maxJobsPerDayPerUser
    MinBalance,    \* what MIN_VIDEO_BALANCE_USD is worth
    Estimate,      \* calcFlatCostToman of a job's model and duration
    Costs,         \* what debitWallet takes for a job, markup and rounding in
    MaxCost,       \* the dearest of them
    StartBalances,
    OtherUses,     \* what the rest of the application takes from the wallet
    MaxSpent,      \* bound: on the sum of these
    MaxMishaps,    \* bound: on deaths and failed statements of a job
    MaxLate,       \* bound: no recovery begins after so many, mishaps included
    NoJob

ASSUME VideoAssumption ==
    /\ IsFiniteSet(Jobs) /\ IsFiniteSet(Calls)
    /\ Recoverable \subseteq Jobs
    /\ NoJob \notin Jobs
    /\ MaxConcurrent \in Nat /\ DayLimit \in Nat
    /\ MinBalance \in Nat /\ MaxCost \in Nat
    /\ Estimate \in [Jobs -> 0..MaxCost]
    /\ Costs \subseteq 0..MaxCost
    /\ StartBalances \subseteq Nat
    /\ OtherUses \subseteq Nat \ {0}
    /\ MaxSpent \in Nat /\ MaxMishaps \in Nat /\ MaxLate \in Nat

VARIABLES
    status,   \* videoEditJob.status; NONE: there is no row yet
    result,   \* whether resultVideoKey is set
    task,     \* whether kieTaskId is set
    provider, \* what became of the task last submitted
    bull,     \* the job in the queue
    stalled,  \* whether the queue has handed the job out again
    worker,   \* where the run of a job is
    at,       \* where a webhook request is
    of,       \* the job it recovers
    wallet,   \* wallet.balanceToman
    recent,   \* jobs created in the last 24 hours
    debits,   \* history: how often a job was paid
    mishaps,  \* history: deaths and failed statements of a job
    late,     \* history: recoveries and mishaps of all jobs
    newest,   \* history: the estimate of the job created last
    excess,   \* history: what debits took above the newest estimate
    spent     \* history: what the rest of the application took

job == <<status, result>>
queue == <<bull, stalled>>
made == <<recent, newest>>
money == <<wallet, debits, excess>>
faults == <<mishaps, late>>
vars == <<status, result, task, provider, bull, stalled, worker, at, of,
          wallet, recent, debits, mishaps, late, newest, excess, spent>>

Statuses == {"NONE", "PENDING", "PROCESSING", "SUCCEEDED", "FAILED"}
RunPlaces == {"none", "submit", "save", "poll", "download", "debit", "finish",
              "notify", "giveUp", "leave"}
CallPlaces == {"idle", "debit", "finish", "notify", "giveUp"}

Active == {j \in Jobs : status[j] \in {"PENDING", "PROCESSING"}}

Init ==
    /\ status = [j \in Jobs |-> "NONE"]
    /\ result = [j \in Jobs |-> FALSE]
    /\ task = [j \in Jobs |-> FALSE]
    /\ provider = [j \in Jobs |-> "none"]
    /\ bull = [j \in Jobs |-> "none"]
    /\ stalled = [j \in Jobs |-> FALSE]
    /\ worker = [j \in Jobs |-> "none"]
    /\ at = [h \in Calls |-> "idle"]
    /\ of = [h \in Calls |-> NoJob]
    /\ wallet \in StartBalances
    /\ recent = {}
    /\ debits = [j \in Jobs |-> 0]
    /\ mishaps = [j \in Jobs |-> 0]
    /\ late = 0
    /\ newest = 0
    /\ excess = 0
    /\ spent = 0

SetStatus(j, to) == status' = [status EXCEPT ![j] = to]

\* A death, or a statement that fails.
Mishap(j) ==
    /\ mishaps[j] < MaxMishaps
    /\ mishaps' = [mishaps EXCEPT ![j] = @ + 1]
    /\ late' = late + 1

\* A provider without a webhook may have reported no cost, which counts as
\* nought; the cost of the others is computed from the model.
CostsOf(j) == IF j \in Recoverable THEN Costs ELSE Costs \cup {0}

Above(cost) == IF cost > newest THEN cost - newest ELSE 0

\* debitWallet refuses nothing: a balance too small goes below zero.
Pays(j) ==
    /\ \E cost \in CostsOf(j) :
        /\ wallet' = wallet - cost
        /\ excess' = excess + Above(cost)
    /\ debits' = [debits EXCEPT ![j] = @ + 1]

-----------------------------------------------------------------------------
(* createJob *)

\* What is left of the balance when every job in progress costs as much as
\* the new one is estimated to.
AvailableUnreserved(j) == wallet

Available(j) == wallet - Cardinality(Active) * Estimate[j]

CreateJob(j) ==
    /\ status[j] = "NONE"
    /\ Cardinality(Active) < MaxConcurrent
    /\ Cardinality(recent) < DayLimit
    /\ Available(j) >= MinBalance
    /\ Available(j) >= Estimate[j]
    /\ SetStatus(j, "PENDING")
    /\ recent' = recent \cup {j}
    /\ newest' = Estimate[j]
    /\ bull' = [bull EXCEPT ![j] = "adding"]
    /\ UNCHANGED <<result, task, provider, stalled, worker, at, of, money,
                   faults, spent>>

\* queue.add, after the commit.
Enqueue(j) ==
    /\ bull[j] = "adding"
    /\ bull' = [bull EXCEPT ![j] = "waiting"]
    /\ UNCHANGED <<job, task, provider, stalled, worker, at, of, money,
                   made, faults, spent>>

EnqueueFails(j) ==
    /\ bull[j] = "adding"
    /\ Mishap(j)
    /\ bull' = [bull EXCEPT ![j] = "gone"]
    /\ UNCHANGED <<job, task, provider, stalled, worker, at, of, money,
                   made, spent>>

Ages(j) ==
    /\ j \in recent
    /\ recent' = recent \ {j}
    /\ UNCHANGED <<job, task, provider, queue, worker, at, of, money, faults,
                   newest, spent>>

-----------------------------------------------------------------------------
(* The worker: handleRender *)

Runs(j, from, to) == worker[j] = from /\ worker' = [worker EXCEPT ![j] = to]

\* The status is not looked at; a saved task is polled, not submitted again.
Begin(j) ==
    /\ bull[j] = "waiting"
    /\ Runs(j, "none", IF task[j] THEN "poll" ELSE "submit")
    /\ bull' = [bull EXCEPT ![j] = "active"]
    /\ SetStatus(j, "PROCESSING")
    /\ UNCHANGED <<result, task, provider, stalled, at, of, money, made,
                   faults, spent>>

\* The statements before the try: the queue gives the job up (attempts: 1).
BeginFails(j) ==
    /\ bull[j] = "waiting"
    /\ Mishap(j)
    /\ bull' = [bull EXCEPT ![j] = "gone"]
    /\ UNCHANGED <<job, task, provider, stalled, worker, at, of, money,
                   made, spent>>

Submit(j) ==
    /\ Runs(j, "submit", "save")
    /\ provider' = [provider EXCEPT ![j] = "running"]
    /\ UNCHANGED <<job, task, queue, at, of, money, made, faults, spent>>

SaveTask(j) ==
    /\ Runs(j, "save", "poll")
    /\ task' = [task EXCEPT ![j] = TRUE]
    /\ UNCHANGED <<job, provider, queue, at, of, money, made, faults, spent>>

PollSucceeds(j) ==
    /\ provider[j] = "done"
    /\ Runs(j, "poll", "download")
    /\ UNCHANGED <<job, task, provider, queue, at, of, money, made, faults,
                   spent>>

Download(j) ==
    /\ Runs(j, "download", "debit")
    /\ UNCHANGED <<job, task, provider, queue, at, of, money, made, faults,
                   spent>>

DebitWallet(j) ==
    /\ Runs(j, "debit", "finish")
    /\ Pays(j)
    /\ UNCHANGED <<job, task, provider, queue, at, of, made, faults, spent>>

Finish(j) ==
    /\ Runs(j, "finish", "notify")
    /\ SetStatus(j, "SUCCEEDED")
    /\ result' = [result EXCEPT ![j] = TRUE]
    /\ UNCHANGED <<task, provider, queue, at, of, money, made, faults, spent>>

\* The provider refused or reports a failure, polling timed out, or anything
\* else was thrown in the try, the notification after the success included.
Throws(j) ==
    /\ \/ \E from \in {"submit", "save", "poll", "download", "debit", "notify"} :
            /\ Runs(j, from, "giveUp")
            /\ UNCHANGED faults
       \/ /\ Runs(j, "finish", "giveUp")
          /\ Mishap(j)
    /\ UNCHANGED <<job, task, provider, queue, at, of, money, made, spent>>

GiveUpForgetful(j) ==
    /\ Runs(j, "giveUp", "leave")
    /\ SetStatus(j, "FAILED")
    /\ result' = [result EXCEPT ![j] = FALSE]
    /\ UNCHANGED <<task, provider, queue, at, of, money, made, faults,
                   spent>>

GiveUpSilently(j) ==
    /\ Runs(j, "giveUp", "leave")
    /\ UNCHANGED <<job, task, provider, queue, at, of, money, made,
                   faults, spent>>

GiveUp(j) ==
    /\ Runs(j, "giveUp", "leave")
    /\ SetStatus(j, "FAILED")
    /\ UNCHANGED <<result, task, provider, queue, at, of, money, made,
                   faults, spent>>

Leave(j) ==
    /\ worker[j] \in {"notify", "leave"}
    /\ worker' = [worker EXCEPT ![j] = "none"]
    /\ bull' = [bull EXCEPT ![j] = "gone"]
    /\ UNCHANGED <<job, task, provider, stalled, at, of, money, made,
                   faults, spent>>

\* The process dies.  The queue hands the job out once more, not twice.
WorkerDies(j) ==
    /\ worker[j] # "none"
    /\ Mishap(j)
    /\ worker' = [worker EXCEPT ![j] = "none"]
    /\ bull' = [bull EXCEPT ![j] = IF stalled[j] THEN "gone" ELSE "waiting"]
    /\ stalled' = [stalled EXCEPT ![j] = TRUE]
    /\ UNCHANGED <<job, task, provider, at, of, money, made, spent>>

ProviderSettles(j) ==
    /\ provider[j] = "running"
    /\ \E outcome \in {"done", "failed"} :
        provider' = [provider EXCEPT ![j] = outcome]
    /\ UNCHANGED <<job, task, queue, worker, at, of, money, made, faults,
                   spent>>

-----------------------------------------------------------------------------
(* The webhook.  What handleKieCallback reads, recoverSuccess asks again in *)
(* the update that claims the job; only that is a step.                    *)

ClaimableAnyhow(j) == status[j] = "FAILED"

Claimable(j) == status[j] = "FAILED" /\ ~ result[j]

Recover(h, j) ==
    /\ at[h] = "idle"
    /\ late < MaxLate
    /\ j \in Recoverable /\ task[j] /\ provider[j] = "done"
    /\ Claimable(j)
    /\ SetStatus(j, "PROCESSING")
    /\ at' = [at EXCEPT ![h] = "debit"]
    /\ of' = [of EXCEPT ![h] = j]
    /\ late' = late + 1
    /\ UNCHANGED <<result, task, provider, queue, worker, money, made,
                   mishaps, spent>>

RecoveryDebits(h) ==
    /\ at[h] = "debit"
    /\ at' = [at EXCEPT ![h] = "finish"]
    /\ Pays(of[h])
    /\ UNCHANGED <<job, task, provider, queue, worker, of, made, faults,
                   spent>>

RecoveryFinishes(h) ==
    /\ at[h] = "finish"
    /\ at' = [at EXCEPT ![h] = "notify"]
    /\ SetStatus(of[h], "SUCCEEDED")
    /\ result' = [result EXCEPT ![of[h]] = TRUE]
    /\ UNCHANGED <<task, provider, queue, worker, of, money, made, faults,
                   spent>>

RecoveryThrows(h) ==
    /\ \/ at[h] \in {"debit", "notify"} /\ UNCHANGED faults
       \/ at[h] = "finish" /\ Mishap(of[h])
    /\ at' = [at EXCEPT ![h] = "giveUp"]
    /\ UNCHANGED <<job, task, provider, queue, worker, of, money, made,
                   spent>>

EndsCallHalfway(h) == of' = [of EXCEPT ![h] = NoJob] /\ at' = at

EndsCall(h) ==
    /\ at' = [at EXCEPT ![h] = "idle"]
    /\ of' = [of EXCEPT ![h] = NoJob]

RecoveryGivesUp(h) ==
    /\ at[h] = "giveUp"
    /\ SetStatus(of[h], "FAILED")
    /\ EndsCall(h)
    /\ UNCHANGED <<result, task, provider, queue, worker, money, made,
                   faults, spent>>

RecoveryLeaves(h) ==
    /\ at[h] = "notify"
    /\ EndsCall(h)
    /\ UNCHANGED <<job, task, provider, queue, worker, money, made, faults,
                   spent>>

RecoveryDies(h) ==
    /\ at[h] # "idle"
    /\ Mishap(of[h])
    /\ EndsCall(h)
    /\ UNCHANGED <<job, task, provider, queue, worker, money, made, spent>>

-----------------------------------------------------------------------------

OtherUse ==
    /\ \E a \in OtherUses :
        /\ spent + a <= MaxSpent
        /\ wallet' = wallet - a
        /\ spent' = spent + a
    /\ UNCHANGED <<job, task, provider, queue, worker, at, of, made, debits,
                   excess, faults>>

RunStep(j) ==
    \/ Begin(j) \/ Submit(j) \/ SaveTask(j) \/ PollSucceeds(j) \/ Download(j)
    \/ DebitWallet(j) \/ Finish(j) \/ Throws(j) \/ GiveUp(j) \/ Leave(j)

CallStep(h) ==
    \/ RecoveryDebits(h) \/ RecoveryFinishes(h) \/ RecoveryThrows(h)
    \/ RecoveryGivesUp(h) \/ RecoveryLeaves(h)

Next ==
    \/ \E j \in Jobs :
        \/ CreateJob(j) \/ Enqueue(j) \/ EnqueueFails(j) \/ Ages(j)
        \/ RunStep(j) \/ BeginFails(j) \/ WorkerDies(j) \/ ProviderSettles(j)
        \/ \E h \in Calls : Recover(h, j)
    \/ \E h \in Calls : CallStep(h) \/ RecoveryDies(h)
    \/ OtherUse

\* A process that runs a statement comes to its end; a run polls a bounded
\* number of times and then throws.  Nothing makes a webhook come, or a
\* provider answer.
Fairness ==
    /\ \A j \in Jobs : WF_vars(Enqueue(j)) /\ WF_vars(RunStep(j))
    /\ \A h \in Calls : WF_vars(CallStep(h))

Spec == Init /\ [][Next]_vars

FairSpec == Spec /\ Fairness

-----------------------------------------------------------------------------

TypeOK ==
    /\ status \in [Jobs -> Statuses]
    /\ result \in [Jobs -> BOOLEAN]
    /\ task \in [Jobs -> BOOLEAN]
    /\ provider \in [Jobs -> {"none", "running", "done", "failed"}]
    /\ bull \in [Jobs -> {"none", "adding", "waiting", "active", "gone"}]
    /\ stalled \in [Jobs -> BOOLEAN]
    /\ worker \in [Jobs -> RunPlaces]
    /\ at \in [Calls -> CallPlaces]
    /\ of \in [Calls -> Jobs \cup {NoJob}]
    /\ \A h \in Calls : at[h] # "idle" => of[h] \in Jobs
    /\ wallet \in Int
    /\ recent \subseteq Jobs
    /\ debits \in [Jobs -> Nat]
    /\ mishaps \in [Jobs -> Nat]
    /\ late \in Nat /\ newest \in 0..MaxCost /\ excess \in Nat /\ spent \in Nat

\* The worker, a run of the same job after a restart and any number of webhook
\* requests together pay a job once, and once more for each time a process died
\* or a statement failed (video-edit-webhook.service.ts 186-218,
\* video-edit.processor.ts 428-434).
PaidOnceButForMishaps == \A j \in Jobs : debits[j] <= 1 + mishaps[j]

Debited(j) ==
    \/ worker[j] = "finish"
    \/ \E h \in Calls : of[h] = j /\ at[h] = "finish"

\* Nobody pays for a video that is lost again: unless a process died or a
\* statement failed, a job that was paid has its video as soon as whoever
\* debited it has gone on, whatever is thrown after that and whoever gives the
\* job up (video-edit.processor.ts 648-717, video-edit-webhook.service.ts
\* 239-286).
PaidIsDelivered ==
    \A j \in Jobs :
        debits[j] > 0 /\ ~ Debited(j) => result[j] \/ mishaps[j] > 0

\* What the check under the row lock (video-edit.service.ts 382-444) is worth.
\* It counts every job in progress at the estimate of the new one: those jobs
\* are covered at that estimate, not at their own.  Video jobs overdraw a wallet
\* by no more than what their costs exceed the newest estimate by, by jobs
\* revived after they were given up, and by what was paid twice after a mishap.
OverdraftBounded == wallet + spent + excess + late * MaxCost >= 0

\* A job comes to an end unless something dies or fails: no run and no recovery
\* leaves it in progress.
JobSettles ==
    \A j \in Jobs :
        status[j] \in {"PENDING", "PROCESSING"}
            ~> status[j] \in {"SUCCEEDED", "FAILED"} \/ mishaps[j] > 0

=============================================================================
