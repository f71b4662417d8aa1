--------------------------- MODULE VideoJobsProofs ---------------------------
(***************************************************************************)
(* Proofs about VideoJobs, for any number of jobs and of webhook requests, *)
(* any prices and any number of mishaps: types, a job paid once, a video   *)
(* that is not lost once paid, a wallet overdrawn only within bounds.      *)
(***************************************************************************)
EXTENDS VideoJobs, FiniteSetTheorems, TLAPS

-----------------------------------------------------------------------------
(* Types.                                                                  *)

Bulls == {"none", "adding", "waiting", "active", "gone"}

Outcomes == {"none", "running", "done", "failed"}

RowsOK == status \in [Jobs -> Statuses] /\ result \in [Jobs -> BOOLEAN]

RunsOK ==
    /\ task \in [Jobs -> BOOLEAN]
    /\ provider \in [Jobs -> Outcomes]
    /\ bull \in [Jobs -> Bulls]
    /\ stalled \in [Jobs -> BOOLEAN]
    /\ worker \in [Jobs -> RunPlaces]

CallsOK ==
    /\ at \in [Calls -> CallPlaces]
    /\ of \in [Calls -> Jobs \cup {NoJob}]
    /\ \A h \in Calls : at[h] # "idle" => of[h] \in Jobs

CountsOK ==
    /\ wallet \in Int
    /\ debits \in [Jobs -> Nat]
    /\ mishaps \in [Jobs -> Nat]
    /\ late \in Nat /\ excess \in Nat /\ spent \in Nat

MadeOK == recent \subseteq Jobs /\ newest \in 0..MaxCost

LEMMA TypeParts ==
    TypeOK <=> RowsOK /\ RunsOK /\ CallsOK /\ CountsOK /\ MadeOK
  BY DEF TypeOK, RowsOK, RunsOK, CallsOK, CountsOK, MadeOK, Bulls, Outcomes

LEMMA MishapTypes ==
    ASSUME CountsOK, NEW j \in Jobs, Mishap(j)
    PROVE  mishaps' \in [Jobs -> Nat] /\ late' \in Nat
  BY DEF CountsOK, Mishap

LEMMA PaysTypes ==
    ASSUME CountsOK, MadeOK, NEW j \in Jobs, Pays(j)
    PROVE  wallet' \in Int /\ debits' \in [Jobs -> Nat] /\ excess' \in Nat
  BY VideoAssumption DEF CountsOK, MadeOK, Pays, CostsOf, Above

LEMMA JobTypes ==
    ASSUME TypeOK, NEW j \in Jobs,
           \/ CreateJob(j) \/ Enqueue(j) \/ EnqueueFails(j) \/ Ages(j)
           \/ BeginFails(j) \/ WorkerDies(j) \/ ProviderSettles(j)
    PROVE  TypeOK'
  <1> USE DEF MadeOK, made, RowsOK, RunsOK, CallsOK, Statuses, Bulls, Outcomes, RunPlaces
  <1>0. RowsOK /\ RunsOK /\ CallsOK /\ CountsOK /\ MadeOK
    BY TypeParts
  <1>1. RowsOK' /\ RunsOK' /\ CallsOK' /\ MadeOK'
    <2>1. CASE CreateJob(j)
      BY <1>0, <2>1, VideoAssumption DEF CreateJob, SetStatus
    <2>2. CASE Enqueue(j) \/ EnqueueFails(j) \/ BeginFails(j) \/ Ages(j)
      BY <1>0, <2>2 DEF Enqueue, EnqueueFails, BeginFails, Ages, job, queue
    <2>3. CASE WorkerDies(j)
      BY <1>0, <2>3 DEF WorkerDies, job
    <2>4. CASE ProviderSettles(j)
      BY <1>0, <2>4 DEF ProviderSettles, job, queue
    <2> QED  BY <2>1, <2>2, <2>3, <2>4
  <1>2. UNCHANGED <<money, spent>>
    BY DEF CreateJob, Enqueue, EnqueueFails, Ages, BeginFails, WorkerDies,
       ProviderSettles
  <1>3. mishaps' \in [Jobs -> Nat] /\ late' \in Nat
    <2>1. Mishap(j) \/ UNCHANGED faults
      BY DEF CreateJob, Enqueue, EnqueueFails, Ages, BeginFails, WorkerDies,
         ProviderSettles
    <2> QED  BY <1>0, <2>1, MishapTypes DEF faults, CountsOK
  <1>4. CountsOK'
    BY <1>0, <1>2, <1>3 DEF CountsOK, money
  <1> QED  BY <1>1, <1>4, VideoAssumption DEF TypeOK, CountsOK

LEMMA RunTypes ==
    ASSUME TypeOK, NEW j \in Jobs, RunStep(j)
    PROVE  TypeOK'
  <1> USE DEF MadeOK, made, RowsOK, RunsOK, CallsOK, Statuses, Bulls, Outcomes, RunPlaces
  <1>0. RowsOK /\ RunsOK /\ CallsOK /\ CountsOK /\ MadeOK
    BY TypeParts
  <1>1. CASE \/ Begin(j) \/ Submit(j) \/ SaveTask(j) \/ PollSucceeds(j)
             \/ Download(j) \/ Finish(j) \/ GiveUp(j) \/ Leave(j)
    <2>1. RowsOK' /\ RunsOK' /\ CallsOK' /\ MadeOK'
      <3>1. CASE Begin(j)
        BY <1>0, <3>1 DEF Begin, Runs, SetStatus
      <3>4. CASE Finish(j)
        BY <1>0, <3>4 DEF Finish, Runs, SetStatus, queue
      <3>5. CASE GiveUp(j)
        BY <1>0, <3>5 DEF GiveUp, Runs, SetStatus, queue
      <3>2. CASE Submit(j) \/ SaveTask(j) \/ PollSucceeds(j) \/ Download(j)
        BY <1>0, <3>2 DEF Submit, SaveTask, PollSucceeds, Download, Runs, job,
           queue
      <3>3. CASE Leave(j)
        BY <1>0, <3>3 DEF Leave, job
      <3> QED  BY <1>1, <3>1, <3>2, <3>3, <3>4, <3>5
    <2>2. UNCHANGED <<money, faults, spent>>
      BY <1>1 DEF Begin, Submit, SaveTask, PollSucceeds, Download, Finish,
         GiveUp, Leave
    <2>3. CountsOK'
      BY <1>0, <2>2 DEF CountsOK, money, faults
    <2> QED  BY <2>1, <2>3 DEF TypeOK, CountsOK
  <1>2. CASE DebitWallet(j)
    <2>1. RowsOK' /\ RunsOK' /\ CallsOK' /\ MadeOK'
      BY <1>0, <1>2 DEF DebitWallet, Runs, job, queue
    <2>2. CountsOK'
      BY <1>0, <1>2, PaysTypes DEF DebitWallet, CountsOK, faults
    <2> QED  BY <2>1, <2>2 DEF TypeOK, CountsOK
  <1>3. CASE Throws(j)
    <2>1. RowsOK' /\ RunsOK' /\ CallsOK' /\ MadeOK'
      BY <1>0, <1>3 DEF Throws, Runs, job, queue
    <2>2. CountsOK'
      BY <1>0, <1>3, MishapTypes DEF Throws, CountsOK, faults, money
    <2> QED  BY <2>1, <2>2 DEF TypeOK, CountsOK
  <1> QED  BY <1>1, <1>2, <1>3 DEF RunStep

LEMMA CallTypes ==
    ASSUME TypeOK, NEW h \in Calls,
           \/ CallStep(h) \/ RecoveryDies(h)
           \/ \E j \in Jobs : Recover(h, j)
    PROVE  TypeOK'
  <1> USE DEF MadeOK, made, RowsOK, RunsOK, CallsOK, Statuses, CallPlaces
  <1>0. RowsOK /\ RunsOK /\ CallsOK /\ CountsOK /\ MadeOK
    BY TypeParts
  <1>1. CASE \E j \in Jobs : Recover(h, j)
    <2>1. PICK j \in Jobs : Recover(h, j)
      BY <1>1
    <2>2. RowsOK' /\ RunsOK' /\ CallsOK' /\ MadeOK'
      BY <1>0, <2>1 DEF Recover, SetStatus, queue
    <2>3. CountsOK'
      BY <1>0, <2>1 DEF Recover, CountsOK, money
    <2> QED  BY <2>2, <2>3 DEF TypeOK, CountsOK, Bulls, Outcomes
  <1>2. CASE CallStep(h) \/ RecoveryDies(h)
    <2>0. of[h] \in Jobs
      BY <1>0, <1>2 DEF CallStep, RecoveryDebits, RecoveryFinishes,
         RecoveryThrows, RecoveryGivesUp, RecoveryLeaves, RecoveryDies
    <2>1. RowsOK' /\ RunsOK' /\ MadeOK'
      BY <1>0, <1>2, <2>0 DEF CallStep, RecoveryDebits, RecoveryFinishes,
         RecoveryThrows, RecoveryGivesUp, RecoveryLeaves, RecoveryDies,
         SetStatus, job, queue
    <2>2. CallsOK'
      BY <1>0, <1>2, <2>0 DEF CallStep, RecoveryDebits, RecoveryFinishes,
         RecoveryThrows, RecoveryGivesUp, RecoveryLeaves, RecoveryDies,
         EndsCall
    <2>3. CountsOK'
      <3>1. /\ Pays(of[h]) \/ UNCHANGED money
            /\ Mishap(of[h]) \/ UNCHANGED faults
            /\ UNCHANGED spent
        BY <1>2 DEF CallStep, RecoveryDebits, RecoveryFinishes,
           RecoveryThrows, RecoveryGivesUp, RecoveryLeaves, RecoveryDies
      <3> QED  BY <1>0, <2>0, <3>1, PaysTypes, MishapTypes
               DEF CountsOK, money, faults
    <2> QED  BY <2>1, <2>2, <2>3 DEF TypeOK, CountsOK, Bulls, Outcomes
  <1> QED  BY <1>1, <1>2

LEMMA InitTypes == Init => TypeOK
  BY VideoAssumption DEF Init, TypeOK, Statuses, RunPlaces, CallPlaces

LEMMA StepTypes == TypeOK /\ [Next]_vars => TypeOK'
  <1> SUFFICES ASSUME TypeOK, [Next]_vars PROVE TypeOK'
    OBVIOUS
  <1>1. CASE OtherUse
    <2>1. wallet' \in Int /\ spent' \in Nat
      BY <1>1, VideoAssumption DEF OtherUse, TypeOK
    <2> QED  BY <1>1, <2>1 DEF OtherUse, TypeOK, job, queue, faults, made
  <1>2. CASE UNCHANGED vars
    BY <1>2 DEF vars, TypeOK
  <1> QED  BY <1>1, <1>2, JobTypes, RunTypes, CallTypes DEF Next

\* The types of the state.
THEOREM TypeCorrect == Spec => []TypeOK
  BY InitTypes, StepTypes, PTL DEF Spec

-----------------------------------------------------------------------------
(* A video that was paid is not lost.                                      *)

DeliveryInv == TypeOK /\ PaidIsDelivered

\* What one job is owed, in this state and in the next.
Kept(j) == debits[j] > 0 => Debited(j) \/ result[j] \/ mishaps[j] > 0

LEMMA KeptParts == PaidIsDelivered <=> \A j \in Jobs : Kept(j)
  BY DEF PaidIsDelivered, Kept

\* A step that pays nothing, forgets no video and no mishap, and takes nobody
\* who has debited away from the job.
LEMMA StaysKept ==
    ASSUME NEW j \in Jobs, Kept(j), debits'[j] = debits[j],
           result[j] => result'[j], mishaps[j] > 0 => mishaps'[j] > 0,
           Debited(j) => Debited(j)'
    PROVE  Kept(j)'
  BY DEF Kept

LEMMA RunKeeps ==
    ASSUME TypeOK, TypeOK', NEW i \in Jobs, RunStep(i), NEW j \in Jobs, Kept(j)
    PROVE  Kept(j)'
  <1>1. at' = at /\ of' = of
    BY DEF RunStep, Begin, Submit, SaveTask, PollSucceeds, Download,
       DebitWallet, Finish, Throws, GiveUp, Leave
  <1>2. worker'[j] = worker[j] => (Debited(j) => Debited(j)')
    BY <1>1 DEF Debited
  <1>3. CASE DebitWallet(i)
    <2>1. CASE j = i
      BY <1>3, <2>1 DEF DebitWallet, Runs, Kept, Debited, TypeOK
    <2>2. CASE j # i
      BY <1>2, <1>3, <2>2, StaysKept
         DEF DebitWallet, Runs, Pays, TypeOK, job, faults
    <2> QED  BY <2>1, <2>2
  <1>4. CASE Finish(i)
    <2>1. CASE j = i
      BY <1>4, <2>1 DEF Finish, Kept, TypeOK
    <2>2. CASE j # i
      BY <1>2, <1>4, <2>2, StaysKept DEF Finish, Runs, TypeOK, money, faults
    <2> QED  BY <2>1, <2>2
  <1>5. CASE Throws(i)
    <2>1. CASE worker[i] = "finish" /\ j = i
      BY <1>5, <2>1 DEF Throws, Runs, Mishap, Kept, TypeOK
    <2>2. CASE worker[i] # "finish" \/ j # i
      <3>1. Debited(j) => Debited(j)'
        BY <1>1, <1>5, <2>2 DEF Throws, Runs, Debited, TypeOK
      <3>2. mishaps[j] > 0 => mishaps'[j] > 0
        BY <1>5 DEF Throws, Mishap, TypeOK, faults
      <3> QED  BY <1>5, <3>1, <3>2, StaysKept DEF Throws, money, job
    <2> QED  BY <2>1, <2>2
  <1>6. CASE \/ Begin(i) \/ Submit(i) \/ SaveTask(i) \/ PollSucceeds(i)
             \/ Download(i) \/ GiveUp(i) \/ Leave(i)
    <2>1. Debited(j) => Debited(j)'
      BY <1>1, <1>6 DEF Begin, Submit, SaveTask, PollSucceeds, Download,
         GiveUp, Leave, Runs, Debited, TypeOK
    <2>2. debits' = debits /\ result' = result /\ mishaps' = mishaps
      BY <1>6 DEF Begin, Submit, SaveTask, PollSucceeds, Download, GiveUp,
         Leave, money, job, faults
    <2> QED  BY <2>1, <2>2, StaysKept
  <1> QED  BY <1>3, <1>4, <1>5, <1>6 DEF RunStep

LEMMA CallKeeps ==
    ASSUME TypeOK, TypeOK', NEW h \in Calls, CallStep(h) \/ RecoveryDies(h),
           NEW j \in Jobs, Kept(j)
    PROVE  Kept(j)'
  <1>0. of[h] \in Jobs /\ worker' = worker
    BY DEF TypeOK, CallStep, RecoveryDebits, RecoveryFinishes, RecoveryThrows,
       RecoveryGivesUp, RecoveryLeaves, RecoveryDies
  <1>1. at[h] # "finish" \/ of[h] # j => (Debited(j) => Debited(j)')
    BY <1>0 DEF Debited, TypeOK, CallStep, RecoveryDebits, RecoveryFinishes,
       RecoveryThrows, RecoveryGivesUp, RecoveryLeaves, RecoveryDies, EndsCall
  <1>2. CASE RecoveryDebits(h)
    <2>1. CASE of[h] = j
      BY <1>2, <2>1 DEF RecoveryDebits, Kept, Debited, TypeOK
    <2>2. CASE of[h] # j
      BY <1>0, <1>1, <1>2, <2>2, StaysKept
         DEF RecoveryDebits, Pays, TypeOK, job, faults
    <2> QED  BY <2>1, <2>2
  <1>3. CASE RecoveryFinishes(h)
    <2>1. CASE of[h] = j
      BY <1>3, <2>1 DEF RecoveryFinishes, Kept, TypeOK
    <2>2. CASE of[h] # j
      BY <1>0, <1>1, <1>3, <2>2, StaysKept
         DEF RecoveryFinishes, TypeOK, money, faults
    <2> QED  BY <2>1, <2>2
  <1>4. CASE RecoveryThrows(h) \/ RecoveryDies(h)
    <2>0. mishaps[j] > 0 => mishaps'[j] > 0
      BY <1>0, <1>4 DEF RecoveryThrows, RecoveryDies, Mishap, TypeOK, faults
    <2>1. CASE at[h] = "finish" /\ of[h] = j
      BY <1>4, <2>1 DEF RecoveryThrows, RecoveryDies, Mishap, Kept, TypeOK
    <2>2. CASE at[h] # "finish" \/ of[h] # j
      BY <1>1, <1>4, <2>0, <2>2, StaysKept
         DEF RecoveryThrows, RecoveryDies, money, job
    <2> QED  BY <2>1, <2>2
  <1>5. CASE RecoveryGivesUp(h) \/ RecoveryLeaves(h)
    BY <1>1, <1>5, StaysKept DEF RecoveryGivesUp, RecoveryLeaves, money, job,
       faults
  <1> QED  BY <1>2, <1>3, <1>4, <1>5 DEF CallStep

LEMMA OthersKeep ==
    ASSUME TypeOK, TypeOK', NEW j \in Jobs, Kept(j),
           \/ OtherUse \/ UNCHANGED vars
           \/ \E i \in Jobs :
                \/ CreateJob(i) \/ Enqueue(i) \/ EnqueueFails(i) \/ Ages(i)
                \/ BeginFails(i) \/ WorkerDies(i) \/ ProviderSettles(i)
                \/ \E h \in Calls : Recover(h, i)
    PROVE  Kept(j)'
  <1>1. CASE OtherUse \/ UNCHANGED vars
    BY <1>1 DEF OtherUse, vars, Kept, Debited, job, faults
  <1>2. ASSUME NEW i \in Jobs,
               \/ CreateJob(i) \/ Enqueue(i) \/ EnqueueFails(i) \/ Ages(i)
               \/ BeginFails(i) \/ ProviderSettles(i)
        PROVE  Kept(j)'
    <2>1. mishaps[j] > 0 => mishaps'[j] > 0
      BY <1>2 DEF CreateJob, Enqueue, EnqueueFails, Ages, BeginFails,
         ProviderSettles, Mishap, TypeOK, faults
    <2>2. UNCHANGED <<debits, result, worker, at, of>>
      BY <1>2 DEF CreateJob, Enqueue, EnqueueFails, Ages, BeginFails,
         ProviderSettles, money, job
    <2>3. Debited(j) => Debited(j)'
      BY <2>2 DEF Debited
    <2> QED  BY <2>1, <2>2, <2>3, StaysKept
  <1>3. ASSUME NEW i \in Jobs, WorkerDies(i) PROVE Kept(j)'
    <2>1. mishaps'[i] > 0 /\ (mishaps[j] > 0 => mishaps'[j] > 0)
      BY <1>3 DEF WorkerDies, Mishap, TypeOK
    <2>2. j # i => (Debited(j) => Debited(j)')
      BY <1>3 DEF WorkerDies, Debited, TypeOK
    <2> QED  BY <1>3, <2>1, <2>2, StaysKept DEF WorkerDies, Kept, money, job
  <1>4. ASSUME NEW i \in Jobs, NEW h \in Calls, Recover(h, i)
        PROVE  Kept(j)'
    <2>1. Debited(j) => Debited(j)'
      BY <1>4 DEF Recover, Debited, TypeOK
    <2> QED  BY <1>4, <2>1, StaysKept DEF Recover, money
  <1> QED  BY <1>1, <1>2, <1>3, <1>4

LEMMA DeliveryStep == DeliveryInv /\ [Next]_vars => DeliveryInv'
  <1> SUFFICES ASSUME DeliveryInv, [Next]_vars PROVE DeliveryInv'
    OBVIOUS
  <1>1. TypeOK /\ TypeOK'
    BY StepTypes DEF DeliveryInv
  <1>2. ASSUME NEW j \in Jobs PROVE Kept(j)'
    <2>0. Kept(j)
      BY KeptParts DEF DeliveryInv
    <2>1. CASE \E i \in Jobs : RunStep(i)
      BY <1>1, <2>0, <2>1, RunKeeps
    <2>2. CASE \E h \in Calls : CallStep(h) \/ RecoveryDies(h)
      BY <1>1, <2>0, <2>2, CallKeeps
    <2>3. CASE \/ OtherUse \/ UNCHANGED vars
               \/ \E i \in Jobs :
                    \/ CreateJob(i) \/ Enqueue(i) \/ EnqueueFails(i) \/ Ages(i)
                    \/ BeginFails(i) \/ WorkerDies(i) \/ ProviderSettles(i)
                    \/ \E h \in Calls : Recover(h, i)
      BY <1>1, <2>0, <2>3, OthersKeep
    <2> QED  BY <2>1, <2>2, <2>3 DEF Next
  <1>3. PaidIsDelivered'
    BY <1>2 DEF PaidIsDelivered, Kept
  <1> QED  BY <1>1, <1>3 DEF DeliveryInv

\* Whoever has paid for a job has its video, or somebody is about to store it,
\* unless something died or failed.
THEOREM DeliveredOncePaid == Spec => []PaidIsDelivered
  <1>1. Init => DeliveryInv
    <2> SUFFICES ASSUME Init PROVE DeliveryInv
      OBVIOUS
    <2>1. TypeOK
      BY InitTypes
    <2> QED  BY <2>1 DEF Init, DeliveryInv, PaidIsDelivered
  <1>2. DeliveryInv => PaidIsDelivered
    BY DEF DeliveryInv
  <1> QED  BY <1>1, <1>2, DeliveryStep, PTL DEF Spec

-----------------------------------------------------------------------------
(* A job is paid once, but for mishaps.  Whoever may still pay for a job    *)
(* holds a token: the run that is to come or has not paid, the row that may *)
(* be claimed, a recovery before its debit.  Payments and tokens together   *)
(* are never more than one and the mishaps.                                 *)

RunOwes(j) ==
    \/ bull[j] \in {"adding", "waiting"}
    \/ worker[j] \in {"submit", "save", "poll", "download", "debit"}
    \/ worker[j] = "giveUp" /\ ~ result[j]

CallsOwing(j) ==
    {h \in Calls : /\ of[h] = j
                   /\ \/ at[h] = "debit"
                      \/ at[h] = "giveUp" /\ ~ result[j]}

Token(holds) == IF holds THEN 1 ELSE 0

Owed(j) ==
    Token(RunOwes(j)) + Token(Claimable(j)) + Cardinality(CallsOwing(j))

\* What a place tells of the rest.
PlacesFit ==
    /\ \A j \in Jobs : worker[j] # "none" => bull[j] = "active"
    /\ \A j \in Jobs : worker[j] = "notify" => result[j]
    /\ \A h \in Calls : at[h] = "notify" => result[of[h]]
    /\ \A h \in Calls : at[h] # "idle" => status[of[h]] # "NONE"
    /\ \A j \in Jobs : status[j] = "NONE" =>
           bull[j] = "none" /\ debits[j] = 0 /\ ~ result[j]

PaidInv ==
    /\ TypeOK
    /\ PlacesFit
    /\ \A j \in Jobs : debits[j] + Owed(j) <= 1 + mishaps[j]

LEMMA OwingFinite ==
    ASSUME NEW j
    PROVE  /\ IsFiniteSet(CallsOwing(j)) /\ Cardinality(CallsOwing(j)) \in Nat
           /\ IsFiniteSet(CallsOwing(j)') /\ Cardinality(CallsOwing(j)') \in Nat
  <1>1. CallsOwing(j) \subseteq Calls /\ CallsOwing(j)' \subseteq Calls
    BY DEF CallsOwing
  <1> QED  BY <1>1, VideoAssumption, FS_Subset, FS_CardinalityType

LEMMA PlacesStep == TypeOK /\ TypeOK' /\ PlacesFit /\ [Next]_vars => PlacesFit'
  <1> SUFFICES ASSUME TypeOK, TypeOK', PlacesFit, [Next]_vars PROVE PlacesFit'
    OBVIOUS
  <1>1. ASSUME NEW i \in Jobs, RunStep(i)
        PROVE  PlacesFit'
    <2>1. CASE DebitWallet(i)
      <3>1. \A j \in Jobs : j # i => debits'[j] = debits[j]
        BY <2>1 DEF DebitWallet, Pays, TypeOK
      <3>2. status[i] # "NONE"
        BY <2>1 DEF DebitWallet, Runs, PlacesFit, TypeOK
      <3> QED  BY <2>1, <3>1, <3>2
               DEF DebitWallet, Runs, PlacesFit, TypeOK, job, queue
    <2>2. CASE Begin(i)
      BY <2>2 DEF Begin, Runs, SetStatus, PlacesFit, TypeOK, money
    <2>3. CASE Finish(i)
      BY <2>3 DEF Finish, Runs, SetStatus, PlacesFit, TypeOK, money, queue
    <2>4. CASE GiveUp(i)
      BY <2>4 DEF GiveUp, Runs, SetStatus, PlacesFit, TypeOK, money, queue
    <2>5. CASE Leave(i)
      BY <2>5 DEF Leave, PlacesFit, TypeOK, money, job
    <2>6. CASE Submit(i) \/ SaveTask(i) \/ PollSucceeds(i) \/ Download(i)
      BY <2>6 DEF Submit, SaveTask, PollSucceeds, Download, Runs, PlacesFit,
         TypeOK, money, job, queue
    <2>7. CASE Throws(i)
      BY <2>7 DEF Throws, Runs, PlacesFit, TypeOK, money, job, queue
    <2> QED  BY <1>1, <2>1, <2>2, <2>3, <2>4, <2>5, <2>6, <2>7 DEF RunStep
  <1>2. ASSUME NEW h \in Calls, CallStep(h) \/ RecoveryDies(h)
        PROVE  PlacesFit'
    <2>0. of[h] \in Jobs /\ at[h] # "idle"
      BY <1>2 DEF TypeOK, CallStep, RecoveryDebits, RecoveryFinishes,
         RecoveryThrows, RecoveryGivesUp, RecoveryLeaves, RecoveryDies
    <2>1. CASE RecoveryDebits(h)
      <3>1. \A j \in Jobs : j # of[h] => debits'[j] = debits[j]
        BY <2>0, <2>1 DEF RecoveryDebits, Pays, TypeOK
      <3> QED  BY <2>0, <2>1, <3>1
               DEF RecoveryDebits, PlacesFit, TypeOK, job, queue
    <2>2. CASE RecoveryFinishes(h)
      BY <2>0, <2>2 DEF RecoveryFinishes, SetStatus, PlacesFit, TypeOK, money,
         queue
    <2>3. CASE RecoveryGivesUp(h)
      BY <2>0, <2>3 DEF RecoveryGivesUp, EndsCall, SetStatus, PlacesFit,
         TypeOK, money, queue
    <2>4. CASE RecoveryThrows(h)
      BY <2>0, <2>4 DEF RecoveryThrows, PlacesFit, TypeOK, money, job, queue
    <2>5. CASE RecoveryLeaves(h) \/ RecoveryDies(h)
      BY <2>0, <2>5 DEF RecoveryLeaves, RecoveryDies, EndsCall, PlacesFit,
         TypeOK, money, job, queue
    <2> QED  BY <1>2, <2>1, <2>2, <2>3, <2>4, <2>5 DEF CallStep
  <1>3. ASSUME NEW h \in Calls, NEW j \in Jobs, Recover(h, j)
        PROVE  PlacesFit'
    BY <1>3 DEF Recover, Claimable, SetStatus, PlacesFit, TypeOK, money, queue
  <1>4. ASSUME NEW j \in Jobs,
               \/ CreateJob(j) \/ Enqueue(j) \/ EnqueueFails(j) \/ Ages(j)
               \/ BeginFails(j) \/ WorkerDies(j) \/ ProviderSettles(j)
        PROVE  PlacesFit'
    <2>1. CASE CreateJob(j)
      BY <2>1 DEF CreateJob, SetStatus, PlacesFit, TypeOK, money
    <2>2. CASE WorkerDies(j)
      BY <2>2 DEF WorkerDies, PlacesFit, TypeOK, money, job
    <2>3. CASE Enqueue(j) \/ EnqueueFails(j) \/ BeginFails(j)
      BY <2>3 DEF Enqueue, EnqueueFails, BeginFails, PlacesFit, TypeOK, money,
         job
    <2>4. CASE Ages(j) \/ ProviderSettles(j)
      BY <2>4 DEF Ages, ProviderSettles, PlacesFit, TypeOK, money, job, queue
    <2> QED  BY <1>4, <2>1, <2>2, <2>3, <2>4
  <1>5. CASE OtherUse \/ UNCHANGED vars
    BY <1>5 DEF OtherUse, vars, PlacesFit, job, queue
  <1> QED  BY <1>1, <1>2, <1>3, <1>4, <1>5 DEF Next

\* What a job was paid and what it is still going to be, but for recoveries.
Burden(j) == debits[j] + Token(RunOwes(j)) + Token(Claimable(j))

PaidFor(j) == debits[j] + Owed(j) <= 1 + mishaps[j]

LEMMA TokenTypes == ASSUME NEW P PROVE Token(P) \in Nat /\ Token(P) <= 1
  BY DEF Token

LEMMA BurdenTypes ==
    ASSUME TypeOK, TypeOK', NEW j \in Jobs
    PROVE  /\ Burden(j) \in Nat /\ Burden(j)' \in Nat
           /\ mishaps[j] \in Nat /\ mishaps'[j] \in Nat
           /\ PaidFor(j) <=> Burden(j) + Cardinality(CallsOwing(j)) <= 1 + mishaps[j]
           /\ PaidFor(j)' <=>
                Burden(j)' + Cardinality(CallsOwing(j)') <= 1 + mishaps'[j]
  <1>1. debits[j] \in Nat /\ debits'[j] \in Nat
    BY DEF TypeOK
  <1>2. mishaps[j] \in Nat /\ mishaps'[j] \in Nat
    BY DEF TypeOK
  <1>3. Burden(j) \in Nat /\ Burden(j)' \in Nat
    BY <1>1, TokenTypes DEF Burden, Token
  <1>4. Owed(j) + debits[j] = Burden(j) + Cardinality(CallsOwing(j))
    BY <1>1, OwingFinite, TokenTypes DEF Owed, Burden, Token
  <1>5. Owed(j)' + debits'[j] = Burden(j)' + Cardinality(CallsOwing(j)')
    BY <1>1, OwingFinite, TokenTypes DEF Owed, Burden, Token
  <1>6. Owed(j) \in Nat /\ Owed(j)' \in Nat
    BY OwingFinite, TokenTypes DEF Owed, Token
  <1> QED  BY <1>1, <1>2, <1>3, <1>4, <1>5, <1>6, OwingFinite DEF PaidFor

\* A step that adds no recovery, and no more burden than mishaps.
LEMMA NoMoreOwing ==
    ASSUME TypeOK, TypeOK', NEW j \in Jobs, PaidFor(j),
           CallsOwing(j)' \subseteq CallsOwing(j),
           Burden(j)' + mishaps[j] <= Burden(j) + mishaps'[j]
    PROVE  PaidFor(j)'
  <1>1. Cardinality(CallsOwing(j)') <= Cardinality(CallsOwing(j))
    BY OwingFinite, FS_Subset
  <1> QED  BY <1>1, OwingFinite, BurdenTypes

\* A recovery hands its token on.
LEMMA OneLessOwing ==
    ASSUME TypeOK, TypeOK', NEW j \in Jobs, PaidFor(j),
           NEW h \in CallsOwing(j), CallsOwing(j)' \subseteq CallsOwing(j) \ {h},
           Burden(j)' + mishaps[j] <= Burden(j) + 1 + mishaps'[j]
    PROVE  PaidFor(j)'
  <1>1. /\ IsFiniteSet(CallsOwing(j) \ {h})
        /\ Cardinality(CallsOwing(j) \ {h}) = Cardinality(CallsOwing(j)) - 1
    BY OwingFinite, FS_RemoveElement
  <1>2. Cardinality(CallsOwing(j)') <= Cardinality(CallsOwing(j) \ {h})
    BY <1>1, FS_Subset
  <1>3. Cardinality(CallsOwing(j)') <= Cardinality(CallsOwing(j)) - 1
    BY <1>1, <1>2
  <1> QED  BY <1>3, OwingFinite, BurdenTypes

LEMMA OneElementMore ==
    ASSUME NEW S, IsFiniteSet(S), NEW x
    PROVE  IsFiniteSet(S \cup {x}) /\ Cardinality(S \cup {x}) <= Cardinality(S) + 1
  <1>1. Cardinality(S) \in Nat
    BY FS_CardinalityType
  <1> QED  BY <1>1, FS_AddElement

LEMMA OneMoreOwing ==
    ASSUME TypeOK, TypeOK', NEW j \in Jobs, PaidFor(j), NEW h,
           CallsOwing(j)' \subseteq CallsOwing(j) \cup {h},
           Burden(j)' + 1 + mishaps[j] <= Burden(j) + mishaps'[j]
    PROVE  PaidFor(j)'
  <1>1. /\ IsFiniteSet(CallsOwing(j) \cup {h})
        /\ Cardinality(CallsOwing(j) \cup {h}) <= Cardinality(CallsOwing(j)) + 1
    BY OwingFinite, OneElementMore
  <1>2. Cardinality(CallsOwing(j)') <= Cardinality(CallsOwing(j) \cup {h})
    BY <1>1, FS_Subset
  <1>3. Cardinality(CallsOwing(j)') <= Cardinality(CallsOwing(j)) + 1
    BY <1>1, <1>2, OwingFinite, FS_CardinalityType
  <1> QED  BY <1>3, OwingFinite, BurdenTypes

LEMMA RunPays ==
    ASSUME TypeOK, TypeOK', PlacesFit, NEW i \in Jobs, RunStep(i),
           NEW j \in Jobs, PaidFor(j)
    PROVE  PaidFor(j)'
  <1> USE DEF Burden, RunOwes, Claimable, Token
  <1>0. at' = at /\ of' = of
    BY DEF RunStep, Begin, Submit, SaveTask, PollSucceeds, Download,
       DebitWallet, Finish, Throws, GiveUp, Leave
  <1>1. debits[j] \in Nat /\ mishaps[j] \in Nat
    BY DEF TypeOK
  <1>2. result[j] => result'[j]
    BY DEF RunStep, Begin, Submit, SaveTask, PollSucceeds, Download,
       DebitWallet, Finish, Throws, GiveUp, Leave, job, TypeOK
  <1>3. CallsOwing(j)' \subseteq CallsOwing(j)
    BY <1>0, <1>2 DEF CallsOwing
  <1>4. Burden(j)' + mishaps[j] <= Burden(j) + mishaps'[j]
    <2>1. CASE DebitWallet(i)
      <3>1. CASE j = i
        <4>1. debits'[j] = debits[j] + 1 /\ mishaps'[j] = mishaps[j]
          BY <2>1, <3>1 DEF DebitWallet, Pays, faults, TypeOK
        <4>2. RunOwes(j) /\ ~ RunOwes(j)'
          BY <2>1, <3>1 DEF DebitWallet, Runs, PlacesFit, queue, TypeOK
        <4>3. Claimable(j)' <=> Claimable(j)
          BY <2>1 DEF DebitWallet, job
        <4> QED  BY <1>1, <4>1, <4>2, <4>3
      <3>2. CASE j # i
        <4>1. debits'[j] = debits[j] /\ mishaps'[j] = mishaps[j]
          BY <2>1, <3>2 DEF DebitWallet, Pays, faults, TypeOK
        <4>2. /\ RunOwes(j)' <=> RunOwes(j)
              /\ Claimable(j)' <=> Claimable(j)
          BY <2>1, <3>2 DEF DebitWallet, Runs, queue, job, TypeOK
        <4> QED  BY <1>1, <4>1, <4>2
      <3> QED  BY <3>1, <3>2
    <2>2. CASE Begin(i)
      BY <1>1, <2>2 DEF Begin, Runs, SetStatus, TypeOK, money, faults
    <2>3. CASE Finish(i)
      BY <1>1, <2>3 DEF Finish, Runs, SetStatus, PlacesFit, TypeOK, money,
         faults, queue
    <2>4. CASE GiveUp(i)
      BY <1>1, <2>4 DEF GiveUp, Runs, SetStatus, PlacesFit, TypeOK, money,
         faults, queue
    <2>5. CASE Leave(i)
      BY <1>1, <2>5 DEF Leave, TypeOK, money, faults, job
    <2>6. CASE Submit(i) \/ SaveTask(i) \/ PollSucceeds(i) \/ Download(i)
      BY <1>1, <2>6 DEF Submit, SaveTask, PollSucceeds, Download, Runs,
         TypeOK, money, faults, job, queue
    <2>7. CASE Throws(i)
      <3>1. debits' = debits /\ status' = status /\ result' = result /\ bull' = bull
        BY <2>7 DEF Throws, money, job, queue
      <3>2. mishaps'[j] >= mishaps[j]
        BY <1>1, <2>7 DEF Throws, Mishap, faults, TypeOK
      <3>3. mishaps'[j] \in Nat
        BY DEF TypeOK
      <3>4. CASE j = i /\ worker[i] = "finish"
        <4>1. mishaps'[j] = mishaps[j] + 1
          BY <2>7, <3>4 DEF Throws, Runs, Mishap, TypeOK
        <4> QED  BY <1>1, <3>1, <3>4, <4>1
      <3>5. CASE ~ (j = i /\ worker[i] = "finish")
        <4>1. RunOwes(j)' => RunOwes(j)
          BY <2>7, <3>1, <3>5 DEF Throws, Runs, PlacesFit, TypeOK
        <4> QED  BY <1>1, <3>1, <3>2, <3>3, <4>1
      <3> QED  BY <3>4, <3>5
    <2> QED  BY <2>1, <2>2, <2>3, <2>4, <2>5, <2>6, <2>7 DEF RunStep
  <1> QED  BY <1>3, <1>4, NoMoreOwing

LEMMA CallPays ==
    ASSUME TypeOK, TypeOK', PlacesFit, NEW h \in Calls,
           CallStep(h) \/ RecoveryDies(h), NEW j \in Jobs, PaidFor(j)
    PROVE  PaidFor(j)'
  <1> USE DEF Burden, RunOwes, Claimable, Token
  <1>0. of[h] \in Jobs /\ at[h] # "idle"
    BY DEF TypeOK, CallStep, RecoveryDebits, RecoveryFinishes,
       RecoveryThrows, RecoveryGivesUp, RecoveryLeaves, RecoveryDies
  <1>1. debits[j] \in Nat /\ mishaps[j] \in Nat /\ mishaps'[j] \in Nat
    BY DEF TypeOK
  <1>2. CASE RecoveryDebits(h)
    <2>1. UNCHANGED <<status, result, bull, worker, of, mishaps>>
      BY <1>2 DEF RecoveryDebits, job, queue, faults
    <2>2. CASE of[h] = j
      <3>1. debits'[j] = debits[j] + 1
        BY <1>2, <2>2 DEF RecoveryDebits, Pays, TypeOK
      <3>2. h \in CallsOwing(j)
        <4>1. at[h] = "debit"
          BY <1>2 DEF RecoveryDebits
        <4> QED  BY <2>2, <4>1 DEF CallsOwing
      <3>3. CallsOwing(j)' \subseteq CallsOwing(j) \ {h}
        <4>1. at'[h] = "finish" /\ \A k \in Calls \ {h} : at'[k] = at[k]
          BY <1>2 DEF RecoveryDebits, TypeOK
        <4> QED  BY <2>1, <4>1 DEF CallsOwing
      <3>4. Burden(j)' + mishaps[j] <= Burden(j) + 1 + mishaps'[j]
        BY <1>1, <2>1, <3>1
      <3> QED  BY <3>2, <3>3, <3>4, OneLessOwing
    <2>3. CASE of[h] # j
      <3>1. debits'[j] = debits[j]
        BY <1>0, <1>2, <2>3 DEF RecoveryDebits, Pays, TypeOK
      <3>2. CallsOwing(j)' \subseteq CallsOwing(j)
        BY <1>2, <2>1, <2>3 DEF RecoveryDebits, CallsOwing, TypeOK
      <3>3. Burden(j)' + mishaps[j] <= Burden(j) + mishaps'[j]
        BY <1>1, <2>1, <3>1
      <3> QED  BY <3>2, <3>3, NoMoreOwing
    <2> QED  BY <2>2, <2>3
  <1>3. CASE RecoveryFinishes(h)
    <2>1. CallsOwing(j)' \subseteq CallsOwing(j)
      BY <1>0, <1>3 DEF RecoveryFinishes, CallsOwing, TypeOK
    <2>2. Burden(j)' + mishaps[j] <= Burden(j) + mishaps'[j]
      BY <1>0, <1>1, <1>3 DEF RecoveryFinishes, SetStatus, TypeOK, money,
         faults, queue
    <2> QED  BY <2>1, <2>2, NoMoreOwing
  <1>4. CASE RecoveryThrows(h)
    <2>1. UNCHANGED <<status, result, bull, worker, of, debits>>
      BY <1>4 DEF RecoveryThrows, job, queue, money
    <2>2. mishaps'[j] >= mishaps[j]
      BY <1>0, <1>1, <1>4 DEF RecoveryThrows, Mishap, faults, TypeOK
    <2>3. CASE of[h] = j /\ at[h] = "finish"
      <3>1. mishaps'[j] = mishaps[j] + 1
        BY <1>4, <2>3 DEF RecoveryThrows, Mishap, TypeOK
      <3>2. CallsOwing(j)' \subseteq CallsOwing(j) \cup {h}
        BY <1>4, <2>1 DEF RecoveryThrows, CallsOwing, TypeOK
      <3>3. Burden(j)' + 1 + mishaps[j] <= Burden(j) + mishaps'[j]
        BY <1>1, <2>1, <3>1
      <3> QED  BY <3>2, <3>3, OneMoreOwing
    <2>4. CASE ~ (of[h] = j /\ at[h] = "finish")
      <3>1. CallsOwing(j)' \subseteq CallsOwing(j)
        BY <1>4, <2>1, <2>4 DEF RecoveryThrows, CallsOwing, PlacesFit, TypeOK
      <3>2. Burden(j)' + mishaps[j] <= Burden(j) + mishaps'[j]
        BY <1>1, <2>1, <2>2
      <3> QED  BY <3>1, <3>2, NoMoreOwing
    <2> QED  BY <2>3, <2>4
  <1>5. CASE RecoveryGivesUp(h)
    <2>1. UNCHANGED <<result, bull, worker, debits, mishaps>>
      BY <1>5 DEF RecoveryGivesUp, queue, money, faults
    <2>2. CASE of[h] = j /\ ~ result[j]
      <3>1. h \in CallsOwing(j)
        BY <1>5, <2>2 DEF RecoveryGivesUp, CallsOwing
      <3>2. CallsOwing(j)' \subseteq CallsOwing(j) \ {h}
        BY <1>5, <2>1 DEF RecoveryGivesUp, EndsCall, CallsOwing, TypeOK
      <3>3. Burden(j)' + mishaps[j] <= Burden(j) + 1 + mishaps'[j]
        BY <1>1, <2>1
      <3> QED  BY <3>1, <3>2, <3>3, OneLessOwing
    <2>3. CASE ~ (of[h] = j /\ ~ result[j])
      <3>1. CallsOwing(j)' \subseteq CallsOwing(j)
        BY <1>5, <2>1 DEF RecoveryGivesUp, EndsCall, CallsOwing, TypeOK
      <3>2. Claimable(j)' => Claimable(j)
        BY <1>0, <1>5, <2>1, <2>3 DEF RecoveryGivesUp, SetStatus, TypeOK
      <3>3. Burden(j)' + mishaps[j] <= Burden(j) + mishaps'[j]
        BY <1>1, <2>1, <3>2
      <3> QED  BY <3>1, <3>3, NoMoreOwing
    <2> QED  BY <2>2, <2>3
  <1>6. CASE RecoveryLeaves(h) \/ RecoveryDies(h)
    <2>1. UNCHANGED <<status, result, bull, worker, debits>>
      BY <1>6 DEF RecoveryLeaves, RecoveryDies, job, queue, money
    <2>2. mishaps'[j] >= mishaps[j]
      BY <1>0, <1>1, <1>6 DEF RecoveryLeaves, RecoveryDies, Mishap, faults,
         TypeOK
    <2>3. CallsOwing(j)' \subseteq CallsOwing(j)
      BY <1>6, <2>1 DEF RecoveryLeaves, RecoveryDies, EndsCall, CallsOwing,
         TypeOK
    <2>4. Burden(j)' + mishaps[j] <= Burden(j) + mishaps'[j]
      BY <1>1, <2>1, <2>2
    <2> QED  BY <2>3, <2>4, NoMoreOwing
  <1> QED  BY <1>2, <1>3, <1>4, <1>5, <1>6 DEF CallStep

LEMMA RecoverPays ==
    ASSUME TypeOK, TypeOK', NEW h \in Calls, NEW i \in Jobs, Recover(h, i),
           NEW j \in Jobs, PaidFor(j)
    PROVE  PaidFor(j)'
  <1> USE DEF Burden, RunOwes, Claimable, Token
  <1>1. debits[j] \in Nat /\ mishaps[j] \in Nat
    BY DEF TypeOK
  <1>2. UNCHANGED <<result, bull, worker, debits, mishaps>>
    BY DEF Recover, queue, money
  <1>3. CASE i = j
    <2>1. CallsOwing(j)' \subseteq CallsOwing(j) \cup {h}
      BY <1>2 DEF Recover, CallsOwing, TypeOK
    <2>2. Claimable(j) /\ ~ Claimable(j)'
      BY <1>3 DEF Recover, SetStatus, TypeOK
    <2>3. Burden(j)' + 1 + mishaps[j] <= Burden(j) + mishaps'[j]
      BY <1>1, <1>2, <2>2
    <2> QED  BY <2>1, <2>3, OneMoreOwing
  <1>4. CASE i # j
    <2>1. CallsOwing(j)' \subseteq CallsOwing(j)
      BY <1>2, <1>4 DEF Recover, CallsOwing, TypeOK
    <2>2. Claimable(j)' <=> Claimable(j)
      BY <1>2, <1>4 DEF Recover, SetStatus, TypeOK
    <2>3. Burden(j)' + mishaps[j] <= Burden(j) + mishaps'[j]
      BY <1>1, <1>2, <2>2
    <2> QED  BY <2>1, <2>3, NoMoreOwing
  <1> QED  BY <1>3, <1>4

LEMMA JobPays ==
    ASSUME TypeOK, TypeOK', PlacesFit, NEW i \in Jobs,
           \/ CreateJob(i) \/ Enqueue(i) \/ EnqueueFails(i) \/ Ages(i)
           \/ BeginFails(i) \/ WorkerDies(i) \/ ProviderSettles(i),
           NEW j \in Jobs, PaidFor(j)
    PROVE  PaidFor(j)'
  <1> USE DEF Burden, RunOwes, Claimable, Token
  <1>1. debits[j] \in Nat /\ mishaps[j] \in Nat /\ mishaps'[j] \in Nat
    BY DEF TypeOK
  <1>2. at' = at /\ of' = of /\ result' = result /\ debits' = debits
    BY DEF CreateJob, Enqueue, EnqueueFails, Ages, BeginFails, WorkerDies,
       ProviderSettles, job, money
  <1>3. CallsOwing(j)' \subseteq CallsOwing(j)
    BY <1>2 DEF CallsOwing
  <1>4. CASE CreateJob(i) /\ i = j
    <2>1. CallsOwing(j) = {}
      BY <1>4 DEF CreateJob, CallsOwing, PlacesFit, TypeOK
    <2>2. Cardinality(CallsOwing(j)') = 0
      BY <1>3, <2>1, FS_EmptySet
    <2>3. debits[j] = 0
      BY <1>4 DEF CreateJob, PlacesFit
    <2>4. ~ Claimable(j)'
      BY <1>4 DEF CreateJob, SetStatus, TypeOK
    <2>5. Burden(j)' <= 1
      BY <1>2, <2>3, <2>4
    <2> QED  BY <1>1, <2>2, <2>5, BurdenTypes
  <1>5. CASE CreateJob(i) /\ i # j
    BY <1>1, <1>2, <1>3, <1>5, NoMoreOwing
       DEF CreateJob, SetStatus, faults, TypeOK
  <1>6. CASE WorkerDies(i)
    <2>1. CASE i = j
      <3>1. mishaps'[j] = mishaps[j] + 1 /\ status' = status
        BY <1>6, <2>1 DEF WorkerDies, Mishap, job, TypeOK
      <3>2. Burden(j)' + mishaps[j] <= Burden(j) + mishaps'[j]
        BY <1>1, <1>2, <3>1
      <3> QED  BY <1>3, <3>2, NoMoreOwing
    <2>2. CASE i # j
      BY <1>1, <1>2, <1>3, <1>6, <2>2, NoMoreOwing
         DEF WorkerDies, Mishap, job, TypeOK
    <2> QED  BY <2>1, <2>2
  <1>7. CASE Enqueue(i) \/ EnqueueFails(i) \/ BeginFails(i)
    <2>1. status' = status /\ worker' = worker
      BY <1>7 DEF Enqueue, EnqueueFails, BeginFails, job
    <2>2. mishaps'[j] >= mishaps[j]
      BY <1>1, <1>7 DEF Enqueue, EnqueueFails, BeginFails, Mishap, faults,
         TypeOK
    <2>3. RunOwes(j)' => RunOwes(j)
      BY <1>2, <1>7, <2>1 DEF Enqueue, EnqueueFails, BeginFails, TypeOK
    <2>4. Burden(j)' + mishaps[j] <= Burden(j) + mishaps'[j]
      BY <1>1, <1>2, <2>1, <2>2, <2>3
    <2> QED  BY <1>3, <2>4, NoMoreOwing
  <1>8. CASE Ages(i) \/ ProviderSettles(i)
    BY <1>1, <1>2, <1>3, <1>8, NoMoreOwing
       DEF Ages, ProviderSettles, job, queue, faults
  <1> QED  BY <1>4, <1>5, <1>6, <1>7, <1>8

LEMMA PaidStep == PaidInv /\ [Next]_vars => PaidInv'
  <1> SUFFICES ASSUME PaidInv, [Next]_vars PROVE PaidInv'
    OBVIOUS
  <1>1. TypeOK /\ TypeOK' /\ PlacesFit /\ PlacesFit'
    BY StepTypes, PlacesStep DEF PaidInv
  <1>2. ASSUME NEW j \in Jobs PROVE PaidFor(j)'
    <2>0. PaidFor(j)
      BY DEF PaidInv, PaidFor
    <2>1. CASE OtherUse \/ UNCHANGED vars
      <3>1. /\ UNCHANGED <<status, result, bull, worker, at, of, debits>>
            /\ UNCHANGED mishaps
        BY <2>1 DEF OtherUse, vars, job, queue, faults
      <3> QED  BY <2>0, <3>1 DEF PaidFor, Owed, RunOwes, Claimable, CallsOwing
    <2> QED  BY <1>1, <2>0, <2>1, RunPays, CallPays, RecoverPays, JobPays
             DEF Next
  <1> QED  BY <1>1, <1>2 DEF PaidInv, PaidFor

\* However runs, restarts and webhook requests of a job meet, it is paid once,
\* and once more at most for each death or failed statement.
THEOREM PaidOnce == Spec => []PaidOnceButForMishaps
  <1>1. Init => PaidInv
    <2> SUFFICES ASSUME Init PROVE PaidInv
      OBVIOUS
    <2>1. TypeOK
      BY InitTypes
    <2>2. PlacesFit
      BY DEF Init, PlacesFit
    <2>3. ASSUME NEW j \in Jobs PROVE debits[j] + Owed(j) <= 1 + mishaps[j]
      <3>1. CallsOwing(j) = {} /\ ~ RunOwes(j) /\ ~ Claimable(j)
        BY DEF Init, CallsOwing, RunOwes, Claimable
      <3>2. Owed(j) = 0
        BY <3>1, FS_EmptySet DEF Owed, Token
      <3> QED  BY <3>2 DEF Init
    <2> QED  BY <2>1, <2>2, <2>3 DEF PaidInv
  <1>2. PaidInv => PaidOnceButForMishaps
    <2> SUFFICES ASSUME PaidInv, NEW j \in Jobs
                 PROVE  debits[j] <= 1 + mishaps[j]
      BY DEF PaidOnceButForMishaps
    <2>1. Owed(j) \in Nat
      BY OwingFinite, TokenTypes DEF Owed, Token
    <2>2. debits[j] \in Nat /\ mishaps[j] \in Nat
      BY DEF PaidInv, TypeOK
    <2> QED  BY <2>1, <2>2 DEF PaidInv
  <1> QED  BY <1>1, <1>2, PaidStep, PTL DEF Spec

-----------------------------------------------------------------------------
(* The overdraft.  The wallet, with what the excess of costs over estimates *)
(* and late recoveries may ask of it added, covers the newest estimate once *)
(* for every run that has not paid and every recovery before its debit.     *)
(* createJob counts jobs by their status, though: a run may be on its way   *)
(* while its job is not in progress any more.  Of these there are no more   *)
(* than recoveries and mishaps so far (LateFit).                            *)

Coming ==
    {j \in Jobs : \/ bull[j] \in {"adding", "waiting"}
                  \/ worker[j] \in {"submit", "save", "poll", "download", "debit"}}

Debiting == {h \in Calls : at[h] = "debit"}

Covering == {h \in Calls : at[h] \in {"notify", "giveUp"}}

Busy == {h \in Calls : at[h] # "idle"}

Orphaned ==
    {j \in Coming : j \notin Active /\ \A h \in Covering : of[h] # j}

LateFit == Cardinality(Busy) + Cardinality(Orphaned) <= late

Means == wallet + spent + excess + late * MaxCost

Outstanding == Cardinality(Coming) + Cardinality(Debiting)

Solvent == newest * Outstanding <= Means

OverdraftInv == TypeOK /\ PlacesFit /\ LateFit /\ Solvent

LEMMA SetsFinite ==
    /\ IsFiniteSet(Active) /\ IsFiniteSet(Coming) /\ IsFiniteSet(Orphaned)
    /\ IsFiniteSet(Debiting) /\ IsFiniteSet(Covering) /\ IsFiniteSet(Busy)
  <1>1. /\ Active \subseteq Jobs /\ Coming \subseteq Jobs
        /\ Orphaned \subseteq Jobs
        /\ Debiting \subseteq Calls /\ Covering \subseteq Calls
        /\ Busy \subseteq Calls
    BY DEF Active, Coming, Orphaned, Debiting, Covering, Busy
  <1> QED  BY <1>1, VideoAssumption, FS_Subset

LEMMA SetsFinitePrimed ==
    /\ IsFiniteSet(Coming') /\ IsFiniteSet(Orphaned')
    /\ IsFiniteSet(Debiting') /\ IsFiniteSet(Busy')
  <1>1. /\ Coming' \subseteq Jobs /\ Orphaned' \subseteq Jobs
        /\ Debiting' \subseteq Calls /\ Busy' \subseteq Calls
    BY DEF Coming, Orphaned, Debiting, Busy
  <1> QED  BY <1>1, VideoAssumption, FS_Subset

LEMMA Sizes ==
    /\ Cardinality(Active) \in Nat /\ Cardinality(Coming) \in Nat
    /\ Cardinality(Orphaned) \in Nat /\ Cardinality(Debiting) \in Nat
    /\ Cardinality(Covering) \in Nat /\ Cardinality(Busy) \in Nat
    /\ Cardinality(Coming') \in Nat /\ Cardinality(Orphaned') \in Nat
    /\ Cardinality(Debiting') \in Nat /\ Cardinality(Busy') \in Nat
  BY SetsFinite, SetsFinitePrimed, FS_CardinalityType

LEMMA NoLarger ==
    ASSUME NEW S, NEW T, IsFiniteSet(S), T \subseteq S
    PROVE  Cardinality(T) <= Cardinality(S)
  BY FS_Subset

LEMMA AtMostOneMore ==
    ASSUME NEW S, NEW T, NEW x, IsFiniteSet(S), T \subseteq S \cup {x}
    PROVE  Cardinality(T) <= Cardinality(S) + 1
  <1>1. /\ IsFiniteSet(S \cup {x})
        /\ Cardinality(S \cup {x}) <= Cardinality(S) + 1
    BY OneElementMore
  <1>2. Cardinality(T) <= Cardinality(S \cup {x}) /\ IsFiniteSet(T)
    BY <1>1, FS_Subset
  <1> QED  BY <1>1, <1>2, FS_CardinalityType

LEMMA OneLess ==
    ASSUME NEW S, NEW T, NEW x \in S, IsFiniteSet(S), T \subseteq S \ {x}
    PROVE  Cardinality(T) <= Cardinality(S) - 1
  <1>1. /\ IsFiniteSet(S \ {x})
        /\ Cardinality(S \ {x}) = Cardinality(S) - 1
    BY FS_RemoveElement
  <1>2. Cardinality(T) <= Cardinality(S \ {x})
    BY <1>1, FS_Subset
  <1> QED  BY <1>1, <1>2

LEMMA UnionBound ==
    ASSUME NEW S, NEW T, IsFiniteSet(S), IsFiniteSet(T)
    PROVE  /\ IsFiniteSet(S \cup T)
           /\ Cardinality(S \cup T) <= Cardinality(S) + Cardinality(T)
  <1>1. IsFiniteSet(S \cap T)
    BY FS_Subset, S \cap T \subseteq S
  <1>2. /\ Cardinality(S \cap T) \in Nat
        /\ Cardinality(S) \in Nat /\ Cardinality(T) \in Nat
    BY <1>1, FS_CardinalityType
  <1>3. /\ IsFiniteSet(S \cup T)
        /\ Cardinality(S \cup T) =
              Cardinality(S) + Cardinality(T) - Cardinality(S \cap T)
    BY FS_Union
  <1> QED  BY <1>2, <1>3

\* Runs that have not paid and recoveries before their debit are no more than
\* the jobs in progress and the late.
LEMMA OutstandingBound ==
    ASSUME TypeOK, LateFit
    PROVE  Outstanding <= Cardinality(Active) + late
  <1> DEFINE covered == {of[h] : h \in Covering}
             f == [h \in Covering |-> of[h]]
  <1>1. f \in Surjection(Covering, covered)
    BY DEF Surjection
  <1>2. /\ IsFiniteSet(covered)
        /\ Cardinality(covered) <= Cardinality(Covering)
        /\ Cardinality(covered) \in Nat
    BY <1>1, SetsFinite, FS_Surjection, FS_CardinalityType
  <1> HIDE DEF f
  <1>3. Coming \subseteq (Active \cup Orphaned) \cup covered
    BY DEF Orphaned
  <1> HIDE DEF covered
  <1>4. Cardinality(Coming) <=
            Cardinality(Active) + Cardinality(Orphaned) + Cardinality(covered)
    <2>1. /\ IsFiniteSet(Active \cup Orphaned)
          /\ Cardinality(Active \cup Orphaned) <=
                Cardinality(Active) + Cardinality(Orphaned)
          /\ Cardinality(Active \cup Orphaned) \in Nat
      BY SetsFinite, UnionBound, FS_CardinalityType
    <2>2. /\ IsFiniteSet((Active \cup Orphaned) \cup covered)
          /\ Cardinality((Active \cup Orphaned) \cup covered) <=
                Cardinality(Active \cup Orphaned) + Cardinality(covered)
          /\ Cardinality((Active \cup Orphaned) \cup covered) \in Nat
      BY <1>2, <2>1, UnionBound, FS_CardinalityType
    <2>3. Cardinality(Coming) <= Cardinality((Active \cup Orphaned) \cup covered)
      BY <1>3, <2>2, NoLarger
    <2> QED  BY <1>2, <2>1, <2>2, <2>3, Sizes
  <1>5. Cardinality(Debiting) + Cardinality(Covering) <= Cardinality(Busy)
    <2>1. Debiting \cap Covering = {} /\ Debiting \cup Covering \subseteq Busy
      BY DEF Debiting, Covering, Busy
    <2>2. Cardinality(Debiting \cup Covering) =
              Cardinality(Debiting) + Cardinality(Covering)
      <3>1. Cardinality(Debiting \cup Covering) =
                Cardinality(Debiting) + Cardinality(Covering)
                    - Cardinality(Debiting \cap Covering)
        BY SetsFinite, FS_Union
      <3>2. Cardinality(Debiting \cap Covering) = 0
        BY <2>1, FS_EmptySet, Zenon
      <3> QED  BY <3>1, <3>2, Sizes
    <2>3. Cardinality(Debiting \cup Covering) <= Cardinality(Busy)
      BY <2>1, SetsFinite, NoLarger
    <2> QED  BY <2>2, <2>3
  <1>6. late \in Nat
    BY DEF TypeOK
  <1> QED  BY <1>2, <1>4, <1>5, <1>6, Sizes DEF LateFit, Outstanding

LEMMA Times ==
    ASSUME NEW e \in Nat, NEW x \in Int, NEW y \in Int, x <= y
    PROVE  e * x \in Int /\ e * y \in Int /\ e * x <= e * y
  OBVIOUS

LEMMA TimesMore ==
    ASSUME NEW e \in Nat, NEW x \in Int
    PROVE  e * (x + 1) = e * x + e /\ e * (x - 1) = e * x - e
  OBVIOUS

LEMMA MoreTimes ==
    ASSUME NEW e \in Nat, NEW m \in Nat, e <= m, NEW l \in Nat
    PROVE  e * l \in Nat /\ l * m \in Nat /\ e * l <= l * m
  OBVIOUS

LEMMA NatTimes ==
    ASSUME NEW x \in Nat, NEW y \in Nat
    PROVE  x * y \in Nat
  OBVIOUS

LEMMA TimesSum ==
    ASSUME NEW e \in Int, NEW x \in Int, NEW y \in Int
    PROVE  e * (x + y) = x * e + e * y /\ x * e \in Int
  OBVIOUS

LEMMA TimesCommutes ==
    ASSUME NEW x \in Int, NEW y \in Int
    PROVE  x * y = y * x /\ x * y \in Int
  OBVIOUS

LEMMA Numbers ==
    ASSUME TypeOK, TypeOK'
    PROVE  /\ wallet \in Int /\ wallet' \in Int /\ spent \in Nat /\ spent' \in Nat
           /\ excess \in Nat /\ excess' \in Nat
           /\ late \in Nat /\ late' \in Nat /\ MaxCost \in Nat
           /\ newest \in Nat /\ newest' \in Nat
           /\ newest <= MaxCost /\ newest' <= MaxCost
           /\ Outstanding \in Nat /\ Outstanding' \in Nat
           /\ Outstanding' = Cardinality(Coming') + Cardinality(Debiting')
  BY VideoAssumption, Sizes DEF TypeOK, Outstanding

\* A step that takes nothing from the means and adds nothing to what is
\* outstanding.
LEMMA StaysSolvent ==
    ASSUME TypeOK, TypeOK', Solvent,
           wallet' + spent' = wallet + spent, excess' = excess,
           newest' = newest, late <= late',
           Outstanding' <= Outstanding
    PROVE  Solvent'
  <1>1. newest * Outstanding' <= newest * Outstanding
        /\ newest * Outstanding' \in Int /\ newest * Outstanding \in Int
    BY Numbers, Times
  <1>2. late * MaxCost <= late' * MaxCost
        /\ late * MaxCost \in Int /\ late' * MaxCost \in Int
    BY Numbers, Times, TimesCommutes
  <1>4. newest * Outstanding <= Means
    BY DEF Solvent
  <1>5. Means <= Means' /\ Means \in Int /\ Means' \in Int
    BY <1>2, Numbers DEF Means
  <1> QED  BY <1>1, <1>4, <1>5 DEF Solvent

\* A payment: the estimate pays for it, the excess is allowed for.
LEMMA PaysAndStaysSolvent ==
    ASSUME TypeOK, TypeOK', Solvent, NEW j \in Jobs, Pays(j),
           spent' = spent, late' = late, newest' = newest,
           Outstanding' <= Outstanding - 1
    PROVE  Solvent'
  <1>1. PICK cost \in CostsOf(j) :
            wallet' = wallet - cost /\ excess' = excess + Above(cost)
    BY DEF Pays
  <1>2. cost \in Nat
    BY VideoAssumption DEF CostsOf
  <1>3. newest * Outstanding' <= newest * (Outstanding - 1)
        /\ newest * Outstanding' \in Int
    BY Numbers, Times
  <1>4. newest * (Outstanding - 1) = newest * Outstanding - newest
        /\ newest * Outstanding \in Int
    BY Numbers, TimesMore, TimesCommutes
  <1>5. cost - Above(cost) <= newest /\ Above(cost) \in Nat
    BY <1>2, Numbers DEF Above
  <1>6. late * MaxCost \in Int
    BY Numbers, TimesCommutes
  <1>7. newest * Outstanding <= Means
    BY DEF Solvent
  <1>8. Means' = Means - cost + Above(cost) /\ Means \in Int
    BY <1>1, <1>2, <1>5, <1>6, Numbers DEF Means
  <1> QED  BY <1>2, <1>3, <1>4, <1>5, <1>7, <1>8, Numbers DEF Solvent

\* A recovery or a mishap is allowed a whole cost.
LEMMA LateStaysSolvent ==
    ASSUME TypeOK, TypeOK', Solvent,
           wallet' = wallet, spent' = spent, excess' = excess,
           newest' = newest, late' = late + 1,
           Outstanding' <= Outstanding + 1
    PROVE  Solvent'
  <1>1. newest * Outstanding' <= newest * (Outstanding + 1)
        /\ newest * Outstanding' \in Int
    BY Numbers, Times
  <1>2. newest * (Outstanding + 1) = newest * Outstanding + newest
        /\ newest * Outstanding \in Int
    BY Numbers, TimesMore, TimesCommutes
  <1>3. late' * MaxCost = late * MaxCost + MaxCost /\ late * MaxCost \in Int
    <2>1. MaxCost * (late + 1) = MaxCost * late + MaxCost
      BY Numbers, TimesMore
    <2> QED  BY <2>1, Numbers, TimesCommutes
  <1>5. newest * Outstanding <= Means
    BY DEF Solvent
  <1>6. Means' = Means + MaxCost /\ Means \in Int
    BY <1>3, Numbers DEF Means
  <1> QED  BY <1>1, <1>2, <1>5, <1>6, Numbers DEF Solvent

\* Steps that only make the sets smaller, or leave them.
LEMMA FewerOutstanding ==
    ASSUME TypeOK, TypeOK', Coming' \subseteq Coming, Debiting' \subseteq Debiting
    PROVE  Outstanding' <= Outstanding
  <1>1. /\ Cardinality(Coming') <= Cardinality(Coming)
        /\ Cardinality(Debiting') <= Cardinality(Debiting)
    BY SetsFinite, NoLarger
  <1> QED  BY <1>1, Sizes, Numbers DEF Outstanding

LEMMA LateStillFits ==
    ASSUME TypeOK, TypeOK', LateFit, late <= late',
           Busy' \subseteq Busy, Orphaned' \subseteq Orphaned
    PROVE  LateFit'
  <1>1. /\ Cardinality(Busy') <= Cardinality(Busy)
        /\ Cardinality(Orphaned') <= Cardinality(Orphaned)
    BY SetsFinite, NoLarger
  <1> QED  BY <1>1, Sizes, Numbers DEF LateFit

\* A recovery ends: its job may be on its own now.
LEMMA CallEndsLateFits ==
    ASSUME TypeOK, TypeOK', LateFit, late <= late', NEW h \in Busy, NEW j,
           Busy' \subseteq Busy \ {h}, Orphaned' \subseteq Orphaned \cup {j}
    PROVE  LateFit'
  <1>1. Cardinality(Busy') <= Cardinality(Busy) - 1
    BY SetsFinite, OneLess
  <1>2. Cardinality(Orphaned') <= Cardinality(Orphaned) + 1
    BY SetsFinite, AtMostOneMore
  <1> QED  BY <1>1, <1>2, Sizes, Numbers DEF LateFit

LEMMA RunSets ==
    ASSUME TypeOK, TypeOK', PlacesFit, NEW i \in Jobs, RunStep(i)
    PROVE  /\ Coming' \subseteq Coming /\ Orphaned' \subseteq Orphaned
           /\ Debiting' = Debiting /\ Busy' = Busy
           /\ DebitWallet(i) => i \in Coming /\ Coming' \subseteq Coming \ {i}
  <1> USE DEF Runs
  <1>1. at' = at /\ of' = of
    BY DEF RunStep, Begin, Submit, SaveTask, PollSucceeds, Download,
       DebitWallet, Finish, Throws, GiveUp, Leave
  <1>2. Debiting' = Debiting /\ Busy' = Busy /\ Covering' = Covering
    BY <1>1 DEF Debiting, Busy, Covering
  <1>3. worker[i] # "none" => bull[i] = "active"
    BY DEF PlacesFit
  <1>4. Coming' \subseteq Coming
    <2>1. CASE Begin(i)
      BY <2>1 DEF Begin, Coming, TypeOK
    <2>2. CASE Submit(i) \/ SaveTask(i) \/ PollSucceeds(i) \/ Download(i)
      BY <2>2 DEF Submit, SaveTask, PollSucceeds, Download, Coming, TypeOK,
         queue
    <2>3. CASE DebitWallet(i) \/ Finish(i) \/ Throws(i) \/ GiveUp(i)
      BY <2>3 DEF DebitWallet, Finish, Throws, GiveUp, Coming, TypeOK, queue
    <2>4. CASE Leave(i)
      BY <2>4 DEF Leave, Coming, TypeOK
    <2> QED  BY <2>1, <2>2, <2>3, <2>4 DEF RunStep
  <1>5. DebitWallet(i) => i \in Coming /\ Coming' \subseteq Coming \ {i}
    BY <1>3, <1>4 DEF DebitWallet, Coming, TypeOK, queue
  <1>6. \A j \in Jobs : j \in Coming' /\ j \notin Active' => j \notin Active
    <2>1. CASE Begin(i)
      BY <2>1 DEF Begin, SetStatus, Active, TypeOK
    <2>2. CASE Finish(i)
      BY <1>3, <2>2 DEF Finish, SetStatus, Active, Coming, TypeOK, queue
    <2>3. CASE GiveUp(i)
      BY <1>3, <2>3 DEF GiveUp, SetStatus, Active, Coming, TypeOK, queue
    <2>4. CASE \/ Submit(i) \/ SaveTask(i) \/ PollSucceeds(i) \/ Download(i)
               \/ DebitWallet(i) \/ Throws(i) \/ Leave(i)
      BY <2>4 DEF Submit, SaveTask, PollSucceeds, Download, DebitWallet,
         Throws, Leave, Active, job
    <2> QED  BY <2>1, <2>2, <2>3, <2>4 DEF RunStep
  <1>7. Orphaned' \subseteq Orphaned
    BY <1>1, <1>2, <1>4, <1>6 DEF Orphaned, Coming
  <1> QED  BY <1>2, <1>4, <1>5, <1>7

LEMMA RunOverdraft ==
    ASSUME TypeOK, TypeOK', PlacesFit, LateFit, Solvent,
           NEW i \in Jobs, RunStep(i)
    PROVE  LateFit' /\ Solvent'
  <1>1. late <= late' /\ spent' = spent /\ newest' = newest
    BY DEF made, RunStep, Begin, Submit, SaveTask, PollSucceeds, Download, faults,
       DebitWallet, Finish, Throws, Mishap, GiveUp, Leave, TypeOK
  <1>2. LateFit'
    BY <1>1, RunSets, LateStillFits
  <1>3. Solvent'
    <2>1. CASE DebitWallet(i)
      <3>1. Cardinality(Coming') <= Cardinality(Coming) - 1
        BY <2>1, RunSets, SetsFinite, OneLess
      <3>2. Outstanding' <= Outstanding - 1
        BY <3>1, RunSets, Sizes DEF Outstanding
      <3> QED  BY <1>1, <2>1, <3>2, PaysAndStaysSolvent DEF DebitWallet, faults
    <2>2. CASE ~ DebitWallet(i)
      <3>1. wallet' = wallet /\ excess' = excess
        BY <2>2 DEF RunStep, Begin, Submit, SaveTask, PollSucceeds, Download,
           Finish, Throws, GiveUp, Leave, money
      <3>2. Outstanding' <= Outstanding
        BY RunSets, FewerOutstanding
      <3> QED  BY <1>1, <3>1, <3>2, StaysSolvent
    <2> QED  BY <2>1, <2>2
  <1> QED  BY <1>2, <1>3

LEMMA CallSets ==
    ASSUME TypeOK, TypeOK', NEW h \in Calls, CallStep(h) \/ RecoveryDies(h)
    PROVE  /\ h \in Busy /\ Coming' = Coming /\ Debiting' \subseteq Debiting
           /\ late <= late' /\ spent' = spent /\ newest' = newest
           /\ RecoveryDebits(h) =>
                  h \in Debiting /\ Debiting' \subseteq Debiting \ {h}
           /\ \/ Busy' \subseteq Busy /\ Orphaned' \subseteq Orphaned
              \/ /\ Busy' \subseteq Busy \ {h}
                 /\ Orphaned' \subseteq Orphaned \cup {of[h]}
  <1>0. at[h] # "idle" /\ of[h] \in Jobs
    BY DEF TypeOK, CallStep, RecoveryDebits, RecoveryFinishes, RecoveryThrows,
       RecoveryGivesUp, RecoveryLeaves, RecoveryDies
  <1>1. h \in Busy
    BY <1>0 DEF Busy
  <1>2. Coming' = Coming /\ spent' = spent /\ newest' = newest
    BY DEF made, Coming, CallStep, RecoveryDebits, RecoveryFinishes, RecoveryThrows,
       RecoveryGivesUp, RecoveryLeaves, RecoveryDies, queue
  <1>3. late <= late'
    BY DEF TypeOK, CallStep, RecoveryDebits, RecoveryFinishes, RecoveryThrows,
       RecoveryGivesUp, RecoveryLeaves, RecoveryDies, Mishap, faults
  <1>4. Debiting' \subseteq Debiting
    BY DEF Debiting, TypeOK, CallStep, RecoveryDebits, RecoveryFinishes,
       RecoveryThrows, RecoveryGivesUp, RecoveryLeaves, RecoveryDies, EndsCall
  <1>5. RecoveryDebits(h) => h \in Debiting /\ Debiting' \subseteq Debiting \ {h}
    BY <1>4 DEF Debiting, TypeOK, RecoveryDebits
  <1>6. \/ Busy' \subseteq Busy /\ Orphaned' \subseteq Orphaned
        \/ /\ Busy' \subseteq Busy \ {h}
           /\ Orphaned' \subseteq Orphaned \cup {of[h]}
    <2>1. CASE RecoveryDebits(h) \/ RecoveryThrows(h)
      <3>1. of' = of /\ Active' = Active
        BY <2>1 DEF RecoveryDebits, RecoveryThrows, Active, job
      <3>2. Busy' \subseteq Busy /\ Covering \subseteq Covering'
        BY <2>1 DEF RecoveryDebits, RecoveryThrows, Busy, Covering, TypeOK
      <3> QED  BY <1>2, <3>1, <3>2 DEF Orphaned
    <2>2. CASE RecoveryFinishes(h)
      <3>1. of' = of /\ Busy' \subseteq Busy
        BY <2>2 DEF RecoveryFinishes, Busy, TypeOK
      <3>2. h \in Covering' /\ Covering \subseteq Covering'
        BY <2>2 DEF RecoveryFinishes, Covering, TypeOK
      <3>3. \A j \in Jobs : j # of[h] /\ j \notin Active' => j \notin Active
        BY <1>0, <2>2 DEF RecoveryFinishes, SetStatus, Active, TypeOK
      <3>4. Orphaned' \subseteq Orphaned
        BY <1>2, <3>1, <3>2, <3>3 DEF Orphaned, Coming
      <3> QED  BY <3>1, <3>4
    <2>3. CASE RecoveryGivesUp(h) \/ RecoveryLeaves(h) \/ RecoveryDies(h)
      <3>1. EndsCall(h)
        BY <2>3 DEF RecoveryGivesUp, RecoveryLeaves, RecoveryDies
      <3>2. Busy' \subseteq Busy \ {h}
        BY <3>1 DEF EndsCall, Busy, TypeOK
      <3>3. \A g \in Covering : g = h \/ (g \in Covering' /\ of'[g] = of[g])
        BY <3>1 DEF EndsCall, Covering, TypeOK
      <3>4. \A j \in Jobs : j # of[h] /\ j \notin Active' => j \notin Active
        BY <1>0, <2>3 DEF RecoveryGivesUp, RecoveryLeaves, RecoveryDies,
           SetStatus, Active, TypeOK, job
      <3>5. Orphaned' \subseteq Orphaned \cup {of[h]}
        BY <1>2, <3>3, <3>4 DEF Orphaned, Coming
      <3> QED  BY <3>2, <3>5
    <2> QED  BY <2>1, <2>2, <2>3 DEF CallStep
  <1> QED  BY <1>1, <1>2, <1>3, <1>4, <1>5, <1>6

LEMMA CallOverdraft ==
    ASSUME TypeOK, TypeOK', LateFit, Solvent,
           NEW h \in Calls, CallStep(h) \/ RecoveryDies(h)
    PROVE  LateFit' /\ Solvent'
  <1>1. LateFit'
    <2>1. CASE Busy' \subseteq Busy /\ Orphaned' \subseteq Orphaned
      BY <2>1, CallSets, LateStillFits
    <2>2. CASE /\ Busy' \subseteq Busy \ {h}
               /\ Orphaned' \subseteq Orphaned \cup {of[h]}
      BY <2>2, CallSets, CallEndsLateFits
    <2> QED  BY <2>1, <2>2, CallSets
  <1>2. Solvent'
    <2>1. CASE RecoveryDebits(h)
      <3>1. of[h] \in Jobs /\ Pays(of[h]) /\ late' = late
        BY <2>1 DEF RecoveryDebits, TypeOK, faults
      <3>2. Cardinality(Debiting') <= Cardinality(Debiting) - 1
        BY <2>1, CallSets, SetsFinite, OneLess
      <3>3. Outstanding' <= Outstanding - 1
        BY <3>2, CallSets, Sizes DEF Outstanding
      <3> QED  BY <3>1, <3>3, CallSets, PaysAndStaysSolvent
    <2>2. CASE ~ RecoveryDebits(h)
      <3>1. wallet' = wallet /\ excess' = excess
        BY <2>2 DEF CallStep, RecoveryFinishes, RecoveryThrows,
           RecoveryGivesUp, RecoveryLeaves, RecoveryDies, money
      <3>2. Outstanding' <= Outstanding
        BY CallSets, FewerOutstanding
      <3> QED  BY <3>1, <3>2, CallSets, StaysSolvent
    <2> QED  BY <2>1, <2>2
  <1> QED  BY <1>1, <1>2

\* A recovery begins; its job is in progress again.
LEMMA RecoverOverdraft ==
    ASSUME TypeOK, TypeOK', LateFit, Solvent,
           NEW j \in Jobs, NEW h \in Calls, Recover(h, j)
    PROVE  LateFit' /\ Solvent'
  <1>1. /\ Coming' = Coming /\ late' = late + 1
        /\ wallet' = wallet /\ spent' = spent /\ excess' = excess
        /\ newest' = newest
    BY DEF made, Recover, Coming, queue, money
  <1>2. Debiting' \subseteq Debiting \cup {h} /\ Busy' \subseteq Busy \cup {h}
    BY DEF Recover, Debiting, Busy, TypeOK
  <1>3. Orphaned' \subseteq Orphaned
    <2>1. \A i \in Jobs : i \notin Active' => i \notin Active
      BY DEF Recover, Claimable, SetStatus, Active, TypeOK
    <2>2. \A g \in Covering : g \in Covering' /\ of'[g] = of[g]
      BY DEF Recover, Covering, TypeOK
    <2> QED  BY <1>1, <2>1, <2>2 DEF Orphaned, Coming
  <1>4. /\ Cardinality(Debiting') <= Cardinality(Debiting) + 1
        /\ Cardinality(Busy') <= Cardinality(Busy) + 1
    BY <1>2, SetsFinite, AtMostOneMore
  <1>5. Cardinality(Orphaned') <= Cardinality(Orphaned)
    BY <1>3, SetsFinite, NoLarger
  <1>6. LateFit'
    BY <1>1, <1>4, <1>5, Sizes, Numbers DEF LateFit
  <1>7. Outstanding' <= Outstanding + 1
    BY <1>1, <1>4, Sizes DEF Outstanding
  <1> QED  BY <1>1, <1>6, <1>7, LateStaysSolvent

\* The check of createJob: what is available pays for one estimate more.
LEMMA CreateOverdraft ==
    ASSUME TypeOK, TypeOK', LateFit, Solvent, NEW i \in Jobs, CreateJob(i)
    PROVE  LateFit' /\ Solvent'
  <1>1. /\ at' = at /\ of' = of /\ late' = late
        /\ wallet' = wallet /\ spent' = spent /\ excess' = excess
        /\ newest' = Estimate[i]
    BY DEF CreateJob, money, faults
  <1>2. Debiting' = Debiting /\ Busy' = Busy /\ Covering' = Covering
    BY <1>1 DEF Debiting, Busy, Covering
  <1>3. Coming' \subseteq Coming \cup {i}
    BY DEF CreateJob, Coming, TypeOK
  <1>4. /\ i \in Active'
        /\ \A j \in Jobs : j \notin Active' => j \notin Active
    BY DEF CreateJob, SetStatus, Active, TypeOK
  <1>5. Orphaned' \subseteq Orphaned
    BY <1>1, <1>2, <1>3, <1>4 DEF Orphaned, Coming
  <1>6. LateFit'
    BY <1>1, <1>2, <1>5, LateStillFits, Numbers
  <1>7. Solvent'
    <2>1. Cardinality(Coming') <= Cardinality(Coming) + 1
      BY <1>3, SetsFinite, AtMostOneMore
    <2>2. Outstanding' <= Outstanding + 1
      BY <1>2, <2>1, Sizes DEF Outstanding
    <2>3. Outstanding' <= Cardinality(Active) + late + 1
      BY <2>2, OutstandingBound, Numbers, Sizes
    <2> DEFINE active == Cardinality(Active)
    <2>4. active \in Nat /\ Outstanding' <= (active + late) + 1
      BY <2>3, Sizes
    <2>5. newest' <= wallet - active * newest'
      BY <1>1 DEF CreateJob, Available
    <2> HIDE DEF active
    <2>6. newest' * Outstanding' <= newest' * ((active + late) + 1)
          /\ newest' * Outstanding' \in Int
      BY <2>4, Numbers, Times
    <2>7. newest' * ((active + late) + 1) =
              newest' * (active + late) + newest'
      BY <2>4, Numbers, TimesMore
    <2>8. newest' * (active + late) = active * newest' + newest' * late
          /\ active * newest' \in Int
      BY <2>4, Numbers, TimesSum
    <2>9. newest' * late <= late * MaxCost
          /\ newest' * late \in Nat /\ late * MaxCost \in Nat
      BY Numbers, MoreTimes
    <2>11. Means' = Means
      BY <1>1 DEF Means
    <2>12. wallet + late * MaxCost <= Means
      BY <2>9, Numbers DEF Means
    <2>13. Means \in Int
      BY <2>9, Numbers DEF Means
    <2> QED  BY <2>5, <2>6, <2>7, <2>8, <2>9, <2>11, <2>12, <2>13, Numbers
             DEF Solvent
  <1> QED  BY <1>6, <1>7

\* A dead worker's job comes again: one more to pay for, and one mishap more.
LEMMA WorkerDiesOverdraft ==
    ASSUME TypeOK, TypeOK', LateFit, Solvent, NEW i \in Jobs, WorkerDies(i)
    PROVE  LateFit' /\ Solvent'
  <1>1. /\ at' = at /\ of' = of /\ status' = status /\ late' = late + 1
        /\ wallet' = wallet /\ spent' = spent /\ excess' = excess
        /\ newest' = newest
    BY DEF made, WorkerDies, Mishap, money, job
  <1>2. /\ Debiting' = Debiting /\ Busy' = Busy /\ Covering' = Covering
        /\ Active' = Active
    BY <1>1 DEF Debiting, Busy, Covering, Active
  <1>3. Coming' \subseteq Coming \cup {i}
    BY DEF WorkerDies, Coming, TypeOK
  <1>4. Orphaned' \subseteq Orphaned \cup {i}
    BY <1>1, <1>2, <1>3 DEF Orphaned
  <1>5. /\ Cardinality(Coming') <= Cardinality(Coming) + 1
        /\ Cardinality(Orphaned') <= Cardinality(Orphaned) + 1
    BY <1>3, <1>4, SetsFinite, AtMostOneMore
  <1>6. LateFit'
    BY <1>1, <1>2, <1>5, Sizes, Numbers DEF LateFit
  <1>7. Outstanding' <= Outstanding + 1
    BY <1>2, <1>5, Sizes DEF Outstanding
  <1> QED  BY <1>1, <1>6, <1>7, LateStaysSolvent

LEMMA QuietOverdraft ==
    ASSUME TypeOK, TypeOK', LateFit, Solvent,
           \/ OtherUse \/ UNCHANGED vars
           \/ \E j \in Jobs : \/ Enqueue(j) \/ EnqueueFails(j) \/ Ages(j)
                              \/ BeginFails(j) \/ ProviderSettles(j)
    PROVE  LateFit' /\ Solvent'
  <1>1. /\ at' = at /\ of' = of /\ status' = status /\ worker' = worker
        /\ excess' = excess /\ newest' = newest /\ late <= late'
    BY DEF made, OtherUse, vars, Enqueue, EnqueueFails, Ages, BeginFails,
       ProviderSettles, Mishap, job, money, faults, TypeOK
  <1>2. wallet' + spent' = wallet + spent
    <2>1. CASE OtherUse
      BY <2>1, VideoAssumption DEF OtherUse, TypeOK
    <2>2. CASE ~ OtherUse
      BY <2>2 DEF vars, Enqueue, EnqueueFails, Ages, BeginFails,
         ProviderSettles, money
    <2> QED  BY <2>1, <2>2
  <1>3. Debiting' = Debiting /\ Busy' = Busy /\ Covering' = Covering
        /\ Active' = Active
    BY <1>1 DEF Debiting, Busy, Covering, Active
  <1>4. Coming' \subseteq Coming
    BY <1>1 DEF OtherUse, vars, Enqueue, EnqueueFails, Ages, BeginFails,
       ProviderSettles, queue, Coming, TypeOK
  <1>5. Orphaned' \subseteq Orphaned
    BY <1>1, <1>3, <1>4 DEF Orphaned
  <1>6. Outstanding' <= Outstanding
    BY <1>3, <1>4, FewerOutstanding
  <1> QED  BY <1>1, <1>2, <1>3, <1>5, <1>6, LateStillFits, StaysSolvent

LEMMA OverdraftStep == OverdraftInv /\ [Next]_vars => OverdraftInv'
  <1> SUFFICES ASSUME OverdraftInv, [Next]_vars PROVE OverdraftInv'
    OBVIOUS
  <1>1. TypeOK /\ PlacesFit /\ LateFit /\ Solvent
    BY DEF OverdraftInv
  <1>2. TypeOK' /\ PlacesFit'
    BY <1>1, StepTypes, PlacesStep
  <1>3. LateFit' /\ Solvent'
    <2>1. ASSUME NEW j \in Jobs, RunStep(j) PROVE LateFit' /\ Solvent'
      BY <1>1, <1>2, <2>1, RunOverdraft
    <2>2. ASSUME NEW h \in Calls, CallStep(h) \/ RecoveryDies(h)
          PROVE  LateFit' /\ Solvent'
      BY <1>1, <1>2, <2>2, CallOverdraft
    <2>3. ASSUME NEW j \in Jobs, NEW h \in Calls, Recover(h, j)
          PROVE  LateFit' /\ Solvent'
      BY <1>1, <1>2, <2>3, RecoverOverdraft
    <2>4. ASSUME NEW j \in Jobs, CreateJob(j) PROVE LateFit' /\ Solvent'
      BY <1>1, <1>2, <2>4, CreateOverdraft
    <2>5. ASSUME NEW j \in Jobs, WorkerDies(j) PROVE LateFit' /\ Solvent'
      BY <1>1, <1>2, <2>5, WorkerDiesOverdraft
    <2>6. CASE \/ OtherUse \/ UNCHANGED vars
               \/ \E j \in Jobs : \/ Enqueue(j) \/ EnqueueFails(j) \/ Ages(j)
                                  \/ BeginFails(j) \/ ProviderSettles(j)
      BY <1>1, <1>2, <2>6, QuietOverdraft
    <2> QED  BY <2>1, <2>2, <2>3, <2>4, <2>5, <2>6 DEF Next
  <1> QED  BY <1>2, <1>3 DEF OverdraftInv

\* A wallet is overdrawn only by what the costs of the paid jobs exceed the
\* newest estimate by, and by one cost for every recovery and every mishap.
THEOREM OverdrawnWithinBounds == Spec => []OverdraftBounded
  <1>1. Init => OverdraftInv
    <2> SUFFICES ASSUME Init PROVE OverdraftInv
      OBVIOUS
    <2>1. TypeOK /\ PlacesFit
      BY InitTypes DEF Init, PlacesFit
    <2>2. Coming = {} /\ Debiting = {} /\ Busy = {} /\ Orphaned = {}
      BY DEF Init, Coming, Debiting, Busy, Orphaned
    <2>3. /\ Cardinality(Coming) = 0 /\ Cardinality(Debiting) = 0
          /\ Cardinality(Busy) = 0 /\ Cardinality(Orphaned) = 0
      BY <2>2, FS_EmptySet, Zenon
    <2>4. LateFit
      BY <2>3 DEF Init, LateFit
    <2>5. Outstanding = 0 /\ Means = wallet /\ wallet \in Nat
      BY <2>3, VideoAssumption DEF Init, Outstanding, Means
    <2>6. Solvent
      BY <2>5, VideoAssumption DEF Init, Solvent
    <2> QED  BY <2>1, <2>4, <2>6 DEF OverdraftInv
  <1>2. OverdraftInv => OverdraftBounded
    <2> SUFFICES ASSUME OverdraftInv PROVE OverdraftBounded
      OBVIOUS
    <2>1. newest \in Nat /\ Outstanding \in Nat /\ Solvent
      BY VideoAssumption, Sizes DEF OverdraftInv, Outstanding, TypeOK
    <2>2. newest * Outstanding \in Nat
      BY <2>1, NatTimes
    <2>3. Means \in Int
      <3>1. late * MaxCost \in Int
        BY VideoAssumption, TimesCommutes DEF OverdraftInv, TypeOK
      <3> QED  BY <3>1 DEF Means, OverdraftInv, TypeOK
    <2> QED  BY <2>1, <2>2, <2>3 DEF Solvent, Means, OverdraftBounded
  <1> QED  BY <1>1, <1>2, OverdraftStep, PTL DEF Spec

=============================================================================
