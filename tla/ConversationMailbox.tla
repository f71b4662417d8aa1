------------------------- MODULE ConversationMailbox -------------------------
(***************************************************************************)
(* The requests of one conversation: the Redis lock that lets one turn of  *)
(* the engine run at a time, and the list where messages wait that come    *)
(* while a turn runs (conversation-lock.service.ts and the handlers around *)
(* it in conversation-engine.service.ts).  Every Redis command is a step.  *)
(***************************************************************************)
EXTENDS Integers, Sequences

CONSTANTS
    Messages,         \* requests that carry a free message
    Actions,          \* requests for a button, a receipt, a checkout
    Free,             \* nobody holds the lock
    MaxPending,       \* CONVERSATION_PENDING_MAX_MESSAGES
    MaxRounds         \* CONVERSATION_DRAIN_MAX_ROUNDS

Requests == Messages \cup Actions

ASSUME MailboxAssumption ==
    /\ Messages \cap Actions = {}
    /\ Free \notin Requests
    /\ MaxPending \in Nat \ {0}
    /\ MaxRounds \in Nat

VARIABLES
    lock,     \* lock:conv: who set the token it holds; a request that comes
              \* back for the lock has given its old token up before
    pending,  \* conv:pending, oldest first
    pc,       \* where each request is
    round,    \* rounds of draining a request has begun
    batch,    \* what a request drained and is answering
    arrived,  \* history: the messages put in the list, in that order
    log,      \* history: the messages that were answered, in that order
    overran,  \* history: the requests at work whose lock ran out under them
    late      \* history: the waiting messages answered by such a request

history == <<arrived, log, overran, late>>
vars == <<lock, pending, pc, round, batch, history>>

Holding == {"turn", "drain", "batch", "release", "leave", "fail"}
Between == {"count", "reacquire"}
Ended   == {"queued", "busy", "done", "failed", "dead"}
Places  == {"new", "refused"} \cup Holding \cup Between \cup Ended

TypeOK ==
    /\ lock \in Requests \cup {Free}
    /\ pending \in Seq(Messages) /\ Len(pending) <= MaxPending
    /\ pc \in [Requests -> Places]
    /\ round \in [Requests -> Nat]
    /\ batch \in [Requests -> Seq(Messages)]
    /\ arrived \in Seq(Messages)
    /\ log \in Seq(Messages)
    /\ overran \subseteq Requests
    /\ late \subseteq Messages

Init ==
    /\ lock = Free
    /\ pending = <<>>
    /\ pc = [r \in Requests |-> "new"]
    /\ round = [r \in Requests |-> 0]
    /\ batch = [r \in Requests |-> <<>>]
    /\ arrived = <<>>
    /\ log = <<>>
    /\ overran = {}
    /\ late = {}

Go(r, from, to) == pc[r] = from /\ pc' = [pc EXCEPT ![r] = to]

\* SET NX
Take(r) == lock = Free /\ lock' = r

\* Mutant: the key is deleted whoever set it.
ReleaseAny(r) == lock' = Free /\ overran' = overran \ {r}

\* RELEASE_LUA: only the holder of the token deletes it.
Release(r) ==
    /\ lock' = IF lock = r THEN Free ELSE lock
    /\ overran' = overran \ {r}

-----------------------------------------------------------------------------
(* A request comes.                                                        *)

Begin(r) ==
    /\ Go(r, "new", "turn")
    /\ Take(r)
    /\ UNCHANGED <<pending, round, batch, history>>

Refused(m) ==
    /\ lock # Free
    /\ Go(m, "new", "refused")
    /\ UNCHANGED <<lock, pending, round, batch, history>>

\* Mutant: a flood of messages is not cut.
NewestAll(s) == s

\* LTRIM: the oldest are dropped.
Newest(s) == IF Len(s) > MaxPending THEN SubSeq(s, Len(s) - MaxPending + 1, Len(s))
                                    ELSE s

\* Mutant: the message is put at the wrong end of the list.
EnqueueLeft(m) ==
    /\ Go(m, "refused", "queued")
    /\ pending' = Newest(<<m>> \o pending)
    /\ arrived' = Append(arrived, m)
    /\ UNCHANGED <<lock, round, batch, log, overran, late>>

Enqueue(m) ==
    /\ Go(m, "refused", "queued")
    /\ pending' = Newest(Append(pending, m))
    /\ arrived' = Append(arrived, m)
    /\ UNCHANGED <<lock, round, batch, log, overran, late>>

\* An action waits a few seconds for the lock, then tells the buyer to wait.
GiveUp(a) ==
    /\ lock # Free
    /\ Go(a, "new", "busy")
    /\ UNCHANGED <<lock, pending, round, batch, history>>

-----------------------------------------------------------------------------
(* The turn, and the messages that came while it ran.                      *)

FinishTurn(r) ==
    /\ Go(r, "turn", "drain")
    /\ log' = IF r \in Messages THEN Append(log, r) ELSE log
    /\ UNCHANGED <<lock, pending, round, batch, arrived, overran, late>>

TurnThrows(r) ==
    /\ Go(r, "turn", "fail")
    /\ UNCHANGED <<lock, pending, round, batch, history>>

\* Mutant: the list is read and not deleted.
DrainKeeps(r) ==
    /\ round[r] < MaxRounds
    /\ pending # <<>>
    /\ Go(r, "drain", "batch")
    /\ batch' = [batch EXCEPT ![r] = pending]
    /\ UNCHANGED <<lock, pending, round, history>>

Drain(r) ==
    /\ round[r] < MaxRounds
    /\ pending # <<>>
    /\ Go(r, "drain", "batch")
    /\ batch' = [batch EXCEPT ![r] = pending]
    /\ pending' = <<>>
    /\ UNCHANGED <<lock, round, history>>

\* The drained messages are one turn; if it throws they are only logged.
FinishBatch(r, throws) ==
    /\ Go(r, "batch", "drain")
    /\ log' = IF throws THEN log ELSE log \o batch[r]
    /\ late' = IF throws \/ r \notin overran THEN late
               ELSE late \cup {batch[r][i] : i \in DOMAIN batch[r]}
    /\ batch' = [batch EXCEPT ![r] = <<>>]
    /\ round' = [round EXCEPT ![r] = @ + 1]
    /\ UNCHANGED <<lock, pending, arrived, overran>>

FindNone(r) ==
    /\ round[r] < MaxRounds
    /\ pending = <<>>
    /\ Go(r, "drain", "release")
    /\ UNCHANGED <<lock, pending, round, batch, history>>

OutOfRounds(r) ==
    /\ round[r] >= MaxRounds
    /\ Go(r, "drain", "leave")
    /\ UNCHANGED <<lock, pending, round, batch, history>>

ReleaseToCount(r) ==
    /\ Go(r, "release", "count")
    /\ Release(r)
    /\ UNCHANGED <<pending, round, batch, arrived, log, late>>

\* Mutant: the list is not looked at again after the release.
CountNothing(r) ==
    /\ Go(r, "count", "done")
    /\ UNCHANGED <<lock, pending, round, batch, history>>

Count(r) ==
    /\ Go(r, "count", IF pending = <<>> THEN "done" ELSE "reacquire")
    /\ UNCHANGED <<lock, pending, round, batch, history>>

Reacquire(r) ==
    \/ /\ Go(r, "reacquire", "drain")
       /\ Take(r)
       /\ round' = [round EXCEPT ![r] = @ + 1]
       /\ UNCHANGED <<pending, batch, history>>
    \/ /\ Go(r, "reacquire", "done")
       /\ lock # Free
       /\ UNCHANGED <<lock, pending, round, batch, history>>

Leave(r) ==
    /\ Go(r, "leave", "done") \/ Go(r, "fail", "failed")
    /\ Release(r)
    /\ UNCHANGED <<pending, round, batch, arrived, log, late>>

-----------------------------------------------------------------------------
(* Time and crashes.                                                       *)

Crash(r) ==
    /\ pc[r] \notin Ended \cup {"new"}
    /\ pc' = [pc EXCEPT ![r] = "dead"]
    /\ overran' = overran \ {r}
    /\ UNCHANGED <<lock, pending, round, batch, arrived, log, late>>

\* The key lives CONVERSATION_LOCK_TTL_MS from when it was set and is never
\* renewed; a request that holds it for several turns is not stopped by that.
LockExpires ==
    /\ lock # Free
    /\ lock' = Free
    /\ overran' = overran \cup {r \in {lock} : pc[r] \in Holding}
    /\ UNCHANGED <<pending, pc, round, batch, arrived, log, late>>

\* Ten minutes without a new message; no request takes that long.
PendingExpires ==
    /\ pending # <<>>
    /\ \A r \in Requests : pc[r] \in Ended \cup {"new"}
    /\ pending' = <<>>
    /\ UNCHANGED <<lock, pc, round, batch, history>>

-----------------------------------------------------------------------------

\* A request that was let in or refused goes on.
GoesOn(r) ==
    \/ FinishTurn(r) \/ TurnThrows(r) \/ Drain(r)
    \/ \E throws \in BOOLEAN : FinishBatch(r, throws)
    \/ FindNone(r) \/ OutOfRounds(r) \/ ReleaseToCount(r) \/ Count(r)
    \/ Reacquire(r) \/ Leave(r)
    \/ r \in Messages /\ Enqueue(r)

Next ==
    \/ \E r \in Requests : Begin(r) \/ GoesOn(r) \/ Crash(r)
    \/ \E m \in Messages : Refused(m)
    \/ \E a \in Actions : GiveUp(a)
    \/ LockExpires
    \/ PendingExpires

Spec == Init /\ [][Next]_vars

\* A live request goes on; Redis lets a key expire.
FairSpec ==
    /\ Spec
    /\ \A r \in Requests : WF_vars(GoesOn(r))
    /\ WF_vars(LockExpires)

-----------------------------------------------------------------------------

InTurn(r) == pc[r] \in {"turn", "batch"}

\* If two requests run a turn of the conversation at the same time, the lock of
\* one of them has run out under it.  A request whose lock ran out takes nobody
\* else's away when it ends or comes back, so its overrun never lets two others
\* in, although holders give the lock up in the middle and return for it, and
\* although holders die (conversation-lock.service.ts 11-18, 58;
\* conversation-engine.service.ts 5263-5305).
OneTurnAtATime ==
    \A r, q \in Requests :
        InTurn(r) /\ InTurn(q) /\ r # q => r \in overran \/ q \in overran

\* No message is answered twice, not by two requests that drain one after the
\* other, not by its own request and a drain (conversation-lock.service.ts 75-80).
AnsweredOnce ==
    \A i, j \in DOMAIN log : log[i] = log[j] => i = j

\* Of the messages that waited, the earlier is never answered after the later
\* one, over all drains by whichever request, unless one of the two was answered
\* by a request whose lock had run out (conversation-lock.service.ts 74).
WaitedInOrder ==
    \A i, j \in DOMAIN log, a, b \in DOMAIN arrived :
        /\ arrived[a] = log[i] /\ arrived[b] = log[j] /\ i < j
        /\ {log[i], log[j]} \cap late = {}
        => a < b

Waiting(m) == \E i \in DOMAIN pending : pending[i] = m

\* Some request has yet to look at the list.
Attended == \E r \in Requests : pc[r] \in (Holding \ {"leave", "fail"}) \cup Between

\* In this step, or holding the lock in it, a request fails, ends without a
\* look at the list, or is dead.
GivesUpOnList ==
    \E r \in Requests : /\ pc'[r] \in {"fail", "leave", "dead"}
                        /\ pc'[r] # pc[r] \/ lock = r

\* The second look after the release covers what came between the drain and the
\* release, and a request that comes back too late for the lock may go, because
\* whoever took it looks at the list itself: a message somebody has yet to look
\* at is never left behind by a step, unless the one who was to look fails, runs
\* out of rounds or dies (conversation-engine.service.ts 5274-5281).
AttendedUntilGone ==
    [][\A m \in Messages :
          Waiting(m) /\ Attended => Attended' \/ ~Waiting(m)' \/ GivesUpOnList]_vars

\* And it does leave the list, unless a turn failed, a process died or a request
\* has used up its rounds.
Failed == \E r \in Requests : pc[r] \in {"fail", "failed", "dead"}

Exhausted == \E r \in Requests : round[r] >= MaxRounds

AttendedMessageLeaves ==
    \A m \in Messages :
        Waiting(m) /\ Attended ~> ~Waiting(m) \/ Failed \/ Exhausted

=============================================================================
