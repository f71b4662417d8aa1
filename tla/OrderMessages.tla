---------------------------- MODULE OrderMessages ----------------------------
(***************************************************************************)
(* The messages about orders to one buyer.  Cron passes (OrderOpsService,  *)
(* OrderExpiryService) claim a reminder in the row of the order or refund; *)
(* requests tell news once what they did has committed.  Both call         *)
(* NotificationService.notifyBuyer, which for each channel sets a key and  *)
(* adds a job to the queue, and NotificationDeliveryService works the jobs *)
(* off, each tried MaxTries times.                                         *)
(*                                                                         *)
(* Passes overlap (several replicas run the cron), every statement that    *)
(* leaves the process is a step, and a process may die or a statement fail *)
(* between any two.  Time of day is left out: the quiet hours only delay a *)
(* job, and all text messages fall on one day of the daily cap.            *)
(***************************************************************************)
EXTENDS Naturals, FiniteSets

CONSTANTS
    Reminders,   \* payment reminder, delivery check, refund reminder
    News,        \* what requests tell: placed, approved, shipped, ...
    TextOnly,    \* those that are no chat message: ORDER_PLACED
    Passes,      \* cron passes at a time
    Requests,    \* requests that notify at a time
    Nobody,      \* no message
    MaxTries,    \* NOTIFICATION_JOB_ATTEMPTS
    SmsCap,      \* NOTIFICATION_SMS_DAILY_CAP_PER_BUYER
    ShortKeys,   \* bound: keys that may expire while the rest goes on
    Copies,      \* bound: jobs <<message, channel, n>> there may be
    MaxNews,     \* bound: news told by all requests
    MaxMishaps   \* bound: deaths and failed enqueues

ASSUME MessagesAssumption ==
    /\ Reminders \cap News = {}
    /\ TextOnly \subseteq News
    /\ Passes \cap Requests = {}
    /\ Nobody \notin Reminders \cup News
    /\ ShortKeys \subseteq (Reminders \cup News) \X {"CHAT", "SMS"}
    /\ MaxTries \in Nat \ {0}
    /\ Copies \subseteq (Reminders \cup News) \X {"CHAT", "SMS"} \X Nat
    /\ SmsCap \in Nat /\ MaxNews \in Nat
    /\ MaxMishaps \in Nat

Channels == {"CHAT", "SMS"}
Messages == Reminders \cup News
ChannelsOf(m) == IF m \in TextOnly THEN {"SMS"} ELSE Channels
Senders == Passes \cup Requests

VARIABLES
    due,       \* reminders whose order or refund still waits for it
    marked,    \* paymentReminderSentAt, deliveryCheckSentAt, ... is set
    batch,     \* what a pass has read and not come to yet
    about,     \* the message a sender is notifying of
    todo,      \* the channels it has left
    at,        \* where it is
    key,       \* channels and messages whose notif: key exists
    copies,    \* jobs added so far
    place,     \* where a job is; done: delivered, skipped or given up
    tries,     \* attempts of a job that failed
    stalled,   \* whether the queue has handed it out again
    count,     \* notif:smscap
    texts,     \* text messages that reached the buyer
    chats,     \* how often a reminder is written into the conversation
    failed,    \* history: failed attempts and deaths in its chat delivery
    lost,      \* history: reminders and channels a mishap kept from the queue
    told,      \* history: news told
    mishaps    \* history: deaths and failed enqueues

rows == <<due, marked>>
sender == <<batch, about, todo, at>>
queue == <<copies, place, tries, stalled>>
sent == <<count, texts, chats, failed>>
faults == <<lost, mishaps>>
vars == <<due, marked, batch, about, todo, at, key, copies, place, tries,
          stalled, count, texts, chats, failed, lost, told, mishaps>>

Init ==
    /\ due = Reminders
    /\ marked = {}
    /\ batch = [p \in Passes |-> {}]
    /\ about = [s \in Senders |-> Nobody]
    /\ todo = [s \in Senders |-> {}]
    /\ at = [s \in Senders |-> "idle"]
    /\ key = {}
    /\ copies = [x \in Messages \X Channels |-> 0]
    /\ place = [j \in Copies |-> "none"]
    /\ tries = [j \in Copies |-> 0]
    /\ stalled = [j \in Copies |-> FALSE]
    /\ count = 0
    /\ texts = 0
    /\ chats = [m \in Reminders |-> 0]
    /\ failed = [m \in Reminders |-> 0]
    /\ lost = {}
    /\ told = 0
    /\ mishaps = 0

-----------------------------------------------------------------------------
(* Who notifies *)

\* The order is paid, delivered, cancelled, the refund given a destination.
Settles(m) ==
    /\ m \in due
    /\ due' = due \ {m}
    /\ UNCHANGED <<marked, sender, key, queue, sent, faults, told>>

ReadDue(p) ==
    /\ at[p] = "idle" /\ batch[p] = {}
    /\ due \ marked # {}
    /\ batch' = [batch EXCEPT ![p] = due \ marked]
    /\ UNCHANGED <<rows, about, todo, at, key, queue, sent, faults, told>>

\* notifyBuyer begins.
Notifies(s, m) ==
    /\ about' = [about EXCEPT ![s] = m]
    /\ todo' = [todo EXCEPT ![s] = ChannelsOf(m)]
    /\ at' = [at EXCEPT ![s] = "key"]

ClaimsAnyhow(m) == m \in due

\* updateMany: what was read may be settled or claimed by now.
Claims(m) == m \in due /\ m \notin marked

Claim(p, m) ==
    /\ at[p] = "idle" /\ m \in batch[p]
    /\ Claims(m)
    /\ marked' = marked \cup {m}
    /\ batch' = [batch EXCEPT ![p] = @ \ {m}]
    /\ Notifies(p, m)
    /\ UNCHANGED <<due, key, queue, sent, faults, told>>

PassOver(p, m) ==
    /\ at[p] = "idle" /\ m \in batch[p]
    /\ ~ Claims(m)
    /\ batch' = [batch EXCEPT ![p] = @ \ {m}]
    /\ UNCHANGED <<rows, about, todo, at, key, queue, sent, faults, told>>

\* A transition has committed, or the order is placed.
Tell(r, m) ==
    /\ at[r] = "idle"
    /\ told < MaxNews
    /\ told' = told + 1
    /\ Notifies(r, m)
    /\ UNCHANGED <<rows, batch, key, queue, sent, faults>>

-----------------------------------------------------------------------------
(* notifyBuyer *)

\* The chat comes before the text message.
Channel(s) == IF "CHAT" \in todo[s] THEN "CHAT" ELSE "SMS"

NextChannelWithoutEnd(s) ==
    /\ todo' = [todo EXCEPT ![s] = @ \ {Channel(s)}]
    /\ at' = [at EXCEPT ![s] = "key"]
    /\ UNCHANGED about

EndsNotifying(s) ==
    /\ about' = [about EXCEPT ![s] = Nobody]
    /\ todo' = [todo EXCEPT ![s] = {}]
    /\ at' = [at EXCEPT ![s] = "idle"]

NextChannel(s) ==
    IF todo[s] = {Channel(s)}
    THEN EndsNotifying(s)
    ELSE /\ todo' = [todo EXCEPT ![s] = @ \ {Channel(s)}]
         /\ at' = [at EXCEPT ![s] = "key"]
         /\ UNCHANGED about

Subject(s) == <<about[s], Channel(s)>>

NextCopy(s) == <<about[s], Channel(s), copies[Subject(s)] + 1>>

SetKey(s) ==
    /\ at[s] = "key"
    /\ Subject(s) \notin key
    /\ key' = key \cup {Subject(s)}
    /\ at' = [at EXCEPT ![s] = "add"]
    /\ UNCHANGED <<rows, batch, about, todo, queue, sent, faults, told>>

KeyIsSet(s) ==
    /\ at[s] = "key"
    /\ Subject(s) \in key
    /\ NextChannel(s)
    /\ UNCHANGED <<rows, batch, key, queue, sent, faults, told>>

AddJob(s) ==
    /\ at[s] = "add"
    /\ NextCopy(s) \in Copies
    /\ copies' = [copies EXCEPT ![Subject(s)] = @ + 1]
    /\ place' = [place EXCEPT ![NextCopy(s)] = "waiting"]
    /\ NextChannel(s)
    /\ UNCHANGED <<rows, batch, key, tries, stalled, sent, faults, told>>

Mishap == mishaps < MaxMishaps /\ mishaps' = mishaps + 1

AfterFailureGivesUp(s) == EndsNotifying(s)

\* The error is logged, the key stays, and the next channel has its turn.
AfterFailure(s) == NextChannel(s)

NotifyFails(s) ==
    /\ at[s] \in {"key", "add"}
    /\ Mishap
    /\ lost' = lost \cup ({Subject(s)} \cap (Reminders \X Channels))
    /\ AfterFailure(s)
    /\ UNCHANGED <<rows, batch, key, queue, sent, told>>

\* The process dies, or reading the buyer of a claimed reminder throws.
SenderDies(s) ==
    /\ at[s] # "idle"
    /\ Mishap
    /\ lost' = lost \cup (({about[s]} \cap Reminders) \X todo[s])
    /\ EndsNotifying(s)
    /\ batch' = [p \in Passes |-> IF p = s THEN {} ELSE batch[p]]
    /\ UNCHANGED <<rows, key, queue, sent, told>>

\* NOTIFICATION_DEDUPE_TTL_SECONDS
KeyExpires ==
    /\ \E x \in key \cap ShortKeys : key' = key \ {x}
    /\ UNCHANGED <<rows, sender, queue, sent, faults, told>>

-----------------------------------------------------------------------------
(* deliver *)

\* The queue forgets the attempts of a job that it is done with.
Moves(j, to, n) ==
    /\ place' = [place EXCEPT ![j] = to]
    /\ tries' = [tries EXCEPT ![j] = IF to = "done" THEN 0 ELSE n]
    /\ stalled' = [stalled EXCEPT ![j] = @ /\ to # "done"]

Works(j, from, to) == place[j] = from /\ Moves(j, to, tries[j])

FailedAChat(j) ==
    failed' = [m \in Reminders |->
                  IF m = j[1] /\ j[2] = "CHAT" THEN failed[m] + 1
                                              ELSE failed[m]]

\* Throwing makes the queue try again, MaxTries times in all.
Retries(j) ==
    /\ Moves(j, IF tries[j] + 1 < MaxTries THEN "waiting" ELSE "done",
             tries[j] + 1)
    /\ FailedAChat(j)

\* The message is in the conversation before the rest of the delivery, which
\* may fail: touching the conversation and writing to the buyer's Telegram.
WriteChat(j) ==
    /\ j[2] = "CHAT"
    /\ Works(j, "waiting", "send")
    /\ chats' = [m \in Reminders |-> IF m = j[1] THEN chats[m] + 1
                                                ELSE chats[m]]
    /\ UNCHANGED <<rows, sender, key, copies, count, texts,
                   failed, faults, told>>

\* No text, text messages switched off, or no number.
Skip(j) ==
    /\ j[2] = "SMS"
    /\ Works(j, "waiting", "done")
    /\ UNCHANGED <<rows, sender, key, copies, sent, faults,
                   told>>

CountLater(j) ==
    /\ j[2] = "SMS"
    /\ Works(j, "waiting", IF count < SmsCap THEN "send" ELSE "done")
    /\ UNCHANGED <<rows, sender, key, copies, sent, faults,
                   told>>

\* INCR, before the text message goes out; beyond the cap it is all one.
Count(j) ==
    /\ j[2] = "SMS"
    /\ count' = IF count > SmsCap THEN count ELSE count + 1
    /\ Works(j, "waiting", IF count' <= SmsCap THEN "send" ELSE "done")
    /\ UNCHANGED <<rows, sender, key, copies, texts, chats,
                   failed, faults, told>>

Reaches(j) == texts' = IF j[2] = "SMS" THEN texts + 1 ELSE texts

Send(j) ==
    /\ Works(j, "send", "done")
    /\ Reaches(j)
    /\ UNCHANGED <<rows, sender, key, copies, count, chats,
                   failed, faults, told>>

\* The service refuses, or its answer is lost although the message went out.
SendFails(j) ==
    /\ place[j] = "send"
    /\ Retries(j)
    /\ Reaches(j) \/ UNCHANGED texts
    /\ UNCHANGED <<rows, sender, key, copies, count, chats, faults,
                   told>>

\* A read or write of the database throws before anything is done.
DeliveryThrows(j) ==
    /\ place[j] = "waiting"
    /\ Retries(j)
    /\ UNCHANGED <<rows, sender, key, copies, count, texts, chats,
                   faults, told>>

\* The queue hands a job of a dead worker out once more, not twice.
WorkerDies(j) ==
    /\ place[j] \in {"waiting", "send"}
    /\ Mishap
    /\ place' = [place EXCEPT ![j] = IF stalled[j] THEN "done" ELSE "waiting"]
    /\ stalled' = [stalled EXCEPT ![j] = ~ @]
    /\ tries' = [tries EXCEPT ![j] = IF stalled[j] THEN 0 ELSE @]
    /\ FailedAChat(j)
    /\ UNCHANGED <<rows, sender, key, copies, count, texts, chats, lost,
                   told>>

-----------------------------------------------------------------------------

NotifyStep(s) == SetKey(s) \/ KeyIsSet(s) \/ AddJob(s)

Deliver(j) ==
    \/ WriteChat(j) \/ Skip(j) \/ Count(j) \/ Send(j) \/ SendFails(j)
    \/ DeliveryThrows(j)

Next ==
    \/ \E m \in Reminders : Settles(m)
    \/ \E p \in Passes :
        ReadDue(p) \/ \E m \in Reminders : Claim(p, m) \/ PassOver(p, m)
    \/ \E r \in Requests, m \in News : Tell(r, m)
    \/ \E s \in Senders : NotifyStep(s) \/ NotifyFails(s) \/ SenderDies(s)
    \/ KeyExpires
    \/ \E j \in Copies : Deliver(j) \/ WorkerDies(j)

\* A sender that runs comes to its end and the queue's worker to every job.
\* Nothing makes the cron run, a key expire or a process die.
Fairness ==
    /\ \A s \in Senders : WF_vars(NotifyStep(s))
    /\ \A j \in Copies : WF_vars(Deliver(j))

Spec == Init /\ [][Next]_vars

FairSpec == Spec /\ Fairness

-----------------------------------------------------------------------------

TypeOK ==
    /\ due \subseteq Reminders
    /\ marked \subseteq Reminders
    /\ batch \in [Passes -> SUBSET Reminders]
    /\ about \in [Senders -> Messages \cup {Nobody}]
    /\ todo \in [Senders -> SUBSET Channels]
    /\ at \in [Senders -> {"idle", "key", "add"}]
    /\ \A s \in Senders : at[s] # "idle" => about[s] # Nobody /\ todo[s] # {}
    /\ key \subseteq Messages \X Channels
    /\ copies \in [Messages \X Channels -> Nat]
    /\ place \in [Copies -> {"none", "waiting", "send", "done"}]
    /\ tries \in [Copies -> 0..MaxTries-1]
    /\ stalled \in [Copies -> BOOLEAN]
    /\ count \in Nat /\ texts \in Nat
    /\ chats \in [Reminders -> Nat]
    /\ failed \in [Reminders -> Nat]
    /\ lost \subseteq Reminders \X Channels
    /\ told \in Nat /\ mishaps \in Nat

\* However many passes overlap and however long the keys live, a reminder is
\* written to the buyer once, and once more for every failed delivery of it
\* (order-ops.service.ts 102-106, 157-161; order-expiry.service.ts 52-56; the
\* keys last ten minutes only, the claims for good).
RemindedOnce == \A m \in Reminders : chats[m] <= 1 + failed[m]

\* No more text messages reach a buyer in a day than the cap, although
\* deliveries run at once, are repeated, and may have gone out when they are
\* reported as failed (notification-delivery.service.ts 223-234).
SmsWithinCap == texts <= SmsCap

\* A reminder that was claimed will not be tried again by any pass, so it must
\* come to an end on each channel: delivered, skipped or failed for good,
\* unless a mishap kept it from the queue.  A mishap on one channel does not
\* take the other with it.
ReminderComesThrough ==
    \A m \in Reminders, c \in Channels :
        m \in marked ~> \/ place[<<m, c, 1>>] = "done"
                        \/ <<m, c>> \in lost

=============================================================================
