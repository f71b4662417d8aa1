------------------------- MODULE OrderMessagesProofs -------------------------
(***************************************************************************)
(* Proofs about OrderMessages, for any reminders and news, any number of   *)
(* cron passes and requests, any cap, any number of tries and of mishaps:  *)
(* types, a reminder repeated only after a failed delivery, and the cap of *)
(* the text messages.                                                      *)
(***************************************************************************)
EXTENDS OrderMessages, FiniteSetTheorems, TLAPS

-----------------------------------------------------------------------------
(* Types.                                                                  *)

RowsOK ==
    /\ due \subseteq Reminders /\ marked \subseteq Reminders
    /\ batch \in [Passes -> SUBSET Reminders]

SendersOK ==
    /\ about \in [Senders -> Messages \cup {Nobody}]
    /\ todo \in [Senders -> SUBSET Channels]
    /\ at \in [Senders -> {"idle", "key", "add"}]
    /\ \A s \in Senders : at[s] # "idle" => about[s] # Nobody /\ todo[s] # {}

KeysOK ==
    /\ key \subseteq Messages \X Channels
    /\ copies \in [Messages \X Channels -> Nat]

JobPlaces == {"none", "waiting", "send", "done"}

JobsOK ==
    /\ place \in [Copies -> JobPlaces]
    /\ tries \in [Copies -> 0..MaxTries-1]
    /\ stalled \in [Copies -> BOOLEAN]

SentOK ==
    /\ count \in Nat /\ texts \in Nat
    /\ chats \in [Reminders -> Nat] /\ failed \in [Reminders -> Nat]

FaultsOK == lost \subseteq Reminders \X Channels /\ mishaps \in Nat

LEMMA TypeParts ==
    TypeOK <=> /\ RowsOK /\ SendersOK /\ KeysOK /\ JobsOK /\ SentOK
               /\ FaultsOK /\ told \in Nat
  BY DEF TypeOK, RowsOK, SendersOK, KeysOK, JobsOK, SentOK, FaultsOK, JobPlaces

LEMMA TypeWhole ==
    ASSUME RowsOK', SendersOK', KeysOK', JobsOK', SentOK', FaultsOK', told' \in Nat
    PROVE  TypeOK'
  BY DEF TypeOK, RowsOK, SendersOK, KeysOK, JobsOK, SentOK, FaultsOK, JobPlaces

LEMMA EndsTypes ==
    ASSUME SendersOK, NEW s \in Senders, EndsNotifying(s)
    PROVE  SendersOK'
  BY DEF SendersOK, EndsNotifying

LEMMA NextChannelTypes ==
    ASSUME SendersOK, NEW s \in Senders, at[s] # "idle", NextChannel(s)
    PROVE  SendersOK'
  <1>1. CASE todo[s] = {Channel(s)}
    BY <1>1, EndsTypes DEF NextChannel
  <1>2. CASE todo[s] # {Channel(s)}
    <2>1. todo[s] \ {Channel(s)} # {} /\ todo[s] \ {Channel(s)} \subseteq Channels
      BY <1>2 DEF SendersOK, Channel, Channels
    <2> QED  BY <1>2, <2>1 DEF NextChannel, SendersOK
  <1> QED  BY <1>1, <1>2

LEMMA NotifiesTypes ==
    ASSUME SendersOK, NEW s \in Senders, NEW m \in Messages, Notifies(s, m)
    PROVE  SendersOK'
  <1>1. ChannelsOf(m) \subseteq Channels /\ ChannelsOf(m) # {}
    BY DEF ChannelsOf, Channels
  <1>2. m # Nobody
    BY MessagesAssumption DEF Messages
  <1> QED  BY <1>1, <1>2 DEF Notifies, SendersOK

LEMMA SubjectType ==
    ASSUME SendersOK, NEW s \in Senders, at[s] # "idle"
    PROVE  /\ about[s] \in Messages /\ Channel(s) \in todo[s]
           /\ Channel(s) \in Channels
           /\ Subject(s) \in Messages \X Channels
  BY DEF SendersOK, Channel, Channels, Subject

LEMMA MovesTypes ==
    ASSUME JobsOK, NEW j \in Copies, NEW to \in JobPlaces, NEW n,
           to = "done" \/ n \in 0..MaxTries-1, Moves(j, to, n)
    PROVE  JobsOK'
  <1>1. 0 \in 0..MaxTries-1
    BY MessagesAssumption
  <1> QED  BY <1>1 DEF JobsOK, Moves

LEMMA WorksTypes ==
    ASSUME JobsOK, NEW j \in Copies, NEW from, NEW to \in JobPlaces,
           Works(j, from, to)
    PROVE  JobsOK'
  BY MovesTypes DEF Works, JobsOK

LEMMA RetriesTypes ==
    ASSUME JobsOK, SentOK, NEW j \in Copies, Retries(j)
    PROVE  JobsOK' /\ failed' \in [Reminders -> Nat]
  <1>1. tries[j] \in 0..MaxTries-1 /\ MaxTries \in Nat \ {0}
    BY MessagesAssumption DEF JobsOK
  <1>2. JobsOK'
    <2>1. CASE tries[j] + 1 < MaxTries
      <3>1. Moves(j, "waiting", tries[j] + 1) /\ tries[j] + 1 \in 0..MaxTries-1
        BY <1>1, <2>1 DEF Retries
      <3> QED  BY <3>1, MovesTypes DEF JobPlaces
    <2>2. CASE ~ (tries[j] + 1 < MaxTries)
      <3>1. Moves(j, "done", tries[j] + 1)
        BY <2>2 DEF Retries
      <3> QED  BY <3>1, MovesTypes DEF JobPlaces
    <2> QED  BY <2>1, <2>2
  <1> QED  BY <1>2 DEF Retries, FailedAChat, SentOK

LEMMA SenderTypes ==
    ASSUME TypeOK, NEW s \in Senders,
           NotifyStep(s) \/ NotifyFails(s) \/ SenderDies(s)
    PROVE  TypeOK'
  <1>0. /\ RowsOK /\ SendersOK /\ KeysOK /\ JobsOK /\ SentOK /\ FaultsOK
        /\ told \in Nat
    BY TypeParts
  <1>1. at[s] # "idle"
    BY DEF NotifyStep, SetKey, KeyIsSet, AddJob, NotifyFails, SenderDies
  <1>2. Subject(s) \in Messages \X Channels
    BY <1>0, <1>1, SubjectType
  <1>3. RowsOK' /\ SentOK' /\ told' \in Nat
    BY <1>0 DEF NotifyStep, SetKey, KeyIsSet, AddJob, NotifyFails, SenderDies,
       RowsOK, SentOK, rows, sent
  <1>4. SendersOK'
    <2>1. CASE SetKey(s)
      BY <1>0, <1>1, <2>1 DEF SetKey, SendersOK
    <2>2. CASE KeyIsSet(s) \/ AddJob(s) \/ NotifyFails(s)
      BY <1>0, <1>1, <2>2, NextChannelTypes
         DEF KeyIsSet, AddJob, NotifyFails, AfterFailure
    <2>3. CASE SenderDies(s)
      BY <1>0, <2>3, EndsTypes DEF SenderDies
    <2> QED  BY <2>1, <2>2, <2>3 DEF NotifyStep
  <1>5. KeysOK'
    <2>1. CASE SetKey(s)
      BY <1>0, <1>2, <2>1 DEF SetKey, KeysOK, queue
    <2>2. CASE AddJob(s)
      BY <1>0, <1>2, <2>2 DEF AddJob, KeysOK
    <2>3. CASE KeyIsSet(s) \/ NotifyFails(s) \/ SenderDies(s)
      BY <1>0, <2>3 DEF KeyIsSet, NotifyFails, SenderDies, KeysOK, queue
    <2> QED  BY <2>1, <2>2, <2>3 DEF NotifyStep
  <1>6. JobsOK'
    <2>1. CASE AddJob(s)
      BY <1>0, <2>1 DEF AddJob, JobsOK, JobPlaces
    <2>2. CASE ~ AddJob(s)
      BY <1>0, <2>2 DEF NotifyStep, SetKey, KeyIsSet, NotifyFails, SenderDies,
         JobsOK, queue
    <2> QED  BY <2>1, <2>2
  <1>7. FaultsOK'
    <2>1. CASE NotifyFails(s)
      BY <1>0, <2>1 DEF NotifyFails, Mishap, FaultsOK
    <2>2. CASE SenderDies(s)
      <3>1. ({about[s]} \cap Reminders) \X todo[s] \subseteq Reminders \X Channels
        BY <1>0 DEF SendersOK
      <3> QED  BY <1>0, <2>2, <3>1 DEF SenderDies, Mishap, FaultsOK
    <2>3. CASE NotifyStep(s)
      BY <1>0, <2>3 DEF NotifyStep, SetKey, KeyIsSet, AddJob, FaultsOK, faults
    <2> QED  BY <2>1, <2>2, <2>3
  <1> QED  BY <1>3, <1>4, <1>5, <1>6, <1>7, TypeWhole

LEMMA BeginTypes ==
    ASSUME TypeOK,
           \/ \E m \in Reminders : Settles(m)
           \/ \E p \in Passes : \/ ReadDue(p)
                                \/ \E m \in Reminders : Claim(p, m) \/ PassOver(p, m)
           \/ \E r \in Requests, m \in News : Tell(r, m)
           \/ KeyExpires
    PROVE  TypeOK'
  <1>0. /\ RowsOK /\ SendersOK /\ KeysOK /\ JobsOK /\ SentOK /\ FaultsOK
        /\ told \in Nat
    BY TypeParts
  <1>1. KeysOK' /\ JobsOK' /\ SentOK' /\ FaultsOK' /\ told' \in Nat
    BY <1>0 DEF Settles, ReadDue, Claim, PassOver, Tell, KeyExpires, KeysOK,
       JobsOK, SentOK, FaultsOK, queue, sent, faults
  <1>2. RowsOK'
    BY <1>0 DEF Settles, ReadDue, Claim, PassOver, Tell, KeyExpires, RowsOK,
       rows, sender
  <1>3. SendersOK'
    <2>1. CASE \E p \in Passes, m \in Reminders : Claim(p, m)
      <3>1. PICK p \in Passes, m \in Reminders : Claim(p, m)
        BY <2>1
      <3>2. p \in Senders /\ m \in Messages /\ Notifies(p, m)
        BY <3>1 DEF Senders, Messages, Claim
      <3> QED  BY <1>0, <3>2, NotifiesTypes
    <2>2. CASE \E r \in Requests, m \in News : Tell(r, m)
      <3>1. PICK r \in Requests, m \in News : Tell(r, m)
        BY <2>2
      <3>2. r \in Senders /\ m \in Messages /\ Notifies(r, m)
        BY <3>1 DEF Senders, Messages, Tell
      <3> QED  BY <1>0, <3>2, NotifiesTypes
    <2>3. CASE \/ \E m \in Reminders : Settles(m)
               \/ \E p \in Passes : \/ ReadDue(p)
                                    \/ \E m \in Reminders : PassOver(p, m)
               \/ KeyExpires
      BY <1>0, <2>3 DEF Settles, ReadDue, PassOver, KeyExpires, SendersOK, sender
    <2> QED  BY <2>1, <2>2, <2>3
  <1> QED  BY <1>1, <1>2, <1>3, TypeWhole

LEMMA DeliveryTypes ==
    ASSUME TypeOK, NEW j \in Copies, Deliver(j) \/ WorkerDies(j)
    PROVE  TypeOK'
  <1>0. /\ RowsOK /\ SendersOK /\ KeysOK /\ JobsOK /\ SentOK /\ FaultsOK
        /\ told \in Nat
    BY TypeParts
  <1>1. RowsOK' /\ SendersOK' /\ KeysOK' /\ told' \in Nat
    BY <1>0 DEF Deliver, WriteChat, Skip, Count, Send, SendFails,
       DeliveryThrows, WorkerDies, RowsOK, SendersOK, KeysOK, rows, sender
  <1>2. FaultsOK'
    BY <1>0 DEF Deliver, WriteChat, Skip, Count, Send, SendFails,
       DeliveryThrows, WorkerDies, Mishap, FaultsOK, faults
  <1>3. JobsOK' /\ SentOK'
    <2>1. CASE WriteChat(j)
      BY <1>0, <2>1, WorksTypes DEF WriteChat, SentOK, JobPlaces
    <2>2. CASE Skip(j)
      BY <1>0, <2>2, WorksTypes DEF Skip, SentOK, JobPlaces, sent
    <2>3. CASE Count(j)
      <3>1. count' \in Nat
        BY <1>0, <2>3 DEF Count, SentOK
      <3>2. JobsOK'
        <4>1. Works(j, "waiting", "send") \/ Works(j, "waiting", "done")
          BY <2>3 DEF Count
        <4> QED  BY <1>0, <4>1, WorksTypes DEF JobPlaces
      <3> QED  BY <1>0, <2>3, <3>1, <3>2 DEF Count, SentOK
    <2>4. CASE Send(j)
      BY <1>0, <2>4, WorksTypes DEF Send, Reaches, SentOK, JobPlaces
    <2>5. CASE SendFails(j)
      BY <1>0, <2>5, RetriesTypes DEF SendFails, Reaches, SentOK
    <2>6. CASE DeliveryThrows(j)
      BY <1>0, <2>6, RetriesTypes DEF DeliveryThrows, SentOK
    <2>7. CASE WorkerDies(j)
      <3>1. JobsOK'
        <4>1. 0 \in 0..MaxTries-1
          BY MessagesAssumption
        <4> QED  BY <1>0, <2>7, <4>1 DEF WorkerDies, JobsOK, JobPlaces
      <3> QED  BY <1>0, <2>7, <3>1 DEF WorkerDies, FailedAChat, SentOK
    <2> QED  BY <2>1, <2>2, <2>3, <2>4, <2>5, <2>6, <2>7 DEF Deliver
  <1> QED  BY <1>1, <1>2, <1>3, TypeWhole

LEMMA InitTypes == Init => TypeOK
  <1> SUFFICES ASSUME Init PROVE TypeOK
    OBVIOUS
  <1>1. 0 \in 0..MaxTries-1
    BY MessagesAssumption
  <1> QED  BY <1>1 DEF Init, TypeOK

LEMMA StepTypes == TypeOK /\ [Next]_vars => TypeOK'
  <1> SUFFICES ASSUME TypeOK, [Next]_vars PROVE TypeOK'
    OBVIOUS
  <1>1. ASSUME NEW s \in Senders, NotifyStep(s) \/ NotifyFails(s) \/ SenderDies(s)
        PROVE  TypeOK'
    BY <1>1, SenderTypes
  <1>2. ASSUME NEW j \in Copies, Deliver(j) \/ WorkerDies(j) PROVE TypeOK'
    BY <1>2, DeliveryTypes
  <1>3. CASE UNCHANGED vars
    BY <1>3 DEF vars, TypeOK
  <1> QED  BY <1>1, <1>2, <1>3, BeginTypes DEF Next

\* The program's messages, senders and jobs keep their shape; a sender that
\* is not idle has a message and a channel left.
THEOREM TypeCorrect == Spec => []TypeOK
  BY InitTypes, StepTypes, PTL DEF Spec

-----------------------------------------------------------------------------
(* The cap.  What has reached the buyer and what may still reach him before *)
(* it is counted again is never more than the count, nor than the cap.      *)

Texting == {j \in Copies : j[2] = "SMS" /\ place[j] = "send"}

CapInv ==
    /\ TypeOK
    /\ IsFiniteSet(Texting)
    /\ texts + Cardinality(Texting) <= count
    /\ texts + Cardinality(Texting) <= SmsCap

LEMMA FewerTexting ==
    ASSUME IsFiniteSet(Texting), Texting' \subseteq Texting
    PROVE  /\ IsFiniteSet(Texting')
           /\ Cardinality(Texting') <= Cardinality(Texting)
           /\ Cardinality(Texting) \in Nat /\ Cardinality(Texting') \in Nat
  BY FS_Subset, FS_CardinalityType

\* A text message that goes out, or fails although it went out, was counted.
LEMMA OneTextOut ==
    ASSUME CapInv, NEW j \in Copies, place[j] = "send",
           Texting' \subseteq Texting \ {j}, count' = count,
           texts' = texts \/ Reaches(j)
    PROVE  /\ IsFiniteSet(Texting')
           /\ texts' + Cardinality(Texting') <= count'
           /\ texts' + Cardinality(Texting') <= SmsCap
  <1>1. /\ texts \in Nat /\ count \in Nat /\ SmsCap \in Nat
        /\ IsFiniteSet(Texting)
        /\ texts + Cardinality(Texting) <= count
        /\ texts + Cardinality(Texting) <= SmsCap
    BY MessagesAssumption DEF CapInv, TypeOK
  <1>2. /\ IsFiniteSet(Texting')
        /\ Cardinality(Texting') <= Cardinality(Texting)
        /\ Cardinality(Texting) \in Nat /\ Cardinality(Texting') \in Nat
    BY <1>1, FewerTexting
  <1>3. CASE j[2] = "SMS"
    <2>1. j \in Texting
      BY <1>3 DEF Texting
    <2>2. /\ IsFiniteSet(Texting \ {j})
          /\ Cardinality(Texting \ {j}) = Cardinality(Texting) - 1
      BY <1>1, <2>1, FS_RemoveElement
    <2>3. Cardinality(Texting') <= Cardinality(Texting \ {j})
      BY <2>2, FS_Subset
    <2>4. texts' <= texts + 1 /\ texts' \in Nat
      BY <1>1 DEF Reaches
    <2> QED  BY <1>1, <1>2, <2>2, <2>3, <2>4
  <1>4. CASE j[2] # "SMS"
    BY <1>1, <1>2, <1>4 DEF Reaches
  <1> QED  BY <1>3, <1>4

LEMMA CountedText ==
    ASSUME CapInv, NEW j \in Copies, Count(j)
    PROVE  /\ IsFiniteSet(Texting')
           /\ texts' + Cardinality(Texting') <= count'
           /\ texts' + Cardinality(Texting') <= SmsCap
  <1>1. /\ texts \in Nat /\ count \in Nat /\ SmsCap \in Nat
        /\ IsFiniteSet(Texting) /\ TypeOK
        /\ texts + Cardinality(Texting) <= count
        /\ texts + Cardinality(Texting) <= SmsCap
    BY MessagesAssumption DEF CapInv, TypeOK
  <1>2. texts' = texts /\ Cardinality(Texting) \in Nat
    BY <1>1, FS_CardinalityType DEF Count
  <1>3. CASE count' <= SmsCap
    <2>1. count' = count + 1
      BY <1>1, <1>3 DEF Count
    <2>2. Texting' \subseteq Texting \cup {j}
      BY <1>1 DEF Count, Works, Moves, Texting, TypeOK
    <2>3. /\ IsFiniteSet(Texting \cup {j})
          /\ Cardinality(Texting \cup {j}) <= Cardinality(Texting) + 1
      <3>1. \/ Cardinality(Texting \cup {j}) = Cardinality(Texting)
            \/ Cardinality(Texting \cup {j}) = Cardinality(Texting) + 1
        BY <1>1, FS_AddElement
      <3> QED  BY <1>1, <1>2, <3>1, FS_AddElement
    <2>4. /\ IsFiniteSet(Texting')
          /\ Cardinality(Texting') <= Cardinality(Texting \cup {j})
          /\ Cardinality(Texting') \in Nat
          /\ Cardinality(Texting \cup {j}) \in Nat
      BY <2>2, <2>3, FS_Subset, FS_CardinalityType
    <2> QED  BY <1>1, <1>2, <1>3, <2>1, <2>3, <2>4
  <1>4. CASE ~ (count' <= SmsCap)
    <2>1. Texting' \subseteq Texting
      BY <1>1, <1>4 DEF Count, Works, Moves, Texting, TypeOK
    <2>2. count <= count' /\ count' \in Nat
      BY <1>1 DEF Count
    <2> QED  BY <1>1, <1>2, <2>1, <2>2, FewerTexting
  <1> QED  BY <1>3, <1>4

LEMMA CapStep == CapInv /\ [Next]_vars => CapInv'
  <1> SUFFICES ASSUME CapInv, [Next]_vars PROVE CapInv'
    OBVIOUS
  <1>0. TypeOK /\ TypeOK' /\ IsFiniteSet(Texting)
    BY StepTypes DEF CapInv
  <1>1. ASSUME Texting' \subseteq Texting, texts' = texts, count <= count'
        PROVE  CapInv'
    <2>1. /\ IsFiniteSet(Texting')
          /\ Cardinality(Texting') <= Cardinality(Texting)
          /\ Cardinality(Texting) \in Nat /\ Cardinality(Texting') \in Nat
      BY <1>0, <1>1, FewerTexting
    <2>2. /\ texts \in Nat /\ count \in Nat /\ count' \in Nat /\ SmsCap \in Nat
      BY <1>0, MessagesAssumption DEF TypeOK
    <2> QED  BY <1>0, <1>1, <2>1, <2>2 DEF CapInv
  <1>2. ASSUME NEW j \in Copies, Count(j) PROVE CapInv'
    BY <1>0, <1>2, CountedText DEF CapInv
  <1>3. ASSUME NEW j \in Copies, Send(j) \/ SendFails(j) PROVE CapInv'
    <2>1. place[j] = "send" /\ count' = count /\ (texts' = texts \/ Reaches(j))
      BY <1>3 DEF Send, SendFails, Works
    <2>2. Texting' \subseteq Texting \ {j}
      <3>1. \E n : Moves(j, "waiting", n) \/ Moves(j, "done", n)
        BY <1>3 DEF Send, SendFails, Works, Retries
      <3> QED  BY <1>0, <3>1 DEF Moves, Texting, TypeOK
    <2> QED  BY <1>0, <2>1, <2>2, OneTextOut DEF CapInv
  <1>4. ASSUME NEW j \in Copies,
               WriteChat(j) \/ Skip(j) \/ DeliveryThrows(j) \/ WorkerDies(j)
        PROVE  CapInv'
    <2>1. texts' = texts /\ count' = count
      BY <1>4 DEF WriteChat, Skip, DeliveryThrows, WorkerDies, sent
    <2>2. Texting' \subseteq Texting
      <3>1. CASE WriteChat(j)
        BY <1>0, <3>1 DEF WriteChat, Works, Moves, Texting, TypeOK
      <3>2. CASE Skip(j)
        BY <1>0, <3>2 DEF Skip, Works, Moves, Texting, TypeOK
      <3>3. CASE DeliveryThrows(j)
        BY <1>0, <3>3 DEF DeliveryThrows, Retries, Moves, Texting, TypeOK
      <3>4. CASE WorkerDies(j)
        BY <1>0, <3>4 DEF WorkerDies, Texting, TypeOK
      <3> QED  BY <1>4, <3>1, <3>2, <3>3, <3>4
    <2> QED  BY <1>0, <1>1, <2>1, <2>2 DEF TypeOK
  <1>5. ASSUME NEW s \in Senders, NotifyStep(s) \/ NotifyFails(s) \/ SenderDies(s)
        PROVE  CapInv'
    <2>1. texts' = texts /\ count' = count
      BY <1>5 DEF NotifyStep, SetKey, KeyIsSet, AddJob, NotifyFails,
         SenderDies, sent
    <2>2. Texting' \subseteq Texting
      <3>1. CASE AddJob(s)
        BY <1>0, <3>1 DEF AddJob, Texting, TypeOK
      <3>2. CASE ~ AddJob(s)
        BY <1>5, <3>2 DEF NotifyStep, SetKey, KeyIsSet, NotifyFails,
           SenderDies, queue, Texting
      <3> QED  BY <3>1, <3>2
    <2> QED  BY <1>0, <1>1, <2>1, <2>2 DEF TypeOK
  <1>6. CASE \/ \E m \in Reminders : Settles(m)
             \/ \E p \in Passes : \/ ReadDue(p)
                                  \/ \E m \in Reminders : Claim(p, m) \/ PassOver(p, m)
             \/ \E r \in Requests, m \in News : Tell(r, m)
             \/ KeyExpires \/ UNCHANGED vars
    <2>1. texts' = texts /\ count' = count /\ place' = place
      BY <1>6 DEF Settles, ReadDue, Claim, PassOver, Tell, KeyExpires, vars,
         queue, sent
    <2>2. Texting' \subseteq Texting
      BY <2>1 DEF Texting
    <2> QED  BY <1>0, <1>1, <2>1, <2>2 DEF TypeOK
  <1> QED  BY <1>2, <1>3, <1>4, <1>5, <1>6 DEF Next, Deliver

\* However deliveries run at once, are repeated, or went out when they are
\* reported as failed, the buyer gets no more text messages than the cap.
THEOREM CapHolds == Spec => []SmsWithinCap
  <1>1. Init => CapInv
    <2> SUFFICES ASSUME Init PROVE CapInv
      OBVIOUS
    <2>1. Texting = {}
      BY DEF Init, Texting
    <2>2. IsFiniteSet(Texting)
      BY <2>1, FS_EmptySet, Zenon
    <2>3. Cardinality(Texting) = 0
      BY <2>1, FS_EmptySet, Zenon
    <2> QED  BY <2>2, <2>3, InitTypes, MessagesAssumption DEF Init, CapInv
  <1>2. CapInv => SmsWithinCap
    <2> SUFFICES ASSUME CapInv PROVE SmsWithinCap
      OBVIOUS
    <2>1. Cardinality(Texting) \in Nat
      BY FS_CardinalityType DEF CapInv
    <2> QED  BY <2>1, MessagesAssumption DEF CapInv, TypeOK, SmsWithinCap
  <1> QED  BY <1>1, <1>2, CapStep, PTL DEF Spec

-----------------------------------------------------------------------------
(* A reminder is written once, but for failed deliveries.  Whoever may still *)
(* bring it into the conversation counts: the sender that has its chat left, *)
(* the job that waits.  A reminder nobody has claimed has left no trace.     *)

Telling(m) == {s \in Senders : about[s] = m /\ "CHAT" \in todo[s]}

Queued(m) == {j \in Copies : j[1] = m /\ j[2] = "CHAT" /\ place[j] = "waiting"}

Fresh(m) ==
    m \notin marked =>
        /\ chats[m] = 0
        /\ \A s \in Senders : about[s] # m
        /\ \A j \in Copies : j[1] = m => place[j] = "none"

Once(m) ==
    /\ IsFiniteSet(Telling(m)) /\ IsFiniteSet(Queued(m))
    /\ chats[m] + Cardinality(Telling(m)) + Cardinality(Queued(m))
           <= 1 + failed[m]

ReminderInv == TypeOK /\ \A m \in Reminders : Fresh(m) /\ Once(m)

LEMMA ReminderTypes ==
    ASSUME TypeOK, TypeOK', NEW m \in Reminders
    PROVE  /\ chats[m] \in Nat /\ chats'[m] \in Nat
           /\ failed[m] \in Nat /\ failed'[m] \in Nat
           /\ m # Nobody /\ m \notin News
  BY MessagesAssumption DEF TypeOK

LEMMA Smaller ==
    ASSUME NEW S, NEW T, IsFiniteSet(S), T \subseteq S
    PROVE  /\ IsFiniteSet(T) /\ Cardinality(T) <= Cardinality(S)
           /\ Cardinality(T) \in Nat /\ Cardinality(S) \in Nat
  BY FS_Subset, FS_CardinalityType

LEMMA OneLess ==
    ASSUME NEW S, NEW T, NEW x \in S, IsFiniteSet(S), T \subseteq S \ {x}
    PROVE  /\ IsFiniteSet(T) /\ Cardinality(T) <= Cardinality(S) - 1
           /\ Cardinality(T) \in Nat /\ Cardinality(S) \in Nat
  <1>1. /\ IsFiniteSet(S \ {x})
        /\ Cardinality(S \ {x}) = Cardinality(S) - 1
    BY FS_RemoveElement
  <1> QED  BY <1>1, Smaller

LEMMA OneMore ==
    ASSUME NEW S, NEW T, NEW x, IsFiniteSet(S), T \subseteq S \cup {x}
    PROVE  /\ IsFiniteSet(T) /\ Cardinality(T) <= Cardinality(S) + 1
           /\ Cardinality(T) \in Nat /\ Cardinality(S) \in Nat
  <1>1. /\ IsFiniteSet(S \cup {x})
        /\ \/ Cardinality(S \cup {x}) = Cardinality(S)
           \/ Cardinality(S \cup {x}) = Cardinality(S) + 1
    BY FS_AddElement
  <1>2. Cardinality(S) \in Nat
    BY FS_CardinalityType
  <1>3. /\ IsFiniteSet(T) /\ Cardinality(T) <= Cardinality(S \cup {x})
        /\ Cardinality(T) \in Nat
    BY <1>1, Smaller
  <1> QED  BY <1>1, <1>2, <1>3

\* Nothing is added.
LEMMA KeepsOnce ==
    ASSUME TypeOK, TypeOK', NEW m \in Reminders, Once(m),
           Telling(m)' \subseteq Telling(m), Queued(m)' \subseteq Queued(m),
           chats'[m] = chats[m], failed[m] <= failed'[m]
    PROVE  Once(m)'
  <1>1. IsFiniteSet(Telling(m)) /\ IsFiniteSet(Queued(m))
    BY DEF Once
  <1>2. /\ IsFiniteSet(Telling(m)') /\ IsFiniteSet(Queued(m)')
        /\ Cardinality(Telling(m)') <= Cardinality(Telling(m))
        /\ Cardinality(Queued(m)') <= Cardinality(Queued(m))
        /\ Cardinality(Telling(m)') \in Nat /\ Cardinality(Telling(m)) \in Nat
        /\ Cardinality(Queued(m)') \in Nat /\ Cardinality(Queued(m)) \in Nat
    BY <1>1, Smaller
  <1>3. chats[m] + Cardinality(Telling(m)) + Cardinality(Queued(m)) <= 1 + failed[m]
    BY DEF Once
  <1>4. chats'[m] + Cardinality(Telling(m)') + Cardinality(Queued(m)')
            <= 1 + failed'[m]
    BY <1>2, <1>3, ReminderTypes
  <1> QED  BY <1>2, <1>4 DEF Once

\* The sender hands over to the queue.
LEMMA HandsOver ==
    ASSUME TypeOK, TypeOK', NEW m \in Reminders, Once(m),
           NEW s \in Telling(m), NEW j,
           Telling(m)' \subseteq Telling(m) \ {s},
           Queued(m)' \subseteq Queued(m) \cup {j},
           chats'[m] = chats[m], failed'[m] = failed[m]
    PROVE  Once(m)'
  <1>1. IsFiniteSet(Telling(m)) /\ IsFiniteSet(Queued(m))
    BY DEF Once
  <1>2. /\ IsFiniteSet(Telling(m)')
        /\ Cardinality(Telling(m)') <= Cardinality(Telling(m)) - 1
        /\ Cardinality(Telling(m)') \in Nat /\ Cardinality(Telling(m)) \in Nat
    BY <1>1, OneLess
  <1>3. /\ IsFiniteSet(Queued(m)')
        /\ Cardinality(Queued(m)') <= Cardinality(Queued(m)) + 1
        /\ Cardinality(Queued(m)') \in Nat /\ Cardinality(Queued(m)) \in Nat
    BY <1>1, OneMore
  <1>4. chats[m] + Cardinality(Telling(m)) + Cardinality(Queued(m)) <= 1 + failed[m]
    BY DEF Once
  <1>5. chats'[m] + Cardinality(Telling(m)') + Cardinality(Queued(m)')
            <= 1 + failed'[m]
    BY <1>2, <1>3, <1>4, ReminderTypes
  <1> QED  BY <1>2, <1>3, <1>5 DEF Once

\* The job writes the reminder.
LEMMA WritesOnce ==
    ASSUME TypeOK, TypeOK', NEW m \in Reminders, Once(m), NEW j \in Queued(m),
           Telling(m)' = Telling(m), Queued(m)' \subseteq Queued(m) \ {j},
           chats'[m] = chats[m] + 1, failed'[m] = failed[m]
    PROVE  Once(m)'
  <1>1. IsFiniteSet(Telling(m)) /\ IsFiniteSet(Queued(m))
    BY DEF Once
  <1>2. /\ IsFiniteSet(Queued(m)')
        /\ Cardinality(Queued(m)') <= Cardinality(Queued(m)) - 1
        /\ Cardinality(Queued(m)') \in Nat /\ Cardinality(Queued(m)) \in Nat
    BY <1>1, OneLess
  <1>3. Cardinality(Telling(m)) \in Nat
    BY <1>1, FS_CardinalityType
  <1>4. chats[m] + Cardinality(Telling(m)) + Cardinality(Queued(m)) <= 1 + failed[m]
    BY DEF Once
  <1>5. chats'[m] + Cardinality(Telling(m)') + Cardinality(Queued(m)')
            <= 1 + failed'[m]
    BY <1>2, <1>3, <1>4, ReminderTypes
  <1> QED  BY <1>1, <1>2, <1>5 DEF Once

\* A delivery fails and waits again.
LEMMA FailsOnce ==
    ASSUME TypeOK, TypeOK', NEW m \in Reminders, Once(m), NEW j,
           Telling(m)' = Telling(m), Queued(m)' \subseteq Queued(m) \cup {j},
           chats'[m] = chats[m], failed'[m] = failed[m] + 1
    PROVE  Once(m)'
  <1>1. IsFiniteSet(Telling(m)) /\ IsFiniteSet(Queued(m))
    BY DEF Once
  <1>2. /\ IsFiniteSet(Queued(m)')
        /\ Cardinality(Queued(m)') <= Cardinality(Queued(m)) + 1
        /\ Cardinality(Queued(m)') \in Nat /\ Cardinality(Queued(m)) \in Nat
    BY <1>1, OneMore
  <1>3. Cardinality(Telling(m)) \in Nat
    BY <1>1, FS_CardinalityType
  <1>4. chats[m] + Cardinality(Telling(m)) + Cardinality(Queued(m)) <= 1 + failed[m]
    BY DEF Once
  <1>5. chats'[m] + Cardinality(Telling(m)') + Cardinality(Queued(m)')
            <= 1 + failed'[m]
    BY <1>2, <1>3, <1>4, ReminderTypes
  <1> QED  BY <1>1, <1>2, <1>5 DEF Once

LEMMA SenderReminds ==
    ASSUME TypeOK, TypeOK', NEW m \in Reminders, Fresh(m), Once(m),
           NEW s \in Senders, NotifyStep(s) \/ NotifyFails(s) \/ SenderDies(s)
    PROVE  Fresh(m)' /\ Once(m)'
  <1>1. /\ marked' = marked /\ chats' = chats /\ failed' = failed
        /\ chats'[m] = chats[m] /\ failed[m] \in Nat
    BY ReminderTypes DEF NotifyStep, SetKey, KeyIsSet, AddJob, NotifyFails,
       SenderDies, rows, sent
  <1>2. \A r \in Senders : about'[r] = about[r] \/ about'[r] = Nobody
    BY DEF TypeOK, NotifyStep, SetKey, KeyIsSet, AddJob, NotifyFails,
       SenderDies, AfterFailure, NextChannel, EndsNotifying
  <1>3. \A r \in Senders : todo'[r] \subseteq todo[r]
    BY DEF TypeOK, NotifyStep, SetKey, KeyIsSet, AddJob, NotifyFails,
       SenderDies, AfterFailure, NextChannel, EndsNotifying
  <1>4. Telling(m)' \subseteq Telling(m)
    BY <1>2, <1>3, ReminderTypes DEF Telling
  <1>5. CASE AddJob(s)
    <2>1. /\ NextCopy(s) \in Copies
          /\ place' = [place EXCEPT ![NextCopy(s)] = "waiting"]
          /\ NextCopy(s)[1] = about[s] /\ NextCopy(s)[2] = Channel(s)
      BY <1>5 DEF AddJob, NextCopy
    <2>2. Fresh(m)'
      BY <1>1, <1>2, <2>1, ReminderTypes DEF Fresh, TypeOK
    <2>3. CASE about[s] = m /\ Channel(s) = "CHAT"
      <3>1. s \in Telling(m)
        BY <1>5, <2>3 DEF Telling, Channel, AddJob, TypeOK
      <3>2. s \notin Telling(m)'
        <4>1. "CHAT" \notin todo'[s]
          BY <1>5, <2>3 DEF AddJob, NextChannel, EndsNotifying, TypeOK
        <4> QED  BY <4>1 DEF Telling
      <3>3. Queued(m)' \subseteq Queued(m) \cup {NextCopy(s)}
        BY <2>1 DEF Queued, TypeOK
      <3>4. Once(m)'
        BY <1>1, <1>4, <3>1, <3>2, <3>3, HandsOver
      <3> QED  BY <2>2, <3>4
    <2>4. CASE ~ (about[s] = m /\ Channel(s) = "CHAT")
      <3>1. Queued(m)' \subseteq Queued(m)
        BY <2>1, <2>4 DEF Queued, TypeOK
      <3> QED  BY <1>1, <1>4, <2>2, <3>1, KeepsOnce
    <2> QED  BY <2>3, <2>4
  <1>6. CASE ~ AddJob(s)
    <2>1. place' = place
      BY <1>6 DEF NotifyStep, SetKey, KeyIsSet, NotifyFails, SenderDies, queue
    <2>2. Fresh(m)'
      BY <1>1, <1>2, <2>1, ReminderTypes DEF Fresh
    <2>3. Queued(m)' \subseteq Queued(m)
      BY <2>1 DEF Queued
    <2> QED  BY <1>1, <1>4, <2>2, <2>3, KeepsOnce
  <1> QED  BY <1>5, <1>6

LEMMA DeliveryReminds ==
    ASSUME TypeOK, TypeOK', NEW m \in Reminders, Fresh(m), Once(m),
           NEW j \in Copies, Deliver(j) \/ WorkerDies(j)
    PROVE  Fresh(m)' /\ Once(m)'
  <1>1. /\ marked' = marked /\ about' = about /\ todo' = todo
        /\ Telling(m)' = Telling(m)
    BY DEF Deliver, WriteChat, Skip, Count, Send, SendFails, DeliveryThrows,
       WorkerDies, rows, sender, Telling
  <1>2. place[j] # "none"
    BY DEF Deliver, WriteChat, Skip, Count, Send, SendFails, DeliveryThrows,
       WorkerDies, Works
  <1>3. \A i \in Copies : i # j => place'[i] = place[i]
    BY DEF TypeOK, Deliver, WriteChat, Skip, Count, Send, SendFails,
       DeliveryThrows, WorkerDies, Works, Retries, Moves
  <1>4. j[1] # m => chats'[m] = chats[m]
    BY DEF TypeOK, Deliver, WriteChat, Skip, Count, Send, SendFails,
       DeliveryThrows, WorkerDies, sent
  <1>5. Fresh(m)'
    BY <1>1, <1>2, <1>3, <1>4 DEF Fresh
  <1>6. Queued(m)' \subseteq Queued(m) \cup {j}
    BY <1>3 DEF Queued
  <1>7. CASE WriteChat(j)
    <2>1. failed' = failed /\ j[2] = "CHAT" /\ place[j] = "waiting"
      BY <1>7 DEF WriteChat, Works
    <2>2. place'[j] = "send"
      BY <1>7 DEF WriteChat, Works, Moves, TypeOK
    <2>3. Queued(m)' \subseteq Queued(m) \ {j}
      BY <1>6, <2>2 DEF Queued
    <2>4. CASE j[1] = m
      <3>1. j \in Queued(m)
        BY <2>1, <2>4 DEF Queued
      <3>2. chats'[m] = chats[m] + 1
        BY <1>7, <2>4 DEF WriteChat
      <3> QED  BY <1>1, <1>5, <2>1, <2>3, <3>1, <3>2, WritesOnce
    <2>5. CASE j[1] # m
      BY <1>1, <1>4, <1>5, <2>1, <2>3, <2>5, KeepsOnce, ReminderTypes
    <2> QED  BY <2>4, <2>5
  <1>8. CASE Skip(j) \/ Count(j) \/ Send(j)
    <2>1. chats' = chats /\ failed' = failed
      BY <1>8 DEF Skip, Count, Send, sent
    <2>2. Queued(m)' \subseteq Queued(m)
      <3>1. CASE Skip(j) \/ Count(j)
        BY <1>6, <3>1 DEF Skip, Count, Queued
      <3>2. CASE Send(j)
        <4>1. place'[j] = "done"
          BY <3>2 DEF Send, Works, Moves, TypeOK
        <4> QED  BY <1>6, <4>1 DEF Queued
      <3> QED  BY <1>8, <3>1, <3>2
    <2> QED  BY <1>1, <1>5, <2>1, <2>2, KeepsOnce, ReminderTypes
  <1>9. CASE SendFails(j) \/ DeliveryThrows(j) \/ WorkerDies(j)
    <2>1. chats' = chats /\ FailedAChat(j)
      BY <1>9 DEF SendFails, DeliveryThrows, WorkerDies, Retries
    <2>2. CASE j[1] = m /\ j[2] = "CHAT"
      <3>1. failed'[m] = failed[m] + 1
        BY <2>1, <2>2 DEF FailedAChat
      <3> QED  BY <1>1, <1>5, <1>6, <2>1, <3>1, FailsOnce
    <2>3. CASE ~ (j[1] = m /\ j[2] = "CHAT")
      <3>1. failed'[m] = failed[m]
        BY <2>1, <2>3 DEF FailedAChat
      <3>2. Queued(m)' \subseteq Queued(m)
        BY <1>6, <2>3 DEF Queued
      <3> QED  BY <1>1, <1>5, <2>1, <3>1, <3>2, KeepsOnce, ReminderTypes
    <2> QED  BY <2>2, <2>3
  <1> QED  BY <1>7, <1>8, <1>9 DEF Deliver

\* What a pass claims nobody has claimed before.
LEMMA ClaimReminds ==
    ASSUME TypeOK, TypeOK', NEW m \in Reminders, Fresh(m), Once(m),
           NEW p \in Passes, NEW x \in Reminders, Claim(p, x)
    PROVE  Fresh(m)' /\ Once(m)'
  <1>1. /\ place' = place /\ chats' = chats /\ failed' = failed
        /\ p \in Senders /\ Queued(m)' = Queued(m)
    BY DEF Claim, queue, sent, Senders, Queued
  <1>2. /\ marked' = marked \cup {x} /\ x \notin marked
        /\ about' = [about EXCEPT ![p] = x]
        /\ \A r \in Senders : r # p => todo'[r] = todo[r] /\ about'[r] = about[r]
    BY DEF Claim, Claims, Notifies, TypeOK
  <1>3. CASE x = m
    <2>1. Fresh(m)'
      BY <1>2, <1>3 DEF Fresh
    <2>2. Telling(m) = {} /\ Queued(m) = {} /\ chats[m] = 0
      BY <1>2, <1>3 DEF Fresh, Telling, Queued
    <2>3. Telling(m)' \subseteq {p}
      BY <1>2, <2>2 DEF Telling
    <2>4. IsFiniteSet({}) /\ Cardinality({}) = 0
      BY FS_EmptySet
    <2>5. /\ IsFiniteSet(Telling(m)') /\ Cardinality(Telling(m)') <= 1
          /\ Cardinality(Telling(m)') \in Nat
      <3>1. IsFiniteSet({p}) /\ Cardinality({p}) = 1
        BY FS_Singleton
      <3> DEFINE T == Telling(m)'
      <3>2. T \subseteq {p}
        BY <2>3
      <3> HIDE DEF T
      <3>3. IsFiniteSet(T) /\ Cardinality(T) <= Cardinality({p})
            /\ Cardinality(T) \in Nat
        BY <3>1, <3>2, Smaller
      <3> QED  BY <3>1, <3>3 DEF T
    <2>6. IsFiniteSet(Queued(m)') /\ Cardinality(Queued(m)') = 0
      BY <1>1, <2>2, <2>4
    <2>7. chats'[m] + Cardinality(Telling(m)') + Cardinality(Queued(m)')
              <= 1 + failed'[m]
      BY <1>1, <2>2, <2>5, <2>6, ReminderTypes
    <2>8. Once(m)'
      BY <2>5, <2>6, <2>7 DEF Once
    <2> QED  BY <2>1, <2>8
  <1>4. CASE x # m
    <2>1. about'[p] # m
      BY <1>1, <1>2, <1>4 DEF TypeOK
    <2>2. Fresh(m)'
      BY <1>1, <1>2, <2>1 DEF Fresh
    <2>3. Telling(m)' \subseteq Telling(m)
      BY <1>2, <2>1 DEF Telling
    <2> QED  BY <1>1, <2>2, <2>3, KeepsOnce, ReminderTypes
  <1> QED  BY <1>3, <1>4

LEMMA TellReminds ==
    ASSUME TypeOK, TypeOK', NEW m \in Reminders, Fresh(m), Once(m),
           NEW r \in Requests, NEW x \in News, Tell(r, x)
    PROVE  Fresh(m)' /\ Once(m)'
  <1>1. /\ place' = place /\ chats' = chats /\ failed' = failed
        /\ marked' = marked /\ r \in Senders /\ Queued(m)' = Queued(m)
    BY DEF Tell, rows, queue, sent, Senders, Queued
  <1>2. /\ about'[r] # m
        /\ \A s \in Senders : s # r => todo'[s] = todo[s] /\ about'[s] = about[s]
    BY <1>1, ReminderTypes DEF Tell, Notifies, TypeOK
  <1>3. Fresh(m)'
    BY <1>1, <1>2 DEF Fresh
  <1>4. Telling(m)' \subseteq Telling(m)
    BY <1>2 DEF Telling
  <1> QED  BY <1>1, <1>3, <1>4, KeepsOnce, ReminderTypes

LEMMA ReminderStep == ReminderInv /\ [Next]_vars => ReminderInv'
  <1> SUFFICES ASSUME ReminderInv, [Next]_vars PROVE ReminderInv'
    OBVIOUS
  <1>1. TypeOK /\ TypeOK'
    BY StepTypes DEF ReminderInv
  <1>2. ASSUME NEW m \in Reminders PROVE Fresh(m)' /\ Once(m)'
    <2>1. Fresh(m) /\ Once(m)
      BY DEF ReminderInv
    <2>2. ASSUME NEW s \in Senders,
                 NotifyStep(s) \/ NotifyFails(s) \/ SenderDies(s)
          PROVE  Fresh(m)' /\ Once(m)'
      BY <1>1, <2>1, <2>2, SenderReminds
    <2>3. ASSUME NEW j \in Copies, Deliver(j) \/ WorkerDies(j)
          PROVE  Fresh(m)' /\ Once(m)'
      BY <1>1, <2>1, <2>3, DeliveryReminds
    <2>4. ASSUME NEW p \in Passes, NEW x \in Reminders, Claim(p, x)
          PROVE  Fresh(m)' /\ Once(m)'
      BY <1>1, <2>1, <2>4, ClaimReminds
    <2>5. ASSUME NEW r \in Requests, NEW x \in News, Tell(r, x)
          PROVE  Fresh(m)' /\ Once(m)'
      BY <1>1, <2>1, <2>5, TellReminds
    <2>6. CASE \/ \E x \in Reminders : Settles(x)
               \/ \E p \in Passes : \/ ReadDue(p)
                                    \/ \E x \in Reminders : PassOver(p, x)
               \/ KeyExpires \/ UNCHANGED vars
      <3>1. /\ marked' = marked /\ about' = about /\ todo' = todo
            /\ place' = place /\ chats' = chats /\ failed' = failed
        BY <2>6 DEF Settles, ReadDue, PassOver, KeyExpires, vars, rows,
           sender, queue, sent
      <3>2. Fresh(m)' /\ Telling(m)' = Telling(m) /\ Queued(m)' = Queued(m)
        BY <2>1, <3>1 DEF Fresh, Telling, Queued
      <3> QED  BY <1>1, <2>1, <3>1, <3>2, KeepsOnce, ReminderTypes
    <2> QED  BY <2>2, <2>3, <2>4, <2>5, <2>6 DEF Next
  <1> QED  BY <1>1, <1>2 DEF ReminderInv

\* However many passes overlap and however long the keys live, a reminder is
\* written to the buyer once, and once more for every failed delivery.
THEOREM WrittenOnce == Spec => []RemindedOnce
  <1>1. Init => ReminderInv
    <2> SUFFICES ASSUME Init, NEW m \in Reminders PROVE Fresh(m) /\ Once(m)
      BY InitTypes DEF ReminderInv
    <2>0. m # Nobody
      BY MessagesAssumption
    <2>1. Fresh(m)
      BY <2>0 DEF Init, Fresh
    <2>2. Telling(m) = {} /\ Queued(m) = {}
      BY DEF Init, Telling, Queued
    <2>3. IsFiniteSet(Telling(m)) /\ IsFiniteSet(Queued(m))
      BY <2>2, FS_EmptySet, Zenon
    <2>4. Cardinality(Telling(m)) = 0 /\ Cardinality(Queued(m)) = 0
      BY <2>2, FS_EmptySet, Zenon
    <2>5. chats[m] + Cardinality(Telling(m)) + Cardinality(Queued(m))
              <= 1 + failed[m]
      BY <2>4 DEF Init
    <2> QED  BY <2>1, <2>3, <2>5 DEF Once
  <1>2. ReminderInv => RemindedOnce
    <2> SUFFICES ASSUME ReminderInv, NEW m \in Reminders
                 PROVE  chats[m] <= 1 + failed[m]
      BY DEF RemindedOnce
    <2>1. Cardinality(Telling(m)) \in Nat /\ Cardinality(Queued(m)) \in Nat
      BY FS_CardinalityType DEF ReminderInv, Once
    <2>2. chats[m] \in Nat /\ failed[m] \in Nat
      BY DEF ReminderInv, TypeOK
    <2> QED  BY <2>1, <2>2 DEF ReminderInv, Once
  <1> QED  BY <1>1, <1>2, ReminderStep, PTL DEF Spec

=============================================================================
