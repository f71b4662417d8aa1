---------------------- MODULE ConversationMailboxProofs ----------------------
(***************************************************************************)
(* For any number of requests of a conversation, whenever its lock runs    *)
(* out: of two turns at once one has lost the lock, what waited is         *)
(* answered in its order by those that had it, no message is answered      *)
(* twice, and none is left behind by the one who was to look at it.        *)
(***************************************************************************)
EXTENDS ConversationMailbox, SequenceTheorems, TLAPS

\* Whoever is between taking the lock and giving it up holds it, or it has run
\* out under him.
HolderHasLock ==
    /\ pc \in [Requests -> Places]
    /\ \A r \in Requests : pc[r] \in Holding => lock = r \/ r \in overran

LEMMA HolderStep == HolderHasLock /\ [Next]_vars => HolderHasLock'
  <1> SUFFICES ASSUME HolderHasLock, [Next]_vars
               PROVE  HolderHasLock'
    OBVIOUS
  <1> USE MailboxAssumption DEF HolderHasLock, Places, Holding, Between, Ended, Go, history
  <1>1. ASSUME NEW r \in Requests, Begin(r)
        PROVE  HolderHasLock'
    BY <1>1 DEF Begin, Take, Requests
  <1>2. ASSUME NEW r \in Requests, GoesOn(r)
        PROVE  HolderHasLock'
    <2>1. CASE FinishTurn(r) \/ TurnThrows(r)
      BY <2>1 DEF FinishTurn, TurnThrows
    <2>2. CASE Drain(r) \/ FindNone(r) \/ OutOfRounds(r)
      BY <2>2 DEF Drain, FindNone, OutOfRounds
    <2>3. ASSUME NEW throws \in BOOLEAN, FinishBatch(r, throws)
          PROVE  HolderHasLock'
      BY <2>3 DEF FinishBatch
    <2>4. CASE ReleaseToCount(r)
      BY <2>4 DEF ReleaseToCount, Release
    <2>5. CASE Count(r)
      BY <2>5 DEF Count
    <2>6. CASE Reacquire(r)
      BY <2>6 DEF Reacquire, Take, Requests
    <2>7. CASE Leave(r)
      BY <2>7 DEF Leave, Release
    <2>8. CASE Enqueue(r)
      BY <2>8 DEF Enqueue
    <2> QED
      BY <1>2, <2>1, <2>2, <2>3, <2>4, <2>5, <2>6, <2>7, <2>8 DEF GoesOn
  <1>3. ASSUME NEW r \in Requests, Crash(r)
        PROVE  HolderHasLock'
    BY <1>3 DEF Crash
  <1>4. ASSUME NEW r \in Requests, Refused(r) \/ GiveUp(r)
        PROVE  HolderHasLock'
    BY <1>4 DEF Refused, GiveUp
  <1>5. CASE LockExpires
    BY <1>5 DEF LockExpires
  <1>6. CASE PendingExpires \/ UNCHANGED vars
    BY <1>6 DEF PendingExpires, vars
  <1> QED BY <1>1, <1>2, <1>3, <1>4, <1>5, <1>6 DEF Next, Requests

\* Of two turns that run at once, one has outlived its lock: a request whose lock
\* ran out takes nobody else's away, although holders give the lock up, come back
\* for it, and die.
THEOREM TurnsApart == Spec => []OneTurnAtATime
  <1>1. Init => HolderHasLock
    BY DEF Init, HolderHasLock, Places, Holding
  <1>2. HolderHasLock => OneTurnAtATime
    BY DEF HolderHasLock, Holding, OneTurnAtATime, InTurn
  <1> QED BY <1>1, <1>2, HolderStep, PTL DEF Spec

-----------------------------------------------------------------------------
(* Sequences without repetition.                                           *)

In(m, s) == \E i \in DOMAIN s : s[i] = m

Distinct(s) == \A i, j \in DOMAIN s : s[i] = s[j] => i = j

LEMMA AppendDistinct ==
    ASSUME NEW S, NEW s \in Seq(S), NEW e \in S
    PROVE  /\ Append(s, e) \in Seq(S)
           /\ \A x : In(x, Append(s, e)) <=> In(x, s) \/ x = e
           /\ Distinct(s) /\ ~In(e, s) => Distinct(Append(s, e))
  <1> DEFINE t == Append(s, e)
  <1>1. /\ t \in Seq(S) /\ DOMAIN t = 1..(Len(s) + 1) /\ DOMAIN s = 1..Len(s)
        /\ t[Len(s) + 1] = e /\ \A i \in DOMAIN s : t[i] = s[i]
        /\ Len(s) \in Nat
    OBVIOUS
  <1> HIDE DEF t
  <1>2. ASSUME NEW x PROVE In(x, t) <=> In(x, s) \/ x = e
    BY <1>1 DEF In
  <1>3. ASSUME Distinct(s), ~In(e, s) PROVE Distinct(t)
    BY <1>1, <1>3 DEF In, Distinct
  <1> QED BY <1>1, <1>2, <1>3 DEF t

LEMMA ConcatDistinct ==
    ASSUME NEW S, NEW s \in Seq(S), NEW t \in Seq(S)
    PROVE  /\ s \o t \in Seq(S)
           /\ \A x : In(x, s \o t) <=> In(x, s) \/ In(x, t)
           /\ /\ Distinct(s) /\ Distinct(t)
              /\ \A x \in S : ~(In(x, s) /\ In(x, t))
              => Distinct(s \o t)
  <1> DEFINE u == s \o t
  <1>1. /\ u \in Seq(S) /\ Len(s) \in Nat /\ Len(t) \in Nat
        /\ DOMAIN s = 1..Len(s) /\ DOMAIN t = 1..Len(t)
        /\ DOMAIN u = 1..(Len(s) + Len(t))
        /\ \A i \in DOMAIN s : u[i] = s[i]
        /\ \A i \in DOMAIN t : u[Len(s) + i] = t[i]
        /\ \A i \in DOMAIN u : i \notin DOMAIN s =>
               i - Len(s) \in DOMAIN t /\ u[i] = t[i - Len(s)]
    BY ConcatProperties, LenProperties
  <1> HIDE DEF u
  <1>2. ASSUME NEW x PROVE In(x, u) <=> In(x, s) \/ In(x, t)
    <2>1. In(x, u) => In(x, s) \/ In(x, t)
      BY <1>1 DEF In
    <2>2. In(x, s) => In(x, u)
      BY <1>1 DEF In
    <2>3. ASSUME In(x, t) PROVE In(x, u)
      <3>1. PICK i \in DOMAIN t : t[i] = x
        BY <2>3 DEF In
      <3>2. Len(s) + i \in DOMAIN u /\ u[Len(s) + i] = x
        BY <1>1, <3>1
      <3> QED BY <3>2 DEF In
    <2> QED BY <2>1, <2>2, <2>3
  <1>3. ASSUME Distinct(s), Distinct(t), \A x \in S : ~(In(x, s) /\ In(x, t)),
               NEW i \in DOMAIN u, NEW j \in DOMAIN u, u[i] = u[j]
        PROVE  i = j
    <2>1. \A k \in DOMAIN s : In(s[k], s) /\ s[k] \in S
      BY <1>1, ElementOfSeq DEF In
    <2>2. \A k \in DOMAIN t : In(t[k], t) /\ t[k] \in S
      BY <1>1, ElementOfSeq DEF In
    <2>3. CASE i \in DOMAIN s /\ j \in DOMAIN s
      BY <1>1, <1>3, <2>3 DEF Distinct
    <2>4. CASE i \notin DOMAIN s /\ j \notin DOMAIN s
      BY <1>1, <1>3, <2>4 DEF Distinct
    <2>5. CASE i \in DOMAIN s /\ j \notin DOMAIN s
      BY <1>1, <1>3, <2>1, <2>2, <2>5
    <2>6. CASE i \notin DOMAIN s /\ j \in DOMAIN s
      BY <1>1, <1>3, <2>1, <2>2, <2>6
    <2> QED BY <2>3, <2>4, <2>5, <2>6
  <1> QED BY <1>1, <1>2, <1>3 DEF u, Distinct

\* The newest messages are the sequence, or its last MaxPending elements.
LEMMA NewestParts ==
    ASSUME NEW s \in Seq(Messages)
    PROVE  /\ Newest(s) \in Seq(Messages) /\ Len(Newest(s)) <= MaxPending
           /\ \E k \in Nat : \A i \in DOMAIN Newest(s) :
                 i \in Nat /\ k + i \in DOMAIN s /\ Newest(s)[i] = s[k + i]
  <1>1. CASE Len(s) <= MaxPending
    <2>1. Newest(s) = s /\ DOMAIN s = 1..Len(s)
      BY <1>1, MailboxAssumption, LenProperties DEF Newest
    <2>2. \A i \in DOMAIN s : i \in Nat /\ 0 + i \in DOMAIN s /\ s[i] = s[0 + i]
      BY <2>1, LenProperties
    <2> QED BY <1>1, <2>1, <2>2
  <1>2. CASE Len(s) > MaxPending
    <2> DEFINE k == Len(s) - MaxPending
               t == SubSeq(s, k + 1, Len(s))
    <2>1. k \in Nat /\ Len(s) = k + MaxPending /\ DOMAIN s = 1..Len(s)
      BY <1>2, MailboxAssumption, LenProperties
    <2>2. \A i \in (k + 1)..Len(s) : s[i] \in Messages
      BY <2>1, ElementOfSeq
    <2>3. /\ t \in Seq(Messages) /\ Len(t) = MaxPending
          /\ \A i \in 1..MaxPending : t[i] = s[k + i]
      BY <2>1, <2>2, MailboxAssumption, SubSeqProperties
    <2>4. Newest(s) = t
      BY <1>2, MailboxAssumption, LenProperties DEF Newest
    <2> HIDE DEF k, t
    <2>5. DOMAIN t = 1..MaxPending
      BY <2>3, LenProperties
    <2>6. \A i \in DOMAIN t : i \in Nat /\ k + i \in DOMAIN s /\ t[i] = s[k + i]
      BY <2>1, <2>3, <2>5, MailboxAssumption
    <2> QED BY <2>1, <2>3, <2>4, <2>6, MailboxAssumption
  <1> QED BY <1>1, <1>2, MailboxAssumption, LenProperties

LEMMA NewestDistinct ==
    ASSUME NEW s \in Seq(Messages)
    PROVE  /\ \A x : In(x, Newest(s)) => In(x, s)
           /\ Distinct(s) => Distinct(Newest(s))
  <1>1. PICK k \in Nat : \A i \in DOMAIN Newest(s) :
             i \in Nat /\ k + i \in DOMAIN s /\ Newest(s)[i] = s[k + i]
    BY NewestParts
  <1>2. \A x : In(x, Newest(s)) => In(x, s)
    BY <1>1 DEF In
  <1>3. Distinct(s) => Distinct(Newest(s))
    BY <1>1 DEF Distinct
  <1> QED BY <1>2, <1>3

-----------------------------------------------------------------------------
(* A message is in one place only.                                         *)

Fresh == {"new", "refused", "turn"}

MessagesTypeOK ==
    /\ pc \in [Requests -> Places]
    /\ pending \in Seq(Messages)
    /\ batch \in [Requests -> Seq(Messages)]
    /\ log \in Seq(Messages)

\* No sequence repeats a message, a waiting or drained one was queued and not
\* answered, and an answered one is past its own turn.
Apart ==
    /\ MessagesTypeOK
    /\ Distinct(pending) /\ Distinct(log) /\ \A r \in Requests : Distinct(batch[r])
    /\ \A m \in Messages : In(m, pending) => pc[m] = "queued" /\ ~In(m, log)
    /\ \A m \in Messages, r \in Requests :
          In(m, batch[r]) => pc[m] = "queued" /\ ~In(m, log) /\ ~In(m, pending)
    /\ \A m \in Messages, r, q \in Requests :
          In(m, batch[r]) /\ In(m, batch[q]) => r = q
    /\ \A m \in Messages : In(m, log) => pc[m] \notin Fresh

LEMMA EmptyDistinct ==
    /\ <<>> \in Seq(Messages)
    /\ Distinct(<<>>)
    /\ \A x : ~In(x, <<>>)
  BY DEF Distinct, In

\* A request that only moves on leaves the messages where they are.
LEMMA MovesOn ==
    ASSUME Apart, NEW r \in Requests, NEW to \in Places,
           pc[r] # "queued", to \in Fresh => pc[r] \in Fresh,
           pc' = [pc EXCEPT ![r] = to], UNCHANGED <<pending, batch, log>>
    PROVE  Apart'
  BY DEF Apart, MessagesTypeOK, Requests, Fresh

LEMMA ApartStep == Apart /\ [Next]_vars => Apart'
  <1> SUFFICES ASSUME Apart, [Next]_vars
               PROVE  Apart'
    OBVIOUS
  <1> USE DEF history
  <1>1. ASSUME NEW r \in Requests, Begin(r) \/ Refused(r) \/ GiveUp(r) \/ Crash(r)
        PROVE  Apart'
    BY <1>1, MovesOn
       DEF Begin, Refused, GiveUp, Crash, Go, Fresh, Places, Holding, Between, Ended
  <1>2. ASSUME NEW m \in Messages, Enqueue(m)
        PROVE  Apart'
    <2>1. /\ pc[m] = "refused" /\ pc' = [pc EXCEPT ![m] = "queued"]
          /\ pending' = Newest(Append(pending, m))
          /\ UNCHANGED <<batch, log>>
      BY <1>2 DEF Enqueue, Go
    <2>2. /\ ~In(m, pending) /\ ~In(m, log) /\ \A r \in Requests : ~In(m, batch[r])
      BY <2>1 DEF Apart, Fresh
    <2>3. /\ Append(pending, m) \in Seq(Messages)
          /\ \A x : In(x, Append(pending, m)) <=> In(x, pending) \/ x = m
          /\ Distinct(Append(pending, m))
      BY <2>2, AppendDistinct DEF Apart, MessagesTypeOK
    <2>4. /\ pending' \in Seq(Messages) /\ Distinct(pending')
          /\ \A x : In(x, pending') => In(x, pending) \/ x = m
      BY <2>1, <2>3, NewestDistinct, NewestParts
    <2>5. pc' \in [Requests -> Places]
      BY <2>1 DEF Apart, MessagesTypeOK, Places, Ended
    <2>6. \A x \in Messages : pc'[x] = IF x = m THEN "queued" ELSE pc[x]
      BY <2>1 DEF Apart, MessagesTypeOK, Requests
    <2> QED
      BY <2>1, <2>2, <2>4, <2>5, <2>6 DEF Apart, MessagesTypeOK, Fresh
  <1>3. ASSUME NEW r \in Requests, GoesOn(r)
        PROVE  Apart'
    <2>1. CASE FinishTurn(r)
      <3>1. /\ pc[r] = "turn" /\ pc' = [pc EXCEPT ![r] = "drain"]
            /\ log' = IF r \in Messages THEN Append(log, r) ELSE log
            /\ UNCHANGED <<pending, batch>>
        BY <2>1 DEF FinishTurn, Go
      <3>2. CASE r \notin Messages
        BY <3>1, <3>2, MovesOn DEF Fresh, Places, Holding
      <3>3. CASE r \in Messages
        <4>1. ~In(r, log) /\ ~In(r, pending) /\ \A q \in Requests : ~In(r, batch[q])
          BY <3>1, <3>3 DEF Apart, Fresh
        <4>2. /\ log' \in Seq(Messages) /\ Distinct(log')
              /\ \A x : In(x, log') <=> In(x, log) \/ x = r
          BY <3>1, <3>3, <4>1, AppendDistinct DEF Apart, MessagesTypeOK
        <4>3. pc' \in [Requests -> Places]
          BY <3>1 DEF Apart, MessagesTypeOK, Places, Holding
        <4>4. \A x \in Messages : pc'[x] = IF x = r THEN "drain" ELSE pc[x]
          BY <3>1 DEF Apart, MessagesTypeOK, Requests
        <4> QED
          BY <3>1, <4>1, <4>2, <4>3, <4>4 DEF Apart, MessagesTypeOK, Fresh
      <3> QED BY <3>2, <3>3
    <2>2. CASE Drain(r)
      <3>1. /\ pc[r] = "drain" /\ pc' = [pc EXCEPT ![r] = "batch"]
            /\ batch' = [batch EXCEPT ![r] = pending]
            /\ pending' = <<>> /\ log' = log
        BY <2>2 DEF Drain, Go
      <3>2. pc' \in [Requests -> Places] /\ batch' \in [Requests -> Seq(Messages)]
        BY <3>1 DEF Apart, MessagesTypeOK, Places, Holding
      <3>3. \A x \in Messages : pc'[x] = IF x = r THEN "batch" ELSE pc[x]
        BY <3>1 DEF Apart, MessagesTypeOK, Requests
      <3>4. \A q \in Requests : batch'[q] = IF q = r THEN pending ELSE batch[q]
        BY <3>1 DEF Apart, MessagesTypeOK
      <3> QED
        BY <3>1, <3>2, <3>3, <3>4, EmptyDistinct
           DEF Apart, MessagesTypeOK, Fresh
    <2>3. ASSUME NEW throws \in BOOLEAN, FinishBatch(r, throws)
          PROVE  Apart'
      <3>1. /\ pc[r] = "batch" /\ pc' = [pc EXCEPT ![r] = "drain"]
            /\ log' = IF throws THEN log ELSE log \o batch[r]
            /\ batch' = [batch EXCEPT ![r] = <<>>]
            /\ pending' = pending
        BY <2>3 DEF FinishBatch, Go
      <3>2. pc' \in [Requests -> Places] /\ batch' \in [Requests -> Seq(Messages)]
        BY <3>1, EmptyDistinct DEF Apart, MessagesTypeOK, Places, Holding
      <3>3. \A x \in Messages : pc'[x] = IF x = r THEN "drain" ELSE pc[x]
        BY <3>1 DEF Apart, MessagesTypeOK, Requests
      <3>4. \A q \in Requests : batch'[q] = IF q = r THEN <<>> ELSE batch[q]
        BY <3>1 DEF Apart, MessagesTypeOK
      <3>5. /\ log' \in Seq(Messages) /\ Distinct(log')
            /\ \A x : In(x, log') => In(x, log) \/ In(x, batch[r])
        BY <3>1, ConcatDistinct DEF Apart, MessagesTypeOK
      <3> QED
        BY <3>1, <3>2, <3>3, <3>4, <3>5, EmptyDistinct
           DEF Apart, MessagesTypeOK, Fresh
    <2>4. CASE \/ TurnThrows(r) \/ FindNone(r) \/ OutOfRounds(r)
               \/ ReleaseToCount(r) \/ Count(r) \/ Reacquire(r) \/ Leave(r)
      BY <2>4, MovesOn
         DEF TurnThrows, FindNone, OutOfRounds, ReleaseToCount, Count, Reacquire,
             Leave, Go, Fresh, Places, Holding, Between, Ended
    <2> QED BY <1>2, <1>3, <2>1, <2>2, <2>3, <2>4 DEF GoesOn
  <1>4. CASE PendingExpires
    BY <1>4, EmptyDistinct DEF PendingExpires, Apart, MessagesTypeOK
  <1>5. CASE LockExpires \/ UNCHANGED vars
    BY <1>5 DEF LockExpires, vars, Apart, MessagesTypeOK
  <1> QED BY <1>1, <1>2, <1>3, <1>4, <1>5 DEF Next, Requests

\* No message is answered twice, however the lock expires, requests die and
\* drains follow one another.
THEOREM NoSecondAnswer == Spec => []AnsweredOnce
  <1>1. Init => Apart
    BY EmptyDistinct DEF Init, Apart, MessagesTypeOK, Places
  <1>2. Apart => AnsweredOnce
    BY DEF Apart, Distinct, AnsweredOnce
  <1> QED BY <1>1, <1>2, ApartStep, PTL DEF Spec

-----------------------------------------------------------------------------
(* Types.                                                                  *)

LEMMA EmptyTypes == <<>> \in Seq(Messages) /\ Len(<<>>) = 0
  OBVIOUS

LEMMA TypeStep == TypeOK /\ [Next]_vars => TypeOK'
  <1> SUFFICES ASSUME TypeOK, [Next]_vars PROVE TypeOK'
    OBVIOUS
  <1> USE DEF TypeOK, Places, Holding, Between, Ended, Go, history
  <1>1. ASSUME NEW r \in Requests, Begin(r) \/ Crash(r) \/ Refused(r) \/ GiveUp(r)
        PROVE  TypeOK'
    BY <1>1 DEF Begin, Take, Crash, Refused, GiveUp
  <1>2. ASSUME NEW m \in Messages, Enqueue(m) PROVE TypeOK'
    <2>1. Append(pending, m) \in Seq(Messages) /\ Append(arrived, m) \in Seq(Messages)
      OBVIOUS
    <2> QED  BY <1>2, <2>1, NewestParts DEF Enqueue
  <1>3. ASSUME NEW r \in Requests, FinishTurn(r) PROVE TypeOK'
    <2>1. log' \in Seq(Messages)
      BY <1>3 DEF FinishTurn
    <2> QED  BY <1>3, <2>1 DEF FinishTurn
  <1>4. ASSUME NEW r \in Requests, Drain(r) PROVE TypeOK'
    BY <1>4, EmptyTypes, MailboxAssumption DEF Drain
  <1>5. ASSUME NEW r \in Requests, NEW throws \in BOOLEAN, FinishBatch(r, throws)
        PROVE  TypeOK'
    <2>1. log \o batch[r] \in Seq(Messages)
      BY ConcatProperties
    <2>2. late' \subseteq Messages
      BY <1>5, ElementOfSeq DEF FinishBatch
    <2> QED  BY <1>5, <2>1, <2>2, EmptyTypes DEF FinishBatch
  <1>6. ASSUME NEW r \in Requests,
               \/ TurnThrows(r) \/ FindNone(r) \/ OutOfRounds(r)
               \/ ReleaseToCount(r) \/ Count(r) \/ Leave(r)
        PROVE  TypeOK'
    BY <1>6 DEF TurnThrows, FindNone, OutOfRounds, ReleaseToCount, Release,
       Count, Leave
  <1>7. ASSUME NEW r \in Requests, Reacquire(r) PROVE TypeOK'
    <2>1. PICK to \in Places : pc' = [pc EXCEPT ![r] = to]
      BY <1>7 DEF Reacquire
    <2>3. round' = round \/ round' = [round EXCEPT ![r] = @ + 1]
      BY <1>7 DEF Reacquire
    <2>2. lock' \in Requests \cup {Free} /\ UNCHANGED <<pending, batch, history>>
      BY <1>7 DEF Reacquire, Take
    <2>4. round' \in [Requests -> Nat] /\ pc' \in [Requests -> Places]
      BY <2>1, <2>3
    <2> QED  BY <2>2, <2>4
  <1>8. CASE PendingExpires
    <2>1. pending' = <<>> /\ UNCHANGED <<lock, pc, round, batch, history>>
      BY <1>8 DEF PendingExpires
    <2> QED  BY <2>1, EmptyTypes, MailboxAssumption
  <1>10. CASE LockExpires
    BY <1>10 DEF LockExpires
  <1>11. CASE UNCHANGED vars
    BY <1>11 DEF vars
  <1>9. ASSUME NEW r \in Requests, GoesOn(r) PROVE TypeOK'
    BY <1>2, <1>3, <1>4, <1>5, <1>6, <1>7, <1>9 DEF GoesOn
  <1> QED  BY <1>1, <1>8, <1>9, <1>10, <1>11 DEF Next, Requests

\* The list never holds more than its cap, and only messages wait, are drained
\* and are answered.
THEOREM MailboxTypes == Spec => []TypeOK
  <1>1. Init => TypeOK
    BY EmptyTypes, MailboxAssumption DEF Init, TypeOK, Places
  <1> QED  BY <1>1, TypeStep, PTL DEF Spec

-----------------------------------------------------------------------------
(* Messages that waited are answered in the order in which they came, those *)
(* apart that a request answered whose lock had run out.  What is answered  *)
(* came before what is drained under the lock, and that before what is in   *)
(* the list; since turns are apart, there is only one such batch.           *)

Earlier(x, y) ==
    \/ {x, y} \cap late # {}
    \/ \A a, b \in DOMAIN arrived : arrived[a] = x /\ arrived[b] = y => a < b

Sorted(s) == \A i, j \in DOMAIN s : i < j => Earlier(s[i], s[j])

Precedes(s, t) == \A x, y \in Messages : In(x, s) /\ In(y, t) => Earlier(x, y)

Ordered ==
    /\ \A m \in Messages : In(m, arrived) => pc[m] = "queued"
    /\ Sorted(log) /\ Sorted(pending) /\ \A r \in Requests : Sorted(batch[r])
    /\ Precedes(log, pending)
    /\ \A r \in Requests : pc[r] = "batch" /\ r \notin overran =>
           Precedes(log, batch[r]) /\ Precedes(batch[r], pending)

InOrder == Apart /\ HolderHasLock /\ TypeOK /\ Ordered

LEMMA EmptySorted ==
    /\ Sorted(<<>>)
    /\ \A s : Precedes(<<>>, s) /\ Precedes(s, <<>>)
  BY EmptyDistinct DEF Sorted, Precedes

\* Two sorted sequences, the one before the other.
LEMMA ConcatSorted ==
    ASSUME NEW s \in Seq(Messages), NEW t \in Seq(Messages),
           Sorted(s), Sorted(t), Precedes(s, t)
    PROVE  Sorted(s \o t)
  <1> DEFINE u == s \o t
  <1>1. /\ Len(s) \in Nat /\ Len(t) \in Nat
        /\ DOMAIN s = 1..Len(s) /\ DOMAIN t = 1..Len(t)
        /\ DOMAIN u = 1..(Len(s) + Len(t))
        /\ \A i \in DOMAIN s : u[i] = s[i]
        /\ \A i \in DOMAIN u : i \notin DOMAIN s =>
               i - Len(s) \in DOMAIN t /\ u[i] = t[i - Len(s)]
    BY ConcatProperties, LenProperties
  <1> HIDE DEF u
  <1>2. ASSUME NEW i \in DOMAIN u, NEW j \in DOMAIN u, i < j
        PROVE  Earlier(u[i], u[j])
    <2>1. CASE i \in DOMAIN s /\ j \in DOMAIN s
      BY <1>1, <1>2, <2>1 DEF Sorted
    <2>2. CASE i \notin DOMAIN s /\ j \notin DOMAIN s
      BY <1>1, <1>2, <2>2 DEF Sorted
    <2>3. CASE i \in DOMAIN s /\ j \notin DOMAIN s
      <3>1. /\ u[i] = s[i] /\ s[i] \in Messages /\ In(s[i], s)
        BY <1>1, <2>3, ElementOfSeq DEF In
      <3>2. /\ j - Len(s) \in DOMAIN t /\ u[j] = t[j - Len(s)]
            /\ t[j - Len(s)] \in Messages /\ In(t[j - Len(s)], t)
        BY <1>1, <2>3, ElementOfSeq DEF In
      <3> QED  BY <3>1, <3>2 DEF Precedes
    <2>4. CASE i \notin DOMAIN s /\ j \in DOMAIN s
      BY <1>1, <1>2, <2>4
    <2> QED  BY <2>1, <2>2, <2>3, <2>4
  <1> QED  BY <1>2 DEF u, Sorted

LEMMA NewestSorted ==
    ASSUME NEW s \in Seq(Messages), Sorted(s)
    PROVE  Sorted(Newest(s))
  <1>1. PICK k \in Nat : \A i \in DOMAIN Newest(s) :
             i \in Nat /\ k + i \in DOMAIN s /\ Newest(s)[i] = s[k + i]
    BY NewestParts
  <1>2. ASSUME NEW i \in DOMAIN Newest(s), NEW j \in DOMAIN Newest(s), i < j
        PROVE  Earlier(Newest(s)[i], Newest(s)[j])
    <2>1. k + i < k + j
      BY <1>1, <1>2
    <2> QED BY <1>1, <1>2, <2>1 DEF Sorted
  <1> QED BY <1>2 DEF Sorted

LEMMA AppendSorted ==
    ASSUME NEW s \in Seq(Messages), NEW m \in Messages, Sorted(s),
           \A x \in Messages : In(x, s) => Earlier(x, m)
    PROVE  Sorted(Append(s, m))
  <1> DEFINE u == Append(s, m)
  <1>1. /\ Len(s) \in Nat /\ DOMAIN s = 1..Len(s) /\ DOMAIN u = 1..(Len(s) + 1)
        /\ u[Len(s) + 1] = m /\ \A i \in DOMAIN s : u[i] = s[i]
    OBVIOUS
  <1>2. \A i \in DOMAIN s : s[i] \in Messages /\ In(s[i], s)
    BY <1>1, ElementOfSeq DEF In
  <1> HIDE DEF u
  <1>3. ASSUME NEW i \in DOMAIN u, NEW j \in DOMAIN u, i < j
        PROVE  Earlier(u[i], u[j])
    <2>1. i \in DOMAIN s /\ u[i] = s[i]
      BY <1>1, <1>3
    <2>2. CASE j \in DOMAIN s
      BY <1>1, <1>3, <2>1, <2>2 DEF Sorted
    <2>3. CASE j \notin DOMAIN s
      BY <1>1, <1>2, <1>3, <2>1, <2>3
    <2> QED  BY <2>2, <2>3
  <1> QED  BY <1>3 DEF u, Sorted

\* A step that moves no message and starts no batch.
LEMMA StaysOrdered ==
    ASSUME Ordered, UNCHANGED <<arrived, pending, batch, log, late>>,
           \A q \in Requests : pc'[q] = "batch" /\ q \notin overran' =>
                                 pc[q] = "batch" /\ q \notin overran,
           \A q \in Requests : pc[q] = "queued" => pc'[q] = "queued"
    PROVE  Ordered'
  <1>1. \A x, y : Earlier(x, y)' <=> Earlier(x, y)
    BY DEF Earlier
  <1>2. /\ Sorted(log)' /\ Sorted(pending)'
        /\ \A r \in Requests : Sorted(batch[r])'
    BY <1>1 DEF Ordered, Sorted
  <1>3. /\ Precedes(log, pending)'
        /\ \A r \in Requests : pc'[r] = "batch" /\ r \notin overran' =>
               Precedes(log, batch[r])' /\ Precedes(batch[r], pending)'
    BY <1>1 DEF Ordered, Precedes, In
  <1>4. \A m \in Messages : In(m, arrived)' => pc'[m] = "queued"
    BY DEF Ordered, In, Requests
  <1> QED  BY <1>2, <1>3, <1>4 DEF Ordered

\* The message that comes now is later than every other.
LEMMA EnqueueOrdered ==
    ASSUME InOrder, NEW m \in Messages, Enqueue(m)
    PROVE  Ordered'
  <1>1. /\ pc[m] = "refused" /\ pc' = [pc EXCEPT ![m] = "queued"]
        /\ pending' = Newest(Append(pending, m))
        /\ arrived' = Append(arrived, m)
        /\ UNCHANGED <<batch, log, overran, late>>
    BY DEF Enqueue, Go
  <1>2. /\ pending \in Seq(Messages) /\ log \in Seq(Messages)
        /\ arrived \in Seq(Messages) /\ pc \in [Requests -> Places]
        /\ batch \in [Requests -> Seq(Messages)]
    BY DEF InOrder, TypeOK
  <1>3. /\ ~In(m, arrived) /\ ~In(m, log) /\ ~In(m, pending)
        /\ \A r \in Requests : ~In(m, batch[r])
    BY <1>1 DEF InOrder, Ordered, Apart, Fresh
  <1>4. /\ Len(arrived) \in Nat /\ DOMAIN arrived = 1..Len(arrived)
        /\ DOMAIN arrived' = 1..(Len(arrived) + 1)
        /\ arrived'[Len(arrived) + 1] = m
        /\ \A i \in DOMAIN arrived : arrived'[i] = arrived[i]
    BY <1>1, <1>2
  <1> DEFINE Before(x, y) ==
          \/ {x, y} \cap late # {}
          \/ \A a, b \in DOMAIN arrived' : arrived'[a] = x /\ arrived'[b] = y => a < b
  <1>5. ASSUME NEW x, NEW y, x # m, y # m, Earlier(x, y)
        PROVE  Before(x, y)
    BY <1>4, <1>5 DEF Earlier
  <1>6. ASSUME NEW x, x # m PROVE Before(x, m)
    <2> SUFFICES ASSUME NEW a \in DOMAIN arrived', NEW b \in DOMAIN arrived',
                        arrived'[a] = x, arrived'[b] = m
                 PROVE  a < b
      OBVIOUS
    <2>1. b = Len(arrived) + 1
      BY <1>3, <1>4 DEF In
    <2>2. a # Len(arrived) + 1
      BY <1>4, <1>6
    <2> QED  BY <1>4, <2>1, <2>2
  <1>0. \A x, y : Earlier(x, y)' <=> Before(x, y)
    BY <1>1 DEF Earlier
  <1> HIDE DEF Before
  <1>7. /\ Sorted(log) /\ Sorted(pending) /\ \A r \in Requests : Sorted(batch[r])
        /\ Precedes(log, pending)
        /\ \A r \in Requests : pc[r] = "batch" /\ r \notin overran =>
               Precedes(log, batch[r]) /\ Precedes(batch[r], pending)
    BY DEF InOrder, Ordered
  <1>8. Sorted(log)'
    BY <1>0, <1>1, <1>3, <1>5, <1>7 DEF Sorted, In
  <1>9. \A r \in Requests : Sorted(batch[r])'
    BY <1>0, <1>1, <1>3, <1>5, <1>7 DEF Sorted, In
  <1> DEFINE long == Append(pending, m)
  <1>10. /\ long \in Seq(Messages)
         /\ \A x : In(x, long) <=> In(x, pending) \/ x = m
    BY <1>2, AppendDistinct
  <1>11. Sorted(pending)'
    <2>1. /\ Len(pending) \in Nat /\ DOMAIN pending = 1..Len(pending)
          /\ DOMAIN long = 1..(Len(pending) + 1)
          /\ long[Len(pending) + 1] = m
          /\ \A i \in DOMAIN pending : long[i] = pending[i] /\ pending[i] # m
      BY <1>2, <1>3 DEF In
    <2> HIDE DEF long
    <2>2. ASSUME NEW i \in DOMAIN long, NEW j \in DOMAIN long, i < j
          PROVE  Before(long[i], long[j])
      <3>1. i \in DOMAIN pending
        BY <2>1, <2>2
      <3>2. CASE j \in DOMAIN pending
        BY <1>5, <1>7, <2>1, <2>2, <3>1, <3>2 DEF Sorted
      <3>3. CASE j \notin DOMAIN pending
        BY <1>6, <2>1, <3>1, <3>3
      <3> QED  BY <3>2, <3>3
    <2>3. PICK k \in Nat : \A i \in DOMAIN Newest(long) :
             i \in Nat /\ k + i \in DOMAIN long /\ Newest(long)[i] = long[k + i]
      BY <1>10, NewestParts
    <2>4. pending' = Newest(long)
      BY <1>1 DEF long
    <2>5. ASSUME NEW i \in DOMAIN pending', NEW j \in DOMAIN pending', i < j
          PROVE  Before(pending'[i], pending'[j])
      <3>1. k + i < k + j /\ k + i \in DOMAIN long /\ k + j \in DOMAIN long
        BY <2>3, <2>4, <2>5
      <3> QED  BY <2>2, <2>3, <2>4, <2>5, <3>1
    <2> QED  BY <1>0, <2>5 DEF Sorted
  <1>12. \A x : In(x, pending)' => In(x, pending) \/ x = m
    <2>1. \A x : In(x, Newest(long)) => In(x, pending) \/ x = m
      BY <1>10, NewestDistinct
    <2>2. pending' = Newest(long)
      BY <1>1
    <2> HIDE DEF long
    <2> QED  BY <2>1, <2>2 DEF In
  <1> HIDE DEF long
  <1>13. Precedes(log, pending)'
    <2> SUFFICES ASSUME NEW x \in Messages, NEW y \in Messages,
                        In(x, log), In(y, pending)'
                 PROVE  Before(x, y)
      BY <1>0, <1>1 DEF Precedes, In
    <2> QED  BY <1>3, <1>5, <1>6, <1>7, <1>12 DEF Precedes
  <1>14. ASSUME NEW r \in Requests, pc'[r] = "batch", r \notin overran'
         PROVE  Precedes(log, batch[r])' /\ Precedes(batch[r], pending)'
    <2>1. pc[r] = "batch" /\ r \notin overran
      BY <1>1, <1>2, <1>14 DEF Requests
    <2>2. Precedes(log, batch[r])'
      BY <1>0, <1>1, <1>3, <1>5, <1>7, <2>1 DEF Precedes, In
    <2>3. Precedes(batch[r], pending)'
      <3> SUFFICES ASSUME NEW x \in Messages, NEW y \in Messages,
                          In(x, batch[r]), In(y, pending)'
                   PROVE  Before(x, y)
        BY <1>0, <1>1 DEF Precedes, In
      <3> QED  BY <1>3, <1>5, <1>6, <1>7, <1>12, <2>1 DEF Precedes
    <2> QED  BY <2>2, <2>3
  <1>15. \A x \in Messages : In(x, arrived)' => pc'[x] = "queued"
    <2>1. \A x : In(x, arrived)' => In(x, arrived) \/ x = m
      BY <1>4 DEF In
    <2> QED  BY <1>1, <1>2, <2>1 DEF InOrder, Ordered, Requests
  <1> QED  BY <1>8, <1>9, <1>11, <1>13, <1>14, <1>15 DEF Ordered

\* A message that a turn of its own answers never waited.
LEMMA FinishTurnOrdered ==
    ASSUME InOrder, NEW r \in Requests, FinishTurn(r)
    PROVE  Ordered'
  <1>1. /\ pc[r] = "turn" /\ pc' = [pc EXCEPT ![r] = "drain"]
        /\ log' = IF r \in Messages THEN Append(log, r) ELSE log
        /\ UNCHANGED <<arrived, batch, pending, overran, late>>
    BY DEF FinishTurn, Go
  <1>2. /\ log \in Seq(Messages) /\ pc \in [Requests -> Places]
        /\ r \in Messages => ~In(r, arrived)
    BY <1>1 DEF InOrder, TypeOK, Ordered
  <1>3. /\ \A q \in Requests : pc'[q] = "batch" => pc[q] = "batch"
        /\ \A q \in Requests : pc[q] = "queued" => pc'[q] = "queued"
    BY <1>1, <1>2
  <1>4. CASE r \notin Messages
    BY <1>1, <1>3, <1>4, StaysOrdered DEF InOrder
  <1>5. CASE r \in Messages
    <2>1. \A x : Earlier(x, r) /\ Earlier(r, x)
      BY <1>2, <1>5 DEF Earlier, In
    <2>2. \A x, y : Earlier(x, y)' <=> Earlier(x, y)
      BY <1>1 DEF Earlier
    <2>3. \A x : In(x, log') => In(x, log) \/ x = r
      BY <1>1, <1>2, <1>5, AppendDistinct
    <2>4. Sorted(log')
      BY <1>1, <1>2, <1>5, <2>1, AppendSorted DEF InOrder, Ordered
    <2>5. /\ Sorted(log)' /\ Sorted(pending)'
          /\ \A q \in Requests : Sorted(batch[q])'
      BY <1>1, <2>2, <2>4 DEF InOrder, Ordered, Sorted
    <2>6. ASSUME NEW t, Precedes(log, t) PROVE Precedes(log', t)
      BY <2>1, <2>3, <2>6 DEF Precedes
    <2>7. Precedes(log, pending)'
      BY <1>1, <2>2, <2>6 DEF InOrder, Ordered, Precedes, In
    <2>8. \A q \in Requests : pc'[q] = "batch" /\ q \notin overran' =>
              Precedes(log, batch[q])' /\ Precedes(batch[q], pending)'
      BY <1>1, <1>3, <2>2, <2>6 DEF InOrder, Ordered, Precedes, In
    <2>9. \A m \in Messages : In(m, arrived)' => pc'[m] = "queued"
      BY <1>1, <1>3 DEF InOrder, Ordered, In, Requests
    <2> QED  BY <2>5, <2>7, <2>8, <2>9 DEF Ordered
  <1> QED  BY <1>4, <1>5

\* Nobody else answers a batch under the lock when the list is drained.
LEMMA DrainOrdered ==
    ASSUME InOrder, NEW r \in Requests, Drain(r)
    PROVE  Ordered'
  <1>1. /\ pc[r] = "drain" /\ pc' = [pc EXCEPT ![r] = "batch"]
        /\ batch' = [batch EXCEPT ![r] = pending]
        /\ pending' = <<>> /\ UNCHANGED <<log, arrived, overran, late>>
    BY DEF Drain, Go, history
  <1>2. \A q \in Requests : batch'[q] = IF q = r THEN pending ELSE batch[q]
    BY <1>1 DEF InOrder, TypeOK
  <1>3. \A q \in Requests : pc'[q] = "batch" /\ q # r => pc[q] = "batch"
    BY <1>1 DEF InOrder, TypeOK
  <1>4. \A x, y : Earlier(x, y)' <=> Earlier(x, y)
    BY <1>1 DEF Earlier
  <1>5. /\ Sorted(log)' /\ Sorted(pending)'
        /\ \A q \in Requests : Sorted(batch[q])'
    BY <1>1, <1>2, <1>4 DEF InOrder, Ordered, Sorted
  <1>6. Precedes(log, pending)' /\ \A q \in Requests : Precedes(batch[q], pending)'
    BY <1>1, EmptyDistinct DEF Precedes, In
  <1>7. ASSUME NEW q \in Requests, pc'[q] = "batch", q \notin overran'
        PROVE  Precedes(log, batch[q])'
    <2>1. Precedes(log, batch'[q])
      BY <1>1, <1>2, <1>3, <1>7 DEF InOrder, Ordered
    <2> QED  BY <1>1, <1>4, <2>1 DEF Precedes, In
  <1>8. \A m \in Messages : In(m, arrived)' => pc'[m] = "queued"
    BY <1>1 DEF InOrder, TypeOK, Ordered, In, Requests
  <1> QED  BY <1>5, <1>6, <1>7, <1>8 DEF Ordered

\* A batch answered under the lock follows all that was answered before; one
\* answered without it becomes late.
LEMMA FinishBatchOrdered ==
    ASSUME InOrder, NEW r \in Requests, NEW throws \in BOOLEAN,
           FinishBatch(r, throws)
    PROVE  Ordered'
  <1>1. /\ pc[r] = "batch" /\ pc' = [pc EXCEPT ![r] = "drain"]
        /\ log' = IF throws THEN log ELSE log \o batch[r]
        /\ late' = IF throws \/ r \notin overran THEN late
                   ELSE late \cup {batch[r][i] : i \in DOMAIN batch[r]}
        /\ batch' = [batch EXCEPT ![r] = <<>>]
        /\ UNCHANGED <<pending, arrived, overran>>
    BY DEF FinishBatch, Go
  <1>2. /\ log \in Seq(Messages) /\ batch[r] \in Seq(Messages)
        /\ \A q \in Requests : batch'[q] = IF q = r THEN <<>> ELSE batch[q]
        /\ \A q \in Requests : pc'[q] = "batch" => q # r /\ pc[q] = "batch"
    BY <1>1 DEF InOrder, TypeOK
  <1>3. \A x, y : Earlier(x, y) => Earlier(x, y)'
    BY <1>1 DEF Earlier
  <1>4. /\ Sorted(log) /\ Sorted(pending) /\ Precedes(log, pending)
        /\ \A q \in Requests : Sorted(batch[q])
        /\ \A q \in Requests : pc[q] = "batch" /\ q \notin overran =>
               Precedes(log, batch[q]) /\ Precedes(batch[q], pending)
    BY DEF InOrder, Ordered
  <1>5. /\ Sorted(pending)' /\ \A q \in Requests : Sorted(batch[q])'
        /\ \A q \in Requests : q # r /\ Precedes(batch[q], pending) =>
               Precedes(batch[q], pending)'
    BY <1>1, <1>2, <1>3, <1>4, EmptySorted DEF Sorted, Precedes, In
  <1>6. \A m \in Messages : In(m, arrived)' => pc'[m] = "queued"
    BY <1>1 DEF InOrder, TypeOK, Ordered, In, Requests
  <1>7. CASE throws
    <2>1. Sorted(log)' /\ Precedes(log, pending)'
      BY <1>1, <1>3, <1>4, <1>7 DEF Sorted, Precedes, In
    <2>2. \A q \in Requests : q # r /\ Precedes(log, batch[q]) =>
              Precedes(log, batch[q])'
      BY <1>1, <1>2, <1>3, <1>7 DEF Precedes, In
    <2> QED  BY <1>1, <1>2, <1>4, <1>5, <1>6, <2>1, <2>2 DEF Ordered
  <1>8. CASE ~throws /\ r \notin overran
    <2>1. /\ Sorted(log \o batch[r]) /\ log' = log \o batch[r]
          /\ \A x : In(x, log \o batch[r]) <=> In(x, log) \/ In(x, batch[r])
      BY <1>1, <1>2, <1>4, <1>8, ConcatSorted, ConcatDistinct
    <2>2. Precedes(log \o batch[r], pending)
      BY <1>1, <1>4, <1>8, <2>1 DEF Precedes
    <2>3. Sorted(log)' /\ Precedes(log, pending)'
      BY <1>1, <1>3, <2>1, <2>2 DEF Sorted, Precedes, In
    <2>4. \A q \in Requests : pc'[q] = "batch" => q \in overran'
      BY <1>1, <1>2, <1>8 DEF InOrder, HolderHasLock, Holding
    <2> QED  BY <1>5, <1>6, <2>3, <2>4 DEF Ordered
  <1>9. CASE ~throws /\ r \in overran
    <2>1. /\ log' = log \o batch[r]
          /\ Len(log) \in Nat /\ DOMAIN log = 1..Len(log)
          /\ \A i \in DOMAIN log : log'[i] = log[i]
          /\ \A i \in DOMAIN log' : i \notin DOMAIN log =>
                 i - Len(log) \in DOMAIN batch[r]
                 /\ log'[i] = batch[r][i - Len(log)]
      BY <1>1, <1>2, <1>9, ConcatProperties, LenProperties
    <2>2. \A x : In(x, batch[r]) => x \in late'
      BY <1>1, <1>9 DEF In
    <2>3. \A x \in late' : \A y : Earlier(x, y)' /\ Earlier(y, x)'
      BY DEF Earlier
    <2>4. \A i \in DOMAIN log' : i \in DOMAIN log \/ log'[i] \in late'
      BY <2>1, <2>2 DEF In
    <2>5. Sorted(log)'
      <3> SUFFICES ASSUME NEW i \in DOMAIN log', NEW j \in DOMAIN log', i < j
                   PROVE  Earlier(log[i], log[j])'
        BY DEF Sorted
      <3>1. CASE i \in DOMAIN log /\ j \in DOMAIN log
        BY <1>3, <1>4, <2>1, <3>1 DEF Sorted
      <3> QED  BY <2>3, <2>4, <3>1
    <2>6. \A x : In(x, log)' => In(x, log) \/ x \in late'
      BY <2>1, <2>4 DEF In
    <2>7. Precedes(log, pending)'
      BY <1>1, <1>3, <1>4, <2>3, <2>6 DEF Precedes, In
    <2>8. \A q \in Requests : q # r /\ Precedes(log, batch[q]) =>
              Precedes(log, batch[q])'
      BY <1>2, <1>3, <2>3, <2>6 DEF Precedes, In
    <2> QED  BY <1>1, <1>2, <1>4, <1>5, <1>6, <2>5, <2>7, <2>8 DEF Ordered
  <1> QED  BY <1>7, <1>8, <1>9

LEMMA OrderedStep == InOrder /\ [Next]_vars => Ordered'
  <1> SUFFICES ASSUME InOrder, [Next]_vars PROVE Ordered'
    OBVIOUS
  <1> USE DEF history
  <1>1. Ordered /\ pc \in [Requests -> Places]
    BY DEF InOrder, TypeOK
  <1>2. ASSUME NEW r \in Requests,
               NEW to \in Places \ {"batch"}, pc[r] # "queued",
               pc' = [pc EXCEPT ![r] = to], overran \ {r} \subseteq overran',
               UNCHANGED <<arrived, pending, batch, log, late>>
        PROVE  Ordered'
    BY <1>1, <1>2, StaysOrdered
  <1>3. ASSUME NEW r \in Requests, Begin(r) \/ Refused(r) \/ GiveUp(r) \/ Crash(r)
        PROVE  Ordered'
    BY <1>2, <1>3
       DEF Begin, Refused, GiveUp, Crash, Go, Places, Holding, Between, Ended
  <1>4. ASSUME NEW r \in Requests,
               \/ TurnThrows(r) \/ FindNone(r) \/ OutOfRounds(r)
               \/ ReleaseToCount(r) \/ Count(r) \/ Reacquire(r) \/ Leave(r)
        PROVE  Ordered'
    BY <1>2, <1>4
       DEF TurnThrows, FindNone, OutOfRounds, ReleaseToCount, Count, Reacquire,
           Leave, Release, Go, Places, Holding, Between, Ended
  <1>5. ASSUME NEW r \in Requests, GoesOn(r) PROVE Ordered'
    BY <1>4, <1>5, EnqueueOrdered, FinishTurnOrdered, DrainOrdered,
       FinishBatchOrdered DEF GoesOn
  <1>6. CASE LockExpires \/ UNCHANGED vars
    BY <1>1, <1>6, StaysOrdered DEF LockExpires, vars
  <1>7. CASE PendingExpires
    <2>1. pending' = <<>> /\ UNCHANGED <<lock, pc, round, batch, history>>
      BY <1>7 DEF PendingExpires
    <2>2. \A x, y : Earlier(x, y)' <=> Earlier(x, y)
      BY <2>1 DEF Earlier
    <2>3. /\ Sorted(log)' /\ Sorted(pending)'
          /\ \A r \in Requests : Sorted(batch[r])'
      BY <1>1, <2>1, <2>2 DEF Ordered, Sorted
    <2>4. /\ Precedes(log, pending)'
          /\ \A r \in Requests : Precedes(batch[r], pending)'
      BY <2>1, EmptyDistinct DEF Precedes, In
    <2>5. \A r \in Requests : pc'[r] = "batch" /\ r \notin overran' =>
              Precedes(log, batch[r])'
      BY <1>1, <2>1, <2>2 DEF Ordered, Precedes, In
    <2>6. \A m \in Messages : In(m, arrived)' => pc'[m] = "queued"
      BY <1>1, <2>1 DEF Ordered, In
    <2> QED  BY <2>3, <2>4, <2>5, <2>6 DEF Ordered
  <1> QED  BY <1>3, <1>5, <1>6, <1>7 DEF Next, Requests

\* What waited is answered in the order in which it came, over all drains by
\* whichever request, as far as the requests that answered it had their lock.
THEOREM AnswersInOrder == Spec => []WaitedInOrder
  <1>1. Init => InOrder
    <2> SUFFICES ASSUME Init PROVE InOrder
      OBVIOUS
    <2>1. Apart /\ HolderHasLock /\ TypeOK
      BY EmptyDistinct, EmptyTypes, MailboxAssumption
         DEF Init, Apart, MessagesTypeOK, HolderHasLock, TypeOK, Places, Holding
    <2>2. Ordered
      BY EmptyDistinct, EmptySorted DEF Init, Ordered
    <2> QED  BY <2>1, <2>2 DEF InOrder
  <1>2. InOrder /\ [Next]_vars => InOrder'
    BY ApartStep, HolderStep, TypeStep, OrderedStep DEF InOrder
  <1>3. InOrder => WaitedInOrder
    <2> SUFFICES ASSUME InOrder, NEW i \in DOMAIN log, NEW j \in DOMAIN log,
                        NEW a \in DOMAIN arrived, NEW b \in DOMAIN arrived,
                        arrived[a] = log[i], arrived[b] = log[j], i < j,
                        {log[i], log[j]} \cap late = {}
                 PROVE  a < b
      BY DEF WaitedInOrder
    <2>1. Earlier(log[i], log[j])
      BY DEF InOrder, Ordered, Sorted
    <2> QED  BY <2>1 DEF Earlier
  <1> QED  BY <1>1, <1>2, <1>3, PTL DEF Spec

-----------------------------------------------------------------------------
(* No message is left behind by the one who was to look at it.  Nothing is  *)
(* assumed of the lock here: a token that a live turn lost is not given      *)
(* back, so whoever the lock names is at work or dead.                       *)

LockHasHolder ==
    /\ pc \in [Requests -> Places]
    /\ lock \in Requests \cup {Free}
    /\ lock # Free => pc[lock] \in Holding \cup {"dead"}

LEMMA LockHasHolderStep == LockHasHolder /\ [Next]_vars => LockHasHolder'
  <1> SUFFICES ASSUME LockHasHolder, [Next]_vars
               PROVE  LockHasHolder'
    OBVIOUS
  <1> USE MailboxAssumption DEF LockHasHolder, Places, Holding, Between, Ended, Go
  <1>1. ASSUME NEW r \in Requests, Begin(r)
        PROVE  LockHasHolder'
    BY <1>1 DEF Begin, Take
  <1>2. ASSUME NEW r \in Requests, GoesOn(r)
        PROVE  LockHasHolder'
    <2>1. CASE FinishTurn(r) \/ TurnThrows(r)
      BY <2>1 DEF FinishTurn, TurnThrows
    <2>2. CASE Drain(r) \/ FindNone(r) \/ OutOfRounds(r)
      BY <2>2 DEF Drain, FindNone, OutOfRounds
    <2>3. ASSUME NEW throws \in BOOLEAN, FinishBatch(r, throws)
          PROVE  LockHasHolder'
      BY <2>3 DEF FinishBatch
    <2>4. CASE ReleaseToCount(r) \/ Leave(r)
      BY <2>4 DEF ReleaseToCount, Leave, Release
    <2>5. CASE Count(r)
      BY <2>5 DEF Count
    <2>6. CASE Reacquire(r)
      BY <2>6 DEF Reacquire, Take
    <2>7. CASE Enqueue(r)
      BY <2>7 DEF Enqueue
    <2> QED
      BY <1>2, <2>1, <2>2, <2>3, <2>4, <2>5, <2>6, <2>7 DEF GoesOn
  <1>3. ASSUME NEW r \in Requests, Crash(r)
        PROVE  LockHasHolder'
    BY <1>3 DEF Crash
  <1>4. ASSUME NEW r \in Requests, Refused(r) \/ GiveUp(r)
        PROVE  LockHasHolder'
    BY <1>4 DEF Refused, GiveUp
  <1>5. CASE LockExpires \/ PendingExpires \/ UNCHANGED vars
    BY <1>5 DEF LockExpires, PendingExpires, vars
  <1> QED BY <1>1, <1>2, <1>3, <1>4, <1>5 DEF Next, Requests

Looking == (Holding \ {"leave", "fail"}) \cup Between

\* Whoever was to look still is, if the step only takes others further.
LEMMA StillAttended ==
    ASSUME LockHasHolder, Attended, NEW r \in Requests, NEW to \in Places,
           pc' = [pc EXCEPT ![r] = to], pc[r] # to,
           pc[r] \in Looking => to \in Looking \cup {"fail", "leave", "dead"}
    PROVE  Attended' \/ GivesUpOnList
  <1>1. PICK q \in Requests : pc[q] \in Looking
    BY DEF Attended, Looking
  <1>2. \A p \in Requests : pc'[p] = IF p = r THEN to ELSE pc[p]
    BY DEF LockHasHolder
  <1>3. CASE q # r
    BY <1>1, <1>2, <1>3 DEF Attended, Looking
  <1>4. CASE q = r
    BY <1>1, <1>2, <1>4 DEF Attended, Looking, GivesUpOnList
  <1> QED  BY <1>3, <1>4

\* A message that somebody has yet to look at is not left behind: the second
\* look after the release, and the one who took the lock in between, cover it,
\* whatever the lock does.
THEOREM NoMessageLeftBehind == Spec => AttendedUntilGone
  <1>1. Init => LockHasHolder
    BY DEF Init, LockHasHolder, Places
  <1>2. ASSUME LockHasHolder, [Next]_vars, NEW m \in Messages,
               Waiting(m), Attended
        PROVE  Attended' \/ ~Waiting(m)' \/ GivesUpOnList
    <2>0. pending # <<>>
      BY <1>2 DEF Waiting
    <2> USE DEF Looking, Places, Holding, Between, Ended
    <2>1. ASSUME NEW r \in Requests, Begin(r) \/ Refused(r) \/ GiveUp(r) \/ Crash(r)
          PROVE  Attended' \/ GivesUpOnList
      BY <1>2, <2>1, StillAttended DEF Begin, Refused, GiveUp, Crash, Go
    <2>2. ASSUME NEW r \in Requests, GoesOn(r)
          PROVE  Attended' \/ GivesUpOnList
      <3>1. CASE FinishTurn(r) \/ TurnThrows(r) \/ Drain(r) \/ Enqueue(r)
        BY <1>2, <3>1, StillAttended DEF FinishTurn, TurnThrows, Drain, Enqueue, Go
      <3>2. CASE \E throws \in BOOLEAN : FinishBatch(r, throws)
        BY <1>2, <3>2, StillAttended DEF FinishBatch, Go
      <3>3. CASE OutOfRounds(r) \/ ReleaseToCount(r) \/ Leave(r)
        BY <1>2, <3>3, StillAttended DEF OutOfRounds, ReleaseToCount, Leave, Go
      <3>4. CASE FindNone(r)
        BY <2>0, <3>4 DEF FindNone
      <3>5. CASE Count(r)
        BY <1>2, <2>0, <3>5, StillAttended DEF Count, Go
      <3>6. CASE Reacquire(r)
        <4>1. CASE pc'[r] = "drain"
          BY <1>2, <3>6, <4>1, StillAttended DEF Reacquire, Go, LockHasHolder
        <4>2. CASE pc'[r] # "drain"
          <5>1. /\ pc[r] = "reacquire" /\ pc' = [pc EXCEPT ![r] = "done"]
                /\ lock # Free
            BY <1>2, <3>6, <4>2 DEF Reacquire, Go, LockHasHolder
          <5>2. /\ lock \in Requests /\ pc[lock] \in Holding \cup {"dead"}
                /\ pc'[lock] = pc[lock]
            BY <1>2, <5>1 DEF LockHasHolder
          <5> QED  BY <5>2 DEF Attended, GivesUpOnList
        <4> QED  BY <4>1, <4>2
      <3> QED  BY <2>2, <3>1, <3>2, <3>3, <3>4, <3>5, <3>6 DEF GoesOn
    <2>3. CASE LockExpires \/ UNCHANGED vars
      BY <1>2, <2>3 DEF LockExpires, vars, Attended
    <2>4. CASE PendingExpires
      BY <2>4 DEF PendingExpires, Waiting
    <2> QED  BY <1>2, <2>1, <2>2, <2>3, <2>4 DEF Next, Requests
  <1>3. LockHasHolder /\ [Next]_vars =>
            [\A m \in Messages :
                Waiting(m) /\ Attended => Attended' \/ ~Waiting(m)' \/ GivesUpOnList]_vars
    BY <1>2
  <1> QED  BY <1>1, <1>3, LockHasHolderStep, PTL DEF Spec, AttendedUntilGone

=============================================================================
