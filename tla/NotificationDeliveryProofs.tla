--------------------- MODULE NotificationDeliveryProofs ---------------------
(***************************************************************************)
(* Proofs about NotificationDelivery for any processes, events, cycles and *)
(* bounds.  First, whether or not processes outlast their leases, what the *)
(* audit says of the messages on the channel; then, where none does, that  *)
(* processes keep out of each other's way and settled rows stay settled.   *)
(***************************************************************************)
EXTENDS NotificationDelivery, FiniteSetTheorems, TLAPS

\* What the operators on a row return is a row.
LEMMA RowTyped ==
    ASSUME NEW row \in Row
    PROVE  /\ DeadLettered(row) \in Row
           /\ [row EXCEPT !.status = "pending"] \in Row
           /\ \A token \in Token :
                row.attempts < MaxAttempts => Claimed(row, token) \in Row
<1>1. /\ row.attempts \in 0..MaxAttempts /\ row.owner \in Token \cup {None}
      /\ row.expiry \in 0..LeaseTerm /\ row.wait \in 0..RetryTerm
  BY DEF Row
<1>2. 0 \in 0..RetryTerm /\ LeaseTerm \in 0..LeaseTerm
  BY DeliveryAssumption
<1>3. DeadLettered(row) \in Row
  BY <1>2 DEF Row, DeadLettered, Terminal
<1>4. [row EXCEPT !.status = "pending"] \in Row
  BY DEF Row, Waiting
<1>5. ASSUME NEW token \in Token, row.attempts < MaxAttempts
      PROVE  Claimed(row, token) \in Row
  <2>1. row.attempts + 1 \in 0..MaxAttempts
    BY <1>1, <1>5, DeliveryAssumption
  <2>2. QED
    BY <1>2, <2>1 DEF Row, Claimed, Waiting
<1>6. QED
  BY <1>3, <1>4, <1>5

\* _dead_letter_expired_exhausted keeps the rows typed and their counts unchanged.
LEMMA CleanedTyped ==
    ASSUME TypeOK, NEW events
    PROVE  /\ AfterDeadLetters(events) \in [Event -> Row]
           /\ \A e \in Event : AfterDeadLetters(events)[e].attempts = delivery[e].attempts
<1>1. \A e \in Event : DeadLettered(delivery[e]) \in Row
  BY RowTyped DEF TypeOK
<1>2. \A e \in Event : DeadLettered(delivery[e]).attempts = delivery[e].attempts
  BY DEF TypeOK, DeadLettered, Row
<1>3. QED
  BY <1>1, <1>2 DEF TypeOK, AfterDeadLetters

\* What a claim by w of the row of e leaves behind.
ClaimMade(w, e, token) ==
    /\ delivery' \in [Event -> Row]
    /\ attempt' \in [Event -> [Number -> Outcome]]
    /\ claim'[w] = [event |-> e, number |-> delivery[e].attempts + 1, token |-> token]
    /\ claim'[w] \in Claim
    /\ delivery'[e].attempts = delivery[e].attempts + 1
    /\ \A f \in Event : f # e => delivery'[f].attempts = delivery[f].attempts
    /\ \A f \in Event, n \in Number : attempt'[f][n] = "delivered" => attempt[f][n] = "delivered"
    /\ delivery'[e].status = "claimed"

\* A claim counts one attempt and remembers its number.
LEMMA ClaimStep ==
    ASSUME TypeOK,
           NEW w \in Worker, NEW e \in Event, NEW token \in Token,
           \/ TakeClaim(w, e, token, delivery)
           \/ TakeClaim(w, e, token, AfterDeadLetters(Event))
    PROVE  ClaimMade(w, e, token)
<1>a. PICK cleaned \in [Event -> Row] :
        /\ \A f \in Event : cleaned[f].attempts = delivery[f].attempts
        /\ delivery' = [cleaned EXCEPT ![e] = Claimed(cleaned[e], token)]
  <2>1. /\ delivery \in [Event -> Row]
        /\ AfterDeadLetters(Event) \in [Event -> Row]
        /\ \A f \in Event : AfterDeadLetters(Event)[f].attempts = delivery[f].attempts
    BY CleanedTyped DEF TypeOK
  <2>2. CASE TakeClaim(w, e, token, delivery)
    BY <2>1, <2>2 DEF TakeClaim
  <2>3. CASE TakeClaim(w, e, token, AfterDeadLetters(Event))
    BY <2>1, <2>3 DEF TakeClaim
  <2>4. QED
    BY <2>2, <2>3
<1> DEFINE n == delivery[e].attempts + 1
<1>1. delivery[e].attempts < MaxAttempts /\ delivery[e] \in Row
  BY DEF TakeClaim, Eligible, TypeOK
<1>2. n \in Number /\ n \in Nat
  BY <1>1, DeliveryAssumption DEF Row, Number
<1>3. cleaned[e] \in Row /\ cleaned[e].attempts = delivery[e].attempts
  BY <1>a
<1>4. Claimed(cleaned[e], token) \in Row
  BY <1>1, <1>3, RowTyped
<1>5. delivery' = [cleaned EXCEPT ![e] = Claimed(cleaned[e], token)]
  BY <1>a
<1>6. /\ Claimed(cleaned[e], token).attempts = n
      /\ Claimed(cleaned[e], token).status = "claimed"
  BY <1>3 DEF Claimed
<1>7. attempt' = [attempt EXCEPT ![e][n] = "open"]
  BY DEF TakeClaim
<1>8. attempt' \in [Event -> [Number -> Outcome]]
  BY <1>2, <1>7 DEF TypeOK, Outcome
<1>9. claim' = [claim EXCEPT ![w] = [event |-> e, number |-> n, token |-> token]]
  BY DEF TakeClaim
<1>10. \A f \in Event, m \in Number : attempt'[f][m] = "delivered" => attempt[f][m] = "delivered"
  BY <1>2, <1>7 DEF TypeOK
<1>11. [event |-> e, number |-> n, token |-> token] \in Claim
  BY <1>2 DEF Claim
<1>12. claim'[w] = [event |-> e, number |-> n, token |-> token]
  BY <1>9 DEF TypeOK
<1> HIDE DEF n
<1>13. QED
  BY <1>a, <1>4, <1>5, <1>6, <1>8, <1>10, <1>11, <1>12 DEF n, ClaimMade

\* Recording a result leaves the count of attempts alone.
LEMMA RecordStep ==
    ASSUME TypeOK,
           NEW w \in Worker, pc[w] = "record",
           NEW outcome \in Outcome, NEW status \in Waiting \cup Terminal,
           NEW delay \in 0..RetryTerm,
           Record(w, outcome, status, delay)
    PROVE  /\ delivery' \in [Event -> Row]
           /\ attempt' \in [Event -> [Number -> Outcome]]
           /\ \A f \in Event : delivery'[f].attempts = delivery[f].attempts
           /\ \A f \in Event : f # claim[w].event =>
                delivery'[f] = delivery[f] /\ attempt'[f] = attempt[f]
           /\ outcome # "delivered" =>
                \A f \in Event, n \in Number :
                  attempt'[f][n] = "delivered" => attempt[f][n] = "delivered"
           /\ delivery'[claim[w].event].status = status
<1> DEFINE e == claim[w].event
<1>1. e \in Event /\ claim[w].number \in Number
  BY DEF TypeOK, Flying, Answered, Claim
<1>2. delivery' = [delivery EXCEPT ![e] = [delivery[e] EXCEPT
                     !.status = status, !.owner = None, !.expiry = 0, !.wait = delay]]
  BY <1>1 DEF Record, TypeOK
<1>3. delivery[e] \in Row
  BY <1>1 DEF TypeOK
<1>4. 0 \in 0..LeaseTerm
  BY DeliveryAssumption
<1>5. [delivery[e] EXCEPT !.status = status, !.owner = None,
                          !.expiry = 0, !.wait = delay] \in Row
  BY <1>3, <1>4 DEF Row
<1>6. delivery' \in [Event -> Row]
  BY <1>1, <1>2, <1>5 DEF TypeOK
<1>7. /\ delivery'[e].attempts = delivery[e].attempts
      /\ delivery'[e].status = status
  BY <1>1, <1>2, <1>3 DEF TypeOK, Row
<1>8. \A f \in Event : f # e => delivery'[f] = delivery[f]
  BY <1>1, <1>2 DEF TypeOK
<1>9. attempt' = [attempt EXCEPT ![e][claim[w].number] = outcome]
  BY DEF Record
<1>10. attempt' \in [Event -> [Number -> Outcome]]
  BY <1>1, <1>9 DEF TypeOK
<1>11. \A f \in Event : f # e => attempt'[f] = attempt[f]
  BY <1>1, <1>9 DEF TypeOK
<1>12. outcome # "delivered" =>
         \A f \in Event, n \in Number :
           attempt'[f][n] = "delivered" => attempt[f][n] = "delivered"
  BY <1>1, <1>9 DEF TypeOK
<1> HIDE DEF e
<1>13. QED
  BY <1>6, <1>7, <1>8, <1>10, <1>11, <1>12 DEF e

\* A process that leaves keeps its own variables typed.
LEMMA LeaveTyped ==
    ASSUME TypeOK, NEW w \in Worker, Leave(w),
           delivery' \in [Event -> Row],
           attempt' \in [Event -> [Number -> Outcome]],
           accepted' \in [Event -> Nat],
           crashes' \in 0..MaxCrashes
    PROVE  TypeOK'
<1>1. /\ pc' = [pc EXCEPT ![w] = "idle"]
      /\ todo' \in [Worker -> SUBSET Event]
      /\ quota' \in [Worker -> 0..Capacity]
      /\ answer' \in [Worker -> {"none", "ok", "retryable", "permanent"}]
  BY DeliveryAssumption DEF Leave, TypeOK
<1>2. /\ claim' \in [Worker -> Claim \cup {None}]
      /\ view' \in [Worker -> Reading \cup {None}]
  BY DEF Leave, TypeOK
<1>3. ASSUME NEW v \in Worker, pc'[v] # "idle"
      PROVE  pc'[v] = pc[v] /\ claim'[v] = claim[v] /\ view'[v] = view[v]
  BY <1>3 DEF Leave, TypeOK
<1>4. \A v \in Worker : pc'[v] \in Flying => claim'[v] \in Claim
  BY <1>3 DEF TypeOK, Flying, Answered
<1>5. \A v \in Worker : pc'[v] = "record" => view'[v] \in Reading
  BY <1>3 DEF TypeOK
<1>6. pc' \in [Worker -> {"idle", "prepare", "claim"} \cup Flying]
  BY <1>1 DEF TypeOK
<1>7. QED
  BY <1>1, <1>2, <1>4, <1>5, <1>6 DEF TypeOK

\* create_or_reuse keeps the rows typed, counts nothing and delivers nothing.
LEMMA StoreTyped ==
    ASSUME TypeOK, NEW w \in Worker, StorePending(w)
    PROVE  /\ delivery' \in [Event -> Row]
           /\ \A e \in Event : delivery'[e].attempts = delivery[e].attempts
           /\ \A e \in Event : delivery'[e].status = "delivered"
                                 => delivery[e].status = "delivered"
<1>1. \A e \in Event : [delivery[e] EXCEPT !.status = "pending"] \in Row
  BY RowTyped DEF TypeOK
<1>2. \A e \in Event : /\ [delivery[e] EXCEPT !.status = "pending"].attempts = delivery[e].attempts
                       /\ [delivery[e] EXCEPT !.status = "pending"].status = "pending"
  BY DEF TypeOK, Row
<1>3. QED
  BY <1>1, <1>2 DEF StorePending, TypeOK

\* The passing of time shortens leases and waits and changes nothing else.
LEMMA TickTyped ==
    ASSUME TypeOK, Tick
    PROVE  /\ delivery' \in [Event -> Row]
           /\ \A e \in Event : /\ delivery'[e].attempts = delivery[e].attempts
                               /\ delivery'[e].status = delivery[e].status
<1>1. \A n \in 0..LeaseTerm : Less(n) \in 0..LeaseTerm
  BY DeliveryAssumption DEF Less
<1>2. \A n \in 0..RetryTerm : Less(n) \in 0..RetryTerm
  BY DeliveryAssumption DEF Less
<1>3. ASSUME NEW row \in Row
      PROVE  /\ [row EXCEPT !.expiry = Less(row.expiry), !.wait = Less(row.wait)] \in Row
             /\ [row EXCEPT !.expiry = Less(row.expiry), !.wait = Less(row.wait)].attempts
                  = row.attempts
             /\ [row EXCEPT !.expiry = Less(row.expiry), !.wait = Less(row.wait)].status
                  = row.status
  BY <1>1, <1>2, <1>3 DEF Row
<1>4. \A e \in Event : delivery[e] \in Row
  BY DEF TypeOK
<1>5. delivery' = [e \in Event |->
         [delivery[e] EXCEPT !.expiry = Less(delivery[e].expiry),
                             !.wait = Less(delivery[e].wait)]]
  BY DEF Tick
<1>6. QED
  BY <1>3, <1>4, <1>5

\* Every step keeps the type of every variable.
LEMMA TypeStep == TypeOK /\ [Next]_vars => TypeOK'
<1> SUFFICES ASSUME TypeOK, [Next]_vars
             PROVE  TypeOK'
  OBVIOUS
<1> USE DeliveryAssumption DEF rows
<1>1. CASE UNCHANGED vars
  BY <1>1 DEF TypeOK, vars
<1>2. ASSUME NEW w \in Worker, FindUnprepared(w)
      PROVE  TypeOK'
  <2>1. PICK found \in SUBSET Unprepared : todo' = [todo EXCEPT ![w] = found]
    BY <1>2 DEF FindUnprepared
  <2>2. todo' \in [Worker -> SUBSET Event]
    BY <2>1 DEF TypeOK, Unprepared
  <2>3. QED
    BY <1>2, <2>2 DEF FindUnprepared, TypeOK, Flying, Answered
<1>3. ASSUME NEW w \in Worker, PrepareAndDrain(w)
      PROVE  TypeOK'
  <2>1. delivery' \in [Event -> Row]
    BY <1>3, StoreTyped DEF PrepareAndDrain
  <2>2. todo' \in [Worker -> SUBSET Event] /\ quota' \in [Worker -> 0..Capacity]
    BY <1>3 DEF PrepareAndDrain, TypeOK
  <2>3. QED
    BY <1>3, <2>1, <2>2 DEF PrepareAndDrain, TypeOK, Flying, Answered
<1>4. ASSUME NEW w \in Worker, PrepareOnly(w)
      PROVE  TypeOK'
  <2>1. delivery' \in [Event -> Row]
    BY <1>4, StoreTyped DEF PrepareOnly
  <2>2. QED
    BY <1>4, <2>1, LeaveTyped DEF PrepareOnly, TypeOK
<1>5. ASSUME NEW w \in Worker, PrepareRefused(w)
      PROVE  TypeOK'
  BY <1>5, LeaveTyped DEF PrepareRefused, TypeOK
<1>6. ASSUME NEW w \in Worker, ClaimNext(w)
      PROVE  TypeOK'
  <2>1. PICK e \in Event : TakeClaim(w, e, RunOf[w], AfterDeadLetters(Event))
    BY <1>6 DEF ClaimNext
  <2>2. RunOf[w] \in Token
    BY DEF Token
  <2>3. /\ delivery' \in [Event -> Row]
        /\ attempt' \in [Event -> [Number -> Outcome]]
        /\ claim'[w] \in Claim
    <3>1. ClaimMade(w, e, RunOf[w])
      BY <2>1, <2>2, ClaimStep
    <3>2. QED
      BY <3>1 DEF ClaimMade
  <2>4. claim' = [claim EXCEPT ![w] = claim'[w]] /\ pc' = [pc EXCEPT ![w] = "send"]
    BY <2>1 DEF TakeClaim, TypeOK
  <2>5. claim' \in [Worker -> Claim \cup {None}]
    BY <2>3, <2>4 DEF TypeOK
  <2>6. quota' \in [Worker -> 0..Capacity]
    BY <1>6 DEF ClaimNext, TypeOK
  <2>7. QED
    BY <1>6, <2>3, <2>4, <2>5, <2>6 DEF ClaimNext, TypeOK, Flying, Answered
<1>7. ASSUME NEW w \in Worker, NEW e \in Event, ClaimSelected(w, e)
      PROVE  TypeOK'
  <2>1. TakeClaim(w, e, e, delivery) /\ e \in Token
    BY <1>7 DEF ClaimSelected, Token
  <2>2. /\ delivery' \in [Event -> Row]
        /\ attempt' \in [Event -> [Number -> Outcome]]
        /\ claim'[w] \in Claim
    <3>1. ClaimMade(w, e, e)
      BY <2>1, ClaimStep
    <3>2. QED
      BY <3>1 DEF ClaimMade
  <2>3. claim' = [claim EXCEPT ![w] = claim'[w]] /\ pc' = [pc EXCEPT ![w] = "send"]
    BY <2>1 DEF TakeClaim, TypeOK
  <2>4. claim' \in [Worker -> Claim \cup {None}]
    BY <2>2, <2>3 DEF TypeOK
  <2>5. QED
    BY <1>7, <2>2, <2>3, <2>4 DEF ClaimSelected, TypeOK, Flying, Answered
<1>8. ASSUME NEW w \in Worker, NothingDue(w)
      PROVE  TypeOK'
  BY <1>8, LeaveTyped, CleanedTyped DEF NothingDue, TypeOK
<1>9. ASSUME NEW w \in Worker, QuotaReached(w)
      PROVE  TypeOK'
  BY <1>9, LeaveTyped DEF QuotaReached, TypeOK
<1>10. ASSUME NEW w \in Worker, SendVerified(w) \/ SendFailed(w)
       PROVE  TypeOK'
  <2>1. accepted' \in [Event -> Nat]
    <3>1. accepted' = accepted \/ accepted' = [accepted EXCEPT
                                     ![claim[w].event] = accepted[claim[w].event] + 1]
      BY <1>10 DEF SendVerified, SendFailed
    <3>2. claim[w].event \in Event
      BY <1>10 DEF SendVerified, SendFailed, TypeOK, Flying, Claim
    <3>3. QED
      BY <3>1, <3>2 DEF TypeOK
  <2>2. answer' \in [Worker -> {"none", "ok", "retryable", "permanent"}]
    BY <1>10 DEF SendVerified, SendFailed, TypeOK
  <2>3. /\ pc[w] = "send" /\ pc' = [pc EXCEPT ![w] = "answered"]
        /\ UNCHANGED <<delivery, attempt, todo, quota, claim, view, crashes>>
    BY <1>10 DEF SendVerified, SendFailed
  <2>4. QED
    BY <2>1, <2>2, <2>3 DEF TypeOK, Flying, Answered
<1>11. ASSUME NEW w \in Worker, ReadClaim(w)
       PROVE  TypeOK'
  <2>1. claim[w].event \in Event /\ claim[w].number \in Number
    BY <1>11 DEF ReadClaim, TypeOK, Flying, Answered, Claim
  <2>2. [row |-> delivery[claim[w].event],
         outcome |-> attempt[claim[w].event][claim[w].number]] \in Reading
    BY <2>1 DEF TypeOK, Reading
  <2>3. view' \in [Worker -> Reading \cup {None}]
    BY <1>11, <2>2 DEF ReadClaim, TypeOK
  <2>4. view'[w] \in Reading
    BY <1>11, <2>2 DEF ReadClaim, TypeOK
  <2>5. QED
    BY <1>11, <2>3, <2>4 DEF ReadClaim, TypeOK, Flying, Answered
<1>12. ASSUME NEW w \in Worker, RecordDelivered(w) \/ RecordRetry(w) \/ RecordDeadLetter(w)
       PROVE  TypeOK'
  <2>1. delivery' \in [Event -> Row] /\ attempt' \in [Event -> [Number -> Outcome]]
    BY <1>12, RecordStep
    DEF RecordDelivered, RecordRetry, RecordDeadLetter, Outcome, Waiting, Terminal
  <2>2. GoOn(w)
    BY <1>12 DEF RecordDelivered, RecordRetry, RecordDeadLetter
  <2>3. QED
    BY <2>1, <2>2 DEF GoOn, TypeOK, Flying, Answered
<1>13. ASSUME NEW w \in Worker, Die(w)
       PROVE  TypeOK'
  BY <1>13, LeaveTyped DEF Die, TypeOK
<1>14. ASSUME NEW w \in Worker, Crash(w)
       PROVE  TypeOK'
  <2>1. accepted' \in [Event -> Nat]
    <3>1. \/ accepted' = accepted
          \/ /\ pc[w] = "send"
             /\ accepted' = [accepted EXCEPT ![claim[w].event] = accepted[claim[w].event] + 1]
      BY <1>14 DEF Crash
    <3>2. pc[w] = "send" => claim[w].event \in Event
      BY DEF TypeOK, Flying, Claim
    <3>3. QED
      BY <3>1, <3>2 DEF TypeOK
  <2>2. crashes' \in 0..MaxCrashes
    BY <1>14 DEF Crash, TypeOK
  <2>3. QED
    BY <1>14, <2>1, <2>2, LeaveTyped DEF Crash, TypeOK
<1>15. CASE Tick
  BY <1>15, TickTyped DEF Tick, TypeOK
<1>16. QED
  BY <1>1, <1>2, <1>3, <1>4, <1>5, <1>6, <1>7, <1>8, <1>9, <1>10, <1>11, <1>12,
     <1>13, <1>14, <1>15 DEF Next, Deliver

\* TypeOK holds of every state of the delivery.
THEOREM TypeCorrect == Spec => []TypeOK
<1>1. Init => TypeOK
  BY DeliveryAssumption DEF Init, TypeOK, Row, Outcome, Flying, Answered
<1>2. QED
  BY <1>1, TypeStep, PTL DEF Spec

-----------------------------------------------------------------------------
\* Processes whose request for an event is under way.
Sending(e) == {w \in Worker : pc[w] = "send" /\ claim[w].event = e}

\* The processes whose request for an event is under way can be counted.
LEMMA SendingFinite ==
    \A e \in Event : /\ IsFiniteSet(Sending(e))
                     /\ Cardinality(Sending(e)) \in Nat
BY FS_Subset, FS_CardinalityType, DeliveryAssumption DEF Sending

\* A step that sends nothing and claims nothing keeps the account.
LEMMA QuietStep ==
    ASSUME MessagesAudited,
           accepted' = accepted,
           \A e \in Event : delivery'[e].attempts = delivery[e].attempts,
           \A v \in Worker : /\ pc'[v] = "send" <=> pc[v] = "send"
                             /\ pc[v] = "send" => claim'[v] = claim[v]
    PROVE  MessagesAudited'
<1>1. \A e \in Event : {v \in Worker : pc'[v] = "send" /\ claim'[v].event = e}
                        = {v \in Worker : pc[v] = "send" /\ claim[v].event = e}
  OBVIOUS
<1>2. QED
  BY <1>1 DEF MessagesAudited

\* A claim puts one more request under way and counts one more attempt.
LEMMA ClaimedStep ==
    ASSUME TypeOK, MessagesAudited, NEW w \in Worker, NEW e \in Event,
           pc[w] # "send", accepted' = accepted,
           pc' = [pc EXCEPT ![w] = "send"],
           \A v \in Worker : v # w => claim'[v] = claim[v],
           claim'[w].event = e,
           delivery'[e].attempts = delivery[e].attempts + 1,
           \A f \in Event : f # e => delivery'[f].attempts = delivery[f].attempts
    PROVE  MessagesAudited'
<1>1. ASSUME NEW f \in Event, f # e
      PROVE  {v \in Worker : pc'[v] = "send" /\ claim'[v].event = f} = Sending(f)
  BY <1>1 DEF Sending, TypeOK
<1>2. {v \in Worker : pc'[v] = "send" /\ claim'[v].event = e} = Sending(e) \cup {w}
  BY DEF Sending, TypeOK
<1>3. w \notin Sending(e)
  BY DEF Sending
<1>4. Cardinality(Sending(e) \cup {w}) = Cardinality(Sending(e)) + 1
  BY <1>3, SendingFinite, FS_AddElement
<1>5. \A f \in Event : /\ accepted[f] + Cardinality(Sending(f)) <= delivery[f].attempts
                       /\ delivery[f].attempts \in Nat /\ accepted[f] \in Nat
  BY DeliveryAssumption DEF MessagesAudited, Sending, TypeOK, Row
<1>0. accepted'[e]
        + Cardinality({v \in Worker : pc'[v] = "send" /\ claim'[v].event = e})
        <= delivery'[e].attempts
  <2> DEFINE k == Cardinality(Sending(e))
  <2>1. k \in Nat /\ accepted[e] + k <= delivery[e].attempts
    BY <1>5, SendingFinite
  <2>2. Cardinality({v \in Worker : pc'[v] = "send" /\ claim'[v].event = e}) = k + 1
    BY <1>2, <1>4
  <2> HIDE DEF k
  <2>3. QED
    BY <2>1, <2>2, <1>5
<1>6. ASSUME NEW f \in Event
      PROVE  accepted'[f]
               + Cardinality({v \in Worker : pc'[v] = "send" /\ claim'[v].event = f})
               <= delivery'[f].attempts
  <2>1. CASE f = e
    BY <2>1, <1>0
  <2>2. CASE f # e
    BY <2>2, <1>1, <1>5
  <2>3. QED
    BY <2>1, <2>2
<1>7. QED
  BY <1>6 DEF MessagesAudited

\* A request that ends turns into at most one message.
LEMMA SentStep ==
    ASSUME TypeOK, MessagesAudited, NEW w \in Worker, pc[w] = "send",
           \A e \in Event : delivery'[e].attempts = delivery[e].attempts,
           \/ accepted' = accepted
           \/ accepted' = [accepted EXCEPT ![claim[w].event] = accepted[claim[w].event] + 1],
           pc'[w] # "send",
           \A v \in Worker : v # w => pc'[v] = pc[v] /\ claim'[v] = claim[v]
    PROVE  MessagesAudited'
<1> DEFINE e == claim[w].event
<1>1. e \in Event
  BY DEF TypeOK, Flying, Claim
<1>2. ASSUME NEW f \in Event, f # e
      PROVE  {v \in Worker : pc'[v] = "send" /\ claim'[v].event = f} = Sending(f)
  BY <1>2 DEF Sending, TypeOK
<1>3. {v \in Worker : pc'[v] = "send" /\ claim'[v].event = e} = Sending(e) \ {w}
  BY DEF Sending, TypeOK
<1>4. Cardinality(Sending(e) \ {w}) = Cardinality(Sending(e)) - 1
  <2>1. w \in Sending(e)
    BY DEF Sending
  <2>2. QED
    BY <1>1, <2>1, SendingFinite, FS_RemoveElement
<1>5. \A f \in Event : /\ accepted[f] + Cardinality(Sending(f)) <= delivery[f].attempts
                       /\ delivery[f].attempts \in Nat /\ accepted[f] \in Nat
  BY DeliveryAssumption DEF MessagesAudited, Sending, TypeOK, Row
<1>6. /\ accepted'[e] <= accepted[e] + 1 /\ accepted'[e] \in Nat
      /\ \A f \in Event : f # e => accepted'[f] = accepted[f]
  BY <1>1, <1>5 DEF TypeOK
<1> HIDE DEF e
<1>0. accepted'[e]
        + Cardinality({v \in Worker : pc'[v] = "send" /\ claim'[v].event = e})
        <= delivery'[e].attempts
  <2> DEFINE k == Cardinality(Sending(e))
  <2>1. k \in Nat /\ accepted[e] + k <= delivery[e].attempts
    BY <1>1, <1>5, SendingFinite
  <2>2. Cardinality({v \in Worker : pc'[v] = "send" /\ claim'[v].event = e}) = k - 1
    BY <1>3, <1>4
  <2> HIDE DEF k
  <2>3. QED
    BY <2>1, <2>2, <1>1, <1>5, <1>6
<1>7. ASSUME NEW f \in Event
      PROVE  accepted'[f]
               + Cardinality({v \in Worker : pc'[v] = "send" /\ claim'[v].event = f})
               <= delivery'[f].attempts
  <2>1. CASE f = e
    BY <2>1, <1>0
  <2>2. CASE f # e
    BY <2>2, <1>2, <1>5, <1>6
  <2>3. QED
    BY <2>1, <2>2
<1>8. QED
  BY <1>7 DEF MessagesAudited

\* A process that leaves for good sends nothing more.
LEMMA LeaveStep ==
    ASSUME TypeOK, NEW w \in Worker, Leave(w)
    PROVE  /\ pc' = [pc EXCEPT ![w] = "idle"]
           /\ \A v \in Worker : v # w =>
                /\ pc'[v] = pc[v] /\ claim'[v] = claim[v]
                /\ answer'[v] = answer[v] /\ view'[v] = view[v]
BY DEF Leave, TypeOK

\* The account of messages and attempts is kept by every step.
LEMMA AuditedStep == TypeOK /\ MessagesAudited /\ [Next]_vars => MessagesAudited'
<1> SUFFICES ASSUME TypeOK, MessagesAudited, [Next]_vars
             PROVE  MessagesAudited'
  OBVIOUS
<1> USE DEF rows
<1>1. CASE UNCHANGED vars
  BY <1>1 DEF MessagesAudited, vars
<1>2. ASSUME NEW w \in Worker, FindUnprepared(w)
      PROVE  MessagesAudited'
  BY <1>2, QuietStep DEF FindUnprepared, TypeOK
<1>3. ASSUME NEW w \in Worker, PrepareAndDrain(w)
      PROVE  MessagesAudited'
  BY <1>3, QuietStep, StoreTyped DEF PrepareAndDrain, TypeOK
<1>4. ASSUME NEW w \in Worker, pc[w] # "send", Leave(w), accepted' = accepted,
             \A e \in Event : delivery'[e].attempts = delivery[e].attempts
      PROVE  MessagesAudited'
  BY <1>4, QuietStep, LeaveStep DEF TypeOK
<1>5. ASSUME NEW w \in Worker, \/ PrepareOnly(w) \/ PrepareRefused(w)
                               \/ NothingDue(w) \/ QuotaReached(w) \/ Die(w)
      PROVE  MessagesAudited'
  <2>1. \A e \in Event : delivery'[e].attempts = delivery[e].attempts
    BY <1>5, StoreTyped, CleanedTyped
    DEF PrepareOnly, PrepareRefused, NothingDue, QuotaReached, Die
  <2>2. pc[w] # "send" /\ Leave(w) /\ accepted' = accepted
    BY <1>5 DEF PrepareOnly, PrepareRefused, NothingDue, QuotaReached, Die
  <2>3. QED
    BY <1>4, <2>1, <2>2
<1>6. ASSUME NEW w \in Worker, NEW e \in Event, NEW token \in Token,
             pc[w] # "send", accepted' = accepted,
             \/ TakeClaim(w, e, token, delivery)
             \/ TakeClaim(w, e, token, AfterDeadLetters(Event))
      PROVE  MessagesAudited'
  <2>0. ClaimMade(w, e, token)
    BY <1>6, ClaimStep
  <2>1. /\ claim'[w].event = e
        /\ delivery'[e].attempts = delivery[e].attempts + 1
        /\ \A f \in Event : f # e => delivery'[f].attempts = delivery[f].attempts
    BY <2>0 DEF ClaimMade
  <2>2. /\ pc' = [pc EXCEPT ![w] = "send"]
        /\ \A v \in Worker : v # w => claim'[v] = claim[v]
    BY <1>6 DEF TakeClaim, TypeOK
  <2>3. QED
    BY <1>6, <2>1, <2>2, ClaimedStep
<1>7. ASSUME NEW w \in Worker, ClaimNext(w)
      PROVE  MessagesAudited'
  BY <1>6, <1>7, DeliveryAssumption DEF ClaimNext, Token
<1>8. ASSUME NEW w \in Worker, NEW e \in Event, ClaimSelected(w, e)
      PROVE  MessagesAudited'
  BY <1>6, <1>8 DEF ClaimSelected, Token
<1>9. ASSUME NEW w \in Worker, SendVerified(w) \/ SendFailed(w)
      PROVE  MessagesAudited'
  <2>1. /\ pc[w] = "send" /\ pc' = [pc EXCEPT ![w] = "answered"]
        /\ delivery' = delivery /\ claim' = claim
    BY <1>9 DEF SendVerified, SendFailed
  <2>2. \/ accepted' = accepted
        \/ accepted' = [accepted EXCEPT ![claim[w].event] = accepted[claim[w].event] + 1]
    BY <1>9 DEF SendVerified, SendFailed
  <2>3. pc'[w] # "send" /\ \A v \in Worker : v # w => pc'[v] = pc[v]
    BY <2>1 DEF TypeOK
  <2>4. QED
    BY <2>1, <2>2, <2>3, SentStep
<1>10. ASSUME NEW w \in Worker, ReadClaim(w)
       PROVE  MessagesAudited'
  BY <1>10, QuietStep DEF ReadClaim, TypeOK
<1>11. ASSUME NEW w \in Worker, RecordDelivered(w) \/ RecordRetry(w) \/ RecordDeadLetter(w)
       PROVE  MessagesAudited'
  <2>0. PICK outcome \in Outcome, status \in Waiting \cup Terminal, delay \in 0..RetryTerm :
          Record(w, outcome, status, delay)
    BY <1>11, DeliveryAssumption
    DEF RecordDelivered, RecordRetry, RecordDeadLetter, Outcome, Waiting, Terminal
  <2>1. \A e \in Event : delivery'[e].attempts = delivery[e].attempts
    BY <1>11, <2>0, RecordStep DEF RecordDelivered, RecordRetry, RecordDeadLetter
  <2>2. GoOn(w) /\ pc[w] = "record"
    BY <1>11 DEF RecordDelivered, RecordRetry, RecordDeadLetter
  <2>3. \A v \in Worker : /\ pc'[v] = "send" <=> pc[v] = "send"
                          /\ pc[v] = "send" => claim'[v] = claim[v]
    BY <2>2 DEF GoOn, TypeOK
  <2>4. QED
    BY <2>1, <2>2, <2>3, QuietStep DEF GoOn
<1>12. ASSUME NEW w \in Worker, Crash(w)
       PROVE  MessagesAudited'
  <2>1. Leave(w) /\ delivery' = delivery
    BY <1>12 DEF Crash
  <2>2. CASE pc[w] = "send"
    <3>1. \/ accepted' = accepted
          \/ accepted' = [accepted EXCEPT ![claim[w].event] = accepted[claim[w].event] + 1]
      BY <1>12 DEF Crash
    <3>2. pc'[w] # "send" /\ \A v \in Worker : v # w => pc'[v] = pc[v] /\ claim'[v] = claim[v]
      BY <2>1, LeaveStep DEF TypeOK
    <3>3. QED
      BY <2>1, <2>2, <3>1, <3>2, SentStep
  <2>3. CASE pc[w] # "send"
    BY <1>4, <1>12, <2>1, <2>3 DEF Crash
  <2>4. QED
    BY <2>2, <2>3
<1>13. CASE Tick
  BY <1>13, TickTyped, QuietStep DEF Tick
<1>14. QED
  BY <1>1, <1>2, <1>3, <1>5, <1>7, <1>8, <1>9, <1>10, <1>11, <1>12, <1>13
  DEF Next, Deliver

\* Every message on the channel has an attempt of its own in the audit, also
\* when processes outlast their leases, crash, or share a token.
THEOREM EveryMessageAudited == Spec => []MessagesAudited
<1>1. Init => MessagesAudited
  <2> SUFFICES ASSUME Init, NEW e \in Event
               PROVE  accepted[e] + Cardinality(Sending(e)) <= delivery[e].attempts
    BY DEF MessagesAudited, Sending
  <2>1. Sending(e) = {}
    BY DEF Init, Sending
  <2>2. QED
    BY <2>1, FS_EmptySet DEF Init
<1>2. QED
  BY <1>1, TypeCorrect, AuditedStep, PTL DEF Spec

-----------------------------------------------------------------------------
\* What one step may do to what process v holds: its claim begins with the
\* number the row now counts, its reading is the row as it was, and an answer
\* "ok" comes with a message on the channel.
Held(v) ==
    /\ pc'[v] \in Flying =>
         \/ pc[v] \in Flying /\ claim'[v] = claim[v]
         \/ claim'[v].number = delivery'[claim'[v].event].attempts
    /\ pc'[v] = "record" =>
         \/ pc[v] = "record" /\ claim'[v] = claim[v] /\ view'[v] = view[v]
         \/ pc[v] \in Flying /\ claim'[v] = claim[v]
            /\ view'[v].row = delivery[claim[v].event]
    /\ pc'[v] \in Answered /\ answer'[v] = "ok" =>
         \/ pc[v] \in Answered /\ claim'[v] = claim[v] /\ answer[v] = "ok"
         \/ accepted'[claim'[v].event] > 0

\* Neither the attempts of a row nor the messages on the channel decrease.
Grows ==
    \A e \in Event : delivery[e].attempts <= delivery'[e].attempts /\ accepted[e] <= accepted'[e]

\* The audit or the row of an event says that it was delivered.
SaidDelivered(e) ==
    delivery[e].status = "delivered" \/ (\E n \in Number : attempt[e][n] = "delivered")

\* Only record_delivered makes an event delivered.
Said(e) ==
    SaidDelivered(e)' =>
      \/ SaidDelivered(e)
      \/ \E w \in Worker : pc[w] = "record" /\ answer[w] = "ok" /\ claim[w].event = e

\* A process that does nothing holds what it held.
LEMMA StillHeld ==
    ASSUME NEW v \in Worker, pc'[v] = pc[v], claim'[v] = claim[v],
           answer'[v] = answer[v], view'[v] = view[v]
    PROVE  Held(v)
BY DEF Held, Flying, Answered

\* A process on its way out holds nothing.
LEMMA HoldsNothing ==
    ASSUME NEW v \in Worker, pc'[v] \notin Flying
    PROVE  Held(v)
BY DEF Held, Flying, Answered

\* One step of the system, seen from what processes hold and what is said.
LEMMA HeldStep ==
    ASSUME TypeOK, [Next]_vars
    PROVE  Grows /\ (\A v \in Worker : Held(v)) /\ (\A e \in Event : Said(e))
<1> USE DEF rows
<1>0. \A e \in Event : delivery[e].attempts \in Nat /\ accepted[e] \in Nat
  BY DeliveryAssumption DEF TypeOK, Row
<1>a. ASSUME accepted' = accepted, \A e \in Event : delivery'[e].attempts = delivery[e].attempts
      PROVE  Grows
  BY <1>0, <1>a DEF Grows
<1>b. ASSUME attempt' = attempt,
             \A e \in Event : delivery'[e].status = "delivered" => delivery[e].status = "delivered"
      PROVE  \A e \in Event : Said(e)
  BY <1>b DEF Said, SaidDelivered
<1>c. ASSUME NEW w \in Worker, Leave(w)
      PROVE  \A v \in Worker : Held(v)
  <2>1. Held(w)
    BY <1>c, LeaveStep, HoldsNothing DEF Flying, Answered, TypeOK
  <2>2. \A v \in Worker : v # w => Held(v)
    BY <1>c, LeaveStep, StillHeld
  <2>3. QED
    BY <2>1, <2>2
<1>1. CASE UNCHANGED vars
  BY <1>1, <1>a, <1>b, StillHeld DEF vars
<1>2. ASSUME NEW w \in Worker, FindUnprepared(w) \/ PrepareAndDrain(w)
      PROVE  Grows /\ (\A v \in Worker : Held(v)) /\ (\A e \in Event : Said(e))
  <2>1. /\ accepted' = accepted /\ attempt' = attempt
        /\ \A e \in Event : delivery'[e].attempts = delivery[e].attempts
        /\ \A e \in Event : delivery'[e].status = "delivered" => delivery[e].status = "delivered"
    BY <1>2, StoreTyped DEF FindUnprepared, PrepareAndDrain
  <2>2. /\ claim' = claim /\ answer' = answer /\ view' = view
        /\ pc'[w] \notin Flying
        /\ \A v \in Worker : v # w => pc'[v] = pc[v]
    BY <1>2 DEF FindUnprepared, PrepareAndDrain, TypeOK, Flying, Answered
  <2>3. \A v \in Worker : Held(v)
    BY <2>2, HoldsNothing, StillHeld
  <2>4. QED
    BY <1>a, <1>b, <2>1, <2>3
<1>3. ASSUME NEW w \in Worker, \/ PrepareOnly(w) \/ PrepareRefused(w)
                               \/ NothingDue(w) \/ QuotaReached(w) \/ Die(w)
      PROVE  Grows /\ (\A v \in Worker : Held(v)) /\ (\A e \in Event : Said(e))
  <2>1. /\ accepted' = accepted /\ attempt' = attempt /\ Leave(w)
        /\ \/ delivery' = delivery
           \/ StorePending(w)
           \/ delivery' = AfterDeadLetters(Event)
    BY <1>3 DEF PrepareOnly, PrepareRefused, NothingDue, QuotaReached, Die
  <2>2. \A e \in Event : delivery'[e].attempts = delivery[e].attempts
    BY <2>1, StoreTyped, CleanedTyped
  <2>3. \A e \in Event : AfterDeadLetters(Event)[e].status = "delivered"
                           => delivery[e].status = "delivered"
    BY DEF AfterDeadLetters, DeadLettered, TypeOK, Row
  <2>4. \A e \in Event : delivery'[e].status = "delivered" => delivery[e].status = "delivered"
    BY <2>1, <2>3, StoreTyped
  <2>5. QED
    BY <1>a, <1>b, <1>c, <2>1, <2>2, <2>4
<1>4. ASSUME NEW w \in Worker, NEW e \in Event, NEW token \in Token,
             accepted' = accepted, answer' = answer, view' = view,
             \/ TakeClaim(w, e, token, delivery)
             \/ TakeClaim(w, e, token, AfterDeadLetters(Event))
      PROVE  Grows /\ (\A v \in Worker : Held(v)) /\ (\A f \in Event : Said(f))
  <2>a. ClaimMade(w, e, token)
    BY <1>4, ClaimStep
  <2>1. claim'[w] = [event |-> e, number |-> delivery[e].attempts + 1, token |-> token]
    BY <2>a DEF ClaimMade
  <2>2. delivery'[e].attempts = delivery[e].attempts + 1
    BY <2>a DEF ClaimMade
  <2>3. \A f \in Event : f # e => delivery'[f].attempts = delivery[f].attempts
    BY <2>a DEF ClaimMade
  <2>4. Grows
    BY <1>0, <1>4, <2>2, <2>3 DEF Grows
  <2>5. claim'[w].event = e /\ claim'[w].number = delivery[e].attempts + 1
    BY <2>1
  <2>6. /\ pc' = [pc EXCEPT ![w] = "send"]
        /\ \A v \in Worker : v # w => claim'[v] = claim[v]
    BY <1>4 DEF TakeClaim, TypeOK
  <2>7. Held(w)
    BY <2>2, <2>5, <2>6 DEF Held, TypeOK, Answered
  <2>8. \A v \in Worker : v # w => Held(v)
    BY <1>4, <2>6, StillHeld DEF TypeOK
  <2>9. delivery'[e].status # "delivered"
    <3>1. delivery'[e].status = "claimed"
      BY <2>a DEF ClaimMade
    <3>2. QED
      BY <3>1
  <2>10. \A f \in Event : f # e => delivery'[f] = delivery[f] \/ delivery'[f].status = "dead_letter"
    <3>1. CASE TakeClaim(w, e, token, delivery)
      BY <3>1 DEF TakeClaim, TypeOK
    <3>2. CASE TakeClaim(w, e, token, AfterDeadLetters(Event))
      <4>1. \A f \in Event : \/ AfterDeadLetters(Event)[f] = delivery[f]
                             \/ AfterDeadLetters(Event)[f].status = "dead_letter"
        BY DEF AfterDeadLetters, DeadLettered, TypeOK, Row
      <4>2. AfterDeadLetters(Event) \in [Event -> Row]
        BY CleanedTyped
      <4>3. QED
        BY <3>2, <4>1, <4>2 DEF TakeClaim
    <3>3. QED
      BY <1>4, <3>1, <3>2
  <2>11. \A f \in Event, n \in Number : attempt'[f][n] = "delivered" => attempt[f][n] = "delivered"
    BY <2>a DEF ClaimMade
  <2>12. \A f \in Event : Said(f)
    BY <2>9, <2>10, <2>11 DEF Said, SaidDelivered
  <2>13. QED
    BY <2>4, <2>7, <2>8, <2>12
<1>5. ASSUME NEW w \in Worker, ClaimNext(w)
      PROVE  Grows /\ (\A v \in Worker : Held(v)) /\ (\A e \in Event : Said(e))
  BY <1>4, <1>5, DeliveryAssumption DEF ClaimNext, Token
<1>6. ASSUME NEW w \in Worker, NEW e \in Event, ClaimSelected(w, e)
      PROVE  Grows /\ (\A v \in Worker : Held(v)) /\ (\A f \in Event : Said(f))
  BY <1>4, <1>6 DEF ClaimSelected, Token
<1>7. ASSUME NEW w \in Worker, SendVerified(w) \/ SendFailed(w)
      PROVE  Grows /\ (\A v \in Worker : Held(v)) /\ (\A e \in Event : Said(e))
  <2>1. /\ pc[w] = "send" /\ pc' = [pc EXCEPT ![w] = "answered"]
        /\ delivery' = delivery /\ attempt' = attempt /\ claim' = claim /\ view' = view
        /\ claim[w].event \in Event
    BY <1>7 DEF SendVerified, SendFailed, TypeOK, Flying, Claim
  <2>2. \/ accepted' = accepted
        \/ accepted' = [accepted EXCEPT ![claim[w].event] = accepted[claim[w].event] + 1]
    BY <1>7 DEF SendVerified, SendFailed
  <2>3. \A v \in Worker : v # w => answer'[v] = answer[v]
    BY <1>7 DEF SendVerified, SendFailed, TypeOK
  <2>4. answer'[w] = "ok" => accepted'[claim[w].event] > 0
    BY <1>0, <1>7, <2>1 DEF SendVerified, SendFailed, TypeOK
  <2>5. Grows
    BY <1>0, <2>1, <2>2 DEF Grows, TypeOK
  <2>6. Held(w)
    BY <2>1, <2>4 DEF Held, Flying, Answered, TypeOK
  <2>7. \A v \in Worker : v # w => Held(v)
    BY <2>1, <2>3, StillHeld DEF TypeOK
  <2>8. QED
    BY <1>b, <2>1, <2>5, <2>6, <2>7
<1>8. ASSUME NEW w \in Worker, ReadClaim(w)
      PROVE  Grows /\ (\A v \in Worker : Held(v)) /\ (\A e \in Event : Said(e))
  <2>1. /\ pc[w] = "answered" /\ pc' = [pc EXCEPT ![w] = "record"]
        /\ delivery' = delivery /\ attempt' = attempt /\ accepted' = accepted
        /\ claim' = claim /\ answer' = answer
    BY <1>8 DEF ReadClaim
  <2>2. /\ view'[w].row = delivery[claim[w].event]
        /\ \A v \in Worker : v # w => view'[v] = view[v]
    BY <1>8 DEF ReadClaim, TypeOK
  <2>3. Held(w)
    BY <2>1, <2>2 DEF Held, Flying, Answered, TypeOK
  <2>4. \A v \in Worker : v # w => Held(v)
    BY <2>1, <2>2, StillHeld DEF TypeOK
  <2>5. QED
    BY <1>a, <1>b, <2>1, <2>3, <2>4
<1>9. ASSUME NEW w \in Worker, RecordDelivered(w) \/ RecordRetry(w) \/ RecordDeadLetter(w)
      PROVE  Grows /\ (\A v \in Worker : Held(v)) /\ (\A e \in Event : Said(e))
  <2>1. PICK outcome \in Outcome, status \in Waiting \cup Terminal, delay \in 0..RetryTerm :
          /\ Record(w, outcome, status, delay)
          /\ status = "delivered" <=> outcome = "delivered"
          /\ status = "delivered" => answer[w] = "ok"
    BY <1>9, DeliveryAssumption
    DEF RecordDelivered, RecordRetry, RecordDeadLetter, Outcome, Waiting, Terminal
  <2>2. GoOn(w) /\ pc[w] = "record" /\ accepted' = accepted
    BY <1>9 DEF RecordDelivered, RecordRetry, RecordDeadLetter, GoOn
  <2>3. \A e \in Event : delivery'[e].attempts = delivery[e].attempts
    BY <2>1, <2>2, RecordStep
  <2>4. Held(w)
    BY <2>2, HoldsNothing DEF GoOn, TypeOK, Flying, Answered
  <2>5. \A v \in Worker : v # w => Held(v)
    BY <2>2, StillHeld DEF GoOn, TypeOK
  <2>6. \A e \in Event : e # claim[w].event => delivery'[e] = delivery[e] /\ attempt'[e] = attempt[e]
    BY <2>1, <2>2, RecordStep
  <2>7. delivery'[claim[w].event].status = status
    BY <2>1, <2>2, RecordStep
  <2>8. outcome # "delivered" =>
          \A e \in Event, n \in Number : attempt'[e][n] = "delivered" => attempt[e][n] = "delivered"
    BY <2>1, <2>2, RecordStep
  <2>9. \A e \in Event : Said(e)
    <3>1. CASE status = "delivered"
      BY <2>1, <2>2, <2>6, <3>1 DEF Said, SaidDelivered
    <3>2. CASE status # "delivered"
      BY <2>1, <2>6, <2>7, <2>8, <3>2 DEF Said, SaidDelivered
    <3>3. QED
      BY <3>1, <3>2
  <2>10. QED
    BY <1>a, <2>2, <2>3, <2>4, <2>5, <2>9
<1>10. ASSUME NEW w \in Worker, Crash(w)
       PROVE  Grows /\ (\A v \in Worker : Held(v)) /\ (\A e \in Event : Said(e))
  <2>1. Leave(w) /\ delivery' = delivery /\ attempt' = attempt
    BY <1>10 DEF Crash
  <2>2. \/ accepted' = accepted
        \/ /\ accepted' = [accepted EXCEPT ![claim[w].event] = accepted[claim[w].event] + 1]
           /\ pc[w] = "send"
    BY <1>10 DEF Crash
  <2>3. Grows
    BY <1>0, <2>1, <2>2 DEF Grows, TypeOK, Flying, Claim
  <2>4. QED
    BY <1>b, <1>c, <2>1, <2>3
<1>11. CASE Tick
  <2>1. /\ accepted' = accepted /\ attempt' = attempt /\ pc' = pc /\ claim' = claim
        /\ answer' = answer /\ view' = view
    BY <1>11 DEF Tick
  <2>2. \A e \in Event : /\ delivery'[e].attempts = delivery[e].attempts
                         /\ delivery'[e].status = delivery[e].status
    BY <1>11, TickTyped
  <2>3. QED
    BY <1>a, <1>b, <2>1, <2>2, StillHeld
<1>12. QED
  BY <1>1, <1>2, <1>3, <1>5, <1>6, <1>7, <1>8, <1>9, <1>10, <1>11 DEF Next, Deliver

\* The inductive invariant.  A claim's number is one the row has counted; a
\* reading of the row was taken after that; an answer "ok" stands for a message
\* on the channel, so that what record_delivered writes is true.
DeliveryInv ==
    /\ TypeOK
    /\ \A w \in Worker : pc[w] \in Flying =>
         claim[w].number <= delivery[claim[w].event].attempts
    /\ \A w \in Worker : pc[w] = "record" => claim[w].number <= view[w].row.attempts
    /\ \A w \in Worker : pc[w] \in Answered /\ answer[w] = "ok" =>
         accepted[claim[w].event] > 0
    /\ DeliveredWasAccepted

\* The invariant of the deliveries is inductive: every process that holds a claim,
\* the row it claimed and the audit of the two agree after each step.
LEMMA DeliveryInvStep == DeliveryInv /\ [Next]_vars => DeliveryInv'
<1> SUFFICES ASSUME DeliveryInv, [Next]_vars
             PROVE  DeliveryInv'
  OBVIOUS
<1>1. TypeOK /\ TypeOK'
  BY TypeStep DEF DeliveryInv
<1>2. Grows /\ (\A v \in Worker : Held(v)) /\ (\A e \in Event : Said(e))
  BY <1>1, HeldStep
<1>3. /\ \A w \in Worker : pc[w] \in Flying =>
           claim[w].event \in Event /\ claim[w].number \in Nat
      /\ \A w \in Worker : pc'[w] \in Flying =>
           claim'[w].event \in Event /\ claim'[w].number \in Nat
  BY <1>1, DeliveryAssumption DEF TypeOK, Claim, Number
<1>4. \A e \in Event : /\ delivery[e].attempts \in Nat /\ delivery'[e].attempts \in Nat
                       /\ accepted[e] \in Nat /\ accepted'[e] \in Nat
  BY <1>1, DeliveryAssumption DEF TypeOK, Row
<1>5. \A e \in Event : delivery[e].attempts <= delivery'[e].attempts /\ accepted[e] <= accepted'[e]
  BY <1>2 DEF Grows
<1>6. ASSUME NEW w \in Worker, pc'[w] \in Flying
      PROVE  claim'[w].number <= delivery'[claim'[w].event].attempts
  <2>1. CASE pc[w] \in Flying /\ claim'[w] = claim[w]
    BY <1>3, <1>4, <1>5, <2>1 DEF DeliveryInv
  <2>2. CASE claim'[w].number = delivery'[claim'[w].event].attempts
    BY <1>3, <1>4, <1>6, <2>2
  <2>3. QED
    BY <1>2, <1>6, <2>1, <2>2 DEF Held
<1>7. ASSUME NEW w \in Worker, pc'[w] = "record"
      PROVE  claim'[w].number <= view'[w].row.attempts
  <2>1. CASE pc[w] = "record" /\ claim'[w] = claim[w] /\ view'[w] = view[w]
    BY <2>1 DEF DeliveryInv
  <2>2. CASE pc[w] \in Flying /\ claim'[w] = claim[w] /\ view'[w].row = delivery[claim[w].event]
    BY <2>2 DEF DeliveryInv
  <2>3. QED
    BY <1>2, <1>7, <2>1, <2>2 DEF Held
<1>8. ASSUME NEW w \in Worker, pc'[w] \in Answered, answer'[w] = "ok"
      PROVE  accepted'[claim'[w].event] > 0
  <2>1. CASE pc[w] \in Answered /\ claim'[w] = claim[w] /\ answer[w] = "ok"
    <3>1. claim[w].event \in Event /\ accepted[claim[w].event] > 0
      BY <1>3, <2>1 DEF DeliveryInv, Flying
    <3>2. QED
      BY <1>4, <1>5, <2>1, <3>1
  <2>2. QED
    BY <1>2, <1>8, <2>1 DEF Held
<1>9. DeliveredWasAccepted'
  <2> SUFFICES ASSUME NEW e \in Event, SaidDelivered(e)'
               PROVE  accepted'[e] > 0
    BY DEF DeliveredWasAccepted, SaidDelivered
  <2>1. accepted[e] > 0
    <3>1. CASE SaidDelivered(e)
      BY <3>1 DEF SaidDelivered, DeliveryInv, DeliveredWasAccepted
    <3>2. CASE \E w \in Worker : pc[w] = "record" /\ answer[w] = "ok" /\ claim[w].event = e
      BY <3>2 DEF DeliveryInv, Answered
    <3>3. QED
      BY <1>2, <3>1, <3>2 DEF Said
  <2>2. QED
    BY <1>4, <1>5, <2>1
<1>10. QED
  BY <1>1, <1>6, <1>7, <1>8, <1>9 DEF DeliveryInv

\* DeliveryInv holds of every state, whatever crashes, timeouts and overruns
\* come about.
THEOREM DeliveryInvariant == Spec => []DeliveryInv
<1>1. Init => DeliveryInv
  <2>1. Init => TypeOK
    BY DeliveryAssumption DEF Init, TypeOK, Row, Outcome, Flying, Answered
  <2>2. QED
    BY <2>1 DEF Init, DeliveryInv, DeliveredWasAccepted, Flying, Answered
<1>2. QED
  BY <1>1, DeliveryInvStep, PTL DEF Spec

\* A delivery is called delivered only if the provider accepted the message.
THEOREM DeliveredIsTrue == Spec => []DeliveredWasAccepted
<1>1. DeliveryInv => DeliveredWasAccepted
  BY DEF DeliveryInv
<1>2. QED
  BY <1>1, DeliveryInvariant, PTL

\* No message without an attempt, and no delivery without a message.
THEOREM AuditTrue == Spec => []AuditIsTrue
<1>1. MessagesAudited /\ DeliveredWasAccepted => AuditIsTrue
  BY DEF AuditIsTrue
<1>2. QED
  BY <1>1, EveryMessageAudited, DeliveredIsTrue, PTL

\* record_failure finds a delay for every retry it schedules.
THEOREM EveryRetryHasDelay == Spec => []RetryHasDelay
<1>1. DeliveryInv => RetryHasDelay
  <2> SUFFICES ASSUME DeliveryInv, NEW w \in Worker, pc[w] = "record", ~IsTerminal(w)
               PROVE  claim[w].number < MaxAttempts
    BY DEF RetryHasDelay
  <2>1. claim[w].number <= view[w].row.attempts /\ ~(view[w].row.attempts >= MaxAttempts)
    BY DEF DeliveryInv, IsTerminal
  <2>2. claim[w].number \in Nat /\ view[w].row.attempts \in Nat
    BY DeliveryAssumption DEF DeliveryInv, TypeOK, Flying, Answered, Claim, Number, Reading, Row
  <2>3. QED
    BY <2>1, <2>2, DeliveryAssumption
<1>2. QED
  BY <1>1, DeliveryInvariant, PTL

-----------------------------------------------------------------------------
\* The attempt rows of a delivery are the ones its row has counted.
AttemptsCounted ==
    \A e \in Event, n \in Number : attempt[e][n] # "none" <=> n <= delivery[e].attempts

\* What the audit counts for a claim is what the row counts.
LEMMA AuditIsCount ==
    ASSUME TypeOK, AttemptsCounted, NEW e \in Event
    PROVE  Cardinality({n \in Number : attempt[e][n] # "none"}) = delivery[e].attempts
<1> DEFINE k == delivery[e].attempts
<1>1. k \in 0..MaxAttempts /\ k \in Nat
  BY DeliveryAssumption DEF TypeOK, Row
<1>2. {n \in Number : attempt[e][n] # "none"} = 1..k
  BY <1>1, DeliveryAssumption DEF AttemptsCounted, Number
<1>3. Cardinality(1..k) = k
  BY <1>1, FS_Interval
<1>4. QED
  BY <1>2, <1>3

\* A step that changes neither counts nor attempts, and puts no row in
\* retry_wait, keeps the backlog claimable.
LEMMA BacklogKept ==
    ASSUME AttemptsCounted, BacklogClaimable,
           attempt' = attempt,
           \A e \in Event : /\ delivery'[e].attempts = delivery[e].attempts
                            /\ delivery'[e].status = "retry_wait"
                                 => delivery[e].status = "retry_wait"
    PROVE  AttemptsCounted' /\ BacklogClaimable'
BY DEF AttemptsCounted, BacklogClaimable

\* Every step keeps the audit complete and the backlog claimable.
LEMMA BacklogStep ==
    ASSUME DeliveryInv, AttemptsCounted, BacklogClaimable, [Next]_vars
    PROVE  AttemptsCounted' /\ BacklogClaimable'
<1> USE DEF rows
<1>0. TypeOK
  BY DEF DeliveryInv
<1>1. ASSUME delivery' = delivery, attempt' = attempt
      PROVE  AttemptsCounted' /\ BacklogClaimable'
  BY <1>1 DEF AttemptsCounted, BacklogClaimable
<1>2. ASSUME NEW w \in Worker, PrepareAndDrain(w) \/ PrepareOnly(w) \/ NothingDue(w)
      PROVE  AttemptsCounted' /\ BacklogClaimable'
  <2>1. /\ attempt' = attempt
        /\ StorePending(w) \/ delivery' = AfterDeadLetters(Event)
    BY <1>2 DEF PrepareAndDrain, PrepareOnly, NothingDue
  <2>2. \A e \in Event : delivery'[e].attempts = delivery[e].attempts
    BY <1>0, <2>1, StoreTyped, CleanedTyped
  <2>3. ASSUME NEW e \in Event, delivery'[e].status = "retry_wait"
        PROVE  delivery[e].status = "retry_wait"
    <3>1. [delivery[e] EXCEPT !.status = "pending"].status = "pending"
          /\ DeadLettered(delivery[e]).status = "dead_letter"
      BY <1>0 DEF TypeOK, Row, DeadLettered
    <3>2. QED
      BY <2>1, <2>3, <3>1 DEF StorePending, AfterDeadLetters
  <2>4. QED
    BY <2>1, <2>2, <2>3, BacklogKept
<1>3. ASSUME NEW w \in Worker, NEW e \in Event, NEW token \in Token,
             \/ TakeClaim(w, e, token, delivery)
             \/ TakeClaim(w, e, token, AfterDeadLetters(Event))
      PROVE  AttemptsCounted' /\ BacklogClaimable'
  <2>a. ClaimMade(w, e, token)
    BY <1>0, <1>3, ClaimStep
  <2>1. delivery'[e].attempts = delivery[e].attempts + 1
    BY <2>a DEF ClaimMade
  <2>2. \A f \in Event : f # e => delivery'[f].attempts = delivery[f].attempts
    BY <2>a DEF ClaimMade
  <2>3. delivery[e].attempts \in Nat /\ delivery[e].attempts < MaxAttempts
    BY <1>0, <1>3, DeliveryAssumption DEF TakeClaim, Eligible, TypeOK, Row
  <2>4. attempt' = [attempt EXCEPT ![e][delivery[e].attempts + 1] = "open"]
    BY <1>3 DEF TakeClaim
  <2>5. delivery[e].attempts + 1 \in Number
    BY <2>3, DeliveryAssumption DEF Number
  <2>6. \A f \in Event, n \in Number :
          attempt'[f][n] = IF f = e /\ n = delivery[e].attempts + 1 THEN "open" ELSE attempt[f][n]
    BY <1>0, <2>4, <2>5 DEF TypeOK
  <2>7. ASSUME NEW f \in Event, NEW n \in Number
        PROVE  attempt'[f][n] # "none" <=> n <= delivery'[f].attempts
    <3>1. attempt[f][n] # "none" <=> n <= delivery[f].attempts
      BY DEF AttemptsCounted
    <3>2. n \in Nat
      BY DeliveryAssumption DEF Number
    <3>3. CASE f = e
      BY <2>1, <2>3, <2>6, <3>1, <3>2, <3>3
    <3>4. CASE f # e
      BY <2>2, <2>6, <3>1, <3>4
    <3>5. QED
      BY <3>3, <3>4
  <2>8. delivery'[e].status = "claimed"
    BY <2>a DEF ClaimMade
  <2>9. \A f \in Event : f # e => delivery'[f] = delivery[f] \/ delivery'[f].status = "dead_letter"
    <3>1. CASE TakeClaim(w, e, token, delivery)
      BY <1>0, <3>1 DEF TakeClaim, TypeOK
    <3>2. CASE TakeClaim(w, e, token, AfterDeadLetters(Event))
      <4>1. \A f \in Event : \/ AfterDeadLetters(Event)[f] = delivery[f]
                             \/ AfterDeadLetters(Event)[f].status = "dead_letter"
        BY <1>0 DEF AfterDeadLetters, DeadLettered, TypeOK, Row
      <4>2. AfterDeadLetters(Event) \in [Event -> Row]
        BY <1>0, CleanedTyped
      <4>3. QED
        BY <3>2, <4>1, <4>2 DEF TakeClaim
    <3>3. QED
      BY <1>3, <3>1, <3>2
  <2>10. QED
    BY <2>2, <2>7, <2>8, <2>9 DEF AttemptsCounted, BacklogClaimable
<1>4. ASSUME NEW w \in Worker, RecordDelivered(w) \/ RecordRetry(w) \/ RecordDeadLetter(w)
      PROVE  AttemptsCounted' /\ BacklogClaimable'
  <2> DEFINE e == claim[w].event
  <2>1. PICK outcome \in Outcome \ {"none"}, status \in Waiting \cup Terminal,
             delay \in 0..RetryTerm :
          /\ Record(w, outcome, status, delay)
          /\ status = "retry_wait" => ~IsTerminal(w)
    BY <1>4, DeliveryAssumption
    DEF RecordDelivered, RecordRetry, RecordDeadLetter, Outcome, Waiting, Terminal
  <2>2. pc[w] = "record" /\ AuditAgrees(w)
    BY <1>4 DEF RecordDelivered, RecordRetry, RecordDeadLetter
  <2>3. e \in Event /\ claim[w].number \in Number /\ claim[w].number <= delivery[e].attempts
    BY <1>0, <2>2 DEF DeliveryInv, TypeOK, Flying, Answered, Claim
  <2>4. \A f \in Event : delivery'[f].attempts = delivery[f].attempts
    BY <1>0, <2>1, <2>2, RecordStep
  <2>5. attempt' = [attempt EXCEPT ![e][claim[w].number] = outcome]
    BY <2>1 DEF Record
  <2>6. \A f \in Event, n \in Number :
          attempt'[f][n] = IF f = e /\ n = claim[w].number THEN outcome ELSE attempt[f][n]
    BY <1>0, <2>3, <2>5 DEF TypeOK
  <2>7. AttemptsCounted'
    BY <2>1, <2>3, <2>4, <2>6 DEF AttemptsCounted
  <2>8. delivery'[e].status = "retry_wait" => delivery[e].attempts < MaxAttempts
    <3>1. delivery'[e].status = status
      BY <1>0, <2>1, <2>2, RecordStep
    <3>2. view[w].row.attempts = delivery[e].attempts
      BY <1>0, <2>2, <2>3, AuditIsCount DEF AuditAgrees
    <3>3. view[w].row.attempts \in Nat
      BY <1>0, <2>2, DeliveryAssumption DEF TypeOK, Reading, Row
    <3>4. QED
      BY <2>1, <3>1, <3>2, <3>3, DeliveryAssumption DEF IsTerminal
  <2>9. \A f \in Event : f # e => delivery'[f] = delivery[f]
    BY <1>0, <2>1, <2>2, RecordStep
  <2> HIDE DEF e
  <2>10. BacklogClaimable'
    BY <2>4, <2>8, <2>9 DEF BacklogClaimable
  <2>11. QED
    BY <2>7, <2>10
<1>5. CASE Tick
  <2>1. attempt' = attempt
    BY <1>5 DEF Tick
  <2>2. QED
    BY <1>0, <1>5, <2>1, TickTyped, BacklogKept
<1>6. CASE UNCHANGED vars
  BY <1>1, <1>6 DEF vars
<1>7. ASSUME NEW w \in Worker,
             \/ FindUnprepared(w) \/ PrepareRefused(w) \/ QuotaReached(w) \/ SendVerified(w)
             \/ SendFailed(w) \/ ReadClaim(w) \/ Die(w) \/ Crash(w)
      PROVE  AttemptsCounted' /\ BacklogClaimable'
  BY <1>1, <1>7
  DEF FindUnprepared, PrepareRefused, QuotaReached, SendVerified, SendFailed, ReadClaim,
      Die, Crash
<1>8. ASSUME NEW w \in Worker, ClaimNext(w)
      PROVE  AttemptsCounted' /\ BacklogClaimable'
  BY <1>3, <1>8, DeliveryAssumption DEF ClaimNext, Token
<1>9. ASSUME NEW w \in Worker, NEW e \in Event, ClaimSelected(w, e)
      PROVE  AttemptsCounted' /\ BacklogClaimable'
  BY <1>3, <1>9 DEF ClaimSelected, Token
<1>10. QED
  BY <1>2, <1>4, <1>5, <1>6, <1>7, <1>8, <1>9 DEF Next, Deliver

\* No row waits for a retry that claim_next would refuse, also when a result is
\* recorded from a reading older than the row.
THEOREM BacklogStaysClaimable == Spec => []BacklogClaimable
<1>1. Init => AttemptsCounted /\ BacklogClaimable
  BY DeliveryAssumption DEF Init, AttemptsCounted, BacklogClaimable, Number
<1>2. AttemptsCounted /\ BacklogClaimable /\ DeliveryInv /\ [Next]_vars
        => (AttemptsCounted /\ BacklogClaimable)'
  BY BacklogStep
<1>3. QED
  BY <1>1, <1>2, DeliveryInvariant, PTL DEF Spec

-----------------------------------------------------------------------------
(* No claim outlasts its lease.                                             *)

\* A process in flight still holds the row it claimed, and its lease runs.
ClaimsLive ==
    \A w \in Worker : pc[w] \in Flying =>
      /\ Holds(w, claim[w].event)
      /\ delivery[claim[w].event].expiry > 0

\* The row of an event and its audit, as AuditTellsStatus relates them.
Last(e) == IF delivery[e].attempts = 0 THEN "none" ELSE attempt[e][delivery[e].attempts]

Tells(e) ==
    /\ delivery[e].status \in {"none", "pending"} => Last(e) = "none"
    /\ delivery[e].status = "claimed" => Last(e) = "open"
    /\ delivery[e].status = "retry_wait" => Last(e) = "retryable_failure"
    /\ delivery[e].status = "delivered" => Last(e) = "delivered"
    /\ delivery[e].status = "dead_letter" =>
         \/ Last(e) = "permanent_failure"
         \/ Last(e) = "open" /\ delivery[e].attempts = MaxAttempts
    /\ \A n \in Number : n < delivery[e].attempts =>
         attempt[e][n] \in {"open", "retryable_failure"}

LEMMA TellsIsAudit == AuditTellsStatus <=> \A e \in Event : Tells(e)
BY DEF AuditTellsStatus, Tells, Last

\* The inductive invariant of processes that keep within their leases.
LeaseInv == ClaimsLive /\ OneInFlight /\ \A e \in Event : Tells(e)

\* No process starts to fly.
NoneTakesOff ==
    \A v \in Worker : pc'[v] \in Flying => pc[v] \in Flying /\ claim'[v] = claim[v]

\* What preparing and cleaning up do to a row.
Settles(e) ==
    \/ delivery'[e] = delivery[e]
    \/ /\ delivery[e].status = "none"
       /\ delivery'[e] = [delivery[e] EXCEPT !.status = "pending"]
    \/ Exhausted(e) /\ delivery'[e] = DeadLettered(delivery[e])

\* A row that is prepared or cleaned up is one nobody holds, and its audit
\* still tells its status.
LEMMA SettlesKept ==
    ASSUME TypeOK, LeaseInv, NoneTakesOff, attempt' = attempt,
           \A e \in Event : Settles(e)
    PROVE  LeaseInv'
<1>1. ASSUME NEW v \in Worker, pc'[v] \in Flying
      PROVE  Holds(v, claim[v].event)' /\ delivery'[claim'[v].event].expiry > 0
  <2> DEFINE e == claim[v].event
  <2>1. pc[v] \in Flying /\ claim'[v] = claim[v]
    BY <1>1 DEF NoneTakesOff
  <2>2. e \in Event
    BY <2>1 DEF TypeOK, Claim
  <2>3. delivery[e].status = "claimed" /\ delivery[e].expiry > 0
        /\ delivery[e].attempts = claim[v].number
    BY <2>1 DEF LeaseInv, ClaimsLive, Holds
  <2>4. delivery'[e] = delivery[e]
    <3>1. delivery[e].expiry \in Nat
      BY <2>2, DeliveryAssumption DEF TypeOK, Row
    <3>2. ~Exhausted(e)
      BY <2>3, <3>1 DEF Exhausted
    <3>3. QED
      BY <2>2, <2>3, <3>2 DEF Settles
  <2>5. QED
    BY <1>1, <2>1, <2>3, <2>4 DEF Holds
<1>2. ClaimsLive'
  BY <1>1 DEF ClaimsLive, NoneTakesOff, Holds
<1>3. OneInFlight'
  BY DEF LeaseInv, OneInFlight, NoneTakesOff
<1>4. ASSUME NEW e \in Event
      PROVE  Tells(e)'
  <2>1. delivery[e] \in Row /\ Tells(e) /\ Settles(e)
    BY DEF TypeOK, LeaseInv
  <2>2. CASE delivery'[e] = delivery[e]
    BY <2>1, <2>2 DEF Tells, Last
  <2>3. CASE delivery[e].status = "none" /\ delivery'[e] = [delivery[e] EXCEPT !.status = "pending"]
    <3>1. delivery'[e].status = "pending" /\ delivery'[e].attempts = delivery[e].attempts
      BY <2>1, <2>3 DEF Row
    <3>2. QED
      BY <2>1, <2>3, <3>1 DEF Tells, Last
  <2>4. CASE Exhausted(e) /\ delivery'[e] = DeadLettered(delivery[e])
    <3>1. delivery'[e].status = "dead_letter" /\ delivery'[e].attempts = delivery[e].attempts
      BY <2>1, <2>4 DEF Row, DeadLettered
    <3>2. delivery[e].attempts = MaxAttempts /\ delivery[e].status = "claimed"
      BY <2>1, <2>4, DeliveryAssumption DEF Row, Exhausted
    <3>3. QED
      BY <2>1, <3>1, <3>2 DEF Tells, Last
  <2>5. QED
    BY <2>1, <2>2, <2>3, <2>4 DEF Settles
<1>5. QED
  BY <1>2, <1>3, <1>4 DEF LeaseInv

\* A claim takes a row that nobody holds.
LEMMA ClaimKept ==
    ASSUME TypeOK, AttemptsCounted, LeaseInv,
           NEW w \in Worker, pc[w] \notin Flying,
           NEW e \in Event, NEW token \in Token,
           \/ TakeClaim(w, e, token, delivery)
           \/ TakeClaim(w, e, token, AfterDeadLetters(Event))
    PROVE  LeaseInv'
<1> DEFINE n == delivery[e].attempts + 1
<1>1. /\ delivery[e] \in Row
      /\ delivery[e].attempts \in Nat /\ delivery[e].attempts < MaxAttempts
      /\ delivery[e].expiry \in Nat
      /\ n \in Number /\ n \in Nat
  BY DeliveryAssumption DEF TakeClaim, Eligible, TypeOK, Row, Number
<1>2. ~Exhausted(e)
  BY <1>1, DeliveryAssumption DEF Exhausted
<1>3. /\ attempt' = [attempt EXCEPT ![e][n] = "open"]
      /\ pc' = [pc EXCEPT ![w] = "send"]
      /\ claim' = [claim EXCEPT ![w] = [event |-> e, number |-> n, token |-> token]]
  BY DEF TakeClaim
<1>4. /\ delivery'[e] = Claimed(delivery[e], token)
      /\ \A f \in Event : f # e => Settles(f)
  <2>1. AfterDeadLetters(Event) \in [Event -> Row]
    BY CleanedTyped
  <2>2. CASE TakeClaim(w, e, token, delivery)
    BY <2>2 DEF TakeClaim, TypeOK, Settles
  <2>3. CASE TakeClaim(w, e, token, AfterDeadLetters(Event))
    <3>1. delivery' = [AfterDeadLetters(Event) EXCEPT
                         ![e] = Claimed(AfterDeadLetters(Event)[e], token)]
      BY <2>3 DEF TakeClaim
    <3>2. AfterDeadLetters(Event)[e] = delivery[e]
      BY <1>2 DEF AfterDeadLetters
    <3>3. \A f \in Event : f # e => delivery'[f] = AfterDeadLetters(Event)[f]
      BY <2>1, <3>1
    <3>4. QED
      BY <2>1, <3>1, <3>2, <3>3 DEF AfterDeadLetters, Settles
  <2>4. QED
    BY <2>2, <2>3
<1>5. /\ delivery'[e].status = "claimed" /\ delivery'[e].attempts = n
      /\ delivery'[e].expiry = LeaseTerm
  BY <1>4 DEF Claimed
<1>6. /\ claim'[w].event = e /\ claim'[w].number = n /\ pc'[w] = "send"
      /\ \A v \in Worker : v # w => pc'[v] = pc[v] /\ claim'[v] = claim[v]
  BY <1>3 DEF TypeOK
<1>7. ASSUME NEW v \in Worker, v # w, pc[v] \in Flying
      PROVE  claim[v].event \in Event /\ claim[v].event # e
  <2>1. claim[v].event \in Event
    BY <1>7 DEF TypeOK, Claim
  <2>2. /\ delivery[claim[v].event].status = "claimed"
        /\ delivery[claim[v].event].expiry > 0
    BY <1>7 DEF LeaseInv, ClaimsLive, Holds
  <2>3. ~Eligible(claim[v].event)
    BY <2>1, <2>2, DeliveryAssumption DEF Eligible, TypeOK, Row
  <2>4. Eligible(e)
    BY DEF TakeClaim
  <2>5. QED
    BY <2>1, <2>3, <2>4
<1>8. ASSUME NEW f \in Event, delivery[f].status = "claimed", delivery[f].expiry > 0, f # e
      PROVE  delivery'[f] = delivery[f]
  <2>1. ~Exhausted(f)
    BY <1>8, DeliveryAssumption DEF Exhausted, TypeOK, Row
  <2>2. QED
    BY <1>4, <1>8, <2>1 DEF Settles
<1> HIDE DEF n
<1>9. ClaimsLive'
  <2> SUFFICES ASSUME NEW v \in Worker, pc'[v] \in Flying
               PROVE  Holds(v, claim[v].event)' /\ delivery'[claim'[v].event].expiry > 0
    BY DEF ClaimsLive
  <2>1. CASE v = w
    BY <1>5, <1>6, <2>1, DeliveryAssumption DEF Holds, Flying
  <2>2. CASE v # w
    <3>1. pc[v] \in Flying /\ claim'[v] = claim[v] /\ claim[v].event \in Event
          /\ claim[v].event # e
      BY <1>6, <1>7, <2>2
    <3>2. /\ delivery[claim[v].event].status = "claimed"
          /\ delivery[claim[v].event].attempts = claim[v].number
          /\ delivery[claim[v].event].expiry > 0
      BY <3>1 DEF LeaseInv, ClaimsLive, Holds
    <3>3. delivery'[claim[v].event] = delivery[claim[v].event]
      BY <1>8, <3>1, <3>2
    <3>4. QED
      BY <3>1, <3>2, <3>3 DEF Holds
  <2>3. QED
    BY <2>1, <2>2
<1>10. OneInFlight'
  BY <1>6, <1>7 DEF LeaseInv, OneInFlight
<1>11. Tells(e)'
  <2>1. \A m \in Number : attempt'[e][m] = IF m = n THEN "open" ELSE attempt[e][m]
    BY <1>1, <1>3 DEF TypeOK
  <2>2. Last(e)' = "open"
    BY <1>1, <1>5, <2>1 DEF Last, n
  <2>3. ASSUME NEW m \in Number, m < n
        PROVE  attempt'[e][m] \in {"open", "retryable_failure"}
    <3>1. attempt'[e][m] = attempt[e][m] /\ m \in Nat \ {0}
      BY <1>1, <2>1, <2>3, DeliveryAssumption DEF Number
    <3>2. CASE m < delivery[e].attempts
      BY <3>1, <3>2 DEF LeaseInv, Tells
    <3>3. CASE m = delivery[e].attempts
      <4>1. Last(e) = attempt[e][m] /\ attempt[e][m] # "none"
        BY <1>1, <3>1, <3>3 DEF Last, AttemptsCounted
      <4>2. delivery[e].status \in {"pending", "retry_wait", "claimed"}
        BY DEF TakeClaim, Eligible
      <4>3. QED
        BY <3>1, <4>1, <4>2 DEF LeaseInv, Tells
    <3>4. QED
      BY <1>1, <2>3, <3>1, <3>2, <3>3 DEF n
  <2>4. QED
    BY <1>5, <2>2, <2>3 DEF Tells
<1>12. ASSUME NEW f \in Event, f # e
       PROVE  Tells(f)'
  <2>1. attempt'[f] = attempt[f] /\ Settles(f) /\ Tells(f) /\ delivery[f] \in Row
    BY <1>1, <1>3, <1>4, <1>12 DEF TypeOK, LeaseInv
  <2>2. CASE delivery'[f] = delivery[f]
    BY <2>1, <2>2 DEF Tells, Last
  <2>3. CASE delivery[f].status = "none" /\ delivery'[f] = [delivery[f] EXCEPT !.status = "pending"]
    <3>1. delivery'[f].status = "pending" /\ delivery'[f].attempts = delivery[f].attempts
      BY <2>1, <2>3 DEF Row
    <3>2. QED
      BY <2>1, <2>3, <3>1 DEF Tells, Last
  <2>4. CASE Exhausted(f) /\ delivery'[f] = DeadLettered(delivery[f])
    <3>1. delivery'[f].status = "dead_letter" /\ delivery'[f].attempts = delivery[f].attempts
      BY <2>1, <2>4 DEF Row, DeadLettered
    <3>2. delivery[f].attempts = MaxAttempts /\ delivery[f].status = "claimed"
      BY <2>1, <2>4, DeliveryAssumption DEF Row, Exhausted
    <3>3. QED
      BY <2>1, <3>1, <3>2 DEF Tells, Last
  <2>5. QED
    BY <2>1, <2>2, <2>3, <2>4 DEF Settles
<1>13. QED
  BY <1>9, <1>10, <1>11, <1>12 DEF LeaseInv

\* A result is recorded by the one process that holds the row.
LEMMA RecordKept ==
    ASSUME TypeOK, LeaseInv, NEW w \in Worker, pc[w] = "record", GoOn(w),
           NEW outcome \in Outcome, NEW status \in Waiting \cup Terminal,
           NEW delay \in 0..RetryTerm,
           Record(w, outcome, status, delay),
           <<outcome, status>> \in {<<"delivered", "delivered">>,
                                    <<"retryable_failure", "retry_wait">>,
                                    <<"permanent_failure", "dead_letter">>}
    PROVE  LeaseInv'
<1>0. claim[w].event \in Event
  BY DEF TypeOK, Flying, Answered, Claim
<1>a. PICK e \in Event : e = claim[w].event
  BY <1>0
<1>1. claim[w].number \in Number /\ claim[w].number \in Nat \ {0}
  BY DeliveryAssumption DEF TypeOK, Flying, Answered, Claim, Number
<1>2. delivery[e].attempts = claim[w].number
  BY <1>a DEF LeaseInv, ClaimsLive, Holds, Flying, Answered
<1>3. /\ \A f \in Event : delivery'[f].attempts = delivery[f].attempts
      /\ \A f \in Event : f # e => delivery'[f] = delivery[f] /\ attempt'[f] = attempt[f]
      /\ delivery'[e].status = status
  BY <1>a, RecordStep
<1>4. \A n \in Number : attempt'[e][n] = IF n = claim[w].number THEN outcome ELSE attempt[e][n]
  BY <1>a, <1>1 DEF Record, TypeOK
<1>5. /\ pc'[w] \notin Flying
      /\ \A v \in Worker : v # w => pc'[v] = pc[v] /\ claim'[v] = claim[v]
  BY DEF GoOn, TypeOK, Flying, Answered
<1>6. ASSUME NEW v \in Worker, pc'[v] \in Flying
      PROVE  /\ v # w /\ pc[v] \in Flying /\ claim'[v] = claim[v]
             /\ claim[v].event \in Event /\ claim[v].event # e
  <2>1. v # w /\ pc[v] \in Flying /\ claim'[v] = claim[v]
    BY <1>5, <1>6
  <2>2. pc[w] \in Flying
    BY DEF Flying, Answered
  <2>3. QED
    BY <1>a, <2>1, <2>2 DEF LeaseInv, OneInFlight, TypeOK, Claim
<1>7. ClaimsLive'
  <2> SUFFICES ASSUME NEW v \in Worker, pc'[v] \in Flying
               PROVE  Holds(v, claim[v].event)' /\ delivery'[claim'[v].event].expiry > 0
    BY DEF ClaimsLive
  <2>1. QED
    BY <1>3, <1>6 DEF LeaseInv, ClaimsLive, Holds
<1>8. OneInFlight'
  BY <1>6 DEF LeaseInv, OneInFlight
<1>9. Tells(e)'
  <2>1. Last(e)' = outcome
    BY <1>1, <1>2, <1>3, <1>4 DEF Last
  <2>2. ASSUME NEW n \in Number, n < delivery'[e].attempts
        PROVE  attempt'[e][n] \in {"open", "retryable_failure"}
    <3>1. n # claim[w].number /\ n < delivery[e].attempts
      BY <1>1, <1>2, <1>3, <2>2, DeliveryAssumption DEF Number
    <3>2. QED
      BY <1>1, <1>4, <3>1 DEF LeaseInv, Tells
  <2>3. QED
    BY <1>3, <2>1, <2>2 DEF Tells
<1>10. \A f \in Event : f # e => Tells(f)'
  BY <1>3 DEF LeaseInv, Tells, Last
<1>11. QED
  BY <1>7, <1>8, <1>9, <1>10 DEF LeaseInv

\* Time stops short of the lease of a process in flight.
LEMMA TickKept ==
    ASSUME TypeOK, LeaseInv, ~Overrun, Tick
    PROVE  LeaseInv'
<1>1. attempt' = attempt /\ pc' = pc /\ claim' = claim
  BY DEF Tick
<1>2. \A e \in Event : /\ delivery'[e].attempts = delivery[e].attempts
                       /\ delivery'[e].status = delivery[e].status
  BY TickTyped
<1>3. \A e \in Event : Tells(e)'
  BY <1>1, <1>2 DEF LeaseInv, Tells, Last
<1>4. OneInFlight'
  BY <1>1 DEF LeaseInv, OneInFlight
<1>5. ASSUME NEW v \in Worker, pc[v] \in Flying
      PROVE  Holds(v, claim[v].event)' /\ delivery'[claim'[v].event].expiry > 0
  <2> DEFINE e == claim[v].event
  <2>1. e \in Event /\ Holds(v, e)
    BY <1>5 DEF TypeOK, Claim, LeaseInv, ClaimsLive
  <2>2. delivery[e].expiry > 1 /\ delivery[e].expiry \in Nat
    <3>1. delivery[e].expiry > 1
      BY <2>1 DEF Tick
    <3>2. delivery[e].expiry \in 0..LeaseTerm
      BY <2>1 DEF TypeOK, Row
    <3>3. QED
      BY <3>1, <3>2, DeliveryAssumption
  <2>3. delivery'[e].expiry = Less(delivery[e].expiry)
    <3>1. delivery'[e] = [delivery[e] EXCEPT !.expiry = Less(delivery[e].expiry),
                                             !.wait = Less(delivery[e].wait)]
      BY <2>1 DEF Tick
    <3>2. delivery[e] \in Row
      BY <2>1 DEF TypeOK
    <3>3. QED
      BY <3>1, <3>2 DEF Row
  <2>4. delivery'[e].expiry > 0
    BY <2>2, <2>3 DEF Less
  <2>5. QED
    BY <1>1, <1>2, <2>1, <2>4 DEF Holds
<1>6. ClaimsLive'
  BY <1>1, <1>5 DEF ClaimsLive
<1>7. QED
  BY <1>3, <1>4, <1>6 DEF LeaseInv

\* Where no claim outlasts its lease, every step keeps the claims of the
\* processes in flight live.
LEMMA LeaseStep ==
    ASSUME TypeOK, AttemptsCounted, LeaseInv, ~Overrun, [Next]_vars
    PROVE  LeaseInv'
<1> USE DEF rows
<1>1. ASSUME NEW w \in Worker, Leave(w)
      PROVE  NoneTakesOff
  BY <1>1 DEF Leave, NoneTakesOff, TypeOK, Flying, Answered
<1>2. ASSUME NEW w \in Worker, FindUnprepared(w) \/ PrepareAndDrain(w)
      PROVE  NoneTakesOff
  BY <1>2 DEF FindUnprepared, PrepareAndDrain, NoneTakesOff, TypeOK, Flying, Answered
<1>3. ASSUME NEW w \in Worker, SendVerified(w) \/ SendFailed(w) \/ ReadClaim(w)
      PROVE  NoneTakesOff
  <2>1. /\ pc[w] \in Flying /\ claim' = claim
        /\ pc' = [pc EXCEPT ![w] = "answered"] \/ pc' = [pc EXCEPT ![w] = "record"]
    BY <1>3 DEF SendVerified, SendFailed, ReadClaim, Flying, Answered
  <2>2. QED
    BY <2>1 DEF NoneTakesOff, TypeOK
<1>4. ASSUME delivery' = delivery, attempt' = attempt, NoneTakesOff
      PROVE  LeaseInv'
  BY <1>4, SettlesKept DEF Settles
<1>5. ASSUME NEW w \in Worker, FindUnprepared(w)
      PROVE  LeaseInv'
  BY <1>2, <1>4, <1>5 DEF FindUnprepared
<1>6. ASSUME NEW w \in Worker, PrepareAndDrain(w) \/ PrepareOnly(w)
      PROVE  LeaseInv'
  <2>1. NoneTakesOff /\ attempt' = attempt /\ StorePending(w)
    BY <1>1, <1>2, <1>6 DEF PrepareAndDrain, PrepareOnly
  <2>2. \A e \in Event : Settles(e)
    BY <2>1 DEF StorePending, Settles
  <2>3. QED
    BY <2>1, <2>2, SettlesKept
<1>7. ASSUME NEW w \in Worker, NothingDue(w)
      PROVE  LeaseInv'
  <2>1. NoneTakesOff /\ attempt' = attempt /\ delivery' = AfterDeadLetters(Event)
    BY <1>1, <1>7 DEF NothingDue
  <2>2. \A e \in Event : Settles(e)
    BY <2>1 DEF AfterDeadLetters, Settles
  <2>3. QED
    BY <2>1, <2>2, SettlesKept
<1>8. ASSUME NEW w \in Worker,
             PrepareRefused(w) \/ QuotaReached(w) \/ Die(w) \/ Crash(w)
      PROVE  LeaseInv'
  BY <1>1, <1>4, <1>8 DEF PrepareRefused, QuotaReached, Die, Crash
<1>9. ASSUME NEW w \in Worker, SendVerified(w) \/ SendFailed(w) \/ ReadClaim(w)
      PROVE  LeaseInv'
  BY <1>3, <1>4, <1>9 DEF SendVerified, SendFailed, ReadClaim
<1>10. ASSUME NEW w \in Worker, ClaimNext(w)
       PROVE  LeaseInv'
  <2>1. pc[w] \notin Flying /\ RunOf[w] \in Token
    BY <1>10, DeliveryAssumption DEF ClaimNext, Flying, Answered, Token
  <2>2. PICK e \in Event : TakeClaim(w, e, RunOf[w], AfterDeadLetters(Event))
    BY <1>10 DEF ClaimNext
  <2>3. QED
    BY <2>1, <2>2, ClaimKept
<1>11. ASSUME NEW w \in Worker, NEW e \in Event, ClaimSelected(w, e)
       PROVE  LeaseInv'
  <2>1. pc[w] \notin Flying /\ e \in Token /\ TakeClaim(w, e, e, delivery)
    BY <1>11 DEF ClaimSelected, Flying, Answered, Token
  <2>2. QED
    BY <2>1, ClaimKept
<1>12. ASSUME NEW w \in Worker, RecordDelivered(w)
       PROVE  LeaseInv'
  <2>1. /\ pc[w] = "record" /\ GoOn(w)
        /\ Record(w, "delivered", "delivered", 0)
    BY <1>12 DEF RecordDelivered
  <2>2. 0 \in 0..RetryTerm
    BY DeliveryAssumption
  <2>3. QED
    BY <2>1, <2>2, RecordKept DEF Outcome, Terminal
<1>13. ASSUME NEW w \in Worker, RecordRetry(w)
       PROVE  LeaseInv'
  <2>1. PICK delay \in 1..RetryTerm : Record(w, "retryable_failure", "retry_wait", delay)
    BY <1>13 DEF RecordRetry
  <2>2. pc[w] = "record" /\ GoOn(w) /\ delay \in 0..RetryTerm
    BY <1>13, DeliveryAssumption DEF RecordRetry
  <2>3. QED
    BY <2>1, <2>2, RecordKept DEF Outcome, Waiting
<1>14. ASSUME NEW w \in Worker, RecordDeadLetter(w)
       PROVE  LeaseInv'
  <2>1. /\ pc[w] = "record" /\ GoOn(w)
        /\ Record(w, "permanent_failure", "dead_letter", 0)
    BY <1>14 DEF RecordDeadLetter
  <2>2. 0 \in 0..RetryTerm
    BY DeliveryAssumption
  <2>3. QED
    BY <2>1, <2>2, RecordKept DEF Outcome, Terminal
<1>15. CASE UNCHANGED vars
  BY <1>4, <1>15 DEF vars, NoneTakesOff
<1>16. CASE Tick
  BY <1>16, TickKept
<1>17. QED
  BY <1>5, <1>6, <1>7, <1>8, <1>9, <1>10, <1>11, <1>12, <1>13, <1>14, <1>15, <1>16
  DEF Next, Deliver

\* Where no claim outlasts its lease, LeaseInv holds of every state.
THEOREM LeaseInvariant == ASSUME ~Overrun PROVE Spec => []LeaseInv
<1>1. Init => LeaseInv
  BY DeliveryAssumption
  DEF Init, LeaseInv, ClaimsLive, OneInFlight, Tells, Last, Flying, Answered, Number
<1>2. Init => AttemptsCounted /\ BacklogClaimable
  BY DeliveryAssumption DEF Init, AttemptsCounted, BacklogClaimable, Number
<1>3. LeaseInv /\ AttemptsCounted /\ DeliveryInv /\ [Next]_vars => LeaseInv'
  BY LeaseStep DEF DeliveryInv
<1>4. AttemptsCounted /\ BacklogClaimable /\ DeliveryInv /\ [Next]_vars
        => (AttemptsCounted /\ BacklogClaimable)'
  BY BacklogStep
<1>5. QED
  BY <1>1, <1>2, <1>3, <1>4, DeliveryInvariant, PTL DEF Spec

\* "An active lease excludes another worker": no two processes are in flight
\* with the message of one event.
THEOREM OneProcessInFlight == ASSUME ~Overrun PROVE Spec => []OneInFlight
<1>1. LeaseInv => OneInFlight
  BY DEF LeaseInv
<1>2. QED
  BY <1>1, LeaseInvariant, PTL

\* The status of a delivery is what its last attempt says, and every earlier
\* attempt failed retryably or was cut off.
THEOREM AuditTells == ASSUME ~Overrun PROVE Spec => []AuditTellsStatus
<1>1. LeaseInv => AuditTellsStatus
  BY TellsIsAudit DEF LeaseInv
<1>2. QED
  BY <1>1, LeaseInvariant, PTL

\* No message goes out for a delivery that is settled, whatever crashes.
THEOREM SettledStaysSilent == ASSUME ~Overrun PROVE Spec => SettledIsSilent
<1>1. ASSUME TypeOK, LeaseInv, [Next]_vars, NEW e \in Event, delivery[e].status \in Terminal
      PROVE  accepted'[e] = accepted[e]
  <2>1. \/ accepted' = accepted
        \/ \E w \in Worker :
             /\ pc[w] = "send"
             /\ accepted' = [accepted EXCEPT ![claim[w].event] = accepted[claim[w].event] + 1]
    <3>1. CASE \E w \in Worker : SendVerified(w) \/ SendFailed(w) \/ Crash(w)
      BY <3>1 DEF SendVerified, SendFailed, Crash
    <3>2. CASE Tick \/ UNCHANGED vars
      BY <3>2 DEF Tick, vars
    <3>3. CASE \E w \in Worker :
                 \/ FindUnprepared(w) \/ PrepareAndDrain(w) \/ PrepareOnly(w)
                 \/ PrepareRefused(w) \/ ClaimNext(w) \/ NothingDue(w) \/ QuotaReached(w)
                 \/ \E f \in Event : ClaimSelected(w, f)
      BY <3>3
      DEF FindUnprepared, PrepareAndDrain, PrepareOnly, PrepareRefused, ClaimNext, NothingDue,
          QuotaReached, ClaimSelected
    <3>4. CASE \E w \in Worker : ReadClaim(w) \/ RecordDelivered(w) \/ RecordRetry(w)
                                \/ RecordDeadLetter(w) \/ Die(w)
      BY <3>4 DEF ReadClaim, RecordDelivered, RecordRetry, RecordDeadLetter, GoOn, Die
    <3>5. QED
      BY <1>1, <3>1, <3>2, <3>3, <3>4 DEF Next, Deliver
  <2>2. ASSUME NEW w \in Worker, pc[w] = "send"
        PROVE  claim[w].event \in Event /\ claim[w].event # e
    <3>1. delivery[claim[w].event].status = "claimed" /\ claim[w].event \in Event
      BY <1>1, <2>2 DEF LeaseInv, ClaimsLive, Holds, Flying, TypeOK, Claim
    <3>2. QED
      BY <1>1, <3>1 DEF Terminal
  <2>3. QED
    BY <1>1, <2>1, <2>2 DEF TypeOK
<1>2. TypeOK /\ LeaseInv /\ [Next]_vars
        => [\A e \in Event : delivery[e].status \in Terminal => accepted'[e] = accepted[e]]_vars
  BY <1>1
<1>3. DeliveryInv => TypeOK
  BY DEF DeliveryInv
<1>4. QED
  BY <1>2, <1>3, DeliveryInvariant, LeaseInvariant, PTL DEF Spec, SettledIsSilent

\* Where no claim outlasts its lease, delivered and dead-letter rows are
\* terminal: what overruns break (TerminalStays in the run delivery_terminal_overwritten).
THEOREM TerminalKept == ASSUME ~Overrun PROVE Spec => TerminalStays
<1> DEFINE Stays(e) == delivery[e].status \in Terminal => delivery'[e].status = delivery[e].status
<1>1. ASSUME TypeOK, NEW e \in Event, Settles(e)
      PROVE  Stays(e)
  BY <1>1 DEF Settles, Exhausted, Terminal
<1>2. ASSUME TypeOK, NEW w \in Worker, NEW f \in Event, NEW token \in Token,
             \/ TakeClaim(w, f, token, delivery)
             \/ TakeClaim(w, f, token, AfterDeadLetters(Event)),
             NEW e \in Event
      PROVE  Stays(e)
  <2>1. CASE e = f
    BY <1>2, <2>1 DEF TakeClaim, Eligible, Terminal
  <2>2. CASE e # f
    <3>1. AfterDeadLetters(Event) \in [Event -> Row]
      BY <1>2, CleanedTyped
    <3>2. delivery'[e] = delivery[e] \/ delivery'[e] = AfterDeadLetters(Event)[e]
      BY <1>2, <2>2, <3>1 DEF TakeClaim, TypeOK
    <3>3. Settles(e)
      BY <3>2 DEF AfterDeadLetters, Settles
    <3>4. QED
      BY <1>1, <1>2, <3>3
  <2>3. QED
    BY <2>1, <2>2
<1>3. ASSUME TypeOK, LeaseInv, NEW w \in Worker,
             RecordDelivered(w) \/ RecordRetry(w) \/ RecordDeadLetter(w), NEW e \in Event
      PROVE  Stays(e)
  <2>1. PICK outcome, status, delay : Record(w, outcome, status, delay)
    BY <1>3 DEF RecordDelivered, RecordRetry, RecordDeadLetter
  <2>2. pc[w] = "record"
    BY <1>3 DEF RecordDelivered, RecordRetry, RecordDeadLetter
  <2>3. delivery[claim[w].event].status = "claimed"
    BY <1>3, <2>2 DEF LeaseInv, ClaimsLive, Holds, Flying, Answered
  <2>4. e # claim[w].event => delivery'[e] = delivery[e]
    BY <1>3, <2>1 DEF Record, TypeOK
  <2>5. QED
    BY <2>3, <2>4 DEF Terminal
<1>4. ASSUME TypeOK, LeaseInv, [Next]_vars, NEW e \in Event
      PROVE  Stays(e)
  <2>1. CASE \E w \in Worker : \/ PrepareAndDrain(w) \/ PrepareOnly(w) \/ NothingDue(w)
    <3>1. Settles(e)
      BY <2>1
      DEF PrepareAndDrain, PrepareOnly, NothingDue, StorePending, AfterDeadLetters, Settles
    <3>2. QED
      BY <1>1, <1>4, <3>1
  <2>2. CASE \E w \in Worker : ClaimNext(w)
    BY <1>2, <1>4, <2>2, DeliveryAssumption DEF ClaimNext, Token
  <2>3. CASE \E w \in Worker, f \in Event : ClaimSelected(w, f)
    BY <1>2, <1>4, <2>3 DEF ClaimSelected, Token
  <2>4. CASE \E w \in Worker : RecordDelivered(w) \/ RecordRetry(w) \/ RecordDeadLetter(w)
    BY <1>3, <1>4, <2>4
  <2>5. CASE Tick
    BY <1>4, <2>5, TickTyped
  <2>6. CASE \/ UNCHANGED vars
             \/ \E w \in Worker :
                  \/ FindUnprepared(w) \/ PrepareRefused(w) \/ QuotaReached(w)
                  \/ SendVerified(w) \/ SendFailed(w) \/ ReadClaim(w) \/ Die(w) \/ Crash(w)
    BY <2>6
    DEF vars, rows, FindUnprepared, PrepareRefused, QuotaReached, SendVerified, SendFailed,
        ReadClaim, Die, Crash
  <2>7. QED
    BY <1>4, <2>1, <2>2, <2>3, <2>4, <2>5, <2>6 DEF Next, Deliver
<1>5. TypeOK /\ LeaseInv /\ [Next]_vars
        => [\A e \in Event : delivery[e].status \in Terminal =>
              delivery'[e].status = delivery[e].status]_vars
  BY <1>4
<1>6. DeliveryInv => TypeOK
  BY DEF DeliveryInv
<1>7. QED
  BY <1>5, <1>6, DeliveryInvariant, LeaseInvariant, PTL DEF Spec, TerminalStays

=============================================================================
