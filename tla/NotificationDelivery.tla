------------------------ MODULE NotificationDelivery ------------------------
(***************************************************************************)
(* The delivery of outbox events to the operator's channel: the rows of    *)
(* research_notification_deliveries and of their attempts, the processes   *)
(* that drain them, and the provider.                                      *)
(*                                                                         *)
(* A Worker is one process inside the notification_delivery stage of a     *)
(* cycle (drain_notification_deliveries) or one launch smoke.  A claim is  *)
(* committed before the request and its result after it.  record_delivered *)
(* and record_failure read the row, decide on what they read (view[w]) and *)
(* write with no condition on what is there by then: two steps.  A claim   *)
(* is one conditional UPDATE and one step.                                 *)
(***************************************************************************)
EXTENDS Naturals, FiniteSets

CONSTANTS
    Worker,       \* processes
    Event,        \* outbox events accepted by the policy
    Run,          \* cycles; a drain signs its claims with its cycle's key
    RunOf,        \* the cycle each process works for
    None,         \* SQL NULL; also "nothing read" and "no claim"
    MaxAttempts,  \* maximum_attempts of the delivery policy
    LeaseTerm,    \* claim_lease_seconds, in ticks
    RetryTerm,    \* longest retry delay, in ticks
    Capacity,     \* maximum_messages_per_cycle
    MaxCrashes,   \* bound on the number of process crashes
    Overrun       \* may a process hold a claim longer than its lease?

ASSUME DeliveryAssumption ==
    /\ IsFiniteSet(Worker)
    /\ RunOf \in [Worker -> Run]
    /\ Event \cap Run = {}
    /\ None \notin Event \cup Run
    /\ MaxAttempts \in Nat \ {0}
    /\ LeaseTerm \in Nat \ {0}
    /\ RetryTerm \in Nat \ {0}
    /\ Capacity \in Nat \ {0}
    /\ MaxCrashes \in Nat
    /\ Overrun \in BOOLEAN

VARIABLES
    delivery,  \* research_notification_deliveries, by event
    attempt,   \* outcome column of the attempt rows, by event and number
    accepted,  \* messages the provider has accepted, by event
    pc,        \* what each process does next
    todo,      \* events a process saw without a delivery row
    quota,     \* messages it may still attempt in this cycle
    claim,     \* the claim it holds, as it remembers it
    answer,    \* what the transport made of the provider's response
    view,      \* the rows as _active_claim read them
    crashes    \* process crashes so far

vars == <<delivery, attempt, accepted, pc, todo, quota, claim, answer, view, crashes>>
rows == <<delivery, attempt>>

\* Owner tokens: "operations:{run_key}" and "launch-smoke:{delivery id}".
Token == Run \cup Event

Number == 1..MaxAttempts
Waiting == {"pending", "claimed", "retry_wait"}
Terminal == {"delivered", "dead_letter"}
Answered == {"answered", "record"}
Flying == {"send"} \cup Answered

Row ==
    [status: {"none"} \cup Waiting \cup Terminal,
     attempts: 0..MaxAttempts,
     owner: Token \cup {None},
     expiry: 0..LeaseTerm,
     wait: 0..RetryTerm]

Outcome == {"none", "open", "delivered", "retryable_failure", "permanent_failure"}

Claim == [event: Event, number: Number, token: Token]

Reading == [row: Row, outcome: Outcome]

-----------------------------------------------------------------------------
(* The transport and _failure_semantics.  Statuses and error codes fall     *)
(* into the classes the policy tells apart.                                 *)

Class == {"permanent", "retryable", "other"}

\* Results that are not a success: no response at all, one whose body cannot
\* be read, one that says the request was rejected.  The last includes a
\* response with ok = true and no message id.
Failure ==
    {[http |-> "none", code |-> "none", malformed |-> FALSE]}
    \cup [http: Class, code: {"none"}, malformed: {TRUE}]
    \cup [http: Class, code: {"none"} \cup Class, malformed: {FALSE}]

Retryable(r) ==
    /\ r.http # "permanent" /\ r.code # "permanent"
    /\ \/ r.http = "retryable" \/ r.code = "retryable"
       \/ r.http = "none"
       \/ r.malformed

-----------------------------------------------------------------------------
Init ==
    /\ delivery = [e \in Event |-> [status |-> "none", attempts |-> 0,
                                    owner |-> None, expiry |-> 0, wait |-> 0]]
    /\ attempt = [e \in Event |-> [n \in Number |-> "none"]]
    /\ accepted = [e \in Event |-> 0]
    /\ pc = [w \in Worker |-> "idle"]
    /\ todo = [w \in Worker |-> {}]
    /\ quota = [w \in Worker |-> 0]
    /\ claim = [w \in Worker |-> None]
    /\ answer = [w \in Worker |-> "none"]
    /\ view = [w \in Worker |-> None]
    /\ crashes = 0

\* The process ends or forgets everything it held.
Leave(w) ==
    /\ pc' = [pc EXCEPT ![w] = "idle"]
    /\ todo' = [todo EXCEPT ![w] = {}]
    /\ quota' = [quota EXCEPT ![w] = 0]
    /\ claim' = [claim EXCEPT ![w] = None]
    /\ answer' = [answer EXCEPT ![w] = "none"]
    /\ view' = [view EXCEPT ![w] = None]

-----------------------------------------------------------------------------
(* prepare_notification_deliveries. *)

Unprepared == {e \in Event : delivery[e].status = "none"}

\* The query: the oldest events without a row, at most Capacity of them.
FindUnprepared(w) ==
    /\ pc[w] = "idle"
    /\ \E found \in SUBSET Unprepared :
         /\ Cardinality(found) <= Capacity
         /\ Cardinality(found) < Capacity => found = Unprepared
         /\ todo' = [todo EXCEPT ![w] = found]
    /\ pc' = [pc EXCEPT ![w] = "prepare"]
    /\ UNCHANGED <<rows, accepted, quota, claim, answer, view, crashes>>

\* create_or_reuse for each of them: reuses a row it finds, inserts one it
\* does not, in one commit.
StorePending(w) ==
    delivery' = [e \in Event |->
                   IF e \in todo[w] /\ delivery[e].status = "none"
                   THEN [delivery[e] EXCEPT !.status = "pending"]
                   ELSE delivery[e]]

\* The credentials are there: the drain goes on to its messages.
PrepareAndDrain(w) ==
    /\ pc[w] = "prepare"
    /\ StorePending(w)
    /\ pc' = [pc EXCEPT ![w] = "claim"]
    /\ todo' = [todo EXCEPT ![w] = {}]
    /\ quota' = [quota EXCEPT ![w] = Capacity]
    /\ UNCHANGED <<attempt, accepted, claim, answer, view, crashes>>

\* transport_unavailable: the stage succeeds with the rows prepared.
PrepareOnly(w) ==
    /\ pc[w] = "prepare"
    /\ StorePending(w)
    /\ Leave(w)
    /\ UNCHANGED <<attempt, accepted, crashes>>

\* Another process inserted one of them after this one had looked it up: the
\* unique key refuses the insert and the stage fails.
PrepareRefused(w) ==
    /\ pc[w] = "prepare"
    /\ \E e \in todo[w] : delivery[e].status # "none"
    /\ Leave(w)
    /\ UNCHANGED <<rows, accepted, crashes>>

-----------------------------------------------------------------------------
(* claim_next, claim_one. *)

\* Fault: any expired claim counts as exhausted.
ExhaustedEarly(e) == delivery[e].status = "claimed" /\ delivery[e].expiry = 0

Exhausted(e) ==
    /\ delivery[e].status = "claimed"
    /\ delivery[e].expiry = 0
    /\ delivery[e].attempts >= MaxAttempts

\* Fault: an expired claim is never taken over.
EligibleUnclaimed(e) ==
    /\ delivery[e].attempts < MaxAttempts
    /\ \/ delivery[e].status = "pending"
       \/ delivery[e].status = "retry_wait" /\ delivery[e].wait = 0

\* Fault: a claim is taken over whether it has expired or not.
EligibleAlways(e) ==
    /\ delivery[e].attempts < MaxAttempts
    /\ \/ delivery[e].status \in {"pending", "claimed"}
       \/ delivery[e].status = "retry_wait" /\ delivery[e].wait = 0

Eligible(e) ==
    /\ delivery[e].attempts < MaxAttempts
    /\ \/ delivery[e].status = "pending"
       \/ delivery[e].status = "retry_wait" /\ delivery[e].wait = 0
       \/ delivery[e].status = "claimed" /\ delivery[e].expiry = 0

DeadLettered(row) ==
    [row EXCEPT !.status = "dead_letter", !.owner = None, !.wait = 0]

\* _dead_letter_expired_exhausted over the given events.
AfterDeadLetters(events) ==
    [e \in Event |-> IF e \in events /\ Exhausted(e)
                     THEN DeadLettered(delivery[e]) ELSE delivery[e]]

\* Fault: the attempt is counted when its result is recorded.
ClaimedUncounted(row, token) ==
    [status |-> "claimed", attempts |-> row.attempts, owner |-> token,
     expiry |-> LeaseTerm, wait |-> 0]

Claimed(row, token) ==
    [status |-> "claimed", attempts |-> row.attempts + 1, owner |-> token,
     expiry |-> LeaseTerm, wait |-> 0]

\* The conditional UPDATE of _claim_id, the started attempt, and the commit
\* before any network request.
TakeClaim(w, e, token, cleaned) ==
    LET n == delivery[e].attempts + 1 IN
    /\ Eligible(e)
    /\ delivery' = [cleaned EXCEPT ![e] = Claimed(@, token)]
    /\ attempt' = [attempt EXCEPT ![e][n] = "open"]
    /\ claim' = [claim EXCEPT ![w] = [event |-> e, number |-> n, token |-> token]]
    /\ pc' = [pc EXCEPT ![w] = "send"]

\* The drain loop takes any eligible row: the order by due time only says
\* which one comes first.
ClaimNext(w) ==
    /\ pc[w] = "claim"
    /\ quota[w] > 0
    /\ \E e \in Event : TakeClaim(w, e, RunOf[w], AfterDeadLetters(Event))
    /\ quota' = [quota EXCEPT ![w] = @ - 1]
    /\ UNCHANGED <<accepted, todo, answer, view, crashes>>

\* The loop ends: nothing is due, and what was exhausted is now dead.
NothingDue(w) ==
    /\ pc[w] = "claim"
    /\ quota[w] > 0
    /\ \A e \in Event : ~Eligible(e)
    /\ delivery' = AfterDeadLetters(Event)
    /\ Leave(w)
    /\ UNCHANGED <<attempt, accepted, crashes>>

\* The loop ends: the cycle has attempted all it may.
QuotaReached(w) ==
    /\ pc[w] = "claim"
    /\ quota[w] = 0
    /\ Leave(w)
    /\ UNCHANGED <<rows, accepted, crashes>>

\* A launch smoke claims the reviewed delivery and no other; a smoke that is
\* refused rolls back.
ClaimSelected(w, e) ==
    /\ pc[w] = "idle"
    /\ TakeClaim(w, e, e, delivery)
    /\ UNCHANGED <<accepted, todo, quota, answer, view, crashes>>

-----------------------------------------------------------------------------
(* deliver_claimed_notification. *)

\* The provider takes the message and says so.
SendVerified(w) ==
    /\ pc[w] = "send"
    /\ accepted' = [accepted EXCEPT ![claim[w].event] = @ + 1]
    /\ answer' = [answer EXCEPT ![w] = "ok"]
    /\ pc' = [pc EXCEPT ![w] = "answered"]
    /\ UNCHANGED <<rows, todo, quota, claim, view, crashes>>

\* The request fails as far as the transport can tell; unless it was refused
\* outright the provider may have taken the message all the same.
SendFailed(w) ==
    /\ pc[w] = "send"
    /\ \E r \in Failure, taken \in BOOLEAN :
         /\ taken => r.http # "permanent" /\ r.code # "permanent"
         /\ accepted' = IF taken
                        THEN [accepted EXCEPT ![claim[w].event] = @ + 1]
                        ELSE accepted
         /\ answer' = [answer EXCEPT
                         ![w] = IF Retryable(r) THEN "retryable" ELSE "permanent"]
    /\ pc' = [pc EXCEPT ![w] = "answered"]
    /\ UNCHANGED <<rows, todo, quota, claim, view, crashes>>

\* _active_claim reads the delivery and the attempt.
ReadClaim(w) ==
    /\ pc[w] = "answered"
    /\ view' = [view EXCEPT
                  ![w] = [row |-> delivery[claim[w].event],
                          outcome |-> attempt[claim[w].event][claim[w].number]]]
    /\ pc' = [pc EXCEPT ![w] = "record"]
    /\ UNCHANGED <<rows, accepted, todo, quota, claim, answer, crashes>>

\* The claim is this worker's and its attempt is still open.
ActiveClaim(w) ==
    /\ view[w].row.status = "claimed"
    /\ view[w].row.owner = claim[w].token
    /\ view[w].outcome = "open"

\* Fault: the audit is not counted.
AuditUncounted(w) == TRUE

\* _assert_attempt_count, after the flush: the attempt rows are still as many
\* as the delivery row counted when it was read.
AuditAgrees(w) ==
    view[w].row.attempts =
      Cardinality({n \in Number : attempt[claim[w].event][n] # "none"})

\* The process goes on: to the next message, or the smoke is over.
GoOn(w) ==
    /\ pc' = [pc EXCEPT ![w] = IF claim[w].token \in Run THEN "claim" ELSE "idle"]
    /\ claim' = [claim EXCEPT ![w] = None]
    /\ answer' = [answer EXCEPT ![w] = "none"]
    /\ view' = [view EXCEPT ![w] = None]
    /\ UNCHANGED <<accepted, todo, quota, crashes>>

\* The columns that record_delivered and record_failure set; attempt_count is
\* not one of them.
Record(w, outcome, status, delay) ==
    LET e == claim[w].event IN
    /\ attempt' = [attempt EXCEPT ![e][claim[w].number] = outcome]
    /\ delivery' = [delivery EXCEPT ![e].status = status, ![e].owner = None,
                                    ![e].expiry = 0, ![e].wait = delay]

RecordDelivered(w) ==
    /\ pc[w] = "record"
    /\ answer[w] = "ok"
    /\ ActiveClaim(w) /\ AuditAgrees(w)
    /\ Record(w, "delivered", "delivered", 0)
    /\ GoOn(w)

\* Fault: a last attempt that may be retried is.
IsTerminalByAnswer(w) == answer[w] = "permanent"

IsTerminal(w) == answer[w] = "permanent" \/ view[w].row.attempts >= MaxAttempts

\* record_failure with a further attempt to come.  The delay was computed from
\* the number of the attempt.
RecordRetry(w) ==
    /\ pc[w] = "record"
    /\ answer[w] # "ok"
    /\ ActiveClaim(w) /\ AuditAgrees(w)
    /\ ~IsTerminal(w)
    /\ claim[w].number < MaxAttempts
    /\ \E delay \in 1..RetryTerm : Record(w, "retryable_failure", "retry_wait", delay)
    /\ GoOn(w)

RecordDeadLetter(w) ==
    /\ pc[w] = "record"
    /\ answer[w] # "ok"
    /\ ActiveClaim(w) /\ AuditAgrees(w)
    /\ IsTerminal(w)
    /\ Record(w, "permanent_failure", "dead_letter", 0)
    /\ GoOn(w)

\* The claim is lost, another claim was made since the row was read, or a retry
\* has no delay: the transaction rolls back and the stage fails.
Die(w) ==
    /\ pc[w] = "record"
    /\ \/ ~ActiveClaim(w)
       \/ ~AuditAgrees(w)
       \/ answer[w] # "ok" /\ ~IsTerminal(w) /\ claim[w].number >= MaxAttempts
    /\ Leave(w)
    /\ UNCHANGED <<rows, accepted, crashes>>

-----------------------------------------------------------------------------
(* The environment. *)

\* A process is killed.  A request under way may have reached the provider.
Crash(w) ==
    /\ pc[w] # "idle"
    /\ crashes < MaxCrashes
    /\ \E taken \in IF pc[w] = "send" THEN BOOLEAN ELSE {FALSE} :
         accepted' = IF taken
                     THEN [accepted EXCEPT ![claim[w].event] = @ + 1]
                     ELSE accepted
    /\ crashes' = crashes + 1
    /\ Leave(w)
    /\ UNCHANGED rows

\* The row still carries the claim this process took.
Holds(w, e) ==
    /\ pc[w] \in Flying
    /\ claim[w].event = e
    /\ delivery[e].status = "claimed"
    /\ delivery[e].attempts = claim[w].number

Less(n) == IF n = 0 THEN 0 ELSE n - 1

\* Time passes.  The request times out long before the lease, so only a
\* process that is held up lets its lease run out.
Tick ==
    /\ \E e \in Event : delivery[e].expiry > 0 \/ delivery[e].wait > 0
    /\ ~Overrun => \A w \in Worker, e \in Event : Holds(w, e) => delivery[e].expiry > 1
    /\ delivery' = [e \in Event |->
                      [delivery[e] EXCEPT !.expiry = Less(@), !.wait = Less(@)]]
    /\ UNCHANGED <<attempt, accepted, pc, todo, quota, claim, answer, view, crashes>>

Deliver(w) ==
    \/ ClaimNext(w) \/ NothingDue(w) \/ QuotaReached(w)
    \/ SendVerified(w) \/ SendFailed(w) \/ ReadClaim(w)
    \/ RecordDelivered(w) \/ RecordRetry(w) \/ RecordDeadLetter(w) \/ Die(w)

Next ==
    \/ \E w \in Worker :
         \/ FindUnprepared(w) \/ PrepareAndDrain(w) \/ PrepareOnly(w) \/ PrepareRefused(w)
         \/ \E e \in Event : ClaimSelected(w, e)
         \/ Deliver(w) \/ Crash(w)
    \/ Tick

\* A process that is up goes on; time passes; cycles keep being started and
\* the credentials are there again and again.
Fairness ==
    /\ \A w \in Worker : WF_vars(Deliver(w)) /\ WF_vars(FindUnprepared(w))
                         /\ SF_vars(PrepareAndDrain(w))
    /\ WF_vars(Tick)

Spec == Init /\ [][Next]_vars
FairSpec == Spec /\ Fairness

-----------------------------------------------------------------------------
(* Properties. *)

\* Every variable keeps its type; a process in flight remembers its claim.
TypeOK ==
    /\ delivery \in [Event -> Row]
    /\ attempt \in [Event -> [Number -> Outcome]]
    /\ accepted \in [Event -> Nat]
    /\ pc \in [Worker -> {"idle", "prepare", "claim"} \cup Flying]
    /\ todo \in [Worker -> SUBSET Event]
    /\ quota \in [Worker -> 0..Capacity]
    /\ claim \in [Worker -> Claim \cup {None}]
    /\ answer \in [Worker -> {"none", "ok", "retryable", "permanent"}]
    /\ view \in [Worker -> Reading \cup {None}]
    /\ \A w \in Worker : pc[w] \in Flying => claim[w] \in Claim
    /\ \A w \in Worker : pc[w] = "record" => view[w] \in Reading
    /\ crashes \in 0..MaxCrashes

\* "An active lease excludes another worker": at most one process at a time
\* works on the message of an event.
OneInFlight ==
    \A v, w \in Worker :
      pc[v] \in Flying /\ pc[w] \in Flying /\ claim[v].event = claim[w].event => v = w

\* The audit of the last attempt tells the status of the delivery, and every
\* attempt before it failed retryably or was cut off by a crash.
AuditTellsStatus ==
    \A e \in Event :
      LET row == delivery[e]
          last == IF row.attempts = 0 THEN "none" ELSE attempt[e][row.attempts]
      IN /\ row.status \in {"none", "pending"} => last = "none"
         /\ row.status = "claimed" => last = "open"
         /\ row.status = "retry_wait" => last = "retryable_failure"
         /\ row.status = "delivered" => last = "delivered"
         /\ row.status = "dead_letter" =>
              \/ last = "permanent_failure"
              \/ last = "open" /\ row.attempts = MaxAttempts
         /\ \A n \in Number : n < row.attempts =>
              attempt[e][n] \in {"open", "retryable_failure"}

\* No row waits for a retry that claim_next would refuse: it would stay in the
\* backlog for ever.  The count that decides on the retry may be older than the
\* row it is written to.
BacklogClaimable ==
    \A e \in Event : delivery[e].status = "retry_wait" => delivery[e].attempts < MaxAttempts

\* Every message on the channel has an attempt of its own in the audit, so an
\* event is announced at most MaxAttempts times, also by processes that overrun
\* their leases or share a token.
MessagesAudited ==
    \A e \in Event :
      accepted[e] + Cardinality({w \in Worker : pc[w] = "send" /\ claim[w].event = e})
        <= delivery[e].attempts

\* A delivery is called delivered only if the provider accepted the message.
DeliveredWasAccepted ==
    \A e \in Event :
      delivery[e].status = "delivered" \/ (\E n \in Number : attempt[e][n] = "delivered")
        => accepted[e] > 0

\* The audit and the provider tell the same story.
AuditIsTrue == MessagesAudited /\ DeliveredWasAccepted

\* A retry always has a delay: the number of the attempt, which gives the
\* delay, is never ahead of the count of the row, which decides on the retry.
RetryHasDelay ==
    \A w \in Worker :
      pc[w] = "record" /\ answer[w] = "retryable" /\ ~IsTerminal(w)
        => claim[w].number < MaxAttempts

\* "Delivered and dead-letter rows are terminal."
TerminalStays ==
    [][\A e \in Event : delivery[e].status \in Terminal =>
         delivery'[e].status = delivery[e].status]_vars

\* No message goes out for an event whose delivery is settled.
SettledIsSilent ==
    [][\A e \in Event : delivery[e].status \in Terminal => accepted'[e] = accepted[e]]_vars

\* Every outbox event is delivered or dead-lettered at last, whatever the
\* provider answers and wherever processes crash.
EventSettles ==
    \A e \in Event : <>(delivery[e].status \in Terminal)
=============================================================================
