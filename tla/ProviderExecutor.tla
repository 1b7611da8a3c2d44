--------------------------- MODULE ProviderExecutor ---------------------------
(***************************************************************************)
(* Requests to the current-season provider: threads that share one         *)
(* process-local quota ledger execute requests of one capability with a    *)
(* bounded number of attempts, against a provider that counts requests per *)
(* window and says in its answers how much is left.  Answers may be lost,  *)
(* delayed beyond later ones, and refused for other reasons.               *)
(*                                                                         *)
(* Time is relative: every boundary is a number of seconds still to pass,  *)
(* which Tick counts down.                                                 *)
(***************************************************************************)
EXTENDS Naturals, FiniteSets

CONSTANTS Threads,
          MaximumAttempts,     \* ProviderRetryPolicy
          BaseDelay,
          MaximumDelay,
          Limit,               \* requests the provider admits per window
          Window,              \* seconds of a window
          NoAnswer

ASSUME ProviderAssumption ==
    /\ IsFiniteSet(Threads)
    /\ MaximumAttempts \in 1..5
    /\ BaseDelay \in Nat /\ MaximumDelay \in Nat
    /\ Limit \in Nat \ {0} /\ Window \in Nat \ {0}

VARIABLES ledger,      \* the last quota observation recorded for the capability
          call,        \* what each thread's execution is at
          left,        \* external: requests left in the provider's window
          reset,       \* external: seconds to the next window
          overdrawn    \* ghost: requests of this window answered when none was left

vars == <<ledger, call, left, reset, overdrawn>>

Smaller(x, y) == IF x < y THEN x ELSE y
Larger(x, y) == IF x > y THEN x ELSE y
Less(x) == IF x = 0 THEN 0 ELSE x - 1

-----------------------------------------------------------------------------
(* Quota metadata.  An exhausted quota must say when it resets, by a time, *)
(* by a delay from the observation, or both.                               *)

Available == [status |-> "available", resets |-> 0, after |-> 0]

Exhausted == [status : {"exhausted"}, resets : 0..Window, after : 0..Window]

Unknown == [status |-> "unknown", resets |-> 0, after |-> 0]

(* Mutant: exhausted observations are kept and never held against anyone.  *)
NeverBlocked == FALSE

(* require_available: an exhausted capability is blocked until the latest  *)
(* of its boundaries; then the observation is forgotten.                   *)
Blocked == ledger.status = "exhausted" /\ Larger(ledger.resets, ledger.after) > 0

RequireAvailable == ~Blocked

Forget == IF ledger.status = "exhausted" THEN Unknown ELSE ledger

-----------------------------------------------------------------------------
(* Answers.                                                                *)

Response(status, retryAfter, quota) ==
    [status |-> status, retry_after |-> retryAfter, quota |-> quota]

(* _response_error and _transport_error: the disposition of what failed.   *)
Disposition(answer) ==
    CASE answer.status = "transport_failure" -> "retry_later"
      [] answer.status \in {"400", "401", "403", "404"} -> "never"
      [] answer.status = "408" -> "retry_later"
      [] answer.status = "429" /\ answer.quota.status = "exhausted" -> "after_quota_reset"
      [] answer.status = "429" -> IF answer.retry_after > 0 THEN "retry_after" ELSE "retry_later"
      [] answer.status = "503" -> "retry_later"
      [] OTHER -> "never"

Retryable(answer) == Disposition(answer) \in {"retry_later", "retry_after"}

(* delay_for: the provider's delay or an exponential one, both capped.     *)
DelayFor(attempt, answer) ==
    IF Disposition(answer) = "retry_after"
    THEN Smaller(answer.retry_after, MaximumDelay)
    ELSE Smaller(BaseDelay * 2 ^ (attempt - 1), MaximumDelay)

-----------------------------------------------------------------------------
(* The provider.  What it counts, it counts when a request arrives; every  *)
(* answer tells the state of the quota after the request.                  *)

QuotaAfter(remaining) ==
    IF remaining > 0 THEN {Available}
    ELSE {q \in Exhausted : /\ q.resets \in {0, reset} /\ q.after \in {0, reset}
                            /\ Larger(q.resets, q.after) > 0}

Answers ==
    IF left = 0 THEN {Response(s, 0, q) : s \in {"429", "503"}, q \in QuotaAfter(0)}
    ELSE {Response(s, 0, q) : s \in {"200", "404", "503"}, q \in QuotaAfter(left - 1)}
         \cup {Response("429", 3, q) : q \in {Available}}

Lost == Response("transport_failure", 0, Unknown)

-----------------------------------------------------------------------------
(* execute.                                                                *)

Ended == {"returned", "raised", "refused"}

Free == [pc |-> "returned", attempt |-> 1, timer |-> 0, answer |-> NoAnswer]

To(t, state) == call' = [call EXCEPT ![t] = state]

(* The ledger is consulted once, before the first attempt.                 *)
Begin(t) ==
    /\ call[t].pc \in Ended
    /\ IF RequireAvailable
       THEN To(t, [Free EXCEPT !.pc = "send"]) /\ ledger' = Forget
       ELSE To(t, [Free EXCEPT !.pc = "refused"]) /\ UNCHANGED ledger
    /\ UNCHANGED <<left, reset, overdrawn>>

(* The request arrives and its answer is on the way, or both are lost.     *)
Send(t) ==
    /\ call[t].pc = "send"
    /\ \/ \E answer \in Answers \cup {Lost} :
          /\ To(t, [call[t] EXCEPT !.pc = "flight", !.answer = answer])
          /\ left' = Less(left)
          /\ overdrawn' = IF left = 0 /\ answer # Lost THEN overdrawn + 1 ELSE overdrawn
       \/ /\ To(t, [call[t] EXCEPT !.pc = "flight", !.answer = Lost])
          /\ UNCHANGED <<left, overdrawn>>
    /\ UNCHANGED <<ledger, reset>>

(* Every response is recorded, whatever its status and however late.       *)
Record(t) ==
    IF call[t].answer = Lost THEN UNCHANGED ledger ELSE ledger' = call[t].answer.quota

Receive(t) ==
    /\ call[t].pc = "flight"
    /\ Record(t)
    /\ LET answer == call[t].answer
           attempt == call[t].attempt
       IN  IF answer.status = "200" THEN To(t, Free)
           ELSE IF ~Retryable(answer) \/ attempt = MaximumAttempts
           THEN To(t, [Free EXCEPT !.pc = "raised"])
           ELSE To(t, [pc |-> "sleep", attempt |-> attempt, answer |-> NoAnswer,
                       timer |-> DelayFor(attempt, answer)])
    /\ UNCHANGED <<left, reset, overdrawn>>

(* Mutant: the attempts are not counted.                                   *)
WakeAnew(t) ==
    /\ call[t].pc = "sleep" /\ call[t].timer = 0
    /\ To(t, [call[t] EXCEPT !.pc = "send"])
    /\ UNCHANGED <<ledger, left, reset, overdrawn>>

Wake(t) ==
    /\ call[t].pc = "sleep" /\ call[t].timer = 0
    /\ To(t, [call[t] EXCEPT !.pc = "send", !.attempt = @ + 1])
    /\ UNCHANGED <<ledger, left, reset, overdrawn>>

-----------------------------------------------------------------------------
(* One second passes.  A time the provider named comes closer, also while  *)
(* its answer is on the way; a delay is counted from the observation.      *)
TickQuota(q, recorded) ==
    [status |-> q.status, resets |-> Less(q.resets),
     after  |-> IF recorded THEN Less(q.after) ELSE q.after]

TickAnswer(answer) ==
    IF answer = NoAnswer THEN NoAnswer
    ELSE [answer EXCEPT !.quota = TickQuota(answer.quota, FALSE)]

TickCall(c) == [c EXCEPT !.timer = Less(@), !.answer = TickAnswer(c.answer)]

Tick ==
    /\ ledger' = TickQuota(ledger, TRUE)
    /\ call' = [t \in Threads |-> TickCall(call[t])]
    /\ IF reset = 1 THEN reset' = Window /\ left' = Limit /\ overdrawn' = 0
       ELSE reset' = reset - 1 /\ UNCHANGED <<left, overdrawn>>

Init ==
    /\ ledger = Unknown
    /\ call = [t \in Threads |-> Free]
    /\ left = Limit /\ reset = Window /\ overdrawn = 0

Step(t) == Send(t) \/ Receive(t) \/ Wake(t)

Next == Tick \/ \E t \in Threads : Begin(t) \/ Step(t)

(* Threads run, the transport answers or times out, and time passes; that  *)
(* anybody asks again is not assumed.                                      *)
Spec == Init /\ [][Next]_vars /\ WF_vars(Tick) /\ \A t \in Threads : WF_vars(Step(t))

-----------------------------------------------------------------------------
(* Properties.                                                             *)

TypeOK ==
    /\ ledger \in Exhausted \cup [status : {"available", "unknown"}, resets : {0}, after : {0}]
    /\ \A t \in Threads : /\ call[t].pc \in Ended \cup {"send", "flight", "sleep"}
                          /\ call[t].attempt \in 1..MaximumAttempts
                          /\ call[t].timer \in 0..MaximumDelay
    /\ left \in 0..Limit /\ reset \in 1..Window /\ overdrawn \in Nat

(* However the threads interleave and however late an answer is, and even  *)
(* though a delayed answer overwrites a newer observation (record) and the *)
(* attempts of an execution do not consult the ledger again (execute), a   *)
(* provider that says in every answer how much is left answers at most so  *)
(* many requests beyond its quota before the next window: every thread can *)
(* hold one late answer that reopens the capability for all of them.  A    *)
(* request whose answer is lost teaches nothing and is not counted.        *)
OverdrawBound ==
    MaximumAttempts * ((Cardinality(Threads) * (Cardinality(Threads) + 1)) \div 2)

OverdrawIsBounded == overdrawn <= OverdrawBound

(* An exhausted capability stays blocked until every reset boundary it      *)
(* declared has passed: only time takes a blocking observation away.  The   *)
(* ledger keeps the answer recorded last (record), and a late answer to a   *)
(* request sent before the quota was exhausted still says "available".      *)
ExhaustedStaysBlocked ==
    [][Blocked => Blocked' \/ ledger' = TickQuota(ledger, TRUE)]_vars

(* Every execution returns or raises, whatever the provider answers.       *)
ExecutionsEnd ==
    \A t \in Threads : (call[t].pc \notin Ended) ~> (call[t].pc \in Ended)

=============================================================================
