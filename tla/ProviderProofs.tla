---------------------------- MODULE ProviderProofs ----------------------------
(***************************************************************************)
(* Theorems about ProviderExecutor, for any number of threads, attempts,   *)
(* requests per window and lengths of a window.                            *)
(*                                                                         *)
(* The argument counts what may still be answered beyond the quota before  *)
(* the next window.  An answer is late if it was given before the quota    *)
(* ran out and is still on the way: recording it reopens the capability.   *)
(* While the capability is closed, a thread can only use up the attempts   *)
(* of the execution it is in; while it is open, every thread that holds no *)
(* late answer can have one execution, whose first answer closes the       *)
(* capability again when it is recorded.  Each late answer may open the    *)
(* capability once, to one thread more than the one before.                *)
(***************************************************************************)
EXTENDS ProviderExecutor, FiniteSetTheorems, TLAPS

Answer == [status : {"transport_failure", "200", "404", "429", "503"},
           retry_after : {0, 3},
           quota : Exhausted \cup {Available, Unknown}]

CallOK(c) ==
    /\ c \in [pc : Ended \cup {"send", "flight", "sleep"}, attempt : 1..MaximumAttempts,
              timer : {c.timer}, answer : Answer \cup {NoAnswer}]
    /\ c.pc = "flight" => c.answer \in Answer
    /\ c.pc # "flight" => c.answer = NoAnswer
    /\ c.pc = "sleep" => c.attempt < MaximumAttempts

(* What the counting needs of the types.                                   *)
ProviderOK ==
    /\ ledger \in Exhausted \cup {Available, Unknown}
    /\ left \in 0..Limit /\ reset \in 1..Window /\ overdrawn \in Nat
    /\ call = [t \in Threads |-> call[t]]
    /\ \A t \in Threads : CallOK(call[t])

-----------------------------------------------------------------------------
(* An observation that keeps the capability closed until the next window.  *)
Closing(q) == q.status = "exhausted" /\ Larger(q.resets, q.after) >= reset

Answered(t) == call[t].pc = "flight" /\ call[t].answer # Lost

Late == {t \in Threads : Answered(t) /\ ~Closing(call[t].answer.quota)}

(* Requests the execution of a thread may still send.                      *)
Remaining(t) == IF call[t].pc = "send" THEN MaximumAttempts - call[t].attempt + 1
                                       ELSE MaximumAttempts - call[t].attempt

(* Requests a thread may still have answered before the ledger is closed   *)
(* again, or until its execution ends if it is closed.                     *)
Credit(t) == IF Closing(ledger)
             THEN IF call[t].pc \in Ended THEN 0 ELSE Remaining(t)
             ELSE IF Answered(t) THEN Remaining(t) ELSE MaximumAttempts

Credits == {c \in (Threads \ Late) \X (1..MaximumAttempts) : c[2] <= Credit(c[1])}

(* The pairs of threads of which one is among n given ones: the executions *)
(* that n late answers can still let in.                                   *)
Pairs(n) == (n * (2 * Cardinality(Threads) - n + 1)) \div 2

Worth(credits, late) == Cardinality(credits) + MaximumAttempts * Pairs(Cardinality(late))

Counted ==
    /\ left > 0 => overdrawn = 0
    /\ left = 0 => overdrawn + Worth(Credits, Late) <= OverdrawBound

PInv == ProviderOK /\ Counted

-----------------------------------------------------------------------------
(* The arithmetic of the bound.                                            *)

LEMMA Sizes ==
  /\ Cardinality(Threads) \in Nat
  /\ MaximumAttempts \in Nat /\ MaximumAttempts >= 1
  /\ \A S \in SUBSET Threads :
        IsFiniteSet(S) /\ Cardinality(S) \in Nat /\ Cardinality(S) <= Cardinality(Threads)
BY ProviderAssumption, FS_CardinalityType, FS_Subset

LEMMA Halves ==
  ASSUME NEW x \in Nat, NEW y \in Nat, NEW k \in Nat, x + 2 * k <= y
  PROVE  x \div 2 + k <= y \div 2
OBVIOUS

LEMMA PairsGrow ==
  ASSUME NEW m \in Nat, NEW n \in Nat, m < n, n <= Cardinality(Threads)
  PROVE  /\ Pairs(m) \in Nat /\ Pairs(n) \in Nat
         /\ Pairs(m) + (n - m) <= Pairs(n)
         /\ Pairs(m) + (Cardinality(Threads) - m) <= Pairs(n)
<1> DEFINE T == Cardinality(Threads)
<1>0. T \in Nat
  BY Sizes
<1> HIDE DEF T
<1> DEFINE x == m * (2 * T - m + 1)
           y == n * (2 * T - n + 1)
<1>1. x \in Nat /\ y \in Nat
  <2>1. 2 * T - m + 1 \in Nat /\ 2 * T - n + 1 \in Nat
    BY <1>0 DEF T
  <2>2. \A a \in Nat, b \in Nat : a * b \in Nat
    OBVIOUS
  <2>3. QED
    BY <2>1, <2>2
<1>2. y - x = (n - m) * (2 * T - n - m + 1)
  BY <1>0
<1>3. \A a \in Int, b \in Int, c \in Int : a >= 0 /\ b >= c => a * b >= a * c
  OBVIOUS
<1>4. y - x >= 2 * (T - m)
  <2> DEFINE d == n - m - 1
  <2>1. d \in Nat /\ T - n \in Nat
    BY <1>0 DEF T
  <2>2. (n - m) * (2 * T - n - m + 1) - 2 * (T - m) = d * (2 * (T - n) + d + 1)
    BY <1>0, <2>1
  <2>3. d * (2 * (T - n) + d + 1) \in Nat
    <3>1. 2 * (T - n) + d + 1 \in Nat
      BY <2>1
    <3>2. \A a \in Nat, b \in Nat : a * b \in Nat
      OBVIOUS
    <3>3. QED
      BY ONLY <2>1, <3>1, <3>2
  <2>4. QED
    BY <1>0, <1>1, <1>2, <2>2, <2>3
<1>5. x \div 2 + (T - m) <= y \div 2
  <2>1. T - m \in Nat
    BY <1>0 DEF T
  <2> HIDE DEF x, y
  <2>2. x + 2 * (T - m) <= y
    BY <1>0, <1>1, <1>4
  <2>3. QED
    BY <1>1, <2>1, <2>2, Halves
<1>6. Pairs(m) = x \div 2 /\ Pairs(n) = y \div 2
  BY DEF Pairs, T
<1> HIDE DEF x, y
<1>7. x \div 2 \in Nat /\ y \div 2 \in Nat
  BY <1>1
<1>8. QED
  BY <1>0, <1>5, <1>6, <1>7 DEF T

LEMMA PairsNat ==
  ASSUME NEW n \in Nat, n <= Cardinality(Threads)
  PROVE  Pairs(n) \in Nat
<1> DEFINE T == Cardinality(Threads)
<1>0. T \in Nat /\ n <= T
  BY Sizes
<1>1. Pairs(n) = (n * (2 * T - n + 1)) \div 2
  BY DEF Pairs
<1> HIDE DEF T
<1>2. 2 * T - n + 1 \in Nat
  BY <1>0
<1>3. \A a \in Nat, b \in Nat : (a * b) \div 2 \in Nat
  <2>1. \A a \in Nat, b \in Nat : a * b \in Nat
    OBVIOUS
  <2>2. \A a \in Nat : a \div 2 \in Nat
    OBVIOUS
  <2>3. QED
    BY <2>1, <2>2
<1>4. QED
  BY <1>1, <1>2, <1>3

LEMMA PairsFull ==
  MaximumAttempts * Pairs(Cardinality(Threads)) = OverdrawBound
<1> DEFINE T == Cardinality(Threads)
<1>1. T \in Nat
  BY Sizes
<1> HIDE DEF T
<1>2. T * (2 * T - T + 1) = T * (T + 1)
  BY <1>1
<1>3. QED
  BY <1>2 DEF Pairs, OverdrawBound, T

-----------------------------------------------------------------------------
(* What credits and late answers are worth.                                *)

Slots(S) == S \X (1..MaximumAttempts)

LEMMA SlotsCount ==
  ASSUME NEW S \in SUBSET Threads
  PROVE  /\ IsFiniteSet(Slots(S))
         /\ Cardinality(Slots(S)) = Cardinality(S) * MaximumAttempts
<1>1. IsFiniteSet(S)
  BY Sizes
<1>2. IsFiniteSet(1..MaximumAttempts) /\ Cardinality(1..MaximumAttempts) = MaximumAttempts
  BY Sizes, FS_Interval
<1>3. QED
  BY <1>1, <1>2, FS_Product DEF Slots

LEMMA CreditsCount ==
  ASSUME NEW S \in SUBSET Threads, NEW C \in SUBSET Slots(S)
  PROVE  /\ IsFiniteSet(C) /\ Cardinality(C) \in Nat
         /\ Cardinality(C) <= Cardinality(S) * MaximumAttempts
BY SlotsCount, FS_Subset, FS_CardinalityType

LEMMA WorthNat ==
  ASSUME NEW L \in SUBSET Threads, NEW C \in SUBSET Slots(Threads)
  PROVE  Worth(C, L) \in Nat
<1>1. Cardinality(C) \in Nat
  BY CreditsCount
<1>2. Pairs(Cardinality(L)) \in Nat /\ MaximumAttempts \in Nat
  BY Sizes, PairsNat
<1>3. \A a \in Nat, b \in Nat, c \in Nat : a + b * c \in Nat
  <2>1. \A b \in Nat, c \in Nat : b * c \in Nat
    OBVIOUS
  <2>2. QED
    BY <2>1
<1>4. QED
  BY ONLY <1>1, <1>2, <1>3 DEF Worth

\* Whatever fewer late answers leave to the other threads is worth no more
\* than the late answers there were.
LEMMA WorthOpens ==
  ASSUME NEW L \in SUBSET Threads, NEW L1 \in SUBSET L, L1 # L,
         NEW C1 \in SUBSET Slots(Threads \ L1)
  PROVE  Worth(C1, L1) <= MaximumAttempts * Pairs(Cardinality(L))
<1> DEFINE T == Cardinality(Threads)
           n == Cardinality(L)
           m == Cardinality(L1)
           k == Cardinality(C1)
           M == MaximumAttempts
<1>1. n \in Nat /\ m \in Nat /\ T \in Nat /\ m < n /\ n <= T
  <2>1. IsFiniteSet(L) /\ n \in Nat /\ n <= T /\ m \in Nat /\ T \in Nat
    BY Sizes
  <2>2. m <= n /\ m # n
    BY <2>1, FS_Subset
  <2>3. QED
    BY <2>1, <2>2
<1>2. Cardinality(Threads \ L1) = T - m
  <2>1. Threads \cap L1 = L1
    OBVIOUS
  <2>2. IsFiniteSet(Threads)
    BY Sizes
  <2>3. Cardinality(Threads \ L1) = Cardinality(Threads) - Cardinality(Threads \cap L1)
    BY ONLY <2>2, FS_Difference
  <2>4. QED
    BY <2>1, <2>3
<1>3. k \in Nat /\ k <= (T - m) * M
  <2>1. Threads \ L1 \in SUBSET Threads
    OBVIOUS
  <2>2. QED
    BY <1>2, <2>1, CreditsCount
<1>4. Pairs(m) \in Nat /\ Pairs(n) \in Nat /\ Pairs(m) + (T - m) <= Pairs(n)
  BY <1>1, PairsGrow
<1>5. M \in Nat
  BY Sizes
<1>6. \A a \in Nat, b \in Nat, c \in Nat : a + b <= c => M * a + b * M <= M * c
  BY <1>5
<1>7. M * Pairs(m) + (T - m) * M <= M * Pairs(n)
  <2>1. T - m \in Nat
    BY <1>1
  <2>2. QED
    BY ONLY <1>4, <1>6, <2>1
<1>8. Worth(C1, L1) = k + M * Pairs(m)
  BY DEF Worth
<1> HIDE DEF n, m, k, M, T
<1>9. M * Pairs(m) \in Int /\ M * Pairs(n) \in Int /\ (T - m) * M \in Int
  BY <1>1, <1>4, <1>5
<1>10. k + M * Pairs(m) <= M * Pairs(n)
  <2> DEFINE x == M * Pairs(m)
             y == (T - m) * M
             z == M * Pairs(n)
  <2>1. x \in Int /\ y \in Int /\ z \in Int /\ k \in Nat /\ k <= y /\ x + y <= z
    BY <1>3, <1>7, <1>9
  <2> HIDE DEF x, y, z
  <2>2. k + x <= z
    BY <2>1
  <2>3. QED
    BY <2>2 DEF x, z
<1>11. QED
  BY <1>8, <1>10 DEF n, M

\* Late answers that turn into closing ones are worth less.
LEMMA WorthCloses ==
  ASSUME NEW L \in SUBSET Threads, NEW L1 \in SUBSET L,
         NEW C \in SUBSET Slots(Threads), NEW C1, C1 \subseteq C \cup Slots(L \ L1)
  PROVE  Worth(C1, L1) <= Worth(C, L)
<1> DEFINE n == Cardinality(L)
           m == Cardinality(L1)
           k == Cardinality(C)
           k1 == Cardinality(C1)
           M == MaximumAttempts
<1>1. IsFiniteSet(L) /\ n \in Nat /\ n <= Cardinality(Threads) /\ m \in Nat /\ m <= n
  BY Sizes, FS_Subset
<1>2. Cardinality(L \ L1) = n - m
  <2>1. L \cap L1 = L1
    OBVIOUS
  <2>2. IsFiniteSet(L)
    BY <1>1
  <2>3. Cardinality(L \ L1) = Cardinality(L) - Cardinality(L \cap L1)
    BY ONLY <2>2, FS_Difference
  <2>4. QED
    BY <2>1, <2>3
<1>3. IsFiniteSet(C) /\ k \in Nat
  BY CreditsCount
<1>4. /\ IsFiniteSet(Slots(L \ L1))
      /\ Cardinality(Slots(L \ L1)) = (n - m) * M
  BY <1>2, SlotsCount
<1>5. k1 \in Nat /\ k1 <= k + (n - m) * M
  <2> DEFINE D == Slots(L \ L1)
  <2> HIDE DEF D
  <2>1. IsFiniteSet(C \cup D) /\ Cardinality(C \cup D) = k + Cardinality(D) - Cardinality(C \cap D)
    BY <1>3, <1>4, FS_Union DEF D
  <2>2. Cardinality(C \cap D) \in Nat /\ Cardinality(D) \in Nat
    BY <1>3, <1>4, FS_Intersection, FS_CardinalityType DEF D
  <2>3. k1 \in Nat /\ Cardinality(C \cup D) \in Nat /\ k1 <= Cardinality(C \cup D)
    BY <2>1, FS_Subset, FS_CardinalityType DEF D
  <2>4. k1 <= k + Cardinality(D)
    BY <1>3, <2>1, <2>2, <2>3
  <2>5. QED
    BY <1>4, <2>3, <2>4 DEF D
<1>6. M \in Nat
  BY Sizes
<1>7. Worth(C1, L1) = k1 + M * Pairs(m) /\ Worth(C, L) = k + M * Pairs(n)
  BY DEF Worth
<1> HIDE DEF n, m, k, k1, M
<1>8. CASE m = n
  <2>1. (n - m) * M = 0
    BY <1>1, <1>6, <1>8
  <2>2. k1 <= k
    BY <1>3, <1>5, <2>1
  <2>3. Pairs(m) = Pairs(n) /\ Pairs(n) \in Nat
    BY <1>1, <1>8, PairsNat
  <2>4. M * Pairs(n) \in Int
    BY <1>6, <2>3
  <2>5. QED
    BY <1>3, <1>5, <1>7, <2>2, <2>3, <2>4
<1>9. CASE m < n
  <2>1. Pairs(m) \in Nat /\ Pairs(n) \in Nat /\ Pairs(m) + (n - m) <= Pairs(n)
    BY <1>1, <1>9, PairsGrow
  <2>2. \A a \in Nat, b \in Nat, c \in Nat : a + b <= c => M * a + b * M <= M * c
    BY <1>6
  <2>3. M * Pairs(m) + (n - m) * M <= M * Pairs(n)
    <3>1. n - m \in Nat
      BY <1>1
    <3>2. QED
      BY ONLY <2>1, <2>2, <3>1
  <2> DEFINE x == M * Pairs(m)
             y == (n - m) * M
             z == M * Pairs(n)
  <2>4. x \in Int /\ y \in Int /\ z \in Int
    BY <1>1, <1>6, <2>1
  <2>5. k1 <= k + y /\ x + y <= z
    BY <1>5, <2>3
  <2> HIDE DEF x, y, z
  <2>6. k1 + x <= k + z
    BY <1>3, <1>5, <2>4, <2>5
  <2>7. QED
    BY <1>7, <2>6 DEF x, z
<1>10. QED
  BY <1>1, <1>8, <1>9

\* One credit less.
LEMMA WorthSpent ==
  ASSUME NEW L \in SUBSET Threads, NEW C \in SUBSET Slots(Threads),
         NEW x \in C, NEW C1, C1 \subseteq C \ {x}
  PROVE  1 + Worth(C1, L) <= Worth(C, L)
<1>1. IsFiniteSet(C) /\ Cardinality(C) \in Nat
  BY CreditsCount
<1>2. IsFiniteSet(C \ {x}) /\ Cardinality(C \ {x}) = Cardinality(C) - 1
  BY <1>1, FS_RemoveElement
<1>3. Cardinality(C1) \in Nat /\ Cardinality(C1) <= Cardinality(C \ {x})
  BY <1>2, FS_Subset, FS_CardinalityType
<1>4. Pairs(Cardinality(L)) \in Nat /\ MaximumAttempts \in Nat
  BY Sizes, PairsNat
<1>5. MaximumAttempts * Pairs(Cardinality(L)) \in Int
  BY <1>4
<1>6. QED
  BY <1>1, <1>2, <1>3, <1>5 DEF Worth

-----------------------------------------------------------------------------
(* Types.                                                                  *)

Quotas == Exhausted \cup {Available, Unknown}

LEMMA QuotaShape ==
  ASSUME NEW q \in Quotas
  PROVE  /\ q = [status |-> q.status, resets |-> q.resets, after |-> q.after]
         /\ q.resets \in 0..Window /\ q.after \in 0..Window
         /\ q.status = "exhausted" => q \in Exhausted
         /\ q.status = "unknown" => q = Unknown
BY ProviderAssumption DEF Quotas, Exhausted, Available, Unknown

LEMMA QuotaTicks ==
  ASSUME NEW q \in Quotas, NEW b \in BOOLEAN
  PROVE  /\ TickQuota(q, b).status = q.status
         /\ TickQuota(q, b).resets = Less(q.resets)
         /\ TickQuota(q, b).after = IF b THEN Less(q.after) ELSE q.after
         /\ TickQuota(q, b) \in Quotas
<1>1. q = [status |-> q.status, resets |-> q.resets, after |-> q.after]
  BY QuotaShape
<1>2. TickQuota(q, b) = [status |-> q.status, resets |-> Less(q.resets),
                         after |-> IF b THEN Less(q.after) ELSE q.after]
  BY DEF TickQuota
<1>3. \A n \in 0..Window : Less(n) \in 0..Window
  BY ProviderAssumption DEF Less
<1>4. CASE q \in Exhausted
  <2>1. q.status = "exhausted" /\ q.resets \in 0..Window /\ q.after \in 0..Window
    BY <1>4 DEF Exhausted
  <2>2. TickQuota(q, b) \in Exhausted
    BY <1>2, <1>3, <2>1 DEF Exhausted
  <2>3. QED
    BY <1>2, <2>2 DEF Quotas
<1>5. CASE q \in {Available, Unknown}
  <2>1. q.resets = 0 /\ q.after = 0
    BY <1>5 DEF Available, Unknown
  <2>2. Less(0) = 0
    BY DEF Less
  <2>3. TickQuota(q, b) = q
    BY <1>1, <1>2, <2>1, <2>2
  <2>4. QED
    BY <1>2, <2>3
<1>6. QED
  BY <1>4, <1>5 DEF Quotas

LEMMA AnswerShape ==
  ASSUME NEW a \in Answer
  PROVE  /\ a = [status |-> a.status, retry_after |-> a.retry_after, quota |-> a.quota]
         /\ a.quota \in Quotas
BY DEF Answer, Quotas

LEMMA AnswerTicks ==
  ASSUME NEW a \in Answer
  PROVE  /\ TickAnswer(a) \in Answer
         /\ TickAnswer(a) = Lost <=> a = Lost
         /\ \/ TickAnswer(a).quota = a.quota
            \/ TickAnswer(a).quota = TickQuota(a.quota, FALSE)
<1>1. CASE a = NoAnswer
  BY <1>1 DEF TickAnswer
<1>2. CASE a # NoAnswer
  <2> DEFINE b == TickQuota(a.quota, FALSE)
  <2>1. /\ a = [status |-> a.status, retry_after |-> a.retry_after, quota |-> a.quota]
        /\ a.quota \in Quotas
    BY AnswerShape
  <2>2. b.status = a.quota.status /\ b \in Quotas
    BY <2>1, QuotaTicks
  <2>3. TickAnswer(a) = [a EXCEPT !.quota = b]
    BY <1>2 DEF TickAnswer
  <2>4. b = Unknown <=> a.quota = Unknown
    <3>1. Unknown.status = "unknown"
      BY DEF Unknown
    <3>2. QED
      BY <2>1, <2>2, <3>1, QuotaShape
  <2> HIDE DEF b
  <2>5. TickAnswer(a) = [status |-> a.status, retry_after |-> a.retry_after, quota |-> b]
    BY <2>1, <2>3
  <2>6. TickAnswer(a) \in Answer
    BY <2>2, <2>5 DEF Answer, Quotas
  <2>7. TickAnswer(a) = Lost <=> a = Lost
    <3>1. Lost = [status |-> "transport_failure", retry_after |-> 0, quota |-> Unknown]
      BY DEF Lost, Response
    <3>2. PICK v, w, x, y :
            /\ a = [status |-> v, retry_after |-> w, quota |-> x]
            /\ TickAnswer(a) = [status |-> v, retry_after |-> w, quota |-> y]
            /\ y = Unknown <=> x = Unknown
      <4>1. a = [status |-> a.status, retry_after |-> a.retry_after, quota |-> a.quota]
        BY <2>1
      <4>2. QED
        BY ONLY <4>1, <2>4, <2>5
    <3> DEFINE l == Lost
               m == TickAnswer(a)
    <3>3. l = [status |-> "transport_failure", retry_after |-> 0, quota |-> Unknown]
      BY <3>1
    <3>4. m = [status |-> v, retry_after |-> w, quota |-> y]
      BY <3>2
    <3> HIDE DEF l, m
    <3>5. a = l <=> v = "transport_failure" /\ w = 0 /\ x = Unknown
      BY ONLY <3>2, <3>3
    <3>6. m = l <=> v = "transport_failure" /\ w = 0 /\ y = Unknown
      BY ONLY <3>3, <3>4
    <3>7. QED
      BY <3>2, <3>5, <3>6 DEF l, m
  <2>8. TickAnswer(a).quota = TickQuota(a.quota, FALSE)
    BY <2>5 DEF b
  <2>9. QED
    BY <2>6, <2>7, <2>8
<1>3. QED
  BY <1>1, <1>2

\* What the provider may answer, and that it closes when nothing is left.
LEMMA AnswersAre ==
  ASSUME ProviderOK, NEW a \in Answers \cup {Lost}
  PROVE  /\ a \in Answer
         /\ left = 0 /\ a # Lost => Closing(a.quota)
<1>1. CASE a = Lost
  BY <1>1 DEF Lost, Response, Answer
<1>2. \A n \in 0..Limit : QuotaAfter(n) \subseteq Quotas
  BY DEF QuotaAfter, Quotas
<1>3. CASE left = 0 /\ a # Lost
  <2>1. PICK x \in {"429", "503"}, q \in QuotaAfter(0) : a = Response(x, 0, q)
    BY <1>3 DEF Answers
  <2>2. /\ q \in Exhausted /\ q.resets \in {0, reset} /\ q.after \in {0, reset}
        /\ Larger(q.resets, q.after) > 0
    BY <2>1 DEF QuotaAfter
  <2>3. q.status = "exhausted" /\ reset \in Nat
    BY <2>2 DEF Exhausted, ProviderOK
  <2>4. Closing(q)
    BY <2>2, <2>3 DEF Closing, Larger
  <2>5. a.quota = q /\ a \in Answer
    BY <2>1, <2>2 DEF Response, Answer
  <2>6. QED
    BY <2>4, <2>5
<1>4. CASE left # 0 /\ a # Lost
  <2>1. left - 1 \in 0..Limit
    BY <1>4, ProviderAssumption DEF ProviderOK
  <2>2. \E x \in {"200", "404", "429", "503"}, r \in {0, 3}, q \in Quotas : a = Response(x, r, q)
    BY <1>2, <1>4, <2>1 DEF Answers, Quotas
  <2>3. QED
    BY <1>4, <2>2 DEF Response, Answer, Quotas
<1>5. QED
  BY <1>1, <1>3, <1>4

\* A step of one thread keeps the types if what it becomes has them.
LEMMA ThreadTypes ==
  ASSUME ProviderOK, NEW t \in Threads, NEW c, call' = [call EXCEPT ![t] = c], CallOK(c),
         ledger' \in Quotas, left' \in 0..Limit, reset' = reset, overdrawn' \in Nat
  PROVE  ProviderOK' /\ call'[t] = c /\ \A u \in Threads \ {t} : call'[u] = call[u]
<1>1. call'[t] = c /\ \A u \in Threads \ {t} : call'[u] = call[u]
  BY DEF ProviderOK
<1>2. call' = [u \in Threads |-> call'[u]]
  BY DEF ProviderOK
<1>3. \A u \in Threads : CallOK(call'[u])
  BY <1>1 DEF ProviderOK
<1>4. \A x : CallOK(x)' = CallOK(x)
  BY DEF CallOK
<1>5. QED
  BY <1>1, <1>2, <1>3 DEF ProviderOK, Quotas, CallOK

-----------------------------------------------------------------------------
(* How steps change what is worth counting.                                *)

LEMMA CreditRange ==
  ASSUME ProviderOK, NEW t \in Threads
  PROVE  Credit(t) \in 0..MaximumAttempts
<1>1. /\ call[t].attempt \in 1..MaximumAttempts /\ MaximumAttempts \in Nat
  BY Sizes DEF ProviderOK, CallOK
<1>2. MaximumAttempts - call[t].attempt \in 0..MaximumAttempts
      /\ MaximumAttempts - call[t].attempt + 1 \in 0..MaximumAttempts
  BY <1>1
<1>3. Remaining(t) \in 0..MaximumAttempts
  BY <1>2 DEF Remaining
<1>4. QED
  BY <1>1, <1>3 DEF Credit

LEMMA CreditRangeNext ==
  ASSUME ProviderOK', NEW t \in Threads
  PROVE  Credit(t)' \in 0..MaximumAttempts
<1>1. /\ call'[t].attempt \in 1..MaximumAttempts /\ MaximumAttempts \in Nat
  BY Sizes DEF ProviderOK, CallOK
<1>2. MaximumAttempts - call'[t].attempt \in 0..MaximumAttempts
      /\ MaximumAttempts - call'[t].attempt + 1 \in 0..MaximumAttempts
  BY <1>1
<1>3. Remaining(t)' \in 0..MaximumAttempts
  BY <1>2 DEF Remaining
<1>4. QED
  BY <1>1, <1>3 DEF Credit

LEMMA CreditsAreSlots ==
  Late \in SUBSET Threads /\ Credits \in SUBSET Slots(Threads \ Late)
    /\ Credits \in SUBSET Slots(Threads)
BY DEF Late, Credits, Slots

\* Nothing is worth more than all executions that all pairs of threads admit.
LEMMA WorthAtMost ==
  ASSUME NEW L \in SUBSET Threads, NEW C \in SUBSET Slots(Threads \ L)
  PROVE  Worth(C, L) <= OverdrawBound
<1>1. CASE L # Threads
  BY <1>1, WorthOpens, PairsFull
<1>2. CASE L = Threads
  <2>1. C = {}
    BY <1>2 DEF Slots
  <2>2. Worth(C, L) = MaximumAttempts * Pairs(Cardinality(Threads))
    <3>1. Cardinality(C) = 0
      BY <2>1, FS_EmptySet
    <3>2. MaximumAttempts * Pairs(Cardinality(L)) \in Int
      BY Sizes, PairsNat
    <3>3. QED
      BY <1>2, <3>1, <3>2 DEF Worth
  <2>3. MaximumAttempts * Pairs(Cardinality(Threads)) \in Int
    BY Sizes, PairsNat
  <2>4. QED
    BY <2>2, <2>3, PairsFull
<1>3. QED
  BY <1>1, <1>2

LEMMA BoundNat == OverdrawBound \in Nat
<1>1. \A a \in Nat, b \in Nat : a * b \in Nat
  OBVIOUS
<1>2. MaximumAttempts \in Nat /\ Pairs(Cardinality(Threads)) \in Nat
  BY Sizes, PairsNat
<1>3. QED
  BY <1>1, <1>2, PairsFull

\* A step that makes no answer late and gives no credit.
LEMMA Carried ==
  ASSUME ProviderOK, ProviderOK', Late' \subseteq Late,
         \A t \in Threads \ Late : Credit(t)' <= Credit(t)
  PROVE  Worth(Credits, Late)' <= Worth(Credits, Late)
<1>1. Credits' \subseteq Credits \cup Slots(Late \ Late')
  <2>1. ASSUME NEW c \in Credits'
        PROVE  c \in Credits \cup Slots(Late \ Late')
    <3>1. PICK t \in Threads, i \in 1..MaximumAttempts :
            c = <<t, i>> /\ t \notin Late' /\ i <= Credit(t)'
      BY DEF Credits
    <3>2. CASE t \in Late
      BY <3>1, <3>2 DEF Slots
    <3>3. CASE t \notin Late
      <4>1. Credit(t)' <= Credit(t)
        BY <3>3
      <4>2. Credit(t) \in 0..MaximumAttempts /\ Credit(t)' \in 0..MaximumAttempts
        BY CreditRange, CreditRangeNext
      <4>3. i <= Credit(t)
        BY <3>1, <4>1, <4>2
      <4>4. c \in (Threads \ Late) \X (1..MaximumAttempts) /\ c[1] = t /\ c[2] = i
        BY <3>1, <3>3
      <4>5. c[2] <= Credit(c[1])
        BY <4>3, <4>4
      <4>6. QED
        BY <4>4, <4>5 DEF Credits
    <3>4. QED
      BY <3>2, <3>3
  <2>2. QED
    BY <2>1
<1>2. Late \in SUBSET Threads /\ Late' \in SUBSET Late /\ Credits \in SUBSET Slots(Threads)
  BY CreditsAreSlots
<1> DEFINE L == Late
           L1 == Late'
           C == Credits
           C1 == Credits'
<1>3. /\ L \in SUBSET Threads /\ L1 \in SUBSET L /\ C \in SUBSET Slots(Threads)
      /\ C1 \subseteq C \cup Slots(L \ L1)
  BY <1>1, <1>2
<1> HIDE DEF L, L1, C, C1
<1>4. Worth(C1, L1) <= Worth(C, L)
  BY <1>3, WorthCloses
<1>5. QED
  BY <1>4 DEF L, L1, C, C1, Worth, Pairs

\* A step that uses up a credit of thread t.
LEMMA Spent ==
  ASSUME ProviderOK, ProviderOK', Late' = Late, NEW t \in Threads \ Late,
         Credit(t)' <= Credit(t) - 1,
         \A u \in Threads \ Late : u # t => Credit(u)' <= Credit(u)
  PROVE  1 + Worth(Credits, Late)' <= Worth(Credits, Late)
<1> DEFINE x == <<t, Credit(t)>>
           L == Late
           C == Credits
           C1 == Credits'
<1>1. \A u \in Threads : Credit(u) \in Nat /\ Credit(u)' \in Nat
                         /\ Credit(u) <= MaximumAttempts
  <2>1. TAKE u \in Threads
  <2>2. Credit(u) \in 0..MaximumAttempts /\ MaximumAttempts \in Nat
    BY CreditRange, Sizes
  <2>3. Credit(u)' \in 0..MaximumAttempts
    BY CreditRangeNext
  <2>4. QED
    BY <2>2, <2>3
<1>2. x \in C
  <2>1. Credit(t) \in 1..MaximumAttempts
    BY <1>1, CreditRange
  <2>2. QED
    BY <2>1 DEF Credits
<1>3. C1 \subseteq C \ {x}
  <2>1. ASSUME NEW c \in C1
        PROVE  c \in C \ {x}
    <3>1. PICK u \in Threads, i \in 1..MaximumAttempts :
            c = <<u, i>> /\ u \notin Late /\ i <= Credit(u)'
      BY DEF Credits
    <3>2. i <= Credit(u) /\ (u = t => i # Credit(t))
      <4>1. CASE u = t
        BY <1>1, <3>1, <4>1
      <4>2. CASE u # t
        BY <1>1, <3>1, <4>2
      <4>3. QED
        BY <4>1, <4>2
    <3>3. c \in C
      BY <3>1, <3>2 DEF Credits
    <3>4. c # x
      BY <3>1, <3>2
    <3>5. QED
      BY <3>3, <3>4
  <2>2. QED
    BY <2>1
<1>4. L \in SUBSET Threads /\ C \in SUBSET Slots(Threads)
  BY CreditsAreSlots
<1> HIDE DEF x, L, C, C1
<1>5. 1 + Worth(C1, L) <= Worth(C, L)
  BY <1>2, <1>3, <1>4, WorthSpent
<1>6. QED
  BY <1>5 DEF L, C, C1, Worth, Pairs

\* A step that records a late answer.
LEMMA Opened ==
  ASSUME ProviderOK, ProviderOK', Late' \subseteq Late, Late' # Late
  PROVE  Worth(Credits, Late)' <= Worth(Credits, Late)
<1> DEFINE L == Late
           L1 == Late'
           C == Credits
           C1 == Credits'
           y == MaximumAttempts * Pairs(Cardinality(L))
<1>1. /\ L \in SUBSET Threads /\ L1 \in SUBSET L /\ L1 # L
      /\ C \in SUBSET Slots(Threads)
  BY CreditsAreSlots
<1>2. C1 \in SUBSET Slots(Threads \ L1)
  BY DEF Credits, Late, Slots
<1> HIDE DEF L, L1, C, C1
<1>3. Worth(C1, L1) <= y
  BY <1>1, <1>2, WorthOpens
<1>4. Worth(C, L) = Cardinality(C) + y /\ Cardinality(C) \in Nat
  BY <1>1, CreditsCount DEF Worth
<1>5. y \in Int
  BY <1>1, Sizes, PairsNat
<1>6. Worth(C1, L1) \in Nat
  <2>1. L1 \in SUBSET Threads /\ C1 \in SUBSET Slots(Threads)
    BY <1>1, <1>2 DEF Slots
  <2>2. QED
    BY <2>1, WorthNat
<1> HIDE DEF y
<1>7. Worth(C1, L1) <= Worth(C, L)
  BY <1>3, <1>4, <1>5, <1>6
<1>8. QED
  BY <1>7 DEF L, L1, C, C1, Worth, Pairs

LEMMA WorthIsNat ==
  /\ Worth(Credits, Late) \in Nat
  /\ Worth(Credits, Late)' \in Nat
  /\ Worth(Credits, Late)' <= OverdrawBound
<1>1. Worth(Credits, Late) \in Nat
  BY CreditsAreSlots, WorthNat
<1> DEFINE L1 == Late'
           C1 == Credits'
<1>2. L1 \in SUBSET Threads /\ C1 \in SUBSET Slots(Threads \ L1)
  BY DEF Credits, Late, Slots
<1>3. C1 \in SUBSET Slots(Threads)
  BY DEF Credits, Slots
<1> HIDE DEF L1, C1
<1>4. Worth(C1, L1) \in Nat
  BY <1>2, <1>3, WorthNat
<1>5. Worth(C1, L1) <= OverdrawBound
  BY <1>2, WorthAtMost
<1>6. QED
  BY <1>1, <1>4, <1>5 DEF L1, C1, Worth, Pairs

-----------------------------------------------------------------------------
(* The steps.                                                              *)

\* What a step of t does to the others, as long as it does not reopen the
\* capability.
LEMMA Others ==
  ASSUME ProviderOK, NEW t \in Threads, \A u \in Threads \ {t} : call'[u] = call[u],
         reset' = reset
  PROVE  \A u \in Threads \ {t} :
            /\ u \in Late' <=> u \in Late
            /\ (Closing(ledger) => Closing(ledger)') /\ u \notin Late
                  => Credit(u)' <= Credit(u)
<1>1. ASSUME NEW u \in Threads \ {t}
      PROVE  /\ Answered(u)' = Answered(u) /\ Remaining(u)' = Remaining(u)
             /\ call'[u] = call[u]
             /\ Closing(call[u].answer.quota)' = Closing(call[u].answer.quota)
  BY DEF Answered, Remaining, Closing
<1>2. ASSUME NEW u \in Threads \ {t}
      PROVE  u \in Late' <=> u \in Late
  BY <1>1, <1>2 DEF Late, Closing
<1>3. ASSUME NEW u \in Threads \ {t}, Closing(ledger) => Closing(ledger)', u \notin Late
      PROVE  Credit(u)' <= Credit(u)
  <2>1. Answered(u) => call[u].pc \notin Ended
    BY DEF Answered, Ended
  <2>2. /\ call[u].pc \in Ended => 0 <= MaximumAttempts
        /\ call[u].pc \notin Ended => Remaining(u) <= MaximumAttempts /\ Remaining(u) \in 0..MaximumAttempts
    <3>1. call[u].attempt \in 1..MaximumAttempts /\ MaximumAttempts \in Nat
      BY Sizes DEF ProviderOK, CallOK
    <3>2. QED
      BY <3>1 DEF Remaining
  <2>3. MaximumAttempts \in Nat
    BY Sizes
  <2>4. QED
    BY <1>1, <1>3, <2>1, <2>2, <2>3 DEF Credit
<1>4. QED
  BY <1>2, <1>3

LEMMA CountedCarries ==
  ASSUME PInv, ProviderOK', left' = left, overdrawn' = overdrawn,
         left = 0 => Worth(Credits, Late)' <= Worth(Credits, Late)
  PROVE  Counted'
<1>1. /\ Worth(Credits, Late) \in Nat /\ Worth(Credits, Late)' \in Nat
      /\ overdrawn \in Nat /\ OverdrawBound \in Nat /\ left \in Nat
  BY WorthIsNat, BoundNat, ProviderAssumption DEF PInv, ProviderOK
<1>2. /\ left > 0 => overdrawn' = 0
      /\ left = 0 => overdrawn + Worth(Credits, Late) <= OverdrawBound
  BY DEF PInv, Counted
<1>3. left = 0 => overdrawn' + Worth(Credits, Late)' <= OverdrawBound
  BY <1>1, <1>2
<1>4. OverdrawBound' = OverdrawBound
  BY DEF OverdrawBound
<1>5. QED
  BY <1>2, <1>3, <1>4 DEF Counted

\* require_available.
LEMMA BeginCounts ==
  ASSUME PInv, NEW t \in Threads, Begin(t)
  PROVE  PInv'
<1>1. /\ call[t].pc \in Ended /\ left' = left /\ reset' = reset /\ overdrawn' = overdrawn
      /\ \/ ~Blocked /\ call' = [call EXCEPT ![t] = [Free EXCEPT !.pc = "send"]] /\ ledger' = Forget
         \/ Blocked /\ call' = [call EXCEPT ![t] = [Free EXCEPT !.pc = "refused"]] /\ ledger' = ledger
  BY DEF Begin, To, RequireAvailable
<1>2. ASSUME NEW x \in {"send", "refused"}
      PROVE  /\ CallOK([Free EXCEPT !.pc = x])
             /\ [Free EXCEPT !.pc = x].pc = x
  BY Sizes DEF Free, CallOK, Ended
<1>3. ledger \in Quotas /\ ledger' \in Quotas
  BY <1>1 DEF PInv, ProviderOK, Quotas, Forget
<1>4. PICK x \in {"send", "refused"} : /\ call' = [call EXCEPT ![t] = [Free EXCEPT !.pc = x]]
                                       /\ x = "send" => ~Blocked
  BY <1>1
<1>5. ProviderOK' /\ call'[t].pc = x /\ \A u \in Threads \ {t} : call'[u] = call[u]
  BY <1>1, <1>2, <1>3, <1>4, ThreadTypes DEF PInv, ProviderOK
<1>6. Closing(ledger) => Blocked
  <2>1. reset \in Nat /\ reset > 0
    BY ProviderAssumption DEF PInv, ProviderOK
  <2>2. Larger(ledger.resets, ledger.after) \in Nat
    BY <1>3, QuotaShape, ProviderAssumption DEF Larger
  <2>3. QED
    BY <2>1, <2>2 DEF Closing, Blocked
<1>7. Closing(ledger) => Closing(ledger)'
  BY <1>1, <1>6 DEF Closing
<1>8. t \notin Late /\ t \notin Late' /\ ~Answered(t) /\ ~Answered(t)'
  BY <1>1, <1>5 DEF Late, Answered, Ended
<1>9. Credit(t)' <= Credit(t)
  <2>1. CASE Closing(ledger)
    <3>1. x = "refused"
      BY <1>4, <1>6, <2>1
    <3>2. Credit(t)' = 0
      BY <1>5, <1>7, <2>1, <3>1 DEF Credit, Ended
    <3>3. Credit(t) \in 0..MaximumAttempts
      BY CreditRange DEF PInv
    <3>4. QED
      BY <3>2, <3>3
  <2>2. CASE ~Closing(ledger)
    <3>1. Credit(t) = MaximumAttempts
      BY <1>8, <2>2 DEF Credit
    <3>2. Credit(t)' \in 0..MaximumAttempts /\ MaximumAttempts \in Nat
      BY <1>5, CreditRangeNext, Sizes
    <3>3. QED
      BY <3>1, <3>2
  <2>3. QED
    BY <2>1, <2>2
<1>10. \A u \in Threads \ {t} : /\ u \in Late' <=> u \in Late
                                /\ u \notin Late => Credit(u)' <= Credit(u)
  BY <1>1, <1>5, <1>7, Others DEF PInv
<1>11. Late' \subseteq Late /\ \A u \in Threads \ Late : Credit(u)' <= Credit(u)
  <2>1. Late' \subseteq Threads
    BY DEF Late
  <2>2. QED
    BY <1>8, <1>9, <1>10, <2>1
<1>12. Worth(Credits, Late)' <= Worth(Credits, Late)
  BY <1>5, <1>11, Carried DEF PInv
<1>13. QED
  BY <1>1, <1>5, <1>12, CountedCarries DEF PInv

LEMMA CallShape ==
  ASSUME NEW c, CallOK(c)
  PROVE  c = [pc |-> c.pc, attempt |-> c.attempt, timer |-> c.timer, answer |-> c.answer]
BY DEF CallOK

LEMMA Flies ==
  ASSUME NEW c, CallOK(c), NEW a \in Answer
  PROVE  /\ CallOK([c EXCEPT !.pc = "flight", !.answer = a])
         /\ [c EXCEPT !.pc = "flight", !.answer = a].pc = "flight"
         /\ [c EXCEPT !.pc = "flight", !.answer = a].answer = a
         /\ [c EXCEPT !.pc = "flight", !.answer = a].attempt = c.attempt
<1>1. PICK w, x, y, z : c = [pc |-> w, attempt |-> x, timer |-> y, answer |-> z]
  BY CallShape
<1> DEFINE k == [c EXCEPT !.pc = "flight", !.answer = a]
<1>2. k = [pc |-> "flight", attempt |-> x, timer |-> y, answer |-> a]
  <2>1. [c EXCEPT !.pc = "flight"] = [pc |-> "flight", attempt |-> x, timer |-> y, answer |-> z]
    BY ONLY <1>1
  <2>2. PICK d : d = [c EXCEPT !.pc = "flight"]
    OBVIOUS
  <2>3. d = [pc |-> "flight", attempt |-> x, timer |-> y, answer |-> z]
    BY ONLY <2>1, <2>2
  <2>4. [d EXCEPT !.answer = a] = [pc |-> "flight", attempt |-> x, timer |-> y, answer |-> a]
    BY ONLY <2>3
  <2>5. k = [d EXCEPT !.answer = a]
    BY ONLY <2>2
  <2>6. QED
    BY <2>4, <2>5
<1>3. x \in 1..MaximumAttempts
  BY <1>1 DEF CallOK
<1> HIDE DEF k
<1>4. CallOK(k)
  BY <1>2, <1>3 DEF CallOK, Ended
<1>5. k.pc = "flight" /\ k.answer = a /\ k.attempt = c.attempt
  BY <1>1, <1>2
<1>6. QED
  BY <1>4, <1>5 DEF k

\* The request of t leaves.
LEMMA SendCounts ==
  ASSUME PInv, NEW t \in Threads, Send(t)
  PROVE  PInv'
<1>1. call[t].pc = "send" /\ CallOK(call[t]) /\ reset' = reset /\ ledger' = ledger
  BY DEF Send, PInv, ProviderOK
<1>2. PICK a \in Answers \cup {Lost} :
        /\ call' = [call EXCEPT ![t] = [call[t] EXCEPT !.pc = "flight", !.answer = a]]
        /\ \/ /\ left' = Less(left)
              /\ overdrawn' = IF left = 0 /\ a # Lost THEN overdrawn + 1 ELSE overdrawn
           \/ a = Lost /\ left' = left /\ overdrawn' = overdrawn
  BY DEF Send, To
<1>3. a \in Answer /\ (left = 0 /\ a # Lost => Closing(a.quota))
  BY AnswersAre DEF PInv
<1>4. left \in Nat /\ overdrawn \in Nat /\ left' \in 0..Limit /\ overdrawn' \in Nat
  BY <1>2, ProviderAssumption DEF PInv, ProviderOK, Less
<1> DEFINE c == [call[t] EXCEPT !.pc = "flight", !.answer = a]
<1>5. CallOK(c) /\ c.pc = "flight" /\ c.answer = a /\ c.attempt = call[t].attempt
  BY <1>1, <1>3, Flies
<1> HIDE DEF c
<1>6. call' = [call EXCEPT ![t] = c]
  BY <1>2 DEF c
<1>7. ProviderOK' /\ call'[t] = c /\ \A u \in Threads \ {t} : call'[u] = call[u]
  <2>1. ledger' \in Quotas
    BY <1>1 DEF PInv, ProviderOK, Quotas
  <2>2. QED
    BY <1>1, <1>4, <1>5, <1>6, <2>1, ThreadTypes DEF PInv
<1>8. Closing(ledger)' = Closing(ledger)
  BY <1>1 DEF Closing
<1>9. \A u \in Threads \ {t} : /\ u \in Late' <=> u \in Late
                               /\ u \notin Late => Credit(u)' <= Credit(u)
  BY <1>1, <1>7, <1>8, Others DEF PInv
<1>10. t \notin Late /\ ~Answered(t) /\ (Answered(t)' <=> a # Lost)
  BY <1>1, <1>5, <1>7 DEF Late, Answered
<1>11. left = 0 => t \notin Late'
  <2>1. ASSUME Closing(a.quota)
        PROVE  Closing(call[t].answer.quota)'
    BY <1>1, <1>5, <1>7, <2>1 DEF Closing
  <2>2. QED
    BY <1>3, <1>10, <2>1 DEF Late
<1>12. left = 0 => Late' = Late
  <2>1. Late' \subseteq Threads /\ Late \subseteq Threads
    BY DEF Late
  <2>2. QED
    BY <1>9, <1>10, <1>11, <2>1
<1>13. call[t].attempt \in 1..MaximumAttempts /\ MaximumAttempts \in Nat
  BY <1>1, Sizes DEF CallOK
<1>14. Remaining(t) = MaximumAttempts - call[t].attempt + 1
       /\ Remaining(t)' = MaximumAttempts - call[t].attempt
  BY <1>1, <1>5, <1>7 DEF Remaining
<1>15. Credit(t) = IF Closing(ledger) THEN MaximumAttempts - call[t].attempt + 1
                                      ELSE MaximumAttempts
  BY <1>1, <1>10, <1>14 DEF Credit, Ended
<1>16. Credit(t)' = IF Closing(ledger) \/ a # Lost THEN MaximumAttempts - call[t].attempt
                                                   ELSE MaximumAttempts
  BY <1>5, <1>7, <1>8, <1>10, <1>14 DEF Credit, Ended
<1>17. CASE left = 0 /\ a # Lost
  <2>1. left' = 0 /\ overdrawn' = overdrawn + 1
    BY <1>2, <1>17 DEF Less
  <2>2. Credit(t)' <= Credit(t) - 1
    BY <1>13, <1>15, <1>16, <1>17
  <2>3. 1 + Worth(Credits, Late)' <= Worth(Credits, Late)
    <3>1. Late' = Late /\ t \in Threads \ Late
      BY <1>10, <1>12, <1>17
    <3>2. \A u \in Threads \ Late : u # t => Credit(u)' <= Credit(u)
      BY <1>9
    <3>3. QED
      BY <1>7, <2>2, <3>1, <3>2, Spent DEF PInv
  <2>4. /\ Worth(Credits, Late) \in Nat /\ Worth(Credits, Late)' \in Nat
        /\ OverdrawBound \in Nat /\ OverdrawBound' = OverdrawBound
    BY WorthIsNat, BoundNat DEF OverdrawBound
  <2>5. overdrawn + Worth(Credits, Late) <= OverdrawBound
    BY <1>17 DEF PInv, Counted
  <2>6. overdrawn' + Worth(Credits, Late)' <= OverdrawBound
    BY <1>4, <2>1, <2>3, <2>4, <2>5
  <2>7. QED
    BY <1>7, <2>1, <2>4, <2>6 DEF PInv, Counted
<1>18. CASE left = 0 /\ a = Lost
  <2>1. left' = left /\ overdrawn' = overdrawn
    BY <1>2, <1>18 DEF Less
  <2>2. Credit(t)' <= Credit(t)
    BY <1>13, <1>15, <1>16, <1>18
  <2>3. Late' \subseteq Late /\ \A u \in Threads \ Late : Credit(u)' <= Credit(u)
    BY <1>9, <1>12, <1>18, <2>2
  <2>4. Worth(Credits, Late)' <= Worth(Credits, Late)
    BY <1>7, <2>3, Carried DEF PInv
  <2>5. QED
    BY <1>7, <2>1, <2>4, CountedCarries DEF PInv
<1>19. CASE left > 0
  <2>1. overdrawn = 0 /\ overdrawn' = 0
    BY <1>2, <1>19 DEF PInv, Counted
  <2>2. Worth(Credits, Late)' \in Nat /\ Worth(Credits, Late)' <= OverdrawBound
    BY WorthIsNat
  <2>3. OverdrawBound' = OverdrawBound
    BY DEF OverdrawBound
  <2>4. overdrawn' + Worth(Credits, Late)' <= OverdrawBound
    BY <2>1, <2>2
  <2>5. QED
    BY <1>7, <2>1, <2>3, <2>4 DEF PInv, Counted
<1>20. QED
  BY <1>4, <1>17, <1>18, <1>19

\* The answer of t arrives and is recorded.
LEMMA ReceiveCounts ==
  ASSUME PInv, NEW t \in Threads, Receive(t)
  PROVE  PInv'
<1> DEFINE a == call[t].answer
<1>1. /\ call[t].pc = "flight" /\ CallOK(call[t]) /\ a \in Answer
      /\ left' = left /\ reset' = reset /\ overdrawn' = overdrawn
      /\ IF a = Lost THEN ledger' = ledger ELSE ledger' = a.quota
  BY DEF Receive, Record, PInv, ProviderOK, CallOK
<1>2. call[t].attempt \in 1..MaximumAttempts /\ MaximumAttempts \in Nat
  BY <1>1, Sizes DEF CallOK
<1>3. PICK c : /\ call' = [call EXCEPT ![t] = c] /\ CallOK(c)
               /\ \/ c.pc \in Ended
                  \/ c.pc = "sleep" /\ c.attempt = call[t].attempt
  <2> DEFINE n == call[t].attempt
             d == DelayFor(n, a)
  <2>1. \/ call' = [call EXCEPT ![t] = Free]
        \/ call' = [call EXCEPT ![t] = [Free EXCEPT !.pc = "raised"]]
        \/ /\ call' = [call EXCEPT ![t] = [pc |-> "sleep", attempt |-> n, answer |-> NoAnswer,
                                           timer |-> d]]
           /\ n # MaximumAttempts
    BY DEF Receive, To
  <2>2. CallOK(Free) /\ Free.pc \in Ended
    BY <1>2 DEF Free, CallOK, Ended
  <2>3. CallOK([Free EXCEPT !.pc = "raised"]) /\ [Free EXCEPT !.pc = "raised"].pc \in Ended
    BY <1>2 DEF Free, CallOK, Ended
  <2> HIDE DEF n, d
  <2>4. ASSUME n # MaximumAttempts
        PROVE  LET c == [pc |-> "sleep", attempt |-> n, answer |-> NoAnswer, timer |-> d]
               IN  CallOK(c) /\ c.pc = "sleep" /\ c.attempt = n
    <3>1. n \in 1..MaximumAttempts /\ n < MaximumAttempts
      BY <1>2, <2>4 DEF n
    <3>2. QED
      BY <3>1 DEF CallOK, Ended
  <2>5. QED
    BY <2>1, <2>2, <2>3, <2>4 DEF n
<1>4. a.quota \in Quotas
  BY <1>1, AnswerShape
<1>5. ProviderOK' /\ call'[t] = c /\ \A u \in Threads \ {t} : call'[u] = call[u]
  <2>1. ledger' \in Quotas /\ left' \in 0..Limit /\ overdrawn' \in Nat
    BY <1>1, <1>4 DEF PInv, ProviderOK, Quotas
  <2>2. QED
    BY <1>1, <1>3, <2>1, ThreadTypes DEF PInv
<1>6. t \notin Late' /\ ~Answered(t)'
  BY <1>3, <1>5 DEF Late, Answered, Ended
<1>7. \A u \in Threads \ {t} : u \in Late' <=> u \in Late
  BY <1>1, <1>5, Others DEF PInv
<1>8. Late' \subseteq Late
  <2>1. Late' \subseteq Threads
    BY DEF Late
  <2>2. QED
    BY <1>6, <1>7, <2>1
<1>9. CASE t \in Late
  <2>1. Worth(Credits, Late)' <= Worth(Credits, Late)
    BY <1>5, <1>6, <1>8, <1>9, Opened DEF PInv
  <2>2. QED
    BY <1>1, <1>5, <2>1, CountedCarries DEF PInv
<1>10. CASE t \notin Late
  <2>1. a = Lost \/ Closing(a.quota)
    BY <1>1, <1>10 DEF Late, Answered
  <2>2. Closing(ledger) => Closing(ledger)'
    BY <1>1, <2>1 DEF Closing
  <2>3. a # Lost => Closing(ledger)'
    BY <1>1, <2>1 DEF Closing
  <2>4. Remaining(t) = MaximumAttempts - call[t].attempt
    BY <1>1 DEF Remaining
  <2>5. Credit(t) = IF Closing(ledger) \/ a # Lost THEN MaximumAttempts - call[t].attempt
                                                   ELSE MaximumAttempts
    BY <1>1, <2>4 DEF Credit, Answered, Ended
  <2>6. Closing(ledger)' => Credit(t)' = 0 \/ Credit(t)' = MaximumAttempts - call[t].attempt
    BY <1>3, <1>5 DEF Credit, Remaining, Ended
  <2>7. Credit(t)' \in 0..MaximumAttempts
    BY <1>5, CreditRangeNext
  <2>8. Credit(t)' <= Credit(t)
    BY <1>2, <2>2, <2>3, <2>5, <2>6, <2>7
  <2>9. \A u \in Threads \ {t} : u \notin Late => Credit(u)' <= Credit(u)
    BY <1>1, <1>5, <2>2, Others DEF PInv
  <2>10. Worth(Credits, Late)' <= Worth(Credits, Late)
    BY <1>5, <1>8, <2>8, <2>9, Carried DEF PInv
  <2>11. QED
    BY <1>1, <1>5, <2>10, CountedCarries DEF PInv
<1>11. QED
  BY <1>9, <1>10

LEMMA Wakes ==
  ASSUME NEW c, CallOK(c), c.pc = "sleep"
  PROVE  /\ CallOK([c EXCEPT !.pc = "send", !.attempt = @ + 1])
         /\ [c EXCEPT !.pc = "send", !.attempt = @ + 1].pc = "send"
         /\ [c EXCEPT !.pc = "send", !.attempt = @ + 1].attempt = c.attempt + 1
<1>1. PICK w, x, y, z : c = [pc |-> w, attempt |-> x, timer |-> y, answer |-> z]
  BY CallShape
<1> DEFINE k == [c EXCEPT !.pc = "send", !.attempt = @ + 1]
<1>2. k = [pc |-> "send", attempt |-> x + 1, timer |-> y, answer |-> z]
  <2>1. [c EXCEPT !.pc = "send"] = [pc |-> "send", attempt |-> x, timer |-> y, answer |-> z]
    BY ONLY <1>1
  <2>2. PICK d : d = [c EXCEPT !.pc = "send"]
    OBVIOUS
  <2>3. d = [pc |-> "send", attempt |-> x, timer |-> y, answer |-> z]
    BY ONLY <2>1, <2>2
  <2>4. [d EXCEPT !.attempt = @ + 1] = [pc |-> "send", attempt |-> x + 1, timer |-> y,
                                        answer |-> z]
    BY ONLY <2>3
  <2>5. k = [d EXCEPT !.attempt = @ + 1]
    BY ONLY <2>2
  <2>6. QED
    BY <2>4, <2>5
<1>3. x \in 1..MaximumAttempts /\ x < MaximumAttempts /\ z = NoAnswer
  BY <1>1 DEF CallOK
<1>4. x + 1 \in 1..MaximumAttempts
  BY <1>3, Sizes
<1> HIDE DEF k
<1>5. CallOK(k)
  BY <1>2, <1>3, <1>4 DEF CallOK, Ended
<1>6. k.pc = "send" /\ k.attempt = c.attempt + 1
  BY <1>1, <1>2
<1>7. QED
  BY <1>5, <1>6 DEF k

\* The backoff of t is over.
LEMMA WakeCounts ==
  ASSUME PInv, NEW t \in Threads, Wake(t)
  PROVE  PInv'
<1>1. /\ call[t].pc = "sleep" /\ CallOK(call[t])
      /\ ledger' = ledger /\ left' = left /\ reset' = reset /\ overdrawn' = overdrawn
  BY DEF Wake, PInv, ProviderOK
<1>2. PICK c : /\ call' = [call EXCEPT ![t] = c] /\ CallOK(c) /\ c.pc = "send"
               /\ c.attempt = call[t].attempt + 1
  <2>1. call' = [call EXCEPT ![t] = [call[t] EXCEPT !.pc = "send", !.attempt = @ + 1]]
    BY DEF Wake, To
  <2>2. QED
    BY <1>1, <2>1, Wakes
<1>3. ProviderOK' /\ call'[t] = c /\ \A u \in Threads \ {t} : call'[u] = call[u]
  <2>1. ledger' \in Quotas /\ left' \in 0..Limit /\ overdrawn' \in Nat
    BY <1>1 DEF PInv, ProviderOK, Quotas
  <2>2. QED
    BY <1>1, <1>2, <2>1, ThreadTypes DEF PInv
<1>4. Closing(ledger)' = Closing(ledger)
  BY <1>1 DEF Closing
<1>5. t \notin Late /\ t \notin Late' /\ ~Answered(t) /\ ~Answered(t)'
  BY <1>1, <1>2, <1>3 DEF Late, Answered
<1>6. Credit(t)' = Credit(t)
  <2>1. call[t].attempt \in 1..MaximumAttempts /\ MaximumAttempts \in Nat
    BY <1>1, Sizes DEF CallOK
  <2>2. Remaining(t)' = Remaining(t)
    BY <1>1, <1>2, <1>3, <2>1 DEF Remaining
  <2>3. QED
    BY <1>1, <1>2, <1>3, <1>4, <1>5, <2>2 DEF Credit, Ended
<1>7. \A u \in Threads \ {t} : /\ u \in Late' <=> u \in Late
                               /\ u \notin Late => Credit(u)' <= Credit(u)
  BY <1>1, <1>3, <1>4, Others DEF PInv
<1>8. Late' \subseteq Late
  <2>1. Late' \subseteq Threads
    BY DEF Late
  <2>2. QED
    BY <1>5, <1>7, <2>1
<1>9. Credit(t)' <= Credit(t)
  <2>1. Credit(t) \in 0..MaximumAttempts
    BY CreditRange DEF PInv
  <2>2. QED
    BY <1>6, <2>1
<1>10. Worth(Credits, Late)' <= Worth(Credits, Late)
  BY <1>3, <1>7, <1>8, <1>9, Carried DEF PInv
<1>11. QED
  BY <1>1, <1>3, <1>10, CountedCarries DEF PInv

LEMMA Passes ==
  ASSUME NEW c, CallOK(c)
  PROVE  /\ CallOK(TickCall(c))
         /\ TickCall(c).pc = c.pc /\ TickCall(c).attempt = c.attempt
         /\ TickCall(c).answer = TickAnswer(c.answer)
<1>1. PICK w, x, y, z : c = [pc |-> w, attempt |-> x, timer |-> y, answer |-> z]
  BY CallShape
<1>2. TickCall(c) = [pc |-> w, attempt |-> x, timer |-> Less(y), answer |-> TickAnswer(z)]
  <2>1. PICK d : d = [c EXCEPT !.timer = Less(@)]
    OBVIOUS
  <2>2. d = [pc |-> w, attempt |-> x, timer |-> Less(y), answer |-> z]
    BY ONLY <1>1, <2>1
  <2>3. PICK a : a = TickAnswer(c.answer)
    OBVIOUS
  <2>4. [d EXCEPT !.answer = a] = [pc |-> w, attempt |-> x, timer |-> Less(y), answer |-> a]
    BY ONLY <2>2
  <2>5. TickCall(c) = [d EXCEPT !.answer = a]
    BY ONLY <2>1, <2>3 DEF TickCall
  <2>6. a = TickAnswer(z)
    BY <1>1, <2>3
  <2>7. QED
    BY <2>4, <2>5, <2>6
<1>3. /\ w \in Ended \cup {"send", "flight", "sleep"} /\ x \in 1..MaximumAttempts
      /\ w = "flight" => z \in Answer
      /\ w # "flight" => z = NoAnswer
      /\ w = "sleep" => x < MaximumAttempts
  BY <1>1 DEF CallOK
<1>4. /\ w = "flight" => TickAnswer(z) \in Answer
      /\ w # "flight" => TickAnswer(z) = NoAnswer
  BY <1>3, AnswerTicks DEF TickAnswer
<1>5. PICK b, e : b = Less(y) /\ e = TickAnswer(z)
  OBVIOUS
<1>6. PICK k : k = TickCall(c)
  OBVIOUS
<1>7. k = [pc |-> w, attempt |-> x, timer |-> b, answer |-> e]
  BY <1>2, <1>5, <1>6
<1>8. CallOK(k)
  BY <1>3, <1>4, <1>5, <1>7 DEF CallOK
<1>9. k.pc = c.pc /\ k.attempt = c.attempt /\ k.answer = TickAnswer(c.answer)
  BY <1>1, <1>5, <1>7
<1>10. QED
  BY <1>6, <1>8, <1>9

\* What closes the capability now still closes it a second later.
LEMMA ClosingTicks ==
  ASSUME NEW q \in Quotas, NEW b \in BOOLEAN, Closing(q), reset \in Nat \ {0}, reset' = reset - 1
  PROVE  Closing(q)' /\ Closing(TickQuota(q, b))'
<1>1. q.status = "exhausted" /\ q.resets \in Nat /\ q.after \in Nat
  BY QuotaShape, ProviderAssumption DEF Closing
<1>2. Larger(q.resets, q.after) >= reset
  BY DEF Closing
<1>3. /\ TickQuota(q, b).status = "exhausted"
      /\ TickQuota(q, b).resets = Less(q.resets)
      /\ TickQuota(q, b).after \in {Less(q.after), q.after}
  BY <1>1, QuotaTicks
<1>4. Larger(TickQuota(q, b).resets, TickQuota(q, b).after) >= reset - 1
  <2> DEFINE x == q.resets
             y == q.after
             v == TickQuota(q, b).resets
             w == TickQuota(q, b).after
  <2>1. x \in Nat /\ y \in Nat /\ v = Less(x) /\ w \in {Less(y), y} /\ Larger(x, y) >= reset
    BY <1>1, <1>2, <1>3
  <2> HIDE DEF x, y, v, w
  <2>2. Larger(v, w) >= reset - 1
    BY <2>1 DEF Larger, Less
  <2>3. QED
    BY <2>2 DEF v, w
<1>5. Larger(q.resets, q.after) >= reset - 1
  BY <1>1, <1>2 DEF Larger
<1>6. QED
  BY <1>1, <1>3, <1>4, <1>5 DEF Closing

\* One second passes.
LEMMA TickCounts ==
  ASSUME PInv, Tick
  PROVE  PInv'
<1>1. /\ ledger' = TickQuota(ledger, TRUE)
      /\ call' = [t \in Threads |-> TickCall(call[t])]
      /\ \/ reset = 1 /\ reset' = Window /\ left' = Limit /\ overdrawn' = 0
         \/ reset # 1 /\ reset' = reset - 1 /\ left' = left /\ overdrawn' = overdrawn
  BY DEF Tick
<1>2. \A t \in Threads : /\ CallOK(call[t]) /\ CallOK(call'[t]) /\ call'[t] = TickCall(call[t])
                         /\ call'[t].pc = call[t].pc /\ call'[t].attempt = call[t].attempt
                         /\ call'[t].answer = TickAnswer(call[t].answer)
  BY <1>1, Passes DEF PInv, ProviderOK
<1>3. ledger \in Quotas /\ ledger' \in Quotas
  <2>1. ledger \in Quotas
    BY DEF PInv, ProviderOK, Quotas
  <2>2. QED
    BY <1>1, <2>1, QuotaTicks
<1>4. ProviderOK'
  <2>1. call' = [t \in Threads |-> call'[t]]
    BY <1>1
  <2>2. reset' \in 1..Window /\ left' \in 0..Limit /\ overdrawn' \in Nat
    BY <1>1, ProviderAssumption DEF PInv, ProviderOK
  <2>3. \A x : CallOK(x)' = CallOK(x)
    BY DEF CallOK
  <2>4. QED
    BY <1>2, <1>3, <2>1, <2>2, <2>3 DEF ProviderOK, Quotas
<1>5. CASE reset = 1
  BY <1>1, <1>4, <1>5, ProviderAssumption DEF PInv, Counted
<1>6. CASE reset # 1
  <2>1. reset' = reset - 1 /\ left' = left /\ overdrawn' = overdrawn /\ reset \in Nat \ {0}
    BY <1>1, <1>6, ProviderAssumption DEF PInv, ProviderOK
  <2>2. Closing(ledger) => Closing(ledger)'
    BY <1>1, <1>3, <2>1, ClosingTicks DEF Closing
  <2>3. ASSUME NEW t \in Threads
        PROVE  /\ Answered(t)' <=> Answered(t)
               /\ Remaining(t)' = Remaining(t)
               /\ Answered(t) /\ Closing(call[t].answer.quota)
                    => Closing(call[t].answer.quota)'
    <3>1. call[t].pc = "flight" => call[t].answer \in Answer
      BY <1>2 DEF CallOK
    <3>2. Answered(t)' <=> Answered(t)
      BY <1>2, <3>1, AnswerTicks DEF Answered
    <3>3. Remaining(t)' = Remaining(t)
      BY <1>2 DEF Remaining
    <3>4. ASSUME Answered(t), Closing(call[t].answer.quota)
          PROVE  Closing(call[t].answer.quota)'
      <4> DEFINE q == call[t].answer.quota
                 z == call'[t].answer.quota
      <4>1. q \in Quotas
        BY <3>1, <3>4, AnswerShape DEF Answered
      <4>2. z = q \/ z = TickQuota(q, FALSE)
        BY <1>2, <3>1, <3>4, AnswerTicks DEF Answered
      <4>3. PICK p : p = q /\ Closing(p) /\ p \in Quotas
        BY <3>4, <4>1
      <4>4. Closing(p)' /\ Closing(TickQuota(p, FALSE))'
        BY <2>1, <4>3, ClosingTicks
      <4>5. z = p \/ z = TickQuota(p, FALSE)
        BY <4>2, <4>3
      <4>6. QED
        BY <4>4, <4>5 DEF Closing, TickQuota
    <3>5. QED
      BY <3>2, <3>3, <3>4
  <2>4. Late' \subseteq Late
    BY <2>3 DEF Late
  <2>5. ASSUME NEW t \in Threads \ Late
        PROVE  Credit(t)' <= Credit(t)
    <3>1. call[t].attempt \in 1..MaximumAttempts /\ MaximumAttempts \in Nat
      BY <1>2, Sizes DEF CallOK
    <3>2. Remaining(t) \in 0..MaximumAttempts
      BY <3>1 DEF Remaining
    <3>3. Answered(t) => call[t].pc \notin Ended
      BY DEF Answered, Ended
    <3>4. call'[t].pc = call[t].pc
      BY <1>2
    <3>5. QED
      BY <2>2, <2>3, <3>1, <3>2, <3>3, <3>4 DEF Credit
  <2>6. Worth(Credits, Late)' <= Worth(Credits, Late)
    BY <1>4, <2>4, <2>5, Carried DEF PInv
  <2>7. QED
    BY <1>4, <2>1, <2>6, CountedCarries DEF PInv
<1>7. QED
  BY <1>5, <1>6

LEMMA PInvInit == Init => PInv
<1> SUFFICES ASSUME Init PROVE PInv
  OBVIOUS
<1>1. \A t \in Threads : CallOK(call[t])
  BY Sizes DEF Init, Free, CallOK, Ended
<1>2. ProviderOK
  BY <1>1, ProviderAssumption DEF Init, ProviderOK
<1>3. Counted
  BY ProviderAssumption DEF Init, Counted
<1>4. QED
  BY <1>2, <1>3 DEF PInv

LEMMA PInvNext == PInv /\ [Next]_vars => PInv'
<1> SUFFICES ASSUME PInv, [Next]_vars PROVE PInv'
  OBVIOUS
<1>1. CASE Tick
  BY <1>1, TickCounts
<1>2. ASSUME NEW t \in Threads, Begin(t) PROVE PInv'
  BY <1>2, BeginCounts
<1>3. ASSUME NEW t \in Threads, Step(t) PROVE PInv'
  BY <1>3, SendCounts, ReceiveCounts, WakeCounts DEF Step
<1>4. CASE UNCHANGED vars
  BY <1>4 DEF vars, PInv, ProviderOK, Counted, CallOK, Worth, Credits, Late, Credit, Remaining,
              Answered, Closing, Pairs, OverdrawBound
<1>5. QED
  BY <1>1, <1>2, <1>3, <1>4 DEF Next

(* The counting invariant holds in every run.                              *)
THEOREM PInvHolds == Spec => []PInv
BY PInvInit, PInvNext, PTL DEF Spec

(* However many threads share the ledger and however late answers arrive,  *)
(* the provider answers at most OverdrawBound requests beyond its quota    *)
(* before the next window: record lets a late answer reopen the capability *)
(* once, and require_available then stops everybody after one execution.   *)
THEOREM OverdrawStaysBounded == Spec => []OverdrawIsBounded
<1>1. PInv => OverdrawIsBounded
  <2> SUFFICES ASSUME PInv PROVE OverdrawIsBounded
    OBVIOUS
  <2>1. Worth(Credits, Late) \in Nat /\ OverdrawBound \in Nat
    BY WorthIsNat, BoundNat
  <2>2. left \in Nat /\ overdrawn \in Nat
    BY ProviderAssumption DEF PInv, ProviderOK
  <2>3. left = 0 => overdrawn + Worth(Credits, Late) <= OverdrawBound
    BY DEF PInv, Counted
  <2>4. left > 0 => overdrawn = 0
    BY DEF PInv, Counted
  <2>5. overdrawn <= OverdrawBound
    BY <2>1, <2>2, <2>3, <2>4
  <2>6. QED
    BY <2>5 DEF OverdrawIsBounded
<1>2. QED
  BY <1>1, PInvHolds, PTL

=============================================================================
