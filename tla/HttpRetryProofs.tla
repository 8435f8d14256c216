-------------------------- MODULE HttpRetryProofs --------------------------
(***************************************************************************)
(* Proofs about HttpRetry, for any bound on the retries, any backoff base  *)
(* and any set of status codes.                                            *)
(***************************************************************************)
EXTENDS HttpRetry, FiniteSetTheorems, TLAPS

(* The loop leaves only by a final outcome or with its attempts used up. *)
Looping ==
    /\ TypeOK
    /\ pc # "done" => Len(heard) <= MaxRetries
    /\ pc = "done" => Len(heard) \in 1..(MaxRetries + 1)
    /\ \A i \in 1..Len(heard) : i < Len(heard) \/ pc # "done" => heard[i] \in Transient
    /\ pc = "done" /\ Last \in Transient => Len(heard) = MaxRetries + 1

(* The codes the loop has been given are among those the documentation names. *)
LEMMA TransientIsDocumented == Transient \subseteq DocumentedRetries
BY DEF Transient, RetryableStatus, DocumentedRetries

LEMMA LoopingImplies == Looping => FinalNotRetried /\ GivesUpLast
BY RetriesAssumption, TransientIsDocumented DEF Looping, FinalNotRetried, GivesUpLast, TypeOK

(* What an attempt does to the loop, whatever its outcome. *)
LEMMA HearLemma ==
    ASSUME Looping, NEW o \in Outcome, Hear(o),
           row' \in Row, late' \in Nat
    PROVE  /\ Looping'
           /\ request' = request /\ pc = "attempt"
           /\ Len(heard') = Len(heard) + 1 /\ Last' = o
           /\ Retried(o, Len(heard')) => pc' = "backoff"
           /\ ~ Retried(o, Len(heard')) => pc' = "done"
<1>1. /\ heard \in Seq(Outcome) /\ attempt = Len(heard) /\ pc = "attempt"
      /\ Len(heard) \in Nat /\ Len(heard) <= MaxRetries
      /\ request' = request /\ request \in Request
  BY DEF Looping, TypeOK, Hear
<1>2. heard' = Append(heard, o) /\ attempt' = attempt + 1
  BY DEF Hear
<1>3. /\ heard' \in Seq(Outcome) /\ Len(heard') = Len(heard) + 1
      /\ heard'[Len(heard')] = o
      /\ \A i \in 1..Len(heard) : heard'[i] = heard[i]
  BY <1>1, <1>2
<1>4. pc' = IF Retried(o, Len(heard')) THEN "backoff" ELSE "done"
  BY <1>1, <1>2, <1>3 DEF Hear
<1>5. TypeOK'
  BY <1>1, <1>2, <1>3, <1>4 DEF TypeOK
<1>6. \A i \in 1..Len(heard) : heard[i] \in Transient
  BY <1>1 DEF Looping
<1>7. \A i \in 1..Len(heard') : i < Len(heard') \/ pc' # "done" => heard'[i] \in Transient
  BY <1>1, <1>3, <1>4, <1>6 DEF Retried
<1>8. /\ pc' # "done" => Len(heard') <= MaxRetries
      /\ pc' = "done" => Len(heard') \in 1..(MaxRetries + 1)
      /\ pc' = "done" /\ o \in Transient => Len(heard') = MaxRetries + 1
  BY <1>1, <1>3, <1>4, RetriesAssumption DEF Retried
<1> QED
  BY <1>1, <1>3, <1>4, <1>5, <1>7, <1>8 DEF Looping, Last

LEMMA EffectLemma ==
    ASSUME NEW q \in Request, NEW r \in Row
    PROVE  Effect(q, r) \in Row /\ Code(q, r) \in Protocol
BY DEF Effect, Code, Row, Protocol, Request

(* No code of the protocol is taken for a passing trouble. *)
LEMMA ProtocolLemma == Protocol \intersect Transient = {}
BY CodesAssumption DEF Protocol, Transient, RetryableStatus

LEMMA LoopingStep == ASSUME Looping, [Next]_vars PROVE Looping'
<1>1. request \in Request /\ row \in Row /\ late \in Nat
  BY DEF Looping, TypeOK
<1>2. Effect(request, row) \in Row /\ Code(request, row) \in Outcome
  BY <1>1, EffectLemma DEF Outcome
<1>3. CASE Responded
  BY <1>1, <1>2, <1>3, HearLemma DEF Responded
<1>4. CASE Unresolved
  <2>1. row' \in Row /\ late' \in Nat
    BY <1>1, <1>2, <1>4 DEF Unresolved
  <2> QED
    BY <1>4, <2>1, HearLemma DEF Unresolved, Outcome
<1>5. CASE TurnedDown
  BY <1>1, <1>5, HearLemma DEF TurnedDown, Outcome
<1>6. CASE Backoff
  BY <1>6 DEF Backoff, Looping, TypeOK, Last
<1>7. CASE Arrive
  BY <1>1, <1>2, <1>7 DEF Arrive, Looping, TypeOK, Last
<1>8. CASE UNCHANGED vars
  BY <1>8 DEF vars, Looping, TypeOK, Last
<1> QED
  BY <1>3, <1>4, <1>5, <1>6, <1>7, <1>8 DEF Next

LEMMA LoopingInit == Init => Looping
BY RetriesAssumption DEF Init, Looping, TypeOK

LEMMA LoopingHolds == Spec => []Looping
BY LoopingInit, LoopingStep, PTL DEF Spec

(* http.py:6, "NOT retried (final): every other 4xx": only a missing response, a 429 or
   a 5xx leads to another attempt. *)
THEOREM FinalNotRetriedHolds == Spec => []FinalNotRetried
BY LoopingHolds, LoopingImplies, PTL

(* At most 1 + MaxRetries attempts, and all of them before giving up. *)
THEOREM GivesUpLastHolds == Spec => []GivesUpLast
BY LoopingHolds, LoopingImplies, PTL

(***************************************************************************)
(* What the caller is told.                                                *)
(***************************************************************************)

(* A call that goes on tells nothing; one that ends tells its last outcome. *)
LEMMA ToldLemma ==
    ASSUME Looping, NEW o \in Outcome, Hear(o), row' \in Row, late' \in Nat
    PROVE  /\ Told = "none"
           /\ Told' = IF Retried(o, Len(heard')) THEN "none"
                      ELSE Interpret(request.method, o)
BY HearLemma DEF Told

(* Outside the protocol, every outcome is an error. *)
LEMMA ErrorLemma ==
    ASSUME NEW q \in Request, NEW o \in Outcome \ Protocol
    PROVE  Interpret(q.method, o) = "error"
BY CodesAssumption DEF Interpret, Imported, Read, Deleted, Request, Outcome, Protocol

(* The service's answer, as the client reads it. *)
LEMMA TruthLemma ==
    ASSUME NEW q \in Request, NEW r \in Row
    PROVE  /\ Interpret(q.method, Code(q, r)) = Call!Truth(q, r)
           /\ Effect(q, r) = Call!Effect(q, r)
<1>1. Code(q, r) # Transport
  BY EffectLemma, CodesAssumption DEF Protocol
<1>2. CASE q.method = "post"
  BY <1>1, <1>2 DEF Interpret, Imported, Read, Deleted, Code, Call!Truth, Effect, Call!Effect,
     Request, Row
<1>3. CASE q.method = "get"
  BY <1>1, <1>3 DEF Interpret, Imported, Read, Deleted, Code, Call!Truth, Effect, Call!Effect,
     Request, Row
<1>4. CASE q.method = "delete"
  BY <1>1, <1>4 DEF Interpret, Imported, Read, Deleted, Code, Call!Truth, Effect, Call!Effect,
     Request, Row
<1> QED
  BY <1>2, <1>3, <1>4 DEF Request

(* The loop's own steps, one attempt each, as the abstract call sees them. *)
LEMMA RespondedLemma ==
    ASSUME Looping, Responded
    PROVE  Told = "none" /\ Told' = Interpret(request.method, Code(request, row))
<1>1. request \in Request /\ row \in Row /\ late \in Nat
  BY DEF Looping, TypeOK
<1>2. /\ row' \in Row /\ late' \in Nat /\ Hear(Code(request, row))
      /\ Code(request, row) \in Protocol
  BY <1>1, EffectLemma DEF Responded
<1>3. ~ Retried(Code(request, row), Len(heard'))
  BY <1>2, ProtocolLemma DEF Retried
<1> QED
  BY <1>2, <1>3, ToldLemma DEF Outcome

LEMMA UnresolvedLemma ==
    ASSUME Looping, Unresolved
    PROVE  /\ Told = "none" /\ Len(heard') = Len(heard) + 1 /\ pc = "attempt"
           /\ request' = request
           /\ \/ Len(heard) < MaxRetries /\ pc' = "backoff" /\ Told' = "none"
              \/ Len(heard) = MaxRetries /\ pc' = "done" /\ Told' = "error"
<1>1. request \in Request /\ row \in Row /\ late \in Nat
  BY DEF Looping, TypeOK
<1>2. row' \in Row /\ late' \in Nat
  BY <1>1, EffectLemma DEF Unresolved
<1>3. PICK o \in {Transport} \union (Codes \intersect RetryableStatus) : Hear(o)
  BY DEF Unresolved
<1>4. o \in Outcome \ Protocol /\ o \in Transient
  BY CodesAssumption DEF Outcome, Transient, Protocol, RetryableStatus
<1>5. /\ request' = request /\ pc = "attempt" /\ Len(heard') = Len(heard) + 1
      /\ Retried(o, Len(heard')) => pc' = "backoff"
      /\ ~ Retried(o, Len(heard')) => pc' = "done"
      /\ Told = "none"
      /\ Told' = IF Retried(o, Len(heard')) THEN "none" ELSE Interpret(request.method, o)
  BY <1>2, <1>3, <1>4, HearLemma, ToldLemma
<1>6. Interpret(request.method, o) = "error"
  BY <1>1, <1>4, ErrorLemma
<1>7. Len(heard) \in Nat /\ Len(heard) <= MaxRetries
  BY <1>5 DEF Looping, TypeOK
<1> QED
  BY <1>4, <1>5, <1>6, <1>7, RetriesAssumption DEF Retried

LEMMA TurnedDownLemma ==
    ASSUME Looping, TurnedDown
    PROVE  /\ Told = "none" /\ Told' = "error" /\ UNCHANGED <<request, row, late>>
           /\ pc = "attempt" /\ pc' = "done" /\ Len(heard') = Len(heard) + 1
<1>1. request \in Request /\ row' \in Row /\ late' \in Nat
  BY DEF Looping, TypeOK, TurnedDown
<1>2. PICK o \in Codes \ (RetryableStatus \union Protocol) : Hear(o)
  BY DEF TurnedDown
<1>3. o \in Outcome \ Protocol /\ o \notin Transient
  BY CodesAssumption DEF Outcome, Transient
<1>4. Interpret(request.method, o) = "error"
  BY <1>1, <1>3, ErrorLemma
<1> QED
  BY <1>1, <1>2, <1>3, <1>4, HearLemma, ToldLemma DEF Retried, TurnedDown

(* The request and what the caller was told outlive the call. *)
LEMMA QuietLemma ==
    ASSUME Looping, Backoff \/ Arrive \/ UNCHANGED vars
    PROVE  /\ Told' = Told /\ request' = request /\ heard' = heard
           /\ (pc' = "done" <=> pc = "done")
BY DEF Looping, TypeOK, Told, Last, Backoff, Arrive, vars

(* What the caller is told is, and stays, what the service holds, whatever the
   attempts nobody heard of did before and after. *)
THEOREM AnswersHoldAlways == Spec => []AnswersHold
<1>1. Init => AnswersHold
  BY DEF Init, AnswersHold, Told
<1>2. ASSUME Looping, AnswersHold, [Next]_vars PROVE AnswersHold'
  <2>1. request \in Request /\ row \in Row
    BY <1>2 DEF Looping, TypeOK
  <2>2. CASE Responded
    <3>1. request' = request /\ row' = Effect(request, row)
      BY <2>2 DEF Responded, Hear
    <3>2. Told' = Interpret(request.method, Code(request, row))
      BY <1>2, <2>2, RespondedLemma
    <3>3. Code(request, row) # Transport
      BY <2>1, EffectLemma, CodesAssumption DEF Protocol
    <3>4. CASE request.method = "post"
      BY <2>1, <3>1, <3>2, <3>3, <3>4
         DEF AnswersHold, Interpret, Imported, Read, Deleted, Code, Effect, Request, Row
    <3>5. CASE request.method = "get"
      BY <2>1, <3>1, <3>2, <3>3, <3>5
         DEF AnswersHold, Interpret, Imported, Read, Deleted, Code, Effect, Request, Row
    <3>6. CASE request.method = "delete"
      BY <2>1, <3>1, <3>2, <3>3, <3>6
         DEF AnswersHold, Interpret, Imported, Read, Deleted, Code, Effect, Request, Row
    <3> QED
      BY <2>1, <3>4, <3>5, <3>6 DEF Request
  <2>3. CASE Unresolved
    BY <1>2, <2>3, UnresolvedLemma DEF AnswersHold
  <2>4. CASE TurnedDown
    BY <1>2, <2>4, TurnedDownLemma DEF AnswersHold
  <2>5. CASE Arrive
    <3>1. Told' = Told /\ request' = request
      BY <1>2, <2>5, QuietLemma
    <3>2. row' = Effect(request, row)
      BY <2>5 DEF Arrive
    <3>3. CASE request.method = "post"
      BY <1>2, <2>1, <3>1, <3>2, <3>3 DEF AnswersHold, Effect, Row
    <3>4. CASE request.method # "post"
      BY <1>2, <2>1, <3>1, <3>2, <3>4 DEF AnswersHold, Effect, Row
    <3> QED
      BY <3>3, <3>4
  <2>6. CASE Backoff \/ UNCHANGED vars
    BY <1>2, <2>6, QuietLemma DEF AnswersHold, Backoff, vars
  <2> QED
    BY <1>2, <2>2, <2>3, <2>4, <2>5, <2>6 DEF Next
<1> QED
  BY <1>1, <1>2, LoopingHolds, PTL DEF Spec

(***************************************************************************)
(* The loop implements the call.                                           *)
(***************************************************************************)
Tries == IF pc = "done" THEN Len(heard) - 1 ELSE Len(heard)

LEMMA CallInit == Init => Call!Init
BY DEF Init, Call!Init, Told, Request, Call!Request, Row, Call!Row

LEMMA CallStepLemma == ASSUME Looping, [Next]_vars PROVE [Call!Next]_(Call!vars)
<1>1. request \in Request /\ row \in Row /\ late \in Nat /\ Len(heard) \in Nat
  BY DEF Looping, TypeOK
<1>2. CASE Responded
  <2>1. Told = "none" /\ Told' = Call!Truth(request, row) /\ row' = Call!Effect(request, row)
    BY <1>1, <1>2, RespondedLemma, TruthLemma DEF Responded
  <2>2. UNCHANGED <<request, late>>
    BY <1>2 DEF Responded, Hear
  <2>3. Tries' = Tries
    <3>1. Code(request, row) \in Outcome /\ Code(request, row) \notin Transient
      BY <1>1, EffectLemma, ProtocolLemma DEF Outcome
    <3>2. row' \in Row /\ late' \in Nat /\ Hear(Code(request, row))
      BY <1>1, <1>2, EffectLemma DEF Responded
    <3> QED
      BY <1>1, <3>1, <3>2, HearLemma DEF Tries, Retried
  <2>4. Call!Answered
    BY <2>1, <2>2, <2>3 DEF Call!Answered, Tries
  <2> QED
    BY <2>4 DEF Call!Next
<1>3. CASE Unresolved
  <2>1. Call!Unanswered
    BY <1>1, <1>3, TruthLemma DEF Unresolved, Call!Unanswered
  <2>2. Call!Lost \/ Call!GivenUp
    BY <1>1, <1>3, <2>1, UnresolvedLemma, RetriesAssumption DEF Call!Lost, Call!GivenUp
  <2> QED
    BY <2>2 DEF Call!Next
<1>4. CASE TurnedDown
  BY <1>1, <1>4, TurnedDownLemma DEF Call!Refused, Call!Next
<1>5. CASE Arrive
  <2>1. Call!Arrive
    BY <1>1, <1>5, QuietLemma, TruthLemma DEF Arrive, Call!Arrive
  <2> QED
    BY <2>1 DEF Call!Next
<1>6. CASE Backoff \/ UNCHANGED vars
  BY <1>6, QuietLemma DEF Backoff, vars, Call!vars
<1> QED
  BY <1>2, <1>3, <1>4, <1>5, <1>6 DEF Next

(* RetryingClient.request with the clients around it implements the call the
   commands are modelled with: every attempt is a step of RemoteCall, every
   pause a stutter. *)
THEOREM ImplementsCall == Spec => CallSpec
BY CallInit, CallStepLemma, LoopingHolds, PTL DEF Spec, CallSpec, Call!Spec

(***************************************************************************)
(* The pauses.                                                             *)
(***************************************************************************)

(* 2 ^ n is a number that grows with n: it counts the subsets of 1..n. *)
LEMMA PowerGrows ==
    ASSUME NEW n \in Nat, NEW m \in Nat, n <= m
    PROVE  2 ^ n \in Nat /\ 2 ^ m \in Nat /\ 2 ^ n <= 2 ^ m
<1> DEFINE Subsets(k) == SUBSET (1..k)
           Power(k) == 2 ^ k
<1>1. ASSUME NEW k \in Nat
      PROVE  IsFiniteSet(Subsets(k)) /\ Cardinality(Subsets(k)) = Power(k)
  <2>1. k \in Int /\ 1 \in Int /\ (IF 1 > k THEN 0 ELSE k - 1 + 1) = k
    OBVIOUS
  <2>2. IsFiniteSet(1..k) /\ Cardinality(1..k) = k
    BY <2>1, FS_Interval
  <2> DEFINE S == 1..k
  <2>3. IsFiniteSet(S) /\ Cardinality(S) = k
    BY <2>2
  <2> HIDE DEF S
  <2>4. IsFiniteSet(SUBSET S) /\ Cardinality(SUBSET S) = 2 ^ Cardinality(S)
    BY <2>3, FS_SUBSET
  <2>5. IsFiniteSet(SUBSET S) /\ Cardinality(SUBSET S) = 2 ^ k
    BY <2>3, <2>4
  <2> QED
    BY <2>5 DEF S
<1>2. Subsets(n) \in SUBSET Subsets(m)
  OBVIOUS
<1>3. SUFFICES Power(n) \in Nat /\ Power(m) \in Nat /\ Power(n) <= Power(m)
  OBVIOUS
<1> HIDE DEF Subsets, Power
<1>4. Cardinality(Subsets(n)) <= Cardinality(Subsets(m))
  BY <1>1, <1>2, FS_Subset
<1>5. Cardinality(Subsets(n)) \in Nat /\ Cardinality(Subsets(m)) \in Nat
  BY <1>1, FS_CardinalityType
<1> QED
  BY <1>1, <1>4, <1>5

LEMMA TimesGrows ==
    ASSUME NEW b \in Nat, NEW x \in Nat, NEW y \in Nat, x <= y
    PROVE  b * x \in Nat /\ b * y \in Nat /\ b * x <= b * y
<1>1. PICK d \in Nat : y = x + d
  BY y - x \in Nat
<1>2. b * d \in Nat /\ b * x \in Nat /\ b * (x + d) = b * x + b * d
  OBVIOUS
<1> QED
  BY <1>1, <1>2

(* A pause is at most two seconds, and the next one is not shorter. *)
LEMMA DelayGrows ==
    ASSUME NEW n \in Nat \ {0}, NEW m \in Nat, n <= m
    PROVE  Delay(n) \in 0..20 /\ Delay(m) \in 0..20 /\ Delay(n) <= Delay(m)
<1>1. n - 1 \in Nat /\ m - 1 \in Nat /\ n - 1 <= m - 1
  OBVIOUS
<1>2. 2 ^ (n - 1) \in Nat /\ 2 ^ (m - 1) \in Nat /\ 2 ^ (n - 1) <= 2 ^ (m - 1)
  BY <1>1, PowerGrows
<1> DEFINE a == BackoffBase * 2 ^ (n - 1)
           b == BackoffBase * 2 ^ (m - 1)
<1>3. a \in Nat /\ b \in Nat /\ a <= b
  BY <1>2, TimesGrows, RetriesAssumption
<1>4. /\ Delay(n) = IF a <= 20 THEN a ELSE 20
      /\ Delay(m) = IF b <= 20 THEN b ELSE 20
  BY DEF Delay
<1> HIDE DEF a, b
<1> QED
  BY <1>3, <1>4

(* The i-th pause lasts what Delay(i) says, and one is taken before every attempt but
   the first. *)
Pausing ==
    /\ slept \in Seq(Nat)
    /\ \A i \in 1..Len(slept) : slept[i] = Delay(i)
    /\ Len(slept) = IF pc = "attempt" /\ Len(heard) > 0 THEN Len(heard)
                    ELSE IF Len(heard) = 0 THEN 0 ELSE Len(heard) - 1
    /\ pc = "backoff" => Len(heard) > 0

LEMMA PausingImplies == Looping /\ Pausing => PausesBetween
<1>1. SUFFICES ASSUME Looping, Pausing PROVE PausesBetween
  OBVIOUS
<1>2. heard \in Seq(Outcome) /\ Len(heard) \in Nat /\ Len(slept) \in Nat
  BY <1>1 DEF Looping, TypeOK, Pausing
<1>3. heard = <<>> <=> Len(heard) = 0
  BY <1>2
<1>4. ASSUME NEW i \in 1..Len(slept) PROVE slept[i] <= 20
  <2>1. i \in Nat \ {0} /\ slept[i] = Delay(i)
    BY <1>1, <1>2 DEF Pausing
  <2>2. Delay(i) \in 0..20
    BY <2>1, DelayGrows
  <2> QED
    BY <2>1, <2>2
<1>5. ASSUME NEW i \in 1..Len(slept), i > 1 PROVE slept[i - 1] <= slept[i]
  <2>1. i - 1 \in Nat \ {0} /\ i - 1 \in 1..Len(slept) /\ i \in Nat /\ i - 1 <= i
    BY <1>2, <1>5
  <2>2. Delay(i - 1) <= Delay(i)
    BY <2>1, DelayGrows
  <2> QED
    BY <1>1, <2>1, <2>2 DEF Pausing
<1> QED
  BY <1>1, <1>2, <1>3, <1>4, <1>5 DEF PausesBetween, Pausing

LEMMA PausingStep == ASSUME Looping, Pausing, [Next]_vars PROVE Pausing'
<1>1. /\ heard \in Seq(Outcome) /\ Len(heard) \in Nat /\ Len(slept) \in Nat
      /\ attempt = Len(heard) /\ slept \in Seq(Nat)
  BY DEF Looping, TypeOK, Pausing
<1>2. CASE \E o : Hear(o)
  <2>1. PICK o : Hear(o)
    BY <1>2
  <2>2. /\ pc = "attempt" /\ heard' = Append(heard, o) /\ slept' = slept
        /\ pc' \in {"backoff", "done"}
    BY <2>1 DEF Hear
  <2>3. Len(heard') = Len(heard) + 1
    BY <1>1, <2>2
  <2> QED
    BY <1>1, <2>2, <2>3 DEF Pausing
<1>3. CASE Backoff
  <2>1. /\ pc = "backoff" /\ pc' = "attempt" /\ heard' = heard
        /\ slept' = Append(slept, Delay(Len(heard)))
    BY <1>1, <1>3 DEF Backoff
  <2>2. Len(heard) \in Nat \ {0} /\ Len(slept) + 1 = Len(heard)
    BY <1>1, <2>1 DEF Pausing
  <2>3. Delay(Len(heard)) \in Nat
    <3>1. ASSUME NEW n \in Nat \ {0} PROVE Delay(n) \in Nat
      BY DelayGrows
    <3> QED
      BY <2>2, <3>1
  <2>4. /\ slept' \in Seq(Nat) /\ Len(slept') = Len(heard)
        /\ slept'[Len(heard)] = Delay(Len(heard))
        /\ \A i \in 1..Len(slept) : slept'[i] = slept[i]
    BY <1>1, <2>1, <2>2, <2>3
  <2> QED
    BY <1>1, <2>1, <2>2, <2>4 DEF Pausing
<1>4. CASE Arrive \/ UNCHANGED vars
  BY <1>4 DEF Arrive, vars, Pausing
<1> QED
  BY <1>2, <1>3, <1>4 DEF Next, Responded, Unresolved, TurnedDown

(* http.py:1, "small backoff": one pause before every attempt but the first, each no
   shorter than the one before, and none above two seconds: for any base and bound. *)
THEOREM PausesBetweenHolds == Spec => []PausesBetween
<1>1. Init => Pausing
  BY DEF Init, Pausing
<1> QED
  BY <1>1, LoopingHolds, PausingStep, PausingImplies, PTL DEF Spec

(* http.py:93-117: the loop variable of request is the number of attempts made. *)
THEOREM TypesHold == Spec => []TypeOK
<1>1. Looping => TypeOK
  BY DEF Looping
<1> QED
  BY <1>1, LoopingHolds, PTL
============================================================================
