------------------------- MODULE CatalogClientProofs -------------------------
(***************************************************************************)
(* Proofs about CatalogClient for every pair of limits and every delay.    *)
(***************************************************************************)
EXTENDS CatalogClient, FiniteSetTheorems, SequenceTheorems, TLAPS

-----------------------------------------------------------------------------
(* Types. *)

LEMMA DelayType ==
    ASSUME NEW d \in MinDelay..MaxDelay
    PROVE  /\ OnSuccess(d) \in MinDelay..MaxDelay /\ OnSuccess(d) <= d
           /\ OnFailure(d) \in MinDelay..MaxDelay
           /\ OnFailure(d) > d \/ OnFailure(d) = MaxDelay
<1>1. /\ d \in Nat \ {0} /\ MinDelay \in Nat /\ MaxDelay \in Nat
      /\ MinDelay <= d /\ d <= MaxDelay
  BY CatalogClientAssumption
<1>2. (d * 9) \div 10 \in Nat /\ (d * 9) \div 10 <= d
  BY <1>1, SMT
<1>3. (d * 25) \div 10 \in Nat /\ (d * 25) \div 10 > d
  BY <1>1, SMT
<1> QED
  BY <1>1, <1>2, <1>3 DEF OnSuccess, OnFailure, AtLeast, AtMost

LEMMA InitClientType == Init => TypeOK
BY CatalogClientAssumption DEF Init, TypeOK, Answers

LEMMA AnswerType ==
    ASSUME TypeOK, NEW a, Answer(a)
    PROVE  /\ delay' \in MinDelay..MaxDelay
           /\ answers' \in Seq(Answers)
           /\ a \in Answers
<1>1. delay' \in MinDelay..MaxDelay
  BY DelayType DEF Answer, DelayAfter, TypeOK
<1>2. a \in Answers
  BY DEF Answer, AnswersTo
<1> QED
  BY <1>1, <1>2 DEF Answer, TypeOK

\* A temporary file that is deleted exists.
FileInUse ==
    pc = "reading" \/ (pc = "requested" /\ op = "download_files_stream")

ClientInv ==
    /\ TypeOK
    /\ OneTempFile
    /\ pc = "reading" => op = "download_files_stream"

LEMMA UnlinkedIsZero ==
    ASSUME ClientInv, pc \in {"requested", "reading"}, NEW end
    PROVE  Unlinked(end) = 0
BY DEF ClientInv, OneTempFile, Unlinked

LEMMA ClientNext == ClientInv /\ [Next]_vars => ClientInv'
<1> SUFFICES ASSUME ClientInv, [Next]_vars PROVE ClientInv'
  OBVIOUS
<1> USE DEF ClientInv
<1>1. ASSUME NEW o \in Operations, Call(o)
      PROVE  ClientInv'
  BY <1>1 DEF Call, TypeOK, OneTempFile
<1>2. CASE Request
  BY <1>2 DEF Request, TypeOK, OneTempFile
<1>3. CASE Succeed
  <2>1. TypeOK'
    BY <1>3, AnswerType DEF Succeed, Answer, TypeOK
  <2> QED
    BY <1>3, <2>1 DEF Succeed, Answer, OneTempFile
<1>4. ASSUME NEW a \in Answers, RaiseAtOnce(a)
      PROVE  ClientInv'
  <2>1. pc' = "idle" /\ tempfiles' = 0
    BY <1>4, UnlinkedIsZero DEF RaiseAtOnce, Answer, Raise
  <2>2. TypeOK'
    BY <1>4, <2>1, AnswerType DEF RaiseAtOnce, Raise, Answer, TypeOK
  <2> QED
    BY <2>1, <2>2 DEF OneTempFile
<1>5. CASE WaitForRate
  <2>1. pc' \in {"idle", "sleeping"} /\ tempfiles' = 0
    BY <1>5, UnlinkedIsZero DEF WaitForRate, Answer, Raise, Retry
  <2>2. TypeOK'
    BY <1>5, <2>1, AnswerType DEF WaitForRate, Raise, Retry, Answer, TypeOK
  <2> QED
    BY <2>1, <2>2 DEF OneTempFile
<1>6. ASSUME NEW a \in Answers, BackOff(a)
      PROVE  ClientInv'
  <2>1. pc' \in {"idle", "sleeping"} /\ tempfiles' = 0
    BY <1>6, UnlinkedIsZero DEF BackOff, Answer, Raise, Retry
  <2>2. TypeOK'
    BY <1>6, <2>1, AnswerType DEF BackOff, Raise, Retry, Answer, TypeOK
  <2> QED
    BY <2>1, <2>2 DEF OneTempFile
<1>7. CASE WakeUp
  BY <1>7 DEF WakeUp, TypeOK, OneTempFile
<1>8. CASE ReadArchive
  <2>1. pc' = "idle" /\ tempfiles' = 0
    BY <1>8, UnlinkedIsZero DEF ReadArchive
  <2> QED
    BY <1>8, <2>1 DEF ReadArchive, TypeOK, OneTempFile
<1>9. CASE UNCHANGED vars
  BY <1>9 DEF vars, TypeOK, OneTempFile
<1> QED
  BY <1>1, <1>2, <1>3, <1>4, <1>5, <1>6, <1>7, <1>8, <1>9 DEF Next

LEMMA ClientAlways == Spec => []ClientInv
<1>1. Init => ClientInv
  BY InitClientType DEF Init, ClientInv, OneTempFile
<1> QED
  BY <1>1, ClientNext, PTL DEF Spec

\* The client keeps its types, and its delay between the two limits
\* (rate_limiter.py), whatever the API answers.
THEOREM ClientTypeCorrect == Spec => []TypeOK
<1>1. ClientInv => TypeOK
  BY DEF ClientInv
<1> QED
  BY <1>1, ClientAlways, PTL

\* A temporary archive exists exactly while a download is under way, however
\* many of its requests fail (catalog_client.py, _request_download_stream and
\* download_files_stream).
THEOREM NoTempFileIsLeft == Spec => []OneTempFile
<1>1. ClientInv => OneTempFile
  BY DEF ClientInv
<1> QED
  BY <1>1, ClientAlways, PTL

-----------------------------------------------------------------------------
(* The pace. *)

LEMMA AnswerIsLast ==
    ASSUME TypeOK, NEW a, Answer(a)
    PROVE  /\ Len(answers') = Len(answers) + 1 /\ Len(answers) \in Nat
           /\ answers' # <<>>
           /\ LastAnswer' = a
           /\ delay' = DelayAfter(a)
<1>1. answers \in Seq(Answers) /\ a \in Answers /\ answers' = Append(answers, a)
  BY AnswerType DEF Answer, TypeOK
<1>2. \A s \in Seq(Answers), x \in Answers :
         /\ Len(Append(s, x)) = Len(s) + 1 /\ Len(s) \in Nat
         /\ Append(s, x) # <<>>
         /\ Append(s, x)[Len(s) + 1] = x
  OBVIOUS
<1> QED
  BY <1>1, <1>2 DEF LastAnswer, Answer

\* The client speeds up only after a success and slows down whenever the API
\* presses, until it is as slow as it can be (catalog_client.py,
\* _handle_errors; rate_limiter.py).
THEOREM PaceIsAsked == Spec => PaceFollowsApi
<1>1. ASSUME ClientInv, NEW a, Answer(a)
      PROVE  /\ delay' < delay => Len(answers') > Len(answers) /\ LastAnswer' = "ok"
             /\ LastAnswer' \in Pressing => delay' > delay \/ delay' = MaxDelay
             /\ delay' > delay => LastAnswer' \in Pressing
  <2>1. /\ Len(answers') > Len(answers)
        /\ LastAnswer' = a /\ delay' = DelayAfter(a)
    BY <1>1, AnswerIsLast DEF ClientInv
  <2>2. /\ delay \in MinDelay..MaxDelay /\ OnSuccess(delay) <= delay
        /\ OnSuccess(delay) \in MinDelay..MaxDelay
        /\ OnFailure(delay) > delay \/ OnFailure(delay) = MaxDelay
        /\ OnFailure(delay) \in MinDelay..MaxDelay
    BY <1>1, DelayType DEF ClientInv, TypeOK
  <2>3. MinDelay \in Nat /\ MaxDelay \in Nat
    BY CatalogClientAssumption
  <2>4. CASE a \in Pressing
    <3>1. a # "ok"
      BY <2>4 DEF Pressing, RateLimited
    <3>2. delay' = OnFailure(delay)
      BY <2>1, <2>4, <3>1 DEF DelayAfter
    <3> QED
      BY <2>1, <2>2, <2>3, <2>4, <3>2
  <2>5. CASE a = "ok"
    <3>1. a \notin Pressing
      BY <2>5 DEF Pressing, RateLimited
    <3> QED
      BY <2>1, <2>2, <2>3, <2>5, <3>1 DEF DelayAfter
  <2>6. CASE a \notin Pressing /\ a # "ok"
    BY <2>1, <2>2, <2>3, <2>6 DEF DelayAfter
  <2> QED
    BY <2>4, <2>5, <2>6
<1>2. ASSUME ClientInv, UNCHANGED delay, answers' = answers \/ answers' = <<>>
      PROVE  ~(delay' < delay) /\ ~(delay' > delay) /\ ~(Len(answers') > Len(answers))
  <2>1. delay \in Int /\ Len(answers) \in Nat /\ Len(<<>>) = 0
    BY <1>2, CatalogClientAssumption DEF ClientInv, TypeOK
  <2> QED
    BY <1>2, <2>1
<1>3. ClientInv /\ [Next]_vars =>
        [ /\ delay' < delay => Len(answers') > Len(answers) /\ LastAnswer' = "ok"
          /\ Len(answers') > Len(answers) /\ LastAnswer' \in Pressing =>
                delay' > delay \/ delay' = MaxDelay
          /\ delay' > delay => LastAnswer' \in Pressing ]_vars
  <2> SUFFICES ASSUME ClientInv, Next
               PROVE  /\ delay' < delay => /\ Len(answers') > Len(answers)
                                           /\ LastAnswer' = "ok"
                      /\ Len(answers') > Len(answers) /\ LastAnswer' \in Pressing =>
                            delay' > delay \/ delay' = MaxDelay
                      /\ delay' > delay => LastAnswer' \in Pressing
    OBVIOUS
  <2>1. CASE \/ \E o \in Operations : Call(o)
             \/ Request \/ WakeUp \/ ReadArchive
    <3>1. UNCHANGED delay /\ (answers' = answers \/ answers' = <<>>)
      BY <2>1 DEF Call, Request, WakeUp, ReadArchive
    <3> QED
      BY <3>1, <1>2
  <2>2. CASE \/ Succeed \/ WaitForRate
             \/ \E a \in Answers : RaiseAtOnce(a) \/ BackOff(a)
    <3>1. PICK a : Answer(a)
      BY <2>2 DEF Succeed, WaitForRate, RaiseAtOnce, BackOff
    <3> QED
      BY <3>1, <1>1
  <2> QED
    BY <2>1, <2>2 DEF Next
<1> QED
  BY <1>3, ClientAlways, PTL DEF Spec, PaceFollowsApi

-----------------------------------------------------------------------------
(* How a call ends. *)

NumOf(s, kinds) == Cardinality({i \in 1..Len(s) : s[i] \in kinds})

LEMMA NumOfAppend ==
    ASSUME NEW s \in Seq(Answers), NEW a \in Answers, NEW kinds
    PROVE  /\ NumOf(s, kinds) \in Nat
           /\ NumOf(Append(s, a), kinds) =
                NumOf(s, kinds) + (IF a \in kinds THEN 1 ELSE 0)
<1> DEFINE n == Len(s) + 1
           S == {i \in 1..Len(s) : s[i] \in kinds}
           T == {i \in 1..Len(Append(s, a)) : Append(s, a)[i] \in kinds}
<1>1. IsFiniteSet(S) /\ n \notin S
  <2>1. Len(s) \in Nat
    OBVIOUS
  <2>2. IsFiniteSet(1..Len(s))
    BY <2>1, FS_Interval
  <2>3. S \subseteq 1..Len(s)
    OBVIOUS
  <2>4. n \notin 1..Len(s)
    BY <2>1
  <2> QED
    BY <2>2, <2>3, <2>4, FS_Subset
<1>2. T = IF a \in kinds THEN S \cup {n} ELSE S
  <2>1. /\ Len(s) \in Nat /\ Len(Append(s, a)) = n
        /\ Append(s, a)[n] = a
        /\ \A i \in 1..Len(s) : Append(s, a)[i] = s[i]
    OBVIOUS
  <2>2. 1..n = 1..Len(s) \cup {n}
    BY <2>1
  <2> QED
    BY <2>1, <2>2
<1> HIDE DEF S, T, n
<1>3. Cardinality(S) \in Nat /\ Cardinality(S \cup {n}) = Cardinality(S) + 1
  BY <1>1, FS_CardinalityType, FS_AddElement
<1>4. Cardinality(T) = Cardinality(S) + (IF a \in kinds THEN 1 ELSE 0)
  BY <1>2, <1>3
<1> QED
  BY <1>3, <1>4 DEF NumOf, S, T

\* The counters of execute count what the history holds.
Counted ==
    pc \in {"limiter", "requested", "sleeping"} =>
        /\ attempt = NumOf(answers, Retried)
        /\ rate_attempt = NumOf(answers, {RateLimited})

EndsInv == ClientInv /\ Counted /\ EndsAsDecided

LEMMA CountIsNumOf ==
    /\ \A kinds : Count(kinds) = NumOf(answers, kinds)
    /\ \A kinds : Count(kinds)' = NumOf(answers', kinds)
BY DEF Count, NumOf

\* The sets of answers are apart.
LEMMA AnswerKinds ==
    ASSUME NEW a \in Answers
    PROVE  /\ a \in Retried => a \notin Final /\ a # RateLimited /\ a # "blocked"
           /\ a = RateLimited => a \notin Final /\ a \notin Retried /\ a # "blocked"
           /\ a \in Final => a \notin Retried /\ a # RateLimited
           /\ "ok" \in Final /\ RateLimited # "ok" /\ "ok" \notin Retried
BY DEF Answers, Retried, Final, RateLimited

\* What an answer does to the verdict.
LEMMA VerdictAfter ==
    ASSUME EndsInv, NEW a, Answer(a)
    PROVE  /\ a \in Answers /\ answers' # <<>> /\ LastAnswer' = a
           /\ limits' = limits
           /\ attempt \in Nat /\ rate_attempt \in Nat
           /\ limits.max \in Int /\ limits.rate \in Int
           /\ NumOf(answers', Retried) =
                attempt + (IF a \in Retried THEN 1 ELSE 0)
           /\ NumOf(answers', {RateLimited}) =
                rate_attempt + (IF a = RateLimited THEN 1 ELSE 0)
           /\ Decided' <=>
                \/ a \in Final
                \/ a \in Retried /\ attempt + 1 > limits.max
                \/ a = RateLimited /\ limits.rate >= 0
                                   /\ rate_attempt + 1 > limits.rate
<1>1. /\ a \in Answers /\ answers' # <<>> /\ LastAnswer' = a
      /\ limits' = limits /\ answers' = Append(answers, a)
      /\ answers \in Seq(Answers) /\ pc = "requested"
  BY AnswerType, AnswerIsLast DEF EndsInv, ClientInv, Answer, TypeOK
<1>2. attempt \in Nat /\ rate_attempt \in Nat
  BY DEF EndsInv, ClientInv, TypeOK
<1>3. limits.max \in Int /\ limits.rate \in Int
  BY CatalogClientAssumption DEF EndsInv, ClientInv, TypeOK
<1>4. attempt = NumOf(answers, Retried) /\ rate_attempt = NumOf(answers, {RateLimited})
  BY <1>1 DEF EndsInv, Counted
<1>5. /\ NumOf(answers', Retried) = attempt + (IF a \in Retried THEN 1 ELSE 0)
      /\ NumOf(answers', {RateLimited}) =
           rate_attempt + (IF a \in {RateLimited} THEN 1 ELSE 0)
  BY <1>1, <1>4, NumOfAppend
<1>6. Decided' <=>
        \/ a \in Final
        \/ a \in Retried /\ NumOf(answers', Retried) > limits.max
        \/ a = RateLimited /\ limits.rate >= 0
                           /\ NumOf(answers', {RateLimited}) > limits.rate
  BY <1>1, CountIsNumOf DEF Decided
<1> QED
  BY <1>1, <1>2, <1>3, <1>5, <1>6

LEMMA SameVerdict ==
    ASSUME UNCHANGED <<limits, answers>>
    PROVE  (Decided' <=> Decided) /\ LastAnswer' = LastAnswer
BY DEF Decided, LastAnswer, Count

LEMMA InitEnds == Init => EndsInv
<1> SUFFICES ASSUME Init PROVE EndsInv
  OBVIOUS
<1>1. ClientInv
  BY InitClientType DEF Init, ClientInv, OneTempFile
<1> QED
  BY <1>1 DEF Init, EndsInv, Counted, EndsAsDecided

LEMMA EndsNext == EndsInv /\ [Next]_vars => EndsInv'
<1> SUFFICES ASSUME EndsInv, [Next]_vars PROVE EndsInv'
  OBVIOUS
<1>0. ClientInv'
  BY ClientNext DEF EndsInv
<1>1. ASSUME NEW o \in Operations, Call(o)
      PROVE  EndsInv'
  <2>1. /\ pc' = "limiter" /\ attempt' = 0 /\ rate_attempt' = 0
        /\ answers' = <<>>
    BY <1>1 DEF Call
  <2>2. \A kinds : NumOf(<<>>, kinds) = 0
    <3>1. \A kinds : {i \in 1..Len(<<>>) : <<>>[i] \in kinds} = {}
      OBVIOUS
    <3> QED
      BY <3>1, FS_EmptySet DEF NumOf
  <2>3. ~Decided'
    BY <2>1 DEF Decided
  <2> QED
    BY <1>0, <2>1, <2>2, <2>3 DEF EndsInv, Counted, EndsAsDecided
<1>2. CASE Request \/ WakeUp
  <2>1. /\ pc \in {"limiter", "sleeping"} /\ pc' \in {"limiter", "requested"}
        /\ UNCHANGED <<limits, answers, attempt, rate_attempt>>
    BY <1>2 DEF Request, WakeUp
  <2>2. ~Decided'
    BY <2>1, SameVerdict DEF EndsInv, EndsAsDecided
  <2> QED
    BY <1>0, <2>1, <2>2 DEF EndsInv, Counted, EndsAsDecided
<1>3. CASE Succeed
  <2>1. Decided' /\ LastAnswer' = "ok"
    BY <1>3, VerdictAfter, AnswerKinds DEF Succeed
  <2>2. pc' = "reading" \/ (pc' = "idle" /\ outcome' = "returned")
    BY <1>3 DEF Succeed
  <2> QED
    BY <1>0, <2>1, <2>2 DEF EndsInv, Counted, EndsAsDecided
<1>4. ASSUME NEW a \in Answers, RaiseAtOnce(a)
      PROVE  EndsInv'
  <2>1. Decided' /\ LastAnswer' = a /\ a # "ok"
    BY <1>4, VerdictAfter DEF RaiseAtOnce
  <2>2. pc' = "idle" /\ outcome' = (IF a = "blocked" THEN "blocked" ELSE "failed")
    BY <1>4 DEF RaiseAtOnce, Raise
  <2> QED
    BY <1>0, <2>1, <2>2 DEF EndsInv, Counted, EndsAsDecided
<1>5. CASE WaitForRate
  <2>1. Answer(RateLimited) /\ rate_attempt' = rate_attempt + 1 /\ attempt' = attempt
    BY <1>5 DEF WaitForRate
  <2>2. /\ LastAnswer' = RateLimited
        /\ RateLimited \notin Retried /\ RateLimited \notin Final
        /\ RateLimited # "ok" /\ RateLimited # "blocked"
    BY <2>1, VerdictAfter, AnswerKinds
  <2>3. /\ NumOf(answers', Retried) = attempt'
        /\ NumOf(answers', {RateLimited}) = rate_attempt'
        /\ Decided' <=> RetryExhausted(rate_attempt')
    <3>1. /\ attempt \in Nat /\ rate_attempt \in Nat
          /\ NumOf(answers', Retried) =
               attempt + (IF RateLimited \in Retried THEN 1 ELSE 0)
          /\ NumOf(answers', {RateLimited}) =
               rate_attempt + (IF RateLimited = RateLimited THEN 1 ELSE 0)
      BY <2>1, VerdictAfter
    <3>2. Decided' <=>
            \/ RateLimited \in Final
            \/ RateLimited \in Retried /\ attempt + 1 > limits.max
            \/ RateLimited = RateLimited /\ limits.rate >= 0
                               /\ rate_attempt + 1 > limits.rate
      BY <2>1, VerdictAfter
    <3> QED
      BY <2>1, <2>2, <3>1, <3>2 DEF RetryExhausted
  <2>4. \/ pc' = "idle" /\ outcome' = "failed" /\ Decided'
        \/ pc' = "sleeping" /\ ~Decided'
    BY <1>5, <2>3 DEF WaitForRate, Raise, Retry
  <2> QED
    BY <1>0, <2>2, <2>3, <2>4 DEF EndsInv, Counted, EndsAsDecided
<1>6. ASSUME NEW a \in Answers, BackOff(a)
      PROVE  EndsInv'
  <2>1. /\ Answer(a) /\ a \in Retried
        /\ attempt' = attempt + 1 /\ rate_attempt' = rate_attempt
    BY <1>6 DEF BackOff
  <2>2. /\ LastAnswer' = a
        /\ a \notin Final /\ a # RateLimited /\ a # "ok" /\ a # "blocked"
    BY <2>1, VerdictAfter, AnswerKinds
  <2>3. /\ NumOf(answers', Retried) = attempt'
        /\ NumOf(answers', {RateLimited}) = rate_attempt'
        /\ Decided' <=> attempt' > limits.max
    <3>1. /\ attempt \in Nat /\ rate_attempt \in Nat
          /\ NumOf(answers', Retried) =
               attempt + (IF a \in Retried THEN 1 ELSE 0)
          /\ NumOf(answers', {RateLimited}) =
               rate_attempt + (IF a = RateLimited THEN 1 ELSE 0)
      BY <2>1, VerdictAfter
    <3>2. Decided' <=>
            \/ a \in Final
            \/ a \in Retried /\ attempt + 1 > limits.max
            \/ a = RateLimited /\ limits.rate >= 0
                               /\ rate_attempt + 1 > limits.rate
      BY <2>1, VerdictAfter
    <3> QED
      BY <2>1, <2>2, <3>1, <3>2
  <2>4. \/ pc' = "idle" /\ outcome' = "failed" /\ Decided'
        \/ pc' = "sleeping" /\ ~Decided'
    BY <1>6, <2>3 DEF BackOff, Raise, Retry
  <2> QED
    BY <1>0, <2>2, <2>3, <2>4 DEF EndsInv, Counted, EndsAsDecided
<1>7. CASE ReadArchive
  <2>1. /\ pc = "reading" /\ pc' = "idle" /\ outcome' \in {"returned", "failed"}
        /\ op' = op /\ UNCHANGED <<limits, answers>>
    BY <1>7 DEF ReadArchive
  <2>2. Decided' /\ LastAnswer' = "ok"
    BY <2>1, SameVerdict DEF EndsInv, EndsAsDecided
  <2>3. op' = "download_files_stream"
    BY <2>1 DEF EndsInv, ClientInv
  <2> QED
    BY <1>0, <2>1, <2>2, <2>3 DEF EndsInv, Counted, EndsAsDecided
<1>8. CASE UNCHANGED vars
  <2>1. (Decided' <=> Decided) /\ LastAnswer' = LastAnswer
    BY <1>8, SameVerdict DEF vars
  <2> QED
    BY <1>0, <1>8, <2>1 DEF vars, EndsInv, Counted, EndsAsDecided
<1> QED
  BY <1>1, <1>2, <1>3, <1>4, <1>5, <1>6, <1>7, <1>8 DEF Next

\* For all limits, zero, negative and unlimited ones included, and every
\* sequence of answers: a call makes exactly the requests it should and
\* reports what their answers decided (retry.py, execute).
THEOREM CallsEndAsDecided == Spec => []EndsAsDecided
<1>1. EndsInv => EndsAsDecided
  BY DEF EndsInv
<1> QED
  BY <1>1, InitEnds, EndsNext, PTL DEF Spec
=============================================================================
