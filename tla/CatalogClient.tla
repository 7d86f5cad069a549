---------------------------- MODULE CatalogClient ----------------------------
(***************************************************************************)
(* CatalogClient: the three requests to the external API, the retries of   *)
(* AsyncRetryExecutor around them and the delay of AdaptiveRateLimiter     *)
(* between them.                                                           *)
(*                                                                         *)
(* A client belongs to one execution of a task, which makes one call at a  *)
(* time.  An answer is modelled by what _handle_errors and the except      *)
(* clauses of execute tell apart; what is JSON is taken to be an object.   *)
(* How long the client sleeps is left out, except for the limiter's delay, *)
(* which is kept from call to call; it is counted in tenths of a second,   *)
(* rounded down.                                                           *)
(***************************************************************************)
EXTENDS Integers, Sequences, FiniteSets

CONSTANTS
    Limits,        \* the pairs (max_retries, rate_limit_retries) to configure
    InitialDelay,  \* 15
    MinDelay,      \* 6
    MaxDelay,      \* 100
    MaxAnswers     \* bound: a call that may be rate limited for ever is not

ASSUME CatalogClientAssumption ==
    /\ Limits \subseteq [max : Int, rate : Int]
    /\ MinDelay \in Nat \ {0} /\ MaxDelay \in Nat
    /\ InitialDelay \in MinDelay..MaxDelay
    /\ MaxAnswers \in Nat

Operations == {"get_file_names", "download_files_stream", "mark_downloaded"}

RateLimited == "rate_limited"

\* The exceptions that execute catches besides: a 5xx, and what is an
\* httpx.HTTPError: no answer in time or at all, and the rest of 4xx, which
\* raise_for_status makes one.
Retried == {"server", "client", "transport"}

\* Answers by which the API asks for less; int() refuses a Retry-After that
\* is a date.
Pressing == {RateLimited, "rate_limited_date", "blocked", "blocked_date"}

Final == {"ok", "rate_limited_date", "blocked", "blocked_date", "forbidden",
          "not_found", "bad_json", "disk"}

Answers == {RateLimited} \cup Retried \cup Final

\* An archive is not parsed here, the others are not written to a disk.
AnswersTo(o) ==
    Answers \ (IF o = "download_files_stream" THEN {"bad_json"} ELSE {"disk"})

VARIABLES
    limits,        \* the limits this client was configured with
    delay,         \* the limiter's _delay
    pc,            \* where the call is
    op,            \* the call
    attempt,       \* execute's counters
    rate_attempt,
    tempfiles,     \* how many temporary archives exist
    outcome,       \* how the last call ended
    answers        \* history: the answers to the call's requests

vars == <<limits, delay, pc, op, attempt, rate_attempt, tempfiles, outcome, answers>>

Init ==
    /\ limits \in Limits
    /\ delay = InitialDelay
    /\ pc = "idle"
    /\ op \in Operations
    /\ attempt = 0
    /\ rate_attempt = 0
    /\ tempfiles = 0
    /\ outcome = "none"
    /\ answers = <<>>

-----------------------------------------------------------------------------
(* AdaptiveRateLimiter. *)

AtLeast(a, b) == IF a < b THEN b ELSE a
AtMost(a, b) == IF a < b THEN a ELSE b

OnSuccess(d) == AtLeast(MinDelay, (d * 9) \div 10)

OnFailure_Unbounded(d) == (d * 25) \div 10

OnFailure(d) == AtMost(MaxDelay, (d * 25) \div 10)

\* _handle_errors and the successful end of a request.
DelayAfter_OnAnyAnswer(a) == IF a \in Pressing THEN OnFailure(delay) ELSE OnSuccess(delay)

DelayAfter(a) ==
    CASE a \in Pressing -> OnFailure(delay)
      [] a = "ok" -> OnSuccess(delay)
      [] OTHER -> delay

-----------------------------------------------------------------------------
(* One request. *)

Call(o) ==
    /\ pc = "idle"
    /\ pc' = "limiter"
    /\ op' = o
    /\ attempt' = 0
    /\ rate_attempt' = 0
    /\ outcome' = "none"
    /\ answers' = <<>>
    /\ UNCHANGED <<limits, delay, tempfiles>>

\* rate_limiter.wait() is over: a download makes its temporary file first.
Request ==
    /\ pc = "limiter"
    /\ pc' = "requested"
    /\ tempfiles' = tempfiles + (IF op = "download_files_stream" THEN 1 ELSE 0)
    /\ UNCHANGED <<limits, delay, op, attempt, rate_attempt, outcome, answers>>

\* The file of a download that raised is deleted.
Unlinked_OnlyWhenRaised(end) ==
    IF op = "download_files_stream" /\ end = "failed" THEN tempfiles - 1 ELSE tempfiles

Unlinked(end) ==
    IF op = "download_files_stream" THEN tempfiles - 1 ELSE tempfiles

Answer(a) ==
    /\ pc = "requested"
    /\ a \in AnswersTo(op)
    /\ answers' = Append(answers, a)
    /\ delay' = DelayAfter(a)
    /\ UNCHANGED <<limits, op>>

Raise(end) ==
    /\ pc' = "idle"
    /\ outcome' = end
    /\ tempfiles' = Unlinked(end)

Retry ==
    /\ pc' = "sleeping"
    /\ tempfiles' = Unlinked("retry")
    /\ UNCHANGED outcome

-----------------------------------------------------------------------------
(* AsyncRetryExecutor.execute. *)

Succeed ==
    /\ Answer("ok")
    /\ IF op = "download_files_stream"
       THEN pc' = "reading" /\ UNCHANGED outcome
       ELSE pc' = "idle" /\ outcome' = "returned"
    /\ UNCHANGED <<attempt, rate_attempt, tempfiles>>

\* Neither except clause is for it.
RaiseAtOnce(a) ==
    /\ a \in Final \ {"ok"}
    /\ Answer(a)
    /\ Raise(IF a = "blocked" THEN "blocked" ELSE "failed")
    /\ UNCHANGED <<attempt, rate_attempt>>

RetryExhausted_AtZero(n) == limits.rate > 0 /\ n > limits.rate

\* A negative limit is none.
RetryExhausted(n) == limits.rate >= 0 /\ n > limits.rate

WaitForRate ==
    /\ Len(answers) < MaxAnswers
    /\ Answer(RateLimited)
    /\ rate_attempt' = rate_attempt + 1
    /\ IF RetryExhausted(rate_attempt') THEN Raise("failed") ELSE Retry
    /\ UNCHANGED attempt

BackOff(a) ==
    /\ a \in Retried
    /\ Answer(a)
    /\ attempt' = attempt + 1
    /\ IF attempt' > limits.max THEN Raise("failed") ELSE Retry
    /\ UNCHANGED rate_attempt

WakeUp ==
    /\ pc = "sleeping"
    /\ pc' = "limiter"
    /\ UNCHANGED <<limits, delay, op, attempt, rate_attempt, tempfiles, outcome, answers>>

\* The archive is read from its file, which is deleted whether that fails or
\* not.
ReadArchive ==
    /\ pc = "reading"
    /\ pc' = "idle"
    /\ outcome' \in {"returned", "failed"}
    /\ tempfiles' = Unlinked(outcome')
    /\ UNCHANGED <<limits, delay, op, attempt, rate_attempt, answers>>

-----------------------------------------------------------------------------

Next ==
    \/ \E o \in Operations : Call(o)
    \/ Request \/ Succeed \/ WaitForRate \/ WakeUp \/ ReadArchive
    \/ \E a \in Answers : RaiseAtOnce(a) \/ BackOff(a)

Spec == Init /\ [][Next]_vars

-----------------------------------------------------------------------------
(* Types. *)

\* The type invariant; the delay stays between its limits.
TypeOK ==
    /\ limits \in Limits
    /\ delay \in MinDelay..MaxDelay
    /\ pc \in {"idle", "limiter", "requested", "sleeping", "reading"}
    /\ op \in Operations
    /\ attempt \in Nat
    /\ rate_attempt \in Nat
    /\ tempfiles \in Nat
    /\ outcome \in {"none", "returned", "blocked", "failed"}
    /\ answers \in Seq(Answers)

-----------------------------------------------------------------------------
(* How a call ends, told from its answers alone. *)

Count(kinds) == Cardinality({i \in 1..Len(answers) : answers[i] \in kinds})

LastAnswer == answers[Len(answers)]

\* The answers so far decide the call: the last one is final, or there was
\* one too many of those that are retried; the two kinds are counted apart.
Decided ==
    /\ answers # <<>>
    /\ \/ LastAnswer \in Final
       \/ LastAnswer \in Retried /\ Count(Retried) > limits.max
       \/ /\ LastAnswer = RateLimited
          /\ limits.rate >= 0
          /\ Count({RateLimited}) > limits.rate

\* No request is made once the answers have decided the call, none is spared
\* before, and a call that is over reports what they decided, with limits of
\* zero, or below, too (retry.py, execute; config.py, the two limits).
EndsAsDecided ==
    /\ pc \in {"limiter", "requested", "sleeping"} => ~Decided
    /\ pc = "reading" => Decided /\ LastAnswer = "ok"
    /\ pc = "idle" /\ answers # <<>> =>
          /\ Decided
          /\ outcome = "returned" => LastAnswer = "ok"
          /\ outcome = "blocked" <=> LastAnswer = "blocked"
          /\ LastAnswer = "ok" =>
                outcome = "returned" \/ op = "download_files_stream"

\* A temporary archive exists exactly while a download is under way: no
\* failed, repeated or finished request leaves one behind, and none is
\* deleted twice (catalog_client.py, _request_download_stream).
OneTempFile ==
    tempfiles = IF \/ pc = "reading"
                   \/ pc = "requested" /\ op = "download_files_stream"
                THEN 1 ELSE 0

\* The client only becomes faster after a request that succeeded, and at
\* every answer by which the API asks for less it becomes slower or is as
\* slow as it can be; other errors leave its pace alone.
PaceFollowsApi ==
    [][ /\ delay' < delay => Len(answers') > Len(answers) /\ LastAnswer' = "ok"
        /\ Len(answers') > Len(answers) /\ LastAnswer' \in Pressing =>
              delay' > delay \/ delay' = MaxDelay
        /\ delay' > delay => LastAnswer' \in Pressing ]_vars
=============================================================================
