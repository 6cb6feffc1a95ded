------------------------ MODULE ParseWorkflow_proofs ------------------------
(***************************************************************************)
(* Theorems about ParseWorkflow, for any number of retries, any delays and *)
(* any selection of the provider's answers.                                *)
(***************************************************************************)
EXTENDS ParseWorkflow, TLAPS, SequenceTheorems

-----------------------------------------------------------------------------
(* The inductive invariant                                                 *)

\* The histories and the audit grow together: a call is sent, and slept for, before
\* it is answered and audited.
LengthInv ==
    /\ Len(audits) = attempts /\ Len(answers) = attempts
    /\ Len(slept) = Len(sent)
    /\ Len(sent) \in {attempts, attempts + 1} /\ Len(sent) <= MaxAttempts
    /\ node = "calling" => Len(sent) = attempts + 1
    /\ node \notin {"calling", "cancelled"} => Len(sent) = attempts
    /\ node = "prepare_input" => attempts = 0
    /\ node \in {"validate_candidate", "build_result"} => attempts > 0

\* What the entry of attempt i says; the entry of a candidate that waits for its
\* validation says that it was received.
EntryInvOf(i) ==
    /\ audits[i].attempt = i
    /\ audits[i].backoff = RetryDelay(i)
    /\ \/ audits[i].outcome = Verdict(answers[i])
       \/ i = attempts /\ node \in {"validate_candidate", "cancelled"}

EntryInv ==
    /\ \A i \in 1 .. attempts : EntryInvOf(i)
    /\ \A i \in 1 .. Len(slept) : slept[i] = RetryDelay(i)

\* What a call carries is due to the answer before it.
SentInvOf(i) ==
    /\ sent[i].feedback \in {0, i - 1}
    /\ i > 1 /\ answers[i - 1].body \in {"not_json", "bad_schema", "bad_semantics"} =>
           sent[i] = [feedback |-> i - 1, previous |-> i - 1]
    /\ i > 1 => audits[i - 1].retryable

SentInv == \A i \in 1 .. Len(sent) : SentInvOf(i)

\* A candidate that was received from the last attempt.
Candidate == raw = attempts /\ error = NoError
Received(a) == a.status = "ok" /\ a.body \notin {"none", "bad_envelope", "empty", "bad_id"}

\* What each node finds in the state.
NodeInv ==
    /\ result # 0 => node = "done"
    /\ node = "prepare_input" => error = NoError
    /\ node = "invoke_model" =>
          /\ attempts < MaxAttempts
          /\ error.details \in {0, attempts}
          /\ attempts > 0 =>
                /\ audits[attempts].retryable
                /\ answers[attempts].body \in {"not_json", "bad_schema", "bad_semantics"} =>
                      error.details = attempts /\ raw = attempts
    /\ node = "calling" => attempts < MaxAttempts
    /\ node = "validate_candidate" => Candidate /\ Received(answers[attempts])
    /\ node = "build_result" => Candidate /\ answers[attempts].body = "good"
    /\ node = "error" =>
          /\ error # NoError
          /\ attempts > 0 => ~audits[attempts].retryable \/ attempts = MaxAttempts
    /\ node = "done" =>
          /\ (result = 0) <=> (error # NoError)
          /\ result # 0 => result = attempts /\ answers[attempts].body = "good"
          /\ result = 0 /\ attempts > 0 =>
                ~audits[attempts].retryable \/ attempts = MaxAttempts

IInv == TypeOK /\ LengthInv /\ EntryInv /\ SentInv /\ NodeInv

-----------------------------------------------------------------------------
(* Facts about delays and answers                                          *)

\* A delay is none before the first call and never longer than the maximum.
LEMMA DelayBound ==
    ASSUME NEW i \in Nat
    PROVE  RetryDelay(i) <= IF i <= 1 THEN 0 ELSE MaxDelay
BY DelayAssumption DEF RetryDelay, Least

\* The number of attempts is at least one.
LEMMA AttemptFacts == MaxAttempts \in Nat /\ MaxAttempts >= 1
BY RetriesAssumption DEF MaxAttempts

\* Every answer is one of the kinds that the adapter tells apart.
LEMMA AnswerFacts ==
    ASSUME NEW a \in Answers
    PROVE  /\ a.status \in Outages \cup {"ok"}
           /\ a.status # "ok" => a.body = "none"
           /\ a.status = "ok" => a.body \in Bodies
           /\ a.usage \in BOOLEAN
<1>1. CASE \E s \in Outages : a = [status |-> s, body |-> "none", usage |-> FALSE]
  BY <1>1 DEF Outages
<1>2. CASE a \in [status : {"ok"}, body : Bodies, usage : BOOLEAN]
  BY <1>2
<1> QED
  BY <1>1, <1>2, AnswersAssumption DEF AllAnswers

\* An issue that the adapter raises is typed, and says what the answer deserves.
LEMMA AdapterIssueFacts ==
    ASSUME NEW a \in Answers, NEW n \in Nat, AdapterFails(a)
    PROVE  /\ AdapterIssue(a, n).code = Verdict(a) /\ Verdict(a) \in Codes \ {"none"}
           /\ AdapterIssue(a, n).retryable \in BOOLEAN
           /\ AdapterIssue(a, n).details \in {0, n}
           /\ AdapterIssue(a, n) = [code |-> AdapterIssue(a, n).code,
                                    retryable |-> AdapterIssue(a, n).retryable,
                                    details |-> AdapterIssue(a, n).details]
           /\ AdapterIssue(a, n) # NoError
           /\ a.body \notin {"not_json", "bad_schema", "bad_semantics"}
<1>1. CASE a.status # "ok"
  <2>1. a.status \in Outages /\ a.body = "none"
    BY <1>1, AnswerFacts
  <2>2. Verdict(a) = a.status /\ a.status \in Codes \ {"none"}
    BY <1>1, <2>1 DEF Verdict, Codes, Outages
  <2> QED
    BY <1>1, <2>1, <2>2 DEF AdapterIssue, NoError
<1>2. CASE a.status = "ok"
  <2>1. a.body \in {"bad_envelope", "empty", "bad_id"}
    BY <1>2 DEF AdapterFails
  <2>2. Verdict(a) = a.body /\ a.body \in Codes \ {"none"}
    BY <1>2, <2>1 DEF Verdict, Codes, Bodies
  <2> QED
    BY <1>2, <2>1, <2>2 DEF AdapterIssue, NoError
<1> QED
  BY <1>1, <1>2

\* So is the issue that the validation has with a candidate that was received.
LEMMA CandidateIssueFacts ==
    ASSUME NEW a \in Answers, NEW n \in Nat, ~AdapterFails(a)
    PROVE  /\ Received(a)
           /\ a.body = "good" => CandidateIssue(a.body, n) = NoError /\ Verdict(a) = "success"
           /\ a.body # "good" =>
                 /\ CandidateIssue(a.body, n) =
                       [code |-> Verdict(a), retryable |-> TRUE, details |-> n]
                 /\ CandidateIssue(a.body, n) # NoError
                 /\ Verdict(a) \in Codes \ {"none"}
<1>1. a.status = "ok" /\ a.body \in {"not_json", "bad_schema", "bad_semantics", "good"}
  BY AnswerFacts DEF AdapterFails, Bodies
<1> QED
  BY <1>1, Zenon DEF Received, CandidateIssue, Verdict, NoError, Codes, Bodies

\* What ParserState.error holds.
Errors == [code : Codes, retryable : BOOLEAN, details : 0 .. MaxAttempts]

LEMMA ErrorTyped ==
    /\ NoError \in Errors
    /\ \A c \in Codes, b \in BOOLEAN, d \in 0 .. MaxAttempts :
          [code |-> c, retryable |-> b, details |-> d] \in Errors
<1>1. "none" \in Codes /\ 0 \in 0 .. MaxAttempts
  BY AttemptFacts DEF Codes
<1> QED
  BY <1>1 DEF Errors, NoError

-----------------------------------------------------------------------------
(* One lemma per action                                                    *)

LEMMA PrepareInputKeeps == IInv /\ PrepareInput => IInv'
<1> SUFFICES ASSUME IInv, PrepareInput PROVE IInv'
  OBVIOUS
<1> USE DEF IInv
<1>1. /\ node = "prepare_input" /\ attempts = 0 /\ result = 0
      /\ UNCHANGED <<attempts, audits, raw, result, sent, answers, slept>>
      /\ \/ error' = NoError /\ node' = "invoke_model"
         \/ error' = [code |-> "input_invalid", retryable |-> FALSE, details |-> 0]
            /\ node' = "error"
  BY DEF PrepareInput, LengthInv, NodeInv
<1>2. TypeOK'
  <2>1. error' \in Errors
    <3>1. "input_invalid" \in Codes /\ 0 \in 0 .. MaxAttempts
      BY AttemptFacts DEF Codes
    <3> QED
      BY <1>1, <3>1, ErrorTyped, Zenon
  <2>2. node' \in {"invoke_model", "error"}
    BY <1>1
  <2> QED
    BY <1>1, <2>1, <2>2 DEF TypeOK, Errors
<1>3. LengthInv'
  BY <1>1 DEF LengthInv
<1>4. EntryInv' /\ SentInv'
  BY <1>1 DEF EntryInv, EntryInvOf, SentInv, SentInvOf, Verdict
<1>5. NodeInv'
  BY <1>1, AttemptFacts DEF NodeInv, NoError
<1> QED
  BY <1>2, <1>3, <1>4, <1>5

LEMMA CallProviderKeeps == IInv /\ CallProvider => IInv'
<1> SUFFICES ASSUME IInv, CallProvider PROVE IInv'
  OBVIOUS
<1> USE DEF IInv
<1> DEFINE e == [feedback |-> error.details, previous |-> IF error.details # 0 THEN raw ELSE 0]
           Sent == [feedback : 0 .. MaxAttempts, previous : 0 .. MaxAttempts]
<1>1. /\ node = "invoke_model" /\ node' = "calling"
      /\ slept' = Append(slept, RetryDelay(attempts + 1))
      /\ sent' = Append(sent, e)
      /\ UNCHANGED <<attempts, audits, raw, error, result, answers>>
  BY DEF CallProvider, Send
<1>2. attempts \in Nat /\ attempts < MaxAttempts /\ Len(sent) = attempts /\ Len(slept) = attempts
  BY <1>1 DEF LengthInv, NodeInv, TypeOK
<1>3. e \in Sent /\ sent \in Seq(Sent)
  BY AttemptFacts DEF TypeOK
<1>4. RetryDelay(attempts + 1) \in Delays /\ slept \in Seq(Delays)
  <2>1. attempts + 1 \in 1 .. MaxAttempts
    BY <1>2, AttemptFacts
  <2>2. RetryDelay(attempts + 1) \in Delays
    BY <2>1 DEF Delays
  <2> QED
    BY <2>2 DEF TypeOK
<1>5. /\ sent' \in Seq(Sent) /\ Len(sent') = attempts + 1
      /\ \A i \in 1 .. attempts : sent'[i] = sent[i]
      /\ sent'[attempts + 1] = e
  BY <1>1, <1>2, <1>3, AppendProperties
<1>6. /\ slept' \in Seq(Delays) /\ Len(slept') = attempts + 1
      /\ \A i \in 1 .. attempts : slept'[i] = slept[i]
      /\ slept'[attempts + 1] = RetryDelay(attempts + 1)
  BY <1>1, <1>2, <1>4, AppendProperties
<1>7. TypeOK'
  BY <1>1, <1>5, <1>6 DEF TypeOK
<1>8. LengthInv'
  BY <1>1, <1>2, <1>5, <1>6, AttemptFacts DEF LengthInv
<1>9. EntryInv'
  <2>1. \A i \in 1 .. attempts : EntryInvOf(i)'
    BY <1>1 DEF EntryInv, EntryInvOf, Verdict
  <2>2. \A i \in 1 .. attempts + 1 : slept'[i] = RetryDelay(i)
    BY <1>2, <1>6 DEF EntryInv
  <2> QED
    BY <1>1, <1>6, <2>1, <2>2 DEF EntryInv
<1>10. SentInv'
  <2> SUFFICES ASSUME NEW i \in 1 .. attempts + 1 PROVE SentInvOf(i)'
    BY <1>5 DEF SentInv
  <2>1. CASE i \in 1 .. attempts
    BY <1>1, <1>2, <1>5, <2>1, Zenon DEF SentInv, SentInvOf
  <2>2. CASE i = attempts + 1
    BY <1>1, <1>2, <1>5, <2>2 DEF SentInvOf, NodeInv
  <2> QED
    BY <1>2, <2>1, <2>2
<1>11. NodeInv'
  BY <1>1 DEF NodeInv
<1> QED
  BY <1>7, <1>8, <1>9, <1>10, <1>11
LEMMA ReceiveKeeps == IInv /\ Receive => IInv'
<1> SUFFICES ASSUME IInv, Receive PROVE IInv'
  OBVIOUS
<1> USE DEF IInv
<1> DEFINE n == attempts + 1
<1>1. PICK a \in Answers : /\ answers' = Append(answers, a)
                           /\ IF AdapterFails(a) THEN Fail(a) ELSE Accept(a)
  BY DEF Receive
<1>2. node = "calling" /\ attempts' = n /\ UNCHANGED <<result, sent, slept>>
  BY DEF Receive
<1>3. /\ attempts \in Nat /\ attempts < MaxAttempts /\ n \in 1 .. MaxAttempts
      /\ Len(sent) = n /\ Len(slept) = n /\ Len(audits) = attempts /\ Len(answers) = attempts
      /\ result = 0
  BY <1>2, AttemptFacts DEF LengthInv, NodeInv, TypeOK
<1>4. /\ answers' \in Seq(Answers) /\ Len(answers') = n
      /\ \A i \in 1 .. attempts : answers'[i] = answers[i]
      /\ answers'[n] = a
  <2>1. answers \in Seq(Answers)
    BY DEF TypeOK
  <2> QED
    BY <1>1, <1>3, <2>1, AppendProperties
<1>5. PICK o \in Codes, r \in BOOLEAN, u \in BOOLEAN :
         /\ audits' = Append(audits, Entry(o, r, u))
         /\ AdapterFails(a) => o = Verdict(a)
         /\ \/ AdapterFails(a) /\ error' = AdapterIssue(a, n) /\ r = error'.retryable
               /\ node' = Route(error', n, "validate_candidate") /\ raw' = raw
            \/ ~AdapterFails(a) /\ error' = NoError /\ raw' = n /\ node' = "validate_candidate"
  <2>1. CASE AdapterFails(a)
    <3>1. /\ AdapterIssue(a, n).code \in Codes /\ AdapterIssue(a, n).code = Verdict(a)
          /\ AdapterIssue(a, n).retryable \in BOOLEAN
      BY <1>3, <2>1, AdapterIssueFacts
    <3>2. /\ audits' = Append(audits, Entry(AdapterIssue(a, n).code,
                                            AdapterIssue(a, n).retryable, FALSE))
          /\ error' = AdapterIssue(a, n) /\ raw' = raw
          /\ node' = Route(AdapterIssue(a, n), n, "validate_candidate")
      BY <1>1, <2>1, Zenon DEF Fail
    <3> QED
      BY <2>1, <3>1, <3>2, Zenon
  <2>2. CASE ~AdapterFails(a)
    BY <1>1, <2>2, AnswerFacts, Zenon DEF Accept, Codes
  <2> QED
    BY <2>1, <2>2
<1>6. Entry(o, r, u) \in Audit
  <2>1. RetryDelay(n) \in Delays
    BY <1>3 DEF Delays
  <2> QED
    BY <1>3, <2>1 DEF Entry, Audit
<1>7. /\ audits' \in Seq(Audit) /\ Len(audits') = n
      /\ \A i \in 1 .. attempts : audits'[i] = audits[i]
      /\ audits'[n] = Entry(o, r, u)
  <2>1. audits \in Seq(Audit)
    BY DEF TypeOK
  <2> QED
    BY <1>3, <1>5, <1>6, <2>1, AppendProperties
<1>8. /\ raw' \in 0 .. MaxAttempts
      /\ error' \in Errors
      /\ node' \in {"validate_candidate", "invoke_model", "error"}
  <2>1. CASE AdapterFails(a)
    <3>1. /\ AdapterIssue(a, n).code \in Codes /\ AdapterIssue(a, n).retryable \in BOOLEAN
          /\ AdapterIssue(a, n).details \in 0 .. MaxAttempts
          /\ AdapterIssue(a, n) = [code |-> AdapterIssue(a, n).code,
                                   retryable |-> AdapterIssue(a, n).retryable,
                                   details |-> AdapterIssue(a, n).details]
      BY <1>3, <2>1, AdapterIssueFacts, AttemptFacts
    <3>2. AdapterIssue(a, n) \in Errors
      BY <3>1, ErrorTyped
    <3> QED
      BY <1>5, <2>1, <3>2 DEF Route, TypeOK
  <2>2. CASE ~AdapterFails(a)
    BY <1>3, <1>5, <2>2, ErrorTyped
  <2> QED
    BY <2>1, <2>2
<1>9. TypeOK'
  BY <1>2, <1>3, <1>4, <1>7, <1>8 DEF TypeOK, Errors
<1>10. LengthInv'
  BY <1>2, <1>3, <1>4, <1>7, <1>8 DEF LengthInv
<1>11. EntryInv'
  <2> SUFFICES ASSUME NEW i \in 1 .. n PROVE EntryInvOf(i)'
    BY <1>2, <1>3 DEF EntryInv
  <2>1. CASE i \in 1 .. attempts
    <3>1. audits'[i] = audits[i] /\ answers'[i] = answers[i]
      BY <1>4, <1>7, <2>1
    <3>2. audits[i].outcome = Verdict(answers[i])
      BY <1>2, <2>1 DEF EntryInv, EntryInvOf
    <3> QED
      BY <2>1, <3>1, <3>2 DEF EntryInv, EntryInvOf, Verdict
  <2>2. CASE i = n
    <3>1. audits'[i] = Entry(o, r, u) /\ answers'[i] = a
      BY <1>4, <1>7, <2>2
    <3>2. o = Verdict(a) \/ (i = attempts' /\ node' = "validate_candidate")
      BY <1>2, <1>5, <2>2
    <3> QED
      BY <2>2, <3>1, <3>2 DEF EntryInvOf, Entry, Verdict
  <2> QED
    BY <1>3, <2>1, <2>2
<1>12. SentInv'
  <2> SUFFICES ASSUME NEW i \in 1 .. n PROVE SentInvOf(i)'
    BY <1>2, <1>3 DEF SentInv
  <2>1. SentInvOf(i)
    BY <1>3 DEF SentInv
  <2>2. CASE i > 1
    <3>1. i - 1 \in 1 .. attempts
      BY <1>3, <2>2
    <3>2. audits'[i - 1] = audits[i - 1] /\ answers'[i - 1] = answers[i - 1]
      BY <1>4, <1>7, <3>1
    <3> QED
      BY <1>2, <2>1, <3>2 DEF SentInvOf
  <2>3. CASE ~(i > 1)
    BY <1>2, <2>1, <2>3 DEF SentInvOf
  <2> QED
    BY <2>2, <2>3
<1>13. NodeInv'
  <2>1. /\ attempts' = n /\ result' = 0 /\ answers'[n] = a
        /\ audits'[n].retryable = r /\ n > 0
    BY <1>2, <1>3, <1>4, <1>7 DEF Entry
  <2>2. CASE AdapterFails(a)
    <3>1. /\ error' = AdapterIssue(a, n) /\ error' # NoError /\ error'.details \in {0, n}
          /\ r = error'.retryable /\ a.body \notin {"not_json", "bad_schema", "bad_semantics"}
          /\ node' = Route(error', n, "validate_candidate")
      BY <1>3, <1>5, <2>2, AdapterIssueFacts
    <3>2. CASE r /\ n < MaxAttempts
      <4>1. node' = "invoke_model"
        BY <3>1, <3>2, Zenon DEF Route
      <4> QED
        BY <2>1, <3>1, <3>2, <4>1, Zenon DEF NodeInv
    <3>3. CASE ~(r /\ n < MaxAttempts)
      <4>1. node' = "error"
        BY <3>1, <3>3 DEF Route
      <4>2. n = MaxAttempts \/ ~r
        BY <1>3, <3>3, AttemptFacts
      <4> QED
        BY <2>1, <3>1, <4>1, <4>2 DEF NodeInv, NoError
    <3> QED
      BY <3>2, <3>3
  <2>3. CASE ~AdapterFails(a)
    <3>1. error' = NoError /\ raw' = n /\ node' = "validate_candidate" /\ Received(a)
      BY <1>3, <1>5, <2>3, CandidateIssueFacts, Zenon
    <3> QED
      BY <2>1, <3>1 DEF NodeInv, Candidate, Received
  <2> QED
    BY <2>2, <2>3
<1> QED
  BY <1>9, <1>10, <1>11, <1>12, <1>13
LEMMA ValidateCandidateKeeps == IInv /\ ValidateCandidate => IInv'
<1> SUFFICES ASSUME IInv, ValidateCandidate PROVE IInv'
  OBVIOUS
<1> USE DEF IInv
<1> DEFINE n == attempts
           a == answers[n]
           issue == CandidateIssue(a.body, n)
<1>1. /\ node = "validate_candidate" /\ raw = n /\ n > 0 /\ Received(a)
      /\ n \in 1 .. MaxAttempts /\ result = 0
      /\ Len(audits) = n /\ Len(answers) = n /\ Len(sent) = n /\ Len(slept) = n
  BY AttemptFacts DEF ValidateCandidate, NodeInv, LengthInv, Candidate, TypeOK
<1>2. a \in Answers /\ ~AdapterFails(a)
  <2>1. answers \in Seq(Answers)
    BY DEF TypeOK
  <2> QED
    BY <1>1, <2>1 DEF Received, AdapterFails
<1>3. /\ error' = issue
      /\ node' = Route(issue, n, "build_result")
      /\ UNCHANGED <<attempts, raw, result, sent, answers, slept>>
      /\ FinishAttempt(IF issue = NoError THEN "success" ELSE issue.code, issue.retryable)
  BY <1>1 DEF ValidateCandidate
<1>4. \/ issue = NoError /\ a.body = "good" /\ Verdict(a) = "success"
      \/ /\ issue = [code |-> Verdict(a), retryable |-> TRUE, details |-> n]
         /\ issue # NoError /\ a.body # "good" /\ Verdict(a) \in Codes
  BY <1>1, <1>2, CandidateIssueFacts
<1> HIDE DEF issue, a
<1>5. /\ Verdict(a) \in Codes /\ issue \in Errors
      /\ FinishAttempt(Verdict(a), issue.retryable)
  <2>1. "success" \in Codes /\ n \in 0 .. MaxAttempts
    BY <1>1 DEF Codes
  <2>2. CASE issue = NoError /\ a.body = "good" /\ Verdict(a) = "success"
    BY <1>3, <2>1, <2>2, ErrorTyped
  <2>3. CASE /\ issue = [code |-> Verdict(a), retryable |-> TRUE, details |-> n]
             /\ issue # NoError /\ a.body # "good" /\ Verdict(a) \in Codes
    BY <1>3, <2>1, <2>3, ErrorTyped, Zenon
  <2> QED
    BY <1>4, <2>2, <2>3
<1>6. PICK w \in Audit : /\ w.attempt = audits[n].attempt /\ w.backoff = audits[n].backoff
                         /\ w.outcome = Verdict(a) /\ w.retryable = issue.retryable
                         /\ audits' = [audits EXCEPT ![n] = w]
  <2>1. PICK x \in Audit, o \in Codes, b \in BOOLEAN :
           x = audits[n] /\ o = Verdict(a) /\ b = issue.retryable
    BY <1>1, <1>5 DEF TypeOK, Errors
  <2> HIDE DEF IInv
  <2>2. PICK w : w = [x EXCEPT !.outcome = o, !.retryable = b]
    OBVIOUS
  <2>3. w \in Audit
    <3>1. [x EXCEPT !.outcome = o] \in Audit
      BY <2>1, SMT DEF Audit
    <3>2. ASSUME NEW y \in Audit PROVE [y EXCEPT !.retryable = b] \in Audit
      BY <2>1, SMT DEF Audit
    <3> QED
      BY <2>2, <3>1, <3>2, Zenon
  <2>4. /\ w.attempt = x.attempt /\ w.backoff = x.backoff
        /\ w.outcome = o /\ w.retryable = b
    BY <2>1, <2>2, SMT DEF Audit
  <2>5. audits' = [audits EXCEPT ![n] = w]
    BY <1>1, <1>5, <2>1, <2>2, Zenon DEF FinishAttempt, TypeOK
  <2> QED
    BY <2>1, <2>3, <2>4, <2>5, Zenon
<1>7. /\ audits' \in Seq(Audit) /\ Len(audits') = n
      /\ \A i \in 1 .. n : audits'[i] = IF i = n THEN w ELSE audits[i]
  <2>1. audits \in Seq(Audit)
    BY DEF TypeOK
  <2> QED
    BY <1>1, <1>6, <2>1, ExceptSeq
<1>8. node' \in {"build_result", "invoke_model", "error"}
  BY <1>3 DEF Route
<1>9. TypeOK'
  BY <1>3, <1>5, <1>7, <1>8 DEF TypeOK, Errors
<1>10. LengthInv'
  BY <1>1, <1>3, <1>7, <1>8 DEF LengthInv
<1>11. EntryInv'
  <2> SUFFICES ASSUME NEW i \in 1 .. n PROVE EntryInvOf(i)'
    BY <1>3 DEF EntryInv
  <2>1. EntryInvOf(i)
    BY DEF EntryInv
  <2>2. CASE i = n
    BY <1>3, <1>6, <1>7, <2>1, <2>2 DEF EntryInvOf, Verdict, a
  <2>3. CASE i # n
    BY <1>3, <1>7, <2>1, <2>3 DEF EntryInvOf, Verdict
  <2> QED
    BY <2>2, <2>3
<1>12. SentInv'
  <2> SUFFICES ASSUME NEW i \in 1 .. n PROVE SentInvOf(i)'
    BY <1>1, <1>3 DEF SentInv
  <2>1. SentInvOf(i)
    BY <1>1 DEF SentInv
  <2>2. i > 1 => audits'[i - 1] = audits[i - 1]
    BY <1>1, <1>7
  <2> QED
    BY <1>3, <2>1, <2>2 DEF SentInvOf
<1>13. NodeInv'
  <2>1. /\ attempts' = n /\ raw' = n /\ result' = 0 /\ answers'[n] = a
        /\ audits'[n].retryable = issue.retryable /\ n > 0 /\ n \in 1 .. MaxAttempts
    BY <1>1, <1>3, <1>6, <1>7 DEF a
  <2>2. CASE issue = NoError /\ a.body = "good"
    BY <1>3, <2>1, <2>2 DEF NodeInv, Candidate, Route
  <2>3. CASE issue = [code |-> Verdict(a), retryable |-> TRUE, details |-> n] /\ issue # NoError
    <3>1. error' # NoError /\ error'.details = n /\ issue.retryable
      BY <1>3, <2>3
    <3>2. CASE n < MaxAttempts
      <4>1. node' = "invoke_model"
        BY <1>3, <2>3, <3>2 DEF Route
      <4> QED
        BY <2>1, <3>1, <3>2, <4>1 DEF NodeInv
    <3>3. CASE ~(n < MaxAttempts)
      <4>1. node' = "error" /\ n = MaxAttempts
        BY <1>1, <1>3, <2>3, <3>3, AttemptFacts DEF Route
      <4> QED
        BY <2>1, <3>1, <4>1 DEF NodeInv, NoError
    <3> QED
      BY <3>2, <3>3
  <2> QED
    BY <1>4, <2>2, <2>3
<1> QED
  BY <1>9, <1>10, <1>11, <1>12, <1>13

LEMMA BuildResultKeeps == IInv /\ BuildResult => IInv'
<1> SUFFICES ASSUME IInv, BuildResult PROVE IInv'
  OBVIOUS
<1> USE DEF IInv
<1>1. /\ node = "build_result" /\ node' = "done" /\ result' = raw /\ error' = NoError
      /\ UNCHANGED <<attempts, audits, raw, sent, answers, slept>>
      /\ raw = attempts /\ attempts > 0 /\ answers[attempts].body = "good" /\ error = NoError
  BY DEF BuildResult, NodeInv, Candidate, LengthInv
<1>2. TypeOK'
  BY <1>1, ErrorTyped DEF TypeOK, Errors, Ended
<1>3. LengthInv'
  BY <1>1 DEF LengthInv
<1>4. EntryInv' /\ SentInv'
  BY <1>1 DEF EntryInv, EntryInvOf, SentInv, SentInvOf, Verdict
<1>5. NodeInv'
  BY <1>1 DEF NodeInv, NoError, TypeOK
<1> QED
  BY <1>2, <1>3, <1>4, <1>5

LEMMA ErrorTerminalKeeps == IInv /\ ErrorTerminal => IInv'
<1> SUFFICES ASSUME IInv, ErrorTerminal PROVE IInv'
  OBVIOUS
<1> USE DEF IInv
<1>1. /\ node = "error" /\ node' = "done" /\ result = 0
      /\ UNCHANGED <<attempts, audits, raw, error, result, sent, answers, slept>>
  BY DEF ErrorTerminal, NodeInv
<1>2. TypeOK' /\ LengthInv'
  BY <1>1 DEF TypeOK, Ended, LengthInv
<1>3. EntryInv' /\ SentInv'
  BY <1>1 DEF EntryInv, EntryInvOf, SentInv, SentInvOf, Verdict
<1>4. NodeInv'
  BY <1>1 DEF NodeInv
<1> QED
  BY <1>2, <1>3, <1>4

LEMMA CancelKeeps == IInv /\ Cancel => IInv'
<1> SUFFICES ASSUME IInv, Cancel PROVE IInv'
  OBVIOUS
<1> USE DEF IInv
<1>1. /\ node \notin Ended /\ node' = "cancelled"
      /\ UNCHANGED <<attempts, audits, raw, error, result, sent, answers, slept>>
  BY DEF Cancel
<1>2. TypeOK' /\ LengthInv'
  BY <1>1 DEF TypeOK, Ended, LengthInv
<1>3. EntryInv' /\ SentInv'
  BY <1>1, Zenon DEF EntryInv, EntryInvOf, SentInv, SentInvOf, Verdict
<1>4. NodeInv'
  BY <1>1 DEF NodeInv, Ended
<1> QED
  BY <1>2, <1>3, <1>4
LEMMA InitIInv == Init => IInv
<1> SUFFICES ASSUME Init PROVE IInv
  OBVIOUS
<1> USE DEF Init
<1>1. TypeOK
  <2>1. 0 \in 0 .. MaxAttempts /\ error \in Errors
    BY AttemptFacts, ErrorTyped
  <2> QED
    BY <2>1 DEF TypeOK, Errors
<1>2. LengthInv
  BY AttemptFacts DEF LengthInv
<1>3. EntryInv /\ SentInv
  BY DEF EntryInv, SentInv
<1>4. NodeInv
  BY DEF NodeInv
<1> QED
  BY <1>1, <1>2, <1>3, <1>4 DEF IInv

LEMMA NextKeepsIInv == IInv /\ [Next]_vars => IInv'
<1> SUFFICES ASSUME IInv, [Next]_vars PROVE IInv'
  OBVIOUS
<1>1. CASE Step
  BY <1>1, PrepareInputKeeps, CallProviderKeeps, ReceiveKeeps, ValidateCandidateKeeps,
     BuildResultKeeps, ErrorTerminalKeeps DEF Step
<1>2. CASE Cancel
  BY <1>2, CancelKeeps
<1>3. CASE UNCHANGED vars
  <2>1. TypeOK' /\ LengthInv'
    BY <1>3 DEF IInv, vars, TypeOK, LengthInv
  <2>2. EntryInv' /\ SentInv'
    BY <1>3 DEF IInv, vars, EntryInv, EntryInvOf, SentInv, SentInvOf, Verdict
  <2>3. NodeInv'
    BY <1>3 DEF IInv, vars, NodeInv, Candidate, Received
  <2> QED
    BY <2>1, <2>2, <2>3 DEF IInv
<1> QED
  BY <1>1, <1>2, <1>3 DEF Next

-----------------------------------------------------------------------------
(* Theorems                                                                *)

\* The strengthened invariant is an invariant of the workflow.
THEOREM Invariance == Spec => []IInv
BY InitIInv, NextKeepsIInv, PTL DEF Spec

\* Every variable keeps the type of the field of ParserState that it stands for.
THEOREM TypeCorrect == Spec => []TypeOK
<1>1. IInv => TypeOK
  BY DEF IInv
<1> QED
  BY <1>1, Invariance, PTL

\* For any number of retries: the provider is called at most MaxRetries + 1 times,
\* again only after a retryable failure, and a parse gives up only on a final failure
\* or a spent budget.
THEOREM BudgetIsKept == Spec => []RetryBudget
<1>1. IInv => RetryBudget
  <2> SUFFICES ASSUME IInv PROVE RetryBudget
    OBVIOUS
  <2>1. Len(sent) \in Nat /\ Len(sent) <= MaxAttempts /\ Len(audits) = attempts
    BY DEF IInv, LengthInv, TypeOK
  <2>2. \A i \in 1 .. Len(sent) - 1 : audits[i].retryable
    <3> SUFFICES ASSUME NEW i \in 1 .. Len(sent) - 1 PROVE audits[i].retryable
      OBVIOUS
    <3>1. i + 1 \in 1 .. Len(sent) /\ i + 1 > 1 /\ (i + 1) - 1 = i
      BY <2>1
    <3>2. SentInvOf(i + 1)
      BY <3>1 DEF IInv, SentInv
    <3> QED
      BY <3>1, <3>2 DEF SentInvOf
  <2>3. node = "done" /\ result = 0 /\ Len(audits) > 0 =>
           ~audits[Len(audits)].retryable \/ Len(audits) = MaxAttempts
    BY <2>1 DEF IInv, NodeInv
  <2> QED
    BY <2>1, <2>2, <2>3 DEF RetryBudget
<1> QED
  BY <1>1, Invariance, PTL

\* A finished parse has exactly one of a result and an error, and its result is the
\* candidate of the last attempt, which passed validation.
THEOREM ResultIsGood == Spec => []ResultIsTheLastGoodCandidate
<1>1. IInv => ResultIsTheLastGoodCandidate
  BY DEF IInv, NodeInv, LengthInv, ResultIsTheLastGoodCandidate
<1> QED
  BY <1>1, Invariance, PTL

\* No call carries the feedback or the candidate of an attempt other than the last.
THEOREM FeedbackStaysFresh == Spec => []FeedbackIsFresh
<1>1. IInv => FeedbackIsFresh
  BY Zenon DEF IInv, SentInv, SentInvOf, FeedbackIsFresh
<1> QED
  BY <1>1, Invariance, PTL

\* The audit of a finished parse has one entry per call, in order, with the verdict on
\* the answer to that call and the time slept before it.
THEOREM AuditIsTrue == Spec => []AuditTellsWhatHappened
<1>1. IInv => AuditTellsWhatHappened
  <2> SUFFICES ASSUME IInv, node = "done" PROVE AuditTellsWhatHappened
    BY DEF AuditTellsWhatHappened
  <2>1. /\ Len(audits) = attempts /\ Len(answers) = attempts
        /\ Len(sent) = attempts /\ Len(slept) = attempts /\ attempts \in Nat
    BY DEF IInv, LengthInv, TypeOK
  <2>2. ASSUME NEW i \in 1 .. attempts
        PROVE  /\ audits[i].attempt = i /\ audits[i].outcome = Verdict(answers[i])
               /\ audits[i].backoff = slept[i]
               /\ slept[i] <= IF i = 1 THEN 0 ELSE MaxDelay
    <3>1. EntryInvOf(i) /\ slept[i] = RetryDelay(i)
      BY <2>1 DEF IInv, EntryInv
    <3>2. slept[i] <= IF i = 1 THEN 0 ELSE MaxDelay
      BY <2>1, <3>1, DelayBound
    <3> QED
      BY <3>1, <3>2 DEF EntryInvOf
  <2> QED
    BY <2>1, <2>2 DEF AuditTellsWhatHappened
<1> QED
  BY <1>1, Invariance, PTL
-----------------------------------------------------------------------------
(* A parse does what the coordinator expects of a task                     *)

\* The one task that the coordinator sees.
Task == [c \in {"parse"} |-> [state |-> TaskState, attempts |-> Len(sent)]]

LEMMA TaskMoves ==
    ASSUME NEW s, TaskState' = s, Len(sent)' = Len(sent)
    PROVE  Task' = [Task EXCEPT !["parse"].state = s]
BY DEF Task

LEMMA Advances ==
    ASSUME NEW from, NEW to, TaskState = from, TaskState' = to, Len(sent)' = Len(sent),
           (node = "cancelled") = (node' = "cancelled")
    PROVE  Coordinator!Advance("parse", from, to)
BY TaskMoves, Zenon DEF Coordinator!Advance, Coordinator!tables, Coordinator!history, Task

\* What it sees of that task: a step that changes neither is nothing to it.
TaskVars == <<TaskState, Len(sent)>>

LEMMA PrepareInputMaps ==
    IInv /\ PrepareInput => Coordinator!Attempt("parse") \/ UNCHANGED TaskVars
<1> SUFFICES ASSUME IInv, PrepareInput PROVE Coordinator!Attempt("parse") \/ UNCHANGED TaskVars
  OBVIOUS
<1>1. /\ node = "prepare_input" /\ Len(sent) = 0 /\ sent' = sent
      /\ node' \in {"invoke_model", "error"}
  BY DEF PrepareInput, IInv, LengthInv
<1>2. TaskState = "ready"
  BY <1>1 DEF TaskState
<1>3. CASE node' = "invoke_model"
  BY <1>1, <1>2, <1>3 DEF TaskState, TaskVars
<1>4. CASE node' = "error"
  <2>1. TaskState' = "rejected"
    BY <1>4 DEF TaskState
  <2>2. Coordinator!Advance("parse", "ready", "rejected")
    BY <1>1, <1>2, <1>4, <2>1, Advances
  <2>3. Coordinator!RejectInput("parse")
    BY <1>1, <2>2 DEF Coordinator!RejectInput
  <2> QED
    BY <2>3 DEF Coordinator!Attempt
<1> QED
  BY <1>1, <1>3, <1>4

LEMMA CallProviderMaps == IInv /\ CallProvider => Coordinator!Attempt("parse")
<1> SUFFICES ASSUME IInv, CallProvider PROVE Coordinator!Attempt("parse")
  OBVIOUS
<1>1. node = "invoke_model" /\ node' = "calling" /\ Len(sent') = Len(sent) + 1
  BY DEF CallProvider, Send, IInv, TypeOK
<1>2. TaskState = "ready" /\ TaskState' = "calling"
  BY <1>1 DEF TaskState
<1>3. Coordinator!CallProvider("parse")
  BY <1>1, <1>2 DEF Coordinator!CallProvider, Coordinator!tables, Coordinator!history
<1> QED
  BY <1>3 DEF Coordinator!Attempt

LEMMA AnswerMaps ==
    IInv /\ (Receive \/ ValidateCandidate) =>
        Coordinator!Attempt("parse") \/ UNCHANGED TaskVars
<1> SUFFICES ASSUME IInv, Receive \/ ValidateCandidate
             PROVE  Coordinator!Attempt("parse") \/ UNCHANGED TaskVars
  OBVIOUS
<1>1. /\ node \in {"calling", "validate_candidate"} /\ sent' = sent
      /\ node' \in {"validate_candidate", "build_result", "invoke_model", "error"}
  BY Zenon DEF Receive, Fail, Accept, ValidateCandidate, Route
<1>2. /\ attempts' = Len(sent) /\ (node' = "invoke_model" => Len(sent) < MaxAttempts)
  <2>1. IInv'
    BY ReceiveKeeps, ValidateCandidateKeeps
  <2>2. Len(sent') = attempts'
    BY <1>1, <2>1 DEF IInv, LengthInv
  <2> QED
    BY <1>1, <2>1, <2>2 DEF IInv, NodeInv
<1>3. TaskState = "calling"
  BY <1>1 DEF TaskState
<1>4. CASE node' = "validate_candidate"
  BY <1>1, <1>3, <1>4 DEF TaskState, TaskVars
<1>5. CASE node' = "build_result"
  <2>1. TaskState' = "parsed"
    BY <1>5 DEF TaskState
  <2>2. Coordinator!Advance("parse", "calling", "parsed")
    BY <1>1, <1>3, <1>5, <2>1, Advances
  <2> QED
    BY <2>2 DEF Coordinator!Attempt, Coordinator!AttemptSucceeds
<1>6. CASE node' = "invoke_model"
  <2>1. TaskState' = "ready"
    BY <1>6 DEF TaskState
  <2>2. Coordinator!Advance("parse", "calling", "ready")
    BY <1>1, <1>3, <1>6, <2>1, Advances
  <2>3. Coordinator!AttemptFailsRetryably("parse")
    BY <1>2, <1>6, <2>2 DEF Coordinator!AttemptFailsRetryably
  <2> QED
    BY <2>3 DEF Coordinator!Attempt
<1>7. CASE node' = "error"
  <2>1. TaskState' = "rejected"
    BY <1>7 DEF TaskState
  <2>2. Coordinator!Advance("parse", "calling", "rejected")
    BY <1>1, <1>3, <1>7, <2>1, Advances
  <2> QED
    BY <2>2 DEF Coordinator!Attempt, Coordinator!AttemptFailsFatally
<1> QED
  BY <1>1, <1>4, <1>5, <1>6, <1>7

LEMMA EndMaps == IInv /\ (BuildResult \/ ErrorTerminal) => UNCHANGED TaskVars
<1> SUFFICES ASSUME IInv, BuildResult \/ ErrorTerminal PROVE UNCHANGED TaskVars
  OBVIOUS
<1>1. CASE BuildResult
  <2>1. TaskState = "parsed" /\ TaskState' = "parsed"
    BY <1>1 DEF BuildResult, TaskState
  <2> QED
    BY <1>1, <2>1 DEF BuildResult, TaskVars
<1>2. CASE ErrorTerminal
  <2>1. error' # NoError
    BY <1>2 DEF ErrorTerminal, IInv, NodeInv
  <2>2. TaskState = "rejected" /\ TaskState' = "rejected"
    BY <1>2, <2>1 DEF ErrorTerminal, TaskState
  <2> QED
    BY <1>2, <2>2 DEF ErrorTerminal, TaskVars
<1> QED
  BY <1>1, <1>2

LEMMA CancelMaps == IInv /\ Cancel => Coordinator!CancelCaller("parse")
<1> SUFFICES ASSUME IInv, Cancel PROVE Coordinator!CancelCaller("parse")
  OBVIOUS
<1>1. node \notin Ended /\ node' = "cancelled" /\ sent' = sent
  BY DEF Cancel
<1>2. TaskState \in Coordinator!Live /\ TaskState' = "cancelled"
  BY <1>1 DEF TaskState, Ended, Coordinator!Live, IInv, TypeOK
<1>3. Task' = [Task EXCEPT !["parse"].state = "cancelled"]
  BY <1>1, <1>2, TaskMoves
<1>4. Task["parse"].state = TaskState
  BY DEF Task
<1> QED
  BY <1>1, <1>2, <1>3, <1>4, Zenon DEF Coordinator!CancelCaller, Coordinator!tables,
     Coordinator!history, Task, Ended

\* For any number of retries and any answers, each step of the workflow is a step that
\* the coordinator expects of a task, the cancellation of its caller, or nothing.
THEOREM WorkflowRefinesTask == Spec => RefinesTask
<1>1. IInv /\ [Next]_vars =>
          [Coordinator!Attempt("parse") \/ Coordinator!CancelCaller("parse")]_TaskVars
  <2> SUFFICES ASSUME IInv, [Next]_vars
               PROVE  \/ Coordinator!Attempt("parse") \/ Coordinator!CancelCaller("parse")
                      \/ UNCHANGED TaskVars
    OBVIOUS
  <2>1. CASE Step
    BY <2>1, PrepareInputMaps, CallProviderMaps, AnswerMaps, EndMaps DEF Step
  <2>2. CASE Cancel
    BY <2>2, CancelMaps
  <2>3. CASE UNCHANGED vars
    BY <2>3 DEF vars, TaskVars, TaskState
  <2> QED
    BY <2>1, <2>2, <2>3 DEF Next
<1> QED
  BY <1>1, Invariance, PTL DEF Spec, RefinesTask, TaskVars

=============================================================================
