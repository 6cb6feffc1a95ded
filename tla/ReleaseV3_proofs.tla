-------------------------- MODULE ReleaseV3_proofs --------------------------
(***************************************************************************)
(* Theorems about StructureWorkflow, for any answers of the adapter, any   *)
(* number of attempts and whatever the two validations accept, and about   *)
(* ReleaseV3, for any catalogue, candidate, slip and change, however trees *)
(* of conditions are walked, typed and evaluated.                          *)
(***************************************************************************)
EXTENDS ReleaseV3, TLAPS, SequenceTheorems

-----------------------------------------------------------------------------
(* The inductive invariant                                                 *)

Outcomes == {"received"} \cup {Deserved(answer) : answer \in Answers}
Audit    == [outcome : Outcomes, retryable : BOOLEAN]
Sent     == [feedback : Nat, previous : Nat]

\* Every attempt has one answer, one audit and one record of what was sent.
TypeInv ==
    /\ node \in {"invoke", "validate", "end"}
    /\ attempts \in Nat
    /\ raw \in Nat
    /\ feedback \in Nat
    /\ audits \in Seq(Audit) /\ Len(audits) = attempts
    /\ answers \in Seq(Answers) /\ Len(answers) = attempts
    /\ sent \in Seq(Sent) /\ Len(sent) = attempts

\* The audit of an attempt that is over tells what its answer deserves, and the
\* attempts before the last were worth another.
AuditInv ==
    \A i \in 1 .. attempts :
        /\ i < attempts \/ node # "validate" => audits[i].outcome = Deserved(answers[i])
        /\ i < attempts \/ node = "invoke" => audits[i].retryable

\* The raw candidate is of the last attempt that had a content, if any had.
Contents == {i \in 1 .. attempts : answers[i][1] = "content"}
RawInv   == raw \in {0} \cup Contents /\ \A j \in Contents : j <= raw

\* What each node finds.
NodeInv ==
    /\ node = "invoke" =>
          /\ candidate = <<>>
          /\ attempts > 0 => Deserved(answers[attempts]) # "success"
          /\ feedback = IF attempts > 0 /\ HasFeedback(answers[attempts]) THEN attempts ELSE 0
    /\ node = "validate" =>
          /\ candidate = <<>>
          /\ attempts > 0
          /\ answers[attempts][1] = "content"
          /\ raw = attempts
    /\ node = "end" =>
          /\ attempts > 0
          /\ candidate = IF Deserved(answers[attempts]) = "success"
                         THEN <<answers[attempts][2]>> ELSE <<>>

IInv == TypeInv /\ AuditInv /\ RawInv /\ NodeInv /\ FeedbackIsOfTheLastAnswer

-----------------------------------------------------------------------------
(* The lemmas                                                              *)

\* The raw candidate is the last content, of the answers so far.
LEMMA RawIsLastContent ==
    ASSUME TypeInv, RawInv
    PROVE  LastContent(answers) = raw
<1> DEFINE contents == {i \in DOMAIN answers : answers[i][1] = "content"}
<1>1. contents = Contents
  BY DEF TypeInv, Contents
<1>2. contents \subseteq Nat
  BY DEF TypeInv
<1>3. raw \in {0} \cup contents /\ \A j \in contents : j <= raw
  BY <1>1 DEF RawInv
<1>4. LastContent(answers) = CHOOSE i \in {0} \cup contents : \A j \in contents : j <= i
  BY DEF LastContent
<1> HIDE DEF contents
<1>5. ASSUME NEW i \in {0} \cup contents, \A j \in contents : j <= i PROVE i = raw
  BY <1>2, <1>3, <1>5
<1> QED
  BY <1>3, <1>4, <1>5

\* What is known of the attempts so far stays true when another answer arrives.
LEMMA AnswerFrame ==
    ASSUME TypeInv, NEW answer \in Answers, answers' = Append(answers, answer)
    PROVE  /\ answers' \in Seq(Answers)
           /\ Len(answers') = attempts + 1
           /\ answers'[attempts + 1] = answer
           /\ \A i \in 1 .. attempts : answers'[i] = answers[i]
           /\ \A i \in 0 .. attempts : SubSeq(answers', 1, i) = SubSeq(answers, 1, i)
           /\ SubSeq(answers', 1, attempts) = answers
<1>1. /\ answers' \in Seq(Answers)
      /\ Len(answers') = attempts + 1
      /\ answers'[attempts + 1] = answer
      /\ \A i \in 1 .. attempts : answers'[i] = answers[i]
  BY AppendProperties DEF TypeInv
<1>2. ASSUME NEW i \in 0 .. attempts PROVE SubSeq(answers', 1, i) = SubSeq(answers, 1, i)
  <2>1. /\ Len(SubSeq(answers', 1, i)) = i /\ Len(SubSeq(answers, 1, i)) = i
        /\ SubSeq(answers', 1, i) \in Seq(Answers) /\ SubSeq(answers, 1, i) \in Seq(Answers)
        /\ \A j \in 1 .. i : SubSeq(answers', 1, i)[j] = answers'[j]
        /\ \A j \in 1 .. i : SubSeq(answers, 1, i)[j] = answers[j]
    BY <1>1 DEF TypeInv
  <2> DEFINE now == SubSeq(answers, 1, i)
             then == SubSeq(answers', 1, i)
  <2>2. ASSUME NEW j \in 1 .. i PROVE now[j] = then[j]
    <3>1. j \in 1 .. attempts
      BY DEF TypeInv
    <3> QED
      BY <1>1, <2>1, <3>1, Zenon
  <2>3. Len(now) = i /\ Len(then) = i /\ now \in Seq(Answers) /\ then \in Seq(Answers)
    BY <2>1, Zenon
  <2> HIDE DEF now, then
  <2>4. now = then
    BY <2>2, <2>3, SeqEqual
  <2> QED
    BY <2>4, Zenon DEF now, then
<1>3. SubSeq(answers, 1, attempts) = answers
  BY DEF TypeInv
<1>4. attempts \in 0 .. attempts
  BY DEF TypeInv
<1> QED
  BY <1>1, <1>2, <1>3, <1>4

\* An audit, or what is sent, is added behind the others.
LEMMA AppendFrame ==
    ASSUME NEW S, NEW s \in Seq(S), NEW x \in S
    PROVE  /\ Append(s, x) \in Seq(S)
           /\ Len(Append(s, x)) = Len(s) + 1
           /\ Append(s, x)[Len(s) + 1] = x
           /\ \A i \in 1 .. Len(s) : Append(s, x)[i] = s[i]
BY AppendProperties

-----------------------------------------------------------------------------
(* The steps                                                               *)

\* The adapter answers an attempt.
LEMMA InvokeStep == IInv /\ Invoke => IInv'
<1> SUFFICES ASSUME IInv, Invoke PROVE IInv'
  OBVIOUS
<1> DEFINE n == attempts
           record == [feedback |-> feedback, previous |-> Previous]
<1>1. /\ node = "invoke"
      /\ attempts' = attempts + 1
      /\ sent' = Append(sent, record)
      /\ node' = RouteAfterInvoke(raw', error', attempts')
      /\ candidate' = candidate
  BY DEF Invoke, InvokeWith
<1>2. PICK answer \in Answers :
         /\ answers' = Append(answers, answer)
         /\ IF answer[1] = "failed" THEN Failed(answer[2]) ELSE Received
  BY DEF Invoke, InvokeWith
<1>3. /\ answers' \in Seq(Answers)
      /\ Len(answers') = n + 1
      /\ answers'[n + 1] = answer
      /\ \A i \in 1 .. n : answers'[i] = answers[i]
      /\ \A i \in 0 .. n : SubSeq(answers', 1, i) = SubSeq(answers, 1, i)
      /\ SubSeq(answers', 1, n) = answers
  BY <1>2, AnswerFrame, Zenon DEF IInv
<1>4. record \in Sent
  BY DEF IInv, TypeInv, Sent, Previous
<1>5. /\ sent' \in Seq(Sent)
      /\ Len(sent') = n + 1
      /\ sent'[n + 1] = record
      /\ \A i \in 1 .. n : sent'[i] = sent[i]
  BY <1>1, <1>4, AppendFrame DEF IInv, TypeInv
<1>6. n \in Nat /\ attempts' = n + 1
  BY <1>1 DEF IInv, TypeInv
<1>7. FeedbackIsOfTheLastAnswer'
  <2> SUFFICES ASSUME NEW i \in 2 .. n + 1
               PROVE  sent'[i] = IF HasFeedback(answers'[i - 1])
                        THEN [feedback |-> i - 1,
                              previous |-> LastContent(SubSeq(answers', 1, i - 1))]
                        ELSE [feedback |-> 0, previous |-> 0]
    BY <1>5 DEF FeedbackIsOfTheLastAnswer
  <2>1. CASE i <= n
    <3>1. sent'[i] = sent[i] /\ answers'[i - 1] = answers[i - 1]
          /\ SubSeq(answers', 1, i - 1) = SubSeq(answers, 1, i - 1)
      BY <1>3, <1>5, <1>6, <2>1
    <3>2. i \in 2 .. Len(sent)
      BY <1>6, <2>1 DEF IInv, TypeInv
    <3> QED
      BY <3>1, <3>2, Zenon DEF IInv, FeedbackIsOfTheLastAnswer
  <2>2. CASE i = n + 1
    <3>1. /\ n > 0 /\ i - 1 = n /\ n \in 1 .. n
          /\ answers'[i - 1] = answers[n]
          /\ SubSeq(answers', 1, i - 1) = answers
          /\ sent'[i] = record
      BY <1>3, <1>5, <1>6, <2>2
    <3>2. feedback = IF HasFeedback(answers[n]) THEN n ELSE 0
      BY <1>1, <3>1 DEF IInv, NodeInv
    <3>3. LastContent(answers) = raw
      BY RawIsLastContent DEF IInv
    <3>4. CASE HasFeedback(answers[n])
      <4>1. record = [feedback |-> n, previous |-> raw]
        BY <3>1, <3>2, <3>4 DEF Previous
      <4> QED
        BY <3>1, <3>3, <3>4, <4>1, Zenon
    <3>5. CASE ~HasFeedback(answers[n])
      <4>1. record = [feedback |-> 0, previous |-> 0]
        BY <3>2, <3>5 DEF Previous
      <4> QED
        BY <3>1, <3>5, <4>1
    <3> QED
      BY <3>4, <3>5
  <2> QED
    BY <1>6, <2>1, <2>2
<1>8. ASSUME NEW x \in Audit, audits' = Append(audits, x)
      PROVE  /\ audits' \in Seq(Audit)
             /\ Len(audits') = n + 1
             /\ audits'[n + 1] = x
             /\ \A i \in 1 .. n : audits'[i] = audits[i]
  BY <1>8, AppendFrame DEF IInv, TypeInv
<1>9. \A i \in 1 .. n : audits[i].outcome = Deserved(answers[i]) /\ audits[i].retryable
  BY <1>1 DEF IInv, AuditInv
<1>10. CASE answer[1] = "failed"
  <2> DEFINE x == [outcome |-> answer[2], retryable |-> answer[2] \in Retryable]
  <2>1. /\ error' = [code |-> answer[2], retryable |-> answer[2] \in Retryable]
        /\ audits' = Append(audits, x)
        /\ feedback' = IF answer[2] = "empty" THEN n + 1 ELSE 0
        /\ raw' = raw
    BY <1>2, <1>10 DEF Failed
  <2>2. answer[2] \in Retryable \cup Final
    BY <1>10, AnswersAssumption
  <2>3. Deserved(answer) = answer[2]
    BY <1>10 DEF Deserved
  <2>4. x \in Audit
    <3>1. answer[2] \in Outcomes
      BY <2>3 DEF Outcomes
    <3> QED
      BY <3>1 DEF Audit
  <2>5. /\ audits' \in Seq(Audit)
        /\ Len(audits') = n + 1
        /\ audits'[n + 1] = x
        /\ \A i \in 1 .. n : audits'[i] = audits[i]
    BY <1>8, <2>1, <2>4, Zenon
  <2>6. answer[2] # "success" /\ answer[2] # "none"
    BY <2>2 DEF Retryable, Final
  <2>7. node' = IF CanRetry(error', n + 1) THEN "invoke" ELSE "end"
    BY <1>1, <2>1, <2>6 DEF RouteAfterInvoke, NoError
  <2>8. node' \in {"invoke", "end"} /\ (node' = "invoke" => answer[2] \in Retryable)
    BY <2>1, <2>7, Zenon DEF CanRetry
  <2>9. TypeInv'
    BY <1>3, <1>5, <1>6, <2>1, <2>5, <2>8 DEF IInv, TypeInv
  <2>10. AuditInv'
    <3> SUFFICES ASSUME NEW i \in 1 .. n + 1
                 PROVE  /\ audits'[i].outcome = Deserved(answers'[i])
                        /\ i < n + 1 \/ node' = "invoke" => audits'[i].retryable
      BY <1>6, <2>8 DEF AuditInv
    <3>1. CASE i = n + 1
      <4>1. audits'[i] = x /\ answers'[i] = answer /\ ~(i < n + 1)
        BY <1>3, <1>6, <2>5, <3>1
      <4>2. x.outcome = Deserved(answer) /\ (answer[2] \in Retryable => x.retryable)
        BY <2>3, Zenon
      <4> QED
        BY <2>8, <4>1, <4>2, Zenon
    <3>2. CASE i \in 1 .. n
      <4>1. audits'[i] = audits[i] /\ answers'[i] = answers[i]
        BY <1>3, <2>5, <3>2
      <4>2. audits[i].outcome = Deserved(answers[i]) /\ audits[i].retryable
        BY <1>9, <3>2
      <4> QED
        BY <4>1, <4>2, Zenon
    <3>3. i = n + 1 \/ i \in 1 .. n
      BY <1>6
    <3> QED
      BY <3>1, <3>2, <3>3, Zenon
  <2>11. RawInv'
    <3>1. Contents' = Contents
      BY <1>3, <1>6, <1>10 DEF Contents
    <3> QED
      BY <2>1, <3>1 DEF IInv, RawInv
  <2>12. NodeInv'
    <3>1. Deserved(answers'[n + 1]) # "success"
      BY <1>3, <2>3, <2>6
    <3>2. feedback' = IF HasFeedback(answers'[n + 1]) THEN n + 1 ELSE 0
      BY <1>3, <1>10, <2>1 DEF HasFeedback
    <3>3. candidate' = <<>>
      BY <1>1 DEF IInv, NodeInv
    <3> QED
      BY <1>6, <2>8, <3>1, <3>2, <3>3 DEF NodeInv
  <2> QED
    BY <1>7, <2>9, <2>10, <2>11, <2>12 DEF IInv
<1>11. CASE answer[1] # "failed"
  <2> DEFINE x == [outcome |-> "received", retryable |-> FALSE]
  <2>1. /\ error' = NoError
        /\ audits' = Append(audits, x)
        /\ feedback' = 0
        /\ raw' = n + 1
    BY <1>2, <1>11 DEF Received
  <2>2. answer[1] = "content"
    BY <1>11, AnswersAssumption
  <2>3. x \in Audit
    BY DEF Audit, Outcomes
  <2>4. /\ audits' \in Seq(Audit)
        /\ Len(audits') = n + 1
        /\ audits'[n + 1] = x
        /\ \A i \in 1 .. n : audits'[i] = audits[i]
    BY <1>8, <2>1, <2>3, Zenon
  <2>5. node' = "validate"
    BY <1>1, <1>6, <2>1 DEF RouteAfterInvoke
  <2>6. TypeInv'
    BY <1>3, <1>5, <1>6, <2>1, <2>4, <2>5 DEF IInv, TypeInv
  <2>7. AuditInv'
    <3> SUFFICES ASSUME NEW i \in 1 .. n
                 PROVE  audits'[i].outcome = Deserved(answers'[i]) /\ audits'[i].retryable
      BY <1>6, <2>5 DEF AuditInv
    <3> QED
      BY <1>3, <1>9, <2>4
  <2>8. RawInv'
    <3>1. n + 1 \in Contents' /\ \A j \in Contents' : j <= n + 1
      BY <1>3, <1>6, <2>2 DEF Contents
    <3> QED
      BY <2>1, <3>1 DEF RawInv
  <2>9. NodeInv'
    BY <1>1, <1>3, <1>6, <2>1, <2>2, <2>5 DEF IInv, NodeInv
  <2> QED
    BY <1>7, <2>6, <2>7, <2>8, <2>9 DEF IInv
<1> QED
  BY <1>10, <1>11

\* A content is judged.
LEMMA ValidateStep == IInv /\ Validate => IInv'
<1> SUFFICES ASSUME IInv, Validate PROVE IInv'
  OBVIOUS
<1> DEFINE n == attempts
<1>1. PICK verdict : verdict = Judgement(answers[raw][2])
  OBVIOUS
<1>2. PICK good \in BOOLEAN : good <=> verdict \in Rejected
  OBVIOUS
<1> DEFINE x == [outcome |-> verdict, retryable |-> good]
<1>3. /\ node = "validate"
      /\ audits' = [audits EXCEPT ![Len(audits)] = x]
      /\ error' = IF verdict = "success" THEN NoError
                  ELSE [code |-> verdict, retryable |-> verdict \in Rejected]
      /\ feedback' = IF verdict = "success" THEN feedback ELSE raw
      /\ candidate' = IF verdict = "success" THEN <<answers[raw][2]>> ELSE <<>>
      /\ node' = IF CanRetry(error', attempts) THEN "invoke" ELSE "end"
      /\ UNCHANGED <<attempts, raw, answers, sent>>
  BY <1>1, <1>2, Zenon DEF Validate
<1>4. n \in Nat /\ n > 0 /\ raw = n /\ answers[n][1] = "content" /\ n \in 1 .. n
  BY <1>3 DEF IInv, NodeInv, TypeInv
<1>5. Deserved(answers[n]) = verdict
  BY <1>1, <1>4 DEF Deserved
<1>6. x \in Audit
  <2>1. answers[n] \in Answers
    BY <1>4 DEF IInv, TypeInv
  <2>2. verdict \in Outcomes
    BY <1>5, <2>1 DEF Outcomes
  <2> QED
    BY <2>2 DEF Audit
<1>7. /\ audits' \in Seq(Audit)
      /\ Len(audits') = n
      /\ audits'[n] = x
      /\ \A i \in 1 .. n - 1 : audits'[i] = audits[i]
  BY <1>3, <1>4, <1>6, ExceptSeq DEF IInv, TypeInv
<1>8. node' \in {"invoke", "end"} /\ (node' = "invoke" => good /\ verdict # "success")
  BY <1>2, <1>3 DEF CanRetry, NoError, Rejected
<1>9. TypeInv'
  BY <1>3, <1>7, <1>8 DEF IInv, TypeInv
<1>10. AuditInv'
  <2> SUFFICES ASSUME NEW i \in 1 .. n
               PROVE  /\ audits'[i].outcome = Deserved(answers[i])
                      /\ i < n \/ node' = "invoke" => audits'[i].retryable
    BY <1>3, <1>8 DEF AuditInv
  <2>1. CASE i = n
    BY <1>4, <1>5, <1>7, <1>8, <2>1
  <2>2. CASE i < n
    BY <1>4, <1>7, <2>2 DEF IInv, AuditInv
  <2> QED
    BY <1>4, <2>1, <2>2
<1>11. RawInv'
  BY <1>3 DEF IInv, RawInv, Contents
<1>12. NodeInv'
  <2>1. node' = "invoke" => candidate' = <<>> /\ feedback' = n
    BY <1>3, <1>4, <1>8
  <2>2. candidate' = IF Deserved(answers[n]) = "success" THEN <<answers[n][2]>> ELSE <<>>
    BY <1>3, <1>4, <1>5
  <2>3. HasFeedback(answers[n])
    BY <1>4 DEF HasFeedback
  <2> QED
    BY <1>3, <1>4, <1>5, <1>8, <2>1, <2>2, <2>3 DEF NodeInv
<1>13. FeedbackIsOfTheLastAnswer'
  BY <1>3 DEF IInv, FeedbackIsOfTheLastAnswer
<1> QED
  BY <1>9, <1>10, <1>11, <1>12, <1>13 DEF IInv

-----------------------------------------------------------------------------
(* The theorems                                                            *)

\* The inductive invariant: it holds at first, and each node keeps it.
THEOREM Invariance == WorkflowSpec => []IInv
<1>1. WorkflowInit => IInv
  <2> SUFFICES ASSUME WorkflowInit PROVE IInv
    OBVIOUS
  <2>1. TypeInv
    BY DEF WorkflowInit, TypeInv
  <2>2. AuditInv /\ RawInv /\ NodeInv
    BY DEF WorkflowInit, AuditInv, RawInv, Contents, NodeInv
  <2>3. FeedbackIsOfTheLastAnswer
    BY DEF WorkflowInit, FeedbackIsOfTheLastAnswer
  <2> QED
    BY <2>1, <2>2, <2>3 DEF IInv
<1>2. IInv /\ UNCHANGED workflowVars => IInv'
  <2> SUFFICES ASSUME IInv, UNCHANGED workflowVars PROVE IInv'
    OBVIOUS
  <2>1. TypeInv'
    BY DEF workflowVars, IInv, TypeInv
  <2>2. AuditInv'
    BY DEF workflowVars, IInv, AuditInv
  <2>3. RawInv' /\ NodeInv'
    BY DEF workflowVars, IInv, RawInv, Contents, NodeInv
  <2>4. FeedbackIsOfTheLastAnswer'
    BY DEF workflowVars, IInv, FeedbackIsOfTheLastAnswer
  <2> QED
    BY <2>1, <2>2, <2>3, <2>4 DEF IInv
<1>3. IInv /\ [WorkflowNext]_workflowVars => IInv'
  BY <1>2, InvokeStep, ValidateStep DEF WorkflowNext
<1> QED
  BY <1>1, <1>3, PTL DEF WorkflowSpec

\* Whatever the adapter answered before, the audit of an attempt tells what its own
\* answer deserves, and the candidate of a run is what the last answer makes it.
THEOREM AttemptsAreJudgedOnTheirOwn == WorkflowSpec => []EachAttemptIsJudgedOnItsOwn
<1>1. IInv => EachAttemptIsJudgedOnItsOwn
  <2> SUFFICES ASSUME IInv, node # "validate" PROVE
         /\ Len(audits) = Len(answers)
         /\ \A i \in DOMAIN audits : audits[i].outcome = Deserved(answers[i])
         /\ \A i \in DOMAIN audits : i < Len(audits) => audits[i].retryable
         /\ (candidate # <<>>) =
               (answers # <<>> /\ Deserved(answers[Len(answers)]) = "success")
         /\ candidate # <<>> => candidate[1] = answers[Len(answers)][2]
    BY DEF EachAttemptIsJudgedOnItsOwn
  <2>1. /\ Len(audits) = attempts /\ Len(answers) = attempts
        /\ DOMAIN audits = 1 .. attempts
        /\ attempts \in Nat
        /\ (answers # <<>>) <=> attempts > 0
    BY DEF IInv, TypeInv
  <2>2. ASSUME NEW i \in 1 .. attempts
        PROVE  /\ audits[i].outcome = Deserved(answers[i])
               /\ i < attempts => audits[i].retryable
    BY DEF IInv, AuditInv
  <2>3. node \in {"invoke", "end"}
    BY DEF IInv, TypeInv
  <2>4. /\ (candidate # <<>>) =
               (answers # <<>> /\ Deserved(answers[Len(answers)]) = "success")
        /\ candidate # <<>> => candidate[1] = answers[Len(answers)][2]
    BY <2>1, <2>3 DEF IInv, NodeInv
  <2> QED
    BY <2>1, <2>2, <2>4
<1> QED
  BY <1>1, Invariance, PTL

\* A retry carries the feedback of the answer just before it, with the last content,
\* and neither when that answer was a failure that says nothing.
THEOREM FeedbackIsCurrent == WorkflowSpec => []FeedbackIsOfTheLastAnswer
<1>1. IInv => FeedbackIsOfTheLastAnswer
  BY DEF IInv
<1> QED
  BY <1>1, Invariance, PTL

-----------------------------------------------------------------------------
(* What the gates of persistence mean                                      *)

\* A request is made for a declaration.
LEMMA RequestsAreForDeclarations ==
    ASSUME NEW result, NEW structure, NEW request \in ToSet(Export(result, structure))
    PROVE  \E i \in DOMAIN result.declarations :
              LET code == result.declarations[i].fact.code
              IN  request = RequestFor(result, i, UsagesOf(structure, code), ExamplesOf(result, code))
  BY DEF ToSet, Export

\* The facts that are requested are the ones declared.
LEMMA DeclaredAreRequested ==
    ASSUME NEW result, NEW structure
    PROVE  {request.fact.code : request \in ToSet(Export(result, structure))} = ToSet(DeclaredCodes(result))
  <1> DEFINE all == Export(result, structure)
             declared == DeclaredCodes(result)
  <1>1. DOMAIN all = DOMAIN declared
    BY DEF Export, DeclaredCodes
  <1>2. \A i \in DOMAIN all : all[i].fact.code = declared[i]
    BY DEF Export, DeclaredCodes, RequestFor
  <1> HIDE DEF all, declared
  <1>3. {request.fact.code : request \in ToSet(all)} = ToSet(declared)
    BY <1>1, <1>2 DEF ToSet
  <1> QED
    BY <1>3 DEF all, declared

\* A fact with an example has a value in some case.
LEMMA ExamplesHaveValues ==
    ASSUME NEW result, NEW code, ExamplesOf(result, code) # {}
    PROVE  \E case \in ToSet(result.cases) : code \in DOMAIN case.given
  BY DEF ExamplesOf, ExampleCases, GivenValue, ToSet

\* A rule version holds the digest of the catalogue as its last part.
LEMMA VersionHasDigest ==
    ASSUME NEW version, NEW block, NEW digest, SubSeq(version, 3, 4) = <<block, digest>>
    PROVE  version[4] = digest
  <1>1. SubSeq(version, 3, 4)[2] = version[4]
    OBVIOUS
  <1>2. <<block, digest>>[2] = digest
    OBVIOUS
  <1> QED
    BY <1>1, <1>2

\* prepare_v3_delivery lets no delivery pass that is not of one piece, whatever files it is
\* given.
LEMMA GatesAskForOnePiece ==
    ASSUME NEW delivery, NEW day,
           MayWrite(delivery.catalog, delivery.candidate, delivery.result, delivery.requests, day)
    PROVE  OfOnePiece(delivery)
  <1> DEFINE catalog   == delivery.catalog
             structure == delivery.candidate
             result    == delivery.result
             requests  == delivery.requests
             facts     == FactMap(catalog)
  <1>1. /\ IsReady(Report(structure, catalog, result, requests))
        /\ MayExport(result, structure, catalog, day)
        /\ ToSet(requests) = ToSet(Export(result, structure))
    BY DEF MayWrite
  <1>2. ResultGate(1, catalog, result, requests) /\ ResultGate(4, catalog, result, requests)
    <2>1. \A gate \in {1, 4} : Report(structure, catalog, result, requests)[gate] = "pass"
      BY <1>1 DEF IsReady, Gates
    <2>2. \A gate \in {1, 4} : gate \in Gates /\ gate \in NeedResult
      BY DEF Gates, NeedResult
    <2>3. \A gate \in {1, 4} : ResultGate(gate, catalog, result, requests)
      BY <2>1, <2>2 DEF Report
    <2> QED
      BY <2>3
  <1>3. ToSet(DeclaredCodes(result)) = ActiveRefs(structure)
    <2>1. ToSet(DeclaredCodes(result)) = ToSet(structure.required) /\ Accepts(structure, catalog)
      BY <1>1 DEF MayExport
    <2>2. ToSet(structure.required) = ActiveRefs(structure)
      BY <2>1 DEF Accepts, ConditionFlaw
    <2> QED
      BY <2>1, <2>2
  <1>4. {request.fact.code : request \in ToSet(requests)} = ActiveRefs(structure)
    BY <1>1, <1>3, DeclaredAreRequested
  <1>5. Len(requests) = Cardinality(ActiveRefs(structure))
    BY <1>2, <1>3 DEF ResultGate, RequestsClose
  <1>6. ASSUME NEW request \in ToSet(requests)
        PROVE  LET fact == facts[request.fact.code]
               IN  /\ \A field \in {"type", "grain", "nullable", "nullPolicy", "allowed"} :
                         request.fact[field] = fact[field]
                   /\ request.query.result.nullPolicy = fact.nullPolicy
                   /\ ParametersUsed(request.query) \subseteq ToSet(Names(fact))
                   /\ \E case \in ToSet(result.cases) : request.fact.code \in DOMAIN case.given
                   /\ request.version[4] = catalog.digest
    <2>1. PICK i \in DOMAIN result.declarations :
             LET code == result.declarations[i].fact.code
             IN  request = RequestFor(result, i, UsagesOf(structure, code), ExamplesOf(result, code))
      BY <1>1, RequestsAreForDeclarations
    <2> DEFINE declaration == result.declarations[i]
               code == declaration.fact.code
    <2>2. /\ request.fact = declaration.fact
          /\ request.version = result.version
          /\ request.examples = ExamplesOf(result, code)
      BY <2>1 DEF RequestFor
    <2>3. MatchesCatalog(request.fact, facts)
      <3>1. declaration \in ToSet(result.declarations)
        BY DEF ToSet
      <3> QED
        BY <1>1, <2>2, <3>1 DEF MayExport
    <2>4. \A field \in {"type", "nullable", "nullPolicy", "grain", "allowed", "parameters"} :
             request.fact[field] = facts[request.fact.code][field]
      BY <2>3 DEF MatchesCatalog
    <2>5. RequestShaped(request)
      BY <1>1 DEF MayExport
    <2>6. /\ request.query.result.nullPolicy = request.fact.nullPolicy
          /\ ParametersUsed(request.query) \subseteq ToSet(Names(request.fact))
      BY <2>5 DEF RequestShaped, QueryFits, ResultFits
    <2>7. Names(request.fact) = Names(facts[request.fact.code])
      <3>1. request.fact.parameters = facts[request.fact.code].parameters
        BY <2>4
      <3> QED
        BY <3>1 DEF Names
    <2>8. \E case \in ToSet(result.cases) : request.fact.code \in DOMAIN case.given
      <3>1. ExamplesOf(result, code) # {}
        BY <2>2, <2>5 DEF RequestShaped
      <3> QED
        BY <2>2, <3>1, ExamplesHaveValues
    <2>9. request.version[4] = catalog.digest
      <3>1. /\ SubSeq(result.version, 3, 4) = <<result.candidateRef.block, result.catalogRef[3]>>
            /\ result.catalogRef = CatalogIdentity(catalog)
        BY <1>2 DEF ResultGate
      <3>2. result.version[4] = result.catalogRef[3]
        BY <3>1, VersionHasDigest
      <3>3. result.catalogRef[3] = catalog.digest
        BY <3>1 DEF CatalogIdentity
      <3> QED
        BY <2>2, <3>2, <3>3
    <2> QED
      BY <2>4, <2>6, <2>7, <2>8, <2>9
  <1> QED
    BY <1>4, <1>5, <1>6 DEF OfOnePiece

-----------------------------------------------------------------------------
(* The workflow and what follows it                                        *)

\* What follows an accepted structure leaves the workflow alone, so what is proved of the
\* workflow holds of the whole.
THEOREM WorkflowGoesOnAlone == RulesSpec => WorkflowSpec
  <1>1. RulesInit => WorkflowInit
    BY DEF RulesInit
  <1>2. [RulesNext]_<<workflowVars, releaseVars>> => [WorkflowNext]_workflowVars
    BY DEF RulesNext
  <1> QED
    BY <1>1, <1>2, PTL DEF RulesSpec, WorkflowSpec

\* Only Prepare makes a delivery prepared, of the files as they are then, and nothing
\* touches them afterwards.
LEMMA OnlyPrepareDelivers ==
    ASSUME DeliveryIsOfOnePiece, [RulesNext]_<<workflowVars, releaseVars>>
    PROVE  DeliveryIsOfOnePiece'
  <1> SUFFICES ASSUME phase' = "prepared" PROVE OfOnePiece(files')
    BY DEF DeliveryIsOfOnePiece, OfOnePiece
  <1>1. CASE Prepare
    <2>1. /\ MayWrite(files.catalog, files.candidate, files.result, files.requests, Date(today))
          /\ files' = files
      BY <1>1 DEF Prepare, Goes
    <2>2. OfOnePiece(files)
      BY <2>1, GatesAskForOnePiece
    <2> QED
      BY <2>1, <2>2
  <1>2. CASE UNCHANGED releaseVars
    BY <1>2 DEF releaseVars, DeliveryIsOfOnePiece
  <1>3. ~(WriteResult \/ AssessFirst \/ ExportRequests \/ AssessAgain \/ Change \/ NextDay)
    <2>1. ~WriteResult
      BY DEF WriteResult
    <2>2. ~AssessFirst /\ ~AssessAgain
      BY DEF AssessFirst, AssessAgain, Goes
    <2>3. ~ExportRequests
      BY DEF ExportRequests, Goes
    <2>4. ~Change /\ ~NextDay
      BY DEF Change, NextDay
    <2> QED
      BY <2>1, <2>2, <2>3, <2>4
  <1> QED
    BY <1>1, <1>2, <1>3 DEF RulesNext, ReleaseNext

\* A delivery that prepare_v3_delivery lets pass is of one piece, for any catalogue, any
\* candidate, whatever slipped and whatever happened to the files.
THEOREM PreparedIsOfOnePiece == RulesSpec => []DeliveryIsOfOnePiece
  <1>1. RulesInit => DeliveryIsOfOnePiece
    BY DEF RulesInit, ReleaseInit, DeliveryIsOfOnePiece
  <1> QED
    BY <1>1, OnlyPrepareDelivers, PTL DEF RulesSpec
=============================================================================
