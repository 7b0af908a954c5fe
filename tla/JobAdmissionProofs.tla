------------------------- MODULE JobAdmissionProofs -------------------------
(***************************************************************************)
(* Proofs about JobAdmission: for any rules of a job, any signs of a failed *)
(* pod and however often the job is created, the added rule takes nothing   *)
(* from the author's rules and keeps evicted stubs off the job's account.   *)
(***************************************************************************)
EXTENDS JobAdmission, TLAPS

Lists == Seq(Rules \cup {OwnRule})

(***************************************************************************)
(* What the admission of a job does to its rules.                           *)
(***************************************************************************)
LEMMA WrittenAreLists == BoundedSeq(Rules, MaxRules) \subseteq Lists
<1> SUFFICES ASSUME NEW list \in BoundedSeq(Rules, MaxRules) PROVE list \in Lists
  OBVIOUS
<1>1. PICK n \in 0..MaxRules : list \in [1..n -> Rules]
  BY DEF BoundedSeq, SeqOf
<1>2. n \in Nat
  BY <1>1, JobAssumption
<1>3. list \in Seq(Rules)
  BY <1>1, <1>2
<1>4. QED
  BY <1>3 DEF Lists

(* Evaluating a list that admission has added to.                          *)
LEMMA Added ==
  ASSUME NEW list \in Lists, ~ Covered(list)
  PROVE  /\ HandleJob(list) = Append(list, OwnRule)
         /\ HandleJob(list) \in Lists
         /\ Len(list) \in Nat
         /\ DOMAIN list = 1..Len(list)
         /\ DOMAIN HandleJob(list) = 1..(Len(list) + 1)
         /\ Len(HandleJob(list)) = Len(list) + 1
         /\ \A i \in 1..Len(list) : HandleJob(list)[i] = list[i]
         /\ HandleJob(list)[Len(list) + 1] = OwnRule
<1>1. HandleJob(list) = Append(list, OwnRule)
  BY DEF HandleJob
<1>2. list \in Seq(Rules \cup {OwnRule})
  BY DEF Lists
<1>3. QED
  BY <1>1, <1>2 DEF Lists

LEMMA HandledIsList ==
  ASSUME NEW list \in Lists
  PROVE  HandleJob(list) \in Lists /\ Len(HandleJob(list)) <= Len(list) + 1
<1>1. CASE Covered(list)
  <2>1. HandleJob(list) = list
    BY <1>1 DEF HandleJob
  <2>2. Len(list) \in Nat
    BY DEF Lists
  <2>3. QED
    BY <2>1, <2>2
<1>2. CASE ~ Covered(list)
  BY <1>2, Added
<1>3. QED
  BY <1>1, <1>2

LEMMA HandledIsCovered == ASSUME NEW list \in Lists PROVE Covered(HandleJob(list))
<1>1. CASE Covered(list)
  BY <1>1 DEF HandleJob
<1>2. CASE ~ Covered(list)
  <2>1. Mentions(OwnRule)
    BY DEF Mentions, OwnRule
  <2>2. /\ Len(list) + 1 \in DOMAIN HandleJob(list)
        /\ HandleJob(list)[Len(list) + 1] = OwnRule
    BY <1>2, Added
  <2>3. QED
    BY <2>1, <2>2 DEF Covered
<1>3. QED
  BY <1>1, <1>2

LEMMA HandledOnce ==
  ASSUME NEW list \in Lists PROVE HandleJob(HandleJob(list)) = HandleJob(list)
<1>1. Covered(HandleJob(list))
  BY HandledIsCovered
<1>2. QED
  BY <1>1 DEF HandleJob

(***************************************************************************)
(* The first of the author's rules that claims a pod is the first of all.   *)
(***************************************************************************)
LEMMA ClaimsKept ==
  ASSUME NEW list \in Lists, ~ Covered(list), NEW f
  PROVE  /\ Claims(list, f) \subseteq 1..Len(list)
         /\ Claims(HandleJob(list), f) =
              Claims(list, f) \cup (IF Disrupted \in f THEN {Len(list) + 1} ELSE {})
<1> DEFINE h == HandleJob(list)
<1>1. /\ Len(list) \in Nat /\ DOMAIN list = 1..Len(list)
      /\ DOMAIN h = 1..(Len(list) + 1)
      /\ \A i \in 1..Len(list) : h[i] = list[i]
      /\ h[Len(list) + 1] = OwnRule
  BY Added
<1>2. OwnRule.on = {Disrupted}
  BY DEF OwnRule
<1>3. OwnRule.on \cap f # {} <=> Disrupted \in f
  BY <1>2
<1>4. DOMAIN h = DOMAIN list \cup {Len(list) + 1}
  BY <1>1
<1>5. ASSUME NEW i PROVE i \in Claims(h, f) <=>
        i \in Claims(list, f) \cup (IF Disrupted \in f THEN {Len(list) + 1} ELSE {})
  <2>1. CASE i \in 1..Len(list)
    <3>1. i # Len(list) + 1
      BY <2>1, <1>1
    <3>2. QED
      BY <2>1, <3>1, <1>1, <1>4 DEF Claims
  <2>2. CASE i = Len(list) + 1
    <3>1. i \notin DOMAIN list
      BY <2>2, <1>1
    <3>2. QED
      BY <2>2, <3>1, <1>1, <1>3, <1>4 DEF Claims
  <2>3. CASE i \notin DOMAIN h
    BY <2>3, <1>1, <1>4 DEF Claims
  <2>4. QED
    BY <2>1, <2>2, <2>3, <1>1, <1>4
<1>6. Claims(list, f) \subseteq 1..Len(list)
  BY <1>1 DEF Claims
<1>7. QED
  BY <1>5, <1>6

LEMMA VerdictsOfHandled ==
  ASSUME NEW list \in Lists, NEW f \in Failures, NEW action \in Actions,
         Disrupted \notin f \/ Claims(list, f) # {}
  PROVE  Judges(HandleJob(list), f, action) <=> Judges(list, f, action)
<1> DEFINE h == HandleJob(list)
<1>1. CASE Covered(list)
  BY <1>1 DEF HandleJob
<1>2. CASE ~ Covered(list)
  <2>1. /\ Len(list) \in Nat
        /\ \A i \in 1..Len(list) : h[i] = list[i]
    BY <1>2, Added
  <2>2. /\ Claims(list, f) \subseteq 1..Len(list)
        /\ Claims(h, f) =
             Claims(list, f) \cup (IF Disrupted \in f THEN {Len(list) + 1} ELSE {})
    BY <1>2, ClaimsKept
  <2>3. CASE Disrupted \notin f
    <3>1. Claims(h, f) = Claims(list, f)
      BY <2>2, <2>3
    <3>2. \A i \in Claims(list, f) : h[i] = list[i]
      BY <2>1, <2>2
    <3>3. QED
      BY <3>1, <3>2 DEF Judges
  <2>4. CASE Disrupted \in f /\ Claims(list, f) # {}
    <3>1. Claims(h, f) = Claims(list, f) \cup {Len(list) + 1}
      BY <2>2, <2>4
    <3>2. \A i \in Claims(list, f) : h[i] = list[i] /\ i \in Int /\ i < Len(list) + 1
      BY <2>1, <2>2
    <3>3. ASSUME NEW i \in Claims(list, f)
          PROVE  (\A k \in Claims(h, f) : i <= k) <=> (\A k \in Claims(list, f) : i <= k)
      BY <3>1, <3>2, <2>1
    <3>4. ~ \A k \in Claims(h, f) : Len(list) + 1 <= k
      <4>1. PICK k \in Claims(list, f) : TRUE
        BY <2>4
      <4>2. k \in Claims(h, f) /\ k \in Int /\ k < Len(list) + 1
        BY <4>1, <3>1, <3>2
      <4>3. QED
        BY <4>2, <2>1
    <3>5. QED
      BY <3>1, <3>2, <3>3, <3>4, <2>4 DEF Judges
  <2>5. QED
    BY <2>3, <2>4
<1>3. QED
  BY <1>1, <1>2

LEMMA EvictionsIgnored ==
  ASSUME NEW list \in Lists, Unclaimed(list), NEW f \in StubFailures,
         NEW action \in Actions, Judges(HandleJob(list), f, action)
  PROVE  action = "Ignore"
<1>1. f \in Failures /\ Disrupted \in f
  BY DEF StubFailures
<1>2. CASE Claims(list, f) # {}
  <2>1. Judges(list, f, action)
    BY <1>1, <1>2, VerdictsOfHandled
  <2>2. QED
    BY <1>2, <2>1 DEF Unclaimed
<1>3. CASE Claims(list, f) = {}
  <2>1. ~ Covered(list)
    BY <1>1, <1>3 DEF Covered, Mentions, Claims
  <2>2. Claims(HandleJob(list), f) = {Len(list) + 1}
    BY <1>1, <1>3, <2>1, ClaimsKept
  <2>3. HandleJob(list)[Len(list) + 1] = OwnRule
    BY <2>1, Added
  <2>4. action = OwnRule.action
    BY <2>2, <2>3 DEF Judges
  <2>5. QED
    BY <2>4 DEF OwnRule
<1>4. QED
  BY <1>2, <1>3
-----------------------------------------------------------------------------
(***************************************************************************)
(* The inductive invariant: the stored rules are the author's, with or      *)
(* without the added one, and with it (or in need of none) once admission   *)
(* has handled the job.                                                     *)
(***************************************************************************)
RulesInv ==
  /\ rules = job.rules \/ rules = HandleJob(job.rules)
  /\ handled => rules = HandleJob(job.rules)
  /\ phase = "none" => ~ handled

IInv == TypeOK /\ RulesInv /\ StaggeringIsFree

LEMMA JobRules == ASSUME NEW j \in Jobs PROVE j.rules \in Lists
<1>1. j.rules \in BoundedSeq(Rules, MaxRules)
  BY DEF Jobs
<1>2. QED
  BY <1>1, WrittenAreLists

(* What a creation of the job leaves, from rules that are the author's own *)
(* or those that admission made of them.                                   *)
LEMMA CreateStep ==
  ASSUME TypeOK, job' \in Jobs, NEW list, Create(job', list),
         list = job'.rules \/ list = HandleJob(job'.rules),
         handled => list = HandleJob(job'.rules)
  PROVE  IInv'
<1> DEFINE own == job'.rules
<1>1. own \in Lists /\ HandleJob(own) \in Lists
  BY JobRules, HandledIsList
<1>2. HandleJob(list) = HandleJob(own)
  BY <1>1, HandledOnce
<1>3. PICK asked \in BOOLEAN :
        /\ handled' = (handled \/ (asked /\ Enabled(job')))
        /\ rules' = IF asked /\ Enabled(job') THEN HandleJob(list) ELSE list
  BY DEF Create
<1>4. /\ rules' = own \/ rules' = HandleJob(own)
      /\ handled' => rules' = HandleJob(own)
  BY <1>2, <1>3
<1>5. /\ phase' \in {"created", "refused"}
      /\ pod' = "none" /\ failures' = 0 /\ others' = 0
  BY DEF Create
<1>6. handled' \in BOOLEAN
  BY <1>3 DEF TypeOK, Enabled, Jobs
<1>7. TypeOK'
  BY <1>1, <1>4, <1>5, <1>6 DEF TypeOK, Lists
<1>8. RulesInv'
  BY <1>4, <1>5 DEF RulesInv
<1>9. StaggeringIsFree'
  BY <1>5 DEF StaggeringIsFree
<1>10. QED
  BY <1>7, <1>8, <1>9 DEF IInv

(* What the judgement on a failed pod leaves as it is.                     *)
LEMMA JudgeStep ==
  ASSUME TypeOK, RulesInv, NEW f \in Failures, Judge(f)
  PROVE  /\ RulesInv'
         /\ job' = job /\ rules' = rules /\ handled' = handled
         /\ pod' = "none" /\ phase' \in {"created", "failed"}
         /\ failures' \in Nat /\ failures' <= failures + 1
<1>1. job' = job /\ rules' = rules /\ handled' = handled
  BY DEF Judge
<1>2. pod' = "none" /\ phase' \in {"created", "failed"}
  BY DEF Judge
<1>3. failures' = failures \/ failures' = failures + 1
  BY DEF Judge
<1>4. QED
  BY <1>1, <1>2, <1>3 DEF RulesInv, TypeOK

LEMMA JobStep == IInv /\ [Next]_vars => IInv'
<1> SUFFICES ASSUME IInv, [Next]_vars PROVE IInv'
  OBVIOUS
<1>0. TypeOK /\ RulesInv /\ StaggeringIsFree
  BY DEF IInv
<1>1. ASSUME NEW j \in Jobs, Submit(j) PROVE IInv'
  <2>1. job' = j /\ Create(job', j.rules)
    BY <1>1 DEF Submit
  <2>2. ~ handled
    BY <1>0, <1>1 DEF Submit, RulesInv
  <2>3. job' \in Jobs /\ j.rules = job'.rules
    BY <2>1
  <2>4. QED
    BY <1>0, <2>1, <2>2, <2>3, CreateStep
<1>2. CASE Resubmit
  <2>1. job' = job /\ Create(job', rules)
    BY <1>2 DEF Resubmit
  <2>2. job' \in Jobs
    BY <1>0, <2>1 DEF TypeOK
  <2>3. /\ rules = job'.rules \/ rules = HandleJob(job'.rules)
        /\ handled => rules = HandleJob(job'.rules)
    BY <1>0, <2>1 DEF RulesInv
  <2>4. QED
    BY <1>0, <2>1, <2>2, <2>3, CreateStep
<1>3. CASE Withdraw
  BY <1>0, <1>3 DEF Withdraw, IInv, TypeOK, RulesInv, StaggeringIsFree
<1>4. CASE CreatePod
  BY <1>0, <1>4 DEF CreatePod, IInv, TypeOK, RulesInv, StaggeringIsFree
<1>5. CASE EvictStub
  <2>1. PICK f \in StubFailures : Judge(f)
    BY <1>5 DEF EvictStub
  <2>2. f \in Failures
    BY DEF StubFailures
  <2>3. /\ RulesInv'
        /\ job' = job /\ rules' = rules /\ handled' = handled
        /\ pod' = "none" /\ phase' \in {"created", "failed"}
        /\ failures' \in Nat
    BY <1>0, <2>1, <2>2, JudgeStep
  <2>4. others' = others /\ phase = "created"
    BY <1>5 DEF EvictStub
  <2>5. TypeOK'
    BY <1>0, <2>3, <2>4 DEF TypeOK
  <2>6. ASSUME handled, Unclaimed(job.rules)
        PROVE  failures' <= others /\ (phase' = "failed" => others > 0)
    <3>1. job.rules \in Lists
      BY <1>0, JobRules DEF TypeOK
    <3>2. rules = HandleJob(job.rules)
      BY <1>0, <2>6 DEF RulesInv
    <3>3. PICK action \in Actions :
            /\ Judges(rules, f, action)
            /\ failures' = IF action = "Ignore" THEN failures ELSE failures + 1
            /\ phase' = IF action = "FailJob" \/ failures' > BackoffLimit
                        THEN "failed" ELSE "created"
      BY <2>1 DEF Judge
    <3>4. action = "Ignore"
      BY <2>6, <3>1, <3>2, <3>3, EvictionsIgnored
    <3>5. failures <= others /\ failures \in Nat /\ others \in Nat
      BY <1>0, <2>6 DEF StaggeringIsFree, TypeOK
    <3>6. failures' = failures /\ (phase' = "failed" => failures > BackoffLimit)
      BY <3>3, <3>4
    <3>7. QED
      BY <3>5, <3>6, JobAssumption
  <2>7. StaggeringIsFree'
    BY <2>3, <2>4, <2>6 DEF StaggeringIsFree
  <2>8. QED
    BY <2>3, <2>5, <2>7 DEF IInv
<1>6. CASE PodFails
  <2>1. PICK f \in Failures : Judge(f)
    BY <1>6 DEF PodFails
  <2>2. /\ RulesInv'
        /\ job' = job /\ rules' = rules /\ handled' = handled
        /\ pod' = "none" /\ phase' \in {"created", "failed"}
        /\ failures' \in Nat /\ failures' <= failures + 1
    BY <1>0, <2>1, JudgeStep
  <2>3. others' = others + 1 /\ phase = "created"
    BY <1>6 DEF PodFails
  <2>4. TypeOK'
    BY <1>0, <2>2, <2>3 DEF TypeOK
  <2>5. StaggeringIsFree'
    <3>1. failures \in Nat /\ others \in Nat
      BY <1>0 DEF TypeOK
    <3>2. others' > 0 /\ (failures <= others => failures' <= others')
      BY <2>2, <2>3, <3>1
    <3>3. QED
      BY <1>0, <2>2, <3>2 DEF StaggeringIsFree
  <2>6. QED
    BY <2>2, <2>4, <2>5 DEF IInv
<1>7. CASE Complete
  BY <1>0, <1>7 DEF Complete, IInv, TypeOK, RulesInv, StaggeringIsFree
<1>8. CASE UNCHANGED vars
  BY <1>0, <1>8 DEF vars, IInv, TypeOK, RulesInv, StaggeringIsFree
<1>9. QED
  BY <1>1, <1>2, <1>3, <1>4, <1>5, <1>6, <1>7, <1>8 DEF Next

LEMMA JobInit == Init => IInv
<1> SUFFICES ASSUME Init PROVE IInv
  OBVIOUS
<1>1. <<>> \in BoundedSeq(Rules, MaxRules)
  <2>1. <<>> \in [1..0 -> Rules]
    OBVIOUS
  <2>2. 0 \in 0..MaxRules
    BY JobAssumption
  <2>3. QED
    BY <2>1, <2>2 DEF BoundedSeq, SeqOf
<1>2. TypeOK
  <2>1. job \in Jobs
    BY <1>1 DEF Init, Jobs
  <2>2. rules \in Seq(Rules \cup {OwnRule})
    BY DEF Init
  <2>3. QED
    BY <2>1, <2>2 DEF Init, TypeOK
<1>3. RulesInv /\ StaggeringIsFree
  BY DEF Init, RulesInv, StaggeringIsFree
<1>4. QED
  BY <1>2, <1>3 DEF IInv

LEMMA JobInvariant == Spec => []IInv
<1>1. QED
  BY JobInit, JobStep, PTL DEF Spec

-----------------------------------------------------------------------------
(* Every variable keeps its type.                                          *)
THEOREM TypeCorrect == Spec => []TypeOK
<1>1. IInv => TypeOK
  BY DEF IInv
<1>2. QED
  BY <1>1, JobInvariant, PTL

(* The evictions that staggering needs cost a handled job nothing, unless  *)
(* the author's own rules decide against evicted stubs.                    *)
THEOREM EvictionsAreFree == Spec => []StaggeringIsFree
<1>1. IInv => StaggeringIsFree
  BY DEF IInv
<1>2. QED
  BY <1>1, JobInvariant, PTL

(* The author's rules keep their say, whatever rules admission finds.      *)
THEOREM AuthorsRulesKept == Spec => []VerdictsKept
<1>1. IInv => VerdictsKept
  <2> SUFFICES ASSUME IInv, NEW f \in Failures, NEW action \in Actions,
                      Disrupted \notin f \/ Claims(job.rules, f) # {}
               PROVE  Judges(rules, f, action) <=> Judges(job.rules, f, action)
    BY DEF VerdictsKept
  <2>1. job.rules \in Lists
    BY JobRules DEF IInv, TypeOK
  <2>2. rules = job.rules \/ rules = HandleJob(job.rules)
    BY DEF IInv, RulesInv
  <2>3. QED
    BY <2>1, <2>2, VerdictsOfHandled
<1>2. QED
  BY <1>1, JobInvariant, PTL

(* However often the job is created again, one rule is added at most.      *)
THEOREM AddedOnce == Spec => []NoRuleTwice
<1>1. IInv => NoRuleTwice
  <2> SUFFICES ASSUME IInv PROVE NoRuleTwice
    OBVIOUS
  <2>1. job.rules \in Lists
    BY JobRules DEF IInv, TypeOK
  <2>2. Len(HandleJob(job.rules)) <= Len(job.rules) + 1 /\ Len(job.rules) \in Nat
    BY <2>1, HandledIsList DEF Lists
  <2>3. QED
    BY <2>2 DEF IInv, RulesInv, NoRuleTwice
<1>2. QED
  BY <1>1, JobInvariant, PTL
=============================================================================
