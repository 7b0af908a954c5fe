---------------------------- MODULE JobAdmission ----------------------------
(***************************************************************************)
(* Jobs under staggering: handleJobAdmission of pkg/controller/admission.go *)
(* and what it is for.  To unblock a job's pod the reconciler evicts a      *)
(* stub, which the job controller takes for a failed pod: the admission of  *)
(* the job adds a rule to its podFailurePolicy that ignores disrupted pods. *)
(*                                                                          *)
(* One job is followed from its submission over its pods, one at a time, to *)
(* its end, and through being created again from its stored specification.  *)
(* The job controller goes by the first rule that matches a failed pod.  A  *)
(* rule is an action and the signs it matches on: pod conditions with a     *)
(* status, or exit codes.                                                   *)
(***************************************************************************)
EXTENDS Integers, SequencesExt

CONSTANTS
  Rules,        \* rules that authors of jobs write
  Disrupted,    \* the sign: condition DisruptionTarget with status True
  Undisrupted,  \* the sign: condition DisruptionTarget with status False
  OtherConditions, ExitCodes,   \* further signs
  MaxRules,     \* how many rules the API server allows
  BackoffLimit,
  MaxFailures   \* bound: failures of a job's pods other than evicted stubs

Actions == {"Ignore", "Count", "FailJob"}
OtherSigns == OtherConditions \cup ExitCodes
Signs == OtherSigns \cup {Disrupted, Undisrupted}

\* The signs of a failed pod.  None gets DisruptionTarget with status False.
Failures == SUBSET (OtherSigns \cup {Disrupted})

ASSUME JobAssumption ==
  /\ Rules \subseteq [action : Actions, on : SUBSET Signs]
  /\ Disrupted # Undisrupted /\ {Disrupted, Undisrupted} \cap OtherSigns = {}
  /\ MaxRules \in Nat /\ BackoffLimit \in Nat /\ MaxFailures \in Nat

Jobs ==
  [rules : BoundedSeq(Rules, MaxRules),  \* as the author wrote them
   onJob : BOOLEAN,       \* the enable label is on the job: its admission is asked for
   onTemplate : BOOLEAN,  \* and on the pod template, with value 1
   never : BOOLEAN]       \* restartPolicy Never

VARIABLES
  job,       \* in Jobs
  rules,     \* the rules of the stored specification
  handled,   \* handleJobAdmission has seen the job enabled
  phase,     \* "none", "created", "failed", "complete", "refused"
  pod,       \* "none", "blocked", "running"
  failures,  \* failures the job is charged with
  others     \* history: failures of its pods other than evicted stubs

vars == <<job, rules, handled, phase, pod, failures, others>>

-----------------------------------------------------------------------------
(***************************************************************************)
(* The admission of a job.                                                  *)
(***************************************************************************)
OwnRule == [action |-> "Ignore", on |-> {Disrupted}]

\* Mutant: the status of the condition is not looked at.
MentionsAny(rule) == {Disrupted, Undisrupted} \cap rule.on # {}

Mentions(rule) == Disrupted \in rule.on

Covered(list) == \E i \in DOMAIN list : Mentions(list[i])

\* Mutants: the rule goes in front; it is added whatever rules there are; its
\* condition has no status.
HandleJobFirst(list) == IF Covered(list) THEN list ELSE <<OwnRule>> \o list
HandleJobAlways(list) == Append(list, OwnRule)
HandleJobBoth(list) ==
  IF Covered(list) THEN list
  ELSE Append(list, [OwnRule EXCEPT !.on = @ \cup {Undisrupted}])

\* A rule that mentions disrupted pods stays as it is: if its action is not
\* Ignore, there is a log line.
HandleJob(list) == IF Covered(list) THEN list ELSE Append(list, OwnRule)

\* The objectSelector of the webhook, and checkEnabled.
Enabled(j) == j.onJob /\ j.onTemplate

-----------------------------------------------------------------------------
(***************************************************************************)
(* The job controller: the first rule that matches judges a failed pod.     *)
(***************************************************************************)
Claims(list, f) == {i \in DOMAIN list : list[i].on \cap f # {}}

Judges(list, f, action) ==
  \/ Claims(list, f) = {} /\ action = "Count"
  \/ \E i \in Claims(list, f) :
       /\ \A k \in Claims(list, f) : i <= k
       /\ action = list[i].action

Judge(f) ==
  \E action \in Actions :
    /\ Judges(rules, f, action)
    /\ pod' = "none"
    /\ failures' = IF action = "Ignore" THEN failures ELSE failures + 1
    /\ phase' = IF action = "FailJob" \/ failures' > BackoffLimit
                THEN "failed" ELSE "created"
    /\ UNCHANGED <<job, rules, handled>>

-----------------------------------------------------------------------------
(***************************************************************************)
(* The API server: it checks the specification that admission has left, and *)
(* goes on with the given one if the webhook is not asked or fails.         *)
(***************************************************************************)
Valid(list, j) == Len(list) <= MaxRules /\ (list # <<>> => j.never)

Create(j, list) ==
  /\ \E asked \in BOOLEAN :
       /\ handled' = (handled \/ (asked /\ Enabled(j)))
       /\ rules' = IF asked /\ Enabled(j) THEN HandleJob(list) ELSE list
  /\ phase' = IF Valid(rules', j) THEN "created" ELSE "refused"
  /\ pod' = "none" /\ failures' = 0 /\ others' = 0

Submit(j) ==
  /\ phase = "none" /\ Valid(j.rules, j)
  /\ job' = j
  /\ Create(j, j.rules)

\* The job is created again from its stored specification.
Resubmit ==
  /\ phase \in {"failed", "complete"}
  /\ UNCHANGED job
  /\ Create(job, rules)

\* A job that was refused is given up, and another one submitted.
Withdraw ==
  /\ phase = "refused"
  /\ phase' = "none" /\ handled' = FALSE
  /\ UNCHANGED <<job, rules, pod, failures, others>>

-----------------------------------------------------------------------------
(***************************************************************************)
(* The pods of the job.  They carry the labels of the template: whether or  *)
(* not the job was handled, enabled ones may be created as stubs.           *)
(***************************************************************************)
CreatePod ==
  /\ phase = "created" /\ pod = "none"
  /\ \/ pod' = "running"
     \/ job.onTemplate /\ pod' = "blocked"
  /\ UNCHANGED <<job, rules, handled, phase, failures, others>>

\* The eviction marks the stub as disrupted.  The stub exits with 0, which no
\* rule can match.
StubFailures == {f \in Failures : Disrupted \in f /\ f \cap ExitCodes = {}}

EvictStub ==
  /\ phase = "created" /\ pod = "blocked"
  /\ \E f \in StubFailures : Judge(f)
  /\ UNCHANGED others

\* The pod fails on its own, or by the hand of others.
PodFails ==
  /\ phase = "created" /\ pod # "none" /\ others < MaxFailures
  /\ others' = others + 1
  /\ \E f \in Failures : Judge(f)

Complete ==
  /\ phase = "created" /\ pod = "running"
  /\ phase' = "complete" /\ pod' = "none"
  /\ UNCHANGED <<job, rules, handled, failures, others>>

-----------------------------------------------------------------------------
Init ==
  /\ job = [rules |-> <<>>, onJob |-> FALSE, onTemplate |-> FALSE, never |-> FALSE]
  /\ rules = <<>> /\ handled = FALSE
  /\ phase = "none" /\ pod = "none" /\ failures = 0 /\ others = 0

Next ==
  \/ \E j \in Jobs : Submit(j)
  \/ Resubmit \/ Withdraw
  \/ CreatePod \/ EvictStub \/ PodFails \/ Complete

Spec == Init /\ [][Next]_vars

-----------------------------------------------------------------------------
(* Every variable ranges over the values the code and the cluster give it. *)
TypeOK ==
  /\ job \in Jobs
  /\ rules \in Seq(Rules \cup {OwnRule})
  /\ handled \in BOOLEAN
  /\ phase \in {"none", "created", "failed", "complete", "refused"}
  /\ pod \in {"none", "blocked", "running"}
  /\ failures \in Nat /\ others \in Nat

(***************************************************************************)
(* Staggering costs a job nothing: if admission has handled it and its own  *)
(* rules do not decide against evicted stubs, the job is not charged for    *)
(* their evictions, and these do not make it fail.                          *)
(***************************************************************************)
Unclaimed(list) ==
  \A f \in StubFailures, action \in Actions \ {"Ignore"} :
    Claims(list, f) # {} => ~ Judges(list, f, action)

StaggeringIsFree ==
  (handled /\ Unclaimed(job.rules)) =>
    failures <= others /\ (phase = "failed" => others > 0)

(***************************************************************************)
(* What the author's rules say of a failed pod they still say after         *)
(* admission; what they leave open stays open but for disrupted pods.       *)
(***************************************************************************)
VerdictsKept ==
  \A f \in Failures, action \in Actions :
    (Disrupted \notin f \/ Claims(job.rules, f) # {}) =>
      (Judges(rules, f, action) <=> Judges(job.rules, f, action))

(***************************************************************************)
(* A job that comes by again gets no second rule (TestAdmissionJobSimple:   *)
(* "skip adding if exists").                                                *)
(***************************************************************************)
NoRuleTwice == Len(rules) <= Len(job.rules) + 1
=============================================================================
