--------------------------- MODULE JobEvaluation ---------------------------
(***************************************************************************)
(* The judgement of one posting, new or updated, by one account:           *)
(* _evaluate_new_or_updated_job(), the filters before the scores, the      *)
(* cheap ones before those that ask the LLM, and every question with the   *)
(* retries of the adapter and the one repair of the gateway.               *)
(* Texts are the signals that filters find in them.  Scores and confidence *)
(* are in units of Scale (1.0, or 100 points); an AI match score is kept   *)
(* as the weighted sum and the sum of the weights it is divided by.        *)
(***************************************************************************)
EXTENDS Naturals

CONSTANTS
  Scale,
  Confidence, Tolerance,   \* thresholds.department_confidence(_tolerance)
  MatchScore, BandWidth,   \* thresholds.ai_match_score, borderline_band_width
  WeightChoices,           \* what weights_ai_match may be
  MaxAttempts,             \* thresholds.llm_retry_attempts
  None

Component == {"department", "experience", "location", "company", "career"}

ASSUME EvaluationAssumption ==
  /\ Scale \in Nat \ {0} /\ MaxAttempts \in Nat \ {0}
  /\ Confidence \in 0..Scale /\ Tolerance \in 0..Confidence
  /\ MatchScore \in 0..Scale /\ BandWidth \in 0..MatchScore
  /\ WeightChoices \subseteq [Component -> Nat]
  /\ None \notin Nat

Question == {"experience", "department", "company", "career", "rationale"}
Text     == [senior : BOOLEAN, accepted : BOOLEAN]
Posting  == [excluded : BOOLEAN,      \* it or its company is on the blacklist
             inTarget : BOOLEAN,      \* its location names a target location
             trainee  : BOOLEAN,      \* a management trainee program
             title    : Text, description : Text]

VARIABLES
  weights,      \* weights_ai_match of the account
  job,
  stage,        \* the filter or score that is next
  asked,        \* the questions put to the LLM
  attempt,      \* of the question asked now
  repair,       \* it is asked again for an answer that fits the schema
  confidence,   \* of the department filter
  cluster,      \* matched_cluster is not None
  company,      \* score_total, None for Unrated
  career,       \* CareerGoalAlignmentInference.score
  verdict       \* what becomes of the posting

evaluationVars ==
  <<weights, job, stage, asked, attempt, repair, confidence, cluster, company, career, verdict>>

Answers == <<confidence, cluster, company, career>>
Units   == 0..Scale
Stages  == {"blacklist", "location", "done", "failed"} \cup Question
Judgement ==
  [status : {"unchanged", "Excluded"}, passed : BOOLEAN,
   sum : Nat \cup {None}, weight : Nat \cup {None},
   cluster : BOOLEAN, borderline : BOOLEAN]

ASSUME NoneAssumption == None \notin Judgement

EvaluationTypeOK ==
  /\ weights \in WeightChoices /\ job \in Posting /\ stage \in Stages
  /\ asked \subseteq Question
  /\ attempt \in 1..MaxAttempts /\ repair \in BOOLEAN
  /\ confidence \in Units \cup {None} /\ cluster \in BOOLEAN
  /\ company \in Units \cup {None} /\ career \in Units \cup {None}
  /\ verdict \in Judgement \cup {None}
  /\ stage = "done" <=> verdict # None

EvaluationInit ==
  /\ weights \in WeightChoices /\ job \in Posting
  /\ stage = "blacklist" /\ asked = {} /\ attempt = 1 /\ repair = FALSE
  /\ confidence = None /\ cluster = FALSE /\ company = None /\ career = None
  /\ verdict = None

-----------------------------------------------------------------------------
(* What an evaluation ends in.                                             *)

(* Not passed: no score, no department; Excluded if the blacklist said so. *)
Reject ==
  /\ verdict' = [status |-> IF job.excluded THEN "Excluded" ELSE "unchanged",
                 passed |-> FALSE, sum |-> None, weight |-> None,
                 cluster |-> FALSE, borderline |-> FALSE]
  /\ stage' = "done" /\ attempt' = 1 /\ repair' = FALSE

(* compute_is_borderline(): passed below the threshold of the department   *)
(* filter, or a score in the band below its own.                           *)
IsBorderline(sum, weight) ==
  \/ confidence < Confidence
  \/ /\ sum # None
     /\ (MatchScore - BandWidth) * weight <= sum /\ sum < MatchScore * weight

Accept(sum, weight) ==
  /\ verdict' = [status |-> "unchanged", passed |-> TRUE, sum |-> sum, weight |-> weight,
                 cluster |-> cluster, borderline |-> IsBorderline(sum, weight)]
  /\ stage' = "done" /\ attempt' = 1 /\ repair' = FALSE

(* "Scoring Unavailable": passed, with neither score nor rationale. *)
Unavailable == Accept(None, None)

GoOn(next) == stage' = next /\ attempt' = 1 /\ repair' = FALSE /\ UNCHANGED verdict

-----------------------------------------------------------------------------
(* The rules.                                                              *)
BlacklistFilter ==
  /\ stage = "blacklist"
  /\ IF job.excluded THEN Reject ELSE GoOn("location")
  /\ UNCHANGED <<weights, job, asked, Answers>>

(* A slip: the location is looked at while experience is inferred. *)
LocationLater ==
  /\ stage = "location"
  /\ GoOn("experience")
  /\ UNCHANGED <<weights, job, asked, Answers>>

(* Unclear locations of remote jobs are rejected like the others. *)
Location ==
  /\ stage = "location"
  /\ IF job.inTarget THEN GoOn("experience") ELSE Reject
  /\ UNCHANGED <<weights, job, asked, Answers>>

(* _rule_based_signal() *)
Signal(text) ==
  IF text.senior /\ ~job.trainee THEN "senior"
  ELSE IF text.accepted THEN "accepted" ELSE "unknown"

(* filter_by_experience_level(): what the description says counts, if it   *)
(* says anything.                                                          *)
FinalSignal ==
  IF Signal(job.description) # "unknown" THEN Signal(job.description) ELSE Signal(job.title)

ExperienceByRule ==
  /\ stage = "experience" /\ FinalSignal # "unknown"
  /\ IF FinalSignal = "accepted" THEN GoOn("department") ELSE Reject
  /\ UNCHANGED <<weights, job, asked, Answers>>

(* A company score of an earlier job or run, within its window. *)
CompanyFromCache ==
  /\ stage = "company" /\ "company" \notin asked
  /\ company' \in Units \cup {None}
  /\ GoOn("career")
  /\ UNCHANGED <<weights, job, asked, confidence, cluster, career>>

-----------------------------------------------------------------------------
(* The LLM: LLMGateway.generate() around generate_structured().            *)
Asks == stage \in Question /\ ~(stage = "experience" /\ FinalSignal # "unknown")

(* retry_with_backoff(): the last error fails the run. *)
TransientError ==
  /\ Asks /\ asked' = asked \cup {stage}
  /\ IF attempt < MaxAttempts THEN attempt' = attempt + 1 /\ UNCHANGED stage
                              ELSE stage' = "failed" /\ UNCHANGED attempt
  /\ UNCHANGED <<weights, job, repair, verdict, Answers>>

(* No tool_use, a refused key: nothing catches it before run() does. *)
OtherError ==
  /\ Asks /\ asked' = asked \cup {stage}
  /\ stage' = "failed"
  /\ UNCHANGED <<weights, job, attempt, repair, verdict, Answers>>

(* An answer that does not fit the schema: one repair, then None. *)
Misfit ==
  /\ Asks /\ ~repair
  /\ asked' = asked \cup {stage} /\ repair' = TRUE /\ attempt' = 1
  /\ UNCHANGED <<weights, job, stage, verdict, Answers>>

NoAnswer ==
  /\ Asks /\ repair
  /\ \/ stage \in {"experience", "department"} /\ Reject
     \/ stage = "company" /\ GoOn("career")          \* Unrated
     \/ stage \in {"career", "rationale"} /\ Unavailable
  /\ asked' = asked \cup {stage}
  /\ UNCHANGED <<weights, job, Answers>>

AnswerExperience ==
  /\ stage = "experience" /\ Asks
  /\ Reject \/ GoOn("department")
  /\ asked' = asked \cup {stage}
  /\ UNCHANGED <<weights, job, Answers>>

(* The threshold, and the tolerance below it that lets a job pass with a   *)
(* mark.  The cluster is not looked at.                                    *)
AnswerDepartment ==
  /\ stage = "department"
  /\ confidence' \in Units /\ cluster' \in BOOLEAN
  /\ IF confidence' >= Confidence - Tolerance THEN GoOn("company") ELSE Reject
  /\ asked' = asked \cup {stage}
  /\ UNCHANGED <<weights, job, company, career>>

AnswerCompany ==
  /\ stage = "company"
  /\ company' \in Units \cup {None}      \* None: no dimension could be rated
  /\ GoOn("career")
  /\ asked' = asked \cup {stage}
  /\ UNCHANGED <<weights, job, confidence, cluster, career>>

(* A slip: the weight of an Unrated company is not left out, and that of a *)
(* rated one is.                                                           *)
TotalWeightOfUnrated ==
  weights["department"] + weights["experience"] + weights["location"] + weights["career"]
    + (IF company = None THEN weights["company"] ELSE 0)

(* _weighted_ai_match_score(): an Unrated company takes no part in it, and *)
(* who has come so far fits in experience and location.                    *)
TotalWeight ==
  weights["department"] + weights["experience"] + weights["location"] + weights["career"]
    + (IF company = None THEN 0 ELSE weights["company"])

WeightedSum ==
  confidence * weights["department"] + Scale * weights["experience"]
    + Scale * weights["location"] + career * weights["career"]
    + (IF company = None THEN 0 ELSE company * weights["company"])

(* A slip: the score is complete, so the job has it. *)
AnswerCareerAccepting ==
  /\ stage = "career"
  /\ career' \in Units
  /\ IF TotalWeight = 0 THEN Unavailable
     ELSE Accept(confidence * weights["department"] + career' * weights["career"], TotalWeight)
  /\ asked' = asked \cup {stage}
  /\ UNCHANGED <<weights, job, confidence, cluster, company>>

(* Without any weight to divide by there is no score either. *)
AnswerCareer ==
  /\ stage = "career"
  /\ career' \in Units
  /\ IF TotalWeight = 0 THEN Unavailable ELSE GoOn("rationale")
  /\ asked' = asked \cup {stage}
  /\ UNCHANGED <<weights, job, confidence, cluster, company>>

(* _is_grounded(): a rationale that names anything but the components is   *)
(* as good as none.                                                        *)
AnswerRationale ==
  /\ stage = "rationale"
  /\ Accept(WeightedSum, TotalWeight) \/ Unavailable
  /\ asked' = asked \cup {stage}
  /\ UNCHANGED <<weights, job, Answers>>

Ended == stage \in {"done", "failed"} /\ UNCHANGED evaluationVars

Rule   == BlacklistFilter \/ Location \/ ExperienceByRule \/ CompanyFromCache
Answer == AnswerExperience \/ AnswerDepartment \/ AnswerCompany \/ AnswerCareer \/ AnswerRationale
Error  == TransientError \/ OtherError \/ Misfit \/ NoAnswer

EvaluationNext == Rule \/ Answer \/ Error \/ Ended

EvaluationSpec == EvaluationInit /\ [][EvaluationNext]_evaluationVars

-----------------------------------------------------------------------------
(* Properties                                                              *)

(* PRD 11.4: nobody pays for questions about a job the cheap filters turn  *)
(* away, nor for scores of one that does not pass.                         *)
CheapFiltersFirst ==
  /\ asked # {} => ~job.excluded /\ job.inTarget
  /\ asked \cap {"company", "career", "rationale"} # {} =>
       confidence # None /\ confidence >= Confidence - Tolerance

(* FR-7, gateway.py: a score is never made up: every figure in it has been *)
(* answered, and the rationale that comes with it has been asked for.  (The *)
(* first conjunct types the state.)                                         *)
ScoreIsEarned ==
  /\ EvaluationTypeOK
  /\ verdict # None /\ verdict.sum # None =>
       /\ confidence # None /\ career # None
       /\ {"department", "career", "rationale"} \subseteq asked

(* PRD 12.3 and 13.1: the score is a mean of the figures there are, whether *)
(* the company is rated or not: never above the scale, nor below the worst *)
(* of them.                                                                *)
ScoreIsAMean ==
  verdict # None /\ verdict.sum # None =>
    /\ verdict.weight > 0 /\ verdict.sum <= Scale * verdict.weight
    /\ \E worst \in {confidence, career, company} \ {None} :
         verdict.sum >= worst * verdict.weight
=============================================================================
