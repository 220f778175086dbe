----------------------------- MODULE Benchmark ------------------------------
(***************************************************************************)
(* The benchmark command from its samples to the verdict on its result:    *)
(* runner.go summarises the samples of BenchRunner's processes and         *)
(* compares them with the budgets, cmd/benchmark writes the result and     *)
(* chooses the exit code, and artifact_validation.go judges the file when  *)
(* it is checked in as a baseline, perhaps with other budgets, perhaps     *)
(* after an edit.                                                          *)
(*                                                                         *)
(* What the samples measured is chosen when they are summarised: nothing   *)
(* before that step depends on it.  A measured value belongs to a scenario *)
(* of the Plan:                                                            *)
(*   duration   time to the first or the last response                     *)
(*   sizes      of the requests and responses    tools, schemas   counted  *)
(*   resources  metric |-> value, for the metrics the system has           *)
(***************************************************************************)
EXTENDS BenchRunner, Budgets

CONSTANTS Measurable,    \* what the samples may have measured: functions on the Plan
          BudgetFiles,   \* budget files, by name
          NoBudgets,     \* -budgets was not given
          MinWorkflows   \* workflows a baseline must have at least

VARIABLES
    measured,  \* an element of Measurable, once the samples are complete
    budgets,   \* the budget file of the run, or NoBudgets
    result,    \* what Run returned
    file,      \* the written results: none, or one
    damage,    \* the edit made to the file: "none" or its kind
    canonical, \* the budget file of the validation
    verdict    \* of loadValidatedBaselineArtifact: "none", "accepted" or "rejected"

evaluationVars == <<measured, budgets, result, file, damage, canonical, verdict>>

Sizes == WireSizes \cup WorkSizes

-----------------------------------------------------------------------------
(* The summary *)

\* The positions in the Plan whose samples are measured under a name.
SamplesOf(name) ==
    SelectSeq([i \in 1..Len(Plan) |-> i], LAMBDA i : Plan[i].name = name)

\* selected is the value wanted of every sample.
sampleValues(selected, indices) == [i \in DOMAIN indices |-> selected[indices[i]]]

optionalSampleValues(values, indices, metric) ==
    LET supported == SelectSeq(indices, LAMBDA i : metric \in DOMAIN values[i].resources)
    IN  [i \in DOMAIN supported |-> values[supported[i]].resources[metric]]

summarizeResources(values, indices) ==
    [metric \in ResourceMetrics |-> summarize(optionalSampleValues(values, indices, metric))]

startMeasurement(values, indices) ==
    [repetitions |-> Len(indices),
     duration |-> summarize(sampleValues([i \in DOMAIN values |-> values[i].duration], indices))]

toolsListMeasurement(profile, value) ==
    [name |-> profile, tools |-> value.tools, schemas |-> value.schemas,
     sizes |-> [size \in WireSizes |-> value.sizes[size]],
     tokens |-> approxTokensBytes4(value.sizes["response"])]

workflowMeasurement(workflow, values, indices) ==
    [name |-> workflow.name, repetitions |-> Len(indices), calls |-> workflow.calls,
     sizes |-> [size \in Sizes |-> summarize(sampleValues([i \in DOMAIN values |-> values[i].sizes[size]], indices))],
     duration |-> summarize(sampleValues([i \in DOMAIN values |-> values[i].duration], indices)),
     tokens |-> summarize(sampleValues([i \in DOMAIN values |-> approxTokensBytes4(values[i].sizes["response"])], indices)),
     exits |-> Len(indices)]

Summary(values) ==
    [first |-> startMeasurement(values, SamplesOf("first")),
     subsequent |-> startMeasurement(values, SamplesOf("subsequent")),
     resources |-> summarizeResources(values, [i \in 1..Len(Plan) |-> i]),
     tools |-> [i \in 1..2 |-> LET profile == <<"read_only", "default">>[i]
                               IN  toolsListMeasurement(profile, values[SamplesOf(profile)[1]])],
     workflows |-> [i \in DOMAIN referenceWorkflows |->
                      workflowMeasurement(referenceWorkflows[i], values,
                                          SamplesOf(referenceWorkflows[i].name))],
     evaluation |-> NoEvaluation]

-----------------------------------------------------------------------------
(* The end of Run, and of the command *)

\* The samples are complete: they are summarised.
Summarize ==
    /\ pc = "scenario" /\ done = Len(Plan)
    /\ measured' \in Measurable
    /\ result' = Summary(measured')
    /\ pc' = "evaluate"
    /\ UNCHANGED <<corpus, done, k, samples, answers, exit, childVars, waitVars,
                   budgets, file, damage, canonical, verdict>>

\* applyBudgetEvaluation, when there are budgets; a budget file that is no
\* good fails the run.  The corpus is removed on the way out.
Evaluate ==
    /\ pc = "evaluate"
    /\ RemoveCorpus
    /\ \/ /\ budgets' = NoBudgets
          /\ pc' = "result" /\ UNCHANGED <<exit, result>>
       \/ \E name \in DOMAIN BudgetFiles :
            /\ budgets' = name
            /\ IF Evaluates(BudgetFiles[name])
               THEN /\ result' = [result EXCEPT !.evaluation = EvaluateBudgets(BudgetFiles[name], result)]
                    /\ pc' = "result" /\ exit' = exit
               ELSE /\ pc' = "exited" /\ exit' = 1 /\ UNCHANGED result
    /\ UNCHANGED <<done, k, samples, answers, childVars, waitVars,
                   measured, file, damage, canonical, verdict>>

\* WriteResultFile returns an error, before or after the rename, or nil; then
\* hard failures are exit code 3.
WriteResult ==
    /\ pc = "result"
    /\ pc' = "exited"
    /\ \/ exit' = 1 /\ file' \in {{}, {result}}
       \/ exit' = (IF result.evaluation.hard > 0 THEN 3 ELSE 0) /\ file' = {result}
    /\ UNCHANGED <<corpus, done, k, samples, answers, childVars, waitVars,
                   measured, budgets, result, damage, canonical, verdict>>

-----------------------------------------------------------------------------
(* The written file as a baseline *)

\* What may happen to a file in a repository: a measurement gets lost in a
\* merge, appears twice, or under the wrong name; a size is lost or raised; the
\* embedded evaluation is replaced by a clean one or by an old one.
Damaged(kind, r) ==
    CASE kind = "lost"     -> [r EXCEPT !.workflows = Tail(@)]
      [] kind = "twice"    -> [r EXCEPT !.workflows = Append(@, @[1])]
      [] kind = "renamed"  -> [r EXCEPT !.workflows[1].name = r.workflows[Len(r.workflows)].name]
      [] kind = "profile"  -> [r EXCEPT !.tools[1].name = "default"]
      [] kind = "zero"     -> [r EXCEPT !.tools[1].sizes["response"] = 0]
      [] kind = "repeated" -> [r EXCEPT !.workflows[1].repetitions = @ + 1]
      [] kind = "cleared"  -> [r EXCEPT !.evaluation = NoEvaluation]
      [] kind = "warning"  -> [r EXCEPT !.evaluation.soft = Append(@, Warning("old", 1, 0))]

Damages == {"lost", "twice", "renamed", "profile", "zero", "repeated", "cleared", "warning"}

Damage ==
    /\ pc = "exited" /\ file # {} /\ damage = "none" /\ verdict = "none"
    /\ \E kind \in Damages : /\ damage' = kind
                             /\ file' = {Damaged(kind, r) : r \in file}
    /\ UNCHANGED <<vars, measured, budgets, result, canonical, verdict>>

\* The counts of the schema; provenance and versions are constants of the runner.
validateBaselineSchemaInvariants(r) ==
    /\ Len(r.tools) >= 2 /\ Len(r.workflows) >= MinWorkflows
    /\ r.first.repetitions >= 1 /\ r.subsequent.repetitions >= 1
    /\ \A i \in DOMAIN r.tools : r.tools[i].name \in expectedToolsListProfiles
    /\ \A i \in DOMAIN r.workflows : r.workflows[i].name # "" /\ r.workflows[i].repetitions >= 1
    /\ r.evaluation.hard >= 0

\* Mutant: only the hard failures count, not what the file says of them.
validateArtifactBudgetsHard(name, r) ==
    /\ Evaluates(BudgetFiles[name])
    /\ EvaluateBudgets(BudgetFiles[name], r).hard = 0

validateArtifactBudgets(name, r) ==
    /\ Evaluates(BudgetFiles[name])
    /\ EvaluateBudgets(BudgetFiles[name], r).hard = 0
    /\ EvaluateBudgets(BudgetFiles[name], r) = r.evaluation

loadValidatedBaselineArtifact(name, r) ==
    validateBaselineSchemaInvariants(r) /\ validateArtifactBudgets(name, r)

Validate ==
    /\ pc = "exited" /\ file # {} /\ verdict = "none"
    /\ \E name \in DOMAIN BudgetFiles, r \in file :
         /\ canonical' = name
         /\ verdict' = IF loadValidatedBaselineArtifact(name, r) THEN "accepted" ELSE "rejected"
    /\ UNCHANGED <<vars, measured, budgets, result, file, damage>>

-----------------------------------------------------------------------------
Init ==
    /\ RunnerInit
    /\ measured = <<>> /\ budgets = NoBudgets /\ result = <<>> /\ file = {} /\ damage = "none"
    /\ canonical = NoBudgets /\ verdict = "none"

Unevaluated == UNCHANGED evaluationVars

Next == \/ Begin /\ Unevaluated
        \/ StartServer /\ Unevaluated
        \/ WriteRequest /\ Unevaluated
        \/ ReadResponse /\ Unevaluated
        \/ Notify /\ Unevaluated
        \/ NextRequest /\ Unevaluated
        \/ CloseStdin /\ Unevaluated
        \/ SelectWait /\ Unevaluated
        \/ SelectTimer /\ Unevaluated
        \/ Drain /\ Unevaluated
        \/ Defer /\ Unevaluated
        \/ DeferWait /\ Unevaluated
        \/ Sample /\ Unevaluated
        \/ ScenarioFails /\ Unevaluated
        \/ Abort /\ Unevaluated
        \/ WaitReturns /\ Unevaluated
        \/ DeadlineFires /\ Unevaluated
        \/ TimerFires /\ Unevaluated
        \/ ChildAnswers /\ Unevaluated
        \/ ChildExits /\ Unevaluated
        \/ ChildDies /\ Unevaluated
        \/ Summarize \/ Evaluate \/ WriteResult \/ Damage \/ Validate

\* The command runs on; nobody has to damage or to validate the file.
Fairness == SystemFairness /\ WF_vars(Runner) /\ WF_vars(Summarize) /\ WF_vars(Evaluate) /\ WF_vars(WriteResult)

Spec == Init /\ [][Next]_<<vars, evaluationVars>> /\ Fairness

-----------------------------------------------------------------------------
(* Properties *)

\* The hard budgets, asked of every single sample.
WithinHardBudgets(values, f) ==
    /\ ToSet(f.catalog) = {w.name : w \in ToSet(referenceWorkflows)}
    /\ \A w \in ToSet(referenceWorkflows) : w.calls = f.workflows[w.name].calls
    /\ \A i \in DOMAIN Plan :
         LET name == Plan[i].name
         IN  /\ name \in DOMAIN f.tools =>
                  /\ values[i].tools = f.tools[name].tools /\ values[i].schemas = f.tools[name].schemas
                  /\ \A size \in WireSizes : values[i].sizes[size] <= f.tools[name].max[size]
             /\ name \in DOMAIN f.workflows =>
                  \A size \in Sizes : values[i].sizes[size] <= f.workflows[name].max[size]

\* More than five in a hundred of the samples under a name are above a limit.
TooSlow(values, name, limit) ==
    LET all == ToSet(SamplesOf(name))
    IN  Cardinality({i \in all : values[i].duration <= limit}) * 100 < Cardinality(all) * 95

\* The review warnings, asked of the samples.
WarningsDue(values, f) ==
    {name \in DOMAIN f.workflows : TooSlow(values, name, f.p95[name])}
      \cup (IF TooSlow(values, "subsequent", f.start) THEN {"subsequent_process_start"} ELSE {})
      \cup {metric \in ResourceMetrics : \E i \in DOMAIN Plan :
              metric \in DOMAIN values[i].resources /\ values[i].resources[metric] > f.resources[metric]}

WarningsIn(r) == {w.what : w \in ToSet(r.evaluation.soft)}

\* The exit code is the gate of the pipeline: a result was written and 3 is
\* returned exactly when one sample of one process broke a hard budget, or the
\* workflows are not those of the catalogue; no time and no memory decides it.
GateExact ==
    exit \in {0, 3} =>
       (exit = 3 <=> budgets # NoBudgets /\ ~WithinHardBudgets(measured, BudgetFiles[budgets]))

\* A review warning is raised exactly when more than 5 percent of the samples
\* are over a time limit, or one over a limit of a resource; the first start
\* never counts among the subsequent ones.
WarnsExactly ==
    pc = "result" /\ budgets # NoBudgets =>
       WarningsIn(result) = WarningsDue(measured, BudgetFiles[budgets])

\* A file is accepted as a baseline only if nothing was lost from it, the
\* samples themselves are within the hard budgets of the validation, and it
\* admits the warnings that are due; and a run that exited with 0 is accepted
\* under its own budgets.
BaselineSound ==
    /\ verdict = "accepted" =>
         /\ damage \in {"none", "cleared"}
         /\ WithinHardBudgets(measured, BudgetFiles[canonical])
         /\ \A r \in file : WarningsIn(r) = WarningsDue(measured, BudgetFiles[canonical])
    /\ exit = 0 /\ damage = "none" /\ verdict # "none" /\ canonical = budgets => verdict = "accepted"
=============================================================================
