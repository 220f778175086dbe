------------------------------ MODULE Budgets -------------------------------
(***************************************************************************)
(* internal/benchmark/budgets.go: a benchmark result against the budgets.  *)
(* Hard budgets are exact counts and maxima of sizes and decide the exit   *)
(* code; soft budgets are about time and memory and only warn.             *)
(*                                                                         *)
(* A budget file stands for budgets.json and the workflows.json beside it: *)
(*   readable   both are read, decode strictly and have the right version  *)
(*   tools      profile  |-> [tools, schemas, max]                         *)
(*   workflows  workflow |-> [calls, max]                                  *)
(*   p95        workflow |-> limit       start, resources   other limits   *)
(*   catalog    the names in workflows.json, a sequence                    *)
(* max maps every size to its maximum.                                     *)
(***************************************************************************)
EXTENDS Statistics, FiniteSets, SequencesExt

CONSTANTS WireSizes,  \* sizes that are zero in no measurement: request, response, result
          WorkSizes,  \* sizes that may be: bytes read, written and scanned, entries
          ResourceMetrics  \* idle and peak working set, user and system time

expectedToolsListProfiles == {"read_only", "default"}

loadExpectedWorkflowNames(catalog) ==
    catalog # <<>> /\ IsInjective(catalog) /\ "" \notin ToSet(catalog)

validateBudgetDefinitions(file, expected) ==
    /\ DOMAIN file.tools = expectedToolsListProfiles
    /\ DOMAIN file.workflows = expected
    /\ DOMAIN file.p95 = expected
    /\ file.start > 0
    /\ \A metric \in ResourceMetrics : file.resources[metric] > 0
    /\ \A workflow \in expected : file.p95[workflow] > 0

\* EvaluateBudgets returns an evaluation, not an error.
Evaluates(file) ==
    /\ file.readable
    /\ loadExpectedWorkflowNames(file.catalog)
    /\ validateBudgetDefinitions(file, ToSet(file.catalog))

-----------------------------------------------------------------------------
(* Hard failures: a set with one element for every failure that is counted *)

completeToolsListMeasurement(m) ==
    /\ m.tools > 0 /\ m.schemas > 0 /\ m.tokens # 0
    /\ \A size \in WireSizes : m.sizes[size] # 0

completeWorkflowMeasurement(m) ==
    /\ m.repetitions > 0
    /\ \A size \in WireSizes \cup WorkSizes : m.sizes[size].samples = m.repetitions
    /\ {m.duration.samples, m.tokens.samples, m.exits} = {m.repetitions}
    /\ m.duration.max # 0
    /\ \A size \in WireSizes : m.sizes[size].max # 0

\* The part that is the same for tools/list and for the workflows: every
\* expected name is measured once, completely, and has a budget.  complete are
\* the positions of the measurements that are.
Structure(measurements, complete, expected, budgeted) ==
    LET Known(i) == measurements[i].name \in expected
        First(i) == \A j \in 1..(i - 1) : measurements[j].name # measurements[i].name
        Positions(P(_)) == {i \in DOMAIN measurements : P(i)}
        Unknown(i) == ~Known(i)
        Duplicated(i) == Known(i) /\ ~First(i)
        Incomplete(i) == Known(i) /\ First(i) /\ i \notin complete
        Seen == {m.name : m \in ToSet(measurements)}
    IN  UNION {{"count"} \X (IF Len(measurements) # Cardinality(expected) THEN {0} ELSE {}),
               {"unknown"} \X Positions(Unknown),
               {"duplicated"} \X Positions(Duplicated),
               {"incomplete"} \X Positions(Incomplete),
               {"missing"} \X (expected \ Seen),
               {"without budget"} \X (expected \ budgeted),
               {"unknown budget"} \X (budgeted \ expected)}

validateToolsListMeasurements(measurements, budgets) ==
    Structure(measurements, {i \in DOMAIN measurements : completeToolsListMeasurement(measurements[i])},
              expectedToolsListProfiles, DOMAIN budgets)

validateWorkflowMeasurements(measurements, expected, budgets) ==
    Structure(measurements, {i \in DOMAIN measurements : completeWorkflowMeasurement(measurements[i])},
              expected, DOMAIN budgets)

checkHardMaximum(actual, maximum) == actual <= maximum

ToolsListFailures(m, budgets) ==
    IF m.name \notin DOMAIN budgets THEN {"no budget"}
    ELSE {size \in WireSizes : ~checkHardMaximum(m.sizes[size], budgets[m.name].max[size])}
         \cup {count \in {"tools", "schemas"} : m[count] # budgets[m.name][count]}

\* Mutant: the middle of the samples is compared, not the largest.
WorkflowFailuresMedian(m, budgets) ==
    IF m.name \notin DOMAIN budgets THEN {"no budget"}
    ELSE {size \in WireSizes \cup WorkSizes :
             ~checkHardMaximum(m.sizes[size].p50, budgets[m.name].max[size])}
         \cup {count \in {"calls"} : m[count] # budgets[m.name][count]}

WorkflowFailures(m, budgets) ==
    IF m.name \notin DOMAIN budgets THEN {"no budget"}
    ELSE {size \in WireSizes \cup WorkSizes :
             ~checkHardMaximum(m.sizes[size].max, budgets[m.name].max[size])}
         \cup {count \in {"calls"} : m[count] # budgets[m.name][count]}

HardFailures(file, result) ==
    UNION {{"tools/list"} \X validateToolsListMeasurements(result.tools, file.tools),
           {"workflow"} \X validateWorkflowMeasurements(result.workflows, ToSet(file.catalog), file.workflows),
           UNION {{"tools/list budget"} \X (ToolsListFailures(result.tools[i], file.tools) \X {i})
                   : i \in DOMAIN result.tools},
           UNION {{"workflow budget"} \X (WorkflowFailures(result.workflows[i], file.workflows) \X {i})
                   : i \in DOMAIN result.workflows}}

-----------------------------------------------------------------------------
(* Soft warnings: the messages, in the order of the code *)

Warning(what, actual, limit) == [what |-> what, actual |-> actual, limit |-> limit]

Exceeding(warnings) == SelectSeq(warnings, LAMBDA w : w.actual > w.limit)

WorkflowWarnings(file, workflows) ==
    LET budgeted == SelectSeq(workflows, LAMBDA m : m.name \in DOMAIN file.workflows)
    IN  Exceeding([i \in DOMAIN budgeted |->
                     Warning(budgeted[i].name, budgeted[i].duration.p95, file.p95[budgeted[i].name])])

ResourceWarnings(file, resources) ==
    LET supported == SelectSeq(SetToSeq(ResourceMetrics), LAMBDA metric : resources[metric].samples > 0)
    IN  Exceeding([i \in DOMAIN supported |->
                     Warning(supported[i], resources[supported[i]].max, file.resources[supported[i]])])

SoftWarnings(file, result) ==
    WorkflowWarnings(file, result.workflows)
      \o Exceeding(<<Warning("subsequent_process_start", result.subsequent.duration.p95, file.start)>>)
      \o ResourceWarnings(file, result.resources)

\* The hard messages are left out: an evaluation with hard failures is
\* compared with no other.
EvaluateBudgets(file, result) ==
    [hard |-> Cardinality(HardFailures(file, result)), soft |-> SoftWarnings(file, result)]

\* What a result holds that was compared with no budgets.
NoEvaluation == [hard |-> 0, soft |-> <<>>]
=============================================================================
