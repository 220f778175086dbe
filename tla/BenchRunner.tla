---------------------------- MODULE BenchRunner -----------------------------
(***************************************************************************)
(* cmd/benchmark and internal/benchmark/runner.go: Run starts a server     *)
(* process for every scenario, talks to it line by line, makes it exit and *)
(* collects a sample.  The server may answer anything, exit or hang at any *)
(* moment; a context deadline (30 s) kills it, and a timer (5 s) bounds    *)
(* the exit.                                                               *)
(*                                                                         *)
(* A response is good or bad for the request it must answer; what a sample *)
(* measures has no influence here and is added by Benchmark.  Time is left *)
(* out: a timer may fire at any moment while it runs.                      *)
(***************************************************************************)
EXTENDS Integers, Sequences

CONSTANTS Repetitions,         \* subsequent starts, and processes per workflow
          referenceWorkflows,  \* sequence of [name, requests, calls]
          MaxUnread            \* bound: lines the server is ahead of the runner

ASSUME RunnerAssumption ==
    /\ {Repetitions, MaxUnread} \subseteq Nat \ {0}
    /\ \A i \in DOMAIN referenceWorkflows : referenceWorkflows[i].requests \in Nat \ {0}

\* The scenarios of Run, one server process each: what they are measured for
\* and how many requests they make, the first of which is initialize.
Plan ==
    LET Start(name) == [name |-> name, requests |-> 1]
        List(profile) == [name |-> profile, requests |-> 2]
        workflows == [i \in 1..(Len(referenceWorkflows) * Repetitions) |->
                        LET w == referenceWorkflows[(i - 1) \div Repetitions + 1]
                        IN  [name |-> w.name, requests |-> w.requests]]
    IN  <<Start("first")>> \o [i \in 1..Repetitions |-> Start("subsequent")]
          \o <<List("read_only"), List("default")>> \o workflows

VARIABLES
    pc,         \* where the runner is
    corpus,     \* the fixture directory: "none", "present", "removed", or "left"
                \* when its removal has failed
    done,       \* scenarios that produced a sample
    k,          \* the request executeScenario works on
    child,      \* "none", "running", "killed", "exited" or "reaped"
    status,     \* its exit status: "ok", "failed", "signal" or "none"
    stdin,      \* the pipe to it: open or not
    sent,       \* requests written to it
    pipe,       \* responses the runner has not read: the request they answer, 0 if bad
    deadline,   \* the scenario's context: "off", "armed" or "expired"
    wait,       \* the goroutine of controlledExit: "none", "waiting", "ok" or "error"
    timer,      \* its timer: "off", "armed" or "expired"
    samples,    \* accepted samples: [name, answers, status]
    answers,    \* responses accepted in this scenario
    waits,      \* calls of command.Wait on this child
    exit        \* exit code of the command, or Running

\* Requests of the scenario that runs.
Requests == Plan[done + 1].requests

runVars == <<pc, corpus, done, k, samples, answers, exit>>
childVars == <<child, status, stdin, sent, pipe>>
waitVars == <<deadline, wait, timer, waits>>
vars == <<runVars, childVars, waitVars>>

Running == 99  \* no exit code yet

RunnerInit ==
    /\ pc = "flags" /\ corpus = "none" /\ done = 0 /\ k = 0
    /\ samples = <<>> /\ answers = <<>> /\ exit = Running
    /\ child = "none" /\ status = "none" /\ stdin = FALSE /\ sent = 0 /\ pipe = <<>>
    /\ deadline = "off" /\ wait = "none" /\ timer = "off" /\ waits = 0

-----------------------------------------------------------------------------
(* The server process and the operating system *)

\* The server writes a line: an answer to a request it was sent, perhaps one
\* it has answered before, or anything else (0), the end of its output too.
ChildAnswers ==
    /\ child = "running" /\ Len(pipe) < MaxUnread
    /\ \E r \in 0..sent : pipe' = Append(pipe, r)
    /\ UNCHANGED <<child, status, stdin, sent, runVars, waitVars>>

\* It exits when it likes; a server that is in order only at EOF.
ChildExits ==
    /\ child = "running"
    /\ child' = "exited"
    /\ status' \in {"ok", "failed"}
    /\ UNCHANGED <<stdin, sent, pipe, runVars, waitVars>>

\* SIGKILL takes effect.
ChildDies ==
    /\ child = "killed"
    /\ child' = "exited" /\ status' = "signal"
    /\ UNCHANGED <<stdin, sent, pipe, runVars, waitVars>>

Kill == child' = IF child = "running" THEN "killed" ELSE child

\* Mutant: the deadline is noticed by nobody but the context.
DeadlineIgnored ==
    /\ deadline = "armed"
    /\ deadline' = "expired"
    /\ UNCHANGED <<childVars, wait, timer, waits, runVars>>

\* os/exec: the goroutine that watches the context of CommandContext.
DeadlineFires ==
    /\ deadline = "armed"
    /\ deadline' = "expired"
    /\ Kill
    /\ UNCHANGED <<status, stdin, sent, pipe, wait, timer, waits, runVars>>

-----------------------------------------------------------------------------
(* Run *)

\* os.RemoveAll of the corpus: when it fails, the error is dropped.
RemoveCorpus == corpus' \in {"removed", "left"}

\* The flags, the binary and the options may be wrong, or -h asks for the usage
\* only; the corpus may not be created, and then createCorpus removes what it
\* has made itself.
Begin ==
    /\ pc = "flags"
    /\ \/ pc' = "scenario" /\ corpus' = "present" /\ exit' = exit
       \/ /\ pc' = "exited"
          /\ \/ corpus' = "none" /\ exit' \in {0, 1, 2}
             \/ RemoveCorpus /\ exit' = 1
    /\ UNCHANGED <<done, k, samples, answers, childVars, waitVars>>

\* executeScenario: a context with a deadline, and command.Start.
StartServer ==
    /\ pc = "scenario" /\ done < Len(Plan)
    /\ answers' = <<>> /\ k' = 1
    /\ \/ /\ pc' = "write"
          /\ child' = "running" /\ status' = "none" /\ stdin' = TRUE /\ sent' = 0 /\ pipe' = <<>>
          /\ deadline' = "armed" /\ wait' = "none" /\ timer' = "off" /\ waits' = 0
       \/ /\ pc' = "abort"
          /\ UNCHANGED <<childVars, waitVars>>
    /\ UNCHANGED <<corpus, done, samples, exit>>

\* stdin.Write needs a process that has not gone; even then the process may
\* have closed its end.
WriteRequest ==
    /\ pc = "write"
    /\ \/ /\ child # "exited"
          /\ sent' = k
          /\ pc' = "read"
       \/ sent' = sent /\ pc' = "defer"
    /\ UNCHANGED <<child, status, stdin, pipe, corpus, done, k, samples, answers, exit, waitVars>>

\* Mutant: the envelope of the response is not compared with the request.
ReadAnything ==
    /\ pc = "read"
    /\ \/ /\ pipe # <<>>
          /\ pipe' = Tail(pipe)
          /\ answers' = Append(answers, Head(pipe))
          /\ pc' = IF k = 1 THEN "notify" ELSE "next"
       \/ /\ pipe = <<>> /\ child = "exited"
          /\ pc' = "defer"
          /\ UNCHANGED <<pipe, answers>>
    /\ UNCHANGED <<child, status, stdin, sent, corpus, done, k, samples, exit, waitVars>>

\* ReadBytes blocks until there is a line or the process is gone; then
\* decodeResponse and the validation of the result.
ReadResponse ==
    /\ pc = "read"
    /\ \/ /\ pipe # <<>>
          /\ pipe' = Tail(pipe)
          /\ IF Head(pipe) = k
             THEN /\ answers' = Append(answers, k)
                  /\ pc' = IF k = 1 THEN "notify" ELSE "next"
             ELSE pc' = "defer" /\ answers' = answers
       \/ /\ pipe = <<>> /\ child = "exited"
          /\ pc' = "defer"
          /\ UNCHANGED <<pipe, answers>>
    /\ UNCHANGED <<child, status, stdin, sent, corpus, done, k, samples, exit, waitVars>>

\* notifications/initialized, which is not answered.
Notify ==
    /\ pc = "notify"
    /\ \/ child # "exited" /\ pc' = "next"
       \/ pc' = "defer"
    /\ UNCHANGED <<corpus, done, k, samples, answers, exit, childVars, waitVars>>

NextRequest ==
    /\ pc = "next"
    /\ \/ k < Requests /\ k' = k + 1 /\ pc' = "write"
       \/ k = Requests /\ k' = k /\ pc' = "close"
    /\ UNCHANGED <<corpus, done, samples, answers, exit, childVars, waitVars>>

-----------------------------------------------------------------------------
(* controlledExit *)

\* stdin is closed, a goroutine waits for the process, and the timer starts.
\* When closing fails, the process is killed.
CloseStdin ==
    /\ pc = "close"
    /\ stdin' = FALSE
    /\ \/ pc' = "select" /\ UNCHANGED child
       \/ pc' = "selectclosed" /\ Kill
    /\ wait' = "waiting" /\ waits' = waits + 1
    /\ timer' = "armed"
    /\ UNCHANGED <<status, sent, pipe, deadline, corpus, done, k, samples, answers, exit>>

\* command.Wait returns in the goroutine: nil for status 0, unless the
\* deadline has passed and its kill still found the process in the table.
WaitReturns ==
    /\ wait = "waiting" /\ child = "exited"
    /\ child' = "reaped"
    /\ \/ status = "ok" /\ wait' = "ok"
       \/ (status # "ok" \/ deadline = "expired") /\ wait' = "error"
    /\ UNCHANGED <<status, stdin, sent, pipe, deadline, timer, waits, runVars>>

TimerFires ==
    /\ timer = "armed" /\ pc \in {"select", "selectclosed"}
    /\ timer' = "expired"
    /\ UNCHANGED <<childVars, deadline, wait, waits, runVars>>

SelectWait ==
    /\ pc \in {"select", "selectclosed"} /\ wait \in {"ok", "error"}
    /\ pc' = IF wait = "ok" /\ pc = "select" THEN "sample" ELSE "return"
    /\ timer' = "off"
    /\ UNCHANGED <<corpus, done, k, samples, answers, exit, childVars, deadline, wait, waits>>

\* Mutant: after the kill nobody waits for the goroutine.
SelectTimerReturns ==
    /\ pc \in {"select", "selectclosed"} /\ timer = "expired"
    /\ pc' = "return"
    /\ Kill
    /\ UNCHANGED <<status, stdin, sent, pipe, corpus, done, k, samples, answers, exit, waitVars>>

SelectTimer ==
    /\ pc \in {"select", "selectclosed"} /\ timer = "expired"
    /\ pc' = "drain"
    /\ Kill
    /\ UNCHANGED <<status, stdin, sent, pipe, corpus, done, k, samples, answers, exit, waitVars>>

\* waitErr := <-wait after the kill: whatever it is, the exit timed out.
Drain ==
    /\ pc = "drain" /\ wait \in {"ok", "error"}
    /\ pc' = "return"
    /\ UNCHANGED <<corpus, done, k, samples, answers, exit, childVars, waitVars>>

-----------------------------------------------------------------------------
(* The ends of a scenario *)

\* The deferred function of a failed scenario: stdin is closed, the process
\* killed and waited for.
Defer ==
    /\ pc = "defer"
    /\ stdin' = FALSE
    /\ Kill
    /\ waits' = waits + 1
    /\ pc' = "deferwait"
    /\ UNCHANGED <<status, sent, pipe, corpus, done, k, samples, answers, exit, deadline, wait, timer>>

DeferWait ==
    /\ pc = "deferwait" /\ child = "exited"
    /\ child' = "reaped"
    /\ pc' = "return"
    /\ UNCHANGED <<status, stdin, sent, pipe, corpus, done, k, samples, answers, exit, waitVars>>

\* executeScenario returns: stdout is closed, and cancel() runs last.
Leave ==
    /\ deadline' = "off"
    /\ pipe' = <<>>
    /\ UNCHANGED <<corpus, k, answers, exit, child, status, stdin, sent, wait, timer, waits>>

\* The scenario succeeds, and its sample counts, unless toolsListMeasurement
\* finds the tool list wrong.
Sample ==
    /\ pc = "sample"
    /\ Leave
    /\ \/ /\ samples' = Append(samples, [name |-> Plan[done + 1].name, answers |-> answers,
                                         status |-> status])
          /\ done' = done + 1
          /\ pc' = "scenario"
       \/ /\ Plan[done + 1].name \in {"read_only", "default"}
          /\ pc' = "abort" /\ UNCHANGED <<samples, done>>

\* It fails, and Run with it.
ScenarioFails ==
    /\ pc = "return"
    /\ Leave
    /\ pc' = "abort" /\ UNCHANGED <<samples, done>>

-----------------------------------------------------------------------------
(* The end of a Run that fails *)

\* Mutant: the corpus is removed only when Run succeeds.
AbortKeepsCorpus ==
    /\ pc = "abort"
    /\ exit' = 1 /\ pc' = "exited"
    /\ UNCHANGED <<corpus, done, k, samples, answers, childVars, waitVars>>

\* The deferred removal runs on every way out of Run.
Abort ==
    /\ pc = "abort"
    /\ RemoveCorpus
    /\ exit' = 1 /\ pc' = "exited"
    /\ UNCHANGED <<done, k, samples, answers, childVars, waitVars>>

Runner == \/ Begin \/ StartServer \/ WriteRequest \/ ReadResponse \/ Notify \/ NextRequest
          \/ CloseStdin \/ SelectWait \/ SelectTimer \/ Drain \/ Defer \/ DeferWait
          \/ Sample \/ ScenarioFails \/ Abort

\* Timers that are armed fire, a killed process dies, and the goroutine that
\* waits runs.  The server is trusted with nothing.
SystemFairness == /\ WF_vars(WaitReturns) /\ WF_vars(ChildDies)
                  /\ WF_vars(DeadlineFires) /\ WF_vars(TimerFires)

-----------------------------------------------------------------------------
(* Properties *)

\* Between two scenarios and when the command exits, the server process of
\* the last scenario was waited for exactly once: no orphan measures along
\* with the next server, and no zombie stays.
NoOrphans ==
    pc \in {"scenario", "abort", "result", "exited"} =>
       \/ child = "none"
       \/ child = "reaped" /\ waits = 1 /\ wait # "waiting"

\* A sample counts only when every request was answered, in order, by its own
\* response, and the server then exited by itself with status 0; and a result
\* is written only when every scenario has one.  (-h exits with 0 before there
\* is a corpus.)
SamplesTrusted ==
    /\ \A i \in DOMAIN samples : /\ samples[i].name = Plan[i].name
                                 /\ samples[i].status = "ok"
                                 /\ samples[i].answers = [j \in 1..Plan[i].requests |-> j]
    /\ pc = "result" \/ exit = 3 \/ (exit = 0 /\ corpus # "none") => Len(samples) = Len(Plan)

\* The corpus is there as long as a server may read it, and when the command
\* exits by itself its removal has been tried on every way out: it is gone, or
\* the system has refused to remove it and the directory is left without a word
\* (runner.go:70 and corpus.go:24 drop the error).
CorpusLifetime ==
    /\ child \in {"running", "killed"} => corpus = "present"
    /\ exit # Running => corpus # "present"

\* A server that hangs cannot hold up the benchmark: the command exits.
CommandExits == <>(pc = "exited")
=============================================================================
