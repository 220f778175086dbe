--------------------------- MODULE BenchmarkProofs ---------------------------
(***************************************************************************)
(* For every plan of scenarios and whatever the servers do: no process is  *)
(* left behind, only whole conversations become samples, and the corpus    *)
(* outlives its readers.                                                   *)
(*                                                                         *)
(* The three invariants look at the runner between two scenarios, where    *)
(* the child, its waiting goroutine and the conversation are settled.      *)
(* RunnerInv follows them through a scenario: who is still to be waited    *)
(* for (ChildInv), how far the conversation is (TalkInv), what was kept    *)
(* of the earlier ones (SamplesInv) and what is on the disk (CorpusInv).   *)
(***************************************************************************)
EXTENDS Benchmark, SequenceTheorems, TLAPS

Alive == {"running", "killed", "exited"}

\* The process runs and nobody waits for it yet.
Talking == {"write", "read", "notify", "next", "close", "defer"}
\* controlledExit, while its goroutine waits.
Exiting == {"select", "selectclosed", "drain"}
\* The process is behind the runner, or there never was one.
Between == {"flags", "scenario", "abort", "evaluate", "result", "exited"}
\* Where the corpus is in use.
Using == Talking \cup Exiting \cup {"deferwait", "sample", "return", "scenario", "abort", "evaluate"}
\* Every request was answered.
Answered == {"close", "select", "selectclosed", "sample"}

Reaped == child = "reaped" /\ waits = 1 /\ wait # "waiting"

ChildInv ==
    /\ pc \in Talking \cup Exiting \cup Between \cup {"deferwait", "sample", "return"}
    /\ pc \in Talking => child \in Alive /\ wait = "none" /\ waits = 0
    /\ pc \in Exiting => /\ waits = 1
                         /\ \/ wait = "waiting" /\ child \in Alive
                            \/ wait \in {"ok", "error"} /\ child = "reaped"
    /\ pc = "deferwait" => waits = 1 /\ wait = "none" /\ child \in {"killed", "exited"}
    /\ pc \in {"sample", "return"} => Reaped
    /\ pc \in Between => child = "none" \/ Reaped
    /\ wait = "ok" /\ child = "reaped" => status = "ok"
    /\ pc = "sample" => wait = "ok"

\* The numbers of the first n requests, which their answers carry.
FirstAnswers(n) == [j \in 1..n |-> j]

TalkInv ==
    /\ k \in Nat
    /\ pc \in {"write", "read"} => k > 0 /\ answers = FirstAnswers(k - 1)
    /\ pc \in {"notify", "next"} \cup Answered => answers = FirstAnswers(k)
    /\ pc \in Answered => k = Requests

\* The sample that the i-th scenario must have left.
Trusted(i) == [name |-> Plan[i].name, answers |-> FirstAnswers(Plan[i].requests), status |-> "ok"]

SamplesInv ==
    /\ done \in Nat
    /\ samples = [i \in 1..done |-> Trusted(i)]
    /\ pc \in {"evaluate", "result"} \/ exit = 3 \/ (exit = 0 /\ corpus # "none") => done = Len(Plan)

CorpusInv ==
    /\ pc \in Using => corpus = "present"
    /\ pc \in {"flags", "result", "exited"} => corpus # "present"
    /\ pc = "exited" <=> exit # Running

RunnerInv == ChildInv /\ TalkInv /\ SamplesInv /\ CorpusInv

-----------------------------------------------------------------------------
(* What is appended keeps the shape *)

\* The next answer continues the sequence of the earlier ones.
LEMMA OneMoreAnswer ==
    ASSUME NEW n \in Nat
    PROVE  Append(FirstAnswers(n), n + 1) = FirstAnswers(n + 1)
<1>1. FirstAnswers(n) \in Seq(Nat) /\ Len(FirstAnswers(n)) = n
  BY DEF FirstAnswers
<1>2. FirstAnswers(n + 1) \in Seq(Nat) /\ Len(FirstAnswers(n + 1)) = n + 1
  BY DEF FirstAnswers
<1>3. /\ Append(FirstAnswers(n), n + 1) \in Seq(Nat)
      /\ Len(Append(FirstAnswers(n), n + 1)) = n + 1
      /\ \A i \in 1..n : Append(FirstAnswers(n), n + 1)[i] = FirstAnswers(n)[i]
      /\ Append(FirstAnswers(n), n + 1)[n + 1] = n + 1
  BY <1>1, AppendProperties
<1>4. \A i \in 1..(n + 1) : Append(FirstAnswers(n), n + 1)[i] = FirstAnswers(n + 1)[i]
  BY <1>3 DEF FirstAnswers
<1> QED  BY <1>2, <1>3, <1>4, SeqEqual

\* A sample of the next scenario continues the samples.
LEMMA OneMoreSample ==
    ASSUME NEW n \in Nat
    PROVE  Append([i \in 1..n |-> Trusted(i)], Trusted(n + 1)) = [i \in 1..(n + 1) |-> Trusted(i)]
<1> DEFINE S == {Trusted(i) : i \in Nat}
           s == [i \in 1..n |-> Trusted(i)]
           t == [i \in 1..(n + 1) |-> Trusted(i)]
<1>1. s \in Seq(S) /\ Len(s) = n
  OBVIOUS
<1>2. t \in Seq(S) /\ Len(t) = n + 1
  OBVIOUS
<1>3. Trusted(n + 1) \in S
  OBVIOUS
<1> HIDE DEF S
<1>4. /\ Append(s, Trusted(n + 1)) \in Seq(S)
      /\ Len(Append(s, Trusted(n + 1))) = n + 1
      /\ \A i \in 1..n : Append(s, Trusted(n + 1))[i] = s[i]
      /\ Append(s, Trusted(n + 1))[n + 1] = Trusted(n + 1)
  BY <1>1, <1>3, AppendProperties
<1>5. \A i \in 1..(n + 1) : Append(s, Trusted(n + 1))[i] = t[i]
  BY <1>4
<1> QED  BY <1>2, <1>4, <1>5, SeqEqual

-----------------------------------------------------------------------------
(* The invariant *)

\* The invariant holds when the runner starts.
LEMMA RunnerInvInit == Init => RunnerInv
<1> SUFFICES ASSUME Init PROVE RunnerInv
  OBVIOUS
<1> USE DEF Init, RunnerInit, Talking, Exiting, Between, Using, Answered, Running
<1>1. ChildInv  BY DEF ChildInv
<1>2. TalkInv   BY DEF TalkInv
<1>3. SamplesInv  BY DEF SamplesInv
<1>4. CorpusInv  BY DEF CorpusInv
<1> QED  BY <1>1, <1>2, <1>3, <1>4 DEF RunnerInv

\* Who waits for the child, step by step.
LEMMA ChildStep ==
    ASSUME RunnerInv, [Next]_<<vars, evaluationVars>>
    PROVE  ChildInv'
<1> USE DEF RunnerInv, ChildInv, Talking, Exiting, Between, Using, Answered, vars, runVars, childVars, waitVars, Alive, Reaped
<1>1. CASE Begin  BY <1>1 DEF Begin, RemoveCorpus
<1>2. CASE StartServer  BY <1>2 DEF StartServer
<1>3. CASE WriteRequest  BY <1>3 DEF WriteRequest
<1>4. CASE ReadResponse  BY <1>4 DEF ReadResponse
<1>5. CASE Notify  BY <1>5 DEF Notify
<1>6. CASE NextRequest  BY <1>6 DEF NextRequest
<1>7. CASE CloseStdin  BY <1>7 DEF CloseStdin, Kill
<1>8. CASE SelectWait  BY <1>8 DEF SelectWait
<1>9. CASE SelectTimer  BY <1>9 DEF SelectTimer, Kill
<1>10. CASE Drain  BY <1>10 DEF Drain
<1>11. CASE Defer  BY <1>11 DEF Defer, Kill
<1>12. CASE DeferWait  BY <1>12 DEF DeferWait
<1>13. CASE Sample  BY <1>13 DEF Sample, Leave
<1>14. CASE ScenarioFails  BY <1>14 DEF ScenarioFails, Leave
<1>15. CASE Abort  BY <1>15 DEF Abort, RemoveCorpus
<1>16. CASE WaitReturns  BY <1>16 DEF WaitReturns
<1>17. CASE DeadlineFires  BY <1>17 DEF DeadlineFires, Kill
<1>18. CASE TimerFires  BY <1>18 DEF TimerFires
<1>19. CASE ChildAnswers  BY <1>19 DEF ChildAnswers
<1>20. CASE ChildExits  BY <1>20 DEF ChildExits
<1>21. CASE ChildDies  BY <1>21 DEF ChildDies
<1>22. CASE Summarize  BY <1>22 DEF Summarize
<1>23. CASE Evaluate  BY <1>23 DEF Evaluate, RemoveCorpus
<1>24. CASE WriteResult  BY <1>24 DEF WriteResult
<1>25. CASE UNCHANGED vars  BY <1>25
<1> QED
  BY <1>1, <1>2, <1>3, <1>4, <1>5, <1>6, <1>7, <1>8, <1>9, <1>10, <1>11, <1>12, <1>13, <1>14, <1>15, <1>16, <1>17, <1>18, <1>19, <1>20, <1>21, <1>22, <1>23, <1>24, <1>25
  DEF Next, Damage, Validate

\* The conversation, step by step; ReadResponse is the step that extends it.
LEMMA TalkStep ==
    ASSUME RunnerInv, [Next]_<<vars, evaluationVars>>
    PROVE  TalkInv'
<1> USE DEF RunnerInv, TalkInv, Talking, Exiting, Between, Using, Answered, vars, runVars, childVars, waitVars, Requests
<1>1. CASE Begin  BY <1>1 DEF Begin, RemoveCorpus
<1>2. CASE StartServer  BY <1>2 DEF StartServer, FirstAnswers
<1>3. CASE WriteRequest  BY <1>3 DEF WriteRequest
<1>4. CASE ReadResponse
  <2>1. CASE pipe # <<>> /\ Head(pipe) = k
    <3>1. Append(FirstAnswers(k - 1), k) = FirstAnswers(k)
      <4>1. k - 1 \in Nat /\ (k - 1) + 1 = k
        BY <1>4 DEF ReadResponse
      <4> QED  BY <4>1, OneMoreAnswer
    <3> QED  BY <1>4, <2>1, <3>1 DEF ReadResponse
  <2>2. CASE ~(pipe # <<>> /\ Head(pipe) = k)
    BY <1>4, <2>2 DEF ReadResponse
  <2> QED  BY <2>1, <2>2
<1>5. CASE Notify  BY <1>5 DEF Notify
<1>6. CASE NextRequest  BY <1>6 DEF NextRequest
<1>7. CASE CloseStdin  BY <1>7 DEF CloseStdin, Kill
<1>8. CASE SelectWait  BY <1>8 DEF SelectWait
<1>9. CASE SelectTimer  BY <1>9 DEF SelectTimer, Kill
<1>10. CASE Drain  BY <1>10 DEF Drain
<1>11. CASE Defer  BY <1>11 DEF Defer, Kill
<1>12. CASE DeferWait  BY <1>12 DEF DeferWait
<1>13. CASE Sample  BY <1>13 DEF Sample, Leave
<1>14. CASE ScenarioFails  BY <1>14 DEF ScenarioFails, Leave
<1>15. CASE Abort  BY <1>15 DEF Abort, RemoveCorpus
<1>16. CASE WaitReturns  BY <1>16 DEF WaitReturns
<1>17. CASE DeadlineFires  BY <1>17 DEF DeadlineFires, Kill
<1>18. CASE TimerFires  BY <1>18 DEF TimerFires
<1>19. CASE ChildAnswers  BY <1>19 DEF ChildAnswers
<1>20. CASE ChildExits  BY <1>20 DEF ChildExits
<1>21. CASE ChildDies  BY <1>21 DEF ChildDies
<1>22. CASE Summarize  BY <1>22 DEF Summarize
<1>23. CASE Evaluate  BY <1>23 DEF Evaluate, RemoveCorpus
<1>24. CASE WriteResult  BY <1>24 DEF WriteResult
<1>25. CASE UNCHANGED vars  BY <1>25
<1> QED
  BY <1>1, <1>2, <1>3, <1>4, <1>5, <1>6, <1>7, <1>8, <1>9, <1>10, <1>11, <1>12, <1>13, <1>14, <1>15, <1>16, <1>17, <1>18, <1>19, <1>20, <1>21, <1>22, <1>23, <1>24, <1>25
  DEF Next, Damage, Validate

\* The samples, step by step; Sample is the step that adds one.
LEMMA SamplesStep ==
    ASSUME RunnerInv, [Next]_<<vars, evaluationVars>>
    PROVE  SamplesInv'
<1> USE DEF RunnerInv, SamplesInv, Talking, Exiting, Between, Using, Answered, vars, runVars, childVars, waitVars
<1>1. CASE Begin  BY <1>1 DEF Begin, RemoveCorpus, CorpusInv, Running
<1>2. CASE StartServer  BY <1>2 DEF StartServer
<1>3. CASE WriteRequest  BY <1>3 DEF WriteRequest
<1>4. CASE ReadResponse  BY <1>4 DEF ReadResponse
<1>5. CASE Notify  BY <1>5 DEF Notify
<1>6. CASE NextRequest  BY <1>6 DEF NextRequest
<1>7. CASE CloseStdin  BY <1>7 DEF CloseStdin, Kill
<1>8. CASE SelectWait  BY <1>8 DEF SelectWait
<1>9. CASE SelectTimer  BY <1>9 DEF SelectTimer, Kill
<1>10. CASE Drain  BY <1>10 DEF Drain
<1>11. CASE Defer  BY <1>11 DEF Defer, Kill
<1>12. CASE DeferWait  BY <1>12 DEF DeferWait
<1>13. CASE Sample
  <2>1. CASE UNCHANGED <<samples, done>>
    BY <1>13, <2>1 DEF Sample, Leave
  <2>2. CASE samples' = Append(samples, [name |-> Plan[done + 1].name, answers |-> answers,
                                         status |-> status]) /\ done' = done + 1
    <3>1. answers = FirstAnswers(Plan[done + 1].requests) /\ status = "ok"
      BY <1>13 DEF Sample, TalkInv, ChildInv, Reaped, Requests
    <3>2. samples' = [i \in 1..done' |-> Trusted(i)]
      BY <2>2, <3>1, OneMoreSample DEF Trusted
    <3>3. pc' \notin {"evaluate", "result"} /\ exit' \notin {0, 3}
      BY <1>13 DEF Sample, Leave, CorpusInv, Running
    <3> QED  BY <2>2, <3>2, <3>3
  <2> QED  BY <1>13, <2>1, <2>2 DEF Sample
<1>14. CASE ScenarioFails  BY <1>14 DEF ScenarioFails, Leave
<1>15. CASE Abort  BY <1>15 DEF Abort, RemoveCorpus
<1>16. CASE WaitReturns  BY <1>16 DEF WaitReturns
<1>17. CASE DeadlineFires  BY <1>17 DEF DeadlineFires, Kill
<1>18. CASE TimerFires  BY <1>18 DEF TimerFires
<1>19. CASE ChildAnswers  BY <1>19 DEF ChildAnswers
<1>20. CASE ChildExits  BY <1>20 DEF ChildExits
<1>21. CASE ChildDies  BY <1>21 DEF ChildDies
<1>22. CASE Summarize  BY <1>22 DEF Summarize
<1>23. CASE Evaluate  BY <1>23 DEF Evaluate, RemoveCorpus
<1>24. CASE WriteResult  BY <1>24 DEF WriteResult
<1>25. CASE UNCHANGED vars  BY <1>25
<1> QED
  BY <1>1, <1>2, <1>3, <1>4, <1>5, <1>6, <1>7, <1>8, <1>9, <1>10, <1>11, <1>12, <1>13, <1>14, <1>15, <1>16, <1>17, <1>18, <1>19, <1>20, <1>21, <1>22, <1>23, <1>24, <1>25
  DEF Next, Damage, Validate

\* The corpus, step by step.
LEMMA CorpusStep ==
    ASSUME RunnerInv, [Next]_<<vars, evaluationVars>>
    PROVE  CorpusInv'
<1> USE DEF RunnerInv, CorpusInv, Talking, Exiting, Between, Using, Answered, vars, runVars, childVars, waitVars, Running
<1>1. CASE Begin  BY <1>1 DEF Begin, RemoveCorpus
<1>2. CASE StartServer  BY <1>2 DEF StartServer
<1>3. CASE WriteRequest  BY <1>3 DEF WriteRequest
<1>4. CASE ReadResponse  BY <1>4 DEF ReadResponse
<1>5. CASE Notify  BY <1>5 DEF Notify
<1>6. CASE NextRequest  BY <1>6 DEF NextRequest
<1>7. CASE CloseStdin  BY <1>7 DEF CloseStdin, Kill
<1>8. CASE SelectWait  BY <1>8 DEF SelectWait
<1>9. CASE SelectTimer  BY <1>9 DEF SelectTimer, Kill
<1>10. CASE Drain  BY <1>10 DEF Drain
<1>11. CASE Defer  BY <1>11 DEF Defer, Kill
<1>12. CASE DeferWait  BY <1>12 DEF DeferWait
<1>13. CASE Sample  BY <1>13 DEF Sample, Leave
<1>14. CASE ScenarioFails  BY <1>14 DEF ScenarioFails, Leave
<1>15. CASE Abort  BY <1>15 DEF Abort, RemoveCorpus
<1>16. CASE WaitReturns  BY <1>16 DEF WaitReturns
<1>17. CASE DeadlineFires  BY <1>17 DEF DeadlineFires, Kill
<1>18. CASE TimerFires  BY <1>18 DEF TimerFires
<1>19. CASE ChildAnswers  BY <1>19 DEF ChildAnswers
<1>20. CASE ChildExits  BY <1>20 DEF ChildExits
<1>21. CASE ChildDies  BY <1>21 DEF ChildDies
<1>22. CASE Summarize  BY <1>22 DEF Summarize
<1>23. CASE Evaluate  BY <1>23 DEF Evaluate, RemoveCorpus
<1>24. CASE WriteResult  BY <1>24 DEF WriteResult
<1>25. CASE UNCHANGED vars  BY <1>25
<1> QED
  BY <1>1, <1>2, <1>3, <1>4, <1>5, <1>6, <1>7, <1>8, <1>9, <1>10, <1>11, <1>12, <1>13, <1>14, <1>15, <1>16, <1>17, <1>18, <1>19, <1>20, <1>21, <1>22, <1>23, <1>24, <1>25
  DEF Next, Damage, Validate

\* It holds in every state.
LEMMA RunnerInvariant == Spec => []RunnerInv
<1>1. RunnerInv /\ [Next]_<<vars, evaluationVars>> => RunnerInv'
  BY ChildStep, TalkStep, SamplesStep, CorpusStep DEF RunnerInv
<1> QED  BY RunnerInvInit, <1>1, PTL DEF Spec

-----------------------------------------------------------------------------
(* The promises *)

\* Every server process was waited for exactly once when the next scenario
\* begins and when the command exits (controlledExit and the deferred kill of
\* executeScenario).
THEOREM NeverOrphans == Spec => []NoOrphans
<1>1. RunnerInv => NoOrphans
  BY DEF RunnerInv, ChildInv, NoOrphans, Between, Reaped
<1> QED  BY <1>1, RunnerInvariant, PTL

\* A sample stands for a whole conversation and a clean exit, and a result is
\* written only for a complete plan (executeScenario, Run).
THEOREM SamplesAlwaysTrusted == Spec => []SamplesTrusted
<1>1. RunnerInv => SamplesTrusted
  <2> SUFFICES ASSUME RunnerInv PROVE SamplesTrusted
    OBVIOUS
  <2>1. /\ done \in Nat /\ samples = [i \in 1..done |-> Trusted(i)]
        /\ pc = "result" \/ exit = 3 \/ (exit = 0 /\ corpus # "none") => done = Len(Plan)
    BY DEF RunnerInv, SamplesInv
  <2>2. DOMAIN samples = 1..done /\ Len(samples) = done
    BY <2>1
  <2>3. \A i \in 1..done : samples[i] = Trusted(i)
    BY <2>1
  <2> QED  BY <2>1, <2>2, <2>3 DEF SamplesTrusted, Trusted, FirstAnswers
<1> QED  BY <1>1, RunnerInvariant, PTL

\* The corpus is there while a server may read it, and the command does not
\* exit before it was removed or the system has refused to remove it (the
\* deferred removal in Run).
THEOREM CorpusOutlivesReaders == Spec => []CorpusLifetime
<1>1. RunnerInv => CorpusLifetime
  BY DEF RunnerInv, ChildInv, CorpusInv, CorpusLifetime, Talking, Exiting, Between, Using, Reaped, Alive
<1> QED  BY <1>1, RunnerInvariant, PTL
=============================================================================
