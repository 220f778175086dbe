----------------------------- MODULE BootProofs -----------------------------
(***************************************************************************)
(* For every command line, environment and answer of the file system, the  *)
(* start-up keeps its promises.                                            *)
(*                                                                         *)
(* The promises speak of the end of the start-up and are not inductive:    *)
(* by then the program has forgotten what its early returns ruled out.     *)
(* BootInv is that memory: what each stage may rely on (StageSound), why   *)
(* a run failed (FailureExplained), what was said on each stream by then   *)
(* (StreamsSound), and from which of these an exit came (ExitExplained).   *)
(***************************************************************************)
EXTENDS Boot, SequenceTheorems, TLAPS

InformationArguments == {"--version", "--version_--verbose", "--help", "-h"}

Stages == {"cli", "filesystem", "registry", "warn", "serving", "failed", "exited"}

\* Everything the program may say.
Lines == Categories \cup {"information", "responses", "invalid_arguments", Warning, Debug}

\* The configuration and the root were both accepted.
Accepted == LoadFromEnvironment(env) = "ok" /\ rootError = "ok"
WarningDue == env.root = "dot" /\ env.allowCWD = "true"

\* What is on stderr: warnings and debug lines only; the warning exactly when
\* it is due; debug lines only of a server that was asked for them; one line
\* that is no notice, and it is the last.
Notices == {Warning, Debug}
OnlyNotices == \A n \in 1..Len(stderr) : stderr[n] \in Notices
DebugAsked == \A n \in 1..Len(stderr) : stderr[n] = Debug => debugging /\ Accepted
Warned == WarningDue <=> \E n \in 1..Len(stderr) : stderr[n] = Warning
LastLineTells == /\ Len(stderr) > 0 /\ stderr[Len(stderr)] \notin Notices
                 /\ \A n \in 1..(Len(stderr) - 1) : stderr[n] \in Notices

StageSound ==
    /\ pc \in Stages
    /\ pc \in Stages \ {"cli", "exited"} => args = "none"
    /\ pc \in {"filesystem", "registry", "warn", "serving"} => LoadFromEnvironment(env) = "ok"
    /\ pc \in {"registry", "warn", "serving"} => rootError = "ok"
    /\ pc \in {"warn", "serving"} => writeTools = ~readOnly

\* err tells which stage failed.
Explained ==
    \/ LoadFromEnvironment(env) # "ok" /\ err = LoadFromEnvironment(env)
    \/ LoadFromEnvironment(env) = "ok" /\ rootError # "ok" /\ err = categorizeRootError(rootError)
    \/ Accepted /\ err = "other"
FailureExplained == pc = "failed" => Explained

StreamsSound ==
    /\ stdout \in Seq(Lines) /\ stderr \in Seq(Lines)
    /\ args = "none" => \A n \in 1..Len(stdout) : stdout[n] = "responses"
    /\ pc \in {"cli", "filesystem", "registry", "warn"} => stdout = <<>> /\ stderr = <<>>
    /\ pc = "failed" /\ ~Accepted => stdout = <<>>
    /\ DebugAsked
    /\ pc # "exited" => OnlyNotices
    /\ pc = "serving" => Warned

ExitExplained ==
    pc = "exited" =>
      \/ args \in InformationArguments /\ exit = 0 /\ OnlyNotices
      \/ args \notin InformationArguments \cup {"none"} /\ exit = 2 /\ LastLineTells
      \/ args = "none" /\ exit = 0 /\ Accepted /\ writeTools = ~readOnly /\ OnlyNotices /\ Warned
      \/ /\ args = "none" /\ Explained /\ LastLineTells
         /\ exit = IF err \in Categories \ {"startup_failed"} THEN 3 ELSE 1
         /\ ~Accepted => stdout = <<>>

BootInv == StageSound /\ FailureExplained /\ StreamsSound /\ ExitExplained

-----------------------------------------------------------------------------
(* The parsers and the categories *)

\* A configuration is accepted only with a root that may be served and with
\* values that parse: LoadFromEnvironment and Config.Validate.
LEMMA LoadAccepts ==
    ASSUME NEW e, LoadFromEnvironment(e) = "ok"
    PROVE  /\ e.root = "absolute" \/ (e.root = "dot" /\ e.allowCWD = "true")
           /\ e.readOnly \in {"unset", "true", "1", "false", "0"}
           /\ "bad" \notin {e.readOnly, e.allowCWD, e.limit, e.switch, e.debug}
<1>1. /\ e.root # "unset"
      /\ e.readOnly = "unset" \/ parseBool(e.readOnly)
      /\ e.allowCWD \in {"unset", "true", "false"}
      /\ parsePositiveInt(e.limit) /\ parseSwitch(e.switch) /\ parseSwitch(e.debug)
      /\ Validate(e) = "ok"
  BY DEF LoadFromEnvironment
<1>2. e.root = "absolute" \/ (e.root = "dot" /\ e.allowCWD = "true")
  BY <1>1 DEF Validate
<1>3. "bad" \notin {e.readOnly, e.allowCWD, e.limit, e.switch, e.debug}
  BY <1>1 DEF parseBool, parsePositiveInt, parseSwitch
<1> QED  BY <1>1, <1>2, <1>3 DEF parseBool

\* LoadFromEnvironment answers a category, "other" or "ok", and a root that is
\* missing, blank or relative is one of the first two.
LEMMA LoadRefuses ==
    ASSUME NEW e
    PROVE  /\ LoadFromEnvironment(e) \in (Categories \ {"startup_failed"}) \cup {"other", "ok"}
           /\ e.root \in {"unset", "empty", "blank", "relative"} => LoadFromEnvironment(e) # "ok"
<1>1. Validate(e) \in {"invalid_root", "ok"}
  BY DEF Validate
<1>2. e.root \in {"empty", "blank", "relative"} => Validate(e) # "ok"
  BY DEF Validate
<1> QED  BY <1>1, <1>2 DEF LoadFromEnvironment, Categories

\* A limit or switch that does not parse has no category, and is looked at
\* after the root is there and the profile and the development option parse.
LEMMA LoadUncategorized ==
    ASSUME NEW e, "bad" \in {e.limit, e.switch, e.debug}
    PROVE  IF \/ e.root = "unset"
              \/ e.readOnly \notin {"unset", "true", "1", "false", "0"}
              \/ e.allowCWD \notin {"unset", "true", "false"}
           THEN LoadFromEnvironment(e) \in Categories \ {"startup_failed"}
           ELSE LoadFromEnvironment(e) = "other"
<1>1. ~(parsePositiveInt(e.limit) /\ parseSwitch(e.switch) /\ parseSwitch(e.debug))
  BY DEF parsePositiveInt, parseSwitch, parseBool
<1> QED  BY <1>1 DEF LoadFromEnvironment, parseBool, Categories

\* categorizeRootError always finds a category.
LEMMA RootCategory ==
    ASSUME NEW e
    PROVE  /\ categorizeRootError(e) \in Categories
           /\ e \in {"ErrNotExist", "ErrRootNotDirectory", "ErrSymlinkDenied"}
                => categorizeRootError(e) # "startup_failed"
BY DEF categorizeRootError, Categories

\* A stream that grows by a line.
LEMMA AppendLine ==
    ASSUME NEW s \in Seq(Lines), NEW line \in Lines, NEW t, t = Append(s, line)
    PROVE  /\ t \in Seq(Lines)
           /\ Len(s) \in Nat /\ Len(t) = Len(s) + 1
           /\ t[Len(t)] = line
           /\ \A n \in 1..Len(s) : t[n] = s[n]
BY AppendProperties, LenProperties

-----------------------------------------------------------------------------
(* The invariant *)

\* The invariant holds when the program starts.
LEMMA BootInit == Init => BootInv
<1>1. <<>> \in Seq(Lines) /\ Len(<<>>) = 0
  BY EmptySeq
<1> QED
  BY <1>1 DEF Init, BootInv, StageSound, FailureExplained, StreamsSound, ExitExplained, Stages, OnlyNotices,
              DebugAsked

\* Every stage keeps it.
LEMMA BootStep == BootInv /\ [Next]_vars => BootInv'
<1> SUFFICES ASSUME BootInv, [Next]_vars PROVE BootInv'
  OBVIOUS
<1>0. {"information", "responses", "invalid_arguments", Warning, Debug} \subseteq Lines
  BY DEF Lines
<1> USE DEF Exit, Fails, Keeps, input, Stages, BootInv, StageSound, FailureExplained
<1>1. CASE Information
  <2>1. stdout' \in Seq(Lines)
    BY <1>1, <1>0, AppendLine DEF Information, StreamsSound
  <2> QED
    BY <1>1, <2>1 DEF Information, StreamsSound, ExitExplained, InformationArguments, OnlyNotices,
                              DebugAsked, debugging, Accepted
<1>2. CASE InvalidArguments
  <2>0. "invalid_arguments" \notin Notices
    BY DEF Notices, Warning, Debug
  <2>1. stderr' \in Seq(Lines) /\ LastLineTells' /\ DebugAsked'
    BY <1>2, <1>0, <2>0, AppendLine DEF InvalidArguments, StreamsSound, OnlyNotices, LastLineTells,
       Notices, DebugAsked, debugging, Accepted
  <2>2. StageSound' /\ FailureExplained'
    BY <1>2 DEF InvalidArguments
  <2>3. StreamsSound'
    BY <1>2, <2>1 DEF InvalidArguments, StreamsSound
  <2>4. ExitExplained'
    <3>1. args' \notin InformationArguments \cup {"none"} /\ exit' = 2 /\ LastLineTells'
      BY <1>2, <2>1 DEF InvalidArguments, InformationArguments
    <3> QED  BY <3>1 DEF ExitExplained
  <2> QED  BY <2>2, <2>3, <2>4
<1>3. CASE LoadConfig
  BY <1>3 DEF LoadConfig, StreamsSound, ExitExplained, Explained, Accepted, OnlyNotices, DebugAsked, debugging
<1>4. CASE NewFilesystem
  BY <1>4 DEF NewFilesystem, StreamsSound, ExitExplained, Explained, Accepted, OnlyNotices, DebugAsked, debugging
<1>5. CASE NewRegistry
  BY <1>5 DEF NewRegistry, StreamsSound, ExitExplained, OnlyNotices, DebugAsked, debugging, Accepted, readOnly
<1>6. CASE Warn
  <2>1. stderr' \in Seq(Lines) /\ OnlyNotices' /\ Warned' /\ DebugAsked'
    <3>1. stderr \in Seq(Lines) /\ Len(stderr) = 0
      BY <1>6, EmptySeq DEF Warn, StreamsSound
    <3>2. CASE WarningDue
      <4>1. stderr' = Append(stderr, Warning) /\ Warning \in Lines /\ WarningDue'
        BY <1>6, <3>2, <1>0 DEF Warn, WarningDue
      <4>2. stderr' \in Seq(Lines) /\ Len(stderr') = 1 /\ stderr'[1] = Warning
        BY <3>1, <4>1, AppendLine
      <4>3. Warning \in Notices /\ Warning # Debug
        BY DEF Notices, Warning, Debug
      <4> QED  BY <4>1, <4>2, <4>3 DEF OnlyNotices, Warned, DebugAsked
    <3>3. CASE ~WarningDue
      BY <1>6, <3>1, <3>3 DEF Warn, WarningDue, OnlyNotices, Warned, DebugAsked
    <3> QED  BY <3>2, <3>3
  <2> QED
    BY <1>6, <2>1 DEF Warn, StreamsSound, ExitExplained, readOnly
<1>7. CASE Serve
  <2>1. stdout' \in Seq(Lines) /\ (args = "none" => \A n \in 1..Len(stdout') : stdout'[n] = "responses")
    BY <1>7, <1>0, AppendLine DEF Serve, StreamsSound
  <2>2. stderr' \in Seq(Lines) /\ OnlyNotices' /\ Warned' /\ DebugAsked'
    <3>1. /\ stderr \in Seq(Lines) /\ OnlyNotices /\ Warned /\ DebugAsked
          /\ Accepted /\ UNCHANGED <<WarningDue, debugging, Accepted>>
      BY <1>7 DEF Serve, StreamsSound, Accepted, WarningDue, debugging
    <3>2. CASE stderr' = stderr
      BY <3>1, <3>2 DEF OnlyNotices, Warned, DebugAsked
    <3>3. CASE debugging /\ stderr' = Append(stderr, Debug)
      <4>1. Debug \in Notices /\ Debug # Warning
        BY DEF Notices, Debug, Warning
      <4>2. /\ stderr' \in Seq(Lines) /\ Len(stderr) \in Nat /\ Len(stderr') = Len(stderr) + 1
            /\ stderr'[Len(stderr')] = Debug /\ \A n \in 1..Len(stderr) : stderr'[n] = stderr[n]
        BY <1>0, <3>1, <3>3, AppendLine
      <4> QED  BY <3>1, <3>3, <4>1, <4>2 DEF OnlyNotices, Warned, DebugAsked
    <3> QED  BY <1>7, <3>2, <3>3 DEF Serve
  <2>3. StageSound' /\ FailureExplained' /\ ExitExplained'
    BY <1>7 DEF Serve, ExitExplained, readOnly
  <2>4. StreamsSound'
    BY <1>7, <2>1, <2>2 DEF Serve, StreamsSound
  <2> QED  BY <2>3, <2>4
<1>8. CASE ServerReturns
  BY <1>8 DEF ServerReturns, StreamsSound, ExitExplained, OnlyNotices, DebugAsked, debugging, Warned, WarningDue,
              readOnly, Explained, Accepted
<1>9. CASE Fail
  <2>1. PICK line \in Categories : stderr' = Append(stderr, line)
    BY <1>9 DEF Fail, Categories
  <2>2. line \in Lines /\ line \notin Notices
    BY DEF Categories, Notices, Warning, Debug, Lines
  <2>3. stderr' \in Seq(Lines) /\ LastLineTells' /\ DebugAsked'
    BY <1>9, <2>1, <2>2, <1>0, AppendLine DEF Fail, StreamsSound, OnlyNotices, LastLineTells, DebugAsked,
       Notices, debugging, Accepted
  <2>4. StageSound' /\ FailureExplained'
    BY <1>9 DEF Fail
  <2>5. StreamsSound'
    BY <1>9, <2>3 DEF Fail, StreamsSound
  <2>6. Explained' /\ (~Accepted' => stdout' = <<>>)
    BY <1>9 DEF Fail, StreamsSound, Explained, Accepted
  <2>7. args' = "none" /\ exit' = IF err' \in Categories \ {"startup_failed"} THEN 3 ELSE 1
    BY <1>9 DEF Fail
  <2>8. ExitExplained'
    BY <2>3, <2>6, <2>7 DEF ExitExplained
  <2> QED  BY <2>4, <2>5, <2>8
<1>10. CASE UNCHANGED vars
  BY <1>10 DEF vars, StreamsSound, ExitExplained, OnlyNotices, DebugAsked, debugging, LastLineTells, Warned,
               WarningDue, readOnly, Explained, Accepted
<1> QED
  BY <1>1, <1>2, <1>3, <1>4, <1>5, <1>6, <1>7, <1>8, <1>9, <1>10 DEF Next

\* It holds in every state.
LEMMA BootInvariant == Spec => []BootInv
BY BootInit, BootStep, PTL DEF Spec

-----------------------------------------------------------------------------
(* The promises *)

\* A server runs, or has run, only behind both validations.
LEMMA ServedAccepted == BootInv /\ Served => Accepted /\ writeTools = ~readOnly /\ Warned
<1>1. BootInv /\ pc = "serving" => Accepted /\ writeTools = ~readOnly /\ Warned
  BY DEF BootInv, StageSound, StreamsSound, Accepted
<1>2. BootInv /\ pc = "exited" /\ args = "none" /\ exit = 0 => Accepted /\ writeTools = ~readOnly /\ Warned
  <2>1. "none" \notin InformationArguments
    BY DEF InformationArguments
  <2> QED  BY <2>1 DEF BootInv, ExitExplained
<1> QED  BY <1>1, <1>2 DEF Served

\* No server starts on a root that was refused, on a relative root other than
\* ".", or with a value that did not parse (cmd/server run).
THEOREM OnlyValidatedServes == Spec => []ServesOnlyValidated
<1>1. BootInv => ServesOnlyValidated
  BY ServedAccepted, LoadAccepts DEF ServesOnlyValidated, Accepted
<1> QED  BY <1>1, BootInvariant, PTL

\* The registry holds the tools that write exactly when the profile that was
\* parsed asks for them (MCP_READ_ONLY).
THEOREM ProfileAlwaysHonoured == Spec => []ProfileHonoured
<1>1. BootInv => ProfileHonoured
  BY ServedAccepted, LoadAccepts DEF ProfileHonoured, Accepted, readOnly
<1> QED  BY <1>1, BootInvariant, PTL

\* stdout stays empty when the start-up fails and carries only responses when
\* it does not; an error is said on stderr exactly once and last, the
\* development root is warned of exactly when it is used, and what else is
\* there are debug lines of a running server with MCP_DEBUG (runCLI, runMain,
\* Server.logDebug).
THEOREM DiagnosticsSafe == Spec => []SafeDiagnostics
<1>1. BootInv => SafeDiagnostics
  <2> SUFFICES ASSUME BootInv PROVE SafeDiagnostics
    OBVIOUS
  <2>0. /\ DOMAIN stdout = 1..Len(stdout)
        /\ DOMAIN stderr = 1..Len(stderr) /\ Len(stderr) \in Nat
    BY LenProperties DEF BootInv, StreamsSound
  <2>1. args = "none" => \A n \in DOMAIN stdout : stdout[n] = "responses"
    BY <2>0 DEF BootInv, StreamsSound
  <2>2. pc = "exited" /\ exit \in {1, 3} /\ err # "other" => stdout = <<>>
    BY DEF BootInv, ExitExplained, Explained, Accepted
  <2>3. ASSUME pc = "exited"
        PROVE  {n \in DOMAIN stderr : stderr[n] \notin {Warning, Debug}}
                  = IF exit = 0 THEN {} ELSE {Len(stderr)}
    <3>1. CASE exit = 0
      BY <2>0, <2>3, <3>1 DEF BootInv, ExitExplained, OnlyNotices, Notices
    <3>2. CASE exit # 0
      BY <2>0, <2>3, <3>2 DEF BootInv, ExitExplained, LastLineTells, Notices
    <3> QED  BY <3>1, <3>2
  <2>4. Served => (env.root = "dot" <=> \E n \in DOMAIN stderr : stderr[n] = Warning)
    BY <2>0, ServedAccepted, LoadAccepts DEF Accepted, Warned, WarningDue
  <2>5. (\E n \in DOMAIN stderr : stderr[n] = Debug) =>
           debugging /\ LoadFromEnvironment(env) = "ok" /\ rootError = "ok"
    BY <2>0 DEF BootInv, StreamsSound, DebugAsked, Accepted
  <2> QED  BY <2>1, <2>2, <2>3, <2>4, <2>5 DEF SafeDiagnostics
<1> QED  BY <1>1, BootInvariant, PTL

\* The exit code tells a wrong command line, a root or profile to correct and
\* everything else apart, a malformed limit or switch among the latter
\* (runMain, LoadFromEnvironment).
THEOREM ExitCodesTellCauses == Spec => []ExitCodes
<1>1. BootInv => ExitCodes
  <2> SUFFICES ASSUME BootInv, pc = "exited" PROVE ExitCodes
    BY DEF ExitCodes
  <2>1. CASE args # "none"
    <3>1. \/ args \in InformationArguments /\ exit = 0
          \/ args \notin InformationArguments \cup {"none"} /\ exit = 2
      BY <2>1 DEF BootInv, ExitExplained
    <3> QED  BY <2>1, <3>1 DEF ExitCodes, InformationArguments
  <2>2. CASE args = "none" /\ exit = 0
    BY <2>2, ServedAccepted, LoadRefuses, LoadAccepts DEF ExitCodes, Served, Accepted
  <2>3. CASE args = "none" /\ exit # 0
    <3>1. /\ Explained
          /\ exit = IF err \in Categories \ {"startup_failed"} THEN 3 ELSE 1
      BY <2>3 DEF BootInv, ExitExplained, InformationArguments
    <3>2. exit = 3 => ~Accepted
      BY <3>1 DEF Explained, Accepted, Categories
    <3>3. ASSUME LoadFromEnvironment(env) = "ok",
                 rootError \in {"ErrNotExist", "ErrRootNotDirectory", "ErrSymlinkDenied"}
          PROVE  exit = 3
      BY <3>1, <3>3, RootCategory DEF Explained, Accepted
    <3>4. exit \in {1, 3}
      BY <3>1
    <3>5. ~(args \notin {"none", "--version", "--version_--verbose", "--help", "-h"})
      BY <2>3
    <3>6. ASSUME "bad" \in {env.limit, env.switch, env.debug}
          PROVE  exit = IF \/ env.root = "unset"
                           \/ env.readOnly \notin {"unset", "true", "1", "false", "0"}
                           \/ env.allowCWD \notin {"unset", "true", "false"} THEN 3 ELSE 1
      <4>1. "other" \notin Categories /\ "ok" \notin Categories
        BY DEF Categories
      <4>2. LoadFromEnvironment(env) # "ok"
        BY <3>6, <4>1, LoadUncategorized
      <4>3. err = LoadFromEnvironment(env)
        BY <3>1, <4>2 DEF Explained, Accepted
      <4> QED  BY <3>1, <3>6, <4>1, <4>3, LoadUncategorized
    <3> QED  BY <2>3, <3>2, <3>3, <3>4, <3>5, <3>6 DEF ExitCodes, Accepted
  <2> QED  BY <2>1, <2>2, <2>3
<1> QED  BY <1>1, BootInvariant, PTL
=============================================================================
