------------------------------- MODULE Boot ---------------------------------
(***************************************************************************)
(* cmd/server and internal/config: from the command line and the           *)
(* environment to a running server, or to a diagnostic and an exit code.   *)
(*                                                                         *)
(* An environment variable is "unset", "empty", "bad" (anything its parser *)
(* refuses, for limits also zero and negative numbers) or a value; "1" and *)
(* "0" stand for the other spellings strconv.ParseBool knows.  The eight   *)
(* limits are parsed alike, and so are the four optional switches: one     *)
(* value stands for each group, but MCP_DEBUG has its own, as it decides   *)
(* what the running server says.  What NewPathGuardWithPolicy finds at the *)
(* root is chosen with the environment (PathGuard.tla says which it is).   *)
(* stdout and stderr hold what the program hands to them: that a stream    *)
(* takes it is not the program's doing, and nobody looks at the result.    *)
(***************************************************************************)
EXTENDS Naturals, Sequences

CONSTANTS Arguments,     \* command lines, words joined by _; "none" is the empty one
          Environments,  \* [root, readOnly, allowCWD, limit, switch, debug]
          RootErrors     \* what newFilesystem may answer

VARIABLES args, env, rootError,
          pc,
          err,       \* the error run returns: a category, or "other"
          writeTools,\* the registry holds the tools that write
          stdout, stderr, exit

input == <<args, env, rootError>>
vars == <<input, pc, err, writeTools, stdout, stderr, exit>>

-----------------------------------------------------------------------------
(* internal/config *)

\* Mutant: an empty switch is read as false.
parseBoolLenient(v) == v # "bad"

\* strconv.ParseBool accepts the value.
parseBool(v) == v \in {"true", "1", "false", "0"}

\* Limits and optional switches: an empty value counts as unset.
parsePositiveInt(v) == v \in {"unset", "empty", "ok"}
parseSwitch(v) == v \in {"unset", "empty"} \/ parseBool(v)

\* Mutant: the development switch admits every relative root.
ValidateRelative(e) ==
    CASE e.root \in {"empty", "blank"} -> "invalid_root"
      [] e.root = "absolute" \/ e.allowCWD = "true" -> "ok"
      [] OTHER -> "invalid_root"

\* Config.Validate; the limits are positive by then.
Validate(e) ==
    CASE e.root \in {"empty", "blank"} -> "invalid_root"
      [] e.root = "absolute" -> "ok"
      [] e.root = "dot" /\ e.allowCWD = "true" -> "ok"
      [] OTHER -> "invalid_root"

\* LoadFromEnvironment, with its early returns in order.  MCP_READ_ONLY and
\* MCP_ALLOW_CWD_ROOT are not optional once set: an empty value is an error.
LoadFromEnvironment(e) ==
    IF e.root = "unset" THEN "missing_root"
    ELSE IF e.readOnly # "unset" /\ ~parseBool(e.readOnly) THEN "invalid_profile"
    ELSE IF e.allowCWD \notin {"unset", "true", "false"} THEN "invalid_development_option"
    ELSE IF ~parsePositiveInt(e.limit) \/ ~parseSwitch(e.switch) \/ ~parseSwitch(e.debug) THEN "other"
    ELSE Validate(e)

readOnly == env.readOnly \in {"true", "1"}
debugging == env.debug \in {"true", "1"}

-----------------------------------------------------------------------------
(* cmd/server *)

\* categorizeRootError
categorizeRootError(e) ==
    CASE e = "ErrNotExist" -> "root_not_found"
      [] e = "ErrRootNotDirectory" -> "root_not_directory"
      [] e \in {"ErrPermission", "ErrHiddenPathDenied", "ErrUNCPathDenied",
                "ErrSymlinkDenied", "ErrOutsideRoot"} -> "root_not_allowed"
      [] OTHER -> "startup_failed"

\* config.CategoryOf
Categories == {"missing_root", "invalid_root", "root_not_found", "root_not_directory",
               "root_not_allowed", "invalid_profile", "invalid_development_option", "startup_failed"}

Init ==
    /\ args \in Arguments
    /\ env \in Environments
    /\ rootError \in RootErrors
    /\ pc = "cli"
    /\ err = "none"
    /\ writeTools = FALSE
    /\ stdout = <<>> /\ stderr = <<>>
    /\ exit = 99

Warning == "development_root"
Debug == "debug"

Exit(code) == pc' = "exited" /\ exit' = code
Fails(e) == err' = e /\ pc' = "failed"
Keeps == UNCHANGED <<input, exit>>

\* runCLI without a server to run.
Information ==
    /\ pc = "cli" /\ args \in {"--version", "--version_--verbose", "--help", "-h"}
    /\ stdout' = Append(stdout, "information")
    /\ Exit(0)
    /\ UNCHANGED <<input, err, writeTools, stderr>>

InvalidArguments ==
    /\ pc = "cli" /\ args \notin {"none", "--version", "--version_--verbose", "--help", "-h"}
    /\ stderr' = Append(stderr, "invalid_arguments")
    /\ Exit(2)
    /\ UNCHANGED <<input, err, writeTools, stdout>>

LoadConfig ==
    /\ pc = "cli" /\ args = "none"
    /\ LET e == LoadFromEnvironment(env)
       IN IF e = "ok" THEN pc' = "filesystem" /\ err' = err ELSE Fails(e)
    /\ Keeps /\ UNCHANGED <<writeTools, stdout, stderr>>

NewFilesystem ==
    /\ pc = "filesystem"
    /\ IF rootError = "ok" THEN pc' = "registry" /\ err' = err
                           ELSE Fails(categorizeRootError(rootError))
    /\ Keeps /\ UNCHANGED <<writeTools, stdout, stderr>>

\* The tool registry, the router and the server; none of them can fail.
NewRegistry ==
    /\ pc = "registry"
    /\ writeTools' = ~readOnly
    /\ pc' = "warn"
    /\ Keeps /\ UNCHANGED <<err, stdout, stderr>>

\* Mutant: the warning goes to stdout, among the responses.
WarnOnStdout ==
    /\ pc = "warn"
    /\ stdout' = IF env.root = "dot" /\ env.allowCWD = "true"
                 THEN Append(stdout, Warning) ELSE stdout
    /\ pc' = "serving"
    /\ Keeps /\ UNCHANGED <<err, writeTools, stderr>>

Warn ==
    /\ pc = "warn"
    /\ stderr' = IF env.root = "dot" /\ env.allowCWD = "true"
                 THEN Append(stderr, Warning) ELSE stderr
    /\ pc' = "serving"
    /\ Keeps /\ UNCHANGED <<err, writeTools, stdout>>

\* Server.Run writes responses on stdout and, with MCP_DEBUG, lines on stderr
\* (one stands for all of each kind).
Serve ==
    /\ pc = "serving"
    /\ \/ /\ \A k \in DOMAIN stdout : stdout[k] # "responses"
          /\ stdout' = Append(stdout, "responses") /\ stderr' = stderr
       \/ /\ debugging /\ \A k \in DOMAIN stderr : stderr[k] # Debug
          /\ stderr' = Append(stderr, Debug) /\ stdout' = stdout
    /\ Keeps /\ UNCHANGED <<pc, err, writeTools>>

\* It returns nil or a cancellation, which runCLI treats alike, or the error of
\* a failed read or write.
ServerReturns ==
    /\ pc = "serving"
    /\ \/ Exit(0) /\ UNCHANGED err
       \/ Fails("other") /\ UNCHANGED exit
    /\ UNCHANGED <<input, writeTools, stdout, stderr>>

\* Mutant: every failure has the same code.
FailOne ==
    /\ pc = "failed"
    /\ stderr' = Append(stderr, IF err \in Categories THEN err ELSE "startup_failed")
    /\ Exit(1)
    /\ UNCHANGED <<input, err, writeTools, stdout>>

\* runCLI and runMain on an error: code 3 for a category other than
\* startup_failed, 1 otherwise, and one line with the category.
Fail ==
    /\ pc = "failed"
    /\ stderr' = Append(stderr, IF err \in Categories THEN err ELSE "startup_failed")
    /\ Exit(IF err \in Categories \ {"startup_failed"} THEN 3 ELSE 1)
    /\ UNCHANGED <<input, err, writeTools, stdout>>

Next == \/ Information \/ InvalidArguments \/ LoadConfig \/ NewFilesystem \/ NewRegistry
        \/ Warn \/ Serve \/ ServerReturns \/ Fail

Spec == Init /\ [][Next]_vars

-----------------------------------------------------------------------------
(* Properties *)

Served == pc = "serving" \/ (pc = "exited" /\ args = "none" /\ exit = 0)

\* The development opt-in "never supplies a missing root and never enables
\* other relative roots" (README.md:117), and no server starts on a root that
\* was refused or with a value that did not parse.
ServesOnlyValidated ==
    Served => /\ rootError = "ok"
              /\ env.root = "absolute" \/ (env.root = "dot" /\ env.allowCWD = "true")
              /\ "bad" \notin {env.readOnly, env.allowCWD, env.limit, env.switch, env.debug}

\* The tools that write are there exactly when the profile asks for them; a
\* profile that does not parse never falls back to either.
ProfileHonoured ==
    Served => writeTools = (env.readOnly \in {"unset", "false", "0"})

\* stdout belongs to the protocol: "stdout remains empty" when start-up fails
\* (docs/security.md:21), nothing but responses when a server runs.  On stderr
\* what goes wrong is said exactly once and last, a risky root is warned of
\* exactly when it is served, and everything else is a debug line, which only
\* a running server writes and only with MCP_DEBUG (README.md:159).
SafeDiagnostics ==
    /\ args = "none" => \A k \in DOMAIN stdout : stdout[k] = "responses"
    /\ pc = "exited" /\ exit \in {1, 3} /\ err # "other" => stdout = <<>>
    /\ pc = "exited" => {n \in DOMAIN stderr : stderr[n] \notin {Warning, Debug}}
                          = IF exit = 0 THEN {} ELSE {Len(stderr)}
    /\ (\E k \in DOMAIN stderr : stderr[k] = Debug) =>
          debugging /\ LoadFromEnvironment(env) = "ok" /\ rootError = "ok"
    /\ Served => (env.root = "dot" <=> \E k \in DOMAIN stderr : stderr[k] = Warning)

\* Exit codes keep causes apart: 2 for the command line, 3 for a root or a
\* profile the operator has to correct, 1 for the rest.  A limit or an optional
\* switch that does not parse is of the rest: config.go gives its error no
\* category, so it exits with 1 unless something read before it gave 3.
ExitCodes ==
    pc = "exited" =>
       /\ exit = 2 <=> args \notin {"none", "--version", "--version_--verbose", "--help", "-h"}
       /\ exit = 3 => LoadFromEnvironment(env) # "ok" \/ rootError # "ok"
       /\ args = "none" /\ (env.root \in {"unset", "empty", "blank", "relative"}) => exit \in {1, 3}
       /\ args = "none" /\ LoadFromEnvironment(env) = "ok"
            /\ rootError \in {"ErrNotExist", "ErrRootNotDirectory", "ErrSymlinkDenied"} => exit = 3
       /\ args = "none" /\ "bad" \in {env.limit, env.switch, env.debug} =>
            exit = IF \/ env.root = "unset"
                      \/ env.readOnly \notin {"unset", "true", "1", "false", "0"}
                      \/ env.allowCWD \notin {"unset", "true", "false"} THEN 3 ELSE 1
=============================================================================
