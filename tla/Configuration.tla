---------------------------- MODULE Configuration ----------------------------
(***************************************************************************)
(* The configuration (config.go): its settings and their defaults, how a   *)
(* setting is parsed, and what Validate accepts.                           *)
(*                                                                         *)
(* A text is the value it denotes, Malformed, or Absent when it is empty   *)
(* or not there at all.  Case, and white space around the text, do not     *)
(* matter where the parser is one of config.go; a duration or a number     *)
(* with white space around it is Malformed.                                *)
(***************************************************************************)
EXTENDS Integers, Sequences, Functions

CONSTANTS
  Absent,     \* no text
  Malformed,  \* a text the parser of its setting does not understand
  Unlimited   \* the text "infinite" (or "unlimited")

Infinite == -1

RestartPolicy == {"always", "on-failure", "never"}
LogFormat == {"json", "text"}
LogLevel == {"debug", "info", "warn", "error"}

\* The texts of no number and of no word are none of those.
ASSUME TextAssumption ==
  /\ Absent # Malformed /\ Absent # Unlimited /\ Malformed # Unlimited
  /\ \A text \in {Absent, Malformed, Unlimited} :
       text \notin Int /\ text \notin RestartPolicy \cup LogFormat \cup LogLevel

\* What every process has of its own and inherits if nothing is said.
ProcessSetting ==
  {"healthInterval", "startRetries", "startupTime", "maxRestarts", "restartDelay"}

GlobalSetting ==
  ProcessSetting \cup {"logFormat", "logLevel", "logDir", "shutdownTimeout", "httpPort"}

NewConfig ==
  [processes |-> <<>>,
   global |-> [logFormat |-> "text", logLevel |-> "info", logDir |-> Absent,
               shutdownTimeout |-> 10, restartDelay |-> 1, startRetries |-> 3,
               startupTime |-> 60, maxRestarts |-> Infinite,
               healthInterval |-> 30, httpPort |-> 0]]

Inherited(global) == [s \in ProcessSetting |-> global[s]]

\* The process AddProcess appends, and ToProcessConfig begins with.
NewProcess(global, name, command) ==
  [name |-> name, command |-> command, restartPolicy |-> "always",
   dependsOn |-> <<>>, healthCheck |-> Absent, settings |-> Inherited(global)]

\* ParseRestartPolicy, ParseLogFormat, ParseLogLevel, ParseMaxRestarts and
\* time.ParseDuration: the texts they take.  A duration may be negative.
Parses(setting, text) ==
  /\ text # Malformed
  /\ setting = "restartPolicy" => text \in RestartPolicy
  /\ setting = "logFormat" => text \in LogFormat
  /\ setting = "logLevel" => text \in LogLevel
  /\ setting = "maxRestarts" => text \in Nat \cup {Unlimited}

\* And what they make of them.
Parsed(setting, text) ==
  IF setting = "maxRestarts" /\ text = Unlimited THEN Infinite ELSE text

Name(c, i) == c.processes[i].name
Needs(c, i) == Range(c.processes[i].dependsOn)

\* Mutant: only names of processes that come earlier are compared.
DuplicateNeighbours(c) ==
  \E i, j \in DOMAIN c.processes : j = i + 1 /\ Name(c, i) = Name(c, j)

DuplicateNames(c) ==
  \E i, j \in DOMAIN c.processes : i # j /\ Name(c, i) = Name(c, j)

UndefinedDependency(c) ==
  \E i \in DOMAIN c.processes : \E d \in Needs(c, i) :
    \A j \in DOMAIN c.processes : Name(c, j) # d

\* What validateDependencies finds (see DependencyCheck).
CircularDependency(c) ==
  \E I \in SUBSET DOMAIN c.processes \ {{}} : \A i \in I : \E j \in I :
    Name(c, j) \in Needs(c, i)

Validate(c) ==
  /\ c.processes # <<>>
  /\ \A i \in DOMAIN c.processes :
       /\ Name(c, i) # ""
       /\ c.processes[i].command # ""
       /\ c.processes[i].restartPolicy \in RestartPolicy
  /\ ~DuplicateNames(c)
  /\ ~UndefinedDependency(c)
  /\ c.global.logFormat \in LogFormat
  /\ c.global.logLevel \in LogLevel
  /\ ~CircularDependency(c)
=============================================================================
