----------------------------- MODULE CommandLine -----------------------------
(***************************************************************************)
(* The command line (main.go): how the flag package collects the options,  *)
(* and what buildConfig makes of them.                                     *)
(*                                                                         *)
(* A command line has the commands of its --run options, the occurrences   *)
(* of every other option that may be repeated, and the global flags, of    *)
(* which the last occurrence counts.  An occurrence has a text and knows   *)
(* how many --run stand before it; that of a --health-interval also has    *)
(* white space around the text, or none.  A flag that is not given is      *)
(* Absent.  An option that is given with an empty text is Empty, if the    *)
(* code takes that; otherwise its text is Malformed.  Names of             *)
(* dependencies come without the white space and commas around them.       *)
(***************************************************************************)
EXTENDS Configuration, FiniteSets, TLC

CONSTANT Empty   \* the text "" of a --health-check or --health-interval

Option == {"name", "restartPolicy", "dependsOn", "healthCheck", "healthInterval"}

\* arrayFlags.Set: the texts in the order of the line, whichever --run they
\* stand behind; the white space around an interval is trimmed later.
Collected(line, option) ==
  [k \in DOMAIN line.options[option] |-> line.options[option][k].text]

\* The default texts of the flags.
FlagDefault ==
  [logFormat |-> "text", logLevel |-> "info", logDir |-> Absent,
   shutdownTimeout |-> 10, restartDelay |-> 1, startRetries |-> 3,
   startupTime |-> 60, maxRestarts |-> Unlimited, healthInterval |-> 30,
   httpPort |-> 0]

Flag(line, s) == IF line.flags[s] = Absent THEN FlagDefault[s] ELSE line.flags[s]

MaxPort == 65535

\* Mutant: a negative number of retries is let through.
FlagParsesOnly(line, s) == Parses(s, Flag(line, s))

FlagAccepted(line, s) ==
  /\ Parses(s, Flag(line, s))
  /\ s = "startRetries" => Flag(line, s) >= 0
  /\ s = "httpPort" => Flag(line, s) \in 0 .. MaxPort

Global(line) == [s \in GlobalSetting |-> Parsed(s, Flag(line, s))]

\* Options are handed out by position: the i-th goes to the i-th process...
Positional(line, option, i) ==
  LET list == Collected(line, option)
  IN  IF i \in DOMAIN list THEN list[i] ELSE Absent

\* Mutant: dependency lists are handed out like all other options.
FromTheFront(line, i) ==
  LET list == Collected(line, "dependsOn")
  IN  IF i \in DOMAIN list THEN list[i] ELSE <<>>

\* ... but the lists of dependencies go to the last processes.
Dependencies(line, i) ==
  LET list == Collected(line, "dependsOn")
      k    == i - (Len(line.runs) - Len(list))
  IN  IF k \in DOMAIN list THEN list[k] ELSE <<>>

DefaultName(i) == "process-" \o ToString(i)

ProcessName(line, i) ==
  LET name == Positional(line, "name", i)
  IN  IF name = Absent THEN DefaultName(i) ELSE name

\* An empty text says nothing, though it has its place in the list.
Said(text) == IF text = Empty THEN Absent ELSE text

LineAccepted(line) ==
  /\ line.runs # <<>>
  /\ \A s \in GlobalSetting : FlagAccepted(line, s)
  /\ \A i \in DOMAIN line.runs :
       \A option \in {"restartPolicy", "healthInterval"} :
         LET text == Said(Positional(line, option, i))
         IN  text # Absent => Parses(option, text)

BuiltProcess(line, i) ==
  LET new      == NewProcess(Global(line), ProcessName(line, i), line.runs[i])
      policy   == Positional(line, "restartPolicy", i)
      interval == Said(Positional(line, "healthInterval", i))
  IN  [new EXCEPT
         !.restartPolicy = IF policy = Absent THEN @ ELSE policy,
         !.dependsOn = Dependencies(line, i),
         !.healthCheck = Said(Positional(line, "healthCheck", i)),
         !.settings.healthInterval = IF interval = Absent THEN @ ELSE interval]

BuildConfig(line) ==
  [processes |-> [i \in DOMAIN line.runs |-> BuiltProcess(line, i)],
   global |-> Global(line)]
=============================================================================
