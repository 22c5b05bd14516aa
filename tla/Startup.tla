------------------------------- MODULE Startup -------------------------------
(***************************************************************************)
(* From the command line to a configuration the manager works with: main   *)
(* reads the file or builds the configuration from the options, and        *)
(* validates it.  A configuration that was accepted may be saved as YAML   *)
(* and loaded again by a later run.                                        *)
(***************************************************************************)
EXTENDS CommandLine, YamlConfig

CONSTANT Lines   \* the command lines considered; line.file is the text of
                 \* --config: Absent, or the file it names, Malformed if
                 \* it cannot be read or parsed

\* A text where a number is expected.
NumberText == Int \cup {Absent, Malformed}

TextsOK(texts) ==
  \A s \in DOMAIN texts \ {"logFormat", "logLevel", "logDir"} :
    texts[s] \in NumberText \/ (s = "maxRestarts" /\ texts[s] = Unlimited)

IsSequence(s) == Len(s) \in Nat /\ DOMAIN s = 1 .. Len(s)

FileOK(f) ==
  /\ DOMAIN f.global = GlobalSetting /\ TextsOK(f.global)
  /\ IsSequence(f.processes)
  /\ \A i \in DOMAIN f.processes :
       LET settings == f.processes[i].settings
       IN  DOMAIN settings = ProcessSetting /\ TextsOK(settings)

\* The occurrences of one option, in the order of the line.
OccurrencesOK(list, runs) ==
  /\ IsSequence(list)
  /\ \A k \in DOMAIN list : list[k].after \in 0 .. runs
  /\ \A j, k \in DOMAIN list : j < k => list[j].after <= list[k].after

LineOK(l) ==
  /\ DOMAIN l.flags = GlobalSetting /\ TextsOK(l.flags)
  /\ IsSequence(l.runs)
  /\ DOMAIN l.options = Option
  /\ \A option \in Option : OccurrencesOK(l.options[option], Len(l.runs))
  /\ \A k \in DOMAIN l.options["healthInterval"] :
       /\ l.options["healthInterval"][k].text \in NumberText \cup {Empty}
       /\ l.options["healthInterval"][k].spaced \in BOOLEAN

ASSUME LinesAssumption ==
  \A l \in Lines : LineOK(l) /\ (l.file \in {Absent, Malformed} \/ FileOK(l.file))

VARIABLES
  line,      \* the command line
  phase,     \* how far main is
  config,    \* the Config
  file       \* the file SaveYAMLConfig has written, or Absent

vars == <<line, phase, config, file>>

Init ==
  /\ line \in Lines
  /\ phase = "start"
  /\ config = NewConfig
  /\ file = Absent

\* --config: the other options are not looked at.
LoadsFile ==
  /\ phase = "start"
  /\ line.file \notin {Absent, Malformed}
  /\ FileAccepted(line.file)
  /\ config' = ToConfig(line.file)
  /\ phase' = "loaded"
  /\ UNCHANGED <<line, file>>

BuildsFromFlags ==
  /\ phase = "start"
  /\ line.file = Absent
  /\ LineAccepted(line)
  /\ config' = BuildConfig(line)
  /\ phase' = "loaded"
  /\ UNCHANGED <<line, file>>

\* os.Exit(1), with a message.
Exits ==
  /\ \/ phase = "start" /\ line.file = Malformed
     \/ phase = "start" /\ line.file \notin {Absent, Malformed} /\ ~FileAccepted(line.file)
     \/ phase = "start" /\ line.file = Absent /\ ~LineAccepted(line)
     \/ phase = "loaded" /\ ~Validate(config)
  /\ phase' = "rejected"
  /\ UNCHANGED <<line, config, file>>

Validates ==
  /\ phase = "loaded"
  /\ Validate(config)
  /\ phase' = "accepted"
  /\ UNCHANGED <<line, config, file>>

\* SaveYAMLConfig.
Saves ==
  /\ phase = "accepted"
  /\ file' = FromConfig(config)
  /\ phase' = "saved"
  /\ UNCHANGED <<line, config>>

Next == LoadsFile \/ BuildsFromFlags \/ Exits \/ Validates \/ Saves

Spec == Init /\ [][Next]_vars

-----------------------------------------------------------------------------
SettingsOK(settings) ==
  /\ settings.startRetries \in Nat
  /\ settings.maxRestarts \in Nat \cup {Infinite}
  /\ \A s \in DOMAIN settings \cap {"healthInterval", "startupTime", "restartDelay",
                                    "shutdownTimeout"} : settings[s] \in Int

\* Every Config that is built has settings the restart logic can count with
\* (manager.go:466-500): negative numbers do not get through either source.
TypeOK ==
  /\ phase \in {"start", "loaded", "rejected", "accepted", "saved"}
  /\ SettingsOK(config.global)
  /\ config.global.httpPort \in Nat
  /\ \A i \in DOMAIN config.processes : SettingsOK(config.processes[i].settings)

Accepted == phase \in {"accepted", "saved"}
Processes == DOMAIN config.processes

\* An order in which every process comes after those it depends on.
Startable ==
  \E position \in [Processes -> Processes] :
    \A i, j \in Processes :
      /\ position[i] = position[j] => i = j
      /\ Name(config, j) \in Needs(config, i) => position[j] < position[i]

\* What Validate accepts can be run: the manager's map has an entry for every
\* process, each known by one name, every dependency is one of them and a
\* start order exists (config.go:93-214, manager.go:94-139).
AcceptedIsRunnable ==
  Accepted =>
    /\ Processes # {}
    /\ Cardinality({Name(config, i) : i \in Processes}) = Len(config.processes)
    /\ \A i \in Processes : Needs(config, i) \subseteq {Name(config, j) : j \in Processes}
    /\ Startable

\* Where an option stands behind the i-th --run, and what it says there.
Behind(option, i) ==
  {k \in DOMAIN line.options[option] : line.options[option][k].after = i}

Own(option, i) ==
  IF Behind(option, i) = {} THEN Absent
  ELSE line.options[option][CHOOSE k \in Behind(option, i) : TRUE].text

OwnName(i) == IF Own("name", i) = Absent THEN DefaultName(i) ELSE Own("name", i)
OwnDependencies(i) == IF Behind("dependsOn", i) = {} THEN <<>> ELSE Own("dependsOn", i)

\* No --run has the option twice, and none stands before the first --run.
OnceEach(option) ==
  /\ Behind(option, 0) = {}
  /\ \A i \in DOMAIN line.runs : \A j, k \in Behind(option, i) : j = k

\* No later --run has an option that an earlier one lacks, or the reverse.
FromTheFirst(option) ==
  \A i, j \in DOMAIN line.runs :
    i < j /\ Behind(option, j) # {} => Behind(option, i) # {}

ToTheLast(option) ==
  \A i, j \in DOMAIN line.runs :
    i < j /\ Behind(option, i) # {} => Behind(option, j) # {}

\* Handing out by position then gives every process its own options.
Positioned ==
  /\ \A option \in Option : OnceEach(option)
  /\ \A option \in Option \ {"dependsOn"} : FromTheFirst(option)
  /\ ToTheLast("dependsOn")

\* The process of the i-th --run gets the options written after that --run,
\* if none is repeated there, names, policies and checks are given from the
\* first --run on and dependencies up to the last one (main.go:18-21, 232-277;
\* the help text of --name promises it for every command line, main.go:51).
OptionsFollowTheirRun ==
  Accepted /\ line.file = Absent /\ Positioned =>
    \A i \in Processes :
      LET p == config.processes[i]
      IN  /\ p.command = line.runs[i]
          /\ p.name = OwnName(i)
          /\ Own("restartPolicy", i) \in {Absent, p.restartPolicy}
          /\ p.dependsOn = OwnDependencies(i)
          /\ p.healthCheck = Said(Own("healthCheck", i))
          /\ Said(Own("healthInterval", i)) \in {Absent, p.settings.healthInterval}

\* White space around the health interval behind the i-th --run.
Spaced(i) ==
  \E k \in Behind("healthInterval", i) : line.options["healthInterval"][k].spaced

\* The YAML file with the same texts as the command line: an interval with
\* white space around it is no duration there.
Written ==
  [global |-> line.flags,
   processes |-> [i \in DOMAIN line.runs |->
     [name |-> OwnName(i), command |-> line.runs[i],
      restartPolicy |-> Own("restartPolicy", i),
      dependsOn |-> OwnDependencies(i),
      healthCheck |-> Said(Own("healthCheck", i)),
      settings |-> [s \in ProcessSetting |->
         IF s # "healthInterval" THEN Absent
         ELSE IF Spaced(i) THEN Malformed ELSE Said(Own("healthInterval", i))]]]]

\* Zero retries cannot be said in YAML.
RetriesAllowed ==
  /\ config.global.startRetries > 0
  /\ \A i \in Processes : config.processes[i].settings.startRetries > 0

\* The two sources agree on defaults, on what is inherited and on what is
\* rejected: an accepted command line, written as YAML, is accepted and means
\* the same.  Only white space around a --health-interval, which main trims,
\* is not accepted there (main.go:163-281, yaml_config.go:57-212).
SourcesAgree ==
  Accepted /\ line.file = Absent /\ Positioned /\ RetriesAllowed =>
    IF \E i \in Processes : Spaced(i)
    THEN ~FileAccepted(Written)
    ELSE FileAccepted(Written) /\ ToConfig(Written) = config

\* The retries a configuration has after it was saved and loaded: a zero is
\* left out, and what is inherited takes its place.
GlobalRetries ==
  IF config.global.startRetries = 0 THEN NewConfig.global.startRetries
  ELSE config.global.startRetries

RetriesKept(settings) ==
  [settings EXCEPT !.startRetries = IF @ = 0 THEN GlobalRetries ELSE @]

\* What is saved can be loaded, is valid again and is the same configuration,
\* except that start retries of zero come back as the inherited number
\* (yaml_config.go:57-276).
RoundTrip ==
  phase = "saved" =>
    /\ FileAccepted(file)
    /\ Validate(ToConfig(file))
    /\ ToConfig(file) =
         [global |-> [config.global EXCEPT !.startRetries = GlobalRetries],
          processes |-> [i \in Processes |->
            [config.processes[i] EXCEPT !.settings = RetriesKept(@)]]]
=============================================================================
