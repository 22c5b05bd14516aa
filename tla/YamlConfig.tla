----------------------------- MODULE YamlConfig -----------------------------
(***************************************************************************)
(* The YAML file (yaml_config.go): LoadYAMLConfig and SaveYAMLConfig.  A   *)
(* file is the YAMLConfig that Unmarshal returns; a key that is missing is *)
(* Absent.                                                                 *)
(***************************************************************************)
EXTENDS Configuration

\* Integers have no absent value of their own: zero, or less, counts as none.
IntegerKey == {"startRetries", "httpPort"}

Given(s, text) ==
  text # Absent /\ (s \in IntegerKey => text > 0)

KeyAccepted(s, text) == text # Absent => Parses(s, text)

Setting(s, text, default) == IF Given(s, text) THEN Parsed(s, text) ELSE default

FileAccepted(file) ==
  /\ \A s \in GlobalSetting : KeyAccepted(s, file.global[s])
  /\ \A i \in DOMAIN file.processes :
       LET yp == file.processes[i]
       IN  /\ yp.name # ""
           /\ yp.command # ""
           /\ KeyAccepted("restartPolicy", yp.restartPolicy)
           /\ \A s \in ProcessSetting : KeyAccepted(s, yp.settings[s])

ToProcessConfig(global, yp) ==
  [NewProcess(global, yp.name, yp.command) EXCEPT
     !.restartPolicy = Setting("restartPolicy", yp.restartPolicy, @),
     !.dependsOn = yp.dependsOn,
     !.healthCheck = yp.healthCheck,
     !.settings = [s \in ProcessSetting |-> Setting(s, yp.settings[s], @[s])]]

\* Mutant: the processes are converted before the global settings.
ToConfigProcessesFirst(file) ==
  [processes |-> [i \in DOMAIN file.processes |->
                    ToProcessConfig(NewConfig.global, file.processes[i])],
   global |-> [s \in GlobalSetting |->
                 Setting(s, file.global[s], NewConfig.global[s])]]

\* The global settings first: the processes inherit them.
ToConfig(file) ==
  LET global == [s \in GlobalSetting |->
                   Setting(s, file.global[s], NewConfig.global[s])]
  IN  [processes |-> [i \in DOMAIN file.processes |->
                        ToProcessConfig(global, file.processes[i])],
       global |-> global]

\* Mutant: -1 is written as a number, which ParseMaxRestarts rejects.
TextOfNumber(s, value) ==
  IF s \in IntegerKey /\ value = 0 THEN Absent ELSE value

\* omitempty leaves out a zero.
Text(s, value) ==
  IF s \in IntegerKey /\ value = 0 THEN Absent
  ELSE IF s = "maxRestarts" /\ value = Infinite THEN Unlimited ELSE value

FromConfig(c) ==
  [processes |-> [i \in DOMAIN c.processes |->
     [c.processes[i] EXCEPT
        !.settings = [s \in ProcessSetting |-> Text(s, @[s])]]],
   global |-> [s \in GlobalSetting |-> Text(s, c.global[s])]]
=============================================================================
