---------------------------- MODULE Startup_proofs ----------------------------
(***************************************************************************)
(* Proofs about what main makes of a command line or of a YAML file, for   *)
(* any command lines and any files.                                        *)
(***************************************************************************)
EXTENDS Startup, FiniteSetTheorems, WellFoundedInduction, TLAPS

-----------------------------------------------------------------------------
(* One setting.                                                            *)

Words == {"logFormat", "logLevel", "logDir"}

\* The texts a setting may be given, and the values it may have.
TextOK(s, text) ==
  s \notin Words => text \in NumberText \/ (s = "maxRestarts" /\ text = Unlimited)

ValueOK(s, v) ==
  /\ s = "logFormat" => v \in LogFormat
  /\ s = "logLevel" => v \in LogLevel
  /\ s = "logDir" => v # Malformed
  /\ s \in IntegerKey => v \in Nat
  /\ s = "maxRestarts" => v \in Nat \cup {Infinite}
  /\ s \in {"healthInterval", "startupTime", "restartDelay", "shutdownTimeout"} => v \in Int

LEMMA SettingNames ==
  ASSUME NEW s \in GlobalSetting
  PROVE  \/ s \in {"healthInterval", "startupTime", "restartDelay", "shutdownTimeout"}
         \/ s \in {"startRetries", "httpPort"}
         \/ s = "maxRestarts"
         \/ s = "logFormat" \/ s = "logLevel" \/ s = "logDir"
BY DEF GlobalSetting, ProcessSetting

\* What a parser takes, it turns into a value.
LEMMA ParsedIsOK ==
  ASSUME NEW s \in GlobalSetting, NEW text, TextOK(s, text), text # Absent, Parses(s, text),
         s \in IntegerKey => text >= 0
  PROVE  ValueOK(s, Parsed(s, text))
BY TextAssumption, SettingNames
   DEF TextOK, Parses, Parsed, ValueOK, Words, NumberText, IntegerKey, Infinite

LEMMA SettingIsOK ==
  ASSUME NEW s \in GlobalSetting, NEW text, TextOK(s, text), KeyAccepted(s, text),
         NEW default, ValueOK(s, default)
  PROVE  ValueOK(s, Setting(s, text, default))
<1>1. CASE Given(s, text)
  <2>1. text # Absent /\ Parses(s, text)
    BY <1>1 DEF Given, KeyAccepted
  <2>2. s \in IntegerKey => text >= 0
    BY <1>1, <2>1, TextAssumption DEF Given, TextOK, NumberText, IntegerKey, Words, Parses
  <2> QED
    BY <1>1, <2>1, <2>2, ParsedIsOK DEF Setting
<1>2. CASE ~Given(s, text)
  BY <1>2 DEF Setting
<1> QED
  BY <1>1, <1>2

\* A value that is written as a text is accepted when it is read and comes
\* back, unless it is one that is left out.
LeftOut(s, v) == (s \in IntegerKey /\ v = 0) \/ (s = "logDir" /\ v = Absent)

LEMMA ValueComesBack ==
  ASSUME NEW s \in GlobalSetting, NEW v, ValueOK(s, v), NEW default
  PROVE  /\ KeyAccepted(s, Text(s, v))
         /\ Setting(s, Text(s, v), default) = IF LeftOut(s, v) THEN default ELSE v
<1>1. CASE s \in {"healthInterval", "startupTime", "restartDelay", "shutdownTimeout"}
  BY <1>1, TextAssumption
     DEF ValueOK, KeyAccepted, Text, Setting, Given, Parses, Parsed, IntegerKey, LeftOut
<1>2. CASE s \in {"startRetries", "httpPort"}
  BY <1>2, TextAssumption
     DEF ValueOK, KeyAccepted, Text, Setting, Given, Parses, Parsed, IntegerKey, LeftOut
<1>3. CASE s = "maxRestarts"
  BY <1>3, TextAssumption
     DEF ValueOK, KeyAccepted, Text, Setting, Given, Parses, Parsed, IntegerKey, LeftOut,
         Infinite
<1>4. CASE s = "logFormat" \/ s = "logLevel" \/ s = "logDir"
  BY <1>4, TextAssumption
     DEF ValueOK, KeyAccepted, Text, Setting, Given, Parses, Parsed, IntegerKey, LeftOut
<1> QED
  BY <1>1, <1>2, <1>3, <1>4, SettingNames

-----------------------------------------------------------------------------
(* A whole configuration.                                                  *)

ValuesOK(values, settings) ==
  /\ values = [s \in settings |-> values[s]]
  /\ \A s \in settings : ValueOK(s, values[s])

ProcessOK(p) ==
  /\ p = [name |-> p.name, command |-> p.command, restartPolicy |-> p.restartPolicy,
          dependsOn |-> p.dependsOn, healthCheck |-> p.healthCheck, settings |-> p.settings]
  /\ ValuesOK(p.settings, ProcessSetting)

ConfigOK(c) ==
  /\ c = [processes |-> c.processes, global |-> c.global]
  /\ ValuesOK(c.global, GlobalSetting)
  /\ IsSequence(c.processes)
  /\ c.processes = [i \in DOMAIN c.processes |-> c.processes[i]]
  /\ \A i \in DOMAIN c.processes : ProcessOK(c.processes[i])

LEMMA DefaultsAreOK == ValuesOK(NewConfig.global, GlobalSetting)
<1> DEFINE g == NewConfig.global
<1>1. \A s \in GlobalSetting : ValueOK(s, g[s])
  <2> SUFFICES ASSUME NEW s \in GlobalSetting PROVE ValueOK(s, g[s])
    OBVIOUS
  <2> QED
    BY TextAssumption, SettingNames
       DEF NewConfig, ValueOK, LogFormat, LogLevel, IntegerKey, Infinite
<1>2. g = [s \in GlobalSetting |-> g[s]]
  BY DEF NewConfig, GlobalSetting, ProcessSetting
<1> QED
  BY <1>1, <1>2 DEF ValuesOK

LEMMA NewConfigIsOK == ConfigOK(NewConfig)
<1>1. NewConfig.processes = <<>>
  BY DEF NewConfig
<1>2. IsSequence(<<>>) /\ DOMAIN <<>> = {} /\ <<>> = [i \in DOMAIN <<>> |-> <<>>[i]]
  BY DEF IsSequence
<1>3. NewConfig = [processes |-> NewConfig.processes, global |-> NewConfig.global]
  BY DEF NewConfig
<1> QED
  BY <1>1, <1>2, <1>3, DefaultsAreOK DEF ConfigOK

LEMMA InheritedIsOK ==
  ASSUME NEW global, ValuesOK(global, GlobalSetting)
  PROVE  /\ ValuesOK(Inherited(global), ProcessSetting)
         /\ \A s \in ProcessSetting : Inherited(global)[s] = global[s]
BY DEF ValuesOK, Inherited, GlobalSetting

LEMMA SequenceOver ==
  ASSUME NEW s, IsSequence(s), NEW f, DOMAIN f = DOMAIN s, f = [i \in DOMAIN s |-> f[i]]
  PROVE  IsSequence(f) /\ Len(f) = Len(s)
BY DEF IsSequence

\* The settings of a file, given those that are inherited.
LEMMA SettingsAreOK ==
  ASSUME NEW settings \in {GlobalSetting, ProcessSetting}, NEW texts, NEW defaults,
         DOMAIN texts = settings, TextsOK(texts),
         \A s \in settings : KeyAccepted(s, texts[s]) /\ ValueOK(s, defaults[s])
  PROVE  ValuesOK([s \in settings |-> Setting(s, texts[s], defaults[s])], settings)
<1> SUFFICES ASSUME NEW s \in settings
             PROVE  ValueOK(s, Setting(s, texts[s], defaults[s]))
  BY DEF ValuesOK
<1>1. s \in GlobalSetting
  BY DEF GlobalSetting
<1>2. TextOK(s, texts[s])
  BY DEF TextsOK, TextOK, Words
<1> QED
  BY <1>1, <1>2, SettingIsOK

LEMMA FileGlobal ==
  ASSUME NEW f, FileOK(f), FileAccepted(f)
  PROVE  /\ ToConfig(f).global = [s \in GlobalSetting |->
                                    Setting(s, f.global[s], NewConfig.global[s])]
         /\ ValuesOK(ToConfig(f).global, GlobalSetting)
<1>1. /\ DOMAIN f.global = GlobalSetting /\ TextsOK(f.global)
      /\ \A s \in GlobalSetting : KeyAccepted(s, f.global[s])
  BY DEF FileOK, FileAccepted
<1>2. \A s \in GlobalSetting : ValueOK(s, NewConfig.global[s])
  BY DefaultsAreOK DEF ValuesOK
<1>3. ToConfig(f).global = [s \in GlobalSetting |->
                              Setting(s, f.global[s], NewConfig.global[s])]
  BY DEF ToConfig
<1> QED
  BY <1>1, <1>2, <1>3, SettingsAreOK

\* A process with some of its fields set.
Amended(p, P, D, H, S) ==
  [p EXCEPT !.restartPolicy = P, !.dependsOn = D, !.healthCheck = H, !.settings = S]

LEMMA AmendedFields ==
  ASSUME NEW global, NEW name, NEW command, NEW P, NEW D, NEW H, NEW S
  PROVE  Amended(NewProcess(global, name, command), P, D, H, S)
           = [name |-> name, command |-> command, restartPolicy |-> P, dependsOn |-> D,
              healthCheck |-> H, settings |-> S]
<1> DEFINE p == Amended(NewProcess(global, name, command), P, D, H, S)
<1>1. DOMAIN p = {"name", "command", "restartPolicy", "dependsOn", "healthCheck", "settings"}
  BY DEF NewProcess, Amended
<1>2. /\ p.name = name /\ p.command = command /\ p.restartPolicy = P
      /\ p.dependsOn = D /\ p.healthCheck = H /\ p.settings = S
  BY DEF NewProcess, Amended
<1>3. p = [field \in DOMAIN p |-> p[field]]
  BY DEF NewProcess, Amended
<1> HIDE DEF p
<1>4. p = [name |-> name, command |-> command, restartPolicy |-> P, dependsOn |-> D,
           healthCheck |-> H, settings |-> S]
  BY <1>1, <1>2, <1>3
<1> QED
  BY <1>4 DEF p

\* The fields of a process that a file describes.
LEMMA FileProcess ==
  ASSUME NEW global, NEW yp
  PROVE  ToProcessConfig(global, yp)
           = [name |-> yp.name, command |-> yp.command,
              restartPolicy |-> Setting("restartPolicy", yp.restartPolicy, "always"),
              dependsOn |-> yp.dependsOn, healthCheck |-> yp.healthCheck,
              settings |-> [s \in ProcessSetting |->
                              Setting(s, yp.settings[s], Inherited(global)[s])]]
<1> DEFINE new == NewProcess(global, yp.name, yp.command)
           P == Setting("restartPolicy", yp.restartPolicy, new.restartPolicy)
           S == [s \in ProcessSetting |-> Setting(s, yp.settings[s], new.settings[s])]
<1>1. new.restartPolicy = "always" /\ new.settings = Inherited(global)
  BY DEF NewProcess
<1>2. ToProcessConfig(global, yp)
        = Amended(new, P, yp.dependsOn, yp.healthCheck, S)
  BY DEF ToProcessConfig, Amended
<1>3. ToProcessConfig(global, yp)
        = [name |-> yp.name, command |-> yp.command, restartPolicy |-> P,
           dependsOn |-> yp.dependsOn, healthCheck |-> yp.healthCheck, settings |-> S]
  <2> HIDE DEF P, S
  <2> QED
    BY <1>2, AmendedFields
<1> QED
  BY <1>1, <1>3

LEMMA FileIsOK ==
  ASSUME NEW f, FileOK(f), FileAccepted(f)
  PROVE  ConfigOK(ToConfig(f))
<1> DEFINE c == ToConfig(f)
<1>1. /\ c = [processes |-> c.processes, global |-> c.global]
      /\ c.processes = [i \in DOMAIN f.processes |-> ToProcessConfig(c.global, f.processes[i])]
  BY DEF ToConfig
<1>2. ValuesOK(c.global, GlobalSetting)
  BY FileGlobal
<1>3. /\ IsSequence(f.processes)
      /\ \A i \in DOMAIN f.processes :
           /\ DOMAIN f.processes[i].settings = ProcessSetting
           /\ TextsOK(f.processes[i].settings)
           /\ \A s \in ProcessSetting : KeyAccepted(s, f.processes[i].settings[s])
  BY DEF FileOK, FileAccepted
<1> HIDE DEF c
<1>4. DOMAIN c.processes = DOMAIN f.processes
  BY <1>1
<1>5. c.processes = [i \in DOMAIN f.processes |-> c.processes[i]]
  BY <1>1
<1>6. IsSequence(c.processes)
  BY <1>3, <1>4, <1>5, SequenceOver
<1>7. ASSUME NEW i \in DOMAIN f.processes
      PROVE  ProcessOK(c.processes[i])
  <2> DEFINE yp == f.processes[i]
             p == c.processes[i]
             inherited == Inherited(c.global)
  <2>1. p = ToProcessConfig(c.global, yp)
    BY <1>1
  <2>2. \A s \in ProcessSetting : KeyAccepted(s, yp.settings[s]) /\ ValueOK(s, inherited[s])
    BY <1>2, <1>3, InheritedIsOK DEF ValuesOK
  <2>3. DOMAIN yp.settings = ProcessSetting /\ TextsOK(yp.settings)
    BY <1>3
  <2>4. p.settings = [s \in ProcessSetting |-> Setting(s, yp.settings[s], inherited[s])]
    BY <2>1, FileProcess
  <2>5. p = [name |-> p.name, command |-> p.command, restartPolicy |-> p.restartPolicy,
             dependsOn |-> p.dependsOn, healthCheck |-> p.healthCheck,
             settings |-> p.settings]
    BY <2>1, FileProcess
  <2> HIDE DEF yp, p, inherited
  <2>6. ValuesOK(p.settings, ProcessSetting)
    BY <2>2, <2>3, <2>4, SettingsAreOK
  <2> QED
    BY <2>5, <2>6 DEF ProcessOK, p
<1> QED
  BY <1>1, <1>2, <1>4, <1>5, <1>6, <1>7 DEF ConfigOK, c

\* The flags of a command line, defaults included.
LEMMA FlagTextOK ==
  ASSUME NEW l, LineOK(l), NEW s \in GlobalSetting
  PROVE  Flag(l, s) # Absent => TextOK(s, Flag(l, s))
<1>1. CASE l.flags[s] = Absent
  BY <1>1, SettingNames DEF Flag, FlagDefault, TextOK, Words, NumberText
<1>2. CASE l.flags[s] # Absent
  BY <1>2 DEF Flag, TextOK, Words, LineOK, TextsOK
<1> QED
  BY <1>1, <1>2

\* Only the log directory has no default text.
LEMMA FlagIsGiven ==
  ASSUME NEW l, NEW s \in GlobalSetting, Flag(l, s) = Absent
  PROVE  s = "logDir" /\ l.flags[s] = Absent
<1>1. l.flags[s] = Absent /\ FlagDefault[s] = Absent
  BY DEF Flag
<1> QED
  BY <1>1, TextAssumption, SettingNames DEF FlagDefault, LogFormat, LogLevel

LEMMA LineGlobal ==
  ASSUME NEW l, LineOK(l), LineAccepted(l)
  PROVE  ValuesOK(Global(l), GlobalSetting)
<1> SUFFICES ASSUME NEW s \in GlobalSetting
             PROVE  ValueOK(s, Parsed(s, Flag(l, s)))
  BY DEF ValuesOK, Global
<1>1. FlagAccepted(l, s)
  BY DEF LineAccepted
<1>2. CASE Flag(l, s) = Absent
  BY <1>2, FlagIsGiven, TextAssumption DEF ValueOK, Parsed, IntegerKey
<1>3. CASE Flag(l, s) # Absent
  <2>1. TextOK(s, Flag(l, s)) /\ Parses(s, Flag(l, s))
    BY <1>1, <1>3, FlagTextOK DEF FlagAccepted
  <2>2. s = "startRetries" => Flag(l, s) >= 0
    BY <1>1 DEF FlagAccepted
  <2>3. s = "httpPort" => Flag(l, s) >= 0
    <3>1. \A port \in 0 .. MaxPort : port >= 0
      OBVIOUS
    <3>2. s = "httpPort" => Flag(l, s) \in 0 .. MaxPort
      BY <1>1 DEF FlagAccepted
    <3> QED
      BY <3>1, <3>2
  <2> QED
    BY <1>3, <2>1, <2>2, <2>3, ParsedIsOK DEF IntegerKey
<1> QED
  BY <1>2, <1>3

\* The fields of a process that a command line describes.
LEMMA LineProcess ==
  ASSUME NEW l, NEW i
  PROVE  LET policy   == Positional(l, "restartPolicy", i)
             interval == Said(Positional(l, "healthInterval", i))
         IN  BuiltProcess(l, i)
               = [name |-> ProcessName(l, i), command |-> l.runs[i],
                  restartPolicy |-> IF policy = Absent THEN "always" ELSE policy,
                  dependsOn |-> Dependencies(l, i),
                  healthCheck |-> Said(Positional(l, "healthCheck", i)),
                  settings |-> [s \in ProcessSetting |->
                                  IF s = "healthInterval" /\ interval # Absent
                                  THEN interval ELSE Inherited(Global(l))[s]]]
<1> DEFINE policy   == Positional(l, "restartPolicy", i)
           interval == Said(Positional(l, "healthInterval", i))
           default  == Inherited(Global(l))
           new      == NewProcess(Global(l), ProcessName(l, i), l.runs[i])
           settings == [default EXCEPT !.healthInterval =
                          IF interval = Absent THEN @ ELSE interval]
           P == IF policy = Absent THEN "always" ELSE policy
           D == Dependencies(l, i)
           H == Said(Positional(l, "healthCheck", i))
<1>1. BuiltProcess(l, i)
        = [name |-> ProcessName(l, i), command |-> l.runs[i],
           restartPolicy |-> IF policy = Absent THEN "always" ELSE policy,
           dependsOn |-> Dependencies(l, i),
           healthCheck |-> Said(Positional(l, "healthCheck", i)),
           settings |-> settings]
  <2>1. new.restartPolicy = "always" /\ new.settings = default
    BY DEF NewProcess
  <2>2. \A X, Y : [new EXCEPT !.restartPolicy = X, !.dependsOn = D, !.healthCheck = H,
                              !.settings.healthInterval = Y]
                  = [new EXCEPT !.restartPolicy = X, !.dependsOn = D, !.healthCheck = H,
                                !.settings = [default EXCEPT !.healthInterval = Y]]
    BY DEF NewProcess
  <2>3. BuiltProcess(l, i)
          = [new EXCEPT !.restartPolicy = IF policy = Absent THEN new.restartPolicy ELSE policy,
                        !.dependsOn = D, !.healthCheck = H,
                        !.settings.healthInterval =
                          IF interval = Absent THEN new.settings.healthInterval ELSE interval]
    BY DEF BuiltProcess
  <2> DEFINE S == settings
  <2>4. BuiltProcess(l, i) = Amended(new, P, D, H, S)
    <3> DEFINE Y == IF interval = Absent THEN default.healthInterval ELSE interval
    <3>1. BuiltProcess(l, i)
            = [new EXCEPT !.restartPolicy = P, !.dependsOn = D, !.healthCheck = H,
                          !.settings.healthInterval = Y]
      <4> HIDE DEF new, D, H, policy, interval, default
      <4> QED
        BY <2>1, <2>3
    <3>2. S = [default EXCEPT !.healthInterval = Y]
      BY DEF S
    <3> HIDE DEF new, D, H, P, S, Y
    <3>3. BuiltProcess(l, i) = [new EXCEPT !.restartPolicy = P, !.dependsOn = D,
                                           !.healthCheck = H, !.settings = S]
      <4>1. [new EXCEPT !.restartPolicy = P, !.dependsOn = D, !.healthCheck = H,
                        !.settings.healthInterval = Y]
              = [new EXCEPT !.restartPolicy = P, !.dependsOn = D, !.healthCheck = H,
                            !.settings = [default EXCEPT !.healthInterval = Y]]
        BY <2>2, Zenon
      <4> QED
        BY <3>1, <3>2, <4>1, Zenon
    <3> QED
      BY <3>3 DEF Amended
  <2> HIDE DEF P, D, H, S
  <2>5. BuiltProcess(l, i)
          = [name |-> ProcessName(l, i), command |-> l.runs[i],
             restartPolicy |-> P, dependsOn |-> D, healthCheck |-> H, settings |-> S]
    BY <2>4, AmendedFields
  <2> QED
    BY <2>5 DEF P, D, H, S
<1>2. default = [s \in ProcessSetting |-> default[s]]
  BY DEF Inherited
<1> HIDE DEF policy, interval, default
<1>3. settings = [s \in ProcessSetting |->
                    IF s = "healthInterval" /\ interval # Absent
                    THEN interval ELSE default[s]]
  BY <1>2 DEF ProcessSetting
<1> HIDE DEF settings
<1> QED
  BY <1>1, <1>3 DEF policy, interval, default

-----------------------------------------------------------------------------
(* The options of a command line, handed out by position.                  *)

LEMMA CollectedIs ==
  ASSUME NEW l, LineOK(l), NEW option \in Option
  PROVE  LET list == l.options[option]
             m    == Len(list)
             n    == Len(l.runs)
         IN  /\ n \in Nat /\ DOMAIN l.runs = 1 .. n
             /\ m \in Nat /\ DOMAIN list = 1 .. m
             /\ \A k \in 1 .. m : list[k].after \in 0 .. n
             /\ \A j, k \in 1 .. m : j < k => list[j].after <= list[k].after
             /\ DOMAIN Collected(l, option) = 1 .. m
             /\ Len(Collected(l, option)) = m
             /\ \A k \in 1 .. m : Collected(l, option)[k] = list[k].text
<1> DEFINE list == l.options[option]
           m    == Len(list)
           n    == Len(l.runs)
           f    == [k \in 1 .. m |-> list[k].text]
<1>1. n \in Nat /\ DOMAIN l.runs = 1 .. n
  BY DEF LineOK, IsSequence
<1>2. /\ m \in Nat /\ DOMAIN list = 1 .. m
      /\ \A k \in 1 .. m : list[k].after \in 0 .. n
      /\ \A j, k \in 1 .. m : j < k => list[j].after <= list[k].after
  BY DEF LineOK, OccurrencesOK, IsSequence
<1>3. Collected(l, option) = f
  BY <1>2 DEF Collected
<1>4. DOMAIN f = 1 .. m /\ \A k \in 1 .. m : f[k] = list[k].text
  OBVIOUS
<1>5. Len(f) = m
  <2> HIDE DEF m, list
  <2> QED
    BY <1>2
<1> HIDE DEF f
<1> QED
  BY <1>1, <1>2, <1>3, <1>4, <1>5

\* What is handed out is the text of some occurrence, or nothing.
LEMMA PositionalIsGiven ==
  ASSUME NEW l, LineOK(l), NEW option \in Option, NEW i
  PROVE  \/ Positional(l, option, i) = Absent
         \/ \E k \in DOMAIN l.options[option] :
              Positional(l, option, i) = l.options[option][k].text
BY CollectedIs DEF Positional

LEMMA SmallestExists ==
  ASSUME NEW S \in SUBSET Nat, S # {}
  PROVE  \E x \in S : \A y \in S : x <= y
<1> DEFINE R == {ss \in Nat \X Nat : ss[1] < ss[2]}
<1>1. IsWellFoundedOn(R, Nat)
  BY NatLessThanWellFounded DEF OpToRel
<1>2. \A x, y \in S : <<y, x>> \in R <=> y < x
  OBVIOUS
<1> HIDE DEF R
<1>3. PICK x \in S : \A y \in S : ~(<<y, x>> \in R)
  BY <1>1, WFMin
<1>4. \A y \in S : ~(y < x)
  BY <1>2, <1>3, Zenon
<1> QED
  BY <1>4

\* Where m options stand, in order and no two behind the same --run.
Places(place, m, n) ==
  /\ m \in Nat /\ n \in Nat
  /\ \A k \in 1 .. m : place[k] \in 1 .. n
  /\ \A j, k \in 1 .. m : j < k => place[j] < place[k]

\* If none is behind a --run later than one without, the k-th is behind the
\* k-th --run...
LEMMA PlacesFromTheFirst ==
  ASSUME NEW place, NEW m, NEW n, Places(place, m, n),
         \A i, j \in 1 .. n :
           i < j /\ (\E k \in 1 .. m : place[k] = j) => \E k \in 1 .. m : place[k] = i,
         NEW k \in 1 .. m
  PROVE  place[k] = k
<1> DEFINE Wrong == {h \in Nat : h \in 1 .. m /\ place[h] # h}
<1>0. m \in Nat /\ n \in Nat
  BY DEF Places
<1>1. SUFFICES ASSUME Wrong # {} PROVE FALSE
  BY <1>0
<1>2. PICK h \in Wrong : \A j \in Wrong : h <= j
  <2> HIDE DEF Wrong
  <2>1. Wrong \in SUBSET Nat
    BY DEF Wrong
  <2> QED
    BY <1>1, <2>1, SmallestExists
<1>3. \A j \in 1 .. m : j < h => place[j] = j
  BY <1>0, <1>2
<1>4. place[h] \in 1 .. n /\ h \in 1 .. m /\ place[h] # h
  BY <1>2 DEF Places
<1>5. place[h] > h
  <2>1. CASE h = 1
    BY <1>0, <1>4, <2>1
  <2>2. CASE h # 1
    <3>1. h - 1 \in 1 .. m /\ h - 1 < h
      BY <1>0, <1>4, <2>2
    <3>2. place[h - 1] = h - 1 /\ place[h - 1] < place[h]
      BY <1>3, <1>4, <3>1 DEF Places
    <3> QED
      BY <1>0, <1>4, <3>1, <3>2
  <2> QED
    BY <2>1, <2>2
<1>6. h \in 1 .. n
  BY <1>0, <1>4, <1>5
<1>7. PICK j \in 1 .. m : place[j] = h
  BY <1>4, <1>5, <1>6
<1>8. CASE j < h
  BY <1>3, <1>7, <1>8
<1>9. CASE j = h
  BY <1>4, <1>7, <1>9
<1>10. CASE j > h
  <2>1. place[h] < place[j]
    BY <1>4, <1>10 DEF Places
  <2> QED
    BY <1>0, <1>4, <1>5, <1>7, <2>1
<1> QED
  BY <1>0, <1>4, <1>8, <1>9, <1>10

\* ... and if none is behind one earlier than one without, the last is behind
\* the last --run.
LEMMA PlacesToTheLast ==
  ASSUME NEW place, NEW m, NEW n, Places(place, m, n),
         \A i, j \in 1 .. n :
           i < j /\ (\E k \in 1 .. m : place[k] = i) => \E k \in 1 .. m : place[k] = j,
         NEW k \in 1 .. m
  PROVE  place[k] = k + (n - m)
<1> DEFINE Wrong == {g \in Nat : g < m /\ place[m - g] # (m - g) + (n - m)}
<1>0. m \in Nat /\ n \in Nat
  BY DEF Places
<1>1. SUFFICES ASSUME Wrong # {} PROVE FALSE
  <2>1. m - k \in Nat /\ m - k < m /\ m - (m - k) = k
    BY <1>0
  <2> QED
    BY <2>1
<1>2. PICK g \in Wrong : \A j \in Wrong : g <= j
  <2> HIDE DEF Wrong
  <2>1. Wrong \in SUBSET Nat
    BY DEF Wrong
  <2> QED
    BY <1>1, <2>1, SmallestExists
<1> DEFINE h == m - g
           i == h + (n - m)
<1>3. h \in 1 .. m /\ place[h] # i /\ g \in Nat
  BY <1>0, <1>2
<1>4. \A j \in 1 .. m : j > h => place[j] = j + (n - m)
  <2> SUFFICES ASSUME NEW j \in 1 .. m, j > h PROVE place[j] = j + (n - m)
    OBVIOUS
  <2>1. m - j \in Nat /\ m - j < m /\ m - (m - j) = j /\ m - j < g
    BY <1>0, <1>3
  <2>2. m - j \notin Wrong
    BY <1>2, <1>3, <2>1
  <2> QED
    BY <2>1, <2>2
<1>5. place[h] \in 1 .. n
  BY <1>3 DEF Places
<1>6. i \in Int /\ h \in Int /\ n - m \in Int /\ i = h + (n - m)
  BY <1>0, <1>3
<1> HIDE DEF h, i, Wrong
<1>7. place[h] < i
  <2>1. CASE h = m
    BY <1>0, <1>3, <1>5, <1>6, <2>1
  <2>2. CASE h # m
    <3>1. h + 1 \in 1 .. m /\ h < h + 1
      BY <1>0, <1>3, <2>2
    <3>2. place[h + 1] = (h + 1) + (n - m) /\ place[h] < place[h + 1]
      BY <1>3, <1>4, <3>1 DEF Places
    <3> QED
      BY <1>0, <1>3, <1>5, <1>6, <3>2
  <2> QED
    BY <2>1, <2>2
<1>8. i \in 1 .. n
  BY <1>0, <1>3, <1>5, <1>6, <1>7
<1>9. PICK j \in 1 .. m : place[j] = i
  BY <1>3, <1>5, <1>7, <1>8
<1>10. CASE j > h
  BY <1>0, <1>4, <1>6, <1>9, <1>10
<1>11. CASE j = h
  BY <1>3, <1>9, <1>11
<1>12. CASE j < h
  <2>1. place[j] < place[h]
    BY <1>3, <1>12 DEF Places
  <2> QED
    BY <1>0, <1>5, <1>6, <1>7, <1>9, <2>1
<1> QED
  BY <1>0, <1>3, <1>10, <1>11, <1>12

\* Where the occurrences of an option stand.
Place(option) ==
  [k \in DOMAIN line.options[option] |-> line.options[option][k].after]

LEMMA PlacesOnceEach ==
  ASSUME LineOK(line), NEW option \in Option, OnceEach(option)
  PROVE  Places(Place(option), Len(line.options[option]), Len(line.runs))
<1> DEFINE list  == line.options[option]
           place == Place(option)
           m     == Len(list)
           n     == Len(line.runs)
<1>1. /\ n \in Nat /\ DOMAIN line.runs = 1 .. n /\ m \in Nat /\ DOMAIN list = 1 .. m
      /\ \A k \in 1 .. m : list[k].after \in 0 .. n
      /\ \A j, k \in 1 .. m : j < k => list[j].after <= list[k].after
  BY CollectedIs
<1>2. \A k \in 1 .. m : place[k] = list[k].after
  BY <1>1 DEF Place
<1>3. \A i : Behind(option, i) = {k \in 1 .. m : place[k] = i}
  BY <1>1, <1>2 DEF Behind
<1> HIDE DEF list, place, m, n
<1>4. ASSUME NEW k \in 1 .. m
      PROVE  place[k] \in 1 .. n
  <2>1. place[k] # 0
    BY <1>3 DEF OnceEach
  <2> QED
    BY <1>1, <1>2, <2>1
<1>5. ASSUME NEW j \in 1 .. m, NEW k \in 1 .. m, j < k
      PROVE  place[j] < place[k]
  <2>1. place[j] <= place[k]
    BY <1>1, <1>2, <1>5
  <2>2. place[j] # place[k]
    <3>1. place[k] \in DOMAIN line.runs
      BY <1>1, <1>4
    <3>2. k \in Behind(option, place[k])
      BY <1>3
    <3>3. place[j] = place[k] => j \in Behind(option, place[k])
      BY <1>3
    <3> QED
      BY <1>5, <3>1, <3>2, <3>3 DEF OnceEach
  <2> QED
    BY <1>1, <1>4, <2>1, <2>2
<1> QED
  BY <1>1, <1>4, <1>5 DEF Places, list, place, m, n

\* Where the first --run have the option, each gets its own.
LEMMA PositionalIsOwn ==
  ASSUME LineOK(line), NEW option \in Option, OnceEach(option), FromTheFirst(option),
         NEW i \in DOMAIN line.runs
  PROVE  Positional(line, option, i) = Own(option, i)
<1> DEFINE list  == line.options[option]
           place == Place(option)
           m     == Len(list)
           n     == Len(line.runs)
<1>1. /\ n \in Nat /\ DOMAIN line.runs = 1 .. n /\ m \in Nat /\ DOMAIN list = 1 .. m
      /\ DOMAIN Collected(line, option) = 1 .. m
      /\ \A k \in 1 .. m : Collected(line, option)[k] = list[k].text
  BY CollectedIs
<1>2. \A h : Behind(option, h) = {k \in 1 .. m : place[k] = h}
  BY <1>1 DEF Behind, Place
<1>3. Places(place, m, n)
  BY PlacesOnceEach
<1>4. Own(option, i) = IF Behind(option, i) = {} THEN Absent
                       ELSE list[CHOOSE k \in Behind(option, i) : TRUE].text
  BY DEF Own
<1> HIDE DEF list, place, m, n
<1>5. \A g, h \in 1 .. n :
        g < h /\ (\E k \in 1 .. m : place[k] = h) => \E k \in 1 .. m : place[k] = g
  BY <1>1, <1>2 DEF FromTheFirst
<1>6. \A k \in 1 .. m : place[k] = k
  BY <1>3, <1>5, PlacesFromTheFirst
<1>7. CASE i \in 1 .. m
  <2>1. Behind(option, i) = {i}
    BY <1>2, <1>6, <1>7
  <2> QED
    BY <1>1, <1>4, <1>7, <2>1 DEF Positional
<1>8. CASE i \notin 1 .. m
  <2>1. Behind(option, i) = {}
    BY <1>2, <1>6, <1>8
  <2> QED
    BY <1>1, <1>4, <1>8, <2>1 DEF Positional
<1> QED
  BY <1>7, <1>8

\* Where the last --run have dependencies, each gets its own.
LEMMA DependenciesAreOwn ==
  ASSUME LineOK(line), OnceEach("dependsOn"), ToTheLast("dependsOn"),
         NEW i \in DOMAIN line.runs
  PROVE  Dependencies(line, i) = OwnDependencies(i)
<1> DEFINE list  == line.options["dependsOn"]
           place == Place("dependsOn")
           m     == Len(list)
           n     == Len(line.runs)
           texts == Collected(line, "dependsOn")
           at    == i - (n - m)
<1>0. "dependsOn" \in Option
  BY DEF Option
<1>1. /\ n \in Nat /\ DOMAIN line.runs = 1 .. n /\ m \in Nat /\ DOMAIN list = 1 .. m
      /\ DOMAIN texts = 1 .. m /\ Len(texts) = m
      /\ \A k \in 1 .. m : texts[k] = list[k].text
  BY <1>0, CollectedIs
<1>2. \A h : Behind("dependsOn", h) = {k \in 1 .. m : place[k] = h}
  BY <1>1 DEF Behind, Place
<1>3. Places(place, m, n)
  BY <1>0, PlacesOnceEach
<1>4. OwnDependencies(i) = IF Behind("dependsOn", i) = {} THEN <<>>
                           ELSE list[CHOOSE k \in Behind("dependsOn", i) : TRUE].text
  BY DEF OwnDependencies, Own
<1>5. Dependencies(line, i) = LET k == i - (n - Len(texts))
                              IN  IF k \in DOMAIN texts THEN texts[k] ELSE <<>>
  BY DEF Dependencies
<1> HIDE DEF list, place, m, n, texts
<1>6. Dependencies(line, i) = IF at \in 1 .. m THEN texts[at] ELSE <<>>
  BY <1>1, <1>5
<1>7. \A g, h \in 1 .. n :
        g < h /\ (\E k \in 1 .. m : place[k] = g) => \E k \in 1 .. m : place[k] = h
  <2>1. \A h : (\E k \in 1 .. m : place[k] = h) <=> Behind("dependsOn", h) # {}
    BY <1>2
  <2>2. \A g, h \in 1 .. n :
          g < h /\ Behind("dependsOn", g) # {} => Behind("dependsOn", h) # {}
    BY <1>1 DEF ToTheLast
  <2> QED
    BY <2>1, <2>2
<1>8. \A k \in 1 .. m : place[k] = k + (n - m)
  BY <1>3, <1>7, PlacesToTheLast
<1>9. at \in Int /\ \A k \in 1 .. m : place[k] = i <=> k = at
  <2>1. i \in Int /\ n \in Int /\ m \in Int
    BY <1>1
  <2>2. \A k \in 1 .. m : k + (n - m) = i <=> k = i - (n - m)
    BY <2>1
  <2> QED
    BY <1>8, <2>1, <2>2
<1> HIDE DEF at
<1>10. CASE at \in 1 .. m
  <2>1. Behind("dependsOn", i) = {at}
    BY <1>2, <1>9, <1>10
  <2> QED
    BY <1>1, <1>4, <1>6, <1>10, <2>1
<1>11. CASE at \notin 1 .. m
  <2>1. Behind("dependsOn", i) = {}
    BY <1>2, <1>9, <1>11
  <2> QED
    BY <1>4, <1>6, <1>11, <2>1
<1> QED
  BY <1>10, <1>11

LEMMA LineIsOK ==
  ASSUME NEW l, LineOK(l), LineAccepted(l)
  PROVE  ConfigOK(BuildConfig(l))
<1> DEFINE c == BuildConfig(l)
<1>1. /\ c = [processes |-> c.processes, global |-> c.global]
      /\ c.processes = [i \in DOMAIN l.runs |-> BuiltProcess(l, i)]
      /\ c.global = Global(l)
  BY DEF BuildConfig
<1>2. ValuesOK(Global(l), GlobalSetting)
  BY LineGlobal
<1> HIDE DEF c
<1>3. DOMAIN c.processes = DOMAIN l.runs /\ IsSequence(l.runs)
  BY <1>1 DEF LineOK
<1>4. c.processes = [i \in DOMAIN l.runs |-> c.processes[i]]
  BY <1>1
<1>5. IsSequence(c.processes)
  BY <1>3, <1>4, SequenceOver
<1>6. ASSUME NEW i \in DOMAIN l.runs
      PROVE  ProcessOK(c.processes[i])
  <2> DEFINE p        == c.processes[i]
             interval == Said(Positional(l, "healthInterval", i))
             default  == Inherited(Global(l))
  <2>1. p = BuiltProcess(l, i)
    BY <1>1
  <2>2. p.settings = [s \in ProcessSetting |->
                        IF s = "healthInterval" /\ interval # Absent
                        THEN interval ELSE default[s]]
    BY <2>1, LineProcess
  <2>3. p = [name |-> p.name, command |-> p.command, restartPolicy |-> p.restartPolicy,
             dependsOn |-> p.dependsOn, healthCheck |-> p.healthCheck,
             settings |-> p.settings]
    BY <2>1, LineProcess
  <2>4. interval # Absent => ValueOK("healthInterval", interval)
    <3>1. interval # Absent => Parses("healthInterval", interval)
      BY DEF LineAccepted
    <3>2. interval \in NumberText
      <4>1. \A k \in DOMAIN l.options["healthInterval"] :
              l.options["healthInterval"][k].text \in NumberText \cup {Empty}
        BY DEF LineOK
      <4>2. Positional(l, "healthInterval", i) \in NumberText \cup {Empty}
        BY <4>1, PositionalIsGiven DEF NumberText, Option
      <4> QED
        BY <4>2 DEF Said, NumberText
    <3> QED
      BY <3>1, <3>2, TextAssumption DEF Parses, ValueOK, NumberText, IntegerKey
  <2>5. ValuesOK(default, ProcessSetting)
    BY <1>2, InheritedIsOK
  <2> HIDE DEF p, interval, default
  <2>6. ValuesOK(p.settings, ProcessSetting)
    BY <2>2, <2>4, <2>5 DEF ValuesOK
  <2> QED
    BY <2>3, <2>6 DEF ProcessOK, p
<1> QED
  BY <1>1, <1>2, <1>3, <1>4, <1>5, <1>6 DEF ConfigOK, c

-----------------------------------------------------------------------------
(* What Validate accepts.                                                  *)

\* f puts every element of T after those of T it needs.
Orders(f, T, needs) ==
  /\ f \in [T -> 1 .. Cardinality(T)]
  /\ \A i, j \in T :
       /\ f[i] = f[j] => i = j
       /\ <<i, j>> \in needs => f[j] < f[i]

\* An element that needs no other goes first, and the others follow.
LEMMA FirstThenOthers ==
  ASSUME NEW T, IsFiniteSet(T), NEW needs, NEW i \in T,
         \A j \in T : <<i, j>> \notin needs,
         NEW g, Orders(g, T \ {i}, needs)
  PROVE  \E f : Orders(f, T, needs)
<1> DEFINE U == T \ {i}
           f == [j \in T |-> IF j = i THEN 1 ELSE g[j] + 1]
<1>1. Cardinality(T) \in Nat /\ Cardinality(U) = Cardinality(T) - 1
  BY FS_RemoveElement, FS_CardinalityType
<1>2. g \in [U -> 1 .. Cardinality(U)]
  BY DEF Orders
<1>3. \A j \in U : g[j] \in 1 .. Cardinality(U)
  BY <1>2
<1>4. 0 <= Cardinality(U) /\ Cardinality(U) \in Nat
  BY FS_RemoveElement, FS_CardinalityType
<1>5. \A j \in T : f[j] \in 1 .. Cardinality(T)
  BY <1>1, <1>3, <1>4
<1>6. ASSUME NEW j \in T, NEW h \in T
      PROVE  (f[j] = f[h] => j = h) /\ (<<j, h>> \in needs => f[h] < f[j])
  <2>1. CASE j = i
    <3>1. h # i => f[h] > 1
      BY <1>3
    <3> QED
      BY <2>1, <3>1
  <2>2. CASE j # i /\ h = i
    <3>1. f[j] > 1 /\ f[h] = 1
      BY <1>3, <2>2
    <3> QED
      BY <3>1
  <2>3. CASE j # i /\ h # i
    <3>1. j \in U /\ h \in U /\ f[j] = g[j] + 1 /\ f[h] = g[h] + 1
      BY <2>3
    <3>2. (g[j] = g[h] => j = h) /\ (<<j, h>> \in needs => g[h] < g[j])
      BY <3>1 DEF Orders
    <3>3. g[j] \in Int /\ g[h] \in Int
      BY <1>3, <3>1
    <3> HIDE DEF f
    <3> QED
      BY <3>1, <3>2, <3>3
  <2> QED
    BY <2>1, <2>2, <2>3
<1>7. f \in [T -> 1 .. Cardinality(T)]
  BY <1>5
<1> HIDE DEF f
<1> QED
  BY <1>6, <1>7 DEF Orders

\* Where no set needs itself, an order exists.
LEMMA OrderExists ==
  ASSUME NEW S, IsFiniteSet(S), NEW needs,
         \A I \in SUBSET S : I # {} => \E i \in I : \A j \in I : <<i, j>> \notin needs
  PROVE  \E f : Orders(f, S, needs)
<1> DEFINE Without(m) == \E T \in SUBSET S : Cardinality(T) = m /\ ~\E f : Orders(f, T, needs)
           M == {m \in Nat : Without(m)}
<1>1. \A T \in SUBSET S : IsFiniteSet(T) /\ Cardinality(T) \in Nat
  BY FS_Subset, FS_CardinalityType
<1>2. SUFFICES ASSUME M # {} PROVE FALSE
  <2>1. Without(Cardinality(S)) => Cardinality(S) \in M
    BY <1>1
  <2>2. (~\E f : Orders(f, S, needs)) => Without(Cardinality(S))
    OBVIOUS
  <2> QED
    BY <2>1, <2>2
<1>3. PICK m \in M : \A k \in M : m <= k
  <2> HIDE DEF M
  <2>1. M \in SUBSET Nat
    BY DEF M
  <2> QED
    BY <1>2, <2>1, SmallestExists
<1>4. PICK T \in SUBSET S : Cardinality(T) = m /\ ~\E f : Orders(f, T, needs)
  OBVIOUS
<1>5. CASE T = {}
  <2>1. Orders([t \in {} |-> t], {}, needs)
    BY DEF Orders
  <2> QED
    BY <1>4, <1>5, <2>1
<1>6. CASE T # {}
  <2>1. PICK i \in T : \A j \in T : <<i, j>> \notin needs
    BY <1>6
  <2>2. Cardinality(T \ {i}) = m - 1 /\ Cardinality(T \ {i}) \in Nat
    <3>1. IsFiniteSet(T) /\ IsFiniteSet(T \ {i})
      BY <1>1
    <3> QED
      BY <1>4, <3>1, FS_RemoveElement, FS_CardinalityType
  <2>3. ~Without(m - 1)
    <3>1. m - 1 \in Nat /\ m \in Nat
      BY <2>2
    <3>2. m - 1 \notin M
      BY <1>3, <3>1
    <3> QED
      BY <3>1, <3>2
  <2>4. PICK g : Orders(g, T \ {i}, needs)
    BY <2>2, <2>3
  <2>5. IsFiniteSet(T)
    BY <1>1
  <2>6. \E f : Orders(f, T, needs)
    BY <2>1, <2>4, <2>5, FirstThenOthers
  <2> QED
    BY <1>4, <2>6
<1> QED
  BY <1>5, <1>6

LEMMA ValidIsStartable ==
  ASSUME ConfigOK(config), Validate(config)
  PROVE  Startable
<1> DEFINE n == Len(config.processes)
           needs == {p \in Processes \X Processes :
                       Name(config, p[2]) \in Needs(config, p[1])}
<1>1. n \in Nat /\ Processes = 1 .. n
  BY DEF ConfigOK, IsSequence, Processes
<1>2. IsFiniteSet(Processes) /\ Cardinality(Processes) = n
  BY <1>1, FS_Interval
<1>3. ASSUME NEW I \in SUBSET Processes, I # {}
      PROVE  \E i \in I : \A j \in I : <<i, j>> \notin needs
  <2>1. PICK i \in I : \A j \in I : Name(config, j) \notin Needs(config, i)
    BY <1>3 DEF Validate, CircularDependency, Processes
  <2> QED
    BY <2>1
<1>4. PICK f : Orders(f, Processes, needs)
  <2> HIDE DEF needs
  <2> QED
    BY <1>2, <1>3, OrderExists
<1>5. f \in [Processes -> Processes]
  BY <1>1, <1>2, <1>4 DEF Orders
<1>6. ASSUME NEW i \in Processes, NEW j \in Processes
      PROVE  /\ f[i] = f[j] => i = j
             /\ Name(config, j) \in Needs(config, i) => f[j] < f[i]
  BY <1>4 DEF Orders
<1> QED
  BY <1>5, <1>6 DEF Startable

LEMMA ValidIsRunnable ==
  ASSUME ConfigOK(config), Validate(config)
  PROVE  AcceptedIsRunnable
<1> DEFINE n == Len(config.processes)
           N == {Name(config, i) : i \in Processes}
           f == [i \in Processes |-> Name(config, i)]
<1>1. n \in Nat /\ Processes = 1 .. n
  BY DEF ConfigOK, IsSequence, Processes
<1>2. Processes # {}
  <2>1. CASE DOMAIN config.processes = {}
    <3>1. config.processes = <<>>
      BY <2>1 DEF ConfigOK
    <3> QED
      BY <3>1 DEF Validate
  <2> QED
    BY <2>1 DEF Processes
<1>3. Cardinality(N) = n
  <2>1. \A i, j \in Processes : Name(config, i) = Name(config, j) => i = j
    BY DEF Validate, DuplicateNames, Processes
  <2>2. f \in Bijection(Processes, N)
    BY <2>1 DEF Bijection, Injection, Surjection, IsInjective
  <2>3. ExistsBijection(Processes, N)
    BY <2>2 DEF ExistsBijection
  <2>4. IsFiniteSet(Processes) /\ Cardinality(Processes) = n
    BY <1>1, FS_Interval
  <2> QED
    BY <2>3, <2>4, FS_Bijection
<1>4. \A i \in Processes : Needs(config, i) \subseteq N
  BY DEF Validate, UndefinedDependency, Processes
<1> QED
  BY <1>2, <1>3, <1>4, ValidIsStartable DEF AcceptedIsRunnable

-----------------------------------------------------------------------------
(* Saving and loading.                                                     *)

\* Validate looks at names, commands, policies and dependencies.
LEMMA ValidateSame ==
  ASSUME NEW c, NEW d, Validate(c),
         d.processes # <<>>,
         DOMAIN d.processes = DOMAIN c.processes,
         d.global.logFormat = c.global.logFormat, d.global.logLevel = c.global.logLevel,
         \A i \in DOMAIN c.processes :
           /\ d.processes[i].name = c.processes[i].name
           /\ d.processes[i].command = c.processes[i].command
           /\ d.processes[i].restartPolicy = c.processes[i].restartPolicy
           /\ d.processes[i].dependsOn = c.processes[i].dependsOn
  PROVE  Validate(d)
<1> DEFINE P == DOMAIN c.processes
<1>1. \A i \in P : Name(d, i) = Name(c, i) /\ Needs(d, i) = Needs(c, i)
  BY DEF Name, Needs
<1>2. ~DuplicateNames(d)
  BY <1>1 DEF Validate, DuplicateNames
<1>3. ~CircularDependency(d)
  BY <1>1 DEF Validate, CircularDependency
<1>4. \A i \in P : /\ Name(d, i) # "" /\ d.processes[i].command # ""
                   /\ d.processes[i].restartPolicy \in RestartPolicy
  BY <1>1 DEF Validate
<1>5. ~UndefinedDependency(d)
  <2> SUFFICES ASSUME NEW i \in P, NEW n \in Needs(d, i)
               PROVE  \E j \in P : Name(d, j) = n
    BY DEF UndefinedDependency
  <2>1. PICK j \in P : Name(c, j) = n
    BY <1>1 DEF Validate, UndefinedDependency
  <2> QED
    BY <1>1, <2>1
<1> QED
  BY <1>2, <1>3, <1>4, <1>5 DEF Validate

LEMMA NotEmptySequence ==
  ASSUME NEW c, ConfigOK(c), Validate(c)
  PROVE  DOMAIN c.processes # {}
<1>1. ASSUME DOMAIN c.processes = {}
      PROVE  c.processes = <<>>
  BY <1>1 DEF ConfigOK
<1> QED
  BY <1>1 DEF Validate

\* A policy that Validate accepts is written and read as it is.
LEMMA PolicyComesBack ==
  ASSUME NEW policy \in RestartPolicy, NEW default
  PROVE  /\ KeyAccepted("restartPolicy", policy)
         /\ Setting("restartPolicy", policy, default) = policy
BY TextAssumption DEF KeyAccepted, Setting, Given, Parses, Parsed, IntegerKey

\* What a saved file says.
SavedAs(yp, p) ==
  /\ yp.name = p.name /\ yp.command = p.command
  /\ yp.restartPolicy = p.restartPolicy /\ yp.dependsOn = p.dependsOn
  /\ yp.healthCheck = p.healthCheck
  /\ yp.settings = [s \in ProcessSetting |-> Text(s, p.settings[s])]

LEMMA SavedFields ==
  ASSUME NEW c, ConfigOK(c), NEW f, f = FromConfig(c)
  PROVE  /\ f.global = [s \in GlobalSetting |-> Text(s, c.global[s])]
         /\ DOMAIN f.processes = DOMAIN c.processes
         /\ \A i \in DOMAIN c.processes : SavedAs(f.processes[i], c.processes[i])
<1>1. /\ f.global = [s \in GlobalSetting |-> Text(s, c.global[s])]
      /\ f.processes = [i \in DOMAIN c.processes |->
           [c.processes[i] EXCEPT
              !.settings = [s \in ProcessSetting |-> Text(s, @[s])]]]
  BY DEF FromConfig
<1>2. ASSUME NEW i \in DOMAIN c.processes
      PROVE  SavedAs(f.processes[i], c.processes[i])
  <2> DEFINE p == c.processes[i]
             S == [s \in ProcessSetting |-> Text(s, p.settings[s])]
  <2>1. f.processes[i] = [p EXCEPT !.settings = S]
    BY <1>1
  <2>2. p = [name |-> p.name, command |-> p.command, restartPolicy |-> p.restartPolicy,
             dependsOn |-> p.dependsOn, healthCheck |-> p.healthCheck, settings |-> p.settings]
    BY DEF ConfigOK, ProcessOK
  <2> HIDE DEF p, S
  <2>3. /\ f.processes[i].name = p.name /\ f.processes[i].command = p.command
        /\ f.processes[i].restartPolicy = p.restartPolicy
        /\ f.processes[i].dependsOn = p.dependsOn
        /\ f.processes[i].healthCheck = p.healthCheck
        /\ f.processes[i].settings = S
    BY <2>1, <2>2
  <2> QED
    BY <2>3 DEF p, S, SavedAs
<1> QED
  BY <1>1, <1>2

LEMMA SavedIsAccepted ==
  ASSUME NEW c, ConfigOK(c), Validate(c), NEW f, f = FromConfig(c)
  PROVE  FileAccepted(f)
<1>1. \A s \in GlobalSetting : KeyAccepted(s, f.global[s])
  <2>1. f.global = [s \in GlobalSetting |-> Text(s, c.global[s])]
    BY SavedFields
  <2>2. \A s \in GlobalSetting : ValueOK(s, c.global[s])
    BY DEF ConfigOK, ValuesOK
  <2> QED
    BY <2>1, <2>2, ValueComesBack
<1>2. ASSUME NEW i \in DOMAIN f.processes
      PROVE  LET yp == f.processes[i]
             IN  /\ yp.name # "" /\ yp.command # ""
                 /\ KeyAccepted("restartPolicy", yp.restartPolicy)
                 /\ \A s \in ProcessSetting : KeyAccepted(s, yp.settings[s])
  <2> DEFINE p  == c.processes[i]
             yp == f.processes[i]
  <2>1. /\ i \in DOMAIN c.processes
        /\ yp.name = p.name /\ yp.command = p.command /\ yp.restartPolicy = p.restartPolicy
        /\ yp.settings = [s \in ProcessSetting |-> Text(s, p.settings[s])]
    <3>1. i \in DOMAIN c.processes
      BY SavedFields
    <3>2. SavedAs(yp, p)
      BY <3>1, SavedFields
    <3> QED
      BY <3>1, <3>2 DEF SavedAs
  <2>2. p.name # "" /\ p.command # "" /\ p.restartPolicy \in RestartPolicy
    BY <2>1 DEF Validate, Name
  <2>3. \A s \in ProcessSetting : s \in GlobalSetting /\ ValueOK(s, p.settings[s])
    BY <2>1 DEF ConfigOK, ProcessOK, ValuesOK, GlobalSetting
  <2> HIDE DEF p, yp
  <2>4. \A s \in ProcessSetting : KeyAccepted(s, yp.settings[s])
    BY <2>1, <2>3, ValueComesBack
  <2>5. KeyAccepted("restartPolicy", yp.restartPolicy)
    BY <2>1, <2>2, PolicyComesBack
  <2> QED
    BY <2>1, <2>2, <2>4, <2>5 DEF yp
<1> QED
  BY <1>1, <1>2 DEF FileAccepted

LEMMA GlobalComesBack ==
  ASSUME ConfigOK(config), NEW f, f = FromConfig(config)
  PROVE  ToConfig(f).global = [config.global EXCEPT !.startRetries = GlobalRetries]
<1> DEFINE g == config.global
           h == ToConfig(f).global
           d == NewConfig.global
<1>1. h = [s \in GlobalSetting |-> Setting(s, f.global[s], d[s])]
  BY DEF ToConfig
<1>2. \A s \in GlobalSetting : f.global[s] = Text(s, g[s]) /\ ValueOK(s, g[s])
  <2>1. f.global = [s \in GlobalSetting |-> Text(s, g[s])]
    BY SavedFields
  <2>2. \A s \in GlobalSetting : ValueOK(s, g[s])
    BY DEF ConfigOK, ValuesOK
  <2> QED
    BY <2>1, <2>2
<1>3. d.startRetries = 3 /\ d.httpPort = 0 /\ d.logDir = Absent
  BY DEF NewConfig
<1>4. g = [s \in GlobalSetting |-> g[s]] /\ "startRetries" \in GlobalSetting
  BY DEF ConfigOK, ValuesOK, GlobalSetting, ProcessSetting
<1>5. GlobalRetries = IF g["startRetries"] = 0 THEN d["startRetries"] ELSE g["startRetries"]
  BY DEF GlobalRetries
<1> HIDE DEF g, h, d
<1>6. \A s \in GlobalSetting : h[s] = IF LeftOut(s, g[s]) THEN d[s] ELSE g[s]
  BY <1>1, <1>2, ValueComesBack
<1>7. ASSUME NEW s \in GlobalSetting
      PROVE  h[s] = IF s = "startRetries" THEN GlobalRetries ELSE g[s]
  <2>1. CASE s = "startRetries"
    BY <1>5, <1>6, <2>1 DEF LeftOut, IntegerKey
  <2>2. CASE s # "startRetries" /\ LeftOut(s, g[s])
    BY <1>3, <1>6, <2>2 DEF LeftOut, IntegerKey
  <2>3. CASE s # "startRetries" /\ ~LeftOut(s, g[s])
    BY <1>6, <2>3
  <2> QED
    BY <2>1, <2>2, <2>3
<1>8. h = [g EXCEPT !.startRetries = GlobalRetries]
  BY <1>1, <1>4, <1>7
<1> QED
  BY <1>8 DEF g, h

LEMMA ProcessComesBack ==
  ASSUME ConfigOK(config), Validate(config), NEW f, f = FromConfig(config),
         NEW i \in Processes
  PROVE  ToConfig(f).processes[i]
           = [config.processes[i] EXCEPT !.settings = RetriesKept(@)]
<1> DEFINE p  == config.processes[i]
           yp == f.processes[i]
           g  == ToConfig(f).global
           q  == ToConfig(f).processes[i]
           inherited == Inherited(g)
<1>1. /\ DOMAIN f.processes = Processes
      /\ yp.name = p.name /\ yp.command = p.command
      /\ yp.restartPolicy = p.restartPolicy /\ yp.dependsOn = p.dependsOn
      /\ yp.healthCheck = p.healthCheck
      /\ yp.settings = [s \in ProcessSetting |-> Text(s, p.settings[s])]
  <2>1. DOMAIN f.processes = Processes
    BY SavedFields DEF Processes
  <2>2. SavedAs(yp, p)
    BY SavedFields DEF Processes
  <2> QED
    BY <2>1, <2>2 DEF SavedAs
<1>2. q = ToProcessConfig(g, yp)
  BY <1>1 DEF ToConfig
<1>3. inherited["startRetries"] = GlobalRetries
  <2>1. "startRetries" \in GlobalSetting /\ "startRetries" \in ProcessSetting
    BY DEF GlobalSetting, ProcessSetting
  <2>2. config.global = [s \in GlobalSetting |-> config.global[s]]
    BY DEF ConfigOK, ValuesOK
  <2>3. g["startRetries"] = GlobalRetries
    BY <2>1, <2>2, GlobalComesBack
  <2> QED
    BY <2>1, <2>3 DEF Inherited
<1>4. /\ p = [name |-> p.name, command |-> p.command, restartPolicy |-> p.restartPolicy,
              dependsOn |-> p.dependsOn, healthCheck |-> p.healthCheck,
              settings |-> p.settings]
      /\ p.settings = [s \in ProcessSetting |-> p.settings[s]]
      /\ \A s \in ProcessSetting : s \in GlobalSetting /\ ValueOK(s, p.settings[s])
  BY DEF ConfigOK, ProcessOK, ValuesOK, GlobalSetting, Processes
<1>5. p.restartPolicy \in RestartPolicy
  BY DEF Validate, Processes
<1>6. q = [name |-> yp.name, command |-> yp.command,
           restartPolicy |-> Setting("restartPolicy", yp.restartPolicy, "always"),
           dependsOn |-> yp.dependsOn, healthCheck |-> yp.healthCheck,
           settings |-> [s \in ProcessSetting |->
                           Setting(s, yp.settings[s], inherited[s])]]
  BY <1>2, FileProcess
<1> HIDE DEF p, yp, g, q, inherited
<1>7. Setting("restartPolicy", yp.restartPolicy, "always") = p.restartPolicy
  BY <1>1, <1>5, PolicyComesBack
<1>8. ASSUME NEW s \in ProcessSetting
      PROVE  Setting(s, yp.settings[s], inherited[s]) = RetriesKept(p.settings)[s]
  <2> DEFINE v == p.settings[s]
  <2>1. Setting(s, yp.settings[s], inherited[s])
          = IF LeftOut(s, v) THEN inherited[s] ELSE v
    BY <1>1, <1>4, ValueComesBack
  <2>2. RetriesKept(p.settings)[s]
          = IF s = "startRetries" /\ v = 0 THEN GlobalRetries ELSE v
    BY <1>4 DEF RetriesKept
  <2>3. LeftOut(s, v) <=> s = "startRetries" /\ v = 0
    BY DEF LeftOut, IntegerKey, ProcessSetting
  <2> HIDE DEF v
  <2> QED
    BY <1>3, <2>1, <2>2, <2>3
<1>9. [s \in ProcessSetting |-> Setting(s, yp.settings[s], inherited[s])]
        = RetriesKept(p.settings)
  <2>1. RetriesKept(p.settings) = [s \in ProcessSetting |-> RetriesKept(p.settings)[s]]
    BY <1>4 DEF RetriesKept
  <2> QED
    BY <1>8, <2>1
<1>10. q = [name |-> p.name, command |-> p.command, restartPolicy |-> p.restartPolicy,
            dependsOn |-> p.dependsOn, healthCheck |-> p.healthCheck,
            settings |-> RetriesKept(p.settings)]
  BY <1>1, <1>6, <1>7, <1>9
<1>11. q = [p EXCEPT !.settings = RetriesKept(p.settings)]
  BY <1>4, <1>10
<1> QED
  BY <1>11 DEF p, q

LEMMA SavedComesBack ==
  ASSUME ConfigOK(config), Validate(config), NEW f, f = FromConfig(config)
  PROVE  /\ Validate(ToConfig(f))
         /\ ToConfig(f) =
              [global |-> [config.global EXCEPT !.startRetries = GlobalRetries],
               processes |-> [i \in Processes |->
                 [config.processes[i] EXCEPT !.settings = RetriesKept(@)]]]
<1> DEFINE c == ToConfig(f)
           kept == [i \in Processes |->
                      [config.processes[i] EXCEPT !.settings = RetriesKept(@)]]
<1>1. DOMAIN f.processes = Processes
  BY SavedFields DEF Processes
<1>2. /\ c = [processes |-> c.processes, global |-> c.global]
      /\ c.processes = [i \in Processes |-> c.processes[i]]
  BY <1>1 DEF ToConfig
<1>3. c.processes = kept
  BY <1>2, ProcessComesBack
<1>4. c.global = [config.global EXCEPT !.startRetries = GlobalRetries]
  BY GlobalComesBack
<1>5. \A i \in Processes :
        /\ kept[i].name = config.processes[i].name
        /\ kept[i].command = config.processes[i].command
        /\ kept[i].restartPolicy = config.processes[i].restartPolicy
        /\ kept[i].dependsOn = config.processes[i].dependsOn
  <2> SUFFICES ASSUME NEW i \in Processes
               PROVE  LET p == config.processes[i]
                          q == [p EXCEPT !.settings = RetriesKept(@)]
                      IN  /\ q.name = p.name /\ q.command = p.command
                          /\ q.restartPolicy = p.restartPolicy /\ q.dependsOn = p.dependsOn
    OBVIOUS
  <2> DEFINE p == config.processes[i]
  <2>1. p = [name |-> p.name, command |-> p.command, restartPolicy |-> p.restartPolicy,
             dependsOn |-> p.dependsOn, healthCheck |-> p.healthCheck,
             settings |-> p.settings]
    BY DEF ConfigOK, ProcessOK, Processes
  <2> HIDE DEF p
  <2>2. LET q == [p EXCEPT !.settings = RetriesKept(@)]
        IN  /\ q.name = p.name /\ q.command = p.command
            /\ q.restartPolicy = p.restartPolicy /\ q.dependsOn = p.dependsOn
    BY <2>1
  <2> QED
    BY <2>2 DEF p
<1>6. /\ c.global.logFormat = config.global.logFormat
      /\ c.global.logLevel = config.global.logLevel
  BY <1>4 DEF ConfigOK, ValuesOK, GlobalSetting
<1>7. DOMAIN c.processes = Processes /\ Processes # {}
  BY <1>2, NotEmptySequence DEF Processes
<1>8. c.processes # <<>>
  <2> HIDE DEF c
  <2> QED
    BY <1>7
<1> HIDE DEF c, kept
<1>9. Validate(c)
  BY <1>3, <1>5, <1>6, <1>7, <1>8, ValidateSame DEF Processes
<1>10. c = [global |-> [config.global EXCEPT !.startRetries = GlobalRetries],
            processes |-> kept]
  BY <1>2, <1>3, <1>4
<1> QED
  BY <1>9, <1>10 DEF c, kept

-----------------------------------------------------------------------------
(* The command line and the YAML file that says the same.                  *)

\* The process that the options after one --run describe.
OwnProcess(i) ==
  LET policy   == Own("restartPolicy", i)
      interval == Said(Own("healthInterval", i))
  IN  [name |-> OwnName(i), command |-> line.runs[i],
       restartPolicy |-> IF policy = Absent THEN "always" ELSE policy,
       dependsOn |-> OwnDependencies(i),
       healthCheck |-> Said(Own("healthCheck", i)),
       settings |-> [s \in ProcessSetting |->
                       IF s = "healthInterval" /\ interval # Absent
                       THEN interval ELSE Inherited(Global(line))[s]]]

LEMMA BuiltIsOwn ==
  ASSUME LineOK(line), Positioned, NEW i \in DOMAIN line.runs
  PROVE  /\ BuiltProcess(line, i) = OwnProcess(i)
         /\ \A option \in {"restartPolicy", "healthInterval"} :
              Positional(line, option, i) = Own(option, i)
<1>1. \A option \in {"name", "restartPolicy", "healthCheck", "healthInterval"} :
        Positional(line, option, i) = Own(option, i)
  BY PositionalIsOwn DEF Positioned, Option
<1>2. Dependencies(line, i) = OwnDependencies(i)
  BY DependenciesAreOwn DEF Positioned, Option
<1>3. ProcessName(line, i) = OwnName(i)
  BY <1>1 DEF ProcessName, OwnName
<1>4. BuiltProcess(line, i) = OwnProcess(i)
  BY <1>1, <1>2, <1>3, LineProcess DEF OwnProcess
<1> QED
  BY <1>1, <1>4

\* The state of main after it has built a configuration from the flags.
FromFlags ==
  LineOK(line) /\ LineAccepted(line) /\ config = BuildConfig(line)

LEMMA OptionsAreOwn ==
  ASSUME FromFlags, Positioned, NEW i \in Processes
  PROVE  i \in DOMAIN line.runs /\ config.processes[i] = OwnProcess(i)
<1>1. config.processes = [j \in DOMAIN line.runs |-> BuiltProcess(line, j)]
  BY DEF FromFlags, BuildConfig
<1>2. i \in DOMAIN line.runs
  BY <1>1 DEF Processes
<1> QED
  BY <1>1, <1>2, BuiltIsOwn DEF FromFlags

LEMMA OptionsFollow ==
  ASSUME FromFlags
  PROVE  OptionsFollowTheirRun
<1> SUFFICES ASSUME Positioned, NEW i \in Processes
             PROVE  LET p == config.processes[i]
                    IN  /\ p.command = line.runs[i]
                        /\ p.name = OwnName(i)
                        /\ Own("restartPolicy", i) \in {Absent, p.restartPolicy}
                        /\ p.dependsOn = OwnDependencies(i)
                        /\ p.healthCheck = Said(Own("healthCheck", i))
                        /\ Said(Own("healthInterval", i))
                             \in {Absent, p.settings.healthInterval}
  BY DEF OptionsFollowTheirRun
<1>1. config.processes[i] = OwnProcess(i)
  BY OptionsAreOwn
<1>2. "healthInterval" \in ProcessSetting
  BY DEF ProcessSetting
<1> QED
  BY <1>1, <1>2 DEF OwnProcess

\* Both sources have the same defaults.
LEMMA DefaultsAgree ==
  ASSUME NEW s \in GlobalSetting
  PROVE  Parsed(s, FlagDefault[s]) = NewConfig.global[s]
BY TextAssumption, SettingNames DEF Parsed, FlagDefault, NewConfig

LEMMA GlobalsAgree ==
  ASSUME FromFlags, RetriesAllowed, NEW s \in GlobalSetting
  PROVE  /\ KeyAccepted(s, line.flags[s])
         /\ Setting(s, line.flags[s], NewConfig.global[s]) = Global(line)[s]
<1> DEFINE text == line.flags[s]
           v    == Global(line)[s]
<1>1. v = Parsed(s, Flag(line, s)) /\ FlagAccepted(line, s)
  BY DEF FromFlags, LineAccepted, Global
<1>2. CASE text = Absent
  <2>1. v = NewConfig.global[s]
    BY <1>1, <1>2, DefaultsAgree DEF Flag
  <2> QED
    BY <1>2, <2>1 DEF KeyAccepted, Setting, Given
<1>3. CASE text # Absent
  <2>1. Flag(line, s) = text
    BY <1>3 DEF Flag
  <2>2. Parses(s, text) /\ v = Parsed(s, text)
    BY <1>1, <2>1 DEF FlagAccepted
  <2>3. CASE Given(s, text)
    BY <2>2, <2>3 DEF KeyAccepted, Setting
  <2>4. CASE ~Given(s, text)
    <3>1. s \in IntegerKey /\ ~(text > 0)
      BY <1>3, <2>4 DEF Given
    <3>2. v = text
      BY <2>2, <3>1 DEF Parsed, IntegerKey
    <3>3. s # "startRetries"
      <4>1. config.global = Global(line)
        BY DEF FromFlags, BuildConfig
      <4>2. s = "startRetries" => text > 0
        BY <3>2, <4>1 DEF RetriesAllowed
      <4> QED
        BY <3>1, <4>2
    <3>4. s = "httpPort" /\ text \in 0 .. MaxPort
      BY <1>1, <2>1, <3>1, <3>3 DEF FlagAccepted, IntegerKey
    <3>5. \A port \in 0 .. MaxPort : port > 0 \/ port = 0
      OBVIOUS
    <3>6. v = NewConfig.global[s]
      BY <3>1, <3>2, <3>4, <3>5 DEF NewConfig
    <3> QED
      BY <2>2, <2>4, <3>6 DEF KeyAccepted, Setting
  <2> QED
    BY <2>3, <2>4
<1> QED
  BY <1>2, <1>3

\* What is written down for the process of the i-th --run.
WrittenAs(i, yp) ==
  /\ yp.name = OwnName(i)
  /\ yp.command = line.runs[i]
  /\ yp.restartPolicy = Own("restartPolicy", i)
  /\ yp.dependsOn = OwnDependencies(i)
  /\ yp.healthCheck = Said(Own("healthCheck", i))
  /\ yp.settings = [s \in ProcessSetting |->
       IF s # "healthInterval" THEN Absent
       ELSE IF Spaced(i) THEN Malformed ELSE Said(Own("healthInterval", i))]

LEMMA WrittenFields ==
  /\ Written.global = line.flags
  /\ DOMAIN Written.processes = DOMAIN line.runs
  /\ \A i \in DOMAIN line.runs : WrittenAs(i, Written.processes[i])
BY DEF Written, WrittenAs

LEMMA WrittenProcess ==
  ASSUME FromFlags, Validate(config), Positioned, NEW i \in DOMAIN line.runs, ~Spaced(i)
  PROVE  LET yp == Written.processes[i]
         IN  /\ yp.name # "" /\ yp.command # ""
             /\ KeyAccepted("restartPolicy", yp.restartPolicy)
             /\ \A s \in ProcessSetting : KeyAccepted(s, yp.settings[s])
             /\ ToProcessConfig(Global(line), yp) = config.processes[i]
<1> DEFINE yp       == Written.processes[i]
           p        == config.processes[i]
           said     == Own("restartPolicy", i)
           interval == Said(Own("healthInterval", i))
           default  == Inherited(Global(line))
           policy   == IF said = Absent THEN "always" ELSE said
<1>1. i \in Processes
  BY DEF FromFlags, BuildConfig, Processes
<1>2. p = OwnProcess(i)
  BY <1>1, OptionsAreOwn
<1>3. p.name = OwnName(i) /\ p.command = line.runs[i] /\ p.restartPolicy = policy
  BY <1>2 DEF OwnProcess
<1>4. p.name # "" /\ p.command # "" /\ policy \in RestartPolicy
  <2>1. p.name # "" /\ p.command # "" /\ p.restartPolicy \in RestartPolicy
    BY <1>1 DEF Validate, Name, Processes
  <2> QED
    BY <1>3, <2>1
<1>5. interval # Absent => Parses("healthInterval", interval)
  <2>1. Positional(line, "healthInterval", i) = Own("healthInterval", i)
    BY BuiltIsOwn DEF FromFlags
  <2> QED
    BY <2>1 DEF FromFlags, LineAccepted
<1>6. /\ yp.name = OwnName(i)
      /\ yp.command = line.runs[i]
      /\ yp.restartPolicy = said
      /\ yp.dependsOn = OwnDependencies(i)
      /\ yp.healthCheck = Said(Own("healthCheck", i))
      /\ yp.settings = [s \in ProcessSetting |->
           IF s = "healthInterval" THEN interval ELSE Absent]
  BY WrittenFields DEF WrittenAs
<1>7. ToProcessConfig(Global(line), yp)
        = [name |-> yp.name, command |-> yp.command,
           restartPolicy |-> Setting("restartPolicy", yp.restartPolicy, "always"),
           dependsOn |-> yp.dependsOn, healthCheck |-> yp.healthCheck,
           settings |-> [s \in ProcessSetting |-> Setting(s, yp.settings[s], default[s])]]
  BY FileProcess
<1>8. /\ KeyAccepted("restartPolicy", said)
      /\ Setting("restartPolicy", said, "always") = policy
  <2>1. CASE said = Absent
    BY <2>1 DEF KeyAccepted, Setting, Given
  <2>2. CASE said # Absent
    BY <1>4, <2>2, PolicyComesBack
  <2> QED
    BY <2>1, <2>2
<1> HIDE DEF yp, p, default, interval
<1>9. ASSUME NEW s \in ProcessSetting
      PROVE  /\ KeyAccepted(s, yp.settings[s])
             /\ Setting(s, yp.settings[s], default[s])
                  = IF s = "healthInterval" /\ interval # Absent
                    THEN interval ELSE default[s]
  <2>1. CASE s = "healthInterval" /\ interval # Absent
    BY <1>5, <1>6, <2>1 DEF KeyAccepted, Setting, Given, Parsed, IntegerKey
  <2>2. CASE ~(s = "healthInterval" /\ interval # Absent)
    <3>1. yp.settings[s] = Absent
      BY <1>6, <2>2
    <3> QED
      BY <2>2, <3>1 DEF KeyAccepted, Setting, Given
  <2> QED
    BY <2>1, <2>2
<1>10. [s \in ProcessSetting |-> Setting(s, yp.settings[s], default[s])]
         = [s \in ProcessSetting |-> IF s = "healthInterval" /\ interval # Absent
                                     THEN interval ELSE default[s]]
  BY <1>9
<1>11. p = [name |-> OwnName(i), command |-> line.runs[i], restartPolicy |-> policy,
            dependsOn |-> OwnDependencies(i), healthCheck |-> Said(Own("healthCheck", i)),
            settings |-> [s \in ProcessSetting |->
                            IF s = "healthInterval" /\ interval # Absent
                            THEN interval ELSE default[s]]]
  BY <1>2 DEF OwnProcess, interval, default
<1>12. ToProcessConfig(Global(line), yp) = p
  BY <1>6, <1>7, <1>8, <1>10, <1>11
<1>13. yp.name # "" /\ yp.command # "" /\ KeyAccepted("restartPolicy", yp.restartPolicy)
  BY <1>3, <1>4, <1>6, <1>8
<1> QED
  BY <1>9, <1>12, <1>13 DEF yp, p

\* White space around an interval is no part of a duration in the file.
LEMMA SpacedIsRejected ==
  ASSUME FromFlags, NEW i \in Processes, Spaced(i)
  PROVE  ~FileAccepted(Written)
<1>1. i \in DOMAIN line.runs /\ "healthInterval" \in ProcessSetting
  BY DEF FromFlags, BuildConfig, Processes, ProcessSetting
<1>2. Written.processes[i].settings["healthInterval"] = Malformed
  BY <1>1, WrittenFields DEF WrittenAs
<1>3. ~KeyAccepted("healthInterval", Malformed)
  BY TextAssumption DEF KeyAccepted, Parses
<1> QED
  BY <1>1, <1>2, <1>3, WrittenFields DEF FileAccepted

LEMMA WrittenAgrees ==
  ASSUME FromFlags, Validate(config), Positioned, RetriesAllowed,
         \A i \in Processes : ~Spaced(i)
  PROVE  FileAccepted(Written) /\ ToConfig(Written) = config
<1> DEFINE c == ToConfig(Written)
<1>1. /\ Written.global = line.flags
      /\ DOMAIN Written.processes = DOMAIN line.runs
  BY WrittenFields
<1>2. /\ config = [processes |-> [i \in DOMAIN line.runs |-> BuiltProcess(line, i)],
                   global |-> Global(line)]
  BY DEF FromFlags, BuildConfig
<1>0. \A i \in DOMAIN line.runs : ~Spaced(i)
  BY <1>2 DEF Processes
<1>3. FileAccepted(Written)
  <2>1. \A s \in GlobalSetting : KeyAccepted(s, Written.global[s])
    BY <1>1, GlobalsAgree
  <2>2. ASSUME NEW i \in DOMAIN Written.processes
        PROVE  LET yp == Written.processes[i]
               IN  /\ yp.name # "" /\ yp.command # ""
                   /\ KeyAccepted("restartPolicy", yp.restartPolicy)
                   /\ \A s \in ProcessSetting : KeyAccepted(s, yp.settings[s])
    BY <1>0, <1>1, WrittenProcess
  <2> QED
    BY <2>1, <2>2 DEF FileAccepted
<1>4. c.global = Global(line)
  <2>1. c.global = [s \in GlobalSetting |->
                      Setting(s, line.flags[s], NewConfig.global[s])]
    BY <1>1 DEF ToConfig
  <2>2. Global(line) = [s \in GlobalSetting |-> Global(line)[s]]
    BY DEF Global
  <2> QED
    BY <2>1, <2>2, GlobalsAgree
<1>5. c = [processes |-> [i \in DOMAIN line.runs |->
                            ToProcessConfig(c.global, Written.processes[i])],
           global |-> c.global]
  BY <1>1 DEF ToConfig
<1> HIDE DEF c
<1>6. \A i \in DOMAIN line.runs :
        ToProcessConfig(Global(line), Written.processes[i]) = BuiltProcess(line, i)
  BY <1>0, <1>2, WrittenProcess
<1> QED
  BY <1>2, <1>3, <1>4, <1>5, <1>6 DEF c

-----------------------------------------------------------------------------
(* The inductive invariant.                                                *)

\* The configuration is the one the command line or the file describes.
Source ==
  IF line.file = Absent
  THEN LineAccepted(line) /\ config = BuildConfig(line)
  ELSE /\ line.file # Malformed /\ FileAccepted(line.file)
       /\ config = ToConfig(line.file)

StartInv ==
  /\ line \in Lines
  /\ phase \in {"start", "loaded", "rejected", "accepted", "saved"}
  /\ config = NewConfig \/ Source
  /\ phase \in {"loaded", "accepted", "saved"} => Source
  /\ Accepted => Validate(config)
  /\ phase = "saved" => file = FromConfig(config)

LEMMA StartInvariant == Spec => []StartInv
<1>1. Init => StartInv
  BY DEF Init, StartInv, Accepted
<1>2. StartInv /\ [Next]_vars => StartInv'
  <2> SUFFICES ASSUME StartInv, [Next]_vars PROVE StartInv'
    OBVIOUS
  <2>1. CASE LoadsFile
    <3>1. Source'
      BY <2>1 DEF LoadsFile, Source
    <3> QED
      BY <2>1, <3>1 DEF LoadsFile, StartInv, Accepted
  <2>2. CASE BuildsFromFlags
    <3>1. Source'
      BY <2>2 DEF BuildsFromFlags, Source
    <3> QED
      BY <2>2, <3>1 DEF BuildsFromFlags, StartInv, Accepted
  <2>3. CASE Exits
    BY <2>3 DEF Exits, StartInv, Accepted, Source
  <2>4. CASE Validates
    BY <2>4 DEF Validates, StartInv, Accepted, Source
  <2>5. CASE Saves
    BY <2>5 DEF Saves, StartInv, Accepted, Source
  <2>6. CASE UNCHANGED vars
    BY <2>6 DEF vars, StartInv, Accepted, Source
  <2> QED
    BY <2>1, <2>2, <2>3, <2>4, <2>5, <2>6 DEF Next
<1> QED
  BY <1>1, <1>2, PTL DEF Spec

LEMMA SourceFacts ==
  ASSUME StartInv
  PROVE  /\ ConfigOK(config)
         /\ Accepted /\ line.file = Absent => FromFlags
<1>1. LineOK(line) /\ (line.file \in {Absent, Malformed} \/ FileOK(line.file))
  BY LinesAssumption DEF StartInv
<1>2. ASSUME config = NewConfig
      PROVE  ConfigOK(config)
  BY <1>2, NewConfigIsOK
<1>3. ASSUME Source
      PROVE  ConfigOK(config)
  <2>1. CASE line.file = Absent
    BY <1>1, <1>3, <2>1, LineIsOK DEF Source
  <2>2. CASE line.file # Absent
    BY <1>1, <1>3, <2>2, FileIsOK DEF Source
  <2> QED
    BY <2>1, <2>2
<1>4. Accepted /\ line.file = Absent => FromFlags
  BY <1>1 DEF StartInv, Accepted, Source, FromFlags
<1> QED
  BY <1>2, <1>3, <1>4 DEF StartInv

-----------------------------------------------------------------------------
(* The results.                                                            *)

\* Whatever the command line or the file says, the restart logic gets numbers
\* it can count with (manager.go:466-500).
THEOREM StartupTyping == Spec => []TypeOK
<1>1. StartInv => TypeOK
  <2> SUFFICES ASSUME StartInv PROVE TypeOK
    OBVIOUS
  <2>1. ConfigOK(config)
    BY SourceFacts
  <2>2. ASSUME NEW values, NEW settings \in {GlobalSetting, ProcessSetting},
               ValuesOK(values, settings)
        PROVE  SettingsOK(values)
    <3>1. /\ ValueOK("startRetries", values["startRetries"])
          /\ ValueOK("maxRestarts", values["maxRestarts"])
      BY <2>2 DEF ValuesOK, GlobalSetting, ProcessSetting
    <3>2. DOMAIN values = settings
      BY <2>2 DEF ValuesOK
    <3>3. \A s \in DOMAIN values \cap {"healthInterval", "startupTime", "restartDelay",
                                       "shutdownTimeout"} : values[s] \in Int
      BY <2>2, <3>2 DEF ValuesOK, ValueOK
    <3> QED
      BY <3>1, <3>3 DEF SettingsOK, ValueOK, IntegerKey
  <2>3. SettingsOK(config.global)
    BY <2>1, <2>2 DEF ConfigOK
  <2>4. config.global.httpPort \in Nat
    BY <2>1 DEF ConfigOK, ValuesOK, ValueOK, IntegerKey, GlobalSetting
  <2>5. \A i \in DOMAIN config.processes : SettingsOK(config.processes[i].settings)
    BY <2>1, <2>2 DEF ConfigOK, ProcessOK
  <2> QED
    BY <2>3, <2>4, <2>5 DEF TypeOK, StartInv
<1> QED
  BY <1>1, StartInvariant, PTL

\* What Validate accepts names every process once, defines every dependency
\* and can be started in some order (config.go:93-214, manager.go:94-139).
THEOREM ConfigurationsRun == Spec => []AcceptedIsRunnable
<1>1. StartInv => AcceptedIsRunnable
  BY SourceFacts, ValidIsRunnable DEF StartInv, AcceptedIsRunnable
<1> QED
  BY <1>1, StartInvariant, PTL

\* With the options given as Positioned asks, every process gets those written
\* after its --run, however many processes there are (main.go:18-21, 232-277).
THEOREM OptionsReachTheirProcess == Spec => []OptionsFollowTheirRun
<1>1. StartInv => OptionsFollowTheirRun
  BY SourceFacts, OptionsFollow DEF OptionsFollowTheirRun
<1> QED
  BY <1>1, StartInvariant, PTL

\* A command line that is accepted and the YAML file that says the same give
\* the same configuration, or the file is rejected for the white space around
\* an interval (main.go:163-281, yaml_config.go:57-212).
THEOREM SourcesMeanTheSame == Spec => []SourcesAgree
<1>1. StartInv => SourcesAgree
  BY SourceFacts, WrittenAgrees, SpacedIsRejected DEF StartInv, SourcesAgree
<1> QED
  BY <1>1, StartInvariant, PTL

\* Saving an accepted configuration and loading it again changes nothing but
\* start retries of zero (yaml_config.go:57-276).
THEOREM SavedConfigurationsReturn == Spec => []RoundTrip
<1>1. StartInv => RoundTrip
  <2> SUFFICES ASSUME StartInv, phase = "saved" PROVE RoundTrip
    BY DEF RoundTrip
  <2>1. ConfigOK(config) /\ Validate(config) /\ file = FromConfig(config)
    BY SourceFacts DEF StartInv, Accepted
  <2> QED
    BY <2>1, SavedIsAccepted, SavedComesBack DEF RoundTrip
<1> QED
  BY <1>1, StartInvariant, PTL
=============================================================================
