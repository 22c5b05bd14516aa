------------------------------ MODULE MCStartup ------------------------------
(***************************************************************************)
(* Instances of Startup for TLC: command lines of up to three processes    *)
(* with every pattern of options present and absent, every kind of value   *)
(* of every global flag, and files with every kind of value of every key.  *)
(***************************************************************************)
EXTENDS Startup

NoFlags == [s \in GlobalSetting |-> Absent]

\* The texts worth distinguishing.
Texts(s) ==
  CASE s = "logFormat"     -> {"json", "xml"}
    [] s = "logLevel"      -> {"error", "loud"}
    [] s = "restartPolicy" -> {"never", "sometimes"}
    [] s = "logDir"        -> {"logs"}
    [] s = "startRetries"  -> {-1, 0, 7, Malformed}
    [] s = "maxRestarts"   -> {-1, 0, 7, Unlimited, Malformed}
    [] s = "httpPort"      -> {-1, 0, 8080, 65536, Malformed}
    [] OTHER               -> {-5, 0, 5, Malformed}

\* At most one setting differs from what is there by default.
OneOf(settings) ==
  LET nothing == [s \in settings |-> Absent]
  IN  {nothing} \cup UNION {{[nothing EXCEPT ![s] = text] : text \in Texts(s)} : s \in settings}

Once(texts) == {<<>>} \cup {<<t>> : t \in texts}
Interval(t) == [text |-> t, spaced |-> FALSE]
WithSpace(t) == [text |-> t, spaced |-> TRUE]

\* A --run and what stands behind it, for each option the texts in order.
Block(commands, names, policies, lists, checks, intervals) ==
  [command : commands, name : names, restartPolicy : policies, dependsOn : lists,
   healthCheck : checks, healthInterval : intervals]

\* Every pattern of options, and of values some.
FewBlocks ==
  Block({"run"}, Once({"a"}), Once({"never"}),
        Once({<<"process-2", "a">>}), Once({Empty, "probe"}),
        Once({Interval(5), WithSpace(5)}))

\* With names and lists of dependencies that are repeated behind one --run.
ManyBlocks ==
  Block({"run"}, Once({"a", "process-2"}) \cup {<<"a", "b">>}, {<<>>},
        Once({<<"a">>, <<"b", "process-3">>}) \cup {<<<<"a">>, <<"b">>>>}, {<<>>}, {<<>>})

OddBlocks ==
  Block({"run", ""}, {<<"a">>, <<"">>}, Once({"sometimes"}), Once({<<>>}), {<<>>},
        Once({Interval(Empty), WithSpace(Empty), Interval(Malformed)}))

\* What stands before the first --run: one option, or none.
Nothing == [command |-> "none"] @@ [o \in Option |-> <<>>]

Before ==
  {Nothing, [Nothing EXCEPT !.name = <<"b">>], [Nothing EXCEPT !.restartPolicy = <<"never">>],
   [Nothing EXCEPT !.dependsOn = <<<<"b">>>>]}

Occurrence(option, i, t) ==
  IF option = "healthInterval" THEN [after |-> i, text |-> t.text, spaced |-> t.spaced]
  ELSE [after |-> i, text |-> t]

\* Those behind the i-th --run, if there are so many.
Occurrences(option, i, blocks) ==
  IF i \notin DOMAIN blocks THEN <<>>
  ELSE [k \in DOMAIN blocks[i][option] |-> Occurrence(option, i, blocks[i][option][k])]

EarlyOccurrences(option, block) ==
  [k \in DOMAIN block[option] |-> Occurrence(option, 0, block[option][k])]

Line(before, blocks, flags) ==
  [file |-> Absent,
   runs |-> [i \in DOMAIN blocks |-> blocks[i].command],
   options |-> [o \in Option |->
     EarlyOccurrences(o, before) \o Occurrences(o, 1, blocks)
       \o Occurrences(o, 2, blocks) \o Occurrences(o, 3, blocks)],
   flags |-> flags]

SingleLines == {Line(Nothing, <<b>>, f) : b \in FewBlocks, f \in OneOf(GlobalSetting)}

PairLines == {Line(Nothing, <<b, c>>, NoFlags) : b \in FewBlocks, c \in FewBlocks}

EarlyLines ==
  {Line(e, <<b, c>>, NoFlags) : e \in Before, b \in ManyBlocks, c \in ManyBlocks}

TripleLines ==
  {Line(Nothing, <<b, c, d>>, NoFlags) :
     b \in ManyBlocks, c \in ManyBlocks, d \in ManyBlocks}

OddLines ==
  {Line(b, <<>>, NoFlags) : b \in Before}
  \cup {Line(Nothing, <<b>>, NoFlags) : b \in OddBlocks}

CommandLines ==
  PairLines \cup (TripleLines \cup (SingleLines \cup (EarlyLines \cup OddLines)))

YamlProcess(names, commands, policies, lists, settings) ==
  [name : names, command : commands, restartPolicy : policies, dependsOn : lists,
   healthCheck : {Absent}, settings : settings]

NoSettings == [s \in ProcessSetting |-> Absent]

OddProcesses ==
  YamlProcess({"a", ""}, {"run", ""}, {Absent} \cup Texts("restartPolicy"),
              {<<>>, <<"a">>}, {NoSettings})
  \cup YamlProcess({"a"}, {"run"}, {Absent}, {<<>>}, OneOf(ProcessSetting))

PlainProcesses ==
  YamlProcess({"a", "b", "c"}, {"run"}, {Absent}, {<<>>, <<"a">>, <<"b", "c">>},
              {NoSettings})

File(processes, global) == [processes |-> processes, global |-> global]

OddFiles == {File(<<p>>, g) : p \in OddProcesses, g \in OneOf(GlobalSetting)}

PlainFiles ==
  {File(<<p, q, r>>, NoFlags) :
     p \in PlainProcesses, q \in PlainProcesses, r \in PlainProcesses}

Files == OddFiles \cup (PlainFiles \cup {Malformed, File(<<>>, NoFlags)})

Ignored == [Nothing EXCEPT !.command = "other", !.name = <<"a">>]

\* With --config the options, here those of a valid command line, are ignored.
FileLines ==
  {[Line(Nothing, <<Ignored>>, NoFlags) EXCEPT !.file = f] : f \in Files}

AllLines == CommandLines \cup FileLines
=============================================================================
