----------------------------- MODULE LogRotation -----------------------------
(***************************************************************************)
(* The log file of one process (ProcessLogger in logging.go): writing with *)
(* rotation and retention, and the goroutines of os/exec that copy the two *)
(* output streams of the child through a MultiWriter to the log file and   *)
(* to the supervisor's own stdout and stderr.                              *)
(*                                                                         *)
(* Output is a sequence of chunks, numbered in the order in which the log  *)
(* accepts them; chunk 0 stands for what an earlier run left in the file.  *)
(* Write, rotation included, runs under pl.mu and is one action.  A log    *)
(* directory is configured (without one there is no file).                 *)
(***************************************************************************)
EXTENDS Integers, FiniteSetsExt, Functions

CONSTANTS
  Stream,      \* the output streams of the child
  MaxSize,     \* maxSize: bytes in the file before it is rotated
  MaxBackups,  \* maxBackups: backups kept by a rotation
  Sizes,       \* the lengths of a chunk
  Faults,      \* the operations that may fail
  MaxChunks,   \* bound: how many chunks the log accepts
  MaxSeconds   \* bound: how many seconds pass

\* io.Copy writes at most 32 kB at a time, far less than maxSize.
ASSUME SizesAssumption == MaxSize \in Nat \ {0} /\ Sizes \subseteq 1 .. MaxSize
ASSUME MaxBackupsAssumption == MaxBackups \in Nat
ASSUME FaultsAssumption ==
  Faults \subseteq {"close", "rename", "glob", "stat", "remove", "open", "write", "stdout"}
ASSUME BoundsAssumption == MaxChunks \in Nat /\ MaxSeconds \in Nat

VARIABLES
  log,      \* the ProcessLogger and its files
  now,      \* the current second: a backup is named after it
  closed,   \* CloseAll has been called
  copier,   \* phase of the goroutine copying each stream
  held,     \* the chunk it is about to write to stdout
  printed   \* the chunks written to stdout

vars == <<log, now, closed, copier, held, printed>>

Chunk == 0 .. MaxChunks
Second == 0 .. MaxSeconds

\* The ProcessLogger of the process and what has become of its output.
Logs ==
  [currentFile : {"open", "closed"},        \* pl.currentFile
   currentSize : 0 .. MaxSize,              \* pl.currentSize
   size        : Nat,                       \* bytes in the file
   content     : SUBSET Chunk,              \* chunks in the file
   backups     : UNION {[S -> SUBSET Chunk] : S \in SUBSET Second},
   removed     : SUBSET Chunk,              \* dropped by the retention
   overwritten : SUBSET Chunk,              \* lost by a rename
   accepted    : Chunk,                     \* chunks written so far
   faulted     : SUBSET Faults]             \* what has failed so far

TypeOK ==
  /\ log \in Logs
  /\ now \in Second
  /\ closed \in BOOLEAN
  /\ copier \in [Stream -> {"reading", "logged", "broken"}]
  /\ held \in [Stream -> Chunk]
  /\ printed \subseteq Chunk

\* init: the file is opened for appending and its size looked up.
Init ==
  /\ \E s \in 0 .. MaxSize :
       log = [currentFile |-> "open",
              currentSize |-> s,
              size        |-> s,
              content     |-> IF s = 0 THEN {} ELSE {0},
              backups     |-> [t \in {} |-> {}],
              removed     |-> {},
              overwritten |-> {},
              accepted    |-> 0,
              faulted     |-> {}]
  /\ now = 0
  /\ closed = FALSE
  /\ copier = [s \in Stream |-> "reading"]
  /\ held = [s \in Stream |-> 0]
  /\ printed = {}

-----------------------------------------------------------------------------
(* Each step of Write maps a log to the set of logs it may become.         *)

Failing(l, fault) == [l EXCEPT !.faulted = @ \cup {fault}]
Dead(l, fault) == [Failing(l, fault) EXCEPT !.currentFile = "closed"]

\* Bound: each operation fails at most once, except that Glob may fail always.
CanFail(l, fault) == fault \in Faults \ l.faulted
MayFail(l, fault, outcomes) == IF CanFail(l, fault) THEN outcomes ELSE {}

\* The modification time of a backup orders it like its last chunk.
Age(l, t) == Max(l.backups[t])

\* The n oldest of the backups S.
Oldest(l, S, n) ==
  {t \in S : Cardinality({u \in S : Age(l, u) < Age(l, t)}) < n}

\* Mutant: the newest of the backups S are removed.
WithoutNewest(l, S, n) ==
  LET gone == S \ Oldest(l, S, Cardinality(S) - n)
  IN  [l EXCEPT !.backups = Restrict(@, DOMAIN @ \ gone),
                !.removed = @ \cup UNION {l.backups[t] : t \in gone}]

\* The n oldest of the backups S are removed.
WithoutOldest(l, S, n) ==
  LET gone == Oldest(l, S, n)
  IN  [l EXCEPT !.backups = Restrict(@, DOMAIN @ \ gone),
                !.removed = @ \cup UNION {l.backups[t] : t \in gone}]

\* Mutant: one backup too many is kept.
CleanupOffByOne(l) ==
  {WithoutOldest(l, DOMAIN l.backups, Cardinality(DOMAIN l.backups) - MaxBackups - 1)}

\* cleanupOldBackups: nothing is removed if Glob finds no backups, because the
\* directory cannot be read or the name of the process makes a bad pattern; a
\* backup that cannot be looked up is passed over, and one that cannot be
\* removed ends the cleanup.
Cleanup(l) ==
  LET all == DOMAIN l.backups
      Removals(seen, base) ==
        LET excess == Cardinality(seen) - MaxBackups
        IN  {WithoutOldest(base, seen, excess)} \cup
            MayFail(base, "remove",
              {Failing(WithoutOldest(base, seen, n), "remove") : n \in 0 .. excess - 1})
  IN  IF Cardinality(all) <= MaxBackups
      THEN {l}
      ELSE Removals(all, l) \cup
           {Failing(l, f) : f \in Faults \cap {"glob"}} \cup
           MayFail(l, "stat",
             UNION {Removals(seen, Failing(l, "stat")) : seen \in SUBSET all \ {all}})

\* The file becomes the backup of this second, replacing one of that name.
Renamed(l) ==
  [l EXCEPT !.backups = [t \in DOMAIN @ \cup {now} |-> IF t = now THEN l.content ELSE @[t]],
            !.overwritten = @ \cup (IF now \in DOMAIN l.backups
                                    THEN l.backups[now] ELSE {}),
            !.content = {},
            !.size = 0]

\* Mutants: the new file keeps the old size; a new file is created without
\* renaming the old one; a failed cleanup fails the rotation.
RotateWithoutReset(l) == Cleanup(Renamed(l))

RotateTruncates(l) ==
  {[l EXCEPT !.content = {}, !.size = 0, !.currentSize = 0]}

RotateNeedsCleanup(l) ==
  {IF c.faulted \cap {"glob", "remove"} = {}
   THEN [c EXCEPT !.currentSize = 0]
   ELSE [c EXCEPT !.currentFile = "closed"] : c \in Cleanup(Renamed(l))}

\* rotate: once the file is closed, every error leaves pl.currentFile closed,
\* and closing it again is the error of every later rotation.
Rotate(l) ==
  IF l.currentFile = "closed"
  THEN {l}
  ELSE LET cleaned == Cleanup(Renamed(l))
       IN  {[c EXCEPT !.currentSize = 0] : c \in cleaned} \cup
           MayFail(l, "close", {Dead(l, "close")}) \cup
           MayFail(l, "rename", {Dead(l, "rename")}) \cup
           MayFail(l, "open", {Dead(c, "open") : c \in cleaned})

Rotated(l, k) == IF l.currentSize + k > MaxSize THEN Rotate(l) ELSE {l}

-----------------------------------------------------------------------------
(* The goroutine that copies stream s.                                     *)

CopierGoes(s, phase) == copier' = [copier EXCEPT ![s] = phase]

\* ProcessLogger.Write of k bytes succeeds; MultiWriter turns to stdout.
WriteAccepted(s, k) ==
  /\ copier[s] = "reading"
  /\ log.accepted < MaxChunks
  /\ \E l \in Rotated(log, k) :
       /\ l.currentFile = "open"
       /\ log' = [l EXCEPT !.accepted = @ + 1,
                           !.content = @ \cup {l.accepted + 1},
                           !.size = @ + k,
                           !.currentSize = @ + k]
  /\ held' = [held EXCEPT ![s] = log'.accepted]
  /\ CopierGoes(s, "logged")
  /\ UNCHANGED <<now, closed, printed>>

\* Mutant: MultiWriter writes to stdout although the log has failed.
WriteFailsAndGoesOn(s, k) ==
  /\ copier[s] = "reading"
  /\ \E l \in Rotated(log, k) : l.currentFile = "closed" /\ log' = l
  /\ held' = [held EXCEPT ![s] = log.accepted + 1]
  /\ CopierGoes(s, "logged")
  /\ UNCHANGED <<now, closed, printed>>

\* It fails: the rotation did, the file is closed, or only some of the bytes
\* were written, which pl.currentSize does not count.  The copying ends and
\* so does the pipe: the child cannot write to the stream any more.
WriteFails(s, k) ==
  /\ copier[s] = "reading"
  /\ \E l \in Rotated(log, k) :
       \/ l.currentFile = "closed" /\ log' = l
       \/ /\ l.currentFile = "open"
          /\ CanFail(l, "write")
          /\ \E n \in 0 .. k - 1 :
               log' = [Failing(l, "write") EXCEPT !.size = @ + n]
  /\ CopierGoes(s, "broken")
  /\ UNCHANGED <<now, closed, held, printed>>

\* ProcessWriter.Write, without a lock: between the log and stdout the other
\* stream may overtake.
Mirror(s) ==
  /\ copier[s] = "logged"
  /\ \/ /\ printed' = printed \cup {held[s]}
        /\ CopierGoes(s, "reading")
        /\ UNCHANGED log
     \/ /\ CanFail(log, "stdout")
        /\ log' = Failing(log, "stdout")
        /\ CopierGoes(s, "broken")
        /\ UNCHANGED printed
  /\ UNCHANGED <<now, closed, held>>

\* StartProcess launches the next command: GetProcessLogger returns the same
\* logger, whatever has become of it, and new goroutines copy.
NewCommand ==
  /\ \A s \in Stream : copier[s] # "logged"
  /\ copier' = [s \in Stream |-> "reading"]
  /\ UNCHANGED <<log, now, closed, held, printed>>

\* LogManager.CloseAll, called by StopAll.
CloseAll ==
  /\ ~closed
  /\ closed' = TRUE
  /\ log' = [log EXCEPT !.currentFile = "closed"]
  /\ UNCHANGED <<now, copier, held, printed>>

SecondPasses ==
  /\ now < MaxSeconds
  /\ now' = now + 1
  /\ UNCHANGED <<log, closed, copier, held, printed>>

Next ==
  \/ \E s \in Stream, k \in Sizes : WriteAccepted(s, k) \/ WriteFails(s, k)
  \/ \E s \in Stream : Mirror(s)
  \/ NewCommand
  \/ CloseAll
  \/ SecondPasses

Spec == Init /\ [][Next]_vars

-----------------------------------------------------------------------------
OnDisk == log.content \cup UNION {log.backups[t] : t \in DOMAIN log.backups}

\* What the log has accepted stays on disk until the retention removes it;
\* only a second rotation within one second loses more (logging.go:150-158).
AcceptedIsKept ==
  1 .. log.accepted \subseteq OnDisk \cup log.removed \cup log.overwritten

\* The retention removes the oldest output, never newer output than it keeps,
\* unless a backup could not be looked up (logging.go:196-218).
OldestRemovedFirst ==
  "stat" \in log.faulted \/ \A c \in log.removed, d \in OnDisk : c < d

\* A rotation leaves no more than maxBackups backups, also if an earlier one
\* left too many, unless its own retention fails; where Glob has failed it may
\* fail every time (logging.go:178-218).
BackupsBounded ==
  [][log'.backups # log.backups =>
       \/ "glob" \in log'.faulted
       \/ (log'.faulted \ log.faulted) \cap {"stat", "remove"} # {}
       \/ Cardinality(DOMAIN log'.backups) <= MaxBackups]_vars

\* pl.currentSize is the size of the file, so the file never outgrows
\* maxSize, unless a write was cut short (logging.go:124, 136, 173).
SizeIsTracked ==
  log.currentFile = "closed" \/ "write" \in log.faulted
    \/ (log.currentSize = log.size /\ log.size <= MaxSize)

\* What appears on stdout is in the log: the two copies differ only by what
\* is still on its way or was cut off (logging.go:243-251).
PrintedIsLogged == printed \subseteq 1 .. log.accepted

\* The output of a child is cut off only by a failing file or by CloseAll,
\* never because the retention failed (logging.go:161-164, 243-251).
CutOffHasCause ==
  (\E s \in Stream : copier[s] = "broken")
    => closed \/ log.faulted \ {"glob", "stat", "remove"} # {}
=============================================================================
