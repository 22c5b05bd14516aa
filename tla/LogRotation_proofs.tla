-------------------------- MODULE LogRotation_proofs --------------------------
(***************************************************************************)
(* Proofs about the log file of a process, for any sizes, any number of    *)
(* backups, chunks, seconds and streams, and any operations that may fail. *)
(***************************************************************************)
EXTENDS LogRotation, FiniteSetTheorems, WellFoundedInduction, TLAPS

-----------------------------------------------------------------------------
(* Sets of numbers.                                                        *)

LEMMA SmallestExists ==
  ASSUME NEW S \in SUBSET Nat, S # {}
  PROVE  \E x \in S : \A y \in S : x <= y
<1> DEFINE R == {ss \in Nat \X Nat : ss[1] < ss[2]}
<1>1. IsWellFoundedOn(R, Nat)
  BY NatLessThanWellFounded DEF OpToRel
<1>2. \A x, y \in S : <<y, x>> \in R <=> y < x
  OBVIOUS
<1> HIDE DEF R
<1>3. PICK x \in S : \A y \in S : ~(<<y, x>> \in R)
  BY <1>1, WFMin
<1>4. \A y \in S : ~(y < x)
  BY <1>2, <1>3, Zenon
<1> QED
  BY <1>4

LEMMA GreatestChunk ==
  ASSUME NEW S \in SUBSET Chunk, S # {}
  PROVE  Max(S) \in S /\ \A y \in S : y <= Max(S)
<1> DEFINE T == {MaxChunks - y : y \in S}
<1>1. T \in SUBSET Nat /\ T # {}
  <2>1. \A y \in 0 .. MaxChunks : MaxChunks - y \in Nat
    BY BoundsAssumption
  <2> QED
    BY <2>1 DEF Chunk
<1>2. PICK m \in T : \A y \in T : m <= y
  BY <1>1, SmallestExists
<1>3. PICK x \in S : m = MaxChunks - x
  BY <1>2
<1>4. \A y \in S : x >= y
  <2> SUFFICES ASSUME NEW y \in S
               PROVE  x >= y
    OBVIOUS
  <2>1. MaxChunks - x <= MaxChunks - y
    BY <1>2, <1>3
  <2> QED
    BY <2>1, BoundsAssumption DEF Chunk
<1>5. Max(S) \in S /\ \A y \in S : Max(S) >= y
  BY <1>4 DEF Max
<1> QED
  BY <1>5, BoundsAssumption DEF Chunk

-----------------------------------------------------------------------------
(* The retention.                                                          *)

\* The backups S of l, none of them empty.
IsFilled(l, S) ==
  \A t \in S : l.backups[t] \in SUBSET Chunk /\ l.backups[t] # {}

LEMMA AgeIsNumber ==
  ASSUME NEW l, NEW S, IsFilled(l, S), NEW t \in S
  PROVE  Age(l, t) \in Nat
BY GreatestChunk, BoundsAssumption DEF IsFilled, Age, Chunk

\* The backups older than a given one.
Older(l, S, t) == {u \in S : Age(l, u) < Age(l, t)}

\* What is chosen for removal is older than what is left.
LEMMA OldestAreOlder ==
  ASSUME NEW l, NEW S, IsFiniteSet(S), IsFilled(l, S), NEW n \in Int,
         NEW t \in Oldest(l, S, n), NEW u \in S \ Oldest(l, S, n)
  PROVE  Age(l, t) < Age(l, u)
<1>1. t \in S /\ u \in S
  BY DEF Oldest
<1>2. Age(l, t) \in Nat /\ Age(l, u) \in Nat /\ \A v \in S : Age(l, v) \in Nat
  BY <1>1, AgeIsNumber
<1>3. Cardinality(Older(l, S, t)) < n /\ ~(Cardinality(Older(l, S, u)) < n)
  BY <1>1 DEF Oldest, Older
<1>4. CASE ~(Age(l, t) < Age(l, u))
  <2>1. Older(l, S, u) \subseteq Older(l, S, t)
    BY <1>2, <1>4 DEF Older
  <2>2. IsFiniteSet(Older(l, S, t)) /\ IsFiniteSet(Older(l, S, u))
    BY FS_Subset DEF Older
  <2>3. Cardinality(Older(l, S, u)) <= Cardinality(Older(l, S, t))
    BY <2>1, <2>2, FS_Subset
  <2> QED
    BY <1>3, <2>2, <2>3, FS_CardinalityType
<1> QED
  BY <1>4

\* At least n of them are chosen, so at most the others are left.
LEMMA OldestAreEnough ==
  ASSUME NEW l, NEW S, IsFiniteSet(S), IsFilled(l, S), NEW n \in Nat, n <= Cardinality(S)
  PROVE  Cardinality(S \ Oldest(l, S, n)) <= Cardinality(S) - n
<1> DEFINE O == Oldest(l, S, n)
           K == S \ O
<1>1. /\ O \in SUBSET S /\ IsFiniteSet(O) /\ IsFiniteSet(K)
      /\ Cardinality(O) \in Nat /\ Cardinality(K) \in Nat /\ Cardinality(S) \in Nat
  BY FS_Subset, FS_CardinalityType DEF Oldest
<1>2. n <= Cardinality(O)
  <2>1. CASE K = {}
    BY <1>1, <2>1
  <2>2. CASE K # {}
    <3> DEFINE A == {Age(l, t) : t \in K}
    <3>1. A \in SUBSET Nat /\ A # {}
      BY <2>2, AgeIsNumber
    <3>2. PICK a \in A : \A b \in A : a <= b
      BY <3>1, SmallestExists
    <3>3. PICK t \in K : a = Age(l, t)
      BY <3>2
    <3>4. ASSUME NEW u \in Older(l, S, t)
          PROVE  u \in O
      <4>1. u \in S /\ Age(l, u) < Age(l, t)
        BY DEF Older
      <4>2. CASE u \in K
        BY <3>1, <3>2, <3>3, <4>1, <4>2
      <4> QED
        BY <4>1, <4>2
    <3>5. Older(l, S, t) \in SUBSET O
      BY <3>4
    <3>6. Cardinality(Older(l, S, t)) <= Cardinality(O)
          /\ Cardinality(Older(l, S, t)) \in Nat
      BY <1>1, <3>5, FS_Subset, FS_CardinalityType
    <3>7. ~(Cardinality(Older(l, S, t)) < n)
      BY <3>3 DEF Oldest, Older
    <3> QED
      BY <1>1, <3>6, <3>7
  <2> QED
    BY <2>1, <2>2
<1>3. Cardinality(K) = Cardinality(S) - Cardinality(O)
  <2>1. O \cap K = {} /\ O \cup K = S
    BY <1>1
  <2> HIDE DEF O, K
  <2>2. Cardinality(O \cup K) = Cardinality(O) + Cardinality(K) - Cardinality(O \cap K)
    BY <1>1, FS_Union
  <2>3. Cardinality(O \cap K) = 0
    BY <2>1, FS_EmptySet, Zenon
  <2>4. Cardinality(S) = Cardinality(O) + Cardinality(K) - 0
    BY <2>1, <2>2, <2>3, Zenon
  <2> QED
    BY <1>1, <2>4
<1> QED
  BY <1>1, <1>2, <1>3

\* l without the backups gone, after the operations F have failed.
Cut(l, gone, F) ==
  [l EXCEPT !.backups = Restrict(@, DOMAIN @ \ gone),
            !.removed = @ \cup UNION {l.backups[t] : t \in gone},
            !.faulted = @ \cup F]

\* The retention removed enough if nothing failed, and it removed the oldest
\* if every backup could be looked up.  Only Glob may fail once more.
Sound(l, gone, F) ==
  /\ gone \in SUBSET DOMAIN l.backups
  /\ F \in SUBSET (Faults \cap {"glob", "stat", "remove"})
  /\ F \cap l.faulted \subseteq {"glob"}
  /\ F = {} => Cardinality(DOMAIN l.backups \ gone) <= MaxBackups
  /\ "stat" \notin F =>
       \A t \in gone, u \in DOMAIN l.backups \ gone : Age(l, t) < Age(l, u)

LEMMA BackupsTyped ==
  ASSUME NEW l \in Logs
  PROVE  /\ DOMAIN l.backups \in SUBSET Second
         /\ IsFiniteSet(DOMAIN l.backups)
         /\ l.backups = [t \in DOMAIN l.backups |-> l.backups[t]]
         /\ \A t \in DOMAIN l.backups : l.backups[t] \in SUBSET Chunk
<1>1. PICK S \in SUBSET Second : l.backups \in [S -> SUBSET Chunk]
  BY DEF Logs
<1>2. IsFiniteSet(Second)
  BY BoundsAssumption, FS_Interval DEF Second
<1>3. IsFiniteSet(S)
  BY <1>2, FS_Subset
<1> QED
  BY <1>1, <1>3

LEMMA CutNothing ==
  ASSUME NEW l \in Logs
  PROVE  l = Cut(l, {}, {})
<1>1. Restrict(l.backups, DOMAIN l.backups \ {}) = l.backups
  BY BackupsTyped DEF Restrict
<1>2. l.removed \cup UNION {l.backups[t] : t \in {}} = l.removed
  OBVIOUS
<1>3. l.faulted \cup {} = l.faulted
  OBVIOUS
<1>4. l = [l EXCEPT !.backups = l.backups, !.removed = l.removed, !.faulted = l.faulted]
  BY DEF Logs
<1> QED
  BY <1>1, <1>2, <1>3, <1>4 DEF Cut

LEMMA GlobCuts ==
  ASSUME NEW l \in Logs
  PROVE  Failing(l, "glob") = Cut(l, {}, {"glob"})
<1>1. Restrict(l.backups, DOMAIN l.backups \ {}) = l.backups
  BY BackupsTyped DEF Restrict
<1>2. l.removed \cup UNION {l.backups[t] : t \in {}} = l.removed
  OBVIOUS
<1>3. \A X : [l EXCEPT !.faulted = X]
              = [l EXCEPT !.backups = l.backups, !.removed = l.removed, !.faulted = X]
  BY DEF Logs
<1> QED
  BY <1>1, <1>2, <1>3 DEF Cut, Failing

LEMMA RemovalCuts ==
  ASSUME NEW l \in Logs, NEW S, NEW n
  PROVE  /\ WithoutOldest(l, S, n) = Cut(l, Oldest(l, S, n), {})
         /\ Failing(WithoutOldest(l, S, n), "remove") = Cut(l, Oldest(l, S, n), {"remove"})
         /\ WithoutOldest(Failing(l, "stat"), S, n) = Cut(l, Oldest(l, S, n), {"stat"})
         /\ Failing(WithoutOldest(Failing(l, "stat"), S, n), "remove")
              = Cut(l, Oldest(l, S, n), {"stat", "remove"})
         /\ WithoutOldest(l, S, n).faulted = l.faulted
         /\ WithoutOldest(Failing(l, "stat"), S, n).faulted = l.faulted \cup {"stat"}
<1> DEFINE O == Oldest(l, S, n)
           b == Restrict(l.backups, DOMAIN l.backups \ O)
           r == l.removed \cup UNION {l.backups[t] : t \in O}
<1>1. Oldest(Failing(l, "stat"), S, n) = O
  BY DEF Oldest, Age, Failing, Logs
<1>2. WithoutOldest(l, S, n) = [l EXCEPT !.backups = b, !.removed = r]
  BY DEF WithoutOldest
<1>3. WithoutOldest(Failing(l, "stat"), S, n)
        = [Failing(l, "stat") EXCEPT !.backups = b, !.removed = r]
  BY <1>1 DEF WithoutOldest, Failing, Logs
<1>4. \A F : Cut(l, O, F) = [l EXCEPT !.backups = b, !.removed = r, !.faulted = @ \cup F]
  BY DEF Cut
<1> HIDE DEF O, b, r
<1>5. WithoutOldest(l, S, n) = Cut(l, O, {})
  <2>1. l.faulted \cup {} = l.faulted
    OBVIOUS
  <2>2. Cut(l, O, {}) = [l EXCEPT !.backups = b, !.removed = r, !.faulted = l.faulted]
    BY <1>4, <2>1
  <2> QED
    BY <1>2, <2>2 DEF Logs
<1>6. Failing(WithoutOldest(l, S, n), "remove") = Cut(l, O, {"remove"})
  BY <1>2, <1>4 DEF Failing, Logs
<1>7. WithoutOldest(Failing(l, "stat"), S, n) = Cut(l, O, {"stat"})
  <2>1. \A X : [[l EXCEPT !.faulted = X] EXCEPT !.backups = b, !.removed = r]
                = [l EXCEPT !.backups = b, !.removed = r, !.faulted = X]
    BY DEF Logs
  <2> QED
    BY <1>3, <1>4, <2>1 DEF Failing
<1>8. Failing(WithoutOldest(Failing(l, "stat"), S, n), "remove") = Cut(l, O, {"stat", "remove"})
  <2> DEFINE c == [l EXCEPT !.backups = b, !.removed = r, !.faulted = l.faulted \cup {"stat"}]
  <2>1. WithoutOldest(Failing(l, "stat"), S, n) = c
    BY <1>4, <1>7
  <2>2. c.faulted = l.faulted \cup {"stat"}
    BY DEF Logs
  <2>3. \A X : [c EXCEPT !.faulted = X]
                = [l EXCEPT !.backups = b, !.removed = r, !.faulted = X]
    BY DEF Logs
  <2>4. (l.faulted \cup {"stat"}) \cup {"remove"} = l.faulted \cup {"stat", "remove"}
    OBVIOUS
  <2> HIDE DEF c
  <2> QED
    BY <1>4, <2>1, <2>2, <2>3, <2>4 DEF Failing
<1>9. /\ WithoutOldest(l, S, n).faulted = l.faulted
      /\ WithoutOldest(Failing(l, "stat"), S, n).faulted = l.faulted \cup {"stat"}
  <2>1. \A X : [l EXCEPT !.backups = b, !.removed = r, !.faulted = X].faulted = X
    BY DEF Logs
  <2>2. [l EXCEPT !.backups = b, !.removed = r].faulted = l.faulted
    BY DEF Logs
  <2> QED
    BY <1>2, <1>4, <1>7, <2>1, <2>2
<1> QED
  BY <1>5, <1>6, <1>7, <1>8, <1>9 DEF O

\* Whatever the retention does is to cut backups off, soundly.
LEMMA CleanupCuts ==
  ASSUME NEW l \in Logs, IsFilled(l, DOMAIN l.backups), NEW c \in Cleanup(l)
  PROVE  \E gone, F : c = Cut(l, gone, F) /\ Sound(l, gone, F)
<1> DEFINE all == DOMAIN l.backups
           excess == Cardinality(all) - MaxBackups
<1>1. IsFiniteSet(all) /\ Cardinality(all) \in Nat
  BY BackupsTyped, FS_CardinalityType
<1>2. CASE Cardinality(all) <= MaxBackups
  <2>1. c = Cut(l, {}, {})
    BY <1>2, CutNothing DEF Cleanup
  <2>2. all \ {} = all
    OBVIOUS
  <2>3. Sound(l, {}, {})
    BY <1>2, <2>2 DEF Sound
  <2> QED
    BY <2>1, <2>3
<1>3. CASE ~(Cardinality(all) <= MaxBackups)
  <2>1. excess \in Nat /\ excess <= Cardinality(all)
    BY <1>1, <1>3, MaxBackupsAssumption
  <2>2. ASSUME c = WithoutOldest(l, all, excess)
        PROVE  Sound(l, Oldest(l, all, excess), {})
    <3>1. Cardinality(all \ Oldest(l, all, excess)) <= Cardinality(all) - excess
      BY <1>1, <2>1, OldestAreEnough
    <3>2. Cardinality(all) - excess = MaxBackups
      BY <1>1, MaxBackupsAssumption
    <3>3. Oldest(l, all, excess) \in SUBSET all
      BY DEF Oldest
    <3>4. \A t \in Oldest(l, all, excess), u \in all \ Oldest(l, all, excess) :
            Age(l, t) < Age(l, u)
      BY <1>1, <2>1, OldestAreOlder
    <3> QED
      BY <3>1, <3>2, <3>3, <3>4 DEF Sound
  <2>3. ASSUME NEW n \in 0 .. excess - 1, "remove" \in Faults \ l.faulted
        PROVE  Sound(l, Oldest(l, all, n), {"remove"})
    <3>1. Oldest(l, all, n) \in SUBSET all
      BY DEF Oldest
    <3>2. \A t \in Oldest(l, all, n), u \in all \ Oldest(l, all, n) : Age(l, t) < Age(l, u)
      BY <1>1, OldestAreOlder
    <3> QED
      BY <2>3, <3>1, <3>2 DEF Sound
  <2>4. ASSUME NEW seen \in SUBSET all, NEW n, "stat" \in Faults \ l.faulted
        PROVE  /\ Sound(l, Oldest(l, seen, n), {"stat"})
               /\ "remove" \in Faults \ l.faulted
                    => Sound(l, Oldest(l, seen, n), {"stat", "remove"})
    BY <2>4 DEF Sound, Oldest
  <2>5. \/ c = WithoutOldest(l, all, excess)
        \/ /\ "remove" \in Faults \ l.faulted
           /\ \E n \in 0 .. excess - 1 : c = Failing(WithoutOldest(l, all, n), "remove")
        \/ "glob" \in Faults /\ c = Failing(l, "glob")
        \/ /\ "stat" \in Faults \ l.faulted
           /\ \E seen \in SUBSET all : \E n :
                \/ c = WithoutOldest(Failing(l, "stat"), seen, n)
                \/ /\ "remove" \in Faults \ l.faulted
                   /\ c = Failing(WithoutOldest(Failing(l, "stat"), seen, n), "remove")
    <3>1. CASE \/ c = WithoutOldest(l, all, excess)
               \/ \E n \in 0 .. excess - 1 :
                    /\ CanFail(l, "remove")
                    /\ c = Failing(WithoutOldest(l, all, n), "remove")
      BY <3>1 DEF CanFail
    <3>2. CASE "glob" \in Faults /\ c = Failing(l, "glob")
      BY <3>2
    <3>3. CASE /\ CanFail(l, "stat")
               /\ \E seen \in SUBSET all : \E n :
                    \/ c = WithoutOldest(Failing(l, "stat"), seen, n)
                    \/ /\ CanFail(Failing(l, "stat"), "remove")
                       /\ c = Failing(WithoutOldest(Failing(l, "stat"), seen, n), "remove")
      <4>1. CanFail(Failing(l, "stat"), "remove") => "remove" \in Faults \ l.faulted
        BY DEF CanFail, Failing, Logs
      <4> QED
        BY <3>3, <4>1 DEF CanFail
    <3> QED
      BY <1>3, <3>1, <3>2, <3>3 DEF Cleanup, MayFail
  <2>6. ASSUME "glob" \in Faults, c = Failing(l, "glob")
        PROVE  c = Cut(l, {}, {"glob"}) /\ Sound(l, {}, {"glob"})
    BY <2>6, GlobCuts DEF Sound
  <2> QED
    BY <2>2, <2>3, <2>4, <2>5, <2>6, RemovalCuts
<1> QED
  BY <1>2, <1>3

-----------------------------------------------------------------------------
(* Where the chunks are.                                                   *)

DiskOf(l) == l.content \cup UNION {l.backups[t] : t \in DOMAIN l.backups}

\* Backups are named after the second they were made in, and later output is
\* in later backups.
Sorted(l) ==
  /\ IsFilled(l, DOMAIN l.backups)
  /\ \A t \in DOMAIN l.backups : t <= now
  /\ \A t, u \in DOMAIN l.backups :
       t < u => \A c \in l.backups[t], d \in l.backups[u] : c < d
  /\ \A t \in DOMAIN l.backups : \A c \in l.backups[t], d \in l.content : c < d
  /\ \A c \in DiskOf(l) \cup l.removed : c <= l.accepted

\* The chunks that are gone are older than those that are not.
OldestGone(l) ==
  "stat" \in l.faulted \/ \A c \in l.removed, d \in DiskOf(l) : c < d

\* No accepted chunk has been lost without a trace.
AllKept(l) == 1 .. l.accepted \subseteq DiskOf(l) \cup l.removed \cup l.overwritten

LEMMA ChunksOrdered ==
  ASSUME NEW l \in Logs, Sorted(l), NEW t \in DOMAIN l.backups, NEW u \in DOMAIN l.backups,
         Age(l, t) < Age(l, u), NEW c \in l.backups[t], NEW d \in l.backups[u]
  PROVE  c < d
<1>1. l.backups[t] \in SUBSET Chunk /\ l.backups[u] \in SUBSET Chunk
  BY DEF Sorted, IsFilled
<1>2. Age(l, t) \in l.backups[t] /\ Age(l, u) \in l.backups[u]
  BY GreatestChunk DEF Sorted, IsFilled, Age
<1>3. Age(l, t) \in Nat /\ Age(l, u) \in Nat
  BY <1>1, <1>2, BoundsAssumption DEF Chunk
<1>4. t # u
  BY <1>3
<1>5. ~(u < t)
  <2>1. u < t => Age(l, u) < Age(l, t)
    BY <1>2 DEF Sorted
  <2> QED
    BY <1>3, <2>1
<1>6. t \in Int /\ u \in Int
  <2>1. t \in Second /\ u \in Second
    BY BackupsTyped, Zenon
  <2> QED
    BY <2>1 DEF Second
<1> QED
  BY <1>4, <1>5, <1>6 DEF Sorted

LEMMA RenamedFields ==
  ASSUME NEW l \in Logs, now \in Second
  PROVE  /\ Renamed(l) \in Logs
         /\ Renamed(l).content = {}
         /\ Renamed(l).size = 0
         /\ DOMAIN Renamed(l).backups = DOMAIN l.backups \cup {now}
         /\ Renamed(l).backups[now] = l.content
         /\ \A t \in DOMAIN l.backups : t # now => Renamed(l).backups[t] = l.backups[t]
         /\ Renamed(l).overwritten
              = l.overwritten \cup (IF now \in DOMAIN l.backups THEN l.backups[now] ELSE {})
         /\ Renamed(l).removed = l.removed
         /\ Renamed(l).accepted = l.accepted
         /\ Renamed(l).faulted = l.faulted
         /\ Renamed(l).currentFile = l.currentFile
         /\ Renamed(l).currentSize = l.currentSize
<1> DEFINE b == [t \in DOMAIN l.backups \cup {now} |->
                   IF t = now THEN l.content ELSE l.backups[t]]
           o == l.overwritten \cup (IF now \in DOMAIN l.backups THEN l.backups[now] ELSE {})
<1>1. Renamed(l) = [l EXCEPT !.backups = b, !.overwritten = o, !.content = {}, !.size = 0]
  BY DEF Renamed
<1>2. DOMAIN l.backups \cup {now} \in SUBSET Second
  BY BackupsTyped
<1>3. b \in [DOMAIN l.backups \cup {now} -> SUBSET Chunk]
  <2>1. l.content \in SUBSET Chunk
    BY DEF Logs
  <2> QED
    BY <2>1, BackupsTyped
<1>4. o \in SUBSET Chunk
  <2>1. l.overwritten \in SUBSET Chunk
    BY DEF Logs
  <2> QED
    BY <2>1, BackupsTyped
<1>5. b \in UNION {[S -> SUBSET Chunk] : S \in SUBSET Second}
  BY <1>2, <1>3
<1>6. /\ DOMAIN b = DOMAIN l.backups \cup {now}
      /\ b[now] = l.content
      /\ \A t \in DOMAIN l.backups : t # now => b[t] = l.backups[t]
  OBVIOUS
<1> HIDE DEF b, o
<1>7. Renamed(l) \in Logs
  <2> DEFINE B == UNION {[S -> SUBSET Chunk] : S \in SUBSET Second}
             C == SUBSET Chunk
  <2>1. {} \in C
    OBVIOUS
  <2>2. b \in B /\ o \in C
    BY <1>4, <1>5
  <2>3. Logs = [currentFile : {"open", "closed"}, currentSize : 0 .. MaxSize, size : Nat,
                content : C, backups : B, removed : C, overwritten : C, accepted : Chunk,
                faulted : SUBSET Faults]
    BY DEF Logs
  <2>4. 0 \in Nat
    OBVIOUS
  <2> HIDE DEF B, C
  <2> QED
    BY <1>1, <2>1, <2>2, <2>3, <2>4, Zenon
<1>8. Renamed(l).backups = b /\ Renamed(l).overwritten = o
  BY <1>1 DEF Logs
<1> QED
  BY <1>1, <1>6, <1>7, <1>8 DEF Logs, o

LEMMA CutFields ==
  ASSUME NEW l \in Logs, NEW gone, NEW F, Sound(l, gone, F)
  PROVE  /\ Cut(l, gone, F) \in Logs
         /\ DOMAIN Cut(l, gone, F).backups = DOMAIN l.backups \ gone
         /\ \A t \in DOMAIN l.backups \ gone : Cut(l, gone, F).backups[t] = l.backups[t]
         /\ Cut(l, gone, F).removed = l.removed \cup UNION {l.backups[t] : t \in gone}
         /\ Cut(l, gone, F).faulted = l.faulted \cup F
         /\ Cut(l, gone, F).content = l.content
         /\ Cut(l, gone, F).size = l.size
         /\ Cut(l, gone, F).overwritten = l.overwritten
         /\ Cut(l, gone, F).accepted = l.accepted
         /\ Cut(l, gone, F).currentFile = l.currentFile
         /\ Cut(l, gone, F).currentSize = l.currentSize
<1> DEFINE b == Restrict(l.backups, DOMAIN l.backups \ gone)
           r == l.removed \cup UNION {l.backups[t] : t \in gone}
           f == l.faulted \cup F
<1>1. Cut(l, gone, F) = [l EXCEPT !.backups = b, !.removed = r, !.faulted = f]
  BY DEF Cut
<1>2. /\ DOMAIN b = DOMAIN l.backups \ gone
      /\ \A t \in DOMAIN l.backups \ gone : b[t] = l.backups[t]
  BY DEF Restrict
<1>3. b \in [DOMAIN l.backups \ gone -> SUBSET Chunk]
  BY BackupsTyped DEF Restrict
<1>4. b \in UNION {[S -> SUBSET Chunk] : S \in SUBSET Second}
  BY <1>3, BackupsTyped
<1>5. r \in SUBSET Chunk
  <2>1. l.removed \in SUBSET Chunk
    BY DEF Logs
  <2>2. \A t \in gone : l.backups[t] \in SUBSET Chunk
    BY BackupsTyped DEF Sound
  <2> QED
    BY <2>1, <2>2
<1>6. f \in SUBSET Faults
  BY DEF Logs, Sound
<1> HIDE DEF b, r, f
<1> QED
  BY <1>1, <1>2, <1>4, <1>5, <1>6 DEF Logs, r, f

\* The chunks of the log, those that are gone included, are in their places.
InPlace(l) == Sorted(l) /\ OldestGone(l) /\ AllKept(l)

\* A log with the same chunks in the same places.
SameChunks(l, m) ==
  /\ m.content = l.content
  /\ m.backups = l.backups
  /\ m.removed = l.removed
  /\ m.overwritten = l.overwritten
  /\ m.accepted = l.accepted
  /\ l.faulted \subseteq m.faulted

LEMMA SameInPlace ==
  ASSUME NEW l, NEW m, SameChunks(l, m), InPlace(l)
  PROVE  InPlace(m)
BY DEF SameChunks, InPlace, Sorted, OldestGone, AllKept, DiskOf, IsFilled

LEMMA RenamedInPlace ==
  ASSUME NEW l \in Logs, now \in Second, InPlace(l), l.content # {}
  PROVE  InPlace(Renamed(l))
<1> DEFINE m == Renamed(l)
           old == l.backups
           new == m.backups
<1>1. /\ m.content = {}
      /\ DOMAIN new = DOMAIN old \cup {now}
      /\ new[now] = l.content
      /\ \A t \in DOMAIN old : t # now => new[t] = old[t]
      /\ m.overwritten = l.overwritten \cup (IF now \in DOMAIN old THEN old[now] ELSE {})
      /\ m.removed = l.removed
      /\ m.accepted = l.accepted
      /\ m.faulted = l.faulted
  BY RenamedFields
<1>2. l.content \in SUBSET Chunk
  BY DEF Logs
<1>3. DOMAIN old \subseteq Int /\ now \in Int
  <2>1. DOMAIN old \in SUBSET Second
    BY BackupsTyped, Zenon
  <2> HIDE DEF old
  <2> QED
    BY <2>1 DEF Second
<1>4. /\ IsFilled(l, DOMAIN old)
      /\ \A t \in DOMAIN old : t <= now
      /\ \A t, u \in DOMAIN old : t < u => \A c \in old[t], d \in old[u] : c < d
      /\ \A t \in DOMAIN old : \A c \in old[t], d \in l.content : c < d
      /\ \A c \in DiskOf(l) \cup l.removed : c <= l.accepted
      /\ OldestGone(l) /\ AllKept(l)
  BY DEF InPlace, Sorted
<1> HIDE DEF m, old, new
<1>5. DiskOf(m) = UNION {new[t] : t \in DOMAIN new}
  BY <1>1 DEF DiskOf, new
<1>6. DiskOf(l) = l.content \cup UNION {old[t] : t \in DOMAIN old}
  BY DEF DiskOf, old
<1>7. DiskOf(m) \subseteq DiskOf(l)
  BY <1>1, <1>5, <1>6
<1>8. DiskOf(l) \subseteq DiskOf(m) \cup m.overwritten
  BY <1>1, <1>5, <1>6
<1>9. Sorted(m)
  <2>1. IsFilled(m, DOMAIN new)
    BY <1>1, <1>2, <1>4 DEF IsFilled, new, old
  <2>2. \A t \in DOMAIN new : t <= now
    BY <1>1, <1>3, <1>4
  <2>3. ASSUME NEW t \in DOMAIN new, NEW u \in DOMAIN new, t < u,
               NEW c \in new[t], NEW d \in new[u]
        PROVE  c < d
    <3>1. t # now /\ t \in DOMAIN old /\ c \in old[t]
      BY <1>1, <1>3, <1>4, <2>3
    <3>2. CASE u = now
      BY <1>1, <1>4, <3>1, <3>2
    <3>3. CASE u # now
      BY <1>1, <1>4, <2>3, <3>1, <3>3
    <3> QED
      BY <3>2, <3>3
  <2>4. \A c \in DiskOf(m) \cup m.removed : c <= m.accepted
    BY <1>1, <1>4, <1>7
  <2> QED
    BY <1>1, <2>1, <2>2, <2>3, <2>4 DEF Sorted, new
<1>10. OldestGone(m)
  BY <1>1, <1>4, <1>7 DEF OldestGone
<1>11. AllKept(m)
  BY <1>1, <1>4, <1>8 DEF AllKept
<1> QED
  BY <1>9, <1>10, <1>11 DEF InPlace, m

LEMMA CutInPlace ==
  ASSUME NEW l \in Logs, InPlace(l), NEW gone, NEW F, Sound(l, gone, F)
  PROVE  InPlace(Cut(l, gone, F))
<1> DEFINE m == Cut(l, gone, F)
           old == l.backups
           new == m.backups
           lost == UNION {old[t] : t \in gone}
<1>1. /\ DOMAIN new = DOMAIN old \ gone
      /\ \A t \in DOMAIN new : new[t] = old[t]
      /\ m.removed = l.removed \cup lost
      /\ m.faulted = l.faulted \cup F
      /\ m.content = l.content
      /\ m.overwritten = l.overwritten
      /\ m.accepted = l.accepted
      /\ gone \subseteq DOMAIN old
  <2>1. DOMAIN new = DOMAIN old \ gone /\ \A t \in DOMAIN old \ gone : new[t] = old[t]
    BY CutFields
  <2>2. m.removed = l.removed \cup lost /\ m.faulted = l.faulted \cup F
    BY CutFields
  <2>3. m.content = l.content /\ m.overwritten = l.overwritten /\ m.accepted = l.accepted
    BY CutFields
  <2>4. gone \subseteq DOMAIN old
    BY DEF Sound
  <2> HIDE DEF m, old, new, lost
  <2> QED
    BY <2>1, <2>2, <2>3, <2>4
<1>2. /\ IsFilled(l, DOMAIN old)
      /\ \A t \in DOMAIN old : t <= now
      /\ \A t, u \in DOMAIN old : t < u => \A c \in old[t], d \in old[u] : c < d
      /\ \A t \in DOMAIN old : \A c \in old[t], d \in l.content : c < d
      /\ \A c \in DiskOf(l) \cup l.removed : c <= l.accepted
      /\ OldestGone(l) /\ AllKept(l)
  BY DEF InPlace, Sorted
<1>3. "stat" \notin F =>
        \A t \in gone, u \in DOMAIN new : \A c \in old[t], d \in old[u] : c < d
  <2> SUFFICES ASSUME "stat" \notin F, NEW t \in gone, NEW u \in DOMAIN new,
                      NEW c \in old[t], NEW d \in old[u]
               PROVE  c < d
    OBVIOUS
  <2>1. Age(l, t) < Age(l, u)
    BY <1>1 DEF Sound
  <2> QED
    BY <1>1, <2>1, ChunksOrdered DEF InPlace
<1> HIDE DEF m, old, new, lost
<1>4. /\ DiskOf(m) = l.content \cup UNION {new[t] : t \in DOMAIN new}
      /\ DiskOf(l) = l.content \cup UNION {old[t] : t \in DOMAIN old}
  BY <1>1 DEF DiskOf, new, old
<1>5. DiskOf(m) \cup lost = DiskOf(l)
  <2>1. ASSUME NEW c
        PROVE  c \in DiskOf(l) <=> c \in DiskOf(m) \/ c \in lost
    <3>1. c \in lost <=> \E t \in gone : c \in old[t]
      BY DEF lost
    <3>2. c \in DiskOf(l) <=> c \in l.content \/ \E t \in DOMAIN old : c \in old[t]
      BY <1>4
    <3>3. c \in DiskOf(m) <=> c \in l.content \/ \E t \in DOMAIN new : c \in old[t]
      BY <1>1, <1>4
    <3>4. \A t : t \in DOMAIN old <=> t \in DOMAIN new \/ t \in gone
      BY <1>1
    <3> QED
      BY <3>1, <3>2, <3>3, <3>4, Zenon
  <2> QED
    BY <2>1
<1>6. Sorted(m)
  <2>1. IsFilled(m, DOMAIN new)
    BY <1>1, <1>2 DEF IsFilled, new, old
  <2>2. \A c \in DiskOf(m) \cup m.removed : c <= m.accepted
    BY <1>1, <1>2, <1>5
  <2> QED
    BY <1>1, <1>2, <2>1, <2>2 DEF Sorted, new
<1>7. OldestGone(m)
  <2> SUFFICES ASSUME "stat" \notin l.faulted, "stat" \notin F,
                      NEW c \in l.removed \cup lost, NEW d \in DiskOf(m)
               PROVE  c < d
    BY <1>1 DEF OldestGone
  <2>1. CASE c \in l.removed
    BY <1>2, <1>5, <2>1 DEF OldestGone
  <2>2. CASE c \in lost
    <3>1. PICK t \in gone : c \in old[t]
      BY <2>2 DEF lost
    <3>2. CASE d \in l.content
      BY <1>1, <1>2, <3>1, <3>2
    <3>3. CASE d \notin l.content
      <4>1. PICK u \in DOMAIN new : d \in new[u]
        BY <1>4, <3>3
      <4> QED
        BY <1>1, <1>3, <3>1, <4>1
    <3> QED
      BY <3>2, <3>3
  <2> QED
    BY <2>1, <2>2
<1>8. AllKept(m)
  BY <1>1, <1>2, <1>5 DEF AllKept
<1> QED
  BY <1>6, <1>7, <1>8 DEF InPlace, m

-----------------------------------------------------------------------------
(* What a rotation leaves.                                                 *)

\* What a rotation of l into m may leave.
FewBackups(l, m) ==
  \/ "glob" \in m.faulted
  \/ (m.faulted \ l.faulted) \cap {"stat", "remove"} # {}
  \/ Cardinality(DOMAIN m.backups) <= MaxBackups

SizeKnown(l) ==
  l.currentFile = "closed" \/ "write" \in l.faulted \/ l.currentSize = l.size

ClosedForReason(l) ==
  l.currentFile = "closed" => closed \/ l.faulted \cap {"close", "rename", "open"} # {}

\* A file that is rotated has output in it.
NotEmpty(l) == l.currentFile = "open" /\ l.currentSize > 0 => l.content # {}

Good(l) ==
  /\ l \in Logs
  /\ InPlace(l)
  /\ SizeKnown(l)
  /\ ClosedForReason(l)
  /\ NotEmpty(l)

LEMMA DeadFields ==
  ASSUME NEW l \in Logs, NEW f \in Faults
  PROVE  /\ Dead(l, f) \in Logs
         /\ Dead(l, f).currentFile = "closed"
         /\ Dead(l, f).faulted = l.faulted \cup {f}
         /\ Dead(l, f).size = l.size
         /\ Dead(l, f).currentSize = l.currentSize
         /\ SameChunks(l, Dead(l, f))
BY DEF Dead, Failing, SameChunks, Logs

LEMMA DeadIsGood ==
  ASSUME NEW l \in Logs, NEW f \in Faults \cap {"close", "rename", "open"},
         InPlace(l)
  PROVE  Good(Dead(l, f))
<1>1. InPlace(Dead(l, f))
  BY DeadFields, SameInPlace
<1> QED
  BY <1>1, DeadFields DEF Good, SizeKnown, ClosedForReason, NotEmpty

LEMMA ResetFields ==
  ASSUME NEW l \in Logs
  PROVE  /\ [l EXCEPT !.currentSize = 0] \in Logs
         /\ [l EXCEPT !.currentSize = 0].currentSize = 0
         /\ [l EXCEPT !.currentSize = 0].size = l.size
         /\ [l EXCEPT !.currentSize = 0].currentFile = l.currentFile
         /\ [l EXCEPT !.currentSize = 0].faulted = l.faulted
         /\ SameChunks(l, [l EXCEPT !.currentSize = 0])
BY SizesAssumption DEF SameChunks, Logs

\* What the rename and the retention make of a log.
LEMMA CleanedIsGood ==
  ASSUME NEW l, Good(l), now \in Second, l.currentFile = "open", l.currentSize > 0,
         NEW c \in Cleanup(Renamed(l))
  PROVE  /\ c \in Logs /\ InPlace(c) /\ FewBackups(l, c)
         /\ Good([c EXCEPT !.currentSize = 0])
         /\ c.accepted = l.accepted
         /\ l.faulted \subseteq c.faulted
<1> DEFINE r == Renamed(l)
<1>1. l \in Logs /\ l.content # {} /\ InPlace(l)
  BY DEF Good, NotEmpty
<1>2. /\ r \in Logs /\ r.size = 0 /\ r.currentFile = "open" /\ r.accepted = l.accepted
      /\ r.faulted = l.faulted
  BY <1>1, RenamedFields
<1>3. InPlace(r)
  BY <1>1, RenamedInPlace
<1> HIDE DEF r
<1>4. c \in Cleanup(r) /\ IsFilled(r, DOMAIN r.backups)
  BY <1>3 DEF r, InPlace, Sorted
<1>5. PICK gone, F : c = Cut(r, gone, F) /\ Sound(r, gone, F)
  BY <1>2, <1>4, CleanupCuts
<1>6. /\ c \in Logs /\ DOMAIN c.backups = DOMAIN r.backups \ gone
      /\ c.faulted = l.faulted \cup F /\ c.size = 0 /\ c.currentFile = "open"
      /\ c.accepted = l.accepted
  BY <1>2, <1>5, CutFields
<1>7. InPlace(c)
  BY <1>2, <1>3, <1>5, CutInPlace
<1>8. FewBackups(l, c)
  <2>1. CASE F = {}
    BY <1>5, <1>6, <2>1 DEF Sound, FewBackups
  <2>2. CASE F # {}
    BY <1>2, <1>5, <1>6, <2>2 DEF Sound, FewBackups
  <2> QED
    BY <2>1, <2>2
<1>9. Good([c EXCEPT !.currentSize = 0])
  <2> DEFINE m == [c EXCEPT !.currentSize = 0]
  <2>1. /\ m \in Logs /\ m.currentSize = 0 /\ m.size = 0 /\ m.currentFile = "open"
        /\ m.faulted = c.faulted /\ SameChunks(c, m)
    BY <1>6, ResetFields
  <2> HIDE DEF m
  <2>2. InPlace(m)
    BY <1>7, <2>1, SameInPlace
  <2>3. Good(m)
    BY <2>1, <2>2 DEF Good, SizeKnown, ClosedForReason, NotEmpty
  <2> QED
    BY <2>3 DEF m
<1> QED
  BY <1>6, <1>7, <1>8, <1>9

LEMMA RotatedIsGood ==
  ASSUME NEW l, Good(l), now \in Second, NEW k \in 1 .. MaxSize, NEW m \in Rotated(l, k)
  PROVE  /\ Good(m)
         /\ m.accepted = l.accepted
         /\ l.faulted \subseteq m.faulted
         /\ m.currentFile = "open" => m.currentSize + k <= MaxSize
         /\ m.backups # l.backups => FewBackups(l, m)
<1>1. l \in Logs /\ InPlace(l)
      /\ l.currentSize \in 0 .. MaxSize /\ l.currentFile \in {"open", "closed"}
  BY DEF Good, Logs
<1>2. CASE m = l /\ (l.currentFile = "closed" \/ l.currentSize + k <= MaxSize)
  BY <1>2
<1>3. CASE l.currentFile = "open" /\ l.currentSize + k > MaxSize /\ m \in Rotate(l)
  <2>1. l.currentSize > 0
    BY <1>1, <1>3, SizesAssumption
  <2>2. ASSUME NEW c \in Cleanup(Renamed(l)), m = [c EXCEPT !.currentSize = 0]
        PROVE  Good(m) /\ m.accepted = l.accepted /\ l.faulted \subseteq m.faulted
               /\ m.currentSize = 0 /\ FewBackups(l, m)
    BY <1>3, <2>1, <2>2, CleanedIsGood, ResetFields DEF SameChunks, FewBackups
  <2>3. ASSUME NEW f \in Faults \cap {"close", "rename"}, m = Dead(l, f)
        PROVE  Good(m) /\ m.accepted = l.accepted /\ l.faulted \subseteq m.faulted
               /\ m.currentFile = "closed" /\ m.backups = l.backups
    BY <1>1, <2>3, DeadIsGood, DeadFields DEF SameChunks
  <2>4. ASSUME NEW c \in Cleanup(Renamed(l)), m = Dead(c, "open"), "open" \in Faults
        PROVE  Good(m) /\ m.accepted = l.accepted /\ l.faulted \subseteq m.faulted
               /\ m.currentFile = "closed" /\ FewBackups(l, m)
    <3>1. /\ c \in Logs /\ InPlace(c) /\ FewBackups(l, c) /\ c.accepted = l.accepted
          /\ l.faulted \subseteq c.faulted
      BY <1>3, <2>1, CleanedIsGood
    <3> QED
      BY <2>4, <3>1, DeadIsGood, DeadFields DEF SameChunks, FewBackups
  <2>5. \/ \E c \in Cleanup(Renamed(l)) : m = [c EXCEPT !.currentSize = 0]
        \/ \E f \in Faults \cap {"close", "rename"} : m = Dead(l, f)
        \/ "open" \in Faults /\ \E c \in Cleanup(Renamed(l)) : m = Dead(c, "open")
    BY <1>3 DEF Rotate, MayFail, CanFail
  <2> QED
    BY <2>2, <2>3, <2>4, <2>5
<1>4. l.currentSize + k > MaxSize => m \in Rotate(l)
  BY DEF Rotated
<1>5. ~(l.currentSize + k > MaxSize) => m = l
  BY DEF Rotated
<1>6. l.currentFile = "closed" /\ m \in Rotate(l) => m = l
  BY DEF Rotate
<1> QED
  BY <1>1, <1>2, <1>3, <1>4, <1>5, <1>6, SizesAssumption

\* A chunk is appended to a file that has room for it.
Appended(l, k) ==
  [l EXCEPT !.accepted = @ + 1,
            !.content = @ \cup {l.accepted + 1},
            !.size = @ + k,
            !.currentSize = @ + k]

LEMMA AppendedIsGood ==
  ASSUME NEW l, Good(l), NEW k \in 1 .. MaxSize, l.currentSize + k <= MaxSize,
         l.currentFile = "open", l.accepted < MaxChunks
  PROVE  /\ Good(Appended(l, k))
         /\ Appended(l, k).accepted = l.accepted + 1
         /\ Appended(l, k).faulted = l.faulted
         /\ Appended(l, k).backups = l.backups
<1> DEFINE m == Appended(l, k)
           a == l.accepted + 1
           con == l.content \cup {a}
<1>1. l \in Logs
  BY DEF Good
<1>2. /\ l.accepted \in Nat /\ l.size \in Nat /\ l.currentSize \in Nat
      /\ l.content \in SUBSET Chunk
  BY <1>1, BoundsAssumption DEF Logs, Chunk
<1>3. a \in Chunk /\ con \in SUBSET Chunk /\ a > l.accepted
  BY <1>2, BoundsAssumption DEF Chunk
<1>4. l.size + k \in Nat /\ l.currentSize + k \in 0 .. MaxSize /\ l.currentSize + k > 0
  BY <1>2, SizesAssumption
<1>5. m = [l EXCEPT !.accepted = a, !.content = con, !.size = l.size + k,
                    !.currentSize = l.currentSize + k]
  BY DEF Appended
<1> HIDE DEF m, a, con
<1>6. /\ m \in Logs
      /\ m.accepted = a /\ m.content = con /\ m.size = l.size + k
      /\ m.currentSize = l.currentSize + k /\ m.currentFile = "open"
      /\ m.backups = l.backups /\ m.removed = l.removed
      /\ m.overwritten = l.overwritten /\ m.faulted = l.faulted
  BY <1>1, <1>3, <1>4, <1>5 DEF Logs
<1>7. DiskOf(m) = DiskOf(l) \cup {a}
  BY <1>6 DEF DiskOf, con
<1>8. \A c \in DiskOf(l) \cup l.removed : c \in Int /\ c <= l.accepted /\ c < a
  <2>1. \A c \in DiskOf(l) \cup l.removed : c \in Chunk
    <3>1. l.content \in SUBSET Chunk /\ l.removed \in SUBSET Chunk
      BY <1>1 DEF Logs
    <3>2. \A t \in DOMAIN l.backups : l.backups[t] \in SUBSET Chunk
      BY <1>1, BackupsTyped
    <3> QED
      BY <3>1, <3>2 DEF DiskOf
  <2>2. \A c \in DiskOf(l) \cup l.removed : c <= l.accepted
    BY DEF Good, InPlace, Sorted
  <2> QED
    BY <1>2, <1>3, <2>1, <2>2 DEF Chunk
<1>9. Sorted(m)
  <2>1. /\ IsFilled(l, DOMAIN l.backups)
        /\ \A t \in DOMAIN l.backups : t <= now
        /\ \A t, u \in DOMAIN l.backups :
             t < u => \A c \in l.backups[t], d \in l.backups[u] : c < d
        /\ \A t \in DOMAIN l.backups : \A c \in l.backups[t], d \in l.content : c < d
    BY DEF Good, InPlace, Sorted
  <2>2. \A t \in DOMAIN m.backups : \A c \in m.backups[t], d \in m.content : c < d
    <3> SUFFICES ASSUME NEW t \in DOMAIN l.backups, NEW c \in l.backups[t], NEW d \in con
                 PROVE  c < d
      BY <1>6
    <3>1. c < a
      BY <1>8 DEF DiskOf
    <3> QED
      BY <2>1, <3>1 DEF con
  <2>3. \A c \in DiskOf(m) \cup m.removed : c <= m.accepted
    <3> SUFFICES ASSUME NEW c \in DiskOf(l) \cup {a} \cup l.removed
                 PROVE  c <= a
      BY <1>6, <1>7
    <3>1. CASE c = a
      BY <1>2, <3>1 DEF a
    <3>2. CASE c # a
      BY <1>2, <1>8, <3>2 DEF a
    <3> QED
      BY <3>1, <3>2
  <2> QED
    BY <1>6, <2>1, <2>2, <2>3 DEF Sorted, IsFilled
<1>10. OldestGone(m)
  BY <1>6, <1>7, <1>8 DEF Good, InPlace, OldestGone
<1>11. AllKept(m)
  <2>1. 1 .. a \subseteq (1 .. l.accepted) \cup {a}
    BY <1>2 DEF a
  <2> QED
    BY <1>6, <1>7, <2>1 DEF Good, InPlace, AllKept
<1>12. SizeKnown(m) /\ ClosedForReason(m) /\ NotEmpty(m)
  BY <1>2, <1>6 DEF Good, SizeKnown, ClosedForReason, NotEmpty, con
<1> QED
  BY <1>6, <1>9, <1>10, <1>11, <1>12 DEF Good, InPlace, m, a

\* Only part of a chunk reached the file.
LEMMA PartialIsGood ==
  ASSUME NEW l, Good(l), NEW n \in Nat, "write" \in Faults
  PROVE  /\ Good([Failing(l, "write") EXCEPT !.size = @ + n])
         /\ [Failing(l, "write") EXCEPT !.size = @ + n].accepted = l.accepted
         /\ [Failing(l, "write") EXCEPT !.size = @ + n].faulted = l.faulted \cup {"write"}
         /\ [Failing(l, "write") EXCEPT !.size = @ + n].backups = l.backups
<1> DEFINE m == [Failing(l, "write") EXCEPT !.size = @ + n]
<1>1. l \in Logs /\ l.size + n \in Nat
  BY DEF Good, Logs
<1>2. m = [l EXCEPT !.faulted = l.faulted \cup {"write"}, !.size = l.size + n]
  BY <1>1 DEF Failing, Logs
<1> HIDE DEF m
<1>3. /\ m \in Logs /\ m.faulted = l.faulted \cup {"write"} /\ SameChunks(l, m)
      /\ m.currentFile = l.currentFile /\ m.currentSize = l.currentSize
  BY <1>1, <1>2 DEF SameChunks, Logs
<1>4. InPlace(m)
  BY <1>3, SameInPlace DEF Good
<1>5. SizeKnown(m) /\ ClosedForReason(m) /\ NotEmpty(m)
  BY <1>3 DEF Good, SizeKnown, ClosedForReason, NotEmpty, SameChunks
<1> QED
  BY <1>3, <1>4, <1>5 DEF Good, SameChunks, m

\* Writing to stdout failed.
LEMMA FailingIsGood ==
  ASSUME NEW l, Good(l), NEW f \in Faults
  PROVE  /\ Good(Failing(l, f))
         /\ Failing(l, f).accepted = l.accepted
         /\ Failing(l, f).faulted = l.faulted \cup {f}
<1> DEFINE m == Failing(l, f)
<1>1. l \in Logs
  BY DEF Good
<1>2. /\ m \in Logs /\ m.faulted = l.faulted \cup {f} /\ SameChunks(l, m)
      /\ m.currentFile = l.currentFile /\ m.currentSize = l.currentSize /\ m.size = l.size
  BY <1>1 DEF Failing, SameChunks, Logs
<1> HIDE DEF m
<1>3. InPlace(m)
  BY <1>2, SameInPlace DEF Good
<1>4. SizeKnown(m) /\ ClosedForReason(m) /\ NotEmpty(m)
  BY <1>2 DEF Good, SizeKnown, ClosedForReason, NotEmpty, SameChunks
<1> QED
  BY <1>2, <1>3, <1>4 DEF Good, SameChunks, m

-----------------------------------------------------------------------------
(* The inductive invariant.                                                *)

\* What a copier is about to write to stdout is in the log.
HeldIsLogged ==
  \A s \in Stream : copier[s] = "logged" => held[s] \in 1 .. log.accepted

LogInv == TypeOK /\ Good(log) /\ HeldIsLogged /\ PrintedIsLogged /\ CutOffHasCause

\* A log stays good if neither time nor CloseAll intervenes.
LEMMA InPlaceNext ==
  ASSUME NEW m, InPlace(m), log' = m, now' = now
  PROVE  InPlace(log)'
BY DEF InPlace, Sorted, OldestGone, AllKept, DiskOf, IsFilled

LEMMA GoodNext ==
  ASSUME NEW m, Good(m), log' = m, now' = now, closed' = closed
  PROVE  Good(log)'
<1>1. InPlace(log)'
  BY InPlaceNext DEF Good
<1> QED
  BY <1>1 DEF Good, SizeKnown, ClosedForReason, NotEmpty

LEMMA InitEstablishes == Init => LogInv
<1> SUFFICES ASSUME Init PROVE LogInv
  OBVIOUS
<1>1. PICK s \in 0 .. MaxSize :
        log = [currentFile |-> "open", currentSize |-> s, size |-> s,
               content |-> IF s = 0 THEN {} ELSE {0}, backups |-> [t \in {} |-> {}],
               removed |-> {}, overwritten |-> {}, accepted |-> 0, faulted |-> {}]
  BY DEF Init
<1> DEFINE b == [t \in {} |-> {}]
           con == IF s = 0 THEN {} ELSE {0}
<1>2. DOMAIN b = {} /\ b \in UNION {[S -> SUBSET Chunk] : S \in SUBSET Second}
  <2>1. b \in [{} -> SUBSET Chunk]
    OBVIOUS
  <2> QED
    BY <2>1
<1>3. con \in SUBSET Chunk /\ (s # 0 => con # {}) /\ \A c \in con : c = 0
  BY BoundsAssumption DEF Chunk
<1>4. 0 \in Chunk /\ s \in Nat
  BY BoundsAssumption, SizesAssumption DEF Chunk
<1>5. log = [currentFile |-> "open", currentSize |-> s, size |-> s, content |-> con,
             backups |-> b, removed |-> {}, overwritten |-> {}, accepted |-> 0,
             faulted |-> {}]
  BY <1>1
<1> HIDE DEF b, con
<1>6. log \in Logs
  BY <1>2, <1>3, <1>4, <1>5 DEF Logs
<1>7. DiskOf(log) = con
  BY <1>2, <1>5 DEF DiskOf
<1>8. InPlace(log)
  BY <1>2, <1>3, <1>5, <1>7 DEF InPlace, Sorted, OldestGone, AllKept, IsFilled
<1>9. SizeKnown(log) /\ ClosedForReason(log) /\ NotEmpty(log)
  BY <1>2, <1>3, <1>4, <1>5, FS_EmptySet, MaxBackupsAssumption
     DEF SizeKnown, ClosedForReason, NotEmpty
<1>10. TypeOK
  <2>1. now \in Second /\ closed \in BOOLEAN /\ printed \subseteq Chunk
    <3>1. now = 0 /\ closed = FALSE /\ printed = {}
      BY DEF Init
    <3>2. 0 \in Second
      BY BoundsAssumption DEF Second
    <3> QED
      BY <3>1, <3>2, Zenon
  <2>2. copier \in [Stream -> {"reading", "logged", "broken"}] /\ held \in [Stream -> Chunk]
    BY <1>4 DEF Init
  <2> QED
    BY <1>6, <2>1, <2>2 DEF TypeOK
<1> QED
  BY <1>6, <1>8, <1>9, <1>10 DEF Init, LogInv, Good, HeldIsLogged, PrintedIsLogged, CutOffHasCause

LEMMA WriteAcceptedKeeps ==
  ASSUME LogInv, NEW s \in Stream, NEW k \in Sizes, WriteAccepted(s, k)
  PROVE  LogInv'
<1>1. PICK l \in Rotated(log, k) : l.currentFile = "open" /\ log' = Appended(l, k)
  BY DEF WriteAccepted, Appended
<1>2. /\ k \in 1 .. MaxSize /\ now \in Second /\ Good(log) /\ log.accepted < MaxChunks
      /\ now' = now /\ closed' = closed
  BY SizesAssumption DEF LogInv, TypeOK, WriteAccepted
<1>3. /\ Good(l) /\ l.accepted = log.accepted /\ log.faulted \subseteq l.faulted
      /\ l.currentSize + k <= MaxSize
  BY <1>1, <1>2, RotatedIsGood
<1>4. PICK m : m = Appended(l, k)
  OBVIOUS
<1>5. Good(m) /\ m.accepted = log.accepted + 1 /\ m.faulted = l.faulted /\ log' = m
  BY <1>1, <1>2, <1>3, <1>4, AppendedIsGood
<1>6. Good(log)'
  BY <1>2, <1>5, GoodNext
<1>7. log.accepted \in Nat /\ m.accepted \in Chunk /\ m \in Logs
  BY <1>2, <1>5, BoundsAssumption DEF Good, Logs, Chunk
<1>8. /\ held' = [held EXCEPT ![s] = m.accepted]
      /\ copier' = [copier EXCEPT ![s] = "logged"] /\ printed' = printed
  BY <1>5 DEF WriteAccepted, CopierGoes
<1>9. TypeOK'
  BY <1>2, <1>5, <1>7, <1>8 DEF LogInv, TypeOK
<1>10. HeldIsLogged'
  BY <1>5, <1>7, <1>8 DEF LogInv, TypeOK, HeldIsLogged
<1>11. PrintedIsLogged'
  BY <1>5, <1>7, <1>8 DEF LogInv, PrintedIsLogged
<1>12. CutOffHasCause'
  <2>1. \A u \in Stream : copier'[u] = "broken" => copier[u] = "broken"
    BY <1>8 DEF LogInv, TypeOK
  <2> QED
    BY <1>2, <1>3, <1>5, <2>1 DEF LogInv, CutOffHasCause
<1> QED
  BY <1>6, <1>9, <1>10, <1>11, <1>12 DEF LogInv

LEMMA WriteFailsKeeps ==
  ASSUME LogInv, NEW s \in Stream, NEW k \in Sizes, WriteFails(s, k)
  PROVE  LogInv'
<1>1. /\ k \in 1 .. MaxSize /\ now \in Second /\ Good(log)
      /\ now' = now /\ closed' = closed /\ held' = held /\ printed' = printed
      /\ copier' = [copier EXCEPT ![s] = "broken"]
  BY SizesAssumption DEF LogInv, TypeOK, WriteFails, CopierGoes
<1>2. PICK l \in Rotated(log, k) :
        \/ l.currentFile = "closed" /\ log' = l
        \/ /\ "write" \in Faults
           /\ \E n \in 0 .. k - 1 : log' = [Failing(l, "write") EXCEPT !.size = @ + n]
  BY DEF WriteFails, CanFail
<1>3. Good(l) /\ l.accepted = log.accepted /\ log.faulted \subseteq l.faulted
  BY <1>1, RotatedIsGood
<1>4. PICK m : /\ log' = m /\ Good(m) /\ m.accepted = log.accepted
               /\ log.faulted \subseteq m.faulted
               /\ closed \/ m.faulted \ {"glob", "stat", "remove"} # {}
  <2>1. CASE l.currentFile = "closed" /\ log' = l
    BY <1>3, <2>1 DEF Good, ClosedForReason
  <2>2. CASE "write" \in Faults
             /\ \E n \in 0 .. k - 1 : log' = [Failing(l, "write") EXCEPT !.size = @ + n]
    <3>1. PICK n \in 0 .. k - 1 : log' = [Failing(l, "write") EXCEPT !.size = @ + n]
      BY <2>2
    <3>2. n \in Nat
      BY <1>1
    <3>3. PICK m : m = [Failing(l, "write") EXCEPT !.size = @ + n]
      OBVIOUS
    <3>4. Good(m) /\ m.accepted = l.accepted /\ m.faulted = l.faulted \cup {"write"}
      BY <1>3, <2>2, <3>2, <3>3, PartialIsGood
    <3>5. log' = m /\ m.accepted = log.accepted
      BY <1>3, <3>1, <3>3, <3>4
    <3>6. log.faulted \subseteq m.faulted /\ "write" \in m.faulted \ {"glob", "stat", "remove"}
      BY <1>3, <3>4
    <3> QED
      BY <3>4, <3>5, <3>6
  <2> QED
    BY <1>2, <2>1, <2>2
<1>5. Good(log)'
  BY <1>1, <1>4, GoodNext
<1>6. TypeOK'
  BY <1>1, <1>4 DEF LogInv, TypeOK, Good
<1>7. HeldIsLogged' /\ PrintedIsLogged'
  BY <1>1, <1>4 DEF LogInv, TypeOK, HeldIsLogged, PrintedIsLogged
<1>8. CutOffHasCause'
  BY <1>1, <1>4 DEF CutOffHasCause
<1> QED
  BY <1>5, <1>6, <1>7, <1>8 DEF LogInv

LEMMA MirrorKeeps ==
  ASSUME LogInv, NEW s \in Stream, Mirror(s)
  PROVE  LogInv'
<1>1. now' = now /\ closed' = closed /\ held' = held /\ copier[s] = "logged"
  BY DEF Mirror
<1>2. CASE /\ printed' = printed \cup {held[s]} /\ log' = log
           /\ copier' = [copier EXCEPT ![s] = "reading"]
  <2>1. Good(log)'
    BY <1>1, <1>2, GoodNext DEF LogInv
  <2>2. TypeOK'
    BY <1>1, <1>2 DEF LogInv, TypeOK
  <2>3. HeldIsLogged' /\ PrintedIsLogged'
    BY <1>1, <1>2 DEF LogInv, TypeOK, HeldIsLogged, PrintedIsLogged
  <2>4. CutOffHasCause'
    BY <1>1, <1>2 DEF LogInv, TypeOK, CutOffHasCause
  <2> QED
    BY <2>1, <2>2, <2>3, <2>4 DEF LogInv
<1>3. CASE /\ "stdout" \in Faults /\ log' = Failing(log, "stdout") /\ printed' = printed
           /\ copier' = [copier EXCEPT ![s] = "broken"]
  <2>1. PICK m : m = Failing(log, "stdout")
    OBVIOUS
  <2>2. Good(m) /\ m.accepted = log.accepted /\ m.faulted = log.faulted \cup {"stdout"}
    BY <1>3, <2>1, FailingIsGood DEF LogInv
  <2>3. Good(log)'
    BY <1>1, <1>3, <2>1, <2>2, GoodNext
  <2>4. TypeOK'
    BY <1>1, <1>3, <2>1, <2>2 DEF LogInv, TypeOK, Good
  <2>5. HeldIsLogged' /\ PrintedIsLogged'
    BY <1>1, <1>3, <2>1, <2>2 DEF LogInv, TypeOK, HeldIsLogged, PrintedIsLogged
  <2>6. CutOffHasCause'
    BY <1>1, <1>3, <2>1, <2>2 DEF CutOffHasCause
  <2> QED
    BY <2>3, <2>4, <2>5, <2>6 DEF LogInv
<1> QED
  BY <1>2, <1>3 DEF Mirror, CopierGoes, CanFail

LEMMA CloseAllKeeps ==
  ASSUME LogInv, CloseAll
  PROVE  LogInv'
<1>1. /\ closed' = TRUE /\ now' = now /\ copier' = copier /\ held' = held
      /\ printed' = printed /\ log' = [log EXCEPT !.currentFile = "closed"]
  BY DEF CloseAll
<1>2. PICK m : m = [log EXCEPT !.currentFile = "closed"]
  OBVIOUS
<1>3. log \in Logs /\ Good(log)
  BY DEF LogInv, Good
<1>4. /\ m \in Logs /\ m.currentFile = "closed" /\ m.faulted = log.faulted
      /\ m.accepted = log.accepted /\ SameChunks(log, m) /\ log' = m
  BY <1>1, <1>2, <1>3 DEF SameChunks, Logs
<1>5. InPlace(m)
  BY <1>3, <1>4, SameInPlace DEF Good
<1>6. InPlace(log)'
  BY <1>1, <1>4, <1>5, InPlaceNext
<1>7. Good(log)'
  BY <1>1, <1>3, <1>4, <1>6
     DEF Good, SizeKnown, ClosedForReason, NotEmpty, SameChunks
<1>8. TypeOK'
  BY <1>1, <1>4 DEF LogInv, TypeOK
<1>9. HeldIsLogged' /\ PrintedIsLogged' /\ CutOffHasCause'
  BY <1>1, <1>4 DEF LogInv, HeldIsLogged, PrintedIsLogged, CutOffHasCause
<1> QED
  BY <1>7, <1>8, <1>9 DEF LogInv

LEMMA SecondPassesKeeps ==
  ASSUME LogInv, SecondPasses
  PROVE  LogInv'
<1>1. /\ now \in Int /\ now' = now + 1 /\ now' \in Second /\ log' = log /\ closed' = closed
      /\ copier' = copier /\ held' = held /\ printed' = printed
  BY BoundsAssumption DEF LogInv, TypeOK, SecondPasses, Second
<1>2. \A t \in DOMAIN log.backups : t <= now'
  <2>1. \A t \in DOMAIN log.backups : t \in Second
    BY BackupsTyped, Zenon DEF LogInv, TypeOK
  <2>2. \A t \in DOMAIN log.backups : t <= now
    BY DEF LogInv, Good, InPlace, Sorted
  <2> QED
    BY <1>1, <2>1, <2>2 DEF Second
<1>3. InPlace(log)'
  BY <1>1, <1>2 DEF LogInv, Good, InPlace, Sorted, OldestGone, AllKept, DiskOf, IsFilled
<1>4. Good(log)'
  BY <1>1, <1>3 DEF LogInv, Good, SizeKnown, ClosedForReason, NotEmpty
<1>5. TypeOK' /\ HeldIsLogged' /\ PrintedIsLogged' /\ CutOffHasCause'
  BY <1>1 DEF LogInv, TypeOK, HeldIsLogged, PrintedIsLogged, CutOffHasCause
<1> QED
  BY <1>4, <1>5 DEF LogInv

LEMMA LogInvariant == Spec => []LogInv
<1>1. Init => LogInv
  BY InitEstablishes
<1>2. LogInv /\ [Next]_vars => LogInv'
  <2> SUFFICES ASSUME LogInv, [Next]_vars PROVE LogInv'
    OBVIOUS
  <2>1. CASE \E s \in Stream, k \in Sizes : WriteAccepted(s, k) \/ WriteFails(s, k)
    BY <2>1, WriteAcceptedKeeps, WriteFailsKeeps
  <2>2. CASE \E s \in Stream : Mirror(s)
    BY <2>2, MirrorKeeps
  <2>3. CASE NewCommand
    <3>1. Good(log)'
      BY <2>3, GoodNext DEF LogInv, NewCommand
    <3>2. TypeOK' /\ HeldIsLogged' /\ PrintedIsLogged' /\ CutOffHasCause'
      BY <2>3 DEF LogInv, NewCommand, TypeOK, HeldIsLogged, PrintedIsLogged, CutOffHasCause
    <3> QED
      BY <3>1, <3>2 DEF LogInv
  <2>4. CASE CloseAll
    BY <2>4, CloseAllKeeps
  <2>5. CASE SecondPasses
    BY <2>5, SecondPassesKeeps
  <2>6. CASE UNCHANGED vars
    <3>1. Good(log)'
      BY <2>6, GoodNext DEF LogInv, vars
    <3>2. TypeOK' /\ HeldIsLogged' /\ PrintedIsLogged' /\ CutOffHasCause'
      BY <2>6 DEF LogInv, vars, TypeOK, HeldIsLogged, PrintedIsLogged, CutOffHasCause
    <3> QED
      BY <3>1, <3>2 DEF LogInv
  <2> QED
    BY <2>1, <2>2, <2>3, <2>4, <2>5, <2>6 DEF Next
<1> QED
  BY <1>1, <1>2, PTL DEF Spec

-----------------------------------------------------------------------------
(* The results.                                                            *)

\* Every variable keeps its type; in particular no backup carries a time
\* that has not come (logging.go:150).
THEOREM LogTyping == Spec => []TypeOK
BY LogInvariant, PTL DEF LogInv

\* Output the log has accepted is on disk, was removed by the retention or was
\* replaced by a second rotation within a second, whatever fails
\* (logging.go:150-158).
THEOREM NothingLostSilently == Spec => []AcceptedIsKept
<1>1. LogInv => AcceptedIsKept
  BY DEF LogInv, Good, InPlace, AllKept, DiskOf, AcceptedIsKept, OnDisk
<1> QED
  BY <1>1, LogInvariant, PTL

\* The retention removes older output before newer output, unless a backup
\* could not be looked up (logging.go:196-218).
THEOREM RetentionIsByAge == Spec => []OldestRemovedFirst
<1>1. LogInv => OldestRemovedFirst
  BY DEF LogInv, Good, InPlace, OldestGone, DiskOf, OldestRemovedFirst, OnDisk
<1> QED
  BY <1>1, LogInvariant, PTL

\* A rotation leaves at most maxBackups backups, however many there were,
\* unless Glob, or looking up or removing one of them, fails
\* (logging.go:178-218).
THEOREM RetentionBounds == Spec => BackupsBounded
<1>1. LogInv /\ [Next]_vars
        => [log'.backups # log.backups => FewBackups(log, log')]_vars
  <2> SUFFICES ASSUME LogInv, Next, log'.backups # log.backups
               PROVE  FewBackups(log, log')
    OBVIOUS
  <2>1. Good(log) /\ log \in Logs /\ now \in Second
    BY DEF LogInv, Good, TypeOK
  <2>2. PICK s \in Stream, k \in Sizes : WriteAccepted(s, k) \/ WriteFails(s, k)
    <3>1. Failing(log, "stdout").backups = log.backups
          /\ [log EXCEPT !.currentFile = "closed"].backups = log.backups
      BY <2>1 DEF Failing, Logs
    <3> QED
      BY <3>1 DEF Next, Mirror, NewCommand, CloseAll, SecondPasses
  <2>3. k \in 1 .. MaxSize
    BY SizesAssumption
  <2>4. ASSUME NEW l \in Rotated(log, k), log'.backups = l.backups,
               \/ log'.faulted = l.faulted
               \/ log'.faulted = l.faulted \cup {"write"}
        PROVE  FewBackups(log, log')
    BY <2>1, <2>3, <2>4, RotatedIsGood DEF FewBackups
  <2>5. CASE WriteAccepted(s, k)
    <3>1. PICK l \in Rotated(log, k) : l.currentFile = "open" /\ log' = Appended(l, k)
      BY <2>5 DEF WriteAccepted, Appended
    <3>2. /\ Good(l) /\ l.accepted = log.accepted /\ l.currentSize + k <= MaxSize
          /\ log.accepted < MaxChunks
      BY <2>1, <2>3, <2>5, <3>1, RotatedIsGood DEF WriteAccepted
    <3> QED
      BY <2>3, <2>4, <3>1, <3>2, AppendedIsGood
  <2>6. CASE WriteFails(s, k)
    <3>1. PICK l \in Rotated(log, k) :
            \/ l.currentFile = "closed" /\ log' = l
            \/ /\ "write" \in Faults
               /\ \E n \in 0 .. k - 1 : log' = [Failing(l, "write") EXCEPT !.size = @ + n]
      BY <2>6 DEF WriteFails, CanFail
    <3>2. Good(l)
      BY <2>1, <2>3, RotatedIsGood
    <3>3. ASSUME "write" \in Faults, NEW n \in 0 .. k - 1,
                 log' = [Failing(l, "write") EXCEPT !.size = @ + n]
          PROVE  FewBackups(log, log')
      <4>1. n \in Nat
        BY <2>3
      <4>2. /\ log'.faulted = l.faulted \cup {"write"}
            /\ log'.backups = l.backups
        BY <3>2, <3>3, <4>1, PartialIsGood
      <4> QED
        BY <2>4, <4>2
    <3> QED
      BY <2>4, <3>1, <3>3
  <2> QED
    BY <2>2, <2>5, <2>6
<1> QED
  BY <1>1, LogInvariant, PTL DEF Spec, BackupsBounded, FewBackups

\* The open file is no longer than maxSize and pl.currentSize knows its
\* length, unless a write was cut short (logging.go:124, 136, 173).
THEOREM FileStaysSmall == Spec => []SizeIsTracked
<1>1. LogInv => SizeIsTracked
  <2> SUFFICES ASSUME LogInv PROVE SizeIsTracked
    OBVIOUS
  <2>1. log.currentSize \in 0 .. MaxSize
    BY DEF LogInv, Good, Logs
  <2> QED
    BY <2>1, SizesAssumption DEF LogInv, Good, SizeKnown, SizeIsTracked
<1> QED
  BY <1>1, LogInvariant, PTL

\* The supervisor prints nothing that the log does not have
\* (logging.go:243-251).
THEOREM LogHasWhatIsPrinted == Spec => []PrintedIsLogged
BY LogInvariant, PTL DEF LogInv

\* A child loses its output only because the file or stdout failed or
\* CloseAll was called (logging.go:161-164, 243-251).
THEOREM OutputIsCutOffForCause == Spec => []CutOffHasCause
BY LogInvariant, PTL DEF LogInv
=============================================================================
