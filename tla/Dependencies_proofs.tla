-------------------------- MODULE Dependencies_proofs --------------------------
(***************************************************************************)
(* Proofs about the two algorithms on the configured dependencies, for any *)
(* number of processes and any dependency lists.                           *)
(***************************************************************************)
EXTENDS Dependencies, FiniteSetTheorems, SequenceTheorems, TLAPS

-----------------------------------------------------------------------------
(* The search for a cycle.                                                 *)

\* The processes whose call of hasCycle has returned.
Finished == visited \ recStack

\* A call is at a position of its list; what it has passed is finished, but
\* for the dependency the call above it was made for.
PassedIsFinished ==
  \A i \in DOMAIN stack :
    /\ stack[i].next <= Len(dependsOn[stack[i].proc]) + 1
    /\ \A k \in 1 .. stack[i].next - 1 :
         \/ dependsOn[stack[i].proc][k] \in Finished
         \/ i < Len(stack) /\ k = stack[i].next - 1

\* No process is active twice.
ActiveOnce ==
  \A i, j \in DOMAIN stack : stack[i].proc = stack[j].proc => i = j

\* Whatever a finished process depends on is finished, and none of them lead
\* into a circle.
FinishedIsAcyclic ==
  /\ \A p \in Finished, q \in Proc : DependsOn(dependsOn, p, q) => q \in Finished
  /\ \A S \in SUBSET Finished : ~Circle(dependsOn, S)

VerdictInv ==
  /\ verdict = "valid" => visited = Proc /\ stack = <<>>
  /\ verdict = "circular" => Circular(dependsOn)

SearchInv ==
  /\ CheckTypeOK
  /\ StackIsPath
  /\ ActiveOnce
  /\ PassedIsFinished
  /\ FinishedIsAcyclic
  /\ VerdictInv

\* The stack without its topmost call.
LEMMA BelowIs ==
  ASSUME stack \in Seq(Frame), stack # <<>>
  PROVE  /\ Len(stack) \in Nat \ {0}
         /\ Top \in Frame
         /\ Below \in Seq(Frame)
         /\ Len(Below) = Len(stack) - 1
         /\ \A i \in 1 .. Len(stack) - 1 : Below[i] = stack[i]
<1>1. Len(stack) \in Nat \ {0}
  OBVIOUS
<1>2. Top \in Frame
  BY <1>1 DEF Top
<1> DEFINE m == Len(stack) - 1
<1>3. m \in Nat /\ \A i \in 1 .. m : stack[i] \in Frame
  BY <1>1
<1>4. /\ SubSeq(stack, 1, m) \in Seq(Frame)
      /\ Len(SubSeq(stack, 1, m)) = m
      /\ \A i \in 1 .. m : SubSeq(stack, 1, m)[i] = stack[i]
  <2> HIDE DEF m
  <2>1. m - 1 + 1 = m /\ \A i \in 1 .. m : 1 + i - 1 = i
    BY <1>3
  <2>2. (IF 1 <= m THEN m - 1 + 1 ELSE 0) = m
    BY <1>3
  <2>3. /\ SubSeq(stack, 1, m) \in Seq(Frame)
        /\ Len(SubSeq(stack, 1, m)) = IF 1 <= m THEN m - 1 + 1 ELSE 0
        /\ \A i \in 1 .. m - 1 + 1 : SubSeq(stack, 1, m)[i] = stack[1 + i - 1]
    BY <1>3, SubSeqProperties
  <2> QED
    BY <2>1, <2>2, <2>3
<1> QED
  BY <1>1, <1>2, <1>4 DEF Below

\* The stack after the loop of the topmost call has gone on.
LEMMA AdvancedIs ==
  ASSUME stack \in Seq(Frame), stack # <<>>
  PROVE  /\ Advanced \in Seq(Frame)
         /\ Len(Advanced) = Len(stack)
         /\ \A i \in 1 .. Len(stack) - 1 : Advanced[i] = stack[i]
         /\ Advanced[Len(stack)].proc = Top.proc
         /\ Advanced[Len(stack)].next = Top.next + 1
<1> DEFINE f == [Top EXCEPT !.next = @ + 1]
<1>1. f \in Frame /\ f.proc = Top.proc /\ f.next = Top.next + 1
  <2>1. Top \in [proc : Proc, next : Nat \ {0}]
    BY BelowIs DEF Frame
  <2>2. Top.proc \in Proc /\ Top.next \in Nat \ {0} /\ Top.next + 1 \in Nat \ {0}
    BY <2>1
  <2>3. f = [proc |-> Top.proc, next |-> Top.next + 1]
    BY <2>1
  <2> QED
    BY <2>2, <2>3 DEF Frame
<1> HIDE DEF f
<1>2. /\ Append(Below, f) \in Seq(Frame)
      /\ Len(Append(Below, f)) = Len(stack)
      /\ \A i \in 1 .. Len(stack) - 1 : Append(Below, f)[i] = stack[i]
      /\ Append(Below, f)[Len(stack)] = f
  <2> DEFINE b == Below
  <2>1. b \in Seq(Frame) /\ Len(b) = Len(stack) - 1 /\ Len(stack) \in Nat
        /\ \A i \in 1 .. Len(stack) - 1 : b[i] = stack[i]
    BY BelowIs
  <2> HIDE DEF b
  <2>2. /\ Append(b, f) \in Seq(Frame)
        /\ Len(Append(b, f)) = Len(b) + 1
        /\ \A i \in 1 .. Len(b) : Append(b, f)[i] = b[i]
        /\ Append(b, f)[Len(b) + 1] = f
    BY <1>1, <2>1, AppendProperties
  <2>3. Len(b) + 1 = Len(stack)
    BY <2>1
  <2> QED
    BY <2>1, <2>2, <2>3 DEF b
<1>3. Advanced = Append(Below, f)
  BY DEF Advanced, f
<1> QED
  BY <1>1, <1>2, <1>3

\* A call on top of others.
LEMMA PushIs ==
  ASSUME NEW b \in Seq(Frame), NEW p \in Proc,
         NEW s, s = Append(b, [proc |-> p, next |-> 1])
  PROVE  /\ s \in Seq(Frame)
         /\ Len(s) = Len(b) + 1
         /\ \A i \in 1 .. Len(b) : s[i] = b[i]
         /\ s[Len(b) + 1].proc = p
         /\ s[Len(b) + 1].next = 1
<1> DEFINE f == [proc |-> p, next |-> 1]
<1>1. f \in Frame /\ f.proc = p /\ f.next = 1
  BY DEF Frame
<1> HIDE DEF f
<1>2. s = Append(b, f)
  BY DEF f
<1> QED
  BY <1>1, <1>2, AppendProperties

\* The frames and lists are what the types say.
LEMMA FrameFacts ==
  ASSUME CheckTypeOK
  PROVE  /\ \A i \in DOMAIN stack : /\ stack[i].proc \in Proc
                                    /\ stack[i].next \in Nat \ {0}
         /\ DOMAIN stack = 1 .. Len(stack)
         /\ Len(stack) \in Nat
         /\ \A p \in Proc : /\ dependsOn[p] \in Seq(Proc)
                            /\ Len(dependsOn[p]) \in Nat
                            /\ DOMAIN dependsOn[p] = 1 .. Len(dependsOn[p])
<1>1. /\ stack \in Seq(Frame)
      /\ dependsOn \in [Proc -> Seq(Proc)]
  BY GraphsAssumption DEF CheckTypeOK
<1>2. Len(stack) \in Nat /\ DOMAIN stack = 1 .. Len(stack)
  BY <1>1
<1>3. \A i \in DOMAIN stack : stack[i] \in Frame
  BY <1>1
<1>4. \A f \in Frame : f.proc \in Proc /\ f.next \in Nat \ {0}
  BY DEF Frame
<1>5. ASSUME NEW p \in Proc
      PROVE  /\ dependsOn[p] \in Seq(Proc)
             /\ Len(dependsOn[p]) \in Nat
             /\ DOMAIN dependsOn[p] = 1 .. Len(dependsOn[p])
  BY <1>1
<1> QED
  BY <1>2, <1>3, <1>4, <1>5

LEMMA CallRootKeepsSearchInv ==
  ASSUME SearchInv, NEW p \in Proc, CallRoot(p)
  PROVE  SearchInv'
<1>1. /\ verdict = "none" /\ stack = <<>> /\ p \notin visited
      /\ visited' = visited \cup {p}
      /\ recStack' = recStack \cup {p}
      /\ stack' = Append(stack, [proc |-> p, next |-> 1])
      /\ UNCHANGED <<dependsOn, verdict>>
  BY DEF CallRoot, Call
<1>2. recStack = {}
  BY <1>1 DEF SearchInv, StackIsPath
<1>3. /\ stack' \in Seq(Frame)
      /\ Len(stack') = 1 /\ DOMAIN stack' = {1}
      /\ stack'[1].proc = p
      /\ stack'[1].next = 1
  <2> DEFINE e == stack
             f == [proc |-> p, next |-> 1]
  <2>1. e \in Seq(Frame) /\ Len(e) = 0
    BY <1>1
  <2>2. f \in Frame /\ f.proc = p /\ f.next = 1
    BY DEF Frame
  <2>3. stack' = Append(e, f)
    BY <1>1
  <2> HIDE DEF e, f
  <2>4. /\ stack' \in Seq(Frame)
        /\ Len(stack') = Len(e) + 1
        /\ stack'[Len(e) + 1] = f
    BY <2>1, <2>2, <2>3, AppendProperties
  <2>5. Len(stack') = 1 /\ stack'[1] = f
    BY <2>1, <2>4
  <2>6. DOMAIN stack' = 1 .. Len(stack')
    BY <2>4
  <2>7. DOMAIN stack' = {1}
    BY <2>5, <2>6
  <2> QED
    BY <2>2, <2>4, <2>5, <2>7
<1>4. Finished' = Finished
  BY <1>1, <1>2 DEF Finished
<1>5. CheckTypeOK'
  BY <1>1, <1>3 DEF SearchInv, CheckTypeOK
<1>6. StackIsPath' /\ ActiveOnce'
  BY <1>1, <1>2, <1>3 DEF StackIsPath, ActiveOnce
<1>7. PassedIsFinished'
  <2>1. Len(dependsOn[p]) \in Nat
    BY FrameFacts DEF SearchInv
  <2> QED
    BY <1>1, <1>3, <2>1 DEF PassedIsFinished
<1>8. FinishedIsAcyclic' /\ VerdictInv'
  BY <1>1, <1>4 DEF SearchInv, FinishedIsAcyclic, VerdictInv
<1> QED
  BY <1>5, <1>6, <1>7, <1>8 DEF SearchInv

LEMMA DescendKeepsSearchInv ==
  ASSUME SearchInv, Descend
  PROVE  SearchInv'
<1> DEFINE n == Len(stack)
<1>1. /\ verdict = "none" /\ stack # <<>> /\ Top.next <= Len(dependsOn[Top.proc])
      /\ Dep \notin visited
      /\ visited' = visited \cup {Dep}
      /\ recStack' = recStack \cup {Dep}
      /\ stack' = Append(Advanced, [proc |-> Dep, next |-> 1])
      /\ UNCHANGED <<dependsOn, verdict>>
  BY DEF Descend, Looking, Call, TopDeps
<1>2. CheckTypeOK /\ stack \in Seq(Frame)
  BY DEF SearchInv, CheckTypeOK
<1>3. /\ n \in Nat \ {0} /\ Top = stack[n] /\ n \in DOMAIN stack
      /\ DOMAIN stack = 1 .. n
      /\ Top.proc \in Proc /\ Top.next \in Nat \ {0}
      /\ dependsOn[Top.proc] \in Seq(Proc)
  BY <1>1, <1>2, BelowIs, FrameFacts DEF Top
<1>4. Dep \in Proc /\ Dep = dependsOn[Top.proc][Top.next]
  BY <1>1, <1>3 DEF Dep, TopDeps
<1>5. /\ stack' \in Seq(Frame)
      /\ Len(stack') = n + 1 /\ DOMAIN stack' = 1 .. n + 1
      /\ \A i \in 1 .. n - 1 : stack'[i] = stack[i]
      /\ stack'[n].proc = Top.proc /\ stack'[n].next = Top.next + 1
      /\ stack'[n + 1].proc = Dep /\ stack'[n + 1].next = 1
  <2> DEFINE b == Advanced
             d == Dep
  <2>1. /\ b \in Seq(Frame) /\ Len(b) = n
        /\ \A i \in 1 .. n - 1 : b[i] = stack[i]
        /\ b[n].proc = Top.proc /\ b[n].next = Top.next + 1
    BY <1>1, <1>2, AdvancedIs
  <2>2. d \in Proc /\ stack' = Append(b, [proc |-> d, next |-> 1])
    BY <1>1, <1>4
  <2> HIDE DEF b, d
  <2>3. /\ stack' \in Seq(Frame)
        /\ Len(stack') = Len(b) + 1
        /\ \A i \in 1 .. Len(b) : stack'[i] = b[i]
        /\ stack'[Len(b) + 1].proc = d
        /\ stack'[Len(b) + 1].next = 1
    BY <2>1, <2>2, PushIs
  <2>4. stack' \in Seq(Frame) /\ Len(stack') = n + 1 /\ DOMAIN stack' = 1 .. n + 1
    BY <2>1, <2>3
  <2>5. \A i \in 1 .. n : stack'[i] = b[i]
    BY <2>1, <2>3
  <2>6. \A i \in 1 .. n - 1 : stack'[i] = stack[i]
    BY <1>3, <2>1, <2>5
  <2>7. stack'[n] = b[n]
    BY <1>3, <2>5
  <2> QED
    BY <2>1, <2>3, <2>4, <2>6, <2>7 DEF d
<1> HIDE DEF n
<1>6. Finished' = Finished
  BY <1>1 DEF Finished
<1>7. CheckTypeOK'
  BY <1>1, <1>2, <1>4, <1>5 DEF CheckTypeOK
<1>8. StackIsPath'
  <2>1. recStack' = {stack'[i].proc : i \in DOMAIN stack'}
    <3>1. recStack = {stack[i].proc : i \in 1 .. n}
      BY <1>3 DEF SearchInv, StackIsPath
    <3>2. \A i \in 1 .. n : stack'[i].proc = stack[i].proc
      BY <1>3, <1>5
    <3>3. 1 .. n + 1 = (1 .. n) \cup {n + 1}
      BY <1>3
    <3>4. {stack'[i].proc : i \in 1 .. n + 1}
            = {stack'[i].proc : i \in 1 .. n} \cup {stack'[n + 1].proc}
      BY <3>3
    <3>5. {stack'[i].proc : i \in 1 .. n} = recStack
      BY <3>1, <3>2
    <3> QED
      BY <1>1, <1>5, <3>4, <3>5
  <2>2. recStack' \subseteq visited'
    BY <1>1 DEF SearchInv, StackIsPath
  <2>3. ASSUME NEW i \in 1 .. Len(stack') - 1
        PROVE  /\ stack'[i].next > 1
               /\ dependsOn'[stack'[i].proc][stack'[i].next - 1] = stack'[i + 1].proc
    <3>1. i \in 1 .. n
      BY <1>3, <1>5
    <3>2. CASE i = n
      <4>1. /\ stack'[i].proc = Top.proc /\ stack'[i].next = Top.next + 1
            /\ stack'[i + 1].proc = Dep
        BY <1>5, <3>2
      <4>2. stack'[i].next - 1 = Top.next /\ stack'[i].next > 1
        BY <1>3, <4>1
      <4> QED
        BY <1>1, <1>4, <4>1, <4>2
    <3>3. CASE i # n
      <4>1. i \in 1 .. Len(stack) - 1 /\ i \in 1 .. n - 1 /\ i + 1 \in 1 .. n
        BY <1>3, <3>1, <3>3 DEF n
      <4>2. /\ stack[i].next > 1
            /\ dependsOn[stack[i].proc][stack[i].next - 1] = stack[i + 1].proc
        BY <4>1 DEF SearchInv, StackIsPath
      <4>3. stack'[i] = stack[i] /\ stack'[i + 1].proc = stack[i + 1].proc
        BY <1>3, <1>5, <4>1
      <4> QED
        BY <1>1, <4>2, <4>3
    <3> QED
      BY <3>2, <3>3
  <2> QED
    BY <2>1, <2>2, <2>3 DEF StackIsPath
<1>9. ActiveOnce'
  <2> SUFFICES ASSUME NEW i \in 1 .. n + 1, NEW j \in 1 .. n + 1, stack'[i].proc = stack'[j].proc
               PROVE  i = j
    BY <1>5 DEF ActiveOnce
  <2>1. \A k \in 1 .. n : stack'[k].proc = stack[k].proc /\ stack[k].proc # Dep
    <3>1. \A k \in 1 .. n : stack'[k].proc = stack[k].proc
      BY <1>3, <1>5
    <3>2. \A k \in 1 .. n : stack[k].proc \in recStack
      BY <1>3 DEF SearchInv, StackIsPath
    <3> QED
      BY <1>1, <3>1, <3>2 DEF SearchInv, StackIsPath
  <2>2. CASE i \in 1 .. n /\ j \in 1 .. n
    BY <1>3, <2>1, <2>2 DEF SearchInv, ActiveOnce
  <2>3. CASE i = n + 1 \/ j = n + 1
    BY <1>3, <1>5, <2>1, <2>3
  <2> QED
    BY <1>3, <2>2, <2>3
<1>10. PassedIsFinished'
  <2> SUFFICES ASSUME NEW i \in 1 .. n + 1
               PROVE  /\ stack'[i].next <= Len(dependsOn[stack'[i].proc]) + 1
                      /\ \A k \in 1 .. stack'[i].next - 1 :
                           \/ dependsOn[stack'[i].proc][k] \in Finished
                           \/ i < n + 1 /\ k = stack'[i].next - 1
    BY <1>1, <1>5, <1>6 DEF PassedIsFinished
  <2>1. CASE i = n + 1
    <3>1. Len(dependsOn[Dep]) \in Nat
      BY <1>2, <1>4, FrameFacts
    <3> QED
      BY <1>5, <2>1, <3>1
  <2>2. CASE i = n
    <3>1. Len(dependsOn[Top.proc]) \in Nat
      BY <1>3
    <3>2. \A k \in 1 .. Top.next - 1 : dependsOn[Top.proc][k] \in Finished
      BY <1>3 DEF SearchInv, PassedIsFinished, n
    <3>3. \A k \in 1 .. Top.next : k \in 1 .. Top.next - 1 \/ k = Top.next
      BY <1>3
    <3>4. stack'[i].proc = Top.proc /\ stack'[i].next = Top.next + 1
      BY <1>5, <2>2
    <3>5. ASSUME NEW k \in 1 .. stack'[i].next - 1
          PROVE  \/ dependsOn[Top.proc][k] \in Finished
                 \/ i < n + 1 /\ k = stack'[i].next - 1
      BY <1>3, <2>2, <3>2, <3>3, <3>4
    <3>6. Top.next + 1 <= Len(dependsOn[Top.proc]) + 1
      BY <1>1, <1>3, <3>1
    <3> QED
      BY <3>4, <3>5, <3>6
  <2>3. CASE i \in 1 .. n - 1
    <3>1. stack'[i] = stack[i] /\ i \in DOMAIN stack /\ i < n + 1
      BY <1>3, <1>5, <2>3
    <3> QED
      BY <3>1 DEF SearchInv, PassedIsFinished
  <2> QED
    BY <1>3, <2>1, <2>2, <2>3
<1>11. FinishedIsAcyclic' /\ VerdictInv'
  BY <1>1, <1>6 DEF SearchInv, FinishedIsAcyclic, VerdictInv
<1> QED
  BY <1>7, <1>8, <1>9, <1>10, <1>11 DEF SearchInv
LEMMA SkipKeepsSearchInv ==
  ASSUME SearchInv, Skip
  PROVE  SearchInv'
<1> DEFINE n == Len(stack)
<1>1. /\ verdict = "none" /\ stack # <<>> /\ Top.next <= Len(dependsOn[Top.proc])
      /\ Dep \in Finished
      /\ stack' = Advanced
      /\ UNCHANGED <<dependsOn, visited, recStack, verdict>>
  BY DEF Skip, Looking, TopDeps, Finished
<1>2. CheckTypeOK /\ stack \in Seq(Frame)
  BY DEF SearchInv, CheckTypeOK
<1>3. /\ n \in Nat \ {0} /\ Top = stack[n] /\ n \in DOMAIN stack
      /\ DOMAIN stack = 1 .. n
      /\ Top.proc \in Proc /\ Top.next \in Nat \ {0}
      /\ dependsOn[Top.proc] \in Seq(Proc)
      /\ Dep = dependsOn[Top.proc][Top.next]
  BY <1>1, <1>2, BelowIs, FrameFacts DEF Top, Dep, TopDeps
<1>4. /\ stack' \in Seq(Frame)
      /\ Len(stack') = n /\ DOMAIN stack' = 1 .. n
      /\ \A i \in 1 .. n - 1 : stack'[i] = stack[i]
      /\ stack'[n].proc = Top.proc /\ stack'[n].next = Top.next + 1
  <2>1. /\ stack' \in Seq(Frame)
        /\ Len(stack') = n
        /\ \A i \in 1 .. n - 1 : stack'[i] = stack[i]
        /\ stack'[n].proc = Top.proc /\ stack'[n].next = Top.next + 1
    BY <1>1, <1>2, AdvancedIs
  <2>2. DOMAIN stack' = 1 .. Len(stack')
    BY <2>1
  <2> QED
    BY <2>1, <2>2
<1> HIDE DEF n
<1>5. Finished' = Finished
  BY <1>1 DEF Finished
<1>6. \A i \in 1 .. n : stack'[i].proc = stack[i].proc
  BY <1>3, <1>4
<1>7. CheckTypeOK'
  BY <1>1, <1>2, <1>4 DEF CheckTypeOK
<1>8. StackIsPath'
  <2>1. recStack' = {stack'[i].proc : i \in DOMAIN stack'}
    <3>1. recStack = {stack[i].proc : i \in 1 .. n}
      BY <1>3 DEF SearchInv, StackIsPath
    <3> QED
      BY <1>1, <1>4, <1>6, <3>1
  <2>2. recStack' \subseteq visited'
    BY <1>1 DEF SearchInv, StackIsPath
  <2>3. ASSUME NEW i \in 1 .. Len(stack') - 1
        PROVE  /\ stack'[i].next > 1
               /\ dependsOn'[stack'[i].proc][stack'[i].next - 1] = stack'[i + 1].proc
    <3>1. i \in 1 .. Len(stack) - 1 /\ i \in 1 .. n - 1 /\ i + 1 \in 1 .. n
      BY <1>3, <1>4 DEF n
    <3>2. /\ stack[i].next > 1
          /\ dependsOn[stack[i].proc][stack[i].next - 1] = stack[i + 1].proc
      BY <3>1 DEF SearchInv, StackIsPath
    <3>3. stack'[i] = stack[i] /\ stack'[i + 1].proc = stack[i + 1].proc
      BY <1>4, <1>6, <3>1
    <3> QED
      BY <1>1, <3>2, <3>3
  <2> QED
    BY <2>1, <2>2, <2>3 DEF StackIsPath
<1>9. ActiveOnce'
  BY <1>3, <1>4, <1>6 DEF SearchInv, ActiveOnce
<1>10. PassedIsFinished'
  <2> SUFFICES ASSUME NEW i \in 1 .. n
               PROVE  /\ stack'[i].next <= Len(dependsOn[stack'[i].proc]) + 1
                      /\ \A k \in 1 .. stack'[i].next - 1 :
                           \/ dependsOn[stack'[i].proc][k] \in Finished
                           \/ i < n /\ k = stack'[i].next - 1
    BY <1>1, <1>4, <1>5 DEF PassedIsFinished
  <2>1. CASE i = n
    <3>1. Len(dependsOn[Top.proc]) \in Nat
      BY <1>3
    <3>2. \A k \in 1 .. Top.next - 1 : dependsOn[Top.proc][k] \in Finished
      BY <1>3 DEF SearchInv, PassedIsFinished, n
    <3>3. \A k \in 1 .. Top.next : k \in 1 .. Top.next - 1 \/ k = Top.next
      BY <1>3
    <3>4. stack'[i].proc = Top.proc /\ stack'[i].next = Top.next + 1
      BY <1>4, <2>1
    <3>5. ASSUME NEW k \in 1 .. stack'[i].next - 1
          PROVE  dependsOn[Top.proc][k] \in Finished
      BY <1>1, <1>3, <3>2, <3>3, <3>4
    <3>6. Top.next + 1 <= Len(dependsOn[Top.proc]) + 1
      BY <1>1, <1>3, <3>1
    <3> QED
      BY <3>4, <3>5, <3>6
  <2>2. CASE i \in 1 .. n - 1
    <3>1. stack'[i] = stack[i] /\ i \in DOMAIN stack
      BY <1>3, <1>4, <2>2
    <3> QED
      BY <3>1 DEF SearchInv, PassedIsFinished, n
  <2> QED
    BY <1>3, <2>1, <2>2
<1>11. FinishedIsAcyclic' /\ VerdictInv'
  BY <1>1, <1>5 DEF SearchInv, FinishedIsAcyclic, VerdictInv
<1> QED
  BY <1>7, <1>8, <1>9, <1>10, <1>11 DEF SearchInv

LEMMA ReturnKeepsSearchInv ==
  ASSUME SearchInv, Return
  PROVE  SearchInv'
<1> DEFINE n == Len(stack)
           top == Top.proc
<1>1. /\ verdict = "none" /\ stack # <<>> /\ Top.next > Len(dependsOn[top])
      /\ recStack' = recStack \ {top}
      /\ stack' = Below
      /\ UNCHANGED <<dependsOn, visited, verdict>>
  BY DEF Return, TopDeps
<1>2. CheckTypeOK /\ stack \in Seq(Frame)
  BY DEF SearchInv, CheckTypeOK
<1>3. /\ n \in Nat \ {0} /\ Top = stack[n] /\ n \in DOMAIN stack
      /\ DOMAIN stack = 1 .. n
      /\ top \in Proc /\ Top.next \in Nat \ {0}
      /\ dependsOn[top] \in Seq(Proc) /\ Len(dependsOn[top]) \in Nat
      /\ DOMAIN dependsOn[top] = 1 .. Len(dependsOn[top])
  BY <1>1, <1>2, BelowIs, FrameFacts DEF Top
<1>4. /\ stack' \in Seq(Frame)
      /\ Len(stack') = n - 1 /\ DOMAIN stack' = 1 .. n - 1
      /\ \A i \in 1 .. n - 1 : stack'[i] = stack[i]
  <2>1. /\ stack' \in Seq(Frame)
        /\ Len(stack') = n - 1
        /\ \A i \in 1 .. n - 1 : stack'[i] = stack[i]
    BY <1>1, <1>2, BelowIs
  <2>2. DOMAIN stack' = 1 .. Len(stack')
    BY <2>1
  <2> QED
    BY <2>1, <2>2
<1>5. top = stack[n].proc
  BY <1>3
<1> HIDE DEF n, top
<1>6. top \in recStack /\ top \in visited /\ top \notin Finished
  BY <1>3, <1>5 DEF SearchInv, StackIsPath, Finished
<1>7. Finished' = Finished \cup {top}
  BY <1>1, <1>6 DEF Finished
<1>8. \A q \in Proc : DependsOn(dependsOn, top, q) => q \in Finished
  <2> SUFFICES ASSUME NEW q \in Proc, NEW k \in DOMAIN dependsOn[top],
                      dependsOn[top][k] = q
               PROVE  q \in Finished
    BY DEF DependsOn, Occurrences
  <2>1. k \in 1 .. Top.next - 1
    BY <1>1, <1>3
  <2>2. \/ dependsOn[stack[n].proc][k] \in Finished
        \/ n < Len(stack) /\ k = stack[n].next - 1
    BY <1>3, <2>1 DEF SearchInv, PassedIsFinished
  <2> QED
    BY <1>3, <1>5, <2>2 DEF n
<1>9. CheckTypeOK'
  BY <1>1, <1>2, <1>4 DEF CheckTypeOK
<1>10. StackIsPath'
  <2>1. recStack' = {stack'[i].proc : i \in DOMAIN stack'}
    <3>1. recStack = {stack[i].proc : i \in 1 .. n}
      BY <1>3 DEF SearchInv, StackIsPath
    <3>2. \A i \in 1 .. n - 1 : stack[i].proc # top
      BY <1>3, <1>5 DEF SearchInv, ActiveOnce
    <3>3. 1 .. n = (1 .. n - 1) \cup {n}
      BY <1>3
    <3>4. recStack \ {top} = {stack[i].proc : i \in 1 .. n - 1}
      BY <1>5, <3>1, <3>2, <3>3
    <3> QED
      BY <1>1, <1>4, <3>4
  <2>2. recStack' \subseteq visited'
    BY <1>1 DEF SearchInv, StackIsPath
  <2>3. ASSUME NEW i \in 1 .. Len(stack') - 1
        PROVE  /\ stack'[i].next > 1
               /\ dependsOn'[stack'[i].proc][stack'[i].next - 1] = stack'[i + 1].proc
    <3>1. i \in 1 .. Len(stack) - 1 /\ i \in 1 .. n - 1 /\ i + 1 \in 1 .. n - 1
      BY <1>3, <1>4 DEF n
    <3>2. /\ stack[i].next > 1
          /\ dependsOn[stack[i].proc][stack[i].next - 1] = stack[i + 1].proc
      BY <3>1 DEF SearchInv, StackIsPath
    <3> QED
      BY <1>1, <1>4, <3>1, <3>2
  <2> QED
    BY <2>1, <2>2, <2>3 DEF StackIsPath
<1>11. ActiveOnce'
  BY <1>3, <1>4 DEF SearchInv, ActiveOnce
<1>12. PassedIsFinished'
  <2> SUFFICES ASSUME NEW i \in DOMAIN stack'
               PROVE  /\ stack'[i].next <= Len(dependsOn'[stack'[i].proc]) + 1
                      /\ \A k \in 1 .. stack'[i].next - 1 :
                           \/ dependsOn'[stack'[i].proc][k] \in Finished'
                           \/ i < Len(stack') /\ k = stack'[i].next - 1
    BY DEF PassedIsFinished
  <2>1. i \in 1 .. n - 1 /\ i \in 1 .. n /\ stack'[i] = stack[i] /\ dependsOn' = dependsOn
    BY <1>1, <1>3, <1>4
  <2>2. /\ stack[i].next <= Len(dependsOn[stack[i].proc]) + 1
        /\ \A k \in 1 .. stack[i].next - 1 :
             \/ dependsOn[stack[i].proc][k] \in Finished
             \/ k = stack[i].next - 1
    BY <1>3, <2>1 DEF SearchInv, PassedIsFinished
  <2>3. dependsOn[stack[i].proc][stack[i].next - 1] = stack[i + 1].proc
    BY <1>3, <2>1 DEF SearchInv, StackIsPath, n
  <2>4. CASE i = n - 1
    <3>1. dependsOn[stack[i].proc][stack[i].next - 1] = top
      BY <1>3, <1>5, <2>3, <2>4
    <3> QED
      BY <1>7, <2>1, <2>2, <3>1
  <2>5. CASE i < n - 1
    BY <1>4, <1>7, <2>1, <2>2, <2>5
  <2> QED
    BY <1>3, <2>1, <2>4, <2>5
<1>13. FinishedIsAcyclic'
  <2>1. ASSUME NEW p \in Finished \cup {top}, NEW q \in Proc, DependsOn(dependsOn, p, q)
        PROVE  q \in Finished
    BY <1>8, <2>1 DEF SearchInv, FinishedIsAcyclic
  <2>2. ASSUME NEW S \in SUBSET (Finished \cup {top}), Circle(dependsOn, S)
        PROVE  FALSE
    <3> DEFINE T == S \ {top}
    <3>1. S \in SUBSET Proc /\ S # {} /\ \A p \in S : \E q \in S : DependsOn(dependsOn, p, q)
      BY <2>2 DEF Circle
    <3>2. \A p \in S : \E q \in T : DependsOn(dependsOn, p, q)
      <4> SUFFICES ASSUME NEW p \in S
                   PROVE  \E q \in T : DependsOn(dependsOn, p, q)
        OBVIOUS
      <4>1. PICK q \in S : DependsOn(dependsOn, p, q)
        BY <3>1
      <4>2. q \in Finished
        BY <2>1, <3>1, <4>1
      <4> QED
        BY <1>6, <4>1, <4>2
    <3>3. Circle(dependsOn, T)
      BY <3>1, <3>2 DEF Circle
    <3>4. T \in SUBSET Finished
      OBVIOUS
    <3> QED
      BY <3>3, <3>4 DEF SearchInv, FinishedIsAcyclic
  <2> QED
    BY <1>1, <1>7, <2>1, <2>2 DEF FinishedIsAcyclic
<1>14. VerdictInv'
  BY <1>1 DEF VerdictInv
<1> QED
  BY <1>9, <1>10, <1>11, <1>12, <1>13, <1>14 DEF SearchInv

LEMMA FindCycleKeepsSearchInv ==
  ASSUME SearchInv, FindCycle
  PROVE  SearchInv'
<1> DEFINE n == Len(stack)
<1>1. /\ verdict = "none" /\ stack # <<>> /\ Top.next <= Len(dependsOn[Top.proc])
      /\ Dep \in recStack
      /\ verdict' = "circular"
      /\ UNCHANGED <<dependsOn, visited, recStack, stack>>
  BY DEF FindCycle, Looking, TopDeps
<1>2. CheckTypeOK /\ stack \in Seq(Frame)
  BY DEF SearchInv, CheckTypeOK
<1>3. /\ n \in Nat \ {0} /\ Top = stack[n]
      /\ DOMAIN stack = 1 .. n
      /\ Top.next \in Nat \ {0}
      /\ \A i \in 1 .. n : stack[i].proc \in Proc
      /\ Dep = dependsOn[Top.proc][Top.next]
      /\ Top.next \in DOMAIN dependsOn[Top.proc]
  <2>1. /\ n \in Nat \ {0} /\ Top = stack[n]
        /\ DOMAIN stack = 1 .. n
        /\ \A i \in 1 .. n : stack[i].proc \in Proc
    BY <1>1, <1>2, BelowIs, FrameFacts DEF Top
  <2>2. Top.proc \in Proc /\ Top.next \in Nat \ {0}
    BY <1>2, <2>1, FrameFacts
  <2>3. Top.next \in DOMAIN dependsOn[Top.proc]
    BY <1>1, <1>2, <2>2, FrameFacts
  <2> QED
    BY <2>1, <2>2, <2>3 DEF Dep, TopDeps
<1> HIDE DEF n
<1>4. PICK k \in 1 .. n : stack[k].proc = Dep
  BY <1>1, <1>3 DEF SearchInv, StackIsPath
<1> DEFINE S == {stack[i].proc : i \in k .. n}
<1>5. \A i \in k .. n : i \in 1 .. n
  BY <1>3
<1>6. S \in SUBSET Proc
  BY <1>3, <1>5
<1>7. Dep \in S
  BY <1>3, <1>4
<1>8. ASSUME NEW i \in k .. n
      PROVE  \E q \in S : DependsOn(dependsOn, stack[i].proc, q)
  <2>1. CASE i = n
    BY <1>3, <1>7, <2>1 DEF DependsOn, Occurrences
  <2>2. CASE i # n
    <3>1. i \in 1 .. Len(stack) - 1 /\ i + 1 \in k .. n /\ i \in DOMAIN stack
      <4>1. i \in 1 .. n - 1 /\ i + 1 \in k .. n
        BY <1>3, <2>2
      <4> QED
        BY <1>3, <4>1 DEF n
    <3>2. /\ stack[i].next > 1
          /\ dependsOn[stack[i].proc][stack[i].next - 1] = stack[i + 1].proc
      BY <3>1 DEF SearchInv, StackIsPath
    <3>3. stack[i].next <= Len(dependsOn[stack[i].proc]) + 1
      BY <3>1 DEF SearchInv, PassedIsFinished
    <3>4. stack[i].next - 1 \in DOMAIN dependsOn[stack[i].proc]
      <4>1. stack[i].proc \in Proc /\ stack[i].next \in Nat \ {0}
        BY <1>2, <3>1, FrameFacts
      <4>2. /\ Len(dependsOn[stack[i].proc]) \in Nat
            /\ DOMAIN dependsOn[stack[i].proc] = 1 .. Len(dependsOn[stack[i].proc])
        BY <1>2, <4>1, FrameFacts
      <4> QED
        BY <3>2, <3>3, <4>1, <4>2
    <3>5. stack[i + 1].proc \in S
      BY <3>1
    <3> QED
      BY <3>2, <3>4, <3>5 DEF DependsOn, Occurrences
  <2> QED
    BY <2>1, <2>2
<1>9. Circle(dependsOn, S)
  BY <1>6, <1>7, <1>8 DEF Circle
<1>10. Circular(dependsOn)
  BY <1>6, <1>9 DEF Circular
<1>11. VerdictInv'
  BY <1>1, <1>10 DEF VerdictInv
<1>12. Finished' = Finished
  BY <1>1 DEF Finished
<1> QED
  BY <1>1, <1>11, <1>12
  DEF SearchInv, CheckTypeOK, StackIsPath, ActiveOnce, PassedIsFinished, FinishedIsAcyclic

LEMMA AcceptKeepsSearchInv ==
  ASSUME SearchInv, Accept
  PROVE  SearchInv'
<1>1. /\ stack = <<>> /\ visited = Proc /\ verdict' = "valid"
      /\ UNCHANGED <<dependsOn, visited, recStack, stack>>
  BY DEF Accept
<1>2. Finished' = Finished
  BY <1>1 DEF Finished
<1>3. VerdictInv'
  BY <1>1 DEF VerdictInv
<1> QED
  BY <1>1, <1>2, <1>3
  DEF SearchInv, CheckTypeOK, StackIsPath, ActiveOnce, PassedIsFinished, FinishedIsAcyclic

\* The inductive invariant of the search.
LEMMA SearchInvariant == Spec => []SearchInv
<1>1. Init => SearchInv
  <2> SUFFICES ASSUME Init PROVE SearchInv
    OBVIOUS
  <2>1. /\ dependsOn \in Graphs /\ visited = {} /\ recStack = {} /\ stack = <<>>
        /\ verdict = "none"
    BY DEF Init, CheckInit
  <2>2. stack \in Seq(Frame) /\ DOMAIN stack = {} /\ Len(stack) = 0
    BY <2>1
  <2>3. Finished = {}
    BY <2>1 DEF Finished
  <2>4. FinishedIsAcyclic
    BY <2>3 DEF FinishedIsAcyclic, Circle
  <2>5. StackIsPath
    BY <2>1, <2>2 DEF StackIsPath
  <2> QED
    BY <2>1, <2>2, <2>4, <2>5
    DEF SearchInv, CheckTypeOK, ActiveOnce, PassedIsFinished, VerdictInv
<1>2. SearchInv /\ [Next]_vars => SearchInv'
  <2> SUFFICES ASSUME SearchInv, [Next]_vars PROVE SearchInv'
    OBVIOUS
  <2>1. ASSUME NEW p \in Proc, CallRoot(p) PROVE SearchInv'
    BY <2>1, CallRootKeepsSearchInv
  <2>2. CASE Descend
    BY <2>2, DescendKeepsSearchInv
  <2>3. CASE FindCycle
    BY <2>3, FindCycleKeepsSearchInv
  <2>4. CASE Skip
    BY <2>4, SkipKeepsSearchInv
  <2>5. CASE Return
    BY <2>5, ReturnKeepsSearchInv
  <2>6. CASE Accept
    BY <2>6, AcceptKeepsSearchInv
  <2>7. CASE UNCHANGED checkVars
    <3>1. UNCHANGED <<dependsOn, visited, recStack, stack, verdict>>
      BY <2>7 DEF checkVars
    <3> QED
      BY <3>1 DEF SearchInv, CheckTypeOK, StackIsPath, ActiveOnce, PassedIsFinished,
                  FinishedIsAcyclic, VerdictInv, Finished
  <2>8. UNCHANGED vars => UNCHANGED checkVars
    BY DEF vars, checkVars
  <2>9. SortNext /\ UNCHANGED <<visited, recStack, stack, verdict>> => UNCHANGED checkVars
    BY DEF SortNext, FillQueue, Take, Finish, checkVars
  <2> QED
    BY <2>1, <2>2, <2>3, <2>4, <2>5, <2>6, <2>7, <2>8, <2>9 DEF Next, CheckNext
<1> QED
  BY <1>1, <1>2, PTL DEF Spec

\* The processes marked as being on the path are those of the active calls, in
\* which each but the last has come to the dependency the next was made for.
THEOREM PathIsMarked == Spec => []StackIsPath
<1>1. SearchInv => StackIsPath
  BY DEF SearchInv
<1> QED
  BY <1>1, SearchInvariant, PTL

\* Validate accepts no configuration in which a process depends on itself,
\* however many processes there are and in whatever order the map names them.
THEOREM AcceptedIsAcyclic == Spec => []AcceptsOnlyAcyclic
<1>1. SearchInv => AcceptsOnlyAcyclic
  <2> SUFFICES ASSUME SearchInv, verdict = "valid" PROVE ~Circular(dependsOn)
    BY DEF AcceptsOnlyAcyclic
  <2>1. visited = Proc /\ stack = <<>>
    BY DEF SearchInv, VerdictInv
  <2>2. Finished = Proc
    BY <2>1 DEF SearchInv, StackIsPath, Finished
  <2> QED
    BY <2>2 DEF SearchInv, FinishedIsAcyclic, Circular
<1> QED
  BY <1>1, SearchInvariant, PTL

\* Validate rejects no configuration without such a process: naming a
\* dependency twice, or sharing one, is never taken for a cycle.
THEOREM RejectedIsCircular == Spec => []RejectsOnlyCircular
<1>1. SearchInv => RejectsOnlyCircular
  BY DEF SearchInv, VerdictInv, RejectsOnlyCircular
<1> QED
  BY <1>1, SearchInvariant, PTL

-----------------------------------------------------------------------------
(* The order in which the processes are started.                           *)

Taken == Range(result)
Waiting == Range(queue)

\* The positions at which p names a process that has not been taken.
Missing(p) == {i \in DOMAIN dependsOn[p] : dependsOn[p][i] \notin Taken}

\* inDegree counts them.
CountsMissing == \A p \in Proc : inDegree[p] = Cardinality(Missing(p))

\* The processes without a missing dependency are those taken or waiting, and
\* none of them twice.
ReadyOnce ==
  /\ sorting # "called" => \A p \in Proc : inDegree[p] = 0 <=> p \in Taken \cup Waiting
  /\ Taken \cap Waiting = {}
  /\ IsInjective(result)
  /\ IsInjective(queue)

\* topologicalSort is called on a configuration the search has judged, and
\* ends with an empty queue.
SortEnds ==
  /\ sorting = "called" => result = <<>> /\ queue = <<>>
  /\ sorting # "called" => verdict # "none"
  /\ sorting \in {"order", "circular"} => queue = <<>>
  /\ sorting = "order" => Len(result) = N
  /\ sorting = "circular" => Len(result) # N

SortInv ==
  /\ SortTypeOK
  /\ CountsMissing
  /\ ReadyOnce
  /\ DependenciesFirst
  /\ SortEnds

LEMMA SeqFacts ==
  ASSUME NEW S, NEW s \in Seq(S)
  PROVE  /\ Len(s) \in Nat /\ DOMAIN s = 1 .. Len(s)
         /\ \A i \in DOMAIN s : s[i] \in S
         /\ Range(s) \subseteq S
         /\ Len(s) = 0 <=> s = <<>>
<1>1. Len(s) \in Nat /\ DOMAIN s = 1 .. Len(s)
  OBVIOUS
<1>2. \A i \in DOMAIN s : s[i] \in S
  OBVIOUS
<1>3. Len(s) = 0 <=> s = <<>>
  OBVIOUS
<1> QED
  BY <1>1, <1>2, <1>3 DEF Range

\* The positions at which p names a process, or one of a set, are countable.
LEMMA PositionsAreFinite ==
  ASSUME dependsOn \in Graphs, NEW p \in Proc, NEW T, T \subseteq DOMAIN dependsOn[p]
  PROVE  /\ IsFiniteSet(T)
         /\ Cardinality(T) \in Nat
         /\ Cardinality(T) = 0 <=> T = {}
<1>1. /\ Len(dependsOn[p]) \in Nat
      /\ DOMAIN dependsOn[p] = 1 .. Len(dependsOn[p])
  <2>1. dependsOn[p] \in Seq(Proc)
    BY GraphsAssumption
  <2> QED
    BY <2>1
<1>2. IsFiniteSet(DOMAIN dependsOn[p])
  BY <1>1, FS_Interval
<1>3. IsFiniteSet(T)
  BY <1>2, FS_Subset
<1> QED
  BY <1>3, FS_CardinalityType, FS_EmptySet

\* A list of a set's members, each in it at least once, as long as the set.
LEMMA ArrangementIs ==
  ASSUME NEW S \in SUBSET Proc, NEW f \in Arrangements(S)
  PROVE  /\ f \in Seq(Proc)
         /\ Range(f) = S
         /\ IsInjective(f)
<1>1. IsFiniteSet(Proc)
  BY NAssumption, FS_Interval DEF Proc
<1>2. IsFiniteSet(S) /\ Cardinality(S) \in Nat
  BY <1>1, FS_Subset, FS_CardinalityType
<1> DEFINE c == Cardinality(S)
<1>3. f \in [1 .. c -> S] /\ Range(f) = S
  BY DEF Arrangements
<1>4. IsFiniteSet(1 .. c) /\ Cardinality(1 .. c) = c
  <2> HIDE DEF c
  <2>1. c \in Nat
    BY <1>2 DEF c
  <2>2. IsFiniteSet(1 .. c) /\ Cardinality(1 .. c) = IF 1 > c THEN 0 ELSE c - 1 + 1
    BY <2>1, FS_Interval
  <2> QED
    BY <2>1, <2>2
<1>5. f \in Surjection(1 .. c, S)
  BY <1>3 DEF Surjection, Range
<1>6. f \in Injection(1 .. c, S)
  BY <1>4, <1>5, FS_SurjSameCardinalityImpliesInj
<1>7. IsInjective(f)
  BY <1>6 DEF Injection
<1>8. f \in Seq(Proc)
  <2>1. f \in [1 .. c -> Proc]
    BY <1>3
  <2> QED
    BY <1>2, <2>1
<1> QED
  BY <1>3, <1>7, <1>8

\* What is in the queue once its first member is gone and others have come.
LEMMA RequeuedIs ==
  ASSUME NEW q \in Seq(Proc), q # <<>>, NEW f \in Seq(Proc),
         IsInjective(q), IsInjective(f),
         Range(q) \cap Range(f) = {}
  PROVE  /\ Tail(q) \o f \in Seq(Proc)
         /\ Range(Tail(q) \o f) = (Range(q) \ {Head(q)}) \cup Range(f)
         /\ IsInjective(Tail(q) \o f)
<1> DEFINE m == Len(q) - 1
<1>0. PICK u \in Seq(Proc) : u = Tail(q)
  BY HeadTailProperties
<1>1. /\ m \in Nat /\ DOMAIN q = 1 .. m + 1 /\ Head(q) = q[1]
      /\ Len(u) = m
      /\ \A i \in 1 .. m : u[i] = q[i + 1]
  <2>1. Len(q) \in Nat \ {0} /\ DOMAIN q = 1 .. Len(q) /\ Head(q) = q[1]
    OBVIOUS
  <2> QED
    BY <1>0, <2>1, HeadTailProperties
<1>2. Len(f) \in Nat /\ DOMAIN f = 1 .. Len(f)
  OBVIOUS
<1>3. PICK t : t = u \o f
  OBVIOUS
<1> HIDE DEF m
<1>4. /\ t \in Seq(Proc) /\ Len(t) = m + Len(f)
      /\ \A i \in 1 .. m + Len(f) : t[i] = IF i <= m THEN u[i] ELSE f[i - m]
  <2>1. /\ u \o f \in Seq(Proc)
        /\ Len(u \o f) = Len(u) + Len(f)
        /\ \A i \in 1 .. Len(u) + Len(f) :
             (u \o f)[i] = IF i <= Len(u) THEN u[i] ELSE f[i - Len(u)]
    BY ConcatProperties, Zenon
  <2> QED
    BY <1>1, <1>3, <2>1, Zenon
<1>5. DOMAIN t = 1 .. m + Len(f)
  BY <1>4
<1>6. \A i \in 1 .. m : t[i] = q[i + 1] /\ i + 1 \in DOMAIN q
  BY <1>1, <1>2, <1>4
<1>7. ASSUME NEW i \in m + 1 .. m + Len(f)
      PROVE  t[i] = f[i - m] /\ i - m \in DOMAIN f
  <2>1. i \in 1 .. m + Len(f) /\ ~(i <= m) /\ i - m \in 1 .. Len(f)
    BY <1>1, <1>2
  <2> QED
    BY <1>2, <1>4, <2>1
<1>8. \A i \in DOMAIN t : i \in 1 .. m \/ i \in m + 1 .. m + Len(f)
  BY <1>1, <1>2, <1>5
<1>9. Head(q) \in Range(q)
  <2>1. 1 \in DOMAIN q
    BY <1>1
  <2> QED
    BY <1>1, <2>1 DEF Range
<1>10. Range(t) \subseteq (Range(q) \ {Head(q)}) \cup Range(f)
  <2> SUFFICES ASSUME NEW i \in DOMAIN t
               PROVE  t[i] \in (Range(q) \ {Head(q)}) \cup Range(f)
    BY DEF Range
  <2>1. CASE i \in 1 .. m
    <3>1. t[i] = q[i + 1] /\ i + 1 \in DOMAIN q
      BY <1>6, <2>1
    <3>2. 1 \in DOMAIN q /\ i + 1 # 1 /\ q[1] = Head(q)
      BY <1>1, <2>1
    <3>3. q[i + 1] # Head(q)
      BY <3>1, <3>2 DEF IsInjective
    <3> QED
      BY <3>1, <3>3 DEF Range
  <2>2. CASE i \in m + 1 .. m + Len(f)
    BY <1>7, <2>2 DEF Range
  <2> QED
    BY <1>8, <2>1, <2>2
<1>11. (Range(q) \ {Head(q)}) \cup Range(f) \subseteq Range(t)
  <2>1. ASSUME NEW i \in DOMAIN q, q[i] # Head(q)
        PROVE  q[i] \in Range(t)
    <3>1. i - 1 \in 1 .. m /\ (i - 1) + 1 = i
      BY <1>1, <2>1
    <3>2. t[i - 1] = q[i] /\ i - 1 \in DOMAIN t
      BY <1>1, <1>2, <1>5, <1>6, <3>1
    <3> QED
      BY <3>2 DEF Range
  <2>2. ASSUME NEW i \in DOMAIN f
        PROVE  f[i] \in Range(t)
    <3>1. i + m \in m + 1 .. m + Len(f) /\ (i + m) - m = i
      BY <1>1, <1>2
    <3>2. t[i + m] = f[i] /\ i + m \in DOMAIN t
      BY <1>1, <1>2, <1>5, <1>7, <3>1
    <3> QED
      BY <3>2 DEF Range
  <2> QED
    BY <2>1, <2>2 DEF Range
<1>12. IsInjective(t)
  <2> SUFFICES ASSUME NEW i \in DOMAIN t, NEW j \in DOMAIN t, t[i] = t[j]
               PROVE  i = j
    BY DEF IsInjective
  <2>1. CASE i \in 1 .. m /\ j \in 1 .. m
    <3>1. i + 1 = j + 1
      BY <1>6, <2>1 DEF IsInjective
    <3> QED
      BY <1>1, <2>1, <3>1
  <2>2. CASE i \in m + 1 .. m + Len(f) /\ j \in m + 1 .. m + Len(f)
    <3>1. i - m = j - m
      BY <1>7, <2>2 DEF IsInjective
    <3> QED
      BY <1>1, <1>2, <2>2, <3>1
  <2>3. CASE i \in 1 .. m /\ j \in m + 1 .. m + Len(f)
    <3>1. t[i] \in Range(q)
      BY <1>6, <2>3 DEF Range
    <3>2. t[j] \in Range(f)
      BY <1>7, <2>3 DEF Range
    <3> QED
      BY <3>1, <3>2
  <2>4. CASE j \in 1 .. m /\ i \in m + 1 .. m + Len(f)
    <3>1. t[j] \in Range(q)
      BY <1>6, <2>4 DEF Range
    <3>2. t[i] \in Range(f)
      BY <1>7, <2>4 DEF Range
    <3> QED
      BY <3>1, <3>2
  <2> QED
    BY <1>8, <2>1, <2>2, <2>3, <2>4
<1> QED
  BY <1>0, <1>3, <1>4, <1>9, <1>10, <1>11, <1>12

\* A list with one more, new, member at its end.
LEMMA ExtendedIs ==
  ASSUME NEW s \in Seq(Proc), NEW c \in Proc, IsInjective(s), c \notin Range(s)
  PROVE  /\ Append(s, c) \in Seq(Proc)
         /\ DOMAIN Append(s, c) = 1 .. Len(s) + 1
         /\ \A i \in 1 .. Len(s) : Append(s, c)[i] = s[i]
         /\ Append(s, c)[Len(s) + 1] = c
         /\ Range(Append(s, c)) = Range(s) \cup {c}
         /\ IsInjective(Append(s, c))
<1>1. PICK t : t = Append(s, c)
  OBVIOUS
<1>2. /\ t \in Seq(Proc) /\ Len(t) = Len(s) + 1
      /\ \A i \in 1 .. Len(s) : t[i] = s[i]
      /\ t[Len(s) + 1] = c
  BY <1>1, AppendProperties
<1>3. Len(s) \in Nat /\ DOMAIN s = 1 .. Len(s)
  OBVIOUS
<1>4. DOMAIN t = 1 .. Len(s) + 1
  <2>1. DOMAIN t = 1 .. Len(t)
    BY <1>2
  <2> QED
    BY <1>2, <2>1
<1>5. Range(t) = Range(s) \cup {c}
  <2>1. DOMAIN t = DOMAIN s \cup {Len(s) + 1}
    BY <1>3, <1>4
  <2>2. \A i \in DOMAIN s : t[i] = s[i]
    BY <1>2, <1>3
  <2> QED
    BY <1>2, <2>1, <2>2 DEF Range
<1>6. IsInjective(t)
  <2> SUFFICES ASSUME NEW i \in DOMAIN t, NEW j \in DOMAIN t, t[i] = t[j]
               PROVE  i = j
    BY DEF IsInjective
  <2>1. \A k \in DOMAIN s : t[k] = s[k] /\ s[k] # c
    BY <1>2, <1>3 DEF Range
  <2>2. \A k \in DOMAIN t : k \in DOMAIN s \/ k = Len(s) + 1
    BY <1>3, <1>4
  <2> QED
    BY <1>2, <2>1, <2>2 DEF IsInjective
<1> QED
  BY <1>1, <1>2, <1>4, <1>5, <1>6

LEMMA FillQueueKeepsSortInv ==
  ASSUME SortInv, verdict # "none", FillQueue, UNCHANGED verdict
  PROVE  SortInv'
<1> DEFINE Z == {p \in Proc : inDegree[p] = 0}
<1>1. /\ sorting = "called" /\ sorting' = "loop" /\ result = <<>>
      /\ queue' \in Arrangements(Z)
      /\ UNCHANGED <<dependsOn, inDegree, result>>
  BY DEF FillQueue, SortInv, SortEnds
<1>2. Z \in SUBSET Proc
  OBVIOUS
<1>3. /\ queue' \in Seq(Proc)
      /\ Waiting' = Z
      /\ IsInjective(queue')
  BY <1>1, <1>2, ArrangementIs DEF Waiting
<1>4. Taken = {} /\ Taken' = Taken
  <2>1. DOMAIN result = {}
    BY <1>1
  <2> QED
    BY <1>1, <2>1 DEF Taken, Range
<1>5. SortTypeOK'
  BY <1>1, <1>3 DEF SortInv, SortTypeOK
<1>6. CountsMissing'
  BY <1>1, <1>4 DEF SortInv, CountsMissing, Missing
<1>7. ReadyOnce'
  BY <1>1, <1>3, <1>4 DEF SortInv, ReadyOnce
<1>8. DependenciesFirst'
  BY <1>1 DEF SortInv, DependenciesFirst
<1>9. SortEnds'
  BY <1>1 DEF SortEnds
<1> QED
  BY <1>5, <1>6, <1>7, <1>8, <1>9 DEF SortInv

LEMMA TakeKeepsSortInv ==
  ASSUME SortInv, Take, UNCHANGED verdict
  PROVE  SortInv'
<1> DEFINE c == Head(queue)
           Named(p) == Occurrences(dependsOn, p, c)
<1>1. PICK freed \in InOrder(Freed(c)) :
         /\ sorting = "loop" /\ queue # <<>>
         /\ result' = Append(result, c)
         /\ inDegree' = Uncounted(c)
         /\ queue' = Tail(queue) \o freed
         /\ UNCHANGED <<dependsOn, sorting>>
  BY DEF Take
<1>2. /\ dependsOn \in Graphs
      /\ queue \in Seq(Proc) /\ result \in Seq(Proc)
      /\ inDegree \in [Proc -> Nat]
      /\ IsInjective(queue) /\ IsInjective(result) /\ Taken \cap Waiting = {}
      /\ \A p \in Proc : inDegree[p] = 0 <=> p \in Taken \cup Waiting
  BY <1>1 DEF SortInv, SortTypeOK, ReadyOnce
<1>3. c \in Proc /\ c \in Waiting /\ c \notin Taken /\ inDegree[c] = 0
  <2>1. 1 \in DOMAIN queue /\ c = queue[1] /\ queue[1] \in Proc
    BY <1>1, <1>2
  <2>2. c \in Proc /\ c \in Waiting
    BY <2>1 DEF Waiting, Range
  <2> QED
    BY <1>2, <2>2
<1>4. /\ result' \in Seq(Proc)
      /\ DOMAIN result' = 1 .. Len(result) + 1
      /\ \A i \in 1 .. Len(result) : result'[i] = result[i]
      /\ result'[Len(result) + 1] = c
      /\ Taken' = Taken \cup {c}
      /\ IsInjective(result')
  <2>1. c \notin Range(result)
    BY <1>3 DEF Taken
  <2> HIDE DEF c
  <2> QED
    BY <1>1, <1>2, <1>3, <2>1, ExtendedIs DEF Taken
<1>5. ASSUME NEW p \in Proc
      PROVE  /\ IsFiniteSet(Missing(p)) /\ IsFiniteSet(Named(p))
             /\ Named(p) \subseteq Missing(p)
             /\ Missing(p)' = Missing(p) \ Named(p)
             /\ Cardinality(Named(p)) \in Nat
             /\ Cardinality(Missing(p)) \in Nat /\ Cardinality(Missing(p)') \in Nat
             /\ Cardinality(Missing(p)') = Cardinality(Missing(p)) - Cardinality(Named(p))
             /\ Cardinality(Named(p)) = 0 <=> Named(p) = {}
             /\ inDegree[p] = Cardinality(Missing(p))
             /\ inDegree'[p] = Cardinality(Missing(p)')
  <2>1. Named(p) \subseteq Missing(p)
    BY <1>3 DEF Missing, Occurrences
  <2>2. Missing(p)' = Missing(p) \ Named(p)
    BY <1>1, <1>4 DEF Missing, Occurrences
  <2>3. Named(p) \subseteq DOMAIN dependsOn[p] /\ Missing(p) \subseteq DOMAIN dependsOn[p]
    BY DEF Missing, Occurrences
  <2> DEFINE K == Named(p)
             M == Missing(p)
  <2> HIDE DEF K, M
  <2>4. /\ IsFiniteSet(K) /\ Cardinality(K) \in Nat /\ (Cardinality(K) = 0 <=> K = {})
        /\ IsFiniteSet(M) /\ Cardinality(M) \in Nat
    <3>1. K \subseteq DOMAIN dependsOn[p] /\ M \subseteq DOMAIN dependsOn[p]
      BY <2>3 DEF K, M
    <3> QED
      BY <1>2, <3>1, PositionsAreFinite
  <2>5. M \cap K = K
    <3>1. K \subseteq M
      BY <2>1 DEF K, M
    <3> QED
      BY <3>1
  <2>6. IsFiniteSet(M \ K) /\ Cardinality(M \ K) = Cardinality(M) - Cardinality(K)
    <3>1. IsFiniteSet(M \ K) /\ Cardinality(M \ K) = Cardinality(M) - Cardinality(M \cap K)
      BY <2>4, FS_Difference
    <3> QED
      BY <2>5, <3>1
  <2>7. Cardinality(M \ K) \in Nat
    BY <2>6, FS_CardinalityType
  <2>8. inDegree[p] = Cardinality(M)
    BY DEF SortInv, CountsMissing, M
  <2>9. inDegree'[p] = inDegree[p] - Cardinality(K)
    BY <1>1 DEF Uncounted, K
  <2> QED
    BY <2>1, <2>2, <2>4, <2>6, <2>7, <2>8, <2>9 DEF K, M
<1>6. CountsMissing'
  BY <1>5 DEF CountsMissing
<1>7. /\ Freed(c) \in SUBSET Proc
      /\ \A p \in Proc : p \in Freed(c) <=> Named(p) # {} /\ inDegree'[p] = 0
  BY <1>1 DEF Freed, DependsOn
<1>8. \A p \in Proc : p \in Freed(c) => inDegree[p] # 0
  <2> SUFFICES ASSUME NEW p \in Proc, Named(p) # {}, inDegree[p] = 0
               PROVE  FALSE
    BY <1>7
  <2>1. Cardinality(Named(p)) # 0 /\ Cardinality(Named(p)) \in Nat
    BY <1>5
  <2>2. Cardinality(Missing(p)) = 0 /\ Cardinality(Missing(p)') \in Nat
    BY <1>5
  <2>3. Cardinality(Missing(p)') = Cardinality(Missing(p)) - Cardinality(Named(p))
    BY <1>5
  <2> QED
    BY <2>1, <2>2, <2>3
<1>9. \A p \in Proc : inDegree'[p] = 0 <=> inDegree[p] = 0 \/ p \in Freed(c)
  <2> SUFFICES ASSUME NEW p \in Proc
               PROVE  inDegree'[p] = 0 <=> inDegree[p] = 0 \/ p \in Freed(c)
    OBVIOUS
  <2>1. /\ Cardinality(Named(p)) \in Nat
        /\ inDegree[p] \in Nat /\ inDegree'[p] \in Nat
        /\ inDegree'[p] = inDegree[p] - Cardinality(Named(p))
        /\ Cardinality(Named(p)) = 0 <=> Named(p) = {}
    BY <1>5
  <2>2. CASE Named(p) = {}
    BY <1>7, <2>1, <2>2
  <2>3. CASE Named(p) # {}
    <3>1. inDegree[p] # 0
      BY <2>1, <2>3
    <3> QED
      BY <1>7, <2>3, <3>1
  <2> QED
    BY <2>2, <2>3
<1>10. /\ freed \in Seq(Proc)
       /\ Range(freed) = Freed(c)
       /\ IsInjective(freed)
  <2>1. freed \in Arrangements(Freed(c))
    BY DEF InOrder
  <2> QED
    BY <1>7, <2>1, ArrangementIs
<1> HIDE DEF Named
<1>11. Range(queue) \cap Range(freed) = {}
  <2>1. \A p \in Range(queue) : p \in Proc /\ inDegree[p] = 0
    BY <1>2, SeqFacts DEF Waiting
  <2> QED
    BY <1>8, <1>10, <2>1
<1>12. /\ queue' \in Seq(Proc)
       /\ Waiting' = (Waiting \ {c}) \cup Freed(c)
       /\ IsInjective(queue')
  <2>1. /\ Tail(queue) \o freed \in Seq(Proc)
        /\ Range(Tail(queue) \o freed) = (Range(queue) \ {c}) \cup Range(freed)
        /\ IsInjective(Tail(queue) \o freed)
    BY <1>1, <1>2, <1>10, <1>11, RequeuedIs
  <2> QED
    BY <1>1, <1>10, <2>1, Zenon DEF Waiting
<1> HIDE DEF c
<1>13. ReadyOnce'
  <2>1. Taken' \cap Waiting' = {}
    BY <1>2, <1>3, <1>4, <1>7, <1>8, <1>12
  <2>2. \A p \in Proc : inDegree'[p] = 0 <=> p \in Taken' \cup Waiting'
    BY <1>2, <1>3, <1>4, <1>9, <1>12
  <2> QED
    BY <1>4, <1>12, <2>1, <2>2 DEF ReadyOnce
<1>14. SortTypeOK'
  <2>1. DOMAIN inDegree' = Proc /\ inDegree' = [p \in Proc |-> inDegree'[p]]
    BY <1>1 DEF Uncounted
  <2>2. \A p \in Proc : inDegree'[p] \in Nat
    BY <1>5
  <2>3. inDegree' \in [Proc -> Nat]
    BY <2>1, <2>2
  <2> QED
    BY <1>1, <1>2, <1>4, <1>12, <2>3 DEF SortInv, SortTypeOK
<1>15. DependenciesFirst'
  <2> SUFFICES ASSUME NEW i \in 1 .. Len(result) + 1, NEW q \in Proc,
                      DependsOn(dependsOn', result'[i], q)
               PROVE  \E j \in 1 .. Len(result) + 1 : j < i /\ result'[j] = q
    BY <1>4 DEF DependenciesFirst
  <2>0. DependsOn(dependsOn, result'[i], q)
    BY <1>1 DEF DependsOn, Occurrences
  <2>1. Len(result) \in Nat /\ DOMAIN result = 1 .. Len(result)
    BY <1>2
  <2>2. CASE i \in 1 .. Len(result)
    <3>1. DependsOn(dependsOn, result[i], q)
      BY <1>4, <2>0, <2>2
    <3>2. PICK j \in DOMAIN result : j < i /\ result[j] = q
      BY <2>1, <2>2, <3>1 DEF SortInv, DependenciesFirst
    <3> QED
      BY <1>4, <2>1, <3>2
  <2>3. CASE i = Len(result) + 1
    <3>1. DependsOn(dependsOn, c, q)
      BY <1>4, <2>0, <2>3
    <3>2. Missing(c) = {}
      <4>1. Missing(c) \subseteq DOMAIN dependsOn[c] /\ Cardinality(Missing(c)) = 0
        BY <1>3, <1>5 DEF Missing
      <4> QED
        BY <1>2, <1>3, <4>1, PositionsAreFinite
    <3>3. q \in Taken
      BY <3>1, <3>2 DEF DependsOn, Occurrences, Missing
    <3>4. PICK j \in DOMAIN result : result[j] = q
      BY <3>3 DEF Taken, Range
    <3> QED
      BY <1>4, <2>1, <2>3, <3>4
  <2> QED
    BY <2>1, <2>2, <2>3
<1>16. SortEnds'
  BY <1>1 DEF SortInv, SortEnds
<1> QED
  BY <1>6, <1>13, <1>14, <1>15, <1>16 DEF SortInv

LEMMA FinishKeepsSortInv ==
  ASSUME SortInv, Finish, UNCHANGED verdict
  PROVE  SortInv'
<1>1. /\ sorting = "loop" /\ queue = <<>>
      /\ sorting' = IF Len(result) = N THEN "order" ELSE "circular"
      /\ UNCHANGED <<dependsOn, inDegree, queue, result>>
  BY DEF Finish
<1>2. Taken' = Taken /\ Waiting' = Waiting
  BY <1>1 DEF Taken, Waiting
<1>3. SortEnds'
  BY <1>1 DEF SortInv, SortEnds
<1>4. SortTypeOK' /\ CountsMissing' /\ DependenciesFirst'
  BY <1>1, <1>2
  DEF SortInv, SortTypeOK, CountsMissing, Missing, DependenciesFirst
<1>5. ReadyOnce'
  BY <1>1, <1>2 DEF SortInv, ReadyOnce
<1> QED
  BY <1>3, <1>4, <1>5 DEF SortInv

LEMMA InitSorts == Init => SortInv
<1> SUFFICES ASSUME Init PROVE SortInv
  OBVIOUS
<1>1. /\ dependsOn \in Graphs
      /\ inDegree = [p \in Proc |-> Len(dependsOn[p])]
      /\ queue = <<>> /\ result = <<>> /\ sorting = "called"
  BY DEF Init, SortInit
<1>2. /\ queue \in Seq(Proc) /\ result \in Seq(Proc)
      /\ DOMAIN queue = {} /\ DOMAIN result = {}
  BY <1>1
<1>3. Taken = {} /\ Waiting = {}
  BY <1>2 DEF Taken, Waiting, Range
<1>4. ASSUME NEW p \in Proc
      PROVE  inDegree[p] \in Nat /\ inDegree[p] = Cardinality(Missing(p))
  <2>1. Missing(p) = DOMAIN dependsOn[p]
    BY <1>3 DEF Missing
  <2>2. PICK n \in Nat : Len(dependsOn[p]) = n /\ DOMAIN dependsOn[p] = 1 .. n
    <3>1. dependsOn[p] \in Seq(Proc)
      BY <1>1, GraphsAssumption
    <3> QED
      BY <3>1
  <2>3. Cardinality(1 .. n) = IF 1 > n THEN 0 ELSE n - 1 + 1
    BY FS_Interval
  <2>4. Cardinality(1 .. n) = n
    BY <2>3
  <2> QED
    BY <1>1, <2>1, <2>2, <2>4
<1>5. SortTypeOK
  BY <1>1, <1>2, <1>4 DEF SortTypeOK
<1>6. CountsMissing
  BY <1>4 DEF CountsMissing
<1>7. ReadyOnce
  BY <1>1, <1>2, <1>3 DEF ReadyOnce, IsInjective
<1>8. DependenciesFirst
  BY <1>2 DEF DependenciesFirst
<1>9. SortEnds
  BY <1>1 DEF SortEnds
<1> QED
  BY <1>5, <1>6, <1>7, <1>8, <1>9 DEF SortInv

\* The inductive invariant of the order.
LEMMA SortInvariant == Spec => []SortInv
<1>1. SortInv /\ [Next]_vars => SortInv'
  <2> SUFFICES ASSUME SortInv, [Next]_vars PROVE SortInv'
    OBVIOUS
  <2>1. CASE CheckNext /\ UNCHANGED <<inDegree, queue, result, sorting>>
    <3>1. UNCHANGED <<dependsOn, inDegree, queue, result, sorting>>
      BY <2>1 DEF CheckNext, CallRoot, Call, Descend, FindCycle, Skip, Return, Accept
    <3>2. verdict # "none" => verdict' # "none"
      BY <2>1 DEF CheckNext, CallRoot, Descend, Looking, FindCycle, Skip, Return, Accept
    <3> QED
      BY <3>1, <3>2 DEF SortInv, SortTypeOK, CountsMissing, Missing, ReadyOnce, Taken,
                        Waiting, DependenciesFirst, SortEnds
  <2>2. CASE verdict # "none" /\ SortNext /\ UNCHANGED <<visited, recStack, stack, verdict>>
    BY <2>2, FillQueueKeepsSortInv, TakeKeepsSortInv, FinishKeepsSortInv DEF SortNext
  <2>3. CASE UNCHANGED vars
    BY <2>3 DEF vars, SortInv, SortTypeOK, CountsMissing, Missing, ReadyOnce, Taken,
                Waiting, DependenciesFirst, SortEnds
  <2> QED
    BY <2>1, <2>2, <2>3 DEF Next
<1> QED
  BY <1>1, InitSorts, PTL DEF Spec

\* A list of different processes names all of them exactly if it is as long as
\* there are processes.
LEMMA FullOrderNamesAll ==
  ASSUME SortInv
  PROVE  Len(result) = N <=> Taken = Proc
<1>1. PICK n \in Nat : n = Len(result) /\ DOMAIN result = 1 .. n
  BY DEF SortInv, SortTypeOK
<1>2. result \in [1 .. n -> Proc]
  BY <1>1 DEF SortInv, SortTypeOK
<1>3. result \in Injection(1 .. n, Proc)
  BY <1>2 DEF SortInv, ReadyOnce, Injection
<1>4. IsFiniteSet(Proc) /\ Cardinality(Proc) = N
  <2>1. IsFiniteSet(1 .. N) /\ Cardinality(1 .. N) = IF 1 > N THEN 0 ELSE N - 1 + 1
    BY NAssumption, FS_Interval
  <2> QED
    BY <2>1, NAssumption DEF Proc
<1>5. Cardinality(1 .. n) = n
  <2>1. Cardinality(1 .. n) = IF 1 > n THEN 0 ELSE n - 1 + 1
    BY FS_Interval
  <2> QED
    BY <2>1
<1>6. Cardinality(1 .. n) = Cardinality(Proc) <=> result \in Surjection(1 .. n, Proc)
  BY <1>3, <1>4, FS_Injection
<1>7. result \in Surjection(1 .. n, Proc) <=> Taken = Proc
  BY <1>1, <1>2 DEF Surjection, Taken, Range
<1> QED
  BY <1>1, <1>4, <1>5, <1>6, <1>7

\* StartAll starts no process before a process it depends on, for any number of
\* processes and any acyclic or circular lists, whatever the map's order.
THEOREM OrderRespectsDependencies == Spec => []DependenciesFirst
<1>1. SortInv => DependenciesFirst
  BY DEF SortInv
<1> QED
  BY <1>1, SortInvariant, PTL

\* StartAll starts no process twice, and leaves none out when topologicalSort
\* reports no cycle.
THEOREM OrderNamesEachOnce == Spec => []OrderIsComplete
<1>1. SortInv => OrderIsComplete
  <2> SUFFICES ASSUME SortInv PROVE OrderIsComplete
    OBVIOUS
  <2>1. \A i, j \in DOMAIN result : result[i] = result[j] => i = j
    BY DEF SortInv, ReadyOnce, IsInjective
  <2>2. sorting = "order" => Taken = Proc
    BY FullOrderNamesAll DEF SortInv, SortEnds
  <2> QED
    BY <2>1, <2>2 DEF OrderIsComplete, Taken
<1> QED
  BY <1>1, SortInvariant, PTL

\* An order with every dependency first leaves no room for a circle: the member
\* of the circle placed first depends on one placed later.
LEMMA OrderedIsAcyclic ==
  ASSUME SortInv, Taken = Proc
  PROVE  ~Circular(dependsOn)
<1> SUFFICES ASSUME NEW S \in SUBSET Proc, Circle(dependsOn, S) PROVE FALSE
  BY DEF Circular
<1> DEFINE I == {i \in DOMAIN result : result[i] \in S}
<1>1. DOMAIN result \subseteq Nat
  BY DEF SortInv, SortTypeOK
<1>2. I \subseteq Nat /\ I # {}
  <2>1. PICK p : p \in S /\ p \in Taken
    BY DEF Circle
  <2> QED
    BY <1>1, <2>1 DEF Taken, Range
<1>3. PICK i \in I : \A j \in I : ~(j < i)
  <2> DEFINE R == {ss \in Nat \X Nat : ss[1] < ss[2]}
  <2>1. IsWellFoundedOn(R, Nat)
    BY NatLessThanWellFounded DEF OpToRel
  <2> HIDE DEF R, I
  <2>2. \E i \in I : \A j \in I : ~(<<j, i>> \in R)
    BY <1>2, <2>1, WFMin
  <2>3. PICK i \in I : \A j \in I : ~(<<j, i>> \in R)
    BY <2>2
  <2>4. \A j \in I : ~(j < i)
    BY <1>2, <2>3 DEF R
  <2> QED
    BY <2>4
<1>4. PICK q \in S : DependsOn(dependsOn, result[i], q)
  BY DEF Circle
<1>5. PICK j \in DOMAIN result : j < i /\ result[j] = q
  BY <1>4 DEF SortInv, DependenciesFirst
<1> QED
  BY <1>3, <1>4, <1>5

\* What the sort could not take depends on itself.
LEMMA LeftOverIsCircular ==
  ASSUME SortInv, dependsOn \in Graphs, sorting = "circular"
  PROVE  Circular(dependsOn)
<1> DEFINE S == Proc \ Taken
<1>1. queue = <<>> /\ Len(result) # N
  BY DEF SortInv, SortEnds
<1>2. Waiting = {}
  <2>1. DOMAIN queue = {}
    BY <1>1
  <2> QED
    BY <2>1 DEF Waiting, Range
<1>3. Taken \subseteq Proc
  BY SeqFacts DEF SortInv, SortTypeOK, Taken
<1>4. S # {}
  BY <1>1, <1>3, FullOrderNamesAll
<1>5. ASSUME NEW p \in S
      PROVE  \E q \in S : DependsOn(dependsOn, p, q)
  <2>1. Cardinality(Missing(p)) # 0
    BY <1>2 DEF SortInv, ReadyOnce, CountsMissing
  <2>2. Missing(p) # {}
    BY <2>1, FS_EmptySet
  <2>3. PICK i \in DOMAIN dependsOn[p] : dependsOn[p][i] \notin Taken
    BY <2>2 DEF Missing
  <2>4. dependsOn[p][i] \in Proc
    <3>1. dependsOn[p] \in Seq(Proc)
      BY GraphsAssumption
    <3> QED
      BY <3>1, SeqFacts
  <2>5. DependsOn(dependsOn, p, dependsOn[p][i])
    BY DEF DependsOn, Occurrences
  <2> QED
    BY <2>3, <2>4, <2>5
<1>6. S \in SUBSET Proc /\ Circle(dependsOn, S)
  BY <1>4, <1>5 DEF Circle
<1> QED
  BY <1>6 DEF Circular

\* The search Validate makes and the sort StartAll makes never disagree about
\* which configurations are circular, however many processes there are.
THEOREM VerdictsAgree == Spec => []AlgorithmsAgree
<1>1. SearchInv /\ SortInv => AlgorithmsAgree
  <2> SUFFICES ASSUME SearchInv, SortInv PROVE AlgorithmsAgree
    OBVIOUS
  <2>1. dependsOn \in Graphs /\ verdict \in {"none", "valid", "circular"}
    BY DEF SearchInv, CheckTypeOK
  <2>2. verdict = "circular" => Circular(dependsOn)
    BY DEF SearchInv, VerdictInv
  <2>3. verdict = "valid" => ~Circular(dependsOn)
    <3> SUFFICES ASSUME verdict = "valid" PROVE ~Circular(dependsOn)
      OBVIOUS
    <3>1. Finished = Proc
      BY DEF SearchInv, VerdictInv, StackIsPath, Finished
    <3> QED
      BY <3>1 DEF SearchInv, FinishedIsAcyclic, Circular
  <2>4. sorting = "order" => ~Circular(dependsOn)
    BY FullOrderNamesAll, OrderedIsAcyclic DEF SortInv, SortEnds
  <2>5. sorting = "circular" => Circular(dependsOn)
    BY <2>1, LeftOverIsCircular
  <2>6. sorting # "called" => verdict # "none"
    BY DEF SortInv, SortEnds
  <2> QED
    BY <2>1, <2>2, <2>3, <2>4, <2>5, <2>6 DEF AlgorithmsAgree
<1> QED
  BY <1>1, SearchInvariant, SortInvariant, PTL

=============================================================================
