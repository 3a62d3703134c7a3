--------------------------- MODULE TaskRunnerProofs ---------------------------
(***************************************************************************)
(* Proofs about the runner of a task, for every set of generators, nested  *)
(* in whatever way.  Only what is proved about the inlined form of a       *)
(* handler needs that no generator comes to yield itself.                  *)
(***************************************************************************)
EXTENDS TaskRunner, SequenceTheorems, WellFoundedInduction, TLAPS

Iterator == {i \in [gen : Gen, at : Nat] : i.at <= Len(Code[i.gen])}

\* A generator is only stepped, or awaited, while it is on the stack.
StackInv ==
    /\ iterators \in Seq(Iterator)
    /\ control \in {"step", "awaiting"} => iterators # <<>>
    /\ control = "awaiting" => Top.at >= 1

\* A step that is past its check is not cancelled, and is the first since the
\* request to cancel, if there was one.
CheckInv ==
    /\ control = "step" => ~cancelled /\ late = 0
    /\ late = 0 \/ (late = 1 /\ requested)

\* A handler that yields no generators is alone on the stack, and leaves it
\* uncancelled.
Flat == \A i \in DOMAIN Code[main] : Code[main][i] \notin Gen

FlatInv ==
    Flat =>
        /\ frames = 0
        /\ iterators = <<>> \/ (Len(iterators) = 1 /\ iterators[1].gen = main)
        /\ iterators = <<>> => ~cancelled /\ control \in {"returning", "done"}

RunnerInv == TypeOK /\ StackInv /\ CheckInv /\ FlatInv

-----------------------------------------------------------------------------
LEMMA TopOfStack ==
    ASSUME StackInv, iterators # <<>>
    PROVE  /\ Len(iterators) \in Nat \ {0}
           /\ Top \in Iterator
           /\ Top.gen \in Gen /\ Top.at \in 0..Len(Code[Top.gen])
           /\ Len(Code[Top.gen]) \in Nat
           /\ \A i \in 1..Len(Code[Top.gen]) :
                 Code[Top.gen][i] \in {"promise", "value"} \cup Gen
<1>1. Len(iterators) \in Nat \ {0}
  BY DEF StackInv
<1>2. Top \in Iterator
  BY <1>1 DEF StackInv, Top
<1>3. Code[Top.gen] \in Seq({"promise", "value"} \cup Gen)
  BY <1>2, CodeAssumption DEF Iterator
<1>4. QED
  BY <1>1, <1>2, <1>3 DEF Iterator

\* Any place of a generator that is past its beginning is one of its yields.
LEMMA PlaceIsYield ==
    ASSUME NEW g \in Gen, NEW i \in 1..Len(Code[g])
    PROVE  <<g, i>> \in Yields
<1>1. Code[g] \in Seq({"promise", "value"} \cup Gen)
  BY CodeAssumption
<1>2. i \in DOMAIN Code[g]
  BY <1>1
<1>3. QED
  BY <1>2 DEF Yields

LEMMA ResumeType ==
    ASSUME TypeOK, StackInv, iterators # <<>>, Resume
    PROVE  \A g \in given' : g \in Yields \X (Yields \cup {NoValue})
<1>1. Top.gen \in Gen /\ Top.at \in 0..Len(Code[Top.gen])
  BY TopOfStack
<1>2. CASE Top.at = 0
  BY <1>2 DEF Resume, TypeOK
<1>3. CASE Top.at # 0
  <2>1. Top.at \in 1..Len(Code[Top.gen])
    BY <1>1, <1>3, TopOfStack
  <2>2. Current \in Yields
    BY <1>1, <2>1, PlaceIsYield DEF Current
  <2>3. lastValue \in Yields \cup {NoValue}
    BY DEF TypeOK
  <2>4. \A g \in given : g \in Yields \X (Yields \cup {NoValue})
    BY DEF TypeOK
  <2>5. given' = given \cup {<<Current, lastValue>>}
    BY <1>3 DEF Resume
  <2>6. QED BY <2>2, <2>3, <2>4, <2>5
<1>4. QED
  BY <1>2, <1>3

\* A stack of iterators has the type that is asked of it.
LEMMA StackType ==
    ASSUME NEW s \in Seq(Iterator)
    PROVE  \A k \in DOMAIN s : s[k].gen \in Gen /\ s[k].at \in 0..Len(Code[s[k].gen])
<1> SUFFICES ASSUME NEW k \in DOMAIN s
             PROVE  s[k].gen \in Gen /\ s[k].at \in 0..Len(Code[s[k].gen])
  OBVIOUS
<1>1. s[k] \in Iterator
  OBVIOUS
<1>2. Code[s[k].gen] \in Seq({"promise", "value"} \cup Gen)
  BY <1>1, CodeAssumption DEF Iterator
<1>3. QED
  BY <1>1, <1>2 DEF Iterator

-----------------------------------------------------------------------------
LEMMA InitRunner == ASSUME Init PROVE RunnerInv
<1>1. [gen |-> main, at |-> 0] \in Iterator
  <2>1. Code[main] \in Seq({"promise", "value"} \cup Gen) /\ main \in Gen
    BY CodeAssumption DEF Init
  <2>2. QED BY <2>1 DEF Iterator
<1>2. StackInv
  BY <1>1 DEF Init, StackInv
<1>3. TypeOK
  <2>1. \A k \in DOMAIN iterators :
          iterators[k].gen \in Gen /\ iterators[k].at \in 0..Len(Code[iterators[k].gen])
    BY <1>2, StackType DEF StackInv
  <2>2. trace \in Seq(Yields) /\ lastValue \in Yields \cup {NoValue}
    BY DEF Init
  <2>3. QED BY <2>1, <2>2 DEF Init, TypeOK, Controls
<1>4. CheckInv /\ FlatInv
  BY DEF Init, CheckInv, FlatInv
<1>5. QED
  BY <1>2, <1>3, <1>4 DEF RunnerInv

\* The steps that leave the stack as it is.
LEMMA ControlKeeps ==
    ASSUME RunnerInv,
           Run \/ OnStep \/ Resolve \/ Throws \/ Return \/ RequestCancel \/ CancelItself
    PROVE  RunnerInv'
<1>0. main' = main /\ iterators' = iterators /\ trace' = trace /\ given' = given /\ late' = late
  BY DEF Run, OnStep, Resolve, Throws, Return, RequestCancel, CancelItself
<1>1. lastValue' \in Yields \cup {NoValue}
  <2>1. CASE Resolve
    <3>1. iterators # <<>> /\ Top.at >= 1
      BY <2>1 DEF Resolve, RunnerInv, StackInv
    <3>2. Top.gen \in Gen /\ Top.at \in 1..Len(Code[Top.gen])
      BY <3>1, TopOfStack DEF RunnerInv
    <3>3. QED BY <2>1, <3>2, PlaceIsYield DEF Resolve, Current
  <2>2. CASE ~Resolve
    BY <2>2 DEF RunnerInv, TypeOK, Run, OnStep, Throws, Return, RequestCancel, CancelItself
  <2>3. QED BY <2>1, <2>2
<1>2. /\ frames' \in Nat
      /\ control' \in Controls
      /\ cancelled' \in BOOLEAN
      /\ requested' \in BOOLEAN
  <2>1. frames \in Nat /\ control \in Controls /\ cancelled \in BOOLEAN /\ requested \in BOOLEAN
    BY DEF RunnerInv, TypeOK
  <2>2. CASE OnStep
    BY <2>1, <2>2 DEF OnStep, Controls
  <2>3. CASE Return
    BY <2>1, <2>3 DEF Return, Controls
  <2>4. QED
    BY <2>1, <2>2, <2>3 DEF Controls, Run, Resolve, Throws, RequestCancel, CancelItself
<1>3. TypeOK'
  BY <1>0, <1>1, <1>2 DEF RunnerInv, TypeOK
<1>4. StackInv'
  BY <1>0 DEF RunnerInv, StackInv, Top, Run, OnStep, Resolve, Throws, Return, RequestCancel, CancelItself
<1>5. CheckInv'
  BY <1>0 DEF RunnerInv, TypeOK, CheckInv, Run, OnStep, Resolve, Throws, Return, RequestCancel, CancelItself
<1>6. FlatInv'
  <2> SUFFICES ASSUME Flat PROVE FlatInv'
    BY <1>0 DEF FlatInv, Flat
  <2>1. frames' = 0
    BY DEF RunnerInv, FlatInv, Run, OnStep, Resolve, Throws, Return, RequestCancel, CancelItself
  <2>2. iterators = <<>> => ~cancelled' /\ control' \in {"returning", "done"}
    BY DEF RunnerInv, FlatInv, Run, OnStep, Resolve, Throws, Return, RequestCancel, CancelItself
  <2>3. QED BY <1>0, <2>1, <2>2 DEF RunnerInv, FlatInv
<1>7. QED
  BY <1>3, <1>4, <1>5, <1>6 DEF RunnerInv

LEMMA AtYieldKeeps == ASSUME RunnerInv, AtYield PROVE RunnerInv'
<1> DEFINE n == Len(iterators)
           what == Code[Top.gen][Top.at + 1]
           here == <<Top.gen, Top.at + 1>>
           stack == [iterators EXCEPT ![n].at = @ + 1]
<1>1. iterators # <<>> /\ control = "step"
  BY DEF AtYield, RunnerInv, StackInv
<1>2. /\ n \in Nat \ {0} /\ Top \in Iterator /\ Top.gen \in Gen
      /\ Top.at \in Nat /\ Top.at + 1 \in 1..Len(Code[Top.gen])
  BY <1>1, TopOfStack DEF AtYield, RunnerInv
<1>3. here \in Yields
  BY <1>2, PlaceIsYield
<1>4. stack \in Seq(Iterator) /\ Len(stack) = n
      /\ stack[n] = [Top EXCEPT !.at = @ + 1]
      /\ \A k \in 1..n - 1 : stack[k] = iterators[k]
  <2>1. [Top EXCEPT !.at = @ + 1] \in Iterator
    BY <1>2 DEF Iterator
  <2>2. stack = [iterators EXCEPT ![n] = [Top EXCEPT !.at = @ + 1]]
    BY DEF Top
  <2>3. QED BY SMTT(60), <1>2, <2>1, <2>2 DEF RunnerInv, StackInv
<1>5. iterators' = stack \/ (what \in Gen /\ iterators' = Append(stack, [gen |-> what, at |-> 0]))
  BY DEF AtYield
<1>6. iterators' \in Seq(Iterator) /\ iterators' # <<>>
  <2>1. CASE iterators' = stack
    BY <1>2, <1>4, <2>1
  <2>2. CASE what \in Gen /\ iterators' = Append(stack, [gen |-> what, at |-> 0])
    <3>1. Code[what] \in Seq({"promise", "value"} \cup Gen)
      BY <2>2, CodeAssumption
    <3>2. [gen |-> what, at |-> 0] \in Iterator
      BY <2>2, <3>1 DEF Iterator
    <3>3. QED BY <1>4, <2>2, <3>2
  <2>3. QED BY <1>5, <2>1, <2>2
<1>7. StackInv'
  <2>1. CASE control' = "awaiting"
    <3>1. iterators' = stack
      BY <2>1 DEF AtYield
    <3>2. Top'.at = Top.at + 1
      BY <1>2, <1>4, <3>1 DEF Top, Iterator
    <3>3. QED BY <1>2, <1>6, <3>2 DEF StackInv
  <2>2. CASE control' # "awaiting"
    BY <1>6, <2>2 DEF StackInv
  <2>3. QED BY <2>1, <2>2
<1>8. CheckInv'
  BY <1>1 DEF AtYield, RunnerInv, CheckInv
<1>9. FlatInv'
  <2> SUFFICES ASSUME Flat PROVE FlatInv'
    BY DEF FlatInv, Flat, AtYield
  <2>1. n = 1 /\ Top.gen = main /\ frames = 0
    BY <1>1 DEF RunnerInv, FlatInv, Top
  <2>2. what \notin Gen
    <3>1. Code[main] \in Seq({"promise", "value"} \cup Gen)
      BY CodeAssumption DEF RunnerInv, TypeOK
    <3>2. QED BY <1>2, <2>1, <3>1 DEF Flat
  <2>3. iterators' = stack
    BY <1>5, <2>2
  <2>4. QED
    BY <1>2, <1>4, <1>6, <2>1, <2>3 DEF FlatInv, AtYield, Iterator
<1>10. TypeOK'
  <2>1. \A g \in given' : g \in Yields \X (Yields \cup {NoValue})
    BY <1>1, ResumeType DEF AtYield, RunnerInv
  <2>2. trace' \in Seq(Yields) /\ lastValue' \in Yields \cup {NoValue}
    <3>1. trace \in Seq(Yields) /\ lastValue \in Yields \cup {NoValue}
      BY DEF RunnerInv, TypeOK
    <3>2. trace' = Append(trace, here) /\ lastValue' \in {lastValue, here}
      BY DEF AtYield
    <3>3. QED BY <1>3, <3>1, <3>2
  <2>3. late' \in Nat /\ control' \in Controls
    BY DEF AtYield, RunnerInv, TypeOK, Controls
  <2>4. QED
    BY <1>6, <2>1, <2>2, <2>3, StackType DEF AtYield, RunnerInv, TypeOK
<1>11. QED
  BY <1>7, <1>8, <1>9, <1>10 DEF RunnerInv

LEMMA FinishedKeeps == ASSUME RunnerInv, Finished PROVE RunnerInv'
<1>1. iterators # <<>> /\ control = "step"
  BY DEF Finished, RunnerInv, StackInv
<1>2. Len(iterators) \in Nat \ {0}
  BY <1>1, TopOfStack DEF RunnerInv
<1>3. iterators' \in Seq(Iterator) /\ Len(iterators') = Len(iterators) - 1
  BY <1>2 DEF Finished, Front, RunnerInv, StackInv
<1>4. control' \in {"returning", "next"}
  BY DEF Finished
<1>5. StackInv'
  BY <1>3, <1>4 DEF StackInv
<1>6. CheckInv'
  BY <1>4 DEF Finished, RunnerInv, CheckInv
<1>7. FlatInv'
  <2> SUFFICES ASSUME Flat PROVE FlatInv'
    BY DEF FlatInv, Flat, Finished
  <2>1. Len(iterators) = 1 /\ frames = 0
    BY <1>1 DEF RunnerInv, FlatInv
  <2>2. iterators' = <<>>
    BY <1>3, <2>1
  <2>3. QED
    BY <1>1, <2>1, <2>2 DEF Finished, RunnerInv, CheckInv, FlatInv
<1>8. TypeOK'
  <2>1. \A g \in given' : g \in Yields \X (Yields \cup {NoValue})
    BY <1>1, ResumeType DEF Finished, RunnerInv
  <2>2. frames' \in Nat
    BY DEF Finished, RunnerInv, TypeOK
  <2>3. QED
    BY <1>3, <1>4, <2>1, <2>2, StackType DEF Finished, RunnerInv, TypeOK, Controls
<1>9. QED
  BY <1>5, <1>6, <1>7, <1>8 DEF RunnerInv

LEMMA RunnerHolds == Spec => []RunnerInv
<1>1. Init => RunnerInv
  BY InitRunner
<1>2. RunnerInv /\ UNCHANGED vars => RunnerInv'
  BY DEF vars, RunnerInv, TypeOK, StackInv, Top, CheckInv, FlatInv, Flat
<1>3. RunnerInv /\ [Next]_vars => RunnerInv'
  BY <1>2, ControlKeeps, AtYieldKeeps, FinishedKeeps DEF Next, Step
<1>4. QED
  BY <1>1, <1>3, PTL DEF Spec

-----------------------------------------------------------------------------
\* Any set of numbers has a least one.
LEMMA LeastNat ==
    ASSUME NEW T \in SUBSET Nat, T # {}
    PROVE  \E n \in T : \A m \in T : n <= m
<1> DEFINE R == {ss \in Nat \X Nat : ss[1] < ss[2]}
<1>1. IsWellFoundedOn(R, Nat)
  BY NatLessThanWellFounded DEF OpToRel
<1>2. PICK n \in T : \A m \in T : ~(<<m, n>> \in R)
  BY <1>1, WFMin
<1>3. \A m \in T : ~(m < n)
  BY <1>2
<1>4. QED
  BY <1>3

\* What FlattenSeq has put together after each of its sequences.
Flattens(f, seqs, n) ==
    f = [i \in 1..n |-> IF i = 1 THEN seqs[i] ELSE f[i - 1] \o seqs[i]]

LEMMA FlattensExists ==
    ASSUME NEW seqs, NEW n \in Nat
    PROVE  \E f : Flattens(f, seqs, n)
<1> DEFINE Missing == {m \in Nat : ~\E f : Flattens(f, seqs, m)}
<1> SUFFICES ASSUME Missing # {} PROVE FALSE
  OBVIOUS
<1>1. PICK m \in Missing : \A k \in Missing : m <= k
  <2>1. Missing \in SUBSET Nat
    OBVIOUS
  <2> HIDE DEF Missing
  <2>2. QED
    BY <2>1, LeastNat
<1>2. CASE m = 0
  <2> DEFINE f == [i \in 1..0 |-> seqs[1]]
  <2>1. Flattens(f, seqs, 0)
    BY DEF Flattens
  <2>2. QED
    BY <1>2, <2>1
<1>3. CASE m > 0
  <2>1. m - 1 \in Nat /\ ~(m <= m - 1)
    BY <1>3
  <2>2. PICK f : Flattens(f, seqs, m - 1)
    BY <1>1, <2>1
  <2> DEFINE h == [i \in 1..m |-> IF i < m THEN f[i] ELSE IF i = 1 THEN seqs[i] ELSE f[i - 1] \o seqs[i]]
  <2>3. ASSUME NEW i \in 1..m
        PROVE  h[i] = IF i = 1 THEN seqs[i] ELSE h[i - 1] \o seqs[i]
    <3>1. CASE i < m
      <4>1. i \in 1..(m - 1) /\ (i # 1 => i - 1 \in 1..m /\ i - 1 < m)
        BY <3>1
      <4>2. h[i] = f[i] /\ (i # 1 => h[i - 1] = f[i - 1])
        BY <3>1, <4>1
      <4>3. f[i] = IF i = 1 THEN seqs[i] ELSE f[i - 1] \o seqs[i]
        BY <2>2, <4>1 DEF Flattens
      <4> HIDE DEF h
      <4>4. QED
        BY <4>2, <4>3
    <3>2. CASE ~(i < m)
      <4>1. i # 1 => i - 1 \in 1..m /\ i - 1 < m
        OBVIOUS
      <4>2. i # 1 => h[i - 1] = f[i - 1]
        BY <4>1
      <4>3. h[i] = IF i = 1 THEN seqs[i] ELSE f[i - 1] \o seqs[i]
        BY <3>2
      <4> HIDE DEF h
      <4>4. QED
        BY <4>2, <4>3
    <3>3. QED
      BY <3>1, <3>2
  <2>4. h = [i \in 1..m |-> h[i]]
    OBVIOUS
  <2> HIDE DEF h
  <2>5. Flattens(h, seqs, m)
    BY <2>3, <2>4 DEF Flattens
  <2>6. QED
    BY <2>5
<1>4. QED
  BY <1>2, <1>3

LEMMA FlattenSteps ==
    ASSUME NEW S, NEW seqs \in Seq(Seq(S)), seqs # <<>>
    PROVE  \E f : /\ f[1] = seqs[1]
                  /\ \A i \in 2..Len(seqs) : f[i] = f[i - 1] \o seqs[i]
                  /\ \A i \in 1..Len(seqs) : f[i] \in Seq(S)
                  /\ FlattenSeq(seqs) = f[Len(seqs)]
<1> DEFINE n == Len(seqs)
           f == CHOOSE f : Flattens(f, seqs, n)
<1>1. n \in Nat /\ n > 0
  OBVIOUS
<1>2. Flattens(f, seqs, n)
  BY <1>1, FlattensExists
<1>3. FlattenSeq(seqs) = f[n]
  <2>1. FlattenSeq(seqs)
           = (CHOOSE h : h = [i \in 1..Len(seqs) |->
                                IF i = 1 THEN seqs[i] ELSE h[i - 1] \o seqs[i]])[Len(seqs)]
    BY <1>1 DEF FlattenSeq
  <2>2. QED
    BY <2>1, Zenon DEF Flattens
<1> HIDE DEF f, n
<1>4. \A i \in 1..n : f[i] = IF i = 1 THEN seqs[i] ELSE f[i - 1] \o seqs[i]
  BY <1>2, Zenon DEF Flattens
<1>5. f[1] = seqs[1]
  BY <1>1, <1>4
<1>6. ASSUME NEW i \in 2..n PROVE f[i] = f[i - 1] \o seqs[i]
  <2>1. i \in 1..n /\ i # 1
    BY <1>1
  <2>2. QED
    BY <1>4, <2>1
<1>7. \A i \in 1..n : f[i] \in Seq(S)
  <2> DEFINE Bad == {i \in 1..n : f[i] \notin Seq(S)}
  <2> SUFFICES ASSUME Bad # {} PROVE FALSE
    OBVIOUS
  <2>1. PICK i \in Bad : \A k \in Bad : i <= k
    <3>1. Bad \in SUBSET Nat
      OBVIOUS
    <3> HIDE DEF Bad
    <3>2. QED
      BY <3>1, LeastNat
  <2>2. i # 1
    BY <1>1, <1>5
  <2>3. i - 1 \in 1..n /\ ~(i <= i - 1)
    BY <1>1, <2>2
  <2>4. f[i - 1] \in Seq(S)
    BY <2>1, <2>3
  <2>5. seqs[i] \in Seq(S)
    BY DEF n
  <2>6. f[i - 1] \o seqs[i] \in Seq(S)
    BY <2>4, <2>5, ConcatProperties
  <2>7. i \in 2..n
    BY <1>1, <2>2
  <2>8. f[i] \in Seq(S)
    BY <1>6, <2>6, <2>7
  <2>9. QED
    BY <2>1, <2>8
<1>8. QED
  BY <1>3, <1>5, <1>6, <1>7 DEF n

\* A flattened sequence is typed, and ends in its last part.
LEMMA FlattenType ==
    ASSUME NEW S, NEW seqs \in Seq(Seq(S))
    PROVE  FlattenSeq(seqs) \in Seq(S)
<1>1. CASE seqs = <<>>
  BY <1>1 DEF FlattenSeq
<1>2. CASE seqs # <<>>
  <2>1. Len(seqs) \in 1..Len(seqs)
    BY <1>2
  <2>2. QED
    BY <1>2, <2>1, FlattenSteps
<1>3. QED
  BY <1>1, <1>2

LEMMA FlattenLast ==
    ASSUME NEW S, NEW seqs \in Seq(Seq(S)), seqs # <<>>
    PROVE  \E s \in Seq(S) : FlattenSeq(seqs) = s \o seqs[Len(seqs)]
<1> DEFINE n == Len(seqs)
<1>0. n \in Nat /\ n > 0 /\ seqs[n] \in Seq(S)
  OBVIOUS
<1>1. PICK f : /\ f[1] = seqs[1]
               /\ \A i \in 2..n : f[i] = f[i - 1] \o seqs[i]
               /\ \A i \in 1..n : f[i] \in Seq(S)
               /\ FlattenSeq(seqs) = f[n]
  BY FlattenSteps
<1>2. CASE n = 1
  <2>1. <<>> \in Seq(S) /\ seqs[n] = <<>> \o seqs[n]
    BY <1>0, ConcatEmptySeq
  <2>2. QED
    BY <1>1, <1>2, <2>1
<1>3. CASE n # 1
  <2> HIDE DEF n
  <2>1. n \in 2..n /\ n - 1 \in 1..n
    BY <1>0, <1>3
  <2>2. QED
    BY <1>1, <2>1 DEF n
<1>4. QED
  BY <1>2, <1>3

\* A flattened sequence begins with its first part.
LEMMA FlattenFirst ==
    ASSUME NEW S, NEW seqs \in Seq(Seq(S)), seqs # <<>>
    PROVE  FlattenSeq(seqs) = seqs[1] \o FlattenSeq(Tail(seqs))
<1> DEFINE n == Len(seqs)
           rest == Tail(seqs)
<1>a. \A a, b, c \in Seq(S) : (a \o b) \o c = a \o (b \o c)
  BY SMTT(30), ConcatAssociative
<1>0. \A i \in 1..n : seqs[i] \in Seq(S)
  OBVIOUS
<1>1. /\ n \in Nat /\ n > 0 /\ rest \in Seq(Seq(S)) /\ Len(rest) = n - 1
      /\ \A i \in 1..(n - 1) : rest[i] = seqs[i + 1]
  BY HeadTailProperties
<1>2. PICK f : /\ f[1] = seqs[1]
               /\ \A i \in 2..n : f[i] = f[i - 1] \o seqs[i]
               /\ \A i \in 1..n : f[i] \in Seq(S)
               /\ FlattenSeq(seqs) = f[n]
  BY FlattenSteps
<1>3. CASE n = 1
  <2>1. rest = <<>>
    <3> HIDE DEF rest, n
    <3>1. QED
      BY <1>1, <1>3, EmptySeq
  <2>2. FlattenSeq(rest) = <<>>
    BY <2>1 DEF FlattenSeq
  <2>3. seqs[1] \in Seq(S)
    BY <1>1
  <2>4. QED
    BY <1>2, <1>3, <2>2, <2>3, ConcatEmptySeq
<1>4. CASE n > 1
  <2>1. rest # <<>>
    <3> HIDE DEF rest, n
    <3>1. QED
      BY <1>1, <1>4, EmptySeq
  <2>2. PICK g : /\ g[1] = rest[1]
                 /\ \A i \in 2..(n - 1) : g[i] = g[i - 1] \o rest[i]
                 /\ \A i \in 1..(n - 1) : g[i] \in Seq(S)
                 /\ FlattenSeq(rest) = g[n - 1]
    <3> HIDE DEF rest
    <3>1. rest \in Seq(Seq(S)) /\ Len(rest) = n - 1
      BY <1>1
    <3>2. PICK g : /\ g[1] = rest[1]
                   /\ \A i \in 2..Len(rest) : g[i] = g[i - 1] \o rest[i]
                   /\ \A i \in 1..Len(rest) : g[i] \in Seq(S)
                   /\ FlattenSeq(rest) = g[Len(rest)]
      BY <2>1, <3>1, FlattenSteps
    <3>3. QED
      BY <3>1, <3>2
  <2> HIDE DEF rest, n
  <2> DEFINE Same(i) == f[i + 1] = seqs[1] \o g[i]
             Bad == {i \in Nat : i \in 1..(n - 1) /\ ~Same(i)}
  <2>3. Bad = {}
    <3> SUFFICES ASSUME Bad # {} PROVE FALSE
      OBVIOUS
    <3>1. PICK i \in Bad : \A k \in Bad : i <= k
      <4>1. Bad \in SUBSET Nat
        OBVIOUS
      <4> HIDE DEF Bad
      <4>2. QED
        BY <4>1, LeastNat
    <3> HIDE DEF Same
    <3>2. i \in 1..(n - 1) /\ ~Same(i) /\ \A k \in 1..(n - 1) : ~Same(k) => i <= k
      BY <1>1, <3>1
    <3>3. i + 1 \in 2..n /\ (i + 1) - 1 = i
      BY <1>1, <3>2
    <3>4. f[i + 1] = f[i] \o seqs[i + 1]
      BY <1>2, <3>3
    <3>5. rest[i] = seqs[i + 1]
      BY <1>1, <3>2
    <3>6. CASE i = 1
      <4>1. f[i] = seqs[1] /\ g[i] = rest[i]
        BY <1>2, <2>2, <3>6
      <4>2. Same(i)
        BY <3>4, <3>5, <4>1, Zenon DEF Same
      <4>3. QED
        BY <3>2, <4>2
    <3>7. CASE i # 1
      <4>1. i - 1 \in 1..(n - 1) /\ i \in 2..(n - 1) /\ ~(i <= i - 1) /\ (i - 1) + 1 = i
        BY <1>1, <3>2, <3>7
      <4>2. Same(i - 1)
        BY <3>2, <4>1
      <4>3. f[i] = seqs[1] \o g[i - 1]
        BY <4>1, <4>2 DEF Same
      <4>4. g[i] = g[i - 1] \o rest[i]
        BY <2>2, <4>1
      <4>5. 1 \in 1..n /\ i + 1 \in 1..n
        BY <1>1, <3>2
      <4> DEFINE one == seqs[1]
                 two == g[i - 1]
                 three == seqs[i + 1]
      <4>6. one \in Seq(S) /\ two \in Seq(S) /\ three \in Seq(S)
        BY <1>0, <2>2, <4>1, <4>5
      <4>7. (one \o two) \o three = one \o (two \o three)
        <5> HIDE DEF one, two, three
        <5>1. QED
          BY <1>a, <4>6, Zenon
      <4>8. Same(i)
        BY <3>4, <3>5, <4>3, <4>4, <4>7, Zenon DEF Same
      <4>9. QED
        BY <3>2, <4>8
    <3>8. QED
      BY <3>6, <3>7
  <2>4. n - 1 \in 1..(n - 1) /\ (n - 1) + 1 = n
    BY <1>1, <1>4
  <2>5. Same(n - 1)
    <3> HIDE DEF Same
    <3>1. QED
      BY <2>3, <2>4
  <2>6. f[n] = seqs[1] \o g[n - 1]
    BY <2>4, <2>5
  <2>7. FlattenSeq(seqs) = seqs[1] \o FlattenSeq(rest)
    BY <1>2, <2>2, <2>6, Zenon
  <2>8. QED
    BY <2>7 DEF rest
<1>5. QED
  BY <1>1, <1>3, <1>4
-----------------------------------------------------------------------------
\* The parts that the inlined form of a generator is put together from, taking
\* that of the generators it yields from f.
Item(f, g, i) == IF Code[g][i] \in Gen THEN <<<<g, i>>>> \o f[Code[g][i]] ELSE <<<<g, i>>>>
Body(f, g) == [i \in 1..Len(Code[g]) |-> Item(f, g, i)]

\* f is right about some generators and all that these yield.
Inlines(f, gens) ==
    /\ gens \in SUBSET Gen
    /\ \A g \in gens : \A i \in 1..Len(Code[g]) : Code[g][i] \in Gen => Code[g][i] \in gens
    /\ \A g \in gens : f[g] = FlattenSeq(Body(f, g))

LEMMA CodeType ==
    ASSUME NEW g \in Gen
    PROVE  /\ Len(Code[g]) \in Nat /\ DOMAIN Code[g] = 1..Len(Code[g])
           /\ \A i \in 1..Len(Code[g]) : Code[g][i] \in {"promise", "value"} \cup Gen
<1>1. Code[g] \in Seq({"promise", "value"} \cup Gen)
  BY CodeAssumption
<1>2. QED
  BY <1>1

\* Induction over the nesting of generators: of those that have a property,
\* one yields no other that has it.
LEMMA Innermost ==
    ASSUME NEW gens \in SUBSET Gen, gens # {}
    PROVE  \E g \in gens : \A i \in 1..Len(Code[g]) : Code[g][i] \notin gens
<1>1. PICK g \in gens : \A i \in DOMAIN Code[g] : Code[g][i] \notin gens
  BY NestingAssumption
<1>2. QED
  BY <1>1, CodeType

LEMMA SameBody ==
    ASSUME NEW g \in Gen, NEW f, NEW h,
           \A i \in 1..Len(Code[g]) : Code[g][i] \in Gen => f[Code[g][i]] = h[Code[g][i]]
    PROVE  Body(f, g) = Body(h, g)
<1>1. \A i \in 1..Len(Code[g]) : Item(f, g, i) = Item(h, g, i)
  BY DEF Item
<1>2. QED
  BY <1>1, Zenon DEF Body

LEMMA InlinesAgree ==
    ASSUME NEW f, NEW h, NEW some, NEW others, Inlines(f, some), Inlines(h, others)
    PROVE  \A g \in some \cap others : f[g] = h[g]
<1> DEFINE Differ == {g \in some \cap others : f[g] # h[g]}
<1> SUFFICES ASSUME Differ # {} PROVE FALSE
  OBVIOUS
<1>1. PICK g \in Differ : \A i \in 1..Len(Code[g]) : Code[g][i] \notin Differ
  <2>1. Differ \in SUBSET Gen
    BY DEF Inlines
  <2> HIDE DEF Differ
  <2>2. QED
    BY <2>1, Innermost
<1>2. g \in Gen /\ g \in some /\ g \in others
  BY DEF Inlines
<1>3. \A i \in 1..Len(Code[g]) : Code[g][i] \in Gen => f[Code[g][i]] = h[Code[g][i]]
  BY <1>1, <1>2 DEF Inlines
<1>4. Body(f, g) = Body(h, g)
  BY <1>2, <1>3, SameBody
<1>5. f[g] = h[g]
  BY <1>2, <1>4 DEF Inlines
<1>6. QED
  BY <1>1, <1>5

\* There is a function that is right about all generators.
LEMMA InlinesExists == \E f : f = [g \in Gen |-> FlattenSeq(Body(f, g))]
<1> DEFINE Covered == {x \in Gen : \E h, some : Inlines(h, some) /\ x \in some}
           For(x) == CHOOSE h : \E some : Inlines(h, some) /\ x \in some
           f == [x \in Gen |-> For(x)[x]]
<1>1. ASSUME NEW x \in Covered
      PROVE  \E some : Inlines(For(x), some) /\ x \in some
  BY Zenon
<1>2. ASSUME NEW x \in Covered, NEW h, NEW some, Inlines(h, some), x \in some
      PROVE  f[x] = h[x]
  <2>1. PICK others : Inlines(For(x), others) /\ x \in others
    BY <1>1
  <2>2. f[x] = For(x)[x]
    OBVIOUS
  <2> HIDE DEF f, For, Covered
  <2>3. For(x)[x] = h[x]
    BY <1>2, <2>1, InlinesAgree
  <2>4. QED
    BY <2>2, <2>3
<1> HIDE DEF f, For
<1>3. Inlines(f, Covered)
  <2> SUFFICES ASSUME NEW g \in Covered
               PROVE  /\ \A i \in 1..Len(Code[g]) : Code[g][i] \in Gen => Code[g][i] \in Covered
                      /\ f[g] = FlattenSeq(Body(f, g))
    BY Zenon DEF Inlines
  <2>1. PICK h, some : Inlines(h, some) /\ g \in some
    OBVIOUS
  <2>2. \A i \in 1..Len(Code[g]) : Code[g][i] \in Gen => Code[g][i] \in some
    BY <2>1 DEF Inlines
  <2>3. some \subseteq Covered
    BY <2>1 DEF Inlines
  <2>4. \A x \in some : f[x] = h[x]
    BY <1>2, <2>1, <2>3
  <2>5. Body(f, g) = Body(h, g)
    BY <2>2, <2>4, SameBody
  <2>6. QED
    BY <2>1, <2>2, <2>3, <2>4, <2>5 DEF Inlines
<1>4. Covered = Gen
  <2> SUFFICES ASSUME Gen \ Covered # {} PROVE FALSE
    OBVIOUS
  <2>1. PICK g \in Gen \ Covered : \A i \in 1..Len(Code[g]) : Code[g][i] \notin Gen \ Covered
    <3> HIDE DEF Covered
    <3>1. QED
      BY Innermost
  <2> DEFINE h == [x \in Gen |-> IF x = g THEN FlattenSeq(Body(f, g)) ELSE f[x]]
             some == Covered \cup {g}
  <2>2. h[g] = FlattenSeq(Body(f, g)) /\ \A x \in Covered : h[x] = f[x]
    OBVIOUS
  <2> HIDE DEF h
  <2>3. \A x \in some : \A i \in 1..Len(Code[x]) : Code[x][i] \in Gen => Code[x][i] \in Covered
    BY <1>3, <2>1 DEF Inlines
  <2>4. \A x \in some : Body(h, x) = Body(f, x)
    BY <2>2, <2>3, SameBody
  <2>5. \A x \in some : h[x] = FlattenSeq(Body(h, x))
    BY <1>3, <2>2, <2>4 DEF Inlines
  <2>6. Inlines(h, some)
    BY <2>3, <2>5 DEF Inlines
  <2>7. QED
    BY <2>1, <2>6
<1>5. f = [g \in Gen |-> f[g]]
  BY DEF f
<1>6. f = [g \in Gen |-> FlattenSeq(Body(f, g))]
  <2> HIDE DEF Covered
  <2>1. \A g \in Gen : f[g] = FlattenSeq(Body(f, g))
    BY <1>3, <1>4 DEF Inlines
  <2>2. [g \in Gen |-> f[g]] = [g \in Gen |-> FlattenSeq(Body(f, g))]
    BY <2>1, Zenon
  <2>3. QED
    BY <1>5, <2>2, Zenon
<1>7. QED
  BY <1>6

\* What the recursive definition of Inlined says is so.
LEMMA InlinedIs == ASSUME NEW g \in Gen PROVE Inlined[g] = FlattenSeq(Body(Inlined, g))
<1>1. Inlined = CHOOSE f : f = [x \in Gen |-> FlattenSeq(Body(f, x))]
  BY DEF Inlined, Body, Item
<1>2. Inlined = [x \in Gen |-> FlattenSeq(Body(Inlined, x))]
  BY <1>1, InlinesExists
<1>3. QED
  BY <1>2

LEMMA BodyIs ==
    ASSUME NEW g \in Gen, NEW f,
           \A i \in 1..Len(Code[g]) : Code[g][i] \in Gen => f[Code[g][i]] \in Seq(Yields)
    PROVE  /\ Body(f, g) \in Seq(Seq(Yields)) /\ Len(Body(f, g)) = Len(Code[g])
           /\ \A i \in 1..Len(Code[g]) : Body(f, g)[i] = Item(f, g, i)
<1> DEFINE n == Len(Code[g])
<1>1. n \in Nat
  BY CodeType
<1>2. ASSUME NEW i \in 1..n PROVE Item(f, g, i) \in Seq(Yields)
  <2>1. <<<<g, i>>>> \in Seq(Yields)
    <3>1. <<g, i>> \in Yields
      BY PlaceIsYield
    <3>2. QED
      BY <3>1
  <2>2. CASE Code[g][i] \in Gen
    BY <2>1, <2>2, ConcatProperties DEF Item
  <2>3. QED
    BY <2>1, <2>2 DEF Item
<1> HIDE DEF n
<1>3. [i \in 1..n |-> Item(f, g, i)] \in [1..n -> Seq(Yields)]
  BY <1>2
<1>4. QED
  BY <1>1, <1>3 DEF Body, n

LEMMA InlinedType == \A g \in Gen : Inlined[g] \in Seq(Yields)
<1> DEFINE Untyped == {g \in Gen : Inlined[g] \notin Seq(Yields)}
<1> SUFFICES ASSUME Untyped # {} PROVE FALSE
  OBVIOUS
<1>1. PICK g \in Untyped : \A i \in 1..Len(Code[g]) : Code[g][i] \notin Untyped
  <2>1. Untyped \in SUBSET Gen
    OBVIOUS
  <2> HIDE DEF Untyped
  <2>2. QED
    BY <2>1, Innermost
<1>2. Body(Inlined, g) \in Seq(Seq(Yields))
  BY <1>1, BodyIs
<1>3. Inlined[g] \in Seq(Yields)
  BY <1>2, FlattenType, InlinedIs
<1>4. QED
  BY <1>1, <1>3

LEMMA InlinedBody ==
    ASSUME NEW g \in Gen
    PROVE  /\ Body(Inlined, g) \in Seq(Seq(Yields)) /\ Len(Body(Inlined, g)) = Len(Code[g])
           /\ \A i \in 1..Len(Code[g]) : Body(Inlined, g)[i] = Item(Inlined, g, i)
  BY BodyIs, InlinedType

\* What is left of the inlined form of a generator after its first a yields.
Remain(g, a) == FlattenSeq(SubSeq(Body(Inlined, g), a + 1, Len(Code[g])))

LEMMA RemainType ==
    ASSUME NEW g \in Gen, NEW a \in 0..Len(Code[g])
    PROVE  Remain(g, a) \in Seq(Yields)
<1>1. SubSeq(Body(Inlined, g), a + 1, Len(Code[g])) \in Seq(Seq(Yields))
  BY InlinedBody, CodeType
<1>2. QED
  BY <1>1, FlattenType DEF Remain

LEMMA RemainEnds ==
    ASSUME NEW g \in Gen
    PROVE  Remain(g, 0) = Inlined[g] /\ Remain(g, Len(Code[g])) = <<>>
<1> DEFINE n == Len(Code[g])
           b == Body(Inlined, g)
<1>1. n \in Nat /\ b \in Seq(Seq(Yields)) /\ Len(b) = n
  BY InlinedBody, CodeType
<1>2. Remain(g, 0) = FlattenSeq(SubSeq(b, 0 + 1, n)) /\ Remain(g, n) = FlattenSeq(SubSeq(b, n + 1, n))
  BY DEF Remain
<1>3. Inlined[g] = FlattenSeq(b)
  BY InlinedIs
<1> HIDE DEF n, b
<1>4. SubSeq(b, 0 + 1, n) = b
  BY <1>1, SubSeqFull
<1>5. SubSeq(b, n + 1, n) = <<>>
  BY <1>1, SubSeqEmpty
<1>6. FlattenSeq(<<>>) = <<>>
  BY DEF FlattenSeq
<1>7. QED
  BY <1>2, <1>3, <1>4, <1>5, <1>6 DEF n

LEMMA RemainStep ==
    ASSUME NEW g \in Gen, NEW a \in Nat, a < Len(Code[g])
    PROVE  Remain(g, a) = Item(Inlined, g, a + 1) \o Remain(g, a + 1)
<1> DEFINE n == Len(Code[g])
           b == Body(Inlined, g)
           s == SubSeq(b, a + 1, n)
<1>1. /\ n \in Nat /\ b \in Seq(Seq(Yields)) /\ Len(b) = n
      /\ \A i \in 1..n : b[i] = Item(Inlined, g, i)
  BY InlinedBody, CodeType
<1>2. a + 1 \in 1..n
  BY <1>1
<1>3. Remain(g, a) = FlattenSeq(s) /\ Remain(g, a + 1) = FlattenSeq(SubSeq(b, (a + 1) + 1, n))
  BY DEF Remain
<1> HIDE DEF n, b
<1>4. s \in Seq(Seq(Yields)) /\ Len(s) = n - a /\ s[1] = b[a + 1]
  BY <1>1, <1>2
<1>5. Tail(s) = SubSeq(b, (a + 1) + 1, n)
  BY <1>1, <1>2, HeadTailOfSubSeq
<1>6. s # <<>>
  BY <1>1, <1>2, <1>4
<1> HIDE DEF s
<1>7. FlattenSeq(s) = s[1] \o FlattenSeq(Tail(s))
  BY <1>4, <1>6, FlattenFirst
<1>8. QED
  BY <1>1, <1>2, <1>3, <1>4, <1>5, <1>7

\* The value a yield is given, and the last yield of a generator.
ValueOf(y) ==
    IF Code[y[1]][y[2]] \in Gen
    THEN LET nested == Inlined[Code[y[1]][y[2]]] IN
         IF nested = <<>> THEN y ELSE nested[Len(nested)]
    ELSE y

LEMMA LastOfInlined ==
    ASSUME NEW g \in Gen
    PROVE  /\ Len(Code[g]) = 0 => Inlined[g] = <<>>
           /\ Len(Code[g]) # 0 => /\ Inlined[g] # <<>>
                                  /\ Inlined[g][Len(Inlined[g])] = ValueOf(<<g, Len(Code[g])>>)
<1> DEFINE n == Len(Code[g])
           here == <<g, n>>
           b == Body(Inlined, g)
<1>1. /\ n \in Nat /\ b \in Seq(Seq(Yields)) /\ Len(b) = n
      /\ \A i \in 1..n : b[i] = Item(Inlined, g, i)
  BY InlinedBody, CodeType
<1>2. Inlined[g] = FlattenSeq(b)
  BY InlinedIs
<1>3. CASE n = 0
  <2>1. Inlined[g] = <<>>
    BY <1>3, RemainEnds
  <2>2. QED
    BY <1>3, <2>1
<1>4. CASE n # 0
  <2>1. PICK s \in Seq(Yields) : Inlined[g] = s \o Item(Inlined, g, n)
    <3> HIDE DEF b, n
    <3>1. b # <<>> /\ n \in 1..n
      BY <1>1, <1>4
    <3>2. \E s \in Seq(Yields) : FlattenSeq(b) = s \o b[n]
      BY <1>1, <3>1, FlattenLast
    <3>3. QED
      BY <1>1, <1>2, <3>1, <3>2
  <2>2. here \in Yields
    BY <1>1, <1>4, PlaceIsYield
  <2>3. here[1] = g /\ here[2] = n
    OBVIOUS
  <2> DEFINE last == Item(Inlined, g, n)
             nested == Inlined[Code[g][n]]
  <2>4. last \in Seq(Yields) /\ last # <<>> /\ last[Len(last)] = ValueOf(here)
    <3>1. CASE Code[g][n] \in Gen
      <4>1. nested \in Seq(Yields)
        BY <3>1, InlinedType
      <4>2. last = <<here>> \o nested
        BY <3>1 DEF Item
      <4>3. ValueOf(here) = IF nested = <<>> THEN here ELSE nested[Len(nested)]
        BY <2>3, <3>1 DEF ValueOf
      <4> HIDE DEF last, here, nested
      <4>4. QED
        BY <2>2, <4>1, <4>2, <4>3
    <3>2. CASE Code[g][n] \notin Gen
      <4>1. last = <<here>>
        BY <3>2 DEF Item
      <4>2. ValueOf(here) = here
        BY <2>3, <3>2 DEF ValueOf
      <4> HIDE DEF last, here
      <4>3. QED
        BY <2>2, <4>1, <4>2
    <3>3. QED
      BY <3>1, <3>2
  <2> HIDE DEF last, here
  <2>5. Inlined[g] # <<>> /\ Inlined[g][Len(Inlined[g])] = last[Len(last)]
    <3>1. Inlined[g] = s \o last
      BY <2>1 DEF last
    <3>2. Len(s \o last) = Len(s) + Len(last) /\ Len(last) > 0 /\ Len(s) \in Nat /\ Len(last) \in Nat
      BY <2>4
    <3>3. (s \o last)[Len(s) + Len(last)] = last[Len(last)]
      BY <2>4, <3>2
    <3>4. QED
      BY <2>4, <3>1, <3>2, <3>3
  <2>6. QED
    BY <1>4, <2>4, <2>5 DEF here
<1>5. QED
  BY <1>3, <1>4

-----------------------------------------------------------------------------
\* The yields to come: for each iterator what its generator has left, and
\* after it what those below it have.
Owed(r) ==
    /\ r \in [0..Len(iterators) -> Seq(Yields)]
    /\ r[0] = <<>>
    /\ \A k \in 1..Len(iterators) : r[k] = Remain(iterators[k].gen, iterators[k].at) \o r[k - 1]

\* The yields so far and those to come are the inlined handler.
TraceInv == \E r : Owed(r) /\ trace \o r[Len(iterators)] = Inlined[main]

\* A call of next returns from the end of the handler or after a cancellation.
EndInv == control \in {"returning", "done"} => cancelled \/ iterators = <<>>

\* Each iterator on the stack is one that the generator below it has yielded.
ChainInv ==
    \A k \in 1..(Len(iterators) - 1) :
        /\ iterators[k].at >= 1
        /\ iterators[k + 1].gen = Code[iterators[k].gen][iterators[k].at]

\* What the generator on top is given when it is resumed; below one that has
\* not begun lies the yield that an empty generator leaves its value to.
LastInv ==
    /\ control = "awaiting" => Code[Top.gen][Top.at] = "promise"
    /\ control \in {"idle", "next", "step"} /\ ~cancelled /\ iterators # <<>> =>
          /\ Top.at > 0 => lastValue = ValueOf(Current)
          /\ Top.at = 0 /\ Len(iterators) > 1 =>
                LET below == iterators[Len(iterators) - 1] IN lastValue = <<below.gen, below.at>>

InliningInv ==
    RunnerInv /\ TraceInv /\ EndInv /\ ChainInv /\ LastInv /\ YieldsGetTheirValues

LEMMA InitInlining == ASSUME Init PROVE InliningInv
<1>1. RunnerInv
  BY InitRunner
<1>2. main \in Gen /\ iterators = <<[gen |-> main, at |-> 0]>> /\ trace = <<>>
  BY DEF Init
<1>3. TraceInv
  <2> DEFINE r == [k \in 0..1 |-> IF k = 0 THEN <<>> ELSE Remain(main, 0)]
  <2>1. Remain(main, 0) = Inlined[main] /\ Inlined[main] \in Seq(Yields)
    BY <1>2, RemainEnds, InlinedType
  <2>2. Remain(main, 0) \o <<>> = Remain(main, 0) /\ <<>> \o Inlined[main] = Inlined[main]
    BY <2>1, ConcatEmptySeq
  <2>3. Len(iterators) = 1 /\ iterators[1].gen = main /\ iterators[1].at = 0
    BY <1>2
  <2>4. r \in [0..1 -> Seq(Yields)] /\ r[0] = <<>> /\ r[1] = Remain(main, 0)
    BY <2>1
  <2> HIDE DEF r
  <2>5. \A k \in 1..1 : r[k] = Remain(iterators[k].gen, iterators[k].at) \o r[k - 1]
    BY <2>2, <2>3, <2>4
  <2>6. Owed(r)
    BY <2>3, <2>4, <2>5 DEF Owed
  <2>7. QED
    BY <1>2, <2>1, <2>2, <2>3, <2>4, <2>6 DEF TraceInv
<1>4. EndInv /\ ChainInv /\ LastInv /\ YieldsGetTheirValues
  BY <1>2 DEF Init, EndInv, ChainInv, LastInv, Top, YieldsGetTheirValues
<1>5. QED
  BY <1>1, <1>3, <1>4 DEF InliningInv

\* The steps that leave the stack and the trace as they are.
LEMMA ControlInlines ==
    ASSUME InliningInv,
           Run \/ OnStep \/ Resolve \/ Throws \/ Return \/ RequestCancel \/ CancelItself
    PROVE  InliningInv'
<1>0. main' = main /\ iterators' = iterators /\ trace' = trace /\ given' = given
  BY DEF Run, OnStep, Resolve, Throws, Return, RequestCancel, CancelItself
<1>1. RunnerInv'
  BY ControlKeeps DEF InliningInv
<1>2. TraceInv'
  BY <1>0 DEF InliningInv, TraceInv, Owed
<1>3. ChainInv' /\ YieldsGetTheirValues'
  BY <1>0 DEF InliningInv, ChainInv, YieldsGetTheirValues
<1>4. EndInv'
  BY <1>0 DEF InliningInv, EndInv, Run, OnStep, Resolve, Throws, Return, RequestCancel, CancelItself
<1>5. LastInv'
  <2> USE DEF InliningInv, LastInv, Top, Current
  <2>1. CASE Resolve
    <3>1. control = "awaiting" /\ control' = "next" /\ lastValue' = Current /\ cancelled' = cancelled
      BY <2>1 DEF Resolve
    <3>2. iterators # <<>> /\ Top.at >= 1
      BY <3>1 DEF RunnerInv, StackInv
    <3>3. Code[Current[1]][Current[2]] \notin Gen
      BY <3>1, CodeAssumption
    <3>4. ValueOf(Current) = Current
      BY <3>3, Zenon DEF ValueOf
    <3>5. Current' = Current /\ Top' = Top
      BY <1>0
    <3>6. ValueOf(Current)' = ValueOf(Current)
      BY <3>5 DEF ValueOf
    <3> HIDE DEF Top, Current
    <3>7. Top.at \in Nat
      BY <3>2, TopOfStack DEF RunnerInv
    <3>8. QED
      BY <3>1, <3>2, <3>4, <3>5, <3>6, <3>7
  <2>2. CASE Return
    BY <1>0, <2>2 DEF Return, EndInv
  <2>3. CASE Run \/ OnStep \/ Throws \/ RequestCancel \/ CancelItself
    BY <1>0, <2>3 DEF ValueOf, Run, OnStep, Throws, RequestCancel, CancelItself
  <2>4. QED
    BY <2>1, <2>2, <2>3
<1>6. QED
  BY <1>1, <1>2, <1>3, <1>4, <1>5 DEF InliningInv

\* What a step of the generator on top gives back to it is what the yield that
\* it resumes from is due.
LEMMA ResumeGives ==
    ASSUME InliningInv, control = "step", Resume
    PROVE  YieldsGetTheirValues'
<1>1. iterators # <<>> /\ ~cancelled
  BY DEF InliningInv, RunnerInv, StackInv, CheckInv
<1>2. Top.at \in Nat
  BY <1>1, TopOfStack DEF InliningInv, RunnerInv
<1>3. Top.at # 0 => lastValue = ValueOf(Current)
  BY <1>1, <1>2 DEF InliningInv, LastInv
<1>4. \A g \in given : g[2] = ValueOf(g[1])
  BY Zenon DEF InliningInv, YieldsGetTheirValues, ValueOf
<1>5. \A g \in given' : g[2] = ValueOf(g[1])
  BY <1>3, <1>4 DEF Resume
<1>6. QED
  BY <1>5, Zenon DEF YieldsGetTheirValues, ValueOf

\* The generator on top yields: the yields to come lose the first, and those
\* of the generator it yields, if any, come to lie above the rest.
LEMMA AtYieldTraces ==
    ASSUME InliningInv, AtYield
    PROVE  TraceInv'
<1> DEFINE n == Len(iterators)
           g == Top.gen
           a == Top.at
           what == Code[g][a + 1]
           here == <<g, a + 1>>
           stack == [iterators EXCEPT ![n].at = @ + 1]
<1>a. \A x, y, z \in Seq(Yields) : (x \o y) \o z = x \o (y \o z)
  BY ConcatAssociative
<1>1. RunnerInv /\ StackInv /\ iterators # <<>>
  BY DEF AtYield, InliningInv, RunnerInv, StackInv
<1>2. n \in Nat \ {0} /\ Top \in Iterator /\ g \in Gen /\ a \in Nat /\ a < Len(Code[g])
      /\ a + 1 \in 1..Len(Code[g]) /\ a + 1 \in 0..Len(Code[g])
  BY <1>1, TopOfStack DEF AtYield
<1>3. here \in Yields /\ <<here>> \in Seq(Yields)
  BY <1>2, PlaceIsYield
<1>4. Len(stack) = n /\ stack[n].gen = g /\ stack[n].at = a + 1
      /\ \A k \in 1..(n - 1) : stack[k] = iterators[k]
  <2>1. stack = [iterators EXCEPT ![n] = [Top EXCEPT !.at = @ + 1]]
    BY DEF Top
  <2>2. iterators \in Seq(Iterator)
    BY <1>1 DEF StackInv
  <2>3. QED
    BY SMTT(30), <1>2, <2>1, <2>2 DEF Iterator
<1>5. PICK r : Owed(r) /\ trace \o r[n] = Inlined[main]
  BY DEF InliningInv, TraceInv
<1> DEFINE low == r[n - 1]
           rest == Remain(g, a + 1)
           new == rest \o low
<1>6. /\ r \in [0..n -> Seq(Yields)] /\ r[0] = <<>>
      /\ \A k \in 1..n : r[k] = Remain(iterators[k].gen, iterators[k].at) \o r[k - 1]
  BY <1>5 DEF Owed
<1>7. low \in Seq(Yields) /\ rest \in Seq(Yields) /\ new \in Seq(Yields) /\ trace \in Seq(Yields)
  <2>1. n - 1 \in 0..n
    BY <1>2
  <2>2. low \in Seq(Yields)
    BY <1>6, <2>1
  <2>3. rest \in Seq(Yields)
    BY <1>2, RemainType
  <2>4. trace \in Seq(Yields)
    BY <1>1 DEF RunnerInv, TypeOK
  <2> HIDE DEF low, rest
  <2>5. QED
    BY <2>2, <2>3, <2>4, ConcatProperties
<1>8. r[n] = (Item(Inlined, g, a + 1) \o rest) \o low
  <2>1. r[n] = Remain(iterators[n].gen, iterators[n].at) \o r[n - 1]
    <3>1. n \in 1..n
      BY <1>2
    <3> HIDE DEF n
    <3>2. QED
      BY <1>6, <3>1
  <2>2. iterators[n].gen = g /\ iterators[n].at = a
    BY DEF Top
  <2>3. Remain(g, a) = Item(Inlined, g, a + 1) \o Remain(g, a + 1)
    BY <1>2, RemainStep
  <2>4. QED
    BY <2>1, <2>2, <2>3
<1>9. main' = main /\ trace' = Append(trace, here)
  BY DEF AtYield
<1>10. trace' = trace \o <<here>>
  <2> HIDE DEF here
  <2>1. QED
    BY <1>3, <1>7, <1>9, AppendIsConcat
<1>11. CASE what \in Gen /\ iterators' = Append(stack, [gen |-> what, at |-> 0])
  <2> DEFINE inner == Inlined[what]
  <2>0. PICK h : h = [k \in 0..(n + 1) |-> IF k < n THEN r[k] ELSE IF k = n THEN new ELSE inner \o new]
    OBVIOUS
  <2>1. inner \in Seq(Yields)
    BY <1>11, InlinedType
  <2>2. inner \o new \in Seq(Yields)
    <3> HIDE DEF inner, new
    <3>1. QED
      BY <1>7, <2>1, ConcatProperties
  <2>3. /\ Len(iterators') = n + 1
        /\ \A k \in 1..n : iterators'[k] = stack[k]
        /\ iterators'[n + 1] = [gen |-> what, at |-> 0]
    <3>1. stack \in Seq(Iterator)
      <4>1. stack = [iterators EXCEPT ![n] = [Top EXCEPT !.at = @ + 1]]
        BY DEF Top
      <4>2. [Top EXCEPT !.at = @ + 1] \in Iterator
        BY <1>2 DEF Iterator
      <4>3. QED
        BY <1>1, <1>2, <4>1, <4>2 DEF StackInv
    <3> HIDE DEF stack
    <3>2. QED
      BY <1>2, <1>4, <1>11, <3>1
  <2>4. /\ h \in [0..(n + 1) -> Seq(Yields)]
        /\ \A k \in 0..(n - 1) : h[k] = r[k]
        /\ h[n] = new /\ h[n + 1] = inner \o new
    <3> HIDE DEF inner, new
    <3>1. QED
      BY SMTT(30), <1>2, <1>6, <1>7, <2>0, <2>2
  <2>5. ASSUME NEW k \in 1..(n + 1)
        PROVE  h[k] = Remain(iterators'[k].gen, iterators'[k].at) \o h[k - 1]
    <3>1. CASE k < n
      <4>1. k \in 1..(n - 1) /\ k \in 1..n /\ k \in 0..(n - 1) /\ k - 1 \in 0..(n - 1)
        BY <1>2, <3>1
      <4>2. iterators'[k] = iterators[k]
        BY <1>4, <2>3, <4>1
      <4>3. h[k] = r[k] /\ h[k - 1] = r[k - 1]
        BY <2>4, <4>1
      <4>4. r[k] = Remain(iterators[k].gen, iterators[k].at) \o r[k - 1]
        BY <1>6, <4>1
      <4>5. QED
        BY <4>2, <4>3, <4>4
    <3>2. CASE k = n
      <4>1. n \in 1..n /\ n - 1 \in 0..(n - 1)
        BY <1>2
      <4>2. iterators'[n].gen = g /\ iterators'[n].at = a + 1
        BY <1>4, <2>3, <4>1
      <4>3. h[n - 1] = low
        BY <2>4, <4>1
      <4>4. QED
        BY <2>4, <3>2, <4>2, <4>3
    <3>3. CASE k = n + 1
      <4>1. iterators'[n + 1].gen = what /\ iterators'[n + 1].at = 0
        BY <2>3
      <4>2. Remain(what, 0) = inner
        BY <1>11, RemainEnds
      <4>3. k - 1 = n
        BY <1>2, <3>3
      <4>4. QED
        BY <2>4, <3>3, <4>1, <4>2, <4>3
    <3>4. k < n \/ k = n \/ k = n + 1
      BY <1>2
    <3> HIDE DEF n
    <3>5. QED
      BY <3>1, <3>2, <3>3, <3>4, Zenon
  <2>6. h[0] = <<>>
    <3>1. 0 \in 0..(n - 1)
      BY <1>2
    <3>2. QED
      BY <1>6, <2>4, <3>1
  <2>7. trace' \o h[n + 1] = Inlined[main]
    <3>1. Item(Inlined, g, a + 1) = <<here>> \o inner
      BY <1>11 DEF Item
    <3>2. r[n] = ((<<here>> \o inner) \o rest) \o low
      BY <1>8, <3>1
    <3> DEFINE y == <<here>>
    <3>3. y \in Seq(Yields)
      BY <1>3
    <3>4. \A x, z \in Seq(Yields) : x \o z \in Seq(Yields)
      BY ConcatProperties
    <3> HIDE DEF inner, rest, low, here, y
    <3>5. ((y \o inner) \o rest) \o low = (y \o inner) \o new
      <4> DEFINE x == y \o inner
      <4>1. x \in Seq(Yields)
        BY <2>1, <3>3, <3>4, Zenon
      <4> HIDE DEF x
      <4>2. (x \o rest) \o low = x \o new
        BY <1>a, <1>7, <4>1, Zenon
      <4>3. QED
        BY <4>2, Zenon DEF x
    <3>6. (y \o inner) \o new = y \o (inner \o new)
      BY <1>a, <1>7, <2>1, <3>3, ZenonT(60)
    <3>7. (trace \o y) \o (inner \o new) = trace \o (y \o (inner \o new))
      BY <1>a, <1>7, <2>2, <3>3, ZenonT(60)
    <3>8. r[n] = y \o (inner \o new)
      BY <3>2, <3>5, <3>6, Zenon DEF y
    <3>9. trace' = trace \o y
      BY <1>10, Zenon DEF y
    <3>10. trace' \o h[n + 1] = trace \o r[n]
      BY <2>4, <3>7, <3>8, <3>9, Zenon
    <3>11. QED
      BY <1>5, <3>10, Zenon
  <2>8. Owed(h)'
    <3> SUFFICES /\ h \in [0..Len(iterators') -> Seq(Yields)]
                 /\ h[0] = <<>>
                 /\ \A k \in 1..Len(iterators') :
                       h[k] = Remain(iterators'[k].gen, iterators'[k].at) \o h[k - 1]
      BY DEF Owed, Remain, Body, Item
    <3>1. QED
      BY <2>3, <2>4, <2>5, <2>6
  <2>9. QED
    BY <1>9, <2>3, <2>7, <2>8 DEF TraceInv
<1>12. CASE what \notin Gen /\ iterators' = stack
  <2>0. PICK h : h = [k \in 0..n |-> IF k < n THEN r[k] ELSE new]
    OBVIOUS
  <2>1. /\ h \in [0..n -> Seq(Yields)]
        /\ \A k \in 0..(n - 1) : h[k] = r[k]
        /\ h[n] = new
    <3> HIDE DEF new
    <3>1. QED
      BY <1>2, <1>6, <1>7, <2>0
  <2>2. ASSUME NEW k \in 1..n
        PROVE  h[k] = Remain(iterators'[k].gen, iterators'[k].at) \o h[k - 1]
    <3>1. CASE k < n
      <4>1. k \in 1..(n - 1) /\ k \in 0..(n - 1) /\ k - 1 \in 0..(n - 1)
        BY <1>2, <3>1
      <4>2. iterators'[k] = iterators[k]
        BY <1>4, <1>12, <4>1
      <4>3. h[k] = r[k] /\ h[k - 1] = r[k - 1]
        BY <2>1, <4>1
      <4>4. r[k] = Remain(iterators[k].gen, iterators[k].at) \o r[k - 1]
        BY <1>6
      <4>5. QED
        BY <4>2, <4>3, <4>4
    <3>2. CASE k = n
      <4>1. n - 1 \in 0..(n - 1)
        BY <1>2
      <4>2. iterators'[n].gen = g /\ iterators'[n].at = a + 1
        BY <1>4, <1>12
      <4>3. h[n - 1] = low
        BY <2>1, <4>1
      <4>4. QED
        BY <2>1, <3>2, <4>2, <4>3
    <3>3. k < n \/ k = n
      BY <1>2
    <3> HIDE DEF n
    <3>4. QED
      BY <3>1, <3>2, <3>3, Zenon
  <2>3. h[0] = <<>>
    <3>1. 0 \in 0..(n - 1)
      BY <1>2
    <3>2. QED
      BY <1>6, <2>1, <3>1
  <2>4. trace' \o h[n] = Inlined[main]
    <3>1. Item(Inlined, g, a + 1) = <<here>>
      BY <1>12 DEF Item
    <3>2. r[n] = (<<here>> \o rest) \o low
      BY <1>8, <3>1
    <3> DEFINE y == <<here>>
    <3>3. y \in Seq(Yields)
      BY <1>3
    <3> HIDE DEF rest, low, here, y
    <3>4. (y \o rest) \o low = y \o new
      BY <1>a, <1>7, <3>3, Zenon
    <3>5. (trace \o y) \o new = trace \o (y \o new)
      BY <1>a, <1>7, <3>3, Zenon
    <3>6. trace' = trace \o y /\ r[n] = y \o new
      BY <1>10, <3>2, <3>4, Zenon DEF y
    <3>7. trace' \o h[n] = trace \o r[n]
      BY <2>1, <3>5, <3>6, Zenon
    <3>8. QED
      BY <1>5, <3>7, Zenon
  <2>5. Owed(h)'
    <3> SUFFICES /\ h \in [0..Len(iterators') -> Seq(Yields)]
                 /\ h[0] = <<>>
                 /\ \A k \in 1..Len(iterators') :
                       h[k] = Remain(iterators'[k].gen, iterators'[k].at) \o h[k - 1]
      BY DEF Owed, Remain, Body, Item
    <3>1. Len(iterators') = n
      BY <1>4, <1>12
    <3>2. QED
      BY <2>1, <2>2, <2>3, <3>1
  <2>6. Len(iterators') = n
    BY <1>4, <1>12
  <2>7. QED
    BY <1>9, <2>4, <2>5, <2>6 DEF TraceInv
<1>13. (what \in Gen /\ iterators' = Append(stack, [gen |-> what, at |-> 0]))
         \/ (what \notin Gen /\ iterators' = stack)
  BY CodeAssumption DEF AtYield
<1>14. QED
  BY <1>11, <1>12, <1>13

LEMMA AtYieldInlines ==
    ASSUME InliningInv, AtYield
    PROVE  InliningInv'
<1> DEFINE n == Len(iterators)
           what == Code[Top.gen][Top.at + 1]
           here == <<Top.gen, Top.at + 1>>
           stack == [iterators EXCEPT ![n].at = @ + 1]
           inner == [gen |-> what, at |-> 0]
<1>1. RunnerInv /\ StackInv /\ iterators # <<>> /\ control = "step" /\ ~cancelled
  BY DEF AtYield, InliningInv, RunnerInv, StackInv, CheckInv
<1>2. n \in Nat \ {0} /\ Top \in Iterator /\ Top.gen \in Gen /\ Top.at \in Nat
  BY <1>1, TopOfStack
<1>3. /\ stack \in Seq(Iterator) /\ Len(stack) = n
      /\ stack[n].gen = Top.gen /\ stack[n].at = Top.at + 1
      /\ \A k \in 1..(n - 1) : stack[k] = iterators[k]
  <2>1. stack = [iterators EXCEPT ![n] = [Top EXCEPT !.at = @ + 1]]
    BY DEF Top
  <2>2. iterators \in Seq(Iterator)
    BY <1>1 DEF StackInv
  <2>3. [Top EXCEPT !.at = @ + 1] \in Iterator
    BY SMTT(60), <1>1, <1>2, TopOfStack DEF Iterator, AtYield
  <2>4. QED
    BY SMTT(60), <1>2, <2>1, <2>2, <2>3 DEF Iterator
<1>4. /\ cancelled' = cancelled
      /\ \/ what = "promise" /\ control' = "awaiting" /\ iterators' = stack
         \/ /\ what # "promise" /\ what \notin Gen /\ control' = "next"
            /\ iterators' = stack /\ lastValue' = here
         \/ /\ what # "promise" /\ what \in Gen /\ control' = "next"
            /\ iterators' = Append(stack, inner) /\ lastValue' = here
  BY CodeAssumption DEF AtYield
<1>5. RunnerInv'
  BY <1>1, AtYieldKeeps
<1>6. TraceInv'
  BY AtYieldTraces
<1>7. EndInv'
  BY <1>4 DEF EndInv
<1>8. YieldsGetTheirValues'
  BY <1>1, ResumeGives DEF AtYield
<1>9. \A k \in 1..(n - 1) : /\ iterators[k].at >= 1
                            /\ iterators[k + 1].gen = Code[iterators[k].gen][iterators[k].at]
  BY DEF InliningInv, ChainInv
<1>10. \A k \in 1..(n - 1) : /\ stack[k].at >= 1
                             /\ stack[k + 1].gen = Code[stack[k].gen][stack[k].at]
  <2> SUFFICES ASSUME NEW k \in 1..(n - 1)
               PROVE  /\ stack[k].at >= 1
                      /\ stack[k + 1].gen = Code[stack[k].gen][stack[k].at]
    OBVIOUS
  <2>1. stack[k] = iterators[k]
    BY <1>3
  <2>2. stack[k + 1].gen = iterators[k + 1].gen
    <3>1. CASE k + 1 = n
      <4>1. stack[n].gen = iterators[n].gen
        BY <1>3 DEF Top
      <4> HIDE DEF n, stack
      <4>2. QED
        BY <3>1, <4>1, Zenon
    <3>2. CASE k + 1 # n
      <4>1. k + 1 \in 1..(n - 1)
        BY <1>2, <3>2
      <4> HIDE DEF n, stack
      <4>2. QED
        BY <1>3, <4>1
    <3>3. QED
      BY <3>1, <3>2
  <2> HIDE DEF n, stack
  <2>3. QED
    BY <1>9, <2>1, <2>2
<1> HIDE DEF stack
<1>11. CASE iterators' = stack
  <2>1. Len(iterators') = n
    BY <1>3, <1>11
  <2>2. ChainInv'
    BY <1>10, <1>11, <2>1 DEF ChainInv
  <2>3. Top' = stack[n]
    BY <1>11, <2>1 DEF Top
  <2>4. Top'.gen = Top.gen /\ Top'.at = Top.at + 1 /\ Current' = here
    BY <1>3, <2>3 DEF Current
  <2>5. CASE what = "promise"
    <3>1. control' = "awaiting" /\ Code[Top'.gen][Top'.at] = "promise"
      BY <1>4, <2>4, <2>5, CodeAssumption
    <3>2. LastInv'
      BY <3>1 DEF LastInv
    <3>3. QED
      BY <1>5, <1>6, <1>7, <1>8, <2>2, <3>2 DEF InliningInv
  <2>6. CASE what # "promise"
    <3>1. control' = "next" /\ lastValue' = here
      BY <1>4, <2>6
    <3>2. what \notin Gen
      <4>1. CASE what \in Gen
        <5>1. iterators' = Append(stack, inner)
          BY <1>4, <2>6, <4>1
        <5>2. Len(iterators') = n + 1
          <6> HIDE DEF inner
          <6>1. QED
            BY <1>3, <5>1
        <5>3. QED
          BY <1>2, <2>1, <5>2
      <4>2. QED
        BY <4>1
    <3>3. ValueOf(Current)' = here
      <4>1. Code[here[1]][here[2]] \notin Gen
        BY <3>2
      <4>2. QED
        BY <2>4, <4>1 DEF ValueOf
    <3>4. Top'.at > 0
      BY <1>2, <2>4
    <3>5. LastInv'
      <4> HIDE DEF here
      <4>1. QED
        BY <1>2, <2>4, <3>1, <3>3, <3>4 DEF LastInv
    <3>6. QED
      BY <1>5, <1>6, <1>7, <1>8, <2>2, <3>5 DEF InliningInv
  <2>7. QED
    BY <2>5, <2>6
<1>12. CASE what # "promise" /\ what \in Gen /\ control' = "next"
            /\ iterators' = Append(stack, inner) /\ lastValue' = here
  <2>1. /\ Len(iterators') = n + 1 /\ iterators'[n + 1] = inner
        /\ \A k \in 1..n : iterators'[k] = stack[k]
    <3> HIDE DEF inner
    <3>1. QED
      BY <1>2, <1>3, <1>12
  <2>2. ChainInv'
    <3> SUFFICES ASSUME NEW k \in 1..n
                 PROVE  /\ iterators'[k].at >= 1
                        /\ iterators'[k + 1].gen = Code[iterators'[k].gen][iterators'[k].at]
      BY <1>2, <2>1 DEF ChainInv
    <3>1. CASE k = n
      <4>1. iterators'[n].gen = Top.gen /\ iterators'[n].at = Top.at + 1
        BY <1>2, <1>3, <2>1
      <4>2. iterators'[n + 1].gen = what
        BY <2>1
      <4> HIDE DEF n
      <4>3. QED
        BY <1>2, <3>1, <4>1, <4>2
    <3>2. CASE k # n
      <4>1. k \in 1..(n - 1) /\ k + 1 \in 1..n
        BY <1>2, <3>2
      <4>2. iterators'[k] = stack[k] /\ iterators'[k + 1] = stack[k + 1]
        BY <2>1, <4>1
      <4>3. QED
        BY <1>10, <4>1, <4>2
    <3>3. QED
      BY <3>1, <3>2
  <2>3. Top' = inner /\ Top'.at = 0
    BY <2>1 DEF Top
  <2>4. iterators'[Len(iterators') - 1].gen = Top.gen /\ iterators'[Len(iterators') - 1].at = Top.at + 1
    <3>1. Len(iterators') - 1 = n /\ n \in 1..n
      BY <1>2, <2>1
    <3>2. iterators'[n] = stack[n]
      BY <2>1, <3>1
    <3>3. QED
      BY <1>3, <3>1, <3>2
  <2>5. LastInv'
    BY <1>12, <2>3, <2>4 DEF LastInv
  <2>6. QED
    BY <1>5, <1>6, <1>7, <1>8, <2>2, <2>5 DEF InliningInv
<1>13. QED
  BY <1>4, <1>11, <1>12

\* The generator on top has nothing left: what is to come is what those below
\* it have.
LEMMA FinishedTraces ==
    ASSUME InliningInv, Finished
    PROVE  TraceInv'
<1> DEFINE n == Len(iterators)
<1>1. RunnerInv /\ StackInv /\ iterators # <<>>
  BY DEF Finished, InliningInv, RunnerInv, StackInv
<1>2. n \in Nat \ {0} /\ Top.gen \in Gen /\ Top.at = Len(Code[Top.gen])
  BY <1>1, TopOfStack DEF Finished
<1>3. Len(iterators') = n - 1 /\ \A k \in 1..(n - 1) : iterators'[k] = iterators[k]
  BY <1>1, <1>2 DEF Finished, Front, StackInv
<1>4. main' = main /\ trace' = trace
  BY DEF Finished
<1>5. PICK r : Owed(r) /\ trace \o r[n] = Inlined[main]
  BY DEF InliningInv, TraceInv
<1>6. /\ r \in [0..n -> Seq(Yields)] /\ r[0] = <<>>
      /\ \A k \in 1..n : r[k] = Remain(iterators[k].gen, iterators[k].at) \o r[k - 1]
  BY <1>5 DEF Owed
<1>7. r[n] = r[n - 1]
  <2>1. n \in 1..n /\ n - 1 \in 0..n
    BY <1>2
  <2>2. Remain(iterators[n].gen, iterators[n].at) = <<>>
    BY <1>2, RemainEnds DEF Top
  <2>3. r[n] = <<>> \o r[n - 1] /\ r[n - 1] \in Seq(Yields)
    <3> HIDE DEF n
    <3>1. QED
      BY <1>6, <2>1, <2>2
  <2> HIDE DEF n
  <2>4. QED
    BY <2>3, ConcatEmptySeq
<1>8. PICK h : h = [k \in 0..(n - 1) |-> r[k]]
  OBVIOUS
<1>9. h \in [0..(n - 1) -> Seq(Yields)] /\ \A k \in 0..(n - 1) : h[k] = r[k]
  <2>1. \A k \in 0..(n - 1) : k \in 0..n
    BY <1>2
  <2> HIDE DEF n
  <2>2. QED
    BY <1>6, <1>8, <2>1
<1>10. Owed(h)'
  <2> SUFFICES /\ h \in [0..Len(iterators') -> Seq(Yields)]
               /\ h[0] = <<>>
               /\ \A k \in 1..Len(iterators') :
                     h[k] = Remain(iterators'[k].gen, iterators'[k].at) \o h[k - 1]
    BY DEF Owed, Remain, Body, Item
  <2>1. 0 \in 0..(n - 1) /\ \A k \in 1..(n - 1) : k \in 1..n /\ k \in 0..(n - 1) /\ k - 1 \in 0..(n - 1)
    BY <1>2
  <2> HIDE DEF n
  <2>2. QED
    BY <1>3, <1>6, <1>9, <2>1
<1>11. trace' \o h[Len(iterators')] = Inlined[main']
  <2>1. n - 1 \in 0..(n - 1)
    BY <1>2
  <2> HIDE DEF n
  <2>2. QED
    BY <1>3, <1>4, <1>5, <1>7, <1>9, <2>1
<1>12. QED
  BY <1>10, <1>11 DEF TraceInv

\* The generator below goes on with the last value there was: that of its own
\* yield when the finished one yielded nothing, and else the last one of the
\* finished one's inlined form.
LEMMA FinishedInlines ==
    ASSUME InliningInv, Finished
    PROVE  InliningInv'
<1> DEFINE n == Len(iterators)
           below == iterators[n - 1]
<1>1. RunnerInv /\ StackInv /\ iterators # <<>> /\ control = "step" /\ ~cancelled
  BY DEF Finished, InliningInv, RunnerInv, StackInv, CheckInv
<1>2. n \in Nat \ {0} /\ Top.gen \in Gen /\ Top.at \in Nat /\ Top.at = Len(Code[Top.gen])
  BY <1>1, TopOfStack DEF Finished
<1>3. Len(iterators') = n - 1 /\ \A k \in 1..(n - 1) : iterators'[k] = iterators[k]
  BY <1>1, <1>2 DEF Finished, Front, StackInv
<1>4. \/ n = 1 /\ control' = "returning"
      \/ n > 1 /\ control' = "next"
  BY DEF Finished
<1>5. cancelled' = cancelled /\ lastValue' = lastValue
  BY DEF Finished
<1>6. RunnerInv'
  BY <1>1, FinishedKeeps
<1>7. TraceInv'
  BY FinishedTraces
<1>8. YieldsGetTheirValues'
  BY <1>1, ResumeGives DEF Finished
<1>9. EndInv'
  <2>1. n = 1 => iterators' = <<>>
    <3>1. iterators' \in Seq(Iterator)
      BY <1>6 DEF RunnerInv, StackInv
    <3>2. QED
      BY <1>3, <3>1, EmptySeq
  <2>2. QED
    BY <1>4, <2>1 DEF EndInv
<1>10. \A k \in 1..(n - 1) : /\ iterators[k].at >= 1
                             /\ iterators[k + 1].gen = Code[iterators[k].gen][iterators[k].at]
  BY DEF InliningInv, ChainInv
<1>11. ChainInv'
  <2> SUFFICES ASSUME NEW k \in 1..(n - 1) - 1
               PROVE  /\ iterators'[k].at >= 1
                      /\ iterators'[k + 1].gen = Code[iterators'[k].gen][iterators'[k].at]
    BY <1>3 DEF ChainInv
  <2>1. k \in 1..(n - 1) /\ k + 1 \in 1..(n - 1)
    BY <1>2
  <2> HIDE DEF n
  <2>2. QED
    BY <1>3, <1>10, <2>1
<1>12. LastInv'
  <2>1. CASE n = 1
    BY <1>4, <2>1 DEF LastInv
  <2>2. CASE n > 1
    <3>1. n - 1 \in 1..(n - 1) /\ (n - 1) + 1 = n
      BY <1>2, <2>2
    <3>2. below.at >= 1 /\ Top.gen = Code[below.gen][below.at] /\ below \in Iterator
      <4>1. below \in Iterator
        BY <1>1, <1>2, <3>1 DEF StackInv
      <4>2. QED
        BY <1>10, <3>1, <4>1 DEF Top
    <3>3. Top' = below
      BY <1>3, <3>1 DEF Top
    <3>4. Current' = <<below.gen, below.at>>
      BY <3>3 DEF Current
    <3> DEFINE y == <<below.gen, below.at>>
               nested == Inlined[Top.gen]
    <3>5. ValueOf(y) = IF nested = <<>> THEN y ELSE nested[Len(nested)]
      BY <1>2, <3>2 DEF ValueOf
    <3>6. lastValue = ValueOf(y)
      <4>1. CASE Top.at = 0
        <5>1. nested = <<>>
          BY <1>2, <4>1, LastOfInlined
        <5>2. lastValue = y
          BY <1>1, <2>2, <4>1 DEF InliningInv, LastInv
        <5>3. QED
          BY <3>5, <5>1, <5>2
      <4>2. CASE Top.at # 0
        <5>1. nested # <<>> /\ nested[Len(nested)] = ValueOf(Current)
          BY <1>2, <4>2, LastOfInlined DEF Current
        <5>2. lastValue = ValueOf(Current)
          BY <1>1, <1>2, <4>2 DEF InliningInv, LastInv
        <5>3. QED
          BY <3>5, <5>1, <5>2
      <4>3. QED
        BY <4>1, <4>2
    <3>7. ValueOf(Current)' = ValueOf(y)
      BY <3>4 DEF ValueOf
    <3>8. Top'.at > 0 /\ Top'.at # 0
      BY <3>2, <3>3 DEF Iterator
    <3> HIDE DEF y, below
    <3>9. QED
      BY <1>4, <1>5, <2>2, <3>6, <3>7, <3>8 DEF LastInv
  <2>3. n = 1 \/ n > 1
    BY <1>4
  <2>4. QED
    BY <2>1, <2>2, <2>3, Zenon
<1>13. QED
  BY <1>6, <1>7, <1>8, <1>9, <1>11, <1>12 DEF InliningInv

LEMMA InliningHolds == Spec => []InliningInv
<1>1. Init => InliningInv
  BY InitInlining
<1>2. InliningInv /\ [Next]_vars => InliningInv'
  <2>1. CASE Next
    BY <2>1, ControlInlines, AtYieldInlines, FinishedInlines DEF Next, Step
  <2>2. CASE UNCHANGED vars
    BY ZenonT(60), <2>2 DEF vars, InliningInv, RunnerInv, TypeOK, StackInv, CheckInv, FlatInv, Flat, TraceInv,
                Owed, EndInv, ChainInv, LastInv, YieldsGetTheirValues, Top, Current, ValueOf
  <2>3. QED
    BY <2>1, <2>2
<1>3. QED
  BY <1>1, <1>2, PTL DEF Spec

-----------------------------------------------------------------------------
\* The stack, the values and the trace are made of the generators' own yields.
THEOREM TypeCorrect == Spec => []TypeOK
<1>1. RunnerInv => TypeOK
  BY DEF RunnerInv
<1>2. QED
  BY <1>1, RunnerHolds, PTL

\* However deep the generators are nested, a cancel request lets through at
\* most the one step that was past its check.
THEOREM CancelsWithinOneStep == Spec => []StopsWithinOneStep
<1>1. RunnerInv => StopsWithinOneStep
  BY DEF RunnerInv, CheckInv, StopsWithinOneStep
<1>2. QED
  BY <1>1, RunnerHolds, PTL

\* A handler without inner generators that ran to its end is not reported
\* cancelled.
THEOREM FinishedIsNotReportedCancelled == Spec => []EndedIsNotCancelled
<1>1. RunnerInv => EndedIsNotCancelled
  BY DEF RunnerInv, FlatInv, Flat, EndedIsNotCancelled
<1>2. QED
  BY <1>1, RunnerHolds, PTL

-----------------------------------------------------------------------------
\* However deep its generators are nested, a handler is run as if it were
\* written in one piece: the yields are taken in the order they have there,
\* no place of it skipped or taken again, and to its end unless cancelled.
THEOREM NestedRunsAsWritten == Spec => []RunsInlinedHandler
<1>1. InliningInv => RunsInlinedHandler
  <2> SUFFICES ASSUME InliningInv PROVE RunsInlinedHandler
    OBVIOUS
  <2>1. PICK r : Owed(r) /\ trace \o r[Len(iterators)] = Inlined[main]
    BY DEF InliningInv, TraceInv
  <2>2. trace \in Seq(Yields) /\ r[Len(iterators)] \in Seq(Yields)
    <3>1. Len(iterators) \in 0..Len(iterators)
      BY DEF InliningInv, RunnerInv, StackInv
    <3>2. QED
      BY <2>1, <3>1 DEF Owed, InliningInv, RunnerInv, TypeOK
  <2>3. IsPrefix(trace, Inlined[main])
    <3> DEFINE rest == r[Len(iterators)]
    <3>1. trace \o rest = Inlined[main] /\ rest \in Seq(Yields)
      BY <2>1, <2>2
    <3> HIDE DEF rest
    <3>2. Len(trace) <= Len(trace \o rest) /\ SubSeq(trace, 1, Len(trace)) = SubSeq(trace \o rest, 1, Len(trace))
      BY <2>2, <3>1
    <3>3. QED
      BY <3>1, <3>2 DEF IsPrefix
  <2>4. ASSUME control = "done", ~cancelled PROVE trace = Inlined[main]
    <3>1. iterators = <<>>
      BY <2>4 DEF InliningInv, EndInv
    <3>2. r[Len(iterators)] = <<>>
      BY <2>1, <3>1 DEF Owed
    <3>3. QED
      BY <2>1, <2>2, <3>2, ConcatEmptySeq
  <2>5. QED
    BY <2>3, <2>4 DEF RunsInlinedHandler
<1>2. QED
  BY <1>1, InliningHolds, PTL

\* Every yield that is resumed gets the value of its own promise, or, when it
\* yielded a generator, that of the last yield of the generator's inlined form.
THEOREM YieldsAreGivenTheirValues == Spec => []YieldsGetTheirValues
<1>1. InliningInv => YieldsGetTheirValues
  BY DEF InliningInv
<1>2. QED
  BY <1>1, InliningHolds, PTL

=============================================================================
