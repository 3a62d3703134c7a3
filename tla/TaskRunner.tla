------------------------------ MODULE TaskRunner ------------------------------
(***************************************************************************)
(* The runner of one task (tasks/task.js): it drives the generator of a    *)
(* task handler from yield to yield, awaits the promises it yields, runs   *)
(* the generators it yields in place, and asks before every step whether   *)
(* the task was cancelled.                                                 *)
(*                                                                         *)
(* next calls itself; every call but one is the last thing its caller      *)
(* does.  The exception, after an inner generator has finished, leaves a   *)
(* caller behind that still has an assignment and a next of its own to do. *)
(***************************************************************************)
EXTENDS Naturals, Sequences, SequencesExt

CONSTANTS
    Gen,   \* generator functions
    Code   \* generator -> what it yields: "promise", "value" or a generator

ASSUME CodeAssumption ==
    /\ Code \in [Gen -> Seq({"promise", "value"} \cup Gen)]
    /\ {"promise", "value"} \cap Gen = {}

\* No generator yields itself, directly or through those it yields: it would
\* never come to its end.
ASSUME NestingAssumption ==
    \A gens \in (SUBSET Gen) \ {{}} :
        \E g \in gens : \A i \in DOMAIN Code[g] : Code[g][i] \notin gens

VARIABLES
    main,       \* the handler
    iterators,  \* the stack: [gen, at], at counting the yields so far
    lastValue,  \* the yield whose value the next step is given
    frames,     \* callers of next that wait behind a finished generator
    control,    \* where the running call of next is
    cancelled,  \* task.cancelled
    requested,  \* the task is cancelling in the database
    trace,      \* the yields so far
    given,      \* yield -> the yield whose value it was given back
    late        \* how many yields there were since the request

vars == <<main, iterators, lastValue, frames, control, cancelled, requested, trace, given, late>>

NoValue == <<>>
Yields == UNION {{<<g, i>> : i \in DOMAIN Code[g]} : g \in Gen}
Controls == {"idle", "next", "step", "awaiting", "returning", "done", "thrown"}

TypeOK ==
    /\ main \in Gen
    /\ \A k \in DOMAIN iterators :
          /\ iterators[k].gen \in Gen
          /\ iterators[k].at \in 0..Len(Code[iterators[k].gen])
    /\ lastValue \in Yields \cup {NoValue}
    /\ frames \in Nat
    /\ control \in Controls
    /\ cancelled \in BOOLEAN
    /\ requested \in BOOLEAN
    /\ trace \in Seq(Yields)
    /\ \A g \in given : g \in Yields \X (Yields \cup {NoValue})
    /\ late \in Nat

Init ==
    /\ main \in Gen
    /\ iterators = <<[gen |-> main, at |-> 0]>>
    /\ lastValue = NoValue
    /\ frames = 0
    /\ control = "idle"
    /\ cancelled = FALSE
    /\ requested = FALSE
    /\ trace = <<>>
    /\ given = {}
    /\ late = 0

-----------------------------------------------------------------------------
Run ==
    /\ control = "idle"
    /\ control' = "next"
    /\ UNCHANGED <<main, iterators, lastValue, frames, cancelled, requested, trace, given, late>>

RequestCancel ==
    /\ ~requested
    /\ requested' = TRUE
    /\ UNCHANGED <<main, iterators, lastValue, frames, control, cancelled, trace, given, late>>

\* Mutant of OnStep: the cancelled flag is not looked at.
OnStepGoesOn ==
    /\ control = "next"
    /\ cancelled' = (cancelled \/ requested)
    /\ control' = IF iterators = <<>> THEN "returning" ELSE "step"
    /\ UNCHANGED <<main, iterators, lastValue, frames, requested, trace, given, late>>

\* onStep, and the two early returns that follow it.
OnStep ==
    /\ control = "next"
    /\ cancelled' = (cancelled \/ requested)
    /\ control' = IF cancelled' \/ iterators = <<>> THEN "returning" ELSE "step"
    /\ UNCHANGED <<main, iterators, lastValue, frames, requested, trace, given, late>>

Top == iterators[Len(iterators)]
Current == <<Top.gen, Top.at>>

\* iterator.next(lastValue) gives the value to the yield it resumes, if any.
Resume == given' = IF Top.at = 0 THEN given ELSE given \cup {<<Current, lastValue>>}

\* The generator yields once more.
AtYield ==
    LET what == Code[Top.gen][Top.at + 1]
        here == <<Top.gen, Top.at + 1>>
        stack == [iterators EXCEPT ![Len(iterators)].at = @ + 1] IN
    /\ control = "step"
    /\ Top.at < Len(Code[Top.gen])
    /\ Resume
    /\ trace' = Append(trace, here)
    /\ late' = IF requested THEN late + 1 ELSE late
    /\ \/ /\ what = "promise"
          /\ control' = "awaiting"
          /\ iterators' = stack
          /\ UNCHANGED lastValue
       \/ /\ what # "promise"
          /\ control' = "next"
          /\ iterators' = IF what \in Gen THEN Append(stack, [gen |-> what, at |-> 0]) ELSE stack
          /\ lastValue' = here
    /\ UNCHANGED <<main, frames, cancelled, requested>>

\* Mutant of Finished: iterators.pop() is forgotten.
FinishedStays ==
    /\ control = "step"
    /\ Top.at = Len(Code[Top.gen])
    /\ control' = IF Len(iterators) = 1 THEN "returning" ELSE "next"
    /\ UNCHANGED <<main, iterators, lastValue, frames, cancelled, requested, trace, given, late>>

\* Mutant of Finished: the end of the handler does not return from next.
FinishedThenNext ==
    /\ control = "step"
    /\ Top.at = Len(Code[Top.gen])
    /\ Resume
    /\ iterators' = Front(iterators)
    /\ control' = "next"
    /\ frames' = IF Len(iterators) = 1 THEN frames ELSE frames + 1
    /\ UNCHANGED <<main, lastValue, cancelled, requested, trace, late>>

\* Mutant of Finished: the stack is not unwound past an inner generator.
FinishedForGood ==
    /\ control = "step"
    /\ Top.at = Len(Code[Top.gen])
    /\ Resume
    /\ iterators' = Front(iterators)
    /\ control' = "returning"
    /\ UNCHANGED <<main, lastValue, frames, cancelled, requested, trace, late>>

\* The generator is done and leaves the stack; a generator below it goes on
\* with the lastValue there was.
Finished ==
    /\ control = "step"
    /\ Top.at = Len(Code[Top.gen])
    /\ Resume
    /\ iterators' = Front(iterators)
    /\ \/ Len(iterators) = 1 /\ control' = "returning" /\ UNCHANGED frames
       \/ Len(iterators) > 1 /\ control' = "next" /\ frames' = frames + 1
    /\ UNCHANGED <<main, lastValue, cancelled, requested, trace, late>>

\* Mutant of Resolve: the value is taken for that of the yield before.
ResolveForYieldBefore ==
    /\ control = "awaiting"
    /\ control' = "next"
    /\ lastValue' = <<Top.gen, Top.at - 1>>
    /\ UNCHANGED <<main, iterators, frames, cancelled, requested, trace, given, late>>

\* The promise that was yielded resolves.
Resolve ==
    /\ control = "awaiting"
    /\ control' = "next"
    /\ lastValue' = Current
    /\ UNCHANGED <<main, iterators, frames, cancelled, requested, trace, given, late>>

\* The handler calls the cancel function it was given, while awaited.
CancelItself ==
    /\ control = "awaiting"
    /\ cancelled' = TRUE
    /\ UNCHANGED <<main, iterators, lastValue, frames, control, requested, trace, given, late>>

\* onStep rejects, the generator throws or the promise rejects: so does run.
Throws ==
    /\ control \in {"next", "step", "awaiting"}
    /\ control' = "thrown"
    /\ UNCHANGED <<main, iterators, lastValue, frames, cancelled, requested, trace, given, late>>

\* A call of next returns: to run, or to a caller that takes the value its
\* generator returned, none here, for the last one and calls next again.
Return ==
    /\ control = "returning"
    /\ \/ frames = 0 /\ control' = "done" /\ UNCHANGED <<frames, lastValue>>
       \/ frames > 0 /\ control' = "next" /\ frames' = frames - 1 /\ lastValue' = NoValue
    /\ UNCHANGED <<main, iterators, cancelled, requested, trace, given, late>>

Step ==
    \/ Run \/ OnStep \/ AtYield \/ Finished \/ Resolve \/ Throws \/ Return

Next == Step \/ RequestCancel \/ CancelItself

Spec == Init /\ [][Next]_vars

\* The event loop goes on, and the promises a handler yields are settled.
FairSpec == Spec /\ WF_vars(Step)

-----------------------------------------------------------------------------
\* The yields of a handler with those of its inner generators in their place.
Inlined[g \in Gen] ==
    FlattenSeq([i \in 1..Len(Code[g]) |->
        IF Code[g][i] \in Gen THEN <<<<g, i>>>> \o Inlined[Code[g][i]] ELSE <<<<g, i>>>>])

\* The stack runs nested generators as if they were written in one piece: the
\* steps taken are a beginning of the inlined handler, and all of it when the
\* runner is done and nobody cancelled.
RunsInlinedHandler ==
    /\ IsPrefix(trace, Inlined[main])
    /\ control = "done" /\ ~cancelled => trace = Inlined[main]

\* A yield gets the value of what it yielded.  (One that yielded a generator
\* gets the last value of that generator's yields, not what it returned.)
YieldsGetTheirValues ==
    \A g \in given :
        LET y == g[1] IN
        IF Code[y[1]][y[2]] \in Gen
        THEN LET nested == Inlined[Code[y[1]][y[2]]] IN
             g[2] = IF nested = <<>> THEN y ELSE nested[Len(nested)]
        ELSE g[2] = y

\* A cancel request lets through at most the step that was already past its
\* check: the handler does not go on for two more.
StopsWithinOneStep == late <= 1

\* A handler that yields no generators, as all those under tasks/ do, is not
\* reported cancelled when it ran to its end (completeTask would record a
\* finished task as cancelled).  Only callers left behind by inner generators
\* ask once more whether to cancel after the end.
EndedIsNotCancelled ==
    (\A i \in DOMAIN Code[main] : Code[main][i] \notin Gen)
        => ~(iterators = <<>> /\ cancelled)

\* Every run ends, in a value, a cancellation or an error.
RunEnds == <>(control \in {"done", "thrown"})

=============================================================================
