------------------------------- MODULE LibTests -------------------------------
(***************************************************************************)
(* src/TestCaseGenerator.cpp of the library, at work on what its executor  *)
(* leaves: a client runs the executor, hands states to the generator, has  *)
(* the test cases minimized, and gives them to the runner.                 *)
(*                                                                         *)
(* The states are those of getTerminatedStates, as in the README's         *)
(* example, or those the client met in its callbacks.  A number is two     *)
(* bytes here; the second is 0.  An input marked wide has a third, and a   *)
(* value of any size: it is in memory no instruction of the program reads. *)
(* The program under test ends as it likes.                                *)
(***************************************************************************)
EXTENDS LibMachine, FiniteSetsExt

CONSTANTS
  Junk,        \* what an uninitialized counter may hold
  WideInputs   \* the inputs marked with makeInputSymbolic and more than 8 bytes

ASSUME JunkAssumption == Junk \subseteq Nat
ASSUME WideAssumption == WideInputs \subseteq Names

VARIABLES
  asked,        \* where the states came from
  todo,         \* the states generateFromStates has still to look at
  cases,        \* the test cases
  crashInfo,    \* TestRunner::crashInfo, if it has been set
  probed,       \* causesCrash has been called
  outcomes,     \* how the tests run so far ended
  results       \* TestResults; start is what the counters held at first, in all

generatorVars == <<asked, todo, cases>>
runnerVars == <<crashInfo, probed, outcomes, results>>

NoResults == [start |-> 0, total |-> 0, passed |-> 0, failed |-> 0,
              crashed |-> 0, failures |-> <<>>]

TestsInit ==
  /\ Init
  /\ asked = "none" /\ todo = <<>> /\ cases = <<>>
  /\ crashInfo = FALSE /\ probed = FALSE /\ outcomes = <<>>
  /\ results = NoResults

-----------------------------------------------------------------------------
Met == SetToSortSeq({h \in DOMAIN heap : heap[h].history > 0}, <)
Finished == SetToSortSeq(getTerminatedStates, <)

generateFromStates ==
  /\ stage = "done" /\ asked = "none" /\ result # "ERROR"
  /\ \/ asked' = "terminated" /\ todo' = Finished
     \/ asked' = "met" /\ todo' = Met
  /\ UNCHANGED <<vars, cases, runnerVars>>

Bytes(n) == <<n, 0>>

(* The shift that gives the ninth byte on is as long as what it shifts: it *)
(* gives 0, or begins anew.                                                *)
Values(name, n) ==
  IF name \in WideInputs THEN {Append(Bytes(n), b) : b \in {0, n}} ELSE {Bytes(n)}

DefaultInput == "input" :> <<0>>

\* the solver is not given the constraints of the state
MutSolved(s, name) == UNION {Values(name, v[name]) : v \in Valuations}

(* A solver is asked anew for each input; one without an answer leaves the *)
(* input without bytes.                                                    *)
Solved(s, name) ==
  UNION {Values(name, v[name]) : v \in s.constraints}
    \cup (IF SolverComplete /\ s.constraints # {} THEN {} ELSE {<<>>})

Generates(s) == s.type \in {"TERMINATED", "SUSPENDED"}

generateFromState ==
  /\ todo # <<>>
  /\ LET h == Head(todo)
         s == heap[h]
         case(i) == [state |-> h, pathId |-> s.id, inputs |-> i]
     IN  IF ~Generates(s)
         THEN UNCHANGED cases
         ELSE \E i \in [s.symbolicInputs -> UNION {Solved(s, n) : n \in s.symbolicInputs}] :
                /\ \A n \in s.symbolicInputs : i[n] \in Solved(s, n)
                /\ cases' = Append(cases, case(IF i = <<>> THEN DefaultInput ELSE i))
  /\ todo' = Tail(todo)
  /\ UNCHANGED <<vars, asked, runnerVars>>

(* The value of a wide input may be too large for get_numeral_uint64,      *)
(* which throws; with it go the test cases made so far.                    *)
generateThrows ==
  /\ todo # <<>>
  /\ LET s == heap[Head(todo)]
     IN  Generates(s) /\ s.symbolicInputs \cap WideInputs # {} /\ s.constraints # {}
  /\ asked' = "thrown" /\ todo' = <<>> /\ cases' = <<>>
  /\ UNCHANGED <<vars, runnerVars>>

(* The key has the bytes of the inputs in the order of the map, without    *)
(* their names.                                                            *)
Key(case) ==
  FoldLeft(LAMBDA k, n : k \o case.inputs[n], <<>>, SetToSeq(DOMAIN case.inputs))

minimizeTestCases(cs) ==
  LET first == {k \in DOMAIN cs : \A j \in 1 .. k - 1 : Key(cs[j]) # Key(cs[k])}
  IN  [k \in DOMAIN SetToSortSeq(first, <) |-> cs[SetToSortSeq(first, <)[k]]]

Minimize ==
  /\ asked # "none" /\ todo = <<>> /\ results = NoResults
  /\ minimizeTestCases(cases) # cases
  /\ cases' = minimizeTestCases(cases)
  /\ UNCHANGED <<vars, asked, todo, runnerVars>>

-----------------------------------------------------------------------------
(* How a test ends.  The alarm kills the program like any other signal.    *)
Outcomes == {"zero", "nonzero", "killed", "not forked"}

(* causesCrash; no temporary file, no answer.                              *)
causesCrash ==
  /\ asked # "none" /\ todo = <<>> /\ results = NoResults /\ ~probed
  /\ probed' = TRUE
  /\ \E o \in Outcomes \cup {"no file"} : crashInfo' = (crashInfo \/ o = "killed")
  /\ UNCHANGED <<vars, generatorVars, outcomes, results>>

startTests ==
  /\ asked # "none" /\ todo = <<>> /\ cases # <<>> /\ results = NoResults
  /\ \E p, f, c \in Junk :
       results' = [start |-> p + f + c, total |-> Len(cases), passed |-> p,
                   failed |-> f, crashed |-> c, failures |-> <<>>]
  /\ UNCHANGED <<vars, generatorVars, crashInfo, probed, outcomes>>

Passes(o) == o \in {"zero", "not forked"}

\* a crash is looked for in the last outcome only
MutReason(seen, o) == IF o = "killed" THEN "crash" ELSE "failed"

(* crashInfo is never cleared.                                             *)
Reason(seen, o) == IF seen THEN "crash" ELSE "failed"

(* runAllTests, with the runTestCase of the next test.                     *)
runTestCase ==
  /\ results # NoResults /\ Len(outcomes) < results.total
  /\ \E o \in Outcomes :
       LET seen == crashInfo \/ o = "killed"
           case == cases[Len(outcomes) + 1]
       IN  /\ outcomes' = Append(outcomes, o)
           /\ crashInfo' = seen
           /\ results' =
                IF Passes(o) THEN [results EXCEPT !.passed = @ + 1]
                ELSE LET why == Reason(seen, o)
                     IN  [results EXCEPT
                            !.crashed = @ + Bool(why = "crash"),
                            !.failed = @ + Bool(why = "failed"),
                            !.failures = Append(@, <<case, why>>)]
  /\ UNCHANGED <<vars, generatorVars, probed>>

TestsNext ==
  \/ Next /\ UNCHANGED <<generatorVars, runnerVars>>
  \/ generateFromStates \/ generateFromState \/ generateThrows \/ Minimize
  \/ causesCrash \/ startTests \/ runTestCase

TestsSpec == TestsInit /\ [][TestsNext]_<<vars, generatorVars, runnerVars>>

-----------------------------------------------------------------------------
Sole(case) == {n \in DOMAIN case.inputs \ {"input"} :
                 DOMAIN case.inputs = {n} /\ case.inputs[n] # <<>>}

(* A test of a state with one symbolic input leads the processor where the *)
(* state is, whatever the other symbolic constants are; so two such tests  *)
(* of the same input differ, and minimizing keeps both.  With more inputs  *)
(* each value is right for itself, but they may be of different models.    *)
TestsReach ==
  /\ \A k \in DOMAIN cases : \A n \in Sole(cases[k]) : \A v \in Valuations :
       v[n] = cases[k].inputs[n][1] =>
         LET s == heap[cases[k].state]
         IN  After(v, s.steps).pc = s.pc
  /\ \A j, k \in DOMAIN cases :
       j # k /\ Sole(cases[j]) = Sole(cases[k]) /\ Sole(cases[k]) # {}
         => Key(cases[j]) # Key(cases[k])

(* Each test run is in one count and, when it did not pass, in the list of *)
(* failures, as a crash if and only if some program was killed before it   *)
(* or with it; so no crash is ever reported as a plain failure.  What the  *)
(* counters held at first stays in them.                                   *)
VerdictsFollow ==
  LET Bad == {k \in DOMAIN outcomes : ~Passes(outcomes[k])}
      r == results
      listed(k) == r.failures[Cardinality({j \in Bad : j <= k})]
      Killed(k) == \E j \in 1 .. k : outcomes[j] = "killed"
  IN  r # NoResults =>
        /\ r.passed + r.failed + r.crashed = r.start + Len(outcomes)
        /\ Len(r.failures) = Cardinality(Bad)
        /\ \A k \in Bad :
             /\ listed(k)[1] = cases[k]
             /\ Killed(k) => listed(k)[2] = "crash"
             /\ ~probed /\ listed(k)[2] = "crash" => Killed(k)

(* README.md:244 lists "Test cases with concrete inputs for each path".    *)
(* Then each path that came to its end has a test case, when those of all  *)
(* states of getTerminatedStates have been made.                           *)
EveryPathTested ==
  asked = "terminated" /\ todo = <<>> /\ result = "SUCCESS" =>
    \A h \in DOMAIN heap :
      heap[h].type = "TERMINATED" => \E k \in DOMAIN cases : cases[k].state = h
=============================================================================
