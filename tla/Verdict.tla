------------------------------ MODULE Verdict ------------------------------
(***************************************************************************)
(* How the outcome of a run reaches the developer: what the macros of      *)
(* rvh_test.h print at each LOG_LEVEL, how exit() ends the simulator, and  *)
(* what get_result.py makes of the output.                                 *)
(*                                                                         *)
(* Of the output only the words result_from_output looks for are kept.     *)
(* The simulator is external: it returns the exit code of the program, or  *)
(* it stops the run by itself (+max-cycles, a difftest mismatch).          *)
(***************************************************************************)
EXTENDS Integers

CONSTANTS
    Levels,     \* values of LOG_LEVEL
    Platforms,  \* "spike", "nemu", "linknan"
    NumCases,   \* cases in the ELF: test_table_size
    MaxChecks,  \* bound: TEST_ASSERTs in a case
    Stops       \* whether the simulator may stop a run by itself

ERROR == 1
INFO == 2
DETAIL == 3
VERBOSE == 5

ASSUME LevelAssumption == Levels \subseteq 0 .. 6
ASSUME PlatformAssumption == Platforms \subseteq {"spike", "nemu", "linknan"}
ASSUME BoundAssumption == NumCases \in Nat \ {0} /\ MaxChecks \in Nat \ {0} /\ Stops \in BOOLEAN

VARIABLES
    level, plat,    \* of this run
    at,             \* where the program is
    i,              \* main's loop index
    checks,         \* assertions of this case so far
    test_status,
    printed,        \* the words in the output
    returncode,     \* of the simulator
    status,         \* what run_one returns
    failed,         \* history: the cases of which an assertion was false
    erased,         \* history: the cases of which a later || hides that
    silent,         \* history: the cases that returned without TEST_END
    trapped,        \* history: a trap no test announced
    stopped         \* history: where the simulator ended the run

program == <<level, plat, at, i, checks, test_status, printed, returncode, status>>
history == <<failed, erased, silent, trapped, stopped>>
vars == <<program, history>>

Words == {"PASSED", "FAILED", "ERROR:"}
Verdicts == {"PASS", "FAIL", "UNKNOWN", "TIMEOUT"}
InCase == {"test", "leaving"}
Codes == {0, 1, -1}
Cases == 0 .. NumCases - 1

TypeOK ==
    /\ level \in Levels /\ plat \in Platforms
    /\ at \in {"main", "test", "leaving", "hung", "over"}
    /\ i \in 0 .. NumCases
    /\ checks \in 0 .. MaxChecks
    /\ test_status \in BOOLEAN
    /\ printed \subseteq Words
    /\ returncode \in Codes
    /\ status \in Verdicts \cup {"none"}
    /\ failed \subseteq Cases /\ erased \subseteq Cases /\ silent \subseteq Cases
    /\ trapped \in BOOLEAN
    /\ stopped \in {"no", "main", "test", "leaving", "hung"}

Init ==
    /\ level \in Levels /\ plat \in Platforms
    /\ at = "main"
    /\ i = 0
    /\ checks = 0
    /\ test_status = TRUE
    /\ printed = {}
    /\ returncode = 0
    /\ status = "none"
    /\ failed = {} /\ erased = {} /\ silent = {}
    /\ trapped = FALSE /\ stopped = "no"

Says(w, cond) == printed' = IF cond THEN printed \cup {w} ELSE printed
Outcome(b) == IF b THEN "PASSED" ELSE "FAILED"

-----------------------------------------------------------------------------
(* The program.                                                            *)

\* Mutant: the loop runs once too often.
TestStartBug ==
    /\ at = "main" /\ i <= NumCases
    /\ at' = "test"
    /\ test_status' = TRUE
    /\ checks' = 0
    /\ UNCHANGED <<level, plat, i, printed, returncode, status, history>>

TestStart ==
    /\ at = "main" /\ i < NumCases
    /\ at' = "test"
    /\ test_status' = TRUE
    /\ checks' = 0
    /\ UNCHANGED <<level, plat, i, printed, returncode, status, history>>

(* TEST_ASSERT(.., a || b); a condition that is no disjunction is one with *)
(* b = FALSE. The macro does not parenthesise it: what it prints is        *)
(* a || b, what it stores is test_status && a || b.                        *)
TestAssert(a, b) ==
    /\ at = "test" /\ checks < MaxChecks
    /\ Says(Outcome(a \/ b), level >= DETAIL)
    /\ test_status' = ((test_status /\ a) \/ b)
    /\ checks' = checks + 1
    /\ failed' = IF a \/ b THEN failed ELSE failed \cup {i}
    /\ erased' = IF b THEN erased \cup (failed \cap {i})
                 ELSE IF a THEN erased ELSE erased \ {i}
    /\ UNCHANGED <<level, plat, at, i, returncode, status, silent, trapped, stopped>>

\* Mutant: TEST_END leaves the printing to TEST_ASSERT from LOG_DETAIL on.
TestEndBug ==
    /\ at = "test"
    /\ Says(Outcome(test_status), level >= INFO /\ level < DETAIL)
    /\ at' = "leaving"
    /\ UNCHANGED <<level, plat, i, checks, test_status, returncode, status, history>>

\* TEST_END prints, and goes on to goto_priv and reset_state.
TestEnd ==
    /\ at = "test"
    /\ Says(Outcome(test_status), level >= INFO /\ level < VERBOSE)
    /\ at' = "leaving"
    /\ UNCHANGED <<level, plat, i, checks, test_status, returncode, status, history>>

\* Many registered tests have no TEST_END: they return with nothing printed, and
\* main does not look at what they return.
FallOff ==
    /\ at = "test"
    /\ at' = "leaving"
    /\ silent' = silent \cup {i}
    /\ UNCHANGED <<level, plat, i, checks, test_status, printed, returncode, status, failed,
                   erased, trapped, stopped>>

\* The case is over: reset_state, in TEST_END or at main's next turn, is done.
TestReturns ==
    /\ at = "leaving"
    /\ at' = "main"
    /\ i' = i + 1
    /\ UNCHANGED <<level, plat, checks, test_status, printed, returncode, status, history>>

\* Mutant: result_from_output looks for "PASSED" first.
ResultBug(output) ==
    IF "PASSED" \in output THEN "PASS"
    ELSE IF output # {} THEN "FAIL"
    ELSE "UNKNOWN"

ResultFromOutput(output) ==
    IF output \cap {"FAILED", "ERROR:"} # {} THEN "FAIL"
    ELSE IF "PASSED" \in output THEN "PASS"
    ELSE "UNKNOWN"

\* run_one, when the simulator has returned.
RunOne(output, code) ==
    IF code # 0 /\ ResultFromOutput(output) = "UNKNOWN" THEN "FAIL"
    ELSE ResultFromOutput(output)

\* exit(code), and the simulator returns: NEMU is told nothing of the code.
Exit(code) ==
    /\ at' = "over"
    /\ returncode' = IF plat = "nemu" THEN 0 ELSE code
    /\ status' = RunOne(printed', returncode')

\* unexpected_trap_error: ERROR prints and exits with 0; at LOG_NONE it exits with -1.
UntestedException ==
    /\ at \in InCase
    /\ Says("ERROR:", level >= ERROR)
    /\ Exit(IF level >= ERROR THEN 0 ELSE -1)
    /\ trapped' = TRUE
    /\ UNCHANGED <<level, plat, i, checks, test_status, failed, erased, silent, stopped>>

MainEnds ==
    /\ at = "main" /\ i = NumCases
    /\ UNCHANGED printed
    /\ Exit(0)
    /\ UNCHANGED <<level, plat, i, checks, test_status, history>>

\* A loop without end: a test that spins, a trap into its own handler.
Hang ==
    /\ at \in InCase
    /\ at' = "hung"
    /\ UNCHANGED <<level, plat, i, checks, test_status, printed, returncode, status, history>>

-----------------------------------------------------------------------------
(* The simulator and run_one's timeout.                                    *)

\* +max-cycles is reached, or difftest finds a mismatch.
Stop(code) ==
    /\ Stops /\ plat = "linknan"
    /\ at # "over"
    /\ at' = "over"
    /\ stopped' = at
    /\ returncode' = code
    /\ status' = RunOne(printed, code)
    /\ UNCHANGED <<level, plat, i, checks, test_status, printed, failed, erased, silent,
                   trapped>>

\* Mutant: run_one judges the output it has got so far.
TimeoutBug ==
    /\ at # "over"
    /\ at' = "over"
    /\ status' = ResultFromOutput(printed)
    /\ UNCHANGED <<level, plat, i, checks, test_status, printed, returncode, history>>

Timeout ==
    /\ at # "over"
    /\ at' = "over"
    /\ status' = "TIMEOUT"
    /\ UNCHANGED <<level, plat, i, checks, test_status, printed, returncode, history>>

Next ==
    \/ TestStart \/ (\E a, b \in BOOLEAN : TestAssert(a, b))
    \/ TestEnd \/ FallOff \/ TestReturns
    \/ UntestedException \/ MainEnds \/ Hang
    \/ (\E code \in {0, 1} : Stop(code)) \/ Timeout

Spec == Init /\ [][Next]_vars

-----------------------------------------------------------------------------
(* Properties.                                                             *)

AllReturned == i = NumCases

\* The failed cases whose macros have to say so: from LOG_DETAIL on TEST_ASSERT
\* does, of all; at LOG_INFO TEST_END does, of a case that has one and has not
\* written over its test_status.
Telling ==
    IF level >= DETAIL THEN failed
    ELSE IF level >= INFO THEN failed \ (silent \cup erased)
    ELSE {}

\* A PASS is earned: unless the simulator itself has ended the run, every case of
\* the ELF returned, no untested trap came, and a case that failed is one that
\* has no TEST_END or has erased the failure, below LOG_DETAIL
\* (rvh_test.h:145-199, get_result.py:71-77, 155-161).
PassIsEarned ==
    status = "PASS" /\ stopped = "no" =>
        /\ AllReturned /\ ~trapped
        /\ failed \subseteq silent \cup erased
        /\ level >= DETAIL => failed = {}

\* What goes wrong is told: when all cases have returned, one failed case whose
\* macros have to say so makes a FAIL or a TIMEOUT, whatever the other cases
\* print; an untested trap is a FAIL, at LOG_NONE by the exit code where the
\* platform has one.
FailureIsTold ==
    at = "over" =>
        /\ Telling # {} /\ AllReturned => status \in {"FAIL", "TIMEOUT"}
        /\ trapped /\ (level >= ERROR \/ plat # "nemu") => status = "FAIL"

\* From LOG_INFO to LOG_WARNING a run that was not stopped ends with UNKNOWN only
\* if none of its cases has a TEST_END: one that has suffices for a verdict.
UnknownIsSilent ==
    status = "UNKNOWN" /\ INFO <= level /\ level < VERBOSE /\ stopped = "no" =>
        AllReturned /\ Cases \subseteq silent

\* The log of a case that has run says PASSED or FAILED: "检查结果" by
\* grep -E "PASSED|FAILED", README.md:516-519.  Violated by the code.
ResultInLog ==
    at = "over" /\ AllReturned /\ status # "TIMEOUT" =>
        printed \cap {"PASSED", "FAILED"} # {}

\* A run the simulator has stopped in the middle of a case, "测试超时（达到
\* max-cycles）" of README.md:865, is not a PASS.  Violated by the code.
StoppedIsNoPass == stopped = "test" => status # "PASS"
=============================================================================
