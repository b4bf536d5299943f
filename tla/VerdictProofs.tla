--------------------------- MODULE VerdictProofs ---------------------------
(***************************************************************************)
(* A PASS is earned, for every number of cases and assertions and every    *)
(* log level.  PassIsEarned speaks of the words printed long before the    *)
(* verdict: the invariant says what the output already shows of a failed   *)
(* case, and where test_status still has to tell it.                       *)
(***************************************************************************)
EXTENDS Verdict, TLAPS

\* A failed case whose macros have to say so has FAILED in the output, unless the
\* case still runs and, below LOG_DETAIL, test_status holds it for TEST_END.
FailureIsKept ==
    at \in {"main", "test", "leaving"} =>
        \A c \in Telling :
            \/ "FAILED" \in printed
            \/ at = "test" /\ c = i /\ level < DETAIL /\ ~test_status

\* Below LOG_INFO nothing says PASSED.
SilentBelowInfo == level < INFO => "PASSED" \notin printed

\* Until the program is over there is no verdict, and no untested trap was met.
NoVerdictYet == at # "over" => status = "none" /\ ~trapped

\* A case that runs is one of the table.
WithinTable == at \in {"test", "leaving", "hung"} => i < NumCases

IInv ==
    /\ TypeOK
    /\ WithinTable
    /\ FailureIsKept
    /\ SilentBelowInfo
    /\ NoVerdictYet
    /\ PassIsEarned
    /\ FailureIsTold

\* The verdict PASS needs the word, and none of the words that mean failure.
LEMMA PassNeedsWord ==
    ASSUME NEW output, NEW code, RunOne(output, code) = "PASS"
    PROVE  "PASSED" \in output /\ "FAILED" \notin output /\ "ERROR:" \notin output
BY DEF RunOne, ResultFromOutput

\* A word that means failure makes the verdict FAIL, and so does, when nothing is
\* said, a return code that is not 0.
LEMMA FailureDecides ==
    ASSUME NEW output, NEW code,
           \/ "FAILED" \in output
           \/ "ERROR:" \in output
           \/ code # 0 /\ "PASSED" \notin output
    PROVE  RunOne(output, code) = "FAIL"
BY DEF RunOne, ResultFromOutput

LEMMA RunOneType ==
    ASSUME NEW output, NEW code
    PROVE  RunOne(output, code) \in Verdicts
BY DEF RunOne, ResultFromOutput, Verdicts

\* A case that has to be told of has failed; below LOG_INFO there is none.
LEMMA TellingMeans ==
    ASSUME TypeOK, NEW c, c \in Telling
    PROVE  /\ c \in failed /\ level >= INFO
           /\ level < DETAIL => c \notin silent /\ c \notin erased
<1>1. level \in Int
    BY LevelAssumption DEF TypeOK
<1> QED BY <1>1 DEF Telling, INFO, DETAIL

LEMMA InitInv == Init => IInv
<1> SUFFICES ASSUME Init PROVE IInv
    OBVIOUS
<1>1. i \in 0 .. NumCases /\ checks \in 0 .. MaxChecks
    BY BoundAssumption, SMT DEF Init
<1>2. returncode \in Codes /\ at \in {"main", "test", "leaving", "hung", "over"}
    BY DEF Init, Codes
<1>3. TypeOK
    BY <1>1, <1>2 DEF Init, TypeOK
<1>4. WithinTable /\ SilentBelowInfo /\ NoVerdictYet /\ PassIsEarned /\ FailureIsTold
    BY DEF Init, WithinTable, SilentBelowInfo, NoVerdictYet, PassIsEarned, FailureIsTold
<1>5. FailureIsKept
    BY DEF Init, FailureIsKept, Telling
<1> QED BY <1>3, <1>4, <1>5 DEF IInv

\* An assertion keeps what is known of every failed case: its own case has failed
\* when the whole condition is false, and is written over when the || holds.
LEMMA AssertKeeps ==
    ASSUME TypeOK, FailureIsKept, NEW a \in BOOLEAN, NEW b \in BOOLEAN, TestAssert(a, b)
    PROVE  FailureIsKept'
<1> SUFFICES ASSUME NEW c \in Telling'
             PROVE  \/ "FAILED" \in printed'
                    \/ c = i /\ level < DETAIL /\ ~test_status'
    BY DEF FailureIsKept, TestAssert
<1>1. level \in Int /\ level' = level /\ silent' = silent /\ i' = i /\ at = "test"
    BY LevelAssumption DEF TypeOK, TestAssert
<1>2. printed \subseteq printed'
    BY DEF TestAssert, Says
<1>3. CASE level >= DETAIL
    <2>1. Telling = failed /\ c \in failed'
        BY <1>1, <1>3 DEF Telling
    <2>2. CASE c \in failed
        BY <1>1, <1>2, <1>3, <2>1, <2>2 DEF FailureIsKept, DETAIL
    <2>3. CASE c \notin failed
        <3>1. ~(a \/ b)
            BY <2>1, <2>3 DEF TestAssert
        <3> QED BY <1>3, <3>1 DEF TestAssert, Says, Outcome
    <2> QED BY <2>2, <2>3
<1>4. CASE ~(level >= DETAIL)
    <2>1. /\ level >= INFO /\ Telling = failed \ (silent \cup erased)
          /\ c \in failed' /\ c \notin silent /\ c \notin erased'
        BY <1>1, <1>4 DEF Telling
    <2>2. level < DETAIL
        BY <1>1, <1>4 DEF DETAIL
    <2>3. CASE b
        <3>1. failed' = failed /\ erased' = erased \cup (failed \cap {i})
            BY <2>3 DEF TestAssert
        <3>2. c \in Telling /\ c # i
            BY <2>1, <3>1
        <3> QED BY <1>1, <1>2, <3>2 DEF FailureIsKept
    <2>4. CASE ~b /\ a
        <3>1. failed' = failed /\ erased' = erased
            BY <2>4 DEF TestAssert
        <3>2. c \in Telling
            BY <2>1, <3>1
        <3>3. ~test_status => ~test_status'
            BY <2>4 DEF TestAssert
        <3> QED BY <1>1, <1>2, <2>2, <3>2, <3>3 DEF FailureIsKept
    <2>5. CASE ~b /\ ~a
        <3>1. failed' = failed \cup {i} /\ erased' = erased \ {i} /\ ~test_status'
            BY <2>5 DEF TestAssert
        <3>2. CASE c = i
            BY <2>2, <3>1, <3>2
        <3>3. CASE c # i
            <4>1. c \in Telling
                BY <2>1, <3>1, <3>3
            <4> QED BY <1>1, <1>2, <3>3, <4>1 DEF FailureIsKept
        <3> QED BY <3>2, <3>3
    <2> QED BY <2>3, <2>4, <2>5
<1> QED BY <1>3, <1>4

\* Every step of the program, the simulator and run_one keeps the invariant.
LEMMA StepInv == IInv /\ [Next]_vars => IInv'
<1> SUFFICES ASSUME IInv, [Next]_vars
             PROVE  IInv'
    OBVIOUS
<1> USE LevelAssumption, BoundAssumption
<1>1. TypeOK /\ level \in Int /\ i \in Nat /\ checks \in Nat
    BY DEF IInv, TypeOK
<1>2. ASSUME UNCHANGED <<level, history>>
      PROVE  /\ Telling' = Telling
             /\ failed' = failed /\ erased' = erased /\ silent' = silent
             /\ trapped' = trapped /\ stopped' = stopped
    BY <1>2 DEF Telling, history
<1>3. CASE TestStart
    <2>1. TypeOK' /\ WithinTable'
        BY <1>1, <1>3, <1>2 DEF TestStart, IInv, TypeOK, WithinTable
    <2>2. FailureIsKept'
        BY <1>3, <1>2 DEF TestStart, IInv, FailureIsKept
    <2>3. (SilentBelowInfo /\ NoVerdictYet /\ PassIsEarned /\ FailureIsTold)'
        BY <1>3, <1>2 DEF TestStart, IInv, SilentBelowInfo, NoVerdictYet, PassIsEarned,
                          FailureIsTold
    <2> QED BY <2>1, <2>2, <2>3 DEF IInv
<1>4. ASSUME NEW a \in BOOLEAN, NEW b \in BOOLEAN, TestAssert(a, b)
      PROVE  IInv'
    <2>1. i \in Cases
        BY <1>1, <1>4 DEF TestAssert, IInv, WithinTable, Cases
    <2>2. failed' \subseteq Cases /\ erased' \subseteq Cases
        BY <1>1, <1>4, <2>1 DEF TestAssert, TypeOK
    <2>3. TypeOK' /\ WithinTable'
        BY <1>1, <1>4, <2>2 DEF TestAssert, Says, Outcome, IInv, TypeOK, Words, WithinTable, Cases
    <2>4. FailureIsKept'
        BY <1>1, <1>4, AssertKeeps DEF IInv
    <2>5. SilentBelowInfo'
        BY <1>1, <1>4 DEF TestAssert, Says, IInv, SilentBelowInfo, INFO, DETAIL
    <2>6. (NoVerdictYet /\ PassIsEarned /\ FailureIsTold)'
        BY <1>4 DEF TestAssert, IInv, NoVerdictYet, PassIsEarned, FailureIsTold
    <2> QED BY <2>3, <2>4, <2>5, <2>6 DEF IInv
<1>5. CASE TestEnd
    <2>1. TypeOK' /\ WithinTable'
        BY <1>5, <1>2 DEF TestEnd, Says, Outcome, IInv, TypeOK, Words, WithinTable, Cases
    <2>2. FailureIsKept'
        <3> SUFFICES ASSUME NEW c \in Telling
                     PROVE  "FAILED" \in printed'
            BY <1>5, <1>2 DEF TestEnd, FailureIsKept
        <3>1. level >= INFO
            BY <1>1, TellingMeans
        <3>2. "FAILED" \in printed \/ (level < DETAIL /\ ~test_status)
            BY <1>5 DEF TestEnd, IInv, FailureIsKept
        <3>3. level < DETAIL => level < VERBOSE
            BY <1>1 DEF DETAIL, VERBOSE
        <3> QED BY <1>5, <3>1, <3>2, <3>3 DEF TestEnd, Says, Outcome
    <2>3. SilentBelowInfo'
        BY <1>1, <1>5 DEF TestEnd, Says, IInv, SilentBelowInfo, INFO
    <2>4. (NoVerdictYet /\ PassIsEarned /\ FailureIsTold)'
        BY <1>5, <1>2 DEF TestEnd, IInv, NoVerdictYet, PassIsEarned, FailureIsTold
    <2> QED BY <2>1, <2>2, <2>3, <2>4 DEF IInv
<1>6. CASE FallOff
    <2>1. i \in Cases
        BY <1>1, <1>6 DEF FallOff, IInv, WithinTable, Cases
    <2>2. TypeOK' /\ WithinTable'
        BY <1>6, <2>1 DEF FallOff, IInv, TypeOK, WithinTable, Cases
    <2>3. FailureIsKept'
        <3> SUFFICES ASSUME NEW c \in Telling'
                     PROVE  "FAILED" \in printed
            BY <1>6 DEF FallOff, FailureIsKept
        <3>1. /\ level' = level /\ failed' = failed /\ erased' = erased
              /\ silent' = silent \cup {i}
            BY <1>6 DEF FallOff
        <3>2. c \in Telling /\ (level < DETAIL => c # i)
            BY <1>1, <3>1 DEF Telling, INFO, DETAIL
        <3> QED BY <1>6, <3>2 DEF FallOff, IInv, FailureIsKept
    <2>4. (SilentBelowInfo /\ NoVerdictYet /\ PassIsEarned /\ FailureIsTold)'
        BY <1>6 DEF FallOff, IInv, SilentBelowInfo, NoVerdictYet, PassIsEarned, FailureIsTold
    <2> QED BY <2>2, <2>3, <2>4 DEF IInv
<1>7. CASE TestReturns
    <2>1. TypeOK' /\ WithinTable'
        BY <1>1, <1>7, <1>2 DEF TestReturns, IInv, TypeOK, WithinTable
    <2>2. (FailureIsKept /\ SilentBelowInfo)'
        BY <1>7, <1>2 DEF TestReturns, IInv, FailureIsKept, SilentBelowInfo
    <2>3. (NoVerdictYet /\ PassIsEarned /\ FailureIsTold)'
        BY <1>7, <1>2 DEF TestReturns, IInv, NoVerdictYet, PassIsEarned, FailureIsTold
    <2> QED BY <2>1, <2>2, <2>3 DEF IInv
<1>8. CASE UntestedException
    <2>1. status' \in Verdicts
        BY <1>8, RunOneType DEF UntestedException, Exit
    <2>2. TypeOK' /\ WithinTable'
        BY <1>8, <2>1 DEF UntestedException, Says, Exit, IInv, TypeOK, Words, Codes, WithinTable,
                          Cases
    <2>3. (FailureIsKept /\ SilentBelowInfo /\ NoVerdictYet)'
        BY <1>8 DEF UntestedException, Says, Exit, IInv, FailureIsKept, SilentBelowInfo,
                    NoVerdictYet, InCase
    <2>4. status' # "PASS"
        <3> SUFFICES ASSUME status' = "PASS"
                     PROVE  FALSE
            OBVIOUS
        <3>1. "PASSED" \in printed' /\ "ERROR:" \notin printed'
            BY <1>8, PassNeedsWord DEF UntestedException, Exit
        <3>2. level < ERROR
            BY <1>1, <1>8, <3>1 DEF UntestedException, Says, ERROR
        <3> QED BY <1>1, <1>8, <3>1, <3>2
                DEF UntestedException, Says, IInv, SilentBelowInfo, ERROR, INFO
    <2>5. FailureIsTold'
        <3>1. ~AllReturned'
            BY <1>1, <1>8, BoundAssumption
               DEF UntestedException, InCase, IInv, WithinTable, AllReturned
        <3>2. level >= ERROR => status' = "FAIL"
            BY <1>8, FailureDecides DEF UntestedException, Says, Exit
        <3>3. ~(level >= ERROR) /\ plat # "nemu" => status' = "FAIL"
            <4> SUFFICES ASSUME ~(level >= ERROR), plat # "nemu"
                         PROVE  status' = "FAIL"
                OBVIOUS
            <4>1. "PASSED" \notin printed'
                BY <1>1, <1>8 DEF UntestedException, Says, IInv, SilentBelowInfo, ERROR, INFO
            <4>2. returncode' = -1 /\ status' = RunOne(printed', returncode')
                BY <1>8 DEF UntestedException, Exit
            <4>3. returncode' # 0
                BY <4>2
            <4> QED BY <4>1, <4>2, <4>3, FailureDecides
        <3>4. level' = level /\ plat' = plat
            BY <1>8 DEF UntestedException
        <3> QED BY <3>1, <3>2, <3>3, <3>4 DEF FailureIsTold
    <2> QED BY <2>2, <2>3, <2>4, <2>5 DEF IInv, PassIsEarned
<1>9. CASE MainEnds
    <2>1. status' \in Verdicts
        BY <1>9, RunOneType DEF MainEnds, Exit
    <2>2. TypeOK' /\ WithinTable'
        BY <1>9, <1>2, <2>1 DEF MainEnds, Exit, IInv, TypeOK, Codes, WithinTable, Cases
    <2>3. (FailureIsKept /\ SilentBelowInfo /\ NoVerdictYet)'
        BY <1>9, <1>2 DEF MainEnds, Exit, IInv, FailureIsKept, SilentBelowInfo, NoVerdictYet
    <2>4. Telling' = Telling /\ UNCHANGED <<level, plat, failed, erased, silent, trapped, stopped>>
        BY <1>9, <1>2 DEF MainEnds
    <2>5. Telling # {} => "FAILED" \in printed
        BY <1>9 DEF MainEnds, IInv, FailureIsKept
    <2>6. PassIsEarned'
        <3> SUFFICES ASSUME status' = "PASS"
                     PROVE  /\ i' = NumCases /\ ~trapped' /\ failed \subseteq silent \cup erased
                            /\ level >= DETAIL => failed = {}
            BY <2>4 DEF PassIsEarned, AllReturned
        <3>1. "PASSED" \in printed /\ "FAILED" \notin printed
            BY <1>9, PassNeedsWord DEF MainEnds, Exit
        <3>2. level >= INFO
            BY <1>1, <3>1 DEF IInv, SilentBelowInfo, INFO
        <3>3. Telling = {}
            BY <3>1, <2>5
        <3>4. failed \subseteq silent \cup erased /\ (level >= DETAIL => failed = {})
            BY <3>2, <3>3 DEF Telling
        <3> QED BY <1>9, <2>4, <3>4 DEF MainEnds, IInv, NoVerdictYet
    <2>7. FailureIsTold'
        <3>1. ~trapped'
            BY <1>9, <2>4 DEF MainEnds, IInv, NoVerdictYet
        <3>2. Telling # {} => status' = "FAIL"
            BY <1>9, <2>5, FailureDecides DEF MainEnds, Exit
        <3> QED BY <2>4, <3>1, <3>2 DEF FailureIsTold
    <2> QED BY <2>2, <2>3, <2>6, <2>7 DEF IInv
<1>10. CASE Hang
    <2>1. TypeOK' /\ WithinTable'
        BY <1>10, <1>2 DEF Hang, InCase, IInv, TypeOK, WithinTable
    <2>2. (FailureIsKept /\ SilentBelowInfo)'
        BY <1>10 DEF Hang, IInv, FailureIsKept, SilentBelowInfo
    <2>3. (NoVerdictYet /\ PassIsEarned /\ FailureIsTold)'
        BY <1>10, <1>2 DEF Hang, InCase, IInv, NoVerdictYet, PassIsEarned, FailureIsTold
    <2> QED BY <2>1, <2>2, <2>3 DEF IInv
<1>11. ASSUME NEW code \in {0, 1}, Stop(code)
       PROVE  IInv'
    <2>1. status' \in Verdicts
        <3>1. status' = RunOne(printed, code)
            BY <1>11 DEF Stop
        <3> QED BY <3>1, RunOneType
    <2>2. at \in {"main", "test", "leaving", "hung"}
        BY <1>11 DEF Stop, IInv, TypeOK
    <2>3. TypeOK' /\ WithinTable'
        BY <1>11, <2>1, <2>2 DEF Stop, IInv, TypeOK, Codes, WithinTable, Cases
    <2>4. (FailureIsKept /\ SilentBelowInfo /\ NoVerdictYet /\ PassIsEarned)'
        BY <1>11, <2>2 DEF Stop, IInv, FailureIsKept, SilentBelowInfo, NoVerdictYet, PassIsEarned
    <2>5. FailureIsTold'
        <3>1. ~trapped' /\ Telling' = Telling
            BY <1>11 DEF Stop, IInv, NoVerdictYet, Telling
        <3>2. AllReturned' => at = "main"
            BY <1>1, <1>11, <2>2, BoundAssumption DEF Stop, IInv, WithinTable, AllReturned
        <3>3. Telling # {} /\ at = "main" => status' = "FAIL"
            BY <1>11, FailureDecides DEF Stop, IInv, FailureIsKept
        <3> QED BY <1>11, <3>1, <3>2, <3>3 DEF Stop, FailureIsTold
    <2> QED BY <2>3, <2>4, <2>5 DEF IInv
<1>12. CASE Timeout
    <2>1. TypeOK' /\ WithinTable'
        BY <1>12, <1>2 DEF Timeout, IInv, TypeOK, Verdicts, WithinTable
    <2>2. (FailureIsKept /\ SilentBelowInfo)'
        BY <1>12 DEF Timeout, IInv, FailureIsKept, SilentBelowInfo
    <2>3. (NoVerdictYet /\ PassIsEarned /\ FailureIsTold)'
        BY <1>12, <1>2 DEF Timeout, IInv, NoVerdictYet, PassIsEarned, FailureIsTold
    <2> QED BY <2>1, <2>2, <2>3 DEF IInv
<1>13. CASE UNCHANGED vars
    <2>1. TypeOK' /\ WithinTable'
        BY <1>13, <1>2 DEF vars, program, IInv, TypeOK, WithinTable
    <2>2. (FailureIsKept /\ SilentBelowInfo)'
        BY <1>13, <1>2 DEF vars, program, IInv, FailureIsKept, SilentBelowInfo
    <2>3. (NoVerdictYet /\ PassIsEarned /\ FailureIsTold)'
        BY <1>13, <1>2 DEF vars, program, IInv, NoVerdictYet, PassIsEarned, FailureIsTold,
                           AllReturned
    <2> QED BY <2>1, <2>2, <2>3 DEF IInv
<1> QED BY <1>3, <1>4, <1>5, <1>6, <1>7, <1>8, <1>9, <1>10, <1>11, <1>12, <1>13 DEF Next

\* From LOG_INFO to LOG_WARNING the first TEST_END leaves a word in the output; the
\* cases that have returned without one are all there are before it.
CaseIsTold ==
    /\ INFO <= level /\ level < VERBOSE
    /\ at # "over"
    /\ \/ \E c \in Cases : c < i /\ c \notin silent
       \/ at = "leaving" /\ i \notin silent
    => printed \cap {"PASSED", "FAILED"} # {}

ToldInv == CaseIsTold /\ UnknownIsSilent

\* With one of the words in it an output has a verdict.
LEMMA WordDecides ==
    ASSUME NEW output, NEW code, output \cap {"PASSED", "FAILED", "ERROR:"} # {}
    PROVE  RunOne(output, code) # "UNKNOWN"
BY DEF RunOne, ResultFromOutput

LEMMA StepTold == IInv /\ ToldInv /\ [Next]_vars => ToldInv'
<1> SUFFICES ASSUME IInv, ToldInv, [Next]_vars
             PROVE  ToldInv'
    OBVIOUS
<1> USE BoundAssumption
<1>1. /\ level \in Int /\ i \in Nat /\ Cases \subseteq Nat
      /\ at \in {"main", "test", "leaving", "hung", "over"}
    BY LevelAssumption DEF IInv, TypeOK, Cases
<1>2. at # "over" => status = "none"
    BY DEF IInv, NoVerdictYet
<1>3. ASSUME UNCHANGED history
      PROVE  silent' = silent /\ stopped' = stopped
    BY <1>3 DEF history
<1>4. CASE TestStart
    BY <1>4, <1>3, <1>2 DEF TestStart, ToldInv, CaseIsTold, UnknownIsSilent
<1>5. ASSUME NEW a \in BOOLEAN, NEW b \in BOOLEAN, TestAssert(a, b)
      PROVE  ToldInv'
    BY <1>5, <1>2 DEF TestAssert, Says, ToldInv, CaseIsTold, UnknownIsSilent
<1>6. CASE TestEnd
    BY <1>1, <1>6, <1>3, <1>2 DEF TestEnd, Says, Outcome, ToldInv, CaseIsTold, UnknownIsSilent
<1>7. CASE FallOff
    BY <1>1, <1>7, <1>2 DEF FallOff, ToldInv, CaseIsTold, UnknownIsSilent
<1>8. CASE TestReturns
    <2>1. (\E c \in Cases : c < i' /\ c \notin silent) =>
              (\E c \in Cases : c < i /\ c \notin silent) \/ i \notin silent
        BY <1>1, <1>8 DEF TestReturns
    <2> QED BY <1>8, <1>3, <1>2, <2>1 DEF TestReturns, ToldInv, CaseIsTold, UnknownIsSilent
<1>9. CASE UntestedException
    <2>1. INFO <= level => "ERROR:" \in printed'
        BY <1>1, <1>9 DEF UntestedException, Says, INFO, ERROR
    <2>2. INFO <= level => status' # "UNKNOWN"
        BY <1>9, <2>1, WordDecides DEF UntestedException, Exit
    <2> QED BY <1>9, <2>2 DEF UntestedException, Exit, ToldInv, CaseIsTold, UnknownIsSilent
<1>10. CASE MainEnds
    <2>1. ASSUME INFO <= level, level < VERBOSE, status' = "UNKNOWN"
          PROVE  Cases \subseteq silent
        <3>1. printed \cap {"PASSED", "FAILED"} = {}
            BY <1>10, <2>1, WordDecides DEF MainEnds, Exit
        <3>2. \A c \in Cases : c < i
            BY <1>1, <1>10 DEF MainEnds, Cases
        <3> QED BY <1>10, <2>1, <3>1, <3>2 DEF MainEnds, ToldInv, CaseIsTold
    <2> QED BY <1>10, <1>3, <2>1
            DEF MainEnds, Exit, ToldInv, CaseIsTold, UnknownIsSilent, AllReturned
<1>11. CASE Hang
    BY <1>11, <1>3, <1>2 DEF Hang, InCase, ToldInv, CaseIsTold, UnknownIsSilent
<1>12. ASSUME NEW code \in {0, 1}, Stop(code)
       PROVE  ToldInv'
    BY <1>1, <1>12 DEF Stop, ToldInv, CaseIsTold, UnknownIsSilent
<1>13. CASE Timeout
    BY <1>13 DEF Timeout, ToldInv, CaseIsTold, UnknownIsSilent
<1>14. CASE UNCHANGED vars
    BY <1>14, <1>3 DEF vars, program, ToldInv, CaseIsTold, UnknownIsSilent, AllReturned
<1> QED BY <1>4, <1>5, <1>6, <1>7, <1>8, <1>9, <1>10, <1>11, <1>12, <1>13, <1>14 DEF Next

\* get_result.py says PASS of a run that ended by itself only when every case of
\* the ELF has returned without an untested trap, and only those have failed that
\* have no TEST_END or erased their failure, none from LOG_DETAIL on; for every
\* LOG_LEVEL, platform and number of cases.
THEOREM PassAlwaysEarned == Spec => []PassIsEarned
<1>1. Init => IInv
    BY InitInv
<1>2. IInv /\ [Next]_vars => IInv'
    BY StepInv
<1>3. IInv => PassIsEarned
    BY DEF IInv
<1> QED BY <1>1, <1>2, <1>3, PTL DEF Spec

\* What goes wrong is told, for every LOG_LEVEL, platform and number of cases: one
\* failed case that the macros have to tell of makes a completed run FAIL (or
\* TIMEOUT) whatever the others print, an untested trap makes it FAIL.
THEOREM FailureAlwaysTold == Spec => []FailureIsTold
<1>1. Init => IInv
    BY InitInv
<1>2. IInv /\ [Next]_vars => IInv'
    BY StepInv
<1>3. IInv => FailureIsTold
    BY DEF IInv
<1> QED BY <1>1, <1>2, <1>3, PTL DEF Spec

\* From LOG_INFO to LOG_WARNING a run that ended by itself is UNKNOWN only if all
\* its cases lack a TEST_END, for every platform and number of cases: an earlier
\* TEST_END, or ERROR, leaves a word in the output.
THEOREM UnknownAlwaysSilent == Spec => []UnknownIsSilent
<1>1. Init => IInv /\ ToldInv
    <2>1. Init => CaseIsTold /\ UnknownIsSilent
        BY BoundAssumption DEF Init, CaseIsTold, UnknownIsSilent, Cases
    <2> QED BY <2>1, InitInv DEF ToldInv
<1>2. IInv /\ ToldInv /\ [Next]_vars => (IInv /\ ToldInv)'
    BY StepInv, StepTold
<1>3. ToldInv => UnknownIsSilent
    BY DEF ToldInv
<1> QED BY <1>1, <1>2, <1>3, PTL DEF Spec

\* Every variable of Verdict keeps its type: main's index never leaves the table
\* and the verdict is one of the four.
THEOREM VerdictType == Spec => []TypeOK
<1>1. Init => IInv
    BY InitInv
<1>2. IInv /\ [Next]_vars => IInv'
    BY StepInv
<1>3. IInv => TypeOK
    BY DEF IInv
<1> QED BY <1>1, <1>2, <1>3, PTL DEF Spec
=============================================================================
