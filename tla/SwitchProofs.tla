---------------------------- MODULE SwitchProofs ----------------------------
(***************************************************************************)
(* Proofs about the switches and the recorded traps of Trap, on top of     *)
(* what TrapProofs shows of the levels.                                    *)
(***************************************************************************)
EXTENDS TrapProofs

USE DEF VU, HU, VS, HS, M, Threads

-----------------------------------------------------------------------------
(* The recorded trap.                                                      *)

\* A trap of the test, whose cause is no ecall: mhandler records it, or
\* hshandler has it in scause.
LEMMA TrapRecords ==
    ASSUME Typed, status = "run", status' = "run", pc["hs"] = "off",
           NEW cause \in Causes \ Ecalls, NEW args, NEW pc1 \in [Threads -> PCs],
           pc1["hs"] = "off", Trap(cause, args, pc1),
           raised' = [cause |-> cause, level |-> Level(cause)]
    PROVE  RecInv'
<1>1. CASE Delegated(cause)
  <2>1. EnterHs(cause, pc1)
    BY <1>1 DEF Trap
  <2>2. pc'["hs"] = "entry" /\ scause' = cause
    BY <2>1 DEF EnterHs
  <2>3. raised' = [cause |-> cause, level |-> HS]
    BY <1>1 DEF Level
  <2> QED BY <2>2, <2>3 DEF RecInv, Lower
<1>2. CASE ~Delegated(cause)
  <2>1. MHandler(cause, args) /\ pc' = pc1 /\ ~IsGoto(cause, args)
    BY <1>2 DEF Trap, IsGoto
  <2>2. excpt' = Recorded(M, cause)
    BY <2>1 DEF MHandler, Stop
  <2>3. raised' = [cause |-> cause, level |-> M]
    BY <1>2 DEF Level
  <2> QED BY <2>1, <2>2, <2>3 DEF RecInv, Lower
<1> QED BY <1>1, <1>2

\* A goto_priv ecall records nothing.
LEMMA EcallRecords ==
    ASSUME Typed, RecInv, status = "run", status' = "run",
           NEW c \in Threads, pc["hs"] = "off" \/ pc["hs"] \in {"goto"} \cup Lower,
           NEW args, args.id = 1, NEW pc1 \in [Threads -> PCs],
           pc1["hs"] \in {pc["hs"], "goto", "record"},
           pc["hs"] = "off" => pc1["hs"] = "off",
           Trap(EcallCause, args, pc1), raised' = raised
    PROVE  RecInv'
<1>1. IsGoto(EcallCause, args) /\ EcallCause \in Ecalls
  BY CauseTypes DEF IsGoto
<1>2. CASE Delegated(EcallCause)
  <2>1. EnterHs(EcallCause, pc1)
    BY <1>2 DEF Trap
  <2>2. pc["hs"] = "off" /\ pc'["hs"] = "entry" /\ scause' = EcallCause /\ excpt' = excpt
    BY <2>1 DEF EnterHs, Stop
  <2> QED BY <1>1, <2>2 DEF RecInv, Lower
<1>3. CASE ~Delegated(EcallCause)
  <2>1. MHandler(EcallCause, args) /\ pc' = pc1 /\ scause' = scause
    BY <1>3 DEF Trap
  <2>2. excpt' = excpt
    BY <1>1, <2>1 DEF MHandler, MGoto, Stop
  <2> QED BY <2>1, <2>2 DEF RecInv, Lower
<1> QED BY <1>2, <1>3

LEMMA RecStep ==
    ASSUME IInv, RecInv, status = "run", status' = "run", [Next]_vars
    PROVE  RecInv'
<1>0. /\ Typed /\ Levels /\ pc \in [Threads -> PCs]
      /\ [pc EXCEPT !["test"] = "body"] \in [Threads -> PCs]
      /\ [pc EXCEPT !["test"] = "body"]["hs"] = pc["hs"]
  BY DEF IInv, Typed, Levels, TypeOK, PCs
<1>1. ASSUME NEW c \in Threads, CallStep(c)
      PROVE  RecInv'
  <2>1. Runs(c) /\ pc[c] \in {"goto"} \cup Lower /\ UNCHANGED <<scause, excpt, raised>>
    BY <1>1 DEF CallStep, GotoUser, GotoThere, GotoStairs, Rises, Falls, LowerEqual, LowerRefused,
         LowerStart, SetPrevPriv, SetRealPriv, SetEpc, XretDown, SetCurrPriv, At, Lower, Stop, hist
  <2>2. CASE c = "test"
    <3>1. pc["hs"] = "off" /\ (Finish(c) => pc'["hs"] = "off")
      BY <1>0, <2>1, <2>2, NextTypes DEF Runs, Active, Finish, Typed
    <3>2. pc'["hs"] = "off"
      BY <1>0, <1>1, <2>2, <3>1
         DEF CallStep, GotoUser, GotoThere, GotoStairs, LowerEqual, LowerRefused,
         LowerStart, SetPrevPriv, SetRealPriv, SetEpc, XretDown, SetCurrPriv
    <3> QED BY <2>1, <3>1, <3>2 DEF RecInv, Lower
  <2>3. CASE c = "hs"
    <3>1. pc["hs"] \in {"goto"} \cup Lower
          /\ (Finish(c) => pc'["hs"] \in {"goto", "record"})
      BY <1>0, <2>1, <2>3, NextTypes DEF Runs, Active, Finish, Typed, Home
    <3>2. pc'["hs"] \in {"goto", "record"} \cup Lower
      BY <1>0, <1>1, <2>3, <3>1
         DEF CallStep, GotoUser, GotoThere, GotoStairs, LowerEqual, LowerRefused,
         LowerStart, SetPrevPriv, SetRealPriv, SetEpc, XretDown, SetCurrPriv, Lower
    <3>3. scause \in Ecalls
      BY <3>1 DEF RecInv
    <3> QED BY <2>1, <3>1, <3>2, <3>3 DEF RecInv, Lower
  <2> QED BY <2>2, <2>3
<1>2. ASSUME NEW c \in Threads, GotoEcall(c)
      PROVE  RecInv'
  <2> DEFINE pc1 == Next1(c, Tail(todo[c]))
  <2>1. /\ Runs(c) /\ pc[c] = "goto" /\ UNCHANGED raised /\ ecall_args'.id = 1
        /\ Trap(EcallCause, ecall_args', pc1)
    BY <1>2 DEF GotoEcall, Rises, At, hist
  <2>2. pc1 \in [Threads -> PCs] /\ pc1[c] \in {Home(c), "goto"}
        /\ \A d \in Threads \ {c} : pc1[d] = pc[d]
    BY <1>0, <2>1, NextTypes DEF Typed
  <2>3. /\ pc["hs"] \in {"off", "goto"} /\ pc1["hs"] \in {pc["hs"], "goto", "record"}
        /\ pc["hs"] = "off" => pc1["hs"] = "off"
    BY <2>1, <2>2 DEF Runs, Active, Home
  <2> HIDE DEF pc1
  <2> QED BY <1>0, <2>1, <2>2, <2>3, EcallRecords
<1>3. CASE GotoDirect
  <2>1. /\ pc["hs"] = "off" /\ UNCHANGED raised /\ ecall_args'.id = 1
        /\ Trap(EcallCause, ecall_args', [pc EXCEPT !["test"] = "body"])
    BY <1>3 DEF GotoDirect, At, Runs, Active, hist
  <2> QED BY <1>0, <2>1, EcallRecords
<1>4. ASSUME NEW e \in Excs, Raise(e)
      PROVE  RecInv'
  <2>1. /\ pc["hs"] = "off" /\ e \in Causes \ Ecalls /\ Trap(e, ecall_args, pc)
        /\ raised' = [cause |-> e, level |-> Level(e)]
    BY <1>4, CauseTypes, EcallFacts DEF Raise, Op, Quiet
  <2> QED BY <1>0, <2>1, TrapRecords
<1>5. ASSUME NEW e \in InstFaults, ExecJump(e)
      PROVE  RecInv'
  <2>1. /\ pc["hs"] = "off" /\ e \in Causes \ Ecalls
        /\ Trap(e, ecall_args, [pc EXCEPT !["test"] = "body"])
        /\ raised' = [cause |-> e, level |-> Level(e)]
    BY <1>5, CauseTypes, EcallFacts DEF ExecJump, At, Runs, Active
  <2> QED BY <1>0, <2>1, TrapRecords
\* An interrupt never hits hshandler: TakeIrq is a step of the test.
<1>6. ASSUME NEW i \in Irqs, TakeIrq(i)
      PROVE  RecInv'
  <2>1. (MTakes(i) \/ STakes(i)) /\ Trap(i, ecall_args, pc)
    BY <1>6 DEF TakeIrq
  <2>2. TakenAtOnce(i)
    BY <1>0, <2>1 DEF Levels, IrqInv, MTakes, STakes
  <2>3. pc["hs"] = "off" /\ i \in Causes \ Ecalls
        /\ raised' = [cause |-> i, level |-> Level(i)]
    BY <1>6, <2>2, CauseTypes, EcallFacts DEF TakenAtOnce, Quiet, TakeIrq, Active
  <2> QED BY <1>0, <2>1, <2>3, TrapRecords
<1>7. CASE HsStep
  <2>1. CASE Demoted
    BY <2>1 DEF Demoted, Stop
  <2>2. CASE HsStart
    <3>1. /\ pc["hs"] = "entry" /\ UNCHANGED <<excpt, raised, scause>>
          /\ pc'["hs"] = IF IsGoto(scause, ecall_args) THEN "goto" ELSE "record"
          /\ IsGoto(scause, ecall_args) => scause \in Ecalls
          /\ ~IsGoto(scause, ecall_args) => scause \notin Ecalls
      BY <1>0, <2>2 DEF HsStart, At, hist, IsGoto
    <3> QED BY <3>1 DEF RecInv, Lower
  <2>3. CASE HsRecord
    <3>1. /\ pc["hs"] = "record" /\ pc'["hs"] = "ret" /\ raised' = raised
          /\ excpt' = IF scause \in Ecalls THEN excpt ELSE Recorded(HS, scause)
      BY <1>0, <2>3 DEF HsRecord, At, hist
    <3> QED BY <3>1 DEF RecInv, Lower
  <2>4. CASE HsReturn
    <3>1. /\ pc["hs"] = "ret" /\ pc'["hs"] = "off" /\ UNCHANGED <<raised, excpt>>
      BY <1>0, <2>4 DEF HsReturn, At, hist, Stop
    <3> QED BY <3>1 DEF RecInv, Lower
  <2> QED BY <1>7, <2>1, <2>2, <2>3, <2>4 DEF HsStep
<1>8. CASE OwnStep
  <2>1. pc["hs"] = "off" /\ pc'["hs"] = "off"
    BY <1>0, <1>8 DEF OwnStep, SetupExcept, ExecStore, CallReset, CallDirect, TestEnd,
         CallGoto, WriteMedeleg, SetupIrq, ResetState, Op, Quiet
  <2>2. raised' = NoTrap \/ UNCHANGED <<raised, excpt>>
    BY <1>8 DEF OwnStep, SetupExcept, ExecStore, CallReset, CallDirect, TestEnd,
         CallGoto, WriteMedeleg, SetupIrq, ResetState, hist
  <2> QED BY <2>1, <2>2 DEF RecInv, Lower
<1>9. ASSUME NEW i \in Irqs, PendAtOnce(i)
      PROVE  RecInv'
  BY <1>9 DEF PendAtOnce, Pend, RecInv, hist
<1>10. CASE UNCHANGED vars
  BY <1>10 DEF vars, hist, RecInv
<1>11. CASE Step
  BY <1>1, <1>2, <1>3, <1>4, <1>5, <1>6, <1>7, <1>8, <1>11
     DEF Step, Framework, TestCase, Leave, CallStep, HsStep, OwnStep
<1> QED BY <1>9, <1>10, <1>11 DEF Next, Halted

LEMMA NextIsRaw == [Next]_vars => [RawNext]_vars
  BY DEF RawNext

\* A program that has stopped does not start again.
LEMMA RunBefore ==
    ASSUME [Next]_vars, status' = "run"
    PROVE  status = "run"
BY DEF vars, Next, Step, Framework, TestCase, Leave, PendAtOnce, Pend,
   GotoUser, GotoThere, GotoStairs, GotoEcall, Rises, Falls, LowerEqual, LowerRefused,
   LowerStart, SetPrevPriv, SetRealPriv, SetEpc, XretDown, SetCurrPriv, Demoted, HsStart,
   HsRecord, HsReturn, GotoDirect, TakeIrq, ExecJump, ResetState, SetupExcept, ExecStore,
   CallReset, CallGoto, Raise, WriteMedeleg, SetupIrq, CallDirect, TestEnd, Op, At, Runs, Halted

(***************************************************************************)
(* The trap a test met is recorded with its cause and with the level the   *)
(* delegation sends it to, when the test looks: for every switch, every    *)
(* trap, every delegation, and interrupts taken at once (mhandler,         *)
(* hshandler and the excpt record in rvh_test.c).                          *)
(***************************************************************************)
THEOREM TrapAlwaysRecorded == Spec => []TrapRecorded
<1>1. Init => RecordInv
  BY DEF Init, RecordInv, RecInv, Lower
<1>2. IInv /\ RecordInv /\ [Next]_vars => RecordInv'
  BY RecStep, RunBefore DEF RecordInv
<1>3. IInv /\ [Next]_vars => IInv'
  BY StepInv, NextIsRaw
<1>4. RecordInv => TrapRecorded
  BY DEF RecordInv, RecInv, TrapRecorded, Quiet
<1> QED BY InitInv, <1>1, <1>2, <1>3, <1>4, PTL DEF Spec

-----------------------------------------------------------------------------
(* The switches.  Sound is what SwitchInv says of a program that runs.     *)

Sound == StaysInM /\ HsServes /\ TestCalls /\ Returns

\* Two calls that may follow each other.
Follows(a, b) == a.to = M \/ (a.to = HS /\ b.to = M)

LEMMA ChainTail ==
    ASSUME NEW s \in Seq(Call), s # <<>>, Chain(s)
    PROVE  /\ Chain(Tail(s)) /\ Final(s) \in Priv
           /\ Tail(s) = <<>> => Final(s) = Head(s).to
           /\ Tail(s) # <<>> => /\ Final(Tail(s)) = Final(s)
                               /\ Follows(Head(s), Head(Tail(s)))
<1>1. Len(s) \in Nat \ {0} /\ Head(s) = s[1] /\ \A k \in 1 .. Len(s) : s[k] \in Call
  OBVIOUS
<1>2. Tail(s) \in Seq(Call) /\ Len(Tail(s)) = Len(s) - 1
      /\ \A k \in 1 .. Len(Tail(s)) : Tail(s)[k] = s[k + 1]
  OBVIOUS
<1>3. Chain(Tail(s))
  <2> SUFFICES ASSUME NEW k \in 2 .. Len(Tail(s))
               PROVE  Follows(Tail(s)[k - 1], Tail(s)[k])
    BY DEF Chain, Follows
  <2>1. k + 1 \in 2 .. Len(s) /\ k - 1 \in 1 .. Len(Tail(s)) /\ k \in 1 .. Len(Tail(s))
    BY <1>1, <1>2
  <2>2. Tail(s)[k - 1] = s[(k + 1) - 1] /\ Tail(s)[k] = s[k + 1]
    BY <1>2, <2>1
  <2> QED BY <2>1, <2>2 DEF Chain, Follows
<1>4. Final(s) \in Priv
  <2>1. s[Len(s)] \in Call
    BY <1>1
  <2> QED BY <2>1 DEF Final, Call
<1>5. Tail(s) = <<>> => Final(s) = Head(s).to
  BY <1>1, <1>2 DEF Final
<1>6. ASSUME Tail(s) # <<>>
      PROVE  Final(Tail(s)) = Final(s) /\ Follows(Head(s), Head(Tail(s)))
  <2>1. Len(Tail(s)) \in Nat \ {0} /\ Head(Tail(s)) = Tail(s)[1]
    BY <1>2, <1>6
  <2>2. Tail(s)[Len(Tail(s))] = s[Len(s)] /\ Tail(s)[1] = s[2] /\ 2 \in 2 .. Len(s)
    BY <1>1, <1>2, <2>1
  <2> QED BY <1>1, <2>1, <2>2 DEF Final, Chain, Follows
<1> QED BY <1>3, <1>4, <1>5, <1>6

LEMMA StaysTail ==
    ASSUME NEW s \in Seq(Call), s # <<>>, \A k \in 1 .. Len(s) : s[k].to = M
    PROVE  Head(s).to = M /\ \A k \in 1 .. Len(Tail(s)) : Tail(s)[k].to = M
<1>1. Len(s) \in Nat \ {0} /\ Head(s) = s[1]
  OBVIOUS
<1>2. Len(Tail(s)) = Len(s) - 1 /\ \A k \in 1 .. Len(Tail(s)) : Tail(s)[k] = s[k + 1]
  OBVIOUS
<1>3. \A k \in 1 .. Len(Tail(s)) : k + 1 \in 1 .. Len(s)
  BY <1>1, <1>2
<1> QED BY <1>1, <1>2, <1>3

\* Two calls for the first one, the second with the target of the first.
LEMMA ChainPush ==
    ASSUME NEW s \in Seq(Call), s # <<>>, Chain(s),
           NEW a \in Call, NEW b \in Call, Follows(a, b), b.to = Head(s).to
    PROVE  LET n == <<a, b>> \o Tail(s)
           IN  n \in Seq(Call) /\ n # <<>> /\ Chain(n) /\ Final(n) = Final(s) /\ Head(n) = a
<1> DEFINE n == <<a, b>> \o Tail(s)
<1>1. Len(s) \in Nat \ {0} /\ Head(s) = s[1] /\ \A k \in 1 .. Len(s) : s[k] \in Call
  OBVIOUS
<1>2. Tail(s) \in Seq(Call) /\ Len(Tail(s)) = Len(s) - 1
      /\ \A k \in 1 .. Len(Tail(s)) : Tail(s)[k] = s[k + 1]
  OBVIOUS
<1>3. <<a, b>> \in Seq(Call) /\ Len(<<a, b>>) = 2
  OBVIOUS
<1>4. n \in Seq(Call) /\ Len(n) = Len(s) + 1 /\ n[1] = a /\ n[2] = b
  BY <1>1, <1>2, <1>3
<1>5. \A k \in 3 .. Len(n) : n[k] = Tail(s)[k - 2]
  BY <1>1, <1>2, <1>3, <1>4
<1>6. \A k \in 3 .. Len(n) : n[k] = s[k - 1]
  <2> SUFFICES ASSUME NEW k \in 3 .. Len(n) PROVE n[k] = s[k - 1]
    OBVIOUS
  <2>1. k - 2 \in 1 .. Len(Tail(s)) /\ (k - 2) + 1 = k - 1
    BY <1>1, <1>2, <1>4
  <2> QED BY <1>2, <1>5, <2>1
<1>7. Head(n) = a /\ n # <<>>
  BY <1>1, <1>4
<1> HIDE DEF n
<1>8. Chain(n)
  <2> SUFFICES ASSUME NEW k \in 2 .. Len(n)
               PROVE  Follows(n[k - 1], n[k])
    BY DEF Chain, Follows
  <2>1. k = 2 \/ k = 3 \/ k \in 4 .. Len(n)
    BY <1>1, <1>4
  <2>2. CASE k = 2
    BY <1>4, <2>2
  <2>3. CASE k = 3
    <3>1. n[3] = s[2] /\ 2 \in 2 .. Len(s)
      BY <1>1, <1>4, <1>6, <2>3
    <3> QED BY <1>1, <1>4, <2>3, <3>1 DEF Chain, Follows
  <2>4. CASE k \in 4 .. Len(n)
    <3>1. n[k] = s[k - 1] /\ n[k - 1] = s[(k - 1) - 1] /\ k - 1 \in 2 .. Len(s)
      BY <1>1, <1>4, <1>6, <2>4
    <3> QED BY <3>1 DEF Chain, Follows
  <2> QED BY <2>1, <2>2, <2>3, <2>4
<1>9. Final(n) = Final(s)
  <2>0. Len(s) = 1 \/ Len(s) >= 2
    <3>1. \A l \in Nat \ {0} : l = 1 \/ l >= 2
      OBVIOUS
    <3>2. Len(s) \in Nat \ {0}
      BY <1>1
    <3> QED BY <3>1, <3>2
  <2>1. CASE Len(s) = 1
    BY <1>1, <1>4, <2>1 DEF Final
  <2>2. CASE Len(s) >= 2
    <3>1. Len(n) \in 3 .. Len(n) /\ Len(n) - 1 = Len(s)
      BY <1>1, <1>4, <2>2
    <3>2. n[Len(n)] = s[Len(n) - 1]
      BY <1>6, <3>1
    <3> QED BY <3>1, <3>2 DEF Final
  <2> QED BY <2>0, <2>1, <2>2
<1> QED BY <1>4, <1>7, <1>8, <1>9 DEF n

LEMMA ChainOne ==
    ASSUME NEW a \in Call
    PROVE  /\ <<a>> \in Seq(Call) /\ <<a>> # <<>> /\ Chain(<<a>>)
           /\ Final(<<a>>) = a.to /\ Head(<<a>>) = a /\ Tail(<<a>>) = <<>>
  BY DEF Chain, Final

LEMMA ChainTwo ==
    ASSUME NEW a \in Call, NEW b \in Call, Follows(a, b)
    PROVE  /\ <<a, b>> \in Seq(Call) /\ <<a, b>> # <<>> /\ Chain(<<a, b>>)
           /\ Final(<<a, b>>) = b.to /\ Head(<<a, b>>) = a /\ Tail(<<a, b>>) = <<b>>
<1>1. Len(<<a, b>>) = 2 /\ <<a, b>>[1] = a /\ <<a, b>>[2] = b
  OBVIOUS
<1>2. \A k \in 2 .. 2 : k = 2 /\ k - 1 = 1
  OBVIOUS
<1> QED BY <1>1, <1>2 DEF Chain, Final, Follows

\* How a step of a program that goes on running looks in PrivSwitch.
Shows ==
    \/ UNCHANGED <<Where, Goal>>
    \/ Goal = {} /\ UNCHANGED Where /\ (\E p \in Priv : Goal' = {p})
    \/ Goal # {} /\ Goal' = Goal
    \/ /\ Goal # {} /\ Goal' = {}
       /\ \E p \in Goal : curr_priv' = p /\ Where'.mode = Hw(p)

LEMMA GoalFacts ==
    ASSUME TestCalls, PcOK
    PROVE  /\ pc["test"] = "direct" => Goal = {M}
           /\ pc["test"] \in {"goto"} \cup Lower => Goal = {Final(todo["test"])}
           /\ pc["test"] \in {"body", "jr"} => Goal = IF Serving THEN {ecall_args.to} ELSE {}
  BY DEF Goal, Lower, PcOK

\* With hshandler off the test leaves from curr_priv.
LEMMA OffFacts ==
    ASSUME pc["hs"] = "off"
    PROVE  ~Serving /\ From = curr_priv /\ HsServes
  BY DEF Serving, From, HsServes, Lower

\* The same after a step.
LEMMA GoalNext ==
    ASSUME TestCalls', PcOK'
    PROVE  /\ pc'["test"] = "direct" => Goal' = {M}
           /\ pc'["test"] \in {"goto"} \cup Lower => Goal' = {Final(todo'["test"])}
           /\ pc'["test"] \in {"body", "jr"} => Goal' = IF Serving' THEN {ecall_args'.to} ELSE {}
  BY DEF Goal, Lower, PcOK

LEMMA OffNext ==
    ASSUME pc'["hs"] = "off"
    PROVE  ~Serving' /\ From' = curr_priv' /\ HsServes'
  BY DEF Serving, From, HsServes, Lower

\* A call of the test ends, where it was to end.
LEMMA CallEnds ==
    ASSUME Typed, Levels, Sound, Typed', pc["hs"] = "off", pc["test"] \in {"goto"} \cup Lower,
           Finish("test"), UNCHANGED <<medeleg, after>>,
           curr_priv' = Target("test"), hart'.mode = Hw(Target("test"))
    PROVE  Sound' /\ Shows
<1> DEFINE s == todo["test"]
           n == todo'["test"]
           t == Target("test")
<1>1. /\ pc \in [Threads -> PCs] /\ todo \in [Threads -> Seq(Call)] /\ s # <<>>
      /\ s \in Seq(Call) /\ t = Head(s).to /\ PcOK /\ PcOK'
  BY TargetType DEF Typed, TypeOK, Call1, Target
<1>2. /\ Chain(s) /\ Goal = {Final(s)}
      /\ after # "body" => Final(s) = M
  BY <1>1, GoalFacts, ChainTail DEF Sound, TestCalls, Returns
<1>3. /\ n = Tail(s) /\ pc'["hs"] = "off"
      /\ pc'["test"] = IF Tail(s) = <<>> THEN "body" ELSE "goto"
  BY <1>1 DEF Finish, Next1, Drop, Home
<1>4. HsServes' /\ From' = curr_priv' /\ ~Serving'
  BY <1>3, OffNext
<1>s. StaysInM'
  <2> SUFFICES ASSUME "ecs" \in medeleg'
               PROVE  /\ curr_priv' = M /\ \A k \in 1 .. Len(n) : n[k].to = M
    BY <1>3 DEF StaysInM
  <2>1. \A k \in 1 .. Len(s) : s[k].to = M
    BY DEF Sound, StaysInM
  <2> QED BY <1>1, <1>3, <2>1, StaysTail
<1>5. CASE Tail(s) = <<>>
  <2>1. Final(s) = t
    BY <1>1, <1>2, <1>5, ChainTail
  <2>2. TestCalls'
    BY <1>3, <1>5 DEF TestCalls, Lower
  <2>3. Returns'
    BY <1>2, <1>3, <1>4, <1>5, <2>1 DEF Returns
  <2>4. Goal' = {}
    BY <1>1, <1>3, <1>4, <1>5, <2>2, GoalNext
  <2>5. Where'.mode = Hw(t)
    BY <1>3 DEF Where
  <2> QED BY <1>2, <1>4, <1>s, <2>1, <2>2, <2>3, <2>4, <2>5 DEF Sound, Shows
<1>6. CASE Tail(s) # <<>>
  <2>1. Chain(Tail(s)) /\ Final(Tail(s)) = Final(s) /\ Follows(Head(s), Head(Tail(s)))
    BY <1>1, <1>2, <1>6, ChainTail
  <2>2. Legal(curr_priv, Head(todo["test"]))'
    BY <1>1, <1>3, <2>1 DEF Legal, Follows, User
  <2>3. TestCalls'
    BY <1>3, <1>4, <1>6, <2>1, <2>2 DEF TestCalls, Call1, Lower
  <2>4. Returns'
    BY <1>2, <1>3, <1>6, <2>1 DEF Returns
  <2>5. Goal' = {Final(s)}
    BY <1>1, <1>3, <1>6, <2>1, <2>3, GoalNext
  <2> QED BY <1>2, <1>4, <1>s, <2>3, <2>4, <2>5 DEF Sound, Shows
<1> QED BY <1>5, <1>6

LEMMA TestCallSound ==
    ASSUME Typed, Levels, Sound, Typed', status = "run", status' = "run", CallStep("test")
    PROVE  Sound' /\ Shows
<1> DEFINE s == todo["test"]
           n == todo'["test"]
           t == Target("test")
<1>1. Runs("test") /\ pc["test"] \in {"goto"} \cup Lower /\ pc["hs"] = "off"
  BY DEF CallStep, GotoUser, GotoThere, GotoStairs, Rises, Falls, LowerEqual, LowerRefused,
         LowerStart, SetPrevPriv, SetRealPriv, SetEpc, XretDown, SetCurrPriv, At, Lower,
         Runs, Active
<1>2. /\ pc \in [Threads -> PCs] /\ todo \in [Threads -> Seq(Call)] /\ s # <<>>
      /\ s \in Seq(Call) /\ t \in Priv /\ Call1("test") \in Call /\ PcOK /\ PcOK'
      /\ Call1("test") = Head(s) /\ t = Head(s).to /\ curr_priv \in Priv
      /\ hart \in HartType /\ real_priv \in Priv
  BY <1>1, TargetType DEF Typed, TypeOK, Call1, Target
<1>3. /\ Chain(s) /\ Goal = {Final(s)} /\ Final(s) \in Priv
      /\ after # "body" => Final(s) = M
  BY <1>1, <1>2, GoalFacts, ChainTail DEF Sound, TestCalls, Returns
<1>4. /\ UNCHANGED <<medeleg, ecall_args, scause, after>>
  BY DEF CallStep, GotoUser, GotoThere, GotoStairs, LowerEqual, LowerRefused,
         LowerStart, SetPrevPriv, SetRealPriv, SetEpc, XretDown, SetCurrPriv, csrs
\* The calls go on.
<1>5. ASSUME pc'["hs"] = "off", pc'["test"] = "goto", n # <<>>, Chain(n),
             Final(n) = Final(s), Legal(curr_priv, Head(todo["test"]))', "ecs" \notin medeleg
      PROVE  Sound' /\ Shows
  <2>1. HsServes' /\ From' = curr_priv'
    BY <1>5, OffNext
  <2>2. TestCalls'
    BY <1>5, <2>1 DEF TestCalls, Call1, Lower
  <2>3. Returns'
    BY <1>3, <1>4, <1>5 DEF Returns
  <2>4. Goal' = {Final(n)}
    BY <1>2, <1>5, <2>2, GoalNext
  <2> QED BY <1>3, <1>4, <1>5, <2>1, <2>2, <2>3, <2>4 DEF Sound, Shows, StaysInM
\* A step inside lower_priv.
<1>6. ASSUME NEW l \in Lower, pc' = [pc EXCEPT !["test"] = l], todo' = todo,
             l = "l4" => EpcIsLabel', "ecs" \notin medeleg
      PROVE  Sound' /\ Shows
  <2>1. pc'["hs"] = "off" /\ pc'["test"] = l /\ l \notin {"goto", "body", "jr", "direct"}
    BY <1>1, <1>2, <1>6 DEF Lower
  <2>2. HsServes'
    BY <2>1, OffNext
  <2>3. TestCalls'
    BY <1>3, <1>6, <2>1 DEF TestCalls
  <2>4. Returns'
    BY <1>2, <1>3, <1>4, <1>6, <2>1 DEF Returns
  <2>5. Goal' = {Final(n)}
    BY <1>2, <1>6, <2>1, <2>3, GoalNext
  <2> QED BY <1>3, <1>4, <1>6, <2>2, <2>3, <2>4, <2>5 DEF Sound, Shows, StaysInM
\* A call ends.
<1>7. ASSUME Finish("test"), curr_priv' = t, hart'.mode = Hw(t)
      PROVE  Sound' /\ Shows
  BY <1>1, <1>4, <1>7, CallEnds
<1>8. pc["test"] = "goto" => Settled /\ Legal(curr_priv, Head(s))
  BY <1>1, <1>2, OffFacts DEF Levels, TestInv, Lower, Sound, TestCalls
<1>9. pc["test"] \in Lower => LowerInv("test")
  BY <1>1 DEF Levels, TestInv
<1>10. ASSUME NEW a \in Call, NEW b \in Call, Follows(a, b), b.to = t, ~a.rest, a.to # VS,
              pc["test"] = "goto", User(curr_priv),
              n = <<a, b>> \o Tail(s), UNCHANGED <<pc, curr_priv>>
       PROVE  Sound' /\ Shows
  <2>2. n # <<>> /\ Chain(n) /\ Final(n) = Final(s) /\ Head(n) = a
    BY <1>2, <1>3, <1>10, ChainPush
  <2>3. Legal(curr_priv, Head(todo["test"]))'
    BY <1>4, <1>8, <1>10, <2>2 DEF Legal, User
  <2>4. "ecs" \notin medeleg
    BY <1>10 DEF Sound, StaysInM, User
  <2> QED BY <1>1, <1>5, <1>10, <2>2, <2>3, <2>4
<1>11. M \in Priv /\ HS \in Priv
  BY DEF Priv
<1>12. CASE GotoUser("test")
  <2>1. /\ Goto(M) \in Call /\ Rest(t) \in Call /\ Goto(M).to = M /\ ~Goto(M).rest
        /\ Rest(t).to = t
    BY <1>2, <1>11, CallTypes DEF Goto, Rest
  <2>2. /\ n = <<Goto(M), Rest(t)>> \o Tail(s) /\ UNCHANGED <<pc, curr_priv>>
        /\ pc["test"] = "goto" /\ User(curr_priv)
    BY <1>2, <1>12 DEF GotoUser, ViaM, At
  <2>3. Follows(Goto(M), Rest(t))
    BY <2>1 DEF Follows
  <2> QED BY <1>10, <2>1, <2>2, <2>3
<1>13. CASE GotoStairs("test")
  <2>1. /\ Goto(M) \in Call /\ Goto(HS) \in Call /\ Goto(M).to = M /\ ~Goto(HS).rest
        /\ Goto(HS).to = HS
    BY <1>11, CallTypes DEF Goto
  <2>2. /\ n = <<Goto(HS), Goto(M)>> \o Tail(s) /\ UNCHANGED <<pc, curr_priv>>
        /\ pc["test"] = "goto" /\ User(curr_priv) /\ t = M
    BY <1>2, <1>13 DEF GotoStairs, Rises, At, User
  <2>3. Follows(Goto(HS), Goto(M))
    BY <2>1 DEF Follows
  <2> QED BY <1>10, <2>1, <2>2, <2>3
<1>14. CASE GotoThere("test")
  BY <1>7, <1>8, <1>14 DEF GotoThere, At, Settled
<1>15. CASE LowerEqual("test")
  BY <1>8, <1>15 DEF LowerEqual, Falls, At, Settled
<1>16. CASE LowerRefused("test")
  BY <1>16 DEF LowerRefused, Stop
<1>20. pc["test"] \in Lower => "ecs" \notin medeleg
  BY DEF Sound, StaysInM, Lower
<1>21. CASE LowerStart("test")
  <2>1. "ecs" \notin medeleg
    <3>1. t < curr_priv /\ Len(s) \in Nat \ {0} /\ Head(s) = s[1]
      BY <1>2, <1>21 DEF LowerStart
    <3> QED BY <1>2, <3>1 DEF Sound, StaysInM
  <2> QED BY <1>6, <1>21, <2>1 DEF LowerStart, Lower
<1>17. CASE SetPrevPriv("test") \/ SetRealPriv("test") \/ XretDown("test")
  BY <1>6, <1>17, <1>20 DEF SetPrevPriv, SetRealPriv, XretDown, At, Lower
<1>18. CASE SetEpc("test")
  <2>1. EpcIsLabel'
    BY <1>18 DEF SetEpc, EpcIsLabel, Typed, TypeOK
  <2> QED BY <1>6, <1>18, <1>20, <2>1 DEF SetEpc, At, Lower
<1>19. CASE SetCurrPriv("test")
  BY <1>7, <1>9, <1>19 DEF SetCurrPriv, At, Lower, LowerInv
<1> QED BY <1>12, <1>13, <1>14, <1>15, <1>16, <1>17, <1>18, <1>19, <1>21 DEF CallStep

\* A step of hshandler that leaves the test's call and the ecall alone.
LEMMA HsSideSound ==
    ASSUME Typed, Levels, Sound, Typed', Serving,
           UNCHANGED <<medeleg, ecall_args, scause, after>>,
           pc'["hs"] # "off", pc'["test"] = pc["test"], todo'["test"] = todo["test"],
           HsServes'
    PROVE  Sound' /\ Shows
<1>1. pc["test"] \in {"body", "goto"} /\ PcOK /\ PcOK'
  BY DEF Levels, HsInv, Serving, Typed
<1>2. Serving' /\ From' = ecall_args.to /\ From = ecall_args.to
  BY DEF Serving, From, IsGoto
<1>3. TestCalls'
  BY <1>1, <1>2 DEF Sound, TestCalls, Lower, Legal, Call1
<1>4. Returns'
  BY <1>2 DEF Sound, Returns
<1>5. Goal' = Goal /\ Goal # {}
  BY <1>1, <1>2, <1>3, GoalFacts, GoalNext DEF Sound
<1>6. StaysInM'
  BY DEF Sound, StaysInM, Serving
<1> QED BY <1>3, <1>4, <1>5, <1>6 DEF Sound, Shows

\* What hshandler is at when it calls goto_priv.
LEMMA HsGotoFacts ==
    ASSUME Typed, Sound, pc["hs"] = "goto"
    PROVE  /\ InHs /\ Serving /\ Call1("hs") = Head(todo["hs"])
           /\ \/ /\ todo["hs"] = <<Goto(HS)>> /\ Target("hs") = HS /\ ecall_args.to = HS
                 /\ Tail(todo["hs"]) = <<>>
              \/ /\ todo["hs"] = <<Goto(M)>> /\ Target("hs") = M /\ ecall_args.to = M
                 /\ Tail(todo["hs"]) = <<>>
              \/ /\ todo["hs"] = <<Goto(HS), Goto(M)>> /\ Target("hs") = HS /\ ecall_args.to = M
                 /\ Tail(todo["hs"]) = <<Goto(M)>>
<1>1. Goto(HS) \in Call /\ Goto(M) \in Call /\ Goto(HS).to = HS /\ Goto(M).to = M
  BY CallTypes DEF Priv, Goto
<1>2. Follows(Goto(HS), Goto(M))
  BY <1>1 DEF Follows
<1>3. /\ Final(<<Goto(HS)>>) = HS /\ Head(<<Goto(HS)>>) = Goto(HS) /\ Tail(<<Goto(HS)>>) = <<>>
      /\ Final(<<Goto(M)>>) = M /\ Head(<<Goto(M)>>) = Goto(M) /\ Tail(<<Goto(M)>>) = <<>>
  BY <1>1, ChainOne
<1>4. /\ Final(<<Goto(HS), Goto(M)>>) = M /\ Head(<<Goto(HS), Goto(M)>>) = Goto(HS)
      /\ Tail(<<Goto(HS), Goto(M)>>) = <<Goto(M)>>
  BY <1>1, <1>2, ChainTwo
<1>5. /\ todo["hs"] \in {<<Goto(HS)>>, <<Goto(M)>>, <<Goto(HS), Goto(M)>>}
      /\ Final(todo["hs"]) = ecall_args.to /\ InHs /\ Serving
  BY DEF Sound, HsServes
<1> QED BY <1>1, <1>3, <1>4, <1>5 DEF Call1, Target

LEMMA HsCallSound ==
    ASSUME Typed, Levels, Sound, Typed', status = "run", status' = "run", CallStep("hs")
    PROVE  Sound' /\ Shows
<1>1. Runs("hs") /\ pc["hs"] = "goto"
  BY DEF CallStep, GotoUser, GotoThere, GotoStairs, Rises, Falls, LowerEqual, LowerRefused,
         LowerStart, SetPrevPriv, SetRealPriv, SetEpc, XretDown, SetCurrPriv, At, Lower,
         Sound, HsServes
<1>2. /\ pc \in [Threads -> PCs] /\ todo \in [Threads -> Seq(Call)] /\ Typed
      /\ curr_priv \in Priv /\ hart \in HartType
  BY DEF Typed, TypeOK
<1>3. /\ InHs /\ Serving /\ ecall_args.id = 1
      /\ Target("hs") \in {HS, M}
  BY <1>1, HsGotoFacts DEF Serving, IsGoto
<1>4. UNCHANGED <<medeleg, ecall_args, scause, after>>
  BY DEF CallStep, GotoUser, GotoThere, GotoStairs, LowerEqual, LowerRefused,
         LowerStart, SetPrevPriv, SetRealPriv, SetEpc, XretDown, SetCurrPriv, csrs
<1>5. CASE GotoThere("hs")
  <2>1. /\ Target("hs") = HS /\ curr_priv' = HS
        /\ real_priv' = HS /\ hart' = hart /\ InHs'
    BY <1>3, <1>5 DEF GotoThere, At, InHs
  <2>2. /\ todo'["hs"] = Tail(todo["hs"]) /\ todo'["test"] = todo["test"]
        /\ pc'["test"] = pc["test"]
        /\ pc'["hs"] = IF Tail(todo["hs"]) = <<>> THEN "record" ELSE "goto"
    BY <1>2, <1>5 DEF GotoThere, Finish, Next1, Drop, Home
  <2>3. HsServes'
    <3>0. Final(<<Goto(M)>>) = M /\ <<Goto(M)>> # <<>>
      <4>1. Goto(M) \in Call /\ Goto(M).to = M
        BY CallTypes DEF Goto, Priv
      <4> QED BY <4>1, ChainOne
    <3>1. CASE Tail(todo["hs"]) = <<>>
      <4>1. ecall_args.to = HS /\ pc'["hs"] = "record"
        BY <1>1, <2>1, <2>2, <3>1, <3>0, HsGotoFacts
      <4> QED BY <1>3, <1>4, <2>1, <4>1 DEF HsServes, Lower
    <3>2. CASE Tail(todo["hs"]) # <<>>
      <4>1. /\ ecall_args.to = M /\ pc'["hs"] = "goto" /\ todo'["hs"] = <<Goto(M)>>
        BY <1>1, <2>1, <2>2, <3>2, HsGotoFacts
      <4>3. Serving'
        BY <1>3, <1>4, <4>1 DEF Serving
      <4> QED BY <1>3, <1>4, <2>1, <4>1, <3>0, <4>3 DEF HsServes, Lower
    <3> QED BY <3>1, <3>2
  <2> QED BY <1>3, <1>4, <2>2, <2>3, HsSideSound
<1>6. CASE GotoStairs("hs")
  <2>1. Target("hs") = M /\ UNCHANGED <<pc, hart, real_priv, curr_priv>>
    BY <1>6 DEF GotoStairs
  <2>2. todo["hs"] = <<Goto(M)>> /\ Tail(todo["hs"]) = <<>> /\ ecall_args.to = M
    BY <1>1, <2>1, HsGotoFacts
  <2>3. /\ todo'["hs"] = <<Goto(HS), Goto(M)>> \o <<>> /\ todo'["test"] = todo["test"]
    BY <1>2, <1>6, <2>2 DEF GotoStairs
  <2>4. Goto(HS) \in Call /\ Goto(M) \in Call /\ Goto(HS).to = HS /\ Goto(M).to = M
    BY CallTypes DEF Priv, Goto
  <2>5. Follows(Goto(HS), Goto(M)) /\ <<Goto(HS), Goto(M)>> \o <<>> = <<Goto(HS), Goto(M)>>
    BY <2>4 DEF Follows
  <2>6. Final(<<Goto(HS), Goto(M)>>) = M
    BY <2>4, <2>5, ChainTwo
  <2>7. Serving' /\ InHs'
    BY <1>1, <1>3, <1>4, <2>1 DEF Serving, InHs
  <2>8. HsServes'
    BY <1>1, <1>3, <1>4, <2>1, <2>2, <2>3, <2>5, <2>6, <2>7 DEF HsServes, Lower
  <2> QED BY <1>1, <1>3, <1>4, <2>1, <2>3, <2>8, HsSideSound
\* The other steps are for targets it has not.
<1>7. ~GotoUser("hs")
  BY <1>3 DEF GotoUser, ViaM, User
<1>8. ~Falls("hs")
  BY <1>2, <1>3 DEF Falls, InHs, Priv
<1> QED BY <1>1, <1>5, <1>6, <1>7, <1>8
    DEF CallStep, LowerEqual, LowerRefused, LowerStart, SetPrevPriv, SetRealPriv, SetEpc,
        XretDown, SetCurrPriv, At

\* The ecall of hshandler: from S, delegated to nobody, to M.
LEMMA HsEcallSound ==
    ASSUME Typed, Levels, Sound, Typed', status = "run", GotoEcall("hs")
    PROVE  status' = "run" /\ Sound' /\ Shows
<1>1. /\ Runs("hs") /\ pc["hs"] = "goto" /\ Target("hs") > curr_priv /\ real_priv # Target("hs")
      /\ ecall_args' = [id |-> 1, to |-> Target("hs")] /\ todo' = Drop("hs")
      /\ Trap(EcallCause, ecall_args', Next1("hs", Tail(todo["hs"])))
      /\ UNCHANGED <<medeleg, after>>
  BY DEF GotoEcall, Rises, At, csrs
<1>2. /\ pc \in [Threads -> PCs] /\ todo \in [Threads -> Seq(Call)] /\ Typed
      /\ curr_priv \in Priv /\ hart \in HartType /\ ecall_args \in [id : {0, 1}, to : Priv]
      /\ mideleg \subseteq SIrqs
  BY DEF Typed, TypeOK
<1>3. InHs /\ Serving /\ Target("hs") = M /\ ecall_args.to = M /\ Tail(todo["hs"]) = <<>>
  BY <1>1, HsGotoFacts DEF InHs
<1>4. ecall_args.id = 1
  BY <1>3 DEF Serving, IsGoto
<1>5. ecall_args' = ecall_args
  BY <1>1, <1>2, <1>3, <1>4
<1>6. EcallCause = "ecs" /\ EcallCause \in Ecalls
  BY <1>3 DEF EcallCause, InHs, Ecalls
<1>7. ~Delegated(EcallCause)
  BY <1>1, <1>2, <1>6, IrqAssumption DEF Delegated, Sound, StaysInM, Ecalls
<1>8. MHandler(EcallCause, ecall_args) /\ pc' = Next1("hs", <<>>) /\ scause' = scause
  BY <1>1, <1>3, <1>5, <1>7 DEF Trap
<1>9. MHandlerDone(M)
  BY <1>3, <1>4, <1>6, <1>8 DEF MHandler, IsGoto, MGoto, MGotoArrives, MGotoStays, MGotoReenters
<1>10. InMachine' /\ curr_priv' = M /\ status' = status
  <2>1. M \in Priv
    BY DEF Priv
  <2> QED BY <1>2, <1>9, <2>1, ReturnTypes DEF MHandlerDone, InMachine, Hw
<1>11. pc'["hs"] = "record" /\ pc'["test"] = pc["test"] /\ todo'["test"] = todo["test"]
  BY <1>1, <1>2, <1>8 DEF Next1, Home, Drop
<1>12. HsServes'
  BY <1>3, <1>4, <1>5, <1>10, <1>11 DEF HsServes, Lower
<1> QED BY <1>1, <1>3, <1>5, <1>8, <1>10, <1>11, <1>12, HsSideSound

\* The ways a run may go that SwitchesSound excludes.
Broken == {"overflow", "nested", "demoted"}

LEMMA NeverDemoted ==
    ASSUME Typed, Levels, Sound, status = "run"
    PROVE  ~Demoted
<1> SUFFICES ASSUME Demoted PROVE FALSE
  OBVIOUS
<1>0. curr_priv \in Priv /\ hart \in HartType /\ PcOK
  BY DEF Typed, TypeOK
<1>1. CASE Active = "hs" /\ hart.mode = "U"
  <2>1. pc["hs"] \in {"entry", "goto", "record", "ret"}
    BY <1>0, <1>1 DEF Active, PcOK, Sound, HsServes
  <2> QED BY <1>1, <2>1 DEF Sound, HsServes, InHs, InMachine, Levels, HsInv
<1>2. ASSUME NEW c \in Threads, NEW l \in {"l1", "l3", "l4"}, At(c, l),
             ~MayLower \/ (l = "l4" /\ ~EpcIsLabel)
      PROVE  FALSE
  <2>1. c = "test" /\ pc["hs"] = "off" /\ pc["test"] = l
    BY <1>2 DEF At, Runs, Active, Sound, HsServes, Lower
  <2>2. ~User(curr_priv) /\ hart.mode = Hw(curr_priv)
    BY <1>2, <2>1 DEF Levels, TestInv, LowerInv, Lower
  <2>3. MayLower
    BY <1>0, <2>2 DEF MayLower, Hw, User, Super, Priv
  <2> QED BY <1>2, <2>1, <2>3 DEF Sound, TestCalls
<1>3. CASE pc["hs"] = "off" /\ pc["test"] = "body" /\ after # "body" /\ hart.mode # "M"
  <2>1. curr_priv = M
    BY <1>3, OffFacts DEF Sound, Returns, TestCalls
  <2>2. hart.mode = Hw(curr_priv)
    BY <1>3 DEF Levels, TestInv, Settled, Lower
  <2> QED BY <1>3, <2>1, <2>2 DEF Hw
<1> QED BY <1>1, <1>2, <1>3 DEF Demoted

LEMMA HsStepSound ==
    ASSUME Typed, Levels, Sound, Typed', status = "run", status' = "run" => Levels', HsStep
    PROVE  status' \notin Broken /\ (status' = "run" => Sound' /\ Shows)
<1>0. /\ pc \in [Threads -> PCs] /\ todo \in [Threads -> Seq(Call)] /\ Typed
      /\ curr_priv \in Priv /\ hart \in HartType /\ PcOK /\ PcOK'
  BY DEF Typed, TypeOK
<1>1. ASSUME pc["hs"] # "off", UNCHANGED <<medeleg, ecall_args, scause, after>>, ~Serving,
             pc'["hs"] # "off", pc'["test"] = pc["test"], todo'["test"] = todo["test"],
             curr_priv' = curr_priv, HsServes'
      PROVE  Sound' /\ Shows
  <2>1. pc["test"] = "body"
    BY <1>1 DEF Levels, HsInv, Sound, TestCalls
  <2>2. ~Serving' /\ From' = From
    BY <1>1 DEF Serving, IsGoto, From
  <2>3. TestCalls' /\ Returns'
    BY <1>1, <2>1, <2>2 DEF Sound, TestCalls, Returns, Lower
  <2>4. Goal' = Goal
    BY <1>0, <1>1, <2>1, <2>2, <2>3, GoalFacts, GoalNext DEF Sound
  <2>5. Where' = Where
    BY <1>1 DEF Where
  <2>6. StaysInM'
    BY <1>1 DEF Sound, StaysInM
  <2> QED BY <1>1, <2>3, <2>4, <2>5, <2>6 DEF Sound, Shows
<1>2. CASE HsStart
  <2>1. /\ pc["hs"] = "entry" /\ UNCHANGED <<hart, medeleg, ecall_args, scause, after, curr_priv>>
        /\ real_priv' = HS /\ pc'["test"] = pc["test"]
    BY <1>0, <1>2 DEF HsStart, At, csrs
  <2>2. InHs'
    BY <2>1 DEF InHs, Levels, HsInv
  <2>3. CASE IsGoto(scause, ecall_args)
    <3>1. /\ pc'["hs"] = "goto" /\ todo'["hs"] = <<Goto(ecall_args.to)>>
          /\ todo'["test"] = todo["test"] /\ status' = status
      BY <1>0, <1>2, <2>3 DEF HsStart
    <3>2. Serving /\ Serving' /\ ecall_args.to \in {HS, M}
      BY <2>1, <2>3, <3>1 DEF Serving, IsGoto, Sound, HsServes
    <3>3. Goto(ecall_args.to) \in Call /\ Goto(ecall_args.to).to = ecall_args.to
      <4>1. ecall_args.to \in Priv
        BY <3>2 DEF Priv
      <4> QED BY <4>1, CallTypes DEF Goto
    <3>4. Final(<<Goto(ecall_args.to)>>) = ecall_args.to
      BY <3>3, ChainOne
    <3>5. HsServes'
      BY <2>1, <2>2, <2>3, <3>1, <3>2, <3>4 DEF HsServes, Lower, IsGoto
    <3>6. Sound' /\ Shows
      BY <2>1, <3>1, <3>2, <3>5, HsSideSound
    <3> QED BY <3>1, <3>6 DEF Broken
  <2>4. CASE ~IsGoto(scause, ecall_args)
    <3>1. status' \in {"exit", "run"} /\ UNCHANGED todo
          /\ (status' = "run" => pc'["hs"] = "record" /\ scause \notin Ecalls)
      BY <1>0, <1>2, <2>4 DEF HsStart
    <3>2. ~Serving
      BY <2>4 DEF Serving
    <3>3. ASSUME status' = "run" PROVE HsServes'
      BY <2>1, <2>2, <3>1, <3>3 DEF HsServes, Lower, Serving, IsGoto
    <3> QED BY <1>1, <2>1, <3>1, <3>2, <3>3 DEF Broken
  <2> QED BY <2>3, <2>4
<1>3. CASE HsRecord
  <2>1. /\ pc["hs"] = "record" /\ status' \in {"exit", "run"}
        /\ UNCHANGED <<hart, real_priv, curr_priv, medeleg, ecall_args, scause, after, todo>>
        /\ pc'["test"] = pc["test"]
        /\ status' = "run" => pc'["hs"] = "ret"
    BY <1>0, <1>3 DEF HsRecord, At, csrs
  <2>2. ASSUME status' = "run" PROVE HsServes'
    BY <2>1, <2>2 DEF HsServes, Lower, Serving, IsGoto, InHs, InMachine, Sound
  <2>3. CASE Serving
    BY <2>1, <2>2, <2>3, HsSideSound DEF Broken
  <2>4. CASE ~Serving
    BY <1>1, <2>1, <2>2, <2>4 DEF Broken
  <2> QED BY <2>3, <2>4
<1>4. CASE HsReturn
  <2>1. /\ pc["hs"] = "ret" /\ (InHs \/ InMachine)
        /\ Serving => curr_priv = ecall_args.to
    BY <1>4 DEF HsReturn, At, Sound, HsServes
  <2>2. /\ status' = "run" /\ pc'["hs"] = "off" /\ pc'["test"] = pc["test"]
        /\ UNCHANGED <<curr_priv, medeleg, ecall_args, after, todo>>
    BY <1>0, <1>4, <2>1 DEF HsReturn, InHs, InMachine, csrs
  <2>3. From' = From /\ From = curr_priv /\ ~Serving' /\ HsServes'
    BY <2>1, <2>2, OffNext DEF From
  <2>4. pc["test"] \in {"body", "goto"}
    BY <2>1 DEF Levels, HsInv
  <2>5. TestCalls' /\ Returns'
    BY <2>2, <2>3, <2>4 DEF Sound, TestCalls, Returns, Legal, Call1, Lower
  <2>6. hart'.mode = Hw(curr_priv) /\ Where'.mode = hart'.mode /\ Where.mode = Hw(curr_priv)
    BY <2>1, <2>2, <2>4 DEF Levels, TestInv, Settled, Lower, Where
  <2>7. Shows
    <3>1. CASE pc["test"] = "goto"
      BY <1>0, <2>2, <2>5, <3>1, GoalFacts, GoalNext DEF Sound, Shows
    <3>2. CASE pc["test"] = "body" /\ Serving
      BY <1>0, <2>1, <2>2, <2>3, <2>5, <2>6, <3>2, GoalFacts, GoalNext DEF Sound, Shows
    <3>3. CASE pc["test"] = "body" /\ ~Serving
      <4>1. Goal = {} /\ Goal' = {}
        BY <1>0, <2>2, <2>3, <2>5, <3>3, GoalFacts, GoalNext DEF Sound
      <4>2. Where' = Where
        BY <2>1, <2>2, <2>6 DEF Where
      <4> QED BY <4>1, <4>2 DEF Shows
    <3> QED BY <2>4, <3>1, <3>2, <3>3
  <2>8. StaysInM'
    BY <2>1, <2>2 DEF Sound, StaysInM
  <2> QED BY <2>2, <2>3, <2>5, <2>7, <2>8 DEF Sound, Broken
<1> QED BY <1>2, <1>3, <1>4, NeverDemoted DEF HsStep

\* A trap of the test that is no ecall: what the test sees does not change.
LEMMA TestTrapSound ==
    ASSUME Typed, Levels, Sound, Typed', status = "run", status' = "run" => Levels',
           pc["hs"] = "off", pc["test"] \in {"body", "jr"},
           NEW cause \in Causes \ Ecalls, NEW args, NEW pc1 \in [Threads -> PCs],
           pc1["hs"] = "off", pc1["test"] = "body", Trap(cause, args, pc1),
           UNCHANGED <<medeleg, ecall_args, todo, after>>
    PROVE  status' \notin Broken /\ (status' = "run" => Sound' /\ Shows)
<1>0. PcOK /\ PcOK' /\ todo["test"] = <<>>
  BY DEF Typed, Sound, TestCalls
<1>1. ~Serving /\ From = curr_priv /\ Goal = {} /\ hart.mode = Hw(curr_priv) /\ Where.mode = hart.mode
  BY <1>0, OffFacts, GoalFacts DEF Sound, Levels, TestInv, Settled, Lower, Where
<1>2. CASE Delegated(cause)
  <2>1. EnterHs(cause, pc1)
    BY <1>2 DEF Trap
  <2>2. /\ pc'["hs"] = "entry" /\ pc'["test"] = "body" /\ scause' = cause
        /\ UNCHANGED <<curr_priv, status>>
    BY <2>1 DEF EnterHs
  <2>3. HsServes' /\ ~Serving' /\ From' = curr_priv
    BY <2>2 DEF HsServes, Serving, From, IsGoto, Lower
  <2>4. TestCalls' /\ Returns'
    BY <1>0, <1>1, <2>2, <2>3 DEF Sound, TestCalls, Returns, Lower
  <2>5. Goal' = {}
    BY <1>0, <2>2, <2>3, <2>4, GoalNext
  <2>6. Where' = Where
    BY <1>1, <2>2 DEF Where
  <2>7. StaysInM'
    BY <1>1, <1>2 DEF Sound, StaysInM, Delegated, Hw
  <2> QED BY <1>1, <2>2, <2>3, <2>4, <2>5, <2>6, <2>7 DEF Sound, Shows, Broken
<1>3. CASE ~Delegated(cause)
  <2>1. MHandler(cause, args) /\ pc' = pc1 /\ ~IsGoto(cause, args)
    BY <1>3 DEF Trap, IsGoto
  <2>2. status' = "exit" \/ (status' = status /\ curr_priv' = curr_priv)
    BY <2>1 DEF MHandler, MHandlerDone, Stop
  <2>3. ASSUME status' = "run" PROVE Sound' /\ Shows
    <3>1. HsServes' /\ ~Serving' /\ From' = curr_priv
      BY <2>1, <2>2, <2>3, OffNext
    <3>2. TestCalls' /\ Returns'
      BY <1>0, <1>1, <2>1, <3>1 DEF Sound, TestCalls, Returns, Lower
    <3>3. Goal' = {}
      BY <1>0, <2>1, <3>1, <3>2, GoalNext
    <3>4. hart'.mode = Hw(curr_priv')
      BY <2>1, <2>3 DEF Levels, TestInv, Settled, Lower
    <3>5. Where' = Where
      BY <1>1, <2>1, <2>2, <2>3, <3>4 DEF Where
    <3>6. StaysInM'
      BY <2>1, <2>2, <2>3 DEF Sound, StaysInM
    <3> QED BY <1>1, <3>1, <3>2, <3>3, <3>5, <3>6 DEF Sound, Shows
  <2> QED BY <2>2, <2>3 DEF Broken
<1> QED BY <1>2, <1>3

\* The ecall of the test, from user mode to hshandler or from S to mhandler.
LEMMA TestEcallSound ==
    ASSUME Typed, Levels, Sound, Typed', status = "run", GotoEcall("test")
    PROVE  status' = "run" /\ Sound' /\ Shows
<1> DEFINE s == todo["test"]
           t == Target("test")
<1>1. /\ Runs("test") /\ pc["test"] = "goto" /\ t > curr_priv /\ ~ViaM("test")
      /\ ecall_args' = [id |-> 1, to |-> t] /\ todo' = Drop("test")
      /\ Trap(EcallCause, ecall_args', Next1("test", Tail(s)))
      /\ UNCHANGED <<medeleg, after>>
  BY DEF GotoEcall, Rises, At, csrs
<1>2. /\ pc \in [Threads -> PCs] /\ todo \in [Threads -> Seq(Call)] /\ s # <<>>
      /\ s \in Seq(Call) /\ t \in Priv /\ t = Head(s).to /\ Call1("test") = Head(s)
      /\ PcOK /\ PcOK' /\ curr_priv \in Priv /\ hart \in HartType /\ mideleg \subseteq SIrqs
  BY <1>1, TargetType DEF Typed, TypeOK, Call1, Target
<1>3. /\ pc["hs"] = "off" /\ Settled /\ Legal(curr_priv, Head(s)) /\ Chain(s)
      /\ Goal = {Final(s)} /\ (after # "body" => Final(s) = M)
  BY <1>1, <1>2, OffFacts, GoalFacts
     DEF Runs, Active, Sound, TestCalls, Returns, Levels, TestInv, Lower
<1>4. EcallCause \in Ecalls /\ IsGoto(EcallCause, ecall_args')
  BY <1>1, EcallFacts DEF IsGoto
<1>0. "ecs" \notin medeleg
  BY <1>1, <1>2 DEF Sound, StaysInM, Priv
<1>5. CASE User(curr_priv)
  <2>1. /\ EcallCause = "ecu" /\ Delegated(EcallCause) /\ t \in {HS, M}
    BY <1>1, <1>2, <1>3, <1>5 DEF Settled, Hw, User, Super, EcallCause, Delegated, Legal, ViaM, Priv
  <2>2. EnterHs(EcallCause, Next1("test", Tail(s)))
    BY <1>1, <2>1 DEF Trap
  <2>3. /\ pc'["hs"] = "entry" /\ pc'["test"] = (IF Tail(s) = <<>> THEN "body" ELSE "goto")
        /\ scause' = EcallCause /\ UNCHANGED <<curr_priv, status>>
        /\ todo'["test"] = Tail(s)
    BY <1>1, <1>2, <1>3, <2>2 DEF EnterHs, Next1, Home, Drop
  <2>4. HsServes' /\ Serving' /\ From' = t
    BY <1>1, <1>4, <2>1, <2>3 DEF HsServes, Serving, From, Lower
  <2>5. CASE Tail(s) = <<>>
    <3>1. Final(s) = t
      BY <1>2, <1>3, <2>5, ChainTail
    <3>2. TestCalls' /\ Returns'
      BY <1>1, <1>3, <2>3, <2>4, <2>5, <3>1 DEF TestCalls, Returns, Lower
    <3>3. Goal' = {t}
      BY <1>1, <1>2, <2>3, <2>4, <2>5, <3>2, GoalNext
    <3> QED BY <1>0, <1>1, <1>3, <2>3, <2>4, <3>1, <3>2, <3>3 DEF Sound, Shows, StaysInM
  <2>6. CASE Tail(s) # <<>>
    <3>1. Chain(Tail(s)) /\ Final(Tail(s)) = Final(s) /\ Follows(Head(s), Head(Tail(s)))
      BY <1>2, <1>3, <2>6, ChainTail
    <3>2. Legal(From, Head(todo["test"]))'
      BY <1>2, <2>1, <2>3, <2>4, <3>1 DEF Legal, Follows, User
    <3>3. TestCalls' /\ Returns'
      BY <1>1, <1>3, <2>3, <2>4, <2>6, <3>1, <3>2 DEF TestCalls, Returns, Call1, Lower
    <3>4. Goal' = {Final(s)}
      BY <1>2, <2>3, <2>6, <3>1, <3>3, GoalNext
    <3> QED BY <1>0, <1>1, <1>3, <2>3, <2>4, <3>3, <3>4 DEF Sound, Shows, StaysInM
  <2> QED BY <2>5, <2>6
<1>6. CASE ~User(curr_priv)
  <2>1. /\ t = M /\ hart.mode = "S"
    BY <1>1, <1>2, <1>3, <1>6 DEF Settled, Hw, User, Super, Legal, Priv
  <2>2. EcallCause = "ecs" /\ ~Delegated(EcallCause)
    BY <1>0, <1>2, <1>4, <2>1, IrqAssumption DEF EcallCause, Delegated
  <2>3. /\ MHandler(EcallCause, ecall_args') /\ pc' = Next1("test", Tail(s))
    BY <1>1, <2>2 DEF Trap
  <2>4. MHandlerDone(M)
    BY <1>1, <1>4, <2>1, <2>3 DEF MHandler, MGoto, MGotoArrives, MGotoStays, MGotoReenters
  <2>5. hart'.mode = Hw(t) /\ curr_priv' = t /\ status' = status
    <3>1. M \in Priv
      BY DEF Priv
    <3>2. hart' = MReturn(hart, M) /\ curr_priv' = M /\ status' = status
      BY <2>4 DEF MHandlerDone
    <3>3. MReturn(hart, M).mode = Hw(M)
      BY <1>2, <3>1, ReturnTypes
    <3> QED BY <2>1, <3>2, <3>3
  <2>6. Finish("test")
    BY <1>1, <2>3 DEF Finish
  <2> QED BY <1>1, <1>3, <2>5, <2>6, CallEnds
<1> QED BY <1>5, <1>6

\* The ecall that climbs from user mode where the framework's own is not
\* delegated.
LEMMA DirectSound ==
    ASSUME Typed, Levels, Sound, Typed', status = "run", GotoDirect
    PROVE  status' = "run" /\ Sound' /\ Shows
<1>1. /\ pc["test"] = "direct" /\ pc["hs"] = "off"
      /\ ecall_args' = [id |-> 1, to |-> M]
      /\ Trap(EcallCause, ecall_args', [pc EXCEPT !["test"] = "body"])
      /\ UNCHANGED <<medeleg, after, todo>>
  BY DEF GotoDirect, At, Runs, Active, csrs
<1>2. /\ pc \in [Threads -> PCs] /\ curr_priv \in Priv /\ hart \in HartType
      /\ mideleg \subseteq SIrqs /\ M \in Priv /\ PcOK /\ PcOK'
  BY DEF Typed, TypeOK, Priv
<1>3. /\ User(curr_priv) /\ Settled /\ "ecu" \notin medeleg /\ todo["test"] = <<>>
      /\ after = "body" /\ Goal = {M}
  BY <1>1, <1>2, GoalFacts DEF Levels, TestInv, Sound, TestCalls, Returns, Lower
<1>4. EcallCause = "ecu" /\ EcallCause \in Ecalls /\ ~Delegated(EcallCause)
  BY <1>2, <1>3, IrqAssumption DEF EcallCause, Settled, Hw, User, Super, Delegated, Ecalls
<1>5. /\ MHandler(EcallCause, ecall_args') /\ pc'["hs"] = "off" /\ pc'["test"] = "body"
  BY <1>1, <1>2, <1>4 DEF Trap
<1>6. MHandlerDone(M)
  BY <1>1, <1>4, <1>5 DEF MHandler, IsGoto, MGoto, MGotoArrives, MGotoStays, MGotoReenters
<1>7. hart' = MReturn(hart, M) /\ curr_priv' = M /\ status' = status
  BY <1>6 DEF MHandlerDone
<1>8. hart'.mode = Hw(M) /\ Where'.mode = Hw(M)
  BY <1>2, <1>5, <1>7, ReturnTypes DEF Where
<1>9. HsServes' /\ ~Serving' /\ From' = curr_priv'
  BY <1>5, OffNext
<1>10. TestCalls' /\ Returns'
  BY <1>1, <1>3, <1>5 DEF TestCalls, Returns, Lower
<1>11. Goal' = {}
  BY <1>2, <1>5, <1>9, <1>10, GoalNext
<1>12. StaysInM'
  BY <1>1, <1>3 DEF Sound, StaysInM, User
<1> QED BY <1>1, <1>3, <1>7, <1>8, <1>9, <1>10, <1>11, <1>12 DEF Sound, Shows

\* TrapStep without the raw ecall.
FrameworkTrap ==
    \/ \E c \in Threads : GotoEcall(c)
    \/ GotoDirect
    \/ \E e \in Excs : Raise(e)
    \/ \E e \in InstFaults : ExecJump(e)
    \/ \E i \in Irqs : TakeIrq(i)

LEMMA TrapStepSound ==
    ASSUME Typed, Levels, Sound, Typed', status = "run", status' = "run" => Levels',
           FrameworkTrap
    PROVE  status' \notin Broken /\ (status' = "run" => Sound' /\ Shows)
<1>0. /\ pc \in [Threads -> PCs] /\ PcOK
      /\ [pc EXCEPT !["test"] = "body"] \in [Threads -> PCs]
      /\ [pc EXCEPT !["test"] = "body"]["test"] = "body"
      /\ [pc EXCEPT !["test"] = "body"]["hs"] = pc["hs"]
  BY DEF Typed, TypeOK, PCs
<1>1. ASSUME NEW c \in Threads, GotoEcall(c)
      PROVE  status' \notin Broken /\ (status' = "run" => Sound' /\ Shows)
  <2>1. CASE c = "test"
    BY <1>1, <2>1, TestEcallSound DEF Broken
  <2>2. CASE c = "hs"
    BY <1>1, <2>2, HsEcallSound DEF Broken
  <2> QED BY <2>1, <2>2
<1>2. CASE GotoDirect
  BY <1>2, DirectSound DEF Broken
<1>3. ASSUME NEW e \in Excs, Raise(e)
      PROVE  status' \notin Broken /\ (status' = "run" => Sound' /\ Shows)
  <2>1. /\ pc["hs"] = "off" /\ pc["test"] = "body" /\ e \in Causes \ Ecalls
        /\ Trap(e, ecall_args, pc) /\ UNCHANGED <<medeleg, ecall_args, todo, after>>
    BY <1>3, CauseTypes, EcallFacts DEF Raise, Op, Quiet, csrs
  <2> QED BY <1>0, <2>1, TestTrapSound
<1>4. ASSUME NEW e \in InstFaults, ExecJump(e)
      PROVE  status' \notin Broken /\ (status' = "run" => Sound' /\ Shows)
  <2>1. /\ pc["hs"] = "off" /\ pc["test"] = "jr" /\ e \in Causes \ Ecalls
        /\ Trap(e, ecall_args, [pc EXCEPT !["test"] = "body"])
        /\ UNCHANGED <<medeleg, ecall_args, todo, after>>
    BY <1>4, CauseTypes, EcallFacts DEF ExecJump, At, Runs, Active, csrs
  <2> QED BY <1>0, <2>1, TestTrapSound
<1>5. ASSUME NEW i \in Irqs, TakeIrq(i)
      PROVE  status' \notin Broken /\ (status' = "run" => Sound' /\ Shows)
  <2>1. /\ (MTakes(i) \/ STakes(i)) /\ Trap(i, ecall_args, pc)
        /\ UNCHANGED <<medeleg, ecall_args, todo, after>>
    BY <1>5 DEF TakeIrq, csrs
  <2>2. TakenAtOnce(i)
    BY <2>1 DEF Levels, IrqInv, MTakes, STakes
  <2>3. pc["hs"] = "off" /\ pc["test"] = "body" /\ i \in Causes \ Ecalls
    BY <2>2, CauseTypes, EcallFacts DEF TakenAtOnce, Quiet
  <2> QED BY <1>0, <2>1, <2>3, TestTrapSound
<1> QED BY <1>1, <1>2, <1>3, <1>4, <1>5 DEF FrameworkTrap

\* What the test and main do without a trap.
LEMMA OwnStepSound ==
    ASSUME ~AnySwitch, Typed, Levels, Sound, Typed', status = "run", status' = "run" => Levels',
           OwnStep
    PROVE  status' \notin Broken /\ (status' = "run" => Sound' /\ Shows)
<1>0. /\ pc \in [Threads -> PCs] /\ todo \in [Threads -> Seq(Call)] /\ PcOK /\ PcOK'
  BY DEF Typed, TypeOK
<1>1. Runs("test") /\ pc["test"] = "body" /\ pc["hs"] = "off"
  BY DEF OwnStep, SetupExcept, ExecStore, CallReset, CallDirect, TestEnd, CallGoto,
         WriteMedeleg, SetupIrq, ResetState, Op, Quiet, Runs, Active
<1>2. /\ todo["test"] = <<>> /\ ~Serving /\ From = curr_priv /\ Goal = {}
      /\ after # "body" => curr_priv = M
      /\ hart.mode = Hw(curr_priv)
  BY <1>0, <1>1, OffFacts, GoalFacts DEF Sound, TestCalls, Returns, Levels, TestInv, Settled, Lower
<1>3. /\ UNCHANGED <<curr_priv, real_priv>> /\ pc'["hs"] = "off"
      /\ pc'["test"] \in {"body", "jr", "direct", "goto"}
      /\ status' \in {"run", "done"}
  BY <1>0, <1>1 DEF OwnStep, SetupExcept, ExecStore, CallReset, CallDirect, TestEnd, CallGoto,
         WriteMedeleg, SetupIrq, ResetState
<1>4. HsServes' /\ ~Serving' /\ From' = curr_priv
  BY <1>3, OffNext
<1>5. ASSUME status' = "run" PROVE Where' = Where
  <2>1. hart'.mode = Hw(curr_priv)
    BY <1>3, <1>5 DEF Levels, TestInv, Settled, Lower
  <2> QED BY <1>1, <1>2, <1>3, <2>1 DEF Where
\* The test goes on where it is.
<1>6. ASSUME todo' = todo, pc'["test"] \in {"body", "jr"}, status' = "run",
             after' = "body" \/ after' = after, pc'["test"] = "jr" => after' = "body",
             medeleg' = medeleg \/ "ecs" \notin medeleg' \/ curr_priv = M
      PROVE  Sound' /\ Shows
  <2>1. TestCalls' /\ Returns'
    BY <1>2, <1>3, <1>4, <1>6 DEF TestCalls, Returns, Lower
  <2>2. Goal' = {}
    BY <1>0, <1>4, <1>6, <2>1, GoalNext
  <2>3. StaysInM'
    BY <1>2, <1>3, <1>6 DEF Sound, StaysInM
  <2> QED BY <1>2, <1>4, <1>5, <1>6, <2>1, <2>2, <2>3 DEF Sound, Shows
\* The test calls the framework.
<1>7. ASSUME NEW s \in Seq(Call), Chain(s), s # <<>>, Legal(curr_priv, Head(s)),
             pc'["test"] = "goto", todo'["test"] = s, status' = "run", medeleg' = medeleg,
             after' # "body" => Final(s) = M,
             "ecs" \in medeleg => \A k \in 1 .. Len(s) : s[k].to = M
      PROVE  Sound' /\ Shows
  <2>1. Legal(From, Call1("test"))'
    BY <1>4, <1>7 DEF Legal, Call1
  <2>2. TestCalls' /\ Returns'
    BY <1>3, <1>7, <2>1 DEF TestCalls, Returns, Lower
  <2>3. Goal' = {Final(s)} /\ Final(s) \in Priv
    BY <1>0, <1>7, <2>2, GoalNext, ChainTail
  <2>4. StaysInM'
    BY <1>3, <1>7 DEF Sound, StaysInM
  <2> QED BY <1>2, <1>4, <1>5, <1>7, <2>2, <2>3, <2>4 DEF Sound, Shows
<1>8. CASE SetupExcept \/ ExecStore
  <2>1. status' = "run" /\ after' = "body" /\ todo' = todo /\ medeleg' = medeleg
        /\ pc'["test"] \in {"body", "jr"}
    BY <1>0, <1>1, <1>8 DEF SetupExcept, ExecStore, Op, Quiet, csrs
  <2> QED BY <1>6, <2>1 DEF Sound, Broken
<1>9. ASSUME NEW d \in DelegChoices, WriteMedeleg(d)
      PROVE  status' \notin Broken /\ (status' = "run" => Sound' /\ Shows)
  <2>1. status' = "run" /\ after' = "body" /\ todo' = todo /\ medeleg' = d
        /\ pc'["test"] = "body" /\ curr_priv = M
    BY <1>1, <1>9 DEF WriteMedeleg, Op, Quiet, InM
  <2> QED BY <1>6, <2>1 DEF Broken
<1>10. ASSUME NEW e \in {{}, Irqs}, NEW d \in {{}, SIrqs}, NEW m \in BOOLEAN,
              NEW x \in BOOLEAN, SetupIrq(e, d, m, x)
       PROVE  status' \notin Broken /\ (status' = "run" => Sound' /\ Shows)
  <2>1. status' = "run" /\ after' = "body" /\ todo' = todo /\ medeleg' = medeleg
        /\ pc'["test"] = "body"
    BY <1>1, <1>10 DEF SetupIrq, Op, Quiet
  <2> QED BY <1>6, <2>1 DEF Sound, Broken
<1>11. CASE ResetState
  <2>1. after' = "body" /\ todo' = todo /\ medeleg' = {"ecu"} /\ pc'["test"] = "body"
    BY <1>1, <1>11 DEF ResetState, ResetCsrs
  <2> QED BY <1>3, <1>6, <2>1 DEF Broken
<1>12. CASE CallDirect
  <2>1. /\ pc'["test"] = "direct" /\ "ecu" \notin medeleg' /\ todo' = todo /\ after' = "body"
        /\ medeleg' = medeleg /\ status' = status
    BY <1>0, <1>12 DEF CallDirect, Quiet, csrs, count
  <2>2. TestCalls' /\ Returns'
    BY <1>2, <1>3, <2>1 DEF TestCalls, Returns, Lower
  <2>3. Goal' = {M} /\ M \in Priv
    BY <1>0, <2>1, <2>2, GoalNext DEF Priv
  <2>4. StaysInM'
    BY <1>12, <2>1 DEF CallDirect, Sound, StaysInM, User
  <2> QED BY <1>2, <1>4, <1>5, <2>1, <2>2, <2>3, <2>4 DEF Sound, Shows, Broken
<1>13. /\ M \in Priv /\ Goto(M) \in Call /\ Goto(M).to = M /\ ~Goto(M).rest
       /\ Follows(Goto(M), Goto(M))
  <2>1. M \in Priv
    BY DEF Priv
  <2> QED BY <2>1, CallTypes DEF Goto, Follows
<1>14. Climbs => Legal(curr_priv, Goto(M))
  BY <1>13 DEF Climbs, Legal
<1>15. CASE CallReset
  <2>1. /\ pc'["test"] = "goto" /\ todo'["test"] = <<Goto(M)>> /\ status' = "run"
        /\ medeleg' = medeleg /\ Legal(curr_priv, Goto(M))
    BY <1>0, <1>14, <1>15 DEF CallReset, csrs
  <2>2. /\ <<Goto(M)>> \in Seq(Call) /\ <<Goto(M)>> # <<>> /\ Chain(<<Goto(M)>>)
        /\ Final(<<Goto(M)>>) = M /\ Head(<<Goto(M)>>) = Goto(M)
        /\ \A k \in 1 .. Len(<<Goto(M)>>) : <<Goto(M)>>[k].to = M
    BY <1>13, ChainOne
  <2> QED BY <1>7, <2>1, <2>2 DEF Broken
<1>16. CASE TestEnd
  <2>1. /\ pc'["test"] = "goto" /\ todo'["test"] = <<Goto(M), Goto(M)>> /\ status' = "run"
        /\ medeleg' = medeleg /\ Legal(curr_priv, Goto(M))
    BY <1>0, <1>14, <1>16 DEF TestEnd, csrs
  <2>2. /\ <<Goto(M), Goto(M)>> \in Seq(Call) /\ <<Goto(M), Goto(M)>> # <<>>
        /\ Chain(<<Goto(M), Goto(M)>>) /\ Final(<<Goto(M), Goto(M)>>) = M
        /\ Head(<<Goto(M), Goto(M)>>) = Goto(M)
    BY <1>13, ChainTwo
  <2>3. \A k \in 1 .. Len(<<Goto(M), Goto(M)>>) : <<Goto(M), Goto(M)>>[k].to = M
    <3>1. \A k \in 1 .. 2 : k = 1 \/ k = 2
      OBVIOUS
    <3>2. /\ Len(<<Goto(M), Goto(M)>>) = 2
          /\ <<Goto(M), Goto(M)>>[1] = Goto(M) /\ <<Goto(M), Goto(M)>>[2] = Goto(M)
      OBVIOUS
    <3> HIDE DEF Goto
    <3> QED BY <1>13, <3>1, <3>2
  <2> QED BY <1>7, <2>1, <2>2, <2>3 DEF Broken
<1>17. ASSUME NEW t \in Targets, CallGoto(t)
       PROVE  status' \notin Broken /\ (status' = "run" => Sound' /\ Shows)
  <2>0. t \in Priv
    BY TargetsAssumption
  <2>1. /\ pc'["test"] = "goto" /\ todo'["test"] = <<Goto(t)>> /\ status' = "run"
        /\ medeleg' = medeleg /\ after' = "body" /\ Supported(t)
    BY <1>0, <1>17 DEF CallGoto, csrs, Op, Quiet
  <2>2. Goto(t) \in Call /\ Goto(t).to = t /\ ~Goto(t).rest
    BY <2>0, CallTypes DEF Goto
  <2>3. Legal(curr_priv, Goto(t)) /\ ("ecs" \in medeleg => t = M)
    BY <2>1, <2>2 DEF Supported, Climbs, Legal
  <2>4. /\ <<Goto(t)>> \in Seq(Call) /\ <<Goto(t)>> # <<>> /\ Chain(<<Goto(t)>>)
        /\ Head(<<Goto(t)>>) = Goto(t)
        /\ \A k \in 1 .. Len(<<Goto(t)>>) : <<Goto(t)>>[k].to = t
    BY <2>2, ChainOne
  <2> QED BY <1>7, <2>1, <2>3, <2>4 DEF Broken
<1> QED BY <1>8, <1>9, <1>10, <1>11, <1>12, <1>15, <1>16, <1>17 DEF OwnStep

LEMMA SoundStep ==
    ASSUME ~AnySwitch, IInv, IInv', Sound, status = "run", [Next]_vars
    PROVE  status' \notin Broken /\ (status' = "run" => Sound' /\ Shows)
<1>0. Typed /\ Levels /\ Typed' /\ (status' = "run" => Levels')
  BY DEF IInv, Typed, Levels
<1>1. ASSUME NEW c \in Threads, CallStep(c)
      PROVE  status' \notin Broken /\ (status' = "run" => Sound' /\ Shows)
  <2>1. status' \in {"run", "exit"}
    BY <1>1 DEF CallStep, GotoUser, GotoThere, GotoStairs, LowerEqual, LowerRefused,
         LowerStart, SetPrevPriv, SetRealPriv, SetEpc, XretDown, SetCurrPriv, Stop
  <2> QED BY <1>0, <1>1, <2>1, TestCallSound, HsCallSound DEF Broken
<1>2. CASE FrameworkTrap
  BY <1>0, <1>2, TrapStepSound
<1>3. CASE HsStep
  BY <1>0, <1>3, HsStepSound
<1>4. CASE OwnStep
  BY <1>0, <1>4, OwnStepSound
<1>5. ASSUME UNCHANGED <<hart, epc, medeleg, curr_priv, real_priv, ecall_args, pc, todo, scause,
                         after, status>>
      PROVE  status' \notin Broken /\ (status' = "run" => Sound' /\ Shows)
  <2>1. Serving' = Serving /\ From' = From
    BY <1>5 DEF Serving, From, IsGoto
  <2>2. HsServes' /\ TestCalls' /\ Returns'
    BY <1>5, <2>1 DEF Sound, HsServes, TestCalls, Returns, InHs, InMachine, Legal, Call1, Chain,
         EpcIsLabel
  <2>4. StaysInM'
    BY <1>5 DEF Sound, StaysInM
  <2>3. Where' = Where /\ Goal' = Goal
    BY <1>5, <2>1 DEF Where, Goal, Final
  <2> QED BY <1>5, <2>2, <2>3, <2>4 DEF Sound, Shows, Broken
<1>6. ASSUME NEW i \in Irqs, PendAtOnce(i)
      PROVE  status' \notin Broken /\ (status' = "run" => Sound' /\ Shows)
  BY <1>5, <1>6 DEF PendAtOnce, Pend, csrs
<1>7. CASE UNCHANGED vars
  BY <1>5, <1>7 DEF vars, csrs
<1>8. CASE Step
  BY <1>1, <1>2, <1>3, <1>4, <1>8
     DEF Step, Framework, TestCase, Leave, CallStep, FrameworkTrap, HsStep, OwnStep
<1> QED BY <1>6, <1>7, <1>8 DEF Next, Halted

LEMMA SoundInit == Init => Sound
<1> SUFFICES ASSUME Init PROVE Sound
  OBVIOUS
<1>1. pc["test"] = "body" /\ pc["hs"] = "off" /\ todo["test"] = <<>>
  BY DEF Init
<1> QED BY <1>1 DEF Init, Sound, StaysInM, HsServes, TestCalls, Returns, Lower, Serving

LEMMA SwitchStep ==
    ASSUME ~AnySwitch, IInv, SwitchInv, SwitchesSound, [Next]_vars
    PROVE  IInv' /\ SwitchInv' /\ SwitchesSound'
<1>1. IInv'
  BY StepInv, NextIsRaw
<1>2. CASE status = "run"
  BY <1>1, <1>2, SoundStep DEF SwitchInv, Sound, SwitchesSound, Broken
<1>3. CASE status # "run"
  <2>1. status' # "run"
    BY <1>3, RunBefore
  <2>2. status' = status
    BY <1>3 DEF vars, Next, Step, Framework, TestCase, Leave, PendAtOnce, Pend,
       GotoUser, GotoThere, GotoStairs, GotoEcall, Rises, Falls, LowerEqual, LowerRefused,
       LowerStart, SetPrevPriv, SetRealPriv, SetEpc, XretDown, SetCurrPriv, Demoted, HsStart,
       HsRecord, HsReturn, GotoDirect, TakeIrq, ExecJump, ResetState, SetupExcept, ExecStore,
       CallReset, CallGoto, Raise, WriteMedeleg, SetupIrq, CallDirect, TestEnd, Op, At, Runs,
       Halted
  <2> QED BY <1>1, <2>1, <2>2 DEF SwitchInv, SwitchesSound
<1> QED BY <1>2, <1>3

\* What PrivSwitch sees has its types.
LEMMA WhereType ==
    ASSUME Typed
    PROVE  Where \in [priv : Priv, mode : {"U", "S", "M"}]
  BY HwType DEF Typed, TypeOK, HartType, Where

LEMMA WhereNext ==
    ASSUME Typed'
    PROVE  Where' \in [priv : Priv, mode : {"U", "S", "M"}]
  BY HwType DEF Typed, TypeOK, HartType, Where

LEMMA GoalType ==
    ASSUME Typed, Typed'
    PROVE  Goal' \in SUBSET Priv
<1>1. ASSUME pc'["test"] \in {"goto"} \cup Lower PROVE Final(todo'["test"]) \in Priv
  <2>1. todo'["test"] \in Seq(Call) /\ todo'["test"] # <<>>
    BY <1>1 DEF Typed, TypeOK, PcOK
  <2>2. Len(todo'["test"]) \in 1 .. Len(todo'["test"])
    BY <2>1
  <2>3. todo'["test"][Len(todo'["test"])] \in Call
    BY <2>1, <2>2
  <2> QED BY <2>3 DEF Final, Call
<1>2. ecall_args'.to \in Priv /\ M \in Priv
  BY DEF Typed, TypeOK, Priv
<1> QED BY <1>1, <1>2 DEF Goal, Lower

LEMMA SwitchInit == Init => Switch!Init
<1> SUFFICES ASSUME Init PROVE Switch!Init
  OBVIOUS
<1>1. pc["test"] = "body" /\ pc["hs"] = "off"
  BY DEF Init
<1>2. Goal = {}
  BY <1>1 DEF Goal, Serving, Lower
<1>3. Where = [priv |-> 4, mode |-> "M"]
  BY <1>1 DEF Where, Init, ResetHart
<1> QED BY <1>2, <1>3 DEF Switch!Init, Switch!Place, Init

LEMMA SwitchRefines ==
    ASSUME ~AnySwitch, IInv, IInv', SwitchInv, [Next]_vars
    PROVE  [Switch!Next]_(Switch!vars)
<1>0. /\ Typed /\ Typed' /\ Where \in [priv : Priv, mode : {"U", "S", "M"}]
      /\ Where' \in [priv : Priv, mode : {"U", "S", "M"}] /\ Goal' \in SUBSET Priv
      /\ Priv = Switch!Priv /\ Switch!Mode = {"U", "S", "M"}
  BY WhereType, WhereNext, GoalType DEF IInv, Typed, Priv, Switch!Priv, Switch!Mode
<1>1. CASE status # "run"
  <2>1. UNCHANGED vars
    BY <1>1 DEF vars, Next, Step, Framework, TestCase, Leave, PendAtOnce, Pend,
       GotoUser, GotoThere, GotoStairs, GotoEcall, Rises, Falls, LowerEqual, LowerRefused,
       LowerStart, SetPrevPriv, SetRealPriv, SetEpc, XretDown, SetCurrPriv, Demoted, HsStart,
       HsRecord, HsReturn, GotoDirect, TakeIrq, ExecJump, ResetState, SetupExcept, ExecStore,
       CallReset, CallGoto, Raise, WriteMedeleg, SetupIrq, CallDirect, TestEnd, Op, At, Runs,
       Halted
  <2> QED BY <2>1 DEF vars, Switch!vars, Where, Goal, Final, Serving, IsGoto
<1>2. CASE status = "run" /\ status' # "run"
  BY <1>0, <1>2 DEF Switch!Next, Switch!Die
<1>3. CASE status = "run" /\ status' = "run"
  <2>1. Shows
    BY <1>3, SoundStep DEF SwitchInv, Sound
  <2>2. CASE UNCHANGED <<Where, Goal>>
    BY <1>3, <2>2 DEF Switch!vars
  <2>3. CASE Goal = {} /\ UNCHANGED Where /\ (\E p \in Priv : Goal' = {p})
    BY <1>0, <1>3, <2>3 DEF Switch!Next, Switch!Ask
  <2>4. CASE Goal # {} /\ Goal' = Goal
    BY <1>0, <1>3, <2>4 DEF Switch!Next, Switch!Move
  <2>5. CASE /\ Goal # {} /\ Goal' = {}
             /\ \E p \in Goal : curr_priv' = p /\ Where'.mode = Hw(p)
    <3>1. PICK p \in Goal : curr_priv' = p /\ Where'.mode = Hw(p)
      BY <2>5
    <3>2. Where' = Switch!Place(p)
      BY <3>1 DEF Where, Switch!Place, Hw, Super
    <3> QED BY <1>3, <2>5, <3>1, <3>2 DEF Switch!Next, Switch!Arrive
  <2> QED BY <2>1, <2>2, <2>3, <2>4, <2>5 DEF Shows
<1> QED BY <1>1, <1>2, <1>3

(***************************************************************************)
(* With the switches the registered tests make (Supported), no run ends in *)
(* a handler that calls itself for ever, in a second hshandler above the   *)
(* first, or in privileged code where the mode does not allow it           *)
(* (goto_priv, lower_priv, mhandler and hshandler of rvh_test.c): whatever *)
(* is delegated, for any sets of targets, exceptions and interrupts taken  *)
(* at once.                                                                *)
(***************************************************************************)
THEOREM SwitchesAlwaysSound == ASSUME ~AnySwitch PROVE Spec => []SwitchesSound
<1> SUFFICES ASSUME ~AnySwitch PROVE Spec => []SwitchesSound
  OBVIOUS
<1>1. Init => SwitchInv /\ SwitchesSound
  BY SoundInit DEF SwitchInv, Sound, SwitchesSound, Init
<1>2. IInv /\ SwitchInv /\ SwitchesSound /\ [Next]_vars => IInv' /\ SwitchInv' /\ SwitchesSound'
  BY SwitchStep
<1> QED BY InitInv, <1>1, <1>2, PTL DEF Spec

(***************************************************************************)
(* For the same tests the framework implements PrivSwitch: what a test     *)
(* sees of its privilege changes only by a goto_priv it made, a goto_priv  *)
(* ends at the privilege it names, and traps and interrupts are invisible. *)
(***************************************************************************)
THEOREM ImplementsPrivSwitch == ASSUME ~AnySwitch PROVE Spec => SwitchesOnly
<1> SUFFICES ASSUME ~AnySwitch PROVE Spec => SwitchesOnly
  OBVIOUS
<1>1. Init => SwitchInv /\ SwitchesSound
  BY SoundInit DEF SwitchInv, Sound, SwitchesSound, Init
<1>2. IInv /\ SwitchInv /\ SwitchesSound /\ [Next]_vars => IInv' /\ SwitchInv' /\ SwitchesSound'
  BY SwitchStep
<1>3. Init => Switch!Init
  BY SwitchInit
<1>4. IInv /\ IInv' /\ SwitchInv /\ [Next]_vars => [Switch!Next]_(Switch!vars)
  BY SwitchRefines
<1> QED BY InitInv, <1>1, <1>2, <1>3, <1>4, PTL DEF Spec, SwitchesOnly, Switch!Spec
=============================================================================
