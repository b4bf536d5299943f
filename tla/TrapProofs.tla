---------------------------- MODULE TrapProofs ----------------------------
(***************************************************************************)
(* Proofs about Trap, for all values of its constants.                     *)
(***************************************************************************)
EXTENDS Trap, TLAPS

USE DEF VU, HU, VS, HS, M, Threads

-----------------------------------------------------------------------------
(* Facts about the operators of the model.                                 *)

LEMMA CallTypes ==
    ASSUME NEW t \in Priv
    PROVE  Goto(t) \in Call /\ Rest(t) \in Call
  BY DEF Goto, Rest, Call

\* What is left of a non-empty list of calls, alone or behind two new ones.
LEMMA TodoTypes ==
    ASSUME NEW s \in Seq(Call), s # <<>>
    PROVE  /\ Head(s) \in Call
           /\ Tail(s) \in Seq(Call)
           /\ \A a, b \in Call : /\ <<a, b>> \o Tail(s) \in Seq(Call)
                                 /\ <<a, b>> \o Tail(s) # <<>>
<1>1. Head(s) \in Call /\ Tail(s) \in Seq(Call)
  OBVIOUS
<1>2. ASSUME NEW a \in Call, NEW b \in Call
      PROVE  <<a, b>> \o Tail(s) \in Seq(Call) /\ <<a, b>> \o Tail(s) # <<>>
  <2>1. <<a, b>> \in Seq(Call)
    OBVIOUS
  <2>2. <<a, b>> \o Tail(s) \in Seq(Call)
    BY <1>1, <2>1
  <2>3. Len(<<a, b>> \o Tail(s)) = 2 + Len(Tail(s))
    BY <1>1, <2>1
  <2>4. <<a, b>> \o Tail(s) # <<>>
    BY <1>1, <2>3
  <2> QED BY <2>2, <2>4
<1> QED BY <1>1, <1>2

LEMMA TargetType ==
    ASSUME TypeOK, PcOK, NEW c \in Threads, pc[c] \in {"goto"} \cup Lower
    PROVE  /\ todo[c] \in Seq(Call) /\ todo[c] # <<>>
           /\ Call1(c) \in Call
           /\ Target(c) \in Priv
<1>1. todo[c] \in Seq(Call) /\ todo[c] # <<>>
  BY DEF TypeOK, PcOK
<1>2. Call1(c) \in Call
  BY <1>1, TodoTypes DEF Call1
<1> QED BY <1>1, <1>2 DEF Target, Call

LEMMA HwType == \A p : Hw(p) \in {"U", "S", "M"}
  BY DEF Hw

LEMMA ReturnTypes ==
    ASSUME NEW h \in HartType, NEW p \in Priv
    PROVE  /\ EnterS(h) \in HartType
           /\ EnterS(h).mode = "S" /\ EnterS(h).sie = FALSE
           /\ Mret(h) \in HartType /\ Sret(h) \in HartType
           /\ MReturn(h, p) \in HartType /\ SReturn(h, p) \in HartType
           /\ MReturn(h, p).mode = Hw(p)
           /\ SReturn(h, p).mode = IF Super(p) THEN "S" ELSE "U"
<1>1. EnterS(h) \in HartType /\ EnterS(h).mode = "S" /\ EnterS(h).sie = FALSE
  BY DEF HartType, EnterS
<1>2. Mret(h) \in HartType /\ Sret(h) \in HartType
  BY DEF HartType, Mret, Sret
<1>3. MReturn(h, p) \in HartType /\ MReturn(h, p).mode = Hw(p)
  BY HwType DEF HartType, Mret, MReturn
<1>4. /\ SReturn(h, p) \in HartType
      /\ SReturn(h, p).mode = IF Super(p) THEN "S" ELSE "U"
  BY DEF HartType, Sret, SReturn
<1> QED BY <1>1, <1>2, <1>3, <1>4

\* The variables a trap changes, once its activity's pc is known to be typed.
TrapTyped ==
    /\ hart' \in HartType
    /\ epc' \in [m : {"label", "other"}, s : {"label", "other"}]
    /\ ip' \subseteq Irqs
    /\ curr_priv' \in Priv
    /\ real_priv' \in Priv
    /\ excpt' \in [testing : BOOLEAN, triggered : BOOLEAN, priv : Priv,
                   cause : Causes \cup {"none"}]
    /\ fault_inst' \in BOOLEAN
    /\ status' \in {"run"} \cup Stopped

LEMMA StopTyped ==
    ASSUME TypeOK, NEW why \in Stopped, Stop(why)
    PROVE  TrapTyped
  BY DEF TypeOK, Stop, TrapTyped

LEMMA DoneTyped ==
    ASSUME TypeOK, NEW p \in Priv, MHandlerDone(p)
    PROVE  /\ hart' \in HartType
           /\ epc' \in [m : {"label", "other"}, s : {"label", "other"}]
           /\ curr_priv' \in Priv /\ real_priv' \in Priv
           /\ fault_inst' \in BOOLEAN
           /\ status' \in {"run"} \cup Stopped
  BY ReturnTypes DEF TypeOK, MHandlerDone

LEMMA RecordedType ==
    ASSUME NEW p \in Priv, NEW cause \in Causes \cup {"none"}
    PROVE  Recorded(p, cause) \in [testing : BOOLEAN, triggered : BOOLEAN, priv : Priv,
                                   cause : Causes \cup {"none"}]
  BY DEF Recorded

LEMMA MHandlerTyped ==
    ASSUME TypeOK, NEW cause \in Causes, NEW args \in [id : {0, 1}, to : Priv],
           MHandler(cause, args)
    PROVE  TrapTyped
<1> DEFINE t == args.to
<1>0. "exit" \in Stopped /\ "overflow" \in Stopped /\ "demoted" \in Stopped /\ M \in Priv
  BY DEF Stopped, Priv
<1>1. CASE IsGoto(cause, args) /\ MGoto(t)
  <2>1. CASE MGotoArrives(t) /\ MHandlerDone(M) /\ UNCHANGED <<excpt, ip>>
    BY <1>0, <2>1, DoneTyped DEF TrapTyped, TypeOK
  <2>2. CASE MGotoStays(t) /\ MHandlerDone(curr_priv) /\ UNCHANGED <<excpt, ip>>
    <3>1. curr_priv \in Priv
      BY DEF TypeOK
    <3> QED BY <2>2, <3>1, DoneTyped DEF TrapTyped, TypeOK
  <2>3. CASE Stop("overflow")
    BY <1>0, <2>3, StopTyped
  <2>4. CASE Stop("demoted")
    BY <1>0, <2>4, StopTyped
  <2> QED BY <1>1, <2>1, <2>2, <2>3, <2>4 DEF MGoto
<1>2. CASE Stop("exit")
  BY <1>0, <1>2, StopTyped
<1>3. CASE /\ ip' = ip \ ({cause} \cap MClear)
           /\ excpt' = Recorded(M, cause)
           /\ MHandlerDone(curr_priv)
  <2>1. curr_priv \in Priv /\ ip \subseteq Irqs
    BY DEF TypeOK
  <2> QED BY <1>0, <1>3, <2>1, DoneTyped, RecordedType DEF TrapTyped
<1> QED BY <1>1, <1>2, <1>3 DEF MHandler

LEMMA TrapTypes ==
    ASSUME TypeOK, PcOK, NEW cause \in Causes, NEW args \in [id : {0, 1}, to : Priv],
           NEW pc1 \in [Threads -> PCs], Trap(cause, args, pc1)
    PROVE  /\ TrapTyped
           /\ scause' \in Causes \cup {"none"}
           /\ pc' \in [Threads -> PCs]
           /\ pc'["test"] = pc1["test"]
           /\ pc'["hs"] \in {"entry", pc1["hs"]}
<1>1. CASE Delegated(cause)
  <2>1. CASE pc["hs"] = "off"
    <3>0. EnterHs(cause, pc1)
      BY <1>1 DEF Trap
    <3>a. hart' \in HartType
      BY <2>1, <3>0, ReturnTypes DEF EnterHs, TypeOK, Priv
    <3>b. epc' \in [m : {"label", "other"}, s : {"label", "other"}]
      BY <2>1, <3>0 DEF EnterHs, TypeOK
    <3>1. TrapTyped
      BY <2>1, <3>0, <3>a, <3>b DEF EnterHs, TrapTyped, TypeOK
    <3> QED BY <1>1, <2>1, <3>1 DEF Trap, EnterHs, PCs
  <2>2. CASE pc["hs"] # "off"
    <3>1. \E why \in {"overflow", "nested"} : Stop(why)
      BY <1>1, <2>2 DEF Trap, EnterHs
    <3>2. TrapTyped
      BY <3>1, StopTyped DEF Stopped
    <3> QED BY <1>1, <2>2, <3>2 DEF Trap, EnterHs, TypeOK
  <2> QED BY <2>1, <2>2
<1>2. CASE ~Delegated(cause)
  <2>1. TrapTyped
    BY <1>2, MHandlerTyped DEF Trap
  <2> QED BY <1>2, <2>1 DEF Trap, TypeOK
<1> QED BY <1>1, <1>2

-----------------------------------------------------------------------------
(* Type correctness, action by action.                                     *)

Typed == TypeOK /\ PcOK

LEMMA CauseTypes == EcallCause \in Ecalls /\ Ecalls \subseteq Causes /\ Excs \subseteq Causes
                    /\ InstFaults \subseteq Causes /\ Irqs \subseteq Causes
  BY DEF EcallCause, Ecalls, Causes

\* Where an activity goes on once its first call is over.
LEMMA NextTypes ==
    ASSUME TypeOK, PcOK, NEW c \in Threads, pc[c] \in {"goto"} \cup Lower
    PROVE  /\ Drop(c) \in [Threads -> Seq(Call)]
           /\ Next1(c, Tail(todo[c])) \in [Threads -> PCs]
           /\ Next1(c, Tail(todo[c]))[c] \in {Home(c), "goto"}
           /\ Next1(c, Tail(todo[c]))[c] = "goto" => Drop(c)[c] # <<>>
           /\ \A d \in Threads \ {c} : /\ Next1(c, Tail(todo[c]))[d] = pc[d]
                                       /\ Drop(c)[d] = todo[d]
<1>1. todo[c] \in Seq(Call) /\ todo[c] # <<>>
  BY TargetType
<1>2. Tail(todo[c]) \in Seq(Call)
  BY <1>1, TodoTypes
<1>3. todo \in [Threads -> Seq(Call)] /\ pc \in [Threads -> PCs]
  BY DEF TypeOK
<1>4. Home(c) \in {"body", "record"}
  BY DEF Home
<1>5. Drop(c) \in [Threads -> Seq(Call)] /\ Drop(c)[c] = Tail(todo[c])
  BY <1>2, <1>3 DEF Drop
<1>6. Next1(c, Tail(todo[c])) \in [Threads -> PCs]
  BY <1>3, <1>4 DEF Next1, PCs
<1>7. Next1(c, Tail(todo[c]))[c] = IF Tail(todo[c]) = <<>> THEN Home(c) ELSE "goto"
  BY <1>3 DEF Next1
<1>8. \A d \in Threads \ {c} : /\ Next1(c, Tail(todo[c]))[d] = pc[d]
                               /\ Drop(c)[d] = todo[d]
  BY <1>3 DEF Next1, Drop
<1> QED BY <1>4, <1>5, <1>6, <1>7, <1>8, Zenon DEF Home

LEMMA FinishTyped ==
    ASSUME TypeOK, PcOK, NEW c \in Threads, pc[c] \in {"goto"} \cup Lower, Finish(c)
    PROVE  /\ pc' \in [Threads -> PCs]
           /\ todo' \in [Threads -> Seq(Call)]
           /\ PcOK'
<1>1. /\ pc' = Next1(c, Tail(todo[c]))
      /\ todo' = Drop(c)
  BY DEF Finish
<1>2. pc'[c] \in {Home(c), "goto"}
  BY <1>1, NextTypes
<1>3. \A d \in Threads \ {c} : pc'[d] = pc[d] /\ todo'[d] = todo[d]
  BY <1>1, NextTypes
<1>4. pc'[c] = "goto" => todo'[c] # <<>>
  BY <1>1, NextTypes
<1>5. PcOK'
  BY <1>2, <1>3, <1>4 DEF PcOK, Home, Lower
<1> QED BY <1>1, <1>5, NextTypes

\* The steps of goto_priv and lower_priv that trap nothing.
CallStep(c) ==
    \/ GotoUser(c) \/ GotoThere(c) \/ GotoStairs(c)
    \/ LowerEqual(c) \/ LowerRefused(c) \/ LowerStart(c)
    \/ SetPrevPriv(c) \/ SetRealPriv(c) \/ SetEpc(c) \/ XretDown(c) \/ SetCurrPriv(c)

LEMMA CallStepTyped ==
    ASSUME Typed, NEW c \in Threads, CallStep(c)
    PROVE  Typed'
<1> USE DEF Typed
<1>0. TypeOK /\ PcOK
  OBVIOUS
<1>1. pc[c] \in {"goto"} \cup Lower
  BY DEF CallStep, GotoUser, GotoThere, GotoStairs, Rises, Falls, LowerEqual, LowerRefused,
         LowerStart, SetPrevPriv, SetRealPriv, SetEpc, XretDown, SetCurrPriv, At, Lower
<1>2. Target(c) \in Priv /\ todo[c] \in Seq(Call) /\ todo[c] # <<>>
  BY <1>1, TargetType
<1>3. ASSUME NEW a \in Priv, NEW b \in Priv, NEW x \in {Rest(b), Goto(b)},
             todo' = [todo EXCEPT ![c] = <<Goto(a), x>> \o Tail(@)]
      PROVE  todo' \in [Threads -> Seq(Call)] /\ todo'[c] # <<>>
             /\ \A d \in Threads \ {c} : todo'[d] = todo[d]
  <2>1. <<Goto(a), x>> \o Tail(todo[c]) \in Seq(Call)
        /\ <<Goto(a), x>> \o Tail(todo[c]) # <<>>
    BY <1>2, TodoTypes, CallTypes
  <2> QED BY <1>3, <2>1 DEF TypeOK
<1>4. ASSUME NEW l \in {"goto"} \cup Lower, pc' = [pc EXCEPT ![c] = l],
             UNCHANGED todo
      PROVE  pc' \in [Threads -> PCs] /\ PcOK'
  BY <1>1, <1>4 DEF TypeOK, PcOK, PCs, Lower
<1>5. "l1" \in Lower /\ "l2" \in Lower /\ "l3" \in Lower /\ "l4" \in Lower /\ "l5" \in Lower
      /\ M \in Priv /\ HS \in Priv
  BY DEF Lower, Priv
<1>6. CASE GotoUser(c)
  <2>1. todo' \in [Threads -> Seq(Call)] /\ todo'[c] # <<>>
        /\ \A d \in Threads \ {c} : todo'[d] = todo[d]
    BY <1>2, <1>3, <1>5, <1>6 DEF GotoUser
  <2>2. PcOK'
    BY <1>6, <2>1 DEF GotoUser, PcOK
  <2> QED BY <1>6, <2>1, <2>2 DEF GotoUser, TypeOK, csrs, count, hist
<1>7. CASE GotoStairs(c)
  <2>1. todo' \in [Threads -> Seq(Call)] /\ todo'[c] # <<>>
        /\ \A d \in Threads \ {c} : todo'[d] = todo[d]
    BY <1>2, <1>3, <1>5, <1>7 DEF GotoStairs
  <2>2. PcOK'
    BY <1>7, <2>1 DEF GotoStairs, PcOK
  <2> QED BY <1>7, <2>1, <2>2 DEF GotoStairs, TypeOK, csrs, count, hist
<1>8. CASE GotoThere(c)
  <2>1. pc' \in [Threads -> PCs] /\ todo' \in [Threads -> Seq(Call)] /\ PcOK'
    BY <1>1, <1>8, FinishTyped DEF GotoThere
  <2> QED BY <1>2, <1>8, <2>1 DEF GotoThere, TypeOK, csrs, count, hist
<1>9. CASE LowerEqual(c)
  <2>1. pc' \in [Threads -> PCs] /\ todo' \in [Threads -> Seq(Call)] /\ PcOK'
    BY <1>1, <1>9, FinishTyped DEF LowerEqual
  <2> QED BY <1>9, <2>1 DEF LowerEqual, TypeOK, csrs, count, hist
<1>10. CASE LowerRefused(c)
  <2>1. PcOK' /\ status' \in Stopped
    BY <1>10 DEF LowerRefused, PcOK, Stop, Stopped
  <2> QED BY <1>10, <2>1 DEF LowerRefused, TypeOK, Stop, csrs, count, hist
<1>11. CASE LowerStart(c)
  <2>1. pc' \in [Threads -> PCs] /\ PcOK'
    BY <1>4, <1>5, <1>11 DEF LowerStart
  <2> QED BY <1>11, <2>1 DEF LowerStart, TypeOK, csrs, count, hist
<1>12. CASE SetPrevPriv(c)
  <2>1. pc' \in [Threads -> PCs] /\ PcOK'
    BY <1>4, <1>5, <1>12 DEF SetPrevPriv
  <2>2. hart' \in HartType
    BY <1>12 DEF SetPrevPriv, TypeOK, HartType
  <2> QED BY <1>12, <2>1, <2>2 DEF SetPrevPriv, TypeOK, csrs, count, hist
<1>13. CASE SetRealPriv(c)
  <2>1. pc' \in [Threads -> PCs] /\ PcOK'
    BY <1>4, <1>5, <1>13 DEF SetRealPriv
  <2> QED BY <1>2, <1>13, <2>1 DEF SetRealPriv, TypeOK, csrs, count, hist
<1>14. CASE SetEpc(c)
  <2>1. pc' \in [Threads -> PCs] /\ PcOK'
    BY <1>4, <1>5, <1>14 DEF SetEpc
  <2>2. epc' \in [m : {"label", "other"}, s : {"label", "other"}]
    BY <1>14 DEF SetEpc, TypeOK
  <2> QED BY <1>14, <2>1, <2>2 DEF SetEpc, TypeOK, csrs, count, hist
<1>15. CASE XretDown(c)
  <2>1. pc' \in [Threads -> PCs] /\ PcOK'
    BY <1>4, <1>5, <1>15 DEF XretDown
  <2>2. hart' \in HartType
    BY <1>15, ReturnTypes, <1>5 DEF XretDown, TypeOK
  <2> QED BY <1>15, <2>1, <2>2 DEF XretDown, TypeOK, csrs, count, hist
<1>16. CASE SetCurrPriv(c)
  <2>1. pc' \in [Threads -> PCs] /\ todo' \in [Threads -> Seq(Call)] /\ PcOK'
    BY <1>1, <1>16, FinishTyped DEF SetCurrPriv
  <2> QED BY <1>2, <1>16, <2>1 DEF SetCurrPriv, TypeOK, csrs, count, hist
<1> QED
  BY <1>6, <1>7, <1>8, <1>9, <1>10, <1>11, <1>12, <1>13, <1>14, <1>15, <1>16 DEF CallStep

\* The steps that trap.
TrapStep ==
    \/ \E c \in Threads : GotoEcall(c)
    \/ GotoDirect \/ RawEcall
    \/ \E e \in Excs : Raise(e)
    \/ \E e \in InstFaults : ExecJump(e)
    \/ \E i \in Irqs : TakeIrq(i)

LEMMA LevelType == \A x : Level(x) \in Priv
  BY DEF Level, Priv

\* What every trap step leaves typed, given the pc, the calls and the history.
LEMMA AfterTrap ==
    ASSUME Typed, NEW cause \in Causes, NEW args \in [id : {0, 1}, to : Priv],
           NEW pc1 \in [Threads -> PCs], Trap(cause, args, pc1),
           ecall_args' \in [id : {0, 1}, to : Priv],
           todo' \in [Threads -> Seq(Call)],
           ops' \in Nat, UNCHANGED <<csrs, after, tests, armed>>,
           raised' \in [cause : Causes \cup {"none"}, level : Priv]
    PROVE  TypeOK'
<1>1. /\ TrapTyped
      /\ scause' \in Causes \cup {"none"}
      /\ pc' \in [Threads -> PCs]
  BY TrapTypes DEF Typed
<1> QED BY <1>1 DEF Typed, TypeOK, TrapTyped, csrs

LEMMA TrapStepTyped ==
    ASSUME Typed, TrapStep
    PROVE  Typed'
<1> USE DEF Typed
<1>0. TypeOK /\ PcOK
  OBVIOUS
<1>1. ASSUME NEW c \in Threads, GotoEcall(c)
      PROVE  Typed'
  <2>1. pc[c] \in {"goto"} \cup Lower
    BY <1>1 DEF GotoEcall, Rises, At
  <2>2. Target(c) \in Priv
    BY <2>1, TargetType
  <2>3. ecall_args' \in [id : {0, 1}, to : Priv]
    BY <1>1, <2>2 DEF GotoEcall
  <2> DEFINE pc1 == Next1(c, Tail(todo[c]))
  <2>4. pc1 \in [Threads -> PCs] /\ todo' \in [Threads -> Seq(Call)]
    BY <1>1, <2>1, NextTypes DEF GotoEcall
  <2>5. EcallCause \in Causes /\ Trap(EcallCause, ecall_args', pc1)
    BY <1>1, CauseTypes DEF GotoEcall
  <2>6. TypeOK'
    BY <1>1, <2>3, <2>4, <2>5, AfterTrap DEF GotoEcall, TypeOK, count, hist
  <2>7. pc'["test"] = pc1["test"] /\ pc'["hs"] \in {"entry", pc1["hs"]}
    BY <2>3, <2>4, <2>5, TrapTypes
  <2>8. /\ pc1[c] \in {Home(c), "goto"}
        /\ pc1[c] = "goto" => Drop(c)[c] # <<>>
        /\ \A d \in Threads \ {c} : pc1[d] = pc[d] /\ Drop(c)[d] = todo[d]
    BY <2>1, NextTypes
  <2>9. todo' = Drop(c)
    BY <1>1 DEF GotoEcall
  <2> HIDE DEF pc1
  <2>10. PcOK'
    BY <2>7, <2>8, <2>9 DEF PcOK, Home, Lower
  <2> QED BY <2>6, <2>10
<1>2. ASSUME NEW cause \in Causes, NEW args \in [id : {0, 1}, to : Priv],
             Trap(cause, args, [pc EXCEPT !["test"] = "body"]), UNCHANGED todo
      PROVE  /\ [pc EXCEPT !["test"] = "body"] \in [Threads -> PCs]
             /\ PcOK'
  <2>1. [pc EXCEPT !["test"] = "body"] \in [Threads -> PCs]
    BY DEF TypeOK, PCs
  <2>0. /\ [pc EXCEPT !["test"] = "body"]["test"] = "body"
        /\ [pc EXCEPT !["test"] = "body"]["hs"] = pc["hs"]
    BY DEF TypeOK
  <2>2. pc'["test"] = "body" /\ pc'["hs"] \in {"entry", pc["hs"]}
    BY <1>2, <2>0, <2>1, TrapTypes
  <2> QED BY <1>2, <2>1, <2>2 DEF PcOK, Lower
<1>3. ASSUME NEW cause \in Causes, Trap(cause, ecall_args, pc), UNCHANGED todo
      PROVE  PcOK'
  <2>1. ecall_args \in [id : {0, 1}, to : Priv] /\ pc \in [Threads -> PCs]
    BY DEF TypeOK
  <2>2. pc'["test"] = pc["test"] /\ pc'["hs"] \in {"entry", pc["hs"]}
    BY <1>3, <2>1, TrapTypes
  <2> QED BY <1>3, <2>2 DEF PcOK, Lower
<1>4. CASE GotoDirect
  <2>1. ecall_args' \in [id : {0, 1}, to : Priv]
    BY <1>4 DEF GotoDirect, Priv
  <2>2. /\ EcallCause \in Causes /\ UNCHANGED todo
        /\ Trap(EcallCause, ecall_args', [pc EXCEPT !["test"] = "body"])
    BY <1>4, CauseTypes DEF GotoDirect
  <2>3. [pc EXCEPT !["test"] = "body"] \in [Threads -> PCs] /\ PcOK'
    BY <1>2, <2>1, <2>2
  <2>4. TypeOK'
    BY <1>4, <2>1, <2>2, <2>3, AfterTrap DEF GotoDirect, TypeOK, count, hist
  <2> QED BY <2>3, <2>4
<1>5. CASE RawEcall
  <2>1. EcallCause \in Causes /\ Trap(EcallCause, ecall_args, pc) /\ UNCHANGED todo
    BY <1>5, CauseTypes DEF RawEcall
  <2>2. raised' \in [cause : Causes \cup {"none"}, level : Priv]
    BY <1>5, <2>1, LevelType DEF RawEcall
  <2>3. ops' \in Nat /\ UNCHANGED tests
    BY <1>5 DEF RawEcall, Op, TypeOK
  <2>4. TypeOK'
    BY <1>5, <2>1, <2>2, <2>3, AfterTrap DEF RawEcall, TypeOK
  <2> QED BY <1>3, <2>1, <2>4
<1>6. ASSUME NEW e \in Excs, Raise(e)
      PROVE  Typed'
  <2>1. e \in Causes /\ Trap(e, ecall_args, pc) /\ UNCHANGED todo
    BY <1>6, CauseTypes DEF Raise
  <2>2. raised' \in [cause : Causes \cup {"none"}, level : Priv]
    BY <1>6, <2>1, LevelType DEF Raise
  <2>3. ops' \in Nat /\ UNCHANGED tests
    BY <1>6 DEF Raise, Op, TypeOK
  <2>4. TypeOK'
    BY <1>6, <2>1, <2>2, <2>3, AfterTrap DEF Raise, TypeOK
  <2> QED BY <1>3, <2>1, <2>4
<1>7. ASSUME NEW e \in InstFaults, ExecJump(e)
      PROVE  Typed'
  <2>1. /\ e \in Causes /\ UNCHANGED todo
        /\ Trap(e, ecall_args, [pc EXCEPT !["test"] = "body"])
    BY <1>7, CauseTypes DEF ExecJump
  <2>2. raised' \in [cause : Causes \cup {"none"}, level : Priv]
    BY <1>7, <2>1, LevelType DEF ExecJump
  <2>3. ecall_args \in [id : {0, 1}, to : Priv]
    BY DEF TypeOK
  <2>4. [pc EXCEPT !["test"] = "body"] \in [Threads -> PCs] /\ PcOK'
    BY <1>2, <2>1, <2>3
  <2>5. TypeOK'
    BY <1>7, <2>1, <2>2, <2>3, <2>4, AfterTrap DEF ExecJump, TypeOK, count
  <2> QED BY <2>4, <2>5
<1>8. ASSUME NEW i \in Irqs, TakeIrq(i)
      PROVE  Typed'
  <2>1. i \in Causes /\ Trap(i, ecall_args, pc) /\ UNCHANGED todo
    BY <1>8, CauseTypes DEF TakeIrq
  <2>2. raised' \in [cause : Causes \cup {"none"}, level : Priv]
    BY <1>8, <2>1, LevelType DEF TakeIrq, TypeOK
  <2>3. TypeOK'
    BY <1>8, <2>1, <2>2, AfterTrap DEF TakeIrq, TypeOK, count
  <2> QED BY <1>3, <2>1, <2>3
<1> QED BY <1>1, <1>4, <1>5, <1>6, <1>7, <1>8 DEF TrapStep

\* hshandler, the end of a run and what is left of goto_priv.
HsStep == Demoted \/ HsStart \/ HsRecord \/ HsReturn

LEMMA HsStepTyped ==
    ASSUME Typed, HsStep
    PROVE  Typed'
<1> USE DEF Typed
<1>1. CASE Demoted
  BY <1>1 DEF Demoted, Stop, TypeOK, PcOK, Stopped, csrs, count, hist
<1>2. CASE HsStart
  <2>1. Goto(ecall_args.to) \in Call
    BY CallTypes DEF TypeOK
  <2>a. <<Goto(ecall_args.to)>> \in Seq(Call) /\ <<Goto(ecall_args.to)>> # <<>>
    BY <2>1
  <2>b. todo' = [todo EXCEPT !["hs"] = <<Goto(ecall_args.to)>>] \/ todo' = todo
    BY <1>2 DEF HsStart
  <2>2. todo' \in [Threads -> Seq(Call)]
    BY <2>a, <2>b DEF TypeOK
  <2>3. pc' \in [Threads -> PCs] /\ status' \in {"run"} \cup Stopped
    BY <1>2 DEF HsStart, TypeOK, PCs, Stopped
  <2>4. PcOK'
    <3>1. CASE IsGoto(scause, ecall_args)
      <4>1. /\ todo'["hs"] # <<>> /\ todo'["test"] = todo["test"]
            /\ pc'["hs"] = "goto" /\ pc'["test"] = pc["test"]
        BY <1>2, <2>a, <3>1 DEF HsStart, TypeOK
      <4> QED BY <4>1 DEF PcOK, Lower
    <3>2. CASE ~IsGoto(scause, ecall_args)
      <4>1. /\ todo' = todo
            /\ pc'["hs"] \in {"record", pc["hs"]} /\ pc'["test"] = pc["test"]
        BY <1>2, <3>2 DEF HsStart, TypeOK
      <4> QED BY <4>1 DEF PcOK, Lower
    <3> QED BY <3>1, <3>2
  <2> QED BY <1>2, <2>2, <2>3, <2>4 DEF HsStart, TypeOK, csrs, count, hist, Priv
<1>3. CASE HsRecord
  <2>1. /\ pc' \in [Threads -> PCs] /\ status' \in {"run"} \cup Stopped
        /\ pc'["test"] = pc["test"] /\ pc'["hs"] \in {"ret", pc["hs"]}
        /\ UNCHANGED todo /\ fault_inst' \in BOOLEAN /\ ip' \subseteq Irqs
    BY <1>3 DEF HsRecord, TypeOK, PCs, Stopped
  <2>2. excpt' \in [testing : BOOLEAN, triggered : BOOLEAN, priv : Priv,
                    cause : Causes \cup {"none"}]
    <3>1. excpt' \in {excpt, Recorded(HS, scause)}
      BY <1>3 DEF HsRecord
    <3>a. HS \in Priv
      BY DEF Priv
    <3>b. excpt \in [testing : BOOLEAN, triggered : BOOLEAN, priv : Priv,
                     cause : Causes \cup {"none"}]
      BY DEF TypeOK
    <3>c. scause \in Causes \cup {"none"}
      BY DEF TypeOK
    <3> QED BY <3>1, <3>a, <3>b, <3>c, RecordedType
  <2>3. PcOK'
    BY <2>1 DEF PcOK, Lower
  <2> QED BY <1>3, <2>1, <2>2, <2>3 DEF HsRecord, TypeOK, csrs, count, hist
<1>4. CASE HsReturn
  <2>1. /\ pc' \in [Threads -> PCs] /\ status' \in {"run"} \cup Stopped
        /\ pc'["test"] = pc["test"] /\ pc'["hs"] \in {"off", pc["hs"]}
        /\ UNCHANGED <<todo, epc, ip, excpt, fault_inst, curr_priv>>
    BY <1>4 DEF HsReturn, TypeOK, PCs, Stop, Stopped
  <2>2. hart' \in HartType
    <3>1. CASE real_priv = M /\ hart.mode # "M"
      BY <1>4, <3>1 DEF HsReturn, Stop, TypeOK
    <3>2. CASE ~(real_priv = M /\ hart.mode # "M")
      <4>1. \/ hart' = MReturn(hart, curr_priv)
            \/ hart' = SReturn(hart, curr_priv)
            \/ hart' = Sret(hart)
        BY <1>4, <3>2 DEF HsReturn
      <4>2. hart \in HartType /\ curr_priv \in Priv
        BY DEF TypeOK
      <4> QED BY <4>1, <4>2, ReturnTypes
    <3> QED BY <3>1, <3>2
  <2>3. real_priv' \in Priv /\ scause' \in Causes \cup {"none"}
    BY <1>4 DEF HsReturn, TypeOK, Stop
  <2>4. PcOK'
    BY <2>1 DEF PcOK, Lower
  <2> QED BY <1>4, <2>1, <2>2, <2>3, <2>4 DEF HsReturn, TypeOK, csrs, count, hist
<1> QED BY <1>1, <1>2, <1>3, <1>4 DEF HsStep

\* What the test cases and main do without a trap, and what the devices do.
OwnStep ==
    \/ SetupExcept \/ ExecStore \/ CallReset \/ CallDirect \/ TestEnd \/ ResetState
    \/ \E t \in Targets : CallGoto(t)
    \/ \E d \in DelegChoices : WriteMedeleg(d)
    \/ \E e \in {{}, Irqs}, d \in {{}, SIrqs}, m, s \in BOOLEAN : SetupIrq(e, d, m, s)
QuietStep == OwnStep \/ \E i \in Irqs : Pend(i)

LEMMA NoTrapType == NoTrap \in [cause : Causes \cup {"none"}, level : Priv]
<1>1. VU \in Priv /\ "none" \in Causes \cup {"none"}
  BY DEF Priv
<1> QED BY <1>1 DEF NoTrap

LEMMA TestCallTyped ==
    ASSUME Typed, NEW s \in Seq(Call), s # <<>>,
           pc' = [pc EXCEPT !["test"] = "goto"], todo' = [todo EXCEPT !["test"] = s]
    PROVE  /\ pc' \in [Threads -> PCs] /\ todo' \in [Threads -> Seq(Call)]
           /\ PcOK'
<1>1. pc' \in [Threads -> PCs] /\ todo' \in [Threads -> Seq(Call)]
  BY DEF Typed, TypeOK, PCs
<1>2. /\ pc'["test"] = "goto" /\ pc'["hs"] = pc["hs"]
      /\ todo'["test"] = s /\ todo'["hs"] = todo["hs"]
  BY DEF Typed, TypeOK
<1> QED BY <1>1, <1>2 DEF Typed, PcOK

LEMMA QuietStepTyped ==
    ASSUME Typed, QuietStep
    PROVE  Typed'
<1> USE DEF Typed
<1>0. TypeOK /\ PcOK
  OBVIOUS
<1>1. CASE SetupExcept
  <2>1. excpt' \in [testing : BOOLEAN, triggered : BOOLEAN, priv : Priv,
                    cause : Causes \cup {"none"}]
    BY <1>1 DEF SetupExcept, TypeOK
  <2>2. raised' \in [cause : Causes \cup {"none"}, level : Priv]
    BY <1>1, NoTrapType DEF SetupExcept
  <2>3. PcOK' /\ ops' \in Nat /\ UNCHANGED tests
    BY <1>1 DEF SetupExcept, Op, TypeOK, PcOK
  <2>4. armed' \in BOOLEAN /\ fault_inst' \in BOOLEAN
    BY <1>1 DEF SetupExcept
  <2> QED BY <1>1, <2>1, <2>2, <2>3, <2>4 DEF SetupExcept, TypeOK, csrs
<1>2. CASE ExecStore
  <2>1. pc' \in [Threads -> PCs] /\ pc'["test"] = "jr" /\ pc'["hs"] = pc["hs"]
    BY <1>2 DEF ExecStore, TypeOK, PCs
  <2>2. PcOK'
    BY <1>2, <2>1 DEF ExecStore, PcOK, Lower
  <2> QED BY <1>2, <2>1, <2>2 DEF ExecStore, Op, TypeOK, csrs, hist
<1>3. CASE CallDirect
  <2>1. pc' \in [Threads -> PCs] /\ pc'["test"] = "direct" /\ pc'["hs"] = pc["hs"]
    BY <1>3 DEF CallDirect, TypeOK, PCs
  <2>2. PcOK'
    BY <1>3, <2>1 DEF CallDirect, PcOK, Lower
  <2> QED BY <1>3, <2>1, <2>2 DEF CallDirect, TypeOK, csrs, hist, count
<1>4. CASE CallReset
  <2>1. <<Goto(M)>> \in Seq(Call) /\ <<Goto(M)>> # <<>>
    BY CallTypes DEF Priv
  <2>2. pc' \in [Threads -> PCs] /\ todo' \in [Threads -> Seq(Call)] /\ PcOK'
    BY <1>4, <2>1, TestCallTyped DEF CallReset
  <2> QED BY <1>4, <2>2 DEF CallReset, Op, TypeOK, csrs, hist
<1>5. CASE TestEnd
  <2>1. <<Goto(M), Goto(M)>> \in Seq(Call) /\ <<Goto(M), Goto(M)>> # <<>>
    BY CallTypes DEF Priv
  <2>2. pc' \in [Threads -> PCs] /\ todo' \in [Threads -> Seq(Call)] /\ PcOK'
    BY <1>5, <2>1, TestCallTyped DEF TestEnd
  <2> QED BY <1>5, <2>2 DEF TestEnd, TypeOK, csrs, hist, count
<1>6. ASSUME NEW t \in Targets, CallGoto(t)
      PROVE  Typed'
  <2>1. <<Goto(t)>> \in Seq(Call) /\ <<Goto(t)>> # <<>>
    BY CallTypes, TargetsAssumption
  <2>2. pc' \in [Threads -> PCs] /\ todo' \in [Threads -> Seq(Call)] /\ PcOK'
    BY <1>6, <2>1, TestCallTyped DEF CallGoto
  <2> QED BY <1>6, <2>2 DEF CallGoto, Op, TypeOK, csrs, hist
<1>7. CASE ResetState
  <2>1. hart' \in HartType /\ epc' \in [m : {"label", "other"}, s : {"label", "other"}]
    BY <1>7 DEF ResetState, ResetCsrs, ResetHart, HartType
  <2>2. /\ medeleg' \subseteq Ecalls \cup Excs \cup InstFaults /\ mideleg' \subseteq SIrqs
        /\ ie' \subseteq Irqs /\ ip' \subseteq Irqs /\ after' \in {"body", "reset", "end"}
    BY <1>7 DEF ResetState, ResetCsrs, Ecalls, TypeOK
  <2>3. tests' \in Nat /\ ops' \in Nat /\ status' \in {"run"} \cup Stopped
    BY <1>7 DEF ResetState, TypeOK, Stopped, count
  <2>4. raised' \in [cause : Causes \cup {"none"}, level : Priv] /\ armed' \in BOOLEAN
    BY <1>7, NoTrapType DEF ResetState, TypeOK, hist
  <2> QED BY <1>7, <2>1, <2>2, <2>3, <2>4 DEF ResetState, TypeOK, PcOK
<1>8. ASSUME NEW d \in DelegChoices, WriteMedeleg(d)
      PROVE  Typed'
  BY <1>8, DelegAssumption DEF WriteMedeleg, Op, TypeOK, PcOK, hist
<1>9. ASSUME NEW e \in {{}, Irqs}, NEW d \in {{}, SIrqs}, NEW m \in BOOLEAN,
             NEW s \in BOOLEAN, SetupIrq(e, d, m, s)
      PROVE  Typed'
  <2>1. hart' \in HartType
    BY <1>9 DEF SetupIrq, TypeOK, HartType
  <2>2. ie' \subseteq Irqs /\ mideleg' \subseteq SIrqs
    BY <1>9 DEF SetupIrq
  <2> QED BY <1>9, <2>1, <2>2 DEF SetupIrq, Op, TypeOK, PcOK, hist
<1>10. ASSUME NEW i \in Irqs, Pend(i)
       PROVE  Typed'
  BY <1>10 DEF Pend, TypeOK, PcOK, csrs, count, hist
<1> QED BY <1>1, <1>2, <1>3, <1>4, <1>5, <1>6, <1>7, <1>8, <1>9, <1>10 DEF QuietStep, OwnStep

\* Every step of the framework, the test cases and the devices is of one of
\* these kinds.
LEMMA StepKinds ==
    ASSUME RawNext \/ SelfNext \/ AsyncNext
    PROVE  \/ \E c \in Threads : CallStep(c)
           \/ TrapStep \/ HsStep \/ QuietStep \/ UNCHANGED vars
<1>1. CASE Framework
  BY <1>1 DEF Framework, CallStep, TrapStep, HsStep, QuietStep, OwnStep
<1>2. CASE TestCase
  BY <1>2 DEF TestCase, TrapStep, QuietStep, OwnStep
<1>3. CASE Leave
  BY <1>3 DEF Leave, QuietStep, OwnStep
<1>4. CASE RawEcall
  BY <1>4 DEF TrapStep
<1>5. CASE \E i \in Irqs : Pend(i)
  BY <1>5 DEF QuietStep, OwnStep
<1>6. CASE \E i \in Irqs : PendAtOnce(i)
  BY <1>5, <1>6 DEF PendAtOnce
<1>7. CASE Halted
  BY <1>7 DEF Halted
<1> QED BY <1>1, <1>2, <1>3, <1>4, <1>5, <1>6, <1>7
        DEF RawNext, Next, SelfNext, AsyncNext, Step

LEMMA TypedInit == Init => Typed
<1> SUFFICES ASSUME Init PROVE TypeOK /\ PcOK
  BY DEF Typed
<1>1. hart \in HartType
  BY DEF Init, ResetHart, HartType
<1>2. excpt \in [testing : BOOLEAN, triggered : BOOLEAN, priv : Priv,
                 cause : Causes \cup {"none"}]
  BY DEF Init, Priv
<1>3. todo \in [Threads -> Seq(Call)] /\ pc \in [Threads -> PCs]
  BY DEF Init, PCs
<1>4. raised \in [cause : Causes \cup {"none"}, level : Priv]
  BY NoTrapType DEF Init
<1>5. curr_priv \in Priv /\ real_priv \in Priv /\ ecall_args \in [id : {0, 1}, to : Priv]
  BY DEF Init, Priv
<1>7. epc \in [m : {"label", "other"}, s : {"label", "other"}]
  BY DEF Init
<1>8. /\ medeleg \subseteq Ecalls \cup Excs \cup InstFaults /\ mideleg \subseteq SIrqs
      /\ ie \subseteq Irqs /\ ip \subseteq Irqs
  BY DEF Init, Ecalls
<1>9. TypeOK
  BY <1>1, <1>2, <1>3, <1>4, <1>5, <1>7, <1>8 DEF Init, TypeOK
<1>6. PcOK
  BY DEF Init, PcOK, Lower
<1> QED BY <1>6, <1>9

LEMMA TypedStep ==
    ASSUME Typed, [RawNext \/ SelfNext \/ AsyncNext]_vars
    PROVE  Typed'
<1>1. CASE UNCHANGED vars
  BY <1>1 DEF vars, csrs, count, hist, Typed, TypeOK, PcOK
<1>2. CASE \E c \in Threads : CallStep(c)
  BY <1>2, CallStepTyped
<1>3. CASE TrapStep
  BY <1>3, TrapStepTyped
<1>4. CASE HsStep
  BY <1>4, HsStepTyped
<1>5. CASE QuietStep
  BY <1>5, QuietStepTyped
<1> QED BY <1>1, <1>2, <1>3, <1>4, <1>5, StepKinds

(***************************************************************************)
(* Type correctness, whatever the tests ask for and whenever interrupts    *)
(* arrive.                                                                 *)
(***************************************************************************)
THEOREM TypeCorrect == AsyncSpec => []TypeOK
<1>1. Typed /\ [AsyncNext]_vars => Typed'
  BY TypedStep
<1>2. Typed => TypeOK
  BY DEF Typed
<1> QED BY TypedInit, <1>1, <1>2, PTL DEF AsyncSpec

-----------------------------------------------------------------------------
(***************************************************************************)
(* The levels.  Levels is what IInv says of a program that runs.           *)
(***************************************************************************)
Levels == TestInv /\ HsInv /\ HsCalls /\ IrqInv

LEMMA NoVSTail ==
    ASSUME NEW s \in Seq(Call), s # <<>>, NoVS(s)
    PROVE  /\ Head(s).to # VS
           /\ NoVS(Tail(s))
           /\ \A a, b \in Call : a.to # VS /\ b.to # VS => NoVS(<<a, b>> \o Tail(s))
<1>1. Len(s) \in Nat \ {0} /\ Head(s) = s[1]
  OBVIOUS
<1>2. Head(s).to # VS
  BY <1>1 DEF NoVS
<1>3. Tail(s) \in Seq(Call) /\ Len(Tail(s)) = Len(s) - 1
      /\ \A k \in 1 .. Len(Tail(s)) : Tail(s)[k] = s[k + 1]
  OBVIOUS
<1>4. NoVS(Tail(s))
  BY <1>1, <1>3 DEF NoVS
<1>5. ASSUME NEW a \in Call, NEW b \in Call, a.to # VS, b.to # VS
      PROVE  NoVS(<<a, b>> \o Tail(s))
  <2> DEFINE n == <<a, b>> \o Tail(s)
  <2>1. <<a, b>> \in Seq(Call) /\ Len(<<a, b>>) = 2
    OBVIOUS
  <2>2. Len(n) = 2 + Len(Tail(s)) /\ n[1] = a /\ n[2] = b
    BY <1>3, <2>1
  <2>3. \A k \in 3 .. Len(n) : n[k] = Tail(s)[k - 2]
    BY <1>3, <2>1, <2>2
  <2>4. ASSUME NEW k \in 1 .. Len(n)
        PROVE  n[k].to # VS
    <3>1. Len(Tail(s)) \in Nat
      BY <1>3
    <3>2. k \in Nat /\ (k = 1 \/ k = 2 \/ k \in 3 .. Len(n))
      BY <2>2, <3>1
    <3>3. CASE k \in 3 .. Len(n)
      <4>1. k - 2 \in 1 .. Len(Tail(s))
        BY <2>2, <3>1, <3>3
      <4> QED BY <1>4, <2>3, <3>3, <4>1 DEF NoVS
    <3> QED BY <1>5, <2>2, <3>2, <3>3
  <2> QED BY <2>4 DEF NoVS
<1> QED BY <1>2, <1>4, <1>5

\* Outside the handling of an interrupt nothing is pending, unless it is
\* taken at this very moment.
LEMMA IrqQuiet ==
    ASSUME Typed, IrqInv, ~IrqNow, pc["hs"] \notin {"entry", "record"}
    PROVE  ip = {}
<1> SUFFICES ASSUME NEW i \in ip PROVE FALSE
  OBVIOUS
<1>1. TakenAtOnce(i) /\ i \in Irqs
  BY DEF IrqInv, Typed, TypeOK
<1>2. MTakes(i) \/ STakes(i)
  BY <1>1 DEF TakenAtOnce, MTakes, STakes
<1> QED BY <1>1, <1>2 DEF IrqNow

\* A step of the test itself, with no trap: hshandler stays off.
LEMMA TestSide ==
    ASSUME Typed, Levels, Runs("test"), pc'["hs"] = "off", ip' = ip, TestInv'
    PROVE  Levels'
<1>1. pc["hs"] = "off"
  BY DEF Runs, Active
<1>2. ip' = {}
  BY <1>1, IrqQuiet DEF Levels, Runs
<1> QED BY <1>2 DEF Levels, HsInv, HsCalls, IrqInv, Lower

\* A step of goto_priv in hshandler.
LEMMA HsSide ==
    ASSUME Typed, Levels, Runs("hs"), pc["hs"] \in {"goto"} \cup Lower,
           pc'["hs"] # "off", ip' = ip, HsInv', HsCalls'
    PROVE  Levels'
<1>1. ip' = {}
  BY IrqQuiet DEF Levels, Runs, Lower
<1> QED BY <1>1 DEF Levels, TestInv, IrqInv

LEMMA TestCallLevels ==
    ASSUME Typed, Levels, status = "run", status' = "run", CallStep("test")
    PROVE  Levels'
<1> DEFINE c == "test"
<1>1. Runs(c) /\ pc[c] \in {"goto"} \cup Lower
  BY DEF CallStep, GotoUser, GotoThere, GotoStairs, Rises, Falls, LowerEqual, LowerRefused,
         LowerStart, SetPrevPriv, SetRealPriv, SetEpc, XretDown, SetCurrPriv, At, Lower
<1>2. pc["hs"] = "off"
  BY <1>1 DEF Runs, Active
<1>3. TestInv
  BY DEF Levels
<1>4. /\ Target(c) \in Priv /\ curr_priv \in Priv /\ real_priv \in Priv
      /\ hart \in HartType
  BY <1>1, TargetType DEF Typed, TypeOK
<1>5. pc \in [Threads -> PCs] /\ todo \in [Threads -> Seq(Call)]
  BY DEF Typed, TypeOK
<1>6. CASE GotoUser(c)
  BY <1>1, <1>2, <1>3, <1>5, <1>6, TestSide
     DEF GotoUser, TestInv, Settled, Lower, At, csrs, count, hist
<1>7. CASE GotoStairs(c)
  BY <1>1, <1>2, <1>3, <1>5, <1>7, TestSide
     DEF GotoStairs, Rises, TestInv, Settled, Lower, At, csrs, count, hist
<1>8. ASSUME Finish(c) PROVE pc'["hs"] = "off" /\ pc'["test"] \in {"body", "goto"}
  BY <1>1, <1>2, <1>5, <1>8, NextTypes DEF Finish, Home, Typed
<1>9. CASE GotoThere(c)
  <2>1. Settled'
    BY <1>1, <1>2, <1>3, <1>9 DEF GotoThere, TestInv, Settled, At, Lower
  <2> QED BY <1>1, <1>8, <1>9, <2>1, TestSide DEF GotoThere, TestInv, Lower
<1>10. CASE LowerEqual(c)
  <2>1. Settled'
    BY <1>1, <1>2, <1>3, <1>10 DEF LowerEqual, Falls, TestInv, Settled, At, Lower
  <2> QED BY <1>1, <1>8, <1>10, <2>1, TestSide DEF LowerEqual, TestInv, Lower
<1>11. CASE LowerRefused(c)
  BY <1>11 DEF LowerRefused, Stop
<1>12. ASSUME NEW l \in Lower, UNCHANGED <<todo, ip>>, pc' = [pc EXCEPT ![c] = l],
              LowerInv("test")'
       PROVE  Levels'
  <2>1. pc'["hs"] = "off" /\ pc'["test"] = l
    BY <1>2, <1>5, <1>12
  <2>2. TestInv'
    BY <1>12, <2>1 DEF TestInv, Lower
  <2> QED BY <1>1, <1>12, <2>1, <2>2, TestSide
<1>13. ASSUME UNCHANGED todo PROVE Target(c)' = Target(c)
  BY <1>13 DEF Target, Call1
<1>14. CASE LowerStart(c)
  <2>1. LowerInv("test")'
    BY <1>1, <1>2, <1>3, <1>4, <1>5, <1>13, <1>14
       DEF LowerStart, Falls, LowerInv, TestInv, Settled, At, Lower, User
  <2> QED BY <1>12, <1>14, <2>1 DEF LowerStart, Lower
<1>15. pc[c] \in Lower => LowerInv("test")
  BY <1>2, <1>3 DEF TestInv
<1>16. CASE SetPrevPriv(c)
  <2>1. LowerInv("test")'
    BY <1>1, <1>4, <1>5, <1>13, <1>15, <1>16
       DEF SetPrevPriv, LowerInv, At, Lower, User, Hw, Super, HartType, Priv
  <2> QED BY <1>12, <1>16, <2>1 DEF SetPrevPriv, Lower
<1>17. CASE SetRealPriv(c)
  <2>1. LowerInv("test")'
    BY <1>1, <1>4, <1>5, <1>13, <1>15, <1>17 DEF SetRealPriv, LowerInv, At, Lower
  <2> QED BY <1>12, <1>17, <2>1 DEF SetRealPriv, Lower
<1>18. CASE SetEpc(c)
  <2>1. LowerInv("test")'
    BY <1>1, <1>4, <1>5, <1>13, <1>15, <1>18 DEF SetEpc, LowerInv, At, Lower
  <2> QED BY <1>12, <1>18, <2>1 DEF SetEpc, Lower
<1>19. CASE XretDown(c)
  <2>1. LowerInv("test")'
    BY <1>1, <1>4, <1>5, <1>13, <1>15, <1>19
       DEF XretDown, LowerInv, At, Lower, Mret, Sret, HartType
  <2> QED BY <1>12, <1>19, <2>1 DEF XretDown, Lower
<1>20. CASE SetCurrPriv(c)
  <2>1. Settled'
    BY <1>1, <1>15, <1>20 DEF SetCurrPriv, LowerInv, Settled, At, Lower
  <2> QED BY <1>1, <1>8, <1>20, <2>1, TestSide DEF SetCurrPriv, TestInv, Lower
<1> QED
  BY <1>6, <1>7, <1>9, <1>10, <1>11, <1>14, <1>16, <1>17, <1>18, <1>19, <1>20 DEF CallStep

LEMMA HsCallLevels ==
    ASSUME Typed, Levels, status = "run", status' = "run", CallStep("hs")
    PROVE  Levels'
<1> DEFINE c == "hs"
<1>1. Runs(c) /\ pc[c] \in {"goto"} \cup Lower /\ hart.mode # "U"
  BY DEF CallStep, GotoUser, GotoThere, GotoStairs, Rises, Falls, LowerEqual, LowerRefused,
         LowerStart, SetPrevPriv, SetRealPriv, SetEpc, XretDown, SetCurrPriv, At, Lower, Runs
<1>2. pc["test"] \in {"body", "goto"} /\ HsInv /\ HsCalls
  BY <1>1 DEF Levels, HsInv, Lower
<1>3. pc[c] = "goto" => InHs \/ InMachine
  BY <1>1, <1>2 DEF HsInv
<1>4. /\ Target(c) \in Priv /\ curr_priv \in Priv /\ real_priv \in Priv
      /\ hart \in HartType /\ todo[c] \in Seq(Call) /\ todo[c] # <<>> /\ Call1(c) \in Call
  BY <1>1, TargetType DEF Typed, TypeOK
<1>5. pc \in [Threads -> PCs] /\ todo \in [Threads -> Seq(Call)]
  BY DEF Typed, TypeOK
\* A goto_priv(PRIV_VS) for a user caller takes none of these steps.
<1>6. NoVS(todo[c])
  <2> SUFFICES ASSUME pc[c] = "goto", User(curr_priv), InHs, todo[c] = <<Goto(VS)>>
               PROVE  FALSE
    BY <1>1, <1>2 DEF HsCalls
  <2>1. Target(c) = VS /\ ~Call1(c).rest /\ curr_priv < VS /\ real_priv = HS
    BY <1>4 DEF Target, Call1, Goto, User, InHs
  <2> QED BY <2>1 DEF CallStep, GotoUser, GotoThere, GotoStairs, ViaM, User, Rises, Falls,
          LowerEqual, LowerRefused, LowerStart, SetPrevPriv, SetRealPriv, SetEpc, XretDown,
          SetCurrPriv, At
<1>7. Target(c) # VS /\ NoVS(Tail(todo[c]))
  BY <1>4, <1>6, NoVSTail DEF Target, Call1
<1>8. ASSUME NEW a \in Call, NEW b \in Call, a.to # VS, b.to # VS,
             todo' = [todo EXCEPT ![c] = <<a, b>> \o Tail(@)],
             UNCHANGED <<pc, ip, curr_priv, real_priv, hart>>, pc[c] = "goto"
      PROVE  Levels'
  <2>1. NoVS(todo'[c])
    BY <1>4, <1>5, <1>6, <1>8, NoVSTail
  <2>2. HsCalls' /\ HsInv'
    BY <1>2, <1>3, <1>8, <2>1 DEF HsCalls, HsInv, InHs, InMachine, Lower
  <2> QED BY <1>1, <1>8, <2>2, HsSide
<1>9. CASE GotoUser(c)
  <2>1. /\ Goto(M) \in Call /\ Rest(Target(c)) \in Call
        /\ Goto(M).to # VS /\ Rest(Target(c)).to # VS
    <3>1. M \in Priv
      BY DEF Priv
    <3>2. Goto(M) \in Call /\ Rest(Target(c)) \in Call
      BY <1>4, <3>1, CallTypes
    <3> QED BY <1>7, <3>2 DEF Goto, Rest
  <2> QED BY <1>8, <1>9, <2>1 DEF GotoUser, At
<1>10. CASE GotoStairs(c)
  <2>1. Goto(M) \in Call /\ Goto(HS) \in Call /\ Goto(M).to # VS /\ Goto(HS).to # VS
    BY CallTypes DEF Goto, Priv
  <2> QED BY <1>8, <1>10, <2>1 DEF GotoStairs, Rises, At
<1>11. ASSUME Finish(c), ip' = ip, (InHs \/ InMachine)'
       PROVE  Levels'
  <2>1. pc'[c] \in {"record", "goto"} /\ pc'["test"] = pc["test"] /\ todo'[c] = Tail(todo[c])
    BY <1>1, <1>5, <1>11, NextTypes DEF Finish, Home, Typed, Drop
  <2>2. HsCalls' /\ HsInv'
    BY <1>2, <1>7, <1>11, <2>1 DEF HsCalls, HsInv, Lower
  <2> QED BY <1>1, <1>11, <2>1, <2>2, HsSide
<1>12. CASE GotoThere(c)
  <2>1. (InHs \/ InMachine)'
    BY <1>3, <1>12 DEF GotoThere, At, InHs, InMachine
  <2> QED BY <1>11, <1>12, <2>1 DEF GotoThere
<1>13. CASE LowerEqual(c)
  <2>1. (InHs \/ InMachine)'
    BY <1>3, <1>13 DEF LowerEqual, Falls, At, InHs, InMachine
  <2> QED BY <1>11, <1>13, <2>1 DEF LowerEqual
<1>14. CASE LowerRefused(c)
  BY <1>14 DEF LowerRefused, Stop
<1>15. ASSUME NEW l \in Lower, UNCHANGED <<todo, ip>>, pc' = [pc EXCEPT ![c] = l],
              LowerInv("hs")'
       PROVE  Levels'
  <2>1. pc'["hs"] = l /\ pc'["test"] = pc["test"]
    BY <1>5, <1>15
  <2>2. HsInv' /\ HsCalls'
    BY <1>2, <1>6, <1>15, <2>1 DEF HsInv, HsCalls, Lower
  <2> QED BY <1>1, <1>15, <2>1, <2>2, HsSide DEF Lower
<1>16. ASSUME UNCHANGED todo PROVE Target(c)' = Target(c)
  BY <1>16 DEF Target, Call1
<1>17. CASE LowerStart(c)
  <2>1. LowerInv("hs")'
    BY <1>1, <1>3, <1>4, <1>5, <1>16, <1>17
       DEF LowerStart, Falls, LowerInv, InHs, InMachine, At, Lower, User, Hw, Super, Priv
  <2> QED BY <1>15, <1>17, <2>1 DEF LowerStart, Lower
<1>18. pc[c] \in Lower => LowerInv("hs")
  BY <1>1, <1>2 DEF HsInv, Lower
<1>19. CASE SetPrevPriv(c)
  <2>1. LowerInv("hs")'
    BY <1>1, <1>4, <1>5, <1>16, <1>18, <1>19
       DEF SetPrevPriv, LowerInv, At, Lower, User, Hw, Super, HartType, Priv
  <2> QED BY <1>15, <1>19, <2>1 DEF SetPrevPriv, Lower
<1>20. CASE SetRealPriv(c)
  <2>1. LowerInv("hs")'
    BY <1>1, <1>4, <1>5, <1>16, <1>18, <1>20 DEF SetRealPriv, LowerInv, At, Lower
  <2> QED BY <1>15, <1>20, <2>1 DEF SetRealPriv, Lower
<1>21. CASE SetEpc(c)
  <2>1. LowerInv("hs")'
    BY <1>1, <1>4, <1>5, <1>16, <1>18, <1>21 DEF SetEpc, LowerInv, At, Lower
  <2> QED BY <1>15, <1>21, <2>1 DEF SetEpc, Lower
<1>22. CASE XretDown(c)
  <2>1. LowerInv("hs")'
    BY <1>1, <1>4, <1>5, <1>16, <1>18, <1>22
       DEF XretDown, LowerInv, At, Lower, Mret, Sret, HartType
  <2> QED BY <1>15, <1>22, <2>1 DEF XretDown, Lower
\* Only the way down from M to HS is survived: a user mode cannot go on.
<1>23. CASE SetCurrPriv(c)
  <2>1. Target(c) = HS
    BY <1>1, <1>4, <1>7, <1>18, <1>23
       DEF SetCurrPriv, LowerInv, At, Lower, Hw, Super, Priv
  <2>2. InHs'
    BY <1>1, <1>18, <1>23, <2>1 DEF SetCurrPriv, LowerInv, At, Lower, Hw, Super, InHs
  <2> QED BY <1>11, <1>23, <2>2 DEF SetCurrPriv
<1> QED
  BY <1>9, <1>10, <1>12, <1>13, <1>14, <1>17, <1>19, <1>20, <1>21, <1>22, <1>23 DEF CallStep

LEMMA HsStepLevels ==
    ASSUME Typed, Levels, status = "run", status' = "run", HsStep
    PROVE  Levels'
<1>1. pc \in [Threads -> PCs] /\ todo \in [Threads -> Seq(Call)] /\ hart \in HartType
      /\ curr_priv \in Priv /\ ip \subseteq Irqs
  BY DEF Typed, TypeOK
<1>2. CASE Demoted
  BY <1>2 DEF Demoted, Stop
<1>3. CASE HsStart
  <2>1. /\ pc["hs"] = "entry" /\ hart.mode = "S" /\ curr_priv # M /\ ~IrqNow
        /\ pc["test"] \in {"body", "goto"} /\ pc'["test"] = pc["test"]
        /\ UNCHANGED <<hart, curr_priv, ip, ie, mideleg, scause, ecall_args>>
        /\ scause \in Ecalls => (ecall_args.to = VS => User(curr_priv))
    BY <1>1, <1>3 DEF HsStart, At, Runs, Levels, HsInv, csrs
  <2>2. InHs'
    BY <1>3, <2>1 DEF HsStart, InHs
  <2>3. \A i \in ip : ip = {i} /\ scause = i /\ i \in mideleg \cap SClear /\ ~hart.sie
    BY <2>1 DEF Levels, IrqInv, TakenAtOnce, Quiet
  <2>4. CASE IsGoto(scause, ecall_args)
    <3>1. /\ pc'["hs"] = "goto" /\ todo'["hs"] = <<Goto(ecall_args.to)>>
      BY <1>1, <1>3, <2>4 DEF HsStart
    <3>2. ip' = {}
      BY <1>1, <2>1, <2>3, <2>4, IrqAssumption DEF IsGoto
    <3>3. HsInv'
      BY <2>1, <2>2, <3>1 DEF HsInv, Lower
    <3>4. HsCalls'
      <4>1. CASE ecall_args.to = VS
        BY <2>1, <2>2, <2>4, <3>1, <4>1 DEF HsCalls, IsGoto, User
      <4>2. CASE ecall_args.to # VS
        <5>1. NoVS(<<Goto(ecall_args.to)>>)
          BY <4>2 DEF NoVS, Goto
        <5> QED BY <3>1, <5>1 DEF HsCalls
      <4> QED BY <4>1, <4>2
    <3> QED BY <3>1, <3>2, <3>3, <3>4 DEF Levels, TestInv, IrqInv
  <2>5. CASE ~IsGoto(scause, ecall_args)
    <3>1. pc'["hs"] = "record"
      BY <1>1, <1>3, <2>5 DEF HsStart
    <3>2. HsInv' /\ HsCalls'
      BY <2>1, <2>2, <3>1 DEF HsInv, HsCalls, Lower
    <3>3. IrqInv'
      BY <2>1, <2>3, <3>1 DEF IrqInv
    <3> QED BY <3>1, <3>2, <3>3 DEF Levels, TestInv
  <2> QED BY <2>4, <2>5
<1>4. CASE HsRecord
  <2>1. /\ pc["hs"] = "record" /\ pc'["hs"] = "ret" /\ pc'["test"] = pc["test"]
        /\ UNCHANGED <<hart, curr_priv, real_priv>> /\ ~IrqNow
        /\ ip' = ip \ ({scause} \cap SClear)
    BY <1>1, <1>4 DEF HsRecord, At, Runs
  <2>2. HsInv' /\ HsCalls'
    BY <2>1 DEF Levels, HsInv, HsCalls, Lower, InHs, InMachine
  <2>3. \A i \in ip : ip = {i} /\ scause = i /\ i \in SClear
    BY <2>1 DEF Levels, IrqInv, TakenAtOnce, Quiet
  <2>4. ip' = {}
    BY <2>1, <2>3
  <2> QED BY <2>1, <2>2, <2>4 DEF Levels, TestInv, IrqInv
<1>5. CASE HsReturn
  <2>1. /\ pc["hs"] = "ret" /\ hart.mode # "U" /\ ~IrqNow
        /\ pc["test"] \in {"body", "goto"}
        /\ InHs \/ InMachine
    BY <1>5 DEF HsReturn, At, Runs, Levels, HsInv
  <2>2. /\ pc'["hs"] = "off" /\ pc'["test"] = pc["test"]
        /\ UNCHANGED <<curr_priv, ip>> /\ real_priv' = curr_priv
    BY <1>1, <1>5, <2>1 DEF HsReturn, InHs, InMachine, Stop
  <2>3. hart' = IF InHs THEN SReturn(hart, curr_priv) ELSE MReturn(hart, curr_priv)
    BY <1>5, <2>1 DEF HsReturn, InHs, InMachine, Stop
  <2>4. hart'.mode = Hw(curr_priv)
    <3>1. CASE InHs
      BY <1>1, <2>3, <3>1, ReturnTypes DEF InHs, Hw
    <3>2. CASE InMachine /\ ~InHs
      BY <1>1, <2>3, <3>2, ReturnTypes
    <3> QED BY <2>1, <3>1, <3>2
  <2>5. ip' = {}
    BY <2>1, <2>2, IrqQuiet DEF Levels
  <2>6. TestInv'
    BY <2>1, <2>2, <2>4 DEF TestInv, Settled, Lower
  <2> QED BY <2>2, <2>5, <2>6 DEF Levels, HsInv, HsCalls, IrqInv, Lower
<1> QED BY <1>2, <1>3, <1>4, <1>5 DEF HsStep

\* What mhandler leaves behind when it returns.
LEMMA MHandlerLevels ==
    ASSUME Typed, NEW cause \in Causes, NEW args \in [id : {0, 1}, to : Priv],
           status = "run", status' = "run", MHandler(cause, args)
    PROVE  /\ Settled'
           /\ IF IsGoto(cause, args)
              THEN ip' = ip /\ (curr_priv' = M \/ args.to = curr_priv)
              ELSE ip' = ip \ ({cause} \cap MClear)
<1>0. hart \in HartType /\ curr_priv \in Priv /\ M \in Priv
  BY DEF Typed, TypeOK, Priv
<1>1. ASSUME NEW p \in Priv, MHandlerDone(p)
      PROVE  Settled' /\ curr_priv' = p
  BY <1>0, <1>1, ReturnTypes DEF MHandlerDone, Settled
<1>2. CASE IsGoto(cause, args)
  <2>1. MGoto(args.to)
    BY <1>2 DEF MHandler
  <2>2. ip' = ip /\ (MHandlerDone(M) \/ (MHandlerDone(curr_priv) /\ args.to = curr_priv))
    BY <2>1 DEF MGoto, Stop, MGotoStays
  <2> QED BY <1>0, <1>1, <1>2, <2>2
<1>3. CASE ~IsGoto(cause, args)
  <2>1. ip' = ip \ ({cause} \cap MClear) /\ MHandlerDone(curr_priv)
    BY <1>3 DEF MHandler, Stop
  <2> QED BY <1>0, <1>1, <1>3, <2>1
<1> QED BY <1>2, <1>3

\* A trap of the test case, on its way to mhandler and back or to hshandler.
LEMMA TestTrap ==
    ASSUME Typed, Levels, status = "run", status' = "run", pc["hs"] = "off", Settled,
           NEW cause \in Causes, NEW args \in [id : {0, 1}, to : Priv],
           NEW pc1 \in [Threads -> PCs], pc1["hs"] = "off", pc1["test"] \in {"body", "goto"},
           Trap(cause, args, pc1), UNCHANGED <<ie, mideleg>>, ecall_args' = args,
           \/ ip = {} /\ cause \notin Irqs
           \/ ip = {cause} /\ cause \in Irqs /\ TakenAtOnce(cause),
           Delegated(cause) /\ cause \in Ecalls => (args.to = VS => User(curr_priv))
    PROVE  Levels'
<1>0. hart \in HartType /\ curr_priv \in Priv /\ medeleg \cap Irqs = {}
  BY IrqAssumption DEF Typed, TypeOK
<1>1. CASE Delegated(cause)
  <2>1. EnterHs(cause, pc1)
    BY <1>1 DEF Trap
  <2>2. /\ pc'["hs"] = "entry" /\ pc'["test"] = pc1["test"]
        /\ hart' = EnterS(hart) /\ scause' = cause /\ UNCHANGED <<ip, curr_priv>>
    BY <2>1 DEF EnterHs
  <2>3. hart'.mode = "S" /\ hart'.sie = FALSE
    BY <1>0, <2>2, ReturnTypes
  <2>4. curr_priv # M
    BY <1>1 DEF Delegated, Settled, Hw
  <2>5. HsInv'
    BY <1>1, <2>2, <2>3, <2>4 DEF HsInv, Lower, User
  <2>6. IrqInv'
    <3> SUFFICES ASSUME NEW i \in ip'
                 PROVE  /\ ip' = {i} /\ pc'["hs"] \in {"entry", "record"}
                        /\ scause' = i /\ i \in mideleg' \cap SClear
                        /\ hart'.mode = "S" /\ ~hart'.sie
      BY DEF IrqInv
    <3>1. ip' = {i} /\ i = cause /\ cause \in Irqs /\ TakenAtOnce(cause)
      BY <2>2
    <3>2. cause \in mideleg
      BY <1>0, <1>1, <3>1 DEF Delegated
    <3> QED BY <2>2, <2>3, <3>1, <3>2 DEF TakenAtOnce
  <2> QED BY <2>2, <2>5, <2>6 DEF Levels, TestInv, HsCalls, Lower
<1>2. CASE ~Delegated(cause)
  <2>1. MHandler(cause, args) /\ pc' = pc1
    BY <1>2 DEF Trap
  <2>2. Settled'
    BY <2>1, MHandlerLevels
  <2>3. ip' = {}
    <3>1. CASE ip = {}
      BY <2>1, <3>1, MHandlerLevels
    <3>2. CASE ip = {cause} /\ cause \in Irqs /\ TakenAtOnce(cause)
      <4>1. cause \notin mideleg
        BY <1>2, <3>2 DEF TakenAtOnce, Delegated
      <4>2. cause \in MClear
        BY <3>2, <4>1 DEF TakenAtOnce
      <4>3. ~IsGoto(cause, args)
        BY <3>2, IrqAssumption DEF IsGoto
      <4> QED BY <2>1, <3>2, <4>2, <4>3, MHandlerLevels
    <3> QED BY <3>1, <3>2
  <2> QED BY <2>1, <2>2, <2>3 DEF Levels, TestInv, HsInv, HsCalls, IrqInv, Lower
<1> QED BY <1>1, <1>2

LEMMA EcallFacts == /\ EcallCause \in Ecalls /\ EcallCause \in Causes
                    /\ Ecalls \cap Irqs = {} /\ Excs \cap (Ecalls \cup Irqs) = {}
                    /\ InstFaults \cap (Ecalls \cup Irqs) = {}
  BY CauseTypes, IrqAssumption, ExcAssumption

LEMMA TrapStepLevels ==
    ASSUME Typed, Levels, status = "run", status' = "run", TrapStep
    PROVE  Levels'
<1>0. /\ hart \in HartType /\ curr_priv \in Priv /\ ecall_args \in [id : {0, 1}, to : Priv]
      /\ pc \in [Threads -> PCs] /\ todo \in [Threads -> Seq(Call)] /\ ip \subseteq Irqs
  BY DEF Typed, TypeOK
<1>1. CASE GotoEcall("test")
  <2>1. /\ Runs("test") /\ pc["test"] = "goto" /\ Target("test") > curr_priv
        /\ ecall_args' = [id |-> 1, to |-> Target("test")]
        /\ UNCHANGED <<ie, mideleg>>
        /\ Trap(EcallCause, ecall_args', Next1("test", Tail(todo["test"])))
    BY <1>1 DEF GotoEcall, Rises, At, csrs
  <2>2. pc["hs"] = "off" /\ Target("test") \in Priv
    BY <2>1, TargetType DEF Runs, Active, Typed
  <2>3. Settled /\ ip = {}
    BY <2>1, <2>2, IrqQuiet DEF Levels, TestInv, Lower, Runs
  <2> DEFINE pc1 == Next1("test", Tail(todo["test"]))
  <2>4. /\ pc1 \in [Threads -> PCs] /\ pc1["hs"] = "off"
        /\ pc1["test"] \in {"body", "goto"}
    BY <2>1, <2>2, NextTypes DEF Typed, Home
  <2>5. ecall_args' \in [id : {0, 1}, to : Priv]
    BY <2>1, <2>2
  <2>6. ecall_args'.to = VS => User(curr_priv)
    BY <1>0, <2>1 DEF User, Priv
  <2> HIDE DEF pc1
  <2> QED BY <2>1, <2>2, <2>3, <2>4, <2>5, <2>6, TestTrap, EcallFacts DEF pc1
<1>2. CASE GotoEcall("hs")
  <2>1. /\ Runs("hs") /\ pc["hs"] = "goto" /\ Target("hs") > curr_priv
        /\ ecall_args' = [id |-> 1, to |-> Target("hs")] /\ todo' = Drop("hs")
        /\ Trap(EcallCause, ecall_args', Next1("hs", Tail(todo["hs"])))
    BY <1>2 DEF GotoEcall, Rises, At
  <2>2. Target("hs") \in Priv /\ todo["hs"] \in Seq(Call) /\ todo["hs"] # <<>>
    BY <2>1, TargetType DEF Typed
  <2>3. ip = {} /\ pc["test"] \in {"body", "goto"}
    BY <2>1, IrqQuiet DEF Levels, HsInv, Runs
  <2>4. ecall_args' \in [id : {0, 1}, to : Priv]
    BY <2>1, <2>2
  <2>5. /\ MHandler(EcallCause, ecall_args')
        /\ pc' = Next1("hs", Tail(todo["hs"]))
    BY <2>1 DEF Trap, EnterHs, Stop
  <2>6. IsGoto(EcallCause, ecall_args') /\ ecall_args'.to = Target("hs")
    BY <2>1, EcallFacts DEF IsGoto
  <2>7. Target("hs") # curr_priv
    BY <1>0, <2>1, <2>2 DEF Priv
  <2>8. MGoto(Target("hs"))
    BY <2>5, <2>6 DEF MHandler
  <2>9. Target("hs") = M /\ MHandlerDone(M) /\ UNCHANGED ip
    BY <2>7, <2>8 DEF MGoto, MGotoArrives, MGotoStays, Stop
  <2>10. InMachine'
    <3>1. M \in Priv
      BY DEF Priv
    <3> QED BY <1>0, <2>9, <3>1, ReturnTypes DEF MHandlerDone, InMachine, Hw
  <2>11. NoVS(Tail(todo["hs"]))
    <3>1. NoVS(todo["hs"])
      BY <2>1, <2>9 DEF Levels, HsCalls, Target, Call1, Goto
    <3> QED BY <2>2, <3>1, NoVSTail
  <2>12. /\ pc'["hs"] \in {"record", "goto"} /\ pc'["test"] = pc["test"]
         /\ todo'["hs"] = Tail(todo["hs"])
    BY <1>0, <2>1, <2>5, NextTypes DEF Home, Typed, Drop
  <2> QED BY <2>3, <2>9, <2>10, <2>11, <2>12
          DEF Levels, TestInv, HsInv, HsCalls, IrqInv, Lower
<1>3. ASSUME Runs("test"), pc["test"] \in {"body", "jr", "direct"}
      PROVE  pc["hs"] = "off" /\ Settled /\ ip = {}
  BY <1>3, IrqQuiet DEF Runs, Active, Levels, TestInv, Lower
<1>4. /\ [pc EXCEPT !["test"] = "body"] \in [Threads -> PCs]
      /\ [pc EXCEPT !["test"] = "body"]["test"] = "body"
      /\ [pc EXCEPT !["test"] = "body"]["hs"] = pc["hs"]
  BY <1>0 DEF PCs
<1>5. CASE GotoDirect
  <2>1. /\ Runs("test") /\ pc["test"] = "direct" /\ UNCHANGED <<ie, mideleg>>
        /\ ecall_args' = [id |-> 1, to |-> M]
        /\ Trap(EcallCause, ecall_args', [pc EXCEPT !["test"] = "body"])
    BY <1>5 DEF GotoDirect, At, csrs
  <2>2. ecall_args' \in [id : {0, 1}, to : Priv] /\ ecall_args'.to # VS
    BY <2>1 DEF Priv
  <2>3. pc["hs"] = "off" /\ Settled /\ ip = {}
    BY <1>3, <2>1
  <2> DEFINE pc1 == [pc EXCEPT !["test"] = "body"]
  <2>4. /\ pc1 \in [Threads -> PCs] /\ pc1["hs"] = "off"
        /\ pc1["test"] \in {"body", "goto"}
    BY <1>4, <2>3
  <2> HIDE DEF pc1
  <2>5. Trap(EcallCause, ecall_args', pc1)
    BY <2>1 DEF pc1
  <2> QED BY <2>1, <2>2, <2>3, <2>4, <2>5, TestTrap, EcallFacts
<1>6. CASE RawEcall
  <2>1. /\ Runs("test") /\ pc["test"] = "body" /\ UNCHANGED <<ie, mideleg, ecall_args>>
        /\ Trap(EcallCause, ecall_args, pc) /\ hart.mode = "M"
    BY <1>6 DEF RawEcall, Op, Quiet, InM, csrs
  <2>2. ~Delegated(EcallCause)
    BY <2>1 DEF Delegated
  <2> QED BY <1>0, <1>3, <2>1, <2>2, TestTrap, EcallFacts
<1>7. ASSUME NEW e \in Excs, Raise(e)
      PROVE  Levels'
  <2>1. /\ Runs("test") /\ pc["test"] = "body" /\ UNCHANGED <<ie, mideleg, ecall_args>>
        /\ Trap(e, ecall_args, pc)
    BY <1>7 DEF Raise, Op, Quiet, csrs
  <2>2. e \in Causes /\ e \notin Irqs /\ e \notin Ecalls
    BY EcallFacts, CauseTypes
  <2> QED BY <1>0, <1>3, <2>1, <2>2, TestTrap
<1>8. ASSUME NEW e \in InstFaults, ExecJump(e)
      PROVE  Levels'
  <2>1. /\ Runs("test") /\ pc["test"] = "jr" /\ UNCHANGED <<ie, mideleg, ecall_args>>
        /\ Trap(e, ecall_args, [pc EXCEPT !["test"] = "body"])
    BY <1>8 DEF ExecJump, At, csrs
  <2>2. e \in Causes /\ e \notin Irqs /\ e \notin Ecalls
    BY EcallFacts, CauseTypes
  <2> QED BY <1>0, <1>3, <1>4, <2>1, <2>2, TestTrap
<1>9. ASSUME NEW i \in Irqs, TakeIrq(i)
      PROVE  Levels'
  <2>1. /\ MTakes(i) \/ STakes(i)
        /\ UNCHANGED <<ie, mideleg, ecall_args>>
        /\ Trap(i, ecall_args, pc)
    BY <1>9 DEF TakeIrq, csrs
  <2>2. i \in ip /\ i \in Causes /\ i \notin Ecalls
    BY <2>1, EcallFacts, CauseTypes DEF MTakes, STakes
  <2>3. ip = {i} /\ TakenAtOnce(i)
    BY <2>1, <2>2 DEF Levels, IrqInv, MTakes, STakes
  <2>4. pc["hs"] = "off" /\ pc["test"] = "body" /\ Settled
    BY <2>3 DEF TakenAtOnce, Quiet, Levels, TestInv, Lower
  <2> QED BY <1>0, <2>1, <2>2, <2>3, <2>4, TestTrap
<1> QED BY <1>1, <1>2, <1>5, <1>6, <1>7, <1>8, <1>9 DEF TrapStep

LEMMA OwnStepLevels ==
    ASSUME Typed, Levels, status = "run", status' = "run", OwnStep
    PROVE  Levels'
<1>0. /\ hart \in HartType /\ curr_priv \in Priv /\ pc \in [Threads -> PCs]
  BY DEF Typed, TypeOK
<1>1. Runs("test") /\ pc["test"] = "body" /\ pc["hs"] = "off"
  BY DEF OwnStep, SetupExcept, ExecStore, CallReset, CallDirect, TestEnd, CallGoto,
         WriteMedeleg, SetupIrq, ResetState, Op, Quiet, Runs, Active
<1>2. Settled /\ ip = {}
  BY <1>1, IrqQuiet DEF Levels, TestInv, Lower, Runs
<1>3. pc'["hs"] = "off" /\ pc'["test"] \in {"body", "jr", "direct", "goto"}
  BY <1>0, <1>1 DEF OwnStep, SetupExcept, ExecStore, CallReset, CallDirect, TestEnd,
         CallGoto, WriteMedeleg, SetupIrq, ResetState
<1>4. UNCHANGED <<curr_priv, real_priv>>
  BY DEF OwnStep, SetupExcept, ExecStore, CallReset, CallDirect, TestEnd, CallGoto,
         WriteMedeleg, SetupIrq, ResetState
<1>5. ip' = {}
  BY <1>2 DEF OwnStep, SetupExcept, ExecStore, CallReset, CallDirect, TestEnd, CallGoto,
         WriteMedeleg, SetupIrq, ResetState, ResetCsrs
<1>6. hart'.mode = hart.mode
  <2>1. CASE ResetState
    BY <2>1 DEF ResetState, ResetCsrs, ResetHart
  <2>2. ASSUME NEW e \in {{}, Irqs}, NEW d \in {{}, SIrqs}, NEW m \in BOOLEAN,
               NEW x \in BOOLEAN, SetupIrq(e, d, m, x)
        PROVE  hart'.mode = hart.mode
    BY <1>0, <2>2 DEF SetupIrq, HartType
  <2>3. CASE UNCHANGED hart
    BY <2>3
  <2>4. ResetState \/ UNCHANGED hart
        \/ \E e \in {{}, Irqs}, d \in {{}, SIrqs}, m, x \in BOOLEAN : SetupIrq(e, d, m, x)
    BY DEF OwnStep, SetupExcept, ExecStore, CallReset, CallDirect, TestEnd, CallGoto,
           WriteMedeleg
  <2> QED BY <2>1, <2>2, <2>3, <2>4
<1>7. pc'["test"] = "direct" => User(curr_priv)
  BY <1>0, <1>1 DEF OwnStep, SetupExcept, ExecStore, CallReset, CallDirect, TestEnd,
         CallGoto, WriteMedeleg, SetupIrq, ResetState
<1>8. TestInv'
  BY <1>2, <1>3, <1>4, <1>6, <1>7 DEF TestInv, Settled, Lower
<1> QED BY <1>3, <1>5, <1>8 DEF Levels, HsInv, HsCalls, IrqInv, Lower

\* An interrupt the test raises and the hart takes at once.
LEMMA PendLevels ==
    ASSUME Typed, Levels, status = "run", NEW i \in Irqs, PendAtOnce(i)
    PROVE  Levels'
<1>1. /\ ip = {} /\ TakenAtOnce(i)
      /\ ip' = {i}
      /\ UNCHANGED <<hart, curr_priv, real_priv, ie, mideleg, pc, todo, after, scause,
                     ecall_args>>
  BY DEF PendAtOnce, Pend, csrs
<1>2. TestInv' /\ HsInv' /\ HsCalls'
  <2>1. TestInv'
    BY <1>1 DEF Levels, TestInv, Settled, LowerInv, Target, Call1
  <2>2. HsInv'
    BY <1>1 DEF Levels, HsInv, InHs, InMachine, LowerInv, Target, Call1
  <2>3. HsCalls'
    BY <1>1 DEF Levels, HsCalls, InHs, NoVS
  <2> QED BY <2>1, <2>2, <2>3
<1>3. TakenAtOnce(i)'
  BY <1>1 DEF TakenAtOnce, Quiet
<1> QED BY <1>1, <1>2, <1>3 DEF Levels, IrqInv

LEMMA InitLevels == Init => Levels
<1> SUFFICES ASSUME Init PROVE Levels
  OBVIOUS
<1>1. /\ pc["test"] = "body" /\ pc["hs"] = "off" /\ ip = {}
      /\ hart.mode = "M" /\ curr_priv = M /\ real_priv = M
  BY DEF Init, ResetHart, Threads
<1> QED BY <1>1 DEF Levels, TestInv, HsInv, HsCalls, IrqInv, Settled, Lower, Hw

\* Every step of a running program that goes on running keeps the levels.
LEMMA StepLevels ==
    ASSUME Typed, Levels, status = "run", status' = "run", [RawNext]_vars
    PROVE  Levels'
<1>1. CASE \E c \in Threads : CallStep(c)
  <2>1. CallStep("test") \/ CallStep("hs")
    BY <1>1 DEF Threads
  <2> QED BY <2>1, TestCallLevels, HsCallLevels
<1>2. CASE TrapStep
  BY <1>2, TrapStepLevels
<1>3. CASE HsStep
  BY <1>3, HsStepLevels
<1>4. CASE OwnStep
  BY <1>4, OwnStepLevels
<1>5. ASSUME NEW i \in Irqs, PendAtOnce(i)
      PROVE  Levels'
  BY <1>5, PendLevels
<1>6. CASE UNCHANGED vars
  BY <1>6 DEF vars, csrs, count, hist, Levels, TestInv, HsInv, HsCalls, IrqInv, Settled,
              LowerInv, InHs, InMachine, NoVS, Target, Call1, TakenAtOnce, Quiet
<1>7. CASE Step \/ RawEcall
  BY <1>1, <1>2, <1>3, <1>4, <1>7
     DEF Step, Framework, TestCase, Leave, CallStep, TrapStep, HsStep, OwnStep
<1> QED BY <1>5, <1>6, <1>7 DEF RawNext, Next, Halted

(***************************************************************************)
(* The strengthened invariant holds initially and every step keeps it.     *)
(***************************************************************************)
LEMMA InitInv == Init => IInv
  BY TypedInit, InitLevels DEF IInv, Typed, Levels

LEMMA StepInv == IInv /\ [RawNext]_vars => IInv'
<1> SUFFICES ASSUME IInv, [RawNext]_vars PROVE IInv'
  OBVIOUS
<1>1. Typed'
  BY TypedStep DEF IInv, Typed
<1>2. ASSUME status' = "run" PROVE status = "run"
  <2>1. status # "run" => UNCHANGED vars
    BY DEF RawNext, Next, Step, Framework, TestCase, Leave, PendAtOnce, Pend, RawEcall,
           GotoUser, GotoThere, GotoStairs, GotoEcall, Rises, Falls, LowerEqual,
           LowerRefused, LowerStart, SetPrevPriv, SetRealPriv, SetEpc, XretDown,
           SetCurrPriv, Demoted, HsStart, HsRecord, HsReturn, GotoDirect, TakeIrq,
           ExecJump, ResetState, SetupExcept, ExecStore, CallReset, CallGoto, Raise,
           WriteMedeleg, SetupIrq, CallDirect, TestEnd, Op, At, Runs, Halted
  <2> QED BY <1>2, <2>1 DEF vars
<1>3. ASSUME status' = "run" PROVE Levels'
  BY <1>2, <1>3, StepLevels DEF IInv, Typed, Levels
<1> QED BY <1>1, <1>3 DEF IInv, Typed, Levels

(***************************************************************************)
(* Whenever the test case's own code runs, curr_priv and real_priv say     *)
(* where the hart is: for every switch a test may ask for, the ones no     *)
(* registered test makes included, every trap, every delegation, the raw   *)
(* ecall, and interrupts taken at once.                                    *)
(***************************************************************************)
THEOREM PrivAlwaysAgrees == RawSpec => []PrivAgrees
<1>1. IInv => PrivAgrees
  BY DEF IInv, TestInv, Settled, PrivAgrees, Quiet, Lower
<1> QED BY InitInv, StepInv, <1>1, PTL DEF RawSpec

(***************************************************************************)
(* What is known at each point of lower_priv, hshandler and the interrupts *)
(* (IInv) holds throughout, for the same environment.                      *)
(***************************************************************************)
THEOREM InvariantHolds == RawSpec => []IInv
BY InitInv, StepInv, PTL DEF RawSpec

-----------------------------------------------------------------------------
(***************************************************************************)
(* The end of a test, also when interrupts have hit the framework anywhere *)
(* and IInv no longer holds: the goto_priv(PRIV_M) of reset_state and of   *)
(* TEST_END ends in M, from whatever an interrupt has made of curr_priv    *)
(* and real_priv. Every trap handler leaves the two equal, every switch    *)
(* that comes to its end too, and lower_priv never leads to M.             *)
(***************************************************************************)
EndsInM ==
    /\ pc["hs"] = "off" /\ pc["test"] \notin Lower /\ curr_priv = M => real_priv = M
    /\ pc["test"] \in Lower => Target("test") # M
    /\ after # "body" =>
          /\ pc["test"] \notin {"jr", "direct"}
          /\ todo["test"] # <<>> => Final(todo["test"]) = M
          /\ pc["hs"] = "off" /\ pc["test"] = "body" /\ hart.mode = "M" => curr_priv = M
EndInv == Typed /\ (status = "run" => EndsInM)

\* Where a list of calls leads, without its first one or with two in its place.
LEMMA FinalTail ==
    ASSUME NEW s \in Seq(Call), s # <<>>
    PROVE  /\ Tail(s) = <<>> => Final(s) = Head(s).to
           /\ Tail(s) # <<>> => Final(Tail(s)) = Final(s)
<1>1. Len(s) \in Nat \ {0} /\ Head(s) = s[1]
  OBVIOUS
<1>2. Tail(s) \in Seq(Call) /\ Len(Tail(s)) = Len(s) - 1
      /\ \A k \in 1 .. Len(Tail(s)) : Tail(s)[k] = s[k + 1]
  OBVIOUS
<1>3. ASSUME Tail(s) = <<>> PROVE Final(s) = Head(s).to
  <2>1. Len(<<>>) = 0
    OBVIOUS
  <2>2. Len(s) - 1 = 0
    BY <1>2, <1>3, <2>1
  <2>3. Len(s) = 1
    BY <1>1, <2>2
  <2> QED BY <1>1, <2>3 DEF Final
<1>4. ASSUME Tail(s) # <<>> PROVE Final(Tail(s)) = Final(s)
  <2>1. Len(Tail(s)) \in Nat \ {0}
    BY <1>2, <1>4
  <2>2. Tail(s)[Len(Tail(s))] = s[Len(s)]
    BY <1>1, <1>2, <2>1
  <2> QED BY <2>2 DEF Final
<1> QED BY <1>3, <1>4

LEMMA FinalPush ==
    ASSUME NEW s \in Seq(Call), s # <<>>, NEW a \in Call, NEW b \in Call, b.to = Head(s).to
    PROVE  Final(<<a, b>> \o Tail(s)) = Final(s)
<1> DEFINE n == <<a, b>> \o Tail(s)
<1>1. Tail(s) \in Seq(Call) /\ <<a, b>> \in Seq(Call) /\ Len(<<a, b>>) = 2
  OBVIOUS
<1>2. Len(n) = 2 + Len(Tail(s)) /\ n[2] = b /\ Len(Tail(s)) \in Nat
  BY <1>1
<1>3. \A k \in 3 .. Len(n) : n[k] = Tail(s)[k - 2]
  BY <1>1, <1>2
<1> HIDE DEF n
<1>4. CASE Tail(s) = <<>>
  <2>1. Len(<<>>) = 0
    OBVIOUS
  <2>2. Len(Tail(s)) = 0
    BY <1>4, <2>1
  <2>3. Len(n) = 2 + 0
    BY <1>2, <2>2
  <2>4. Len(n) = 2
    BY <2>3
  <2>5. Final(n) = b.to
    BY <1>2, <2>4 DEF Final
  <2> QED BY <1>4, <2>5, FinalTail DEF n
<1>5. CASE Tail(s) # <<>>
  <2>1. Len(Tail(s)) >= 1
    BY <1>1, <1>5
  <2>2. Len(n) \in 3 .. Len(n) /\ Len(n) - 2 = Len(Tail(s))
    BY <1>2, <2>1
  <2>3. n[Len(n)] = Tail(s)[Len(Tail(s))]
    BY <1>3, <2>2
  <2>4. Final(n) = Final(Tail(s))
    BY <2>3 DEF Final
  <2> QED BY <1>5, <2>4, FinalTail DEF n
<1> QED BY <1>4, <1>5

\* The steps of goto_priv and lower_priv.
LEMMA CallStepEnds ==
    ASSUME Typed, EndsInM, NEW c \in Threads, CallStep(c), status' = "run"
    PROVE  EndsInM'
<1>1. pc[c] \in {"goto"} \cup Lower /\ Runs(c) /\ UNCHANGED after
  BY DEF CallStep, GotoUser, GotoThere, GotoStairs, Rises, Falls, LowerEqual, LowerRefused,
         LowerStart, SetPrevPriv, SetRealPriv, SetEpc, XretDown, SetCurrPriv, At, Lower
<1>2. todo[c] \in Seq(Call) /\ todo[c] # <<>> /\ Target(c) \in Priv /\ Call1(c) \in Call
  BY <1>1, TargetType DEF Typed
<1>3. pc \in [Threads -> PCs] /\ todo \in [Threads -> Seq(Call)]
  BY DEF Typed, TypeOK
<1>4. ~LowerRefused(c)
  BY DEF LowerRefused, Stop
<1>5. CASE c = "hs"
  <2>1. /\ pc'["test"] = pc["test"] /\ todo'["test"] = todo["test"]
        /\ pc'["hs"] # "off"
    BY <1>1, <1>3, <1>4, <1>5
       DEF CallStep, GotoUser, GotoThere, GotoStairs, LowerEqual, LowerStart, SetPrevPriv,
           SetRealPriv, SetEpc, XretDown, SetCurrPriv, Finish, Next1, Drop, Home, Lower
  <2> QED BY <1>1, <2>1 DEF EndsInM, Target, Call1
<1>6. CASE c = "test"
  <2>1. pc["hs"] = "off" /\ Final(todo["test"]) \in {Target("test"), Final(Tail(todo["test"]))}
        /\ (Tail(todo["test"]) = <<>> => Final(todo["test"]) = Target("test"))
        /\ (Tail(todo["test"]) # <<>> => Final(todo["test"]) = Final(Tail(todo["test"])))
    BY <1>1, <1>2, <1>6, FinalTail DEF Runs, Active, Target, Call1
  <2>2. ASSUME Finish(c)
        PROVE  /\ pc'["test"] = IF Tail(todo["test"]) = <<>> THEN "body" ELSE "goto"
               /\ todo'["test"] = Tail(todo["test"])
    BY <1>3, <1>6, <2>2 DEF Finish, Next1, Drop, Home
  <2>3. ASSUME GotoThere(c) \/ SetCurrPriv(c)
        PROVE  EndsInM'
    <3>1. curr_priv' = Target("test") /\ real_priv' = real_priv /\ Finish(c)
      BY <1>6, <2>3 DEF GotoThere, SetCurrPriv
    <3>2. curr_priv' = M => real_priv' = M
      BY <1>6, <2>3, <3>1 DEF GotoThere, SetCurrPriv, At, EndsInM, Lower
    <3>3. after # "body" /\ Tail(todo["test"]) = <<>> => curr_priv' = M
      BY <1>2, <1>6, <2>1, <3>1 DEF EndsInM
    <3> QED BY <1>1, <1>2, <1>6, <2>1, <2>2, <3>1, <3>2, <3>3 DEF EndsInM, Lower
  <2>4. CASE LowerEqual(c)
    <3>1. Target("test") = curr_priv /\ real_priv # Target("test") /\ pc["test"] = "goto"
      BY <1>6, <2>4 DEF LowerEqual, Falls, At
    <3>2. curr_priv # M
      BY <2>1, <3>1 DEF EndsInM, Lower
    <3>3. after # "body" => Tail(todo["test"]) # <<>>
      BY <1>2, <1>6, <2>1, <3>1, <3>2 DEF EndsInM
    <3>4. curr_priv' = curr_priv /\ Finish(c)
      BY <2>4 DEF LowerEqual
    <3> QED BY <1>1, <1>2, <1>6, <2>1, <2>2, <3>2, <3>3, <3>4 DEF EndsInM, Lower
  <2>5. CASE GotoUser(c) \/ GotoStairs(c)
    <3>1. PICK a \in Call, b \in Call :
              /\ b.to = Target("test")
              /\ todo'["test"] = <<a, b>> \o Tail(todo["test"])
      <4>1. CASE GotoUser(c)
        <5>1. Goto(M) \in Call /\ Rest(Target("test")) \in Call
          BY <1>2, <1>6, CallTypes DEF Priv
        <5>2. todo'["test"] = <<Goto(M), Rest(Target("test"))>> \o Tail(todo["test"])
          BY <1>3, <1>6, <4>1 DEF GotoUser
        <5> QED BY <5>1, <5>2 DEF Rest
      <4>2. CASE GotoStairs(c)
        <5>1. Goto(HS) \in Call /\ Goto(M) \in Call /\ Target("test") = M
          BY <1>6, <4>2, CallTypes DEF GotoStairs, Priv
        <5>2. todo'["test"] = <<Goto(HS), Goto(M)>> \o Tail(todo["test"])
          BY <1>3, <1>6, <4>2 DEF GotoStairs
        <5> QED BY <5>1, <5>2 DEF Goto
      <4> QED BY <2>5, <4>1, <4>2
    <3>2. Final(todo'["test"]) = Final(todo["test"])
      BY <1>2, <1>6, <3>1, FinalPush DEF Target, Call1
    <3>3. UNCHANGED <<pc, curr_priv, real_priv, hart>> /\ pc["test"] = "goto"
      BY <1>6, <2>5 DEF GotoUser, GotoStairs, Rises, At
    <3> QED BY <1>1, <1>2, <1>6, <3>2, <3>3 DEF EndsInM, Lower
  <2>6. CASE LowerStart(c)
    <3>1. /\ pc'["test"] = "l1" /\ pc["test"] = "goto" /\ Target("test") < curr_priv
          /\ UNCHANGED <<todo, curr_priv, real_priv, hart>> /\ pc'["hs"] = "off"
      BY <1>3, <1>6, <2>1, <2>6 DEF LowerStart, Falls, At
    <3>2. Target("test") # M
      BY <1>2, <1>6, <3>1 DEF Typed, TypeOK, Priv
    <3> QED BY <1>1, <1>2, <1>6, <3>1, <3>2 DEF EndsInM, Lower, Target, Call1
  <2>7. CASE SetPrevPriv(c) \/ SetRealPriv(c) \/ SetEpc(c) \/ XretDown(c)
    <3>1. pc["test"] \in Lower /\ pc'["test"] \in Lower /\ UNCHANGED todo
      BY <1>3, <1>6, <2>7 DEF SetPrevPriv, SetRealPriv, SetEpc, XretDown, At, Lower
    <3> QED BY <1>1, <3>1 DEF EndsInM, Lower, Target, Call1
  <2> QED BY <1>4, <2>3, <2>4, <2>5, <2>6, <2>7 DEF CallStep
<1> QED BY <1>5, <1>6

\* A trap that the run outlives: hshandler has begun, or mhandler is over.
LEMMA TrapLeaves ==
    ASSUME Typed, NEW cause \in Causes, NEW args \in [id : {0, 1}, to : Priv],
           NEW pc1 \in [Threads -> PCs], Trap(cause, args, pc1), status' = "run"
    PROVE  \/ pc'["hs"] = "entry"
           \/ curr_priv' = real_priv' /\ (hart'.mode = "M" => curr_priv' = M)
<1>1. CASE Delegated(cause)
  BY <1>1 DEF Trap, EnterHs, Stop
<1>2. CASE ~Delegated(cause)
  <2>1. PICK p \in Priv : MHandlerDone(p)
    <3>1. M \in Priv /\ curr_priv \in Priv
      BY DEF Typed, TypeOK, Priv
    <3>2. MHandler(cause, args)
      BY <1>2 DEF Trap
    <3> QED BY <3>1, <3>2 DEF MHandler, MGoto, Stop
  <2>2. curr_priv' = p /\ real_priv' = p /\ hart'.mode = Hw(p)
    BY <2>1, ReturnTypes DEF MHandlerDone, Typed, TypeOK
  <2> QED BY <2>1, <2>2 DEF Hw, Super, Priv
<1> QED BY <1>1, <1>2

\* From that the test is where EndsInM wants it, if its calls are.
LEMMA TrapEnds ==
    ASSUME Typed, NEW cause \in Causes, NEW args \in [id : {0, 1}, to : Priv],
           NEW pc1 \in [Threads -> PCs], Trap(cause, args, pc1), status' = "run",
           pc1["test"] \in Lower => Target("test")' # M,
           after' # "body" => /\ pc1["test"] \notin {"jr", "direct"}
                              /\ todo'["test"] # <<>> => Final(todo'["test"]) = M
    PROVE  EndsInM'
<1>1. pc'["test"] = pc1["test"]
  BY TrapTypes DEF Typed
<1> QED BY <1>1, TrapLeaves DEF EndsInM

LEMMA TrapStepEnds ==
    ASSUME Typed, EndsInM, TrapStep, status' = "run"
    PROVE  EndsInM'
<1>0. pc \in [Threads -> PCs] /\ todo \in [Threads -> Seq(Call)]
      /\ ecall_args \in [id : {0, 1}, to : Priv]
  BY DEF Typed, TypeOK
<1>1. ASSUME NEW c \in Threads, GotoEcall(c) PROVE EndsInM'
  <2>1. pc[c] = "goto" /\ ~(Target(c) = M /\ curr_priv = HU) /\ UNCHANGED after
    BY <1>1 DEF GotoEcall, Rises, At
  <2>2. Target(c) \in Priv /\ todo[c] \in Seq(Call) /\ todo[c] # <<>>
    BY <2>1, TargetType DEF Typed
  <2>3. ecall_args' \in [id : {0, 1}, to : Priv] /\ EcallCause \in Causes
    BY <1>1, <2>2, CauseTypes DEF GotoEcall
  <2> DEFINE pc1 == Next1(c, Tail(todo[c]))
  <2>4. pc1 \in [Threads -> PCs] /\ pc1[c] \in {Home(c), "goto"}
        /\ \A d \in Threads \ {c} : pc1[d] = pc[d] /\ Drop(c)[d] = todo[d]
    BY <2>1, NextTypes DEF Typed
  <2>5. Trap(EcallCause, ecall_args', pc1) /\ todo' = Drop(c)
    BY <1>1 DEF GotoEcall
  <2> HIDE DEF pc1
  <2>6. CASE c = "hs"
    <3>1. pc1["test"] = pc["test"] /\ todo'["test"] = todo["test"]
      BY <2>4, <2>5, <2>6
    <3>2. pc1["test"] \in Lower => Target("test")' # M
      BY <3>1 DEF EndsInM, Target, Call1
    <3>3. after' # "body" => /\ pc1["test"] \notin {"jr", "direct"}
                             /\ todo'["test"] # <<>> => Final(todo'["test"]) = M
      BY <2>1, <3>1 DEF EndsInM
    <3> QED BY <2>3, <2>4, <2>5, <3>2, <3>3, TrapEnds
  <2>7. CASE c = "test"
    <3>1. pc1["test"] \notin Lower \cup {"jr", "direct"}
      BY <2>4, <2>7 DEF Home, Lower
    <3>2. todo'["test"] = Tail(todo["test"])
      BY <1>0, <2>5, <2>7 DEF Drop
    <3>3. after' # "body" /\ todo'["test"] # <<>> => Final(todo'["test"]) = M
      BY <2>1, <2>2, <2>7, <3>2, FinalTail DEF EndsInM
    <3> QED BY <2>3, <2>4, <2>5, <3>1, <3>3, TrapEnds
  <2> QED BY <2>6, <2>7
<1>2. ASSUME NEW cause \in Causes, NEW args \in [id : {0, 1}, to : Priv],
             Trap(cause, args, [pc EXCEPT !["test"] = "body"]), UNCHANGED <<todo, after>>
      PROVE  EndsInM'
  <2> DEFINE pc1 == [pc EXCEPT !["test"] = "body"]
  <2>1. pc1 \in [Threads -> PCs] /\ pc1["test"] = "body"
    BY <1>0 DEF PCs
  <2>2. after' # "body" => /\ pc1["test"] \notin {"jr", "direct"}
                           /\ todo'["test"] # <<>> => Final(todo'["test"]) = M
    BY <1>2, <2>1 DEF EndsInM
  <2>3. pc1["test"] \notin Lower
    BY <2>1 DEF Lower
  <2>4. Trap(cause, args, pc1)
    BY <1>2
  <2> HIDE DEF pc1
  <2> QED BY <2>1, <2>2, <2>3, <2>4, TrapEnds
<1>3. ASSUME NEW cause \in Causes, Trap(cause, ecall_args, pc), UNCHANGED <<todo, after>>
      PROVE  EndsInM'
  <2>1. pc["test"] \in Lower => Target("test")' # M
    BY <1>3 DEF EndsInM, Target, Call1
  <2>2. after' # "body" => /\ pc["test"] \notin {"jr", "direct"}
                           /\ todo'["test"] # <<>> => Final(todo'["test"]) = M
    BY <1>3 DEF EndsInM
  <2> QED BY <1>0, <1>3, <2>1, <2>2, TrapEnds
<1>4. CASE GotoDirect
  <2>1. ecall_args' \in [id : {0, 1}, to : Priv]
    BY <1>4 DEF GotoDirect, Priv
  <2> QED BY <1>2, <1>4, <2>1, CauseTypes DEF GotoDirect
<1>5. CASE RawEcall
  BY <1>3, <1>5, CauseTypes DEF RawEcall
<1>6. ASSUME NEW e \in Excs, Raise(e) PROVE EndsInM'
  BY <1>3, <1>6, CauseTypes DEF Raise
<1>7. ASSUME NEW e \in InstFaults, ExecJump(e) PROVE EndsInM'
  BY <1>0, <1>2, <1>7, CauseTypes DEF ExecJump
<1>8. ASSUME NEW i \in Irqs, TakeIrq(i) PROVE EndsInM'
  BY <1>3, <1>8, CauseTypes DEF TakeIrq
<1> QED BY <1>1, <1>4, <1>5, <1>6, <1>7, <1>8 DEF TrapStep

\* hshandler: it returns to M only by the mret of a program that is in M.
LEMMA HsStepEnds ==
    ASSUME Typed, EndsInM, HsStep, status' = "run"
    PROVE  EndsInM'
<1>0. pc \in [Threads -> PCs] /\ todo \in [Threads -> Seq(Call)]
      /\ hart \in HartType /\ curr_priv \in Priv
  BY DEF Typed, TypeOK
<1>1. ~Demoted
  BY DEF Demoted, Stop, Stopped
<1>2. UNCHANGED after /\ pc'["test"] = pc["test"] /\ todo'["test"] = todo["test"]
  BY <1>0, <1>1 DEF HsStep, HsStart, HsRecord, HsReturn, Stop
<1>3. CASE HsStart \/ HsRecord
  <2>1. pc'["hs"] # "off"
    BY <1>0, <1>3 DEF HsStart, HsRecord, At
  <2> QED BY <1>2, <2>1 DEF EndsInM, Target, Call1
<1>4. CASE HsReturn
  <2>1. /\ real_priv' = curr_priv /\ curr_priv' = curr_priv
        /\ hart' = CASE real_priv = M  -> MReturn(hart, curr_priv)
                     [] real_priv = HS -> SReturn(hart, curr_priv)
                     [] OTHER          -> Sret(hart)
    BY <1>4 DEF HsReturn, Stop
  <2>2. hart'.mode = "M" => curr_priv = M
    <3>1. MReturn(hart, curr_priv).mode = "M" => curr_priv = M
      BY <1>0, ReturnTypes DEF Hw, Super
    <3>2. SReturn(hart, curr_priv).mode # "M"
      BY <1>0, ReturnTypes
    <3>3. Sret(hart).mode # "M"
      BY <1>0 DEF Sret, HartType
    <3> QED BY <2>1, <3>1, <3>2, <3>3
  <2> QED BY <1>2, <2>1, <2>2 DEF EndsInM, Target, Call1
<1> QED BY <1>1, <1>3, <1>4 DEF HsStep

\* The test's own steps: reset_state and TEST_END ask for M.
LEMMA QuietStepEnds ==
    ASSUME Typed, EndsInM, QuietStep, status' = "run"
    PROVE  EndsInM'
<1>0. pc \in [Threads -> PCs] /\ todo \in [Threads -> Seq(Call)]
  BY DEF Typed, TypeOK
<1>1. CASE CallReset \/ TestEnd
  <2>1. /\ pc'["test"] = "goto" /\ UNCHANGED <<curr_priv, real_priv>> /\ pc["test"] = "body"
        /\ todo'["test"] \in {<<Goto(M)>>, <<Goto(M), Goto(M)>>} /\ pc'["hs"] = pc["hs"]
    BY <1>0, <1>1 DEF CallReset, TestEnd, Op, Quiet
  <2>2. Final(<<Goto(M)>>) = M /\ Final(<<Goto(M), Goto(M)>>) = M
    BY DEF Final, Goto
  <2> QED BY <2>1, <2>2 DEF EndsInM, Lower
<1>2. ASSUME NEW t \in Targets, CallGoto(t) PROVE EndsInM'
  <2>1. /\ pc'["test"] = "goto" /\ UNCHANGED <<curr_priv, real_priv, after>> /\ pc["test"] = "body"
        /\ after = "body" /\ pc'["hs"] = pc["hs"]
    BY <1>0, <1>2 DEF CallGoto, Op, Quiet
  <2> QED BY <2>1 DEF EndsInM, Lower
<1>3. CASE ExecStore \/ CallDirect
  <2>1. /\ pc'["test"] \in {"jr", "direct"} /\ UNCHANGED <<curr_priv, real_priv, after>>
        /\ pc["test"] = "body" /\ after = "body" /\ pc'["hs"] = pc["hs"]
    BY <1>0, <1>3 DEF ExecStore, CallDirect, Op, Quiet
  <2> QED BY <2>1 DEF EndsInM, Lower
<1>4. CASE ResetState
  BY <1>4 DEF ResetState, EndsInM, Lower
<1>5. CASE \/ SetupExcept \/ \E d \in DelegChoices : WriteMedeleg(d)
           \/ \E e \in {{}, Irqs}, d \in {{}, SIrqs}, m, s \in BOOLEAN : SetupIrq(e, d, m, s)
  <2>1. UNCHANGED <<pc, todo, curr_priv, real_priv, after>> /\ after = "body"
    BY <1>5 DEF SetupExcept, WriteMedeleg, SetupIrq, Op, Quiet
  <2> QED BY <2>1 DEF EndsInM, Target, Call1
<1>6. CASE \E i \in Irqs : Pend(i)
  <2>1. UNCHANGED <<pc, todo, curr_priv, real_priv, after, hart>>
    BY <1>6 DEF Pend
  <2> QED BY <2>1 DEF EndsInM, Target, Call1
<1> QED BY <1>1, <1>2, <1>3, <1>4, <1>5, <1>6 DEF QuietStep, OwnStep

LEMMA EndInvInit == Init => EndInv
<1>1. Init => EndsInM
  BY DEF Init, EndsInM, Lower
<1> QED BY <1>1, TypedInit DEF EndInv

LEMMA EndInvStep ==
    ASSUME EndInv, [RawNext \/ AsyncNext]_vars
    PROVE  EndInv'
<1>1. Typed'
  BY TypedStep DEF EndInv
<1>2. CASE UNCHANGED vars
  BY <1>1, <1>2 DEF EndInv, EndsInM, Target, Call1, vars, csrs, count, hist
<1>3. CASE ~UNCHANGED vars
  <2> SUFFICES ASSUME status' = "run" PROVE EndsInM'
    BY <1>1 DEF EndInv
  <2>1. (\E c \in Threads : CallStep(c)) \/ TrapStep \/ HsStep \/ QuietStep
    BY <1>3, StepKinds
  <2>2. status = "run"
    BY <2>1 DEF CallStep, TrapStep, HsStep, QuietStep, OwnStep, Pend, GotoUser, GotoThere,
         GotoStairs, GotoEcall, Rises, Falls, LowerEqual, LowerRefused, LowerStart, SetPrevPriv,
         SetRealPriv, SetEpc, XretDown, SetCurrPriv, Demoted, HsStart, HsRecord, HsReturn,
         GotoDirect, TakeIrq, ExecJump, RawEcall, Raise, SetupExcept, ExecStore, CallReset,
         CallGoto, WriteMedeleg, SetupIrq, CallDirect, TestEnd, ResetState, Op, At, Runs
  <2>3. Typed /\ EndsInM
    BY <2>2 DEF EndInv
  <2> QED BY <2>1, <2>3, CallStepEnds, TrapStepEnds, HsStepEnds, QuietStepEnds
<1> QED BY <1>2, <1>3

-----------------------------------------------------------------------------
(***************************************************************************)
(* The start of a test.  Until its first operation nothing runs, and what  *)
(* reset_state has written is there.                                       *)
(***************************************************************************)
Untouched == status = "run" /\ ops = 0 /\ after = "body"
Fresh ==
    /\ pc["hs"] = "off" /\ pc["test"] = "body"
    /\ hart = ResetHart
    /\ medeleg = {"ecu"} /\ mideleg = {} /\ ie = {}
    /\ curr_priv = M /\ real_priv = M

\* A step that comes from a program at work and leads to an untouched test is
\* the last of reset_state, or leaves the test untouched.
LEMMA UntouchedBefore ==
    ASSUME Typed, [RawNext \/ AsyncNext]_vars, Untouched', ~ResetState
    PROVE  Untouched
<1>1. status = "run"
  BY DEF Untouched, vars, RawNext, AsyncNext, Next, Step, Framework, TestCase, Leave, PendAtOnce,
         Pend, RawEcall, GotoUser, GotoThere, GotoStairs, GotoEcall, Rises, Falls, LowerEqual,
         LowerRefused, LowerStart, SetPrevPriv, SetRealPriv, SetEpc, XretDown, SetCurrPriv,
         Demoted, HsStart, HsRecord, HsReturn, GotoDirect, TakeIrq, ExecJump, SetupExcept,
         ExecStore, CallReset, CallGoto, Raise, WriteMedeleg, SetupIrq, CallDirect, TestEnd,
         Op, At, Runs, Halted
<1>2. ops \in Nat
  BY DEF Typed, TypeOK
<1>3. ~Op
  BY <1>2 DEF Op, Untouched
<1>4. UNCHANGED <<ops, after>>
  BY <1>3 DEF Untouched, vars, count, RawNext, AsyncNext, Next, Step, Framework, TestCase, Leave,
         PendAtOnce, Pend, RawEcall, GotoUser, GotoThere, GotoStairs, GotoEcall, LowerEqual,
         LowerRefused, LowerStart, SetPrevPriv, SetRealPriv, SetEpc, XretDown, SetCurrPriv,
         Demoted, HsStart, HsRecord, HsReturn, GotoDirect, TakeIrq, ExecJump, SetupExcept,
         ExecStore, CallReset, CallGoto, Raise, WriteMedeleg, SetupIrq, CallDirect, TestEnd,
         Halted
<1> QED BY <1>1, <1>4 DEF Untouched

\* Nothing happens to an untouched test that it does not do itself.
LEMMA UntouchedRests ==
    ASSUME Untouched, Fresh, [RawNext \/ AsyncNext]_vars, Untouched', ~ResetState, Typed
    PROVE  Fresh'
<1>1. ops \in Nat /\ ~Op
  BY DEF Op, Untouched, Typed, TypeOK
<1>2. ~CallDirect /\ ~TestEnd
  BY DEF CallDirect, TestEnd, Untouched, Fresh, User
<1>3. \A c \in Threads : ~CallStep(c)
  BY DEF CallStep, GotoUser, GotoThere, GotoStairs, Rises, Falls, LowerEqual, LowerRefused,
         LowerStart, SetPrevPriv, SetRealPriv, SetEpc, XretDown, SetCurrPriv, At, Runs, Active, Fresh
<1>4. /\ \A c \in Threads : ~GotoEcall(c)
      /\ ~GotoDirect /\ ~HsStart /\ ~HsRecord /\ ~HsReturn
      /\ \A e \in InstFaults : ~ExecJump(e)
  BY DEF GotoEcall, Rises, GotoDirect, HsStart, HsRecord, HsReturn, ExecJump, At, Runs, Active, Fresh
<1>5. (\A i \in Irqs : ~TakeIrq(i)) /\ ~Demoted
  BY DEF TakeIrq, MTakes, STakes, Demoted, Stop, Fresh, Untouched
<1>6. UNCHANGED vars \/ \E i \in Irqs : Pend(i)
  BY <1>1, <1>2, <1>3, <1>4, <1>5
     DEF RawNext, AsyncNext, Next, Step, Framework, TestCase, Leave, RawEcall, SetupExcept,
         ExecStore, CallReset, CallGoto, Raise, WriteMedeleg, SetupIrq, Halted, CallStep, PendAtOnce
<1> QED BY <1>6 DEF Fresh, vars, csrs, Pend

LEMMA FreshStep ==
    ASSUME EndInv, Untouched => Fresh, [RawNext \/ AsyncNext]_vars
    PROVE  Untouched' => Fresh'
<1> SUFFICES ASSUME Untouched' PROVE Fresh'
  OBVIOUS
<1>1. Typed
  BY DEF EndInv
<1>2. CASE ResetState
  <2>1. /\ status = "run" /\ pc["hs"] = "off" /\ pc["test"] = "body" /\ hart.mode = "M"
        /\ after # "body" /\ ResetCsrs /\ UNCHANGED <<pc, curr_priv, real_priv>>
    BY <1>2 DEF ResetState, Runs
  <2>2. curr_priv = M /\ real_priv = M
    BY <2>1 DEF EndInv, EndsInM, Lower
  <2> QED BY <2>1, <2>2 DEF Fresh, ResetCsrs
<1>3. CASE ~ResetState
  BY <1>1, <1>3, UntouchedBefore, UntouchedRests
<1> QED BY <1>2, <1>3

FreshInv == EndInv /\ (Untouched => Fresh)

LEMMA FreshInvInit == Init => FreshInv
<1>1. Init => (Untouched => Fresh)
  BY DEF Init, Untouched, Fresh
<1> QED BY <1>1, EndInvInit DEF FreshInv

LEMMA FreshInvStep == FreshInv /\ [RawNext \/ AsyncNext]_vars => FreshInv'
  BY EndInvStep, FreshStep DEF FreshInv

LEMMA FreshInvStarts == FreshInv => (status = "run" /\ Quiet /\ ops = 0 => Pristine)
  BY DEF FreshInv, Untouched, Fresh, Pristine, Quiet

\* Only ResetState brings the test back into its own code from the goto_priv
\* calls of reset_state and TEST_END.
LEMMA OnlyResetReturns ==
    ASSUME [RawNext \/ AsyncNext]_vars, after # "body", after' = "body"
    PROVE  ResetState
  BY DEF vars, RawNext, AsyncNext, Next, Step, Framework, TestCase, Leave, PendAtOnce, Pend,
         RawEcall, GotoUser, GotoThere, GotoStairs, GotoEcall, LowerEqual, LowerRefused,
         LowerStart, SetPrevPriv, SetRealPriv, SetEpc, XretDown, SetCurrPriv, Demoted, HsStart,
         HsRecord, HsReturn, GotoDirect, TakeIrq, ExecJump, SetupExcept, ExecStore, CallReset,
         CallGoto, Raise, WriteMedeleg, SetupIrq, CallDirect, TestEnd, Halted

LEMMA ResetReturns ==
    ASSUME EndInv, [RawNext \/ AsyncNext]_vars, after # "body", after' = "body"
    PROVE  Pristine' /\ ip' \cap MClear = {}
<1>1. ResetState
  BY OnlyResetReturns
<1>2. /\ status = "run" /\ pc["hs"] = "off" /\ pc["test"] = "body" /\ hart.mode = "M"
      /\ ResetCsrs /\ UNCHANGED <<pc, curr_priv, real_priv>>
  BY <1>1 DEF ResetState, Runs
<1>3. curr_priv = M /\ real_priv = M
  BY <1>2 DEF EndInv, EndsInM, Lower
<1> QED BY <1>2, <1>3 DEF Pristine, ResetCsrs

(***************************************************************************)
(* Whatever a test did, its reset_state and its TEST_END come back in M    *)
(* mode with the CSRs of reset_state and no pending interrupt that         *)
(* software can clear, and the next test finds them so: for every switch,  *)
(* trap and delegation, the raw ecall, and interrupts taken at once.       *)
(***************************************************************************)
THEOREM AlwaysFreshStart == RawSpec => FreshStart
<1>1. FreshInv /\ [RawNext]_vars => FreshInv'
  BY FreshInvStep
<1>2. FreshInv /\ [RawNext]_vars
        => [after # "body" /\ after' = "body" => Pristine' /\ ip' \cap MClear = {}]_vars
  BY ResetReturns DEF FreshInv
<1> QED BY FreshInvInit, <1>1, <1>2, FreshInvStarts, PTL DEF RawSpec, FreshStart

(***************************************************************************)
(* And also when interrupts have hit the tests before it at any moment, in *)
(* lower_priv and hshandler too: what they do to curr_priv and real_priv   *)
(* there does not outlive the goto_priv(PRIV_M) of TEST_END, and what is   *)
(* left pending does not outlive the CSRW(mip, 0) of reset_state.          *)
(***************************************************************************)
THEOREM FreshStartDespiteInterrupts == AsyncSpec => FreshStart
<1>1. FreshInv /\ [AsyncNext]_vars => FreshInv'
  BY FreshInvStep
<1>2. FreshInv /\ [AsyncNext]_vars
        => [after # "body" /\ after' = "body" => Pristine' /\ ip' \cap MClear = {}]_vars
  BY ResetReturns DEF FreshInv
<1> QED BY FreshInvInit, <1>1, <1>2, FreshInvStarts, PTL DEF AsyncSpec, FreshStart
=============================================================================
