-------------------------------- MODULE Trap --------------------------------
(***************************************************************************)
(* The privilege switching and the trap handlers of the test framework     *)
(* (src/rvh_test.c, asm/handlers.S, the macros of inc/rvh_test.h and the   *)
(* loop of src/main.c), on one hart without the hypervisor extension.      *)
(*                                                                         *)
(* Two activities share the hart: "test" is the running test case with the *)
(* framework calls it makes, "hs" is hshandler() when a delegated trap is  *)
(* being handled.  mhandler() runs in M mode with mstatus.MIE = 0, so that *)
(* nothing can interleave with it: trap entry, handler and mret are one    *)
(* step.  hshandler() runs in S mode, where an M-level interrupt can hit   *)
(* it anywhere, so it is a sequence of steps.                              *)
(***************************************************************************)
EXTENDS Naturals, Sequences

CONSTANTS
    Targets,       \* privileges the test cases ask goto_priv for
    Irqs,          \* interrupt causes
    SIrqs,         \* those that mideleg can delegate
    MClear,        \* those CSRC(mip) (or the vmodule) clears
    SClear,        \* those CSRC(sip) clears
    Excs,          \* exceptions that are neither ecalls nor fetch faults
    InstFaults,    \* fetch faults
    DelegChoices,  \* values the test cases write to medeleg
    AnySwitch,     \* whether tests ask for switches no registered test makes
    NumTests,      \* bound: length of test_table
    MaxOps         \* bound: operations one test case makes

VU == 0
HU == 1
VS == 2
HS == 3
M  == 4
Priv == 0 .. 4

Ecalls == {"ecu", "ecs", "ecm"}
Causes == Ecalls \cup Excs \cup InstFaults \cup Irqs

ASSUME TargetsAssumption == Targets \subseteq Priv
ASSUME IrqAssumption ==
    /\ SIrqs \subseteq Irqs
    /\ MClear \subseteq Irqs
    /\ SClear \subseteq SIrqs
    /\ Irqs \cap (Ecalls \cup Excs \cup InstFaults) = {}
ASSUME ExcAssumption ==
    /\ (Excs \cup InstFaults) \cap Ecalls = {}
    /\ Excs \cap InstFaults = {}
ASSUME DelegAssumption ==
    DelegChoices \subseteq SUBSET (Ecalls \cup Excs \cup InstFaults)
ASSUME SwitchAssumption == AnySwitch \in BOOLEAN
ASSUME BoundAssumption == NumTests \in Nat \ {0} /\ MaxOps \in Nat

VARIABLES
    hart,         \* mode and the mstatus fields MPP, SPP, MIE, MPIE, SIE, SPIE
    epc,          \* what mepc and sepc hold: the label of lower_priv or a trap's pc
    medeleg, mideleg, ie, ip,
    curr_priv, real_priv, ecall_args,
    excpt, fault_inst,
    pc, todo,     \* per activity: where it is, the goto_priv calls still to run
    scause,       \* the cause hshandler read
    after,        \* what the test does once its goto_priv calls are over
    tests, ops,   \* tests finished, operations made by the current one
    status,
    raised,       \* history: the last trap the test itself met since it armed
    armed         \* history: the current test ran TEST_SETUP_EXCEPT

csrs  == <<medeleg, mideleg, ie>>
hist  == <<raised, armed>>
count == <<tests, ops>>
vars  == <<hart, epc, csrs, ip, curr_priv, real_priv, ecall_args, excpt,
           fault_inst, pc, todo, scause, after, count, status, hist>>

-----------------------------------------------------------------------------
(* Privileges, calls and types.                                            *)

User(p) == p \in {VU, HU}
Super(p) == p \in {VS, HS}

\* The hardware mode a framework privilege runs in when there is no H extension.
Hw(p) == IF p = M THEN "M" ELSE IF Super(p) THEN "S" ELSE "U"

Threads == {"test", "hs"}
Lower == {"l1", "l2", "l3", "l4", "l5"}
PCs == {"body", "jr", "direct", "goto", "off", "entry", "record", "ret"} \cup Lower

\* A goto_priv call; rest: its first statement (user to user goes through M)
\* is over.
Call == [rest : BOOLEAN, to : Priv]
Goto(t) == [rest |-> FALSE, to |-> t]
Rest(t) == [rest |-> TRUE, to |-> t]

NoTrap == [cause |-> "none", level |-> VU]
Stopped == {"exit", "overflow", "nested", "demoted", "done"}

HartType == [mode : {"U", "S", "M"}, mpp : {"U", "S", "M"}, spp : {"U", "S"},
             mie : BOOLEAN, mpie : BOOLEAN, sie : BOOLEAN, spie : BOOLEAN]

\* Every variable keeps its type.
TypeOK ==
    /\ hart \in HartType
    /\ epc \in [m : {"label", "other"}, s : {"label", "other"}]
    /\ medeleg \subseteq Ecalls \cup Excs \cup InstFaults
    /\ mideleg \subseteq SIrqs
    /\ ie \subseteq Irqs
    /\ ip \subseteq Irqs
    /\ curr_priv \in Priv
    /\ real_priv \in Priv
    /\ ecall_args \in [id : {0, 1}, to : Priv]
    /\ excpt \in [testing : BOOLEAN, triggered : BOOLEAN, priv : Priv,
                  cause : Causes \cup {"none"}]
    /\ fault_inst \in BOOLEAN
    /\ pc \in [Threads -> PCs]
    /\ todo \in [Threads -> Seq(Call)]
    /\ scause \in Causes \cup {"none"}
    /\ after \in {"body", "reset", "end"}
    /\ tests \in Nat
    /\ ops \in Nat
    /\ status \in {"run"} \cup Stopped
    /\ raised \in [cause : Causes \cup {"none"}, level : Priv]
    /\ armed \in BOOLEAN

ResetHart == [mode |-> "M", mpp |-> "U", spp |-> "U", mie |-> FALSE,
              mpie |-> FALSE, sie |-> FALSE, spie |-> FALSE]

\* The first test case starts after main has run reset_state().
Init ==
    /\ hart = ResetHart
    /\ epc = [m |-> "other", s |-> "other"]
    /\ medeleg = {"ecu"}
    /\ mideleg = {}
    /\ ie = {}
    /\ ip = {}
    /\ curr_priv = M
    /\ real_priv = M
    /\ ecall_args = [id |-> 0, to |-> VU]
    /\ excpt = [testing |-> FALSE, triggered |-> FALSE, priv |-> VU, cause |-> "none"]
    /\ fault_inst = FALSE
    /\ pc = [c \in Threads |-> IF c = "test" THEN "body" ELSE "off"]
    /\ todo = [c \in Threads |-> <<>>]
    /\ scause = "none"
    /\ after = "body"
    /\ tests = 0
    /\ ops = 0
    /\ status = "run"
    /\ raised = NoTrap
    /\ armed = FALSE

-----------------------------------------------------------------------------
(* The hart: delegation, interrupts, trap entry and return.                *)

Delegated(cause) ==
    /\ hart.mode # "M"
    /\ cause \in medeleg \cup mideleg

MTakes(i) == /\ i \in (ip \cap ie) \ mideleg
             /\ hart.mode # "M" \/ hart.mie
STakes(i) == /\ i \in ip \cap ie \cap mideleg
             /\ hart.mode = "U" \/ (hart.mode = "S" /\ hart.sie)
IrqNow == \E i \in Irqs : MTakes(i) \/ STakes(i)

\* A trap into S, mret and sret.
EnterS(h) == [h EXCEPT !.mode = "S", !.sie = FALSE, !.spie = h.sie,
                       !.spp = IF h.mode = "U" THEN "U" ELSE "S"]
Mret(h) == [h EXCEPT !.mode = h.mpp, !.mpp = "U", !.mie = h.mpie, !.mpie = TRUE]
Sret(h) == [h EXCEPT !.mode = h.spp, !.spp = "U", !.sie = h.spie, !.spie = TRUE]

\* Mutant: MPP written with its reserved encoding for the supervisor.
MReturnBug(h, p) ==
    Mret([h EXCEPT !.mpp = IF Super(p) THEN "H" ELSE Hw(p), !.mpie = FALSE])

\* return_from_exception in M mode and the mret after it: MPP says where
\* curr_priv is, MPIE is cleared (so interrupts stay off in M).
MReturn(h, p) == Mret([h EXCEPT !.mpp = Hw(p), !.mpie = FALSE])
\* Mutant: PRIV_VS forgotten in the test for SPP.
SReturnBug(h, p) ==
    Sret([h EXCEPT !.spp = IF p = HS THEN "S" ELSE "U", !.spie = FALSE])

\* return_from_exception from HS and the sret after it.
SReturn(h, p) ==
    Sret([h EXCEPT !.spp = IF Super(p) THEN "S" ELSE "U", !.spie = FALSE])

Stop(why) ==
    /\ status' = why
    /\ UNCHANGED <<hart, epc, ip, curr_priv, real_priv, excpt, fault_inst>>

-----------------------------------------------------------------------------
(* mhandler(), from trap entry to mret.                                    *)

IsGoto(cause, args) == cause \in Ecalls /\ args.id = 1

\* goto_priv(t) called by mhandler, where real_priv is M.
MGotoArrives(t) == t = M
MGotoStays(t) == t # M /\ t = curr_priv /\ ~User(t)
MGotoReenters(t) == t # M /\ t > curr_priv /\ ~(User(t) /\ User(curr_priv))

\* Mutant: real_priv = curr_priv left out.
MHandlerDoneBug(p) ==
    /\ hart' = MReturn(hart, p)
    /\ epc' = [epc EXCEPT !.m = "other"]
    /\ curr_priv' = p
    /\ real_priv' = M
    /\ fault_inst' = FALSE
    /\ UNCHANGED status

MHandlerDone(p) ==
    /\ hart' = MReturn(hart, p)
    /\ epc' = [epc EXCEPT !.m = "other"]
    /\ curr_priv' = p
    /\ real_priv' = p
    /\ fault_inst' = FALSE
    /\ UNCHANGED status

MGoto(t) ==
    \/ /\ MGotoArrives(t) /\ MHandlerDone(M) /\ UNCHANGED <<excpt, ip>>
    \/ /\ MGotoStays(t) /\ MHandlerDone(curr_priv) /\ UNCHANGED <<excpt, ip>>
    \* ecall in M enters mhandler again with the same arguments, for ever
    \/ /\ MGotoReenters(t) /\ Stop("overflow")
    \* lower_priv leaves M inside the handler
    \/ /\ ~MGotoArrives(t) /\ ~MGotoStays(t) /\ ~MGotoReenters(t)
       /\ Stop("demoted")

Recorded(p, cause) ==
    [testing |-> FALSE, triggered |-> TRUE, priv |-> p, cause |-> cause]

\* "untested exception!" or "instruction fault without return address".
HandlerErrs(cause) ==
    \/ ~excpt.testing
    \/ cause \in InstFaults /\ ~fault_inst

MHandler(cause, args) ==
    \/ /\ IsGoto(cause, args)
       /\ MGoto(args.to)
    \/ /\ ~IsGoto(cause, args)
       /\ HandlerErrs(cause)
       /\ Stop("exit")
    \/ /\ ~IsGoto(cause, args)
       /\ ~HandlerErrs(cause)
       /\ ip' = ip \ ({cause} \cap MClear)
       /\ excpt' = Recorded(M, cause)
       /\ MHandlerDone(curr_priv)

\* Trap entry to S: hshandler starts, unless it was running already.
EnterHs(cause, pc1) ==
    IF pc["hs"] = "off"
    THEN /\ hart' = EnterS(hart)
         /\ epc' = [epc EXCEPT !.s = "other"]
         /\ pc' = [pc1 EXCEPT !["hs"] = "entry"]
         /\ scause' = cause
         /\ UNCHANGED <<ip, curr_priv, real_priv, excpt, fault_inst, status>>
    ELSE /\ Stop(IF cause \in Ecalls THEN "overflow" ELSE "nested")
         /\ pc' = pc1
         /\ UNCHANGED scause

\* A trap of the running activity, which goes on at pc1 once it is handled.
Trap(cause, args, pc1) ==
    IF Delegated(cause)
    THEN EnterHs(cause, pc1)
    ELSE MHandler(cause, args) /\ pc' = pc1 /\ UNCHANGED scause

EcallCause == CASE hart.mode = "U" -> "ecu" [] hart.mode = "S" -> "ecs"
                [] OTHER -> "ecm"
Level(cause) == IF Delegated(cause) THEN HS ELSE M

Active == IF pc["hs"] = "off" THEN "test" ELSE "hs"

\* A pending interrupt that the hart takes before the next instruction, the
\* M level first.
TakeIrq(i) ==
    /\ status = "run"
    /\ MTakes(i) \/ (STakes(i) /\ \A j \in Irqs : ~MTakes(j))
    /\ Trap(i, ecall_args, pc)
    /\ raised' = IF Active = "test" THEN [cause |-> i, level |-> Level(i)] ELSE raised
    /\ UNCHANGED <<csrs, ecall_args, todo, after, count, armed>>

-----------------------------------------------------------------------------
(* goto_priv() and lower_priv(), run by a test or by hshandler.            *)

\* Activity c executes its next instruction.
Runs(c) ==
    /\ status = "run"
    /\ ~IrqNow
    /\ c = Active
    /\ c = "hs" => hart.mode # "U"

At(c, l) == Runs(c) /\ pc[c] = l
Call1(c) == Head(todo[c])
Target(c) == Call1(c).to

Home(c) == IF c = "test" THEN "body" ELSE "record"
\* Where c goes on when the calls in rest are left to run.
Next1(c, rest) == [pc EXCEPT ![c] = IF rest = <<>> THEN Home(c) ELSE "goto"]
Drop(c) == [todo EXCEPT ![c] = Tail(@)]
Finish(c) == pc' = Next1(c, Tail(todo[c])) /\ todo' = Drop(c)

ViaM(c) == ~Call1(c).rest /\ User(Target(c)) /\ User(curr_priv)

\* User to user: first goto_priv(PRIV_M), then the rest of this call.
GotoUser(c) ==
    /\ At(c, "goto")
    /\ ViaM(c)
    /\ todo' = [todo EXCEPT ![c] = <<Goto(M), Rest(Target(c))>> \o Tail(@)]
    /\ UNCHANGED <<hart, epc, csrs, ip, curr_priv, real_priv, ecall_args, excpt,
                   fault_inst, pc, scause, after, count, status, hist>>

\* The framework is where the call wants it already.
GotoThere(c) ==
    /\ At(c, "goto")
    /\ ~ViaM(c)
    /\ real_priv = Target(c)
    /\ curr_priv' = Target(c)
    /\ Finish(c)
    /\ UNCHANGED <<hart, epc, csrs, ip, real_priv, ecall_args, excpt, fault_inst,
                   scause, after, count, status, hist>>

Rises(c) ==
    /\ At(c, "goto")
    /\ ~ViaM(c)
    /\ real_priv # Target(c)
    /\ Target(c) > curr_priv

\* Mutant: the inner goto_priv(PRIV_HS) left out.
GotoStairsBug(c) ==
    /\ Rises(c)
    /\ Target(c) = M /\ curr_priv = HU
    /\ todo' = [todo EXCEPT ![c] = <<Goto(M)>> \o Tail(@)]
    /\ UNCHANGED <<hart, epc, csrs, ip, curr_priv, real_priv, ecall_args, excpt,
                   fault_inst, pc, scause, after, count, status, hist>>

\* HU to M goes through HS, where the ecall of user mode is delegated to.
GotoStairs(c) ==
    /\ Rises(c)
    /\ Target(c) = M /\ curr_priv = HU
    /\ todo' = [todo EXCEPT ![c] = <<Goto(HS), Goto(M)>> \o Tail(@)]
    /\ UNCHANGED <<hart, epc, csrs, ip, curr_priv, real_priv, ecall_args, excpt,
                   fault_inst, pc, scause, after, count, status, hist>>

\* Upwards: ecall(ECALL_GOTO_PRIV, target); the handler continues the call.
GotoEcall(c) ==
    /\ Rises(c)
    /\ ~(Target(c) = M /\ curr_priv = HU)
    /\ ecall_args' = [id |-> 1, to |-> Target(c)]
    /\ todo' = Drop(c)
    /\ Trap(EcallCause, ecall_args', Next1(c, Tail(todo[c])))
    /\ UNCHANGED <<csrs, after, count, hist>>

Falls(c) ==
    /\ At(c, "goto")
    /\ ~ViaM(c)
    /\ real_priv # Target(c)
    /\ Target(c) <= curr_priv

\* lower_priv: nothing to do, a case it refuses, or the way down.
LowerEqual(c) ==
    /\ Falls(c)
    /\ Target(c) = curr_priv
    /\ Finish(c)
    /\ UNCHANGED <<hart, epc, csrs, ip, curr_priv, real_priv, ecall_args, excpt,
                   fault_inst, scause, after, count, status, hist>>

LowerRefused(c) ==
    /\ Falls(c)
    /\ Target(c) < curr_priv
    /\ User(curr_priv) \/ (curr_priv = VS /\ Target(c) = HU)
    /\ Stop("exit")
    /\ UNCHANGED <<csrs, ecall_args, pc, todo, scause, after, count, hist>>

LowerStart(c) ==
    /\ Falls(c)
    /\ Target(c) < curr_priv
    /\ ~User(curr_priv)
    /\ ~(curr_priv = VS /\ Target(c) = HU)
    /\ pc' = [pc EXCEPT ![c] = "l1"]
    /\ UNCHANGED <<hart, epc, csrs, ip, curr_priv, real_priv, ecall_args, excpt,
                   fault_inst, todo, scause, after, count, status, hist>>

\* The instructions of lower_priv use the CSRs of curr_priv.
MayLower == hart.mode = "M" \/ (hart.mode = "S" /\ curr_priv # M)

SetPrevPriv(c) ==
    /\ At(c, "l1")
    /\ MayLower
    /\ hart' = CASE curr_priv = M  -> [hart EXCEPT !.mpp = IF Super(Target(c)) THEN "S" ELSE "U"]
                 [] curr_priv = HS -> [hart EXCEPT !.spp = IF Super(Target(c)) THEN "S" ELSE "U"]
                 [] OTHER          -> [hart EXCEPT !.spp = "U"]
    /\ pc' = [pc EXCEPT ![c] = "l2"]
    /\ UNCHANGED <<epc, csrs, ip, curr_priv, real_priv, ecall_args, excpt, fault_inst,
                   todo, scause, after, count, status, hist>>

SetRealPriv(c) ==
    /\ At(c, "l2")
    /\ real_priv' = Target(c)
    /\ pc' = [pc EXCEPT ![c] = "l3"]
    /\ UNCHANGED <<hart, epc, csrs, ip, curr_priv, ecall_args, excpt, fault_inst,
                   todo, scause, after, count, status, hist>>

SetEpc(c) ==
    /\ At(c, "l3")
    /\ MayLower
    /\ epc' = IF curr_priv = M THEN [epc EXCEPT !.m = "label"] ELSE [epc EXCEPT !.s = "label"]
    /\ pc' = [pc EXCEPT ![c] = "l4"]
    /\ UNCHANGED <<hart, csrs, ip, curr_priv, real_priv, ecall_args, excpt, fault_inst,
                   todo, scause, after, count, status, hist>>

EpcIsLabel == (IF curr_priv = M THEN epc.m ELSE epc.s) = "label"

XretDown(c) ==
    /\ At(c, "l4")
    /\ MayLower
    /\ EpcIsLabel
    /\ hart' = IF curr_priv = M THEN Mret(hart) ELSE Sret(hart)
    /\ pc' = [pc EXCEPT ![c] = "l5"]
    /\ UNCHANGED <<epc, csrs, ip, curr_priv, real_priv, ecall_args, excpt, fault_inst,
                   todo, scause, after, count, status, hist>>

SetCurrPriv(c) ==
    /\ At(c, "l5")
    /\ curr_priv' = Target(c)
    /\ Finish(c)
    /\ UNCHANGED <<hart, epc, csrs, ip, real_priv, ecall_args, excpt, fault_inst,
                   scause, after, count, status, hist>>

\* The framework executes an instruction its mode does not allow, or an xret
\* whose epc a trap has overwritten; the model follows the run up to here.
Demoted ==
    /\ status = "run"
    /\ ~IrqNow
    /\ \/ Active = "hs" /\ hart.mode = "U"
       \/ \E c \in Threads : At(c, "l1") /\ ~MayLower
       \/ \E c \in Threads : At(c, "l3") /\ ~MayLower
       \/ \E c \in Threads : At(c, "l4") /\ ~(MayLower /\ EpcIsLabel)
       \/ pc["hs"] = "off" /\ pc["test"] = "body" /\ after # "body" /\ hart.mode # "M"
    /\ Stop("demoted")
    /\ UNCHANGED <<csrs, ecall_args, pc, todo, scause, after, count, hist>>

-----------------------------------------------------------------------------
(* hshandler().                                                            *)

\* Mutant: real_priv = PRIV_HS left out.
HsStartBug ==
    /\ At("hs", "entry")
    /\ IF IsGoto(scause, ecall_args)
       THEN /\ pc' = [pc EXCEPT !["hs"] = "goto"]
            /\ todo' = [todo EXCEPT !["hs"] = <<Goto(ecall_args.to)>>]
            /\ UNCHANGED status
       ELSE /\ IF scause \in Ecalls \/ ~excpt.testing
               THEN status' = "exit" /\ UNCHANGED pc
               ELSE pc' = [pc EXCEPT !["hs"] = "record"] /\ UNCHANGED status
            /\ UNCHANGED todo
    /\ UNCHANGED <<hart, epc, csrs, ip, curr_priv, real_priv, ecall_args, excpt,
                   fault_inst, scause, after, count, hist>>

HsStart ==
    /\ At("hs", "entry")
    /\ real_priv' = HS
    /\ IF IsGoto(scause, ecall_args)
       THEN /\ pc' = [pc EXCEPT !["hs"] = "goto"]
            /\ todo' = [todo EXCEPT !["hs"] = <<Goto(ecall_args.to)>>]
            /\ UNCHANGED status
       ELSE \* "unknown ecall", "untested exception!"
            /\ IF scause \in Ecalls \/ ~excpt.testing
               THEN status' = "exit" /\ UNCHANGED pc
               ELSE pc' = [pc EXCEPT !["hs"] = "record"] /\ UNCHANGED status
            /\ UNCHANGED todo
    /\ UNCHANGED <<hart, epc, csrs, ip, curr_priv, ecall_args, excpt, fault_inst,
                   scause, after, count, hist>>

\* Mutant: excpt.testing = false left out.
HsRecordBug ==
    /\ At("hs", "record")
    /\ ip' = ip \ ({scause} \cap SClear)
    /\ excpt' = IF scause \in Ecalls THEN excpt
                ELSE [Recorded(HS, scause) EXCEPT !.testing = excpt.testing]
    /\ fault_inst' = FALSE
    /\ pc' = [pc EXCEPT !["hs"] = "ret"]
    /\ UNCHANGED <<hart, epc, csrs, curr_priv, real_priv, ecall_args, todo, scause,
                   after, count, hist, status>>

HsRecord ==
    /\ At("hs", "record")
    /\ IF scause \in InstFaults /\ ~fault_inst
       THEN status' = "exit" /\ UNCHANGED <<ip, excpt, fault_inst, pc>>
       ELSE /\ ip' = ip \ ({scause} \cap SClear)
            /\ excpt' = IF scause \in Ecalls THEN excpt ELSE Recorded(HS, scause)
            /\ fault_inst' = FALSE
            /\ pc' = [pc EXCEPT !["hs"] = "ret"]
            /\ UNCHANGED status
    /\ UNCHANGED <<hart, epc, csrs, curr_priv, real_priv, ecall_args, todo, scause,
                   after, count, hist>>

\* temp_priv = real_priv picks the epilogue: after a nested switch to M the
\* handler leaves by mret.  For a privilege other than M and HS the epilogue
\* writes nothing.
HsReturn ==
    /\ At("hs", "ret")
    /\ IF real_priv = M /\ hart.mode # "M"
       THEN Stop("demoted") /\ UNCHANGED <<pc, scause>>
       ELSE /\ hart' = CASE real_priv = M  -> MReturn(hart, curr_priv)
                         [] real_priv = HS -> SReturn(hart, curr_priv)
                         [] OTHER          -> Sret(hart)
            /\ real_priv' = curr_priv
            /\ pc' = [pc EXCEPT !["hs"] = "off"]
            /\ scause' = "none"
            /\ UNCHANGED <<epc, ip, curr_priv, excpt, fault_inst, status>>
    /\ UNCHANGED <<csrs, ecall_args, todo, after, count, hist>>

-----------------------------------------------------------------------------
(* What a test case does.                                                  *)

Quiet == pc["hs"] = "off" /\ pc["test"] = "body" /\ after = "body"

\* One more operation of the running test case.
Op ==
    /\ Runs("test")
    /\ Quiet
    /\ ops < MaxOps
    /\ ops' = ops + 1
    /\ UNCHANGED tests

SetupExcept ==
    /\ Op
    /\ excpt' = [excpt EXCEPT !.testing = TRUE, !.triggered = FALSE]
    /\ fault_inst' = FALSE
    /\ raised' = NoTrap
    /\ armed' = TRUE
    /\ UNCHANGED <<hart, epc, csrs, ip, curr_priv, real_priv, ecall_args, pc, todo,
                   scause, after, status>>

\* The switches the registered test cases make: nothing climbs within the
\* supervisor or user level, user mode climbs by a delegated ecall, and the
\* test that delegates the ecall of S mode too (medeleg = -1) stays in M.
Climbs == User(curr_priv) => "ecu" \in medeleg
Supported(t) ==
    AnySwitch \/ /\ Climbs
                 /\ User(curr_priv) => t # VS
                 /\ curr_priv = VS => t \notin {HS, HU}
                 /\ "ecs" \in medeleg => t = M

CallGoto(t) ==
    /\ Op
    /\ Supported(t)
    /\ todo' = [todo EXCEPT !["test"] = <<Goto(t)>>]
    /\ pc' = [pc EXCEPT !["test"] = "goto"]
    /\ UNCHANGED <<hart, epc, csrs, ip, curr_priv, real_priv, ecall_args, excpt,
                   fault_inst, scause, after, status, hist>>

\* goto_priv_u_to_m_direct(PRIV_M), for user tests whose ecall is not delegated.
CallDirect ==
    /\ Runs("test")
    /\ Quiet
    /\ User(curr_priv) /\ "ecu" \notin medeleg
    /\ pc' = [pc EXCEPT !["test"] = "direct"]
    /\ UNCHANGED <<hart, epc, csrs, ip, curr_priv, real_priv, ecall_args, excpt,
                   fault_inst, todo, scause, after, count, status, hist>>

GotoDirect ==
    /\ At("test", "direct")
    /\ ecall_args' = [id |-> 1, to |-> M]
    /\ Trap(EcallCause, ecall_args', [pc EXCEPT !["test"] = "body"])
    /\ UNCHANGED <<csrs, todo, after, count, hist>>

Raise(e) ==
    /\ Op
    /\ raised' = [cause |-> e, level |-> Level(e)]
    /\ Trap(e, ecall_args, pc)
    /\ UNCHANGED <<csrs, ecall_args, todo, after, armed>>

\* TEST_EXEC_EXCEPT: the store of the return address, then the jump.
ExecStore ==
    /\ Op
    /\ fault_inst' = TRUE
    /\ pc' = [pc EXCEPT !["test"] = "jr"]
    /\ UNCHANGED <<hart, epc, csrs, ip, curr_priv, real_priv, ecall_args, excpt, todo,
                   scause, after, status, hist>>

ExecJump(e) ==
    /\ At("test", "jr")
    /\ raised' = [cause |-> e, level |-> Level(e)]
    /\ Trap(e, ecall_args, [pc EXCEPT !["test"] = "body"])
    /\ UNCHANGED <<csrs, ecall_args, todo, after, count, armed>>

InM == curr_priv = M /\ hart.mode = "M"

WriteMedeleg(d) ==
    /\ Op
    /\ InM
    /\ medeleg' = d
    /\ UNCHANGED <<hart, epc, mideleg, ie, ip, curr_priv, real_priv, ecall_args, excpt,
                   fault_inst, pc, todo, scause, after, status, hist>>

\* Writes of mie, mideleg and the two enables of mstatus.
SetupIrq(e, d, m, s) ==
    /\ Op
    /\ InM
    /\ ie' = e
    /\ mideleg' = d
    /\ hart' = [hart EXCEPT !.mie = m, !.sie = s]
    /\ UNCHANGED <<epc, medeleg, ip, curr_priv, real_priv, ecall_args, excpt,
                   fault_inst, pc, todo, scause, after, status, hist>>

\* The ecall that one test makes outside the framework, in M mode and armed.
RawEcall ==
    /\ Op
    /\ InM
    /\ armed
    /\ raised' = [cause |-> EcallCause, level |-> Level(EcallCause)]
    /\ Trap(EcallCause, ecall_args, pc)
    /\ UNCHANGED <<csrs, ecall_args, todo, after, armed>>

\* reset_state() in a test case, and TEST_END: goto_priv(PRIV_M); reset_state().
CallReset ==
    /\ Op
    /\ Climbs
    /\ todo' = [todo EXCEPT !["test"] = <<Goto(M)>>]
    /\ pc' = [pc EXCEPT !["test"] = "goto"]
    /\ after' = "reset"
    /\ UNCHANGED <<hart, epc, csrs, ip, curr_priv, real_priv, ecall_args, excpt,
                   fault_inst, scause, status, hist>>

TestEnd ==
    /\ Runs("test")
    /\ Quiet
    /\ Climbs
    /\ todo' = [todo EXCEPT !["test"] = <<Goto(M), Goto(M)>>]
    /\ pc' = [pc EXCEPT !["test"] = "goto"]
    /\ after' = "end"
    /\ UNCHANGED <<hart, epc, csrs, ip, curr_priv, real_priv, ecall_args, excpt,
                   fault_inst, scause, count, status, hist>>

\* Mutant: CSRW(mip, 0) left out.
ResetCsrsBug ==
    /\ hart' = ResetHart
    /\ epc' = [m |-> "other", s |-> "other"]
    /\ medeleg' = {"ecu"}
    /\ mideleg' = {}
    /\ ie' = {}
    /\ UNCHANGED ip

\* The CSR writes of reset_state, once its goto_priv is over.  CSRW(mip, 0)
\* clears the bits that software can clear.
ResetCsrs ==
    /\ hart' = ResetHart
    /\ epc' = [m |-> "other", s |-> "other"]
    /\ medeleg' = {"ecu"}
    /\ mideleg' = {}
    /\ ie' = {}
    /\ ip' = ip \ MClear

ResetState ==
    /\ Runs("test")
    /\ pc["hs"] = "off" /\ pc["test"] = "body" /\ after # "body"
    /\ hart.mode = "M"
    /\ ResetCsrs
    /\ after' = "body"
    /\ IF after = "end"
       THEN \* back in main, which calls reset_state() again before the next test
            /\ tests' = tests + 1
            /\ ops' = 0
            /\ status' = IF tests + 1 = NumTests THEN "done" ELSE status
            /\ raised' = NoTrap
            /\ armed' = FALSE
       ELSE UNCHANGED <<count, status, hist>>
    /\ UNCHANGED <<curr_priv, real_priv, ecall_args, excpt, fault_inst, pc, todo, scause>>

-----------------------------------------------------------------------------
(* Interrupt arrival, and the specifications.                              *)

Pend(i) ==
    /\ status = "run"
    /\ i \notin ip
    /\ ip' = ip \cup {i}
    /\ UNCHANGED <<hart, epc, csrs, curr_priv, real_priv, ecall_args, excpt, fault_inst,
                   pc, todo, scause, after, count, status, hist>>

\* The way most interrupt tests raise one: from the test's own code, taken at
\* once, by a handler that can clear it.
TakenAtOnce(i) ==
    /\ Quiet
    /\ i \in ie
    /\ IF i \in mideleg
       THEN i \in SClear /\ (hart.mode = "U" \/ (hart.mode = "S" /\ hart.sie))
       ELSE i \in MClear /\ (hart.mode # "M" \/ hart.mie)

PendAtOnce(i) == ip = {} /\ TakenAtOnce(i) /\ Pend(i)

Framework ==
    \/ \E c \in Threads :
          \/ GotoUser(c) \/ GotoThere(c) \/ GotoStairs(c) \/ GotoEcall(c)
          \/ LowerEqual(c) \/ LowerRefused(c) \/ LowerStart(c)
          \/ SetPrevPriv(c) \/ SetRealPriv(c) \/ SetEpc(c) \/ XretDown(c) \/ SetCurrPriv(c)
    \/ Demoted
    \/ HsStart \/ HsRecord \/ HsReturn
    \/ GotoDirect
    \/ \E i \in Irqs : TakeIrq(i)
    \/ \E e \in InstFaults : ExecJump(e)
    \/ ResetState

TestCase ==
    \/ SetupExcept \/ ExecStore \/ CallReset
    \/ \E t \in Targets : CallGoto(t)
    \/ \E e \in Excs : Raise(e)
    \/ \E d \in DelegChoices : WriteMedeleg(d)
    \/ \E e \in {{}, Irqs}, d \in {{}, SIrqs}, m, s \in BOOLEAN : SetupIrq(e, d, m, s)

Halted == status # "run" /\ UNCHANGED vars

\* The test case comes back to M and ends.
Leave == CallDirect \/ TestEnd

Step == Framework \/ TestCase \/ Leave

Next == Step \/ Halted \/ \E i \in Irqs : PendAtOnce(i)
RawNext == Next \/ RawEcall
SelfNext == Next \/ \E i \in Irqs : Quiet /\ Pend(i)
AsyncNext == Step \/ Halted \/ \E i \in Irqs : Pend(i)

Spec == Init /\ [][Next]_vars
RawSpec == Init /\ [][RawNext]_vars
\* The tests raise interrupts that are taken later, on the way to another mode.
SelfSpec == Init /\ [][SelfNext]_vars
\* Devices raise them at any moment.
AsyncSpec == Init /\ [][AsyncNext]_vars

\* The hart keeps executing instructions, and a test case comes to its end.
Fairness == WF_vars(Framework) /\ WF_vars(Leave)
FairSpec == Spec /\ Fairness

-----------------------------------------------------------------------------
(* Properties.                                                             *)

\* When the test case's own code runs, the hart is in the mode curr_priv
\* stands for, and real_priv agrees: no trap, nested trap or switch has left
\* the framework's idea of the privilege behind the hart (curr_priv and
\* real_priv in lower_priv, goto_priv and the handlers).
PrivAgrees ==
    (status = "run" /\ Quiet) =>
        /\ hart.mode = Hw(curr_priv)
        /\ real_priv = curr_priv

\* A switch the framework supports never leaves it in a handler that calls
\* itself for ever, in a second hshandler above the first, or running
\* privileged code in a mode that may not.
SwitchesSound == status \notin {"overflow", "nested", "demoted"}

\* A trap the test case met has been recorded with its cause and with the
\* level the delegation sends it to, whatever handler steps came between.
TrapRecorded ==
    (status = "run" /\ Quiet /\ ~IrqNow /\ raised # NoTrap) =>
        excpt = Recorded(raised.level, raised.cause)

\* reset_state() returns in M mode, with its CSRs written and with no pending
\* interrupt that software can clear, in the middle of a test and at its end,
\* whatever that test did and wherever interrupts have hit it; and the next
\* test finds it so: what arrives before its first operation is not taken.
Pristine ==
    /\ hart = ResetHart
    /\ medeleg = {"ecu"} /\ mideleg = {} /\ ie = {}
    /\ curr_priv = M /\ real_priv = M
FreshStart ==
    /\ [](status = "run" /\ Quiet /\ ops = 0 => Pristine)
    /\ [][after # "body" /\ after' = "body" => Pristine' /\ ip' \cap MClear = {}]_vars

\* Every run of the framework comes to exit(), at the end of test_table or by
\* ERROR: every goto_priv comes back, those the handlers call too, no handler
\* executes ecall for ever, and no test is left where it cannot go on.
Over == status \in {"done", "exit"}
RunEnds == <>Over

-----------------------------------------------------------------------------
(***************************************************************************)
(* The inductive invariant behind PrivAgrees: what holds at each point of  *)
(* lower_priv and of hshandler, and where an interrupt can be pending.     *)
(***************************************************************************)
Settled == real_priv = curr_priv /\ hart.mode = Hw(curr_priv)

PcOK ==
    /\ pc["test"] \in {"body", "jr", "direct", "goto"} \cup Lower
    /\ pc["hs"] \in {"off", "entry", "goto", "record", "ret"} \cup Lower
    /\ \A c \in Threads : pc[c] \in {"goto"} \cup Lower => todo[c] # <<>>

\* c is inside lower_priv: what the CSRs and real_priv hold at each label.
LowerInv(c) ==
    /\ Target(c) < curr_priv
    /\ ~User(curr_priv)
    /\ pc[c] # "l5" => hart.mode = Hw(curr_priv)
    /\ pc[c] \in {"l2", "l3", "l4"} =>
          (IF curr_priv = M THEN hart.mpp ELSE hart.spp) = Hw(Target(c))
    /\ pc[c] \in {"l3", "l4", "l5"} => real_priv = Target(c)
    /\ pc[c] = "l5" => hart.mode = Hw(Target(c))

TestInv ==
    pc["hs"] = "off" =>
        /\ pc["test"] \notin Lower => Settled
        /\ pc["test"] \in Lower => LowerInv("test")
        /\ pc["test"] = "direct" => User(curr_priv)

InHs == real_priv = HS /\ hart.mode = "S" /\ curr_priv # M
InMachine == real_priv = M /\ hart.mode = "M" /\ curr_priv = M

HsInv ==
    pc["hs"] # "off" =>
        /\ pc["test"] \in {"body", "goto"}
        /\ pc["hs"] = "entry" =>
              /\ hart.mode = "S" /\ curr_priv # M
              /\ scause \in Ecalls => (ecall_args.to = VS => User(curr_priv))
        /\ pc["hs"] \in {"goto", "record", "ret"} => InHs \/ InMachine \/ hart.mode = "U"
        /\ pc["hs"] \in Lower => LowerInv("hs")

\* The only goto_priv(PRIV_VS) hshandler makes is for a user caller.
NoVS(calls) == \A k \in 1 .. Len(calls) : calls[k].to # VS
HsCalls ==
    (pc["hs"] \in {"goto"} \cup Lower) =>
        \/ NoVS(todo["hs"])
        \/ pc["hs"] = "goto" /\ User(curr_priv) /\ InHs /\ todo["hs"] = <<Goto(VS)>>

IrqInv ==
    \A i \in ip :
        /\ ip = {i}
        /\ \/ TakenAtOnce(i)
           \/ /\ pc["hs"] \in {"entry", "record"}
              /\ scause = i /\ i \in mideleg \cap SClear
              /\ hart.mode = "S" /\ ~hart.sie

\* The invariant TrapProofs shows to be inductive.
IInv ==
    /\ TypeOK
    /\ PcOK
    /\ status = "run" => TestInv /\ HsInv /\ HsCalls /\ IrqInv

-----------------------------------------------------------------------------
(***************************************************************************)
(* The inductive invariants behind TrapRecorded, SwitchesSound and         *)
(* SwitchesOnly.                                                           *)
(***************************************************************************)
\* From trap entry to HsRecord the cause is only in scause.
RecInv ==
    /\ raised # NoTrap =>
          IF pc["hs"] \in {"entry", "record"} /\ scause \notin Ecalls
          THEN raised = [cause |-> scause, level |-> HS]
          ELSE excpt = Recorded(raised.level, raised.cause)
    /\ pc["hs"] \in {"goto"} \cup Lower => scause \in Ecalls

Final(calls) == calls[Len(calls)].to

\* The call has a supported way from privilege p: see Supported.
Legal(p, call) ==
    /\ User(p) => "ecu" \in medeleg /\ call.to # VS /\ ~call.rest
    /\ p = VS => call.to \notin {HS, HU}

\* A call that follows another one starts in M, or climbs from HS to M.
Chain(calls) ==
    \A k \in 2 .. Len(calls) :
        \/ calls[k - 1].to = M
        \/ calls[k - 1].to = HS /\ calls[k].to = M

\* hshandler is at work on a goto_priv of the test.
Serving == pc["hs"] # "off" /\ IsGoto(scause, ecall_args)

\* Where the current call of the test leaves from, and where the whole switch
\* leads to when the test waits for hshandler only.
From == IF Serving THEN ecall_args.to ELSE curr_priv

HsServes ==
    /\ pc["hs"] \notin Lower
    /\ pc["hs"] # "off" /\ scause \in Ecalls => ecall_args.id = 1 /\ ecall_args.to \in {HS, M}
    /\ pc["hs"] = "goto" =>
          /\ InHs /\ Serving
          /\ todo["hs"] \in {<<Goto(HS)>>, <<Goto(M)>>, <<Goto(HS), Goto(M)>>}
          /\ Final(todo["hs"]) = ecall_args.to
    /\ pc["hs"] \in {"record", "ret"} =>
          /\ InHs \/ InMachine
          /\ Serving => curr_priv = ecall_args.to

TestCalls ==
    /\ pc["test"] \in {"goto"} \cup Lower => Chain(todo["test"])
    /\ pc["test"] = "goto" =>
          /\ Legal(From, Call1("test"))
          /\ pc["hs"] # "off" => Serving
    /\ pc["test"] \in {"body", "jr", "direct"} => todo["test"] = <<>>
    /\ pc["test"] = "l4" => EpcIsLabel
    /\ pc["test"] = "direct" => "ecu" \notin medeleg

\* reset_state and TEST_END have asked for M.
Returns ==
    after # "body" =>
        /\ pc["test"] \notin {"jr", "direct"}
        /\ IF todo["test"] # <<>> THEN Final(todo["test"]) = M ELSE From = M

\* Nothing leaves M while the ecall that would bring it back is delegated.
StaysInM ==
    "ecs" \in medeleg =>
        /\ curr_priv = M /\ pc["hs"] = "off" /\ pc["test"] \in {"body", "jr", "goto"}
        /\ \A k \in 1 .. Len(todo["test"]) : todo["test"][k].to = M

SwitchInv == status = "run" => StaysInM /\ HsServes /\ TestCalls /\ Returns

RecordInv == status = "run" => RecInv

-----------------------------------------------------------------------------
(***************************************************************************)
(* The abstract view: see PrivSwitch.  While the test's own code or a trap *)
(* handler for it runs no switch is under way; a switch is under way from  *)
(* the call until the outermost goto_priv is back in the test.             *)
(***************************************************************************)
Goal ==
    CASE pc["test"] = "direct"                          -> {M}
      [] pc["test"] \in {"goto"} \cup Lower              -> {Final(todo["test"])}
      [] pc["test"] \in {"body", "jr"} /\ Serving        -> {ecall_args.to}
      [] OTHER                                          -> {}
Where == [priv |-> curr_priv,
          mode |-> IF pc["hs"] = "off" THEN hart.mode ELSE Hw(curr_priv)]

Switch == INSTANCE PrivSwitch WITH at <- Where, goal <- Goal, alive <- status = "run"

\* The framework implements PrivSwitch: what the test sees of the privilege
\* changes only by a goto_priv it made, and then to the privilege asked for;
\* traps and interrupts are invisible to it.
SwitchesOnly == Switch!Spec
=============================================================================
