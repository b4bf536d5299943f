---------------------------- MODULE ScriptProofs ----------------------------
(***************************************************************************)
(* What each of the memory tests, as a script, makes of the privilege and  *)
(* of the protection registers: at every statement enough is known of them *)
(* for the statement to be legal there, and for the program's own page to  *)
(* stay open, under PMP once reset_state is done and under PMA throughout. *)
(*                                                                         *)
(* The argument is that of a type system. A state of knowledge has the     *)
(* privilege and a set of register contents for PMP and one for PMA; one   *)
(* lemma for each statement says from which knowledge to which it leads;   *)
(* and a script is a chain of such statements from the knowledge every     *)
(* test starts with. MemoryProofs carries this over to MemoryTests.        *)
(***************************************************************************)
EXTENDS MemoryTests, SequenceTheorems, TLAPS

(* The values the proofs work with: a register file as a record of rights  *)
(* and bounds.                                                             *)
Modes == {M, HS, HU}
Bits == {"R", "W", "X", "T", "C", "L"}
Regs == [cfg : [Slots -> SUBSET Bits], addr : [Slots -> 0 .. Top]]
Rights == {"R", "W", "X"}

(* What is known of the registers of PMP. PmpKept: the first entry has     *)
(* every right if it is locked, and its bound lies above the program if    *)
(* that is locked, so that reset_state leaves the program open either way. *)
(* PmpFar: its bound lies above the program. PmpFull: it has every right   *)
(* too, so that the program is open.                                       *)
PmpKept == {regs \in Regs :
    /\ "L" \in regs.cfg[0] => RWXT \subseteq regs.cfg[0]
    /\ AddrLocked(regs, 0) => regs.addr[0] > Home}
PmpFar == {regs \in PmpKept : regs.addr[0] > Home}
PmpFull == {regs \in PmpFar : RWXT \subseteq regs.cfg[0]}

(* What is known of the registers of PMA. PmaMap: the first entry, if on,  *)
(* keeps every right, and those of the platform map are as at reset.       *)
(* PmaKept: an entry below the map that is on keeps every right or begins  *)
(* above the program. PmaOff to PmaAll are the stages tests go through on  *)
(* the way to a range closed above the program: no entry on; the bound of  *)
(* entry 0 above the program; then the entries 1, 1 and 2 in sequence, and *)
(* all three, begin above it.                                              *)
Off(regs, i) == "T" \notin regs.cfg[i] /\ "L" \notin regs.cfg[i]
Far(regs, i) == regs.addr[i] > Home
PmaMap == {regs \in Regs :
    /\ regs.cfg[0] = {} \/ Rights \subseteq regs.cfg[0]
    /\ "L" \notin regs.cfg[0]
    /\ \A i \in 4 .. 11 : regs.cfg[i] = {}
    /\ \A i \in 12 .. 15 : regs.cfg[i] = MapCfg(i) /\ regs.addr[i] = Map(i)}
PmaKept == {regs \in PmaMap : \A i \in 1 .. 3 :
                "T" \in regs.cfg[i] => Rights \subseteq regs.cfg[i] \/ Far(regs, i - 1)}
PmaOff == {regs \in PmaMap : Off(regs, 1) /\ Off(regs, 2) /\ Off(regs, 3)}
PmaBased == {regs \in PmaOff : Far(regs, 0)}
PmaOne == {regs \in PmaMap : Far(regs, 0) /\ Off(regs, 2) /\ Off(regs, 3)}
PmaPair == {regs \in PmaMap : /\ Far(regs, 0) /\ Far(regs, 1)
                              /\ "L" \notin regs.cfg[1] /\ Off(regs, 2) /\ Off(regs, 3)}
PmaAll == {regs \in PmaMap : \A i \in 0 .. 2 : Far(regs, i) /\ "L" \notin regs.cfg[i + 1]}

-----------------------------------------------------------------------------
(* The steps the tests are made of.                                        *)
Csrs == {"pmp", "pma"}
Faults == {"none", "IAF", "LAF", "SAF", "IPF", "LPF", "SPF"}
Moves == [op : {"go"}, priv : Modes]
Brackets == [op : {"arm", "end"}]
Judgements == [op : {"expect"}, cause : Faults, priv : Modes]
Accesses == [op : {"do"}, kind : Kinds \cup {"code"}, page : Int]
WholeWrites == [op : {"clear", "preamble"}, csr : Csrs]
BitWrites == [op : {"set", "unset"}, csr : Csrs, i : Slots, bits : SUBSET Bits]
BoundWrites == [op : {"addr"}, csr : Csrs, i : Slots, frame : 0 .. Top]
StatusWrites == [op : {"status"}, field : {MPRV, MPP, SUM, MXR}, value : BOOLEAN, priv : {M, HS}]
Delegations == [op : {"delegate"}, cause : Faults]
SatpWrites == {[op |-> "satp", on |-> FALSE], [op |-> "satp", on |-> TRUE, asid |-> \h1234]}
Fences == [op : {"fence"}, page : Int, asid : Int]
Calls == [op : {"hspt"}, f : Setters]
EntryWrites == [op : {"entry"}, f : {"DelV", "AddN"}, e : Entries]

Steps == Moves \cup Brackets \cup Judgements \cup Accesses \cup WholeWrites \cup BitWrites
         \cup BoundWrites \cup StatusWrites \cup Delegations \cup SatpWrites \cup Fences
         \cup Calls \cup EntryWrites

(* What step x makes of the registers of csr.                              *)
Written(x, csr, regs) ==
    CASE x.op = "clear" /\ x.csr = csr    -> Cleared(regs)
      [] x.op = "preamble" /\ x.csr = csr -> Preambled(regs)
      [] x.op = "set" /\ x.csr = csr      -> WriteCfg(regs, x.i, regs.cfg[x.i] \cup x.bits)
      [] x.op = "unset" /\ x.csr = csr    -> WriteCfg(regs, x.i, regs.cfg[x.i] \ x.bits)
      [] x.op = "addr" /\ x.csr = csr     -> WriteAddr(regs, x.i, x.frame)
      [] OTHER                            -> regs

(* What is known at a point of a script: the privilege, and sets the two   *)
(* register files are in. Step x leads from knowledge a to knowledge b     *)
(* when it is legal at the privilege of a and takes every register file of *)
(* a to one of b.                                                          *)
State == [priv : Modes, pmp : SUBSET PmpKept, pma : SUBSET PmaKept]
Is(p, P, Q) == [priv |-> p, pmp |-> P, pma |-> Q]
Fit(x, a, b) ==
    /\ x \in Steps
    /\ x.op \in MachineOnly => a.priv = M
    /\ x.op \in {"satp", "fence"} => a.priv \in {M, HS}
    /\ x.op = "status" => a.priv \in {M, x.priv}
    /\ b.priv = IF x.op = "go" THEN x.priv ELSE a.priv
    /\ \A regs \in a.pmp : Written(x, "pmp", regs) \in b.pmp
    /\ \A regs \in a.pma : Written(x, "pma", regs) \in b.pma

(* f knows something at every point of s, from the knowledge every test    *)
(* starts with: M-mode, PMP opened by reset_state, and no entry of PMA on  *)
(* between the first and those of the platform map.                        *)
Along(s, f) ==
    /\ f \in [1 .. Len(s) + 1 -> State]
    /\ f[1] = Is(M, PmpFull, PmaOff)
    /\ \A i \in 1 .. Len(s) : Fit(s[i], f[i], f[i + 1])
(* The script s can be followed, and a is known at its end.                *)
Reaches(s, a) == s \in Seq(Steps) /\ \E f : Along(s, f) /\ f[Len(s) + 1] = a
At(p, P, Q) == {s \in Seq(Steps) : Reaches(s, Is(p, P, Q))}

-----------------------------------------------------------------------------
(* Scripts grow by one step at a time.                                     *)
LEMMA Parts ==
    /\ PmpFull \in SUBSET PmpKept /\ PmpFar \in SUBSET PmpKept
    /\ PmaOff \in SUBSET PmaKept /\ PmaBased \in SUBSET PmaKept /\ PmaOne \in SUBSET PmaKept
    /\ PmaPair \in SUBSET PmaKept /\ PmaAll \in SUBSET PmaKept
BY DEF PmpFull, PmpFar, PmaOff, PmaKept, PmaBased, PmaOne, PmaPair, PmaAll, Off, Far

(* A step that fits at the end of a script extends it.                     *)
LEMMA AppendStep ==
    ASSUME NEW s, NEW a, Reaches(s, a), NEW x, NEW b \in State, Fit(x, a, b)
    PROVE  Reaches(s \o <<x>>, b)
<1>1. s \in Seq(Steps) /\ x \in Steps
    BY DEF Reaches, Fit
<1>2. PICK f : Along(s, f) /\ f[Len(s) + 1] = a
    BY DEF Reaches
<1> DEFINE t == s \o <<x>>
           g == [i \in 1 .. Len(s) + 2 |-> IF i = Len(s) + 2 THEN b ELSE f[i]]
<1>3. <<x>> \in Seq(Steps) /\ Len(<<x>>) = 1 /\ <<x>>[1] = x
    BY <1>1
<1>4. /\ t \in Seq(Steps) /\ Len(t) = Len(s) + 1 /\ Len(s) \in Nat
      /\ \A i \in 1 .. Len(s) : t[i] = s[i]
      /\ t[Len(s) + 1] = x
    BY <1>1, <1>3, ConcatProperties, LenProperties
<1>5. g \in [1 .. Len(t) + 1 -> State] /\ g[1] = f[1] /\ g[Len(t) + 1] = b
    BY <1>2, <1>4 DEF Along
<1>6. ASSUME NEW i \in 1 .. Len(t) PROVE Fit(t[i], g[i], g[i + 1])
    <2>1. CASE i = Len(s) + 1
        BY <2>1, <1>2, <1>4
    <2>2. CASE i # Len(s) + 1
        <3>1. i \in 1 .. Len(s)
            BY <2>2, <1>4
        <3>2. g[i] = f[i] /\ g[i + 1] = f[i + 1] /\ t[i] = s[i]
            BY <3>1, <1>4
        <3> QED BY <3>1, <3>2, <1>2 DEF Along
    <2> QED BY <2>1, <2>2
<1>7. Along(t, g)
    BY <1>2, <1>5, <1>6 DEF Along
<1> HIDE DEF g
<1> QED BY <1>4, <1>5, <1>7 DEF Reaches

(* What being at some knowledge says of its parts.                         *)
LEMMA StepFacts ==
    ASSUME NEW s, NEW p, NEW P, NEW Q, s \in At(p, P, Q)
    PROVE  s \in Seq(Steps) /\ p \in Modes /\ P \in SUBSET PmpKept /\ Q \in SUBSET PmaKept
<1>1. s \in Seq(Steps) /\ Reaches(s, Is(p, P, Q))
    BY DEF At
<1>2. PICK f : Along(s, f) /\ f[Len(s) + 1] = Is(p, P, Q)
    BY <1>1 DEF Reaches
<1>3. Len(s) + 1 \in 1 .. Len(s) + 1
    BY <1>1, LenProperties
<1>4. Is(p, P, Q) \in State
    BY <1>2, <1>3 DEF Along
<1> QED BY <1>1, <1>4 DEF Is, State

(* One step more.                                                          *)
LEMMA OneMore ==
    ASSUME NEW s, NEW p, NEW P, NEW Q, s \in At(p, P, Q),
           NEW x \in Steps, NEW p2 \in Modes, NEW P2 \in SUBSET PmpKept, NEW Q2 \in SUBSET PmaKept,
           Fit(x, Is(p, P, Q), Is(p2, P2, Q2))
    PROVE  s \o <<x>> \in At(p2, P2, Q2)
<1>1. Is(p2, P2, Q2) \in State
    BY DEF Is, State
<1>2. Reaches(s \o <<x>>, Is(p2, P2, Q2))
    BY <1>1, AppendStep DEF At
<1> QED BY <1>2 DEF At, Reaches

(* What every test starts with.                                            *)
LEMMA AtStart == <<>> \in At(M, PmpFull, PmaOff)
<1> DEFINE f == [i \in 1 .. 1 |-> Is(M, PmpFull, PmaOff)]
<1>1. <<>> \in Seq(Steps) /\ Len(<<>>) = 0
    BY EmptySeq
<1>2. Is(M, PmpFull, PmaOff) \in State
    BY Parts DEF State, Is, Modes
<1>3. Along(<<>>, f)
    BY <1>1, <1>2 DEF Along
<1>4. f[Len(<<>>) + 1] = Is(M, PmpFull, PmaOff)
    BY <1>1
<1> HIDE DEF f
<1>5. Reaches(<<>>, Is(M, PmpFull, PmaOff))
    BY <1>1, <1>3, <1>4 DEF Reaches
<1> QED BY <1>1, <1>5 DEF At

(* Each kind of step is one of Steps.                                      *)
LEMMA InSteps ==
    \A x : \/ x \in Moves \/ x \in Brackets \/ x \in Judgements \/ x \in Accesses
          \/ x \in WholeWrites \/ x \in BitWrites \/ x \in BoundWrites \/ x \in StatusWrites
          \/ x \in Delegations \/ x \in SatpWrites \/ x \in Fences \/ x \in Calls
          \/ x \in EntryWrites
          => x \in Steps
BY DEF Steps

-----------------------------------------------------------------------------
(* A step that touches neither registers nor the privilege.                *)
Touchless == {"arm", "end", "expect", "do", "status", "delegate", "satp", "fence", "hspt", "entry"}

LEMMA AfterTouchless ==
    ASSUME NEW s, NEW p, NEW P, NEW Q, s \in At(p, P, Q),
           NEW x \in Steps, x.op \in Touchless,
           x.op = "delegate" => p = M, x.op \in {"satp", "fence"} => p \in {M, HS},
           x.op = "status" => p \in {M, x.priv}
    PROVE  s \o <<x>> \in At(p, P, Q)
<1>1. \A regs : Written(x, "pmp", regs) = regs /\ Written(x, "pma", regs) = regs
    BY DEF Written, Touchless
<1>2. Fit(x, Is(p, P, Q), Is(p, P, Q))
    BY <1>1 DEF Fit, Is, Touchless, MachineOnly
<1> QED BY <1>2, OneMore, StepFacts

(* Statements that leave the registers alone.                              *)
LEMMA AfterGo ==
    ASSUME NEW s, NEW p, NEW P, NEW Q, s \in At(p, P, Q), NEW t \in Modes
    PROVE  s \o Go(t) \in At(t, P, Q)
<1> DEFINE x == [op |-> "go", priv |-> t]
<1>1. x \in Steps
    BY InSteps DEF Moves
<1>2. \A regs : Written(x, "pmp", regs) = regs /\ Written(x, "pma", regs) = regs
    BY DEF Written
<1>3. Fit(x, Is(p, P, Q), Is(t, P, Q))
    BY <1>1, <1>2 DEF Fit, Is, MachineOnly
<1> QED BY <1>1, <1>3, OneMore, StepFacts DEF Go

LEMMA AfterArm ==
    ASSUME NEW s, NEW p, NEW P, NEW Q, s \in At(p, P, Q)
    PROVE  s \o Arm \in At(p, P, Q) /\ s \o End \in At(p, P, Q)
<1>1. [op |-> "arm"] \in Steps /\ [op |-> "end"] \in Steps
    BY InSteps DEF Brackets
<1> QED BY <1>1, AfterTouchless DEF Arm, End, Touchless

LEMMA AfterExpect ==
    ASSUME NEW s, NEW p, NEW P, NEW Q, s \in At(p, P, Q), NEW c \in Faults
    PROVE  /\ s \o Expect(c) \in At(p, P, Q)
           /\ \A at \in Modes : s \o ExpectAt(c, at) \in At(p, P, Q)
<1>1. \A at \in Modes : [op |-> "expect", cause |-> c, priv |-> at] \in Steps
    BY InSteps DEF Judgements
<1>2. \A at \in Modes : s \o <<[op |-> "expect", cause |-> c, priv |-> at]>> \in At(p, P, Q)
    BY <1>1, AfterTouchless DEF Touchless
<1> QED BY <1>2 DEF Expect, ExpectAt, Modes

LEMMA AfterDo ==
    ASSUME NEW s, NEW p, NEW P, NEW Q, s \in At(p, P, Q), NEW k \in Kinds, NEW page \in Int
    PROVE  s \o Do(k, page) \in At(p, P, Q) /\ s \o StoreRet(page) \in At(p, P, Q)
<1>1. \A y \in Kinds \cup {"code"} : [op |-> "do", kind |-> y, page |-> page] \in Steps
    BY InSteps DEF Accesses
<1>2. \A y \in Kinds \cup {"code"} : s \o <<[op |-> "do", kind |-> y, page |-> page]>> \in At(p, P, Q)
    BY <1>1, AfterTouchless DEF Touchless
<1> QED BY <1>2 DEF Do, StoreRet

(* Statements of several steps.                                            *)
LEMMA ThreeSteps ==
    ASSUME NEW s \in Seq(Steps), NEW x \in Steps, NEW y \in Steps, NEW z \in Steps
    PROVE  s \o (<<x>> \o <<y>> \o <<z>>) = ((s \o <<x>>) \o <<y>>) \o <<z>>
<1>1. <<x>> \in Seq(Steps) /\ <<y>> \in Seq(Steps) /\ <<z>> \in Seq(Steps)
    OBVIOUS
<1>2. <<x>> \o <<y>> \in Seq(Steps)
    BY <1>1, ConcatProperties
<1>3. s \o ((<<x>> \o <<y>>) \o <<z>>) = (s \o (<<x>> \o <<y>>)) \o <<z>>
    BY <1>1, <1>2, ConcatAssociative
<1>4. s \o (<<x>> \o <<y>>) = (s \o <<x>>) \o <<y>>
    BY <1>1, ConcatAssociative
<1> QED BY <1>3, <1>4

LEMMA AfterTry ==
    ASSUME NEW s, NEW p, NEW P, NEW Q, s \in At(p, P, Q), NEW k \in Kinds, NEW page \in Int,
           NEW c \in Faults
    PROVE  /\ s \o Try(k, page, c) \in At(p, P, Q)
           /\ \A at \in Modes : s \o TryAt(k, page, c, at) \in At(p, P, Q)
<1>1. ASSUME NEW at \in Modes PROVE s \o TryAt(k, page, c, at) \in At(p, P, Q)
    <2> DEFINE x == [op |-> "arm"]
               y == [op |-> "do", kind |-> k, page |-> page]
               z == [op |-> "expect", cause |-> c, priv |-> at]
    <2>1. x \in Brackets /\ y \in Accesses /\ z \in Judgements /\ s \in Seq(Steps)
        BY StepFacts DEF Brackets, Accesses, Judgements
    <2> HIDE DEF x, y, z
    <2>a. x \in Steps /\ y \in Steps /\ z \in Steps
        BY <2>1, InSteps
    <2> USE DEF x, y, z
    <2>2. s \o TryAt(k, page, c, at) = ((s \o <<x>>) \o <<y>>) \o <<z>>
        BY <2>1, <2>a, ThreeSteps DEF TryAt, Arm, Do, ExpectAt
    <2>3. s \o <<x>> \in At(p, P, Q)
        BY <2>a, AfterTouchless DEF Touchless
    <2>4. (s \o <<x>>) \o <<y>> \in At(p, P, Q)
        BY <2>a, <2>3, AfterTouchless DEF Touchless
    <2>5. ((s \o <<x>>) \o <<y>>) \o <<z>> \in At(p, P, Q)
        BY <2>a, <2>4, AfterTouchless DEF Touchless
    <2> QED BY <2>2, <2>5
<1>2. Try(k, page, c) = TryAt(k, page, c, M)
    BY DEF Try, TryAt, Expect, ExpectAt
<1> QED BY <1>1, <1>2 DEF Modes

LEMMA AfterTables ==
    ASSUME NEW s, NEW p, NEW P, NEW Q, s \in At(p, P, Q)
    PROVE  /\ \A f \in Setters : s \o Hspt(f) \in At(p, P, Q)
           /\ \A f \in {"DelV", "AddN"}, t \in Nat, i \in Nat :
                  <<t, i>> \in Entries => s \o HsptEntry(f, t, i) \in At(p, P, Q)
<1>1. ASSUME NEW f \in Setters PROVE s \o Hspt(f) \in At(p, P, Q)
    <2>1. [op |-> "hspt", f |-> f] \in Steps
        BY InSteps DEF Calls
    <2> QED BY <2>1, AfterTouchless DEF Touchless, Hspt
<1>2. ASSUME NEW f \in {"DelV", "AddN"}, NEW t \in Nat, NEW i \in Nat, <<t, i>> \in Entries
      PROVE  s \o HsptEntry(f, t, i) \in At(p, P, Q)
    <2>1. [op |-> "entry", f |-> f, e |-> <<t, i>>] \in Steps
        BY <1>2, InSteps DEF EntryWrites
    <2> QED BY <2>1, AfterTouchless DEF Touchless, HsptEntry
<1> QED BY <1>1, <1>2

LEMMA AfterMachine ==
    ASSUME NEW s, NEW P, NEW Q, s \in At(M, P, Q)
    PROVE  /\ \A field \in {MPRV, MPP, SUM, MXR} :
                  s \o Raise(field) \in At(M, P, Q) /\ s \o Lower(field) \in At(M, P, Q)
           /\ \A c \in Faults : s \o Delegate(c) \in At(M, P, Q)
<1>1. ASSUME NEW field \in {MPRV, MPP, SUM, MXR}, NEW v \in BOOLEAN
      PROVE  s \o <<[op |-> "status", field |-> field, value |-> v, priv |-> M]>> \in At(M, P, Q)
    <2>1. [op |-> "status", field |-> field, value |-> v, priv |-> M] \in Steps
        BY InSteps DEF StatusWrites
    <2> QED BY <2>1, AfterTouchless DEF Touchless
<1>2. ASSUME NEW c \in Faults PROVE s \o Delegate(c) \in At(M, P, Q)
    <2>1. [op |-> "delegate", cause |-> c] \in Steps
        BY InSteps DEF Delegations
    <2> QED BY <2>1, AfterTouchless DEF Touchless, Delegate
<1> QED BY <1>1, <1>2 DEF Raise, Lower

LEMMA AfterSupervisor ==
    ASSUME NEW s, NEW p \in {M, HS}, NEW P, NEW Q, s \in At(p, P, Q)
    PROVE  /\ \A field \in {MPRV, MPP, SUM, MXR} :
                  s \o SRaise(field) \in At(p, P, Q) /\ s \o SLower(field) \in At(p, P, Q)
           /\ s \o SatpOff \in At(p, P, Q) /\ s \o Asid(\h1234) \in At(p, P, Q)
           /\ \A page \in Int, asid \in Int : s \o FenceOf(page, asid) \in At(p, P, Q)
           /\ s \o Fence \in At(p, P, Q)
<1>1. ASSUME NEW field \in {MPRV, MPP, SUM, MXR}, NEW v \in BOOLEAN
      PROVE  s \o <<[op |-> "status", field |-> field, value |-> v, priv |-> HS]>> \in At(p, P, Q)
    <2>1. [op |-> "status", field |-> field, value |-> v, priv |-> HS] \in Steps
        BY InSteps DEF StatusWrites
    <2> QED BY <2>1, AfterTouchless DEF Touchless
<1>2. s \o SatpOff \in At(p, P, Q)
    <2>1. [op |-> "satp", on |-> FALSE] \in Steps
        BY InSteps DEF SatpWrites
    <2> QED BY <2>1, AfterTouchless DEF Touchless, SatpOff
<1>3. s \o Asid(\h1234) \in At(p, P, Q)
    <2> DEFINE x == [op |-> "satp", on |-> TRUE, asid |-> \h1234]
    <2>1. x \in Steps /\ x.op = "satp" /\ Asid(\h1234) = <<x>>
        BY InSteps DEF SatpWrites, Asid
    <2> HIDE DEF x
    <2> QED BY <2>1, AfterTouchless DEF Touchless
<1>4. ASSUME NEW page \in Int, NEW asid \in Int PROVE s \o FenceOf(page, asid) \in At(p, P, Q)
    <2>1. [op |-> "fence", page |-> page, asid |-> asid] \in Steps
        BY InSteps DEF Fences
    <2> QED BY <2>1, AfterTouchless DEF Touchless, FenceOf
<1>5. s \o Fence \in At(p, P, Q)
    BY <1>4 DEF Fence, All
<1>6. ASSUME NEW field \in {MPRV, MPP, SUM, MXR}
      PROVE  s \o SRaise(field) \in At(p, P, Q) /\ s \o SLower(field) \in At(p, P, Q)
    BY <1>1 DEF SRaise, SLower
<1> QED BY <1>2, <1>3, <1>4, <1>5, <1>6

-----------------------------------------------------------------------------
(* What a write leaves in the registers.                                   *)
LEMMA CfgWritten ==
    ASSUME NEW regs \in Regs, NEW i \in Slots, NEW bits \in SUBSET Bits
    PROVE  LET new == WriteCfg(regs, i, bits)
           IN  /\ new \in Regs /\ new.addr = regs.addr
               /\ new.cfg[i] = IF "L" \in regs.cfg[i] THEN regs.cfg[i] ELSE bits
               /\ \A j \in Slots \ {i} : new.cfg[j] = regs.cfg[j]
BY DEF WriteCfg, CfgLocked, Regs

LEMMA AddrWritten ==
    ASSUME NEW regs \in Regs, NEW i \in Slots, NEW frame \in 0 .. Top
    PROVE  LET new == WriteAddr(regs, i, frame)
           IN  /\ new \in Regs /\ new.cfg = regs.cfg
               /\ new.addr[i] = IF AddrLocked(regs, i) THEN regs.addr[i] ELSE frame
               /\ \A j \in Slots \ {i} : new.addr[j] = regs.addr[j]
BY DEF WriteAddr, Regs

LEMMA AfterClear ==
    ASSUME NEW regs \in Regs
    PROVE  /\ Cleared(regs) \in Regs /\ Cleared(regs).addr = regs.addr
           /\ \A i \in Slots : Cleared(regs).cfg[i] =
                  IF i > 7 \/ "L" \in regs.cfg[i] THEN regs.cfg[i] ELSE {}
BY DEF Cleared, CfgLocked, Regs

LEMMA TopTypes == Top \in 0 .. Top /\ Top \in Nat
<1>1. Top \in Nat
    BY SMT DEF Top
<1> QED BY <1>1

LEMMA MapTypes ==
    \A i \in 12 .. 15 : MapCfg(i) \in SUBSET Bits /\ Map(i) \in 0 .. Top /\ "L" \notin MapCfg(i)
<1> SUFFICES ASSUME NEW i \in 12 .. 15
             PROVE  MapCfg(i) \in SUBSET Bits /\ Map(i) \in 0 .. Top /\ "L" \notin MapCfg(i)
    OBVIOUS
<1>1. i = 12 \/ i = 13 \/ i = 14 \/ i = 15
    BY SMT
<1>2. MapCfg(i) \in {RWXT, RWXTC, {}}
    BY SMT, <1>1 DEF MapCfg
<1>3. Map(i) \in {\h80000, \h480000, \h30000000, \h40000000}
    BY SMT, <1>1 DEF Map
<1>4. MapCfg(i) \in SUBSET Bits /\ "L" \notin MapCfg(i)
    BY <1>2 DEF RWXT, RWXTC, Bits
<1>5. Map(i) \in Nat /\ Map(i) < Top
    BY SMT, <1>3 DEF Top
<1> QED BY <1>4, <1>5, TopTypes

LEMMA AfterPreamble ==
    ASSUME NEW regs \in Regs
    PROVE  LET new == Preambled(regs)
           IN  /\ new \in Regs
               /\ new.addr[0] = IF AddrLocked(regs, 0) THEN regs.addr[0] ELSE Top
               /\ new.cfg[0] = IF "L" \in regs.cfg[0] THEN regs.cfg[0] ELSE RWXTC
               /\ \A i \in 1 .. 11 : new.cfg[i] = IF "L" \in regs.cfg[i] THEN regs.cfg[i] ELSE {}
               /\ (\A i \in 12 .. 15 : "L" \notin regs.cfg[i]) =>
                      \A i \in 12 .. 15 : new.cfg[i] = MapCfg(i) /\ new.addr[i] = Map(i)
<1> DEFINE wide == WriteAddr(regs, 0, Top)
           cfg  == [i \in Slots |-> CASE i = 0 -> RWXTC [] i >= 12 -> MapCfg(i) [] OTHER -> {}]
           open == [wide EXCEPT !.cfg = [i \in Slots |->
                    IF CfgLocked(wide, i) THEN wide.cfg[i] ELSE cfg[i]]]
           new == [open EXCEPT !.addr = [i \in Slots |->
                    IF i >= 12 /\ ~AddrLocked(open, i) THEN Map(i) ELSE open.addr[i]]]
<1>1. /\ wide \in Regs /\ wide.cfg = regs.cfg
      /\ wide.addr[0] = IF AddrLocked(regs, 0) THEN regs.addr[0] ELSE Top
      /\ \A j \in Slots \ {0} : wide.addr[j] = regs.addr[j]
    <2>1. 0 \in Slots
        BY DEF Slots
    <2> QED BY <2>1, TopTypes, AddrWritten
<1> HIDE DEF wide
<1>2. cfg \in [Slots -> SUBSET Bits]
    BY MapTypes DEF Slots, RWXTC, Bits
<1>3. /\ open \in Regs /\ open.addr = wide.addr
      /\ \A i \in Slots : open.cfg[i] = IF "L" \in regs.cfg[i] THEN regs.cfg[i] ELSE cfg[i]
    BY <1>1, <1>2 DEF Regs, CfgLocked
<1>4. /\ cfg[0] = RWXTC /\ \A i \in 1 .. 11 : cfg[i] = {}
      /\ \A i \in 12 .. 15 : cfg[i] = MapCfg(i)
    BY DEF Slots
<1> HIDE DEF cfg, open
<1>5. /\ new \in Regs /\ new.cfg = open.cfg
      /\ \A i \in 0 .. 11 : new.addr[i] = open.addr[i]
      /\ \A i \in 12 .. 15 : new.addr[i] = IF AddrLocked(open, i) THEN open.addr[i] ELSE Map(i)
    <2>1. \A i \in Slots : new.addr[i] = IF i >= 12 /\ ~AddrLocked(open, i) THEN Map(i) ELSE open.addr[i]
        BY <1>3 DEF Regs
    <2>2. new.cfg = open.cfg /\ DOMAIN new = {"cfg", "addr"}
        BY <1>3 DEF Regs
    <2>3. new.addr \in [Slots -> 0 .. Top]
        BY <1>3, MapTypes DEF Regs, Slots
    <2>4. new \in Regs
        BY <1>3, <2>3 DEF Regs
    <2> HIDE DEF new
    <2> QED BY <2>1, <2>2, <2>4 DEF Slots
<1>6. (\A i \in 12 .. 15 : "L" \notin regs.cfg[i]) => \A i \in 12 .. 15 : ~AddrLocked(open, i)
    BY <1>3, <1>4, MapTypes DEF AddrLocked, CfgLocked, Slots
<1>7. Preambled(regs) = new
    BY DEF Preambled, new, open, cfg, wide
<1> HIDE DEF new
<1>a. \A i \in 0 .. 15 : new.cfg[i] = IF "L" \in regs.cfg[i] THEN regs.cfg[i] ELSE cfg[i]
    BY <1>3, <1>5 DEF Slots
<1>8. new.cfg[0] = IF "L" \in regs.cfg[0] THEN regs.cfg[0] ELSE RWXTC
    <2>1. new.cfg[0] = IF "L" \in regs.cfg[0] THEN regs.cfg[0] ELSE cfg[0]
        BY <1>a
    <2> QED BY <2>1, <1>4
<1>9. ASSUME NEW i \in 1 .. 11
      PROVE  new.cfg[i] = IF "L" \in regs.cfg[i] THEN regs.cfg[i] ELSE {}
    <2>1. new.cfg[i] = IF "L" \in regs.cfg[i] THEN regs.cfg[i] ELSE cfg[i]
        BY <1>a
    <2>2. cfg[i] = {}
        BY <1>4
    <2> QED BY <2>1, <2>2
<1>10. (\A i \in 12 .. 15 : "L" \notin regs.cfg[i]) =>
           \A i \in 12 .. 15 : new.cfg[i] = MapCfg(i) /\ new.addr[i] = Map(i)
    BY <1>a, <1>4, <1>5, <1>6
<1>11. new.addr[0] = IF AddrLocked(regs, 0) THEN regs.addr[0] ELSE Top
    BY <1>1, <1>3, <1>5 DEF Slots
<1> QED BY <1>5, <1>7, <1>8, <1>9, <1>10, <1>11

(* PMP.                                                                    *)
LEMMA TopFar == ASSUME Layout PROVE Top > Home
BY SMT DEF Layout, Top

LEMMA PmpCleared ==
    ASSUME Layout
    PROVE  /\ \A regs \in PmpFar : Cleared(regs) \in PmpFar
           /\ \A regs \in PmpKept : Cleared(regs) \in PmpKept
BY AfterClear DEF PmpFar, PmpKept, AddrLocked, CfgLocked, Slots

LEMMA PmpPreambled ==
    ASSUME Layout
    PROVE  \A regs \in PmpFar : Preambled(regs) \in PmpFull
<1> SUFFICES ASSUME NEW regs \in PmpFar PROVE Preambled(regs) \in PmpFull
    OBVIOUS
<1> DEFINE new == Preambled(regs)
<1>1. /\ new \in Regs /\ new.addr[0] = IF AddrLocked(regs, 0) THEN regs.addr[0] ELSE Top
      /\ new.cfg[0] = IF "L" \in regs.cfg[0] THEN regs.cfg[0] ELSE RWXTC
    BY AfterPreamble DEF PmpFar, PmpKept
<1> HIDE DEF new
<1>2. RWXT \subseteq new.cfg[0]
    BY <1>1 DEF PmpFar, PmpKept, RWXT, RWXTC
<1>3. new.addr[0] > Home
    BY <1>1, TopFar DEF PmpFar
<1>4. new \in PmpFull
    BY <1>1, <1>2, <1>3 DEF PmpFull, PmpFar, PmpKept
<1> QED BY <1>4 DEF new

LEMMA PmpCfg ==
    ASSUME NEW regs \in PmpFar, NEW i \in Slots, NEW bits \in SUBSET Bits
    PROVE  /\ i # 0 \/ RWXT \subseteq bits => WriteCfg(regs, i, bits) \in PmpFar
           /\ i = 0 /\ RWXT \subseteq bits => WriteCfg(regs, i, bits) \in PmpFull
           /\ i # 0 /\ regs \in PmpFull => WriteCfg(regs, i, bits) \in PmpFull
BY CfgWritten DEF PmpFar, PmpFull, PmpKept, AddrLocked, CfgLocked, Slots

LEMMA PmpAddr ==
    ASSUME NEW i \in Slots, NEW frame \in 0 .. Top
    PROVE  /\ i # 0 \/ frame > Home =>
                  /\ \A regs \in PmpFar : WriteAddr(regs, i, frame) \in PmpFar
                  /\ \A regs \in PmpFull : WriteAddr(regs, i, frame) \in PmpFull
           /\ i = 0 => \A regs \in PmpKept : WriteAddr(regs, i, frame) \in PmpKept
           /\ i = 0 /\ frame > Home => \A regs \in PmpKept : WriteAddr(regs, i, frame) \in PmpFar
<1>1. ASSUME NEW regs \in Regs
      PROVE  LET new == WriteAddr(regs, i, frame)
             IN  /\ new \in Regs /\ new.cfg = regs.cfg /\ (AddrLocked(new, 0) <=> AddrLocked(regs, 0))
                 /\ new.addr[0] = IF i # 0 \/ AddrLocked(regs, 0) THEN regs.addr[0] ELSE frame
    <2>1. 0 \in Slots
        BY DEF Slots
    <2> QED BY <2>1, AddrWritten DEF AddrLocked, CfgLocked
<1> QED BY <1>1 DEF PmpFar, PmpFull, PmpKept

(* PMA.                                                                    *)
LEMMA PmaCleared ==
    /\ \A regs \in PmaBased : Cleared(regs) \in PmaBased
    /\ \A regs \in PmaPair : Cleared(regs) \in PmaPair
    /\ \A regs \in PmaAll : Cleared(regs) \in PmaAll
BY AfterClear DEF PmaBased, PmaOff, PmaPair, PmaAll, PmaMap, Off, Far, Slots

LEMMA PmaPreambled ==
    ASSUME Layout
    PROVE  \A regs \in PmaOff : Preambled(regs) \in PmaBased
<1> SUFFICES ASSUME NEW regs \in PmaOff PROVE Preambled(regs) \in PmaBased
    OBVIOUS
<1>1. regs \in Regs /\ \A i \in Slots : "L" \notin regs.cfg[i]
    BY MapTypes DEF PmaOff, PmaMap, Off, Slots
<1>2. ~AddrLocked(regs, 0)
    BY <1>1 DEF AddrLocked, CfgLocked, Slots
<1> DEFINE new == Preambled(regs)
<1>3. /\ new \in Regs /\ new.addr[0] = Top /\ new.cfg[0] = RWXTC
      /\ \A i \in 1 .. 11 : new.cfg[i] = {}
      /\ \A i \in 12 .. 15 : new.cfg[i] = MapCfg(i) /\ new.addr[i] = Map(i)
    <2>1. \A i \in 0 .. 15 : "L" \notin regs.cfg[i]
        BY <1>1 DEF Slots
    <2> QED BY <1>1, <1>2, <2>1, AfterPreamble
<1> HIDE DEF new
<1>4. new \in PmaBased
    BY <1>3, TopFar DEF PmaBased, PmaOff, PmaMap, Off, Far, Rights, RWXTC
<1> QED BY <1>4 DEF new

LEMMA PmaCfg ==
    ASSUME NEW regs \in PmaMap, NEW i \in 1 .. 3, NEW bits \in SUBSET Bits
    PROVE  /\ i = 1 /\ (regs \in PmaOne \/ regs \in PmaBased \/ regs \in PmaPair) =>
                  WriteCfg(regs, i, bits) \in PmaOne
           /\ i = 1 /\ regs \in PmaBased /\ "T" \notin bits /\ "L" \notin bits =>
                  WriteCfg(regs, i, bits) \in PmaBased
           /\ i = 1 /\ regs \in PmaOff /\ Rights \subseteq bits /\ "L" \notin bits =>
                  WriteCfg(regs, i, bits) \in PmaKept
           /\ i = 1 /\ regs \in PmaPair /\ "L" \notin bits => WriteCfg(regs, i, bits) \in PmaPair
           /\ regs \in PmaAll /\ "L" \notin bits => WriteCfg(regs, i, bits) \in PmaAll
<1> DEFINE new == WriteCfg(regs, i, bits)
<1>1. /\ new \in Regs /\ new.addr = regs.addr
      /\ new.cfg[i] = IF "L" \in regs.cfg[i] THEN regs.cfg[i] ELSE bits
      /\ \A j \in (0 .. 15) \ {i} : new.cfg[j] = regs.cfg[j]
    BY CfgWritten DEF PmaMap, Slots
<1> HIDE DEF new
<1>2. new \in PmaMap
    BY <1>1 DEF PmaMap
<1>3. ASSUME i = 1, regs \in PmaOne \/ regs \in PmaBased \/ regs \in PmaPair PROVE new \in PmaOne
    BY <1>1, <1>2, <1>3 DEF PmaOne, PmaBased, PmaOff, PmaPair, Off, Far
<1>4. ASSUME i = 1, regs \in PmaBased, "T" \notin bits, "L" \notin bits PROVE new \in PmaBased
    BY <1>1, <1>2, <1>4 DEF PmaBased, PmaOff, Off, Far
<1>5. ASSUME i = 1, regs \in PmaOff, Rights \subseteq bits, "L" \notin bits PROVE new \in PmaKept
    BY <1>1, <1>2, <1>5 DEF PmaKept, PmaOff, Off, Far
<1>6. ASSUME i = 1, regs \in PmaPair, "L" \notin bits PROVE new \in PmaPair
    BY <1>1, <1>2, <1>6 DEF PmaPair, Off, Far
<1>7. ASSUME regs \in PmaAll, "L" \notin bits PROVE new \in PmaAll
    <2>1. "L" \notin new.cfg[1] /\ "L" \notin new.cfg[2] /\ "L" \notin new.cfg[3]
        BY <1>1, <1>7 DEF PmaAll
    <2>2. regs.addr[0] > Home /\ regs.addr[1] > Home /\ regs.addr[2] > Home
        BY <1>7 DEF PmaAll, Far
    <2> QED BY <1>1, <1>2, <2>1, <2>2 DEF PmaAll, Far
<1> QED BY <1>3, <1>4, <1>5, <1>6, <1>7 DEF new

LEMMA PmaAddr ==
    ASSUME NEW i \in 0 .. 3, NEW frame \in 0 .. Top
    PROVE  /\ \A regs \in PmaOff : WriteAddr(regs, i, frame) \in PmaOff
           /\ i = 0 /\ frame > Home => /\ \A regs \in PmaOff : WriteAddr(regs, i, frame) \in PmaBased
                                       /\ \A regs \in PmaOne : WriteAddr(regs, i, frame) \in PmaOne
           /\ i # 0 => /\ \A regs \in PmaOne : WriteAddr(regs, i, frame) \in PmaOne
           /\ i = 1 /\ frame > Home => \A regs \in PmaBased : WriteAddr(regs, i, frame) \in PmaPair
           /\ i = 2 /\ frame > Home => \A regs \in PmaPair : WriteAddr(regs, i, frame) \in PmaAll
           /\ i = 3 => \A regs \in PmaAll : WriteAddr(regs, i, frame) \in PmaAll
<1>1. ASSUME NEW regs \in PmaMap
      PROVE  LET new == WriteAddr(regs, i, frame)
             IN  /\ new \in PmaMap /\ new.cfg = regs.cfg
                 /\ new.addr[i] = IF AddrLocked(regs, i) THEN regs.addr[i] ELSE frame
                 /\ \A j \in (0 .. 15) \ {i} : new.addr[j] = regs.addr[j]
    <2> DEFINE new == WriteAddr(regs, i, frame)
    <2>1. /\ new \in Regs /\ new.cfg = regs.cfg
          /\ new.addr[i] = IF AddrLocked(regs, i) THEN regs.addr[i] ELSE frame
          /\ \A j \in (0 .. 15) \ {i} : new.addr[j] = regs.addr[j]
        <3>1. i \in Slots /\ regs \in Regs
            BY DEF PmaMap, Slots
        <3>2. \A j \in (0 .. 15) \ {i} : j \in Slots \ {i}
            BY DEF Slots
        <3> QED BY <3>1, <3>2, AddrWritten
    <2> HIDE DEF new
    <2>2. new \in PmaMap
        BY <2>1 DEF PmaMap
    <2> QED BY <2>1, <2>2 DEF new
<1>2. ASSUME NEW regs \in PmaOff
      PROVE  WriteAddr(regs, i, frame) \in PmaOff
    BY <1>1 DEF PmaOff, Off
<1>3. ASSUME NEW regs \in PmaOff, i = 0, frame > Home
      PROVE  WriteAddr(regs, i, frame) \in PmaBased
    <2>1. ~AddrLocked(regs, 0)
        BY DEF PmaOff, PmaMap, Off, AddrLocked, CfgLocked
    <2> QED BY <1>1, <1>2, <1>3, <2>1 DEF PmaBased, PmaOff, Far
<1>4. ASSUME NEW regs \in PmaOne, i # 0 \/ frame > Home
      PROVE  WriteAddr(regs, i, frame) \in PmaOne
    BY <1>1, <1>4 DEF PmaOne, Off, Far
<1>5. ASSUME NEW regs \in PmaBased, i = 1, frame > Home
      PROVE  WriteAddr(regs, i, frame) \in PmaPair
    <2>1. ~AddrLocked(regs, 1)
        BY DEF PmaBased, PmaOff, Off, AddrLocked, CfgLocked
    <2> QED BY <1>1, <1>5, <2>1 DEF PmaBased, PmaPair, PmaOff, Far, Off
<1>6. ASSUME NEW regs \in PmaPair, i = 2, frame > Home
      PROVE  WriteAddr(regs, i, frame) \in PmaAll
    <2> DEFINE new == WriteAddr(regs, i, frame)
    <2>1. ~AddrLocked(regs, 2)
        BY DEF PmaPair, Off, AddrLocked, CfgLocked
    <2>2. /\ new \in PmaMap /\ new.cfg = regs.cfg
          /\ new.addr[0] > Home /\ new.addr[1] > Home /\ new.addr[2] > Home
        BY <1>1, <1>6, <2>1 DEF PmaPair, Far
    <2>3. "L" \notin regs.cfg[1] /\ "L" \notin regs.cfg[2] /\ "L" \notin regs.cfg[3]
        BY DEF PmaPair, Off
    <2> HIDE DEF new
    <2>4. new \in PmaAll
        BY <2>2, <2>3 DEF PmaAll, Far
    <2> QED BY <2>4 DEF new
<1>7. ASSUME NEW regs \in PmaAll, i = 3
      PROVE  WriteAddr(regs, i, frame) \in PmaAll
    BY <1>1, <1>7 DEF PmaAll, Far
<1> QED BY <1>2, <1>3, <1>4, <1>5, <1>6, <1>7

-----------------------------------------------------------------------------
(* A step that writes one of the two sets of registers.                    *)
LEMMA PmpStep ==
    ASSUME NEW s, NEW P, NEW Q, s \in At(M, P, Q), NEW P2 \in SUBSET PmpKept,
           NEW x \in Steps, x.op \in {"clear", "preamble", "set", "unset", "addr"}, x.csr = "pmp",
           \A regs \in P : Written(x, "pmp", regs) \in P2
    PROVE  s \o <<x>> \in At(M, P2, Q)
<1>1. \A regs : Written(x, "pma", regs) = regs
    BY DEF Written
<1>2. Fit(x, Is(M, P, Q), Is(M, P2, Q))
    BY <1>1 DEF Fit, Is, MachineOnly
<1> QED BY <1>2, OneMore, StepFacts

LEMMA PmaStep ==
    ASSUME NEW s, NEW P, NEW Q, s \in At(M, P, Q), NEW Q2 \in SUBSET PmaKept,
           NEW x \in Steps, x.op \in {"clear", "preamble", "set", "unset", "addr"}, x.csr = "pma",
           \A regs \in Q : Written(x, "pma", regs) \in Q2
    PROVE  s \o <<x>> \in At(M, P, Q2)
<1>1. \A regs : Written(x, "pmp", regs) = regs
    BY DEF Written
<1>2. Fit(x, Is(M, P, Q), Is(M, P, Q2))
    BY <1>1 DEF Fit, Is, MachineOnly
<1> QED BY <1>2, OneMore, StepFacts

LEMMA AfterWhole ==
    ASSUME Layout, NEW s, NEW P, NEW Q, s \in At(M, P, Q)
    PROVE  /\ P \in {PmpFull, PmpFar} => /\ s \o Clear("pmp") \in At(M, PmpFar, Q)
                                         /\ s \o Preamble("pmp") \in At(M, PmpFull, Q)
           /\ Q \in {PmaBased, PmaPair, PmaAll} => s \o Clear("pma") \in At(M, P, Q)
           /\ Q = PmaOff => s \o Preamble("pma") \in At(M, P, PmaBased)
<1>1. ASSUME NEW op \in {"clear", "preamble"}, NEW csr \in Csrs
      PROVE  [op |-> op, csr |-> csr] \in Steps
    BY InSteps DEF WholeWrites
<1>2. \A regs \in PmpFull : regs \in PmpFar
    BY DEF PmpFull
<1>3. ASSUME P \in {PmpFull, PmpFar} PROVE s \o Clear("pmp") \in At(M, PmpFar, Q)
    <2> DEFINE x == [op |-> "clear", csr |-> "pmp"]
    <2>1. \A regs \in P : Written(x, "pmp", regs) \in PmpFar
        BY <1>2, <1>3, PmpCleared DEF Written
    <2>2. x \in Steps
        BY <1>1 DEF Csrs
    <2> QED BY <2>1, <2>2, Parts, PmpStep DEF Clear
<1>4. ASSUME P \in {PmpFull, PmpFar} PROVE s \o Preamble("pmp") \in At(M, PmpFull, Q)
    <2> DEFINE x == [op |-> "preamble", csr |-> "pmp"]
    <2>1. \A regs \in P : Written(x, "pmp", regs) \in PmpFull
        BY <1>2, <1>4, PmpPreambled DEF Written
    <2>2. x \in Steps
        BY <1>1 DEF Csrs
    <2> QED BY <2>1, <2>2, Parts, PmpStep DEF Preamble
<1>5. ASSUME Q \in {PmaBased, PmaPair, PmaAll} PROVE s \o Clear("pma") \in At(M, P, Q)
    <2> DEFINE x == [op |-> "clear", csr |-> "pma"]
    <2>1. \A regs \in Q : Written(x, "pma", regs) \in Q
        BY <1>5, PmaCleared DEF Written
    <2>2. x \in Steps
        BY <1>1 DEF Csrs
    <2> QED BY <1>5, <2>1, <2>2, Parts, PmaStep DEF Clear
<1>6. ASSUME Q = PmaOff PROVE s \o Preamble("pma") \in At(M, P, PmaBased)
    <2> DEFINE x == [op |-> "preamble", csr |-> "pma"]
    <2>1. \A regs \in Q : Written(x, "pma", regs) \in PmaBased
        BY <1>6, PmaPreambled DEF Written
    <2>2. x \in Steps
        BY <1>1 DEF Csrs
    <2> QED BY <2>1, <2>2, Parts, PmaStep DEF Preamble
<1> QED BY <1>3, <1>4, <1>5, <1>6

LEMMA AfterPmpBits ==
    ASSUME NEW s, NEW P \in {PmpFull, PmpFar}, NEW Q, s \in At(M, P, Q),
           NEW i \in Slots, NEW bits \in SUBSET Bits
    PROVE  /\ i # 0 => s \o Set("pmp", i, bits) \in At(M, P, Q) /\ s \o Unset("pmp", i, bits) \in At(M, P, Q)
           /\ i = 0 /\ (RWXT \subseteq bits \/ P = PmpFull) => s \o Set("pmp", i, bits) \in At(M, PmpFull, Q)
           /\ i = 0 /\ bits \cap RWXT = {} => s \o Unset("pmp", i, bits) \in At(M, P, Q)
<1> DEFINE x == [op |-> "set", csr |-> "pmp", i |-> i, bits |-> bits]
           y == [op |-> "unset", csr |-> "pmp", i |-> i, bits |-> bits]
<1>1. x \in Steps /\ y \in Steps
    BY InSteps DEF BitWrites, Csrs
<1>2. ASSUME NEW regs \in PmpFar
      PROVE  /\ regs.cfg[i] \in SUBSET Bits
             /\ Written(x, "pmp", regs) = WriteCfg(regs, i, regs.cfg[i] \cup bits)
             /\ Written(y, "pmp", regs) = WriteCfg(regs, i, regs.cfg[i] \ bits)
    BY DEF Written, PmpFar, PmpKept, Regs
<1>3. \A regs \in PmpFull : regs \in PmpFar
    BY DEF PmpFull
<1>4. ASSUME NEW regs \in PmpFar
      PROVE  regs.cfg[i] \cup bits \in SUBSET Bits /\ regs.cfg[i] \ bits \in SUBSET Bits
    BY <1>2
<1>7. x.op = "set" /\ y.op = "unset" /\ x.csr = "pmp" /\ y.csr = "pmp"
      /\ Set("pmp", i, bits) = <<x>> /\ Unset("pmp", i, bits) = <<y>>
    BY DEF Set, Unset
<1> HIDE DEF x, y
<1>a. ASSUME i # 0, NEW regs \in P
      PROVE  Written(x, "pmp", regs) \in P /\ Written(y, "pmp", regs) \in P
    <2> DEFINE u == regs.cfg[i] \cup bits
               v == regs.cfg[i] \ bits
    <2>1. u \in SUBSET Bits /\ v \in SUBSET Bits /\ regs \in PmpFar
          /\ Written(x, "pmp", regs) = WriteCfg(regs, i, u) /\ Written(y, "pmp", regs) = WriteCfg(regs, i, v)
        BY <1>2, <1>3, <1>4, <1>a
    <2> HIDE DEF u, v
    <2> QED BY <1>a, <2>1, PmpCfg
<1>5. ASSUME i = 0, RWXT \subseteq bits \/ P = PmpFull, NEW regs \in P
      PROVE  Written(x, "pmp", regs) \in PmpFull
    <2> DEFINE u == regs.cfg[i] \cup bits
    <2>1. RWXT \subseteq u
        BY <1>5 DEF PmpFull
    <2>2. u \in SUBSET Bits /\ regs \in PmpFar /\ Written(x, "pmp", regs) = WriteCfg(regs, i, u)
        BY <1>2, <1>3, <1>4, <1>5
    <2> HIDE DEF u
    <2> QED BY <1>5, <2>1, <2>2, PmpCfg
<1>6. ASSUME i = 0, bits \cap RWXT = {}
      PROVE  \A regs \in P : Written(y, "pmp", regs) \in P
    <2> SUFFICES ASSUME NEW regs \in P PROVE WriteCfg(regs, i, regs.cfg[i] \ bits) \in P
        BY <1>2, <1>3
    <2>1. CASE "L" \in regs.cfg[i]
        BY <2>1 DEF WriteCfg, CfgLocked
    <2>2. CASE "L" \notin regs.cfg[i]
        <3> DEFINE new == WriteCfg(regs, i, regs.cfg[i] \ bits)
        <3>1. /\ new \in Regs /\ new.addr = regs.addr /\ new.cfg[0] = regs.cfg[0] \ bits
              /\ \A j \in Slots \ {0} : new.cfg[j] = regs.cfg[j]
            <4>1. regs \in Regs /\ regs \in PmpFar
                BY <1>3 DEF PmpFar, PmpKept
            <4> DEFINE v == regs.cfg[i] \ bits
            <4>2. v \in SUBSET Bits /\ v = regs.cfg[0] \ bits /\ new = WriteCfg(regs, i, v)
                BY <1>6, <4>1 DEF Regs
            <4> HIDE DEF v, new
            <4> QED BY <1>6, <2>2, <4>1, <4>2, CfgWritten
        <3> HIDE DEF new
        <3>2. new \in PmpFar
            BY <1>3, <1>6, <2>2, <3>1 DEF PmpFar, PmpKept, AddrLocked, CfgLocked, Slots
        <3>3. P = PmpFull => new \in PmpFull
            BY <1>6, <3>1, <3>2 DEF PmpFull
        <3> QED BY <3>2, <3>3 DEF new
    <2> QED BY <2>1, <2>2
<1> QED BY <1>1, <1>a, <1>5, <1>6, <1>7, Parts, PmpStep

LEMMA AfterPmpAddr ==
    ASSUME NEW s, NEW P, NEW Q, s \in At(M, P, Q), NEW i \in Slots, NEW frame \in 0 .. Top
    PROVE  /\ P \in {PmpFull, PmpFar} /\ (i # 0 \/ frame > Home) =>
                  s \o Addr("pmp", i, frame) \in At(M, P, Q)
           /\ P = PmpFull /\ i = 0 => s \o Addr("pmp", i, frame) \in At(M, PmpKept, Q)
           /\ P = PmpFar /\ i = 0 => s \o Addr("pmp", i, frame) \in At(M, PmpKept, Q)
           /\ P = PmpKept /\ i = 0 /\ frame > Home => s \o Addr("pmp", i, frame) \in At(M, PmpFar, Q)
<1> DEFINE x == [op |-> "addr", csr |-> "pmp", i |-> i, frame |-> frame]
<1>1. x \in Steps
    BY InSteps DEF BoundWrites, Csrs
<1>2. \A regs : Written(x, "pmp", regs) = WriteAddr(regs, i, frame)
    BY DEF Written
<1>3. x.op = "addr" /\ x.csr = "pmp" /\ Addr("pmp", i, frame) = <<x>>
    BY DEF Addr
<1>4. \A regs : /\ regs \in PmpFull => regs \in PmpKept
                /\ regs \in PmpFar => regs \in PmpKept
    BY DEF PmpFull, PmpFar
<1>5. PmpKept \in SUBSET PmpKept
    OBVIOUS
<1> HIDE DEF x
<1> QED BY <1>1, <1>2, <1>3, <1>4, <1>5, Parts, PmpAddr, PmpStep

SetStep(i, bits) == [op |-> "set", csr |-> "pma", i |-> i, bits |-> bits]
UnsetStep(i, bits) == [op |-> "unset", csr |-> "pma", i |-> i, bits |-> bits]

LEMMA AfterPmaBits ==
    ASSUME NEW s, NEW P, NEW bits \in SUBSET Bits
    PROVE  /\ s \in At(M, P, PmaOff) /\ Rights \subseteq bits /\ "L" \notin bits =>
                  s \o Set("pma", 1, bits) \in At(M, P, PmaKept)
           /\ \A Q \in {PmaBased, PmaOne} : s \in At(M, P, Q) =>
                  s \o Set("pma", 1, bits) \in At(M, P, PmaOne)
           /\ \A Q \in {PmaBased, PmaOne} : s \in At(M, P, Q) =>
                  s \o Unset("pma", 1, bits) \in At(M, P, Q)
           /\ s \in At(M, P, PmaPair) =>
                  /\ s \o Unset("pma", 1, bits) \in At(M, P, PmaPair)
                  /\ "L" \in bits => s \o Set("pma", 1, bits) \in At(M, P, PmaOne)
                  /\ "L" \notin bits => s \o Set("pma", 1, bits) \in At(M, P, PmaPair)
           /\ s \in At(M, P, PmaAll) => \A i \in 1 .. 3 :
                  /\ s \o Unset("pma", i, bits) \in At(M, P, PmaAll)
                  /\ "L" \notin bits => s \o Set("pma", i, bits) \in At(M, P, PmaAll)
<1>1. ASSUME NEW i \in 1 .. 3
      PROVE  /\ SetStep(i, bits) \in Steps /\ SetStep(i, bits).op = "set" /\ SetStep(i, bits).csr = "pma" /\ Set("pma", i, bits) = <<SetStep(i, bits)>>
             /\ UnsetStep(i, bits) \in Steps /\ UnsetStep(i, bits).op = "unset" /\ UnsetStep(i, bits).csr = "pma" /\ Unset("pma", i, bits) = <<UnsetStep(i, bits)>>
    BY InSteps DEF BitWrites, Csrs, Slots, Set, Unset, SetStep, UnsetStep
<1>2. ASSUME NEW i \in 1 .. 3, NEW regs \in PmaMap
      PROVE  /\ Written(SetStep(i, bits), "pma", regs) = WriteCfg(regs, i, regs.cfg[i] \cup bits)
             /\ Written(UnsetStep(i, bits), "pma", regs) = WriteCfg(regs, i, regs.cfg[i] \ bits)
             /\ regs.cfg[i] \cup bits \in SUBSET Bits /\ regs.cfg[i] \ bits \in SUBSET Bits
    BY DEF Written, PmaMap, Regs, Slots, SetStep, UnsetStep
<1>w. ASSUME NEW regs \in PmaMap
      PROVE  /\ Written(SetStep(1, bits), "pma", regs) = WriteCfg(regs, 1, regs.cfg[1] \cup bits)
             /\ Written(UnsetStep(1, bits), "pma", regs) = WriteCfg(regs, 1, regs.cfg[1] \ bits)
             /\ regs.cfg[1] \cup bits \in SUBSET Bits /\ regs.cfg[1] \ bits \in SUBSET Bits
    BY DEF Written, PmaMap, Regs, Slots, SetStep, UnsetStep
<1>3. ASSUME s \in At(M, P, PmaOff), Rights \subseteq bits, "L" \notin bits
      PROVE  s \o Set("pma", 1, bits) \in At(M, P, PmaKept)
    <2>1. ASSUME NEW regs \in PmaOff PROVE Written(SetStep(1, bits), "pma", regs) \in PmaKept
        <3> DEFINE u == regs.cfg[1] \cup bits
        <3>1. regs \in PmaMap /\ "L" \notin u /\ Rights \subseteq u
            BY <1>3 DEF PmaOff, Off
        <3>2. u \in SUBSET Bits /\ Written(SetStep(1, bits), "pma", regs) = WriteCfg(regs, 1, u)
            BY <1>w, <3>1
        <3> HIDE DEF u
        <3> QED BY <3>1, <3>2, PmaCfg
    <2> QED BY <1>1, <1>3, <2>1, PmaStep
<1>4. ASSUME NEW Q \in {PmaBased, PmaOne}, s \in At(M, P, Q)
      PROVE  /\ s \o Set("pma", 1, bits) \in At(M, P, PmaOne)
             /\ s \o Unset("pma", 1, bits) \in At(M, P, Q)
    <2>1. ASSUME NEW regs \in Q
          PROVE  Written(SetStep(1, bits), "pma", regs) \in PmaOne /\ Written(UnsetStep(1, bits), "pma", regs) \in Q
        <3> DEFINE u == regs.cfg[1] \cup bits
                   v == regs.cfg[1] \ bits
        <3>1. regs \in PmaMap
            BY DEF PmaBased, PmaOff, PmaOne
        <3>2. regs \in PmaBased => "T" \notin v /\ "L" \notin v
            BY DEF PmaBased, PmaOff, Off
        <3>u. /\ u \in SUBSET Bits /\ Written(SetStep(1, bits), "pma", regs) = WriteCfg(regs, 1, u)
              /\ v \in SUBSET Bits /\ Written(UnsetStep(1, bits), "pma", regs) = WriteCfg(regs, 1, v)
            BY <1>w, <3>1
        <3> HIDE DEF u, v
        <3> QED BY <3>1, <3>2, <3>u, PmaCfg
    <2> QED BY <1>1, <1>4, <2>1, Parts, PmaStep
<1>5. ASSUME s \in At(M, P, PmaPair)
      PROVE  /\ s \o Unset("pma", 1, bits) \in At(M, P, PmaPair)
             /\ "L" \in bits => s \o Set("pma", 1, bits) \in At(M, P, PmaOne)
             /\ "L" \notin bits => s \o Set("pma", 1, bits) \in At(M, P, PmaPair)
    <2>1. ASSUME NEW regs \in PmaPair
          PROVE  /\ Written(SetStep(1, bits), "pma", regs) \in PmaOne /\ Written(UnsetStep(1, bits), "pma", regs) \in PmaPair
                 /\ "L" \notin bits => Written(SetStep(1, bits), "pma", regs) \in PmaPair
        <3> DEFINE u == regs.cfg[1] \cup bits
                   v == regs.cfg[1] \ bits
        <3>1. regs \in PmaMap
            BY DEF PmaPair
        <3>2. "L" \notin v /\ ("L" \notin bits => "L" \notin u)
            BY DEF PmaPair
        <3>u. /\ u \in SUBSET Bits /\ Written(SetStep(1, bits), "pma", regs) = WriteCfg(regs, 1, u)
              /\ v \in SUBSET Bits /\ Written(UnsetStep(1, bits), "pma", regs) = WriteCfg(regs, 1, v)
            BY <1>w, <3>1
        <3> HIDE DEF u, v
        <3> QED BY <3>1, <3>2, <3>u, PmaCfg
    <2> QED BY <1>1, <1>5, <2>1, Parts, PmaStep
<1>6. ASSUME s \in At(M, P, PmaAll), NEW i \in 1 .. 3
      PROVE  /\ s \o Unset("pma", i, bits) \in At(M, P, PmaAll)
             /\ "L" \notin bits => s \o Set("pma", i, bits) \in At(M, P, PmaAll)
    <2>1. ASSUME NEW regs \in PmaAll
          PROVE  /\ Written(UnsetStep(i, bits), "pma", regs) \in PmaAll
                 /\ "L" \notin bits => Written(SetStep(i, bits), "pma", regs) \in PmaAll
        <3> DEFINE u == regs.cfg[i] \cup bits
                   v == regs.cfg[i] \ bits
        <3>1. regs \in PmaMap /\ "L" \notin regs.cfg[1] /\ "L" \notin regs.cfg[2] /\ "L" \notin regs.cfg[3]
            BY DEF PmaAll
        <3>2. "L" \notin regs.cfg[i]
            BY <3>1
        <3>3. "L" \notin v /\ ("L" \notin bits => "L" \notin u)
            BY <3>2
        <3>u. /\ u \in SUBSET Bits /\ Written(SetStep(i, bits), "pma", regs) = WriteCfg(regs, i, u)
              /\ v \in SUBSET Bits /\ Written(UnsetStep(i, bits), "pma", regs) = WriteCfg(regs, i, v)
            BY <1>2, <3>1
        <3> HIDE DEF u, v
        <3> QED BY <3>1, <3>3, <3>u, PmaCfg
    <2> QED BY <1>1, <1>6, <2>1, Parts, PmaStep
<1> QED BY <1>3, <1>4, <1>5, <1>6

LEMMA AfterPmaAddr ==
    ASSUME NEW s, NEW P, NEW i \in 0 .. 3, NEW frame \in 0 .. Top
    PROVE  /\ s \in At(M, P, PmaOff) =>
                  /\ s \o Addr("pma", i, frame) \in At(M, P, PmaOff)
                  /\ i = 0 /\ frame > Home => s \o Addr("pma", i, frame) \in At(M, P, PmaBased)
           /\ s \in At(M, P, PmaBased) =>
                  /\ s \o Addr("pma", i, frame) \in At(M, P, PmaOff)
                  /\ i = 0 /\ frame > Home => s \o Addr("pma", i, frame) \in At(M, P, PmaBased)
                  /\ i = 1 /\ frame > Home => s \o Addr("pma", i, frame) \in At(M, P, PmaPair)
           /\ s \in At(M, P, PmaOne) /\ (i # 0 \/ frame > Home) =>
                  s \o Addr("pma", i, frame) \in At(M, P, PmaOne)
           /\ s \in At(M, P, PmaPair) /\ i = 2 /\ frame > Home =>
                  s \o Addr("pma", i, frame) \in At(M, P, PmaAll)
           /\ s \in At(M, P, PmaAll) /\ i = 3 => s \o Addr("pma", i, frame) \in At(M, P, PmaAll)
<1> DEFINE x == [op |-> "addr", csr |-> "pma", i |-> i, frame |-> frame]
<1>1. x \in Steps
    BY InSteps DEF BoundWrites, Csrs, Slots
<1>2. \A regs : Written(x, "pma", regs) = WriteAddr(regs, i, frame)
    BY DEF Written
<1>3. x.op = "addr" /\ x.csr = "pma" /\ Addr("pma", i, frame) = <<x>>
    BY DEF Addr
<1>4. \A regs : regs \in PmaBased => regs \in PmaOff
    BY DEF PmaBased
<1> HIDE DEF x
<1> QED BY <1>1, <1>2, <1>3, <1>4, Parts, PmaAddr, PmaStep

(* Two bounds, low in entry i and high in the next: two steps.             *)
LEMMA BoundsAre ==
    ASSUME NEW s \in Seq(Steps), NEW csr \in Csrs, NEW i \in 0 .. 14, NEW low \in 0 .. Top, NEW high \in 0 .. Top
    PROVE  s \o Bounds(csr, i, low, high) = (s \o Addr(csr, i, low)) \o Addr(csr, i + 1, high)
<1> DEFINE x == [op |-> "addr", csr |-> csr, i |-> i, frame |-> low]
           y == [op |-> "addr", csr |-> csr, i |-> i + 1, frame |-> high]
<1>1. x \in BoundWrites /\ y \in BoundWrites
    BY DEF BoundWrites, Slots
<1>2. Addr(csr, i, low) = <<x>> /\ Addr(csr, i + 1, high) = <<y>>
    BY DEF Addr
<1> HIDE DEF x, y
<1>3. <<x>> \in Seq(Steps) /\ <<y>> \in Seq(Steps)
    BY <1>1, InSteps
<1>4. s \o (<<x>> \o <<y>>) = (s \o <<x>>) \o <<y>>
    BY <1>3, ConcatAssociative
<1> QED BY <1>2, <1>4 DEF Bounds

LEMMA AfterPmpBounds ==
    ASSUME NEW s, NEW P \in {PmpFull, PmpFar}, NEW Q, s \in At(M, P, Q),
           NEW i \in 0 .. 14, NEW low \in 0 .. Top, NEW high \in 0 .. Top, i # 0 \/ low > Home
    PROVE  s \o Bounds("pmp", i, low, high) \in At(M, P, Q)
<1>1. i \in Slots /\ i + 1 \in Slots /\ i + 1 # 0
    BY DEF Slots
<1>2. s \o Addr("pmp", i, low) \in At(M, P, Q)
    BY <1>1, AfterPmpAddr
<1>3. (s \o Addr("pmp", i, low)) \o Addr("pmp", i + 1, high) \in At(M, P, Q)
    BY <1>1, <1>2, AfterPmpAddr
<1> QED BY <1>3, StepFacts, BoundsAre DEF Csrs

LEMMA AfterPmaBounds ==
    ASSUME NEW s, NEW P, NEW low \in 0 .. Top, NEW high \in 0 .. Top
    PROVE  /\ s \in At(M, P, PmaBased) =>
                  /\ s \o Bounds("pma", 0, low, high) \in At(M, P, PmaOff)
                  /\ low > Home /\ high > Home =>
                         s \o Bounds("pma", 0, low, high) \in At(M, P, PmaPair)
           /\ s \in At(M, P, PmaOff) => s \o Bounds("pma", 1, low, high) \in At(M, P, PmaOff)
           /\ s \in At(M, P, PmaOne) /\ low > Home =>
                  s \o Bounds("pma", 0, low, high) \in At(M, P, PmaOne)
           /\ s \in At(M, P, PmaPair) /\ low > Home =>
                  s \o Bounds("pma", 2, low, high) \in At(M, P, PmaAll)
<1>a. ASSUME NEW Q, s \in At(M, P, Q)
      PROVE  /\ s \o Bounds("pma", 0, low, high) = (s \o Addr("pma", 0, low)) \o Addr("pma", 1, high)
             /\ s \o Bounds("pma", 1, low, high) = (s \o Addr("pma", 1, low)) \o Addr("pma", 2, high)
             /\ s \o Bounds("pma", 2, low, high) = (s \o Addr("pma", 2, low)) \o Addr("pma", 3, high)
    <2>1. s \in Seq(Steps) /\ "pma" \in Csrs
        BY <1>a, StepFacts DEF Csrs
    <2>2. \A i \in 0 .. 14 :
              s \o Bounds("pma", i, low, high) = (s \o Addr("pma", i, low)) \o Addr("pma", i + 1, high)
        BY <2>1, BoundsAre
    <2>3. 0 \in 0 .. 14 /\ 1 \in 0 .. 14 /\ 2 \in 0 .. 14 /\ 0 + 1 = 1 /\ 1 + 1 = 2 /\ 2 + 1 = 3
        OBVIOUS
    <2> QED BY <2>2, <2>3
<1>b. /\ 0 \in 0 .. 3 /\ 1 \in 0 .. 3 /\ 2 \in 0 .. 3 /\ 3 \in 0 .. 3
      /\ 1 # 0 /\ 2 # 0
    OBVIOUS
<1>2. ASSUME s \in At(M, P, PmaBased)
      PROVE  s \o Bounds("pma", 0, low, high) \in At(M, P, PmaOff)
    <2>1. s \o Addr("pma", 0, low) \in At(M, P, PmaOff)
        BY <1>2, <1>b, AfterPmaAddr
    <2>2. (s \o Addr("pma", 0, low)) \o Addr("pma", 1, high) \in At(M, P, PmaOff)
        BY <1>b, <2>1, AfterPmaAddr
    <2> QED BY <1>2, <1>a, <2>2
<1>3. ASSUME s \in At(M, P, PmaBased), low > Home, high > Home
      PROVE  s \o Bounds("pma", 0, low, high) \in At(M, P, PmaPair)
    <2>1. s \o Addr("pma", 0, low) \in At(M, P, PmaBased)
        BY <1>3, <1>b, AfterPmaAddr
    <2>2. (s \o Addr("pma", 0, low)) \o Addr("pma", 1, high) \in At(M, P, PmaPair)
        BY <1>3, <1>b, <2>1, AfterPmaAddr
    <2> QED BY <1>3, <1>a, <2>2
<1>4. ASSUME s \in At(M, P, PmaOff)
      PROVE  s \o Bounds("pma", 1, low, high) \in At(M, P, PmaOff)
    <2>1. s \o Addr("pma", 1, low) \in At(M, P, PmaOff)
        BY <1>4, <1>b, AfterPmaAddr
    <2>2. (s \o Addr("pma", 1, low)) \o Addr("pma", 2, high) \in At(M, P, PmaOff)
        BY <1>b, <2>1, AfterPmaAddr
    <2> QED BY <1>4, <1>a, <2>2
<1>5. ASSUME s \in At(M, P, PmaOne), low > Home
      PROVE  s \o Bounds("pma", 0, low, high) \in At(M, P, PmaOne)
    <2>1. s \o Addr("pma", 0, low) \in At(M, P, PmaOne)
        BY <1>5, <1>b, AfterPmaAddr
    <2>2. (s \o Addr("pma", 0, low)) \o Addr("pma", 1, high) \in At(M, P, PmaOne)
        BY <1>b, <2>1, AfterPmaAddr
    <2> QED BY <1>5, <1>a, <2>2
<1>6. ASSUME s \in At(M, P, PmaPair), low > Home
      PROVE  s \o Bounds("pma", 2, low, high) \in At(M, P, PmaAll)
    <2>1. s \o Addr("pma", 2, low) \in At(M, P, PmaAll)
        BY <1>6, <1>b, AfterPmaAddr
    <2>2. (s \o Addr("pma", 2, low)) \o Addr("pma", 3, high) \in At(M, P, PmaAll)
        BY <1>b, <2>1, AfterPmaAddr
    <2> QED BY <1>6, <1>a, <2>2
<1> QED BY <1>2, <1>3, <1>4, <1>5, <1>6

LEMMA Associative ==
    ASSUME NEW a \in Seq(Steps), NEW b \in Seq(Steps), NEW c \in Seq(Steps)
    PROVE  a \o (b \o c) = (a \o b) \o c
BY ConcatAssociative

LEMMA Joined ==
    ASSUME NEW a \in Seq(Steps), NEW b \in Seq(Steps)
    PROVE  a \o b \in Seq(Steps)
BY ConcatProperties

(* linknan_pma_cfg0_tor_entry1_encoded: the four steps one after the other. *)
LEMMA EncodedIs ==
    ASSUME NEW s \in Seq(Steps), NEW low \in 0 .. Top, NEW high \in 0 .. Top, NEW bits \in SUBSET Bits
    PROVE  s \o linknan_pma_cfg0_tor_entry1_encoded(low, high, bits) =
               ((s \o Clear("pma")) \o Bounds("pma", 0, low, high)) \o Set("pma", 1, bits)
<1> DEFINE x == Clear("pma")
           y == Bounds("pma", 0, low, high)
           z == Set("pma", 1, bits)
<1>1. [op |-> "clear", csr |-> "pma"] \in WholeWrites /\ SetStep(1, bits) \in BitWrites
      /\ [op |-> "addr", csr |-> "pma", i |-> 0, frame |-> low] \in BoundWrites
      /\ [op |-> "addr", csr |-> "pma", i |-> 0 + 1, frame |-> high] \in BoundWrites
    BY DEF WholeWrites, BitWrites, BoundWrites, Csrs, Slots, SetStep
<1>2. x \in Seq(Steps) /\ z \in Seq(Steps)
      /\ Addr("pma", 0, low) \in Seq(Steps) /\ Addr("pma", 0 + 1, high) \in Seq(Steps)
    BY <1>1, InSteps DEF Clear, Set, Addr, SetStep
<1>3. y \in Seq(Steps)
    BY <1>2, ConcatProperties DEF Bounds
<1>4. linknan_pma_cfg0_tor_entry1_encoded(low, high, bits) = (x \o y) \o z
    BY DEF linknan_pma_cfg0_tor_entry1_encoded
<1> HIDE DEF x, y, z
<1>5. s \o (x \o y) = (s \o x) \o y
    BY <1>2, <1>3, Associative
<1>6. x \o y \in Seq(Steps)
    BY <1>2, <1>3, Joined
<1> DEFINE v == x \o y
<1> HIDE DEF v
<1>8. s \o (v \o z) = (s \o v) \o z
    BY <1>2, <1>6, Associative DEF v
<1>7. s \o linknan_pma_cfg0_tor_entry1_encoded(low, high, bits) = ((s \o x) \o y) \o z
    BY <1>4, <1>5, <1>8 DEF v
<1> QED BY <1>7 DEF x, y, z

LEMMA AfterEncoded ==
    ASSUME Layout, NEW s, NEW P, s \in At(M, P, PmaBased),
           NEW low \in 0 .. Top, NEW high \in 0 .. Top, NEW bits \in SUBSET Bits
    PROVE  /\ low > Home /\ high > Home /\ "L" \in bits =>
                  s \o linknan_pma_cfg0_tor_entry1_encoded(low, high, bits) \in At(M, P, PmaOne)
           /\ Rights \subseteq bits /\ "L" \notin bits =>
                  s \o linknan_pma_cfg0_tor_entry1_encoded(low, high, bits) \in At(M, P, PmaKept)
<1>1. s \in Seq(Steps) /\ s \o Clear("pma") \in At(M, P, PmaBased)
    BY StepFacts, AfterWhole
<1>2. /\ (s \o Clear("pma")) \o Bounds("pma", 0, low, high) \in At(M, P, PmaOff)
      /\ low > Home /\ high > Home =>
             (s \o Clear("pma")) \o Bounds("pma", 0, low, high) \in At(M, P, PmaPair)
    BY <1>1, AfterPmaBounds
<1> DEFINE u == (s \o Clear("pma")) \o Bounds("pma", 0, low, high)
<1>3. s \o linknan_pma_cfg0_tor_entry1_encoded(low, high, bits) = u \o Set("pma", 1, bits)
    BY <1>1, EncodedIs
<1>4. u \in At(M, P, PmaOff) /\ (low > Home /\ high > Home => u \in At(M, P, PmaPair))
    BY <1>2
<1> HIDE DEF u
<1>5. /\ u \in At(M, P, PmaPair) /\ "L" \in bits => u \o Set("pma", 1, bits) \in At(M, P, PmaOne)
      /\ Rights \subseteq bits /\ "L" \notin bits => u \o Set("pma", 1, bits) \in At(M, P, PmaKept)
    BY <1>4, AfterPmaBits
<1> QED BY <1>3, <1>4, <1>5

(* The first statement of a test.                                          *)
LEMMA Starting ==
    ASSUME NEW x \in Seq(Steps), NEW p, NEW P, NEW Q, <<>> \o x \in At(p, P, Q)
    PROVE  x \in At(p, P, Q)
BY ConcatEmptySeq

-----------------------------------------------------------------------------
(* The lemmas above as rules about a statement x: it can be added wherever *)
(* the test is (Anywhere), outside U-mode (NotUser), or in M-mode          *)
(* (InMachine), and changes nothing that is known; or it is added in       *)
(* M-mode and turns what is known of the registers of PMP from P into P2   *)
(* (OnPmp), or of PMA from Q into Q2 (OnPma). A script of Some(P, Q) is at *)
(* some privilege.                                                         *)
Some(P, Q) == {s \in Seq(Steps) : \E p : s \in At(p, P, Q)}
Anywhere(x) == \A s, p, P, Q : s \in At(p, P, Q) => s \o x \in At(p, P, Q)
NotUser(x) == \A s, p, P, Q : s \in At(p, P, Q) /\ p \in {M, HS} => s \o x \in At(p, P, Q)
InMachine(x) == \A s, P, Q : s \in At(M, P, Q) => s \o x \in At(M, P, Q)
OnPmp(x, P, P2) == \A s, Q : s \in At(M, P, Q) => s \o x \in At(M, P2, Q)
OnPma(x, Q, Q2) == \A s, P : s \in At(M, P, Q) => s \o x \in At(M, P, Q2)

LEMMA InSome ==
    ASSUME NEW s, NEW p, NEW P, NEW Q, s \in At(p, P, Q)
    PROVE  s \in Some(P, Q)
BY StepFacts DEF Some

LEMMA AnywhereAfter ==
    /\ \A x, s, p, P, Q : Anywhere(x) /\ s \in At(p, P, Q) => s \o x \in At(p, P, Q)
    /\ \A x, s, P, Q : Anywhere(x) /\ s \in Some(P, Q) => s \o x \in Some(P, Q)
<1>1. \A x, s, p, P, Q : Anywhere(x) /\ s \in At(p, P, Q) => s \o x \in At(p, P, Q)
    BY DEF Anywhere
<1>2. ASSUME NEW x, NEW s, NEW P, NEW Q, Anywhere(x), s \in Some(P, Q)
      PROVE  s \o x \in Some(P, Q)
    <2>1. PICK p : s \in At(p, P, Q)
        BY <1>2 DEF Some
    <2> QED BY <1>1, <1>2, <2>1, InSome
<1> QED BY <1>1, <1>2

LEMMA NotUserAfter ==
    /\ \A x, s, P, Q : NotUser(x) /\ s \in At(M, P, Q) =>
           s \o x \in At(M, P, Q) /\ s \o x \in Some(P, Q)
    /\ \A x, s, P, Q : NotUser(x) /\ s \in At(HS, P, Q) =>
           s \o x \in At(HS, P, Q) /\ s \o x \in Some(P, Q)
BY InSome DEF NotUser

LEMMA InMachineAfter ==
    \A x, s, P, Q : InMachine(x) /\ s \in At(M, P, Q) =>
        s \o x \in At(M, P, Q) /\ s \o x \in Some(P, Q)
BY InSome DEF InMachine

LEMMA GoAfter ==
    \A s, P, Q, t : t \in Modes /\ s \in Some(P, Q) =>
        s \o Go(t) \in At(t, P, Q) /\ s \o Go(t) \in Some(P, Q)
<1> SUFFICES ASSUME NEW s, NEW P, NEW Q, NEW t \in Modes, s \in Some(P, Q)
             PROVE  s \o Go(t) \in At(t, P, Q) /\ s \o Go(t) \in Some(P, Q)
    OBVIOUS
<1>1. PICK p : s \in At(p, P, Q)
    BY DEF Some
<1> QED BY <1>1, AfterGo, InSome

LEMMA OnPmpAfter ==
    \A x, s, Q :
        /\ OnPmp(x, PmpFull, PmpFull) /\ s \in At(M, PmpFull, Q) =>
               s \o x \in At(M, PmpFull, Q) /\ s \o x \in Some(PmpFull, Q)
        /\ OnPmp(x, PmpFull, PmpFar) /\ s \in At(M, PmpFull, Q) =>
               s \o x \in At(M, PmpFar, Q) /\ s \o x \in Some(PmpFar, Q)
        /\ OnPmp(x, PmpFar, PmpFull) /\ s \in At(M, PmpFar, Q) =>
               s \o x \in At(M, PmpFull, Q) /\ s \o x \in Some(PmpFull, Q)
        /\ OnPmp(x, PmpFar, PmpFar) /\ s \in At(M, PmpFar, Q) =>
               s \o x \in At(M, PmpFar, Q) /\ s \o x \in Some(PmpFar, Q)
        /\ OnPmp(x, PmpFar, PmpKept) /\ s \in At(M, PmpFar, Q) =>
               s \o x \in At(M, PmpKept, Q) /\ s \o x \in Some(PmpKept, Q)
        /\ OnPmp(x, PmpKept, PmpFar) /\ s \in At(M, PmpKept, Q) =>
               s \o x \in At(M, PmpFar, Q) /\ s \o x \in Some(PmpFar, Q)
BY InSome DEF OnPmp

LEMMA OnPmaAfter ==
    \A x, s, P :
        /\ OnPma(x, PmaOff, PmaOff) /\ s \in At(M, P, PmaOff) =>
               s \o x \in At(M, P, PmaOff) /\ s \o x \in Some(P, PmaOff)
        /\ OnPma(x, PmaOff, PmaBased) /\ s \in At(M, P, PmaOff) =>
               s \o x \in At(M, P, PmaBased) /\ s \o x \in Some(P, PmaBased)
        /\ OnPma(x, PmaOff, PmaKept) /\ s \in At(M, P, PmaOff) =>
               s \o x \in At(M, P, PmaKept) /\ s \o x \in Some(P, PmaKept)
        /\ OnPma(x, PmaBased, PmaBased) /\ s \in At(M, P, PmaBased) =>
               s \o x \in At(M, P, PmaBased) /\ s \o x \in Some(P, PmaBased)
        /\ OnPma(x, PmaBased, PmaOff) /\ s \in At(M, P, PmaBased) =>
               s \o x \in At(M, P, PmaOff) /\ s \o x \in Some(P, PmaOff)
        /\ OnPma(x, PmaBased, PmaOne) /\ s \in At(M, P, PmaBased) =>
               s \o x \in At(M, P, PmaOne) /\ s \o x \in Some(P, PmaOne)
        /\ OnPma(x, PmaBased, PmaPair) /\ s \in At(M, P, PmaBased) =>
               s \o x \in At(M, P, PmaPair) /\ s \o x \in Some(P, PmaPair)
        /\ OnPma(x, PmaBased, PmaKept) /\ s \in At(M, P, PmaBased) =>
               s \o x \in At(M, P, PmaKept) /\ s \o x \in Some(P, PmaKept)
        /\ OnPma(x, PmaOne, PmaOne) /\ s \in At(M, P, PmaOne) =>
               s \o x \in At(M, P, PmaOne) /\ s \o x \in Some(P, PmaOne)
        /\ OnPma(x, PmaPair, PmaPair) /\ s \in At(M, P, PmaPair) =>
               s \o x \in At(M, P, PmaPair) /\ s \o x \in Some(P, PmaPair)
        /\ OnPma(x, PmaPair, PmaAll) /\ s \in At(M, P, PmaPair) =>
               s \o x \in At(M, P, PmaAll) /\ s \o x \in Some(P, PmaAll)
        /\ OnPma(x, PmaAll, PmaAll) /\ s \in At(M, P, PmaAll) =>
               s \o x \in At(M, P, PmaAll) /\ s \o x \in Some(P, PmaAll)
BY InSome DEF OnPma

LEMMA ModeNames == M \in Modes /\ HS \in Modes /\ HU \in Modes
BY DEF Modes

(* The statements that can be made anywhere.                               *)
LEMMA AnywhereStatements ==
    /\ Anywhere(Arm) /\ Anywhere(End)
    /\ \A c \in Faults : Anywhere(Expect(c)) /\ \A at \in Modes : Anywhere(ExpectAt(c, at))
    /\ \A f \in Setters : Anywhere(Hspt(f))
BY AfterArm, AfterExpect, AfterTables DEF Anywhere

LEMMA AnywhereAccesses ==
    ASSUME NEW k \in Kinds, NEW page \in Int
    PROVE  /\ Anywhere(Do(k, page)) /\ Anywhere(StoreRet(page))
           /\ \A c \in Faults : Anywhere(Try(k, page, c)) /\ \A at \in Modes : Anywhere(TryAt(k, page, c, at))
BY AfterDo, AfterTry DEF Anywhere

LEMMA KindNames ==
    /\ "fetch" \in Kinds /\ "call" \in Kinds /\ "load" \in Kinds /\ "lr" \in Kinds
    /\ "unaligned_load" \in Kinds /\ "cross_load" \in Kinds /\ "store" \in Kinds /\ "sc" \in Kinds
    /\ "amo" \in Kinds /\ "unaligned_store" \in Kinds /\ "cross_store" \in Kinds
BY DEF Kinds, Fetches, Loads

LEMMA FaultNames ==
    /\ "none" \in Faults /\ "IAF" \in Faults /\ "LAF" \in Faults /\ "SAF" \in Faults
    /\ "IPF" \in Faults /\ "LPF" \in Faults /\ "SPF" \in Faults
BY DEF Faults

LEMMA EntryStatements ==
    /\ Anywhere(HsptEntry("DelV", 0, 0)) /\ Anywhere(HsptEntry("DelV", 1, 4))
    /\ Anywhere(HsptEntry("DelV", 2, 0)) /\ Anywhere(HsptEntry("AddN", 0, 0))
    /\ Anywhere(HsptEntry("AddN", 1, 4)) /\ Anywhere(HsptEntry("AddN", 2, 0))
<1>1. ASSUME NEW f \in {"DelV", "AddN"}, NEW t \in Nat, NEW i \in Nat, <<t, i>> \in Entries
      PROVE  Anywhere(HsptEntry(f, t, i))
    BY <1>1, AfterTables DEF Anywhere
<1>2. <<0, 0>> \in Entries /\ <<1, 4>> \in Entries /\ <<2, 0>> \in Entries
    BY DEF Entries, Pointers
<1> QED BY <1>1, <1>2

(* From HS upwards.                                                        *)
LEMMA NotUserStatements ==
    /\ NotUser(SatpOff) /\ NotUser(Asid(\h1234)) /\ NotUser(Fence)
    /\ NotUser(SRaise(SUM)) /\ NotUser(SLower(SUM)) /\ NotUser(SRaise(MXR)) /\ NotUser(SLower(MXR))
BY AfterSupervisor DEF NotUser

LEMMA NotUserFences == \A page \in Int, asid \in Int : NotUser(FenceOf(page, asid))
BY AfterSupervisor DEF NotUser

LEMMA InMachineStatements ==
    /\ InMachine(Raise(MPRV)) /\ InMachine(Lower(MPRV)) /\ InMachine(Raise(MPP)) /\ InMachine(Lower(MPP))
    /\ InMachine(Raise(SUM)) /\ InMachine(Lower(SUM)) /\ InMachine(Raise(MXR)) /\ InMachine(Lower(MXR))
    /\ \A c \in Faults : InMachine(Delegate(c))
BY AfterMachine DEF InMachine

(* The first statement of a test.                                          *)
LEMMA Openings ==
    /\ \A t \in Modes : Go(t) \in At(t, PmpFull, PmaOff) /\ Go(t) \in Some(PmpFull, PmaOff)
    /\ Layout => Clear("pmp") \in At(M, PmpFar, PmaOff)
    /\ Set("pmp", 0, RWXT) \in At(M, PmpFull, PmaOff)
    /\ \A page \in Int : StoreRet(page) \in At(M, PmpFull, PmaOff) /\ StoreRet(page) \in Some(PmpFull, PmaOff)
    /\ End \in Some(PmpFull, PmaOff)
<1>1. ASSUME NEW x \in Steps, NEW p, NEW P, NEW Q, <<>> \o <<x>> \in At(p, P, Q)
      PROVE  <<x>> \in At(p, P, Q)
    <2>1. <<x>> \in Seq(Steps)
        OBVIOUS
    <2> QED BY <1>1, <2>1, Starting
<1>2. ASSUME NEW t \in Modes PROVE Go(t) \in At(t, PmpFull, PmaOff)
    <2>1. [op |-> "go", priv |-> t] \in Steps
        BY InSteps DEF Moves
    <2>2. <<>> \o Go(t) \in At(t, PmpFull, PmaOff)
        BY AtStart, AfterGo
    <2> QED BY <1>1, <2>1, <2>2 DEF Go
<1>3. ASSUME Layout PROVE Clear("pmp") \in At(M, PmpFar, PmaOff)
    <2>1. [op |-> "clear", csr |-> "pmp"] \in Steps
        BY InSteps DEF WholeWrites, Csrs
    <2>2. <<>> \o Clear("pmp") \in At(M, PmpFar, PmaOff)
        BY <1>3, AtStart, AfterWhole
    <2> QED BY <1>1, <2>1, <2>2 DEF Clear
<1>4. Set("pmp", 0, RWXT) \in At(M, PmpFull, PmaOff)
    <2> DEFINE x == [op |-> "set", csr |-> "pmp", i |-> 0, bits |-> RWXT]
    <2>1. x \in BitWrites /\ Set("pmp", 0, RWXT) = <<x>>
        BY DEF BitWrites, Csrs, Slots, RWXT, Bits, Set
    <2>2. <<>> \o Set("pmp", 0, RWXT) \in At(M, PmpFull, PmaOff)
        <3>1. RWXT \in SUBSET Bits /\ 0 \in Slots
            BY DEF RWXT, Bits, Slots
        <3> QED BY <3>1, AtStart, AfterPmpBits
    <2> HIDE DEF x
    <2> QED BY <1>1, <2>1, <2>2, InSteps
<1>5. ASSUME NEW page \in Int PROVE StoreRet(page) \in At(M, PmpFull, PmaOff)
    <2>1. [op |-> "do", kind |-> "code", page |-> page] \in Steps
        BY InSteps DEF Accesses
    <2>2. <<>> \o StoreRet(page) \in At(M, PmpFull, PmaOff)
        BY AtStart, AfterDo, KindNames
    <2> QED BY <1>1, <2>1, <2>2 DEF StoreRet
<1>6. End \in At(M, PmpFull, PmaOff)
    <2>1. [op |-> "end"] \in Steps
        BY InSteps DEF Brackets
    <2>2. <<>> \o End \in At(M, PmpFull, PmaOff)
        BY AtStart, AfterArm
    <2> QED BY <1>1, <2>1, <2>2 DEF End
<1> QED BY <1>2, <1>3, <1>4, <1>5, <1>6, InSome

(* The sets of bits the tests name.                                        *)
LEMMA BitNames ==
    /\ C \in SUBSET Bits /\ Exec \in SUBSET Bits /\ L \in SUBSET Bits /\ R \in SUBSET Bits
    /\ RW \in SUBSET Bits /\ RWXT \in SUBSET Bits /\ RWXTC \in SUBSET Bits
    /\ RWXTL \in SUBSET Bits /\ RXTCL \in SUBSET Bits /\ RXTL \in SUBSET Bits
    /\ T \in SUBSET Bits /\ W \in SUBSET Bits /\ WXT \in SUBSET Bits /\ WXTC \in SUBSET Bits
    /\ WXTL \in SUBSET Bits /\ XT \in SUBSET Bits /\ XTC \in SUBSET Bits
BY DEF Bits, C, Exec, L, R, RW, RWXT, RWXTC, RWXTL, RXTCL, RXTL, T, W, WXT, WXTC, WXTL, XT, XTC

(* The frames the tests put into the registers lie beyond the framework.   *)
LEMMA FrameNames ==
    ASSUME Layout
    PROVE  /\ 0 \in 0 .. Top
           /\ Pp(VSRWX_GRWX) \in 0 .. Top /\ Pp(VSRWX_GRWX) > Home
           /\ Pp(VSRWX_GRWX) + 1 \in 0 .. Top /\ Pp(VSRWX_GRWX) + 1 > Home
           /\ Pp(VSRWX_GRX) \in 0 .. Top /\ Pp(VSRWX_GRX) > Home
           /\ Pp(VSRW_GRWX) \in 0 .. Top /\ Pp(VSRW_GRWX) > Home
           /\ Pp(VSRW_GRWX) + 1 \in 0 .. Top /\ Pp(VSRW_GRWX) + 1 > Home
           /\ Pp(VSR_GRWX) \in 0 .. Top /\ Pp(VSR_GRWX) > Home
           /\ Pp(VSR_GRWX) + 1 \in 0 .. Top /\ Pp(VSR_GRWX) + 1 > Home
           /\ Pp(VSR_GRWX) + 2 \in 0 .. Top /\ Pp(VSR_GRWX) + 2 > Home
           /\ Pp(VSURWX_GURWX) \in 0 .. Top /\ Pp(VSURWX_GURWX) > Home
           /\ Pp(VSURWX_GURWX) + 1 \in 0 .. Top /\ Pp(VSURWX_GURWX) + 1 > Home
           /\ Pp(VSX_GRWX) \in 0 .. Top /\ Pp(VSX_GRWX) > Home
           /\ Pp(VSX_GRWX) + 1 \in 0 .. Top /\ Pp(VSX_GRWX) + 1 > Home
           /\ Table(0) \in 0 .. Top /\ Table(0) > Home
           /\ Table(0) + 1 \in 0 .. Top /\ Table(0) + 1 > Home
           /\ Table(2) \in 0 .. Top /\ Table(2) > Home
           /\ Table(2) + 1 \in 0 .. Top /\ Table(2) + 1 > Home
           /\ Table(4) \in 0 .. Top /\ Table(4) > Home
           /\ Table(4) + 1 \in 0 .. Top /\ Table(4) + 1 > Home
           /\ Top \in 0 .. Top /\ Top > Home
           /\ \h200000 \in 0 .. Top /\ \h200000 > Home
           /\ \h204000 \in 0 .. Top /\ \h204000 > Home
           /\ \h208000 \in 0 .. Top /\ \h208000 > Home
           /\ \h20C000 \in 0 .. Top /\ \h20C000 > Home
           /\ \h220000 \in 0 .. Top /\ \h220000 > Home
           /\ \h224000 \in 0 .. Top /\ \h224000 > Home
           /\ \h240000 \in 0 .. Top /\ \h240000 > Home
           /\ \h81000 \in 0 .. Top /\ \h81000 > Home
           /\ \h82000 \in 0 .. Top /\ \h82000 > Home
<1>1. Top \in Nat /\ Home \in Nat /\ Image \in Nat
    BY TopTypes, HomeAssumption, ImageAssumption
<1>2. Pp(VSRWX_GRWX) \in Nat /\ Pp(VSRWX_GRWX) <= Top /\ Pp(VSRWX_GRWX) > Home
    BY SMT DEF Layout, Top, Pp, TEST_PPAGE_BASE, VSRWX_GRWX
<1>3. Pp(VSRWX_GRWX) + 1 \in Nat /\ Pp(VSRWX_GRWX) + 1 <= Top /\ Pp(VSRWX_GRWX) + 1 > Home
    BY SMT DEF Layout, Top, Pp, TEST_PPAGE_BASE, VSRWX_GRWX
<1>4. Pp(VSRWX_GRX) \in Nat /\ Pp(VSRWX_GRX) <= Top /\ Pp(VSRWX_GRX) > Home
    BY SMT DEF Layout, Top, Pp, TEST_PPAGE_BASE, VSRWX_GRX
<1>5. Pp(VSRW_GRWX) \in Nat /\ Pp(VSRW_GRWX) <= Top /\ Pp(VSRW_GRWX) > Home
    BY SMT DEF Layout, Top, Pp, TEST_PPAGE_BASE, VSRW_GRWX
<1>6. Pp(VSRW_GRWX) + 1 \in Nat /\ Pp(VSRW_GRWX) + 1 <= Top /\ Pp(VSRW_GRWX) + 1 > Home
    BY SMT DEF Layout, Top, Pp, TEST_PPAGE_BASE, VSRW_GRWX
<1>7. Pp(VSR_GRWX) \in Nat /\ Pp(VSR_GRWX) <= Top /\ Pp(VSR_GRWX) > Home
    BY SMT DEF Layout, Top, Pp, TEST_PPAGE_BASE, VSR_GRWX
<1>8. Pp(VSR_GRWX) + 1 \in Nat /\ Pp(VSR_GRWX) + 1 <= Top /\ Pp(VSR_GRWX) + 1 > Home
    BY SMT DEF Layout, Top, Pp, TEST_PPAGE_BASE, VSR_GRWX
<1>9. Pp(VSR_GRWX) + 2 \in Nat /\ Pp(VSR_GRWX) + 2 <= Top /\ Pp(VSR_GRWX) + 2 > Home
    BY SMT DEF Layout, Top, Pp, TEST_PPAGE_BASE, VSR_GRWX
<1>10. Pp(VSURWX_GURWX) \in Nat /\ Pp(VSURWX_GURWX) <= Top /\ Pp(VSURWX_GURWX) > Home
    BY SMT DEF Layout, Top, Pp, TEST_PPAGE_BASE, VSURWX_GURWX
<1>11. Pp(VSURWX_GURWX) + 1 \in Nat /\ Pp(VSURWX_GURWX) + 1 <= Top /\ Pp(VSURWX_GURWX) + 1 > Home
    BY SMT DEF Layout, Top, Pp, TEST_PPAGE_BASE, VSURWX_GURWX
<1>12. Pp(VSX_GRWX) \in Nat /\ Pp(VSX_GRWX) <= Top /\ Pp(VSX_GRWX) > Home
    BY SMT DEF Layout, Top, Pp, TEST_PPAGE_BASE, VSX_GRWX
<1>13. Pp(VSX_GRWX) + 1 \in Nat /\ Pp(VSX_GRWX) + 1 <= Top /\ Pp(VSX_GRWX) + 1 > Home
    BY SMT DEF Layout, Top, Pp, TEST_PPAGE_BASE, VSX_GRWX
<1>14. Table(0) \in Nat /\ Table(0) <= Top /\ Table(0) > Home
    BY SMT, <1>1 DEF Layout, Table
<1>15. Table(0) + 1 \in Nat /\ Table(0) + 1 <= Top /\ Table(0) + 1 > Home
    BY SMT, <1>1 DEF Layout, Table
<1>16. Table(2) \in Nat /\ Table(2) <= Top /\ Table(2) > Home
    BY SMT, <1>1 DEF Layout, Table
<1>17. Table(2) + 1 \in Nat /\ Table(2) + 1 <= Top /\ Table(2) + 1 > Home
    BY SMT, <1>1 DEF Layout, Table
<1>18. Table(4) \in Nat /\ Table(4) <= Top /\ Table(4) > Home
    BY SMT, <1>1 DEF Layout, Table
<1>19. Table(4) + 1 \in Nat /\ Table(4) + 1 <= Top /\ Table(4) + 1 > Home
    BY SMT, <1>1 DEF Layout, Table
<1>20. \h200000 \in Nat /\ \h200000 <= Top /\ \h200000 > Home
    BY SMT DEF Layout, Top
<1>21. \h204000 \in Nat /\ \h204000 <= Top /\ \h204000 > Home
    BY SMT DEF Layout, Top
<1>22. \h208000 \in Nat /\ \h208000 <= Top /\ \h208000 > Home
    BY SMT DEF Layout, Top
<1>23. \h20C000 \in Nat /\ \h20C000 <= Top /\ \h20C000 > Home
    BY SMT DEF Layout, Top
<1>24. \h220000 \in Nat /\ \h220000 <= Top /\ \h220000 > Home
    BY SMT DEF Layout, Top
<1>25. \h224000 \in Nat /\ \h224000 <= Top /\ \h224000 > Home
    BY SMT DEF Layout, Top
<1>26. \h240000 \in Nat /\ \h240000 <= Top /\ \h240000 > Home
    BY SMT DEF Layout, Top
<1>27. \h81000 \in Nat /\ \h81000 <= Top /\ \h81000 > Home
    BY SMT DEF Layout, Top
<1>28. \h82000 \in Nat /\ \h82000 <= Top /\ \h82000 > Home
    BY SMT DEF Layout, Top
<1>29. 0 <= Top /\ Top <= Top /\ Top > Home
    BY <1>1, TopFar
<1>30. \A f \in Nat : f <= Top => f \in 0 .. Top
    BY <1>1
<1> QED BY <1>1, <1>2, <1>3, <1>4, <1>5, <1>6, <1>7, <1>8, <1>9, <1>10, <1>11, <1>12, <1>13,
       <1>14, <1>15, <1>16, <1>17, <1>18, <1>19, <1>20, <1>21, <1>22, <1>23, <1>24, <1>25, <1>26,
       <1>27, <1>28, <1>29, <1>30

(* Statements that write the registers of PMP.                             *)
LEMMA OnPmpBits ==
    ASSUME NEW i \in Slots, i # 0, NEW bits \in SUBSET Bits, NEW P \in {PmpFull, PmpFar}
    PROVE  OnPmp(Set("pmp", i, bits), P, P) /\ OnPmp(Unset("pmp", i, bits), P, P)
BY AfterPmpBits DEF OnPmp

LEMMA OnPmpBits0 ==
    /\ OnPmp(Set("pmp", 0, RWXT), PmpFull, PmpFull) /\ OnPmp(Set("pmp", 0, RWXT), PmpFar, PmpFull)
    /\ OnPmp(Set("pmp", 0, L), PmpFull, PmpFull)
    /\ \A P \in {PmpFull, PmpFar} : OnPmp(Unset("pmp", 0, L), P, P)
<1>1. 0 \in Slots /\ RWXT \in SUBSET Bits /\ L \in SUBSET Bits /\ L \cap RWXT = {}
    BY DEF Slots, Bits, RWXT, L
<1> QED BY <1>1, AfterPmpBits DEF OnPmp

LEMMA OnPmpWhole ==
    ASSUME Layout
    PROVE  /\ OnPmp(Clear("pmp"), PmpFull, PmpFar) /\ OnPmp(Clear("pmp"), PmpFar, PmpFar)
           /\ OnPmp(Preamble("pmp"), PmpFull, PmpFull)
BY AfterWhole DEF OnPmp

LEMMA OnPmpBounds ==
    ASSUME NEW i \in 0 .. 14, NEW low \in 0 .. Top, NEW high \in 0 .. Top, i # 0 \/ low > Home,
           NEW P \in {PmpFull, PmpFar}
    PROVE  OnPmp(Bounds("pmp", i, low, high), P, P)
BY AfterPmpBounds DEF OnPmp

LEMMA OnPmpAddr ==
    ASSUME NEW i \in Slots, NEW frame \in 0 .. Top
    PROVE  /\ i # 0 \/ frame > Home => OnPmp(Addr("pmp", i, frame), PmpFull, PmpFull)
           /\ i = 0 => OnPmp(Addr("pmp", i, frame), PmpFar, PmpKept)
           /\ i = 0 /\ frame > Home => OnPmp(Addr("pmp", i, frame), PmpKept, PmpFar)
BY AfterPmpAddr DEF OnPmp

LEMMA PmpAddrs ==
    ASSUME Layout
    PROVE  /\ OnPmp(Addr("pmp", 0, Top), PmpFull, PmpFull)
           /\ OnPmp(Addr("pmp", 0, Top), PmpKept, PmpFar)
           /\ OnPmp(Addr("pmp", 0, \h0), PmpFar, PmpKept)
           /\ OnPmp(Addr("pmp", 0, \h200000), PmpFull, PmpFull)
           /\ OnPmp(Addr("pmp", 0, \h240000), PmpFull, PmpFull)
           /\ OnPmp(Addr("pmp", 2, Top), PmpFull, PmpFull)
<1>1. 0 \in Slots /\ 1 \in Slots /\ 2 \in Slots /\ 3 \in Slots /\ 1 # 0 /\ 2 # 0 /\ 3 # 0
      /\ 0 \in 0 .. 14 /\ 2 \in 0 .. 14
    BY DEF Slots
<1> QED BY <1>1, FrameNames, OnPmpAddr

LEMMA PmpRanges ==
    ASSUME Layout
    PROVE  /\ OnPmp(Bounds("pmp", 0, Pp(VSRWX_GRWX), Pp(VSRWX_GRWX) + 1), PmpFull, PmpFull)
           /\ OnPmp(Bounds("pmp", 0, Pp(VSRW_GRWX), Pp(VSRW_GRWX) + 1), PmpFar, PmpFar)
           /\ OnPmp(Bounds("pmp", 0, Pp(VSRW_GRWX), Pp(VSRW_GRWX) + 1), PmpFull, PmpFull)
           /\ OnPmp(Bounds("pmp", 0, Pp(VSR_GRWX), Pp(VSR_GRWX) + 1), PmpFull, PmpFull)
           /\ OnPmp(Bounds("pmp", 0, Pp(VSR_GRWX), Pp(VSR_GRWX) + 2), PmpFar, PmpFar)
           /\ OnPmp(Bounds("pmp", 0, Pp(VSURWX_GURWX), Pp(VSURWX_GURWX) + 1), PmpFull, PmpFull)
           /\ OnPmp(Bounds("pmp", 0, Pp(VSX_GRWX), Pp(VSX_GRWX) + 1), PmpFull, PmpFull)
           /\ OnPmp(Bounds("pmp", 0, Table(2), Table(2) + 1), PmpFar, PmpFar)
           /\ OnPmp(Bounds("pmp", 0, Table(2), Table(2) + 1), PmpFull, PmpFull)
           /\ OnPmp(Bounds("pmp", 0, \h200000, \h204000), PmpFar, PmpFar)
           /\ OnPmp(Bounds("pmp", 0, \h200000, \h204000), PmpFull, PmpFull)
           /\ OnPmp(Bounds("pmp", 0, \h208000, \h20C000), PmpFar, PmpFar)
           /\ OnPmp(Bounds("pmp", 0, \h220000, \h224000), PmpFull, PmpFull)
           /\ OnPmp(Bounds("pmp", 0, \h224000, \h220000), PmpFull, PmpFull)
           /\ OnPmp(Bounds("pmp", 0, \h81000, \h82000), PmpFull, PmpFull)
           /\ OnPmp(Bounds("pmp", 2, Table(2), Table(2) + 1), PmpFar, PmpFar)
<1>1. 0 \in Slots /\ 1 \in Slots /\ 2 \in Slots /\ 3 \in Slots /\ 1 # 0 /\ 2 # 0 /\ 3 # 0
      /\ 0 \in 0 .. 14 /\ 2 \in 0 .. 14
    BY DEF Slots
<1> QED BY <1>1, FrameNames, OnPmpBounds

LEMMA PmpSets ==
    /\ OnPmp(Set("pmp", 1, L), PmpFar, PmpFar)
    /\ OnPmp(Set("pmp", 1, L), PmpFull, PmpFull)
    /\ OnPmp(Set("pmp", 1, R), PmpFar, PmpFar)
    /\ OnPmp(Set("pmp", 1, R), PmpFull, PmpFull)
    /\ OnPmp(Set("pmp", 1, RW), PmpFar, PmpFar)
    /\ OnPmp(Set("pmp", 1, RW), PmpFull, PmpFull)
    /\ OnPmp(Set("pmp", 1, RWXT), PmpFar, PmpFar)
    /\ OnPmp(Set("pmp", 1, T), PmpFar, PmpFar)
    /\ OnPmp(Set("pmp", 1, T), PmpFull, PmpFull)
    /\ OnPmp(Set("pmp", 1, WXT), PmpFar, PmpFar)
    /\ OnPmp(Set("pmp", 1, WXT), PmpFull, PmpFull)
    /\ OnPmp(Set("pmp", 1, WXTL), PmpFar, PmpFar)
    /\ OnPmp(Set("pmp", 1, XT), PmpFar, PmpFar)
    /\ OnPmp(Set("pmp", 1, XT), PmpFull, PmpFull)
    /\ OnPmp(Set("pmp", 2, RWXT), PmpFull, PmpFull)
    /\ OnPmp(Set("pmp", 3, WXT), PmpFar, PmpFar)
    /\ OnPmp(Set("pmp", 3, XT), PmpFar, PmpFar)
<1>1. 0 \in Slots /\ 1 \in Slots /\ 2 \in Slots /\ 3 \in Slots /\ 1 # 0 /\ 2 # 0 /\ 3 # 0
      /\ 0 \in 0 .. 14 /\ 2 \in 0 .. 14
    BY DEF Slots
<1> QED BY <1>1, BitNames, OnPmpBits

LEMMA PmpUnsets ==
    /\ OnPmp(Unset("pmp", 1, Exec), PmpFar, PmpFar)
    /\ OnPmp(Unset("pmp", 1, Exec), PmpFull, PmpFull)
    /\ OnPmp(Unset("pmp", 1, L), PmpFar, PmpFar)
    /\ OnPmp(Unset("pmp", 1, L), PmpFull, PmpFull)
    /\ OnPmp(Unset("pmp", 1, R), PmpFar, PmpFar)
    /\ OnPmp(Unset("pmp", 1, R), PmpFull, PmpFull)
    /\ OnPmp(Unset("pmp", 1, T), PmpFar, PmpFar)
    /\ OnPmp(Unset("pmp", 1, W), PmpFar, PmpFar)
    /\ OnPmp(Unset("pmp", 1, W), PmpFull, PmpFull)
    /\ OnPmp(Unset("pmp", 3, R), PmpFar, PmpFar)
    /\ OnPmp(Unset("pmp", 3, RW), PmpFar, PmpFar)
<1>1. 0 \in Slots /\ 1 \in Slots /\ 2 \in Slots /\ 3 \in Slots /\ 1 # 0 /\ 2 # 0 /\ 3 # 0
      /\ 0 \in 0 .. 14 /\ 2 \in 0 .. 14
    BY DEF Slots
<1> QED BY <1>1, BitNames, OnPmpBits

(* Statements that write the registers of PMA.                             *)
LEMMA OnPmaBits ==
    ASSUME NEW bits \in SUBSET Bits
    PROVE  /\ Rights \subseteq bits /\ "L" \notin bits => OnPma(Set("pma", 1, bits), PmaOff, PmaKept)
           /\ OnPma(Set("pma", 1, bits), PmaBased, PmaOne) /\ OnPma(Set("pma", 1, bits), PmaOne, PmaOne)
           /\ OnPma(Unset("pma", 1, bits), PmaBased, PmaBased) /\ OnPma(Unset("pma", 1, bits), PmaOne, PmaOne)
           /\ OnPma(Unset("pma", 1, bits), PmaPair, PmaPair)
           /\ "L" \notin bits => OnPma(Set("pma", 1, bits), PmaPair, PmaPair)
           /\ \A i \in 1 .. 3 : OnPma(Unset("pma", i, bits), PmaAll, PmaAll)
           /\ "L" \notin bits => \A i \in 1 .. 3 : OnPma(Set("pma", i, bits), PmaAll, PmaAll)
<1>1. Rights \subseteq bits /\ "L" \notin bits => OnPma(Set("pma", 1, bits), PmaOff, PmaKept)
    BY AfterPmaBits DEF OnPma
<1>2. /\ OnPma(Set("pma", 1, bits), PmaBased, PmaOne) /\ OnPma(Set("pma", 1, bits), PmaOne, PmaOne)
      /\ OnPma(Unset("pma", 1, bits), PmaBased, PmaBased) /\ OnPma(Unset("pma", 1, bits), PmaOne, PmaOne)
    BY AfterPmaBits DEF OnPma
<1>3. /\ OnPma(Unset("pma", 1, bits), PmaPair, PmaPair)
      /\ "L" \notin bits => OnPma(Set("pma", 1, bits), PmaPair, PmaPair)
    BY AfterPmaBits DEF OnPma
<1>4. ASSUME NEW i \in 1 .. 3
      PROVE  /\ OnPma(Unset("pma", i, bits), PmaAll, PmaAll)
             /\ "L" \notin bits => OnPma(Set("pma", i, bits), PmaAll, PmaAll)
    BY AfterPmaBits DEF OnPma
<1> QED BY <1>1, <1>2, <1>3, <1>4

LEMMA OnPmaWhole ==
    ASSUME Layout
    PROVE  /\ OnPma(Clear("pma"), PmaBased, PmaBased) /\ OnPma(Clear("pma"), PmaPair, PmaPair)
           /\ OnPma(Clear("pma"), PmaAll, PmaAll) /\ OnPma(Preamble("pma"), PmaOff, PmaBased)
BY AfterWhole DEF OnPma

LEMMA OnPmaBounds ==
    ASSUME Layout, NEW low \in 0 .. Top, NEW high \in 0 .. Top
    PROVE  /\ OnPma(Bounds("pma", 0, low, high), PmaBased, PmaOff)
           /\ low > Home /\ high > Home => OnPma(Bounds("pma", 0, low, high), PmaBased, PmaPair)
           /\ OnPma(Bounds("pma", 1, low, high), PmaOff, PmaOff)
           /\ low > Home => OnPma(Bounds("pma", 0, low, high), PmaOne, PmaOne)
           /\ low > Home => OnPma(Bounds("pma", 2, low, high), PmaPair, PmaAll)
BY AfterPmaBounds DEF OnPma

LEMMA OnPmaAddr ==
    ASSUME NEW i \in 0 .. 3, NEW frame \in 0 .. Top
    PROVE  /\ OnPma(Addr("pma", i, frame), PmaOff, PmaOff)
           /\ i = 2 /\ frame > Home => OnPma(Addr("pma", i, frame), PmaPair, PmaAll)
BY AfterPmaAddr DEF OnPma

LEMMA OnPmaEncoded ==
    ASSUME Layout, NEW low \in 0 .. Top, NEW high \in 0 .. Top, NEW bits \in SUBSET Bits
    PROVE  /\ low > Home /\ high > Home /\ "L" \in bits =>
                  OnPma(linknan_pma_cfg0_tor_entry1_encoded(low, high, bits), PmaBased, PmaOne)
           /\ Rights \subseteq bits /\ "L" \notin bits =>
                  OnPma(linknan_pma_cfg0_tor_entry1_encoded(low, high, bits), PmaBased, PmaKept)
BY AfterEncoded DEF OnPma

LEMMA PmaAddrs ==
    ASSUME Layout
    PROVE  /\ OnPma(Addr("pma", 1, \h0), PmaOff, PmaOff)
           /\ OnPma(Addr("pma", 2, Pp(VSRWX_GRX)), PmaPair, PmaAll)
<1>1. 0 \in 0 .. 3 /\ 1 \in 0 .. 3 /\ 2 \in 0 .. 3 /\ 1 \in 1 .. 3 /\ 2 \in 1 .. 3 /\ 3 \in 1 .. 3
    OBVIOUS
<1> QED BY <1>1, FrameNames, OnPmaAddr

LEMMA PmaRanges ==
    ASSUME Layout
    PROVE  /\ OnPma(Bounds("pma", 0, Pp(VSRWX_GRWX), Pp(VSRWX_GRWX) + 1), PmaBased, PmaPair)
           /\ OnPma(Bounds("pma", 0, Table(0), Table(0) + 1), PmaBased, PmaPair)
           /\ OnPma(Bounds("pma", 0, Table(2), Table(2) + 1), PmaBased, PmaPair)
           /\ OnPma(Bounds("pma", 0, Table(4), Table(4) + 1), PmaBased, PmaPair)
           /\ OnPma(Bounds("pma", 0, \h0, Top), PmaBased, PmaOff)
           /\ OnPma(Bounds("pma", 0, \h200000, \h204000), PmaOne, PmaOne)
           /\ OnPma(Bounds("pma", 1, \h200000, \h204000), PmaOff, PmaOff)
           /\ OnPma(Bounds("pma", 2, Table(2), Table(2) + 1), PmaPair, PmaAll)
<1>1. 0 \in 0 .. 3 /\ 1 \in 0 .. 3 /\ 2 \in 0 .. 3 /\ 1 \in 1 .. 3 /\ 2 \in 1 .. 3 /\ 3 \in 1 .. 3
    OBVIOUS
<1> QED BY <1>1, FrameNames, OnPmaBounds

LEMMA PmaSets ==
    /\ OnPma(Set("pma", 1, C), PmaPair, PmaPair)
    /\ OnPma(Set("pma", 1, L), PmaOne, PmaOne)
    /\ OnPma(Set("pma", 1, R), PmaBased, PmaOne)
    /\ OnPma(Set("pma", 1, R), PmaPair, PmaPair)
    /\ OnPma(Set("pma", 1, RWXTC), PmaAll, PmaAll)
    /\ OnPma(Set("pma", 1, RWXTC), PmaOff, PmaKept)
    /\ OnPma(Set("pma", 1, RWXTC), PmaPair, PmaPair)
    /\ OnPma(Set("pma", 1, WXT), PmaBased, PmaOne)
    /\ OnPma(Set("pma", 1, XT), PmaOne, PmaOne)
    /\ OnPma(Set("pma", 1, XTC), PmaOne, PmaOne)
    /\ OnPma(Set("pma", 2, C), PmaAll, PmaAll)
    /\ OnPma(Set("pma", 2, RWXTC), PmaAll, PmaAll)
    /\ OnPma(Set("pma", 3, WXTC), PmaAll, PmaAll)
    /\ OnPma(Set("pma", 3, XTC), PmaAll, PmaAll)
<1>1. 0 \in 0 .. 3 /\ 1 \in 0 .. 3 /\ 2 \in 0 .. 3 /\ 1 \in 1 .. 3 /\ 2 \in 1 .. 3 /\ 3 \in 1 .. 3
    OBVIOUS
<1>2. /\ "L" \notin C /\ "L" \notin R /\ "L" \notin RWXTC /\ "L" \notin WXT /\ "L" \notin WXTC
      /\ "L" \notin XT /\ "L" \notin XTC /\ "L" \in L /\ Rights \subseteq RWXTC
    BY DEF Rights, C, L, R, RWXTC, WXT, WXTC, XT, XTC
<1> QED BY <1>1, <1>2, BitNames, OnPmaBits

LEMMA PmaUnsets ==
    /\ OnPma(Unset("pma", 1, C), PmaPair, PmaPair)
    /\ OnPma(Unset("pma", 1, R), PmaBased, PmaBased)
    /\ OnPma(Unset("pma", 1, R), PmaPair, PmaPair)
    /\ OnPma(Unset("pma", 1, T), PmaAll, PmaAll)
    /\ OnPma(Unset("pma", 1, W), PmaOne, PmaOne)
    /\ OnPma(Unset("pma", 1, W), PmaPair, PmaPair)
    /\ OnPma(Unset("pma", 2, C), PmaAll, PmaAll)
    /\ OnPma(Unset("pma", 3, R), PmaAll, PmaAll)
    /\ OnPma(Unset("pma", 3, RW), PmaAll, PmaAll)
<1>1. 0 \in 0 .. 3 /\ 1 \in 0 .. 3 /\ 2 \in 0 .. 3 /\ 1 \in 1 .. 3 /\ 2 \in 1 .. 3 /\ 3 \in 1 .. 3
    OBVIOUS
<1>2. /\ "L" \notin C /\ "L" \notin R /\ "L" \notin RW /\ "L" \notin T /\ "L" \notin W
    BY DEF Rights, C, R, RW, T, W
<1> QED BY <1>1, <1>2, BitNames, OnPmaBits

LEMMA PmaEncodings ==
    ASSUME Layout
    PROVE  /\ OnPma(linknan_pma_cfg0_tor_entry1_encoded(\h0, Top, RWXTC), PmaBased, PmaKept)
           /\ OnPma(linknan_pma_cfg0_tor_entry1_encoded(\h200000, \h204000, RWXTL), PmaBased, PmaOne)
           /\ OnPma(linknan_pma_cfg0_tor_entry1_encoded(\h200000, \h204000, RXTL), PmaBased, PmaOne)
           /\ OnPma(linknan_pma_cfg0_tor_entry1_encoded(\h200000, \h204000, WXTL), PmaBased, PmaOne)
           /\ OnPma(linknan_pma_cfg0_tor_entry1_encoded(\h220000, \h224000, RWXTL), PmaBased, PmaOne)
           /\ OnPma(linknan_pma_cfg0_tor_entry1_encoded(\h220000, \h224000, RXTCL), PmaBased, PmaOne)
           /\ OnPma(linknan_pma_cfg0_tor_entry1_encoded(\h220000, \h224000, WXTL), PmaBased, PmaOne)
<1>1. 0 \in 0 .. 3 /\ 1 \in 0 .. 3 /\ 2 \in 0 .. 3 /\ 1 \in 1 .. 3 /\ 2 \in 1 .. 3 /\ 3 \in 1 .. 3
    OBVIOUS
<1>2. /\ "L" \notin RWXTC /\ "L" \in RWXTL /\ "L" \in RXTCL /\ "L" \in RXTL /\ "L" \in WXTL
      /\ Rights \subseteq RWXTC
    BY DEF Rights, RWXTC, RWXTL, RXTCL, RXTL, WXTL
<1> QED BY <1>1, <1>2, BitNames, OnPmaEncoded, FrameNames

-----------------------------------------------------------------------------
(* The scripts along which knowledge can be carried from the first step to *)
(* the last: every registered test is one.                                 *)
Scripted == {s \in Seq(Steps) : \E f : Along(s, f)}
LEMMA SomeScripted == \A s, P, Q : s \in Some(P, Q) => s \in Scripted
BY DEF Some, At, Reaches, Scripted

(* The functions of page_tables.c, and the pages, that tests name.         *)
LEMMA SetterNames ==
    /\ "hspt_1GB_superpage_align_boundary_setup" \in Setters
    /\ "hspt_1GB_superpage_misalign_setup" \in Setters
    /\ "hspt_2MB_superpage_align_boundary_setup" \in Setters
    /\ "hspt_2MB_superpage_misalign_setup" \in Setters
    /\ "hspt_512GB_superpage_align_boundary_setup" \in Setters
    /\ "hspt_512GB_superpage_misalign_setup" \in Setters /\ "hspt_add_G" \in Setters
    /\ "hspt_add_X" \in Setters /\ "hspt_add_reserved_bits" \in Setters
    /\ "hspt_del_A" \in Setters /\ "hspt_del_D" \in Setters /\ "hspt_del_X" \in Setters
    /\ "hspt_init" \in Setters /\ "hspt_llptw_ppn_high_bit_overflow_setup" \in Setters
    /\ "hspt_ptw_ppn_high_bit_overflow_setup" \in Setters /\ "hspt_u_mode_allow" \in Setters
    /\ "hspt_u_mode_allow_no_leaf" \in Setters /\ "set_superpage_512G" \in Setters
BY DEF Setters

LEMMA PageNames ==
    /\ Pp(VSRWX_GRW) \in Int /\ Pp(VSRWX_GRWX) \in Int /\ Pp(VSRWX_GURWX) \in Int
    /\ Pp(VSRW_GRW) \in Int /\ Pp(VSRW_GRWX) \in Int /\ Pp(VSR_GRWX) \in Int
    /\ Pp(VSURWX_GRWX) \in Int /\ Pp(VSURWX_GURWX) \in Int /\ Pp(VSUX_GX) \in Int
    /\ Pp(VSX_GX) \in Int /\ Vp(VSI_GI) \in Int /\ Vp(VSRWX_GR) \in Int
    /\ Vp(VSRWX_GRWX) \in Int /\ Vp(VSRWX_GURWX) \in Int /\ Vp(VSRWX_GUX) \in Int
    /\ Vp(VSRW_GR) \in Int /\ Vp(VSRW_GRW) \in Int /\ Vp(VSRW_GRWX) \in Int
    /\ Vp(VSRW_GURW) \in Int /\ Vp(VSRW_GURWX) \in Int /\ Vp(VSRX_GRWX) \in Int
    /\ Vp(VSRX_GX) \in Int /\ Vp(VSR_GR) \in Int /\ Vp(VSR_GRWX) \in Int
    /\ Vp(VSR_GUR) \in Int /\ Vp(VSR_GURWX) \in Int /\ Vp(VSR_GX) \in Int
    /\ Vp(VSURWX_GRWX) \in Int /\ Vp(VSURWX_GURWX) \in Int /\ Vp(VSURW_GR) \in Int
    /\ Vp(VSUR_GR) \in Int /\ Vp(VSUX_GX) \in Int /\ Vp(VSV_GV) \in Int
    /\ Vp(VSW_GI) \in Int /\ Vp(VSX_GRWX) \in Int /\ Vp(VSX_GURWX) \in Int
    /\ Vp(VSX_GUX) \in Int /\ Vp(VSX_GX) \in Int /\ Beyond \in Int
BY SMT DEF Beyond, Vp, Pp, TEST_PPAGE_BASE, VSI_GI, VSRWX_GR, VSRWX_GRW, VSRWX_GRWX, VSRWX_GURWX,
   VSRWX_GUX, VSRW_GR, VSRW_GRW, VSRW_GRWX, VSRW_GURW, VSRW_GURWX, VSRX_GRWX, VSRX_GX, VSR_GR,
   VSR_GRWX, VSR_GUR, VSR_GURWX, VSR_GX, VSURWX_GRWX, VSURWX_GURWX, VSURW_GR, VSUR_GR, VSUX_GX,
   VSV_GV, VSW_GI, VSX_GRWX, VSX_GURWX, VSX_GUX, VSX_GX

LEMMA NotUserTestFences ==
    /\ NotUser(FenceOf(Vp(VSRWX_GRWX), 0)) /\ NotUser(FenceOf(Vp(VSRW_GRW), 0))
    /\ NotUser(FenceOf(Vp(VSRWX_GRWX), 1234)) /\ NotUser(FenceOf(Vp(VSRW_GRW), 1234))
    /\ NotUser(FenceOf(Vp(VSRW_GRW), 4660)) /\ NotUser(FenceOf(\hDEADB, 57005))
    /\ NotUser(FenceOf(Vp(VSRWX_GRWX), All))
<1>1. 0 \in Int /\ 1234 \in Int /\ 4660 \in Int /\ 57005 \in Int /\ \hDEADB \in Int /\ All \in Int
    BY DEF All
<1> QED BY SMT, <1>1, PageNames, NotUserFences

(* Every test of the access_fault suite is such a script: one step for     *)
(* each test, by the rules of its statements.                              *)
LEMMA AccessFaultScripts ==
    ASSUME Layout PROVE access_fault_table \in Seq(Scripted)
<1> USE Openings, GoAfter, AnywhereAfter, NotUserAfter, InMachineAfter, AnywhereStatements, AnywhereAccesses,
        NotUserStatements, InMachineStatements, ModeNames, KindNames, FaultNames, PageNames, SetterNames
<1>1. access_fault_amo_access_fault_hs_amo_preaf_fault_saf \in Some(PmpFull, PmaOff)
    BY SMT, OnPmpAfter, PmpAddrs, PmpSets, OnPmpBits0
       DEF access_fault_amo_access_fault_hs_amo_preaf_fault_saf
<1>2. access_fault_amo_access_fault_hs_amo_ptw_saf_mmu_open \in Some(PmpFull, PmaOff)
    BY SMT, OnPmpAfter, PmpAddrs, PmpRanges, OnPmpWhole, PmpSets, OnPmpBits0, PmpUnsets
       DEF access_fault_amo_access_fault_hs_amo_ptw_saf_mmu_open
<1>3. access_fault_amo_access_fault_hs_amoadd_d_pmacfg_c0_pmacfg_l1_saf \in Some(PmpFull, PmaOne)
    BY SMT, OnPmaAfter, OnPmaWhole, PmaEncodings
       DEF access_fault_amo_access_fault_hs_amoadd_d_pmacfg_c0_pmacfg_l1_saf
<1>4. access_fault_amo_access_fault_hs_amoadd_d_pmpcfg_w0_pmpcfg_l0_saf \in Some(PmpFull, PmaOff)
    BY SMT, OnPmpAfter, PmpRanges, OnPmpWhole, PmpSets, OnPmpBits0, PmpUnsets
       DEF access_fault_amo_access_fault_hs_amoadd_d_pmpcfg_w0_pmpcfg_l0_saf
<1>5. access_fault_amo_access_fault_hs_amoadd_d_pmpcfg_w0_pmpcfg_l1_saf \in Some(PmpFull, PmaOff)
    BY SMT, OnPmpAfter, PmpRanges, OnPmpWhole, PmpSets, OnPmpBits0, PmpUnsets
       DEF access_fault_amo_access_fault_hs_amoadd_d_pmpcfg_w0_pmpcfg_l1_saf
<1>6. access_fault_amo_access_fault_hs_amoadd_d_pmpcfg_w0_pmpcfg_l1_saf_mmu_open \in Some(PmpFull, PmaOff)
    BY SMT, OnPmpAfter, PmpRanges, OnPmpWhole, PmpSets, OnPmpBits0, PmpUnsets
       DEF access_fault_amo_access_fault_hs_amoadd_d_pmpcfg_w0_pmpcfg_l1_saf_mmu_open
<1>7. access_fault_amo_access_fault_hs_amoadd_d_pmpcfg_w0_saf \in Some(PmpFull, PmaOff)
    BY SMT, OnPmpAfter, PmpRanges, OnPmpWhole, PmpSets, OnPmpBits0, PmpUnsets
       DEF access_fault_amo_access_fault_hs_amoadd_d_pmpcfg_w0_saf
<1>8. access_fault_amo_access_fault_hs_amoadd_d_ptw_takes_pte_ppn_high_bit_overflow_saf \in Some(PmpFull, PmaOff)
    BY SMT DEF access_fault_amo_access_fault_hs_amoadd_d_ptw_takes_pte_ppn_high_bit_overflow_saf
<1>9. access_fault_amo_access_fault_hu_amo_pmpcfg_w0_llptw_saf_mmu_open \in Some(PmpFull, PmaOff)
    BY SMT, OnPmpAfter, PmpRanges, OnPmpWhole, PmpSets, OnPmpBits0, PmpUnsets
       DEF access_fault_amo_access_fault_hu_amo_pmpcfg_w0_llptw_saf_mmu_open
<1>10. access_fault_amo_access_fault_hu_amo_ptw_saf_mmu_open \in Some(PmpFull, PmaOff)
    BY SMT, OnPmpAfter, PmpAddrs, PmpRanges, OnPmpWhole, PmpSets, OnPmpBits0, PmpUnsets
       DEF access_fault_amo_access_fault_hu_amo_ptw_saf_mmu_open
<1>11. access_fault_amo_access_fault_hu_amoadd_d_llptw_takes_pte_ppn_high_bit_overflow_saf \in Some(PmpFull, PmaOff)
    BY SMT DEF access_fault_amo_access_fault_hu_amoadd_d_llptw_takes_pte_ppn_high_bit_overflow_saf
<1>12. access_fault_amo_access_fault_hu_amoadd_d_pmacfg_c0_pmacfg_l1_saf \in Some(PmpFull, PmaOne)
    BY SMT, OnPmaAfter, OnPmaWhole, PmaEncodings
       DEF access_fault_amo_access_fault_hu_amoadd_d_pmacfg_c0_pmacfg_l1_saf
<1>13. access_fault_amo_access_fault_hu_amoadd_d_pmpcfg_w0_pmpcfg_l0_saf \in Some(PmpFull, PmaOff)
    BY SMT, OnPmpAfter, PmpRanges, OnPmpWhole, PmpSets, OnPmpBits0, PmpUnsets
       DEF access_fault_amo_access_fault_hu_amoadd_d_pmpcfg_w0_pmpcfg_l0_saf
<1>14. access_fault_amo_access_fault_hu_amoadd_d_pmpcfg_w0_pmpcfg_l1_saf \in Some(PmpFull, PmaOff)
    BY SMT, OnPmpAfter, PmpRanges, OnPmpWhole, PmpSets, OnPmpBits0, PmpUnsets
       DEF access_fault_amo_access_fault_hu_amoadd_d_pmpcfg_w0_pmpcfg_l1_saf
<1>15. access_fault_amo_access_fault_hu_amoadd_d_ptw_takes_pte_ppn_high_bit_overflow_saf \in Some(PmpFull, PmaOff)
    BY SMT DEF access_fault_amo_access_fault_hu_amoadd_d_ptw_takes_pte_ppn_high_bit_overflow_saf
<1>16. access_fault_amo_access_fault_invalid_addr_range_was_accessed_correct_pmpaddr_range_store_guest_fault \in Some(PmpFull, PmaOff)
    BY SMT, OnPmpAfter, PmpAddrs, OnPmpWhole, PmpSets, OnPmpBits0
       DEF access_fault_amo_access_fault_invalid_addr_range_was_accessed_correct_pmpaddr_range_store_guest_fault
<1>17. access_fault_amo_access_fault_m_amo_ptw_saf_mmu_open \in Some(PmpFull, PmaOff)
    BY SMT, OnPmpAfter, PmpAddrs, PmpRanges, OnPmpWhole, PmpSets, OnPmpBits0, PmpUnsets
       DEF access_fault_amo_access_fault_m_amo_ptw_saf_mmu_open
<1>18. access_fault_amo_access_fault_m_amoadd_d_llptw_takes_pte_ppn_high_bit_overflow_saf \in Some(PmpFull, PmaOff)
    BY SMT DEF access_fault_amo_access_fault_m_amoadd_d_llptw_takes_pte_ppn_high_bit_overflow_saf
<1>19. access_fault_amo_access_fault_m_amoadd_d_pmacfg_w0_pmacfg_l1_saf \in Some(PmpFull, PmaOne)
    BY SMT, OnPmaAfter, PmaRanges, OnPmaWhole, PmaSets, PmaUnsets
       DEF access_fault_amo_access_fault_m_amoadd_d_pmacfg_w0_pmacfg_l1_saf
<1>20. access_fault_amo_access_fault_m_amoadd_d_pmpcfg_w0_pmpcfg_l1_mstatus_mprv1_mstatus_mpp \in Some(PmpFull, PmaOff)
    BY SMT, OnPmpAfter, PmpRanges, OnPmpWhole, PmpSets, OnPmpBits0, PmpUnsets
       DEF access_fault_amo_access_fault_m_amoadd_d_pmpcfg_w0_pmpcfg_l1_mstatus_mprv1_mstatus_mpp
<1>21. access_fault_amo_access_fault_m_amoadd_d_pmpcfg_w0_pmpcfg_l1_saf \in Some(PmpFar, PmaOff)
    BY SMT, OnPmpAfter, PmpRanges, OnPmpWhole, PmpSets, OnPmpBits0, PmpUnsets
       DEF access_fault_amo_access_fault_m_amoadd_d_pmpcfg_w0_pmpcfg_l1_saf
<1>22. access_fault_amo_access_fault_m_amoadd_d_ptw_takes_pte_ppn_high_bit_overflow_saf \in Some(PmpFull, PmaOff)
    BY SMT DEF access_fault_amo_access_fault_m_amoadd_d_ptw_takes_pte_ppn_high_bit_overflow_saf
<1>23. access_fault_amo_access_fault_m_amoadd_d_success_pmpcfg_w0_pmpcfg_l0 \in Some(PmpFar, PmaOff)
    BY SMT, OnPmpAfter, PmpRanges, OnPmpWhole, PmpSets, OnPmpBits0, PmpUnsets
       DEF access_fault_amo_access_fault_m_amoadd_d_success_pmpcfg_w0_pmpcfg_l0
<1>24. access_fault_amo_access_fault_s_invalid_addr_range_was_accessed_correct_pmaaddr_range_laf \in Some(PmpFull, PmaBased)
    BY SMT, OnPmaAfter, OnPmaWhole
       DEF access_fault_amo_access_fault_s_invalid_addr_range_was_accessed_correct_pmaaddr_range_laf
<1>25. access_fault_amo_access_fault_spanning_two_memory_regions_diff_permissions_some_accessed_success_some_failed \in Some(PmpFull, PmaOff)
    BY SMT, OnPmpAfter, PmpRanges, OnPmpWhole, PmpSets, OnPmpBits0, PmpUnsets
       DEF access_fault_amo_access_fault_spanning_two_memory_regions_diff_permissions_some_accessed_success_some_failed
<1>26. access_fault_amo_legacy_pma_atomic_bit_ignored_lrsc_amo_success \in Some(PmpFull, PmaPair)
    BY SMT, OnPmaAfter, PmaRanges, OnPmaWhole, PmaSets
       DEF access_fault_amo_legacy_pma_atomic_bit_ignored_lrsc_amo_success
<1>27. access_fault_amo_pma_a_mismatch_after_sfence_pma_ptw_consistency \in Some(PmpFull, PmaAll)
    BY SMT, OnPmaAfter, PmaRanges, OnPmaWhole, PmaSets, PmaUnsets
       DEF access_fault_amo_pma_a_mismatch_after_sfence_pma_ptw_consistency
<1>28. access_fault_amo_pma_cache_removed_lrsc_amo_success \in Some(PmpFull, PmaPair)
    BY SMT, OnPmaAfter, PmaRanges, OnPmaWhole, PmaSets, PmaUnsets
       DEF access_fault_amo_pma_cache_removed_lrsc_amo_success
<1>29. access_fault_hu_load_ptw_pmp_tor_laf_mmu_open \in Some(PmpFull, PmaOff)
    BY SMT, OnPmpAfter, PmpAddrs, PmpRanges, OnPmpWhole, PmpSets, OnPmpBits0, PmpUnsets
       DEF access_fault_hu_load_ptw_pmp_tor_laf_mmu_open
<1>30. access_fault_inst_access_fault_hs_fetch_inst_pmpcfg_x0_pmpcfg_l0_iaf \in Some(PmpFull, PmaOff)
    BY SMT, OnPmpAfter, PmpRanges, OnPmpWhole, PmpSets, OnPmpBits0, PmpUnsets
       DEF access_fault_inst_access_fault_hs_fetch_inst_pmpcfg_x0_pmpcfg_l0_iaf
<1>31. access_fault_inst_access_fault_hs_fetch_inst_pmpcfg_x0_pmpcfg_l0_iaf_mmu_open \in Some(PmpFull, PmaOff)
    BY SMT, OnPmpAfter, PmpRanges, OnPmpWhole, PmpSets, OnPmpBits0, PmpUnsets
       DEF access_fault_inst_access_fault_hs_fetch_inst_pmpcfg_x0_pmpcfg_l0_iaf_mmu_open
<1>32. access_fault_inst_access_fault_hs_fetch_inst_pmpcfg_x0_pmpcfg_l1_iaf \in Some(PmpFull, PmaOff)
    BY SMT, OnPmpAfter, PmpRanges, OnPmpWhole, PmpSets, OnPmpBits0, PmpUnsets
       DEF access_fault_inst_access_fault_hs_fetch_inst_pmpcfg_x0_pmpcfg_l1_iaf
<1>33. access_fault_inst_access_fault_hs_instr_fetch_preaf_fault_iaf \in Some(PmpFull, PmaOff)
    BY SMT, OnPmpAfter, PmpAddrs, PmpSets, OnPmpBits0
       DEF access_fault_inst_access_fault_hs_instr_fetch_preaf_fault_iaf
<1>34. access_fault_inst_access_fault_hs_instr_fetch_ptw_iaf_mmu_open \in Some(PmpFull, PmaOff)
    BY SMT, OnPmpAfter, PmpAddrs, PmpRanges, OnPmpWhole, PmpSets, OnPmpBits0, PmpUnsets
       DEF access_fault_inst_access_fault_hs_instr_fetch_ptw_iaf_mmu_open
<1>35. access_fault_inst_access_fault_hs_instr_fetch_ptw_takes_pte_ppn_high_bit_overflow_iaf \in Some(PmpFull, PmaOff)
    BY SMT DEF access_fault_inst_access_fault_hs_instr_fetch_ptw_takes_pte_ppn_high_bit_overflow_iaf
<1>36. access_fault_inst_access_fault_hu_fetch_inst_pmpcfg_x0_pmpcfg_l0_iaf \in Some(PmpFull, PmaOff)
    BY SMT, OnPmpAfter, PmpRanges, OnPmpWhole, PmpSets, OnPmpBits0, PmpUnsets
       DEF access_fault_inst_access_fault_hu_fetch_inst_pmpcfg_x0_pmpcfg_l0_iaf
<1>37. access_fault_inst_access_fault_hu_fetch_inst_pmpcfg_x0_pmpcfg_l1_iaf \in Some(PmpFull, PmaOff)
    BY SMT, OnPmpAfter, PmpRanges, OnPmpWhole, PmpSets, OnPmpBits0, PmpUnsets
       DEF access_fault_inst_access_fault_hu_fetch_inst_pmpcfg_x0_pmpcfg_l1_iaf
<1>38. access_fault_inst_access_fault_hu_instr_fetch_llptw_takes_pte_ppn_high_bit_overflow_iaf \in Some(PmpFull, PmaOff)
    BY SMT
       DEF access_fault_inst_access_fault_hu_instr_fetch_llptw_takes_pte_ppn_high_bit_overflow_iaf
<1>39. access_fault_inst_access_fault_hu_instr_fetch_pmpcfg_w0_llptw_iaf_mmu_open \in Some(PmpFull, PmaOff)
    BY SMT, OnPmpAfter, PmpRanges, OnPmpWhole, PmpSets, OnPmpBits0, PmpUnsets
       DEF access_fault_inst_access_fault_hu_instr_fetch_pmpcfg_w0_llptw_iaf_mmu_open
<1>40. access_fault_inst_access_fault_hu_instr_fetch_ptw_iaf_mmu_open \in Some(PmpFull, PmaOff)
    BY SMT, OnPmpAfter, PmpAddrs, PmpRanges, OnPmpWhole, PmpSets, OnPmpBits0, PmpUnsets
       DEF access_fault_inst_access_fault_hu_instr_fetch_ptw_iaf_mmu_open
<1>41. access_fault_inst_access_fault_hu_instr_fetch_ptw_takes_pte_ppn_high_bit_overflow_iaf \in Some(PmpFull, PmaOff)
    BY SMT DEF access_fault_inst_access_fault_hu_instr_fetch_ptw_takes_pte_ppn_high_bit_overflow_iaf
<1>42. access_fault_inst_access_fault_instr_fetch_success \in Some(PmpFull, PmaPair)
    BY SMT, OnPmaAfter, PmaRanges, OnPmaWhole, PmaSets, PmaUnsets
       DEF access_fault_inst_access_fault_instr_fetch_success
<1>43. access_fault_inst_access_fault_invalid_addr_range_was_accessed_correct_pmpaddr_range_iaf \in Some(PmpFull, PmaOff)
    BY SMT, OnPmpAfter, PmpAddrs, OnPmpWhole, PmpSets, OnPmpBits0
       DEF access_fault_inst_access_fault_invalid_addr_range_was_accessed_correct_pmpaddr_range_iaf
<1>44. access_fault_inst_access_fault_invalid_testcase_disabled_mprv_only_changes_data_access_priv_so_m \in Some(PmpFull, PmaOff)
    BY SMT
       DEF access_fault_inst_access_fault_invalid_testcase_disabled_mprv_only_changes_data_access_priv_so_m
<1>45. access_fault_inst_access_fault_m_fetch_inst_pmpcfg_x0_pmpcfg_l1_iaf \in Some(PmpFar, PmaOff)
    BY SMT, OnPmpAfter, PmpRanges, OnPmpWhole, PmpSets, OnPmpBits0, PmpUnsets
       DEF access_fault_inst_access_fault_m_fetch_inst_pmpcfg_x0_pmpcfg_l1_iaf
<1>46. access_fault_inst_access_fault_m_fetch_inst_success_pmpcfg_x0_pmpcfg_l0 \in Some(PmpFull, PmaOff)
    BY SMT, OnPmpAfter, PmpRanges, OnPmpWhole, PmpSets, OnPmpBits0, PmpUnsets
       DEF access_fault_inst_access_fault_m_fetch_inst_success_pmpcfg_x0_pmpcfg_l0
<1>47. access_fault_inst_access_fault_spanning_two_memory_regions_diff_permissions_some_accessed_success_some_failed \in Some(PmpFull, PmaOff)
    BY SMT, OnPmpAfter, PmpRanges, OnPmpWhole, PmpSets, OnPmpBits0, PmpUnsets
       DEF access_fault_inst_access_fault_spanning_two_memory_regions_diff_permissions_some_accessed_success_some_failed
<1>48. access_fault_inst_fetch_pma_a_mismatch_iaf_after_sfence \in Some(PmpFull, PmaAll)
    BY SMT, OnPmaAfter, PmaRanges, OnPmaWhole, PmaSets, PmaUnsets
       DEF access_fault_inst_fetch_pma_a_mismatch_iaf_after_sfence
<1>49. access_fault_inst_fetch_pma_cache_removed_iaf_after_sfence \in Some(PmpFull, PmaPair)
    BY SMT, OnPmaAfter, PmaRanges, OnPmaWhole, PmaSets, PmaUnsets
       DEF access_fault_inst_fetch_pma_cache_removed_iaf_after_sfence
<1>50. access_fault_inst_fetch_pma_read_removed_iaf_after_sfence \in Some(PmpFull, PmaPair)
    BY SMT, OnPmaAfter, PmaRanges, OnPmaWhole, PmaSets, PmaUnsets
       DEF access_fault_inst_fetch_pma_read_removed_iaf_after_sfence
<1>51. access_fault_inst_fetch_pmp_a_mismatch_iaf_after_sfence_pmp_translation_consistency \in Some(PmpFar, PmaOff)
    BY SMT, OnPmpAfter, PmpRanges, OnPmpWhole, PmpSets, OnPmpBits0, PmpUnsets
       DEF access_fault_inst_fetch_pmp_a_mismatch_iaf_after_sfence_pmp_translation_consistency
<1>52. access_fault_inst_fetch_root_pma_cache_removed_iaf_after_sfence \in Some(PmpFull, PmaPair)
    BY SMT, OnPmaAfter, PmaRanges, OnPmaWhole, PmaSets, PmaUnsets
       DEF access_fault_inst_fetch_root_pma_cache_removed_iaf_after_sfence
<1>53. access_fault_inst_llptw_high_bit_overflow_invalid_mprv_disabled \in Some(PmpFull, PmaOff)
    BY SMT DEF access_fault_inst_llptw_high_bit_overflow_invalid_mprv_disabled
<1>54. access_fault_load_access_fault_hs_lb_pmacfg_r0_pmacfg_l1_laf \in Some(PmpFull, PmaOne)
    BY SMT, OnPmaAfter, OnPmaWhole, PmaEncodings
       DEF access_fault_load_access_fault_hs_lb_pmacfg_r0_pmacfg_l1_laf
<1>55. access_fault_load_access_fault_hs_lb_pmpcfg_r0_pmpcfg_l0_laf \in Some(PmpFull, PmaOff)
    BY SMT, OnPmpAfter, PmpRanges, OnPmpWhole, PmpSets, OnPmpBits0, PmpUnsets
       DEF access_fault_load_access_fault_hs_lb_pmpcfg_r0_pmpcfg_l0_laf
<1>56. access_fault_load_access_fault_hs_lb_pmpcfg_r0_pmpcfg_l1_laf \in Some(PmpFull, PmaOff)
    BY SMT, OnPmpAfter, PmpRanges, OnPmpWhole, PmpSets, OnPmpBits0, PmpUnsets
       DEF access_fault_load_access_fault_hs_lb_pmpcfg_r0_pmpcfg_l1_laf
<1>57. access_fault_load_access_fault_hs_ld_pmpcfg_r0_pmpcfg_l1_llptw_laf_mmu_open \in Some(PmpFull, PmaOff)
    BY SMT, OnPmpAfter, PmpRanges, OnPmpWhole, PmpSets, OnPmpBits0, PmpUnsets
       DEF access_fault_load_access_fault_hs_ld_pmpcfg_r0_pmpcfg_l1_llptw_laf_mmu_open
<1>58. access_fault_load_access_fault_hs_ld_preaf_fault_laf \in Some(PmpFull, PmaOff)
    BY SMT, OnPmpAfter, PmpAddrs, PmpSets, OnPmpBits0
       DEF access_fault_load_access_fault_hs_ld_preaf_fault_laf
<1>59. access_fault_load_access_fault_hs_ld_ptw_laf_mmu_open \in Some(PmpFull, PmaOff)
    BY SMT, OnPmpAfter, PmpAddrs, PmpRanges, OnPmpWhole, PmpSets, OnPmpBits0, PmpUnsets
       DEF access_fault_load_access_fault_hs_ld_ptw_laf_mmu_open
<1>60. access_fault_load_access_fault_hs_ld_ptw_takes_pte_ppn_high_bit_overflow_laf_mmu \in Some(PmpFull, PmaOff)
    BY SMT DEF access_fault_load_access_fault_hs_ld_ptw_takes_pte_ppn_high_bit_overflow_laf_mmu
<1>61. access_fault_load_access_fault_hu_lb_pmacfg_r0_pmacfg_l1_laf \in Some(PmpFull, PmaOne)
    BY SMT, OnPmaAfter, OnPmaWhole, PmaEncodings
       DEF access_fault_load_access_fault_hu_lb_pmacfg_r0_pmacfg_l1_laf
<1>62. access_fault_load_access_fault_hu_lb_pmpcfg_r0_pmpcfg_l0_laf \in Some(PmpFull, PmaOff)
    BY SMT, OnPmpAfter, PmpRanges, OnPmpWhole, PmpSets, OnPmpBits0, PmpUnsets
       DEF access_fault_load_access_fault_hu_lb_pmpcfg_r0_pmpcfg_l0_laf
<1>63. access_fault_load_access_fault_hu_lb_pmpcfg_r0_pmpcfg_l1_laf \in Some(PmpFull, PmaOff)
    BY SMT, OnPmpAfter, PmpRanges, OnPmpWhole, PmpSets, OnPmpBits0, PmpUnsets
       DEF access_fault_load_access_fault_hu_lb_pmpcfg_r0_pmpcfg_l1_laf
<1>64. access_fault_load_access_fault_hu_ld_llptw_takes_pte_ppn_high_bit_overflow_laf_mmu \in Some(PmpFull, PmaOff)
    BY SMT DEF access_fault_load_access_fault_hu_ld_llptw_takes_pte_ppn_high_bit_overflow_laf_mmu
<1>65. access_fault_load_access_fault_hu_ld_pmpcfg_r0_llptw_laf_mmu_open \in Some(PmpFull, PmaOff)
    BY SMT, OnPmpAfter, PmpRanges, OnPmpWhole, PmpSets, OnPmpBits0, PmpUnsets
       DEF access_fault_load_access_fault_hu_ld_pmpcfg_r0_llptw_laf_mmu_open
<1>66. access_fault_load_access_fault_hu_ld_ptw_laf_mmu_open \in Some(PmpFull, PmaOff)
    BY SMT, OnPmpAfter, PmpAddrs, PmpRanges, OnPmpWhole, PmpSets, OnPmpBits0, PmpUnsets
       DEF access_fault_load_access_fault_hu_ld_ptw_laf_mmu_open
<1>67. access_fault_load_access_fault_hu_ld_ptw_takes_pte_ppn_high_bit_overflow_laf_mmu \in Some(PmpFull, PmaOff)
    BY SMT DEF access_fault_load_access_fault_hu_ld_ptw_takes_pte_ppn_high_bit_overflow_laf_mmu
<1>68. access_fault_load_access_fault_invalid_addr_range_was_accessed_correct_pmaaddr_range_laf \in Some(PmpFull, PmaBased)
    BY SMT, OnPmaAfter, OnPmaWhole
       DEF access_fault_load_access_fault_invalid_addr_range_was_accessed_correct_pmaaddr_range_laf
<1>69. access_fault_load_access_fault_invalid_addr_range_was_accessed_correct_pmpaddr_range_laf \in Some(PmpFull, PmaOff)
    BY SMT, OnPmpAfter, PmpAddrs, OnPmpWhole, PmpSets, OnPmpBits0
       DEF access_fault_load_access_fault_invalid_addr_range_was_accessed_correct_pmpaddr_range_laf
<1>70. access_fault_load_access_fault_ld_success \in Some(PmpFull, PmaPair)
    BY SMT, OnPmaAfter, PmaRanges, OnPmaWhole, PmaSets, PmaUnsets
       DEF access_fault_load_access_fault_ld_success
<1>71. access_fault_load_access_fault_m_lb_pmacfg_r0_pmacfg_l1_laf \in Some(PmpFull, PmaOne)
    BY SMT, OnPmaAfter, PmaRanges, OnPmaWhole, PmaSets, PmaUnsets
       DEF access_fault_load_access_fault_m_lb_pmacfg_r0_pmacfg_l1_laf
<1>72. access_fault_load_access_fault_m_lb_pmpcfg_r0_pmpcfg_l1_laf \in Some(PmpFar, PmaOff)
    BY SMT, OnPmpAfter, PmpRanges, OnPmpWhole, PmpSets, OnPmpBits0, PmpUnsets
       DEF access_fault_load_access_fault_m_lb_pmpcfg_r0_pmpcfg_l1_laf
<1>73. access_fault_load_access_fault_m_lb_success_pmpcfg_r0_pmpcfg_l0 \in Some(PmpFar, PmaOff)
    BY SMT, OnPmpAfter, PmpRanges, OnPmpWhole, PmpSets, OnPmpBits0, PmpUnsets
       DEF access_fault_load_access_fault_m_lb_success_pmpcfg_r0_pmpcfg_l0
<1>74. access_fault_load_access_fault_m_ld_llptw_takes_pte_ppn_high_bit_overflow_laf_mmu \in Some(PmpFull, PmaOff)
    BY SMT DEF access_fault_load_access_fault_m_ld_llptw_takes_pte_ppn_high_bit_overflow_laf_mmu
<1>75. access_fault_load_access_fault_m_ld_pmpcfg_r0_pmpcfg_l1_mstatus_mprv1_mstatus_mpp_3 \in Some(PmpFar, PmaOff)
    BY SMT, OnPmpAfter, PmpRanges, OnPmpWhole, PmpSets, OnPmpBits0, PmpUnsets
       DEF access_fault_load_access_fault_m_ld_pmpcfg_r0_pmpcfg_l1_mstatus_mprv1_mstatus_mpp_3
<1>76. access_fault_load_access_fault_m_ld_ptw_takes_pte_ppn_high_bit_overflow_laf_mmu \in Some(PmpFull, PmaOff)
    BY SMT DEF access_fault_load_access_fault_m_ld_ptw_takes_pte_ppn_high_bit_overflow_laf_mmu
<1>77. access_fault_load_access_fault_spanning_two_memory_regions_diff_permissions_some_accessed_success_some_failed \in Some(PmpFull, PmaOff)
    BY SMT, OnPmpAfter, PmpRanges, OnPmpWhole, PmpSets, OnPmpBits0, PmpUnsets
       DEF access_fault_load_access_fault_spanning_two_memory_regions_diff_permissions_some_accessed_success_some_failed
<1>78. access_fault_load_pma_a_mismatch_laf_after_sfence \in Some(PmpFull, PmaAll)
    BY SMT, OnPmaAfter, PmaRanges, OnPmaWhole, PmaSets, PmaUnsets
       DEF access_fault_load_pma_a_mismatch_laf_after_sfence
<1>79. access_fault_load_pma_cache_removed_laf_after_sfence \in Some(PmpFull, PmaPair)
    BY SMT, OnPmaAfter, PmaRanges, OnPmaWhole, PmaSets, PmaUnsets
       DEF access_fault_load_pma_cache_removed_laf_after_sfence
<1>80. access_fault_load_pmp_a_mismatch_laf_after_sfence_pmp_translation_consistency \in Some(PmpFar, PmaOff)
    BY SMT, OnPmpAfter, PmpRanges, OnPmpWhole, PmpSets, OnPmpBits0, PmpUnsets
       DEF access_fault_load_pmp_a_mismatch_laf_after_sfence_pmp_translation_consistency
<1>81. access_fault_pmacfg_pmaaddr_csr_probe \in Some(PmpFull, PmaOff)
    BY SMT, OnPmaAfter, PmaAddrs, PmaRanges DEF access_fault_pmacfg_pmaaddr_csr_probe
<1>82. access_fault_pmpaddr_granularity_warl_probe \in Some(PmpFar, PmaOff)
    BY SMT, OnPmpAfter, PmpAddrs, OnPmpWhole DEF access_fault_pmpaddr_granularity_warl_probe
<1>83. access_fault_scalar_misaligned_cross_page_tail_pma_cache_removed_laf_saf_corner \in Some(PmpFull, PmaAll)
    BY SMT, OnPmaAfter, PmaAddrs, PmaRanges, OnPmaWhole, PmaSets, PmaUnsets
       DEF access_fault_scalar_misaligned_cross_page_tail_pma_cache_removed_laf_saf_corner
<1>84. access_fault_scalar_misaligned_final_pma_cache_removed_laf_saf_corner \in Some(PmpFull, PmaPair)
    BY SMT, OnPmaAfter, PmaRanges, OnPmaWhole, PmaSets, PmaUnsets
       DEF access_fault_scalar_misaligned_final_pma_cache_removed_laf_saf_corner
<1>85. access_fault_store_access_fault_hs_sb_pmpcfg_w0_pmpcfg_l0_saf \in Some(PmpFull, PmaOff)
    BY SMT, OnPmpAfter, PmpRanges, OnPmpWhole, PmpSets, OnPmpBits0, PmpUnsets
       DEF access_fault_store_access_fault_hs_sb_pmpcfg_w0_pmpcfg_l0_saf
<1>86. access_fault_store_access_fault_hs_sb_pmpcfg_w0_pmpcfg_l1_saf \in Some(PmpFull, PmaOff)
    BY SMT, OnPmpAfter, PmpRanges, OnPmpWhole, PmpSets, OnPmpBits0, PmpUnsets
       DEF access_fault_store_access_fault_hs_sb_pmpcfg_w0_pmpcfg_l1_saf
<1>87. access_fault_store_access_fault_hs_sd_pmacfg_w0_pmacfg_l1_saf \in Some(PmpFull, PmaOne)
    BY SMT, OnPmaAfter, OnPmaWhole, PmaEncodings
       DEF access_fault_store_access_fault_hs_sd_pmacfg_w0_pmacfg_l1_saf
<1>88. access_fault_store_access_fault_hs_sd_pmpcfg_w0_saf \in Some(PmpFull, PmaOff)
    BY SMT, OnPmpAfter, PmpRanges, OnPmpWhole, PmpSets, OnPmpBits0, PmpUnsets
       DEF access_fault_store_access_fault_hs_sd_pmpcfg_w0_saf
<1>89. access_fault_store_access_fault_hs_sd_preaf_fault_saf \in Some(PmpFull, PmaOff)
    BY SMT, OnPmpAfter, PmpAddrs, PmpSets, OnPmpBits0
       DEF access_fault_store_access_fault_hs_sd_preaf_fault_saf
<1>90. access_fault_store_access_fault_hs_sd_ptw_saf_mmu_open \in Some(PmpFull, PmaOff)
    BY SMT, OnPmpAfter, PmpAddrs, PmpRanges, OnPmpWhole, PmpSets, OnPmpBits0, PmpUnsets
       DEF access_fault_store_access_fault_hs_sd_ptw_saf_mmu_open
<1>91. access_fault_store_access_fault_hs_sd_ptw_takes_pte_ppn_high_bit_overflow_saf_mmu \in Some(PmpFull, PmaOff)
    BY SMT DEF access_fault_store_access_fault_hs_sd_ptw_takes_pte_ppn_high_bit_overflow_saf_mmu
<1>92. access_fault_store_access_fault_hs_sw_pmpcfg_w0_pmpcfg_l1_saf_mmu_open \in Some(PmpFull, PmaOff)
    BY SMT, OnPmpAfter, PmpRanges, OnPmpWhole, PmpSets, OnPmpBits0, PmpUnsets
       DEF access_fault_store_access_fault_hs_sw_pmpcfg_w0_pmpcfg_l1_saf_mmu_open
<1>93. access_fault_store_access_fault_hu_sb_pmpcfg_w0_pmpcfg_l0_saf \in Some(PmpFull, PmaOff)
    BY SMT, OnPmpAfter, PmpRanges, OnPmpWhole, PmpSets, OnPmpBits0, PmpUnsets
       DEF access_fault_store_access_fault_hu_sb_pmpcfg_w0_pmpcfg_l0_saf
<1>94. access_fault_store_access_fault_hu_sb_pmpcfg_w0_pmpcfg_l1_saf \in Some(PmpFull, PmaOff)
    BY SMT, OnPmpAfter, PmpRanges, OnPmpWhole, PmpSets, OnPmpBits0, PmpUnsets
       DEF access_fault_store_access_fault_hu_sb_pmpcfg_w0_pmpcfg_l1_saf
<1>95. access_fault_store_access_fault_hu_sd_llptw_takes_pte_ppn_high_bit_overflow_saf_mmu \in Some(PmpFull, PmaOff)
    BY SMT DEF access_fault_store_access_fault_hu_sd_llptw_takes_pte_ppn_high_bit_overflow_saf_mmu
<1>96. access_fault_store_access_fault_hu_sd_pmacfg_w0_pmacfg_l1_saf \in Some(PmpFull, PmaOne)
    BY SMT, OnPmaAfter, OnPmaWhole, PmaEncodings
       DEF access_fault_store_access_fault_hu_sd_pmacfg_w0_pmacfg_l1_saf
<1>97. access_fault_store_access_fault_hu_sd_pmpcfg_w0_llptw_saf_mmu_open \in Some(PmpFull, PmaOff)
    BY SMT, OnPmpAfter, PmpRanges, OnPmpWhole, PmpSets, OnPmpBits0, PmpUnsets
       DEF access_fault_store_access_fault_hu_sd_pmpcfg_w0_llptw_saf_mmu_open
<1>98. access_fault_store_access_fault_hu_sd_ptw_saf_mmu_open \in Some(PmpFull, PmaOff)
    BY SMT, OnPmpAfter, PmpAddrs, PmpRanges, OnPmpWhole, PmpSets, OnPmpBits0, PmpUnsets
       DEF access_fault_store_access_fault_hu_sd_ptw_saf_mmu_open
<1>99. access_fault_store_access_fault_hu_sd_ptw_takes_pte_ppn_high_bit_overflow_saf_mmu \in Some(PmpFull, PmaOff)
    BY SMT DEF access_fault_store_access_fault_hu_sd_ptw_takes_pte_ppn_high_bit_overflow_saf_mmu
<1>100. access_fault_store_access_fault_invalid_addr_range_was_accessed_correct_pmpaddr_range_saf \in Some(PmpFull, PmaOff)
    BY SMT, OnPmpAfter, PmpAddrs, OnPmpWhole, PmpSets, OnPmpBits0
       DEF access_fault_store_access_fault_invalid_addr_range_was_accessed_correct_pmpaddr_range_saf
<1>101. access_fault_store_access_fault_m_sb_pmpcfg_w0_pmpcfg_l1_saf \in Some(PmpFar, PmaOff)
    BY SMT, OnPmpAfter, PmpRanges, OnPmpWhole, PmpSets, OnPmpBits0, PmpUnsets
       DEF access_fault_store_access_fault_m_sb_pmpcfg_w0_pmpcfg_l1_saf
<1>102. access_fault_store_access_fault_m_sb_success_pmpcfg_w0_pmpcfg_l0 \in Some(PmpFar, PmaOff)
    BY SMT, OnPmpAfter, PmpRanges, OnPmpWhole, PmpSets, OnPmpBits0, PmpUnsets
       DEF access_fault_store_access_fault_m_sb_success_pmpcfg_w0_pmpcfg_l0
<1>103. access_fault_store_access_fault_m_sd_llptw_takes_pte_ppn_high_bit_overflow_saf_mmu \in Some(PmpFull, PmaOff)
    BY SMT DEF access_fault_store_access_fault_m_sd_llptw_takes_pte_ppn_high_bit_overflow_saf_mmu
<1>104. access_fault_store_access_fault_m_sd_pmacfg_w0_pmacfg_l1_saf \in Some(PmpFull, PmaOne)
    BY SMT, OnPmaAfter, PmaRanges, OnPmaWhole, PmaSets, PmaUnsets
       DEF access_fault_store_access_fault_m_sd_pmacfg_w0_pmacfg_l1_saf
<1>105. access_fault_store_access_fault_m_sd_pmpcfg_w0_pmpcfg_l1_mstatus_mprv1_mstatus_mpp_3 \in Some(PmpFar, PmaOff)
    BY SMT, OnPmpAfter, PmpRanges, OnPmpWhole, PmpSets, OnPmpBits0, PmpUnsets
       DEF access_fault_store_access_fault_m_sd_pmpcfg_w0_pmpcfg_l1_mstatus_mprv1_mstatus_mpp_3
<1>106. access_fault_store_access_fault_m_sd_ptw_saf_mmu_open \in Some(PmpFull, PmaOff)
    BY SMT, OnPmpAfter, PmpAddrs, PmpRanges, OnPmpWhole, PmpSets, OnPmpBits0, PmpUnsets
       DEF access_fault_store_access_fault_m_sd_ptw_saf_mmu_open
<1>107. access_fault_store_access_fault_m_sd_ptw_takes_pte_ppn_high_bit_overflow_saf_mmu \in Some(PmpFull, PmaOff)
    BY SMT DEF access_fault_store_access_fault_m_sd_ptw_takes_pte_ppn_high_bit_overflow_saf_mmu
<1>108. access_fault_store_access_fault_s_invalid_addr_range_was_accessed_correct_pmaaddr_range_saf \in Some(PmpFull, PmaBased)
    BY SMT, OnPmaAfter, OnPmaWhole
       DEF access_fault_store_access_fault_s_invalid_addr_range_was_accessed_correct_pmaaddr_range_saf
<1>109. access_fault_store_access_fault_sd_success \in Some(PmpFull, PmaPair)
    BY SMT, OnPmaAfter, PmaRanges, OnPmaWhole, PmaSets, PmaUnsets
       DEF access_fault_store_access_fault_sd_success
<1>110. access_fault_store_access_fault_spanning_two_memory_regions_diff_permissions_some_accessed_success_some_failed \in Some(PmpFull, PmaOff)
    BY SMT, OnPmpAfter, PmpRanges, OnPmpWhole, PmpSets, OnPmpBits0, PmpUnsets
       DEF access_fault_store_access_fault_spanning_two_memory_regions_diff_permissions_some_accessed_success_some_failed
<1>111. access_fault_store_pma_a_mismatch_saf_after_sfence \in Some(PmpFull, PmaAll)
    BY SMT, OnPmaAfter, PmaRanges, OnPmaWhole, PmaSets, PmaUnsets
       DEF access_fault_store_pma_a_mismatch_saf_after_sfence
<1>112. access_fault_store_pma_cache_removed_saf_after_sfence \in Some(PmpFull, PmaPair)
    BY SMT, OnPmaAfter, PmaRanges, OnPmaWhole, PmaSets, PmaUnsets
       DEF access_fault_store_pma_cache_removed_saf_after_sfence
<1>113. access_fault_store_pma_read_removed_saf_after_sfence \in Some(PmpFull, PmaPair)
    BY SMT, OnPmaAfter, PmaRanges, OnPmaWhole, PmaSets, PmaUnsets
       DEF access_fault_store_pma_read_removed_saf_after_sfence
<1>114. access_fault_store_pmp_a_mismatch_saf_after_sfence_pmp_translation_consistency \in Some(PmpFar, PmaOff)
    BY SMT, OnPmpAfter, PmpRanges, OnPmpWhole, PmpSets, OnPmpBits0, PmpUnsets
       DEF access_fault_store_pmp_a_mismatch_saf_after_sfence_pmp_translation_consistency
<1> QED BY <1>1, <1>2, <1>3, <1>4, <1>5, <1>6, <1>7, <1>8, <1>9, <1>10, <1>11, <1>12, <1>13,
       <1>14, <1>15, <1>16, <1>17, <1>18, <1>19, <1>20, <1>21, <1>22, <1>23, <1>24, <1>25, <1>26,
       <1>27, <1>28, <1>29, <1>30, <1>31, <1>32, <1>33, <1>34, <1>35, <1>36, <1>37, <1>38, <1>39,
       <1>40, <1>41, <1>42, <1>43, <1>44, <1>45, <1>46, <1>47, <1>48, <1>49, <1>50, <1>51, <1>52,
       <1>53, <1>54, <1>55, <1>56, <1>57, <1>58, <1>59, <1>60, <1>61, <1>62, <1>63, <1>64, <1>65,
       <1>66, <1>67, <1>68, <1>69, <1>70, <1>71, <1>72, <1>73, <1>74, <1>75, <1>76, <1>77, <1>78,
       <1>79, <1>80, <1>81, <1>82, <1>83, <1>84, <1>85, <1>86, <1>87, <1>88, <1>89, <1>90, <1>91,
       <1>92, <1>93, <1>94, <1>95, <1>96, <1>97, <1>98, <1>99, <1>100, <1>101, <1>102, <1>103,
       <1>104, <1>105, <1>106, <1>107, <1>108, <1>109, <1>110, <1>111, <1>112, <1>113, <1>114,
       SomeScripted DEF access_fault_table

(* And every test of the page_fault suite.                                 *)
LEMMA PageFaultScripts ==
    ASSUME Layout PROVE page_fault_table \in Seq(Scripted)
<1> USE Openings, GoAfter, AnywhereAfter, NotUserAfter, InMachineAfter, AnywhereStatements, AnywhereAccesses,
        NotUserStatements, InMachineStatements, ModeNames, KindNames, FaultNames, PageNames, SetterNames
<1>1. page_fault_amo_mprv_s_pte_a_clear_spf_mmu_open \in Some(PmpFull, PmaOff)
    BY SMT DEF page_fault_amo_mprv_s_pte_a_clear_spf_mmu_open
<1>2. page_fault_amo_mprv_s_pte_d_clear_spf_mmu_open \in Some(PmpFull, PmaOff)
    BY SMT DEF page_fault_amo_mprv_s_pte_d_clear_spf_mmu_open
<1>3. page_fault_amo_page_fault_hs_amo_prepf_fault_spf_mmu_open \in Some(PmpFull, PmaOff)
    BY SMT DEF page_fault_amo_page_fault_hs_amo_prepf_fault_spf_mmu_open
<1>4. page_fault_amo_page_fault_hs_amoadd_w_pte_a0_spf \in Some(PmpFull, PmaOff)
    BY SMT DEF page_fault_amo_page_fault_hs_amoadd_w_pte_a0_spf
<1>5. page_fault_amo_page_fault_hs_amoadd_w_pte_d1_success_translation_consistency \in Some(PmpFull, PmaOff)
    BY SMT DEF page_fault_amo_page_fault_hs_amoadd_w_pte_d1_success_translation_consistency
<1>6. page_fault_amo_page_fault_hs_amoadd_w_spf_g_bit_page_w0 \in Some(PmpFull, PmaOff)
    BY SMT DEF page_fault_amo_page_fault_hs_amoadd_w_spf_g_bit_page_w0
<1>7. page_fault_amo_page_fault_hs_amoadd_w_spf_r0_medeleg_spf1 \in Some(PmpFull, PmaOff)
    BY SMT DEF page_fault_amo_page_fault_hs_amoadd_w_spf_r0_medeleg_spf1
<1>8. page_fault_amo_page_fault_hs_amoadd_w_success_g_bit_page \in Some(PmpFull, PmaOff)
    BY SMT DEF page_fault_amo_page_fault_hs_amoadd_w_success_g_bit_page
<1>9. page_fault_amo_page_fault_hs_exec_amoadd_w_pte_v0_spf \in Some(PmpFull, PmaOff)
    BY SMT DEF page_fault_amo_page_fault_hs_exec_amoadd_w_pte_v0_spf
<1>10. page_fault_amo_page_fault_hs_exec_amoadd_w_u_page_sstatus_sum1_success \in Some(PmpFull, PmaOff)
    BY SMT DEF page_fault_amo_page_fault_hs_exec_amoadd_w_u_page_sstatus_sum1_success
<1>11. page_fault_amo_page_fault_hs_exec_amomin_d_u_page_mstatus_sum0_lpf \in Some(PmpFull, PmaOff)
    BY SMT DEF page_fault_amo_page_fault_hs_exec_amomin_d_u_page_mstatus_sum0_lpf
<1>12. page_fault_amo_page_fault_hs_sc_d_1gb_superpage_success_translation_consistency \in Some(PmpFull, PmaKept)
    BY SMT, OnPmaAfter, PmaRanges, OnPmaWhole, PmaSets
       DEF page_fault_amo_page_fault_hs_sc_d_1gb_superpage_success_translation_consistency
<1>13. page_fault_amo_page_fault_hs_sc_d_2mb_superpage_success \in Some(PmpFull, PmaOff)
    BY SMT DEF page_fault_amo_page_fault_hs_sc_d_2mb_superpage_success
<1>14. page_fault_amo_page_fault_hs_sc_d_512gb_superpage_success_translation_consistency \in Some(PmpFull, PmaKept)
    BY SMT, OnPmaAfter, PmaRanges, OnPmaWhole, PmaSets
       DEF page_fault_amo_page_fault_hs_sc_d_512gb_superpage_success_translation_consistency
<1>15. page_fault_amo_page_fault_hu_amo_prepf_fault_spf_mmu_open \in Some(PmpFull, PmaOff)
    BY SMT DEF page_fault_amo_page_fault_hu_amo_prepf_fault_spf_mmu_open
<1>16. page_fault_amo_page_fault_hu_amoadd_w_pte_a1_success \in Some(PmpFull, PmaOff)
    BY SMT DEF page_fault_amo_page_fault_hu_amoadd_w_pte_a1_success
<1>17. page_fault_amo_page_fault_hu_amoadd_w_pte_d1_success \in Some(PmpFull, PmaOff)
    BY SMT DEF page_fault_amo_page_fault_hu_amoadd_w_pte_d1_success
<1>18. page_fault_amo_page_fault_m_amoadd_w_pte_a1_success_mmu_open \in Some(PmpFull, PmaOff)
    BY SMT DEF page_fault_amo_page_fault_m_amoadd_w_pte_a1_success_mmu_open
<1>19. page_fault_amo_page_fault_m_amoadd_w_pte_d1_success_mmu_open \in Some(PmpFull, PmaOff)
    BY SMT DEF page_fault_amo_page_fault_m_amoadd_w_pte_d1_success_mmu_open
<1>20. page_fault_inst_asid_switch_global_x_clear_stale_then_ipf_sfence_tlb_consistency \in Some(PmpFull, PmaOff)
    BY SMT, NotUserTestFences
       DEF page_fault_inst_asid_switch_global_x_clear_stale_then_ipf_sfence_tlb_consistency
<1>21. page_fault_inst_asid_switch_global_x_set_nonasid_sfence_success_sfence_tlb_consistency \in Some(PmpFull, PmaOff)
    BY SMT, NotUserTestFences
       DEF page_fault_inst_asid_switch_global_x_set_nonasid_sfence_success_sfence_tlb_consistency
<1>22. page_fault_inst_asid_switch_x_clear_ipf \in Some(PmpFull, PmaOff)
    BY SMT, NotUserTestFences DEF page_fault_inst_asid_switch_x_clear_ipf
<1>23. page_fault_inst_asid_switch_x_set_sfence_recovers \in Some(PmpFull, PmaOff)
    BY SMT, NotUserTestFences DEF page_fault_inst_asid_switch_x_set_sfence_recovers
<1>24. page_fault_inst_global_x_clear_no_asid_sfence_stale_success_sfence_tlb_consistency \in Some(PmpFull, PmaOff)
    BY SMT, NotUserTestFences
       DEF page_fault_inst_global_x_clear_no_asid_sfence_stale_success_sfence_tlb_consistency
<1>25. page_fault_inst_global_x_set_no_asid_sfence_stays_ipf_sfence_tlb_consistency \in Some(PmpFull, PmaOff)
    BY SMT, NotUserTestFences
       DEF page_fault_inst_global_x_set_no_asid_sfence_stays_ipf_sfence_tlb_consistency
<1>26. page_fault_inst_hs_hu_fetch_pte_x1_v1_success \in Some(PmpFull, PmaOff)
    BY SMT DEF page_fault_inst_hs_hu_fetch_pte_x1_v1_success
<1>27. page_fault_inst_page_fault_2_hu_fetche_inst_pte_v0_ipf \in Some(PmpFull, PmaOff)
    BY SMT DEF page_fault_inst_page_fault_2_hu_fetche_inst_pte_v0_ipf
<1>28. page_fault_inst_page_fault_2_hu_fetche_inst_pte_x0_ipf \in Some(PmpFull, PmaOff)
    BY SMT DEF page_fault_inst_page_fault_2_hu_fetche_inst_pte_x0_ipf
<1>29. page_fault_inst_page_fault_2_hu_fetche_inst_x1_v1_success \in Some(PmpFull, PmaOff)
    BY SMT DEF page_fault_inst_page_fault_2_hu_fetche_inst_x1_v1_success
<1>30. page_fault_inst_page_fault_hs_fetch_inst_ipf_pte_x0_translation_consistency \in Some(PmpFull, PmaOff)
    BY SMT, NotUserTestFences
       DEF page_fault_inst_page_fault_hs_fetch_inst_ipf_pte_x0_translation_consistency
<1>31. page_fault_inst_page_fault_hs_fetch_inst_pte_x1_success_translation_consistency \in Some(PmpFull, PmaOff)
    BY SMT, NotUserTestFences
       DEF page_fault_inst_page_fault_hs_fetch_inst_pte_x1_success_translation_consistency
<1>32. page_fault_inst_page_fault_hs_fetche_inst_1gb_superpage_success_translation_consistency \in Some(PmpFull, PmaKept)
    BY SMT, OnPmaAfter, PmaRanges, OnPmaWhole, PmaSets
       DEF page_fault_inst_page_fault_hs_fetche_inst_1gb_superpage_success_translation_consistency
<1>33. page_fault_inst_page_fault_hs_fetche_inst_2mb_superpage_success \in Some(PmpFull, PmaOff)
    BY SMT DEF page_fault_inst_page_fault_hs_fetche_inst_2mb_superpage_success
<1>34. page_fault_inst_page_fault_hs_fetche_inst_512gb_superpage_success_translation_consistency \in Some(PmpFull, PmaKept)
    BY SMT, OnPmaAfter, PmaRanges, OnPmaWhole, PmaSets
       DEF page_fault_inst_page_fault_hs_fetche_inst_512gb_superpage_success_translation_consistency
<1>35. page_fault_inst_page_fault_hs_fetche_inst_a1_success_translation_consistency \in Some(PmpFull, PmaOff)
    BY SMT DEF page_fault_inst_page_fault_hs_fetche_inst_a1_success_translation_consistency
<1>36. page_fault_inst_page_fault_hs_fetche_inst_ipf_third_level_pte_reserved_ne_0 \in Some(PmpFull, PmaOff)
    BY SMT, EntryStatements
       DEF page_fault_inst_page_fault_hs_fetche_inst_ipf_third_level_pte_reserved_ne_0
<1>37. page_fault_inst_page_fault_hs_fetche_inst_ipf_third_level_pte_v0 \in Some(PmpFull, PmaOff)
    BY SMT, EntryStatements DEF page_fault_inst_page_fault_hs_fetche_inst_ipf_third_level_pte_v0
<1>38. page_fault_inst_page_fault_hs_fetche_inst_ipf_x0_medeleg_ipf1 \in Some(PmpFull, PmaOff)
    BY SMT DEF page_fault_inst_page_fault_hs_fetche_inst_ipf_x0_medeleg_ipf1
<1>39. page_fault_inst_page_fault_hs_fetche_inst_success_g_bit_page \in Some(PmpFull, PmaOff)
    BY SMT DEF page_fault_inst_page_fault_hs_fetche_inst_success_g_bit_page
<1>40. page_fault_inst_page_fault_hs_fetche_inst_success_g_bit_page_x0 \in Some(PmpFull, PmaOff)
    BY SMT DEF page_fault_inst_page_fault_hs_fetche_inst_success_g_bit_page_x0
<1>41. page_fault_inst_page_fault_hs_fetche_inst_u_ipf \in Some(PmpFull, PmaOff)
    BY SMT DEF page_fault_inst_page_fault_hs_fetche_inst_u_ipf
<1>42. page_fault_inst_page_fault_hs_fetche_inst_x1_v1_success \in Some(PmpFull, PmaOff)
    BY SMT DEF page_fault_inst_page_fault_hs_fetche_inst_x1_v1_success
<1>43. page_fault_inst_page_fault_hs_instr_fetch_prepf_fault_lpf_mmu_open \in Some(PmpFull, PmaOff)
    BY SMT DEF page_fault_inst_page_fault_hs_instr_fetch_prepf_fault_lpf_mmu_open
<1>44. page_fault_inst_page_fault_hu_fetche_inst_a0_ipf \in Some(PmpFull, PmaOff)
    BY SMT DEF page_fault_inst_page_fault_hu_fetche_inst_a0_ipf
<1>45. page_fault_inst_page_fault_hu_fetche_inst_a1_success \in Some(PmpFull, PmaOff)
    BY SMT DEF page_fault_inst_page_fault_hu_fetche_inst_a1_success
<1>46. page_fault_inst_page_fault_hu_instr_fetch_prepf_fault_lpf_mmu_open \in Some(PmpFull, PmaOff)
    BY SMT DEF page_fault_inst_page_fault_hu_instr_fetch_prepf_fault_lpf_mmu_open
<1>47. page_fault_load_mprv_s_pte_a_clear_lpf_mmu_open \in Some(PmpFull, PmaOff)
    BY SMT DEF page_fault_load_mprv_s_pte_a_clear_lpf_mmu_open
<1>48. page_fault_load_page_fault_hs_ld_1gb_superpage_success_translation_consistency \in Some(PmpFull, PmaKept)
    BY SMT, OnPmaAfter, OnPmaWhole, PmaEncodings
       DEF page_fault_load_page_fault_hs_ld_1gb_superpage_success_translation_consistency
<1>49. page_fault_load_page_fault_hs_ld_2mb_superpage_success \in Some(PmpFull, PmaOff)
    BY SMT DEF page_fault_load_page_fault_hs_ld_2mb_superpage_success
<1>50. page_fault_load_page_fault_hs_ld_512gb_superpage_success_translation_consistency \in Some(PmpFull, PmaKept)
    BY SMT, OnPmaAfter, PmaRanges, OnPmaWhole, PmaSets
       DEF page_fault_load_page_fault_hs_ld_512gb_superpage_success_translation_consistency
<1>51. page_fault_load_page_fault_hs_ld_lpf_g_bit_page_r0 \in Some(PmpFull, PmaOff)
    BY SMT DEF page_fault_load_page_fault_hs_ld_lpf_g_bit_page_r0
<1>52. page_fault_load_page_fault_hs_ld_lpf_r0_medeleg_lpf1 \in Some(PmpFull, PmaOff)
    BY SMT DEF page_fault_load_page_fault_hs_ld_lpf_r0_medeleg_lpf1
<1>53. page_fault_load_page_fault_hs_ld_prepf_fault_lpf_mmu_open \in Some(PmpFull, PmaOff)
    BY SMT DEF page_fault_load_page_fault_hs_ld_prepf_fault_lpf_mmu_open
<1>54. page_fault_load_page_fault_hs_ld_pte_a1_success_without_sfence_vma_sfence_tlb_consistency \in Some(PmpFull, PmaOff)
    BY SMT
       DEF page_fault_load_page_fault_hs_ld_pte_a1_success_without_sfence_vma_sfence_tlb_consistency
<1>55. page_fault_load_page_fault_hs_ld_success_g_bit_page \in Some(PmpFull, PmaOff)
    BY SMT DEF page_fault_load_page_fault_hs_ld_success_g_bit_page
<1>56. page_fault_load_page_fault_hs_ld_u_page_sstatus_sum1_success \in Some(PmpFull, PmaOff)
    BY SMT DEF page_fault_load_page_fault_hs_ld_u_page_sstatus_sum1_success
<1>57. page_fault_load_page_fault_hs_ld_u_page_vsstatus_sum0_lpf \in Some(PmpFull, PmaOff)
    BY SMT DEF page_fault_load_page_fault_hs_ld_u_page_vsstatus_sum0_lpf
<1>58. page_fault_load_page_fault_hs_load_pte_v0_lpf \in Some(PmpFull, PmaOff)
    BY SMT DEF page_fault_load_page_fault_hs_load_pte_v0_lpf
<1>59. page_fault_load_page_fault_hu_ld_prepf_fault_lpf_mmu_open \in Some(PmpFull, PmaOff)
    BY SMT DEF page_fault_load_page_fault_hu_ld_prepf_fault_lpf_mmu_open
<1>60. page_fault_load_page_fault_hu_ld_pte_a1_success \in Some(PmpFull, PmaOff)
    BY SMT DEF page_fault_load_page_fault_hu_ld_pte_a1_success
<1>61. page_fault_load_page_fault_m_ld_pte_a1_success_mmu_open \in Some(PmpFull, PmaOff)
    BY SMT DEF page_fault_load_page_fault_m_ld_pte_a1_success_mmu_open
<1>62. page_fault_store_mprv_s_pte_a_clear_spf_mmu_open \in Some(PmpFull, PmaOff)
    BY SMT DEF page_fault_store_mprv_s_pte_a_clear_spf_mmu_open
<1>63. page_fault_store_mprv_s_pte_d_clear_spf_mmu_open \in Some(PmpFull, PmaOff)
    BY SMT DEF page_fault_store_mprv_s_pte_d_clear_spf_mmu_open
<1>64. page_fault_store_page_fault_hs_sd_1gb_superpage_success_translation_consistency \in Some(PmpFull, PmaKept)
    BY SMT, OnPmaAfter, PmaRanges, OnPmaWhole, PmaSets
       DEF page_fault_store_page_fault_hs_sd_1gb_superpage_success_translation_consistency
<1>65. page_fault_store_page_fault_hs_sd_2mb_superpage_success \in Some(PmpFull, PmaOff)
    BY SMT DEF page_fault_store_page_fault_hs_sd_2mb_superpage_success
<1>66. page_fault_store_page_fault_hs_sd_512gb_superpage_success_translation_consistency \in Some(PmpFull, PmaKept)
    BY SMT, OnPmaAfter, OnPmaWhole, PmaEncodings
       DEF page_fault_store_page_fault_hs_sd_512gb_superpage_success_translation_consistency
<1>67. page_fault_store_page_fault_hs_sd_prepf_fault_spf_mmu_open \in Some(PmpFull, PmaOff)
    BY SMT DEF page_fault_store_page_fault_hs_sd_prepf_fault_spf_mmu_open
<1>68. page_fault_store_page_fault_hs_sd_pte_a1_success_translation_consistency \in Some(PmpFull, PmaOff)
    BY SMT DEF page_fault_store_page_fault_hs_sd_pte_a1_success_translation_consistency
<1>69. page_fault_store_page_fault_hs_sd_pte_d1_success_translation_consistency \in Some(PmpFull, PmaOff)
    BY SMT DEF page_fault_store_page_fault_hs_sd_pte_d1_success_translation_consistency
<1>70. page_fault_store_page_fault_hs_sd_pte_v0_lpf \in Some(PmpFull, PmaOff)
    BY SMT DEF page_fault_store_page_fault_hs_sd_pte_v0_lpf
<1>71. page_fault_store_page_fault_hs_sd_spf_g_bit_page_w0 \in Some(PmpFull, PmaOff)
    BY SMT DEF page_fault_store_page_fault_hs_sd_spf_g_bit_page_w0
<1>72. page_fault_store_page_fault_hs_sd_spf_r0_medeleg_spf1 \in Some(PmpFull, PmaOff)
    BY SMT DEF page_fault_store_page_fault_hs_sd_spf_r0_medeleg_spf1
<1>73. page_fault_store_page_fault_hs_sd_success_g_bit_page \in Some(PmpFull, PmaOff)
    BY SMT DEF page_fault_store_page_fault_hs_sd_success_g_bit_page
<1>74. page_fault_store_page_fault_hs_sd_u_page_sstatus_sum0_lpf \in Some(PmpFull, PmaOff)
    BY SMT DEF page_fault_store_page_fault_hs_sd_u_page_sstatus_sum0_lpf
<1>75. page_fault_store_page_fault_hs_sd_u_page_sstatus_sum1_success \in Some(PmpFull, PmaOff)
    BY SMT DEF page_fault_store_page_fault_hs_sd_u_page_sstatus_sum1_success
<1>76. page_fault_store_page_fault_hu_sd_prepf_fault_spf_mmu_open \in Some(PmpFull, PmaOff)
    BY SMT DEF page_fault_store_page_fault_hu_sd_prepf_fault_spf_mmu_open
<1>77. page_fault_store_page_fault_hu_sd_pte_a1_success \in Some(PmpFull, PmaOff)
    BY SMT DEF page_fault_store_page_fault_hu_sd_pte_a1_success
<1>78. page_fault_store_page_fault_hu_sd_pte_d1_success \in Some(PmpFull, PmaOff)
    BY SMT DEF page_fault_store_page_fault_hu_sd_pte_d1_success
<1>79. page_fault_store_page_fault_m_sd_pte_a1_success_mmu_open \in Some(PmpFull, PmaOff)
    BY SMT DEF page_fault_store_page_fault_m_sd_pte_a1_success_mmu_open
<1>80. page_fault_store_page_fault_m_sd_pte_d1_success_mmu_open \in Some(PmpFull, PmaOff)
    BY SMT DEF page_fault_store_page_fault_m_sd_pte_d1_success_mmu_open
<1> QED BY <1>1, <1>2, <1>3, <1>4, <1>5, <1>6, <1>7, <1>8, <1>9, <1>10, <1>11, <1>12, <1>13,
       <1>14, <1>15, <1>16, <1>17, <1>18, <1>19, <1>20, <1>21, <1>22, <1>23, <1>24, <1>25, <1>26,
       <1>27, <1>28, <1>29, <1>30, <1>31, <1>32, <1>33, <1>34, <1>35, <1>36, <1>37, <1>38, <1>39,
       <1>40, <1>41, <1>42, <1>43, <1>44, <1>45, <1>46, <1>47, <1>48, <1>49, <1>50, <1>51, <1>52,
       <1>53, <1>54, <1>55, <1>56, <1>57, <1>58, <1>59, <1>60, <1>61, <1>62, <1>63, <1>64, <1>65,
       <1>66, <1>67, <1>68, <1>69, <1>70, <1>71, <1>72, <1>73, <1>74, <1>75, <1>76, <1>77, <1>78,
       <1>79, <1>80, SomeScripted DEF page_fault_table
=============================================================================
