----------------------------- MODULE MemoryTests -----------------------------
(***************************************************************************)
(* The memory tests of the repository, run on a hart: reset_state, one of  *)
(* the registered tests statement by statement with everything the         *)
(* framework does for it (goto_priv, the trap handlers, excpt, TEST_ASSERT *)
(* and TEST_END), and the way back to main.                                *)
(*                                                                         *)
(* The framework itself is code and data in the page Home, and the tests   *)
(* close memory, take rights away and switch tables under its feet: before *)
(* each statement the hart must be able to fetch at Home, and to load and  *)
(* store there if the statement touches memory. If it cannot, the          *)
(* framework takes a trap of its own, and what its handler does with that, *)
(* in M mode or in HS, is the end of the test.                             *)
(*                                                                         *)
(* The architecture leaves a hart some freedom to use old translations,    *)
(* and the model runs every test on two machines: one that holds each      *)
(* translation it has used until a fence, and one that reads translations  *)
(* ahead of their use and takes an old or a new one, as it likes.          *)
(***************************************************************************)
EXTENDS AccessFaultTests, PageFaultTests

CONSTANTS Home,       \* page and frame of the framework's code, data and stack
          Machines    \* the kinds of hart that are considered

ASSUME HomeAssumption == Home \in Nat
ASSUME MachinesAssumption == Machines \subseteq {"holds", "speculates"}

(* linker.ld puts the image at 0x80000000 and ends it by 0x80300000, far   *)
(* below 0x81000000, where the ranges that tests close begin; Home is a    *)
(* page of the code, which comes before the page tables in .bss.           *)
Layout == Home \in \h80000 .. \h80FFF /\ Home < Image /\ Image + 5 <= Top
ASSUME LayoutAssumption == Layout

test_table == access_fault_table \o page_fault_table

VARIABLES
    machine,    \* the kind of hart this run is on
    test,       \* the test that runs, an element of test_table
    pc,         \* step of the test's script that comes next
    run,        \* "test", "returned", "main" (ready for the next test), "exits" (ERROR),
                \* "derailed" (a jump went somewhere), and after a trap of the framework's
                \* own: "caught" (ERROR), "astray" (the handler takes it for the trap the test
                \* waits for), "spins" (no handler can be fetched)
    priv,       \* privilege of the hart, and curr_priv between two steps
    mstatus,    \* fields MPRV, MPP, SUM and MXR
    medeleg,    \* causes delegated to HS
    satp,       \* whether translation is on, and the address space
    prot,       \* PMP and PMA registers
    hspt,       \* page tables
    held,       \* translations the hart has kept
    excpt,      \* struct exception: testing, triggered, cause and priv
    rets,       \* frames where a ret instruction has been stored
    judged,     \* the last access: its privilege, whether MPRV set it, and whether the
                \* hart was free to let it come to something else
    failed      \* assertions that have failed

vars == <<machine, test, pc, run, priv, mstatus, medeleg, satp, prot, hspt, held, excpt, rets,
          judged, failed>>
csrs == <<mstatus, medeleg, satp, prot>>

Step == test[pc]

-----------------------------------------------------------------------------
(* Protection registers: at reset, after the lines most tests on PMA begin *)
(* with, and after reset_state.                                            *)
Blank == [cfg |-> [i \in Slots |-> {}], addr |-> [i \in Slots |-> 0]]

Map(i) == CASE i = 12 -> \h80000 [] i = 13 -> \h480000 [] i = 14 -> \h30000000 [] i = 15 -> \h40000000
MapCfg(i) == CASE i = 12 -> RWXT [] i = 13 -> RWXTC [] i = 14 -> {} [] i = 15 -> RWXT

Preambled(regs) ==
    LET wide == WriteAddr(regs, 0, Top)
        cfg  == [i \in Slots |-> CASE i = 0 -> RWXTC [] i >= 12 -> MapCfg(i) [] OTHER -> {}]
        open == [wide EXCEPT !.cfg = [i \in Slots |->
                    IF CfgLocked(wide, i) THEN wide.cfg[i] ELSE cfg[i]]]
    IN  [open EXCEPT !.addr = [i \in Slots |->
            IF i >= 12 /\ ~AddrLocked(open, i) THEN Map(i) ELSE open.addr[i]]]

Cleared(regs) == [regs EXCEPT !.cfg = [i \in Slots |->
                    IF i > 7 \/ CfgLocked(regs, i) THEN regs.cfg[i] ELSE {}]]

(* A plausible bug: reset_state leaves pmpaddr0 as the test has set it.    *)
FullAccessBug(regs) == WriteCfg(Cleared(regs), 0, RWXT)
FullAccess(regs) == WriteAddr(WriteCfg(Cleared(regs), 0, RWXT), 0, Top)

AtReset == [pmp |-> Blank, pma |-> [cfg  |-> [i \in Slots |-> IF i >= 12 THEN MapCfg(i) ELSE {}],
                                    addr |-> [i \in Slots |-> IF i >= 12 THEN Map(i) ELSE 0]]]

-----------------------------------------------------------------------------
(* Accesses.                                                               *)
Effective(kind, p, status) == IF status.mprv /\ kind \notin Fetches THEN status.mpp ELSE p

Matches(page) == {h \in held : h.page = page /\ (h.asid = satp.asid \/ "G" \in h.tr.flags)}
Fresh(page) == Translate(hspt, prot, page)
Regranted(tr) == [tr EXCEPT !.may = Grants(prot, tr.frame)]

Translations(page) ==
    LET old == {h.tr : h \in Matches(page)}
        granted == {Regranted(tr) : tr \in old}
    IN  IF machine = "speculates" THEN {Fresh(page)} \cup old \cup granted
        ELSE IF old # {} THEN granted ELSE {Fresh(page)}

(* What an access may come to: the exception it takes and the frame it     *)
(* reaches.                                                                *)
Result(cause, frame) == [cause |-> cause, frame |-> frame]

Reached(kind, page, p) ==
    UNION {IF satp.on /\ as # M
           THEN {Result(Judged(kind, tr, as, mstatus.sum, mstatus.mxr), tr.frame) :
                    tr \in Translations(page)}
           ELSE {Result(JudgedBare(kind, prot, page, as), page)} : as \in {p}}

Crossing(kind) == kind \in {"cross_load", "cross_store"}

Results(kind, page, p) ==
    IF Crossing(kind)
    THEN {IF a.cause # "none" THEN a ELSE b :
             a \in Reached(kind, page, p), b \in Reached(kind, page + 1, p)}
    ELSE Reached(kind, page, p)

Causes(kind, page, p) == {r.cause : r \in Results(kind, page, p)}

(* What the framework at Home needs at privilege p, with its data at the   *)
(* privilege as: its code first, then accesses of these kinds.             *)
Need(p, causes) == [at |-> p, causes |-> causes]
AtHome(kind, p) == {r.cause : r \in Reached(kind, Home, p)}
Own(p, as, kinds) ==
    LET code == AtHome("fetch", p)
    IN  {Need(p, code)} \cup (IF "none" \in code THEN {Need(p, AtHome(k, as)) : k \in kinds} ELSE {})

Met(needs) == \A n \in needs : "none" \in n.causes
Refusals(needs) == UNION {{[at |-> n.at, cause |-> c] : c \in n.causes \ {"none"}} : n \in needs}

-----------------------------------------------------------------------------
(* The pages whose translations matter: Home and the ones the test uses.   *)
Used == {test[i] : i \in {j \in DOMAIN test : test[j].op = "do"}}
Watched == {Home} \cup {s.page : s \in Used} \cup {s.page + 1 : s \in {x \in Used : Crossing(x.kind)}}

(* What the hart has kept after a step that used the pages: the machine    *)
(* that holds adds what it walked and did not have, the one that           *)
(* speculates whatever it could translate in the state the step leads to.  *)
Kept(tr) == tr.what \in {"leaf", "page"}
Keeps(old, pages) ==
    LET tr(page) == Translate(hspt', prot', page)
        on == satp'.on /\ priv' # M
        has(page) == \E h \in old : h.page = page /\ (h.asid = satp'.asid \/ "G" \in h.tr.flags)
        new(S) == {[page |-> q, asid |-> satp'.asid, tr |-> tr(q)] : q \in {x \in S : Kept(tr(x))}}
        active == satp'.on /\ Effective("load", priv', mstatus') # M
        used == pages \cup (IF on THEN {Home} ELSE {})
    IN  held' = CASE machine = "holds"                -> old \cup new({q \in used : ~has(q)})
                  [] machine = "speculates" /\ active -> old \cup new(Watched)
                  [] OTHER                            -> old

-----------------------------------------------------------------------------
Ready == run = "test" /\ pc \in DOMAIN test
Does(op) == Ready /\ Step.op = op
Next1 == pc' = pc + 1

Same == UNCHANGED <<machine, test, rets, failed, judged>>

(* What the next step needs of the framework. goto_priv climbs from HU by  *)
(* way of HS, and leaves M with MPRV on and MPP at its target.             *)
Op == IF Ready THEN Step.op ELSE "end"
Data(op) ==
    IF op \in {"go", "arm", "expect", "end", "hspt", "entry"} THEN {"load", "store"} ELSE {}
Needed ==
    LET as == Effective("load", priv, mstatus)
        posts == {<<priv, as>>}
                 \cup (IF Op \in {"go", "end"} /\ priv = HU THEN {<<HS, HS>>} ELSE {})
                 \cup (IF Op = "go" /\ priv = M /\ mstatus.mprv THEN {<<M, Step.priv>>} ELSE {})
        tables == IF Op \in {"hspt", "entry"} THEN 0 .. 4 ELSE {}
    IN  UNION {Own(x[1], x[2], Data(Op)) : x \in posts}
        \cup {Need(priv, {r.cause : r \in Reached("store", Table(t), as)}) : t \in tables}
Possible == Met(Needed)

(* A trap is taken in HS if it is delegated, in M otherwise. The handlers  *)
(* end the program by ERROR if the test waits for no trap, or if it is a   *)
(* fetch and no return address has been left (TEST_EXEC_EXCEPT does).      *)
HandlerBug(cause, p) == IF p # M THEN HS ELSE M
Handler(cause, p) == IF cause \in medeleg /\ p # M THEN HS ELSE M
Unexpected(cause, kind) == ~excpt.testing \/ (cause \in InstFaults /\ kind # "fetch")

(* Where the handler's own faults lead: M handles those of HS, if they are *)
(* not delegated and it can run itself.                                    *)
Ends(cause, kind) == IF Unexpected(cause, kind) THEN "caught" ELSE "astray"
RunsIn(h) == Met(Own(h, h, {"load", "store"}))
Again(h, kind) ==
    {IF h = HS /\ Handler(f.cause, HS) = M /\ RunsIn(M) THEN Ends(f.cause, kind) ELSE "spins" :
        f \in Refusals(Own(h, h, {"load", "store"}))}

(* A trap of the test. The handler starts on the stack, before it clears   *)
(* MPRV, and records the exception if one is expected. M's mret leaves MPP *)
(* at its lowest.                                                          *)
Trapped(cause, kind) ==
    LET h == Handler(cause, priv)
    IN  /\ run' \in (IF RunsIn(h) THEN {IF Unexpected(cause, kind) THEN "exits" ELSE "test"} ELSE {})
                     \cup Again(h, kind)
        /\ excpt' = [testing |-> FALSE, triggered |-> TRUE, cause |-> cause, priv |-> h]
        /\ mstatus' = IF h = M THEN [mstatus EXCEPT !.mprv = FALSE, !.mpp = HU] ELSE mstatus

-----------------------------------------------------------------------------
(* goto_priv: down by mret or sret, which clears MPRV and leaves MPP at    *)
(* its lowest, up by ecall; from HU everything goes through HS.            *)
GotoPriv ==
    /\ Does("go") /\ Possible
    /\ priv' = Step.priv
    /\ mstatus' = CASE Step.priv = priv /\ priv # HU           -> mstatus
                    [] M \in {priv, Step.priv} \/ priv = HU -> [mstatus EXCEPT !.mprv = FALSE, !.mpp = HU]
                    [] OTHER                                -> [mstatus EXCEPT !.mprv = FALSE]
    /\ Next1 /\ Same /\ UNCHANGED <<run, medeleg, satp, prot, hspt, excpt>>
    /\ Keeps(held, {})

(* TEST_SETUP_EXCEPT.                                                      *)
Arm_ ==
    /\ Does("arm") /\ Possible
    /\ excpt' = [excpt EXCEPT !.testing = TRUE, !.triggered = FALSE]
    /\ Next1 /\ Same /\ UNCHANGED <<run, priv, csrs, hspt>>
    /\ Keeps(held, {})

(* TEST_ASSERT of what the access before came to.                          *)
Holds(s) == IF s.cause = "none" THEN ~excpt.triggered
            ELSE /\ excpt.triggered
                 /\ excpt.cause = s.cause
                 /\ s.priv = HS => excpt.priv = HS

Assert_ ==
    /\ Does("expect") /\ Possible
    /\ failed' = IF Holds(Step) THEN failed ELSE failed \cup {[at |-> pc, of |-> judged]}
    /\ Next1 /\ UNCHANGED <<machine, test, run, priv, csrs, hspt, excpt, rets, judged>>
    /\ Keeps(held, {})

(* A load, a store, an atomic or a jump of the test. A jump that is not    *)
(* refused comes back only from a ret, and only if it was a call.          *)
Access ==
    /\ Does("do") /\ Possible
    /\ LET k == IF Step.kind = "code" THEN "store" ELSE Step.kind
           p == Effective(k, priv, mstatus)
       IN  \E r \in Results(k, Step.page, p) :
              /\ judged' = [as |-> p, mprv |-> mstatus.mprv /\ k \notin Fetches,
                            free |-> Cardinality(Causes(k, Step.page, p)) > 1]
              /\ IF r.cause # "none"
                 THEN Trapped(r.cause, k) /\ UNCHANGED rets
                 ELSE /\ run' = IF k \in Fetches /\ (k = "fetch" \/ r.frame \notin rets)
                                THEN "derailed" ELSE "test"
                      /\ rets' = IF Step.kind = "code" THEN rets \cup {r.frame} ELSE rets
                      /\ UNCHANGED <<excpt, mstatus>>
              /\ Next1 /\ UNCHANGED <<machine, test, priv, medeleg, satp, prot, hspt, failed>>
              /\ Keeps(held, IF satp.on /\ p # M
                             THEN {Step.page} \cup (IF Crossing(k) THEN {Step.page + 1} ELSE {})
                             ELSE {})

(* CSR instructions, from the privilege they need upwards.                 *)
Legal(low) == priv = M \/ priv = low

Registers(csr, regs) ==
    /\ Possible /\ Legal(M)
    /\ prot' = [prot EXCEPT ![csr] = regs]
    /\ Next1 /\ Same /\ UNCHANGED <<run, priv, mstatus, medeleg, satp, hspt, excpt>>
    /\ Keeps(held, {})

ClearCfg == Does("clear") /\ Registers(Step.csr, Cleared(prot[Step.csr]))
SetCfg ==
    Does("set") /\ LET regs == prot[Step.csr]
                   IN  Registers(Step.csr, WriteCfg(regs, Step.i, regs.cfg[Step.i] \cup Step.bits))
UnsetCfg ==
    Does("unset") /\ LET regs == prot[Step.csr]
                     IN  Registers(Step.csr, WriteCfg(regs, Step.i, regs.cfg[Step.i] \ Step.bits))
WriteBound ==
    Does("addr") /\ Registers(Step.csr, WriteAddr(prot[Step.csr], Step.i, Step.frame))
OpenAll == Does("preamble") /\ Registers(Step.csr, Preambled(prot[Step.csr]))

(* mstatus and sstatus. The tests raise and lower MPP by both bits at      *)
(* once: M or the lowest privilege.                                        *)
Status ==
    /\ Does("status") /\ Possible /\ Legal(Step.priv)
    /\ mstatus' = [mstatus EXCEPT ![Step.field] =
                      IF Step.field # MPP THEN Step.value ELSE IF Step.value THEN M ELSE HU]
    /\ Next1 /\ Same /\ UNCHANGED <<run, priv, medeleg, satp, prot, hspt, excpt>>
    /\ Keeps(held, {})

DelegateCause ==
    /\ Does("delegate") /\ Possible /\ Legal(M)
    /\ medeleg' = medeleg \cup {Step.cause}
    /\ Next1 /\ Same /\ UNCHANGED <<run, priv, mstatus, satp, prot, hspt, excpt>>
    /\ Keeps(held, {})

WriteSatpBug ==
    /\ Does("satp") /\ Possible /\ Legal(HS)
    /\ satp' = [on |-> Step.on, asid |-> IF Step.on THEN Step.asid * 16 ELSE 0]
    /\ Next1 /\ Same /\ UNCHANGED <<run, priv, mstatus, medeleg, prot, hspt, excpt>>
    /\ Keeps(held, {})

WriteSatp ==
    /\ Does("satp") /\ Possible /\ Legal(HS)
    /\ satp' = [on |-> Step.on, asid |-> IF Step.on THEN Step.asid ELSE 0]
    /\ Next1 /\ Same /\ UNCHANGED <<run, priv, mstatus, medeleg, prot, hspt, excpt>>
    /\ Keeps(held, {})

(* sfence.vma: all, one page, one address space, or both; an address space *)
(* keeps its global translations.                                          *)
Fenced(h, s) == /\ s.page \in {All, h.page}
                /\ s.asid = All \/ (s.asid = h.asid /\ "G" \notin h.tr.flags)

SfenceVma ==
    /\ Does("fence") /\ Possible /\ Legal(HS)
    /\ Next1 /\ Same /\ UNCHANGED <<run, priv, csrs, hspt, excpt>>
    /\ Keeps({h \in held : ~Fenced(h, Step)}, {})

(* The functions of page_tables.c. hspt_init ends with a write of satp and *)
(* calls ERROR, which ends the program, below HS.                          *)
Tables ==
    /\ Does("hspt") /\ Possible
    /\ \E f \in Setters : Step.f = f /\ hspt' = Called(f, hspt)
    /\ run' = IF Step.f = "hspt_init" /\ priv = HU THEN "exits" ELSE "test"
    /\ satp' = IF Step.f = "hspt_init" /\ priv # HU THEN [on |-> TRUE, asid |-> 0] ELSE satp
    /\ Next1 /\ Same /\ UNCHANGED <<priv, mstatus, medeleg, prot, excpt>>
    /\ Keeps(held, {})

OneEntry ==
    /\ Does("entry") /\ Possible
    /\ hspt' = IF Step.f = "DelV" THEN Without(hspt, {Step.e}, {"V"})
                                  ELSE With(hspt, {Step.e}, {"N"})
    /\ Next1 /\ Same /\ UNCHANGED <<run, priv, csrs, excpt>>
    /\ Keeps(held, {})

(* reset_state. PMP entries that are locked stay as they are.              *)
ResetState ==
    /\ run' = "main"
    /\ priv' = M
    /\ mstatus' = [mprv |-> FALSE, mpp |-> HU, sum |-> FALSE, mxr |-> FALSE]
    /\ medeleg' = {}
    /\ satp' = [on |-> FALSE, asid |-> 0]
    /\ prot' = [prot EXCEPT !.pmp = FullAccess(prot.pmp)]
    /\ held' = {}
    /\ UNCHANGED <<machine, test, rets, failed, judged, hspt, excpt>>

(* TEST_END: goto_priv(PRIV_M), reset_state() and the way back to main.    *)
TestEnd == Does("end") /\ Possible /\ Next1 /\ ResetState

(* A test without TEST_END returns as it is, and main's loop resets the    *)
(* state for the test that comes next.                                     *)
FallOff ==
    /\ run = "test" /\ pc \notin DOMAIN test
    /\ run' = "returned"
    /\ UNCHANGED <<machine, test, pc, priv, csrs, hspt, held, excpt, rets, judged, failed>>

NextTest == run = "returned" /\ Possible /\ ResetState /\ UNCHANGED pc

(* The framework's own code or data is out of reach: it traps.             *)
Lose ==
    /\ Ready \/ run = "returned"
    /\ \E f \in Refusals(Needed) :
          LET h == Handler(f.cause, f.at)
          IN  run' \in (IF RunsIn(h) THEN {Ends(f.cause, "none")} ELSE {}) \cup Again(h, "none")
    /\ UNCHANGED <<machine, test, pc, priv, csrs, hspt, held, excpt, rets, judged, failed>>

Init ==
    /\ machine \in Machines
    /\ \E i \in DOMAIN test_table : test = test_table[i]
    /\ pc = 1
    /\ run = "test"
    /\ priv = M
    /\ mstatus = [mprv |-> FALSE, mpp |-> HU, sum |-> FALSE, mxr |-> FALSE]
    /\ medeleg = {}
    /\ satp = [on |-> FALSE, asid |-> 0]
    /\ prot = [AtReset EXCEPT !.pmp = FullAccess(@)]
    /\ hspt = Zero
    /\ held = {}
    /\ excpt = [testing |-> FALSE, triggered |-> FALSE, cause |-> "none", priv |-> M]
    /\ rets = {}
    /\ judged = [as |-> M, mprv |-> FALSE, free |-> FALSE]
    /\ failed = {}

Next ==
    \/ GotoPriv \/ Arm_ \/ Assert_ \/ Access \/ Status \/ DelegateCause \/ WriteSatp
    \/ ClearCfg \/ SetCfg \/ UnsetCfg \/ WriteBound \/ OpenAll
    \/ SfenceVma \/ Tables \/ OneEntry \/ TestEnd \/ FallOff \/ NextTest \/ Lose

Spec == Init /\ [][Next]_vars

-----------------------------------------------------------------------------
AreRegisters(regs) ==
    /\ DOMAIN regs = {"cfg", "addr"}
    /\ \A i \in Slots : /\ regs.cfg[i] \subseteq {"R", "W", "X", "T", "C", "L"}
                       /\ regs.addr[i] \in 0 .. Top

(* Every variable keeps its type. The fields of mstatus and satp, written  *)
(* by the tests' CSRS and CSRC, hold only values the hart could hold, and  *)
(* the setters of page_tables.c write only entries of the tables.          *)
TypeOK ==
    /\ machine \in Machines
    /\ \E i \in DOMAIN test_table : test = test_table[i]
    /\ pc \in 1 .. Len(test) + 1
    /\ run \in {"test", "returned", "main", "exits", "derailed", "caught", "astray", "spins"}
    /\ priv \in {M, HS, HU}
    /\ mstatus \in [mprv : BOOLEAN, mpp : {M, HU}, sum : BOOLEAN, mxr : BOOLEAN]
    /\ satp \in [on : BOOLEAN, asid : {0, \h1234}]
    /\ AreRegisters(prot.pmp) /\ AreRegisters(prot.pma)
    /\ hspt \in [Entries -> Pte]
    /\ \A h \in held : h.asid \in {0, \h1234} /\ h.tr.what \in {"leaf", "page"}
    /\ rets \subseteq Nat

(* An assertion of a memory test fails for one of two reasons: the access  *)
(* was made under MPRV as M, where the source means S mode (MSTATUS_MPP is *)
(* both bits of the field), or the hart was free to let it come to         *)
(* something else, because a translation it may have kept was not fenced.  *)
(* With that, 194 tests state what the architecture prescribes.            *)
AsMByMprv(access) == access.mprv /\ access.as = M
ExplainedFailures == \A f \in failed : AsMByMprv(f.of) \/ f.of.free

(* The tests that rely on what the hart keeps. Most say so in their names  *)
(* ("translation_consistency": the old translation must still be used as   *)
(* long as there is no sfence.vma), the others have no fence where they    *)
(* need one, or fence one page or one address space too few.               *)
NeedsTlb ==
    {access_fault_amo_access_fault_hs_amo_ptw_saf_mmu_open,
     access_fault_amo_pma_a_mismatch_after_sfence_pma_ptw_consistency,
     access_fault_amo_pma_cache_removed_lrsc_amo_success,
     access_fault_inst_access_fault_instr_fetch_success,
     access_fault_inst_fetch_pma_a_mismatch_iaf_after_sfence,
     access_fault_inst_fetch_pma_cache_removed_iaf_after_sfence,
     access_fault_inst_fetch_pma_read_removed_iaf_after_sfence,
     access_fault_inst_fetch_pmp_a_mismatch_iaf_after_sfence_pmp_translation_consistency,
     access_fault_inst_fetch_root_pma_cache_removed_iaf_after_sfence,
     access_fault_load_access_fault_ld_success,
     access_fault_load_pma_a_mismatch_laf_after_sfence,
     access_fault_load_pma_cache_removed_laf_after_sfence,
     access_fault_load_pmp_a_mismatch_laf_after_sfence_pmp_translation_consistency,
     access_fault_store_access_fault_sd_success,
     access_fault_store_pma_a_mismatch_saf_after_sfence,
     access_fault_store_pma_cache_removed_saf_after_sfence,
     access_fault_store_pma_read_removed_saf_after_sfence,
     access_fault_store_pmp_a_mismatch_saf_after_sfence_pmp_translation_consistency,
     page_fault_amo_page_fault_hs_amoadd_w_pte_d1_success_translation_consistency,
     page_fault_inst_asid_switch_global_x_clear_stale_then_ipf_sfence_tlb_consistency,
     page_fault_inst_asid_switch_global_x_set_nonasid_sfence_success_sfence_tlb_consistency,
     page_fault_inst_global_x_clear_no_asid_sfence_stale_success_sfence_tlb_consistency,
     page_fault_inst_global_x_set_no_asid_sfence_stays_ipf_sfence_tlb_consistency,
     page_fault_inst_page_fault_hs_fetch_inst_ipf_pte_x0_translation_consistency,
     page_fault_inst_page_fault_hs_fetch_inst_pte_x1_success_translation_consistency,
     page_fault_inst_page_fault_hs_fetche_inst_a1_success_translation_consistency,
     page_fault_load_page_fault_hs_ld_pte_a1_success_without_sfence_vma_sfence_tlb_consistency,
     page_fault_store_page_fault_hs_sd_pte_a1_success_translation_consistency,
     page_fault_store_page_fault_hs_sd_pte_d1_success_translation_consistency}

(* No other test depends on what the hart has kept: none fails, and none   *)
(* is ended by ERROR or by a jump to nowhere, on account of a translation  *)
(* that was not fenced. The tables are changed in HS and M mode, leaf by   *)
(* leaf or as a whole, and fenced by sfence_vma before the next use.       *)
Portable ==
    test \notin NeedsTlb =>
        /\ \A f \in failed : ~f.of.free
        /\ run \in {"exits", "derailed"} => ~judged.free

(* The framework gets out of its own reach in three ways only: the root    *)
(* table it walks is no pointer, or PMP or PMA refuse the walker's reads   *)
(* of it, or the hart is in HU under an identity map that has got U, and   *)
(* goto_priv climbs by way of HS. It never traps by MPRV in a trap         *)
(* handler, in M mode, or by what a test closes over its own pages.        *)
RootBroken == ~IsPointer(hspt[<<0, 0>>]) \/ ~Allowed(prot, Table(0), HS, {"R", "C"})
UMapped == satp.on /\ "U" \in Walk(hspt, Home).pte.flags
LostOnlyByMap ==
    [][run' \in {"caught", "astray", "spins"} => priv # M /\ (RootBroken \/ (priv = HU /\ UMapped))]_vars

(* A test comes back to main, or the program ends by ERROR, whatever the   *)
(* test has put out of the framework's reach: a trap of the framework's    *)
(* own has a handler that can run (reset_state leaves the page faults of   *)
(* HS to M), and is an "untested exception!", or a fault without return    *)
(* address. It can pass for the trap a test waits for only in a test that  *)
(* changes what the walker may read and does not fence, where a hart       *)
(* fetches by the old translation and reads its data by none.              *)
ComesBack ==
    /\ run # "spins"
    /\ run = "astray" => machine = "speculates" /\ test \in NeedsTlb

(* No test touches a CSR, or fences, below the privilege that takes: the   *)
(* privileges its goto_priv calls, the traps in between and the framework  *)
(* leave it in fit the instructions that come next.                        *)
MachineOnly == {"clear", "set", "unset", "addr", "preamble", "delegate"}
Lowest(s) == CASE s.op \in MachineOnly     -> M
               [] s.op \in {"satp", "fence"} -> HS
               [] s.op = "status"          -> s.priv
               [] OTHER                    -> priv
CsrsInReach == Ready => Legal(Lowest(Step))

(* Whatever functions of page_tables.c a test calls, in whatever order,    *)
(* the three lower gigabytes stay mapped onto themselves with all rights:  *)
(* only U is ever added. A test loses the framework's own mapping only by  *)
(* writing an entry itself.                                                *)
WritesEntry == \E i \in DOMAIN test : test[i].op = "entry"
Identity(i) ==
    /\ hspt[<<1, i>>].ppn = i * SUPERPAGE_SIZE(1)
    /\ {"V", "R", "W", "X", "A", "D"} \subseteq hspt[<<1, i>>].flags
    /\ "N" \notin hspt[<<1, i>>].flags
ImageMapped ==
    ~WritesEntry /\ hspt[<<0, 0>>] # Empty =>
        hspt[<<0, 0>>] = Pointer(1) /\ \A i \in 0 .. 2 : Identity(i)

(* What a test has closed and the next one of the same program may find    *)
(* closed: reset_state opens all memory by the first PMP entry, but has no *)
(* effect on that entry if it is locked, and does not touch PMA. Whatever  *)
(* a test locks or leaves in the PMA registers, the page of the program    *)
(* stays open to the next test, in the lower modes too.                    *)
NextTestReaches == run = "main" => Allowed(prot, Home, HS, {"R", "W", "X"})

(* What comments and names of the source say, and the code does not do.    *)
(* "MPP=S", say comments in four tests: an access under MPRV is judged as  *)
(* one of S mode, and the assertion about it holds.                        *)
SaysMppS ==
    {page_fault_load_page_fault_hs_ld_u_page_sstatus_sum1_success,
     page_fault_amo_page_fault_m_amoadd_w_pte_a1_success_mmu_open,
     page_fault_amo_mprv_s_pte_a_clear_spf_mmu_open,
     page_fault_amo_page_fault_m_amoadd_w_pte_d1_success_mmu_open}
MprvIsS == test \in SaysMppS => \A f \in failed : ~f.of.mprv

=============================================================================
