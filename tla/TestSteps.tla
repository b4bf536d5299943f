------------------------------ MODULE TestSteps ------------------------------
(***************************************************************************)
(* The statements the memory tests are written in, as steps of a script:   *)
(* each definition is the sequence of steps of one statement, and a test   *)
(* is their concatenation. MemoryTests says what a step does.              *)
(*                                                                         *)
(* Left out of the scripts, because no state here depends on them: prints, *)
(* fence.i, prefetches, the PMA bit 5 that nothing reads, clearing         *)
(* mstatus.TVM (reset_state has cleared it), the value of excpt.tval, and  *)
(* the comparison of the data a load returns or a refused store must not   *)
(* have changed.                                                           *)
(***************************************************************************)
EXTENDS Hart, Sequences

(* Permissions of a protection entry, as the tests combine them.           *)
R == {"R"}
W == {"W"}
Exec == {"X"}
XT == {"X", "T"}
T == {"T"}
C == {"C"}
L == {"L"}
RW == {"R", "W"}
RWXT == {"R", "W", "X", "T"}
RWXTC == {"R", "W", "X", "T", "C"}
WXT == {"W", "X", "T"}
WXTC == {"W", "X", "T", "C"}
WXTL == {"W", "X", "T", "L"}
RXTL == {"R", "X", "T", "L"}
RWXTL == {"R", "W", "X", "T", "L"}
RXTCL == {"R", "X", "T", "C", "L"}
XTC == {"X", "T", "C"}

-----------------------------------------------------------------------------
(* goto_priv, TEST_SETUP_EXCEPT, TEST_ASSERT and TEST_END.                 *)
Go(target) == <<[op |-> "go", priv |-> target]>>
Arm == <<[op |-> "arm"]>>
Expect(cause) == <<[op |-> "expect", cause |-> cause, priv |-> M]>>
ExpectAt(cause, at) == <<[op |-> "expect", cause |-> cause, priv |-> at]>>
End == <<[op |-> "end"]>>

(* An access, and an access that is armed for and judged at once.          *)
Do(kind, page) == <<[op |-> "do", kind |-> kind, page |-> page]>>
Try(kind, page, cause) == Arm \o Do(kind, page) \o Expect(cause)
TryAt(kind, page, cause, at) == Arm \o Do(kind, page) \o ExpectAt(cause, at)
StoreRet(page) == <<[op |-> "do", kind |-> "code", page |-> page]>>

(* PMPCFG0 and PMACFG0, bit by bit or cleared, and the address registers.  *)
Clear(csr) == <<[op |-> "clear", csr |-> csr]>>
Set(csr, i, bits) == <<[op |-> "set", csr |-> csr, i |-> i, bits |-> bits]>>
Unset(csr, i, bits) == <<[op |-> "unset", csr |-> csr, i |-> i, bits |-> bits]>>
Addr(csr, i, frame) == <<[op |-> "addr", csr |-> csr, i |-> i, frame |-> frame]>>
Bounds(csr, i, low, high) == Addr(csr, i, low) \o Addr(csr, i + 1, high)
Preamble(csr) == <<[op |-> "preamble", csr |-> csr]>>
linknan_pma_cfg0_tor_entry1_encoded(low, high, bits) ==
    Clear("pma") \o Bounds("pma", 0, low, high) \o Set("pma", 1, bits)

(* mstatus, sstatus, medeleg, satp and the fences.                         *)
MPRV == "mprv"
MPP == "mpp"
SUM == "sum"
MXR == "mxr"
Raise(field) == <<[op |-> "status", field |-> field, value |-> TRUE, priv |-> M]>>
Lower(field) == <<[op |-> "status", field |-> field, value |-> FALSE, priv |-> M]>>
SRaise(field) == <<[op |-> "status", field |-> field, value |-> TRUE, priv |-> HS]>>
SLower(field) == <<[op |-> "status", field |-> field, value |-> FALSE, priv |-> HS]>>
Delegate(cause) == <<[op |-> "delegate", cause |-> cause]>>
SatpOff == <<[op |-> "satp", on |-> FALSE]>>
Asid(asid) == <<[op |-> "satp", on |-> TRUE, asid |-> asid]>>
All == -1
FenceOf(page, asid) == <<[op |-> "fence", page |-> page, asid |-> asid]>>
FenceBug == FenceOf(All, \h1234)
Fence == FenceOf(All, All)

(* The page tables.                                                        *)
Hspt(f) == <<[op |-> "hspt", f |-> f]>>
HsptEntry(f, t, i) == <<[op |-> "entry", f |-> f, e |-> <<t, i>>]>>
=============================================================================
