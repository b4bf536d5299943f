-------------------------------- MODULE Hart --------------------------------
(***************************************************************************)
(* The hart the memory tests are written for, as far as their assertions   *)
(* depend on it: the physical memory protection and attribute registers    *)
(* (PMP of the RISC-V privileged architecture, PMA of the linknan          *)
(* platform, both in TOR mode), sv48 translation without hardware update   *)
(* of the A and D bits, and the exception an access ends in. Nothing here  *)
(* is code of the repository.                                              *)
(***************************************************************************)
EXTENDS PageTables

M == "M"
HS == "HS"
HU == "HU"

Top == 2147483647     \* a bound above all physical memory
Beyond == -2          \* an address above it, and no sv48 virtual address

-----------------------------------------------------------------------------
(* Protection registers: sixteen entries of permissions ("R", "W", "X",    *)
(* "T" for TOR, "L" for locked, "C" for cacheable) and upper bounds.       *)
Slots == 0 .. 15

Matching(regs, frame) ==
    {i \in Slots : /\ "T" \in regs.cfg[i]
                   /\ frame < regs.addr[i]
                   /\ i > 0 => regs.addr[i - 1] <= frame}
First(S) == {i \in S : \A j \in S : i <= j}

PmpAllows(pmp, S, priv, need) ==
    IF S = {} THEN priv = M
    ELSE \A i \in First(S) : need \subseteq pmp.cfg[i] \/ (priv = M /\ "L" \notin pmp.cfg[i])

PmaAllows(pma, S, need) == \E i \in First(S) : need \subseteq pma.cfg[i]

(* The quantifiers only name what is used more than once.                  *)
Allowed(prot, frame, priv, need) ==
    \E f \in {frame}, p \in {priv} :
        /\ f >= 0
        /\ \E S \in {Matching(prot.pmp, f)} : PmpAllows(prot.pmp, S, p, need \ {"C"})
        /\ \E S \in {Matching(prot.pma, f)} : PmaAllows(prot.pma, S, need)

(* A locked entry keeps its configuration and its bound, and under TOR the *)
(* bound below it; a write to either has no effect.                        *)
CfgLocked(regs, i) == "L" \in regs.cfg[i]
AddrLocked(regs, i) ==
    CfgLocked(regs, i) \/ (i < 15 /\ CfgLocked(regs, i + 1) /\ "T" \in regs.cfg[i + 1])

WriteCfg(regs, i, bits) ==
    IF CfgLocked(regs, i) THEN regs ELSE [regs EXCEPT !.cfg[i] = bits]
WriteAddr(regs, i, frame) ==
    IF AddrLocked(regs, i) THEN regs ELSE [regs EXCEPT !.addr[i] = frame]

-----------------------------------------------------------------------------
(* Accesses: what each needs of the page and of the frame behind it.       *)
Fetches == {"fetch", "call"}
Loads == {"load", "lr", "unaligned_load", "cross_load"}
Kinds == Fetches \cup Loads
            \cup {"store", "sc", "amo", "unaligned_store", "cross_store"}

Uses(kind) == CASE kind \in Fetches -> {"X"}
                [] kind \in Loads   -> {"R"}
                [] kind = "amo"     -> {"R", "W"}
                [] OTHER            -> {"W"}

Needs(kind) ==
    Uses(kind) \cup IF kind \in Fetches \cup {"load", "store"} THEN {} ELSE {"C"}

AccessFault(kind) == CASE kind \in Fetches -> "IAF" [] kind \in Loads -> "LAF" [] OTHER -> "SAF"
PageFault(kind) == CASE kind \in Fetches -> "IPF" [] kind \in Loads -> "LPF" [] OTHER -> "SPF"
InstFaults == {"IAF", "IPF"}

(* What the S and U modes may do with a frame.                             *)
Grants(prot, frame) == {b \in {"R", "W", "X", "C"} : Allowed(prot, frame, HS, {b})}

(* Translation of a page: a leaf, with its flags, its frame and what the   *)
(* protection grants there, or the kind of fault the walk ends in.         *)
Faulty(what) == [what |-> what, flags |-> {}, frame |-> Nowhere, may |-> {}]

Translated(w, prot, page) ==
    LET size == IF w.level = 3 THEN 1 ELSE SUPERPAGE_SIZE(w.level)
        flags == w.pte.flags
        frame == IF w.pte.ppn = Nowhere THEN Nowhere ELSE w.pte.ppn + (page % size)
    IN  CASE page = Beyond -> Faulty("page")
          [] \E t \in w.read : ~Allowed(prot, t, HS, {"R", "C"}) -> Faulty("access")
          [] \/ "V" \notin flags
             \/ flags \cap {"R", "X"} = {}
             \/ "W" \in flags /\ "R" \notin flags
             \/ "N" \in flags
             \/ w.pte.ppn % size # 0 -> Faulty("page")
          [] OTHER -> [what |-> "leaf", flags |-> flags, frame |-> frame,
                       may |-> Grants(prot, frame)]

Translate(pt, prot, page) ==
    CHOOSE tr \in {Translated(w, prot, q) : w \in {Walk(pt, page)}, q \in {page}} : TRUE

(* The exception of an access at privilege priv through translation tr, or *)
(* "none": SUM and MXR as in mstatus.                                      *)
Permitted(kind, flags, priv, sum, mxr) ==
    /\ \A b \in Uses(kind) : b \in flags \/ (b = "R" /\ mxr /\ "X" \in flags)
    /\ "A" \in flags
    /\ "W" \in Uses(kind) => "D" \in flags
    /\ IF "U" \in flags THEN priv = HU \/ (sum /\ kind \notin Fetches)
                        ELSE priv = HS

Judged(kind, tr, priv, sum, mxr) ==
    CASE tr.what = "access" -> AccessFault(kind)
      [] tr.what = "page" \/ ~Permitted(kind, tr.flags, priv, sum, mxr) -> PageFault(kind)
      [] ~(Needs(kind) \subseteq tr.may) -> AccessFault(kind)
      [] OTHER -> "none"

JudgedBare(kind, prot, frame, priv) ==
    IF Allowed(prot, frame, priv, Needs(kind)) THEN "none" ELSE AccessFault(kind)
=============================================================================
