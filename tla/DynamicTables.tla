---------------------------- MODULE DynamicTables ----------------------------
(***************************************************************************)
(* The page tables of src/src/dynamic_page_tables.c, which a test can      *)
(* switch between sv39 and sv48 while it runs. Both modes use the array    *)
(* hspt, an entry of which serves as the root of one and as a leaf of the  *)
(* other, and nothing clears it: hspt_init of one mode writes over what    *)
(* the other has left, often with the hart translating by those tables.    *)
(*                                                                         *)
(* hspt_init is a set of statements, each an assignment or a loop of       *)
(* assignments. They take effect in any order: the compiler may move them, *)
(* and the walker of the hart does not wait for the stores before it. A    *)
(* loop is taken as one because no walk reads two entries of a loop.       *)
(* Addresses, frames and entries are those of PageTables.                  *)
(***************************************************************************)
EXTENDS PageTables

CONSTANTS MaxCalls,     \* bound: calls of functions that change tables
          Bases         \* frames the tests pass as new_base_paddr

ASSUME MaxCallsAssumption == MaxCalls \in Nat
ASSUME BasesAssumption == Bases \subseteq Nat

VARIABLES
    mode,       \* current_page_table_mode
    phase,      \* "set" (mode set, tables not built for it), "stores" (inside hspt_init)
                \* or "built"
    todo,       \* statements of hspt_init that have not taken effect
    satp,       \* translation of the hart: mode, or "bare", and the table it starts at
    hspt,       \* the array
    last,       \* the function that was called last
    calls       \* how many were called

vars == <<mode, phase, todo, satp, hspt, last, calls>>

Modes == {"sv39", "sv48"}
Home == 2 * SUPERPAGE_SIZE(1)     \* the page the program lies in

-----------------------------------------------------------------------------
(* The entries some function writes, in either mode.                       *)
Roots39 == {<<0, i>> : i \in 0 .. 3}
Leaf(m) == IF m = "sv48" THEN 4 ELSE 2
LeavesOf(m) == {<<Leaf(m), i>> : i \in Pages}
Wide(m) == IF m = "sv48" THEN Gigapages \cup Megapages ELSE Roots39
Cells == Entries \cup Roots39 \cup {<<0, 4>>, <<1, 0>>} \cup LeavesOf("sv39")

StatementsBug(m) == IF m = "sv48"
    THEN {{<<0, 0>>}, Gigapages, {<<1, 4>>}, {<<1, 5>>}, {<<2, 0>>}, Megapages, LeavesOf(m)}
    ELSE {Roots39, {<<0, 4>>}, {e \in {<<1, 0>>} : hspt[e] = Empty}, LeavesOf(m)}

Statements(m) == IF m = "sv48"
    THEN {{<<0, 0>>}, Gigapages, {<<1, 4>>}, {<<1, 5>>}, {<<2, 0>>}, Megapages, LeavesOf(m)}
    ELSE {Roots39, {<<0, 4>>}, {<<1, 0>>}, LeavesOf(m)}

(* The value hspt_init gives an entry.                                     *)
Assigned39(e) ==
    CASE e \in Roots39   -> Superpage(e[2] * SUPERPAGE_SIZE(1))
      [] e = <<0, 4>>    -> Pointer(1)
      [] e = <<1, 0>>    -> Pointer(2)
      [] OTHER           -> TestLeaf(e[2], Pp(e[2]))
Assigned48(e) ==
    CASE e = <<0, 0>>    -> Pointer(1)
      [] e = <<1, 4>>    -> Pointer(2)
      [] e = <<1, 5>>    -> Pointer(3)
      [] e = <<2, 0>>    -> Pointer(4)
      [] e \in Gigapages -> Superpage(e[2] * SUPERPAGE_SIZE(1))
      [] e \in Megapages -> Superpage(4 * SUPERPAGE_SIZE(1) + e[2] * SUPERPAGE_SIZE(2))
      [] OTHER           -> TestLeaf(e[2], Pp(e[2]))
Assigned(m, e) == IF m = "sv48" THEN Assigned48(e) ELSE Assigned39(e)

Stored(m, pt, E) == [e \in Cells |-> IF e \in E THEN Assigned(m, e) ELSE pt[e]]

-----------------------------------------------------------------------------
(* The functions that change tables, on tables pt in mode m.               *)
Add(pt, E, flags) ==
    [e \in Cells |-> IF e \in E THEN [pt[e] EXCEPT !.flags = @ \cup flags] ELSE pt[e]]
Del(pt, E, flags) ==
    [e \in Cells |-> IF e \in E THEN [pt[e] EXCEPT !.flags = @ \ flags] ELSE pt[e]]
Overflow(pt, E) ==
    [e \in Cells |-> IF e \in E THEN [pt[e] EXCEPT !.ppn = Nowhere] ELSE pt[e]]
Only48(m, pt, new) == IF m = "sv48" THEN new ELSE pt

RightsSetters == {"hspt_u_mode_allow", "hspt_u_mode_allow_no_leaf", "hspt_del_D", "hspt_del_A",
                  "hspt_del_R", "hspt_del_W", "hspt_del_X", "hspt_del_V", "hspt_add_X", "hspt_add_G",
                  "hspt_add_reserved_bits"}

Rights(f, m, pt) ==
    CASE f = "hspt_u_mode_allow" -> Add(pt, Wide(m) \cup LeavesOf(m), {"U"})
      [] f = "hspt_u_mode_allow_no_leaf" -> Only48(m, pt, Add(pt, Wide(m), {"U"}))
      [] f = "hspt_del_D" -> Del(pt, LeavesOf(m), {"D"})
      [] f = "hspt_del_A" -> Del(pt, LeavesOf(m), {"A"})
      [] f = "hspt_del_R" -> Del(pt, LeavesOf(m), {"R"})
      [] f = "hspt_del_W" -> Del(pt, LeavesOf(m), {"W"})
      [] f = "hspt_del_X" -> Del(pt, LeavesOf(m), {"X"})
      [] f = "hspt_del_V" -> Del(pt, LeavesOf(m), {"V"})
      [] f = "hspt_add_X" -> Add(pt, LeavesOf(m), {"X"})
      [] f = "hspt_add_G" -> Add(pt, LeavesOf(m), {"G"})
      [] OTHER -> Only48(m, pt, Add(pt, LeavesOf(m), {"N"}))

Superpages(f, pt) ==
    CASE f = "hspt_2MB_superpage_misalign_setup" ->
             [pt EXCEPT ![<<3, 0>>] = Superpage(4 * SUPERPAGE_SIZE(1) + \h100)]
      [] f = "hspt_2MB_superpage_align_boundary_setup" ->
             [pt EXCEPT ![<<3, 0>>] = Superpage(4 * SUPERPAGE_SIZE(1) + \h200)]
      [] f = "hspt_1GB_superpage_misalign_setup" ->
             [pt EXCEPT ![<<1, 3>>] = Superpage(3 * SUPERPAGE_SIZE(1) + \h30000)]
      [] f = "hspt_1GB_superpage_align_boundary_setup" ->
             [pt EXCEPT ![<<1, 3>>] = Superpage(3 * SUPERPAGE_SIZE(1) + \h40000)]
      [] f = "set_superpage_512G" -> [pt EXCEPT ![HugePage] = Superpage(SUPERPAGE_SIZE(0))]
      [] f = "hspt_512GB_superpage_misalign_setup" ->
             [pt EXCEPT ![HugePage] = Superpage(SUPERPAGE_SIZE(0) + \h4000000)]
      [] OTHER -> [pt EXCEPT ![HugePage] = Superpage(SUPERPAGE_SIZE(0) + \h8000000)]

FramesBug(f, m, pt) ==
    CASE f = "hspt_ptw_ppn_high_bit_overflow_setup" -> Overflow(pt, {<<1, 0>>})
      [] f = "hspt_llptw_ppn_high_bit_overflow_setup" -> Overflow(pt, LeavesOf(m))
      [] OTHER -> Only48(m, pt, Superpages(f, pt))

Frames(f, m, pt) ==
    CASE f = "hspt_ptw_ppn_high_bit_overflow_setup" ->
             Overflow(pt, {IF m = "sv48" THEN <<2, 0>> ELSE <<1, 0>>})
      [] f = "hspt_llptw_ppn_high_bit_overflow_setup" -> Overflow(pt, LeavesOf(m))
      [] OTHER -> Only48(m, pt, Superpages(f, pt))

Changed(f, m, pt) == IF f \in RightsSetters THEN Rights(f, m, pt) ELSE Frames(f, m, pt)

(* pbmt_hspt_to_x, pbmt_hspt_to_x_base_paddr and hspt_switch.              *)
LeafAt(m, pt, page, frame) == [pt EXCEPT ![<<Leaf(m), page>>] = TestLeaf(page, frame)]
Switched(m, pt) ==
    LET one == <<Leaf(m), SWITCH1>>
        two == <<Leaf(m), SWITCH2>>
    IN  [pt EXCEPT ![one] = pt[two], ![two] = pt[one]]

-----------------------------------------------------------------------------
(* .bss, the initial value of current_page_table_mode, and reset_state.    *)
Bare == [mode |-> "bare", root |-> 0]

Init ==
    /\ mode = "sv48"
    /\ phase = "set"
    /\ todo = {}
    /\ satp = Bare
    /\ hspt = [e \in Cells |-> Empty]
    /\ last = "none"
    /\ calls = 0

SetModeBug(m) ==
    /\ mode' = m
    /\ UNCHANGED <<phase, todo, satp, hspt, last, calls>>

SetMode(m) ==
    /\ phase # "stores"
    /\ mode' = m
    /\ phase' = "set"
    /\ UNCHANGED <<todo, satp, hspt, last, calls>>

InitStartsBug ==
    /\ phase # "stores"
    /\ satp.root = 0
    /\ calls < MaxCalls
    /\ phase' = "stores"
    /\ todo' = Statements(mode)
    /\ hspt' = [e \in Cells |-> IF e[1] = 0 THEN Empty ELSE hspt[e]]
    /\ last' = "hspt_init"
    /\ calls' = calls + 1
    /\ UNCHANGED <<mode, satp>>

(* A test leaves a root of its own by satp = 0 before it builds tables.    *)
InitStarts ==
    /\ phase # "stores"
    /\ satp.root = 0
    /\ calls < MaxCalls
    /\ phase' = "stores"
    /\ todo' = Statements(mode)
    /\ last' = "hspt_init"
    /\ calls' = calls + 1
    /\ UNCHANGED <<mode, satp, hspt>>

Store(E) ==
    /\ E \in todo
    /\ todo' = todo \ {E}
    /\ hspt' = Stored(mode, hspt, E)
    /\ UNCHANGED <<mode, phase, satp, last, calls>>

InitEnds ==
    /\ phase = "stores"
    /\ todo = {}
    /\ phase' = "built"
    /\ satp' = [mode |-> mode, root |-> 0]
    /\ UNCHANGED <<mode, todo, hspt, last, calls>>

(* The tests change tables only after hspt_init in the mode that is set.   *)
Ready == phase = "built" /\ calls < MaxCalls
Becomes(f, tables) ==
    /\ hspt' = tables
    /\ last' = f
    /\ calls' = calls + 1
    /\ UNCHANGED <<mode, phase, todo, satp>>

Call(f) == Ready /\ Becomes(f, Changed(f, mode, hspt))
ToXBase(page, base) ==
    Ready /\ Becomes("pbmt_hspt_to_x_base_paddr", LeafAt(mode, hspt, page, base + X))
ToX(page) == Ready /\ Becomes("pbmt_hspt_to_x", LeafAt(mode, hspt, page, Pp(X)))
ChangeBase(page, base) ==
    /\ Ready
    /\ Becomes("hspt_leaf_change_base_paddr",
               Only48(mode, hspt, LeafAt("sv48", hspt, page, base + page)))
Switch ==
    /\ Ready
    /\ {SWITCH1, SWITCH2} \subseteq Pages
    /\ Becomes("hspt_switch", Switched(mode, hspt))

(* The test of satp.PPN: another of the five tables becomes the root, in   *)
(* sv39 after it has been filled with the identity map.                    *)
NewRoot ==
    /\ phase = "built"
    /\ satp = [mode |-> mode, root |-> 0]
    /\ satp' = [satp EXCEPT !.root = IF mode = "sv48" THEN 1 ELSE 3]
    /\ hspt' = [e \in Cells |-> IF mode = "sv39" /\ e \in Megapages
                                THEN Superpage(e[2] * SUPERPAGE_SIZE(1)) ELSE hspt[e]]
    /\ UNCHANGED <<mode, phase, todo, last, calls>>

(* CSRW(CSR_SATP, 0) in a test, and reset_state between two of them.       *)
SatpOff ==
    /\ phase # "stores"
    /\ satp' = Bare
    /\ UNCHANGED <<mode, phase, todo, hspt, last, calls>>

Next ==
    \/ \E m \in Modes : SetMode(m)
    \/ InitStarts
    \/ \E E \in todo : Store(E)
    \/ InitEnds
    \/ \E f \in Setters \ {"hspt_init"} : Call(f)
    \/ \E page \in Pages : ToX(page)
    \/ \E page \in Pages, base \in Bases : ToXBase(page, base)
    \/ \E page \in Pages, base \in Bases : ChangeBase(page, base)
    \/ Switch
    \/ NewRoot
    \/ SatpOff

Spec == Init /\ [][Next]_vars

-----------------------------------------------------------------------------
(* A walk: the entry where it ends, and the size of the page it maps. An   *)
(* entry outside the memory of the platform is out of the walker's reach.  *)
Cell(pt, frame, i) ==
    IF frame = Nowhere THEN [flags |-> {"lost"}, ppn |-> Nowhere]
    ELSE IF <<frame - Image, i>> \in Cells THEN pt[<<frame - Image, i>>] ELSE Empty

Walk4K(pt, frame, page) == [pte |-> Cell(pt, frame, page % 512), size |-> 1]
Walk2M(pt, frame, page) ==
    LET pte == Cell(pt, frame, (page \div 512) % 512)
    IN  IF IsPointer(pte) THEN Walk4K(pt, pte.ppn, page) ELSE [pte |-> pte, size |-> SUPERPAGE_SIZE(2)]
Walk1G(pt, frame, page) ==
    LET pte == Cell(pt, frame, (page \div SUPERPAGE_SIZE(1)) % 512)
    IN  IF IsPointer(pte) THEN Walk2M(pt, pte.ppn, page) ELSE [pte |-> pte, size |-> SUPERPAGE_SIZE(1)]
Walk512G(pt, frame, page) ==
    LET pte == Cell(pt, frame, page \div SUPERPAGE_SIZE(0))
    IN  IF IsPointer(pte) THEN Walk1G(pt, pte.ppn, page) ELSE [pte |-> pte, size |-> SUPERPAGE_SIZE(0)]
WalkFrom(m, root, pt, page) ==
    IF m = "sv48" THEN Walk512G(pt, Table(root), page) ELSE Walk1G(pt, Table(root), page)

Misaligned == -3
FrameOf(w, page) == IF w.pte.ppn = Nowhere THEN Nowhere
                    ELSE IF w.pte.ppn % w.size # 0 THEN Misaligned
                    ELSE w.pte.ppn + (page % w.size)
Leads(w, page) == [flags |-> w.pte.flags, frame |-> FrameOf(w, page)]
Translation(m, root, pt, page) == Leads(WalkFrom(m, root, pt, page), page)

-----------------------------------------------------------------------------
Map == INSTANCE PageMap WITH
    map <- IF phase = "built"
           THEN [a \in {Home, 3 * SUPERPAGE_SIZE(1)} \cup {Vp(i) : i \in Pages} |->
                    Translation(mode, 0, hspt, a)]
           ELSE <<>>

(* Every variable has its type.                                            *)
TypeOK ==
    /\ mode \in Modes
    /\ phase \in {"set", "stores", "built"}
    /\ todo \subseteq Statements(mode)
    /\ satp \in [mode : Modes \cup {"bare"}, root : {0, 1, 3}]
    /\ hspt \in [Cells -> [flags : SUBSET Flag, ppn : Nat \cup {Nowhere}]]
    /\ last \in {"none", "hspt_init"} \cup Map!Functions
    /\ calls \in 0 .. MaxCalls

(* Whatever tables the hart translates by, and in the middle of hspt_init  *)
(* too: the program's own page is mapped to itself with every right, so    *)
(* that a test in HS mode can build the tables of the other mode under its *)
(* own feet (dynamic_page_table_test.c does, without leaving HS).          *)
ProgramMapped ==
    satp.mode # "bare" =>
        LET t == Translation(satp.mode, satp.root, hspt, Home)
        IN  /\ t.frame = Home
            /\ {"V", "R", "W", "X", "A", "D"} \subseteq t.flags
            /\ "N" \notin t.flags

(* In sv48 the functions do to the entries of the static tables just what  *)
(* those of page_tables.c do, so that a test may be linked with either     *)
(* backend; and this whatever sv39 has left in the array.                  *)
Shared(pt) == [e \in Entries |-> pt[e]]
SameAsStatic ==
    phase = "built" /\ mode = "sv48" =>
        \A f \in Setters \ {"hspt_init"} : Shared(Changed(f, mode, hspt)) = Called(f, Shared(hspt))

(* Tests see the page map and nothing else of the tables: hspt_init gives  *)
(* the same map in both modes after any history, and each function changes *)
(* it in the same way in both modes, or, those made for sv48, not at all   *)
(* in sv39.                                                                *)
MapOnly == Map!Spec
=============================================================================
