---------------------------- MODULE PageMapProofs ----------------------------
(***************************************************************************)
(* The dynamic page tables implement the page map: once hspt_init has run, *)
(* a test sees the same map in both modes, and each function changes it in *)
(* the same way, or, made for sv48, not at all; after any history of calls *)
(* and changes of the mode, for every set of test pages and bases, and     *)
(* wherever the tables lie. And in sv48 each function does to the entries  *)
(* what its namesake does to the static tables.                            *)
(***************************************************************************)
EXTENDS DynamicProofs

-----------------------------------------------------------------------------
(* Types of the entries.                                                   *)

LEMMA PermFlags == \A i : test_page_perm_table(i) \in SUBSET Flag
BY DEF test_page_perm_table, Flag

LEMMA EntryTypes ==
    /\ Empty \in Pte
    /\ \A t \in Nat : Pointer(t) \in Pte
    /\ \A frame \in Nat : Superpage(frame) \in Pte
    /\ \A i, frame : frame \in Nat => TestLeaf(i, frame) \in Pte
<1>1. ASSUME NEW i, NEW frame \in Nat
      PROVE  TestLeaf(i, frame) \in Pte
    <2>1. {"A", "D"} \cup test_page_perm_table(i) \in SUBSET Flag
        BY PermFlags DEF Flag
    <2> QED BY <2>1 DEF TestLeaf, Pte
<1>2. \A t \in Nat : Table(t) \in Nat
    BY ImageAssumption DEF Table
<1> QED BY <1>1, <1>2 DEF Empty, Pointer, Superpage, Pte, Flag

LEMMA AssignedTypes ==
    ASSUME NEW m \in Modes, NEW E \in Statements(m), NEW e \in E
    PROVE  e \in Cells /\ Assigned(m, e) \in Pte
<1>1. \A i \in Nat : /\ i * SUPERPAGE_SIZE(1) \in Nat
                     /\ 4 * SUPERPAGE_SIZE(1) + i * SUPERPAGE_SIZE(2) \in Nat
                     /\ Pp(i) \in Nat
    BY DEF SUPERPAGE_SIZE, Pp, TEST_PPAGE_BASE
<1>2. \A i \in Pages : i \in Nat
    BY PagesAssumption
<1>3. \A i \in 0 .. 3 : i \in Nat
    OBVIOUS
<1>4. CASE m = "sv48"
    <2>1. e \in Gigapages \cup Megapages \cup Leaves \cup Pointers
        BY <1>4 DEF Statements, LeavesOf, Leaf, Leaves, Pointers
    <2>2. CASE e \in Pointers
        <3>1. Pointer(1) \in Pte /\ Pointer(2) \in Pte /\ Pointer(3) \in Pte /\ Pointer(4) \in Pte
            BY EntryTypes
        <3>2. Assigned48(e) \in {Pointer(1), Pointer(2), Pointer(3), Pointer(4)}
            <4> HIDE DEF Pointer
            <4> QED BY <2>2 DEF Assigned48, Pointers, Gigapages, Megapages
        <3> QED BY <1>4, <2>2, <3>1, <3>2 DEF Assigned, Cells, Entries
    <2>3. CASE e \in Gigapages \cup Megapages
        <3>1. e[2] \in Nat
            BY <1>3, <2>3 DEF Gigapages, Megapages
        <3> QED BY <1>1, <1>4, <2>3, <3>1, EntryTypes
                DEF Assigned, Assigned48, Cells, Entries
    <2>4. CASE e \in Leaves
        <3>1. e[2] \in Nat
            BY <1>2, <2>4 DEF Leaves
        <3> QED BY <1>1, <1>4, <2>4, <3>1, EntryTypes
                DEF Assigned, Assigned48, Cells, Entries
    <2> QED BY <2>1, <2>2, <2>3, <2>4
<1>5. CASE m = "sv39"
    <2>1. e \in Roots39 \cup {<<0, 4>>, <<1, 0>>} \cup LeavesOf(m)
        BY <1>5 DEF Statements
    <2>2. e[2] \in Nat
        BY <1>2, <1>3, <2>1 DEF Roots39, LeavesOf
    <2> QED BY <1>1, <1>5, <2>1, <2>2, EntryTypes DEF Assigned, Assigned39, Cells
<1> QED BY <1>4, <1>5 DEF Modes
-----------------------------------------------------------------------------
(* The functions, and TypeOK.                                              *)

LEMMA TableTypes ==
    ASSUME NEW m \in Modes, NEW pt \in [Cells -> Pte], NEW f
    PROVE  Changed(f, m, pt) \in [Cells -> Pte]
<1>1. ASSUME NEW E, NEW flags \in SUBSET Flag
      PROVE  Add(pt, E, flags) \in [Cells -> Pte]
    <2>1. ASSUME NEW e \in Cells
          PROVE  [pt[e] EXCEPT !.flags = @ \cup flags] \in Pte
        BY DEF Pte
    <2> QED BY <2>1 DEF Add
<1>2. ASSUME NEW E, NEW flags
      PROVE  Del(pt, E, flags) \in [Cells -> Pte]
    <2>1. ASSUME NEW e \in Cells
          PROVE  [pt[e] EXCEPT !.flags = @ \ flags] \in Pte
        BY DEF Pte
    <2> QED BY <2>1 DEF Del
<1>3. ASSUME NEW E
      PROVE  Overflow(pt, E) \in [Cells -> Pte]
    <2>1. ASSUME NEW e \in Cells
          PROVE  [pt[e] EXCEPT !.ppn = Nowhere] \in Pte
        BY DEF Pte
    <2> QED BY <2>1 DEF Overflow
<1>4. \A x \in {"U", "X", "G", "N"} : {x} \in SUBSET Flag
    BY DEF Flag
<1>5. Rights(f, m, pt) \in [Cells -> Pte]
    BY <1>1, <1>2, <1>4 DEF Rights, Only48
<1>6. Superpages(f, pt) \in [Cells -> Pte]
    <2>1. \A frame \in Nat, e \in Cells : [pt EXCEPT ![e] = Superpage(frame)] \in [Cells -> Pte]
        BY EntryTypes
    <2>2. /\ 4 * SUPERPAGE_SIZE(1) + \h100 \in Nat /\ 4 * SUPERPAGE_SIZE(1) + \h200 \in Nat
          /\ 3 * SUPERPAGE_SIZE(1) + \h30000 \in Nat /\ 3 * SUPERPAGE_SIZE(1) + \h40000 \in Nat
          /\ SUPERPAGE_SIZE(0) \in Nat /\ SUPERPAGE_SIZE(0) + \h4000000 \in Nat
          /\ SUPERPAGE_SIZE(0) + \h8000000 \in Nat
        BY DEF SUPERPAGE_SIZE
    <2>3. <<3, 0>> \in Cells /\ <<1, 3>> \in Cells /\ HugePage \in Cells
        BY DEF Cells, Entries, Megapages, Gigapages
    <2> HIDE DEF HugePage, Superpage
    <2> QED BY <2>1, <2>2, <2>3 DEF Superpages
<1> QED BY <1>3, <1>5, <1>6 DEF Changed, Frames, Only48

LEMMA LeafTypes ==
    ASSUME NEW m \in Modes, NEW pt \in [Cells -> Pte], NEW page \in Pages, NEW frame \in Nat
    PROVE  /\ LeafAt(m, pt, page, frame) \in [Cells -> Pte]
           /\ Only48(m, pt, LeafAt("sv48", pt, page, frame)) \in [Cells -> Pte]
           /\ {SWITCH1, SWITCH2} \subseteq Pages => Switched(m, pt) \in [Cells -> Pte]
<1>1. \A k \in Modes, i \in Pages : <<Leaf(k), i>> \in Cells
    BY KeyCells DEF LeavesOf
<1>2. LeafAt(m, pt, page, frame) \in [Cells -> Pte]
    BY <1>1, EntryTypes DEF LeafAt
<1>3. LeafAt("sv48", pt, page, frame) \in [Cells -> Pte]
    BY <1>1, EntryTypes DEF LeafAt, Modes
<1>4. {SWITCH1, SWITCH2} \subseteq Pages => Switched(m, pt) \in [Cells -> Pte]
    BY <1>1 DEF Switched
<1> QED BY <1>2, <1>3, <1>4 DEF Only48

Types ==
    /\ satp \in [mode : Modes \cup {"bare"}, root : {0, 1, 3}]
    /\ phase \in {"set", "stores", "built"}
    /\ hspt \in [Cells -> Pte]
    /\ last \in {"none", "hspt_init"} \cup Map!Functions
    /\ calls \in 0 .. MaxCalls

LEMMA BecomesTypes ==
    ASSUME Inv, Types, NEW f \in Map!Functions, NEW new \in [Cells -> Pte], Ready,
           Becomes(f, new)
    PROVE  Types'
<1>1. calls + 1 \in 0 .. MaxCalls
    BY MaxCallsAssumption DEF Types, Ready
<1> QED BY <1>1 DEF Becomes, Types

LEMMA TypesStep == Inv /\ Types /\ [Next]_vars => Types'
<1> SUFFICES ASSUME Inv, Types, [Next]_vars PROVE Types'
    OBVIOUS
<1>1. mode \in Modes /\ hspt \in [Cells -> Pte]
    BY DEF Inv, Types
<1>2. \A i \in Pages, b \in Bases : b + X \in Nat /\ b + i \in Nat /\ Pp(X) \in Nat
    BY PagesAssumption, BasesAssumption DEF X, Pp, TEST_PPAGE_BASE
<1>3. ASSUME NEW m \in Modes, SetMode(m) PROVE Types'
    BY <1>3 DEF SetMode, Types
<1>4. ASSUME InitStarts PROVE Types'
    <2>1. calls + 1 \in 0 .. MaxCalls
        BY <1>4, MaxCallsAssumption DEF Types, InitStarts
    <2> QED BY <1>4, <2>1 DEF InitStarts, Types
<1>5. ASSUME NEW E \in todo, Store(E) PROVE Types'
    <2>1. E \in Statements(mode)
        BY <1>5 DEF Inv, Storing
    <2>2. Stored(mode, hspt, E) \in [Cells -> Pte]
        BY <1>1, <2>1, AssignedTypes DEF Stored
    <2> QED BY <1>5, <2>2 DEF Store, Types
<1>6. ASSUME InitEnds PROVE Types'
    BY <1>6 DEF InitEnds, Types, Inv
<1>7. ASSUME NEW f \in Setters, Call(f) PROVE Types'
    <2>1. f \in Map!Functions
        BY DEF Map!Functions, Map!Setters, Setters
    <2> QED BY <1>1, <1>7, <2>1, TableTypes, BecomesTypes DEF Call
<1>8. ASSUME NEW page \in Pages, ToX(page) PROVE Types'
    <2>1. "pbmt_hspt_to_x" \in Map!Functions
        BY DEF Map!Functions
    <2>2. LeafAt(mode, hspt, page, Pp(X)) \in [Cells -> Pte]
        <3>1. Pp(X) \in Nat
            BY DEF X, Pp, TEST_PPAGE_BASE
        <3> QED BY <1>1, <3>1, LeafTypes
    <2> QED BY <1>8, <2>1, <2>2, BecomesTypes DEF ToX
<1>9. ASSUME NEW page \in Pages, NEW base \in Bases, ToXBase(page, base) PROVE Types'
    <2>1. "pbmt_hspt_to_x_base_paddr" \in Map!Functions
        BY DEF Map!Functions
    <2>2. LeafAt(mode, hspt, page, base + X) \in [Cells -> Pte]
        BY <1>1, <1>2, LeafTypes
    <2> QED BY <1>9, <2>1, <2>2, BecomesTypes DEF ToXBase
<1>10. ASSUME NEW page \in Pages, NEW base \in Bases, ChangeBase(page, base) PROVE Types'
    <2>1. "hspt_leaf_change_base_paddr" \in Map!Functions
        BY DEF Map!Functions
    <2>2. Only48(mode, hspt, LeafAt("sv48", hspt, page, base + page)) \in [Cells -> Pte]
        BY <1>1, <1>2, LeafTypes
    <2> QED BY <1>10, <2>1, <2>2, BecomesTypes DEF ChangeBase
<1>11. ASSUME Switch PROVE Types'
    <2>1. "hspt_switch" \in Map!Functions
        BY DEF Map!Functions
    <2>2. Switched(mode, hspt) \in [Cells -> Pte]
        <3>1. {SWITCH1, SWITCH2} \subseteq Pages
            BY <1>11 DEF Switch
        <3>2. SWITCH1 \in Pages /\ Pp(X) \in Nat
            BY <3>1 DEF X, Pp, TEST_PPAGE_BASE
        <3> QED BY <1>1, <3>1, <3>2, LeafTypes
    <2> QED BY <1>11, <2>1, <2>2, BecomesTypes DEF Switch
<1>12. ASSUME NewRoot PROVE Types'
    <2>1. \A e \in Megapages : Superpage(e[2] * SUPERPAGE_SIZE(1)) \in Pte
        <3>1. \A e \in Megapages : e[2] * SUPERPAGE_SIZE(1) \in Nat
            BY DEF Megapages, SUPERPAGE_SIZE
        <3> QED BY <3>1, EntryTypes
    <2>2. hspt' \in [Cells -> Pte]
        BY <1>1, <1>12, <2>1 DEF NewRoot
    <2>3. satp' = [mode |-> mode, root |-> IF mode = "sv48" THEN 1 ELSE 3]
        BY <1>12 DEF NewRoot
    <2> QED BY <1>1, <1>12, <2>2, <2>3 DEF NewRoot, Types
<1>13. ASSUME SatpOff PROVE Types'
    BY <1>13 DEF SatpOff, Types, Bare
<1>14. ASSUME UNCHANGED vars PROVE Types'
    BY <1>14 DEF vars, Types
<1> QED BY <1>3, <1>4, <1>5, <1>6, <1>7, <1>8, <1>9, <1>10, <1>11, <1>12, <1>13, <1>14 DEF Next

LEMMA InitTypes == Init => Inv /\ Types
<1>1. Init => Inv
    BY DEF Init, Inv, Live, Bare, Modes
<1>2. Init => Types
    BY EntryTypes, MaxCallsAssumption DEF Init, Types, Bare
<1> QED BY <1>1, <1>2

(* Every variable keeps its type: an entry holds flags and a frame that a  *)
(* walk can follow, whatever the functions have done to it.                *)
THEOREM DynamicTypes == Spec => []TypeOK
<1>1. Inv /\ Types => TypeOK
    BY DEF Inv, Types, TypeOK, Storing, Pte
<1> QED BY <1>1, InitTypes, InvStep, TypesStep, PTL DEF Spec

-----------------------------------------------------------------------------
(* In sv48 the functions are those of the static tables.                   *)

LEMMA SharedUpdates ==
    ASSUME NEW pt, DOMAIN pt = Cells, NEW E, NEW flags
    PROVE  /\ Shared(Add(pt, E, flags)) = With(Shared(pt), E, flags)
           /\ Shared(Del(pt, E, flags)) = Without(Shared(pt), E, flags)
           /\ Shared(Overflow(pt, E)) = Overflown(Shared(pt), E)
<1>1. Entries \subseteq Cells
    BY DEF Cells
<1> QED BY <1>1 DEF Shared, Add, Del, Overflow, With, Without, Overflown

LEMMA SharedWrite ==
    ASSUME NEW pt, DOMAIN pt = Cells, NEW e \in Entries, NEW v,
           NEW new, new = [pt EXCEPT ![e] = v], NEW old, old = [Shared(pt) EXCEPT ![e] = v]
    PROVE  Shared(new) = old
<1>1. Entries \subseteq Cells
    BY DEF Cells
<1> QED BY <1>1 DEF Shared

LEMMA Tables48 ==
    /\ Wide("sv48") = Gigapages \cup Megapages
    /\ LeavesOf("sv48") = Leaves
BY DEF Wide, LeavesOf, Leaf, Leaves

LEMMA RightsSame ==
    ASSUME NEW pt, DOMAIN pt = Cells, NEW f \in RightsSetters
    PROVE  Shared(Rights(f, "sv48", pt)) = Called(f, Shared(pt))
<1> HIDE DEF Shared
<1>1. CASE f = "hspt_u_mode_allow"
    BY <1>1, SharedUpdates, Tables48 DEF Rights, Called, hspt_u_mode_allow
<1>2. CASE f = "hspt_u_mode_allow_no_leaf"
    BY <1>2, SharedUpdates, Tables48 DEF Rights, Only48, Called, hspt_u_mode_allow_no_leaf
<1>3. CASE f = "hspt_del_D"
    BY <1>3, SharedUpdates, Tables48 DEF Rights, Called, hspt_del_D
<1>4. CASE f = "hspt_del_A"
    BY <1>4, SharedUpdates, Tables48 DEF Rights, Called, hspt_del_A
<1>5. CASE f = "hspt_del_R"
    BY <1>5, SharedUpdates, Tables48 DEF Rights, Called, hspt_del_R
<1>6. CASE f = "hspt_del_W"
    BY <1>6, SharedUpdates, Tables48 DEF Rights, Called, hspt_del_W
<1>7. CASE f = "hspt_del_X"
    BY <1>7, SharedUpdates, Tables48 DEF Rights, Called, hspt_del_X
<1>8. CASE f = "hspt_del_V"
    BY <1>8, SharedUpdates, Tables48 DEF Rights, Called, hspt_del_V
<1>9. CASE f = "hspt_add_X"
    BY <1>9, SharedUpdates, Tables48 DEF Rights, Called, hspt_add_X
<1>10. CASE f = "hspt_add_G"
    BY <1>10, SharedUpdates, Tables48 DEF Rights, Called, hspt_add_G
<1>11. CASE f = "hspt_add_reserved_bits"
    BY <1>11, SharedUpdates, Tables48 DEF Rights, Only48, Called, hspt_add_reserved_bits
<1> QED BY <1>1, <1>2, <1>3, <1>4, <1>5, <1>6, <1>7, <1>8, <1>9, <1>10, <1>11 DEF RightsSetters

LEMMA SuperpagesSame ==
    ASSUME NEW pt, DOMAIN pt = Cells
    PROVE  \A f \in Setters \ ({"hspt_init", "hspt_ptw_ppn_high_bit_overflow_setup",
                             "hspt_llptw_ppn_high_bit_overflow_setup"} \cup RightsSetters) :
               Shared(Superpages(f, pt)) = Called(f, Shared(pt))
<1> DEFINE same(f) == Shared(Superpages(f, pt)) = Called(f, Shared(pt))
<1>0. <<3, 0>> \in Entries /\ <<1, 3>> \in Entries /\ HugePage \in Entries
    BY DEF Entries, Megapages, Gigapages
<1>1. same("hspt_2MB_superpage_misalign_setup")
    <2>1. Superpages("hspt_2MB_superpage_misalign_setup", pt) =
              [pt EXCEPT ![<<3, 0>>] = Superpage(4 * SUPERPAGE_SIZE(1) + \h100)]
        BY DEF Superpages
    <2>2. Called("hspt_2MB_superpage_misalign_setup", Shared(pt)) =
              [Shared(pt) EXCEPT ![<<3, 0>>] = Superpage(4 * SUPERPAGE_SIZE(1) + \h100)]
        BY DEF Called, hspt_2MB_superpage_misalign_setup
    <2> QED BY <1>0, <2>1, <2>2, SharedWrite
<1>2. same("hspt_2MB_superpage_align_boundary_setup")
    <2>1. Superpages("hspt_2MB_superpage_align_boundary_setup", pt) =
              [pt EXCEPT ![<<3, 0>>] = Superpage(4 * SUPERPAGE_SIZE(1) + \h200)]
        BY DEF Superpages
    <2>2. Called("hspt_2MB_superpage_align_boundary_setup", Shared(pt)) =
              [Shared(pt) EXCEPT ![<<3, 0>>] = Superpage(4 * SUPERPAGE_SIZE(1) + \h200)]
        BY DEF Called, hspt_2MB_superpage_align_boundary_setup
    <2> QED BY <1>0, <2>1, <2>2, SharedWrite
<1>3. same("hspt_1GB_superpage_misalign_setup")
    <2>1. Superpages("hspt_1GB_superpage_misalign_setup", pt) =
              [pt EXCEPT ![<<1, 3>>] = Superpage(3 * SUPERPAGE_SIZE(1) + \h30000)]
        BY DEF Superpages
    <2>2. Called("hspt_1GB_superpage_misalign_setup", Shared(pt)) =
              [Shared(pt) EXCEPT ![<<1, 3>>] = Superpage(3 * SUPERPAGE_SIZE(1) + \h30000)]
        BY DEF Called, hspt_1GB_superpage_misalign_setup
    <2> QED BY <1>0, <2>1, <2>2, SharedWrite
<1>4. same("hspt_1GB_superpage_align_boundary_setup")
    <2>1. Superpages("hspt_1GB_superpage_align_boundary_setup", pt) =
              [pt EXCEPT ![<<1, 3>>] = Superpage(3 * SUPERPAGE_SIZE(1) + \h40000)]
        BY DEF Superpages
    <2>2. Called("hspt_1GB_superpage_align_boundary_setup", Shared(pt)) =
              [Shared(pt) EXCEPT ![<<1, 3>>] = Superpage(3 * SUPERPAGE_SIZE(1) + \h40000)]
        BY DEF Called, hspt_1GB_superpage_align_boundary_setup
    <2> QED BY <1>0, <2>1, <2>2, SharedWrite
<1>5. same("set_superpage_512G")
    <2>1. Superpages("set_superpage_512G", pt) =
              [pt EXCEPT ![HugePage] = Superpage(SUPERPAGE_SIZE(0))]
        BY DEF Superpages
    <2>2. Called("set_superpage_512G", Shared(pt)) =
              [Shared(pt) EXCEPT ![HugePage] = Superpage(SUPERPAGE_SIZE(0))]
        BY DEF Called, set_superpage_512G
    <2> QED BY <1>0, <2>1, <2>2, SharedWrite
<1>6. same("hspt_512GB_superpage_misalign_setup")
    <2>1. Superpages("hspt_512GB_superpage_misalign_setup", pt) =
              [pt EXCEPT ![HugePage] = Superpage(SUPERPAGE_SIZE(0) + \h4000000)]
        BY DEF Superpages
    <2>2. Called("hspt_512GB_superpage_misalign_setup", Shared(pt)) =
              [Shared(pt) EXCEPT ![HugePage] = Superpage(SUPERPAGE_SIZE(0) + \h4000000)]
        BY DEF Called, hspt_512GB_superpage_misalign_setup
    <2> QED BY <1>0, <2>1, <2>2, SharedWrite
<1>7. same("hspt_512GB_superpage_align_boundary_setup")
    <2>1. Superpages("hspt_512GB_superpage_align_boundary_setup", pt) =
              [pt EXCEPT ![HugePage] = Superpage(SUPERPAGE_SIZE(0) + \h8000000)]
        BY DEF Superpages
    <2>2. Called("hspt_512GB_superpage_align_boundary_setup", Shared(pt)) =
              [Shared(pt) EXCEPT ![HugePage] = Superpage(SUPERPAGE_SIZE(0) + \h8000000)]
        BY DEF Called, hspt_512GB_superpage_align_boundary_setup
    <2> QED BY <1>0, <2>1, <2>2, SharedWrite
<1> HIDE DEF same
<1>8. \A f \in Setters \ ({"hspt_init", "hspt_ptw_ppn_high_bit_overflow_setup",
                        "hspt_llptw_ppn_high_bit_overflow_setup"} \cup RightsSetters) : same(f)
    BY <1>1, <1>2, <1>3, <1>4, <1>5, <1>6, <1>7 DEF Setters, RightsSetters
<1> QED BY <1>8 DEF same

LEMMA FramesSame ==
    ASSUME NEW pt, DOMAIN pt = Cells, NEW f \in Setters \ {"hspt_init"}, f \notin RightsSetters
    PROVE  Shared(Frames(f, "sv48", pt)) = Called(f, Shared(pt))
<1>1. CASE f = "hspt_ptw_ppn_high_bit_overflow_setup"
    BY <1>1, SharedUpdates DEF Frames, Called, hspt_ptw_ppn_high_bit_overflow_setup
<1>2. CASE f = "hspt_llptw_ppn_high_bit_overflow_setup"
    BY <1>2, SharedUpdates, Tables48 DEF Frames, Called, hspt_llptw_ppn_high_bit_overflow_setup
<1>3. CASE f \notin {"hspt_ptw_ppn_high_bit_overflow_setup",
                    "hspt_llptw_ppn_high_bit_overflow_setup"}
    <2>1. Frames(f, "sv48", pt) = Superpages(f, pt)
        BY <1>3 DEF Frames, Only48
    <2> QED BY <1>3, <2>1, SuperpagesSame
<1> QED BY <1>1, <1>2, <1>3

(* A test in sv48 may be linked with either backend: on the entries that   *)
(* the static tables have, each function of the dynamic ones does just     *)
(* what page_tables.c does, whatever sv39 has left in the array.           *)
THEOREM AlwaysSameAsStatic == Spec => []SameAsStatic
<1>1. Inv => SameAsStatic
    <2>1. ASSUME DOMAIN hspt = Cells, NEW f \in Setters \ {"hspt_init"}
          PROVE  Shared(Changed(f, "sv48", hspt)) = Called(f, Shared(hspt))
        BY <2>1, RightsSame, FramesSame DEF Changed
    <2> QED BY <2>1 DEF Inv, SameAsStatic
<1> QED BY <1>1, InitTypes, InvStep, PTL DEF Spec

-----------------------------------------------------------------------------
(* The page map that the tables of a mode hold.                            *)
Third == 3 * SUPERPAGE_SIZE(1)
Lost == [flags |-> {"lost"}, frame |-> Nowhere]

HomeEntry(m) == IF m = "sv48" THEN <<1, 2>> ELSE <<0, 2>>
ThirdEntry(m) == IF m = "sv48" THEN <<1, 3>> ELSE <<0, 3>>
(* The pointer to the leaves, the only one that a function overwrites.     *)
Directory(m) == IF m = "sv48" THEN <<2, 0>> ELSE <<1, 0>>

(* The walks of mode m end where they should.                              *)
Reach(m, pt) ==
    /\ {"V", "R"} \subseteq pt[HomeEntry(m)].flags /\ pt[HomeEntry(m)].ppn = Home
    /\ {"V", "R"} \subseteq pt[ThirdEntry(m)].flags /\ pt[ThirdEntry(m)].ppn \in Nat
    /\ pt[Directory(m)] \in {Pointer(Leaf(m)), [flags |-> {"V"}, ppn |-> Nowhere]}
    /\ IF m = "sv48" THEN pt[<<0, 0>>] = Pointer(1) /\ pt[<<1, 4>>] = Pointer(2)
                     ELSE pt[<<0, 4>>] = Pointer(1)

ThirdFrame(m, pt) == IF pt[ThirdEntry(m)].ppn % SUPERPAGE_SIZE(1) = 0
                     THEN pt[ThirdEntry(m)].ppn ELSE Misaligned
LeafView(m, pt, i) ==
    IF pt[Directory(m)].ppn = Nowhere THEN Lost
    ELSE [flags |-> pt[<<Leaf(m), i>>].flags, frame |-> pt[<<Leaf(m), i>>].ppn]
View(m, pt) ==
    [a \in Map!Addresses |->
        IF a = Home THEN [flags |-> pt[HomeEntry(m)].flags, frame |-> Home]
        ELSE IF a = Third THEN [flags |-> pt[ThirdEntry(m)].flags, frame |-> ThirdFrame(m, pt)]
        ELSE LeafView(m, pt, a - Vp(0))]

LEMMA MapNames ==
    /\ Map!Home = Home /\ Map!Third = Third /\ Map!Lost = Lost /\ Map!Misaligned = Misaligned
    /\ Map!Undefined = <<>>
    /\ \A i : Map!Vp(i) = Vp(i) /\ Map!Pp(i) = Pp(i)
    /\ Map!SWITCH1 = SWITCH1 /\ Map!SWITCH2 = SWITCH2 /\ Map!X = X
    /\ Map!SUPERPAGE_SIZE(1) = SUPERPAGE_SIZE(1)
    /\ Map!Addresses = {Home, Third} \cup {Vp(i) : i \in Pages}
    /\ Map!TestAddresses = {Vp(i) : i \in Pages}
<1>1. /\ Map!Home = Home /\ Map!Third = Third /\ Map!SUPERPAGE_SIZE(1) = SUPERPAGE_SIZE(1)
    BY DEF Map!Home, Home, Map!Third, Third, Map!SUPERPAGE_SIZE, SUPERPAGE_SIZE
<1>2. \A i : Map!Vp(i) = Vp(i)
    BY DEF Map!Vp, Vp
<1>3. \A i : Map!Pp(i) = Pp(i)
    BY DEF Map!Pp, Pp, Map!TEST_PPAGE_BASE, TEST_PPAGE_BASE
<1>4. Map!SWITCH1 = SWITCH1 /\ Map!SWITCH2 = SWITCH2 /\ Map!X = X
    BY DEF Map!SWITCH1, SWITCH1, Map!SWITCH2, SWITCH2, Map!X, X
<1>5. Map!Lost = Lost /\ Map!Misaligned = Misaligned /\ Map!Undefined = <<>>
    BY DEF Map!Lost, Lost, Map!Misaligned, Misaligned, Map!Undefined, Map!Nowhere, Nowhere
<1>6. Map!TestAddresses = {Vp(i) : i \in Pages}
    BY <1>2 DEF Map!TestAddresses
<1>7. Map!Addresses = {Home, Third} \cup {Vp(i) : i \in Pages}
    BY <1>1, <1>6 DEF Map!Addresses
<1> QED BY <1>1, <1>2, <1>3, <1>4, <1>5, <1>6, <1>7

LEMMA MapPerm == \A i : Map!test_page_perm_table(i) = test_page_perm_table(i)
<1>1. \A i : Map!test_page_perm_table(i) \in SUBSET Flag
    BY DEF Map!test_page_perm_table, Flag
<1>2. \A i, x : x \in Map!test_page_perm_table(i) <=> x \in test_page_perm_table(i)
    BY SMT DEF Map!test_page_perm_table, test_page_perm_table
<1> QED BY <1>1, <1>2, PermFlags

LEMMA Sizes == SUPERPAGE_SIZE(0) = 134217728 /\ SUPERPAGE_SIZE(1) = 262144
BY DEF SUPERPAGE_SIZE

LEMMA HomeNumbers ==
    /\ Home \in Nat /\ Third \in Nat /\ Home # Third
    /\ Home \div SUPERPAGE_SIZE(0) = 0 /\ Third \div SUPERPAGE_SIZE(0) = 0
    /\ (Home \div SUPERPAGE_SIZE(1)) % 512 = 2 /\ (Third \div SUPERPAGE_SIZE(1)) % 512 = 3
    /\ Home % SUPERPAGE_SIZE(1) = 0 /\ Third % SUPERPAGE_SIZE(1) = 0
<1>1. Home = 524288 /\ Third = 786432
    BY Sizes DEF Home, Third
<1>2. /\ 524288 \div 134217728 = 0 /\ 786432 \div 134217728 = 0
      /\ (524288 \div 262144) % 512 = 2 /\ (786432 \div 262144) % 512 = 3
      /\ 524288 % 262144 = 0 /\ 786432 % 262144 = 0
    OBVIOUS
<1> QED BY <1>1, <1>2, Sizes

LEMMA PageNumbers ==
    ASSUME NEW i \in Pages
    PROVE  /\ i \in Nat /\ Vp(i) \in Nat /\ Vp(i) - Vp(0) = i
           /\ Vp(i) # Home /\ Vp(i) # Third
           /\ Vp(i) \div SUPERPAGE_SIZE(0) = 0 /\ (Vp(i) \div SUPERPAGE_SIZE(1)) % 512 = 4
           /\ (Vp(i) \div 512) % 512 = 0 /\ Vp(i) % 512 = i /\ Vp(i) % 1 = 0
<1>1. i \in 0 .. 511
    BY PagesAssumption
<1>2. Home = 524288 /\ Third = 786432
    BY Sizes DEF Home, Third
<1>3. /\ Vp(i) \in Nat /\ Vp(i) - Vp(0) = i /\ Vp(i) # 524288 /\ Vp(i) # 786432
      /\ Vp(i) \div 134217728 = 0 /\ (Vp(i) \div 262144) % 512 = 4
      /\ (Vp(i) \div 512) % 512 = 0 /\ Vp(i) % 512 = i /\ Vp(i) % 1 = 0
    BY <1>1 DEF Vp
<1> QED BY <1>1, <1>2, <1>3, Sizes

LEMMA ViewAt ==
    ASSUME NEW m, NEW pt
    PROVE  /\ View(m, pt) = [a \in Map!Addresses |-> View(m, pt)[a]]
           /\ Home \in Map!Addresses /\ Third \in Map!Addresses
           /\ View(m, pt)[Home] = [flags |-> pt[HomeEntry(m)].flags, frame |-> Home]
           /\ View(m, pt)[Third] = [flags |-> pt[ThirdEntry(m)].flags,
                                    frame |-> ThirdFrame(m, pt)]
           /\ \A i \in Pages : /\ Vp(i) \in Map!Addresses
                               /\ View(m, pt)[Vp(i)] = LeafView(m, pt, i)
<1>1. /\ Home \in Map!Addresses /\ Third \in Map!Addresses /\ Home # Third
      /\ \A i \in Pages : Vp(i) \in Map!Addresses /\ Vp(i) # Home /\ Vp(i) # Third
                          /\ Vp(i) - Vp(0) = i
    BY MapNames, HomeNumbers, PageNumbers
<1> QED BY <1>1 DEF View

(* Two maps are the same if they agree on the program's page, the page in  *)
(* the identity map and the test pages.                                    *)
LEMMA SameMap ==
    ASSUME NEW f, NEW g, f = [a \in Map!Addresses |-> f[a]], g = [a \in Map!Addresses |-> g[a]],
           f[Home] = g[Home], f[Third] = g[Third], \A i \in Pages : f[Vp(i)] = g[Vp(i)]
    PROVE  f = g
<1>1. \A a \in Map!Addresses : f[a] = g[a]
    BY MapNames
<1> QED BY <1>1

LEMMA CellIs ==
    ASSUME NEW pt, NEW t \in Nat, NEW i, <<t, i>> \in Cells
    PROVE  Cell(pt, Table(t), i) = pt[<<t, i>>]
<1>1. Table(t) # Nowhere /\ Table(t) - Image = t
    BY ImageAssumption DEF Table, Nowhere
<1> QED BY <1>1 DEF Cell

LEMMA EntryCells ==
    ASSUME NEW m \in Modes
    PROVE  /\ HomeEntry(m) \in Cells /\ ThirdEntry(m) \in Cells /\ Directory(m) \in Cells
           /\ <<0, 0>> \in Cells /\ <<1, 4>> \in Cells /\ <<2, 0>> \in Cells
           /\ <<0, 4>> \in Cells /\ <<1, 0>> \in Cells
           /\ <<1, 2>> \in Cells /\ <<1, 3>> \in Cells /\ <<0, 2>> \in Cells /\ <<0, 3>> \in Cells
           /\ \A i \in Pages : <<Leaf(m), i>> \in Cells
BY KeyCells DEF HomeEntry, ThirdEntry, Directory, Cells, Entries, Gigapages, Pointers, Roots39,
   LeavesOf

LEMMA Ends ==
    ASSUME NEW pte, {"V", "R"} \subseteq pte.flags
    PROVE  ~IsPointer(pte)
BY DEF IsPointer

LEMMA Follows ==
    ASSUME NEW t
    PROVE  IsPointer(Pointer(t)) /\ Pointer(t).ppn = Table(t)
BY DEF IsPointer, Pointer

LEMMA WalkHome ==
    ASSUME NEW m \in Modes, NEW pt, Reach(m, pt)
    PROVE  Translation(m, 0, pt, Home) = [flags |-> pt[HomeEntry(m)].flags, frame |-> Home]
<1>1. ~IsPointer(pt[HomeEntry(m)]) /\ pt[HomeEntry(m)].ppn = Home
    BY Ends DEF Reach
<1>2. WalkFrom(m, 0, pt, Home) = [pte |-> pt[HomeEntry(m)], size |-> SUPERPAGE_SIZE(1)]
    <2>1. CASE m = "sv48"
        <3>1. Walk512G(pt, Table(0), Home) = Walk1G(pt, Table(1), Home)
            BY <2>1, HomeNumbers, EntryCells, CellIs, Follows DEF Walk512G, Reach
        <3>2. Walk1G(pt, Table(1), Home) = [pte |-> pt[<<1, 2>>], size |-> SUPERPAGE_SIZE(1)]
            BY <1>1, <2>1, HomeNumbers, EntryCells, CellIs DEF Walk1G, HomeEntry
        <3> QED BY <2>1, <3>1, <3>2 DEF WalkFrom, HomeEntry
    <2>2. CASE m = "sv39"
        <3>1. Walk1G(pt, Table(0), Home) = [pte |-> pt[<<0, 2>>], size |-> SUPERPAGE_SIZE(1)]
            BY <1>1, <2>2, HomeNumbers, EntryCells, CellIs DEF Walk1G, HomeEntry
        <3> QED BY <2>2, <3>1 DEF WalkFrom, HomeEntry
    <2> QED BY <2>1, <2>2 DEF Modes
<1>3. FrameOf([pte |-> pt[HomeEntry(m)], size |-> SUPERPAGE_SIZE(1)], Home) = Home
    BY <1>1, HomeNumbers DEF FrameOf, Nowhere
<1> QED BY <1>2, <1>3 DEF Translation, Leads
LEMMA WalkThird ==
    ASSUME NEW m \in Modes, NEW pt, Reach(m, pt)
    PROVE  Translation(m, 0, pt, Third) =
               [flags |-> pt[ThirdEntry(m)].flags, frame |-> ThirdFrame(m, pt)]
<1>1. ~IsPointer(pt[ThirdEntry(m)]) /\ pt[ThirdEntry(m)].ppn \in Nat
    BY Ends DEF Reach
<1>2. WalkFrom(m, 0, pt, Third) = [pte |-> pt[ThirdEntry(m)], size |-> SUPERPAGE_SIZE(1)]
    <2>1. CASE m = "sv48"
        <3>1. Walk512G(pt, Table(0), Third) = Walk1G(pt, Table(1), Third)
            BY <2>1, HomeNumbers, EntryCells, CellIs, Follows DEF Walk512G, Reach
        <3>2. Walk1G(pt, Table(1), Third) = [pte |-> pt[<<1, 3>>], size |-> SUPERPAGE_SIZE(1)]
            BY <1>1, <2>1, HomeNumbers, EntryCells, CellIs DEF Walk1G, ThirdEntry
        <3> QED BY <2>1, <3>1, <3>2 DEF WalkFrom, ThirdEntry
    <2>2. CASE m = "sv39"
        <3>1. Walk1G(pt, Table(0), Third) = [pte |-> pt[<<0, 3>>], size |-> SUPERPAGE_SIZE(1)]
            BY <1>1, <2>2, HomeNumbers, EntryCells, CellIs DEF Walk1G, ThirdEntry
        <3> QED BY <2>2, <3>1 DEF WalkFrom, ThirdEntry
    <2> QED BY <2>1, <2>2 DEF Modes
<1>3. FrameOf([pte |-> pt[ThirdEntry(m)], size |-> SUPERPAGE_SIZE(1)], Third) =
          ThirdFrame(m, pt)
    BY <1>1, HomeNumbers DEF FrameOf, Nowhere, ThirdFrame
<1> QED BY <1>2, <1>3 DEF Translation, Leads

LEMMA WalkLeaf ==
    ASSUME NEW m \in Modes, NEW pt, Reach(m, pt), NEW i \in Pages,
           pt[<<Leaf(m), i>>].ppn \in Nat \cup {Nowhere}
    PROVE  Translation(m, 0, pt, Vp(i)) = LeafView(m, pt, i)
<1> DEFINE dir == pt[Directory(m)]
           found == [pte |-> Cell(pt, dir.ppn, i), size |-> 1]
<1>1. IsPointer(dir)
    BY Follows DEF Reach, IsPointer
<1>2. WalkFrom(m, 0, pt, Vp(i)) = found
    <2>0. Walk4K(pt, dir.ppn, Vp(i)) = found
        BY PageNumbers DEF Walk4K
    <2>1. CASE m = "sv48"
        <3>1. Walk512G(pt, Table(0), Vp(i)) = Walk1G(pt, Table(1), Vp(i))
            BY <2>1, PageNumbers, EntryCells, CellIs, Follows DEF Walk512G, Reach
        <3>2. Walk1G(pt, Table(1), Vp(i)) = Walk2M(pt, Table(2), Vp(i))
            BY <2>1, PageNumbers, EntryCells, CellIs, Follows DEF Walk1G, Reach
        <3>3. Walk2M(pt, Table(2), Vp(i)) = Walk4K(pt, dir.ppn, Vp(i))
            <4>1. Cell(pt, Table(2), (Vp(i) \div 512) % 512) = dir
                BY <2>1, PageNumbers, EntryCells, CellIs DEF Directory
            <4> QED BY <1>1, <4>1 DEF Walk2M
        <3> QED BY <2>0, <2>1, <3>1, <3>2, <3>3 DEF WalkFrom
    <2>2. CASE m = "sv39"
        <3>1. Walk1G(pt, Table(0), Vp(i)) = Walk2M(pt, Table(1), Vp(i))
            BY <2>2, PageNumbers, EntryCells, CellIs, Follows DEF Walk1G, Reach
        <3>2. Walk2M(pt, Table(1), Vp(i)) = Walk4K(pt, dir.ppn, Vp(i))
            <4>1. Cell(pt, Table(1), (Vp(i) \div 512) % 512) = dir
                BY <2>2, PageNumbers, EntryCells, CellIs DEF Directory
            <4> QED BY <1>1, <4>1 DEF Walk2M
        <3> QED BY <2>0, <2>2, <3>1, <3>2 DEF WalkFrom
    <2> QED BY <2>1, <2>2 DEF Modes
<1>3. CASE dir.ppn = Nowhere
    BY <1>2, <1>3 DEF Cell, Translation, Leads, FrameOf, LeafView, Lost
<1>4. CASE dir.ppn # Nowhere
    <2>1. dir.ppn = Table(Leaf(m))
        BY <1>4, Follows DEF Reach
    <2>2. Cell(pt, dir.ppn, i) = pt[<<Leaf(m), i>>]
        <3>1. Leaf(m) \in Nat
            BY DEF Leaf
        <3> QED BY <2>1, <3>1, EntryCells, CellIs
    <2>3. FrameOf([pte |-> pt[<<Leaf(m), i>>], size |-> 1], Vp(i)) = pt[<<Leaf(m), i>>].ppn
        <3>1. \A n \in Nat : n % 1 = 0 /\ n + 0 = n
            OBVIOUS
        <3> QED BY <3>1, PageNumbers DEF FrameOf
    <2> QED BY <1>2, <1>4, <2>2, <2>3 DEF Translation, Leads, LeafView
<1> QED BY <1>3, <1>4

(* What a test sees is the view of the mode.                               *)
LEMMA Seen ==
    ASSUME NEW m \in Modes, NEW pt \in [Cells -> Pte], Reach(m, pt)
    PROVE  View(m, pt) = [a \in {Home, 3 * SUPERPAGE_SIZE(1)} \cup {Vp(i) : i \in Pages} |->
                             Translation(m, 0, pt, a)]
<1> DEFINE walks == [a \in {Home, 3 * SUPERPAGE_SIZE(1)} \cup {Vp(i) : i \in Pages} |->
                        Translation(m, 0, pt, a)]
<1>1. {Home, 3 * SUPERPAGE_SIZE(1)} \cup {Vp(i) : i \in Pages} = Map!Addresses
    BY MapNames DEF Third
<1>2. /\ walks = [a \in Map!Addresses |-> walks[a]]
      /\ \A a \in Map!Addresses : walks[a] = Translation(m, 0, pt, a)
    BY <1>1
<1>3. \A i \in Pages : pt[<<Leaf(m), i>>].ppn \in Nat \cup {Nowhere}
    BY EntryCells DEF Pte
<1> HIDE DEF walks
<1>4. View(m, pt)[Home] = walks[Home]
    <2>1. /\ View(m, pt)[Home] = [flags |-> pt[HomeEntry(m)].flags, frame |-> Home]
          /\ walks[Home] = Translation(m, 0, pt, Home)
        BY <1>2, ViewAt
    <2> QED BY <2>1, WalkHome
<1>5. View(m, pt)[Third] = walks[Third]
    <2>1. /\ View(m, pt)[Third] = [flags |-> pt[ThirdEntry(m)].flags, frame |-> ThirdFrame(m, pt)]
          /\ walks[Third] = Translation(m, 0, pt, Third)
        BY <1>2, ViewAt
    <2> QED BY <2>1, WalkThird
<1>6. \A i \in Pages : View(m, pt)[Vp(i)] = walks[Vp(i)]
    <2> SUFFICES ASSUME NEW i \in Pages PROVE View(m, pt)[Vp(i)] = walks[Vp(i)]
        OBVIOUS
    <2>1. View(m, pt)[Vp(i)] = LeafView(m, pt, i) /\ walks[Vp(i)] = Translation(m, 0, pt, Vp(i))
        BY <1>2, ViewAt
    <2> QED BY <1>3, <2>1, WalkLeaf
<1>7. View(m, pt) = walks
    <2>1. View(m, pt) = [a \in Map!Addresses |-> View(m, pt)[a]]
        BY ViewAt
    <2> QED BY <1>2, <1>4, <1>5, <1>6, <2>1, SameMap
<1> QED BY <1>7 DEF walks

-----------------------------------------------------------------------------
(* The end of hspt_init.                                                   *)

LEMMA FreshAt ==
    /\ Map!Fresh = [a \in Map!Addresses |-> Map!Fresh[a]]
    /\ \A a \in {Home, Third} :
           Map!Fresh[a] = [flags |-> {"V", "R", "W", "X", "A", "D"}, frame |-> a]
    /\ \A i \in Pages :
           Map!Fresh[Vp(i)] = [flags |-> {"A", "D"} \cup test_page_perm_table(i), frame |-> Pp(i)]
<1>1. \A i \in Pages : Vp(i) - Vp(0) = i /\ Vp(i) # Home /\ Vp(i) # Third
    BY PageNumbers
<1>2. Map!Fresh = [a \in Map!Addresses |-> Map!Fresh[a]]
    BY DEF Map!Fresh
<1>3. ASSUME NEW a \in {Home, Third}
      PROVE  Map!Fresh[a] = [flags |-> {"V", "R", "W", "X", "A", "D"}, frame |-> a]
    <2>1. a \in Map!Addresses /\ a \notin Map!TestAddresses
        BY <1>1, MapNames
    <2> QED BY <2>1 DEF Map!Fresh
<1>4. ASSUME NEW i \in Pages
      PROVE  Map!Fresh[Vp(i)] = [flags |-> {"A", "D"} \cup test_page_perm_table(i), frame |-> Pp(i)]
    <2>1. Vp(i) \in Map!Addresses /\ Vp(i) \in Map!TestAddresses
        BY MapNames
    <2>2. Map!Fresh[Vp(i)] = [flags |-> {"A", "D"} \cup Map!test_page_perm_table(Vp(i) - Map!Vp(0)),
                              frame |-> Map!Pp(Vp(i) - Map!Vp(0))]
        BY <2>1 DEF Map!Fresh
    <2>3. Vp(i) - Map!Vp(0) = i
        BY <1>1, MapNames
    <2> QED BY <2>2, <2>3, MapNames, MapPerm
<1> QED BY <1>2, <1>3, <1>4

Done(m, pt) == \A E \in Statements(m) : \A e \in E : pt[e] = Assigned(m, e)

LEMMA FreshTables ==
    ASSUME NEW m \in Modes, NEW pt, Done(m, pt)
    PROVE  Reach(m, pt) /\ View(m, pt) = Map!Fresh
<1>1. /\ pt[HomeEntry(m)] = Superpage(Home) /\ pt[ThirdEntry(m)] = Superpage(Third)
      /\ pt[Directory(m)] = Pointer(Leaf(m))
      /\ IF m = "sv48" THEN pt[<<0, 0>>] = Pointer(1) /\ pt[<<1, 4>>] = Pointer(2)
                       ELSE pt[<<0, 4>>] = Pointer(1)
    <2>1. CASE m = "sv48"
        <3>1. /\ \A e \in Gigapages : pt[e] = Assigned48(e)
              /\ \A e \in {<<0, 0>>, <<1, 4>>, <<2, 0>>} : pt[e] = Assigned48(e)
            BY <2>1 DEF Done, Statements, Assigned
        <3>2. <<1, 2>> \in Gigapages /\ <<1, 3>> \in Gigapages
            BY DEF Gigapages
        <3>3. /\ Assigned48(<<1, 2>>) = Superpage(2 * SUPERPAGE_SIZE(1))
              /\ Assigned48(<<1, 3>>) = Superpage(3 * SUPERPAGE_SIZE(1))
              /\ Assigned48(<<0, 0>>) = Pointer(1) /\ Assigned48(<<1, 4>>) = Pointer(2)
              /\ Assigned48(<<2, 0>>) = Pointer(4)
            <4> HIDE DEF Superpage, Pointer, SUPERPAGE_SIZE
            <4>1. /\ Assigned48(<<0, 0>>) = Pointer(1) /\ Assigned48(<<1, 4>>) = Pointer(2)
                  /\ Assigned48(<<2, 0>>) = Pointer(4)
                BY DEF Assigned48, Gigapages, Megapages
            <4>2. Assigned48(<<1, 2>>) = Superpage(2 * SUPERPAGE_SIZE(1))
                BY <3>2 DEF Assigned48, Megapages
            <4>3. Assigned48(<<1, 3>>) = Superpage(3 * SUPERPAGE_SIZE(1))
                BY <3>2 DEF Assigned48, Megapages
            <4> QED BY <4>1, <4>2, <4>3
        <3> QED BY <2>1, <3>1, <3>2, <3>3 DEF HomeEntry, ThirdEntry, Directory, Leaf, Home, Third
    <2>2. CASE m = "sv39"
        <3>1. /\ \A e \in Roots39 : pt[e] = Assigned39(e)
              /\ \A e \in {<<0, 4>>, <<1, 0>>} : pt[e] = Assigned39(e)
            BY <2>2 DEF Done, Statements, Assigned
        <3>2. /\ <<0, 2>> \in Roots39 /\ <<0, 3>> \in Roots39
              /\ <<0, 4>> \notin Roots39 /\ <<1, 0>> \notin Roots39
            BY DEF Roots39
        <3>3. /\ Assigned39(<<0, 2>>) = Superpage(2 * SUPERPAGE_SIZE(1))
              /\ Assigned39(<<0, 3>>) = Superpage(3 * SUPERPAGE_SIZE(1))
              /\ Assigned39(<<0, 4>>) = Pointer(1) /\ Assigned39(<<1, 0>>) = Pointer(2)
            <4> HIDE DEF Superpage, Pointer, SUPERPAGE_SIZE
            <4> QED BY <3>2 DEF Assigned39
        <3> QED BY <2>2, <3>1, <3>2, <3>3 DEF HomeEntry, ThirdEntry, Directory, Leaf, Home, Third
    <2> QED BY <2>1, <2>2 DEF Modes
<1>2. Reach(m, pt)
    BY <1>1, HomeNumbers DEF Reach, Superpage
<1>3. View(m, pt)[Home] = Map!Fresh[Home] /\ View(m, pt)[Third] = Map!Fresh[Third]
    <2>1. ThirdFrame(m, pt) = Third
        BY <1>1, HomeNumbers DEF ThirdFrame, Superpage
    <2>2. /\ View(m, pt)[Home] = [flags |-> pt[HomeEntry(m)].flags, frame |-> Home]
          /\ View(m, pt)[Third] = [flags |-> pt[ThirdEntry(m)].flags, frame |-> Third]
        BY <2>1, ViewAt
    <2> QED BY <1>1, <2>2, FreshAt DEF Superpage
<1>4. ASSUME NEW i \in Pages
      PROVE  View(m, pt)[Vp(i)] = Map!Fresh[Vp(i)]
    <2>1. pt[<<Leaf(m), i>>] = TestLeaf(i, Pp(i))
        <3>1. <<Leaf(m), i>> \in LeavesOf(m) /\ LeavesOf(m) \in Statements(m)
            BY DEF LeavesOf, Statements
        <3>2. Assigned(m, <<Leaf(m), i>>) = TestLeaf(i, Pp(i))
            <4> HIDE DEF TestLeaf, Superpage, Pointer, Pp
            <4>1. CASE m = "sv48"
                BY <4>1 DEF Assigned, Assigned48, Leaf, Gigapages, Megapages
            <4>2. CASE m = "sv39"
                BY <4>2 DEF Assigned, Assigned39, Leaf, Roots39
            <4> QED BY <4>1, <4>2 DEF Modes
        <3> QED BY <3>1, <3>2 DEF Done
    <2>2. pt[Directory(m)].ppn # Nowhere
        BY <1>1, ImageAssumption DEF Pointer, Table, Nowhere, Leaf
    <2>3. View(m, pt)[Vp(i)] = LeafView(m, pt, i)
        BY ViewAt
    <2>4. LeafView(m, pt, i) = [flags |-> {"A", "D"} \cup test_page_perm_table(i), frame |-> Pp(i)]
        BY <2>1, <2>2 DEF LeafView, TestLeaf
    <2> QED BY <2>3, <2>4, FreshAt
<1>5. View(m, pt) = [a \in Map!Addresses |-> View(m, pt)[a]]
    BY ViewAt
<1> QED BY <1>2, <1>3, <1>4, <1>5, FreshAt, SameMap

-----------------------------------------------------------------------------
(* What the updates of the tables do to the map.                           *)

(* The entries by which mode m reaches the leaves.                         *)
Path(m) == IF m = "sv48" THEN {<<0, 0>>, <<1, 4>>, <<2, 0>>} ELSE {<<0, 4>>, <<1, 0>>}

LEMMA PathEntries ==
    ASSUME NEW m \in Modes
    PROVE  /\ Path(m) \subseteq Cells /\ Directory(m) \in Path(m)
           /\ HomeEntry(m) \notin Path(m) /\ ThirdEntry(m) \notin Path(m)
           /\ HomeEntry(m) # ThirdEntry(m)
           /\ Path(m) \cap (Wide(m) \cup LeavesOf(m)) = {}
           /\ HomeEntry(m) \notin LeavesOf(m) /\ ThirdEntry(m) \notin LeavesOf(m)
           /\ HomeEntry(m) \in Wide(m) /\ ThirdEntry(m) \in Wide(m)
           /\ \A i \in Pages : <<Leaf(m), i>> \in LeavesOf(m) /\ <<Leaf(m), i>> \notin Wide(m)
           /\ \A i \in Pages : <<Leaf(m), i>> \notin Path(m)
<1>1. CASE m = "sv48"
    BY <1>1, EntryCells DEF Path, HomeEntry, ThirdEntry, Directory, Wide, LeavesOf, Leaf,
       Gigapages, Megapages
<1>2. CASE m = "sv39"
    BY <1>2, EntryCells DEF Path, HomeEntry, ThirdEntry, Directory, Wide, LeavesOf, Leaf, Roots39
<1> QED BY <1>1, <1>2 DEF Modes

LEMMA ReachKept ==
    ASSUME NEW m \in Modes, NEW pt, NEW new, Reach(m, pt),
           \A e \in Path(m) : new[e] = pt[e],
           {"V", "R"} \subseteq new[HomeEntry(m)].flags, new[HomeEntry(m)].ppn = Home,
           {"V", "R"} \subseteq new[ThirdEntry(m)].flags, new[ThirdEntry(m)].ppn \in Nat
    PROVE  Reach(m, new)
<1>1. new[Directory(m)] = pt[Directory(m)]
    BY PathEntries
<1>2. /\ m = "sv48" => new[<<0, 0>>] = pt[<<0, 0>>] /\ new[<<1, 4>>] = pt[<<1, 4>>]
      /\ m = "sv39" => new[<<0, 4>>] = pt[<<0, 4>>]
    BY DEF Path
<1> HIDE DEF Path
<1> QED BY <1>1, <1>2 DEF Reach, Modes

(* The map as its three kinds of addresses.                                *)
LEMMA Parts ==
    ASSUME NEW m, NEW pt, NEW v, v = [a \in Map!Addresses |-> v[a]],
           v[Home] = [flags |-> pt[HomeEntry(m)].flags, frame |-> Home],
           v[Third] = [flags |-> pt[ThirdEntry(m)].flags, frame |-> ThirdFrame(m, pt)],
           \A i \in Pages : v[Vp(i)] = LeafView(m, pt, i)
    PROVE  View(m, pt) = v
<1>1. /\ View(m, pt) = [a \in Map!Addresses |-> View(m, pt)[a]]
      /\ View(m, pt)[Home] = v[Home] /\ View(m, pt)[Third] = v[Third]
    BY ViewAt
<1>2. \A i \in Pages : View(m, pt)[Vp(i)] = v[Vp(i)]
    BY ViewAt
<1> QED BY <1>1, <1>2, SameMap

LEMMA NotLost ==
    ASSUME NEW m \in Modes, NEW pt \in [Cells -> Pte]
    PROVE  /\ View(m, pt)[Home] # Lost /\ View(m, pt)[Third] # Lost
           /\ \A i \in Pages : View(m, pt)[Vp(i)] = Lost <=> pt[Directory(m)].ppn = Nowhere
<1>1. \A e \in Cells : "lost" \notin pt[e].flags
    BY DEF Pte, Flag
<1>2. View(m, pt)[Home].flags = pt[HomeEntry(m)].flags
    <2>1. View(m, pt)[Home] = [flags |-> pt[HomeEntry(m)].flags, frame |-> Home]
        BY ViewAt
    <2> QED BY <2>1
<1>3. View(m, pt)[Third].flags = pt[ThirdEntry(m)].flags
    <2>1. View(m, pt)[Third] = [flags |-> pt[ThirdEntry(m)].flags, frame |-> ThirdFrame(m, pt)]
        BY ViewAt
    <2> QED BY <2>1
<1>4. ASSUME NEW i \in Pages
      PROVE  View(m, pt)[Vp(i)] = Lost <=> pt[Directory(m)].ppn = Nowhere
    <2>1. View(m, pt)[Vp(i)] = LeafView(m, pt, i)
        BY ViewAt
    <2>2. "lost" \notin pt[<<Leaf(m), i>>].flags
        BY <1>1, EntryCells
    <2>3. CASE pt[Directory(m)].ppn = Nowhere
        BY <2>1, <2>3 DEF LeafView
    <2>4. CASE pt[Directory(m)].ppn # Nowhere
        <3>1. View(m, pt)[Vp(i)].flags = pt[<<Leaf(m), i>>].flags
            BY <2>1, <2>4 DEF LeafView
        <3> QED BY <2>2, <2>4, <3>1 DEF Lost
    <2> QED BY <2>3, <2>4
<1>5. View(m, pt)[Home] # Lost
    <2>1. "lost" \notin pt[HomeEntry(m)].flags
        BY <1>1, EntryCells
    <2> QED BY <1>2, <2>1 DEF Lost
<1>6. View(m, pt)[Third] # Lost
    <2>1. "lost" \notin pt[ThirdEntry(m)].flags
        BY <1>1, EntryCells
    <2> QED BY <1>3, <2>1 DEF Lost
<1> QED BY <1>4, <1>5, <1>6

(* The updates of the map, entry by entry.                                 *)
LEMMA MapRecords ==
    ASSUME NEW m, NEW pt
    PROVE  \A a \in Map!Addresses :
               View(m, pt)[a] = [flags |-> View(m, pt)[a].flags, frame |-> View(m, pt)[a].frame]
BY DEF View, LeafView, Lost

LEMMA Edited ==
    ASSUME NEW r, r = [flags |-> r.flags, frame |-> r.frame], NEW x
    PROVE  /\ [r EXCEPT !.flags = @ \cup x] = [flags |-> r.flags \cup x, frame |-> r.frame]
           /\ [r EXCEPT !.flags = @ \ x] = [flags |-> r.flags \ x, frame |-> r.frame]
           /\ [r EXCEPT !.frame = x] = [flags |-> r.flags, frame |-> x]
OBVIOUS

LEMMA GrantLead ==
    ASSUME NEW v, \A a \in Map!Addresses : v[a] = [flags |-> v[a].flags, frame |-> v[a].frame],
           NEW A, NEW x
    PROVE  /\ Map!Grant(v, A, x) = [a \in Map!Addresses |->
                  IF a \in A /\ v[a] # Lost
                  THEN [flags |-> v[a].flags \cup x, frame |-> v[a].frame] ELSE v[a]]
           /\ Map!Lead(v, A, x) = [a \in Map!Addresses |->
                  IF a \in A /\ v[a] # Lost
                  THEN [flags |-> v[a].flags, frame |-> x] ELSE v[a]]
<1>1. ASSUME NEW a \in Map!Addresses
      PROVE  /\ [v[a] EXCEPT !.flags = @ \cup x] =
                    [flags |-> v[a].flags \cup x, frame |-> v[a].frame]
             /\ [v[a] EXCEPT !.frame = x] = [flags |-> v[a].flags, frame |-> x]
    <2> DEFINE r == v[a]
    <2>1. r = [flags |-> r.flags, frame |-> r.frame]
        OBVIOUS
    <2> HIDE DEF r
    <2>2. /\ [r EXCEPT !.flags = @ \cup x] = [flags |-> r.flags \cup x, frame |-> r.frame]
          /\ [r EXCEPT !.frame = x] = [flags |-> r.flags, frame |-> x]
        BY <2>1, Edited
    <2> QED BY <2>2 DEF r
<1> QED BY <1>1, MapNames DEF Map!Grant, Map!Lead

LEMMA RevokeIs ==
    ASSUME NEW v, \A a \in Map!Addresses : v[a] = [flags |-> v[a].flags, frame |-> v[a].frame],
           NEW x
    PROVE  Map!Revoke(v, x) = [a \in Map!Addresses |->
                  IF a \in Map!TestAddresses /\ v[a] # Lost
                  THEN [flags |-> v[a].flags \ x, frame |-> v[a].frame] ELSE v[a]]
<1>1. ASSUME NEW a \in Map!Addresses
      PROVE  [v[a] EXCEPT !.flags = @ \ x] = [flags |-> v[a].flags \ x, frame |-> v[a].frame]
    <2> DEFINE r == v[a]
    <2>1. r = [flags |-> r.flags, frame |-> r.frame]
        OBVIOUS
    <2> HIDE DEF r
    <2>2. [r EXCEPT !.flags = @ \ x] = [flags |-> r.flags \ x, frame |-> r.frame]
        BY <2>1, Edited
    <2> QED BY <2>2 DEF r
<1> QED BY <1>1, MapNames DEF Map!Revoke

(* Tables whose entries have, in each place, the flags F and the frame P.  *)
LEMMA SeenAs ==
    ASSUME NEW m \in Modes, NEW pt \in [Cells -> Pte], NEW new,
           new[Directory(m)] = pt[Directory(m)], NEW v, v = [a \in Map!Addresses |-> v[a]],
           ThirdFrame(m, new) = ThirdFrame(m, pt),
           v[Home] = [flags |-> new[HomeEntry(m)].flags, frame |-> View(m, pt)[Home].frame],
           v[Third] = [flags |-> new[ThirdEntry(m)].flags, frame |-> View(m, pt)[Third].frame],
           \A i \in Pages :
               v[Vp(i)] = IF View(m, pt)[Vp(i)] = Lost THEN View(m, pt)[Vp(i)]
                          ELSE [flags |-> new[<<Leaf(m), i>>].flags,
                                frame |-> new[<<Leaf(m), i>>].ppn]
    PROVE  View(m, new) = v
<1>1. View(m, pt)[Home].frame = Home
    <2>1. View(m, pt)[Home] = [flags |-> pt[HomeEntry(m)].flags, frame |-> Home]
        BY ViewAt
    <2> QED BY <2>1
<1>2. View(m, pt)[Third].frame = ThirdFrame(m, new)
    <2>1. View(m, pt)[Third] = [flags |-> pt[ThirdEntry(m)].flags, frame |-> ThirdFrame(m, pt)]
        BY ViewAt
    <2> QED BY <2>1
<1>3. ASSUME NEW i \in Pages PROVE v[Vp(i)] = LeafView(m, new, i)
    <2>1. View(m, pt)[Vp(i)] = Lost <=> pt[Directory(m)].ppn = Nowhere
        BY NotLost
    <2> QED BY <2>1 DEF LeafView
<1> QED BY <1>1, <1>2, <1>3, Parts

(* The same for the flags of view and entry before the change.             *)
LEMMA ViewParts ==
    ASSUME NEW m \in Modes, NEW pt \in [Cells -> Pte]
    PROVE  /\ View(m, pt)[Home].flags = pt[HomeEntry(m)].flags
           /\ View(m, pt)[Third].flags = pt[ThirdEntry(m)].flags
           /\ \A i \in Pages : View(m, pt)[Vp(i)] # Lost =>
                  /\ View(m, pt)[Vp(i)].flags = pt[<<Leaf(m), i>>].flags
                  /\ View(m, pt)[Vp(i)].frame = pt[<<Leaf(m), i>>].ppn
<1>1. View(m, pt)[Home].flags = pt[HomeEntry(m)].flags
    <2>1. View(m, pt)[Home] = [flags |-> pt[HomeEntry(m)].flags, frame |-> Home]
        BY ViewAt
    <2> QED BY <2>1
<1>2. View(m, pt)[Third].flags = pt[ThirdEntry(m)].flags
    <2>1. View(m, pt)[Third] = [flags |-> pt[ThirdEntry(m)].flags, frame |-> ThirdFrame(m, pt)]
        BY ViewAt
    <2> QED BY <2>1
<1>3. ASSUME NEW i \in Pages, View(m, pt)[Vp(i)] # Lost
      PROVE  /\ View(m, pt)[Vp(i)].flags = pt[<<Leaf(m), i>>].flags
             /\ View(m, pt)[Vp(i)].frame = pt[<<Leaf(m), i>>].ppn
    <2>1. View(m, pt)[Vp(i)] = LeafView(m, pt, i)
        BY ViewAt
    <2> QED BY <1>3, <2>1 DEF LeafView
<1> QED BY <1>1, <1>2, <1>3

LEMMA GrantSeen ==
    ASSUME NEW m \in Modes, NEW pt \in [Cells -> Pte], Reach(m, pt), NEW E, NEW A, NEW flags,
           Path(m) \cap E = {}, HomeEntry(m) \in E <=> Home \in A,
           ThirdEntry(m) \in E <=> Third \in A,
           \A i \in Pages : <<Leaf(m), i>> \in E <=> Vp(i) \in A
    PROVE  /\ Reach(m, Add(pt, E, flags))
           /\ View(m, Add(pt, E, flags)) = Map!Grant(View(m, pt), A, flags)
<1> DEFINE new == Add(pt, E, flags)
           old == View(m, pt)
           v == Map!Grant(old, A, flags)
<1>1. \A e \in Cells : /\ new[e].flags = IF e \in E THEN pt[e].flags \cup flags ELSE pt[e].flags
                       /\ new[e].ppn = pt[e].ppn
                       /\ e \notin E => new[e] = pt[e]
    <2>1. \A e \in Cells : new[e] = IF e \in E THEN [pt[e] EXCEPT !.flags = @ \cup flags] ELSE pt[e]
        BY DEF Add
    <2>2. \A e \in Cells : pt[e] = [flags |-> pt[e].flags, ppn |-> pt[e].ppn]
        BY DEF Pte
    <2> HIDE DEF new
    <2> QED BY <2>1, <2>2
<1>2. v = [a \in Map!Addresses |-> IF a \in A /\ old[a] # Lost
                                   THEN [flags |-> old[a].flags \cup flags, frame |-> old[a].frame]
                                   ELSE old[a]]
    BY MapRecords, GrantLead
<1>3. \A a \in Map!Addresses : old[a] = [flags |-> old[a].flags, frame |-> old[a].frame]
    BY MapRecords
<1> HIDE DEF new, v
<1>4. Reach(m, new)
    <2>1. \A e \in Path(m) : new[e] = pt[e]
        BY <1>1, PathEntries
    <2>2. /\ {"V", "R"} \subseteq new[HomeEntry(m)].flags /\ new[HomeEntry(m)].ppn = Home
          /\ {"V", "R"} \subseteq new[ThirdEntry(m)].flags /\ new[ThirdEntry(m)].ppn \in Nat
        BY <1>1, EntryCells DEF Reach
    <2> QED BY <2>1, <2>2, ReachKept
<1>5. /\ new[Directory(m)] = pt[Directory(m)]
      /\ ThirdFrame(m, new) = ThirdFrame(m, pt)
    BY <1>1, PathEntries, EntryCells DEF ThirdFrame
<1>6. /\ old[Home].flags = pt[HomeEntry(m)].flags /\ old[Home] # Lost
      /\ old[Third].flags = pt[ThirdEntry(m)].flags /\ old[Third] # Lost
    BY NotLost, ViewParts
<1>7. ASSUME NEW i \in Pages, old[Vp(i)] # Lost
      PROVE  /\ old[Vp(i)].flags = pt[<<Leaf(m), i>>].flags
             /\ old[Vp(i)].frame = pt[<<Leaf(m), i>>].ppn
    BY <1>7, ViewParts
<1> HIDE DEF old
<1>8. /\ v[Home] = [flags |-> new[HomeEntry(m)].flags, frame |-> old[Home].frame]
      /\ v[Third] = [flags |-> new[ThirdEntry(m)].flags, frame |-> old[Third].frame]
    <2>1. /\ HomeEntry(m) \in Cells /\ Home \in Map!Addresses
          /\ ThirdEntry(m) \in Cells /\ Third \in Map!Addresses
        BY EntryCells, MapNames
    <2>2. /\ v[Home] = IF Home \in A
                       THEN [flags |-> old[Home].flags \cup flags, frame |-> old[Home].frame]
                       ELSE [flags |-> old[Home].flags, frame |-> old[Home].frame]
          /\ v[Third] = IF Third \in A
                        THEN [flags |-> old[Third].flags \cup flags, frame |-> old[Third].frame]
                        ELSE [flags |-> old[Third].flags, frame |-> old[Third].frame]
        BY <1>2, <1>3, <1>6, <2>1
    <2> QED BY <1>1, <1>6, <2>1, <2>2
<1>9. ASSUME NEW i \in Pages
      PROVE  v[Vp(i)] = IF old[Vp(i)] = Lost THEN old[Vp(i)]
                        ELSE [flags |-> new[<<Leaf(m), i>>].flags,
                              frame |-> new[<<Leaf(m), i>>].ppn]
    <2>1. <<Leaf(m), i>> \in Cells /\ Vp(i) \in Map!Addresses
        BY EntryCells, MapNames
    <2>2. v[Vp(i)] = IF Vp(i) \in A /\ old[Vp(i)] # Lost
                     THEN [flags |-> old[Vp(i)].flags \cup flags, frame |-> old[Vp(i)].frame]
                     ELSE old[Vp(i)]
        BY <1>2, <2>1
    <2>3. old[Vp(i)] = [flags |-> old[Vp(i)].flags, frame |-> old[Vp(i)].frame]
        BY <1>3, <2>1
    <2>4. CASE old[Vp(i)] = Lost
        BY <2>2, <2>4
    <2>5. CASE old[Vp(i)] # Lost
        <3>1. /\ new[<<Leaf(m), i>>].flags = IF Vp(i) \in A THEN old[Vp(i)].flags \cup flags
                                             ELSE old[Vp(i)].flags
              /\ new[<<Leaf(m), i>>].ppn = old[Vp(i)].frame
            BY <1>1, <1>7, <2>1, <2>5
        <3> QED BY <2>2, <2>3, <2>5, <3>1
    <2> QED BY <2>4, <2>5
<1>10. v = [a \in Map!Addresses |-> v[a]]
    BY <1>2
<1>11. View(m, new) = v
    BY <1>5, <1>8, <1>9, <1>10, SeenAs DEF old
<1> QED BY <1>4, <1>11 DEF new, v, old
(* Functions that change leaves and nothing else.                          *)
LEMMA LeavesSeen ==
    ASSUME NEW m \in Modes, NEW pt \in [Cells -> Pte], Reach(m, pt), NEW new,
           \A e \in Cells \ LeavesOf(m) : new[e] = pt[e],
           NEW v, v = [a \in Map!Addresses |-> v[a]],
           v[Home] = View(m, pt)[Home], v[Third] = View(m, pt)[Third],
           \A i \in Pages :
               v[Vp(i)] = IF View(m, pt)[Vp(i)] = Lost THEN Lost
                          ELSE [flags |-> new[<<Leaf(m), i>>].flags,
                                frame |-> new[<<Leaf(m), i>>].ppn]
    PROVE  Reach(m, new) /\ View(m, new) = v
<1>1. /\ \A e \in Path(m) : new[e] = pt[e]
      /\ new[HomeEntry(m)] = pt[HomeEntry(m)] /\ new[ThirdEntry(m)] = pt[ThirdEntry(m)]
    BY PathEntries, EntryCells
<1>2. /\ {"V", "R"} \subseteq new[HomeEntry(m)].flags /\ new[HomeEntry(m)].ppn = Home
      /\ {"V", "R"} \subseteq new[ThirdEntry(m)].flags /\ new[ThirdEntry(m)].ppn \in Nat
    BY <1>1 DEF Reach
<1>3. Reach(m, new)
    BY <1>1, <1>2, ReachKept
<1>4. new[Directory(m)] = pt[Directory(m)] /\ ThirdFrame(m, new) = ThirdFrame(m, pt)
    BY <1>1, PathEntries DEF ThirdFrame
<1>5. v[Home] = [flags |-> new[HomeEntry(m)].flags, frame |-> Home]
    <2>1. View(m, pt)[Home] = [flags |-> pt[HomeEntry(m)].flags, frame |-> Home]
        BY ViewAt
    <2> QED BY <1>1, <2>1
<1>6. v[Third] = [flags |-> new[ThirdEntry(m)].flags, frame |-> ThirdFrame(m, new)]
    <2>1. View(m, pt)[Third] = [flags |-> pt[ThirdEntry(m)].flags, frame |-> ThirdFrame(m, pt)]
        BY ViewAt
    <2> QED BY <1>1, <1>4, <2>1
<1>7. ASSUME NEW i \in Pages PROVE v[Vp(i)] = LeafView(m, new, i)
    <2>1. View(m, pt)[Vp(i)] = Lost <=> pt[Directory(m)].ppn = Nowhere
        BY NotLost
    <2> QED BY <1>4, <2>1 DEF LeafView
<1>8. View(m, new) = v
    BY <1>5, <1>6, <1>7, Parts
<1> QED BY <1>3, <1>8

LEMMA TestPages ==
    /\ Home \notin Map!TestAddresses /\ Third \notin Map!TestAddresses
    /\ Home \in Map!Addresses /\ Third \in Map!Addresses
    /\ \A i \in Pages : Vp(i) \in Map!TestAddresses /\ Vp(i) \in Map!Addresses
    /\ \A i, j \in Pages : Vp(i) = Vp(j) => i = j
<1>1. \A i \in Pages : Vp(i) # Home /\ Vp(i) # Third
    BY PageNumbers
<1>2. \A i, j \in Pages : Vp(i) = Vp(j) => i = j
    BY PagesAssumption DEF Vp
<1> QED BY <1>1, <1>2, MapNames

LEMMA RevokeSeen ==
    ASSUME NEW m \in Modes, NEW pt \in [Cells -> Pte], Reach(m, pt), NEW flags
    PROVE  /\ Reach(m, Del(pt, LeavesOf(m), flags))
           /\ View(m, Del(pt, LeavesOf(m), flags)) = Map!Revoke(View(m, pt), flags)
<1> DEFINE new == Del(pt, LeavesOf(m), flags)
           old == View(m, pt)
           v == Map!Revoke(old, flags)
<1>1. /\ \A e \in Cells \ LeavesOf(m) : new[e] = pt[e]
      /\ \A e \in LeavesOf(m) : new[e] = [flags |-> pt[e].flags \ flags, ppn |-> pt[e].ppn]
    <2>1. \A e \in Cells : new[e] = IF e \in LeavesOf(m)
                                    THEN [pt[e] EXCEPT !.flags = @ \ flags] ELSE pt[e]
        BY DEF Del
    <2>2. \A e \in Cells : pt[e] = [flags |-> pt[e].flags, ppn |-> pt[e].ppn]
        BY DEF Pte
    <2> HIDE DEF new
    <2> QED BY <2>1, <2>2, KeyCells
<1>2. v = [a \in Map!Addresses |-> IF a \in Map!TestAddresses /\ old[a] # Lost
                                   THEN [flags |-> old[a].flags \ flags, frame |-> old[a].frame]
                                   ELSE old[a]]
    BY MapRecords, RevokeIs
<1> HIDE DEF new, v
<1>3. v[Home] = old[Home] /\ v[Third] = old[Third] /\ v = [a \in Map!Addresses |-> v[a]]
    BY <1>2, TestPages
<1>4. ASSUME NEW i \in Pages
      PROVE  v[Vp(i)] = IF old[Vp(i)] = Lost THEN Lost
                        ELSE [flags |-> new[<<Leaf(m), i>>].flags,
                              frame |-> new[<<Leaf(m), i>>].ppn]
    <2>1. v[Vp(i)] = IF old[Vp(i)] = Lost THEN Lost
                     ELSE [flags |-> old[Vp(i)].flags \ flags, frame |-> old[Vp(i)].frame]
        BY <1>2, TestPages
    <2>2. old[Vp(i)] # Lost => /\ old[Vp(i)].flags = pt[<<Leaf(m), i>>].flags
                               /\ old[Vp(i)].frame = pt[<<Leaf(m), i>>].ppn
        BY ViewParts
    <2>3. new[<<Leaf(m), i>>] = [flags |-> pt[<<Leaf(m), i>>].flags \ flags,
                                 ppn |-> pt[<<Leaf(m), i>>].ppn]
        BY <1>1, PathEntries
    <2> HIDE DEF old
    <2>4. CASE old[Vp(i)] = Lost
        BY <2>1, <2>4
    <2>5. CASE old[Vp(i)] # Lost
        <3>1. v[Vp(i)] = [flags |-> pt[<<Leaf(m), i>>].flags \ flags,
                          frame |-> pt[<<Leaf(m), i>>].ppn]
            BY <2>1, <2>2, <2>5
        <3>2. /\ new[<<Leaf(m), i>>].flags = pt[<<Leaf(m), i>>].flags \ flags
              /\ new[<<Leaf(m), i>>].ppn = pt[<<Leaf(m), i>>].ppn
            BY <2>3
        <3> QED BY <2>5, <3>1, <3>2
    <2> QED BY <2>4, <2>5
<1>5. Reach(m, new) /\ View(m, new) = v
    BY <1>1, <1>3, <1>4, LeavesSeen
<1> QED BY <1>5 DEF new, v

LEMMA LeadSeen ==
    ASSUME NEW m \in Modes, NEW pt \in [Cells -> Pte], Reach(m, pt)
    PROVE  /\ Reach(m, Overflow(pt, LeavesOf(m)))
           /\ View(m, Overflow(pt, LeavesOf(m))) =
                  Map!Lead(View(m, pt), Map!TestAddresses, Nowhere)
<1> DEFINE new == Overflow(pt, LeavesOf(m))
           old == View(m, pt)
           v == Map!Lead(old, Map!TestAddresses, Nowhere)
<1>1. /\ \A e \in Cells \ LeavesOf(m) : new[e] = pt[e]
      /\ \A e \in LeavesOf(m) : new[e] = [flags |-> pt[e].flags, ppn |-> Nowhere]
    <2>1. \A e \in Cells : new[e] = IF e \in LeavesOf(m)
                                    THEN [pt[e] EXCEPT !.ppn = Nowhere] ELSE pt[e]
        BY DEF Overflow
    <2>2. \A e \in Cells : pt[e] = [flags |-> pt[e].flags, ppn |-> pt[e].ppn]
        BY DEF Pte
    <2> HIDE DEF new
    <2> QED BY <2>1, <2>2, KeyCells
<1>2. v = [a \in Map!Addresses |-> IF a \in Map!TestAddresses /\ old[a] # Lost
                                   THEN [flags |-> old[a].flags, frame |-> Nowhere] ELSE old[a]]
    <2>1. \A a \in Map!Addresses : old[a] = [flags |-> old[a].flags, frame |-> old[a].frame]
        BY MapRecords
    <2> HIDE DEF old
    <2> QED BY <2>1, GrantLead
<1> HIDE DEF new, v
<1>3. v[Home] = old[Home] /\ v[Third] = old[Third] /\ v = [a \in Map!Addresses |-> v[a]]
    BY <1>2, TestPages
<1>4. ASSUME NEW i \in Pages
      PROVE  v[Vp(i)] = IF old[Vp(i)] = Lost THEN Lost
                        ELSE [flags |-> new[<<Leaf(m), i>>].flags,
                              frame |-> new[<<Leaf(m), i>>].ppn]
    <2>1. v[Vp(i)] = IF old[Vp(i)] = Lost THEN Lost
                     ELSE [flags |-> old[Vp(i)].flags, frame |-> Nowhere]
        BY <1>2, TestPages
    <2>2. old[Vp(i)] # Lost => old[Vp(i)].flags = pt[<<Leaf(m), i>>].flags
        BY ViewParts
    <2>3. new[<<Leaf(m), i>>] = [flags |-> pt[<<Leaf(m), i>>].flags, ppn |-> Nowhere]
        BY <1>1, PathEntries
    <2> HIDE DEF old
    <2>4. CASE old[Vp(i)] = Lost
        BY <2>1, <2>4
    <2>5. CASE old[Vp(i)] # Lost
        BY <2>1, <2>2, <2>3, <2>5
    <2> QED BY <2>4, <2>5
<1>5. Reach(m, new) /\ View(m, new) = v
    BY <1>1, <1>3, <1>4, LeavesSeen
<1> QED BY <1>5 DEF new, v

LEMMA LoseSeen ==
    ASSUME NEW m \in Modes, NEW pt \in [Cells -> Pte], Reach(m, pt)
    PROVE  /\ Reach(m, Overflow(pt, {Directory(m)}))
           /\ View(m, Overflow(pt, {Directory(m)})) =
                  [a \in Map!Addresses |-> IF a \in Map!TestAddresses THEN Lost
                                           ELSE View(m, pt)[a]]
<1> DEFINE new == Overflow(pt, {Directory(m)})
           v == [a \in Map!Addresses |-> IF a \in Map!TestAddresses THEN Lost
                                         ELSE View(m, pt)[a]]
<1>1. /\ \A e \in Cells \ {Directory(m)} : new[e] = pt[e]
      /\ new[Directory(m)] = [flags |-> {"V"}, ppn |-> Nowhere]
    <2>1. \A e \in Cells : new[e] = IF e \in {Directory(m)}
                                    THEN [pt[e] EXCEPT !.ppn = Nowhere] ELSE pt[e]
        BY DEF Overflow
    <2>2. [pt[Directory(m)] EXCEPT !.ppn = Nowhere] = [flags |-> {"V"}, ppn |-> Nowhere]
        <3>1. pt[Directory(m)] = [flags |-> {"V"}, ppn |-> pt[Directory(m)].ppn]
            <4>1. \/ pt[Directory(m)] = Pointer(Leaf(m))
                  \/ pt[Directory(m)] = [flags |-> {"V"}, ppn |-> Nowhere]
                BY DEF Reach
            <4>2. CASE pt[Directory(m)] = Pointer(Leaf(m))
                BY <4>2 DEF Pointer
            <4>3. CASE pt[Directory(m)] = [flags |-> {"V"}, ppn |-> Nowhere]
                BY <4>3
            <4> QED BY <4>1, <4>2, <4>3
        <3> DEFINE r == pt[Directory(m)]
        <3>2. r = [flags |-> {"V"}, ppn |-> r.ppn]
            BY <3>1
        <3> HIDE DEF r
        <3>3. [r EXCEPT !.ppn = Nowhere] = [flags |-> {"V"}, ppn |-> Nowhere]
            BY <3>2
        <3> QED BY <3>3 DEF r
    <2> HIDE DEF new
    <2> QED BY <2>1, <2>2, EntryCells
<1>2. /\ v = [a \in Map!Addresses |-> v[a]]
      /\ v[Home] = View(m, pt)[Home] /\ v[Third] = View(m, pt)[Third]
      /\ \A i \in Pages : v[Vp(i)] = Lost
    BY TestPages
<1> HIDE DEF new, v
<1>3. /\ new[HomeEntry(m)] = pt[HomeEntry(m)] /\ new[ThirdEntry(m)] = pt[ThirdEntry(m)]
      /\ \A e \in Path(m) \ {Directory(m)} : new[e] = pt[e]
    BY <1>1, PathEntries, EntryCells
<1>4. Reach(m, new)
    <2>1. /\ m = "sv48" => new[<<0, 0>>] = pt[<<0, 0>>] /\ new[<<1, 4>>] = pt[<<1, 4>>]
          /\ m = "sv39" => new[<<0, 4>>] = pt[<<0, 4>>]
        BY <1>3 DEF Path, Directory
    <2> QED BY <1>1, <1>3, <2>1 DEF Reach, Modes
<1>5. v[Home] = [flags |-> new[HomeEntry(m)].flags, frame |-> Home]
    <2>1. View(m, pt)[Home] = [flags |-> pt[HomeEntry(m)].flags, frame |-> Home]
        BY ViewAt
    <2> QED BY <1>2, <1>3, <2>1
<1>6. v[Third] = [flags |-> new[ThirdEntry(m)].flags, frame |-> ThirdFrame(m, new)]
    <2>1. View(m, pt)[Third] = [flags |-> pt[ThirdEntry(m)].flags, frame |-> ThirdFrame(m, pt)]
        BY ViewAt
    <2>2. ThirdFrame(m, new) = ThirdFrame(m, pt)
        BY <1>3 DEF ThirdFrame
    <2> QED BY <1>2, <1>3, <2>1, <2>2
<1>7. \A i \in Pages : v[Vp(i)] = LeafView(m, new, i)
    BY <1>1, <1>2 DEF LeafView
<1>8. View(m, new) = v
    BY <1>2, <1>5, <1>6, <1>7, Parts
<1> QED BY <1>4, <1>8 DEF new, v

(* Entries that no address of the map uses.                                *)
LEMMA WriteUnseen ==
    ASSUME NEW m \in Modes, NEW pt \in [Cells -> Pte], Reach(m, pt), NEW E,
           NEW new, \A k \in Cells \ E : new[k] = pt[k],
           E \cap (Path(m) \cup LeavesOf(m) \cup {HomeEntry(m), ThirdEntry(m)}) = {}
    PROVE  Reach(m, new) /\ View(m, new) = View(m, pt)
<1>1. /\ \A k \in Path(m) : new[k] = pt[k]
      /\ new[HomeEntry(m)] = pt[HomeEntry(m)] /\ new[ThirdEntry(m)] = pt[ThirdEntry(m)]
      /\ \A i \in Pages : new[<<Leaf(m), i>>] = pt[<<Leaf(m), i>>]
    BY PathEntries, EntryCells
<1>2. Reach(m, new)
    <2>1. /\ {"V", "R"} \subseteq new[HomeEntry(m)].flags /\ new[HomeEntry(m)].ppn = Home
          /\ {"V", "R"} \subseteq new[ThirdEntry(m)].flags /\ new[ThirdEntry(m)].ppn \in Nat
        BY <1>1 DEF Reach
    <2> QED BY <1>1, <2>1, ReachKept
<1>3. new[Directory(m)] = pt[Directory(m)]
    BY <1>1, PathEntries
<1>4. /\ ThirdFrame(m, new) = ThirdFrame(m, pt)
      /\ \A i \in Pages : LeafView(m, new, i) = LeafView(m, pt, i)
    BY <1>1, <1>3 DEF ThirdFrame, LeafView
<1> DEFINE v == View(m, pt)
<1>5. /\ v = [a \in Map!Addresses |-> v[a]]
      /\ v[Home] = [flags |-> pt[HomeEntry(m)].flags, frame |-> Home]
      /\ v[Third] = [flags |-> pt[ThirdEntry(m)].flags, frame |-> ThirdFrame(m, pt)]
      /\ \A i \in Pages : v[Vp(i)] = LeafView(m, pt, i)
    BY ViewAt
<1> HIDE DEF v
<1>6. View(m, new) = v
    <2>1. v = [a \in Map!Addresses |-> v[a]]
        BY <1>5
    <2>2. v[Home] = [flags |-> new[HomeEntry(m)].flags, frame |-> Home]
        BY <1>1, <1>5
    <2>3. v[Third] = [flags |-> new[ThirdEntry(m)].flags, frame |-> ThirdFrame(m, new)]
        BY <1>1, <1>4, <1>5
    <2>4. \A i \in Pages : v[Vp(i)] = LeafView(m, new, i)
        BY <1>4, <1>5
    <2> QED BY <2>1, <2>2, <2>3, <2>4, Parts
<1> QED BY <1>2, <1>6 DEF v

LEMMA ThirdSeen ==
    ASSUME NEW pt \in [Cells -> Pte], Reach("sv48", pt), NEW frame \in Nat,
           NEW new, \A k \in Cells \ {<<1, 3>>} : new[k] = pt[k],
           new[<<1, 3>>] = Superpage(frame)
    PROVE  /\ Reach("sv48", new)
           /\ View("sv48", new) =
                  [View("sv48", pt) EXCEPT ![Third] =
                      [flags |-> {"V", "R", "W", "X", "A", "D"},
                       frame |-> IF frame % SUPERPAGE_SIZE(1) = 0 THEN frame ELSE Misaligned]]
<1> DEFINE m == "sv48"
           old == View(m, pt)
           leaf == [flags |-> {"V", "R", "W", "X", "A", "D"},
                    frame |-> IF frame % SUPERPAGE_SIZE(1) = 0 THEN frame ELSE Misaligned]
           v == [old EXCEPT ![Third] = leaf]
<1>0. ThirdEntry(m) = <<1, 3>> /\ m \in Modes
    BY DEF ThirdEntry, Modes
<1>1. /\ \A k \in Cells \ {ThirdEntry(m)} : new[k] = pt[k]
      /\ new[ThirdEntry(m)] = Superpage(frame)
    BY <1>0, EntryCells
<1>2. /\ \A k \in Path(m) : new[k] = pt[k] /\ new[HomeEntry(m)] = pt[HomeEntry(m)]
      /\ \A i \in Pages : new[<<Leaf(m), i>>] = pt[<<Leaf(m), i>>]
    BY <1>0, <1>1, PathEntries, EntryCells
<1>3. Reach(m, new)
    BY <1>0, <1>1, <1>2, ReachKept, EntryCells, PathEntries DEF Reach, Superpage
<1>4. /\ old = [a \in Map!Addresses |-> old[a]]
      /\ old[Home] = [flags |-> pt[HomeEntry(m)].flags, frame |-> Home]
      /\ \A i \in Pages : old[Vp(i)] = LeafView(m, pt, i)
    BY ViewAt
<1>5. new[Directory(m)] = pt[Directory(m)] /\ new[HomeEntry(m)] = pt[HomeEntry(m)]
    BY <1>0, <1>1, <1>2, PathEntries, EntryCells
<1>6. \A i \in Pages : LeafView(m, new, i) = LeafView(m, pt, i)
    BY <1>2, <1>5 DEF LeafView
<1>7. leaf = [flags |-> new[ThirdEntry(m)].flags, frame |-> ThirdFrame(m, new)]
    <2>1. /\ new[ThirdEntry(m)].ppn = frame
          /\ new[ThirdEntry(m)].flags = {"V", "R", "W", "X", "A", "D"}
        BY <1>1 DEF Superpage
    <2>2. ThirdFrame(m, new) = IF frame % SUPERPAGE_SIZE(1) = 0 THEN frame ELSE Misaligned
        BY <2>1 DEF ThirdFrame
    <2> QED BY <2>1, <2>2
<1> HIDE DEF old, leaf, m
<1>8. /\ v = [a \in Map!Addresses |-> v[a]] /\ v[Third] = leaf /\ v[Home] = old[Home]
      /\ \A i \in Pages : v[Vp(i)] = old[Vp(i)]
    <2>1. /\ Third \in Map!Addresses /\ Home # Third /\ Home \in Map!Addresses
          /\ \A i \in Pages : Vp(i) # Third /\ Vp(i) \in Map!Addresses
        BY HomeNumbers, PageNumbers, TestPages
    <2> QED BY <1>4, <2>1
<1> HIDE DEF v
<1>9. View(m, new) = v
    <2>1. v = [a \in Map!Addresses |-> v[a]]
        BY <1>8
    <2>2. v[Home] = [flags |-> new[HomeEntry(m)].flags, frame |-> Home]
        BY <1>4, <1>5, <1>8
    <2>3. v[Third] = [flags |-> new[ThirdEntry(m)].flags, frame |-> ThirdFrame(m, new)]
        BY <1>7, <1>8
    <2>4. \A i \in Pages : v[Vp(i)] = LeafView(m, new, i)
        BY <1>4, <1>6, <1>8
    <2> QED BY <2>1, <2>2, <2>3, <2>4, Parts
<1> QED BY <1>3, <1>9 DEF v, old, leaf, m

LEMMA ReplaceSeen ==
    ASSUME NEW m \in Modes, NEW pt \in [Cells -> Pte], Reach(m, pt), NEW page \in Pages, NEW frame
    PROVE  LET new == LeafAt(m, pt, page, frame)
           IN  /\ Reach(m, new)
               /\ View(m, new) =
                      Map!Replace(View(m, pt), Vp(page),
                                  [flags |-> Map!Fresh[Vp(page)].flags, frame |-> frame])
<1> DEFINE new == LeafAt(m, pt, page, frame)
           old == View(m, pt)
           leaf == [flags |-> Map!Fresh[Vp(page)].flags, frame |-> frame]
           v == Map!Replace(old, Vp(page), leaf)
<1>1. /\ \A e \in Cells \ {<<Leaf(m), page>>} : new[e] = pt[e]
      /\ new[<<Leaf(m), page>>] = TestLeaf(page, frame)
    BY EntryCells DEF LeafAt
<1>2. /\ leaf.flags = {"A", "D"} \cup test_page_perm_table(page) /\ leaf.frame = frame
      /\ leaf = [flags |-> leaf.flags, frame |-> leaf.frame]
    <2>1. Map!Fresh[Vp(page)] = [flags |-> {"A", "D"} \cup test_page_perm_table(page),
                                 frame |-> Pp(page)]
        BY FreshAt
    <2>2. Map!Fresh[Vp(page)].flags = {"A", "D"} \cup test_page_perm_table(page)
        BY <2>1
    <2> QED BY <2>2
<1>3. v = IF old[Vp(page)] = Lost THEN old ELSE [old EXCEPT ![Vp(page)] = leaf]
    <2> HIDE DEF old, leaf
    <2> QED BY MapNames DEF Map!Replace
<1>4. /\ old = [a \in Map!Addresses |-> old[a]]
      /\ \A i \in Pages : old[Vp(i)] = LeafView(m, pt, i)
    BY ViewAt
<1>5. \A i \in Pages : old[Vp(i)] = Lost <=> pt[Directory(m)].ppn = Nowhere
    BY NotLost
<1>6. /\ new[<<Leaf(m), page>>].flags = leaf.flags /\ new[<<Leaf(m), page>>].ppn = leaf.frame
    BY <1>1, <1>2 DEF TestLeaf
<1> HIDE DEF new, old, v, leaf
<1>7. \A e \in Cells \ LeavesOf(m) : new[e] = pt[e]
    BY <1>1, PathEntries
<1>8. v[Home] = old[Home] /\ v[Third] = old[Third] /\ v = [a \in Map!Addresses |-> v[a]]
    <2>1. Vp(page) # Home /\ Vp(page) # Third
        BY PageNumbers
    <2> QED BY <1>3, <1>4, <2>1, TestPages
<1>9. ASSUME NEW i \in Pages
      PROVE  v[Vp(i)] = IF old[Vp(i)] = Lost THEN Lost
                        ELSE [flags |-> new[<<Leaf(m), i>>].flags,
                              frame |-> new[<<Leaf(m), i>>].ppn]
    <2>1. CASE pt[Directory(m)].ppn = Nowhere
        BY <1>3, <1>5, <2>1
    <2>2. CASE pt[Directory(m)].ppn # Nowhere
        <3>1. v = [old EXCEPT ![Vp(page)] = leaf] /\ old[Vp(i)] # Lost
            BY <1>3, <1>5, <2>2
        <3>2. CASE i = page
            <4>1. v[Vp(i)] = leaf
                BY <1>4, <3>1, <3>2, TestPages
            <4> QED BY <1>2, <1>6, <3>1, <3>2, <4>1
        <3>3. CASE i # page
            <4>1. v[Vp(i)] = old[Vp(i)]
                BY <1>4, <3>1, <3>3, TestPages
            <4>2. new[<<Leaf(m), i>>] = pt[<<Leaf(m), i>>]
                BY <1>1, <3>3, EntryCells
            <4>3. old[Vp(i)] = [flags |-> pt[<<Leaf(m), i>>].flags,
                                frame |-> pt[<<Leaf(m), i>>].ppn]
                BY <1>4, <2>2 DEF LeafView
            <4> QED BY <3>1, <4>1, <4>2, <4>3
        <3> QED BY <3>2, <3>3
    <2> QED BY <2>1, <2>2
<1>10. Reach(m, new) /\ View(m, new) = v
    BY <1>7, <1>8, <1>9, LeavesSeen DEF old
<1> QED BY <1>10 DEF new, v, leaf, old

LEMMA SwapSeen ==
    ASSUME NEW m \in Modes, NEW pt \in [Cells -> Pte], Reach(m, pt), {SWITCH1, SWITCH2} \subseteq Pages
    PROVE  /\ Reach(m, Switched(m, pt))
           /\ View(m, Switched(m, pt)) = Map!Swap(View(m, pt))
<1> DEFINE new == Switched(m, pt)
           old == View(m, pt)
           v == Map!Swap(old)
<1>0. SWITCH1 \in Pages /\ SWITCH2 \in Pages /\ SWITCH1 # SWITCH2
    BY DEF SWITCH1, SWITCH2
<1>1. /\ \A e \in Cells \ {<<Leaf(m), SWITCH1>>, <<Leaf(m), SWITCH2>>} : new[e] = pt[e]
      /\ new[<<Leaf(m), SWITCH1>>] = pt[<<Leaf(m), SWITCH2>>]
      /\ new[<<Leaf(m), SWITCH2>>] = pt[<<Leaf(m), SWITCH1>>]
    BY <1>0, EntryCells DEF Switched
<1>2. v = [old EXCEPT ![Vp(SWITCH1)] = old[Vp(SWITCH2)], ![Vp(SWITCH2)] = old[Vp(SWITCH1)]]
    BY MapNames DEF Map!Swap
<1>3. /\ old = [a \in Map!Addresses |-> old[a]]
      /\ \A i \in Pages : old[Vp(i)] = LeafView(m, pt, i)
    BY ViewAt
<1>4. \A i \in Pages : old[Vp(i)] = Lost <=> pt[Directory(m)].ppn = Nowhere
    BY NotLost
<1> HIDE DEF new, old, v
<1>5. \A e \in Cells \ LeavesOf(m) : new[e] = pt[e]
    BY <1>0, <1>1, PathEntries
<1>6. v[Home] = old[Home] /\ v[Third] = old[Third] /\ v = [a \in Map!Addresses |-> v[a]]
    <2>1. /\ Vp(SWITCH1) # Home /\ Vp(SWITCH1) # Third
          /\ Vp(SWITCH2) # Home /\ Vp(SWITCH2) # Third
        BY <1>0, PageNumbers
    <2> QED BY <1>2, <1>3, <2>1, TestPages
<1>7. /\ v[Vp(SWITCH1)] = old[Vp(SWITCH2)] /\ v[Vp(SWITCH2)] = old[Vp(SWITCH1)]
      /\ \A i \in Pages \ {SWITCH1, SWITCH2} : v[Vp(i)] = old[Vp(i)]
    <2>1. Vp(SWITCH1) # Vp(SWITCH2)
        BY <1>0, TestPages
    <2>2. \A i \in Pages \ {SWITCH1, SWITCH2} : Vp(i) # Vp(SWITCH1) /\ Vp(i) # Vp(SWITCH2)
        BY <1>0, TestPages
    <2> HIDE DEF Vp
    <2> QED BY <1>0, <1>2, <1>3, <2>1, <2>2, TestPages
<1>8. ASSUME NEW i \in Pages
      PROVE  v[Vp(i)] = IF old[Vp(i)] = Lost THEN Lost
                        ELSE [flags |-> new[<<Leaf(m), i>>].flags,
                              frame |-> new[<<Leaf(m), i>>].ppn]
    <2>0. PICK j \in Pages : v[Vp(i)] = old[Vp(j)] /\ new[<<Leaf(m), i>>] = pt[<<Leaf(m), j>>]
        <3>1. CASE i = SWITCH1
            BY <1>0, <1>1, <1>7, <3>1
        <3>2. CASE i = SWITCH2
            BY <1>0, <1>1, <1>7, <3>2
        <3>3. CASE i \notin {SWITCH1, SWITCH2}
            <4>1. new[<<Leaf(m), i>>] = pt[<<Leaf(m), i>>]
                BY <1>1, <3>3, EntryCells
            <4>2. v[Vp(i)] = old[Vp(i)]
                BY <1>7, <3>3
            <4> QED BY <4>1, <4>2
        <3> QED BY <3>1, <3>2, <3>3
    <2>1. CASE pt[Directory(m)].ppn = Nowhere
        BY <1>4, <2>0, <2>1
    <2>2. CASE pt[Directory(m)].ppn # Nowhere
        <3>1. old[Vp(j)] = [flags |-> pt[<<Leaf(m), j>>].flags, frame |-> pt[<<Leaf(m), j>>].ppn]
            BY <1>3, <2>2 DEF LeafView
        <3>2. old[Vp(i)] # Lost
            BY <1>4, <2>2
        <3> QED BY <2>0, <3>1, <3>2
    <2> QED BY <2>1, <2>2
<1>9. Reach(m, new) /\ View(m, new) = v
    BY <1>5, <1>6, <1>8, LeavesSeen DEF old
<1> QED BY <1>9 DEF new, v, old

-----------------------------------------------------------------------------
(* The functions, in the tables and in the map.                            *)

LEMMA RightsSeen ==
    ASSUME NEW m \in Modes, NEW pt \in [Cells -> Pte], Reach(m, pt), NEW f \in RightsSetters
    PROVE  /\ Reach(m, Rights(f, m, pt))
           /\ View(m, Rights(f, m, pt)) \in Map!Rights(f, View(m, pt))
<1> DEFINE old == View(m, pt)
           leaves == LeavesOf(m)
<1>1. \A flags :
          /\ Reach(m, Add(pt, leaves, flags))
          /\ View(m, Add(pt, leaves, flags)) = Map!Grant(old, Map!TestAddresses, flags)
    <2>1. /\ Path(m) \cap leaves = {}
          /\ HomeEntry(m) \in leaves <=> Home \in Map!TestAddresses
          /\ ThirdEntry(m) \in leaves <=> Third \in Map!TestAddresses
          /\ \A i \in Pages : <<Leaf(m), i>> \in leaves <=> Vp(i) \in Map!TestAddresses
        BY PathEntries, TestPages
    <2> QED BY <2>1, GrantSeen
<1>2. \A flags :
          /\ Reach(m, Add(pt, Wide(m) \cup leaves, flags))
          /\ View(m, Add(pt, Wide(m) \cup leaves, flags)) = Map!Grant(old, Map!Addresses, flags)
    <2>1. /\ Path(m) \cap (Wide(m) \cup leaves) = {}
          /\ HomeEntry(m) \in Wide(m) \cup leaves <=> Home \in Map!Addresses
          /\ ThirdEntry(m) \in Wide(m) \cup leaves <=> Third \in Map!Addresses
          /\ \A i \in Pages : <<Leaf(m), i>> \in Wide(m) \cup leaves <=> Vp(i) \in Map!Addresses
        BY PathEntries, TestPages
    <2> QED BY <2>1, GrantSeen
<1>3. \A flags :
          /\ Reach(m, Add(pt, Wide(m), flags))
          /\ View(m, Add(pt, Wide(m), flags)) =
                 Map!Grant(old, Map!Addresses \ Map!TestAddresses, flags)
    <2>1. /\ Path(m) \cap Wide(m) = {}
          /\ HomeEntry(m) \in Wide(m) <=> Home \in Map!Addresses \ Map!TestAddresses
          /\ ThirdEntry(m) \in Wide(m) <=> Third \in Map!Addresses \ Map!TestAddresses
          /\ \A i \in Pages :
                 <<Leaf(m), i>> \in Wide(m) <=> Vp(i) \in Map!Addresses \ Map!TestAddresses
        BY PathEntries, TestPages
    <2> QED BY <2>1, GrantSeen
<1>4. \A flags : /\ Reach(m, Del(pt, leaves, flags))
                 /\ View(m, Del(pt, leaves, flags)) = Map!Revoke(old, flags)
    BY RevokeSeen
<1> HIDE DEF old, leaves
<1> DEFINE seen(new) == Reach(m, new) /\ View(m, new) \in Map!Rights(f, old)
<1>5. CASE f = "hspt_u_mode_allow"
    <2>1. Map!Rights(f, old) = {Map!Grant(old, Map!Addresses, {"U"})}
        BY <1>5 DEF Map!Rights
    <2>2. Rights(f, m, pt) = Add(pt, Wide(m) \cup leaves, {"U"})
        BY <1>5 DEF Rights, leaves
    <2> QED BY <1>2, <2>1, <2>2 DEF old
<1>6. CASE f = "hspt_u_mode_allow_no_leaf"
    <2>1. Map!Rights(f, old) = {old, Map!Grant(old, Map!Addresses \ Map!TestAddresses, {"U"})}
        BY <1>6 DEF Map!Rights
    <2>2. Rights(f, m, pt) = IF m = "sv48" THEN Add(pt, Wide(m), {"U"}) ELSE pt
        BY <1>6 DEF Rights, Only48
    <2>3. Rights(f, m, pt) \in {Add(pt, Wide(m), {"U"}), pt}
        BY <2>2
    <2> QED BY <1>3, <2>1, <2>3 DEF old
<1>7. CASE f = "hspt_add_reserved_bits"
    <2>1. Map!Rights(f, old) = {old, Map!Grant(old, Map!TestAddresses, {"N"})}
        BY <1>7 DEF Map!Rights
    <2>2. Rights(f, m, pt) = IF m = "sv48" THEN Add(pt, leaves, {"N"}) ELSE pt
        BY <1>7 DEF Rights, Only48, leaves
    <2>3. Rights(f, m, pt) \in {Add(pt, leaves, {"N"}), pt}
        BY <2>2
    <2> QED BY <1>1, <2>1, <2>3 DEF old
<1>8. ASSUME NEW x, Map!Rights(f, old) = {Map!Grant(old, Map!TestAddresses, {x})},
             Rights(f, m, pt) = Add(pt, leaves, {x})
      PROVE  seen(Rights(f, m, pt))
    BY <1>1, <1>8
<1>9. CASE f = "hspt_add_X"
    BY <1>8, <1>9 DEF Map!Rights, Rights, leaves, old
<1>10. CASE f = "hspt_add_G"
    BY <1>8, <1>10 DEF Map!Rights, Rights, leaves, old
<1>11. ASSUME NEW x, Map!Rights(f, old) = {Map!Revoke(old, {x})},
              Rights(f, m, pt) = Del(pt, leaves, {x})
       PROVE  seen(Rights(f, m, pt))
    BY <1>4, <1>11
<1>12. CASE f = "hspt_del_D"
    BY <1>11, <1>12 DEF Map!Rights, Rights, leaves, old
<1>13. CASE f = "hspt_del_A"
    BY <1>11, <1>13 DEF Map!Rights, Rights, leaves, old
<1>14. CASE f = "hspt_del_R"
    BY <1>11, <1>14 DEF Map!Rights, Rights, leaves, old
<1>15. CASE f = "hspt_del_W"
    BY <1>11, <1>15 DEF Map!Rights, Rights, leaves, old
<1>16. CASE f = "hspt_del_X"
    BY <1>11, <1>16 DEF Map!Rights, Rights, leaves, old
<1>17. CASE f = "hspt_del_V"
    BY <1>11, <1>17 DEF Map!Rights, Rights, leaves, old
<1> QED BY <1>5, <1>6, <1>7, <1>9, <1>10, <1>12, <1>13, <1>14, <1>15, <1>16, <1>17
        DEF RightsSetters, old

(* In sv48 the functions made for it write one entry each.                 *)
SuperpageSetters == {"hspt_2MB_superpage_misalign_setup", "hspt_2MB_superpage_align_boundary_setup",
                     "hspt_1GB_superpage_misalign_setup", "hspt_1GB_superpage_align_boundary_setup",
                     "set_superpage_512G", "hspt_512GB_superpage_misalign_setup",
                     "hspt_512GB_superpage_align_boundary_setup"}
GigaSetters == {"hspt_1GB_superpage_misalign_setup", "hspt_1GB_superpage_align_boundary_setup"}

LEMMA FrameSetters ==
    Setters \ ({"hspt_init"} \cup RightsSetters) =
        SuperpageSetters \cup {"hspt_ptw_ppn_high_bit_overflow_setup",
                               "hspt_llptw_ppn_high_bit_overflow_setup"}
BY DEF Setters, RightsSetters, SuperpageSetters

LEMMA GigaFrames ==
    /\ 3 * SUPERPAGE_SIZE(1) + \h30000 \in Nat
    /\ 4 * SUPERPAGE_SIZE(1) \in Nat
    /\ (3 * SUPERPAGE_SIZE(1) + \h30000) % SUPERPAGE_SIZE(1) # 0
    /\ 3 * SUPERPAGE_SIZE(1) + \h40000 = 4 * SUPERPAGE_SIZE(1)
    /\ (4 * SUPERPAGE_SIZE(1)) % SUPERPAGE_SIZE(1) = 0
<1>1. /\ 3 * 262144 + \h30000 = 983040 /\ 3 * 262144 + \h40000 = 1048576
      /\ 983040 % 262144 = 196608 /\ 4 * 262144 = 1048576 /\ 1048576 % 262144 = 0
    OBVIOUS
<1> QED BY <1>1, Sizes

LEMMA GigaSeen ==
    ASSUME NEW pt \in [Cells -> Pte], Reach("sv48", pt), NEW f \in GigaSetters
    PROVE  /\ Reach("sv48", Superpages(f, pt))
           /\ View("sv48", Superpages(f, pt)) \in Map!Frames(f, View("sv48", pt))
<1> DEFINE old == View("sv48", pt)
<1>1. Map!Fresh[Third].flags = {"V", "R", "W", "X", "A", "D"}
    <2>1. Map!Fresh[Third] = [flags |-> {"V", "R", "W", "X", "A", "D"}, frame |-> Third]
        BY FreshAt
    <2> QED BY <2>1
<1> DEFINE new == Superpages(f, pt)
<1>2. ASSUME NEW frame \in Nat, new = [pt EXCEPT ![<<1, 3>>] = Superpage(frame)],
             NEW there, there = IF frame % SUPERPAGE_SIZE(1) = 0 THEN frame ELSE Misaligned
      PROVE  /\ Reach("sv48", new)
             /\ View("sv48", new) = [old EXCEPT ![Third] = [flags |-> {"V", "R", "W", "X", "A", "D"},
                                                           frame |-> there]]
    <2> HIDE DEF new
    <2>1. /\ \A k \in Cells \ {<<1, 3>>} : new[k] = pt[k]
          /\ new[<<1, 3>>] = Superpage(frame)
        <3>1. <<1, 3>> \in Cells
            BY DEF Cells, Entries, Gigapages
        <3> HIDE DEF Superpage
        <3> QED BY <1>2, <3>1
    <2> QED BY <1>2, <2>1, ThirdSeen
<1> HIDE DEF old, new
<1>3. CASE f = "hspt_1GB_superpage_misalign_setup"
    <2> DEFINE frame == 3 * SUPERPAGE_SIZE(1) + \h30000
    <2>1. new = [pt EXCEPT ![<<1, 3>>] = Superpage(frame)]
        BY <1>3 DEF Superpages, new
    <2>2. frame \in Nat /\ Misaligned = IF frame % SUPERPAGE_SIZE(1) = 0 THEN frame ELSE Misaligned
        BY GigaFrames
    <2> HIDE DEF frame
    <2>3. /\ Reach("sv48", new)
          /\ View("sv48", new) = [old EXCEPT ![Third] = [flags |-> {"V", "R", "W", "X", "A", "D"},
                                                        frame |-> Misaligned]]
        BY <1>2, <2>1, <2>2
    <2>4. [old EXCEPT ![Map!Third] = [flags |-> Map!Fresh[Map!Third].flags,
                                      frame |-> Map!Misaligned]] \in Map!Frames(f, old)
        BY <1>3 DEF Map!Frames
    <2> QED BY <1>1, <2>3, <2>4, MapNames DEF old, new
<1>4. CASE f = "hspt_1GB_superpage_align_boundary_setup"
    <2> DEFINE frame == 4 * SUPERPAGE_SIZE(1)
    <2>1. new = [pt EXCEPT ![<<1, 3>>] = Superpage(frame)]
        <3> DEFINE sum == 3 * SUPERPAGE_SIZE(1) + \h40000
        <3>1. new = [pt EXCEPT ![<<1, 3>>] = Superpage(sum)]
            <4>1. Superpages("hspt_1GB_superpage_align_boundary_setup", pt) =
                      [pt EXCEPT ![<<1, 3>>] = Superpage(3 * SUPERPAGE_SIZE(1) + \h40000)]
                BY DEF Superpages
            <4> QED BY <1>4, <4>1 DEF new
        <3>2. sum = frame
            BY GigaFrames
        <3> HIDE DEF frame, sum
        <3> QED BY <3>1, <3>2
    <2>2. frame \in Nat /\ frame = IF frame % SUPERPAGE_SIZE(1) = 0 THEN frame ELSE Misaligned
        BY GigaFrames
    <2>3. [old EXCEPT ![Map!Third] = [flags |-> Map!Fresh[Map!Third].flags,
                                      frame |-> 4 * Map!SUPERPAGE_SIZE(1)]] \in Map!Frames(f, old)
        BY <1>4 DEF Map!Frames
    <2>4. frame = 4 * Map!SUPERPAGE_SIZE(1)
        BY MapNames
    <2> HIDE DEF frame
    <2>5. /\ Reach("sv48", new)
          /\ View("sv48", new) = [old EXCEPT ![Third] = [flags |-> {"V", "R", "W", "X", "A", "D"},
                                                        frame |-> frame]]
        BY <1>2, <2>1, <2>2
    <2> QED BY <1>1, <2>3, <2>4, <2>5, MapNames DEF old, new
<1> QED BY <1>3, <1>4 DEF GigaSetters, new, old

LEMMA OtherSuperpages ==
    ASSUME NEW pt \in [Cells -> Pte], Reach("sv48", pt), NEW f \in SuperpageSetters \ GigaSetters
    PROVE  Reach("sv48", Superpages(f, pt)) /\ View("sv48", Superpages(f, pt)) = View("sv48", pt)
<1>1. PICK e \in {<<3, 0>>, HugePage} : \E x : Superpages(f, pt) = [pt EXCEPT ![e] = x]
    <2>1. ASSUME NEW e \in {<<3, 0>>, HugePage}, NEW x, Superpages(f, pt) = [pt EXCEPT ![e] = x]
          PROVE  \E k \in {<<3, 0>>, HugePage} : \E y : Superpages(f, pt) = [pt EXCEPT ![k] = y]
        BY <2>1
    <2>2. CASE f = "hspt_2MB_superpage_misalign_setup"
        <3>1. Superpages("hspt_2MB_superpage_misalign_setup", pt) =
                  [pt EXCEPT ![<<3, 0>>] = Superpage(4 * SUPERPAGE_SIZE(1) + \h100)]
            BY DEF Superpages
        <3> QED BY <2>1, <2>2, <3>1
    <2>3. CASE f = "hspt_2MB_superpage_align_boundary_setup"
        <3>1. Superpages("hspt_2MB_superpage_align_boundary_setup", pt) =
                  [pt EXCEPT ![<<3, 0>>] = Superpage(4 * SUPERPAGE_SIZE(1) + \h200)]
            BY DEF Superpages
        <3> QED BY <2>1, <2>3, <3>1
    <2>4. CASE f = "set_superpage_512G"
        <3>1. Superpages("set_superpage_512G", pt) = [pt EXCEPT ![HugePage] = Superpage(SUPERPAGE_SIZE(0))]
            BY DEF Superpages
        <3> QED BY <2>1, <2>4, <3>1
    <2>5. CASE f = "hspt_512GB_superpage_misalign_setup"
        <3>1. Superpages("hspt_512GB_superpage_misalign_setup", pt) =
                  [pt EXCEPT ![HugePage] = Superpage(SUPERPAGE_SIZE(0) + \h4000000)]
            BY DEF Superpages
        <3> QED BY <2>1, <2>5, <3>1
    <2>6. CASE f = "hspt_512GB_superpage_align_boundary_setup"
        <3>1. Superpages("hspt_512GB_superpage_align_boundary_setup", pt) =
                  [pt EXCEPT ![HugePage] = Superpage(SUPERPAGE_SIZE(0) + \h8000000)]
            BY DEF Superpages
        <3> QED BY <2>1, <2>6, <3>1
    <2> QED BY <2>2, <2>3, <2>4, <2>5, <2>6 DEF SuperpageSetters, GigaSetters
<1> DEFINE new == Superpages(f, pt)
           E == {e}
<1>2. \A k \in Cells \ E : new[k] = pt[k]
    BY <1>1
<1>3. E \cap (Path("sv48") \cup LeavesOf("sv48") \cup {HomeEntry("sv48"), ThirdEntry("sv48")}) = {}
    BY DEF Path, LeavesOf, Leaf, HomeEntry, ThirdEntry, HugePage
<1>4. "sv48" \in Modes
    BY DEF Modes
<1> HIDE DEF new, E
<1>5. Reach("sv48", new) /\ View("sv48", new) = View("sv48", pt)
    BY <1>2, <1>3, <1>4, WriteUnseen
<1> QED BY <1>5 DEF new

LEMMA FramesSeen ==
    ASSUME NEW m \in Modes, NEW pt \in [Cells -> Pte], Reach(m, pt),
           NEW f \in Setters \ ({"hspt_init"} \cup RightsSetters)
    PROVE  /\ Reach(m, Frames(f, m, pt))
           /\ View(m, Frames(f, m, pt)) \in Map!Frames(f, View(m, pt))
<1> DEFINE old == View(m, pt)
<1>1. CASE f = "hspt_ptw_ppn_high_bit_overflow_setup"
    <2>1. Frames(f, m, pt) = Overflow(pt, {Directory(m)})
        BY <1>1 DEF Frames, Directory
    <2>2. Map!Frames(f, old) =
              {[a \in Map!Addresses |-> IF a \in Map!TestAddresses THEN Map!Lost ELSE old[a]]}
        <3> HIDE DEF old
        <3> QED BY <1>1 DEF Map!Frames
    <2> QED BY <2>1, <2>2, LoseSeen, MapNames
<1>2. CASE f = "hspt_llptw_ppn_high_bit_overflow_setup"
    <2>1. Frames(f, m, pt) = Overflow(pt, LeavesOf(m))
        BY <1>2 DEF Frames
    <2>2. Map!Frames(f, old) = {Map!Lead(old, Map!TestAddresses, Map!Nowhere)}
        <3> HIDE DEF old
        <3> QED BY <1>2 DEF Map!Frames
    <2>3. Map!Nowhere = Nowhere
        BY DEF Map!Nowhere, Nowhere
    <2> QED BY <2>1, <2>2, <2>3, LeadSeen
<1>3. CASE f \in SuperpageSetters
    <2>1. Frames(f, m, pt) = IF m = "sv48" THEN Superpages(f, pt) ELSE pt
        BY <1>3 DEF Frames, Only48, SuperpageSetters
    <2>2. View(m, pt) \in Map!Frames(f, View(m, pt))
        <3> HIDE DEF old
        <3>1. old \in Map!Frames(f, old)
            BY <1>3 DEF Map!Frames, SuperpageSetters
        <3> QED BY <3>1 DEF old
    <2>3. CASE m = "sv48" /\ f \in GigaSetters
        BY <2>1, <2>3, GigaSeen
    <2>4. CASE m = "sv48" /\ f \notin GigaSetters
        BY <1>3, <2>1, <2>2, <2>4, OtherSuperpages
    <2>5. CASE m # "sv48"
        BY <2>1, <2>2, <2>5
    <2> QED BY <2>3, <2>4, <2>5
<1> QED BY <1>1, <1>2, <1>3, FrameSetters

LEMMA ChangedSeen ==
    ASSUME NEW m \in Modes, NEW pt \in [Cells -> Pte], Reach(m, pt), NEW f \in Setters \ {"hspt_init"}
    PROVE  /\ Reach(m, Changed(f, m, pt))
           /\ View(m, Changed(f, m, pt)) \in
                  Map!Rights(f, View(m, pt)) \cup Map!Frames(f, View(m, pt))
<1>1. CASE f \in RightsSetters
    BY <1>1, RightsSeen DEF Changed
<1>2. CASE f \notin RightsSetters
    BY <1>2, FramesSeen DEF Changed
<1> QED BY <1>1, <1>2

-----------------------------------------------------------------------------
(* The steps of the program are steps of the map.                          *)

(* Once built, the tables of the mode lead where they should; inside       *)
(* hspt_init, what it has stored so far is what it assigns.                *)
PathInv ==
    /\ phase = "built" => Reach(mode, hspt)
    /\ phase = "stores" =>
           /\ last = "hspt_init"
           /\ \A E \in Statements(mode) \ todo : \A e \in E : hspt[e] = Assigned(mode, e)

MapNow == IF phase = "built" THEN View(mode, hspt) ELSE <<>>

LEMMA TheMap ==
    ASSUME Inv, Types, PathInv
    PROVE  (IF phase = "built"
            THEN [a \in {Home, 3 * SUPERPAGE_SIZE(1)} \cup {Vp(i) : i \in Pages} |->
                     Translation(mode, 0, hspt, a)]
            ELSE <<>>) = MapNow
<1>1. mode \in Modes /\ hspt \in [Cells -> Pte]
    BY DEF Inv, Types
<1>2. phase = "built" => Reach(mode, hspt)
    BY DEF PathInv
<1> QED BY <1>1, <1>2, Seen DEF MapNow

LEMMA TheNextMap ==
    ASSUME Inv', Types', PathInv'
    PROVE  (IF phase = "built"
            THEN [a \in {Home, 3 * SUPERPAGE_SIZE(1)} \cup {Vp(i) : i \in Pages} |->
                     Translation(mode, 0, hspt, a)]
            ELSE <<>>)' = MapNow'
<1>1. mode' \in Modes /\ hspt' \in [Cells -> Pte]
    BY DEF Inv, Types
<1>2. phase' = "built" => Reach(mode', hspt')
    BY DEF PathInv, Reach, HomeEntry, ThirdEntry, Directory, Leaf
<1>3. CASE phase' = "built"
    <2>1. View(mode', hspt') = [a \in {Home, 3 * SUPERPAGE_SIZE(1)} \cup {Vp(i) : i \in Pages} |->
                                   Translation(mode', 0, hspt', a)]
        BY <1>1, <1>2, <1>3, Seen
    <2>2. MapNow' = View(mode', hspt')
        BY <1>3 DEF MapNow, View, LeafView, ThirdFrame, HomeEntry, ThirdEntry, Directory, Leaf
    <2> QED BY <1>3, <2>1, <2>2
<1>4. CASE phase' # "built"
    BY <1>4 DEF MapNow
<1> QED BY <1>3, <1>4

LEMMA NotUndefined == \A m, pt : View(m, pt) # <<>>
<1> SUFFICES ASSUME NEW m, NEW pt, View(m, pt) = <<>> PROVE FALSE
    OBVIOUS
<1>1. DOMAIN View(m, pt) = Map!Addresses
    BY DEF View
<1>2. Home \in Map!Addresses /\ Home \in Nat /\ Home # 0
    BY MapNames, HomeNumbers, Sizes DEF Home
<1>3. DOMAIN <<>> = {}
    OBVIOUS
<1> QED BY <1>1, <1>2, <1>3

MapStep == [Map!Next]_<<IF phase = "built"
                        THEN [a \in {Home, 3 * SUPERPAGE_SIZE(1)} \cup {Vp(i) : i \in Pages} |->
                                 Translation(mode, 0, hspt, a)]
                        ELSE <<>>, last, calls>>

(* What a function may make of map v.                                      *)
Outcomes(f, v) == Map!Rights(f, v) \cup Map!Frames(f, v) \cup UNION {Map!Leaf(f, v, i) : i \in Pages}

LEMMA StutterMaps ==
    ASSUME Inv, Types, PathInv, Inv', Types', PathInv', MapNow' = MapNow, UNCHANGED <<last, calls>>
    PROVE  MapStep
BY TheMap, TheNextMap DEF MapStep

LEMMA CallMaps ==
    ASSUME Inv, Types, PathInv, Inv', Types', PathInv', NEW f \in Map!Functions, phase = "built",
           last' = f, calls' = calls + 1, phase' = "built",
           View(mode, hspt)' \in Outcomes(f, View(mode, hspt))
    PROVE  MapStep
<1>1. MapNow = View(mode, hspt) /\ MapNow' = View(mode, hspt)'
    BY DEF MapNow
<1>2. MapNow # <<>>
    BY <1>1, NotUndefined
<1>3. MapNow' \in Outcomes(f, MapNow)
    BY <1>1
<1> HIDE DEF MapNow
<1>4. Map!Call(f)
    BY <1>2, <1>3, TheMap, TheNextMap DEF Map!Call, Outcomes, Map!Undefined
<1> QED BY <1>4 DEF MapStep, Map!Next

LEMMA BecomesPaths ==
    ASSUME NEW f, NEW new, phase = "built", Becomes(f, new), Reach(mode, new)
    PROVE  PathInv' /\ View(mode, hspt)' = View(mode, new) /\ phase' = "built"
<1>1. hspt' = new /\ mode' = mode /\ phase' = "built"
    BY DEF Becomes
<1>2. PathInv'
    BY <1>1 DEF PathInv, Reach, HomeEntry, ThirdEntry, Directory, Leaf
<1>3. View(mode, hspt)' = View(mode, new)
    BY <1>1 DEF View, LeafView, ThirdFrame, HomeEntry, ThirdEntry, Directory, Leaf
<1> QED BY <1>1, <1>2, <1>3

LEMMA CallSteps ==
    ASSUME Inv, Types, PathInv, Inv', Types', NEW f \in Map!Functions, NEW new, phase = "built",
           Becomes(f, new), Reach(mode, new), View(mode, new) \in Outcomes(f, View(mode, hspt))
    PROVE  PathInv' /\ MapStep
<1>1. PathInv' /\ View(mode, hspt)' = View(mode, new) /\ phase' = "built"
    BY BecomesPaths
<1>2. last' = f /\ calls' = calls + 1
    BY DEF Becomes
<1> QED BY <1>1, <1>2, CallMaps

LEMMA LeafCalls ==
    ASSUME NEW m \in Modes, NEW pt \in [Cells -> Pte], Reach(m, pt), NEW page \in Pages
    PROVE  /\ LET new == LeafAt(m, pt, page, Pp(X))
              IN  Reach(m, new) /\ View(m, new) \in Outcomes("pbmt_hspt_to_x", View(m, pt))
           /\ \A base \in Bases :
                  LET new == LeafAt(m, pt, page, base + X)
                  IN  /\ Reach(m, new)
                      /\ View(m, new) \in Outcomes("pbmt_hspt_to_x_base_paddr", View(m, pt))
           /\ \A base \in Bases :
                  LET new == Only48(m, pt, LeafAt("sv48", pt, page, base + page))
                  IN  /\ Reach(m, new)
                      /\ View(m, new) \in Outcomes("hspt_leaf_change_base_paddr", View(m, pt))
<1> DEFINE v == View(m, pt)
           at(frame) == Map!Replace(v, Vp(page), [flags |-> Map!Fresh[Vp(page)].flags,
                                                  frame |-> frame])
<1>1. \A frame : /\ Reach(m, LeafAt(m, pt, page, frame))
                 /\ View(m, LeafAt(m, pt, page, frame)) = at(frame)
    BY ReplaceSeen
<1>2. \A F : Map!Targets(v, page, F) = {at(frame) : frame \in F}
    <2> HIDE DEF v
    <2> QED BY MapNames DEF Map!Targets
<1> HIDE DEF v, at
<1>3. Map!Leaf("pbmt_hspt_to_x", v, page) = {at(frame) : frame \in {Pp(X)}}
    BY <1>2, MapNames DEF Map!Leaf
<1>4. Map!Leaf("pbmt_hspt_to_x_base_paddr", v, page) =
          {at(frame) : frame \in {base + X : base \in Bases}}
    BY <1>2, MapNames DEF Map!Leaf
<1>5. Map!Leaf("hspt_leaf_change_base_paddr", v, page) =
          {v} \cup {at(frame) : frame \in {base + page : base \in Bases}}
    BY <1>2 DEF Map!Leaf
<1>6. \A f : Map!Leaf(f, v, page) \subseteq Outcomes(f, v)
    BY DEF Outcomes
<1>7. View(m, LeafAt(m, pt, page, Pp(X))) \in Outcomes("pbmt_hspt_to_x", v)
    BY <1>1, <1>3, <1>6
<1>8. ASSUME NEW base \in Bases
      PROVE  View(m, LeafAt(m, pt, page, base + X)) \in Outcomes("pbmt_hspt_to_x_base_paddr", v)
    BY <1>1, <1>4, <1>6
<1>9. ASSUME NEW base \in Bases
      PROVE  /\ Reach(m, Only48(m, pt, LeafAt("sv48", pt, page, base + page)))
             /\ View(m, Only48(m, pt, LeafAt("sv48", pt, page, base + page))) \in
                    Outcomes("hspt_leaf_change_base_paddr", v)
    <2>1. CASE m = "sv48"
        <3>1. Only48(m, pt, LeafAt("sv48", pt, page, base + page)) =
                  LeafAt(m, pt, page, base + page)
            BY <2>1 DEF Only48
        <3> QED BY <1>1, <1>5, <1>6, <3>1
    <2>2. CASE m # "sv48"
        <3>1. Only48(m, pt, LeafAt("sv48", pt, page, base + page)) = pt
            BY <2>2 DEF Only48
        <3> QED BY <1>5, <1>6, <3>1 DEF v
    <2> QED BY <2>1, <2>2
<1> QED BY <1>1, <1>7, <1>8, <1>9 DEF v

LEMMA SwitchCalls ==
    ASSUME NEW m \in Modes, NEW pt \in [Cells -> Pte], Reach(m, pt), {SWITCH1, SWITCH2} \subseteq Pages
    PROVE  /\ Reach(m, Switched(m, pt))
           /\ View(m, Switched(m, pt)) \in Outcomes("hspt_switch", View(m, pt))
<1> DEFINE v == View(m, pt)
<1>1. Reach(m, Switched(m, pt)) /\ View(m, Switched(m, pt)) = Map!Swap(v)
    BY SwapSeen
<1> HIDE DEF v
<1>2. \A i : Map!Leaf("hspt_switch", v, i) = {Map!Swap(v)}
    BY DEF Map!Leaf
<1>3. Map!Swap(v) \in Outcomes("hspt_switch", v)
    BY <1>2 DEF Outcomes
<1> QED BY <1>1, <1>3 DEF v

LEMMA StorePaths ==
    ASSUME Inv, PathInv, NEW E \in todo, Store(E)
    PROVE  PathInv' /\ MapNow' = MapNow /\ UNCHANGED <<last, calls>>
<1>1. /\ phase = "stores" /\ todo \subseteq Statements(mode) /\ last = "hspt_init"
      /\ \A G \in Statements(mode) \ todo : \A e \in G : hspt[e] = Assigned(mode, e)
      /\ mode \in Modes
    BY DEF Inv, Storing, PathInv
<1>2. /\ todo' = todo \ {E} /\ hspt' = Stored(mode, hspt, E)
      /\ UNCHANGED <<mode, phase, satp, last, calls>>
    BY DEF Store
<1>3. ASSUME NEW G \in Statements(mode) \ todo', NEW e \in G
      PROVE  hspt'[e] = Assigned(mode, e)
    <2>1. e \in Cells
        BY <1>1, <1>3, AssignedTypes
    <2>2. hspt'[e] = IF e \in E THEN Assigned(mode, e) ELSE hspt[e]
        BY <1>2, <2>1 DEF Stored
    <2>3. e \notin E => G \in Statements(mode) \ todo
        BY <1>2, <1>3
    <2> QED BY <1>1, <2>2, <2>3
<1>4. /\ Statements(mode)' = Statements(mode)
      /\ \A e : Assigned(mode, e)' = Assigned(mode, e)
    BY <1>2 DEF Statements, LeavesOf, Leaf, Assigned
<1>5. PathInv'
    BY <1>1, <1>2, <1>3, <1>4 DEF PathInv
<1>6. MapNow' = MapNow
    BY <1>1, <1>2 DEF MapNow
<1> QED BY <1>2, <1>5, <1>6

LEMMA RootPaths ==
    ASSUME Inv, Types, PathInv, NewRoot
    PROVE  PathInv' /\ MapNow' = MapNow /\ UNCHANGED <<last, calls>>
<1>1. /\ phase = "built" /\ UNCHANGED <<mode, phase, todo, last, calls>>
      /\ hspt' = [e \in Cells |-> IF mode = "sv39" /\ e \in Megapages
                                  THEN Superpage(e[2] * SUPERPAGE_SIZE(1)) ELSE hspt[e]]
      /\ mode \in Modes /\ hspt \in [Cells -> Pte] /\ Reach(mode, hspt)
    BY DEF NewRoot, Inv, Types, PathInv
<1> DEFINE E == IF mode = "sv39" THEN Megapages ELSE {}
<1>2. \A k \in Cells \ E : hspt'[k] = hspt[k]
    BY <1>1
<1>3. E \cap (Path(mode) \cup LeavesOf(mode) \cup {HomeEntry(mode), ThirdEntry(mode)}) = {}
    BY DEF Path, LeavesOf, Leaf, HomeEntry, ThirdEntry, Megapages
<1> HIDE DEF E
<1>4. Reach(mode, hspt') /\ View(mode, hspt') = View(mode, hspt)
    BY <1>1, <1>2, <1>3, WriteUnseen
<1>5. PathInv'
    BY <1>1, <1>4 DEF PathInv, Reach, HomeEntry, ThirdEntry, Directory, Leaf
<1>6. View(mode, hspt)' = View(mode, hspt')
    BY <1>1 DEF View, LeafView, ThirdFrame, HomeEntry, ThirdEntry, Directory, Leaf
<1>7. MapNow' = MapNow
    BY <1>1, <1>4, <1>6 DEF MapNow
<1> QED BY <1>1, <1>5, <1>7

LEMMA PathStep == Inv /\ Types /\ PathInv /\ [Next]_vars => PathInv' /\ MapStep
<1> SUFFICES ASSUME Inv, Types, PathInv, [Next]_vars PROVE PathInv' /\ MapStep
    OBVIOUS
<1>0. Inv' /\ Types'
    BY InvStep, TypesStep
<1>1. mode \in Modes /\ hspt \in [Cells -> Pte] /\ (phase = "built" => Reach(mode, hspt))
    BY DEF Inv, Types, PathInv
<1>2. ASSUME NEW m \in Modes, SetMode(m) PROVE PathInv' /\ MapStep
    <2>1. phase' = "set" /\ UNCHANGED <<last, calls>>
        BY <1>2 DEF SetMode
    <2>2. PathInv'
        BY <2>1 DEF PathInv
    <2>3. Map!set_page_table_mode
        BY <2>1 DEF Map!set_page_table_mode, Map!Undefined
    <2> QED BY <2>2, <2>3 DEF MapStep, Map!Next
<1>3. ASSUME InitStarts PROVE PathInv' /\ MapStep
    <2>1. /\ phase' = "stores" /\ last' = "hspt_init" /\ calls' = calls + 1
          /\ mode' = mode /\ todo' = Statements(mode)
        BY <1>3 DEF InitStarts
    <2>2. PathInv'
        <3>1. Statements(mode)' = Statements(mode)
            BY <2>1 DEF Statements, LeavesOf, Leaf
        <3> QED BY <2>1, <3>1 DEF PathInv
    <2>3. Map!hspt_init_starts
        BY <2>1 DEF Map!hspt_init_starts, Map!Undefined
    <2> QED BY <2>2, <2>3 DEF MapStep, Map!Next
<1>4. ASSUME NEW E \in todo, Store(E) PROVE PathInv' /\ MapStep
    BY <1>0, <1>4, StorePaths, StutterMaps
<1>5. ASSUME InitEnds PROVE PathInv' /\ MapStep
    <2>1. /\ phase = "stores" /\ todo = {} /\ phase' = "built"
          /\ UNCHANGED <<mode, todo, hspt, last, calls>>
        BY <1>5 DEF InitEnds
    <2>2. last = "hspt_init" /\ Done(mode, hspt)
        BY <2>1 DEF PathInv, Done
    <2>3. Reach(mode, hspt) /\ View(mode, hspt) = Map!Fresh
        BY <1>1, <2>2, FreshTables
    <2>4. PathInv'
        BY <2>1, <2>3 DEF PathInv, Reach, HomeEntry, ThirdEntry, Directory, Leaf
    <2>5. MapNow' = Map!Fresh
        BY <2>1, <2>3 DEF MapNow, View, LeafView, ThirdFrame, HomeEntry, ThirdEntry, Directory, Leaf
    <2> HIDE DEF MapNow
    <2>6. Map!hspt_init_ends
        BY <1>0, <2>1, <2>2, <2>4, <2>5, TheNextMap DEF Map!hspt_init_ends
    <2> QED BY <2>4, <2>6 DEF MapStep, Map!Next
<1>6. ASSUME NEW f \in Setters \ {"hspt_init"}, Call(f) PROVE PathInv' /\ MapStep
    <2>1. phase = "built" /\ Becomes(f, Changed(f, mode, hspt)) /\ f \in Map!Functions
        BY <1>6 DEF Call, Ready, Map!Functions, Map!Setters, Setters
    <2>2. /\ Reach(mode, Changed(f, mode, hspt))
          /\ View(mode, Changed(f, mode, hspt)) \in Outcomes(f, View(mode, hspt))
        BY <1>1, <2>1, ChangedSeen DEF Outcomes
    <2> QED BY <1>0, <2>1, <2>2, CallSteps
<1>7. ASSUME NEW page \in Pages, ToX(page) PROVE PathInv' /\ MapStep
    <2>1. /\ phase = "built" /\ "pbmt_hspt_to_x" \in Map!Functions
          /\ Becomes("pbmt_hspt_to_x", LeafAt(mode, hspt, page, Pp(X)))
        BY <1>7 DEF ToX, Ready, Map!Functions
    <2> QED BY <1>0, <1>1, <2>1, LeafCalls, CallSteps
<1>8. ASSUME NEW page \in Pages, NEW base \in Bases, ToXBase(page, base)
      PROVE  PathInv' /\ MapStep
    <2>1. /\ phase = "built" /\ "pbmt_hspt_to_x_base_paddr" \in Map!Functions
          /\ Becomes("pbmt_hspt_to_x_base_paddr", LeafAt(mode, hspt, page, base + X))
        BY <1>8 DEF ToXBase, Ready, Map!Functions
    <2> QED BY <1>0, <1>1, <2>1, LeafCalls, CallSteps
<1>9. ASSUME NEW page \in Pages, NEW base \in Bases, ChangeBase(page, base)
      PROVE  PathInv' /\ MapStep
    <2>1. /\ phase = "built" /\ "hspt_leaf_change_base_paddr" \in Map!Functions
          /\ Becomes("hspt_leaf_change_base_paddr",
                     Only48(mode, hspt, LeafAt("sv48", hspt, page, base + page)))
        BY <1>9 DEF ChangeBase, Ready, Map!Functions
    <2> QED BY <1>0, <1>1, <2>1, LeafCalls, CallSteps
<1>10. ASSUME Switch PROVE PathInv' /\ MapStep
    <2>1. /\ phase = "built" /\ "hspt_switch" \in Map!Functions
          /\ {SWITCH1, SWITCH2} \subseteq Pages /\ Becomes("hspt_switch", Switched(mode, hspt))
        BY <1>10 DEF Switch, Ready, Map!Functions
    <2>2. /\ Reach(mode, Switched(mode, hspt))
          /\ View(mode, Switched(mode, hspt)) \in Outcomes("hspt_switch", View(mode, hspt))
        BY <1>1, <2>1, SwitchCalls
    <2> QED BY <1>0, <2>1, <2>2, CallSteps
<1>11. ASSUME NewRoot PROVE PathInv' /\ MapStep
    BY <1>0, <1>11, RootPaths, StutterMaps
<1>12. ASSUME SatpOff \/ UNCHANGED vars PROVE PathInv' /\ MapStep
    <2>1. UNCHANGED <<mode, phase, todo, hspt, last, calls>>
        BY <1>12 DEF SatpOff, vars
    <2>2. PathInv'
        BY <2>1 DEF PathInv, Reach, HomeEntry, ThirdEntry, Directory, Leaf, Statements, LeavesOf,
           Assigned
    <2>3. MapNow' = MapNow
        BY <2>1 DEF MapNow, View, LeafView, ThirdFrame, HomeEntry, ThirdEntry, Directory, Leaf
    <2> QED BY <1>0, <2>1, <2>2, <2>3, StutterMaps
<1> QED BY <1>2, <1>3, <1>4, <1>5, <1>6, <1>7, <1>8, <1>9, <1>10, <1>11, <1>12 DEF Next

LEMMA InitPaths == Init => PathInv /\ Map!Init
<1>1. Init => PathInv
    BY DEF Init, PathInv
<1>2. Init => Map!Init
    BY DEF Init, Map!Init, Map!Undefined
<1> QED BY <1>1, <1>2

(* The page map is all that a test can tell of the tables: hspt_init gives *)
(* the same map in either mode and after any history, and each function    *)
(* changes it as the map says, wherever its entries lie.                   *)
THEOREM ImplementsPageMap == Spec => MapOnly
<1>1. Init => Map!Init /\ Inv /\ Types /\ PathInv
    BY InitPaths, InitTypes
<1>2. Inv /\ Types /\ PathInv /\ [Next]_vars => Inv' /\ Types' /\ PathInv'
    BY InvStep, TypesStep, PathStep
<1>3. Inv /\ Types /\ PathInv /\ [Next]_vars =>
          [Map!Next]_<<IF phase = "built"
                       THEN [a \in {Home, 3 * SUPERPAGE_SIZE(1)} \cup {Vp(i) : i \in Pages} |->
                                Translation(mode, 0, hspt, a)]
                       ELSE <<>>, last, calls>>
    BY PathStep DEF MapStep
<1> QED BY <1>1, <1>2, <1>3, PTL DEF Spec, MapOnly, Map!Spec


=============================================================================
