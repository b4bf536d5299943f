---------------------------- MODULE MemoryProofs ----------------------------
(***************************************************************************)
(* What holds of MemoryTests: of the page tables and of MPRV, for every    *)
(* table of tests; and what the scripts of the 194 tests, by ScriptProofs, *)
(* make of the privilege and of the protection registers.                  *)
(***************************************************************************)
EXTENDS ScriptProofs

(* The tables as functions from entries to flags and a frame, and          *)
(* ImageMapped for a state of the tables on its own.                       *)
IsTables(pt) == pt \in [Entries -> Pte]

MapsItself(pt, i) ==
    /\ pt[<<1, i>>].ppn = i * SUPERPAGE_SIZE(1)
    /\ {"V", "R", "W", "X", "A", "D"} \subseteq pt[<<1, i>>].flags
    /\ "N" \notin pt[<<1, i>>].flags

Mapped(pt) ==
    pt[<<0, 0>>] # Empty => pt[<<0, 0>>] = Pointer(1) /\ \A i \in 0 .. 2 : MapsItself(pt, i)

-----------------------------------------------------------------------------
(* The entries by which the framework itself is reached are entries, and   *)
(* none of the test pages.                                                 *)
LEMMA ImageEntries ==
    /\ <<0, 0>> \in Entries /\ <<0, 0>> \notin Gigapages \cup Megapages \cup Leaves
    /\ \A i \in 0 .. 2 : <<1, i>> \in Gigapages /\ <<1, i>> \in Entries
    /\ \A i \in 0 .. 2 : <<1, i>> \notin Megapages \cup Leaves \cup Pointers \cup {HugePage}
BY DEF Entries, Gigapages, Megapages, Leaves, Pointers, HugePage

(* What hspt_init writes is made of flags and frames.                      *)
LEMMA SuperpageType ==
    ASSUME NEW frame \in Nat PROVE Superpage(frame) \in Pte
BY DEF Superpage, Pte, Flag

LEMMA PointerType ==
    ASSUME NEW t \in Nat PROVE Pointer(t) \in Pte
BY ImageAssumption DEF Pointer, Pte, Flag, Table

LEMMA PermType ==
    ASSUME NEW i \in Int PROVE test_page_perm_table(i) \subseteq Flag
BY DEF test_page_perm_table, Flag

LEMMA LeafType ==
    ASSUME NEW i \in Pages, NEW frame \in Nat PROVE TestLeaf(i, frame) \in Pte
BY PermType, PagesAssumption DEF TestLeaf, Pte, Flag

LEMMA InitType ==
    ASSUME NEW pt, IsTables(pt) PROVE IsTables(hspt_init(pt))
<1> SUFFICES ASSUME NEW e \in Entries PROVE hspt_init(pt)[e] \in Pte
    BY DEF IsTables, hspt_init
<1>1. CASE e = HugePage
    BY <1>1 DEF hspt_init, IsTables, HugePage, Gigapages, Megapages
<1>2. CASE e \in Pointers
    <2>1. e = <<0, 0>> \/ e = <<1, 4>> \/ e = <<1, 5>> \/ e = <<2, 0>>
        BY <1>2 DEF Pointers
    <2>2. hspt_init(pt)[e] \in {Pointer(1), Pointer(2), Pointer(3), Pointer(4)}
        BY <2>1 DEF hspt_init, HugePage, Gigapages, Megapages
    <2> QED BY <2>2, PointerType
<1>3. CASE e \in Gigapages
    <2>1. PICK i \in 0 .. 3 : e = <<1, i>>
        BY <1>3 DEF Gigapages
    <2>2. hspt_init(pt)[e] = Superpage(i * SUPERPAGE_SIZE(1))
        BY <1>3, <2>1 DEF hspt_init, HugePage, Gigapages, Megapages
    <2> QED BY <2>2, SuperpageType DEF SUPERPAGE_SIZE
<1>4. CASE e \in Megapages
    <2>1. PICK i \in 0 .. 3 : e = <<3, i>>
        BY <1>4 DEF Megapages
    <2>2. e \notin Gigapages
        BY <2>1 DEF Gigapages
    <2>3. hspt_init(pt)[e] = Superpage(4 * SUPERPAGE_SIZE(1) + i * SUPERPAGE_SIZE(2))
        BY <1>4, <2>1, <2>2 DEF hspt_init, HugePage, Gigapages, Megapages
    <2> QED BY <2>3, SuperpageType DEF SUPERPAGE_SIZE
<1>5. CASE e \in Leaves
    <2>1. PICK i \in Pages : e = <<4, i>>
        BY <1>5 DEF Leaves
    <2>2. e \notin Gigapages /\ e \notin Megapages
        BY <2>1 DEF Gigapages, Megapages
    <2>3. hspt_init(pt)[e] = TestLeaf(i, Pp(i))
        BY <2>1, <2>2 DEF hspt_init, HugePage, Gigapages, Megapages
    <2>4. Pp(i) \in Nat
        BY PagesAssumption DEF Pp, TEST_PPAGE_BASE
    <2> QED BY <2>3, <2>4, LeafType
<1> QED BY <1>1, <1>2, <1>3, <1>4, <1>5 DEF Entries

(* The functions that add flags to a set of entries, take flags from one,  *)
(* or let their frames overflow, and those that write a single superpage.  *)
Adds(pt, new) ==
    \E E \in SUBSET Entries, flags \in SUBSET {"U", "X", "G", "N"} :
        /\ new = With(pt, E, flags)
        /\ E \subseteq Gigapages \cup Megapages \cup Leaves
        /\ "N" \in flags => E \subseteq Leaves
Takes(pt, new) == \E flags \in SUBSET Flag : new = Without(pt, Leaves, flags)
Overflows(pt, new) == \E E \in SUBSET Entries : new = Overflown(pt, E)
                                               /\ E \subseteq {<<2, 0>>} \cup Leaves
Places(pt, new) == \E e \in {<<3, 0>>, <<1, 3>>, HugePage}, frame \in Nat :
                       new = [pt EXCEPT ![e] = Superpage(frame)]

(* A call by name is a call of the function.                               *)
LEMMA CalledIs ==
    ASSUME NEW pt
    PROVE  /\ Called("hspt_init", pt) = hspt_init(pt)
           /\ Called("hspt_u_mode_allow", pt) = hspt_u_mode_allow(pt)
           /\ Called("hspt_u_mode_allow_no_leaf", pt) = hspt_u_mode_allow_no_leaf(pt)
           /\ Called("hspt_add_X", pt) = hspt_add_X(pt)
           /\ Called("hspt_add_G", pt) = hspt_add_G(pt)
           /\ Called("hspt_add_reserved_bits", pt) = hspt_add_reserved_bits(pt)
           /\ Called("hspt_del_D", pt) = hspt_del_D(pt)
           /\ Called("hspt_del_A", pt) = hspt_del_A(pt)
           /\ Called("hspt_del_R", pt) = hspt_del_R(pt)
           /\ Called("hspt_del_W", pt) = hspt_del_W(pt)
           /\ Called("hspt_del_X", pt) = hspt_del_X(pt)
           /\ Called("hspt_del_V", pt) = hspt_del_V(pt)
           /\ Called("hspt_ptw_ppn_high_bit_overflow_setup", pt) =
                  hspt_ptw_ppn_high_bit_overflow_setup(pt)
           /\ Called("hspt_llptw_ppn_high_bit_overflow_setup", pt) =
                  hspt_llptw_ppn_high_bit_overflow_setup(pt)
           /\ Called("hspt_2MB_superpage_misalign_setup", pt) = hspt_2MB_superpage_misalign_setup(pt)
           /\ Called("hspt_2MB_superpage_align_boundary_setup", pt) =
                  hspt_2MB_superpage_align_boundary_setup(pt)
           /\ Called("hspt_1GB_superpage_misalign_setup", pt) = hspt_1GB_superpage_misalign_setup(pt)
           /\ Called("hspt_1GB_superpage_align_boundary_setup", pt) =
                  hspt_1GB_superpage_align_boundary_setup(pt)
           /\ Called("set_superpage_512G", pt) = set_superpage_512G(pt)
           /\ Called("hspt_512GB_superpage_misalign_setup", pt) =
                  hspt_512GB_superpage_misalign_setup(pt)
           /\ Called("hspt_512GB_superpage_align_boundary_setup", pt) =
                  hspt_512GB_superpage_align_boundary_setup(pt)
<1>1. Called("hspt_init", pt) = hspt_init(pt)
    BY DEF Called
<1>2. Called("hspt_u_mode_allow", pt) = hspt_u_mode_allow(pt)
    BY DEF Called
<1>3. Called("hspt_u_mode_allow_no_leaf", pt) = hspt_u_mode_allow_no_leaf(pt)
    BY DEF Called
<1>4. Called("hspt_add_X", pt) = hspt_add_X(pt)
    BY DEF Called
<1>5. Called("hspt_add_G", pt) = hspt_add_G(pt)
    BY DEF Called
<1>6. Called("hspt_add_reserved_bits", pt) = hspt_add_reserved_bits(pt)
    BY DEF Called
<1>7. Called("hspt_del_D", pt) = hspt_del_D(pt)
    BY DEF Called
<1>8. Called("hspt_del_A", pt) = hspt_del_A(pt)
    BY DEF Called
<1>9. Called("hspt_del_R", pt) = hspt_del_R(pt)
    BY DEF Called
<1>10. Called("hspt_del_W", pt) = hspt_del_W(pt)
    BY DEF Called
<1>11. Called("hspt_del_X", pt) = hspt_del_X(pt)
    BY DEF Called
<1>12. Called("hspt_del_V", pt) = hspt_del_V(pt)
    BY DEF Called
<1>13. Called("hspt_ptw_ppn_high_bit_overflow_setup", pt) =
           hspt_ptw_ppn_high_bit_overflow_setup(pt)
    BY DEF Called
<1>14. Called("hspt_llptw_ppn_high_bit_overflow_setup", pt) =
           hspt_llptw_ppn_high_bit_overflow_setup(pt)
    BY DEF Called
<1>15. Called("hspt_2MB_superpage_misalign_setup", pt) = hspt_2MB_superpage_misalign_setup(pt)
    BY DEF Called
<1>16. Called("hspt_2MB_superpage_align_boundary_setup", pt) =
           hspt_2MB_superpage_align_boundary_setup(pt)
    BY DEF Called
<1>17. Called("hspt_1GB_superpage_misalign_setup", pt) = hspt_1GB_superpage_misalign_setup(pt)
    BY DEF Called
<1>18. Called("hspt_1GB_superpage_align_boundary_setup", pt) =
           hspt_1GB_superpage_align_boundary_setup(pt)
    BY DEF Called
<1>19. Called("set_superpage_512G", pt) = set_superpage_512G(pt)
    BY DEF Called
<1>20. Called("hspt_512GB_superpage_misalign_setup", pt) =
           hspt_512GB_superpage_misalign_setup(pt)
    BY DEF Called
<1>21. Called("hspt_512GB_superpage_align_boundary_setup", pt) =
           hspt_512GB_superpage_align_boundary_setup(pt)
    BY DEF Called
<1> QED
    BY <1>1, <1>2, <1>3, <1>4, <1>5, <1>6, <1>7, <1>8, <1>9, <1>10, <1>11,
       <1>12, <1>13, <1>14, <1>15, <1>16, <1>17, <1>18, <1>19, <1>20, <1>21

Placers == {"hspt_2MB_superpage_misalign_setup", "hspt_2MB_superpage_align_boundary_setup",
            "hspt_1GB_superpage_misalign_setup", "hspt_1GB_superpage_align_boundary_setup",
            "set_superpage_512G", "hspt_512GB_superpage_misalign_setup",
            "hspt_512GB_superpage_align_boundary_setup"}

(* Every function without arguments is hspt_init or of one of these kinds. *)
LEMMA SetterKinds ==
    ASSUME NEW pt, NEW f \in Setters
    PROVE  \/ f = "hspt_init"
           \/ Adds(pt, Called(f, pt))
           \/ Takes(pt, Called(f, pt))
           \/ Overflows(pt, Called(f, pt))
           \/ f \in Placers /\ Places(pt, Called(f, pt))
<1>1. ASSUME NEW E \in {Gigapages \cup Megapages \cup Leaves, Gigapages \cup Megapages}
      PROVE  Adds(pt, With(pt, E, {"U"}))
    BY DEF Adds, Entries
<1>2. ASSUME NEW flags \in {{"X"}, {"G"}, {"N"}} PROVE Adds(pt, With(pt, Leaves, flags))
    BY DEF Adds, Entries
<1>3. ASSUME NEW flags \in {{"D"}, {"A"}, {"R"}, {"W"}, {"X"}, {"V"}}
      PROVE  Takes(pt, Without(pt, Leaves, flags))
    BY DEF Takes, Flag
<1>4. ASSUME NEW E \in {{<<2, 0>>}, Leaves} PROVE Overflows(pt, Overflown(pt, E))
    BY DEF Overflows, Entries, Pointers
<1>5. ASSUME NEW e \in {<<3, 0>>, <<1, 3>>, HugePage}, NEW frame \in Nat
      PROVE  Places(pt, [pt EXCEPT ![e] = Superpage(frame)])
    BY DEF Places
<1>6. \A n \in 0 .. 2 : SUPERPAGE_SIZE(n) \in Nat
    BY DEF SUPERPAGE_SIZE
<1>7. Adds(pt, hspt_u_mode_allow(pt))
    BY <1>1 DEF hspt_u_mode_allow
<1>8. Adds(pt, hspt_u_mode_allow_no_leaf(pt))
    BY <1>1 DEF hspt_u_mode_allow_no_leaf
<1>9. Adds(pt, hspt_add_X(pt))
    BY <1>2 DEF hspt_add_X
<1>10. Adds(pt, hspt_add_G(pt))
    BY <1>2 DEF hspt_add_G
<1>11. Adds(pt, hspt_add_reserved_bits(pt))
    BY <1>2 DEF hspt_add_reserved_bits
<1>12. Takes(pt, hspt_del_D(pt))
    BY <1>3 DEF hspt_del_D
<1>13. Takes(pt, hspt_del_A(pt))
    BY <1>3 DEF hspt_del_A
<1>14. Takes(pt, hspt_del_R(pt))
    BY <1>3 DEF hspt_del_R
<1>15. Takes(pt, hspt_del_W(pt))
    BY <1>3 DEF hspt_del_W
<1>16. Takes(pt, hspt_del_X(pt))
    BY <1>3 DEF hspt_del_X
<1>17. Takes(pt, hspt_del_V(pt))
    BY <1>3 DEF hspt_del_V
<1>18. Overflows(pt, hspt_ptw_ppn_high_bit_overflow_setup(pt))
    BY <1>4 DEF hspt_ptw_ppn_high_bit_overflow_setup
<1>19. Overflows(pt, hspt_llptw_ppn_high_bit_overflow_setup(pt))
    BY <1>4 DEF hspt_llptw_ppn_high_bit_overflow_setup
<1>20. Places(pt, hspt_2MB_superpage_misalign_setup(pt))
    BY <1>5, <1>6 DEF hspt_2MB_superpage_misalign_setup
<1>21. Places(pt, hspt_2MB_superpage_align_boundary_setup(pt))
    BY <1>5, <1>6 DEF hspt_2MB_superpage_align_boundary_setup
<1>22. Places(pt, hspt_1GB_superpage_misalign_setup(pt))
    BY <1>5, <1>6 DEF hspt_1GB_superpage_misalign_setup
<1>23. Places(pt, hspt_1GB_superpage_align_boundary_setup(pt))
    BY <1>5, <1>6 DEF hspt_1GB_superpage_align_boundary_setup
<1>24. Places(pt, set_superpage_512G(pt))
    BY <1>5, <1>6 DEF set_superpage_512G
<1>25. Places(pt, hspt_512GB_superpage_misalign_setup(pt))
    BY <1>5, <1>6 DEF hspt_512GB_superpage_misalign_setup
<1>26. Places(pt, hspt_512GB_superpage_align_boundary_setup(pt))
    BY <1>5, <1>6 DEF hspt_512GB_superpage_align_boundary_setup
<1> QED BY <1>7, <1>8, <1>9, <1>10, <1>11, <1>12, <1>13, <1>14, <1>15, <1>16,
           <1>17, <1>18, <1>19, <1>20, <1>21, <1>22, <1>23, <1>24, <1>25, <1>26, CalledIs DEF Setters, Placers

(* All of them leave tables, and leave the image mapped onto itself.       *)
LEMMA AddsKeeps ==
    ASSUME NEW pt, IsTables(pt), NEW new, Adds(pt, new)
    PROVE  IsTables(new) /\ (Mapped(pt) => Mapped(new))
<1>1. PICK E \in SUBSET Entries, flags \in SUBSET {"U", "X", "G", "N"} :
          /\ new = With(pt, E, flags)
          /\ E \subseteq Gigapages \cup Megapages \cup Leaves
          /\ "N" \in flags => E \subseteq Leaves
    BY DEF Adds
<1>2. IsTables(new)
    BY <1>1 DEF IsTables, With, Pte, Flag
<1>3. new[<<0, 0>>] = pt[<<0, 0>>]
    BY <1>1, ImageEntries DEF With
<1>4. ASSUME NEW i \in 0 .. 2, MapsItself(pt, i) PROVE MapsItself(new, i)
    <2>1. <<1, i>> \in Entries /\ pt[<<1, i>>] \in Pte /\ ("N" \in flags => <<1, i>> \notin E)
        BY <1>1, ImageEntries DEF IsTables
    <2> QED BY <1>1, <1>4, <2>1 DEF MapsItself, With, Pte
<1> QED BY <1>2, <1>3, <1>4 DEF Mapped

LEMMA TakesKeeps ==
    ASSUME NEW pt, IsTables(pt), NEW new, Takes(pt, new)
    PROVE  IsTables(new) /\ (Mapped(pt) => Mapped(new))
<1>1. PICK flags \in SUBSET Flag : new = Without(pt, Leaves, flags)
    BY DEF Takes
<1>2. IsTables(new)
    BY <1>1 DEF IsTables, Without, Pte
<1>3. new[<<0, 0>>] = pt[<<0, 0>>] /\ \A i \in 0 .. 2 : new[<<1, i>>] = pt[<<1, i>>]
    BY <1>1, ImageEntries DEF Without
<1> QED BY <1>2, <1>3 DEF Mapped, MapsItself

LEMMA OverflowsKeeps ==
    ASSUME NEW pt, IsTables(pt), NEW new, Overflows(pt, new)
    PROVE  IsTables(new) /\ (Mapped(pt) => Mapped(new))
<1>1. PICK E \in SUBSET Entries : new = Overflown(pt, E) /\ E \subseteq {<<2, 0>>} \cup Leaves
    BY DEF Overflows
<1>2. IsTables(new)
    BY <1>1 DEF IsTables, Overflown, Pte
<1>3. new[<<0, 0>>] = pt[<<0, 0>>] /\ \A i \in 0 .. 2 : new[<<1, i>>] = pt[<<1, i>>]
    BY <1>1, ImageEntries DEF Overflown
<1> QED BY <1>2, <1>3 DEF Mapped, MapsItself

LEMMA PlacesKeeps ==
    ASSUME NEW pt, IsTables(pt), NEW new, Places(pt, new)
    PROVE  IsTables(new) /\ (Mapped(pt) => Mapped(new))
<1>1. PICK e \in {<<3, 0>>, <<1, 3>>, HugePage}, frame \in Nat :
          new = [pt EXCEPT ![e] = Superpage(frame)]
    BY DEF Places
<1>2. IsTables(new)
    BY <1>1, SuperpageType DEF IsTables
<1>3. e # <<0, 0>> /\ \A i \in 0 .. 2 : e # <<1, i>>
    BY DEF HugePage
<1>4. new[<<0, 0>>] = pt[<<0, 0>>] /\ \A i \in 0 .. 2 : new[<<1, i>>] = pt[<<1, i>>]
    BY <1>1, <1>3, ImageEntries DEF IsTables
<1> QED BY <1>2, <1>4 DEF Mapped, MapsItself

LEMMA InitMaps ==
    ASSUME NEW pt PROVE Mapped(hspt_init(pt))
<1>1. hspt_init(pt)[<<0, 0>>] = Pointer(1)
    BY ImageEntries DEF hspt_init, HugePage, Gigapages, Megapages
<1>2. ASSUME NEW i \in 0 .. 2 PROVE MapsItself(hspt_init(pt), i)
    <2>1. hspt_init(pt)[<<1, i>>] = Superpage(i * SUPERPAGE_SIZE(1))
        BY ImageEntries DEF hspt_init, HugePage, Gigapages, Megapages
    <2> QED BY <2>1 DEF MapsItself, Superpage
<1> QED BY <1>1, <1>2 DEF Mapped

LEMMA CalledKeeps ==
    ASSUME NEW pt, IsTables(pt), NEW f \in Setters
    PROVE  IsTables(Called(f, pt)) /\ (Mapped(pt) => Mapped(Called(f, pt)))
BY SetterKinds, CalledIs, InitType, InitMaps, AddsKeeps, TakesKeeps, OverflowsKeeps, PlacesKeeps

-----------------------------------------------------------------------------
(* The invariant: the tables are tables, and map the image unless the test *)
(* writes entries itself.                                                  *)
TablesInv == IsTables(hspt) /\ ImageMapped

LEMMA ImageMappedIs == ImageMapped <=> (~WritesEntry => Mapped(hspt))
BY DEF ImageMapped, Mapped, Identity, MapsItself

(* hspt is changed by the functions of page_tables.c and by a test that    *)
(* writes an entry, and by nothing else.                                   *)
LEMMA OtherSteps ==
    ASSUME [Next]_vars
    PROVE  UNCHANGED <<test, hspt>> \/ (UNCHANGED test /\ (Tables \/ OneEntry))
BY DEF Next, vars, csrs, Same, GotoPriv, Arm_, Assert_, Access, Status, DelegateCause, WriteSatp,
       ClearCfg, SetCfg, UnsetCfg, WriteBound, OpenAll, Registers, SfenceVma, Tables, OneEntry,
       TestEnd, FallOff, NextTest, ResetState, Lose

LEMMA TablesInvInit == Init => TablesInv
<1> SUFFICES ASSUME Init PROVE TablesInv
    OBVIOUS
<1>1. hspt = Zero
    BY DEF Init
<1>2. IsTables(hspt)
    BY <1>1 DEF IsTables, Zero, Empty, Pte, Flag
<1>3. hspt[<<0, 0>>] = Empty
    BY <1>1, ImageEntries DEF Zero
<1> QED BY <1>2, <1>3 DEF TablesInv, ImageMapped

LEMMA TablesInvStep == TablesInv /\ [Next]_vars => TablesInv'
<1> SUFFICES ASSUME TablesInv, [Next]_vars PROVE TablesInv'
    OBVIOUS
<1>1. IsTables(hspt) /\ (~WritesEntry => Mapped(hspt))
    BY ImageMappedIs DEF TablesInv
<1>2. CASE UNCHANGED <<test, hspt>>
    BY <1>1, <1>2 DEF TablesInv, ImageMapped, WritesEntry, IsTables, Identity
<1>3. CASE UNCHANGED test /\ Tables
    <2>1. PICK f \in Setters : hspt' = Called(f, hspt)
        BY <1>3 DEF Tables
    <2>2. IsTables(hspt') /\ (~WritesEntry => Mapped(hspt'))
        BY <1>1, <2>1, CalledKeeps
    <2>3. WritesEntry' <=> WritesEntry
        BY <1>3 DEF WritesEntry
    <2> QED BY <2>2, <2>3 DEF TablesInv, ImageMapped, Mapped, MapsItself, Identity, IsTables
<1>4. CASE UNCHANGED test /\ OneEntry
    <2>1. WritesEntry'
        BY <1>4 DEF OneEntry, Does, Ready, Step, WritesEntry
    <2>2. IsTables(hspt')
        BY <1>1, <1>4 DEF OneEntry, IsTables, With, Without, Pte, Flag
    <2> QED BY <2>1, <2>2 DEF TablesInv, ImageMapped, IsTables
<1> QED BY <1>2, <1>3, <1>4, OtherSteps

(* Whatever the tests are, and whatever the hart does: the functions of    *)
(* page_tables.c, called in any order, keep the first three gigabytes and  *)
(* the framework in them mapped onto themselves with all rights.           *)
THEOREM ImageAlwaysMapped == Spec => []ImageMapped
<1>1. TablesInv => ImageMapped
    BY DEF TablesInv
<1> QED BY <1>1, TablesInvInit, TablesInvStep, PTL DEF Spec

-----------------------------------------------------------------------------
(* What hspt_init undoes: a call of any other function, except the three   *)
(* that write the 512 GiB superpage, whose entry it does not write.        *)
HugeSetters == {"set_superpage_512G", "hspt_512GB_superpage_misalign_setup",
                "hspt_512GB_superpage_align_boundary_setup"}

THEOREM InitRestores ==
    ASSUME NEW pt, IsTables(pt), NEW f \in Setters \ HugeSetters
    PROVE  hspt_init(Called(f, pt)) = hspt_init(pt)
<1>1. HugePage \notin Gigapages \cup Megapages \cup Leaves \cup {<<2, 0>>, <<3, 0>>, <<1, 3>>}
    BY DEF HugePage, Gigapages, Megapages, Leaves
<1>2. HugePage \in Entries
    BY DEF Entries
<1>3. Called(f, pt)[HugePage] = pt[HugePage]
    <2>1. CASE f = "hspt_init"
        <3>1. hspt_init(pt)[HugePage] = pt[HugePage]
            BY <1>2 DEF hspt_init, HugePage, Gigapages, Megapages
        <3> QED BY <2>1, <3>1, CalledIs
    <2>2. CASE Adds(pt, Called(f, pt))
        BY <1>1, <1>2, <2>2 DEF Adds, With
    <2>3. CASE Takes(pt, Called(f, pt))
        BY <1>1, <1>2, <2>3 DEF Takes, Without
    <2>4. CASE Overflows(pt, Called(f, pt))
        BY <1>1, <1>2, <2>4 DEF Overflows, Overflown
    <2>5. ASSUME NEW e \in {<<3, 0>>, <<1, 3>>}, NEW v
          PROVE  [pt EXCEPT ![e] = v][HugePage] = pt[HugePage]
        BY <1>1, <1>2 DEF IsTables
    <2>6. CASE f = "hspt_2MB_superpage_misalign_setup"
        <3>1. hspt_2MB_superpage_misalign_setup(pt)[HugePage] = pt[HugePage]
            BY <2>5 DEF hspt_2MB_superpage_misalign_setup
        <3> QED BY <2>6, <3>1, CalledIs
    <2>7. CASE f = "hspt_2MB_superpage_align_boundary_setup"
        <3>1. hspt_2MB_superpage_align_boundary_setup(pt)[HugePage] = pt[HugePage]
            BY <2>5 DEF hspt_2MB_superpage_align_boundary_setup
        <3> QED BY <2>7, <3>1, CalledIs
    <2>8. CASE f = "hspt_1GB_superpage_misalign_setup"
        <3>1. hspt_1GB_superpage_misalign_setup(pt)[HugePage] = pt[HugePage]
            BY <2>5 DEF hspt_1GB_superpage_misalign_setup
        <3> QED BY <2>8, <3>1, CalledIs
    <2>9. CASE f = "hspt_1GB_superpage_align_boundary_setup"
        <3>1. hspt_1GB_superpage_align_boundary_setup(pt)[HugePage] = pt[HugePage]
            BY <2>5 DEF hspt_1GB_superpage_align_boundary_setup
        <3> QED BY <2>9, <3>1, CalledIs
    <2> QED BY <2>1, <2>2, <2>3, <2>4, <2>6, <2>7, <2>8, <2>9, SetterKinds DEF Placers, HugeSetters
<1> QED BY <1>3 DEF hspt_init

-----------------------------------------------------------------------------
(* MPP is M or the lowest privilege: CSRS and CSRC of MSTATUS_MPP set or   *)
(* clear both bits, and every xret and trap leaves the lowest. An access   *)
(* under MPRV is then judged as one of these.                              *)
MppInv ==
    /\ "mpp" \in DOMAIN mstatus
    /\ mstatus.mpp \in {M, HU}
    /\ judged.mprv => judged.as \in {M, HU}

LEMMA MppInvStep == MppInv /\ [Next]_vars => MppInv'
<1> SUFFICES ASSUME MppInv, [Next]_vars PROVE MppInv'
    OBVIOUS
<1> USE DEF MppInv, Same
<1>1. CASE GotoPriv
    <2>1. mstatus' \in {mstatus, [mstatus EXCEPT !.mprv = FALSE, !.mpp = HU],
                        [mstatus EXCEPT !.mprv = FALSE]}
        BY <1>1 DEF GotoPriv
    <2> QED BY <1>1, <2>1 DEF GotoPriv
<1>2. CASE Access
    <2> DEFINE k == IF Step.kind = "code" THEN "store" ELSE Step.kind
               p == Effective(k, priv, mstatus)
    <2>1. /\ judged'.mprv = (mstatus.mprv /\ k \notin Fetches)
          /\ judged'.as = p
        BY <1>2 DEF Access
    <2>2. judged'.mprv => judged'.as \in {M, HU}
        BY <2>1 DEF Effective
    <2>3. mstatus' = mstatus \/ \E cause, kind : Trapped(cause, kind)
        BY <1>2 DEF Access
    <2>4. mstatus' \in {mstatus, [mstatus EXCEPT !.mprv = FALSE, !.mpp = HU]}
        BY <2>3 DEF Trapped
    <2> QED BY <2>2, <2>4
<1>3. CASE Status
    <2>1. /\ UNCHANGED judged
          /\ mstatus' = [mstatus EXCEPT ![Step.field] =
                             IF Step.field # MPP THEN Step.value
                             ELSE IF Step.value THEN M ELSE HU]
        BY <1>3 DEF Status
    <2> QED BY <2>1 DEF MPP
<1>4. CASE TestEnd \/ NextTest
    BY <1>4 DEF TestEnd, NextTest, ResetState
<1>5. CASE UNCHANGED <<mstatus, judged>>
    BY <1>5
<1> QED
    BY <1>1, <1>2, <1>3, <1>4, <1>5
    DEF Next, vars, csrs, Arm_, Assert_, DelegateCause, WriteSatp, ClearCfg, SetCfg, UnsetCfg,
        WriteBound, OpenAll, Registers, SfenceVma, Tables, OneEntry, FallOff, Lose

(* However a test is written, with MSTATUS_MPP it cannot make a load or a  *)
(* store of M mode one of S mode by MPRV, as the comments "MPP=S" intend.  *)
THEOREM MprvNeverS == Spec => [](judged.mprv => judged.as # HS)
<1>1. Init => MppInv
    BY DEF Init, MppInv
<1>2. MppInv => (judged.mprv => judged.as # HS)
    BY DEF MppInv, M, HU, HS
<1> QED BY <1>1, <1>2, MppInvStep, PTL DEF Spec

-----------------------------------------------------------------------------
(* Translations.                                                           *)
Sound == {tr \in [what : {"leaf", "page", "access"}, flags : SUBSET Flag, frame : Int,
                  may : SUBSET {"R", "W", "X", "C"}] : tr.may # {} => tr.frame \in Nat}

(* What a walk finds and a translation says.                               *)
LEMMA EntryType ==
    ASSUME NEW pt, IsTables(pt), NEW frame, NEW i
    PROVE  Entry(pt, frame, i) \in Pte
BY DEF IsTables, Entry, Empty, Pte

LEMMA WalkType ==
    ASSUME NEW pt, IsTables(pt), NEW page
    PROVE  Walk(pt, page).pte \in Pte /\ Walk(pt, page).level \in 0 .. 3
<1> DEFINE table == CHOOSE table : table = [l \in 0 .. 3 |->
                        IF l = 0 THEN Table(0)
                        ELSE Entry(pt, table[l - 1], Index(page, l - 1)).ppn]
           pte(l) == Entry(pt, table[l], Index(page, l))
           ends(l) == /\ l = 3 \/ ~IsPointer(pte(l))
                      /\ \A k \in 0 .. l - 1 : IsPointer(pte(k))
           S == {[pte |-> pte(l), level |-> l, read |-> {table[k] : k \in 0 .. l}] :
                     l \in {x \in 0 .. 3 : ends(x)}}
<1>1. Walk(pt, page) = CHOOSE w \in S : TRUE
    BY DEF Walk
<1>2. \A l : pte(l) \in Pte
    BY EntryType
<1> HIDE DEF table
<1>3. \E l \in 0 .. 3 : ends(l)
    <2> HIDE DEF pte
    <2>1. CASE ~IsPointer(pte(0))
        BY <2>1
    <2>2. CASE IsPointer(pte(0)) /\ ~IsPointer(pte(1))
        BY <2>2
    <2>3. CASE IsPointer(pte(0)) /\ IsPointer(pte(1)) /\ ~IsPointer(pte(2))
        BY <2>3
    <2>4. CASE IsPointer(pte(0)) /\ IsPointer(pte(1)) /\ IsPointer(pte(2))
        BY <2>4
    <2> QED BY <2>1, <2>2, <2>3, <2>4
<1>4. \E w : w \in S
    BY <1>3
<1>5. Walk(pt, page) \in S
    BY <1>1, <1>4
<1> HIDE DEF pte
<1> QED BY <1>5, <1>2

LEMMA GrantsType ==
    ASSUME NEW regs, NEW frame \in Int
    PROVE  /\ Grants(regs, frame) \in SUBSET {"R", "W", "X", "C"}
           /\ Grants(regs, frame) # {} => frame \in Nat
<1>1. ASSUME NEW p, NEW need, Allowed(regs, frame, p, need) PROVE frame \in Nat
    <2>1. frame >= 0
        BY <1>1 DEF Allowed
    <2> QED BY <2>1
<1> QED BY <1>1 DEF Grants

LEMMA TranslatedType ==
    ASSUME NEW w, w.pte \in Pte, w.level \in 0 .. 3, NEW regs, NEW page \in Int
    PROVE  Translated(w, regs, page) \in Sound
<1> DEFINE size == IF w.level = 3 THEN 1 ELSE SUPERPAGE_SIZE(w.level)
           frame == IF w.pte.ppn = Nowhere THEN Nowhere ELSE w.pte.ppn + (page % size)
           leaf == [what |-> "leaf", flags |-> w.pte.flags, frame |-> frame, may |-> Grants(regs, frame)]
<1>1. size \in Nat \ {0}
    BY SMT DEF SUPERPAGE_SIZE
<1>2. w.pte.ppn \in Int /\ w.pte.flags \in SUBSET Flag /\ Nowhere \in Int
    BY DEF Pte, Nowhere
<1> HIDE DEF size
<1>3. frame \in Int
    BY <1>1, <1>2
<1> HIDE DEF frame
<1>4. leaf \in Sound
    BY <1>2, <1>3, GrantsType DEF Sound
<1>5. Faulty("page") \in Sound /\ Faulty("access") \in Sound
    BY <1>2 DEF Sound, Faulty
<1>6. Translated(w, regs, page) \in {leaf, Faulty("page"), Faulty("access")}
    BY SMT DEF Translated, frame, size
<1> QED BY <1>4, <1>5, <1>6

LEMMA TranslateType ==
    ASSUME NEW pt, IsTables(pt), NEW regs, NEW page \in Int
    PROVE  Translate(pt, regs, page) \in Sound
<1>1. Translate(pt, regs, page) = Translated(Walk(pt, page), regs, page)
    BY DEF Translate
<1> QED BY <1>1, WalkType, TranslatedType

LEMMA RegrantedType ==
    ASSUME NEW tr \in Sound PROVE Regranted(tr) \in Sound
BY GrantsType DEF Regranted, Sound

(* Every translation the machine keeps is of an address space in use and   *)
(* is sound.                                                               *)
Asids == {0, \h1234}
HeldSound == \A h \in held : h.asid \in Asids /\ h.tr \in Sound /\ Kept(h.tr)

LEMMA TranslationsType ==
    ASSUME IsTables(hspt), HeldSound, NEW page \in Int
    PROVE  Translations(page) \subseteq Sound
<1> DEFINE old == {h.tr : h \in Matches(page)}
<1>1. old \subseteq Sound
    BY DEF HeldSound, Matches
<1>2. Fresh(page) \in Sound
    BY TranslateType DEF Fresh
<1>3. {Regranted(tr) : tr \in old} \subseteq Sound
    BY <1>1, RegrantedType
<1>4. Translations(page) \subseteq {Fresh(page)} \cup old \cup {Regranted(tr) : tr \in old}
    BY DEF Translations
<1> QED BY <1>1, <1>2, <1>3, <1>4

(* An access that is let through has reached memory.                       *)
LEMMA ReachedType ==
    ASSUME IsTables(hspt), HeldSound, NEW page \in Int, NEW kind, NEW p,
           Needs(kind) # {}, NEW r \in Reached(kind, page, p), r.cause = "none"
    PROVE  r.frame \in Nat
<1>1. AccessFault(kind) # "none" /\ PageFault(kind) # "none"
    BY DEF AccessFault, PageFault
<1>2. CASE r = Result(JudgedBare(kind, prot, page, p), page)
    <2>1. Allowed(prot, page, p, Needs(kind)) /\ r.frame = page
        BY <1>1, <1>2 DEF Result, JudgedBare
    <2>2. page >= 0
        BY <2>1 DEF Allowed
    <2> QED BY <2>1, <2>2
<1>3. ASSUME NEW tr \in Translations(page),
             r = Result(Judged(kind, tr, p, mstatus.sum, mstatus.mxr), tr.frame)
      PROVE  r.frame \in Nat
    <2>1. Judged(kind, tr, p, mstatus.sum, mstatus.mxr) = "none" /\ r.frame = tr.frame
        BY <1>3 DEF Result
    <2>2. Needs(kind) \subseteq tr.may
        BY <1>1, <2>1 DEF Judged
    <2>3. tr \in Sound
        BY TranslationsType
    <2> QED BY <2>1, <2>2, <2>3 DEF Sound
<1> QED BY <1>2, <1>3 DEF Reached

LEMMA StoreType ==
    ASSUME IsTables(hspt), HeldSound, NEW page \in Int, NEW p,
           NEW r \in Results("store", page, p), r.cause = "none"
    PROVE  r.frame \in Nat
<1>1. Results("store", page, p) = Reached("store", page, p)
    BY DEF Results, Crossing
<1>2. Needs("store") # {}
    BY DEF Needs, Uses, Fetches, Loads
<1> QED BY <1>1, <1>2, ReachedType

LEMMA KeepsSound ==
    ASSUME HeldSound, IsTables(hspt'), Home \in Int, Watched \subseteq Int, satp'.asid \in Asids,
           NEW old \in SUBSET held, NEW pages \in SUBSET Int, Keeps(old, pages)
    PROVE  HeldSound'
<1> DEFINE tr(page) == Translate(hspt', prot', page)
           new(S) == {[page |-> q, asid |-> satp'.asid, tr |-> tr(q)] : q \in {x \in S : Kept(tr(x))}}
           fresh == new(Int)
<1>1. \A page \in Int : tr(page) \in Sound
    BY TranslateType
<1>2. \A h \in fresh : h.asid \in Asids /\ h.tr \in Sound /\ Kept(h.tr)
    BY <1>1
<1>3. \A S \in SUBSET Int : new(S) \subseteq fresh
    OBVIOUS
<1>4. held' \subseteq old \cup fresh
    <2> DEFINE on == satp'.on /\ priv' # M
               has(page) == \E h \in old : h.page = page /\ (h.asid = satp'.asid \/ "G" \in h.tr.flags)
               used == pages \cup (IF on THEN {Home} ELSE {})
               active == satp'.on /\ Effective("load", priv', mstatus') # M
               missing == {q \in used : ~has(q)}
    <2>1. missing \in SUBSET Int
        OBVIOUS
    <2>2. held' = CASE machine = "holds"                -> old \cup new(missing)
                    [] machine = "speculates" /\ active -> old \cup new(Watched)
                    [] OTHER                            -> old
        BY DEF Keeps
    <2> HIDE DEF new, fresh, missing, active
    <2>3. new(missing) \subseteq fresh /\ new(Watched) \subseteq fresh
        BY <1>3, <2>1
    <2> QED BY <2>2, <2>3
<1>5. \A h \in held' : h.asid \in Asids /\ h.tr \in Sound /\ Kept(h.tr)
    <2> HIDE DEF fresh
    <2> QED BY <1>2, <1>4 DEF HeldSound
<1> QED BY <1>5 DEF HeldSound

-----------------------------------------------------------------------------
(* The inductive invariant of MemoryTests.                                 *)
RegsInv == prot \in [pmp : Regs, pma : Regs]
(* The test that runs is a script of ScriptProofs, and what is known at    *)
(* the step to come is so: here the invariant says more than the           *)
(* properties it is for, which say nothing of the registers in the middle  *)
(* of a test.                                                              *)
Follows ==
    \E f : /\ Along(test, f)
           /\ run \in {"test", "returned"} =>
                  /\ priv = f[pc].priv
                  /\ prot.pmp \in f[pc].pmp
                  /\ prot.pma \in f[pc].pma
MainInv == run = "main" => prot.pmp \in PmpFull /\ prot.pma \in PmaKept
(* What a trap of the framework's own leaves of the run.                   *)
Trapping == {"caught", "astray", "spins"}

LEMMA TrapsEnd ==
    ASSUME NEW h, NEW kind, NEW cause
    PROVE  /\ Again(h, kind) \subseteq Trapping
           /\ Ends(cause, kind) \in Trapping
BY DEF Again, Ends, Trapping

(* The registers and variables stay in their ranges.                       *)
Ranges ==
    /\ mstatus \in [mprv : BOOLEAN, mpp : {M, HU}, sum : BOOLEAN, mxr : BOOLEAN]
    /\ satp \in [on : BOOLEAN, asid : Asids]
    /\ rets \subseteq Nat
MachineInv ==
    /\ machine \in Machines
    /\ \E i \in DOMAIN test_table : test = test_table[i]
    /\ test \in Seq(Steps)
    /\ pc \in 1 .. Len(test) + 1
    /\ run \in {"test", "returned", "main", "exits", "derailed"} \cup Trapping
    /\ priv \in Modes
    /\ Ranges
    /\ IsTables(hspt)
ScriptInv == MachineInv /\ HeldSound /\ RegsInv /\ Follows /\ MainInv

LEMMA RegsTyped ==
    ASSUME NEW regs \in Regs PROVE AreRegisters(regs)
BY DEF Regs, AreRegisters, Bits

(* The step that comes next is one of those the tests are made of.         *)
LEMMA StepIs ==
    ASSUME MachineInv, Ready
    PROVE  /\ Step \in Steps /\ pc \in 1 .. Len(test) /\ pc + 1 \in 1 .. Len(test) + 1
           /\ \A f : Along(test, f) => Fit(Step, f[pc], f[pc + 1])
<1>1. pc \in DOMAIN test /\ test \in Seq(Steps)
    BY DEF MachineInv, Ready
<1>2. Len(test) \in Nat /\ DOMAIN test = 1 .. Len(test)
    BY <1>1, LenProperties
<1>3. test[pc] \in Steps
    BY <1>1, ElementOfSeq, <1>2
<1> QED BY <1>1, <1>2, <1>3 DEF Step, Along

(* What the steps of each kind carry.                                      *)
LEMMA SatpSteps ==
    \A x \in SatpWrites : x.op = "satp" /\ x.on \in BOOLEAN /\ (x.on => x.asid = \h1234)
<1> DEFINE off == [op |-> "satp", on |-> FALSE]
           on == [op |-> "satp", on |-> TRUE, asid |-> \h1234]
<1>1. off.op = "satp" /\ off.on \in BOOLEAN /\ (off.on => off.asid = \h1234)
    OBVIOUS
<1>3. on.op = "satp" /\ on.on \in BOOLEAN /\ (on.on => on.asid = \h1234)
    OBVIOUS
<1>2. SatpWrites = {off, on}
    BY DEF SatpWrites
<1> HIDE DEF off, on
<1> QED BY <1>1, <1>2, <1>3

LEMMA StepParts ==
    ASSUME NEW x \in Steps
    PROVE  /\ x.op = "go" => x.priv \in Modes
           /\ x.op = "do" => x.kind \in Kinds \cup {"code"} /\ x.page \in Int
           /\ x.op \in {"clear", "preamble", "set", "unset", "addr"} => x.csr \in Csrs
           /\ x.op = "status" => x.field \in {MPRV, MPP, SUM, MXR} /\ x.value \in BOOLEAN /\ x.priv \in {M, HS}
           /\ x.op = "satp" => x.on \in BOOLEAN /\ (x.on => x.asid = \h1234)
<1>1. CASE x \in Moves
    BY SMT, <1>1 DEF Moves
<1>2. CASE x \in Brackets
    BY SMT, <1>2 DEF Brackets
<1>3. CASE x \in Judgements
    BY SMT, <1>3 DEF Judgements
<1>4. CASE x \in Accesses
    BY SMT, <1>4 DEF Accesses
<1>5. CASE x \in WholeWrites
    BY SMT, <1>5 DEF WholeWrites
<1>6. CASE x \in BitWrites
    BY SMT, <1>6 DEF BitWrites
<1>7. CASE x \in BoundWrites
    BY SMT, <1>7 DEF BoundWrites
<1>8. CASE x \in StatusWrites
    BY SMT, <1>8 DEF StatusWrites
<1>9. CASE x \in Delegations
    BY SMT, <1>9 DEF Delegations
<1>10. CASE x \in SatpWrites
    BY SMT, <1>10, SatpSteps
<1>11. CASE x \in Fences
    BY SMT, <1>11 DEF Fences
<1>12. CASE x \in Calls
    BY SMT, <1>12 DEF Calls
<1>13. CASE x \in EntryWrites
    BY SMT, <1>13 DEF EntryWrites
<1> QED BY SMT, <1>1, <1>2, <1>3, <1>4, <1>5, <1>6, <1>7, <1>8, <1>9, <1>10, <1>11, <1>12, <1>13
       DEF Steps

LEMMA StepBits ==
    ASSUME NEW x \in Steps
    PROVE  /\ x.op \in {"set", "unset"} => x.i \in Slots /\ x.bits \in SUBSET Bits
           /\ x.op = "addr" => x.i \in Slots /\ x.frame \in 0 .. Top
<1>1. CASE x \in BitWrites
    BY SMT, <1>1 DEF BitWrites
<1>2. CASE x \in BoundWrites
    BY SMT, <1>2 DEF BoundWrites
<1>3. x.op \in {"set", "unset", "addr"} => x \in BitWrites \cup BoundWrites
    BY SMT, SatpSteps DEF Steps, Moves, Brackets, Judgements, Accesses, WholeWrites,
       StatusWrites, Delegations, Fences, Calls, EntryWrites
<1> QED BY SMT, <1>1, <1>2, <1>3

LEMMA WatchedPages ==
    ASSUME MachineInv PROVE Watched \subseteq Int
<1>1. \A i \in DOMAIN test : test[i] \in Steps
    BY ElementOfSeq DEF MachineInv
<1>2. \A s \in Used : s \in Steps /\ s.op = "do"
    BY <1>1 DEF Used
<1>3. \A s \in Used : s.page \in Int
    BY <1>2, StepParts
<1> QED BY <1>3, HomeAssumption DEF Watched

(* Whatever is written, the registers remain registers.                    *)
LEMMA WrittenRegs ==
    ASSUME NEW x \in Steps, NEW csr, NEW regs \in Regs
    PROVE  Written(x, csr, regs) \in Regs
<1>1. CASE x.op = "clear" /\ x.csr = csr
    BY <1>1, AfterClear DEF Written
<1>2. CASE x.op = "preamble" /\ x.csr = csr
    BY <1>2, AfterPreamble DEF Written
<1>3. CASE x.op = "set" /\ x.csr = csr
    <2> DEFINE u == regs.cfg[x.i] \cup x.bits
    <2>1. x.i \in Slots /\ x.bits \in SUBSET Bits
        BY <1>3, StepBits
    <2>2. u \in SUBSET Bits
        BY <2>1 DEF Regs
    <2>3. Written(x, csr, regs) = WriteCfg(regs, x.i, u)
        BY <1>3 DEF Written
    <2> HIDE DEF u
    <2> QED BY <2>1, <2>2, <2>3, CfgWritten
<1>4. CASE x.op = "unset" /\ x.csr = csr
    <2> DEFINE u == regs.cfg[x.i] \ x.bits
    <2>1. x.i \in Slots /\ x.bits \in SUBSET Bits
        BY <1>4, StepBits
    <2>2. u \in SUBSET Bits
        BY <2>1 DEF Regs
    <2>3. Written(x, csr, regs) = WriteCfg(regs, x.i, u)
        BY <1>4 DEF Written
    <2> HIDE DEF u
    <2> QED BY <2>1, <2>2, <2>3, CfgWritten
<1>5. CASE x.op = "addr" /\ x.csr = csr
    BY <1>5, StepBits, AddrWritten DEF Written
<1>6. CASE ~(x.op \in {"clear", "preamble", "set", "unset", "addr"} /\ x.csr = csr)
    BY <1>6 DEF Written
<1> QED BY <1>1, <1>2, <1>3, <1>4, <1>5, <1>6

-----------------------------------------------------------------------------
(* A step of a script: what it does to the privilege and to the registers  *)
(* is what Fit says of it.                                                 *)
Forward ==
    /\ Ready /\ pc' = pc + 1 /\ test' = test /\ machine' = machine
    /\ priv' = IF Step.op = "go" THEN Step.priv ELSE priv
    /\ prot' = [pmp |-> Written(Step, "pmp", prot.pmp), pma |-> Written(Step, "pma", prot.pma)]
    /\ run' \in {"test", "exits", "derailed"} \cup Trapping

LEMMA ForwardFollows ==
    ASSUME MachineInv, RegsInv, Follows, Forward
    PROVE  RegsInv' /\ Follows' /\ MainInv' /\ priv' \in Modes /\ pc' \in 1 .. Len(test') + 1
<1>1. Step \in Steps /\ pc \in 1 .. Len(test) /\ pc + 1 \in 1 .. Len(test) + 1
    BY StepIs DEF Forward
<1>2. PICK f : /\ Along(test, f)
               /\ run \in {"test", "returned"} =>
                      /\ priv = f[pc].priv
                      /\ prot.pmp \in f[pc].pmp
                      /\ prot.pma \in f[pc].pma
    BY DEF Follows
<1>3. Fit(Step, f[pc], f[pc + 1]) /\ run = "test"
    BY <1>2, StepIs DEF Forward, Ready
<1>4. prot.pmp \in Regs /\ prot.pma \in Regs
    BY DEF RegsInv
<1>5. RegsInv'
    BY <1>1, <1>4, WrittenRegs DEF RegsInv, Forward
<1>6. /\ priv' = f[pc + 1].priv
      /\ prot'.pmp \in f[pc + 1].pmp
      /\ prot'.pma \in f[pc + 1].pma
    BY <1>2, <1>3 DEF Fit, Forward
<1>7. Follows'
    BY <1>2, <1>6 DEF Follows, Forward
<1>8. priv' \in Modes
    BY <1>1, StepParts DEF Forward, MachineInv
<1> QED BY <1>1, <1>5, <1>7, <1>8 DEF Forward, MainInv, Trapping

(* Steps that leave the registers alone, and the ones that write them.     *)
LEMMA Unwritten ==
    ASSUME RegsInv, Step.op \notin {"clear", "preamble", "set", "unset", "addr"}, prot' = prot
    PROVE  prot' = [pmp |-> Written(Step, "pmp", prot.pmp), pma |-> Written(Step, "pma", prot.pma)]
BY DEF RegsInv, Written

LEMMA OneWritten ==
    ASSUME RegsInv, NEW csr \in Csrs, NEW regs,
           prot' = [prot EXCEPT ![csr] = regs],
           regs = Written(Step, csr, prot[csr]), Step.csr = csr,
           Step.op \in {"clear", "preamble", "set", "unset", "addr"}
    PROVE  prot' = [pmp |-> Written(Step, "pmp", prot.pmp), pma |-> Written(Step, "pma", prot.pma)]
<1>1. CASE csr = "pmp"
    BY <1>1 DEF RegsInv, Written
<1>2. CASE csr = "pma"
    BY <1>2 DEF RegsInv, Written
<1> QED BY <1>1, <1>2 DEF Csrs

LEMMA RegistersForward ==
    ASSUME RegsInv, Ready, NEW csr \in Csrs, NEW regs, Registers(csr, regs),
           regs = Written(Step, csr, prot[csr]), Step.csr = csr,
           Step.op \in {"clear", "preamble", "set", "unset", "addr"}
    PROVE  Forward /\ UNCHANGED <<mstatus, satp, rets>> /\ Keeps(held, {})
BY OneWritten DEF Registers, Forward, Next1, Same, Ready

(* What every step keeps, other than the tables.                           *)
Stays == Forward /\ Ranges' /\ \E old \in SUBSET held, pages \in SUBSET Int : Keeps(old, pages)

LEMMA WritesStay ==
    ASSUME MachineInv, RegsInv, ClearCfg \/ SetCfg \/ UnsetCfg \/ WriteBound \/ OpenAll
    PROVE  Stays
<1>1. Ready /\ Step.op \in {"clear", "preamble", "set", "unset", "addr"}
    BY DEF ClearCfg, SetCfg, UnsetCfg, WriteBound, OpenAll, Does
<1>2. Step.csr \in Csrs
    BY <1>1, StepIs, StepParts
<1>3. \E regs : Registers(Step.csr, regs) /\ regs = Written(Step, Step.csr, prot[Step.csr])
    BY DEF ClearCfg, SetCfg, UnsetCfg, WriteBound, OpenAll, Does, Written
<1>4. Forward /\ UNCHANGED <<mstatus, satp, rets>> /\ Keeps(held, {})
    BY <1>1, <1>2, <1>3, RegistersForward
<1> QED BY <1>4 DEF Stays, MachineInv, Ranges

LEMMA GotoPrivStays ==
    ASSUME MachineInv, RegsInv, GotoPriv
    PROVE  Stays
<1>1. Ready /\ Step.op = "go"
    BY DEF GotoPriv, Does
<1>2. Forward
    BY <1>1, Unwritten DEF Forward, GotoPriv, Next1, Same, Ready
<1>3. mstatus' \in {mstatus, [mstatus EXCEPT !.mprv = FALSE, !.mpp = HU],
                    [mstatus EXCEPT !.mprv = FALSE]}
    BY DEF GotoPriv
<1>4. UNCHANGED <<satp, rets>> /\ Keeps(held, {})
    BY DEF GotoPriv, Same
<1>5. Ranges'
    BY <1>3, <1>4 DEF Ranges, MachineInv
<1> QED BY <1>2, <1>4, <1>5 DEF Stays

LEMMA PlainStay ==
    ASSUME MachineInv, RegsInv, Arm_ \/ Assert_ \/ DelegateCause \/ SfenceVma \/ OneEntry
    PROVE  Stays
<1>1. Ready /\ Step.op \in {"arm", "expect", "delegate", "fence", "entry"}
    BY DEF Arm_, Assert_, DelegateCause, SfenceVma, OneEntry, Does
<1>2. /\ pc' = pc + 1 /\ test' = test /\ machine' = machine /\ run' = run
      /\ UNCHANGED <<priv, mstatus, satp, prot, rets>>
    BY DEF Arm_, Assert_, DelegateCause, SfenceVma, OneEntry, Same, Next1, csrs
<1>3. Forward
    BY <1>1, <1>2, Unwritten DEF Forward, Ready
<1>4. Keeps(held, {}) \/ Keeps({h \in held : ~Fenced(h, Step)}, {})
    BY DEF Arm_, Assert_, DelegateCause, SfenceVma, OneEntry
<1>5. \E old \in SUBSET held, pages \in SUBSET Int : Keeps(old, pages)
    BY <1>4
<1>6. Ranges'
    BY <1>2 DEF Ranges, MachineInv
<1> QED BY <1>3, <1>5, <1>6 DEF Stays

LEMMA StatusStays ==
    ASSUME MachineInv, RegsInv, Status
    PROVE  Stays
<1>1. Ready /\ Step.op = "status"
    BY DEF Status, Does
<1>2. Step.field \in {MPRV, MPP, SUM, MXR} /\ Step.value \in BOOLEAN
    BY <1>1, StepIs, StepParts
<1>3. /\ pc' = pc + 1 /\ test' = test /\ machine' = machine /\ run' = run
      /\ UNCHANGED <<priv, satp, prot, rets>> /\ Keeps(held, {})
    BY DEF Status, Same, Next1
<1>4. Forward
    BY <1>1, <1>3, Unwritten DEF Forward, Ready
<1>5. mstatus' = [mstatus EXCEPT ![Step.field] =
                      IF Step.field # MPP THEN Step.value ELSE IF Step.value THEN M ELSE HU]
    BY DEF Status
<1>6. mstatus' \in [mprv : BOOLEAN, mpp : {M, HU}, sum : BOOLEAN, mxr : BOOLEAN]
    <2>1. CASE Step.field = MPP
        <3>1. mstatus' = [mstatus EXCEPT !.mpp = IF Step.value THEN M ELSE HU]
            BY <1>5, <2>1 DEF MPP
        <3> QED BY <3>1 DEF MachineInv, Ranges
    <2>2. CASE Step.field = MPRV
        <3>1. mstatus' = [mstatus EXCEPT !.mprv = Step.value]
            BY <1>5, <2>2 DEF MPP, MPRV
        <3> QED BY <1>2, <3>1 DEF MachineInv, Ranges
    <2>3. CASE Step.field = SUM
        <3>1. mstatus' = [mstatus EXCEPT !.sum = Step.value]
            BY <1>5, <2>3 DEF MPP, SUM
        <3> QED BY <1>2, <3>1 DEF MachineInv, Ranges
    <2>4. CASE Step.field = MXR
        <3>1. mstatus' = [mstatus EXCEPT !.mxr = Step.value]
            BY <1>5, <2>4 DEF MPP, MXR
        <3> QED BY <1>2, <3>1 DEF MachineInv, Ranges
    <2> QED BY <1>2, <2>1, <2>2, <2>3, <2>4
<1>7. Ranges'
    BY <1>3, <1>6 DEF Ranges, MachineInv
<1> QED BY <1>3, <1>4, <1>7 DEF Stays

LEMMA WriteSatpStays ==
    ASSUME MachineInv, RegsInv, WriteSatp
    PROVE  Stays
<1>1. Ready /\ Step.op = "satp"
    BY DEF WriteSatp, Does
<1>2. Step.on \in BOOLEAN /\ (Step.on => Step.asid = \h1234)
    BY <1>1, StepIs, StepParts
<1>3. /\ pc' = pc + 1 /\ test' = test /\ machine' = machine /\ run' = run
      /\ UNCHANGED <<priv, mstatus, prot, rets>> /\ Keeps(held, {})
    BY DEF WriteSatp, Same, Next1
<1>4. Forward
    BY <1>1, <1>3, Unwritten DEF Forward, Ready
<1>5. satp' = [on |-> Step.on, asid |-> IF Step.on THEN Step.asid ELSE 0]
    BY DEF WriteSatp
<1>6. satp' \in [on : BOOLEAN, asid : Asids]
    BY SMT, <1>2, <1>5 DEF Asids
<1>7. Ranges'
    BY <1>3, <1>6 DEF Ranges, MachineInv
<1> QED BY <1>3, <1>4, <1>7 DEF Stays

LEMMA TablesStay ==
    ASSUME MachineInv, RegsInv, Tables
    PROVE  Stays
<1>1. Ready /\ Step.op = "hspt"
    BY DEF Tables, Does
<1>2. /\ pc' = pc + 1 /\ test' = test /\ machine' = machine /\ run' \in {"exits", "test"}
      /\ UNCHANGED <<priv, mstatus, prot, rets>> /\ Keeps(held, {})
    BY DEF Tables, Same, Next1
<1>3. Forward
    BY <1>1, <1>2, Unwritten DEF Forward
<1>4. satp' \in {satp, [on |-> TRUE, asid |-> 0]}
    BY DEF Tables
<1>5. satp' \in [on : BOOLEAN, asid : Asids]
    <2>1. [on |-> TRUE, asid |-> 0] \in [on : BOOLEAN, asid : Asids]
        BY SMT DEF Asids
    <2> QED BY <1>4, <2>1 DEF MachineInv, Ranges
<1>6. Ranges'
    BY <1>2, <1>5 DEF Ranges, MachineInv
<1> QED BY <1>2, <1>3, <1>6 DEF Stays

LEMMA AccessStays ==
    ASSUME MachineInv, RegsInv, HeldSound, Access
    PROVE  Stays
<1>1. Ready /\ Step.op = "do"
    BY DEF Access, Does
<1>2. Step.kind \in Kinds \cup {"code"} /\ Step.page \in Int
    BY <1>1, StepIs, StepParts
<1> DEFINE k == IF Step.kind = "code" THEN "store" ELSE Step.kind
           p == Effective(k, priv, mstatus)
<1>3. PICK r \in Results(k, Step.page, p) :
          /\ IF r.cause # "none"
             THEN Trapped(r.cause, k) /\ UNCHANGED rets
             ELSE /\ run' = IF k \in Fetches /\ (k = "fetch" \/ r.frame \notin rets)
                            THEN "derailed" ELSE "test"
                  /\ rets' = IF Step.kind = "code" THEN rets \cup {r.frame} ELSE rets
                  /\ UNCHANGED <<excpt, mstatus>>
          /\ Next1 /\ UNCHANGED <<machine, test, priv, medeleg, satp, prot, hspt, failed>>
          /\ Keeps(held, IF satp.on /\ p # M
                         THEN {Step.page} \cup (IF Crossing(k) THEN {Step.page + 1} ELSE {})
                         ELSE {})
    BY DEF Access
<1>4. run' \in {"exits", "test", "derailed"} \cup Trapping
    <2>1. CASE r.cause = "none"
        BY <1>3, <2>1
    <2>2. CASE r.cause # "none"
        <3>1. Trapped(r.cause, k)
            BY <1>3, <2>2
        <3> QED BY <3>1, TrapsEnd DEF Trapped
    <2> QED BY <2>1, <2>2
<1>5. Forward
    BY <1>1, <1>3, <1>4, Unwritten DEF Forward, Next1
<1>6. mstatus' \in {mstatus, [mstatus EXCEPT !.mprv = FALSE, !.mpp = HU]}
    BY <1>3 DEF Trapped
<1>7. rets' \subseteq Nat
    <2>1. CASE r.cause = "none" /\ Step.kind = "code"
        <3>1. r \in Results("store", Step.page, p)
            BY <1>3, <2>1
        <3>2. r.frame \in Nat
            BY <1>2, <2>1, <3>1, StoreType DEF MachineInv
        <3> QED BY <1>3, <2>1, <3>2 DEF MachineInv, Ranges
    <2>2. CASE ~(r.cause = "none" /\ Step.kind = "code")
        <3>1. rets' = rets
            BY <1>3, <2>2
        <3> QED BY <3>1 DEF MachineInv, Ranges
    <2> QED BY <2>1, <2>2
<1>8. Ranges'
    BY <1>3, <1>6, <1>7 DEF MachineInv, Ranges
<1>9. \E pages \in SUBSET Int : Keeps(held, pages)
    <2>1. Step.page + 1 \in Int
        BY <1>2
    <2> QED BY <1>2, <1>3, <2>1
<1> QED BY <1>5, <1>8, <1>9 DEF Stays

(* reset_state opens all memory by the first entry of PMP, unless that is  *)
(* locked: and then it is open already.                                    *)
LEMMA FullAccessOpens ==
    ASSUME Layout, NEW regs \in PmpKept PROVE FullAccess(regs) \in PmpFull
<1> DEFINE wiped == Cleared(regs)
           open == WriteCfg(wiped, 0, RWXT)
           full == WriteAddr(open, 0, Top)
<1>1. regs \in Regs /\ RWXT \in SUBSET Bits /\ 0 \in Slots /\ 1 \in Slots
    BY DEF PmpKept, RWXT, Bits, Slots
<1>2. /\ wiped \in Regs /\ wiped.addr = regs.addr
      /\ \A i \in {0, 1} : wiped.cfg[i] = IF "L" \in regs.cfg[i] THEN regs.cfg[i] ELSE {}
    BY <1>1, AfterClear
<1> HIDE DEF wiped
<1>3. /\ open \in Regs /\ open.addr = wiped.addr
      /\ open.cfg[0] = IF "L" \in wiped.cfg[0] THEN wiped.cfg[0] ELSE RWXT
      /\ open.cfg[1] = wiped.cfg[1]
    BY <1>1, <1>2, CfgWritten
<1> HIDE DEF open
<1>4. /\ full \in Regs /\ full.cfg = open.cfg
      /\ full.addr[0] = IF AddrLocked(open, 0) THEN open.addr[0] ELSE Top
    BY <1>1, <1>3, TopTypes, AddrWritten
<1>5. FullAccess(regs) = full
    BY DEF FullAccess, wiped, open
<1> HIDE DEF full
<1>6. RWXT \subseteq full.cfg[0]
    BY <1>2, <1>3, <1>4 DEF PmpKept
<1>7. AddrLocked(open, 0) => AddrLocked(regs, 0)
    <2>1. "L" \notin RWXT
        BY DEF RWXT
    <2> QED BY <1>2, <1>3, <2>1 DEF AddrLocked, CfgLocked
<1>8. full.addr[0] > Home
    <2>1. CASE AddrLocked(open, 0)
        BY <1>2, <1>3, <1>4, <1>7, <2>1 DEF PmpKept
    <2>2. CASE ~AddrLocked(open, 0)
        BY <1>4, <2>2, TopFar
    <2> QED BY <2>1, <2>2
<1> QED BY <1>4, <1>5, <1>6, <1>8 DEF PmpFull, PmpFar, PmpKept

(* Where the registers start.                                              *)
LEMMA BlankKept == Blank \in PmpKept
BY TopTypes DEF Blank, PmpKept, Regs, AddrLocked, CfgLocked, Slots, Bits

LEMMA ResetOff == AtReset.pma \in PmaOff
<1> DEFINE pma == [cfg  |-> [i \in Slots |-> IF i >= 12 THEN MapCfg(i) ELSE {}],
                   addr |-> [i \in Slots |-> IF i >= 12 THEN Map(i) ELSE 0]]
<1>1. AtReset.pma = pma
    BY DEF AtReset
<1>2. \A i \in Slots : i >= 12 => i \in 12 .. 15
    BY DEF Slots
<1>3. 0 \in 0 .. Top
    BY TopTypes
<1>4. pma \in Regs
    BY <1>2, <1>3, MapTypes DEF Regs
<1>5. \A i \in 0 .. 11 : i \in Slots /\ pma.cfg[i] = {}
    BY DEF Slots
<1>6. \A i \in 12 .. 15 : pma.cfg[i] = MapCfg(i) /\ pma.addr[i] = Map(i)
    BY DEF Slots
<1> HIDE DEF pma
<1> QED BY <1>1, <1>4, <1>5, <1>6 DEF PmaOff, PmaMap, Off

-----------------------------------------------------------------------------
(* The invariant holds at the start, and of every step.                    *)
LEMMA ScriptOfTable ==
    ASSUME Layout, NEW i \in DOMAIN test_table PROVE test_table[i] \in Scripted
<1>1. test_table \in Seq(Scripted)
    BY AccessFaultScripts, PageFaultScripts, ConcatProperties DEF test_table
<1> QED BY <1>1, ElementOfSeq, LenProperties

LEMMA ScriptInvInit == Layout /\ Init => ScriptInv
<1> SUFFICES ASSUME Layout, Init PROVE ScriptInv
    OBVIOUS
<1>1. test \in Scripted
    <2>1. PICK i \in DOMAIN test_table : test = test_table[i]
        BY DEF Init
    <2> QED BY <2>1, ScriptOfTable
<1>2. PICK f : Along(test, f)
    BY <1>1 DEF Scripted
<1>3. test \in Seq(Steps) /\ Len(test) \in Nat
    BY <1>1, LenProperties DEF Scripted
<1>4. prot = [pmp |-> FullAccess(Blank), pma |-> AtReset.pma]
    BY DEF Init, AtReset
<1>5. prot.pmp \in PmpFull /\ prot.pma \in PmaOff
    BY <1>4, BlankKept, FullAccessOpens, ResetOff
<1>6. RegsInv
    BY <1>4, <1>5 DEF RegsInv, PmpFull, PmpFar, PmpKept, PmaOff, PmaMap
<1>7. Follows /\ MainInv
    <2>1. run = "test" /\ pc = 1 /\ priv = M
        BY DEF Init
    <2>2. f[1].priv = M /\ f[1].pmp = PmpFull /\ f[1].pma = PmaOff
        BY <1>2 DEF Along, Is
    <2> QED BY <1>2, <1>5, <2>1, <2>2 DEF Follows, MainInv
<1>8. Ranges
    BY DEF Ranges, Init, Asids
<1>9. MachineInv
    BY <1>3, <1>8, TablesInvInit DEF MachineInv, Init, Modes, TablesInv
<1>10. HeldSound
    BY DEF HeldSound, Init
<1> QED BY <1>6, <1>7, <1>9, <1>10 DEF ScriptInv

LEMMA StaysInv ==
    ASSUME ScriptInv, Stays, IsTables(hspt') PROVE ScriptInv'
<1>1. MachineInv /\ RegsInv /\ Follows /\ HeldSound
    BY DEF ScriptInv
<1>2. RegsInv' /\ Follows' /\ MainInv' /\ priv' \in Modes /\ pc' \in 1 .. Len(test') + 1
    BY <1>1, ForwardFollows DEF Stays
<1>3. MachineInv'
    BY <1>1, <1>2 DEF MachineInv, Stays, Forward
<1>4. HeldSound'
    <2>1. Home \in Int /\ Watched \subseteq Int /\ satp'.asid \in Asids
        BY <1>1, HomeAssumption, WatchedPages DEF Stays, Ranges
    <2>2. PICK old \in SUBSET held : \E pages \in SUBSET Int : Keeps(old, pages)
        BY DEF Stays
    <2> QED BY <1>1, <2>1, <2>2, KeepsSound
<1> QED BY <1>2, <1>3, <1>4 DEF ScriptInv

LEMMA ResetInv ==
    ASSUME Layout, ScriptInv, ResetState, run \in {"test", "returned"}, pc' \in 1 .. Len(test) + 1,
           IsTables(hspt')
    PROVE  ScriptInv'
<1>1. MachineInv /\ RegsInv /\ HeldSound /\ Follows
    BY DEF ScriptInv
<1>2. PICK f : Along(test, f) /\ prot.pmp \in f[pc].pmp /\ prot.pma \in f[pc].pma
    BY <1>1 DEF Follows
<1>3. f[pc] \in State
    BY <1>1, <1>2 DEF Along, MachineInv
<1>4. prot.pmp \in PmpKept /\ prot.pma \in PmaKept
    BY <1>2, <1>3 DEF State
<1>5. prot'.pmp \in PmpFull /\ prot'.pma \in PmaKept
    BY <1>1, <1>4, FullAccessOpens DEF RegsInv, ResetState
<1>6. RegsInv'
    BY <1>1, <1>5 DEF RegsInv, ResetState, PmpFull, PmpFar, PmpKept
<1>7. Follows' /\ MainInv'
    BY <1>2, <1>5 DEF Follows, MainInv, ResetState
<1>8. Ranges'
    BY <1>1 DEF Ranges, ResetState, Asids, MachineInv
<1>9. MachineInv'
    BY <1>1, <1>8 DEF MachineInv, ResetState, Modes
<1>10. HeldSound'
    BY DEF HeldSound, ResetState
<1> QED BY <1>6, <1>7, <1>9, <1>10 DEF ScriptInv

LEMMA ScriptInvStep == Layout /\ TablesInv /\ ScriptInv /\ [Next]_vars => ScriptInv'
<1> SUFFICES ASSUME Layout, TablesInv, ScriptInv, [Next]_vars PROVE ScriptInv'
    OBVIOUS
<1>1. IsTables(hspt')
    BY TablesInvStep DEF TablesInv
<1>2. MachineInv /\ RegsInv /\ HeldSound /\ Follows
    BY DEF ScriptInv
<1>3. CASE GotoPriv
    BY <1>1, <1>2, <1>3, GotoPrivStays, StaysInv
<1>4. CASE Arm_ \/ Assert_ \/ DelegateCause \/ SfenceVma \/ OneEntry
    BY <1>1, <1>2, <1>4, PlainStay, StaysInv
<1>5. CASE Access
    BY <1>1, <1>2, <1>5, AccessStays, StaysInv
<1>6. CASE Status
    BY <1>1, <1>2, <1>6, StatusStays, StaysInv
<1>7. CASE WriteSatp
    BY <1>1, <1>2, <1>7, WriteSatpStays, StaysInv
<1>8. CASE ClearCfg \/ SetCfg \/ UnsetCfg \/ WriteBound \/ OpenAll
    BY <1>1, <1>2, <1>8, WritesStay, StaysInv
<1>9. CASE Tables
    BY <1>1, <1>2, <1>9, TablesStay, StaysInv
<1>10. CASE TestEnd
    <2>1. pc' \in 1 .. Len(test) + 1 /\ run = "test"
        BY <1>2, <1>10, StepIs DEF TestEnd, Does, Next1, Ready
    <2> QED BY <1>1, <1>10, <2>1, ResetInv DEF TestEnd
<1>11. CASE NextTest
    BY <1>1, <1>2, <1>11, ResetInv DEF NextTest, MachineInv
<1>12. CASE FallOff \/ Lose
    <2>1. UNCHANGED <<machine, test, pc, priv, mstatus, satp, prot, hspt, held, rets>>
        BY <1>12 DEF FallOff, Lose, csrs
    <2>2. run \in {"test", "returned"} /\ run' \in {"returned"} \cup Trapping
        <3>1. CASE FallOff
            BY <3>1 DEF FallOff
        <3>2. CASE Lose
            BY <3>2, TrapsEnd DEF Lose, Ready
        <3> QED BY <1>12, <3>1, <3>2
    <2>3. MachineInv'
        BY <1>2, <2>1, <2>2 DEF MachineInv, Ranges
    <2>4. Follows' /\ MainInv' /\ RegsInv'
        BY <1>2, <2>1, <2>2 DEF Follows, MainInv, RegsInv, Trapping
    <2>5. HeldSound'
        BY <1>2, <2>1 DEF HeldSound
    <2> QED BY <2>3, <2>4, <2>5 DEF ScriptInv
<1>13. CASE UNCHANGED vars
    BY <1>2, <1>13 DEF vars, ScriptInv, MachineInv, Ranges, HeldSound, RegsInv, Follows, MainInv
<1> QED
    BY <1>3, <1>4, <1>5, <1>6, <1>7, <1>8, <1>9, <1>10, <1>11, <1>12, <1>13 DEF Next

-----------------------------------------------------------------------------
(* The first entry that matches a frame.                                   *)
LEMMA FirstExists ==
    ASSUME NEW S \in SUBSET (0 .. 15), 13 \in S
    PROVE  \E i \in 0 .. 13 : i \in First(S)
<1> SUFFICES \E i \in 0 .. 13 : i \in S /\ \A j \in S : i <= j
    BY DEF First
<1>1. \E i \in 0 .. 13 : i \in S /\ \A j \in 0 .. i - 1 : j \notin S
    <2>1. CASE \E i \in 0 .. 3 : i \in S
        BY <2>1
    <2>2. CASE ~(\E i \in 0 .. 3 : i \in S) /\ \E i \in 4 .. 7 : i \in S
        BY <2>2
    <2>3. CASE ~(\E i \in 0 .. 7 : i \in S) /\ \E i \in 8 .. 10 : i \in S
        BY <2>3
    <2>4. CASE ~(\E i \in 0 .. 10 : i \in S)
        BY <2>4
    <2> QED BY <2>1, <2>2, <2>3, <2>4
<1> QED BY <1>1

LEMMA PmpOpen ==
    ASSUME Layout, NEW regs \in PmpFull PROVE PmpAllows(regs, Matching(regs, Home), HS, Rights)
<1> DEFINE S == Matching(regs, Home)
<1>1. /\ "T" \in regs.cfg[0] /\ Rights \subseteq regs.cfg[0] /\ regs.addr[0] > Home
      /\ regs.addr[0] \in Int
    BY DEF PmpFull, PmpFar, PmpKept, Regs, Slots, RWXT, Rights
<1>2. S \subseteq Slots /\ 0 \in S
    BY <1>1, HomeAssumption DEF Matching, Slots
<1> HIDE DEF S
<1>3. \A i \in First(S) : i = 0
    BY <1>2 DEF First, Slots
<1> QED BY <1>1, <1>2, <1>3 DEF PmpAllows, S

LEMMA HomeRange == ASSUME Layout PROVE Home \in Nat /\ Map(12) <= Home /\ Home < Map(13)
<1>1. Map(12) = \h80000 /\ Map(13) = \h480000
    BY DEF Map
<1> QED BY SMT, <1>1 DEF Layout

LEMMA PmaOpen ==
    ASSUME Layout, NEW regs \in PmaKept PROVE PmaAllows(regs, Matching(regs, Home), Rights)
<1> DEFINE S == Matching(regs, Home)
<1>1. \A i \in 0 .. 15 : regs.addr[i] \in Int
    BY SMT DEF PmaKept, PmaMap, Regs, Slots
<1>2. /\ regs.addr[12] = Map(12) /\ regs.addr[13] = Map(13)
      /\ regs.cfg[13] = RWXTC
    <2>1. MapCfg(13) = RWXTC
        BY DEF MapCfg
    <2> QED BY <2>1 DEF PmaKept, PmaMap
<1>3. "T" \in RWXTC /\ Rights \subseteq RWXTC
    BY DEF RWXTC, Rights
<1>4. S \in SUBSET (0 .. 15) /\ 13 \in S
    BY <1>1, <1>2, <1>3, HomeRange DEF Matching, Slots
<1>5. PICK i \in 0 .. 13 : i \in First(S)
    BY <1>4, FirstExists
<1>6. /\ "T" \in regs.cfg[i] /\ Home < regs.addr[i]
      /\ i > 0 => regs.addr[i - 1] <= Home
    BY <1>5 DEF First, Matching
<1>7. Rights \subseteq regs.cfg[i]
    <2>1. CASE i = 0
        BY <1>6, <2>1 DEF PmaKept, PmaMap
    <2>2. CASE i \in 1 .. 3
        BY <1>1, <1>6, <2>2, HomeRange DEF PmaKept, Far
    <2>3. CASE i \in 4 .. 11
        BY <1>6, <2>3 DEF PmaKept, PmaMap
    <2>4. CASE i = 12
        BY <1>1, <1>2, <1>6, <2>4, HomeRange
    <2>5. CASE i = 13
        BY <1>2, <1>3, <2>5
    <2> QED BY <2>1, <2>2, <2>3, <2>4, <2>5
<1> QED BY <1>5, <1>7 DEF PmaAllows, S

-----------------------------------------------------------------------------
(* All of it: the tables of page_tables.c, and the script.                 *)
MemoryInv == TablesInv /\ ScriptInv

LEMMA MemoryInvariant == Spec => []MemoryInv
<1>1. Init => MemoryInv
    BY LayoutAssumption, TablesInvInit, ScriptInvInit DEF MemoryInv
<1>2. MemoryInv /\ [Next]_vars => MemoryInv'
    BY LayoutAssumption, TablesInvStep, ScriptInvStep DEF MemoryInv
<1> QED BY <1>1, <1>2, PTL DEF Spec

(* The state is well typed through each of the 194 tests: the              *)
(* registers hold bits and bounds, the step to come is within the test     *)
(* that runs, and no translation is kept that memory refused.              *)
THEOREM MemoryTypeOK == Spec => []TypeOK
<1>1. MemoryInv => TypeOK
    <2> SUFFICES ASSUME MemoryInv PROVE TypeOK
        OBVIOUS
    <2>1. MachineInv /\ RegsInv /\ HeldSound
        BY DEF MemoryInv, ScriptInv
    <2>2. AreRegisters(prot.pmp) /\ AreRegisters(prot.pma)
        BY <2>1, RegsTyped DEF RegsInv
    <2>3. \A h \in held : h.asid \in {0, \h1234} /\ h.tr.what \in {"leaf", "page"}
        BY <2>1 DEF HeldSound, Kept, Asids
    <2> QED BY <2>1, <2>2, <2>3 DEF TypeOK, MachineInv, Trapping, Ranges, Modes, Asids, IsTables
<1> QED BY <1>1, MemoryInvariant, PTL

(* Whenever a test comes to a statement that reads or writes a control     *)
(* register, or fences, the program is at a privilege from which it can:   *)
(* none of the 194 registered tests lacks the goto_priv it needs, whatever *)
(* its accesses come to and wherever their traps are taken.                *)
THEOREM CsrsAlwaysInReach == Spec => []CsrsInReach
<1>1. MemoryInv => CsrsInReach
    <2> SUFFICES ASSUME MemoryInv, Ready PROVE Legal(Lowest(Step))
        BY DEF CsrsInReach
    <2>1. MachineInv /\ Follows /\ run = "test"
        BY DEF MemoryInv, ScriptInv, Ready
    <2>2. PICK f : Along(test, f) /\ priv = f[pc].priv
        BY <2>1 DEF Follows
    <2>3. Fit(Step, f[pc], f[pc + 1])
        BY <2>1, <2>2, StepIs
    <2> QED BY <2>2, <2>3 DEF Fit, Legal, Lowest, MachineOnly
<1> QED BY <1>1, MemoryInvariant, PTL

(* Whichever of the tests has run, and whatever it has locked, main comes  *)
(* to the next one with the page it runs from still open to fetches, loads *)
(* and stores, under PMP and under PMA (reset_state in rvh_test.c, main in *)
(* main.c).                                                                *)
THEOREM NextTestAlwaysReaches == Spec => []NextTestReaches
<1>1. MemoryInv => NextTestReaches
    <2> SUFFICES ASSUME MemoryInv, run = "main" PROVE Allowed(prot, Home, HS, {"R", "W", "X"})
        BY DEF NextTestReaches
    <2>1. prot.pmp \in PmpFull /\ prot.pma \in PmaKept
        BY DEF MemoryInv, ScriptInv, MainInv
    <2>2. Rights \ {"C"} = Rights /\ Rights = {"R", "W", "X"} /\ Home >= 0
        BY HomeAssumption DEF Rights
    <2> QED BY <2>1, <2>2, LayoutAssumption, PmpOpen, PmaOpen DEF Allowed
<1> QED BY <1>1, MemoryInvariant, PTL
=============================================================================
