----------------------------- MODULE PageTables -----------------------------
(***************************************************************************)
(* The static page tables of src/src/page_tables.c in their sv48 build:    *)
(* hspt_init, which every memory test starts with, and the functions that  *)
(* change single entries or a whole table of leaves afterwards.            *)
(*                                                                         *)
(* A physical address is its frame, a virtual one its page (4 KiB each).   *)
(* An entry of hspt[t][i] is the set of its flags and the frame it holds;  *)
(* "N" stands for the reserved bits 59..54, and a frame with a bit above   *)
(* the memory of every platform is Nowhere. The two memory-type bits of    *)
(* the Svpbmt pages are left out, and of the test pages only those of the  *)
(* constant Pages are kept: no function treats one leaf unlike another.    *)
(***************************************************************************)
EXTENDS Integers, FiniteSets

CONSTANTS Image,     \* frame of hspt[0]; the five tables follow each other
          Pages      \* indices of the test pages that are modelled

ASSUME PagesAssumption == Pages \subseteq 0 .. 511
ASSUME ImageAssumption == Image \in Nat

-----------------------------------------------------------------------------
(* Pages of enum test_page (page_tables.h) that the memory tests use.      *)
VSRWX_GURWX == 0
VSRWX_GUX == 4
VSRW_GURWX == 5
VSRW_GURW == 6
VSR_GURWX == 15
VSR_GUR == 18
VSX_GURWX == 20
VSX_GUX == 24
VSURWX_GRWX == 25
VSV_GV == 29
VSURW_GR == 33
VSUR_GR == 43
VSUX_GX == 49
VSURWX_GURWX == 50
VSRWX_GRWX == 75
VSRWX_GRW == 76
VSRWX_GRX == 77
VSRWX_GR == 78
VSRWX_GX == 79
VSRW_GRWX == 80
VSRW_GRW == 81
VSRW_GR == 83
VSRX_GRWX == 85
VSRX_GX == 89
VSR_GRWX == 90
VSR_GR == 93
VSR_GX == 94
VSW_GI == 95
VSX_GRWX == 96
VSX_GX == 100
VSI_GI == 101
SWITCH1 == 109
SWITCH2 == 110
X == 250

(* TEST_VPAGE_BASE and TEST_PPAGE_BASE with MEM_BASE = 0x80000000 and      *)
(* MEM_SIZE = 256 MiB: the page and the frame of a test page.              *)
TEST_PPAGE_BASE == \h88000
Vp(page) == \h100000 + page
Pp(page) == TEST_PPAGE_BASE + page
Table(t) == Image + t
SUPERPAGE_SIZE(n) == IF n = 0 THEN 134217728 ELSE IF n = 1 THEN 262144 ELSE 512

(* The column vs of test_page_perm_table, by the index of the page.        *)
test_page_perm_table(i) ==
    CASE i \in (0 .. 4) \cup (75 .. 79) \cup {102} \cup (108 .. 121) \cup {250, 511}
                                               -> {"V", "R", "W", "X"}
      [] i \in (5 .. 9) \cup (80 .. 84) \cup {103} -> {"V", "R", "W"}
      [] i \in (10 .. 14) \cup (85 .. 89)      -> {"V", "R", "X"}
      [] i \in (15 .. 19) \cup (90 .. 94)      -> {"V", "R"}
      [] i \in (20 .. 24) \cup (96 .. 100)     -> {"V", "X"}
      [] i = 29                                -> {"V"}
      [] i = 95                                -> {"V", "W"}
      [] i \in (25 .. 28) \cup (50 .. 54)      -> {"V", "U", "R", "W", "X"}
      [] i \in (30 .. 34) \cup (55 .. 59)      -> {"V", "U", "R", "W"}
      [] i \in (35 .. 39) \cup (60 .. 64)      -> {"V", "U", "R", "X"}
      [] i \in (40 .. 44) \cup (65 .. 69)      -> {"V", "U", "R"}
      [] i \in (45 .. 49) \cup (70 .. 74)      -> {"V", "U", "X"}
      [] OTHER                                 -> {}

-----------------------------------------------------------------------------
(* The tables: the entries some function of page_tables.c writes.          *)
Nowhere == -1
Flag == {"V", "R", "W", "X", "U", "G", "A", "D", "N"}
Pte == [flags : SUBSET Flag, ppn : Nat \cup {Nowhere}]

Gigapages == {<<1, i>> : i \in 0 .. 3}
Megapages == {<<3, i>> : i \in 0 .. 3}
Leaves == {<<4, i>> : i \in Pages}
HugePage == <<0, 1>>
Pointers == {<<0, 0>>, <<1, 4>>, <<1, 5>>, <<2, 0>>}
Entries == Gigapages \cup Megapages \cup Leaves \cup Pointers \cup {HugePage}

Empty == [flags |-> {}, ppn |-> 0]
Pointer(t) == [flags |-> {"V"}, ppn |-> Table(t)]
Superpage(frame) == [flags |-> {"V", "R", "W", "X", "A", "D"}, ppn |-> frame]
TestLeaf(i, frame) == [flags |-> {"A", "D"} \cup test_page_perm_table(i), ppn |-> frame]

(* .bss: all entries are zero until the first hspt_init.                   *)
Zero == [e \in Entries |-> Empty]

With(pt, E, flags) == [e \in Entries |-> IF e \in E
                          THEN [pt[e] EXCEPT !.flags = @ \cup flags] ELSE pt[e]]
Without(pt, E, flags) == [e \in Entries |-> IF e \in E
                             THEN [pt[e] EXCEPT !.flags = @ \ flags] ELSE pt[e]]
Overflown(pt, E) == [e \in Entries |-> IF e \in E
                        THEN [pt[e] EXCEPT !.ppn = Nowhere] ELSE pt[e]]

hspt_initBug(pt) ==
    [e \in Entries |->
        CASE e = HugePage      -> pt[e]
          [] e = <<0, 0>>      -> Pointer(1)
          [] e = <<1, 4>>      -> Pointer(2)
          [] e = <<1, 5>>      -> Pointer(3)
          [] e = <<2, 0>>      -> Pointer(4)
          [] e \in Gigapages   -> Superpage(e[2] * SUPERPAGE_SIZE(2))
          [] e \in Megapages   -> Superpage(4 * SUPERPAGE_SIZE(1) + e[2] * SUPERPAGE_SIZE(2))
          [] OTHER             -> TestLeaf(e[2], Pp(e[2]))]

hspt_init(pt) ==
    [e \in Entries |->
        CASE e = HugePage      -> pt[e]
          [] e = <<0, 0>>      -> Pointer(1)
          [] e = <<1, 4>>      -> Pointer(2)
          [] e = <<1, 5>>      -> Pointer(3)
          [] e = <<2, 0>>      -> Pointer(4)
          [] e \in Gigapages   -> Superpage(e[2] * SUPERPAGE_SIZE(1))
          [] e \in Megapages   -> Superpage(4 * SUPERPAGE_SIZE(1) + e[2] * SUPERPAGE_SIZE(2))
          [] OTHER             -> TestLeaf(e[2], Pp(e[2]))]

hspt_u_mode_allow(pt) == With(pt, Gigapages \cup Megapages \cup Leaves, {"U"})
hspt_u_mode_allow_no_leaf(pt) == With(pt, Gigapages \cup Megapages, {"U"})
hspt_del_D(pt) == Without(pt, Leaves, {"D"})
hspt_del_ABug(pt) == Without(pt, Leaves, {"D"})
hspt_del_A(pt) == Without(pt, Leaves, {"A"})
hspt_del_R(pt) == Without(pt, Leaves, {"R"})
hspt_del_W(pt) == Without(pt, Leaves, {"W"})
hspt_del_X(pt) == Without(pt, Leaves, {"X"})
hspt_del_V(pt) == Without(pt, Leaves, {"V"})
hspt_add_X(pt) == With(pt, Leaves, {"X"})
hspt_add_G(pt) == With(pt, Leaves, {"G"})
hspt_add_reserved_bits(pt) == With(pt, Leaves, {"N"})
hspt_ptw_ppn_high_bit_overflow_setup(pt) == Overflown(pt, {<<2, 0>>})
hspt_llptw_ppn_high_bit_overflow_setup(pt) == Overflown(pt, Leaves)

hspt_1GB_superpage_misalign_setupBug(pt) ==
    [pt EXCEPT ![<<1, 2>>] = Superpage(3 * SUPERPAGE_SIZE(1) + \h30000)]
hspt_2MB_superpage_misalign_setup(pt) ==
    [pt EXCEPT ![<<3, 0>>] = Superpage(4 * SUPERPAGE_SIZE(1) + \h100)]
hspt_2MB_superpage_align_boundary_setup(pt) ==
    [pt EXCEPT ![<<3, 0>>] = Superpage(4 * SUPERPAGE_SIZE(1) + \h200)]
hspt_1GB_superpage_misalign_setup(pt) ==
    [pt EXCEPT ![<<1, 3>>] = Superpage(3 * SUPERPAGE_SIZE(1) + \h30000)]
hspt_1GB_superpage_align_boundary_setup(pt) ==
    [pt EXCEPT ![<<1, 3>>] = Superpage(3 * SUPERPAGE_SIZE(1) + \h40000)]
set_superpage_512G(pt) == [pt EXCEPT ![HugePage] = Superpage(SUPERPAGE_SIZE(0))]
hspt_512GB_superpage_misalign_setup(pt) ==
    [pt EXCEPT ![HugePage] = Superpage(SUPERPAGE_SIZE(0) + \h4000000)]
hspt_512GB_superpage_align_boundary_setup(pt) ==
    [pt EXCEPT ![HugePage] = Superpage(SUPERPAGE_SIZE(0) + \h8000000)]

(* What the functions with a page argument leave in its leaf.              *)
pbmt_hspt_to_x(pt, page) == [pt EXCEPT ![<<4, page>>] = TestLeaf(page, Pp(X))]
pbmt_hspt_to_x_base_paddr(pt, page, base) ==
    [pt EXCEPT ![<<4, page>>] = TestLeaf(page, base + X)]
hspt_leaf_change_base_paddr(pt, page, base) ==
    [pt EXCEPT ![<<4, page>>] = TestLeaf(page, base + page)]
hspt_switch(pt) ==
    [pt EXCEPT ![<<4, SWITCH1>>] = pt[<<4, SWITCH2>>], ![<<4, SWITCH2>>] = pt[<<4, SWITCH1>>]]

(* The functions without arguments, by name.                               *)
Setters == {"hspt_init", "hspt_u_mode_allow", "hspt_u_mode_allow_no_leaf", "hspt_del_D",
            "hspt_del_A", "hspt_del_R", "hspt_del_W", "hspt_del_X", "hspt_del_V", "hspt_add_X",
            "hspt_add_G", "hspt_add_reserved_bits", "hspt_ptw_ppn_high_bit_overflow_setup",
            "hspt_llptw_ppn_high_bit_overflow_setup", "hspt_2MB_superpage_misalign_setup",
            "hspt_2MB_superpage_align_boundary_setup", "hspt_1GB_superpage_misalign_setup",
            "hspt_1GB_superpage_align_boundary_setup", "set_superpage_512G",
            "hspt_512GB_superpage_misalign_setup", "hspt_512GB_superpage_align_boundary_setup"}

Called(f, pt) ==
    CASE f = "hspt_init" -> hspt_init(pt)
      [] f = "hspt_u_mode_allow" -> hspt_u_mode_allow(pt)
      [] f = "hspt_u_mode_allow_no_leaf" -> hspt_u_mode_allow_no_leaf(pt)
      [] f = "hspt_del_D" -> hspt_del_D(pt)
      [] f = "hspt_del_A" -> hspt_del_A(pt)
      [] f = "hspt_del_R" -> hspt_del_R(pt)
      [] f = "hspt_del_W" -> hspt_del_W(pt)
      [] f = "hspt_del_X" -> hspt_del_X(pt)
      [] f = "hspt_del_V" -> hspt_del_V(pt)
      [] f = "hspt_add_X" -> hspt_add_X(pt)
      [] f = "hspt_add_G" -> hspt_add_G(pt)
      [] f = "hspt_add_reserved_bits" -> hspt_add_reserved_bits(pt)
      [] f = "hspt_ptw_ppn_high_bit_overflow_setup" -> hspt_ptw_ppn_high_bit_overflow_setup(pt)
      [] f = "hspt_llptw_ppn_high_bit_overflow_setup" -> hspt_llptw_ppn_high_bit_overflow_setup(pt)
      [] f = "hspt_2MB_superpage_misalign_setup" -> hspt_2MB_superpage_misalign_setup(pt)
      [] f = "hspt_2MB_superpage_align_boundary_setup" -> hspt_2MB_superpage_align_boundary_setup(pt)
      [] f = "hspt_1GB_superpage_misalign_setup" -> hspt_1GB_superpage_misalign_setup(pt)
      [] f = "hspt_1GB_superpage_align_boundary_setup" -> hspt_1GB_superpage_align_boundary_setup(pt)
      [] f = "set_superpage_512G" -> set_superpage_512G(pt)
      [] f = "hspt_512GB_superpage_misalign_setup" -> hspt_512GB_superpage_misalign_setup(pt)
      [] f = "hspt_512GB_superpage_align_boundary_setup" -> hspt_512GB_superpage_align_boundary_setup(pt)

-----------------------------------------------------------------------------
(* A hart's walk of the tables: the entry where it ends, the level of that *)
(* entry (3 is a 4 KiB page) and the frames of the tables it has read.     *)
Entry(pt, frame, i) ==
    IF <<frame - Image, i>> \in Entries THEN pt[<<frame - Image, i>>] ELSE Empty

IsPointer(pte) == pte.flags \in {{"V"}, {"V", "G"}}
Index(page, level) ==
    (IF level = 3 THEN page ELSE page \div SUPERPAGE_SIZE(level)) % 512

Walk(pt, page) ==
    LET table[l \in 0 .. 3] ==
            IF l = 0 THEN Table(0) ELSE Entry(pt, table[l - 1], Index(page, l - 1)).ppn
        pte(l) == Entry(pt, table[l], Index(page, l))
        ends(l) == /\ l = 3 \/ ~IsPointer(pte(l))
                   /\ \A k \in 0 .. l - 1 : IsPointer(pte(k))
    IN  CHOOSE w \in {[pte |-> pte(l), level |-> l, read |-> {table[k] : k \in 0 .. l}] :
                         l \in {x \in 0 .. 3 : ends(x)}} : TRUE
=============================================================================
