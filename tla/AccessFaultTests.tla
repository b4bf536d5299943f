--------------------------- MODULE AccessFaultTests ---------------------------
(***************************************************************************)
(* The tests of test_cases/manual_test_cases/memory/access_fault.c, one    *)
(* script each, in the order and under the names of the source: they close *)
(* a range of memory with PMP or PMA, or point a page table entry at no    *)
(* memory, and expect access faults of loads, stores, atomics and fetches, *)
(* bare and translated, in M, S and U mode and under mstatus.MPRV.         *)
(***************************************************************************)
EXTENDS TestSteps

access_fault_load_access_fault_m_lb_pmpcfg_r0_pmpcfg_l1_laf ==
    Go(M) \o Clear("pmp") \o Unset("pmp", 1, R) \o Set("pmp", 1, WXT)
    \o Bounds("pmp", 0, \h200000, \h204000) \o Set("pmp", 1, L) \o Arm \o Do("load", \h200000)
    \o Bounds("pmp", 0, \h208000, \h20C000) \o Expect("LAF") \o Arm \o Do("lr", \h200000)
    \o Bounds("pmp", 0, \h208000, \h20C000) \o Expect("LAF") \o End

access_fault_load_access_fault_hs_lb_pmpcfg_r0_pmpcfg_l1_laf ==
    Go(M) \o Clear("pmp") \o Set("pmp", 0, RWXT) \o Unset("pmp", 1, R) \o Set("pmp", 1, WXT)
    \o Bounds("pmp", 0, \h220000, \h224000) \o Set("pmp", 0, L) \o Set("pmp", 1, L) \o Go(HS)
    \o Try("load", \h220400, "LAF") \o Try("lr", \h220400, "LAF") \o End

access_fault_load_access_fault_hu_lb_pmpcfg_r0_pmpcfg_l1_laf ==
    Go(M) \o Clear("pmp") \o Set("pmp", 0, RWXT) \o Unset("pmp", 1, R) \o Set("pmp", 1, WXT)
    \o Bounds("pmp", 0, \h200000, \h204000) \o Set("pmp", 0, L) \o Set("pmp", 1, L) \o Go(HU)
    \o Try("load", \h200000, "LAF") \o Try("lr", \h200000, "LAF") \o End

access_fault_load_access_fault_m_lb_success_pmpcfg_r0_pmpcfg_l0 ==
    Go(M) \o Clear("pmp") \o Unset("pmp", 1, R) \o Set("pmp", 1, WXT)
    \o Bounds("pmp", 0, \h200000, \h204000) \o Unset("pmp", 1, L) \o Lower(MPRV)
    \o Try("load", \h200000, "none") \o End

access_fault_load_access_fault_hs_lb_pmpcfg_r0_pmpcfg_l0_laf ==
    Go(M) \o Clear("pmp") \o Set("pmp", 0, RWXT) \o Unset("pmp", 1, R) \o Set("pmp", 1, WXT)
    \o Bounds("pmp", 0, \h200000, \h204000) \o Set("pmp", 0, L) \o Unset("pmp", 1, L) \o Go(HS)
    \o Try("load", \h200000, "LAF") \o End

access_fault_load_access_fault_hu_lb_pmpcfg_r0_pmpcfg_l0_laf ==
    Go(M) \o Clear("pmp") \o Set("pmp", 0, RWXT) \o Unset("pmp", 1, R) \o Set("pmp", 1, WXT)
    \o Bounds("pmp", 0, \h200000, \h204000) \o Set("pmp", 0, L) \o Unset("pmp", 1, L) \o Go(HU)
    \o Try("load", \h200000, "LAF") \o End

access_fault_load_access_fault_invalid_addr_range_was_accessed_correct_pmpaddr_range_laf ==
    Go(M) \o Clear("pmp") \o Set("pmp", 0, RWXT) \o Addr("pmp", 0, \h200000) \o Set("pmp", 0, L)
    \o Go(HS) \o Try("load", \h23C000, "LAF") \o End

access_fault_load_access_fault_spanning_two_memory_regions_diff_permissions_some_accessed_success_some_failed ==
    Go(M) \o Clear("pmp") \o Set("pmp", 0, RWXT) \o Unset("pmp", 1, R) \o Set("pmp", 1, WXT)
    \o Bounds("pmp", 0, \h200000, \h204000) \o Set("pmp", 0, L) \o Unset("pmp", 1, L) \o Go(HS)
    \o Try("load", \h7FFFFF, "LAF") \o Try("lr", \h7FFFFF, "LAF") \o End

access_fault_load_access_fault_hs_ld_pmpcfg_r0_pmpcfg_l1_llptw_laf_mmu_open ==
    Go(M) \o Clear("pmp") \o Set("pmp", 0, RWXT) \o Unset("pmp", 1, R) \o Set("pmp", 1, WXT)
    \o Bounds("pmp", 0, Pp(VSR_GRWX), Pp(VSR_GRWX) + 1) \o Set("pmp", 0, L) \o Set("pmp", 1, L)
    \o Fence \o Go(HS) \o Hspt("hspt_init") \o Try("load", Vp(VSR_GRWX), "LAF") \o End

access_fault_load_access_fault_hu_ld_pmpcfg_r0_llptw_laf_mmu_open ==
    Go(M) \o Clear("pmp") \o Set("pmp", 0, RWXT) \o Unset("pmp", 1, R) \o Set("pmp", 1, WXT)
    \o Bounds("pmp", 0, Pp(VSURWX_GURWX), Pp(VSURWX_GURWX) + 1) \o Go(HS) \o Hspt("hspt_init")
    \o Go(M) \o Hspt("hspt_u_mode_allow") \o Fence \o Go(HU) \o Try("load", Vp(VSURWX_GURWX), "LAF")

access_fault_load_access_fault_m_ld_pmpcfg_r0_pmpcfg_l1_mstatus_mprv1_mstatus_mpp_3 ==
    Go(M) \o Preamble("pmp") \o Clear("pmp") \o Bounds("pmp", 0, Pp(VSR_GRWX), Pp(VSR_GRWX) + 2)
    \o Unset("pmp", 1, R) \o Set("pmp", 1, WXTL) \o Go(HS) \o Hspt("hspt_init") \o Go(M)
    \o Raise(MPP) \o Raise(MPRV) \o Arm \o Do("load", Pp(VSR_GRWX)) \o SatpOff \o Expect("LAF")
    \o Lower(MPRV) \o Hspt("hspt_init") \o Hspt("hspt_u_mode_allow") \o Fence \o Lower(MPP)
    \o Raise(MPRV) \o Arm \o Do("load", Vp(VSR_GRWX)) \o SatpOff \o Expect("LAF")
    \o Hspt("hspt_init") \o Fence \o Lower(MPP) \o Raise(MPRV) \o Raise(MPP) \o Arm
    \o Do("load", Vp(VSR_GRWX)) \o SatpOff \o Expect("LAF") \o End

access_fault_load_access_fault_hs_ld_preaf_fault_laf ==
    Set("pmp", 0, RWXT) \o Addr("pmp", 0, Top) \o Go(HS) \o Try("load", Beyond, "LAF") \o Go(M)
    \o Try("load", Beyond, "LAF") \o Go(HU) \o Try("load", Beyond, "LAF") \o End

access_fault_load_access_fault_hs_ld_ptw_laf_mmu_open ==
    Clear("pmp") \o Set("pmp", 0, RWXT) \o Unset("pmp", 1, R) \o Set("pmp", 1, WXT)
    \o Set("pmp", 2, RWXT) \o Go(HS) \o Hspt("hspt_init") \o Go(M)
    \o Bounds("pmp", 0, Table(2), Table(2) + 1) \o Addr("pmp", 2, Top) \o Fence \o Go(HS)
    \o Try("load", Vp(VSRWX_GRWX), "LAF") \o End

access_fault_load_access_fault_hu_ld_ptw_laf_mmu_open ==
    Clear("pmp") \o Set("pmp", 0, RWXT) \o Unset("pmp", 1, R) \o Set("pmp", 1, WXT)
    \o Set("pmp", 2, RWXT) \o Go(HS) \o Hspt("hspt_init") \o Go(M)
    \o Bounds("pmp", 0, Table(2), Table(2) + 1) \o Addr("pmp", 2, Top) \o Go(M)
    \o Hspt("hspt_u_mode_allow") \o Fence \o Go(HU) \o Try("load", Vp(VSRWX_GRWX), "LAF")

access_fault_hu_load_ptw_pmp_tor_laf_mmu_open ==
    Clear("pmp") \o Set("pmp", 0, RWXT) \o Unset("pmp", 1, R) \o Set("pmp", 1, WXT)
    \o Set("pmp", 2, RWXT) \o Go(HS) \o Hspt("hspt_init") \o Go(M)
    \o Bounds("pmp", 0, Table(2), Table(2) + 1) \o Addr("pmp", 2, Top) \o Go(M) \o Fence
    \o Raise(MPRV) \o Raise(MPP) \o Arm \o Do("load", Vp(VSRWX_GRWX)) \o SatpOff \o Expect("LAF")

access_fault_load_access_fault_hs_ld_ptw_takes_pte_ppn_high_bit_overflow_laf_mmu ==
    Go(HS) \o Hspt("hspt_init") \o Go(M) \o Hspt("hspt_ptw_ppn_high_bit_overflow_setup") \o Fence
    \o Go(HS) \o Try("load", Vp(VSRWX_GRWX), "LAF") \o Go(HS) \o Hspt("hspt_init") \o Go(M)
    \o Hspt("hspt_llptw_ppn_high_bit_overflow_setup") \o Fence \o Go(HS)
    \o Try("load", Vp(VSRWX_GRWX), "LAF") \o End

access_fault_load_access_fault_hu_ld_ptw_takes_pte_ppn_high_bit_overflow_laf_mmu ==
    Go(HS) \o Hspt("hspt_init") \o Go(M) \o Hspt("hspt_u_mode_allow")
    \o Hspt("hspt_ptw_ppn_high_bit_overflow_setup") \o Fence \o Go(HU)
    \o Try("load", Vp(VSURWX_GRWX), "LAF")

access_fault_load_access_fault_hu_ld_llptw_takes_pte_ppn_high_bit_overflow_laf_mmu ==
    Go(HS) \o Hspt("hspt_init") \o Go(M) \o Hspt("hspt_u_mode_allow")
    \o Hspt("hspt_llptw_ppn_high_bit_overflow_setup") \o Fence \o Go(HU)
    \o Try("load", Vp(VSURWX_GRWX), "LAF")

access_fault_load_access_fault_m_ld_ptw_takes_pte_ppn_high_bit_overflow_laf_mmu ==
    Go(HS) \o Hspt("hspt_init") \o Go(M) \o Hspt("hspt_ptw_ppn_high_bit_overflow_setup") \o Fence
    \o Raise(MPRV) \o Raise(MPP) \o Arm \o Do("load", Vp(VSRWX_GRWX)) \o SatpOff \o Expect("LAF")

access_fault_load_access_fault_m_ld_llptw_takes_pte_ppn_high_bit_overflow_laf_mmu ==
    Go(HS) \o Hspt("hspt_init") \o Go(M) \o Hspt("hspt_llptw_ppn_high_bit_overflow_setup") \o Fence
    \o Raise(MPRV) \o Raise(MPP) \o Arm \o Do("load", Vp(VSRWX_GRWX)) \o SatpOff \o Expect("LAF")

access_fault_load_access_fault_ld_success ==
    Go(M) \o Preamble("pma") \o Clear("pma") \o Bounds("pma", 0, Table(2), Table(2) + 1)
    \o Set("pma", 1, RWXTC) \o Go(HS) \o Hspt("hspt_init") \o Do("store", Vp(VSRWX_GRWX))
    \o Try("load", Vp(VSRWX_GRWX), "none") \o Go(M) \o Unset("pma", 1, R) \o Go(HS)
    \o Try("load", Vp(VSRWX_GRWX), "none") \o Fence \o Try("load", Vp(VSRWX_GRWX), "LAF") \o Go(M)
    \o Set("pma", 1, R) \o Go(HS) \o Fence \o Try("load", Vp(VSRWX_GRWX), "none") \o End

access_fault_load_pma_a_mismatch_laf_after_sfence ==
    Go(M) \o Preamble("pma") \o Clear("pma") \o Bounds("pma", 0, Table(2), Table(2) + 1)
    \o Set("pma", 1, RWXTC) \o Bounds("pma", 2, Table(2), Table(2) + 1) \o Unset("pma", 3, RW)
    \o Set("pma", 3, XTC) \o Go(HS) \o Hspt("hspt_init") \o Do("store", Vp(VSRWX_GRWX))
    \o Try("load", Vp(VSRWX_GRWX), "none") \o Go(M) \o Unset("pma", 1, T) \o Go(HS)
    \o Try("load", Vp(VSRWX_GRWX), "none") \o Fence \o Try("load", Vp(VSRWX_GRWX), "LAF")

access_fault_load_pma_cache_removed_laf_after_sfence ==
    Go(M) \o Preamble("pma") \o Clear("pma") \o Bounds("pma", 0, Table(2), Table(2) + 1)
    \o Set("pma", 1, RWXTC) \o Go(HS) \o Hspt("hspt_init") \o Do("store", Vp(VSRWX_GRWX))
    \o Try("load", Vp(VSRWX_GRWX), "none") \o Go(M) \o Unset("pma", 1, C) \o Go(HS)
    \o Try("load", Vp(VSRWX_GRWX), "none") \o Fence \o Try("load", Vp(VSRWX_GRWX), "LAF") \o Go(M)
    \o Set("pma", 1, C) \o Go(HS) \o Fence \o Try("load", Vp(VSRWX_GRWX), "none") \o End

access_fault_load_pmp_a_mismatch_laf_after_sfence_pmp_translation_consistency ==
    Go(M) \o Preamble("pmp") \o Clear("pmp") \o Bounds("pmp", 0, Table(2), Table(2) + 1)
    \o Set("pmp", 1, RWXT) \o Bounds("pmp", 2, Table(2), Table(2) + 1) \o Unset("pmp", 3, RW)
    \o Set("pmp", 3, XT) \o Go(HS) \o Hspt("hspt_init") \o Do("store", Vp(VSRWX_GRWX))
    \o Try("load", Vp(VSRWX_GRWX), "none") \o Go(M) \o Unset("pmp", 1, T) \o Go(HS)
    \o Try("load", Vp(VSRWX_GRWX), "none") \o Fence \o Try("load", Vp(VSRWX_GRWX), "LAF")

access_fault_load_access_fault_invalid_addr_range_was_accessed_correct_pmaaddr_range_laf ==
    Go(M) \o Preamble("pma") \o Clear("pma") \o Go(HS) \o Try("load", \h40000000, "LAF") \o Go(M)
    \o Try("load", \h40000000, "LAF") \o End

access_fault_load_access_fault_m_lb_pmacfg_r0_pmacfg_l1_laf ==
    Go(M) \o Preamble("pma") \o Clear("pma") \o Clear("pma") \o Unset("pma", 1, R)
    \o Set("pma", 1, WXT) \o Bounds("pma", 0, \h200000, \h204000) \o Set("pma", 1, L)
    \o Try("load", \h200000, "LAF") \o End

access_fault_load_access_fault_hs_lb_pmacfg_r0_pmacfg_l1_laf ==
    Go(M) \o Preamble("pma") \o Clear("pma")
    \o linknan_pma_cfg0_tor_entry1_encoded(\h220000, \h224000, WXTL) \o Go(HS)
    \o Try("load", \h220400, "LAF") \o End

access_fault_load_access_fault_hu_lb_pmacfg_r0_pmacfg_l1_laf ==
    Go(M) \o Preamble("pma") \o Clear("pma")
    \o linknan_pma_cfg0_tor_entry1_encoded(\h200000, \h204000, WXTL) \o Go(HU)
    \o Try("load", \h200000, "LAF") \o End

access_fault_store_access_fault_m_sb_pmpcfg_w0_pmpcfg_l1_saf ==
    Go(M) \o Clear("pmp") \o Set("pmp", 1, R) \o Unset("pmp", 1, W) \o Set("pmp", 1, XT)
    \o Bounds("pmp", 0, \h200000, \h204000) \o Set("pmp", 1, L) \o Fence
    \o Try("store", \h200000, "SAF") \o End

access_fault_store_access_fault_hs_sb_pmpcfg_w0_pmpcfg_l1_saf ==
    Go(M) \o Clear("pmp") \o Set("pmp", 0, RWXT) \o Set("pmp", 1, R) \o Unset("pmp", 1, W)
    \o Set("pmp", 1, XT) \o Bounds("pmp", 0, \h200000, \h204000) \o Set("pmp", 0, L)
    \o Set("pmp", 1, L) \o Go(HS) \o Try("store", \h200000, "SAF") \o End

access_fault_store_access_fault_hu_sb_pmpcfg_w0_pmpcfg_l1_saf ==
    Go(M) \o Clear("pmp") \o Set("pmp", 0, RWXT) \o Set("pmp", 1, R) \o Unset("pmp", 1, W)
    \o Set("pmp", 1, XT) \o Bounds("pmp", 0, \h200000, \h204000) \o Set("pmp", 0, L)
    \o Set("pmp", 1, L) \o Go(HU) \o Try("store", \h200000, "SAF") \o End

access_fault_store_access_fault_m_sb_success_pmpcfg_w0_pmpcfg_l0 ==
    Go(M) \o Clear("pmp") \o Set("pmp", 1, R) \o Unset("pmp", 1, W) \o Set("pmp", 1, XT)
    \o Bounds("pmp", 0, \h200000, \h204000) \o Unset("pmp", 1, L) \o Try("store", \h200000, "none")
    \o End

access_fault_store_access_fault_hs_sb_pmpcfg_w0_pmpcfg_l0_saf ==
    Go(M) \o Clear("pmp") \o Set("pmp", 0, RWXT) \o Set("pmp", 1, R) \o Unset("pmp", 1, W)
    \o Set("pmp", 1, XT) \o Bounds("pmp", 0, \h200000, \h204000) \o Set("pmp", 0, L)
    \o Unset("pmp", 1, L) \o Go(HS) \o Try("store", \h200000, "SAF") \o End

access_fault_store_access_fault_hu_sb_pmpcfg_w0_pmpcfg_l0_saf ==
    Go(M) \o Clear("pmp") \o Set("pmp", 0, RWXT) \o Set("pmp", 1, R) \o Unset("pmp", 1, W)
    \o Set("pmp", 1, XT) \o Bounds("pmp", 0, \h200000, \h204000) \o Set("pmp", 0, L)
    \o Unset("pmp", 1, L) \o Go(HU) \o Try("store", \h200000, "SAF") \o End

access_fault_store_access_fault_invalid_addr_range_was_accessed_correct_pmpaddr_range_saf ==
    Go(M) \o Clear("pmp") \o Set("pmp", 0, RWXT) \o Addr("pmp", 0, \h200000) \o Set("pmp", 0, L)
    \o Go(HS) \o Try("store", \h200C00, "SAF") \o End

access_fault_store_access_fault_spanning_two_memory_regions_diff_permissions_some_accessed_success_some_failed ==
    Go(M) \o Clear("pmp") \o Set("pmp", 0, RWXT) \o Set("pmp", 1, R) \o Unset("pmp", 1, W)
    \o Set("pmp", 1, XT) \o Bounds("pmp", 0, \h200000, \h204000) \o Set("pmp", 0, L)
    \o Unset("pmp", 1, L) \o Go(HS) \o Try("store", \h7FFFFF, "SAF") \o End

access_fault_store_access_fault_hs_sw_pmpcfg_w0_pmpcfg_l1_saf_mmu_open ==
    Go(M) \o Clear("pmp") \o Set("pmp", 0, RWXT) \o Set("pmp", 1, R) \o Unset("pmp", 1, W)
    \o Set("pmp", 1, XT) \o Bounds("pmp", 0, Pp(VSRWX_GRWX), Pp(VSRWX_GRWX) + 1) \o Set("pmp", 0, L)
    \o Set("pmp", 1, L) \o Fence \o Go(HS) \o Hspt("hspt_init")
    \o Try("store", Vp(VSRWX_GRWX), "SAF") \o End

access_fault_store_access_fault_hu_sd_pmpcfg_w0_llptw_saf_mmu_open ==
    Go(M) \o Clear("pmp") \o Set("pmp", 0, RWXT) \o Set("pmp", 1, R) \o Unset("pmp", 1, W)
    \o Set("pmp", 1, XT) \o Bounds("pmp", 0, Pp(VSURWX_GURWX), Pp(VSURWX_GURWX) + 1) \o Go(HS)
    \o Hspt("hspt_init") \o Go(M) \o Hspt("hspt_u_mode_allow") \o Fence \o Go(HU)
    \o Try("store", Vp(VSURWX_GURWX), "SAF")

access_fault_store_access_fault_m_sd_pmpcfg_w0_pmpcfg_l1_mstatus_mprv1_mstatus_mpp_3 ==
    Go(M) \o Preamble("pmp") \o Clear("pmp") \o Bounds("pmp", 0, Pp(VSRW_GRWX), Pp(VSRW_GRWX) + 1)
    \o Set("pmp", 1, R) \o Unset("pmp", 1, W) \o Set("pmp", 1, XT) \o Unset("pmp", 0, L)
    \o Set("pmp", 1, L) \o Go(M) \o Fence \o Raise(MPRV) \o Raise(MPP) \o Arm
    \o Do("store", Pp(VSRW_GRWX)) \o SatpOff \o Expect("SAF") \o Lower(MPRV) \o Hspt("hspt_init")
    \o Hspt("hspt_u_mode_allow") \o Fence \o Lower(MPP) \o Raise(MPRV) \o Arm
    \o Do("store", Pp(VSRW_GRWX)) \o SatpOff \o Expect("SAF") \o Hspt("hspt_init") \o Fence
    \o Lower(MPP) \o Raise(MPRV) \o Raise(MPP) \o Arm \o Do("store", Vp(VSRW_GRWX)) \o SatpOff
    \o Expect("SAF") \o End

access_fault_store_access_fault_hs_sd_preaf_fault_saf ==
    Set("pmp", 0, RWXT) \o Addr("pmp", 0, Top) \o Go(HS) \o Try("store", Beyond, "SAF") \o Go(M)
    \o Try("store", Beyond, "SAF") \o Go(HU) \o Try("store", Beyond, "SAF") \o End

access_fault_store_access_fault_hs_sd_ptw_saf_mmu_open ==
    Clear("pmp") \o Set("pmp", 0, RWXT) \o Unset("pmp", 1, R) \o Set("pmp", 1, WXT)
    \o Set("pmp", 2, RWXT) \o Go(HS) \o Hspt("hspt_init") \o Go(M)
    \o Bounds("pmp", 0, Table(2), Table(2) + 1) \o Addr("pmp", 2, Top) \o Fence \o Go(HS)
    \o Try("store", Vp(VSRWX_GRWX), "SAF") \o End

access_fault_store_access_fault_hu_sd_ptw_saf_mmu_open ==
    Clear("pmp") \o Set("pmp", 0, RWXT) \o Unset("pmp", 1, R) \o Set("pmp", 1, WXT)
    \o Set("pmp", 2, RWXT) \o Go(HS) \o Hspt("hspt_init") \o Go(M)
    \o Bounds("pmp", 0, Table(2), Table(2) + 1) \o Addr("pmp", 2, Top) \o Go(M)
    \o Hspt("hspt_u_mode_allow") \o Fence \o Go(HU) \o Try("store", Vp(VSRWX_GRWX), "SAF")

access_fault_store_access_fault_m_sd_ptw_saf_mmu_open ==
    Clear("pmp") \o Set("pmp", 0, RWXT) \o Unset("pmp", 1, R) \o Set("pmp", 1, WXT)
    \o Set("pmp", 2, RWXT) \o Go(HS) \o Hspt("hspt_init") \o Go(M)
    \o Bounds("pmp", 0, Table(2), Table(2) + 1) \o Addr("pmp", 2, Top) \o Go(M) \o Fence
    \o Raise(MPRV) \o Raise(MPP) \o Arm \o Do("store", Vp(VSRWX_GRWX)) \o SatpOff \o Expect("SAF")
    \o End

access_fault_store_access_fault_hs_sd_ptw_takes_pte_ppn_high_bit_overflow_saf_mmu ==
    Go(HS) \o Hspt("hspt_init") \o Go(M) \o Hspt("hspt_ptw_ppn_high_bit_overflow_setup") \o Fence
    \o Go(HS) \o Try("store", Vp(VSRWX_GRWX), "SAF") \o Go(HS) \o Hspt("hspt_init") \o Go(M)
    \o Hspt("hspt_llptw_ppn_high_bit_overflow_setup") \o Fence \o Go(HS)
    \o Try("store", Vp(VSRWX_GRWX), "SAF") \o End

access_fault_store_access_fault_hu_sd_ptw_takes_pte_ppn_high_bit_overflow_saf_mmu ==
    Go(HS) \o Hspt("hspt_init") \o Go(M) \o Hspt("hspt_u_mode_allow")
    \o Hspt("hspt_ptw_ppn_high_bit_overflow_setup") \o Fence \o Go(HU)
    \o Try("store", Vp(VSURWX_GRWX), "SAF")

access_fault_store_access_fault_hu_sd_llptw_takes_pte_ppn_high_bit_overflow_saf_mmu ==
    Go(HS) \o Hspt("hspt_init") \o Go(M) \o Hspt("hspt_u_mode_allow")
    \o Hspt("hspt_llptw_ppn_high_bit_overflow_setup") \o Fence \o Go(HU)
    \o Try("store", Vp(VSURWX_GRWX), "SAF")

access_fault_store_access_fault_m_sd_ptw_takes_pte_ppn_high_bit_overflow_saf_mmu ==
    Go(HS) \o Hspt("hspt_init") \o Go(M) \o Hspt("hspt_ptw_ppn_high_bit_overflow_setup") \o Fence
    \o Raise(MPRV) \o Raise(MPP) \o Arm \o Do("store", Vp(VSRWX_GRWX)) \o SatpOff \o Expect("SAF")

access_fault_store_access_fault_m_sd_llptw_takes_pte_ppn_high_bit_overflow_saf_mmu ==
    Go(HS) \o Hspt("hspt_init") \o Go(M) \o Hspt("hspt_llptw_ppn_high_bit_overflow_setup") \o Fence
    \o Raise(MPRV) \o Raise(MPP) \o Arm \o Do("store", Vp(VSRWX_GRWX)) \o SatpOff \o Expect("SAF")

access_fault_store_access_fault_sd_success ==
    Go(M) \o Preamble("pma") \o Clear("pma") \o Bounds("pma", 0, Pp(VSRWX_GRWX), Pp(VSRWX_GRWX) + 1)
    \o Set("pma", 1, RWXTC) \o Go(HS) \o Hspt("hspt_init") \o Try("store", Vp(VSRWX_GRWX), "none")
    \o Try("sc", Vp(VSRWX_GRWX), "none") \o Try("amo", Vp(VSRWX_GRWX), "none") \o Go(M)
    \o Unset("pma", 1, W) \o Go(HS) \o Try("store", Vp(VSRWX_GRWX), "SAF") \o Go(HS)
    \o Try("sc", Vp(VSRWX_GRWX), "SAF") \o Go(HS) \o Try("amo", Vp(VSRWX_GRWX), "SAF")

access_fault_store_pma_a_mismatch_saf_after_sfence ==
    Go(M) \o Preamble("pma") \o Clear("pma") \o Bounds("pma", 0, Table(2), Table(2) + 1)
    \o Set("pma", 1, RWXTC) \o Bounds("pma", 2, Table(2), Table(2) + 1) \o Unset("pma", 3, RW)
    \o Set("pma", 3, XTC) \o Go(HS) \o Hspt("hspt_init") \o Try("store", Vp(VSRWX_GRWX), "none")
    \o Try("sc", Vp(VSRWX_GRWX), "none") \o Try("amo", Vp(VSRWX_GRWX), "none") \o Go(M)
    \o Unset("pma", 1, T) \o Go(HS) \o Try("store", Vp(VSRWX_GRWX), "none")
    \o Try("sc", Vp(VSRWX_GRWX), "none") \o Try("amo", Vp(VSRWX_GRWX), "none") \o Fence
    \o Try("store", Vp(VSRWX_GRWX), "SAF") \o Try("sc", Vp(VSRWX_GRWX), "SAF")
    \o Try("amo", Vp(VSRWX_GRWX), "SAF")

access_fault_store_pma_read_removed_saf_after_sfence ==
    Go(M) \o Preamble("pma") \o Clear("pma") \o Bounds("pma", 0, Table(2), Table(2) + 1)
    \o Set("pma", 1, RWXTC) \o Go(HS) \o Hspt("hspt_init") \o Fence
    \o Try("store", Vp(VSRWX_GRWX), "none") \o Go(M) \o Unset("pma", 1, R) \o Go(HS)
    \o Try("store", Vp(VSRWX_GRWX), "none") \o Fence \o Go(M) \o Do("store", Pp(VSRWX_GRWX))
    \o Go(HS) \o Try("store", Vp(VSRWX_GRWX), "SAF") \o Go(M) \o Set("pma", 1, R) \o Go(HS) \o Fence
    \o Try("store", Vp(VSRWX_GRWX), "none") \o Go(M) \o End

access_fault_store_pma_cache_removed_saf_after_sfence ==
    Go(M) \o Preamble("pma") \o Clear("pma") \o Bounds("pma", 0, Table(2), Table(2) + 1)
    \o Set("pma", 1, RWXTC) \o Go(HS) \o Hspt("hspt_init") \o Try("store", Vp(VSRWX_GRWX), "none")
    \o Try("sc", Vp(VSRWX_GRWX), "none") \o Try("amo", Vp(VSRWX_GRWX), "none") \o Go(M)
    \o Unset("pma", 1, C) \o Go(HS) \o Try("store", Vp(VSRWX_GRWX), "none")
    \o Try("sc", Vp(VSRWX_GRWX), "none") \o Try("amo", Vp(VSRWX_GRWX), "none") \o Fence
    \o Try("store", Vp(VSRWX_GRWX), "SAF") \o Try("sc", Vp(VSRWX_GRWX), "SAF")
    \o Try("amo", Vp(VSRWX_GRWX), "SAF") \o Go(M) \o Set("pma", 1, C) \o Go(HS) \o Fence
    \o Try("store", Vp(VSRWX_GRWX), "none") \o End

access_fault_scalar_misaligned_final_pma_cache_removed_laf_saf_corner ==
    Go(M) \o Preamble("pma") \o Clear("pma") \o Bounds("pma", 0, Pp(VSRWX_GRWX), Pp(VSRWX_GRWX) + 1)
    \o Clear("pma") \o Set("pma", 1, RWXTC) \o Do("store", Pp(VSRWX_GRWX)) \o Go(HS)
    \o Hspt("hspt_init") \o Fence \o Try("unaligned_load", Vp(VSRWX_GRWX), "none")
    \o Try("unaligned_store", Vp(VSRWX_GRWX), "none") \o Go(M) \o Do("store", Pp(VSRWX_GRWX))
    \o Unset("pma", 1, C) \o Go(HS) \o Fence \o Try("unaligned_load", Vp(VSRWX_GRWX), "LAF")
    \o Try("unaligned_store", Vp(VSRWX_GRWX), "SAF") \o Go(M) \o Set("pma", 1, C) \o Go(HS) \o Fence
    \o Try("unaligned_load", Vp(VSRWX_GRWX), "none")
    \o Try("unaligned_store", Vp(VSRWX_GRWX), "none")
    \o Try("unaligned_load", Vp(VSRWX_GRWX), "none") \o End

access_fault_scalar_misaligned_cross_page_tail_pma_cache_removed_laf_saf_corner ==
    Go(M) \o Preamble("pma") \o Bounds("pma", 0, Pp(VSRWX_GRWX), Pp(VSRWX_GRWX) + 1)
    \o Addr("pma", 2, Pp(VSRWX_GRX)) \o Clear("pma") \o Set("pma", 1, RWXTC) \o Set("pma", 2, RWXTC)
    \o Do("store", Pp(VSRWX_GRWX)) \o Do("store", Pp(VSRWX_GRW)) \o Go(HS) \o Hspt("hspt_init")
    \o Fence \o Try("cross_load", Vp(VSRWX_GRWX), "none")
    \o Try("cross_store", Vp(VSRWX_GRWX), "none") \o Go(M) \o Do("store", Pp(VSRWX_GRWX))
    \o Do("store", Pp(VSRWX_GRW)) \o Unset("pma", 2, C) \o Go(HS) \o Fence
    \o Try("cross_load", Vp(VSRWX_GRWX), "LAF") \o Try("cross_store", Vp(VSRWX_GRWX), "SAF")
    \o Go(M) \o Set("pma", 2, C) \o Go(HS) \o Fence \o Try("cross_load", Vp(VSRWX_GRWX), "none")
    \o Try("cross_store", Vp(VSRWX_GRWX), "none") \o Try("cross_load", Vp(VSRWX_GRWX), "none")
    \o End

access_fault_store_pmp_a_mismatch_saf_after_sfence_pmp_translation_consistency ==
    Go(M) \o Preamble("pmp") \o Clear("pmp") \o Bounds("pmp", 0, Table(2), Table(2) + 1)
    \o Set("pmp", 1, RWXT) \o Bounds("pmp", 2, Table(2), Table(2) + 1) \o Unset("pmp", 3, RW)
    \o Set("pmp", 3, XT) \o Go(HS) \o Hspt("hspt_init") \o Try("store", Vp(VSRWX_GRWX), "none")
    \o Try("sc", Vp(VSRWX_GRWX), "none") \o Try("amo", Vp(VSRWX_GRWX), "none") \o Go(M)
    \o Unset("pmp", 1, T) \o Go(HS) \o Try("store", Vp(VSRWX_GRWX), "none")
    \o Try("sc", Vp(VSRWX_GRWX), "none") \o Try("amo", Vp(VSRWX_GRWX), "none") \o Fence
    \o Try("store", Vp(VSRWX_GRWX), "SAF") \o Try("sc", Vp(VSRWX_GRWX), "SAF")
    \o Try("amo", Vp(VSRWX_GRWX), "SAF")

access_fault_store_access_fault_s_invalid_addr_range_was_accessed_correct_pmaaddr_range_saf ==
    Go(M) \o Preamble("pma") \o Clear("pma") \o Go(HS) \o Try("store", \h40000000, "SAF") \o Go(M)
    \o Try("store", \h40000000, "SAF") \o End

access_fault_store_access_fault_m_sd_pmacfg_w0_pmacfg_l1_saf ==
    Go(M) \o Preamble("pma") \o Clear("pma") \o Clear("pma") \o Set("pma", 1, R)
    \o Unset("pma", 1, W) \o Set("pma", 1, XT) \o Bounds("pma", 0, \h200000, \h204000)
    \o Set("pma", 1, L) \o Try("store", \h200000, "SAF") \o End

access_fault_store_access_fault_hs_sd_pmacfg_w0_pmacfg_l1_saf ==
    Go(M) \o Preamble("pma") \o Clear("pma")
    \o linknan_pma_cfg0_tor_entry1_encoded(\h220000, \h224000, RXTCL) \o Go(HS)
    \o Try("store", \h220400, "SAF") \o End

access_fault_store_access_fault_hu_sd_pmacfg_w0_pmacfg_l1_saf ==
    Go(M) \o Preamble("pma") \o Clear("pma")
    \o linknan_pma_cfg0_tor_entry1_encoded(\h200000, \h204000, RXTL) \o Go(HU)
    \o Try("store", \h200000, "SAF") \o End

access_fault_store_access_fault_hs_sd_pmpcfg_w0_saf ==
    Go(M) \o Preamble("pmp") \o Clear("pmp") \o Set("pmp", 0, RWXT) \o Set("pmp", 1, R)
    \o Unset("pmp", 1, W) \o Set("pmp", 1, XT) \o Bounds("pmp", 0, \h220000, \h224000) \o Go(HS)
    \o Try("store", \h220400, "SAF") \o Go(M) \o Bounds("pmp", 0, \h224000, \h220000)
    \o Try("store", \h220400, "none") \o End

access_fault_amo_access_fault_m_amoadd_d_pmpcfg_w0_pmpcfg_l1_saf ==
    Go(M) \o Clear("pmp") \o Set("pmp", 1, R) \o Unset("pmp", 1, W) \o Set("pmp", 1, XT)
    \o Bounds("pmp", 0, \h200000, \h204000) \o Set("pmp", 1, L) \o Try("amo", \h200000, "SAF")
    \o Try("sc", \h200000, "SAF") \o End

access_fault_amo_access_fault_hs_amoadd_d_pmpcfg_w0_pmpcfg_l1_saf ==
    Go(M) \o Clear("pmp") \o Set("pmp", 0, RWXT) \o Set("pmp", 1, R) \o Unset("pmp", 1, W)
    \o Set("pmp", 1, XT) \o Bounds("pmp", 0, \h200000, \h204000) \o Set("pmp", 0, L)
    \o Set("pmp", 1, L) \o Go(HS) \o Try("amo", \h200000, "SAF") \o Try("sc", \h200000, "SAF")
    \o End

access_fault_amo_access_fault_hu_amoadd_d_pmpcfg_w0_pmpcfg_l1_saf ==
    Go(M) \o Clear("pmp") \o Set("pmp", 0, RWXT) \o Set("pmp", 1, R) \o Unset("pmp", 1, W)
    \o Set("pmp", 1, XT) \o Bounds("pmp", 0, \h200000, \h204000) \o Set("pmp", 0, L)
    \o Set("pmp", 1, L) \o Go(HU) \o Try("amo", \h200000, "SAF") \o Try("sc", \h200000, "SAF")
    \o End

access_fault_amo_access_fault_m_amoadd_d_success_pmpcfg_w0_pmpcfg_l0 ==
    Go(M) \o Clear("pmp") \o Set("pmp", 1, R) \o Unset("pmp", 1, W) \o Set("pmp", 1, XT)
    \o Bounds("pmp", 0, \h200000, \h204000) \o Unset("pmp", 1, L) \o Try("amo", \h200000, "none")
    \o End

access_fault_amo_access_fault_hs_amoadd_d_pmpcfg_w0_pmpcfg_l0_saf ==
    Go(M) \o Clear("pmp") \o Set("pmp", 0, RWXT) \o Set("pmp", 1, R) \o Unset("pmp", 1, W)
    \o Set("pmp", 1, XT) \o Bounds("pmp", 0, \h200000, \h204000) \o Set("pmp", 0, L)
    \o Unset("pmp", 1, L) \o Go(HS) \o Try("amo", \h200000, "SAF") \o End

access_fault_amo_access_fault_hu_amoadd_d_pmpcfg_w0_pmpcfg_l0_saf ==
    Go(M) \o Clear("pmp") \o Set("pmp", 0, RWXT) \o Set("pmp", 1, R) \o Unset("pmp", 1, W)
    \o Set("pmp", 1, XT) \o Bounds("pmp", 0, \h200000, \h204000) \o Set("pmp", 0, L)
    \o Unset("pmp", 1, L) \o Go(HU) \o Try("amo", \h200000, "SAF") \o End

access_fault_amo_access_fault_invalid_addr_range_was_accessed_correct_pmpaddr_range_store_guest_fault ==
    Go(M) \o Clear("pmp") \o Set("pmp", 0, RWXT) \o Addr("pmp", 0, \h200000) \o Set("pmp", 0, L)
    \o Go(HS) \o Try("amo", \h200000, "SAF") \o Try("sc", \h200000, "SAF") \o End

access_fault_amo_access_fault_spanning_two_memory_regions_diff_permissions_some_accessed_success_some_failed ==
    Go(M) \o Clear("pmp") \o Set("pmp", 0, RWXT) \o Set("pmp", 1, R) \o Unset("pmp", 1, W)
    \o Set("pmp", 1, XT) \o Bounds("pmp", 0, \h200000, \h204000) \o Set("pmp", 0, L)
    \o Unset("pmp", 1, L) \o Go(HS) \o Try("amo", \h7FFFFF, "SAF") \o End

access_fault_amo_access_fault_hs_amoadd_d_pmpcfg_w0_pmpcfg_l1_saf_mmu_open ==
    Go(M) \o Clear("pmp") \o Set("pmp", 0, RWXT) \o Set("pmp", 1, R) \o Unset("pmp", 1, W)
    \o Set("pmp", 1, XT) \o Bounds("pmp", 0, Pp(VSRWX_GRWX), Pp(VSRWX_GRWX) + 1) \o Set("pmp", 0, L)
    \o Set("pmp", 1, L) \o Fence \o Go(HS) \o Hspt("hspt_init") \o Try("amo", Vp(VSRWX_GRWX), "SAF")
    \o Try("sc", Vp(VSRWX_GRWX), "SAF") \o End

access_fault_amo_access_fault_hu_amo_pmpcfg_w0_llptw_saf_mmu_open ==
    Go(M) \o Clear("pmp") \o Set("pmp", 0, RWXT) \o Set("pmp", 1, R) \o Unset("pmp", 1, W)
    \o Set("pmp", 1, XT) \o Bounds("pmp", 0, Pp(VSURWX_GURWX), Pp(VSURWX_GURWX) + 1) \o Go(HS)
    \o Hspt("hspt_init") \o Go(M) \o Hspt("hspt_u_mode_allow") \o Fence \o Go(HU)
    \o Try("amo", Vp(VSURWX_GURWX), "SAF")

access_fault_amo_access_fault_m_amoadd_d_pmpcfg_w0_pmpcfg_l1_mstatus_mprv1_mstatus_mpp ==
    Go(M) \o Clear("pmp") \o Set("pmp", 0, RWXT) \o Set("pmp", 1, R) \o Unset("pmp", 1, W)
    \o Set("pmp", 1, XT) \o Bounds("pmp", 0, Pp(VSRW_GRWX), Pp(VSRW_GRWX) + 1) \o Unset("pmp", 0, L)
    \o Set("pmp", 1, L) \o Go(M) \o Fence \o Raise(MPRV) \o Raise(MPP) \o Arm
    \o Do("amo", Pp(VSRW_GRWX)) \o SatpOff \o Expect("SAF") \o Lower(MPRV) \o Hspt("hspt_init")
    \o Hspt("hspt_u_mode_allow") \o Fence \o Lower(MPP) \o Raise(MPRV) \o Arm
    \o Do("store", Pp(VSRW_GRWX)) \o SatpOff \o Expect("SAF") \o Hspt("hspt_init") \o Fence
    \o Lower(MPP) \o Raise(MPRV) \o Raise(MPP) \o Arm \o Do("amo", Vp(VSRW_GRWX)) \o SatpOff
    \o Expect("SAF") \o End

access_fault_amo_access_fault_hs_amo_preaf_fault_saf ==
    Set("pmp", 0, RWXT) \o Addr("pmp", 0, Top) \o Go(HS) \o Try("amo", Beyond, "SAF") \o Go(M)
    \o Try("amo", Beyond, "SAF") \o Go(HU) \o Try("amo", Beyond, "SAF") \o End

access_fault_amo_access_fault_hs_amo_ptw_saf_mmu_open ==
    Clear("pmp") \o Set("pmp", 0, RWXT) \o Unset("pmp", 1, R) \o Set("pmp", 1, WXT)
    \o Set("pmp", 2, RWXT) \o Go(HS) \o Hspt("hspt_init") \o Go(M)
    \o Bounds("pmp", 0, Table(2), Table(2) + 1) \o Addr("pmp", 2, Top) \o Go(HS)
    \o Try("amo", Vp(VSRWX_GRWX), "SAF") \o End

access_fault_amo_access_fault_hu_amo_ptw_saf_mmu_open ==
    Clear("pmp") \o Set("pmp", 0, RWXT) \o Unset("pmp", 1, R) \o Set("pmp", 1, WXT)
    \o Set("pmp", 2, RWXT) \o Go(HS) \o Hspt("hspt_init") \o Go(M)
    \o Bounds("pmp", 0, Table(2), Table(2) + 1) \o Addr("pmp", 2, Top) \o Go(M)
    \o Hspt("hspt_u_mode_allow") \o Fence \o Go(HU) \o Try("amo", Vp(VSRWX_GRWX), "SAF")

access_fault_amo_access_fault_m_amo_ptw_saf_mmu_open ==
    Clear("pmp") \o Set("pmp", 0, RWXT) \o Unset("pmp", 1, R) \o Set("pmp", 1, WXT)
    \o Set("pmp", 2, RWXT) \o Go(HS) \o Hspt("hspt_init") \o Go(M)
    \o Bounds("pmp", 0, Table(2), Table(2) + 1) \o Addr("pmp", 2, Top) \o Go(M) \o Fence
    \o Raise(MPRV) \o Raise(MPP) \o Arm \o Do("amo", Vp(VSRWX_GRWX)) \o SatpOff \o Expect("SAF")
    \o End

access_fault_amo_access_fault_hs_amoadd_d_ptw_takes_pte_ppn_high_bit_overflow_saf ==
    Go(HS) \o Hspt("hspt_init") \o Go(M) \o Hspt("hspt_ptw_ppn_high_bit_overflow_setup") \o Fence
    \o Go(HS) \o Try("amo", Vp(VSRWX_GRWX), "SAF") \o Go(HS) \o Hspt("hspt_init") \o Go(M)
    \o Hspt("hspt_llptw_ppn_high_bit_overflow_setup") \o Fence \o Go(HS)
    \o Try("amo", Vp(VSRWX_GRWX), "SAF") \o End

access_fault_amo_access_fault_hu_amoadd_d_ptw_takes_pte_ppn_high_bit_overflow_saf ==
    Go(HS) \o Hspt("hspt_init") \o Go(M) \o Hspt("hspt_u_mode_allow")
    \o Hspt("hspt_ptw_ppn_high_bit_overflow_setup") \o Fence \o Go(HU)
    \o Try("amo", Vp(VSURWX_GRWX), "SAF")

access_fault_amo_access_fault_hu_amoadd_d_llptw_takes_pte_ppn_high_bit_overflow_saf ==
    Go(HS) \o Hspt("hspt_init") \o Go(M) \o Hspt("hspt_u_mode_allow")
    \o Hspt("hspt_llptw_ppn_high_bit_overflow_setup") \o Fence \o Go(HU)
    \o Try("amo", Vp(VSURWX_GRWX), "SAF")

access_fault_amo_access_fault_m_amoadd_d_ptw_takes_pte_ppn_high_bit_overflow_saf ==
    Go(HS) \o Hspt("hspt_init") \o Go(M) \o Hspt("hspt_ptw_ppn_high_bit_overflow_setup") \o Fence
    \o Raise(MPRV) \o Raise(MPP) \o Arm \o Do("amo", Vp(VSRWX_GRWX)) \o SatpOff \o Expect("SAF")

access_fault_amo_access_fault_m_amoadd_d_llptw_takes_pte_ppn_high_bit_overflow_safBug ==
    Go(HS) \o Hspt("hspt_init") \o Hspt("hspt_llptw_ppn_high_bit_overflow_setup") \o Fence
    \o Raise(MPRV) \o Raise(MPP) \o Arm \o Do("amo", Vp(VSRWX_GRWX)) \o SatpOff \o Expect("SAF")

access_fault_amo_access_fault_m_amoadd_d_llptw_takes_pte_ppn_high_bit_overflow_saf ==
    Go(HS) \o Hspt("hspt_init") \o Go(M) \o Hspt("hspt_llptw_ppn_high_bit_overflow_setup") \o Fence
    \o Raise(MPRV) \o Raise(MPP) \o Arm \o Do("amo", Vp(VSRWX_GRWX)) \o SatpOff \o Expect("SAF")

access_fault_amo_legacy_pma_atomic_bit_ignored_lrsc_amo_success ==
    Go(M) \o Preamble("pma") \o Clear("pma") \o Bounds("pma", 0, Table(4), Table(4) + 1)
    \o Set("pma", 1, RWXTC) \o Go(HS) \o Hspt("hspt_init") \o Do("sc", Vp(VSRWX_GRWX))
    \o Try("lr", Vp(VSRWX_GRWX), "none") \o Go(M) \o Go(HS) \o Try("lr", Vp(VSRWX_GRWX), "none")
    \o Try("amo", Vp(VSRWX_GRWX), "none") \o Try("sc", Vp(VSRWX_GRWX), "none") \o End

access_fault_amo_pma_a_mismatch_after_sfence_pma_ptw_consistency ==
    Go(M) \o Preamble("pma") \o Clear("pma") \o Bounds("pma", 0, Table(2), Table(2) + 1)
    \o Set("pma", 1, RWXTC) \o Bounds("pma", 2, Table(2), Table(2) + 1) \o Unset("pma", 3, R)
    \o Set("pma", 3, WXTC) \o Go(HS) \o Hspt("hspt_init") \o Try("lr", Vp(VSRWX_GRWX), "none")
    \o Try("sc", Vp(VSRWX_GRWX), "none") \o Try("amo", Vp(VSRWX_GRWX), "none") \o Go(M)
    \o Unset("pma", 1, T) \o Go(HS) \o Try("lr", Vp(VSRWX_GRWX), "none")
    \o Try("sc", Vp(VSRWX_GRWX), "none") \o Try("amo", Vp(VSRWX_GRWX), "none") \o Fence
    \o Try("lr", Vp(VSRWX_GRWX), "LAF") \o Try("sc", Vp(VSRWX_GRWX), "SAF")
    \o Try("amo", Vp(VSRWX_GRWX), "SAF")

access_fault_amo_pma_cache_removed_lrsc_amo_success ==
    Go(M) \o Preamble("pma") \o Clear("pma") \o Bounds("pma", 0, Table(2), Table(2) + 1)
    \o Set("pma", 1, RWXTC) \o Go(HS) \o Hspt("hspt_init") \o Try("lr", Vp(VSRWX_GRWX), "none")
    \o Try("sc", Vp(VSRWX_GRWX), "none") \o Try("amo", Vp(VSRWX_GRWX), "none") \o Go(M)
    \o Unset("pma", 1, C) \o Go(HS) \o Try("lr", Vp(VSRWX_GRWX), "none")
    \o Try("sc", Vp(VSRWX_GRWX), "none") \o Try("amo", Vp(VSRWX_GRWX), "none") \o Fence
    \o Try("lr", Vp(VSRWX_GRWX), "LAF") \o Try("sc", Vp(VSRWX_GRWX), "SAF")
    \o Try("amo", Vp(VSRWX_GRWX), "SAF")

access_fault_amo_access_fault_s_invalid_addr_range_was_accessed_correct_pmaaddr_range_laf ==
    Go(M) \o Preamble("pma") \o Clear("pma") \o Go(HS) \o Try("lr", \h40000000, "LAF")
    \o Try("sc", \h40000000, "SAF") \o Try("amo", \h40000000, "SAF") \o Go(M)
    \o Try("lr", \h40000000, "LAF") \o Try("sc", \h40000000, "SAF") \o Try("amo", \h40000000, "SAF")
    \o End

access_fault_amo_access_fault_m_amoadd_d_pmacfg_w0_pmacfg_l1_saf ==
    Go(M) \o Preamble("pma") \o Clear("pma") \o Clear("pma") \o Set("pma", 1, R)
    \o Unset("pma", 1, W) \o Set("pma", 1, XTC) \o Bounds("pma", 0, \h200000, \h204000)
    \o Set("pma", 1, L) \o Try("amo", \h200000, "SAF") \o End

access_fault_amo_access_fault_hs_amoadd_d_pmacfg_c0_pmacfg_l1_saf ==
    Go(M) \o Preamble("pma") \o Clear("pma")
    \o linknan_pma_cfg0_tor_entry1_encoded(\h220000, \h224000, RWXTL) \o Go(HS)
    \o Try("amo", \h220400, "SAF") \o End

access_fault_amo_access_fault_hu_amoadd_d_pmacfg_c0_pmacfg_l1_saf ==
    Go(M) \o Preamble("pma") \o Clear("pma")
    \o linknan_pma_cfg0_tor_entry1_encoded(\h200000, \h204000, RWXTL) \o Go(HU)
    \o Try("amo", \h200000, "SAF") \o End

access_fault_amo_access_fault_hs_amoadd_d_pmpcfg_w0_saf ==
    Go(M) \o Preamble("pmp") \o Clear("pmp") \o Set("pmp", 0, RWXT) \o Set("pmp", 1, R)
    \o Unset("pmp", 1, W) \o Set("pmp", 1, XT) \o Bounds("pmp", 0, \h220000, \h224000) \o Go(HS)
    \o Try("amo", \h220400, "SAF") \o Go(M) \o Bounds("pmp", 0, \h224000, \h220000)
    \o Try("amo", \h220400, "none") \o End

access_fault_inst_access_fault_m_fetch_inst_pmpcfg_x0_pmpcfg_l1_iaf ==
    Go(M) \o Clear("pmp") \o Set("pmp", 1, RW) \o Unset("pmp", 1, Exec) \o Set("pmp", 1, T)
    \o Bounds("pmp", 0, \h200000, \h204000) \o Set("pmp", 1, L) \o Try("fetch", \h200000, "IAF")
    \o End

access_fault_inst_access_fault_hs_fetch_inst_pmpcfg_x0_pmpcfg_l1_iaf ==
    Go(M) \o Clear("pmp") \o Set("pmp", 0, RWXT) \o Set("pmp", 1, RW) \o Unset("pmp", 1, Exec)
    \o Set("pmp", 1, T) \o Bounds("pmp", 0, \h200000, \h204000) \o Set("pmp", 0, L)
    \o Unset("pmp", 1, L) \o Go(HS) \o Try("fetch", \h200000, "IAF") \o End

access_fault_inst_access_fault_hu_fetch_inst_pmpcfg_x0_pmpcfg_l1_iaf ==
    Go(M) \o Clear("pmp") \o Set("pmp", 0, RWXT) \o Set("pmp", 1, RW) \o Unset("pmp", 1, Exec)
    \o Set("pmp", 1, T) \o Bounds("pmp", 0, \h200000, \h204000) \o Set("pmp", 0, L)
    \o Unset("pmp", 1, L) \o Go(HU) \o Try("fetch", \h200000, "IAF") \o End

access_fault_inst_access_fault_m_fetch_inst_success_pmpcfg_x0_pmpcfg_l0 ==
    Go(M) \o Clear("pmp") \o Set("pmp", 0, RWXT) \o Set("pmp", 1, RW) \o Unset("pmp", 1, Exec)
    \o Set("pmp", 1, T) \o Bounds("pmp", 0, \h81000, \h82000) \o StoreRet(\h81000)
    \o Try("call", \h81000, "none") \o End

access_fault_inst_access_fault_hs_fetch_inst_pmpcfg_x0_pmpcfg_l0_iaf ==
    Go(M) \o Clear("pmp") \o Set("pmp", 0, RWXT) \o Set("pmp", 1, RW) \o Unset("pmp", 1, Exec)
    \o Set("pmp", 1, T) \o Bounds("pmp", 0, \h200000, \h204000) \o Set("pmp", 0, L)
    \o Unset("pmp", 1, L) \o Go(HS) \o Try("fetch", \h200000, "IAF") \o End

access_fault_inst_access_fault_hu_fetch_inst_pmpcfg_x0_pmpcfg_l0_iaf ==
    Go(M) \o Clear("pmp") \o Set("pmp", 0, RWXT) \o Set("pmp", 1, RW) \o Unset("pmp", 1, Exec)
    \o Set("pmp", 1, T) \o Bounds("pmp", 0, \h200000, \h204000) \o Set("pmp", 0, L)
    \o Unset("pmp", 1, L) \o Go(HU) \o Try("fetch", \h200000, "IAF") \o End

access_fault_inst_access_fault_invalid_addr_range_was_accessed_correct_pmpaddr_range_iaf ==
    Go(M) \o Clear("pmp") \o Set("pmp", 0, RWXT) \o Addr("pmp", 0, \h240000) \o Set("pmp", 0, L)
    \o Go(HS) \o Try("fetch", \h27C000, "IAF") \o End

access_fault_inst_access_fault_spanning_two_memory_regions_diff_permissions_some_accessed_success_some_failed ==
    Go(M) \o Clear("pmp") \o Set("pmp", 0, RWXT) \o Set("pmp", 1, RW) \o Unset("pmp", 1, Exec)
    \o Set("pmp", 1, T) \o Bounds("pmp", 0, \h200000, \h204000) \o Set("pmp", 0, L)
    \o Set("pmp", 1, L) \o Go(HS) \o Try("fetch", \h7FFFFF, "IAF") \o End

access_fault_inst_access_fault_hs_fetch_inst_pmpcfg_x0_pmpcfg_l0_iaf_mmu_open ==
    Go(M) \o Clear("pmp") \o Set("pmp", 0, RWXT) \o Set("pmp", 1, RW) \o Unset("pmp", 1, Exec)
    \o Set("pmp", 1, T) \o Bounds("pmp", 0, Pp(VSX_GRWX), Pp(VSX_GRWX) + 1) \o Fence \o Go(HS)
    \o Hspt("hspt_init") \o Try("fetch", Vp(VSX_GRWX), "IAF") \o Go(M) \o Clear("pmp")
    \o Set("pmp", 0, RWXT) \o Set("pmp", 1, RW) \o Unset("pmp", 1, Exec) \o Set("pmp", 1, T)
    \o Bounds("pmp", 0, Pp(VSX_GRWX), Pp(VSX_GRWX) + 1) \o Set("pmp", 0, L) \o Set("pmp", 1, L)
    \o Fence \o Go(HS) \o Hspt("hspt_init") \o Try("fetch", Vp(VSX_GRWX), "IAF") \o End

access_fault_inst_access_fault_hu_instr_fetch_pmpcfg_w0_llptw_iaf_mmu_open ==
    Go(M) \o Clear("pmp") \o Set("pmp", 0, RWXT) \o Set("pmp", 1, RW) \o Unset("pmp", 1, Exec)
    \o Set("pmp", 1, T) \o Bounds("pmp", 0, Pp(VSURWX_GURWX), Pp(VSURWX_GURWX) + 1) \o Go(HS)
    \o Hspt("hspt_init") \o Go(M) \o Hspt("hspt_u_mode_allow") \o Fence \o Go(HU)
    \o Try("fetch", Vp(VSURWX_GURWX), "IAF")

access_fault_inst_access_fault_hs_instr_fetch_preaf_fault_iaf ==
    Set("pmp", 0, RWXT) \o Addr("pmp", 0, Top) \o Go(HS) \o Try("fetch", Beyond, "IAF") \o Go(M)
    \o Try("fetch", Beyond, "IAF") \o Go(HU) \o Try("fetch", Beyond, "IAF") \o End

access_fault_inst_access_fault_hs_instr_fetch_ptw_iaf_mmu_open ==
    Clear("pmp") \o Set("pmp", 0, RWXT) \o Unset("pmp", 1, R) \o Set("pmp", 1, WXT)
    \o Set("pmp", 2, RWXT) \o Go(HS) \o Hspt("hspt_init") \o Go(M)
    \o Bounds("pmp", 0, Table(2), Table(2) + 1) \o Addr("pmp", 2, Top) \o Fence \o Go(HS)
    \o Try("fetch", Vp(VSRWX_GRWX), "IAF") \o End

access_fault_inst_access_fault_hu_instr_fetch_ptw_iaf_mmu_open ==
    Clear("pmp") \o Set("pmp", 0, RWXT) \o Unset("pmp", 1, R) \o Set("pmp", 1, WXT)
    \o Set("pmp", 2, RWXT) \o Go(HS) \o Hspt("hspt_init") \o Go(M)
    \o Bounds("pmp", 0, Table(2), Table(2) + 1) \o Addr("pmp", 2, Top) \o Go(M)
    \o Hspt("hspt_u_mode_allow") \o Fence \o Go(HU) \o Try("fetch", Vp(VSRWX_GRWX), "IAF")

access_fault_inst_access_fault_hs_instr_fetch_ptw_takes_pte_ppn_high_bit_overflow_iaf ==
    Go(HS) \o Hspt("hspt_init") \o Go(M) \o Hspt("hspt_ptw_ppn_high_bit_overflow_setup") \o Fence
    \o Go(HS) \o Try("fetch", Vp(VSRWX_GRWX), "IAF") \o Go(HS) \o Hspt("hspt_init") \o Go(M)
    \o Hspt("hspt_llptw_ppn_high_bit_overflow_setup") \o Fence \o Go(HS)
    \o Try("fetch", Vp(VSRWX_GRWX), "IAF") \o End

access_fault_inst_access_fault_hu_instr_fetch_ptw_takes_pte_ppn_high_bit_overflow_iaf ==
    Go(HS) \o Hspt("hspt_init") \o Go(M) \o Hspt("hspt_u_mode_allow")
    \o Hspt("hspt_ptw_ppn_high_bit_overflow_setup") \o Fence \o Go(HU)
    \o Try("fetch", Vp(VSURWX_GRWX), "IAF")

access_fault_inst_access_fault_hu_instr_fetch_llptw_takes_pte_ppn_high_bit_overflow_iaf ==
    Go(HS) \o Hspt("hspt_init") \o Go(M) \o Hspt("hspt_u_mode_allow")
    \o Hspt("hspt_llptw_ppn_high_bit_overflow_setup") \o Fence \o Go(HU)
    \o Try("fetch", Vp(VSURWX_GRWX), "IAF")

access_fault_inst_access_fault_invalid_testcase_disabled_mprv_only_changes_data_access_priv_so_m ==
    End

access_fault_inst_llptw_high_bit_overflow_invalid_mprv_disabled ==
    End

access_fault_inst_access_fault_instr_fetch_success ==
    Go(M) \o Preamble("pma") \o Clear("pma") \o StoreRet(Pp(VSRWX_GRWX))
    \o Bounds("pma", 0, Table(2), Table(2) + 1) \o Set("pma", 1, RWXTC) \o Go(HS)
    \o Hspt("hspt_init") \o Try("call", Vp(VSRWX_GRWX), "none") \o Go(M) \o Unset("pma", 1, R)
    \o Go(HS) \o Try("call", Vp(VSRWX_GRWX), "none") \o Fence \o Try("fetch", Vp(VSRWX_GRWX), "IAF")

access_fault_inst_fetch_pma_read_removed_iaf_after_sfence ==
    Go(M) \o Preamble("pma") \o Clear("pma") \o StoreRet(Pp(VSRWX_GRWX))
    \o Bounds("pma", 0, Table(2), Table(2) + 1) \o Set("pma", 1, RWXTC) \o Go(HS)
    \o Hspt("hspt_init") \o Fence \o Try("call", Vp(VSRWX_GRWX), "none") \o Go(M)
    \o Unset("pma", 1, R) \o Go(HS) \o Try("call", Vp(VSRWX_GRWX), "none") \o Fence
    \o Try("fetch", Vp(VSRWX_GRWX), "IAF") \o Go(M) \o Set("pma", 1, R) \o Go(HS) \o Fence
    \o Try("call", Vp(VSRWX_GRWX), "none") \o End

access_fault_inst_fetch_root_pma_cache_removed_iaf_after_sfence ==
    Go(M) \o Preamble("pma") \o Clear("pma") \o StoreRet(Pp(VSRWX_GRWX))
    \o Bounds("pma", 0, Table(0), Table(0) + 1) \o Set("pma", 1, RWXTC) \o Go(HS)
    \o Hspt("hspt_init") \o Fence \o Try("call", Vp(VSRWX_GRWX), "none") \o Go(M)
    \o Unset("pma", 1, C) \o Go(HS) \o Try("call", Vp(VSRWX_GRWX), "none") \o Fence
    \o Try("fetch", Vp(VSRWX_GRWX), "IAF") \o Go(M) \o Set("pma", 1, C) \o Go(HS) \o Fence
    \o Try("call", Vp(VSRWX_GRWX), "none") \o End

access_fault_inst_fetch_pma_cache_removed_iaf_after_sfence ==
    Go(M) \o Preamble("pma") \o Clear("pma") \o StoreRet(Pp(VSRWX_GRWX))
    \o Bounds("pma", 0, Table(2), Table(2) + 1) \o Set("pma", 1, RWXTC) \o Go(HS)
    \o Hspt("hspt_init") \o Fence \o Try("call", Vp(VSRWX_GRWX), "none") \o Go(M)
    \o Unset("pma", 1, C) \o Go(HS) \o Try("call", Vp(VSRWX_GRWX), "none") \o Fence
    \o Try("fetch", Vp(VSRWX_GRWX), "IAF") \o Go(M) \o Set("pma", 1, C) \o Go(HS) \o Fence
    \o Try("call", Vp(VSRWX_GRWX), "none") \o End

access_fault_inst_fetch_pma_a_mismatch_iaf_after_sfence ==
    Go(M) \o Preamble("pma") \o Clear("pma") \o StoreRet(Pp(VSRWX_GRWX))
    \o Bounds("pma", 0, Table(2), Table(2) + 1) \o Set("pma", 1, RWXTC)
    \o Bounds("pma", 2, Table(2), Table(2) + 1) \o Unset("pma", 3, R) \o Set("pma", 3, WXTC)
    \o Go(HS) \o Hspt("hspt_init") \o Try("call", Vp(VSRWX_GRWX), "none") \o Go(M)
    \o Unset("pma", 1, T) \o Go(HS) \o Try("call", Vp(VSRWX_GRWX), "none") \o Fence
    \o Try("fetch", Vp(VSRWX_GRWX), "IAF")

access_fault_inst_fetch_pmp_a_mismatch_iaf_after_sfence_pmp_translation_consistency ==
    Go(M) \o Preamble("pmp") \o Clear("pmp") \o StoreRet(Pp(VSRWX_GRWX))
    \o Bounds("pmp", 0, Table(2), Table(2) + 1) \o Set("pmp", 1, RWXT)
    \o Bounds("pmp", 2, Table(2), Table(2) + 1) \o Unset("pmp", 3, R) \o Set("pmp", 3, WXT)
    \o Go(HS) \o Hspt("hspt_init") \o Try("call", Vp(VSRWX_GRWX), "none") \o Go(M)
    \o Unset("pmp", 1, T) \o Go(HS) \o Try("call", Vp(VSRWX_GRWX), "none") \o Fence
    \o Try("fetch", Vp(VSRWX_GRWX), "IAF")

access_fault_pmpaddr_granularity_warl_probe ==
    Go(M) \o Clear("pmp") \o Addr("pmp", 0, \h0) \o Addr("pmp", 0, Top) \o End

access_fault_pmacfg_pmaaddr_csr_probe ==
    Go(M) \o Bounds("pma", 1, \h200000, \h204000) \o Addr("pma", 1, \h0) \o End

-----------------------------------------------------------------------------
(* The part of test_table that registers these tests.                        *)
access_fault_table ==
    << access_fault_amo_access_fault_hs_amo_preaf_fault_saf,
       access_fault_amo_access_fault_hs_amo_ptw_saf_mmu_open,
       access_fault_amo_access_fault_hs_amoadd_d_pmacfg_c0_pmacfg_l1_saf,
       access_fault_amo_access_fault_hs_amoadd_d_pmpcfg_w0_pmpcfg_l0_saf,
       access_fault_amo_access_fault_hs_amoadd_d_pmpcfg_w0_pmpcfg_l1_saf,
       access_fault_amo_access_fault_hs_amoadd_d_pmpcfg_w0_pmpcfg_l1_saf_mmu_open,
       access_fault_amo_access_fault_hs_amoadd_d_pmpcfg_w0_saf,
       access_fault_amo_access_fault_hs_amoadd_d_ptw_takes_pte_ppn_high_bit_overflow_saf,
       access_fault_amo_access_fault_hu_amo_pmpcfg_w0_llptw_saf_mmu_open,
       access_fault_amo_access_fault_hu_amo_ptw_saf_mmu_open,
       access_fault_amo_access_fault_hu_amoadd_d_llptw_takes_pte_ppn_high_bit_overflow_saf,
       access_fault_amo_access_fault_hu_amoadd_d_pmacfg_c0_pmacfg_l1_saf,
       access_fault_amo_access_fault_hu_amoadd_d_pmpcfg_w0_pmpcfg_l0_saf,
       access_fault_amo_access_fault_hu_amoadd_d_pmpcfg_w0_pmpcfg_l1_saf,
       access_fault_amo_access_fault_hu_amoadd_d_ptw_takes_pte_ppn_high_bit_overflow_saf,
       access_fault_amo_access_fault_invalid_addr_range_was_accessed_correct_pmpaddr_range_store_guest_fault,
       access_fault_amo_access_fault_m_amo_ptw_saf_mmu_open,
       access_fault_amo_access_fault_m_amoadd_d_llptw_takes_pte_ppn_high_bit_overflow_saf,
       access_fault_amo_access_fault_m_amoadd_d_pmacfg_w0_pmacfg_l1_saf,
       access_fault_amo_access_fault_m_amoadd_d_pmpcfg_w0_pmpcfg_l1_mstatus_mprv1_mstatus_mpp,
       access_fault_amo_access_fault_m_amoadd_d_pmpcfg_w0_pmpcfg_l1_saf,
       access_fault_amo_access_fault_m_amoadd_d_ptw_takes_pte_ppn_high_bit_overflow_saf,
       access_fault_amo_access_fault_m_amoadd_d_success_pmpcfg_w0_pmpcfg_l0,
       access_fault_amo_access_fault_s_invalid_addr_range_was_accessed_correct_pmaaddr_range_laf,
       access_fault_amo_access_fault_spanning_two_memory_regions_diff_permissions_some_accessed_success_some_failed,
       access_fault_amo_legacy_pma_atomic_bit_ignored_lrsc_amo_success,
       access_fault_amo_pma_a_mismatch_after_sfence_pma_ptw_consistency,
       access_fault_amo_pma_cache_removed_lrsc_amo_success,
       access_fault_hu_load_ptw_pmp_tor_laf_mmu_open,
       access_fault_inst_access_fault_hs_fetch_inst_pmpcfg_x0_pmpcfg_l0_iaf,
       access_fault_inst_access_fault_hs_fetch_inst_pmpcfg_x0_pmpcfg_l0_iaf_mmu_open,
       access_fault_inst_access_fault_hs_fetch_inst_pmpcfg_x0_pmpcfg_l1_iaf,
       access_fault_inst_access_fault_hs_instr_fetch_preaf_fault_iaf,
       access_fault_inst_access_fault_hs_instr_fetch_ptw_iaf_mmu_open,
       access_fault_inst_access_fault_hs_instr_fetch_ptw_takes_pte_ppn_high_bit_overflow_iaf,
       access_fault_inst_access_fault_hu_fetch_inst_pmpcfg_x0_pmpcfg_l0_iaf,
       access_fault_inst_access_fault_hu_fetch_inst_pmpcfg_x0_pmpcfg_l1_iaf,
       access_fault_inst_access_fault_hu_instr_fetch_llptw_takes_pte_ppn_high_bit_overflow_iaf,
       access_fault_inst_access_fault_hu_instr_fetch_pmpcfg_w0_llptw_iaf_mmu_open,
       access_fault_inst_access_fault_hu_instr_fetch_ptw_iaf_mmu_open,
       access_fault_inst_access_fault_hu_instr_fetch_ptw_takes_pte_ppn_high_bit_overflow_iaf,
       access_fault_inst_access_fault_instr_fetch_success,
       access_fault_inst_access_fault_invalid_addr_range_was_accessed_correct_pmpaddr_range_iaf,
       access_fault_inst_access_fault_invalid_testcase_disabled_mprv_only_changes_data_access_priv_so_m,
       access_fault_inst_access_fault_m_fetch_inst_pmpcfg_x0_pmpcfg_l1_iaf,
       access_fault_inst_access_fault_m_fetch_inst_success_pmpcfg_x0_pmpcfg_l0,
       access_fault_inst_access_fault_spanning_two_memory_regions_diff_permissions_some_accessed_success_some_failed,
       access_fault_inst_fetch_pma_a_mismatch_iaf_after_sfence,
       access_fault_inst_fetch_pma_cache_removed_iaf_after_sfence,
       access_fault_inst_fetch_pma_read_removed_iaf_after_sfence,
       access_fault_inst_fetch_pmp_a_mismatch_iaf_after_sfence_pmp_translation_consistency,
       access_fault_inst_fetch_root_pma_cache_removed_iaf_after_sfence,
       access_fault_inst_llptw_high_bit_overflow_invalid_mprv_disabled,
       access_fault_load_access_fault_hs_lb_pmacfg_r0_pmacfg_l1_laf,
       access_fault_load_access_fault_hs_lb_pmpcfg_r0_pmpcfg_l0_laf,
       access_fault_load_access_fault_hs_lb_pmpcfg_r0_pmpcfg_l1_laf,
       access_fault_load_access_fault_hs_ld_pmpcfg_r0_pmpcfg_l1_llptw_laf_mmu_open,
       access_fault_load_access_fault_hs_ld_preaf_fault_laf,
       access_fault_load_access_fault_hs_ld_ptw_laf_mmu_open,
       access_fault_load_access_fault_hs_ld_ptw_takes_pte_ppn_high_bit_overflow_laf_mmu,
       access_fault_load_access_fault_hu_lb_pmacfg_r0_pmacfg_l1_laf,
       access_fault_load_access_fault_hu_lb_pmpcfg_r0_pmpcfg_l0_laf,
       access_fault_load_access_fault_hu_lb_pmpcfg_r0_pmpcfg_l1_laf,
       access_fault_load_access_fault_hu_ld_llptw_takes_pte_ppn_high_bit_overflow_laf_mmu,
       access_fault_load_access_fault_hu_ld_pmpcfg_r0_llptw_laf_mmu_open,
       access_fault_load_access_fault_hu_ld_ptw_laf_mmu_open,
       access_fault_load_access_fault_hu_ld_ptw_takes_pte_ppn_high_bit_overflow_laf_mmu,
       access_fault_load_access_fault_invalid_addr_range_was_accessed_correct_pmaaddr_range_laf,
       access_fault_load_access_fault_invalid_addr_range_was_accessed_correct_pmpaddr_range_laf,
       access_fault_load_access_fault_ld_success,
       access_fault_load_access_fault_m_lb_pmacfg_r0_pmacfg_l1_laf,
       access_fault_load_access_fault_m_lb_pmpcfg_r0_pmpcfg_l1_laf,
       access_fault_load_access_fault_m_lb_success_pmpcfg_r0_pmpcfg_l0,
       access_fault_load_access_fault_m_ld_llptw_takes_pte_ppn_high_bit_overflow_laf_mmu,
       access_fault_load_access_fault_m_ld_pmpcfg_r0_pmpcfg_l1_mstatus_mprv1_mstatus_mpp_3,
       access_fault_load_access_fault_m_ld_ptw_takes_pte_ppn_high_bit_overflow_laf_mmu,
       access_fault_load_access_fault_spanning_two_memory_regions_diff_permissions_some_accessed_success_some_failed,
       access_fault_load_pma_a_mismatch_laf_after_sfence,
       access_fault_load_pma_cache_removed_laf_after_sfence,
       access_fault_load_pmp_a_mismatch_laf_after_sfence_pmp_translation_consistency,
       access_fault_pmacfg_pmaaddr_csr_probe,
       access_fault_pmpaddr_granularity_warl_probe,
       access_fault_scalar_misaligned_cross_page_tail_pma_cache_removed_laf_saf_corner,
       access_fault_scalar_misaligned_final_pma_cache_removed_laf_saf_corner,
       access_fault_store_access_fault_hs_sb_pmpcfg_w0_pmpcfg_l0_saf,
       access_fault_store_access_fault_hs_sb_pmpcfg_w0_pmpcfg_l1_saf,
       access_fault_store_access_fault_hs_sd_pmacfg_w0_pmacfg_l1_saf,
       access_fault_store_access_fault_hs_sd_pmpcfg_w0_saf,
       access_fault_store_access_fault_hs_sd_preaf_fault_saf,
       access_fault_store_access_fault_hs_sd_ptw_saf_mmu_open,
       access_fault_store_access_fault_hs_sd_ptw_takes_pte_ppn_high_bit_overflow_saf_mmu,
       access_fault_store_access_fault_hs_sw_pmpcfg_w0_pmpcfg_l1_saf_mmu_open,
       access_fault_store_access_fault_hu_sb_pmpcfg_w0_pmpcfg_l0_saf,
       access_fault_store_access_fault_hu_sb_pmpcfg_w0_pmpcfg_l1_saf,
       access_fault_store_access_fault_hu_sd_llptw_takes_pte_ppn_high_bit_overflow_saf_mmu,
       access_fault_store_access_fault_hu_sd_pmacfg_w0_pmacfg_l1_saf,
       access_fault_store_access_fault_hu_sd_pmpcfg_w0_llptw_saf_mmu_open,
       access_fault_store_access_fault_hu_sd_ptw_saf_mmu_open,
       access_fault_store_access_fault_hu_sd_ptw_takes_pte_ppn_high_bit_overflow_saf_mmu,
       access_fault_store_access_fault_invalid_addr_range_was_accessed_correct_pmpaddr_range_saf,
       access_fault_store_access_fault_m_sb_pmpcfg_w0_pmpcfg_l1_saf,
       access_fault_store_access_fault_m_sb_success_pmpcfg_w0_pmpcfg_l0,
       access_fault_store_access_fault_m_sd_llptw_takes_pte_ppn_high_bit_overflow_saf_mmu,
       access_fault_store_access_fault_m_sd_pmacfg_w0_pmacfg_l1_saf,
       access_fault_store_access_fault_m_sd_pmpcfg_w0_pmpcfg_l1_mstatus_mprv1_mstatus_mpp_3,
       access_fault_store_access_fault_m_sd_ptw_saf_mmu_open,
       access_fault_store_access_fault_m_sd_ptw_takes_pte_ppn_high_bit_overflow_saf_mmu,
       access_fault_store_access_fault_s_invalid_addr_range_was_accessed_correct_pmaaddr_range_saf,
       access_fault_store_access_fault_sd_success,
       access_fault_store_access_fault_spanning_two_memory_regions_diff_permissions_some_accessed_success_some_failed,
       access_fault_store_pma_a_mismatch_saf_after_sfence,
       access_fault_store_pma_cache_removed_saf_after_sfence,
       access_fault_store_pma_read_removed_saf_after_sfence,
       access_fault_store_pmp_a_mismatch_saf_after_sfence_pmp_translation_consistency >>
=============================================================================
