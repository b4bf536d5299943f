---------------------------- MODULE PageFaultTests ----------------------------
(***************************************************************************)
(* The tests of test_cases/manual_test_cases/memory/page_fault.c, one      *)
(* script each, in the order and under the names of the source: they take  *)
(* rights, validity or alignment from a translation, switch SUM, MXR, MPRV *)
(* and the address space, with and without sfence.vma, and expect page     *)
(* faults of loads, stores, atomics and fetches, or none.                  *)
(***************************************************************************)
EXTENDS TestSteps

page_fault_inst_page_fault_hs_fetche_inst_x1_v1_success ==
    Go(HS) \o Hspt("hspt_init") \o Go(HS) \o StoreRet(Vp(VSRWX_GRWX)) \o Fence
    \o Try("call", Vp(VSRWX_GRWX), "none") \o Go(M) \o Hspt("hspt_add_reserved_bits") \o Fence
    \o Go(HS) \o Try("fetch", Vp(VSRWX_GRWX), "IPF") \o Go(M) \o Hspt("hspt_init") \o Fence
    \o Go(HS) \o Try("fetch", Vp(VSI_GI), "IPF") \o Go(M) \o Fence \o Go(HS)
    \o Try("fetch", Vp(VSRW_GRW), "IPF") \o Go(M) \o StoreRet(Pp(VSRWX_GRWX)) \o Raise(MPRV)
    \o Raise(MPP) \o Fence \o Arm \o Go(HS) \o Do("call", Vp(VSRWX_GRWX)) \o Expect("none") \o End

page_fault_inst_page_fault_2_hu_fetche_inst_x1_v1_success ==
    Go(HS) \o Hspt("hspt_init") \o Go(HS) \o StoreRet(Vp(VSRWX_GRWX)) \o Go(M)
    \o Hspt("hspt_u_mode_allow") \o Fence \o Go(HU) \o Try("call", Vp(VSRWX_GRWX), "none")

page_fault_inst_page_fault_2_hu_fetche_inst_pte_v0_ipf ==
    Go(HS) \o Hspt("hspt_init") \o Go(HS) \o StoreRet(Vp(VSRWX_GRWX)) \o Go(M)
    \o Hspt("hspt_u_mode_allow") \o Fence \o Go(HU) \o Try("fetch", Vp(VSI_GI), "IPF")

page_fault_inst_page_fault_2_hu_fetche_inst_pte_x0_ipf ==
    Go(HS) \o Hspt("hspt_init") \o Go(HS) \o StoreRet(Vp(VSRWX_GRWX)) \o Go(M)
    \o Hspt("hspt_u_mode_allow") \o Fence \o Go(HU) \o Try("fetch", Vp(VSRW_GRW), "IPF")

page_fault_inst_page_fault_hs_fetche_inst_a1_success_translation_consistency ==
    Go(HS) \o Hspt("hspt_init") \o Go(M) \o StoreRet(Pp(VSRWX_GRWX)) \o StoreRet(Pp(VSURWX_GRWX))
    \o Fence \o Go(HS) \o Try("call", Vp(VSRWX_GRWX), "none") \o Go(M) \o Hspt("hspt_del_A")
    \o Go(HS) \o Try("call", Vp(VSRWX_GRWX), "none") \o Fence \o Try("fetch", Vp(VSRWX_GRWX), "IPF")

page_fault_inst_page_fault_hu_fetche_inst_a1_success ==
    Go(HS) \o Hspt("hspt_init") \o Go(M) \o StoreRet(Pp(VSURWX_GRWX)) \o Hspt("hspt_u_mode_allow")
    \o Fence \o Go(HU) \o Try("call", Vp(VSURWX_GRWX), "none")

page_fault_inst_page_fault_hu_fetche_inst_a0_ipf ==
    Go(HS) \o Hspt("hspt_init") \o Go(M) \o StoreRet(Pp(VSURWX_GRWX)) \o Hspt("hspt_u_mode_allow")
    \o Go(M) \o Hspt("hspt_del_A") \o Hspt("hspt_u_mode_allow") \o Fence \o Go(HU)
    \o Try("fetch", Vp(VSURWX_GRWX), "IPF")

page_fault_inst_page_fault_hs_instr_fetch_prepf_fault_lpf_mmu_open ==
    Go(HS) \o Hspt("hspt_init") \o Try("fetch", Beyond, "IPF") \o End

page_fault_inst_page_fault_hu_instr_fetch_prepf_fault_lpf_mmu_open ==
    Go(HS) \o Hspt("hspt_init") \o Go(M) \o Hspt("hspt_u_mode_allow") \o Fence \o Go(HU)
    \o Try("fetch", Beyond, "IPF")

page_fault_inst_page_fault_hs_fetche_inst_u_ipf ==
    Go(HS) \o Hspt("hspt_init") \o Try("fetch", Vp(VSURWX_GURWX), "IPF") \o Go(M)
    \o Hspt("hspt_u_mode_allow") \o StoreRet(Pp(VSURWX_GURWX)) \o Fence \o Go(HU)
    \o Try("call", Vp(VSURWX_GURWX), "none")

page_fault_inst_hs_hu_fetch_pte_x1_v1_success ==
    StoreRet(Pp(VSX_GX)) \o Fence \o Go(HS) \o Hspt("hspt_init") \o Try("call", Vp(VSX_GX), "none")
    \o Go(M) \o StoreRet(Pp(VSUX_GX)) \o Hspt("hspt_u_mode_allow") \o Fence \o Go(HU)
    \o Try("call", Vp(VSUX_GX), "none")

page_fault_inst_page_fault_hs_fetche_inst_success_g_bit_page ==
    Go(HS) \o Hspt("hspt_init") \o Go(M) \o Hspt("hspt_add_G") \o StoreRet(Pp(VSRWX_GURWX)) \o Fence
    \o Go(HS) \o Try("call", Vp(VSRWX_GURWX), "none") \o Go(M) \o Hspt("hspt_add_G")
    \o Hspt("hspt_u_mode_allow") \o StoreRet(Pp(VSRWX_GURWX)) \o Fence \o Go(HU)
    \o Try("call", Vp(VSRWX_GURWX), "none")

page_fault_inst_page_fault_hs_fetche_inst_success_g_bit_page_x0 ==
    Go(HS) \o Hspt("hspt_init") \o Go(M) \o Hspt("hspt_add_G") \o Fence \o Go(HS)
    \o Try("fetch", Vp(VSRW_GURWX), "IPF") \o Go(M) \o Hspt("hspt_add_G")
    \o Hspt("hspt_u_mode_allow") \o Fence \o Go(HU) \o Try("fetch", Vp(VSRW_GURWX), "IPF")

page_fault_inst_page_fault_hs_fetche_inst_ipf_x0_medeleg_ipf1 ==
    Go(M) \o Delegate("IPF") \o Go(HS) \o Hspt("hspt_init")
    \o TryAt("fetch", Vp(VSRW_GURWX), "IPF", HS)

page_fault_inst_page_fault_hs_fetche_inst_2mb_superpage_success ==
    Go(M) \o Go(HS) \o Hspt("hspt_init") \o Go(M) \o StoreRet(Vp(VSRWX_GURWX)) \o Fence \o Go(HS)
    \o Try("call", \h140000, "none") \o Go(M) \o Hspt("hspt_2MB_superpage_misalign_setup") \o Fence
    \o Go(HS) \o Try("fetch", \h140000, "IPF") \o Go(M)
    \o Hspt("hspt_2MB_superpage_align_boundary_setup") \o StoreRet(\h100200) \o Fence \o Go(HS)
    \o Try("load", \h140000, "none")

page_fault_inst_page_fault_hs_fetche_inst_1gb_superpage_success_translation_consistency ==
    Go(M) \o Preamble("pma") \o Clear("pma") \o Bounds("pma", 0, \h0, Top) \o Set("pma", 1, RWXTC)
    \o Go(HS) \o Hspt("hspt_init") \o Go(M) \o StoreRet(\hC0000) \o Fence \o Go(HS)
    \o Try("call", \hC0000, "none") \o Go(M) \o Hspt("hspt_1GB_superpage_misalign_setup") \o Fence
    \o Go(HS) \o Try("fetch", \hC0000, "IPF") \o Go(M)
    \o Hspt("hspt_1GB_superpage_align_boundary_setup") \o StoreRet(Vp(VSRWX_GURWX)) \o Fence
    \o Go(HS) \o Try("call", \hC0000, "none") \o End

page_fault_inst_page_fault_hs_fetche_inst_512gb_superpage_success_translation_consistency ==
    Go(M) \o Preamble("pma") \o Clear("pma") \o Bounds("pma", 0, \h0, Top) \o Set("pma", 1, RWXTC)
    \o Go(HS) \o Hspt("hspt_init") \o Go(M) \o Hspt("set_superpage_512G") \o StoreRet(\h8000000)
    \o Fence \o Go(HS) \o Try("call", \h8000000, "none") \o Go(M)
    \o Hspt("hspt_512GB_superpage_misalign_setup") \o Fence \o Go(HS)
    \o Try("fetch", \h8000000, "IPF") \o Go(M) \o Hspt("hspt_512GB_superpage_align_boundary_setup")
    \o StoreRet(\h10000000) \o Fence \o Go(HS) \o Try("call", \h8000000, "none") \o End

page_fault_inst_page_fault_hs_fetche_inst_ipf_third_level_pte_v0 ==
    Go(M) \o Hspt("hspt_init") \o HsptEntry("DelV", 2, 0) \o Fence \o Go(HS)
    \o Try("fetch", Vp(VSRWX_GRWX), "IPF") \o Go(M) \o Hspt("hspt_init") \o HsptEntry("DelV", 1, 4)
    \o Fence \o Go(HS) \o Try("fetch", Vp(VSRWX_GRWX), "IPF") \o Go(M) \o Hspt("hspt_init")
    \o HsptEntry("DelV", 0, 0) \o Fence \o Go(HS) \o Arm \o Do("fetch", Vp(VSRWX_GRWX)) \o SatpOff
    \o Expect("IPF")

page_fault_inst_page_fault_hs_fetche_inst_ipf_third_level_pte_reserved_ne_0 ==
    Go(M) \o Hspt("hspt_init") \o HsptEntry("AddN", 2, 0) \o Fence \o Go(HS)
    \o Try("fetch", Vp(VSRWX_GRWX), "IPF") \o Go(M) \o Hspt("hspt_init") \o HsptEntry("AddN", 1, 4)
    \o Fence \o Go(HS) \o Try("fetch", Vp(VSRWX_GRWX), "IPF") \o Go(M) \o Hspt("hspt_init")
    \o HsptEntry("AddN", 0, 0) \o Fence \o Go(HS) \o Arm \o Do("fetch", Vp(VSRWX_GRWX)) \o SatpOff
    \o Expect("IPF")

page_fault_inst_page_fault_hs_fetch_inst_pte_x1_success_translation_consistency ==
    StoreRet(Pp(VSRWX_GRWX)) \o Go(HS) \o Hspt("hspt_init") \o Try("call", Vp(VSRWX_GRWX), "none")
    \o Go(M) \o Hspt("hspt_del_X") \o Go(HS) \o Try("call", Vp(VSRWX_GRWX), "none")
    \o FenceOf(Vp(VSRWX_GRWX), 0) \o Try("fetch", Vp(VSRWX_GRWX), "IPF")

page_fault_inst_global_x_clear_no_asid_sfence_stale_success_sfence_tlb_consistency ==
    StoreRet(Pp(VSRWX_GRWX)) \o Go(HS) \o Hspt("hspt_init") \o Hspt("hspt_add_G") \o Fence
    \o Try("call", Vp(VSRWX_GRWX), "none") \o Go(M) \o Hspt("hspt_del_X") \o Go(HS)
    \o Try("call", Vp(VSRWX_GRWX), "none") \o FenceOf(Vp(VSRWX_GRWX), 1234)
    \o Try("call", Vp(VSRWX_GRWX), "none")

page_fault_inst_page_fault_hs_fetch_inst_ipf_pte_x0_translation_consistency ==
    StoreRet(Pp(VSRW_GRW)) \o Go(HS) \o Hspt("hspt_init") \o Try("fetch", Vp(VSRW_GRW), "IPF")
    \o Go(M) \o Hspt("hspt_add_X") \o Go(HS) \o Try("fetch", Vp(VSRW_GRW), "IPF")
    \o FenceOf(Vp(VSRW_GRW), 0) \o Try("call", Vp(VSRW_GRW), "none")

page_fault_inst_global_x_set_no_asid_sfence_stays_ipf_sfence_tlb_consistency ==
    StoreRet(Pp(VSRW_GRW)) \o Go(HS) \o Hspt("hspt_init") \o Hspt("hspt_add_G") \o Fence
    \o Try("fetch", Vp(VSRW_GRW), "IPF") \o Go(M) \o Hspt("hspt_add_X") \o Go(HS)
    \o Try("fetch", Vp(VSRW_GRW), "IPF") \o FenceOf(Vp(VSRW_GRW), 1234)
    \o Try("fetch", Vp(VSRW_GRW), "IPF")

page_fault_inst_asid_switch_x_clear_ipf ==
    StoreRet(Pp(VSRWX_GRWX)) \o Go(HS) \o Hspt("hspt_init") \o Try("call", Vp(VSRWX_GRWX), "none")
    \o Go(M) \o Asid(\h1234) \o Hspt("hspt_del_X") \o Go(HS) \o Try("fetch", Vp(VSRWX_GRWX), "IPF")
    \o FenceOf(\hDEADB, 57005) \o Try("fetch", Vp(VSRWX_GRWX), "IPF")

page_fault_inst_asid_switch_global_x_clear_stale_then_ipf_sfence_tlb_consistency ==
    StoreRet(Pp(VSRWX_GRWX)) \o Go(HS) \o Hspt("hspt_init") \o Hspt("hspt_add_G") \o Fence
    \o Try("call", Vp(VSRWX_GRWX), "none") \o Go(M) \o Asid(\h1234) \o Hspt("hspt_del_X") \o Go(HS)
    \o Try("call", Vp(VSRWX_GRWX), "none") \o FenceOf(Vp(VSRWX_GRWX), All)
    \o Try("fetch", Vp(VSRWX_GRWX), "IPF")

page_fault_inst_asid_switch_x_set_sfence_recovers ==
    StoreRet(Pp(VSRW_GRW)) \o Go(HS) \o Hspt("hspt_init") \o Try("fetch", Vp(VSRW_GRW), "IPF")
    \o Go(M) \o Asid(\h1234) \o Hspt("hspt_add_X") \o Go(HS) \o Try("call", Vp(VSRW_GRW), "none")
    \o FenceOf(Vp(VSRW_GRW), 0) \o Try("call", Vp(VSRW_GRW), "none")

page_fault_inst_asid_switch_global_x_set_nonasid_sfence_success_sfence_tlb_consistency ==
    StoreRet(Pp(VSRW_GRW)) \o Go(HS) \o Hspt("hspt_init") \o Hspt("hspt_add_G") \o Fence
    \o Try("fetch", Vp(VSRW_GRW), "IPF") \o Go(M) \o Asid(\h1234) \o Hspt("hspt_add_X") \o Go(HS)
    \o Try("fetch", Vp(VSRW_GRW), "IPF") \o FenceOf(Vp(VSRW_GRW), 4660)
    \o Try("fetch", Vp(VSRW_GRW), "IPF")

page_fault_load_page_fault_hs_load_pte_v0_lpf ==
    Go(HS) \o Hspt("hspt_init") \o Go(HS) \o Fence \o Try("load", Vp(VSI_GI), "LPF")
    \o Try("lr", Vp(VSI_GI), "LPF") \o Try("load", Vp(VSW_GI), "LPF")
    \o Try("lr", Vp(VSW_GI), "LPF") \o Go(M) \o Hspt("hspt_add_reserved_bits") \o Fence \o Go(HS)
    \o Try("load", Vp(VSR_GRWX), "LPF") \o Try("lr", Vp(VSR_GRWX), "LPF") \o Hspt("hspt_init")
    \o SLower(MXR) \o Fence \o Try("load", Vp(VSX_GRWX), "LPF") \o SLower(MXR) \o Fence
    \o Try("load", Vp(VSV_GV), "LPF") \o SLower(MXR) \o Fence \o Try("load", Vp(VSR_GURWX), "none")
    \o SLower(MXR) \o Fence \o Try("load", Vp(VSRWX_GURWX), "none") \o Go(HS) \o Fence \o Arm
    \o SRaise(MXR) \o Do("load", Vp(VSV_GV)) \o Expect("LPF") \o Fence
    \o Try("load", Vp(VSR_GUR), "none") \o Fence \o Try("load", Vp(VSX_GUX), "none") \o Fence
    \o Try("load", Vp(VSRWX_GUX), "none") \o SLower(MXR) \o End

page_fault_load_page_fault_hs_ld_u_page_vsstatus_sum0_lpf ==
    Go(HS) \o Hspt("hspt_init") \o Go(M) \o SLower(SUM) \o Fence \o Go(HS)
    \o Try("load", Vp(VSURWX_GURWX), "LPF") \o End

page_fault_load_page_fault_hs_ld_u_page_sstatus_sum1_success ==
    Go(HS) \o Hspt("hspt_init") \o Go(M) \o SRaise(SUM) \o Fence \o Go(HS)
    \o Try("load", Vp(VSURWX_GURWX), "none") \o Go(M) \o Raise(MPRV) \o Raise(MPP) \o Raise(SUM)
    \o Fence \o Try("load", Vp(VSRWX_GRWX), "none") \o Raise(MPRV) \o Raise(MPP) \o Raise(SUM)
    \o Fence \o Try("load", Vp(VSURWX_GRWX), "none") \o Raise(MPRV) \o Raise(MPP) \o Lower(SUM)
    \o Fence \o Arm \o Do("load", Vp(VSRWX_GRWX)) \o Lower(MPRV) \o Lower(MPP) \o Expect("none")
    \o Raise(MPRV) \o Raise(MPP) \o Lower(SUM) \o Fence \o Arm \o Do("load", Vp(VSURWX_GRWX))
    \o Lower(MPRV) \o Lower(MPP) \o Expect("LPF") \o Go(M) \o Hspt("hspt_u_mode_allow_no_leaf")
    \o Raise(MPRV) \o Lower(MPP) \o Raise(SUM) \o Fence \o Arm \o Do("load", Vp(VSRWX_GRWX))
    \o Lower(MPRV) \o Lower(MPP) \o Expect("LPF") \o Raise(MPRV) \o Lower(MPP) \o Raise(SUM)
    \o Fence \o Try("load", Vp(VSURWX_GRWX), "none") \o Raise(MPRV) \o Lower(MPP) \o Lower(SUM)
    \o Fence \o Arm \o Do("load", Vp(VSRWX_GRWX)) \o Lower(MPRV) \o Lower(MPP) \o Expect("LPF")
    \o Raise(MPRV) \o Lower(MPP) \o Lower(SUM) \o Fence \o Arm \o Do("load", Vp(VSURWX_GRWX))
    \o Lower(MPRV) \o Lower(MPP) \o Expect("none") \o Go(M) \o Lower(MPRV) \o Lower(MPP)
    \o Hspt("hspt_init") \o Fence \o End

page_fault_load_page_fault_hs_ld_prepf_fault_lpf_mmu_open ==
    Go(HS) \o Hspt("hspt_init") \o Try("load", Beyond, "LPF") \o End

page_fault_load_page_fault_hu_ld_prepf_fault_lpf_mmu_open ==
    Go(HS) \o Hspt("hspt_init") \o Go(M) \o Hspt("hspt_u_mode_allow") \o Fence \o Go(HU)
    \o Try("load", Beyond, "LPF")

page_fault_load_page_fault_hs_ld_pte_a1_success_without_sfence_vma_sfence_tlb_consistency ==
    Go(HS) \o Hspt("hspt_init") \o Try("load", Vp(VSR_GR), "none") \o Go(M) \o Hspt("hspt_del_A")
    \o Go(HS) \o Try("load", Vp(VSR_GR), "none") \o Fence \o Try("load", Vp(VSR_GR), "LPF") \o Go(M)
    \o Hspt("hspt_del_A") \o Hspt("hspt_u_mode_allow") \o Fence \o Go(HU)
    \o Try("load", Vp(VSUR_GR), "LPF")

page_fault_load_page_fault_hu_ld_pte_a1_success ==
    Go(HS) \o Hspt("hspt_init") \o Go(M) \o Hspt("hspt_u_mode_allow") \o Fence \o Go(HU)
    \o Try("load", Vp(VSUR_GR), "none") \o Try("lr", Vp(VSUR_GR), "none")

page_fault_load_page_fault_m_ld_pte_a1_success_mmu_open ==
    Go(HS) \o Hspt("hspt_init") \o Go(M) \o Raise(MPRV) \o Raise(MPP) \o Fence
    \o Try("load", Vp(VSR_GR), "none") \o Lower(MPP) \o Lower(MPRV) \o Go(HS) \o Hspt("hspt_init")
    \o Go(M) \o Raise(MPP) \o Raise(MPRV) \o Raise(MXR) \o Fence \o Try("load", Vp(VSX_GX), "none")
    \o Go(HS) \o Hspt("hspt_init") \o Go(M) \o Raise(MPP) \o Raise(MPRV) \o Raise(MXR) \o Fence
    \o Try("load", Vp(VSX_GX), "none") \o Go(HS) \o Hspt("hspt_init") \o Go(M) \o Raise(MPP)
    \o Raise(MPRV) \o Raise(MXR) \o Fence \o Try("load", Vp(VSX_GX), "none") \o Go(HS)
    \o Hspt("hspt_init") \o Go(M) \o Raise(MPP) \o Raise(MPRV) \o Raise(MXR) \o Fence \o Arm
    \o Do("load", Vp(VSV_GV)) \o Lower(MPP) \o Lower(MPRV) \o Expect("LPF") \o Go(HS)
    \o Hspt("hspt_init") \o Go(M) \o Raise(MPP) \o Raise(MPRV) \o Lower(MXR) \o Fence
    \o Try("load", Vp(VSR_GX), "none") \o Go(HS) \o Hspt("hspt_init") \o Go(M) \o Raise(MPP)
    \o Raise(MPRV) \o Lower(MXR) \o Fence \o Try("load", Vp(VSRX_GX), "none") \o Go(HS)
    \o Hspt("hspt_init") \o Go(M) \o Raise(MPP) \o Raise(MPRV) \o Lower(MXR) \o Fence \o Arm
    \o Do("load", Vp(VSX_GX)) \o Lower(MPP) \o Lower(MPRV) \o Expect("LPF") \o Go(HS)
    \o Hspt("hspt_init") \o Go(M) \o Raise(MPP) \o Raise(MPRV) \o Lower(MXR) \o Fence \o Arm
    \o Do("load", Vp(VSV_GV)) \o Lower(MPP) \o Lower(MPRV) \o Expect("LPF")

page_fault_load_mprv_s_pte_a_clear_lpf_mmu_open ==
    Go(HS) \o Hspt("hspt_init") \o Go(M) \o Raise(MPRV) \o Raise(MPP) \o Fence \o Arm
    \o Do("load", Vp(VSR_GR)) \o Lower(MPRV) \o Expect("none") \o Go(M) \o Hspt("hspt_del_A")
    \o Raise(MPRV) \o Raise(MPP) \o Fence \o Arm \o Do("load", Vp(VSR_GR)) \o Lower(MPRV)
    \o Expect("LPF")

page_fault_load_page_fault_hs_ld_success_g_bit_page ==
    Go(HS) \o Hspt("hspt_init") \o Go(M) \o Hspt("hspt_add_G") \o Fence \o Go(HS)
    \o Try("load", Vp(VSR_GURWX), "none") \o Go(M) \o Hspt("hspt_add_G")
    \o Hspt("hspt_u_mode_allow") \o Fence \o Go(HU) \o Try("load", Vp(VSR_GURWX), "none")

page_fault_load_page_fault_hs_ld_lpf_g_bit_page_r0 ==
    Go(HS) \o Hspt("hspt_init") \o Go(M) \o Hspt("hspt_add_G") \o Fence \o Go(HS)
    \o Try("load", Vp(VSX_GURWX), "LPF") \o Go(M) \o Hspt("hspt_add_G") \o Hspt("hspt_u_mode_allow")
    \o Fence \o Go(HU) \o Try("load", Vp(VSX_GURWX), "LPF")

page_fault_load_page_fault_hs_ld_lpf_r0_medeleg_lpf1 ==
    Go(M) \o Delegate("LPF") \o Go(HS) \o Hspt("hspt_init")
    \o TryAt("load", Vp(VSX_GURWX), "LPF", HS)

page_fault_load_page_fault_hs_ld_2mb_superpage_success ==
    Go(M) \o Go(HS) \o Hspt("hspt_init") \o Try("load", \h140000, "none") \o Go(M)
    \o Hspt("hspt_2MB_superpage_misalign_setup") \o Fence \o Go(HS) \o Try("load", \h140000, "LPF")
    \o Go(M) \o Hspt("hspt_2MB_superpage_align_boundary_setup") \o Fence \o Go(HS)
    \o Try("load", \h140000, "none")

page_fault_load_page_fault_hs_ld_1gb_superpage_success_translation_consistency ==
    Go(M) \o Preamble("pma") \o Clear("pma") \o linknan_pma_cfg0_tor_entry1_encoded(\h0, Top, RWXTC)
    \o Go(HS) \o Hspt("hspt_init") \o Try("load", \hC0000, "none")

page_fault_load_page_fault_hs_ld_512gb_superpage_success_translation_consistency ==
    Go(M) \o Preamble("pma") \o Clear("pma") \o Bounds("pma", 0, \h0, Top) \o Set("pma", 1, RWXTC)
    \o Go(HS) \o Hspt("hspt_init") \o Go(M) \o Hspt("set_superpage_512G") \o Fence \o Go(HS)
    \o Try("load", \h8000000, "none") \o Go(M) \o Hspt("hspt_512GB_superpage_misalign_setup")
    \o Fence \o Go(HS) \o Try("load", \h8000000, "LPF") \o Go(M)
    \o Hspt("hspt_512GB_superpage_align_boundary_setup") \o Fence \o Go(HS)
    \o Try("load", \h8000000, "none") \o End

page_fault_store_page_fault_hs_sd_pte_v0_lpf ==
    Go(HS) \o Hspt("hspt_init") \o Go(HS) \o Fence \o Try("store", Vp(VSI_GI), "SPF")
    \o Try("store", Vp(VSW_GI), "SPF") \o Try("sc", Vp(VSW_GI), "SPF") \o Go(M)
    \o Hspt("hspt_add_reserved_bits") \o Fence \o Go(HS) \o Try("store", Vp(VSRW_GRWX), "SPF")
    \o Hspt("hspt_init") \o Fence \o Try("store", Vp(VSRX_GRWX), "SPF") \o Fence
    \o Try("store", Vp(VSRW_GURW), "none") \o End

page_fault_store_page_fault_hs_sd_u_page_sstatus_sum0_lpf ==
    Go(HS) \o Hspt("hspt_init") \o Go(M) \o SLower(SUM) \o Fence \o Go(HS)
    \o Try("store", Vp(VSURWX_GURWX), "SPF") \o End

page_fault_store_page_fault_hs_sd_u_page_sstatus_sum1_success ==
    Go(HS) \o Hspt("hspt_init") \o Go(M) \o SRaise(SUM) \o Fence \o Go(HS)
    \o Try("store", Vp(VSURWX_GURWX), "none") \o End

page_fault_store_page_fault_hs_sd_prepf_fault_spf_mmu_open ==
    Go(HS) \o Hspt("hspt_init") \o Try("store", Beyond, "SPF") \o End

page_fault_store_page_fault_hu_sd_prepf_fault_spf_mmu_open ==
    Go(HS) \o Hspt("hspt_init") \o Go(M) \o Hspt("hspt_u_mode_allow") \o Fence \o Go(HU)
    \o Try("store", Beyond, "SPF")

page_fault_store_page_fault_hs_sd_pte_a1_success_translation_consistency ==
    Go(HS) \o Hspt("hspt_init") \o Do("store", Vp(VSRW_GR)) \o Expect("none") \o Go(M)
    \o Hspt("hspt_del_A") \o Go(HS) \o Try("store", Vp(VSRW_GR), "none") \o Fence
    \o Try("store", Vp(VSRW_GR), "SPF") \o Go(M) \o Hspt("hspt_del_A") \o Hspt("hspt_u_mode_allow")
    \o Fence \o Go(HU) \o Try("store", Vp(VSURW_GR), "SPF")

page_fault_store_page_fault_hu_sd_pte_a1_success ==
    Go(HS) \o Hspt("hspt_init") \o Go(M) \o Hspt("hspt_u_mode_allow") \o Fence \o Go(HU)
    \o Try("store", Vp(VSURW_GR), "none")

page_fault_store_page_fault_m_sd_pte_a1_success_mmu_open ==
    Go(HS) \o Hspt("hspt_init") \o Go(M) \o Raise(MPRV) \o Raise(MPP) \o Fence
    \o Try("store", Vp(VSRW_GR), "none")

page_fault_store_mprv_s_pte_a_clear_spf_mmu_open ==
    Go(HS) \o Hspt("hspt_init") \o Go(M) \o Raise(MPRV) \o Raise(MPP) \o Fence \o Arm
    \o Do("store", Vp(VSRW_GR)) \o Lower(MPRV) \o Expect("none") \o Go(M) \o Hspt("hspt_del_A")
    \o Fence \o Raise(MPRV) \o Raise(MPP) \o Arm \o Do("store", Vp(VSRW_GR)) \o Lower(MPRV)
    \o Expect("SPF")

page_fault_store_page_fault_hs_sd_pte_d1_success_translation_consistency ==
    Go(HS) \o Hspt("hspt_init") \o Try("store", Vp(VSRW_GR), "none") \o Go(M) \o Hspt("hspt_del_D")
    \o Go(HS) \o Try("store", Vp(VSRW_GR), "none") \o Fence \o Try("store", Vp(VSRW_GR), "SPF")
    \o Go(M) \o Hspt("hspt_del_D") \o Hspt("hspt_u_mode_allow") \o Fence \o Go(HU)
    \o Try("store", Vp(VSURW_GR), "SPF") \o Go(M) \o Hspt("hspt_u_mode_allow_no_leaf")
    \o Hspt("hspt_init") \o Go(HU) \o Try("store", Vp(VSRWX_GR), "SPF")

page_fault_store_page_fault_hu_sd_pte_d1_success ==
    Go(HS) \o Hspt("hspt_init") \o Go(M) \o Hspt("hspt_u_mode_allow") \o Fence \o Go(HU)
    \o Try("store", Vp(VSURW_GR), "none")

page_fault_store_page_fault_m_sd_pte_d1_success_mmu_open ==
    Go(HS) \o Hspt("hspt_init") \o Go(M) \o Raise(MPRV) \o Raise(MPP) \o Fence
    \o Try("store", Vp(VSRW_GR), "none")

page_fault_store_mprv_s_pte_d_clear_spf_mmu_open ==
    Go(HS) \o Hspt("hspt_init") \o Go(M) \o Raise(MPRV) \o Raise(MPP) \o Fence \o Arm
    \o Do("store", Vp(VSRW_GR)) \o Lower(MPRV) \o Expect("none") \o Go(M) \o Hspt("hspt_del_D")
    \o Raise(MPRV) \o Raise(MPP) \o Fence \o Arm \o Do("store", Vp(VSRW_GR)) \o Lower(MPRV)
    \o Expect("SPF")

page_fault_store_page_fault_hs_sd_success_g_bit_page ==
    Go(HS) \o Hspt("hspt_init") \o Go(M) \o Hspt("hspt_add_G") \o Fence \o Go(HS)
    \o Try("store", Vp(VSRW_GURWX), "none") \o Go(M) \o Hspt("hspt_add_G")
    \o Hspt("hspt_u_mode_allow") \o Fence \o Go(HU) \o Try("store", Vp(VSRW_GURWX), "none")

page_fault_store_page_fault_hs_sd_spf_g_bit_page_w0 ==
    Go(HS) \o Hspt("hspt_init") \o Go(M) \o Hspt("hspt_add_G") \o Fence \o Go(HS)
    \o Try("store", Vp(VSR_GURWX), "SPF") \o Go(M) \o Hspt("hspt_add_G")
    \o Hspt("hspt_u_mode_allow") \o Fence \o Go(HU) \o Try("store", Vp(VSR_GURWX), "SPF")

page_fault_store_page_fault_hs_sd_spf_r0_medeleg_spf1 ==
    Go(M) \o Delegate("SPF") \o Go(HS) \o Hspt("hspt_init")
    \o TryAt("store", Vp(VSX_GURWX), "SPF", HS)

page_fault_store_page_fault_hs_sd_2mb_superpage_success ==
    Go(M) \o Go(HS) \o Hspt("hspt_init") \o Try("store", \h140000, "none") \o Go(M)
    \o Hspt("hspt_2MB_superpage_misalign_setup") \o Fence \o Go(HS) \o Try("store", \h140000, "SPF")
    \o Go(M) \o Hspt("hspt_2MB_superpage_align_boundary_setup") \o Fence \o Go(HS)
    \o Try("store", \h140000, "none")

page_fault_store_page_fault_hs_sd_1gb_superpage_success_translation_consistency ==
    Go(M) \o Preamble("pma") \o Clear("pma") \o Bounds("pma", 0, \h0, Top) \o Set("pma", 1, RWXTC)
    \o Go(HS) \o Hspt("hspt_init") \o Try("store", \hC0000, "none") \o Go(M)
    \o Hspt("hspt_1GB_superpage_misalign_setup") \o Fence \o Go(HS) \o Try("store", \hC0000, "SPF")
    \o Go(M) \o Hspt("hspt_1GB_superpage_align_boundary_setup") \o Fence \o Go(HS)
    \o Try("store", \hC0000, "none") \o End

page_fault_store_page_fault_hs_sd_512gb_superpage_success_translation_consistency ==
    Go(M) \o Preamble("pma") \o Clear("pma") \o linknan_pma_cfg0_tor_entry1_encoded(\h0, Top, RWXTC)
    \o Go(HS) \o Hspt("hspt_init") \o Go(M) \o Hspt("set_superpage_512G") \o Fence \o Go(HS)
    \o Try("store", \h8000000, "none") \o Go(M) \o Hspt("hspt_512GB_superpage_misalign_setup")
    \o Fence \o Go(HS) \o Try("store", \h8000000, "SPF") \o Go(M)
    \o Hspt("hspt_512GB_superpage_align_boundary_setup") \o Fence \o Go(HS)
    \o Try("store", \h8000000, "none") \o End

page_fault_amo_page_fault_hs_exec_amoadd_w_pte_v0_spf ==
    Go(HS) \o Hspt("hspt_init") \o Go(HS) \o Fence \o Try("amo", Vp(VSI_GI), "SPF") \o Fence
    \o Try("amo", Vp(VSRX_GRWX), "SPF") \o Fence \o Try("amo", Vp(VSRWX_GURWX), "none") \o End

page_fault_amo_page_fault_hs_exec_amomin_d_u_page_mstatus_sum0_lpf ==
    Go(HS) \o Hspt("hspt_init") \o Go(M) \o Lower(SUM) \o Fence \o Go(HS)
    \o Try("amo", Vp(VSURWX_GURWX), "SPF") \o End

page_fault_amo_page_fault_hs_exec_amoadd_w_u_page_sstatus_sum1_success ==
    Go(HS) \o Hspt("hspt_init") \o Go(M) \o Raise(SUM) \o Fence \o Go(HS)
    \o Try("amo", Vp(VSURWX_GURWX), "none") \o End

page_fault_amo_page_fault_hs_amo_prepf_fault_spf_mmu_open ==
    Go(HS) \o Hspt("hspt_init") \o Try("amo", Beyond, "SPF") \o End

page_fault_amo_page_fault_hu_amo_prepf_fault_spf_mmu_open ==
    Go(HS) \o Hspt("hspt_init") \o Go(M) \o Hspt("hspt_u_mode_allow") \o Fence \o Go(HU)
    \o Try("amo", Beyond, "SPF")

page_fault_amo_page_fault_hs_amoadd_w_pte_a0_spf ==
    Go(HS) \o Hspt("hspt_init") \o Go(M) \o Hspt("hspt_del_A") \o Fence \o Go(HS)
    \o Try("amo", Vp(VSRW_GR), "SPF") \o Go(M) \o Hspt("hspt_del_A") \o Hspt("hspt_u_mode_allow")
    \o Fence \o Go(HU) \o Try("amo", Vp(VSURW_GR), "SPF")

page_fault_amo_page_fault_hu_amoadd_w_pte_a1_success ==
    Go(HS) \o Hspt("hspt_init") \o Go(M) \o Hspt("hspt_u_mode_allow") \o Fence \o Go(HU)
    \o Try("amo", Vp(VSURW_GR), "none")

page_fault_amo_page_fault_m_amoadd_w_pte_a1_success_mmu_open ==
    Go(HS) \o Hspt("hspt_init") \o Go(M) \o Raise(MPRV) \o Raise(MPP) \o Fence
    \o Try("amo", Vp(VSRW_GR), "none")

page_fault_amo_mprv_s_pte_a_clear_spf_mmu_open ==
    Go(HS) \o Hspt("hspt_init") \o Go(M) \o Raise(MPRV) \o Raise(MPP) \o Fence \o Arm
    \o Do("amo", Vp(VSRW_GR)) \o Lower(MPRV) \o Expect("none") \o Go(M) \o Hspt("hspt_del_A")
    \o Raise(MPRV) \o Raise(MPP) \o Fence \o Arm \o Do("amo", Vp(VSRW_GR)) \o Lower(MPRV)
    \o Expect("SPF")

page_fault_amo_page_fault_hs_amoadd_w_pte_d1_success_translation_consistency ==
    Go(HS) \o Hspt("hspt_init") \o Try("amo", Vp(VSRW_GR), "none") \o Go(M) \o Hspt("hspt_del_D")
    \o Go(HS) \o Try("amo", Vp(VSRW_GR), "none") \o Fence \o Go(HS)
    \o Try("amo", Vp(VSRW_GR), "SPF") \o Go(M) \o Hspt("hspt_del_D") \o Hspt("hspt_u_mode_allow")
    \o Fence \o Go(HU) \o Try("amo", Vp(VSURW_GR), "SPF")

page_fault_amo_page_fault_hu_amoadd_w_pte_d1_success ==
    Go(HS) \o Hspt("hspt_init") \o Go(M) \o Hspt("hspt_u_mode_allow") \o Fence \o Go(HU)
    \o Try("amo", Vp(VSURW_GR), "none")

page_fault_amo_page_fault_m_amoadd_w_pte_d1_success_mmu_open ==
    Go(HS) \o Hspt("hspt_init") \o Go(M) \o Raise(MPRV) \o Raise(MPP) \o Fence
    \o Try("amo", Vp(VSRW_GR), "none")

page_fault_amo_mprv_s_pte_d_clear_spf_mmu_open ==
    Go(HS) \o Hspt("hspt_init") \o Go(M) \o Raise(MPRV) \o Raise(MPP) \o Fence \o Arm
    \o Do("amo", Vp(VSRW_GR)) \o Lower(MPRV) \o Expect("none") \o Go(M) \o Hspt("hspt_del_D")
    \o Raise(MPRV) \o Raise(MPP) \o Fence \o Arm \o Do("amo", Vp(VSRW_GR)) \o Lower(MPRV)
    \o Expect("SPF")

page_fault_amo_page_fault_hs_amoadd_w_success_g_bit_page ==
    Go(HS) \o Hspt("hspt_init") \o Go(M) \o Hspt("hspt_add_G") \o Fence \o Go(HS)
    \o Try("amo", Vp(VSRW_GURWX), "none") \o Go(M) \o Hspt("hspt_add_G")
    \o Hspt("hspt_u_mode_allow") \o Fence \o Go(HU) \o Try("amo", Vp(VSRW_GURWX), "none")

page_fault_amo_page_fault_hs_amoadd_w_spf_g_bit_page_w0 ==
    Go(HS) \o Hspt("hspt_init") \o Go(M) \o Hspt("hspt_add_G") \o Fence \o Go(HS)
    \o Try("amo", Vp(VSR_GURWX), "SPF") \o Go(M) \o Hspt("hspt_add_G") \o Hspt("hspt_u_mode_allow")
    \o Fence \o Go(HU) \o Try("amo", Vp(VSR_GURWX), "SPF")

page_fault_amo_page_fault_hs_amoadd_w_spf_r0_medeleg_spf1 ==
    Go(M) \o Delegate("SPF") \o Go(HS) \o Hspt("hspt_init")
    \o TryAt("amo", Vp(VSX_GURWX), "SPF", HS)

page_fault_amo_page_fault_hs_sc_d_2mb_superpage_success ==
    Go(M) \o Go(HS) \o Hspt("hspt_init") \o Try("sc", \h140000, "none")
    \o Try("lr", \h140000, "none") \o Go(M) \o Hspt("hspt_2MB_superpage_misalign_setup") \o Fence
    \o Go(HS) \o Try("sc", \h140000, "SPF") \o Try("lr", \h140000, "LPF") \o Go(M)
    \o Hspt("hspt_2MB_superpage_align_boundary_setup") \o Fence \o Go(HS)
    \o Try("sc", \h140000, "none") \o Go(HS) \o Try("lr", \h140000, "none")

page_fault_amo_page_fault_hs_sc_d_1gb_superpage_success_translation_consistency ==
    Go(M) \o Preamble("pma") \o Clear("pma") \o Bounds("pma", 0, \h0, Top) \o Set("pma", 1, RWXTC)
    \o Go(HS) \o Hspt("hspt_init") \o Try("sc", \hC0000, "none") \o Try("lr", \hC0000, "none")
    \o Go(M) \o Hspt("hspt_1GB_superpage_misalign_setup") \o Fence \o Go(HS)
    \o Try("sc", \hC0000, "SPF") \o Try("lr", \hC0000, "LPF") \o Go(M)
    \o Hspt("hspt_1GB_superpage_align_boundary_setup") \o Fence \o Go(HS)
    \o Try("sc", \hC0000, "none") \o Try("lr", \hC0000, "none") \o End

page_fault_amo_page_fault_hs_sc_d_512gb_superpage_success_translation_consistency ==
    Go(M) \o Preamble("pma") \o Clear("pma") \o Bounds("pma", 0, \h0, Top) \o Set("pma", 1, RWXTC)
    \o Go(HS) \o Hspt("hspt_init") \o Go(M) \o Hspt("set_superpage_512G") \o Fence \o Go(HS)
    \o Try("sc", \h8000000, "none") \o Try("lr", \h8000000, "none") \o Go(M)
    \o Hspt("hspt_512GB_superpage_misalign_setup") \o Fence \o Go(HS) \o Try("sc", \h8000000, "SPF")
    \o Try("lr", \h8000000, "LPF") \o Go(M) \o Hspt("hspt_512GB_superpage_align_boundary_setup")
    \o Fence \o Go(HS) \o Try("sc", \h8000000, "none") \o Try("lr", \h8000000, "none") \o End

-----------------------------------------------------------------------------
(* The part of test_table that registers these tests.                        *)
page_fault_table ==
    << page_fault_amo_mprv_s_pte_a_clear_spf_mmu_open,
       page_fault_amo_mprv_s_pte_d_clear_spf_mmu_open,
       page_fault_amo_page_fault_hs_amo_prepf_fault_spf_mmu_open,
       page_fault_amo_page_fault_hs_amoadd_w_pte_a0_spf,
       page_fault_amo_page_fault_hs_amoadd_w_pte_d1_success_translation_consistency,
       page_fault_amo_page_fault_hs_amoadd_w_spf_g_bit_page_w0,
       page_fault_amo_page_fault_hs_amoadd_w_spf_r0_medeleg_spf1,
       page_fault_amo_page_fault_hs_amoadd_w_success_g_bit_page,
       page_fault_amo_page_fault_hs_exec_amoadd_w_pte_v0_spf,
       page_fault_amo_page_fault_hs_exec_amoadd_w_u_page_sstatus_sum1_success,
       page_fault_amo_page_fault_hs_exec_amomin_d_u_page_mstatus_sum0_lpf,
       page_fault_amo_page_fault_hs_sc_d_1gb_superpage_success_translation_consistency,
       page_fault_amo_page_fault_hs_sc_d_2mb_superpage_success,
       page_fault_amo_page_fault_hs_sc_d_512gb_superpage_success_translation_consistency,
       page_fault_amo_page_fault_hu_amo_prepf_fault_spf_mmu_open,
       page_fault_amo_page_fault_hu_amoadd_w_pte_a1_success,
       page_fault_amo_page_fault_hu_amoadd_w_pte_d1_success,
       page_fault_amo_page_fault_m_amoadd_w_pte_a1_success_mmu_open,
       page_fault_amo_page_fault_m_amoadd_w_pte_d1_success_mmu_open,
       page_fault_inst_asid_switch_global_x_clear_stale_then_ipf_sfence_tlb_consistency,
       page_fault_inst_asid_switch_global_x_set_nonasid_sfence_success_sfence_tlb_consistency,
       page_fault_inst_asid_switch_x_clear_ipf,
       page_fault_inst_asid_switch_x_set_sfence_recovers,
       page_fault_inst_global_x_clear_no_asid_sfence_stale_success_sfence_tlb_consistency,
       page_fault_inst_global_x_set_no_asid_sfence_stays_ipf_sfence_tlb_consistency,
       page_fault_inst_hs_hu_fetch_pte_x1_v1_success,
       page_fault_inst_page_fault_2_hu_fetche_inst_pte_v0_ipf,
       page_fault_inst_page_fault_2_hu_fetche_inst_pte_x0_ipf,
       page_fault_inst_page_fault_2_hu_fetche_inst_x1_v1_success,
       page_fault_inst_page_fault_hs_fetch_inst_ipf_pte_x0_translation_consistency,
       page_fault_inst_page_fault_hs_fetch_inst_pte_x1_success_translation_consistency,
       page_fault_inst_page_fault_hs_fetche_inst_1gb_superpage_success_translation_consistency,
       page_fault_inst_page_fault_hs_fetche_inst_2mb_superpage_success,
       page_fault_inst_page_fault_hs_fetche_inst_512gb_superpage_success_translation_consistency,
       page_fault_inst_page_fault_hs_fetche_inst_a1_success_translation_consistency,
       page_fault_inst_page_fault_hs_fetche_inst_ipf_third_level_pte_reserved_ne_0,
       page_fault_inst_page_fault_hs_fetche_inst_ipf_third_level_pte_v0,
       page_fault_inst_page_fault_hs_fetche_inst_ipf_x0_medeleg_ipf1,
       page_fault_inst_page_fault_hs_fetche_inst_success_g_bit_page,
       page_fault_inst_page_fault_hs_fetche_inst_success_g_bit_page_x0,
       page_fault_inst_page_fault_hs_fetche_inst_u_ipf,
       page_fault_inst_page_fault_hs_fetche_inst_x1_v1_success,
       page_fault_inst_page_fault_hs_instr_fetch_prepf_fault_lpf_mmu_open,
       page_fault_inst_page_fault_hu_fetche_inst_a0_ipf,
       page_fault_inst_page_fault_hu_fetche_inst_a1_success,
       page_fault_inst_page_fault_hu_instr_fetch_prepf_fault_lpf_mmu_open,
       page_fault_load_mprv_s_pte_a_clear_lpf_mmu_open,
       page_fault_load_page_fault_hs_ld_1gb_superpage_success_translation_consistency,
       page_fault_load_page_fault_hs_ld_2mb_superpage_success,
       page_fault_load_page_fault_hs_ld_512gb_superpage_success_translation_consistency,
       page_fault_load_page_fault_hs_ld_lpf_g_bit_page_r0,
       page_fault_load_page_fault_hs_ld_lpf_r0_medeleg_lpf1,
       page_fault_load_page_fault_hs_ld_prepf_fault_lpf_mmu_open,
       page_fault_load_page_fault_hs_ld_pte_a1_success_without_sfence_vma_sfence_tlb_consistency,
       page_fault_load_page_fault_hs_ld_success_g_bit_page,
       page_fault_load_page_fault_hs_ld_u_page_sstatus_sum1_success,
       page_fault_load_page_fault_hs_ld_u_page_vsstatus_sum0_lpf,
       page_fault_load_page_fault_hs_load_pte_v0_lpf,
       page_fault_load_page_fault_hu_ld_prepf_fault_lpf_mmu_open,
       page_fault_load_page_fault_hu_ld_pte_a1_success,
       page_fault_load_page_fault_m_ld_pte_a1_success_mmu_open,
       page_fault_store_mprv_s_pte_a_clear_spf_mmu_open,
       page_fault_store_mprv_s_pte_d_clear_spf_mmu_open,
       page_fault_store_page_fault_hs_sd_1gb_superpage_success_translation_consistency,
       page_fault_store_page_fault_hs_sd_2mb_superpage_success,
       page_fault_store_page_fault_hs_sd_512gb_superpage_success_translation_consistency,
       page_fault_store_page_fault_hs_sd_prepf_fault_spf_mmu_open,
       page_fault_store_page_fault_hs_sd_pte_a1_success_translation_consistency,
       page_fault_store_page_fault_hs_sd_pte_d1_success_translation_consistency,
       page_fault_store_page_fault_hs_sd_pte_v0_lpf,
       page_fault_store_page_fault_hs_sd_spf_g_bit_page_w0,
       page_fault_store_page_fault_hs_sd_spf_r0_medeleg_spf1,
       page_fault_store_page_fault_hs_sd_success_g_bit_page,
       page_fault_store_page_fault_hs_sd_u_page_sstatus_sum0_lpf,
       page_fault_store_page_fault_hs_sd_u_page_sstatus_sum1_success,
       page_fault_store_page_fault_hu_sd_prepf_fault_spf_mmu_open,
       page_fault_store_page_fault_hu_sd_pte_a1_success,
       page_fault_store_page_fault_hu_sd_pte_d1_success,
       page_fault_store_page_fault_m_sd_pte_a1_success_mmu_open,
       page_fault_store_page_fault_m_sd_pte_d1_success_mmu_open >>
=============================================================================
