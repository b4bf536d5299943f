------------------------------- MODULE PageMap -------------------------------
(***************************************************************************)
(* What a test sees of the page tables: where an address leads and with    *)
(* which flags. A test calls hspt_init and the functions that change the   *)
(* tables by name; in which array and at which level an entry lies, which  *)
(* mode is set and what earlier tests left behind is none of its concern.  *)
(* Two of the addresses lie in the identity map (one of them is the        *)
(* program's own), the others are the test pages.                          *)
(***************************************************************************)
EXTENDS PageTables

CONSTANT Bases   \* frames the tests pass as new_base_paddr

VARIABLES
    map,        \* address -> flags and frame; <<>> between set_page_table_mode and the
                \* end of hspt_init
    last,       \* the function that was called last
    calls       \* how many were called

Home == 2 * SUPERPAGE_SIZE(1)
Third == 3 * SUPERPAGE_SIZE(1)
TestAddresses == {Vp(i) : i \in Pages}
Addresses == {Home, Third} \cup TestAddresses

Undefined == <<>>
Misaligned == -3
Lost == [flags |-> {"lost"}, frame |-> Nowhere]

Fresh == [a \in Addresses |->
             IF a \in TestAddresses
             THEN [flags |-> {"A", "D"} \cup test_page_perm_table(a - Vp(0)), frame |-> Pp(a - Vp(0))]
             ELSE [flags |-> {"V", "R", "W", "X", "A", "D"}, frame |-> a]]

-----------------------------------------------------------------------------
(* A page whose table of leaves is out of reach stays so until hspt_init.  *)
Grant(m, A, flags) ==
    [a \in Addresses |-> IF a \in A /\ m[a] # Lost
                         THEN [m[a] EXCEPT !.flags = @ \cup flags] ELSE m[a]]
Revoke(m, flags) ==
    [a \in Addresses |-> IF a \in TestAddresses /\ m[a] # Lost
                         THEN [m[a] EXCEPT !.flags = @ \ flags] ELSE m[a]]
Lead(m, A, frame) ==
    [a \in Addresses |-> IF a \in A /\ m[a] # Lost
                         THEN [m[a] EXCEPT !.frame = frame] ELSE m[a]]
Replace(m, a, leaf) == IF m[a] = Lost THEN m ELSE [m EXCEPT ![a] = leaf]
Swap(m) == [m EXCEPT ![Vp(SWITCH1)] = m[Vp(SWITCH2)], ![Vp(SWITCH2)] = m[Vp(SWITCH1)]]

Targets(m, page, frames) == {Replace(m, Vp(page), [flags |-> Fresh[Vp(page)].flags, frame |-> frame]) :
                              frame \in frames}

(* What a function may do to the map. Those that are made for sv48 only    *)
(* may do nothing, and those for 2 MiB and 512 GiB pages touch no address  *)
(* of the map.                                                             *)
Rights(f, m) ==
    CASE f = "hspt_u_mode_allow" -> {Grant(m, Addresses, {"U"})}
      [] f = "hspt_u_mode_allow_no_leaf" -> {m, Grant(m, Addresses \ TestAddresses, {"U"})}
      [] f = "hspt_add_X" -> {Grant(m, TestAddresses, {"X"})}
      [] f = "hspt_add_G" -> {Grant(m, TestAddresses, {"G"})}
      [] f = "hspt_add_reserved_bits" -> {m, Grant(m, TestAddresses, {"N"})}
      [] f = "hspt_del_D" -> {Revoke(m, {"D"})}
      [] f = "hspt_del_A" -> {Revoke(m, {"A"})}
      [] f = "hspt_del_R" -> {Revoke(m, {"R"})}
      [] f = "hspt_del_W" -> {Revoke(m, {"W"})}
      [] f = "hspt_del_X" -> {Revoke(m, {"X"})}
      [] f = "hspt_del_V" -> {Revoke(m, {"V"})}
      [] OTHER -> {}

Frames(f, m) ==
    CASE f = "hspt_ptw_ppn_high_bit_overflow_setup" ->
             {[a \in Addresses |-> IF a \in TestAddresses THEN Lost ELSE m[a]]}
      [] f = "hspt_llptw_ppn_high_bit_overflow_setup" -> {Lead(m, TestAddresses, Nowhere)}
      [] f = "hspt_1GB_superpage_misalign_setup" ->
             {m, [m EXCEPT ![Third] = [flags |-> Fresh[Third].flags, frame |-> Misaligned]]}
      [] f = "hspt_1GB_superpage_align_boundary_setup" ->
             {m, [m EXCEPT ![Third] = [flags |-> Fresh[Third].flags,
                                           frame |-> 4 * SUPERPAGE_SIZE(1)]]}
      [] f \in {"hspt_2MB_superpage_misalign_setup", "hspt_2MB_superpage_align_boundary_setup",
                "set_superpage_512G", "hspt_512GB_superpage_misalign_setup",
                "hspt_512GB_superpage_align_boundary_setup"} -> {m}
      [] OTHER -> {}

Leaf(f, m, page) ==
    CASE f = "pbmt_hspt_to_x" -> Targets(m, page, {Pp(X)})
      [] f = "pbmt_hspt_to_x_base_paddr" -> Targets(m, page, {base + X : base \in Bases})
      [] f = "hspt_leaf_change_base_paddr" -> {m} \cup Targets(m, page, {base + page : base \in Bases})
      [] f = "hspt_switch" -> {Swap(m)}
      [] OTHER -> {}

Functions == Setters \cup {"pbmt_hspt_to_x", "pbmt_hspt_to_x_base_paddr",
                           "hspt_leaf_change_base_paddr", "hspt_switch"}

-----------------------------------------------------------------------------
Init == map = Undefined /\ last = "none" /\ calls = 0

set_page_table_mode == map' = Undefined /\ UNCHANGED <<last, calls>>

hspt_init_starts == map' = Undefined /\ last' = "hspt_init" /\ calls' = calls + 1
hspt_init_ends == last = "hspt_init" /\ map' = Fresh /\ UNCHANGED <<last, calls>>

Call(f) ==
    /\ last' = f
    /\ map # Undefined
    /\ \E m \in {map} : map' \in Rights(f, m) \cup Frames(f, m) \cup UNION {Leaf(f, m, i) : i \in Pages}
    /\ calls' = calls + 1

Next == set_page_table_mode \/ hspt_init_starts \/ hspt_init_ends \/ \E f \in Functions : Call(f)

Spec == Init /\ [][Next]_<<map, last, calls>>
=============================================================================
