---------------------------- MODULE DynamicProofs ----------------------------
(***************************************************************************)
(* The program's own page stays mapped to itself, with every right,        *)
(* whichever of the two modes the hart translates by and whatever tables   *)
(* the program is building in the meantime; for every number of calls,     *)
(* every set of test pages, and wherever the tables lie.                   *)
(***************************************************************************)
EXTENDS DynamicTables, TLAPS

(* Entry e of tables pt maps onto frame, with all rights.                  *)
Maps(pt, e, frame) ==
    /\ pt[e] \in [flags : SUBSET Flag, ppn : {frame}]
    /\ {"V", "R", "W", "X", "A", "D"} \subseteq pt[e].flags
    /\ "N" \notin pt[e].flags

(* The entries by which the tables, once they are built, reach the program *)
(* from any root a test may choose.                                        *)
Complete(m, pt) ==
    IF m = "sv48"
    THEN /\ pt[<<0, 0>>] = Pointer(1)
         /\ Maps(pt, <<1, 2>>, 2 * SUPERPAGE_SIZE(1))
         /\ Maps(pt, <<1, 0>>, 0)
    ELSE Maps(pt, <<0, 2>>, 2 * SUPERPAGE_SIZE(1))

(* And the entries by which the hart reaches it now. In the middle of      *)
(* hspt_init in sv39, the root of a hart in sv48 turns from a pointer into *)
(* a page of 512 GiB, which leads to the same frame.                       *)
Live(pt) ==
    CASE satp = [mode |-> "sv39", root |-> 0] -> Maps(pt, <<0, 2>>, 2 * SUPERPAGE_SIZE(1))
      [] satp = [mode |-> "sv39", root |-> 3] -> Maps(pt, <<3, 2>>, 2 * SUPERPAGE_SIZE(1))
      [] satp = [mode |-> "sv48", root |-> 0] ->
             /\ pt[<<0, 0>>] = Pointer(1) \/ Maps(pt, <<0, 0>>, 0)
             /\ Maps(pt, <<1, 2>>, 2 * SUPERPAGE_SIZE(1))
      [] satp = [mode |-> "sv48", root |-> 1] -> Maps(pt, <<1, 0>>, 0)
      [] OTHER -> satp = Bare

(* Inside hspt_init the hart is at the root of the array, and what has     *)
(* been stored is in place.                                                *)
Storing ==
    /\ satp.root = 0
    /\ todo \subseteq Statements(mode)
    /\ mode = "sv39" /\ Roots39 \notin todo => Maps(hspt, <<0, 2>>, 2 * SUPERPAGE_SIZE(1))
    /\ mode = "sv48" /\ {<<0, 0>>} \notin todo => hspt[<<0, 0>>] = Pointer(1)
    /\ mode = "sv48" /\ Gigapages \notin todo =>
           Maps(hspt, <<1, 2>>, 2 * SUPERPAGE_SIZE(1)) /\ Maps(hspt, <<1, 0>>, 0)

(* The tables are changed only in the mode the hart is in.                 *)
Built == Complete(mode, hspt) /\ satp.mode \in {mode, "bare"}

Inv ==
    /\ mode \in Modes
    /\ DOMAIN hspt = Cells
    /\ Live(hspt)
    /\ IF phase = "stores" THEN Storing ELSE todo = {}
    /\ phase = "built" => Built

-----------------------------------------------------------------------------
(* The entries these formulas speak of are no test pages.                  *)
Keys(m) == IF m = "sv48" THEN {<<1, 2>>, <<1, 0>>} ELSE {<<0, 2>>, <<3, 2>>}

LEMMA KeyCells ==
    ASSUME NEW m \in Modes
    PROVE  /\ <<0, 0>> \in Cells /\ <<0, 2>> \in Cells /\ <<3, 2>> \in Cells
           /\ <<1, 0>> \in Cells /\ <<1, 2>> \in Cells
           /\ <<0, 0>> \notin LeavesOf(m) /\ <<0, 2>> \notin LeavesOf(m)
           /\ <<3, 2>> \notin LeavesOf(m)
           /\ <<1, 0>> \notin LeavesOf(m) /\ <<1, 2>> \notin LeavesOf(m)
           /\ LeavesOf(m) \subseteq Cells
BY DEF Modes, Cells, Entries, Roots39, Gigapages, Megapages, Pointers, HugePage, Leaves,
       LeavesOf, Leaf

(* What a function called in mode m may do to the entries of that mode     *)
(* that reach the program: give them U.                                    *)
Harmless(m, pt, new) ==
    /\ DOMAIN new = Cells
    /\ m = "sv48" => new[<<0, 0>>] = pt[<<0, 0>>]
    /\ \A e \in Keys(m) : new[e] = pt[e] \/ new[e] = [pt[e] EXCEPT !.flags = @ \cup {"U"}]

LEMMA MapsWithU ==
    ASSUME NEW pt, NEW new, NEW e, NEW frame, Maps(pt, e, frame),
           new[e] = pt[e] \/ new[e] = [pt[e] EXCEPT !.flags = @ \cup {"U"}]
    PROVE  Maps(new, e, frame)
<1>1. CASE new[e] = pt[e]
    BY <1>1 DEF Maps
<1>2. CASE new[e] = [pt[e] EXCEPT !.flags = @ \cup {"U"}]
    <2>1. pt[e] = [flags |-> pt[e].flags, ppn |-> frame] /\ pt[e].flags \in SUBSET Flag
        BY DEF Maps
    <2>2. new[e] = [flags |-> pt[e].flags \cup {"U"}, ppn |-> frame]
        BY <1>2, <2>1
    <2>3. pt[e].flags \cup {"U"} \in SUBSET Flag
        BY <2>1 DEF Flag
    <2> QED BY <2>2, <2>3 DEF Maps
<1> QED BY <1>1, <1>2

LEMMA HarmlessKeeps ==
    ASSUME NEW m \in Modes, NEW pt, NEW new, Harmless(m, pt, new), Complete(m, pt)
    PROVE  /\ Complete(m, new)
           /\ Live(pt) /\ satp.mode \in {m, "bare"} => Live(new)
<1>1. CASE m = "sv48"
    <2>1. \A frame : /\ Maps(pt, <<1, 2>>, frame) => Maps(new, <<1, 2>>, frame)
                     /\ Maps(pt, <<1, 0>>, frame) => Maps(new, <<1, 0>>, frame)
        BY <1>1, MapsWithU DEF Harmless, Keys
    <2>2. new[<<0, 0>>] = pt[<<0, 0>>]
        BY <1>1 DEF Harmless
    <2> QED BY <1>1, <2>1, <2>2 DEF Complete, Live, Bare
<1>2. CASE m = "sv39"
    <2>1. \A frame : /\ Maps(pt, <<0, 2>>, frame) => Maps(new, <<0, 2>>, frame)
                     /\ Maps(pt, <<3, 2>>, frame) => Maps(new, <<3, 2>>, frame)
        BY <1>2, MapsWithU DEF Harmless, Keys
    <2> QED BY <1>2, <2>1 DEF Complete, Live, Bare
<1> QED BY <1>1, <1>2 DEF Modes

LEMMA LeavesHarmless ==
    ASSUME NEW m \in Modes, NEW pt, DOMAIN pt = Cells, NEW flags
    PROVE  /\ Harmless(m, pt, pt)
           /\ Harmless(m, pt, Add(pt, LeavesOf(m), flags))
           /\ Harmless(m, pt, Del(pt, LeavesOf(m), flags))
           /\ Harmless(m, pt, Overflow(pt, LeavesOf(m)))
BY KeyCells DEF Harmless, Keys, Add, Del, Overflow

LEMMA WideHarmless ==
    ASSUME NEW m \in Modes, NEW pt, DOMAIN pt = Cells
    PROVE  /\ Harmless(m, pt, Add(pt, Wide(m), {"U"}))
           /\ Harmless(m, pt, Add(pt, Wide(m) \cup LeavesOf(m), {"U"}))
<1>1. m = "sv48" => <<0, 0>> \notin Wide(m)
    BY DEF Wide, Gigapages, Megapages
<1> QED BY <1>1, KeyCells DEF Harmless, Keys, Add

LEMMA FramesHarmless ==
    ASSUME NEW m \in Modes, NEW pt, DOMAIN pt = Cells, NEW f
    PROVE  Harmless(m, pt, Frames(f, m, pt))
<1>1. Harmless(m, pt, Overflow(pt, {IF m = "sv48" THEN <<2, 0>> ELSE <<1, 0>>}))
    BY KeyCells DEF Harmless, Keys, Overflow, Modes
<1>2. m = "sv48" => Harmless(m, pt, Superpages(f, pt))
    BY KeyCells DEF Harmless, Keys, Superpages, HugePage
<1> QED BY <1>1, <1>2, LeavesHarmless DEF Frames, Only48

LEMMA CallHarmless ==
    ASSUME NEW m \in Modes, NEW pt, DOMAIN pt = Cells, NEW f
    PROVE  Harmless(m, pt, Changed(f, m, pt))
<1>1. f \in RightsSetters => Harmless(m, pt, Rights(f, m, pt))
    BY LeavesHarmless, WideHarmless DEF RightsSetters, Rights, Only48
<1> QED BY <1>1, FramesHarmless DEF Changed

LEMMA LeafHarmless ==
    ASSUME NEW m \in Modes, NEW pt, DOMAIN pt = Cells, NEW page \in Pages, NEW frame
    PROVE  /\ Harmless(m, pt, LeafAt(m, pt, page, frame))
           /\ Harmless(m, pt, Only48(m, pt, LeafAt("sv48", pt, page, frame)))
           /\ {SWITCH1, SWITCH2} \subseteq Pages => Harmless(m, pt, Switched(m, pt))
<1>1. <<Leaf(m), page>> \in LeavesOf(m)
    BY DEF LeavesOf
<1>2. Harmless(m, pt, LeafAt(m, pt, page, frame))
    BY <1>1, KeyCells DEF Harmless, Keys, LeafAt
<1>3. Harmless(m, pt, Only48(m, pt, LeafAt("sv48", pt, page, frame)))
    BY <1>2, LeavesHarmless DEF Only48
<1>4. ASSUME {SWITCH1, SWITCH2} \subseteq Pages PROVE Harmless(m, pt, Switched(m, pt))
    <2>1. <<Leaf(m), SWITCH1>> \in LeavesOf(m) /\ <<Leaf(m), SWITCH2>> \in LeavesOf(m)
        BY <1>4 DEF LeavesOf
    <2> QED BY <2>1, KeyCells DEF Harmless, Keys, Switched
<1> QED BY <1>2, <1>3, <1>4

-----------------------------------------------------------------------------
(* hspt_init: what each mode stores where the program is reached.          *)
LEMMA SuperpageMaps ==
    ASSUME NEW pt, NEW e, NEW frame, pt[e] = Superpage(frame)
    PROVE  Maps(pt, e, frame)
BY DEF Maps, Superpage, Flag

LEMMA Store39 ==
    ASSUME NEW pt, NEW E \in Statements("sv39")
    PROVE  LET new == Stored("sv39", pt, E)
           IN  /\ DOMAIN new = Cells
               /\ E = Roots39 => /\ Maps(new, <<0, 2>>, 2 * SUPERPAGE_SIZE(1))
                                 /\ Maps(new, <<0, 0>>, 0)
               /\ E # Roots39 => new[<<0, 2>>] = pt[<<0, 2>>] /\ new[<<0, 0>>] = pt[<<0, 0>>]
               /\ new[<<1, 2>>] = pt[<<1, 2>>]
<1> DEFINE new == Stored("sv39", pt, E)
<1>1. DOMAIN new = Cells /\ \A e \in Cells : new[e] = IF e \in E THEN Assigned39(e) ELSE pt[e]
    BY DEF Stored, Assigned
<1>2. E \in {Roots39, {<<0, 4>>}, {<<1, 0>>}, LeavesOf("sv39")}
    BY DEF Statements
<1>3. <<0, 0>> \in Roots39 /\ <<0, 2>> \in Roots39
    BY DEF Roots39
<1>4. ASSUME E = Roots39
      PROVE  Maps(new, <<0, 2>>, 2 * SUPERPAGE_SIZE(1)) /\ Maps(new, <<0, 0>>, 0)
    <2>1. /\ new[<<0, 2>>] = Superpage(2 * SUPERPAGE_SIZE(1))
          /\ new[<<0, 0>>] = Superpage(0 * SUPERPAGE_SIZE(1))
        BY <1>1, <1>3, <1>4, KeyCells DEF Assigned39, Modes
    <2>2. 0 * SUPERPAGE_SIZE(1) = 0
        BY DEF SUPERPAGE_SIZE
    <2> QED BY <2>1, <2>2, SuperpageMaps
<1>5. ASSUME E # Roots39 PROVE <<0, 2>> \notin E /\ <<0, 0>> \notin E
    BY <1>2, <1>5, KeyCells DEF Modes
<1>6. <<1, 2>> \notin E
    BY <1>2, KeyCells DEF Modes, Roots39
<1> HIDE DEF new
<1>7. new[<<1, 2>>] = pt[<<1, 2>>]
    BY <1>1, <1>6, KeyCells DEF Modes
<1>8. E # Roots39 => new[<<0, 2>>] = pt[<<0, 2>>] /\ new[<<0, 0>>] = pt[<<0, 0>>]
    BY <1>1, <1>5, KeyCells DEF Modes
<1> QED BY <1>1, <1>4, <1>7, <1>8 DEF new

LEMMA Store48 ==
    ASSUME NEW pt, NEW E \in Statements("sv48")
    PROVE  LET new == Stored("sv48", pt, E)
           IN  /\ DOMAIN new = Cells
               /\ E = {<<0, 0>>} => new[<<0, 0>>] = Pointer(1)
               /\ E # {<<0, 0>>} => new[<<0, 0>>] = pt[<<0, 0>>]
               /\ E = Gigapages => /\ Maps(new, <<1, 2>>, 2 * SUPERPAGE_SIZE(1))
                                   /\ Maps(new, <<1, 0>>, 0)
               /\ E # Gigapages => new[<<1, 2>>] = pt[<<1, 2>>] /\ new[<<1, 0>>] = pt[<<1, 0>>]
               /\ new[<<0, 2>>] = pt[<<0, 2>>]
<1> DEFINE new == Stored("sv48", pt, E)
<1>1. DOMAIN new = Cells /\ \A e \in Cells : new[e] = IF e \in E THEN Assigned48(e) ELSE pt[e]
    BY DEF Stored, Assigned
<1>2. E \in {{<<0, 0>>}, Gigapages, {<<1, 4>>}, {<<1, 5>>}, {<<2, 0>>}, Megapages, LeavesOf("sv48")}
    BY DEF Statements
<1>3. /\ <<1, 0>> \in Gigapages /\ <<1, 2>> \in Gigapages
      /\ <<0, 0>> \notin Gigapages /\ <<0, 2>> \notin Gigapages
      /\ {<<0, 0>>, <<1, 0>>, <<1, 2>>, <<0, 2>>} \cap Megapages = {}
    BY DEF Gigapages, Megapages
<1>4. ASSUME E = Gigapages
      PROVE  Maps(new, <<1, 2>>, 2 * SUPERPAGE_SIZE(1)) /\ Maps(new, <<1, 0>>, 0)
    <2>1. /\ new[<<1, 2>>] = Superpage(2 * SUPERPAGE_SIZE(1))
          /\ new[<<1, 0>>] = Superpage(0 * SUPERPAGE_SIZE(1))
        BY <1>1, <1>3, <1>4, KeyCells DEF Assigned48, Modes
    <2>2. 0 * SUPERPAGE_SIZE(1) = 0
        BY DEF SUPERPAGE_SIZE
    <2> QED BY <2>1, <2>2, SuperpageMaps
<1>5. ASSUME E # Gigapages PROVE <<1, 2>> \notin E /\ <<1, 0>> \notin E
    BY <1>2, <1>3, <1>5, KeyCells DEF Modes
<1>6. <<0, 2>> \notin E /\ (E # {<<0, 0>>} => <<0, 0>> \notin E)
    BY <1>2, <1>3, KeyCells DEF Modes
<1>7. ASSUME E = {<<0, 0>>} PROVE new[<<0, 0>>] = Pointer(1)
    <2>1. Assigned48(<<0, 0>>) = Pointer(1)
        <3>1. <<0, 0>> # <<1, 4>> /\ <<0, 0>> # <<1, 5>> /\ <<0, 0>> # <<2, 0>>
            OBVIOUS
        <3> QED BY <1>3, <3>1, Zenon DEF Assigned48
    <2>2. <<0, 0>> \in E
        BY <1>7
    <2> HIDE DEF new
    <2> QED BY <1>1, <2>1, <2>2, KeyCells DEF Modes
<1> HIDE DEF new
<1>8. /\ new[<<0, 2>>] = pt[<<0, 2>>]
      /\ E # {<<0, 0>>} => new[<<0, 0>>] = pt[<<0, 0>>]
    BY <1>1, <1>6, KeyCells DEF Modes
<1>9. E # Gigapages => new[<<1, 2>>] = pt[<<1, 2>>] /\ new[<<1, 0>>] = pt[<<1, 0>>]
    BY <1>1, <1>5, KeyCells DEF Modes
<1> QED BY <1>1, <1>4, <1>7, <1>8, <1>9 DEF new

(* A store of one mode keeps the hart going that translates by the other.  *)
LEMMA StoreStep ==
    ASSUME Inv, phase = "stores", NEW E \in todo, Store(E)
    PROVE  Inv'
<1>1. /\ Storing /\ mode \in Modes /\ Live(hspt) /\ E \in Statements(mode)
      /\ hspt' = Stored(mode, hspt, E) /\ todo' = todo \ {E}
      /\ UNCHANGED <<mode, phase, satp>>
    BY DEF Inv, Storing, Store
<1>2. satp.root = 0 /\ todo \subseteq Statements(mode)
    BY <1>1 DEF Storing
<1>3. CASE mode = "sv39"
    <2>1. /\ DOMAIN hspt' = Cells
          /\ E = Roots39 => /\ Maps(hspt', <<0, 2>>, 2 * SUPERPAGE_SIZE(1))
                            /\ Maps(hspt', <<0, 0>>, 0)
          /\ E # Roots39 => hspt'[<<0, 2>>] = hspt[<<0, 2>>] /\ hspt'[<<0, 0>>] = hspt[<<0, 0>>]
          /\ hspt'[<<1, 2>>] = hspt[<<1, 2>>]
        BY <1>1, <1>3, Store39
    <2>2. Live(hspt)'
        BY <1>1, <1>2, <2>1 DEF Live, Maps, Bare
    <2>3. Storing'
        BY <1>1, <1>2, <1>3, <2>1 DEF Storing, Maps
    <2> QED BY <1>1, <2>1, <2>2, <2>3 DEF Inv
<1>4. CASE mode = "sv48"
    <2>1. /\ DOMAIN hspt' = Cells
          /\ E = {<<0, 0>>} => hspt'[<<0, 0>>] = Pointer(1)
          /\ E # {<<0, 0>>} => hspt'[<<0, 0>>] = hspt[<<0, 0>>]
          /\ E = Gigapages => /\ Maps(hspt', <<1, 2>>, 2 * SUPERPAGE_SIZE(1))
                              /\ Maps(hspt', <<1, 0>>, 0)
          /\ E # Gigapages => hspt'[<<1, 2>>] = hspt[<<1, 2>>] /\ hspt'[<<1, 0>>] = hspt[<<1, 0>>]
          /\ hspt'[<<0, 2>>] = hspt[<<0, 2>>]
        BY <1>1, <1>4, Store48
    <2>2. Live(hspt)'
        BY <1>1, <1>2, <2>1 DEF Live, Maps, Bare
    <2>3. Storing'
        BY <1>1, <1>2, <1>4, <2>1 DEF Storing, Maps
    <2> QED BY <1>1, <2>1, <2>2, <2>3 DEF Inv
<1> QED BY <1>1, <1>3, <1>4 DEF Modes

(* hspt_init starts with nothing stored, and ends with everything.         *)
LEMMA InitStep ==
    ASSUME Inv, InitStarts \/ InitEnds
    PROVE  Inv'
<1>1. CASE InitStarts
    <2>1. /\ UNCHANGED <<mode, satp, hspt>> /\ satp.root = 0 /\ phase' = "stores"
          /\ todo' = Statements(mode)
        BY <1>1 DEF InitStarts
    <2>2. /\ mode = "sv39" => Roots39 \in Statements(mode)
          /\ mode = "sv48" => {<<0, 0>>} \in Statements(mode) /\ Gigapages \in Statements(mode)
        BY DEF Statements
    <2>3. Storing'
        BY <2>1, <2>2 DEF Storing
    <2> QED BY <2>1, <2>3 DEF Inv, Live
<1>2. CASE InitEnds
    <2>1. /\ UNCHANGED <<mode, todo, hspt>> /\ phase' = "built" /\ Storing /\ todo = {}
          /\ satp' = [mode |-> mode, root |-> 0] /\ mode \in Modes /\ DOMAIN hspt = Cells
        BY <1>2 DEF InitEnds, Inv
    <2>2. Complete(mode, hspt)
        BY <2>1 DEF Storing, Complete, Modes
    <2>3. Live(hspt)'
        BY <2>1, <2>2 DEF Complete, Live, Modes, Maps
    <2> QED BY <2>1, <2>2, <2>3 DEF Inv, Built, Complete, Maps
<1> QED BY <1>1, <1>2

(* The functions on built tables.                                          *)
LEMMA BecomesStep ==
    ASSUME Inv, phase = "built", NEW f, NEW new, Harmless(mode, hspt, new), Becomes(f, new)
    PROVE  Inv'
<1>1. /\ hspt' = new /\ UNCHANGED <<mode, phase, todo, satp>>
      /\ mode \in Modes /\ Live(hspt) /\ Built /\ todo = {}
    BY DEF Becomes, Inv
<1>2. Complete(mode, new) /\ Live(new)
    BY <1>1, HarmlessKeeps DEF Built
<1>3. DOMAIN new = Cells
    BY DEF Harmless
<1>4. Live(hspt)' /\ Complete(mode, hspt)'
    BY <1>1, <1>2 DEF Live, Complete, Maps
<1>5. Built'
    BY <1>1, <1>4 DEF Built
<1> QED BY <1>1, <1>3, <1>4, <1>5 DEF Inv

LEMMA CallStep ==
    ASSUME Inv, Next
    PROVE  (\/ \E f \in Setters \ {"hspt_init"} : Call(f)
            \/ \E page \in Pages : ToX(page)
            \/ \E page \in Pages, base \in Bases : ToXBase(page, base) \/ ChangeBase(page, base)
            \/ Switch) => Inv'
<1>1. mode \in Modes /\ DOMAIN hspt = Cells
    BY DEF Inv
<1>2. ASSUME NEW f, Call(f) PROVE Inv'
    BY <1>1, <1>2, CallHarmless, BecomesStep DEF Call, Ready
<1>3. ASSUME NEW page \in Pages, ToX(page) PROVE Inv'
    BY <1>1, <1>3, LeafHarmless, BecomesStep DEF ToX, Ready
<1>4. ASSUME NEW page \in Pages, NEW base, ToXBase(page, base) PROVE Inv'
    BY <1>1, <1>4, LeafHarmless, BecomesStep DEF ToXBase, Ready
<1>5. ASSUME NEW page \in Pages, NEW base, ChangeBase(page, base) PROVE Inv'
    BY <1>1, <1>5, LeafHarmless, BecomesStep DEF ChangeBase, Ready
<1>6. ASSUME Switch PROVE Inv'
    <2>1. SWITCH1 \in Pages /\ {SWITCH1, SWITCH2} \subseteq Pages
        BY <1>6 DEF Switch
    <2> QED BY <1>1, <1>6, <2>1, LeafHarmless, BecomesStep DEF Switch, Ready
<1> QED BY <1>2, <1>3, <1>4, <1>5, <1>6

(* The steps that leave the tables alone, or fill a root of their own.     *)
LEMMA RootStep ==
    ASSUME Inv, NewRoot
    PROVE  Inv'
<1>1. /\ phase = "built" /\ satp = [mode |-> mode, root |-> 0]
      /\ UNCHANGED <<mode, phase, todo>> /\ todo = {}
      /\ satp' = [satp EXCEPT !.root = IF mode = "sv48" THEN 1 ELSE 3]
      /\ hspt' = [e \in Cells |-> IF mode = "sv39" /\ e \in Megapages
                                  THEN Superpage(e[2] * SUPERPAGE_SIZE(1)) ELSE hspt[e]]
      /\ mode \in Modes /\ DOMAIN hspt = Cells /\ Complete(mode, hspt)
    BY DEF NewRoot, Inv, Built
<1>2. satp' = [mode |-> mode, root |-> IF mode = "sv48" THEN 1 ELSE 3]
    BY <1>1
<1>3. DOMAIN hspt' = Cells /\ <<3, 2>> \in Megapages
    BY <1>1 DEF Megapages
<1>4. CASE mode = "sv48"
    <2>1. hspt'[<<0, 0>>] = hspt[<<0, 0>>] /\ hspt'[<<1, 2>>] = hspt[<<1, 2>>]
          /\ hspt'[<<1, 0>>] = hspt[<<1, 0>>]
        BY <1>1, <1>4, KeyCells
    <2>2. Complete(mode, hspt)'
        BY <1>1, <1>4, <2>1 DEF Complete, Maps
    <2>3. Live(hspt)'
        BY <1>1, <1>2, <1>4, <2>2 DEF Complete, Live, Maps
    <2> QED BY <1>1, <1>2, <1>3, <2>2, <2>3 DEF Inv, Built
<1>5. CASE mode = "sv39"
    <2>1. <<0, 2>> \notin Megapages
        BY DEF Megapages
    <2>2. hspt'[<<0, 2>>] = hspt[<<0, 2>>] /\ hspt'[<<3, 2>>] = Superpage(2 * SUPERPAGE_SIZE(1))
        BY <1>1, <1>3, <1>5, <2>1, KeyCells
    <2>3. Complete(mode, hspt)'
        BY <1>1, <1>5, <2>2 DEF Complete, Maps
    <2>4. Maps(hspt, <<3, 2>>, 2 * SUPERPAGE_SIZE(1))'
        BY <2>2, SuperpageMaps
    <2>5. Live(hspt)'
        BY <1>1, <1>2, <1>5, <2>4 DEF Live, Maps
    <2> QED BY <1>1, <1>2, <1>3, <2>3, <2>5 DEF Inv, Built
<1> QED BY <1>1, <1>4, <1>5 DEF Modes

LEMMA InvStep == Inv /\ [Next]_vars => Inv'
<1> SUFFICES ASSUME Inv, [Next]_vars PROVE Inv'
    OBVIOUS
<1>1. ASSUME NEW m \in Modes, SetMode(m) PROVE Inv'
    BY <1>1 DEF SetMode, Inv, Live
<1>2. ASSUME SatpOff PROVE Inv'
    BY <1>2 DEF SatpOff, Inv, Live, Built, Bare
<1>3. ASSUME UNCHANGED vars PROVE Inv'
    BY <1>3 DEF vars, Inv, Live, Built, Storing
<1>4. ASSUME NEW E \in todo, Store(E) PROVE Inv'
    BY <1>4, StoreStep DEF Inv
<1> QED BY <1>1, <1>2, <1>3, <1>4, InitStep, CallStep, RootStep DEF Next

-----------------------------------------------------------------------------
(* The walks of the hart from the roots a test may choose.                 *)
LEMMA InvMaps == Inv => ProgramMapped
<1> SUFFICES ASSUME Inv, satp.mode # "bare"
             PROVE  LET t == Translation(satp.mode, satp.root, hspt, Home)
                    IN  /\ t.frame = Home
                        /\ {"V", "R", "W", "X", "A", "D"} \subseteq t.flags
                        /\ "N" \notin t.flags
    BY DEF ProgramMapped
<1> DEFINE huge == SUPERPAGE_SIZE(0)
           giga == SUPERPAGE_SIZE(1)
<1>1. /\ huge \in Nat \ {0} /\ giga \in Nat \ {0} /\ Home \in Nat /\ 2 * giga = Home
      /\ Home \div huge = 0 /\ Home % huge = Home /\ 0 % huge = 0
      /\ (Home \div giga) % 512 = 2 /\ Home % giga = 0
    BY SMT DEF Home, SUPERPAGE_SIZE
<1> HIDE DEF huge, giga
<1>2. ASSUME NEW i \in {0, 1, 3}, NEW j \in Int, <<i, j>> \in Cells
      PROVE  Cell(hspt, Table(i), j) = hspt[<<i, j>>]
    BY <1>2, ImageAssumption DEF Cell, Table, Nowhere
<1>3. ASSUME NEW e, NEW frame \in Nat, NEW size \in {huge, giga},
             Maps(hspt, e, frame), frame % size = 0, frame + (Home % size) = Home
      PROVE  LET w == [pte |-> hspt[e], size |-> size]
             IN  /\ Leads(w, Home).frame = Home
                 /\ {"V", "R", "W", "X", "A", "D"} \subseteq Leads(w, Home).flags
                 /\ "N" \notin Leads(w, Home).flags
    BY <1>3 DEF Leads, FrameOf, Maps, Nowhere
<1>4. ASSUME NEW e, NEW frame \in Nat, NEW size \in {huge, giga},
             Maps(hspt, e, frame), frame % size = 0, frame + (Home % size) = Home,
             WalkFrom(satp.mode, satp.root, hspt, Home) = [pte |-> hspt[e], size |-> size]
      PROVE  LET t == Translation(satp.mode, satp.root, hspt, Home)
             IN  /\ t.frame = Home
                 /\ {"V", "R", "W", "X", "A", "D"} \subseteq t.flags
                 /\ "N" \notin t.flags
    BY <1>4, <1>3, Zenon DEF Translation
<1>5. ASSUME NEW e, NEW frame, Maps(hspt, e, frame) PROVE ~IsPointer(hspt[e])
    BY <1>5 DEF Maps, IsPointer
<1>6. CASE satp = [mode |-> "sv39", root |-> 0]
    <2>1. Maps(hspt, <<0, 2>>, 2 * giga)
        BY <1>6 DEF Inv, Live, giga
    <2>2. Walk1G(hspt, Table(0), Home) = [pte |-> hspt[<<0, 2>>], size |-> giga]
        BY <1>1, <1>2, <1>5, <2>1, KeyCells DEF Walk1G, giga, Modes
    <2>3. WalkFrom(satp.mode, satp.root, hspt, Home) = [pte |-> hspt[<<0, 2>>], size |-> giga]
        BY <1>6, <2>2 DEF WalkFrom
    <2>4. 2 * giga \in Nat /\ 2 * giga % giga = 0 /\ 2 * giga + (Home % giga) = Home
        BY <1>1
    <2> QED BY <1>4, <2>1, <2>3, <2>4
<1>7. CASE satp = [mode |-> "sv39", root |-> 3]
    <2>1. Maps(hspt, <<3, 2>>, 2 * giga)
        BY <1>7 DEF Inv, Live, giga
    <2>2. Walk1G(hspt, Table(3), Home) = [pte |-> hspt[<<3, 2>>], size |-> giga]
        BY <1>1, <1>2, <1>5, <2>1, KeyCells DEF Walk1G, giga, Modes
    <2>3. WalkFrom(satp.mode, satp.root, hspt, Home) = [pte |-> hspt[<<3, 2>>], size |-> giga]
        BY <1>7, <2>2 DEF WalkFrom
    <2>4. 2 * giga \in Nat /\ 2 * giga % giga = 0 /\ 2 * giga + (Home % giga) = Home
        BY <1>1
    <2> QED BY <1>4, <2>1, <2>3, <2>4
<1>8. CASE satp = [mode |-> "sv48", root |-> 1]
    <2>1. Maps(hspt, <<1, 0>>, 0)
        BY <1>8 DEF Inv, Live, giga
    <2>2. Walk512G(hspt, Table(1), Home) = [pte |-> hspt[<<1, 0>>], size |-> huge]
        BY <1>1, <1>2, <1>5, <2>1, KeyCells DEF Walk512G, huge, Modes
    <2>3. WalkFrom(satp.mode, satp.root, hspt, Home) = [pte |-> hspt[<<1, 0>>], size |-> huge]
        BY <1>8, <2>2 DEF WalkFrom
    <2>4. 0 \in Nat /\ 0 % huge = 0 /\ 0 + (Home % huge) = Home
        BY <1>1
    <2> QED BY <1>4, <2>1, <2>3, <2>4
<1>9. CASE satp = [mode |-> "sv48", root |-> 0]
    <2>1. /\ hspt[<<0, 0>>] = Pointer(1) \/ Maps(hspt, <<0, 0>>, 0)
          /\ Maps(hspt, <<1, 2>>, 2 * giga)
        BY <1>9 DEF Inv, Live, giga
    <2>2. CASE hspt[<<0, 0>>] = Pointer(1)
        <3>1. Walk512G(hspt, Table(0), Home) = Walk1G(hspt, Table(1), Home)
            BY <1>1, <1>2, <2>2, KeyCells DEF Walk512G, huge, Pointer, IsPointer, Modes
        <3>2. Walk1G(hspt, Table(1), Home) = [pte |-> hspt[<<1, 2>>], size |-> giga]
            BY <1>1, <1>2, <1>5, <2>1, KeyCells DEF Walk1G, giga, Modes
        <3>3. WalkFrom(satp.mode, satp.root, hspt, Home) = [pte |-> hspt[<<1, 2>>], size |-> giga]
            BY <1>9, <3>1, <3>2 DEF WalkFrom
        <3>4. 2 * giga \in Nat /\ 2 * giga % giga = 0 /\ 2 * giga + (Home % giga) = Home
            BY <1>1
        <3> QED BY <1>4, <2>1, <3>3, <3>4
    <2>3. CASE Maps(hspt, <<0, 0>>, 0)
        <3>1. Walk512G(hspt, Table(0), Home) = [pte |-> hspt[<<0, 0>>], size |-> huge]
            BY <1>1, <1>2, <1>5, <2>3, KeyCells DEF Walk512G, huge, Modes
        <3>2. WalkFrom(satp.mode, satp.root, hspt, Home) = [pte |-> hspt[<<0, 0>>], size |-> huge]
            BY <1>9, <3>1 DEF WalkFrom
        <3>3. 0 \in Nat /\ 0 % huge = 0 /\ 0 + (Home % huge) = Home
            BY <1>1
        <3> QED BY <1>4, <2>3, <3>2, <3>3
    <2> QED BY <2>1, <2>2, <2>3
<1>10. satp # Bare
    BY DEF Bare
<1> QED BY <1>6, <1>7, <1>8, <1>9, <1>10 DEF Inv, Live

(* Whatever functions a test calls, in whatever order and mode, from       *)
(* whatever root the hart translates, and whichever stores of hspt_init    *)
(* have taken effect: the program stays where it is, with every right.     *)
THEOREM ProgramAlwaysMapped == Spec => []ProgramMapped
<1>1. Init => Inv
    BY DEF Init, Inv, Live, Bare, Modes
<1> QED BY <1>1, InvStep, InvMaps, PTL DEF Spec
=============================================================================
