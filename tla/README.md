# A TLA+ model of the RISC-V architecture tests

The repository is a bare-metal test framework (C and assembly), a collection of test cases built on it, and
Python/make tooling that turns each case into an ELF file, runs it on Spike, NEMU or LinkNan and reads the verdict.
This directory models the parts of it that have state and control worth checking, model-checks them with TLC and proves
the central invariants with TLAPS.

    tlc -config Switches.cfg MCTrap.tla      # any .cfg with the module PROJECT.json names for it
    tlapm TrapProofs.tla                     # the proofs

`PROJECT.json` lists components, runs, mutants, the source lines of every definition, findings, hazards and theorems.

## 1. Inventory

| Component | State | Operations | Hard behaviour | What makes it correct |
|---|---|---|---|---|
| Trap and privilege core: `src/rvh_test.c`, `inc/rvh_test.h`, `asm/handlers.S`, `src/main.c` | `curr_priv`, `real_priv`, `ecall_args`, `excpt`, the trap CSRs of the hart, `mepc`/`sepc` | `goto_priv`, `lower_priv`, `goto_priv_u_to_m_direct`, `mhandler`, `hshandler`, `TEST_SETUP_EXCEPT`, `TEST_EXEC_EXCEPT`, `TEST_END`, `reset_state`, main's loop | a handler calls `goto_priv`, which traps into a handler; an interrupt hits any instruction of `lower_priv` or `hshandler`; variables a trap leaves for the next one | the framework's privilege is the hart's; a switch ends where it was asked to; a trap is recorded as it was; one test leaves no CSR and no interrupt to the next; every run comes to `exit` |
| Static page tables: `src/page_tables.c` | `hspt`, and `vspt` and `hpt` of the H extension | `hspt_init`, `hspt_u_mode_allow`, `hspt_del_*`, `hspt_add_*`, the superpage and overflow set-ups | flags added and removed in place, in any order, in tables the program itself runs by | the program stays mapped; `hspt_init` undoes whatever was done |
| Dynamic page tables: `src/dynamic_page_tables.c` | the same array and `current_page_table_mode` | `set_page_table_mode`, `hspt_init` of two modes, the same functions | an entry is a leaf of one mode and the root or a pointer of the other; `hspt_init` writes over the tables the hart is using | a test sees the same page map in both modes, and what the static backend gives in sv48; the program stays mapped at every store |
| HTIF console: `platform/spike`, `rocket_emul` | `putchar`'s 64-byte buffer, `tohost`, `fromhost` | `putchar`, `syscall`, `tohost_exit` | a trap handler that prints while the test prints | each character is written once, in order |
| UART consoles: `platform/nemu`, `linknan`, `qemu`, `rocket_fpga` | device registers | polling writes | few | each character is written |
| Barrier: `platform/spike/util.h` | `sense`, `count`, per core `threadsense` | `barrier` | re-entry of fast cores | no core leaves before the last has come; no test case calls it |
| Build: `scripts/compile_elf.py`, `Makefile`, `scripts/archtest_common.py` | `.tmp/hyptest_compile/`, `build/<plat>/`, `case_elf_asm/<plat>/`, `artifact_name_map.json`, one lock file per platform | lock, write register, clean, make, export, save the map | invocations in parallel, objects compiled with other flags, crashes and failing steps half way | an ELF is the case, and the build, it is named for |
| Results: `scripts/get_result.py` with the printing macros | the output, the log | `run_one`, `result_from_output`, timeout | runs that end early, hang, say both words or none; a macro that does not parenthesise its argument | PASS is earned, FAIL is told |
| Test cases: `test_cases/`, `test_register.c` | their own data; PMP, PMA, `satp`, `mstatus` and the tables, through the framework | 24k lines of straight-line checks | each puts the hart into an unusual state, under the framework's feet, and must assert what the architecture then prescribes | every assertion holds on every hart the architecture allows; the test comes back to main, or the program ends by `ERROR` |
| Instruction and CSR wrappers: `src/instruction.c`, `inc/instructions.h`, `inc/csrs.h`, `inc/encoding.h` | none | one instruction each | none | |

How they interact: `main` calls the test functions of `.test_table`; a test calls `goto_priv` and the macros, which use the
CSRs; traps enter `asm/handlers.S`, which calls `mhandler` or `hshandler`; these call `goto_priv` and, on the way out, execute
`mret` or `sret` to the interrupted code. Everything prints with `printf` on the console of the platform. `compile_elf.py` generates
one `TEST_REGISTER` source per case, runs `make`, and copies the ELF; `get_result.py` finds it again through the
artifact map, runs the simulator and looks for words in the output. A memory test works on three parts at once: the tables (`hspt_*`),
the protection registers, and the privilege the framework keeps; and the framework's code runs behind the very tables and registers.

## 2. Modules

| Module | Models | Rests on |
|---|---|---|
| `PrivSwitch` | what a test may rely on: its privilege changes only by a switch it asked for, and then to the one asked for | |
| `Trap` | the trap and privilege core | `PrivSwitch` (refinement) |
| `MCTrap` | instances of `Trap` | `Trap` |
| `TrapProofs` | type correctness, the agreement of privileges and the fresh start of every test, this one also with interrupts at any moment, for all constants | `Trap` |
| `SwitchProofs` | traps are recorded, switches end in a sound state, `PrivSwitch` is implemented | `TrapProofs` |
| `Build` | `compile_elf.py`, the recompilation rules of the `Makefile`, the artifact map | |
| `MCBuild` | instances: jobs of two invocations | `Build` |
| `BuildProofs` | what is counted as built is the invocation's own, types, the artifact map, `--clean` and the case an ELF registers, for all constants | `Build` |
| `Verdict` | the printing macros, `exit`, `run_one` and `result_from_output` | |
| `VerdictProofs` | a PASS is earned, a failure told where the macros tell it, no verdict only of silent cases, for all constants | `Verdict` |
| `PageTables` | `page_tables.c` in its sv48 build: `hspt_init` and the functions that change `hspt`; the walk | |
| `Hart` | PMP, PMA, translation and exceptions of the hart the memory tests are for (external to the repository) | `PageTables` |
| `TestSteps` | the statements the memory tests are written in, as steps | `Hart` |
| `AccessFaultTests`, `PageFaultTests` | the registered tests of `access_fault.c` and `page_fault.c`, as scripts of these steps | `TestSteps` |
| `MemoryTests` | a test that runs: the framework's part in each statement, the kept translations, the way back to main | all of the above |
| `MCMemory` | the test pages the tests name | `MemoryTests` |
| `ScriptProofs` | what each of the 194 scripts makes of the privilege and the protection registers, statement by statement | `MemoryTests` |
| `MemoryProofs` | types, CSRs are touched only where that is legal, the next test is reached, the program stays mapped, `hspt_init` restores, MPP is never S, for all constants | `ScriptProofs` |
| `PageMap` | what a test sees of the tables: an address, its flags and its frame | `PageTables` |
| `DynamicTables` | `dynamic_page_tables.c`, statement by statement in `hspt_init` | `PageTables`, `PageMap` (refinement) |
| `MCDynamic` | an instance of `DynamicTables` | `DynamicTables` |
| `DynamicProofs` | the program stays mapped at every store, for all constants | `DynamicTables` |
| `PageMapProofs` | types, agreement with the static tables, `PageMap` is implemented, for all constants | `DynamicProofs` |

### Trap

The hart is a record of its mode and the `mstatus` fields that traps use; CSRs that only select where a trap goes (`medeleg`,
`mideleg`, `ie`, `ip`) are sets of causes. `curr_priv`, `real_priv`, `ecall_args`, `excpt` and
`fault_inst` (whether `excpt.fault_inst` is set) are the program's. Two activities share the hart: "test", the test case
with the framework calls it makes, and "hs", a running `hshandler`. For each of them `pc` says where it is and `todo` is the stack of
`goto_priv` calls still to run: `goto_priv` calls itself, and what is left of an outer call is a single call, so a sequence of
(target, first statement done) pairs is all that its stack frames hold.

| Code | Actions |
|---|---|
| `goto_priv` | `CallGoto`; `GotoUser` (user to user goes through M), `GotoThere`, `GotoStairs` (HU to M by way of HS), `GotoEcall`, and `LowerStart` |
| `lower_priv` | `LowerEqual`, `LowerRefused`, then one action per interruptible piece: `LowerStart`, `SetPrevPriv`, `SetRealPriv`, `SetEpc`, `XretDown`, `SetCurrPriv` |
| `mhandler` with `mhandler_entry` and `mret` | operator `MHandler` inside `Trap`: it runs with `MIE` = 0, so nothing comes between its statements, and the `goto_priv` calls in it are evaluated to their end (`MGoto`) |
| `hshandler` | `HsStart`, then `todo["hs"]`, `HsRecord`, `HsReturn`: an M-level interrupt may come between any two |
| `TEST_SETUP_EXCEPT`, `TEST_EXEC_EXCEPT` | `SetupExcept`; `ExecStore` and `ExecJump`, two steps because an interrupt may come between |
| `reset_state`, `TEST_END`, main | `CallReset`, `TestEnd`, `ResetState` |
| the hart | `TakeIrq`, `Raise`, `Pend` |

The program stops with a `status`: "exit" (an `ERROR` exit), "overflow" (a handler that executes `ecall` for ever),
"nested" (a second `hshandler` above the first), "demoted" (privileged code in a mode that may not run it), "done". Only "done" and "exit" are
ends of the program (`Over`); the others are where the model stops to follow a run that has gone wrong.

Abstractions and bounds:
- no hypervisor extension: VU and VS run in U and S mode, as on the harts the registered tests are for;
- trap causes are classes (ecalls, fetch faults, other exceptions, interrupts), and which of two pending interrupts of one level is
  taken first is left open;
- `set_prev_priv` is one step: its CSR writes are of one field that only the `xret` reads;
- main's second `reset_state` is part of the first, which nothing separates;
- which tests exist is `TestCase`: any sequence of switches, armed and unarmed traps, writes of `medeleg` and interrupt set-ups,
  `MaxOps` operations in each of `NumTests` tests. Three operations are enough for a switch, a trap and a switch back
  with state left over from each; two tests are enough for one to leave something to the next;
- `Supported` bounds the switches of `Spec` to those the registered tests make: no climb within the supervisor or user level, user mode
  climbs by a delegated ecall, and the test that delegates the ecall of S mode as well (`medeleg` = -1) stays in M;
- not modelled: `mstatus.MPRV`, the RNMI early return, the double-trap branch of `return_from_exception`, `vshandler`
  (installed nowhere) and the MMIO of the interrupt module beyond its pending bit.

Four environments: `Spec`, interrupts a test raises and that are taken at once; `RawSpec`, with a plain `ecall` in M mode and switches no
registered test makes; `SelfSpec`, interrupts that a test pends and that are taken on a later switch; `AsyncSpec`, interrupts at any moment.

### Build

Several invocations share a disk: the register sources (per case), `build/<plat>` (`prev`: `prev_log.mk`, `objs`, `linked`),
`case_elf_asm/<plat>` (`out`, `names`). An object is the record of the flags it was compiled with; an ELF is the case it registers, the
invocation that linked it and the flags of its objects. A file that another process or a crash can meet half written takes two
steps (`TruncateRegister`/`WriteRegister`, `CopyStart`/`CopyEnd`, `SaveStart`/`SaveEnd`). `Parse` and
`Reparse` are the two readings of the `Makefile`: the register source is rewritten for every case, so its `.d`
file is always remade and make always executes itself again. `Compile` and `CompileRegister` come in any order (`make -j`). Faults, at most
`MaxFaults`: `Crash` (Ctrl-C or power loss; the lock goes with the process), `CleanFails`, `ExportFails`. `faults` is the sequence of
those that have happened: some properties hold only before the first, or without one of a kind.

Sources do not change during a run. A kill of the script alone, which would leave its make running without the lock, the choice of cases and
sources, and direct calls of `make` are not modelled. Only the static table sources read `PAGE_TABLE_MODE`, so for a dynamic case the mode in its flags says nothing.

### Verdict

One run of one ELF: the words `PASSED`, `FAILED` and `ERROR:` the macros print at the LOG_LEVEL of the build, the way the program ends,
and `run_one`. Assertions are arbitrary truth values, an untested trap or an endless loop may come in any case, the timeout at any
time, and LinkNan's simulator may stop a run by itself. A case ends by `TestEnd`, or by `FallOff`: about 150 registered tests have no `TEST_END`,
return with nothing printed, and `main` drops what they return. `TestAssert(a, b)` is `TEST_ASSERT` of the condition `a || b`: the macro prints
`a || b`, but stores `test_status && a || b`, so a disjunction whose second half holds erases an earlier failure of the case
(`dynamic_page_table_test.c:532`, 586 and `vec_tests.c:303` assert disjunctions). The history variables `failed`, `erased` and `silent` are the sets of cases to which that has happened. Two cases with two assertions show a failure masked by a later success, in the same and in the next case.

### PageTables, Hart

An entry is the set of its flags and a frame; physical addresses are counted in frames and virtual ones in pages. `hspt[t][i]` is the entry
`<<t, i>>`, for the entries some function writes. Every function of `page_tables.c` on `hspt` is an operator of its name on tables
(`Called` picks one by name). The functions treat all test pages alike, so the constant `Pages` may be any subset of the 512. The
memory-type bits of Svpbmt are left out. `Hart` is the architecture: entries of PMP and of LinkNan's PMA with priority, locks and TOR
bounds, the sv48 walk whose reads are checked too, no hardware update of A and D, and the cause an access ends in.

### TestSteps, AccessFaultTests, PageFaultTests, MemoryTests

Each of the 194 tests that `TEST_REGISTER` or `test_register.c` names is a sequence of steps (a step is a record: `Go(HS)`, `Hspt("hspt_del_A")`,
`Arm`, `Do("load", page)`, `Expect("LPF")`), in the order of the source. `MemoryTests` runs one test from reset:

| Code | Actions |
|---|---|
| `goto_priv`, with the handlers it goes through | `GotoPriv`: `mstatus.MPRV` and `MPP` as `mret` and `sret` leave them; from HU by way of HS |
| `TEST_SETUP_EXCEPT`, `TEST_ASSERT` | `Arm_`, `Assert_` |
| a load, store, atomic or jump and the trap it may end in | `Access`, with `Trapped` for `mhandler` or `hshandler` |
| `CSRW`, `CSRS`, `CSRC` | `ClearCfg`, `SetCfg`, `UnsetCfg`, `WriteBound`, `OpenAll`, `Status`, `DelegateCause`, `WriteSatp` |
| `sfence_vma` | `SfenceVma` |
| the functions of `page_tables.c`, writes of one entry | `Tables`, `OneEntry` |
| `TEST_END`; the end of a test without it, and main's `reset_state` | `TestEnd`; `FallOff`, `NextTest` |
| a trap of the framework's own, its page out of reach | `Lose` |

The framework's code, data and stack are one page, `Home`. Before a step the hart must be able to fetch there, and to load and store where the
statement touches memory (`Needed`: of the tables, too, if it changes them; of HS, if `goto_priv` climbs from HU). If it cannot, the framework takes a trap of its own.
`Handler` says where: in HS if the cause is delegated, else in M, where nothing is translated. The handler must be reachable in its turn
(`Again`: HS may trap once more, to M), and ends the program by `ERROR`, as an untested exception or a fetch fault without return address ("caught"), unless the test happens to wait
for a trap ("astray"). "spins" is a handler that can nowhere be fetched. That makes the tests' effect on the program that runs them part of the model.

A hart may use a translation it has kept until a fence, and need not. The model runs each test on two machines: one that "holds" every
translation it has used, and one that "speculates": it translates ahead and takes either answer. What differs between them is what
the test has not fenced. In both, PMP and PMA are asked at each access, or were when the translation was kept.

Left out of the scripts: prints, `fence.i`, prefetches, the PMA bit nothing reads, `excpt.tval`, and the comparison of data. `MemoryTests` takes
`goto_priv` and the handlers as one step each, which is what `Trap` shows of them when no interrupts are enabled, as in these tests.

### DynamicTables, PageMap

`hspt_init` is the set of its statements (`Statements`), and each takes effect in a step of its own (`Store`), in any order, since neither compiler nor
walker keeps the order of the source. A loop is one statement: no walk reads two entries of a loop. The other functions change tables in one step:
they run when the tables are complete and change only entries the program itself does not need, or add U there. `satp` is the mode and
the root: `NewRoot` is the test of `satp.PPN`, which makes another table the root; `SatpOff` is `CSRW(CSR_SATP, 0)` of the tests and of
`reset_state`. Kept translations play no part: `ProgramMapped` is about what a walk finds at each moment, and all it can find is the same.

`PageMap` is what a test relies on: `hspt_init` gives a fresh map, and each function changes the map in its way; those made for sv48 only may leave
it as it is. `DynamicTables` implements it, with `map` the walk of the page, from the root of the array, in the mode that is set.

## 3. Runs

| Run | Checks | Shows |
|---|---|---|
| `switches` | `TypeOK PrivAgrees SwitchesSound TrapRecorded IInv RunEnds`, refinement `SwitchesOnly` | two tests of three operations with all targets, all delegations: the framework is right, and implements `PrivSwitch`; the invariant of the proof holds; every run comes to `exit`, by `main` or by `ERROR` |
| `async` | `FreshStart` | interrupts at any moment, and switches no registered test makes (`AnySwitch`): agreement is lost (see findings), handlers may nest or call themselves, yet whenever `reset_state` returns it returns in M, with its CSRs written and no pending interrupt that software can clear, and the next test finds them so |
| `share` | `TypeOK OwnElf OkIsOwn MapComplete CleanMeansOwn Finishes` | two invocations, other flags, two platforms in opposite orders, two faults; `--clean` keeps its word unless a `make clean` fails, also when the first case after it does not compile |
| `verdict` | `TypeOK PassIsEarned FailureIsTold UnknownIsSilent` | all levels and platforms, cases with and without `TEST_END`: what the macros tell decides the verdict, and only cases that tell nothing leave a run without one |
| `memory` | `TypeOK ExplainedFailures Portable CsrsInReach ImageMapped NextTestReaches ComesBack LostOnlyByMap` | all 194 tests on both machines: an assertion fails only where MPRV acts as M or a translation was not fenced; only the 29 tests of `NeedsTlb` depend on kept translations; the framework traps itself only by the map it runs under, and such a trap ends by `ERROR`, but in one test on a hart that translates ahead; nothing a test locks or leaves in PMA closes the program to the next one |
| `dynamic` | `TypeOK ProgramMapped SameAsStatic`, refinement `MapOnly` | every sequence of three table functions, with any changes of mode, root and `satp`: the program stays mapped at every store; sv48 is what the static tables are; a test sees the page map only |
| `raw_ecall`, `self_irq`, `shared_register`, `silent_case`, `stopped_run`, `mprv` | one property each, violated | the findings below |

In the runs of `Build`, `Verdict` and `MemoryTests` the system stops when its processes, or the test, end, so they do not check for deadlock; `Finishes` says
that no invocation of `Build` stops early. A plausible bug for every property (a forgotten lock, an unrestored privilege, a wrong order)
is kept next to the definition it changes, named ...Bug: with it in place TLC finds the property violated.

Two invocations are enough for `Build`: the lock is held by one at a time, and a third meets the same disk as a second one. Two platforms in
opposite orders are what could make a circle of waiting processes. `memory` has no bound: the tests are finite, and `UsedPages` are the pages they name.
In `dynamic`, three functions are an `hspt_init` of one mode, one function on its tables, and an `hspt_init` of the other mode, or two functions that
meet in one entry; `Pages` holds page 0, whose leaf in sv39 is the pointer to the leaves in sv48, and the two that `hspt_switch` exchanges. Job lists of two cases hold a case that builds before or after one that has no source or does not compile.

### Fairness

- `Trap`: WF of `Framework`, the hart keeps executing the framework's code; WF of `Leave`, a test case comes to its end (they are
  straight-line code). Nothing is assumed of what tests do in between. `FairSpec` has interrupts that are taken at once: with
  interrupts inside a switch a handler may execute `ecall` for ever, so `RunEnds` is not claimed there.
- `Build`: WF of the work of each invocation, the operating system lets a process run that can; the lock needs no strong fairness, for an
  invocation asks for it only as many times as it has platforms. Faults are not fair.

## 4. Proofs

`TrapProofs`, for every value of the constants:

- `TypeCorrect`: `AsyncSpec => []TypeOK`, so with interrupts at any moment. The invariant is `TypeOK /\ PcOK`: an activity inside
  `goto_priv` or `lower_priv` has a call to run, without which `Head(todo)` says nothing.
- `PrivAlwaysAgrees`: `RawSpec => []PrivAgrees`. `PrivAgrees` speaks only of the moments the test's own code runs, and is far from
  inductive. `IInv` adds what holds at each label of `lower_priv` (`LowerInv`: the previous-privilege field, `real_priv`
  and the mode, step by step), in `hshandler` (`HsInv`, `HsCalls`: a handler only lowers to where the caller was, in S mode or
  after having climbed to M) and where an interrupt can be pending (`IrqInv`). Each is there because a step of the proof fails
  without it: `IrqInv` excludes the interrupt of the finding `self_irq`, `HsCalls` the switch to VS under a supervisor caller.
  The proof has one lemma per group of steps: the calls of the test, those of the handler, the steps of `hshandler`, traps, the rest.
- `InvariantHolds`: `RawSpec => []IInv`, the invariant itself, which the run `switches` checks before.
- `AlwaysFreshStart`: `RawSpec => FreshStart`, and `FreshStartDespiteInterrupts`: `AsyncSpec => FreshStart`. `FreshStart` has two halves: each step in which
  `reset_state` returns to a test leaves the CSRs as it writes them and no interrupt pending that software can clear (lemmas `OnlyResetReturns`, `ResetReturns`), and
  a test that has done nothing yet still finds those CSRs. Of the second: a test no operation of which has run yet finds what
  `reset_state` wrote (`Untouched`): only `ResetState` makes a test untouched (lemma `UntouchedBefore`), and an untouched test rests until its first
  operation (`UntouchedRests`). That `reset_state` writes its CSRs in M mode, whatever the test before did, cannot rest on `IInv`: an interrupt within `lower_priv` breaks it
  (finding `self_irq`). The invariant `EndsInM` says what survives: every trap handler leaves `curr_priv` and `real_priv` equal, and so does every switch that comes to
  its end; `lower_priv` never leads to M; so the last `goto_priv(PRIV_M)` of `reset_state` or `TEST_END` ends in M from whatever it finds, and nothing lowers
  the privilege after it.

`SwitchProofs`, from these invariants:

- `TrapAlwaysRecorded`: `Spec => []TrapRecorded`, whatever switches tests ask for. Between the entry of a trap and `HsRecord` the record still holds an older
  trap, and the new cause is only in `scause`; `RecInv` says where the record of `raised` is at each label. The environment is
  `Spec`: with a raw `ecall` in M mode it is false (finding `raw_ecall`).
- `SwitchesAlwaysSound`: `Spec => []SwitchesSound` if `~AnySwitch`, that is for the switches registered tests make (`Supported`). Without the
  hypothesis it is false: from HU to HS with the ecall of user mode not delegated, `mhandler` executes `ecall` for ever. `SwitchInv` says what is known of the calls still to
  run: each `goto_priv` of the test has a way from where the one before it ends (`Chain`, `Legal`); `hshandler` serves only calls to HS and M (`HsServes`);
  while the ecall of S mode is delegated nothing leaves M (`StaysInM`); the calls of `reset_state` and `TEST_END` lead to M (`Returns`).
- `ImplementsPrivSwitch`: `Spec => SwitchesOnly` under the same hypothesis. Every step keeps the privilege the test sees and the goal of the
  switch under way, or is a step of `PrivSwitch`; the lemma `SwitchRefines` goes through the actions. `SwitchInv` says that the last call on the stack, or the call
  `hshandler` serves, is the goal.

`VerdictProofs`:

- `PassAlwaysEarned`: `Spec => []PassIsEarned`. The verdict depends on words printed cases ago; the invariant is `FailureIsKept` (a false
  assertion is in the output when `TEST_END` is over, and before that in the output or in `test_status`), `SilentBelowInfo`, `NoVerdictYet` and `WithinTable`.
- `FailureAlwaysTold`: `Spec => []FailureIsTold`, from the same invariant: the word `FAILED` that `FailureIsKept` finds in the output decides
  the verdict whatever else is printed, and a program that hangs inside its table has nothing more to say. The cases
  that are excepted, those without `TEST_END` and those that have erased a failure, are what the macros really keep to themselves.
- `UnknownAlwaysSilent`: `Spec => []UnknownIsSilent`. The verdict is read off the output when the program exits, so the invariant says earlier that
  a case that returned with `TEST_END` has left a word there (`CaseIsTold`: it prints one at every level of the property).
- `VerdictType`: types, and main's index within the table.

`BuildProofs`, for any number of invocations, platforms and cases and any faults:

- `OkAlwaysOwn`: `Spec => []OkIsOwn`. The invariant `BInv` is a set of types and one formula for each invocation, `ProcInv`: it holds the lock of its
  platform, the cases it has counted are exported and its own, none of them is still in its list, and the ELF it copies is its own. A step of one
  invocation keeps the formula of another one because it stays within its `Frame`: it only touches the platform it is inside of, and
  takes only a free lock (lemma `Others`, the mutual exclusion of `BuildLock`). Its own formula depends on the list having no repetition
  (`JobAssumption`: `select_cases` and `parse_platforms` drop them): the second copy of a case would start by truncating an ELF already counted.

The others rest on `BInv`. Their invariants are one formula for each invocation, and a step of another one keeps each of them for the same reason: it changes nothing of the
platform an invocation is inside of, and nothing of its own work (`StepWide`, `InHand`).

- `BuildTypes`: `Spec => []TypeOK`; that what is left to do is a suffix of the command line needs the rest of `TypeOK`, not conversely.
- `MapAlwaysComplete`: `Spec => []MapComplete`. The map is read at the start of an export and written at its end; `MapInv` says that what was read lists every
  other ELF of the directory throughout.
- `CleanAlwaysOwn`: `Spec => []CleanMeansOwn`. After its `make clean` an invocation finds objects of its own flags only, also after a case that failed, and
  before it, it has linked nothing (`CleanInv`). The property has the condition that no `make clean` has failed, see the remarks in section 5.
- `ElfAlwaysOwn`: `Spec => []OwnElf` if the invocations are `Apart`: any two have no case in common, or only one platform between them. This is how the
  scripts can be used safely, not what they enforce: the run `shared_register` shows the property violated by two that have a case in common and two platforms.
  `OwnInv`: from `write_register` to the copy of the ELF, register source, object and linked file are those of the case in hand.

`ScriptProofs` and `MemoryProofs`, for every set of test pages:

- `ImageAlwaysMapped`: `Spec => []ImageMapped`. The root entry and the gigapages are untouched (`Zero`) or what `hspt_init` makes of
  them, up to U, which the functions may add; one lemma per function.
- `InitRestores`: `hspt_init` of any tables the functions can reach is `hspt_init` of zeroed memory, up to the 512 GiB entry, which no `hspt_init` writes.
- `MprvNeverS`: no access of a test under MPRV is judged as S mode; the invariant is that MPP is M or the lowest privilege.
- `MemoryTypeOK`: `Spec => []TypeOK`. The part that is not a mere reading of the actions is that the translations the hart keeps are ones a walk can end in, and that
  what an access comes to by a fresh or a kept one is a cause or a frame (`HeldSound`, lemmas `WalkType` to `StoreType`).
- `CsrsAlwaysInReach`: `Spec => []CsrsInReach`. Whether a statement may touch a CSR depends on every `goto_priv` before it. `ScriptProofs` is a type system
  over the steps: a type is what is known at a place of a script, the privilege and a set of register contents of PMP and one of PMA (`State`); a step
  leads from one type to another (`Fit`); a script is well typed if some assignment `f` of types to its places fits throughout (`Along`). There is one lemma for
  each kind of statement, and one step of the proof for each test, which cites the statements it is made of; a test that lacked a `goto_priv`
  would have no type. `Follows` then says of a running test that privilege and registers are of the type of its place, whatever its accesses come to.
- `NextTestAlwaysReaches`: `Spec => []NextTestReaches`. What a test leaves locked no `reset_state` can undo. The types say of PMP that its first entry has every right if it is locked, and
  ends above the program if its bound is (`PmpKept`, `PmpFull`), of PMA that the platform's map is untouched and each entry a test closes begins above the
  program (`PmaMap`, `PmaKept`). From them lemma `FullAccessOpens` shows the first entry of PMP open to the program after `reset_state`, and `PmaOpen` that the first entry of PMA
  that matches the program's page has all rights.

`ImageAlwaysMapped`, `InitRestores` and `MprvNeverS` hold wherever program and tables lie. The others rest on `LayoutAssumption`: the program's page is in the first 16 MiB from 0x80000000 and before the tables, as
`linker.ld` places them on the platforms that run these tests. The tests close ranges from 0x81000000 on; a program there would be closed with them. The run `memory` has one such layout, `Home` = 0x80000 and `Image` = 0x80100.

`DynamicProofs`, for any number of calls and any pages and frames:

- `ProgramAlwaysMapped`: `Spec => []ProgramMapped`. That the hart reaches the program now says nothing of the root it will use after `hspt_init`, so the
  invariant `Inv` adds what is complete once the tables are built (`Complete`), what the stores of `hspt_init` done so far have put in place
  (`Storing`), and that tables are changed only in the mode the hart is in (`Built`). Of the root in use it keeps the entries of the
  walk (`Live`): in sv48 the first is a pointer or, while `hspt_init` of sv39 is at work, a page of 512 GiB that leads to the same frame.
  All functions are `Harmless`: they give those entries nothing but U.

`PageMapProofs`, for any number of calls and any pages and frames:

- `DynamicTypes`: `Spec => []TypeOK`: every entry holds flags and a frame that a walk can follow.
- `AlwaysSameAsStatic`: `Spec => []SameAsStatic`, one case for each function: on the entries both have, in sv48, it writes the same.
- `ImplementsPageMap`: `Spec => MapOnly`. The map of the refinement is a walk, and a walk of arbitrary tables is arbitrary. `PathInv` says that once the tables are built the
  walks of the mode end where they should (`Reach`: at the program's page, at the third gigabyte, and at the leaves, or nowhere after
  an overflow of the pointer to them), and that inside `hspt_init` each statement that has been carried out shows its values. Under it the map
  is read directly off the entries (`View`, lemma `Seen`); `FreshTables` says that when the last store of `hspt_init` is done the view is the
  fresh map, whatever the tables held before, and one lemma for each kind of function (`RightsSeen`, `FramesSeen`, `LeafCalls`) that the change of entries is a change
  the abstract map allows. An entry that sv39 and sv48 share is where this could fail.

Only model-checked:
- the liveness properties (`RunEnds`, `Finishes`): fairness is beyond the prover;
- of `memory`, the verdicts: `ExplainedFailures`, `Portable`, `ComesBack` and `LostOnlyByMap`. They depend on what each access of each script comes to, that is on the contents of
  all tables, registers and kept translations at that place; a proof would carry out 194 tests symbolically, twice. The tests are finite and the run carries
  each of them out to its end, on both machines. It is exhaustive but for the layout of the image, which is the one in its `.cfg`.

The assumptions on constants are the named `ASSUME`s of the modules; TLC evaluates them in every run.

## 5. Findings

1. `raw_ecall`: `ecall_args[0]` is never cleared. A test that executes an `ecall` of its own after any `goto_priv` has it
   taken for a switch, and it is not recorded (`rvh_test.c:455`; `priv_change.c:82-87` asserts the contrary).
2. `self_irq`: `lower_priv` stores `curr_priv` after the `mret`. An interrupt that was pending is taken between the two and the handler
   returns to M: the test goes on in M with `curr_priv` = HS (`rvh_test.c:138`).
3. `shared_register`: the register source is shared by all platforms, the lock is not: an ELF without any case can be exported.
4. `stopped_run`: a run that LinkNan stops at `+max-cycles` is a PASS as soon as one assertion of `LOG_DETAIL` has passed.
5. `mprv`: comments in `page_fault.c` say "MPP=S" of tests that set both bits of the field, which is M: the access is not translated and the
   page fault they assert cannot come (`csrs.h:48`, `page_fault.c:3343` and others). 19 tests fail by it on an ideal hart.
6. `silent_case`: a registered test without `TEST_END` prints no result at `LOG_INFO`, and `main` ignores what it returns (`main.c:53`). README.md:516-519 reads the result
   by `grep -E "PASSED|FAILED"`: the log of a single-case ELF has neither, whether its assertions were true or not, and `get_result.py` says UNKNOWN. In an
   ELF of several cases such a failed case beside one that passes is a PASS. Tests that come back so are, for example, `page_fault.c:778`, 902, `dynamic_page_table_test.c:481` and `csr_tests.c:693`.

Seen while modelling and not listed as findings:
- About 45 memory tests, `page_fault.c:113` and 142 among them, end in HU after `hspt_u_mode_allow` has given U to the identity map. `goto_priv`, called by `TEST_END` or by main's `reset_state`, climbs
  by way of HS (`rvh_test.c:166`), which cannot fetch the framework there; the page fault is not delegated, and `mhandler` ends the program by `ERROR`: such a test, right or wrong, is a FAIL.
- One test, `access_fault_inst_fetch_root_pma_cache_removed_iaf_after_sfence`, waits for a trap while it has taken the root table from the walker: on a hart that translates ahead, the handler can take a fault
  of the framework's own for it ("astray").
- With interrupts inside a switch, and with switches no registered test makes, a handler may execute `ecall` for ever, or a second `hshandler` may start above the first: the run `async` reaches both.
- `reset_state` leaves `excpt.testing` as it was: a test that armed in vain disarms "untested exception!" for the next one.
- The decision to recompile after a change of `LOG_LEVEL` (`Makefile:52`) is made at the first reading of the `Makefile` and lost at the second, after
  make has remade the register source's `.d` file.
- `reset_state` can reset neither the PMP entries a test has locked nor the PMA registers: of the memory tests that return, 33 leave some frame closed
  to HS by a locked entry and 16 by PMA, 6 of these a frame of the page tables. The next test of the same ELF runs with them.
- The test at `page_fault.c:2503` asserts without arming before, so on what `excpt` holds from the access before it.
- `sfence_vma_rs(vaddr, 1234)` at `page_fault.c:976` and 1061 fences address space 1234, the tests run in 0x1234.
- The tests at `access_fault.c:5722` and `page_fault.c:778`, 840 and 2636 make the framework's own page unreachable in their middle.
- `clean_pending` is cleared also when `make clean` has failed (`compile_elf.py:750`): the case it failed for is counted as failed, but the next one is built
  from the objects that were to go, and exported. `CleanMeansOwn` excludes a `make clean` that has failed for this reason.
- README.md:652 says that `--clean` cleans before every compilation; the code, and its help text, clean once per platform.
- README.md:655 gives `LOG_LEVEL=DEBUG`; the macro is `LOG_DEBUG`, and `DEBUG` compares as an undefined name.
- The batch script of README.md:757 looks for `PASSED` before `FAILED`; from LOG_DETAIL on, a failed test prints both.
- README.md:701 names an option `--max-cycles`; `get_result.py` has `--cycles`.
- `save_artifact_map` rewrites the map in place; a crash in between leaves a file that reads as an empty map.

## 6. Not modelled

- The consoles: the buffer and the handshake of the HTIF platforms, and the polling UARTs, which keep no state. A handler prints only by `ERROR`, which ends
  the run, and from `LOG_VERBOSE` on by the messages at its start (`rvh_test.c:447`, 508). Only at those levels can it print into a line
  that an interrupted `putchar` has begun; the two hazards of that are listed without a property.
- The barrier: nothing in the repository calls it.
- Of `page_tables.c`: `vspt` and `hpt` of the H extension and the `page_table_add_*` and `page_table_del_*` functions on them, which
  only tests for harts with that extension use, and the two other static layouts, which the memory tests are not linked with.
- Of the framework: the RNMI early return and the double-trap branch of `return_from_exception`, which depend on extensions no modelled test
  enables; `vshandler`, which is installed nowhere.
- Of the tests: all files but `access_fault.c`, `page_fault.c` and the sequence of modes and roots in `dynamic_page_table_test.c`. What the others ask of
  the framework is the environment of `Trap`; what they assert is the result of single instructions, for which a model would be
  a second copy of the instruction set.
- Sequences of memory tests in one ELF: the scripts export one test per ELF. What one test leaves to the next is in the remarks above.
- Instruction and CSR wrappers: one instruction each.
