------------------------------- MODULE Build -------------------------------
(***************************************************************************)
(* How scripts/compile_elf.py turns test cases into ELF files: the lock of *)
(* a platform, the generated register source, the run of make with the     *)
(* objects it finds in build/<platform>, the export to case_elf_asm and    *)
(* the map of artifact names.                                              *)
(*                                                                         *)
(* Several invocations share the disk.  An invocation builds its cases for *)
(* one platform after the other.  Each file operation that another process *)
(* can see half done is two steps: truncate and write.                     *)
(***************************************************************************)
EXTENDS Naturals, Sequences, SequencesExt, FiniteSets

CONSTANTS
    Procs,      \* invocations of compile_elf.py
    Platforms,
    Cases,
    Jobs,       \* what each invocation is asked for
    Located,    \* the cases whose sources are found
    Dynamic,    \* those that need the dynamic page tables
    Broken,     \* those whose source does not compile
    Faults,     \* the faults that can happen: "crash", "clean", "export"
    MaxFaults,  \* bound: how many of them
    Nothing,    \* no process, no file, no case
    Torn,       \* a file written in part
    Stale       \* an object older than its source

Tables == {"static", "dynamic"}
Objs == {"core"} \cup Tables \cup Cases
Flags == {[level |-> Jobs[p].level, mode |-> Jobs[p].mode] : p \in Procs}

\* No value comes twice: parse_platforms and select_cases drop repetitions.
Distinct(s) == \A i, j \in 1 .. Len(s) : s[i] = s[j] => i = j

ASSUME JobAssumption ==
    \A p \in Procs : /\ Jobs[p].plats \in Seq(Platforms) /\ Distinct(Jobs[p].plats)
                     /\ Jobs[p].cases \in Seq(Cases) /\ Distinct(Jobs[p].cases)
                     /\ Jobs[p].clean \in BOOLEAN
ASSUME CaseAssumption ==
    /\ Located \subseteq Cases /\ Dynamic \subseteq Cases /\ Broken \subseteq Cases
    /\ Cases \cap ({"core"} \cup Tables) = {}
    /\ Nothing \notin Procs \cup Cases /\ Stale \notin Cases \cup {Nothing}
ASSUME FaultAssumption == Faults \subseteq {"crash", "clean", "export"} /\ MaxFaults \in Nat

VARIABLES
    lock,       \* per platform: the invocation inside BuildLock
    register,   \* per case: the generated TEST_REGISTER source
    prev,       \* per platform: build/<platform>/prev_log.mk
    objs,       \* per platform: the object files, by the flags they were compiled with
    linked,     \* per platform: build/<platform>/rvh_test.elf
    out,        \* per platform and case: the exported ELF
    names,      \* per platform: artifact_name_map.json
    pc, plats, cases,  \* per invocation: where it is, what it still has to do
    pending,    \* clean_pending
    table,      \* what the object of the register source of this case registers
    loaded,     \* the artifact map it has read
    ok,         \* the cases of this platform it has counted as built
    faults      \* the faults that have happened, in order

disk == <<lock, register, prev, objs, linked, out, names>>
work == <<pc, plats, cases, pending, table, loaded, ok>>
vars == <<disk, work, faults>>

Platform(p) == Head(plats[p])
Case(p) == Head(cases[p])
FlagsOf(p) == [level |-> Jobs[p].level, mode |-> Jobs[p].mode]
Backend(c) == IF c \in Dynamic THEN "dynamic" ELSE "static"
\* What the ELF of c is linked from, next to the object of its register source.
Parts(c) == {"core", Backend(c), c}

\* An ELF: the case it registers, who built it, the flags of its objects.
Elf == [test : Cases \cup {Nothing}, by : Procs, flags : SUBSET Flags]

ASSUME ElfAssumption ==
    /\ Nothing \notin Elf \cup {Torn} /\ Torn \notin Elf
    /\ \A known \in SUBSET Cases : known # Torn

TypeOK ==
    /\ lock \in [Platforms -> Procs \cup {Nothing}]
    /\ register \in [Cases -> {"absent", "empty", "full"}]
    /\ prev \in [Platforms -> {f.level : f \in Flags} \cup {Nothing}]
    /\ objs \in [Platforms -> [Objs -> Flags \cup {Nothing}]]
    /\ linked \in [Platforms -> Elf \cup {Nothing}]
    /\ out \in [Platforms -> [Cases -> Elf \cup {Nothing, Torn}]]
    /\ names \in [Platforms -> {Torn} \cup SUBSET Cases]
    /\ \A p \in Procs :
          /\ IsSuffix(plats[p], Jobs[p].plats)
          /\ IsSuffix(cases[p], Jobs[p].cases)
          /\ plats[p] = <<>> => cases[p] = <<>>
    /\ pending \in [Procs -> BOOLEAN]
    /\ table \in [Procs -> Cases \cup {Nothing, Stale}]
    /\ loaded \in [Procs -> SUBSET Cases] /\ ok \in [Procs -> SUBSET Cases]
    /\ faults \in Seq(Faults) /\ Len(faults) <= MaxFaults

Init ==
    /\ lock = [l \in Platforms |-> Nothing]
    /\ register = [c \in Cases |-> "absent"]
    /\ prev = [l \in Platforms |-> Nothing]
    /\ objs = [l \in Platforms |-> [o \in Objs |-> Nothing]]
    /\ linked = [l \in Platforms |-> Nothing]
    /\ out = [l \in Platforms |-> [c \in Cases |-> Nothing]]
    /\ names = [l \in Platforms |-> {}]
    /\ pc = [p \in Procs |-> "start"]
    /\ plats = [p \in Procs |-> Jobs[p].plats]
    /\ cases = [p \in Procs |-> <<>>]
    /\ pending = [p \in Procs |-> FALSE]
    /\ table = [p \in Procs |-> Stale]
    /\ loaded = [p \in Procs |-> {}]
    /\ ok = [p \in Procs |-> {}]
    /\ faults = <<>>

At(p, l) == pc[p] = l
GoTo(p, l) == pc' = [pc EXCEPT ![p] = l]

-----------------------------------------------------------------------------
(* main's loop over the platforms and BuildLock.                           *)

\* The next platform: compile_platform starts and waits for the lock.
StartPlatform(p) ==
    /\ At(p, "start")
    /\ plats[p] # <<>>
    /\ cases' = [cases EXCEPT ![p] = Jobs[p].cases]
    /\ pending' = [pending EXCEPT ![p] = Jobs[p].clean]
    /\ ok' = [ok EXCEPT ![p] = {}]
    /\ GoTo(p, "lock")
    /\ UNCHANGED <<disk, plats, table, loaded, faults>>

Finish(p) ==
    /\ At(p, "start")
    /\ plats[p] = <<>>
    /\ GoTo(p, "done")
    /\ UNCHANGED <<disk, plats, cases, pending, table, loaded, ok, faults>>

\* Mutant: the file is opened but not locked.
AcquireBug(p) ==
    /\ At(p, "lock")
    /\ lock' = [lock EXCEPT ![Platform(p)] = p]
    /\ GoTo(p, "next")
    /\ UNCHANGED <<register, prev, objs, linked, out, names, plats, cases, pending, table,
                   loaded, ok, faults>>

\* flock(LOCK_EX) blocks while another process has the file locked.
Acquire(p) ==
    /\ At(p, "lock")
    /\ lock[Platform(p)] = Nothing
    /\ lock' = [lock EXCEPT ![Platform(p)] = p]
    /\ GoTo(p, "next")
    /\ UNCHANGED <<register, prev, objs, linked, out, names, plats, cases, pending, table,
                   loaded, ok, faults>>

\* Mutant: the locks are kept until the last platform is built.
ReleaseBug(p) ==
    /\ At(p, "next")
    /\ cases[p] = <<>>
    /\ lock' = IF Len(plats[p]) > 1 THEN lock
               ELSE [l \in Platforms |-> IF lock[l] = p THEN Nothing ELSE lock[l]]
    /\ plats' = [plats EXCEPT ![p] = Tail(@)]
    /\ GoTo(p, "start")
    /\ UNCHANGED <<register, prev, objs, linked, out, names, cases, pending, table,
                   loaded, ok, faults>>

Release(p) ==
    /\ At(p, "next")
    /\ cases[p] = <<>>
    /\ lock' = [lock EXCEPT ![Platform(p)] = Nothing]
    /\ plats' = [plats EXCEPT ![p] = Tail(@)]
    /\ GoTo(p, "start")
    /\ UNCHANGED <<register, prev, objs, linked, out, names, cases, pending, table,
                   loaded, ok, faults>>

\* The case is over, built or not.
NextCase(p) ==
    /\ cases' = [cases EXCEPT ![p] = Tail(@)]
    /\ GoTo(p, "next")

\* "cannot find bool case_name(...) source"
SkipCase(p) ==
    /\ At(p, "next")
    /\ cases[p] # <<>> /\ Case(p) \notin Located
    /\ NextCase(p)
    /\ UNCHANGED <<disk, plats, pending, table, loaded, ok, faults>>

-----------------------------------------------------------------------------
(* run_make and what make does.                                            *)

TruncateRegister(p) ==
    /\ At(p, "next")
    /\ cases[p] # <<>> /\ Case(p) \in Located
    /\ register' = [register EXCEPT ![Case(p)] = "empty"]
    /\ GoTo(p, "write")
    /\ UNCHANGED <<lock, prev, objs, linked, out, names, plats, cases, pending, table,
                   loaded, ok, faults>>

WriteRegister(p) ==
    /\ At(p, "write")
    /\ register' = [register EXCEPT ![Case(p)] = "full"]
    /\ GoTo(p, "clean")
    /\ UNCHANGED <<lock, prev, objs, linked, out, names, plats, cases, pending, table,
                   loaded, ok, faults>>

Happened(f) == \E i \in 1 .. Len(faults) : faults[i] = f
Fault(f) == f \in Faults /\ Len(faults) < MaxFaults /\ faults' = Append(faults, f)

\* Mutant: --clean removes the objects of the cases only.
CleanBug(p) ==
    /\ At(p, "clean")
    /\ pending[p]
    /\ pending' = [pending EXCEPT ![p] = FALSE]
    /\ objs' = [objs EXCEPT ![Platform(p)] = [o \in Objs |-> IF o \in Cases THEN Nothing ELSE objs[Platform(p)][o]]]
    /\ prev' = [prev EXCEPT ![Platform(p)] = Nothing]
    /\ linked' = [linked EXCEPT ![Platform(p)] = Nothing]
    /\ GoTo(p, "unlink")
    /\ UNCHANGED <<lock, register, out, names, plats, cases, table, loaded, ok, faults>>

\* make clean: rm -rf build/<platform>.
Clean(p) ==
    /\ At(p, "clean")
    /\ pending[p]
    /\ pending' = [pending EXCEPT ![p] = FALSE]
    /\ objs' = [objs EXCEPT ![Platform(p)] = [o \in Objs |-> Nothing]]
    /\ prev' = [prev EXCEPT ![Platform(p)] = Nothing]
    /\ linked' = [linked EXCEPT ![Platform(p)] = Nothing]
    /\ GoTo(p, "unlink")
    /\ UNCHANGED <<lock, register, out, names, plats, cases, table, loaded, ok, faults>>

\* "make clean failed": the case fails, and clean_pending is cleared all the same.
CleanFails(p) ==
    /\ At(p, "clean")
    /\ pending[p]
    /\ Fault("clean")
    /\ pending' = [pending EXCEPT ![p] = FALSE]
    /\ NextCase(p)
    /\ UNCHANGED <<disk, plats, table, loaded, ok>>

NoClean(p) ==
    /\ At(p, "clean")
    /\ ~pending[p]
    /\ GoTo(p, "unlink")
    /\ UNCHANGED <<disk, plats, cases, pending, table, loaded, ok, faults>>

RemoveLinkOutputs(p) ==
    /\ At(p, "unlink")
    /\ linked' = [linked EXCEPT ![Platform(p)] = Nothing]
    /\ GoTo(p, "parse")
    /\ UNCHANGED <<lock, register, prev, objs, out, names, plats, cases, pending, table,
                   loaded, ok, faults>>

\* make reads the Makefile: it compares the log level with the one of the last
\* run, decides on clean_objs, and writes the new one.  The register source is
\* newer than its .d file: the decision is lost, for that included makefile is
\* remade, and make executes itself again.
Parse(p) ==
    /\ At(p, "parse")
    /\ prev' = [prev EXCEPT ![Platform(p)] = Jobs[p].level]
    /\ GoTo(p, "reparse")
    /\ UNCHANGED <<lock, register, objs, linked, out, names, plats, cases, pending, table,
                   loaded, ok, faults>>

\* It decides anew, by the level it has just written.  The object of the
\* register source is out of date.
Reparse(p) ==
    /\ At(p, "reparse")
    /\ objs' = IF prev[Platform(p)] = Jobs[p].level THEN objs
               ELSE [objs EXCEPT ![Platform(p)] = [o \in Objs |-> Nothing]]
    /\ prev' = [prev EXCEPT ![Platform(p)] = Jobs[p].level]
    /\ table' = [table EXCEPT ![p] = Stale]
    /\ GoTo(p, "compile")
    /\ UNCHANGED <<lock, register, linked, out, names, plats, cases, pending, loaded, ok,
                   faults>>

\* make -j compiles in any order the objects that are missing; a change of flags
\* makes none of them out of date.
Missing(p) == {o \in Parts(Case(p)) : objs[Platform(p)][o] = Nothing}

Compile(p, o) ==
    /\ At(p, "compile")
    /\ o \in Missing(p) \ Broken
    /\ objs' = [objs EXCEPT ![Platform(p)][o] = FlagsOf(p)]
    /\ UNCHANGED <<lock, register, prev, linked, out, names, work, faults>>

CompileRegister(p) ==
    /\ At(p, "compile")
    /\ table[p] = Stale
    /\ table' = [table EXCEPT ![p] = IF register[Case(p)] = "full" THEN Case(p) ELSE Nothing]
    /\ UNCHANGED <<disk, pc, plats, cases, pending, loaded, ok, faults>>

\* Mutant: compile_platform returns at the first failure.
MakeFailsBug(p) ==
    /\ At(p, "compile")
    /\ Missing(p) \cap Broken # {}
    /\ lock' = [lock EXCEPT ![Platform(p)] = Nothing]
    /\ plats' = [plats EXCEPT ![p] = Tail(@)]
    /\ GoTo(p, "start")
    /\ UNCHANGED <<register, prev, objs, linked, out, names, cases, pending, table, loaded,
                   ok, faults>>

MakeFails(p) ==
    /\ At(p, "compile")
    /\ Missing(p) \cap Broken # {}
    /\ NextCase(p)
    /\ UNCHANGED <<disk, plats, pending, table, loaded, ok, faults>>

Link(p) ==
    /\ At(p, "compile")
    /\ Missing(p) = {} /\ table[p] # Stale
    /\ linked' = [linked EXCEPT ![Platform(p)] =
                     [test |-> table[p], by |-> p,
                      flags |-> {objs[Platform(p)][o] : o \in Parts(Case(p))}]]
    /\ GoTo(p, "export")
    /\ UNCHANGED <<lock, register, prev, objs, out, names, plats, cases, pending, table,
                   loaded, ok, faults>>

-----------------------------------------------------------------------------
(* export_case: the map is read, the ELF copied, the map written back.     *)

\* A map that is no JSON reads as an empty one.
LoadMap(p) ==
    /\ At(p, "export")
    /\ loaded' = [loaded EXCEPT ![p] =
                     IF names[Platform(p)] = Torn THEN {} ELSE names[Platform(p)]]
    /\ GoTo(p, "copy")
    /\ UNCHANGED <<disk, plats, cases, pending, table, ok, faults>>

CopyStart(p) ==
    /\ At(p, "copy")
    /\ linked[Platform(p)] # Nothing
    /\ out' = [out EXCEPT ![Platform(p)][Case(p)] = Torn]
    /\ GoTo(p, "copying")
    /\ UNCHANGED <<lock, register, prev, objs, linked, names, plats, cases, pending, table,
                   loaded, ok, faults>>

CopyEnd(p) ==
    /\ At(p, "copying")
    /\ out' = [out EXCEPT ![Platform(p)][Case(p)] = linked[Platform(p)]]
    /\ GoTo(p, "save")
    /\ UNCHANGED <<lock, register, prev, objs, linked, names, plats, cases, pending, table,
                   loaded, ok, faults>>

SaveStart(p) ==
    /\ At(p, "save")
    /\ names' = [names EXCEPT ![Platform(p)] = Torn]
    /\ GoTo(p, "saving")
    /\ UNCHANGED <<lock, register, prev, objs, linked, out, plats, cases, pending, table,
                   loaded, ok, faults>>

\* Mutant: the map is written with the new case only.
SaveEndBug(p) ==
    /\ At(p, "saving")
    /\ names' = [names EXCEPT ![Platform(p)] = {Case(p)}]
    /\ ok' = [ok EXCEPT ![p] = @ \cup {Case(p)}]
    /\ NextCase(p)
    /\ UNCHANGED <<lock, register, prev, objs, linked, out, plats, pending, table, loaded,
                   faults>>

SaveEnd(p) ==
    /\ At(p, "saving")
    /\ names' = [names EXCEPT ![Platform(p)] = loaded[p] \cup {Case(p)}]
    /\ ok' = [ok EXCEPT ![p] = @ \cup {Case(p)}]
    /\ NextCase(p)
    /\ UNCHANGED <<lock, register, prev, objs, linked, out, plats, pending, table, loaded,
                   faults>>

\* Mutant: a failed export counts as a built case.
ExportFailsBug(p) ==
    /\ pc[p] \in {"copy", "copying", "saving"}
    /\ Fault("export")
    /\ ok' = [ok EXCEPT ![p] = @ \cup {Case(p)}]
    /\ NextCase(p)
    /\ UNCHANGED <<disk, plats, pending, table, loaded>>

\* "export failed": the disk is full.
ExportFails(p) ==
    /\ pc[p] \in {"copy", "copying", "saving"}
    /\ Fault("export")
    /\ NextCase(p)
    /\ UNCHANGED <<disk, plats, pending, table, loaded, ok>>

\* The invocation and the make it runs are interrupted.
Crash(p) ==
    /\ pc[p] \notin {"done", "dead"}
    /\ Fault("crash")
    /\ lock' = [l \in Platforms |-> IF lock[l] = p THEN Nothing ELSE lock[l]]
    /\ GoTo(p, "dead")
    /\ UNCHANGED <<register, prev, objs, linked, out, names, plats, cases, pending, table,
                   loaded, ok>>

-----------------------------------------------------------------------------

Work(p) ==
    \/ StartPlatform(p) \/ Finish(p) \/ Acquire(p) \/ Release(p) \/ SkipCase(p)
    \/ TruncateRegister(p) \/ WriteRegister(p)
    \/ Clean(p) \/ NoClean(p) \/ RemoveLinkOutputs(p)
    \/ Parse(p) \/ Reparse(p)
    \/ (\E o \in Objs : Compile(p, o)) \/ CompileRegister(p) \/ MakeFails(p) \/ Link(p)
    \/ LoadMap(p) \/ CopyStart(p) \/ CopyEnd(p) \/ SaveStart(p) \/ SaveEnd(p)

Fails(p) == CleanFails(p) \/ ExportFails(p) \/ Crash(p)

Next == \E p \in Procs : Work(p) \/ Fails(p)

Spec == Init /\ [][Next]_vars

\* The operating system lets every process that can run, run.
FairSpec == Spec /\ \A p \in Procs : WF_vars(Work(p))

-----------------------------------------------------------------------------
(* Properties.                                                             *)

Exported(l, c) == out[l][c] \notin {Nothing, Torn}

\* An exported ELF registers the case it is named for: what the README calls
\* the single-case ELF.  Two builds that share build/<platform> or the register
\* source would break it (compile_elf.py:495, 607).
OwnElf == \A l \in Platforms, c \in Cases : Exported(l, c) => out[l][c].test = c

\* While an invocation works on a platform, every case it has counted as ok is
\* there, whole and linked by this invocation (compile_elf.py:752-754): no other
\* invocation and no failed export comes in between.
OkIsOwn ==
    \A p \in Procs : pc[p] \notin {"start", "lock", "done", "dead"} =>
        \A c \in ok[p] : /\ Exported(Platform(p), c)
                         /\ out[Platform(p)][c].by = p

\* As long as nothing has failed, whenever no one builds for a platform, each of
\* its ELFs is whole and get_result.py finds it through the artifact map.
MapComplete ==
    faults = <<>> =>
        \A l \in Platforms : lock[l] = Nothing =>
            /\ names[l] # Torn
            /\ \A c \in Cases : /\ out[l][c] # Torn
                               /\ Exported(l, c) => c \in names[l]

\* An invocation with --clean, "run make clean once before the first selected
\* case", exports no object compiled with the flags of another one, whoever
\* built there before it, unless a make clean has failed
\* (compile_elf.py:565-569, 735-750).
CleanMeansOwn ==
    ~Happened("clean") =>
    \A l \in Platforms, c \in Cases :
        Exported(l, c) /\ Jobs[out[l][c].by].clean =>
            out[l][c].flags = {FlagsOf(out[l][c].by)}

\* No invocation waits for ever for the lock of a platform, though it holds and
\* takes the locks of several, in the order of its command line: each that is
\* not interrupted comes to its end (compile_elf.py:95-107, 818-828).
Finishes == \A p \in Procs : <>(pc[p] \in {"done", "dead"})
=============================================================================
