---------------------------- MODULE BuildProofs ----------------------------
(***************************************************************************)
(* What an invocation has counted as built stays its own work for as long  *)
(* as it is in its session, whatever other invocations do, however many    *)
(* there are, and whichever steps fail: the lock of the platform keeps     *)
(* them off build/<platform> and its exports.                              *)
(*                                                                         *)
(* What the ELF files and the artifact map say, for any number of          *)
(* invocations, platforms and cases: the map is complete as long as        *)
(* nothing fails, a clean build is of one set of flags, and, if the        *)
(* invocations keep apart, an ELF registers the case it is named for.      *)
(* Each follows from an invariant of what an invocation has in hand        *)
(* between Acquire and Release.                                            *)
(***************************************************************************)
EXTENDS Build, SequenceTheorems, TLAPS

\* Between Acquire and Release.
Inside(p) == pc[p] \notin {"start", "lock", "done", "dead"}
\* Those of them that work on a case.
Building(p) == Inside(p) /\ pc[p] # "next"

\* The types the argument needs; the rest of TypeOK plays no part in it.
Typed ==
    /\ lock \in [Platforms -> Procs \cup {Nothing}]
    /\ objs \in [Platforms -> [Objs -> Flags \cup {Nothing}]]
    /\ linked \in [Platforms -> Elf \cup {Nothing}]
    /\ out \in [Platforms -> [Cases -> Elf \cup {Nothing, Torn}]]
    /\ DOMAIN pc = Procs
    /\ plats \in [Procs -> Seq(Platforms)]
    /\ cases \in [Procs -> Seq(Cases)]
    /\ table \in [Procs -> Cases \cup {Nothing, Stale}]
    /\ ok \in [Procs -> SUBSET Cases]

\* e is an ELF that p has linked.
By(p, e) == e \in Elf /\ e.by = p

\* What holds of one invocation: it has a platform and, on it, the lock; the
\* cases it has counted are exported and none of them is still to come; the ELF
\* it is about to copy, or has copied, is its own.
ProcInv(p) ==
    /\ pc[p] \notin {"start", "done", "dead"} => plats[p] # <<>>
    /\ Distinct(cases[p])
    /\ pc[p] = "lock" => ok[p] = {}
    /\ Inside(p) =>
          /\ lock[Platform(p)] = p
          /\ \A c \in ok[p] : /\ By(p, out[Platform(p)][c])
                              /\ \A k \in 1 .. Len(cases[p]) : cases[p][k] # c
    /\ Building(p) => cases[p] # <<>>
    /\ pc[p] \in {"export", "copy", "copying"} => By(p, linked[Platform(p)])
    /\ pc[p] \in {"save", "saving"} => By(p, out[Platform(p)][Case(p)])

BInv == Typed /\ \A p \in Procs : ProcInv(p)

-----------------------------------------------------------------------------
(* What a step of p may do to the others.                                  *)

\* A step of p leaves the work of the others alone, touches the platform it is
\* inside of only, and takes or frees a lock only if it is free or its own.
Frame(p) ==
    /\ \A q \in Procs \ {p} : /\ pc'[q] = pc[q] /\ plats'[q] = plats[q]
                              /\ cases'[q] = cases[q] /\ ok'[q] = ok[q]
    /\ \A l \in Platforms :
          /\ ~(Inside(p) /\ l = Platform(p)) => linked'[l] = linked[l] /\ out'[l] = out[l]
          /\ lock'[l] = lock[l] \/ lock[l] \in {Nothing, p}

LEMMA SeqFacts ==
    ASSUME NEW S, NEW s \in Seq(S), s # <<>>
    PROVE  /\ Head(s) \in S /\ Tail(s) \in Seq(S)
           /\ Len(s) \in Nat \ {0} /\ s[1] = Head(s)
           /\ Len(Tail(s)) = Len(s) - 1
           /\ \A k \in 1 .. Len(Tail(s)) : Tail(s)[k] = s[k + 1]
OBVIOUS

LEMMA PlatformType ==
    ASSUME BInv, NEW p \in Procs, pc[p] \notin {"start", "done", "dead"}
    PROVE  Platform(p) \in Platforms
BY SeqFacts DEF BInv, Typed, ProcInv, Platform

LEMMA CaseType ==
    ASSUME Typed, NEW p \in Procs, cases[p] # <<>>
    PROVE  Case(p) \in Cases
BY SeqFacts DEF Typed, Case

\* The tail of a list without repetitions has none, and not its head.
LEMMA TailDistinct ==
    ASSUME NEW s \in Seq(Cases), s # <<>>, Distinct(s)
    PROVE  /\ Distinct(Tail(s))
           /\ \A k \in 1 .. Len(Tail(s)) : Tail(s)[k] # Head(s)
<1>1. /\ Len(s) \in Nat \ {0} /\ s[1] = Head(s) /\ Len(Tail(s)) = Len(s) - 1
      /\ \A k \in 1 .. Len(Tail(s)) : Tail(s)[k] = s[k + 1]
  BY SeqFacts
<1>2. \A k \in 1 .. Len(Tail(s)) : k + 1 \in 1 .. Len(s) /\ k + 1 # 1
  BY <1>1
<1>3. 1 \in 1 .. Len(s)
  BY <1>1
<1>4. \A k \in 1 .. Len(Tail(s)) : Tail(s)[k] # Head(s)
  BY <1>1, <1>2, <1>3 DEF Distinct
<1>5. ASSUME NEW i \in 1 .. Len(Tail(s)), NEW j \in 1 .. Len(Tail(s)),
             Tail(s)[i] = Tail(s)[j]
      PROVE  i = j
  <2>1. i + 1 = j + 1
    BY <1>1, <1>2, <1>5 DEF Distinct
  <2> QED BY <2>1
<1> QED BY <1>4, <1>5 DEF Distinct

\* The lock at work: two invocations inside have different platforms, so that a
\* step of one keeps the invariant of the other.
LEMMA Others ==
    ASSUME BInv, NEW p \in Procs, Frame(p), NEW q \in Procs, q # p
    PROVE  ProcInv(q)'
<1>1. /\ pc'[q] = pc[q] /\ plats'[q] = plats[q] /\ cases'[q] = cases[q] /\ ok'[q] = ok[q]
      /\ ProcInv(q)
  BY DEF BInv, Frame
<1>2. Inside(q)' <=> Inside(q)
  BY <1>1 DEF Inside
<1>3. Platform(q)' = Platform(q) /\ Case(q)' = Case(q) /\ (Building(q)' <=> Building(q))
  BY <1>1, <1>2 DEF Platform, Case, Building
<1>4. ASSUME Inside(q)
      PROVE  /\ lock'[Platform(q)] = q
             /\ linked'[Platform(q)] = linked[Platform(q)]
             /\ out'[Platform(q)] = out[Platform(q)]
  <2>1. Platform(q) \in Platforms
    BY <1>4, PlatformType DEF Inside
  <2>2. lock[Platform(q)] = q
    BY <1>1, <1>4 DEF ProcInv
  <2>3. ~(Inside(p) /\ Platform(q) = Platform(p))
    BY <2>2 DEF BInv, ProcInv
  <2>4. q # Nothing
    BY CaseAssumption
  <2> QED BY <2>1, <2>2, <2>3, <2>4 DEF Frame
<1>5. Inside(q) \/ pc[q] \in {"start", "lock", "done", "dead"}
  BY DEF Inside
<1>6. CASE Inside(q)
  BY <1>1, <1>2, <1>3, <1>4, <1>6 DEF ProcInv, Distinct
<1>7. CASE pc[q] \in {"start", "lock", "done", "dead"}
  BY <1>1, <1>7 DEF ProcInv, Distinct, Inside, Building
<1> QED BY <1>5, <1>6, <1>7

LEMMA FromOne ==
    ASSUME BInv, NEW p \in Procs, Frame(p), Typed', ProcInv(p)'
    PROVE  BInv'
<1>1. \A q \in Procs : q # p => ProcInv(q)'
  BY Others
<1> QED BY <1>1 DEF BInv

-----------------------------------------------------------------------------
(* The steps.                                                              *)

LEMMA InitBInv == Init => BInv
<1> SUFFICES ASSUME Init
             PROVE  BInv
  OBVIOUS
<1>1. Typed
  BY JobAssumption DEF Init, Typed
<1>2. ASSUME NEW p \in Procs
      PROVE  ProcInv(p)
  <2>1. pc[p] = "start" /\ cases[p] = <<>>
    BY DEF Init
  <2> QED BY <2>1 DEF ProcInv, Distinct, Inside, Building
<1> QED BY <1>1, <1>2 DEF BInv

LEMMA PcStep ==
    ASSUME Typed, NEW p \in Procs, NEW l, GoTo(p, l)
    PROVE  /\ pc'[p] = l
           /\ DOMAIN pc' = Procs
           /\ \A q \in Procs \ {p} : pc'[q] = pc[q]
BY DEF Typed, GoTo

\* Steps on a case that change neither linked nor out.
WorkStep(p) ==
    \/ WriteRegister(p) \/ NoClean(p) \/ Parse(p) \/ Reparse(p)
    \/ (\E o \in Objs : Compile(p, o)) \/ CompileRegister(p)
    \/ LoadMap(p) \/ SaveStart(p)

LEMMA WorkStepTyped ==
    ASSUME BInv, NEW p \in Procs, WorkStep(p)
    PROVE  /\ UNCHANGED <<lock, linked, out, plats, cases, ok>>
           /\ objs' \in [Platforms -> [Objs -> Flags \cup {Nothing}]]
           /\ table' \in [Procs -> Cases \cup {Nothing, Stale}]
<1> USE DEF BInv, Typed
<1>1. CASE WriteRegister(p) \/ NoClean(p) \/ Parse(p) \/ LoadMap(p) \/ SaveStart(p)
  BY <1>1 DEF WriteRegister, NoClean, Parse, LoadMap, SaveStart, disk
<1>2. CASE Reparse(p)
  BY <1>2 DEF Reparse
<1>3. ASSUME NEW o \in Objs, Compile(p, o)
      PROVE  /\ UNCHANGED <<lock, linked, out, plats, cases, ok>>
             /\ objs' \in [Platforms -> [Objs -> Flags \cup {Nothing}]]
             /\ table' \in [Procs -> Cases \cup {Nothing, Stale}]
  <2>1. FlagsOf(p) \in Flags
    BY DEF FlagsOf, Flags
  <2>2. objs' = [objs EXCEPT ![Platform(p)] = [objs[Platform(p)] EXCEPT ![o] = FlagsOf(p)]]
    BY <1>3 DEF Compile
  <2>3. objs' \in [Platforms -> [Objs -> Flags \cup {Nothing}]]
    BY <2>1, <2>2
  <2> QED BY <1>3, <2>3 DEF Compile, work
<1>4. CASE CompileRegister(p)
  <2>1. cases[p] # <<>>
    BY <1>4 DEF CompileRegister, At, ProcInv, Building, Inside
  <2>2. Case(p) \in Cases
    BY <2>1, CaseType
  <2> QED BY <1>4, <2>2 DEF CompileRegister, disk
<1> QED BY <1>1, <1>2, <1>3, <1>4 DEF WorkStep

LEMMA WorkStepInv ==
    ASSUME BInv, NEW p \in Procs, WorkStep(p)
    PROVE  BInv'
<1>1. /\ UNCHANGED <<lock, linked, out, plats, cases, ok>>
      /\ objs' \in [Platforms -> [Objs -> Flags \cup {Nothing}]]
      /\ table' \in [Procs -> Cases \cup {Nothing, Stale}]
  BY WorkStepTyped
<1>2. /\ pc[p] \in {"write", "clean", "parse", "reparse", "compile", "export", "save"}
      /\ pc'[p] \in {"clean", "unlink", "reparse", "compile", "copy", "saving"}
      /\ pc[p] = "export" <=> pc'[p] = "copy"
      /\ pc[p] = "save" <=> pc'[p] = "saving"
      /\ DOMAIN pc' = Procs /\ \A q \in Procs \ {p} : pc'[q] = pc[q]
  <2> USE DEF BInv, Typed, At, GoTo
  <2>1. CASE WriteRegister(p) \/ NoClean(p) \/ Parse(p)
    BY <2>1 DEF WriteRegister, NoClean, Parse
  <2>2. CASE Reparse(p) \/ LoadMap(p) \/ SaveStart(p)
    BY <2>2 DEF Reparse, LoadMap, SaveStart
  <2>3. CASE (\E o \in Objs : Compile(p, o)) \/ CompileRegister(p)
    BY <2>3 DEF Compile, CompileRegister, work
  <2> QED BY <2>1, <2>2, <2>3, SMTT(30) DEF WorkStep
<1>3. Typed'
  BY <1>1, <1>2 DEF BInv, Typed
<1>4. Frame(p)
  BY <1>1, <1>2 DEF Frame
<1>5. Platform(p)' = Platform(p) /\ Case(p)' = Case(p) /\ Inside(p) /\ Building(p)
  BY <1>1, <1>2 DEF Platform, Case, Inside, Building
<1>6. ProcInv(p)'
  BY <1>1, <1>2, <1>5 DEF BInv, ProcInv, Distinct
<1> QED BY <1>3, <1>4, <1>6, FromOne

LEMMA TruncateInv ==
    ASSUME BInv, NEW p \in Procs, TruncateRegister(p)
    PROVE  BInv'
<1>1. /\ pc[p] = "next" /\ pc'[p] = "write" /\ cases[p] # <<>>
      /\ DOMAIN pc' = Procs /\ \A q \in Procs \ {p} : pc'[q] = pc[q]
  BY PcStep DEF BInv, TruncateRegister, At
<1>2. UNCHANGED <<lock, objs, linked, out, plats, cases, table, ok>>
  BY DEF TruncateRegister
<1>3. Typed' /\ Frame(p)
  BY <1>1, <1>2 DEF BInv, Typed, Frame
<1>4. ProcInv(p)'
  BY <1>1, <1>2 DEF BInv, ProcInv, Distinct, Inside, Building, Platform, Case
<1> QED BY <1>3, <1>4, FromOne

\* make clean and remove_link_outputs take the old ELF of the platform away.
LEMMA UnlinkInv ==
    ASSUME BInv, NEW p \in Procs, Clean(p) \/ RemoveLinkOutputs(p)
    PROVE  BInv'
<1>1. /\ pc[p] \in {"clean", "unlink"} /\ pc'[p] \in {"unlink", "parse"}
      /\ DOMAIN pc' = Procs /\ \A q \in Procs \ {p} : pc'[q] = pc[q]
  BY PcStep DEF BInv, Clean, RemoveLinkOutputs, At
<1>2. UNCHANGED <<lock, out, plats, cases, table, ok>>
  BY DEF Clean, RemoveLinkOutputs
<1>3. linked' = [linked EXCEPT ![Platform(p)] = Nothing]
  BY DEF Clean, RemoveLinkOutputs
<1>4. objs' \in [Platforms -> [Objs -> Flags \cup {Nothing}]]
  <2>1. CASE Clean(p)
    <3>1. objs \in [Platforms -> [Objs -> Flags \cup {Nothing}]]
      BY DEF BInv, Typed
    <3>2. [o \in Objs |-> Nothing] \in [Objs -> Flags \cup {Nothing}]
      OBVIOUS
    <3> QED BY <2>1, <3>1, <3>2 DEF Clean
  <2>2. CASE RemoveLinkOutputs(p)
    BY <2>2 DEF RemoveLinkOutputs, BInv, Typed
  <2> QED BY <2>1, <2>2
<1>5. Inside(p) /\ Building(p)
  BY <1>1 DEF Inside, Building
<1>6. Typed' /\ Frame(p)
  BY <1>1, <1>2, <1>3, <1>4, <1>5 DEF BInv, Typed, Frame
<1>7. ProcInv(p)'
  BY <1>1, <1>2, <1>5 DEF BInv, ProcInv, Distinct, Inside, Building, Platform, Case
<1> QED BY <1>6, <1>7, FromOne

LEMMA LinkInv ==
    ASSUME BInv, NEW p \in Procs, Link(p)
    PROVE  BInv'
<1> DEFINE elf == [test |-> table[p], by |-> p,
                   flags |-> {objs[Platform(p)][o] : o \in Parts(Case(p))}]
<1>1. /\ pc[p] = "compile" /\ pc'[p] = "export"
      /\ DOMAIN pc' = Procs /\ \A q \in Procs \ {p} : pc'[q] = pc[q]
  BY PcStep DEF BInv, Link, At
<1>2. UNCHANGED <<lock, objs, out, plats, cases, table, ok>>
  BY DEF Link
<1>3. Inside(p) /\ Building(p) /\ Platform(p) \in Platforms /\ Case(p) \in Cases
  BY <1>1, PlatformType, CaseType DEF BInv, ProcInv, Inside, Building
<1>4. linked' = [linked EXCEPT ![Platform(p)] = elf]
  BY DEF Link
<1>5. By(p, elf)
  <2>1. table[p] \in Cases \cup {Nothing}
    BY DEF BInv, Typed, Link
  <2>2. Parts(Case(p)) \subseteq Objs
    BY <1>3 DEF Parts, Objs, Tables, Backend
  <2>3. \A o \in Parts(Case(p)) : objs[Platform(p)][o] \in Flags
    BY <1>3, <2>2 DEF BInv, Typed, Link, Missing
  <2>4. {objs[Platform(p)][o] : o \in Parts(Case(p))} \subseteq Flags
    BY <2>3
  <2> QED BY <2>1, <2>4 DEF By, Elf
<1>6. Typed' /\ Frame(p)
  <2> HIDE DEF elf
  <2> QED BY <1>1, <1>2, <1>3, <1>4, <1>5 DEF BInv, Typed, Frame, By
<1>7. ProcInv(p)'
  <2> HIDE DEF elf
  <2>1. Platform(p)' = Platform(p) /\ linked'[Platform(p)] = elf
    BY <1>2, <1>3, <1>4 DEF Platform, BInv, Typed
  <2> QED BY <1>1, <1>2, <1>3, <1>5, <2>1
          DEF BInv, ProcInv, Distinct, Inside, Building, Platform, Case
<1> QED BY <1>6, <1>7, FromOne

\* The ELF under copy is of a case that is not counted yet.
LEMMA CopyInv ==
    ASSUME BInv, NEW p \in Procs, CopyStart(p) \/ CopyEnd(p)
    PROVE  BInv'
<1> DEFINE new == IF pc[p] = "copy" THEN Torn ELSE linked[Platform(p)]
<1>1. /\ \/ pc[p] = "copy" /\ pc'[p] = "copying"
         \/ pc[p] = "copying" /\ pc'[p] = "save"
      /\ DOMAIN pc' = Procs /\ \A q \in Procs \ {p} : pc'[q] = pc[q]
  BY PcStep DEF BInv, CopyStart, CopyEnd, At
<1>2. UNCHANGED <<lock, objs, linked, plats, cases, table, ok>>
  BY DEF CopyStart, CopyEnd
<1>3. Inside(p) /\ Building(p) /\ cases[p] # <<>>
  BY <1>1 DEF BInv, ProcInv, Inside, Building
<1>4. Platform(p) \in Platforms /\ Case(p) \in Cases
  BY <1>1, <1>3, PlatformType, CaseType DEF BInv
<1>5. out' = [out EXCEPT ![Platform(p)] = [out[Platform(p)] EXCEPT ![Case(p)] = new]]
  <2>1. CASE CopyStart(p)
    BY <2>1 DEF CopyStart, At
  <2>2. CASE CopyEnd(p)
    BY <2>2 DEF CopyEnd, At
  <2> QED BY <2>1, <2>2
<1>6. new \in Elf \cup {Nothing, Torn}
  BY <1>4 DEF BInv, Typed
<1>7. pc'[p] = "save" => By(p, new)
  BY <1>1 DEF BInv, ProcInv
<1>8. Typed' /\ Frame(p)
  <2> HIDE DEF new
  <2> QED BY <1>1, <1>2, <1>3, <1>4, <1>5, <1>6 DEF BInv, Typed, Frame
<1>9. ProcInv(p)'
  <2> HIDE DEF new
  <2>1. /\ Platform(p)' = Platform(p) /\ Case(p)' = Case(p)
        /\ out'[Platform(p)][Case(p)] = new
        /\ \A c \in Cases \ {Case(p)} : out'[Platform(p)][c] = out[Platform(p)][c]
    BY <1>2, <1>4, <1>5 DEF Platform, Case, BInv, Typed
  <2>2. Case(p) \notin ok[p]
    <3>1. cases[p][1] = Case(p) /\ 1 \in 1 .. Len(cases[p])
      BY <1>3, SeqFacts DEF Case, BInv, Typed
    <3> QED BY <1>3, <3>1 DEF BInv, ProcInv
  <2>3. ok[p] \subseteq Cases
    BY DEF BInv, Typed
  <2>4. \A c \in ok'[p] : /\ By(p, out'[Platform(p)][c])
                         /\ \A k \in 1 .. Len(cases'[p]) : cases'[p][k] # c
    BY <1>2, <1>3, <2>1, <2>2, <2>3 DEF BInv, ProcInv
  <2> QED BY <1>1, <1>2, <1>3, <1>7, <2>1, <2>4
          DEF BInv, ProcInv, Distinct, Inside, Building
<1> QED BY <1>8, <1>9, FromOne

\* The case is over: the list gets shorter, and the count has at most this case
\* added, when its ELF is exported.
LEMMA NextCaseInv ==
    ASSUME BInv, NEW p \in Procs, NextCase(p), Inside(p), cases[p] # <<>>,
           UNCHANGED <<lock, objs, linked, out, plats, table>>,
           \/ ok' = ok
           \/ /\ ok' = [ok EXCEPT ![p] = ok[p] \cup {Case(p)}]
              /\ By(p, out[Platform(p)][Case(p)])
    PROVE  BInv'
<1>1. /\ pc'[p] = "next" /\ DOMAIN pc' = Procs /\ \A q \in Procs \ {p} : pc'[q] = pc[q]
      /\ cases' = [cases EXCEPT ![p] = Tail(cases[p])]
  BY PcStep DEF BInv, NextCase
<1>2. /\ cases[p] \in Seq(Cases) /\ Case(p) \in Cases /\ Tail(cases[p]) \in Seq(Cases)
      /\ Distinct(Tail(cases[p]))
      /\ \A k \in 1 .. Len(Tail(cases[p])) : Tail(cases[p])[k] # Case(p)
  BY SeqFacts, TailDistinct DEF BInv, Typed, ProcInv, Case
<1>3. Typed' /\ Frame(p)
  <2>1. DOMAIN pc' = Procs /\ cases' \in [Procs -> Seq(Cases)]
    BY <1>1, <1>2 DEF BInv, Typed
  <2>2. /\ ok' \in [Procs -> SUBSET Cases]
        /\ \A q \in Procs \ {p} : ok'[q] = ok[q] /\ cases'[q] = cases[q]
    <3> USE DEF BInv, Typed
    <3>1. CASE ok' = ok
      BY <1>1, <3>1
    <3>2. CASE ok' = [ok EXCEPT ![p] = ok[p] \cup {Case(p)}]
      BY <1>1, <1>2, <3>2
    <3> QED BY <3>1, <3>2
  <2> QED BY <1>1, <2>1, <2>2 DEF BInv, Typed, Frame
<1>4. ProcInv(p)'
  <2>1. cases'[p] = Tail(cases[p]) /\ Platform(p)' = Platform(p) /\ Inside(p)' /\ ~Building(p)'
    BY <1>1 DEF BInv, Typed, Platform, Inside, Building
  <2>2. \A c \in ok'[p] : c \in ok[p] \/ (c = Case(p) /\ By(p, out[Platform(p)][c]))
    <3>1. CASE ok' = ok
      BY <3>1
    <3>2. CASE /\ ok' = [ok EXCEPT ![p] = ok[p] \cup {Case(p)}]
               /\ By(p, out[Platform(p)][Case(p)])
      <4>1. ok'[p] = ok[p] \cup {Case(p)}
        BY <3>2 DEF BInv, Typed
      <4> QED BY <3>2, <4>1
    <3> QED BY <3>1, <3>2
  <2>3. ASSUME NEW c \in ok'[p]
        PROVE  /\ By(p, out[Platform(p)][c])
               /\ \A k \in 1 .. Len(Tail(cases[p])) : Tail(cases[p])[k] # c
    <3>1. CASE c = Case(p) /\ By(p, out[Platform(p)][c])
      BY <3>1, <1>2
    <3>2. CASE c \in ok[p]
      <4>1. /\ By(p, out[Platform(p)][c])
            /\ \A k \in 1 .. Len(cases[p]) : cases[p][k] # c
        BY <3>2 DEF BInv, ProcInv
      <4>2. \A k \in 1 .. Len(Tail(cases[p])) :
                k + 1 \in 1 .. Len(cases[p]) /\ Tail(cases[p])[k] = cases[p][k + 1]
        BY <1>2, SeqFacts
      <4> QED BY <4>1, <4>2
    <3> QED BY <2>2, <3>1, <3>2
  <2>4. /\ plats'[p] # <<>> /\ lock'[Platform(p)] = p /\ pc'[p] = "next"
    BY <1>1 DEF BInv, ProcInv, Inside
  <2> QED BY <1>2, <2>1, <2>3, <2>4 DEF ProcInv, By
<1> QED BY <1>3, <1>4, FromOne

\* The steps that end a case.
CaseEnds(p) == SkipCase(p) \/ CleanFails(p) \/ MakeFails(p) \/ ExportFails(p) \/ SaveEnd(p)

LEMMA CaseEndsInv ==
    ASSUME BInv, NEW p \in Procs, CaseEnds(p)
    PROVE  BInv'
<1>1. CASE SkipCase(p)
  <2>1. Inside(p) /\ cases[p] # <<>>
    BY <1>1 DEF SkipCase, At, Inside
  <2> QED BY <1>1, <2>1, NextCaseInv DEF SkipCase, disk
<1>2. CASE CleanFails(p) \/ MakeFails(p) \/ ExportFails(p)
  <2>1. pc[p] \in {"clean", "compile", "copy", "copying", "saving"}
    BY <1>2 DEF CleanFails, MakeFails, ExportFails, At
  <2>2. Inside(p) /\ cases[p] # <<>>
    BY <2>1 DEF BInv, ProcInv, Inside, Building
  <2>3. NextCase(p) /\ UNCHANGED <<lock, objs, linked, out, plats, table, ok>>
    BY <1>2 DEF CleanFails, MakeFails, ExportFails, disk
  <2> QED BY <2>2, <2>3, NextCaseInv
<1>3. CASE SaveEnd(p)
  <2>1. pc[p] = "saving"
    BY <1>3 DEF SaveEnd, At
  <2>2. Inside(p) /\ cases[p] # <<>> /\ By(p, out[Platform(p)][Case(p)])
    BY <2>1 DEF BInv, ProcInv, Inside, Building
  <2>3. /\ NextCase(p) /\ UNCHANGED <<lock, objs, linked, out, plats, table>>
        /\ ok' = [ok EXCEPT ![p] = ok[p] \cup {Case(p)}]
    BY <1>3 DEF SaveEnd
  <2> QED BY <2>2, <2>3, NextCaseInv
<1> QED BY <1>1, <1>2, <1>3 DEF CaseEnds

\* The steps outside, into and out of the lock.
Session(p) == StartPlatform(p) \/ Finish(p) \/ Acquire(p) \/ Release(p) \/ Crash(p)

LEMMA SessionInv ==
    ASSUME BInv, NEW p \in Procs, Session(p)
    PROVE  BInv'
<1>1. DOMAIN pc' = Procs /\ \A q \in Procs \ {p} : pc'[q] = pc[q]
  BY PcStep DEF BInv, Session, StartPlatform, Finish, Acquire, Release, Crash
<1>2. CASE StartPlatform(p)
  <2>1. /\ pc'[p] = "lock" /\ plats[p] # <<>>
        /\ cases' = [cases EXCEPT ![p] = Jobs[p].cases] /\ ok' = [ok EXCEPT ![p] = {}]
        /\ UNCHANGED <<lock, objs, linked, out, plats, table>>
    BY <1>2, PcStep DEF BInv, StartPlatform, disk
  <2>2. Typed' /\ Frame(p)
    BY <1>1, <2>1, JobAssumption DEF BInv, Typed, Frame
  <2>3. ProcInv(p)'
    BY <2>1, JobAssumption DEF BInv, Typed, ProcInv, Inside, Building
  <2> QED BY <2>2, <2>3, FromOne
<1>3. CASE Finish(p) \/ Crash(p)
  <2>1. /\ pc'[p] \in {"done", "dead"} /\ UNCHANGED <<objs, linked, out, plats, cases, table, ok>>
        /\ \A l \in Platforms : lock'[l] = lock[l] \/ lock[l] = p
        /\ lock' \in [Platforms -> Procs \cup {Nothing}]
    BY <1>3, PcStep DEF BInv, Typed, Finish, Crash, disk
  <2>2. Typed' /\ Frame(p)
    BY <1>1, <2>1 DEF BInv, Typed, Frame
  <2>3. ProcInv(p)'
    BY <2>1 DEF BInv, ProcInv, Inside, Building, Distinct
  <2> QED BY <2>2, <2>3, FromOne
<1>4. CASE Acquire(p)
  <2>1. /\ pc[p] = "lock" /\ pc'[p] = "next" /\ lock[Platform(p)] = Nothing
        /\ lock' = [lock EXCEPT ![Platform(p)] = p]
        /\ UNCHANGED <<objs, linked, out, plats, cases, table, ok>>
    BY <1>4, PcStep DEF BInv, Acquire, At
  <2>2. Platform(p) \in Platforms /\ plats[p] # <<>>
    BY <2>1, PlatformType DEF BInv, ProcInv
  <2>3. Typed' /\ Frame(p)
    BY <1>1, <2>1, <2>2 DEF BInv, Typed, Frame
  <2>4. ok[p] = {}
    BY <2>1 DEF BInv, ProcInv
  <2>5. ProcInv(p)'
    BY <2>1, <2>2, <2>4 DEF BInv, Typed, ProcInv, Inside, Building, Distinct, Platform
  <2> QED BY <2>3, <2>5, FromOne
<1>5. CASE Release(p)
  <2>1. /\ pc[p] = "next" /\ pc'[p] = "start" /\ cases[p] = <<>>
        /\ lock' = [lock EXCEPT ![Platform(p)] = Nothing]
        /\ plats' = [plats EXCEPT ![p] = Tail(plats[p])]
        /\ UNCHANGED <<objs, linked, out, cases, table, ok>>
    BY <1>5, PcStep DEF BInv, Release, At
  <2>2. /\ Platform(p) \in Platforms /\ plats[p] # <<>> /\ lock[Platform(p)] = p
        /\ Tail(plats[p]) \in Seq(Platforms)
    BY <2>1, PlatformType, SeqFacts DEF BInv, Typed, ProcInv, Inside
  <2>3. Typed' /\ Frame(p)
    BY <1>1, <2>1, <2>2 DEF BInv, Typed, Frame
  <2>4. ProcInv(p)'
    BY <2>1 DEF BInv, ProcInv, Inside, Building, Distinct
  <2> QED BY <2>3, <2>4, FromOne
<1> QED BY <1>2, <1>3, <1>4, <1>5 DEF Session

LEMMA StepBInv == BInv /\ [Next]_vars => BInv'
<1> SUFFICES ASSUME BInv, [Next]_vars
             PROVE  BInv'
  OBVIOUS
<1>1. ASSUME NEW p \in Procs, Work(p) \/ Fails(p)
      PROVE  BInv'
  <2>1. \/ Session(p) \/ CaseEnds(p) \/ WorkStep(p) \/ TruncateRegister(p)
        \/ Clean(p) \/ RemoveLinkOutputs(p) \/ Link(p) \/ CopyStart(p) \/ CopyEnd(p)
    BY <1>1 DEF Work, Fails, Session, CaseEnds, WorkStep
  <2> QED BY <2>1, SessionInv, CaseEndsInv, WorkStepInv, TruncateInv, UnlinkInv, LinkInv,
             CopyInv
<1>2. CASE UNCHANGED vars
  BY <1>2 DEF vars, disk, work, BInv, Typed, ProcInv, Inside, Building, Platform, Case,
              Distinct, By
<1> QED BY <1>1, <1>2 DEF Next

\* While an invocation is in its session, the cases it has counted as built are
\* exported whole and linked by it, for every number of invocations, platforms
\* and cases, and whichever steps fail or processes die.
THEOREM OkAlwaysOwn == Spec => []OkIsOwn
<1>1. Init => BInv
  BY InitBInv
<1>2. BInv /\ [Next]_vars => BInv'
  BY StepBInv
<1>3. BInv => OkIsOwn
  BY ElfAssumption DEF BInv, ProcInv, OkIsOwn, Inside, By, Exported
<1> QED BY <1>1, <1>2, <1>3, PTL DEF Spec

-----------------------------------------------------------------------------
(* Suffixes: what is left of a command line.                               *)

LEMMA SuffixMeaning ==
    ASSUME NEW S, NEW s \in Seq(S), NEW t \in Seq(S)
    PROVE  IsSuffix(s, t) <=>
              /\ Len(s) <= Len(t)
              /\ \A k \in 1 .. Len(s) : s[k] = t[k + (Len(t) - Len(s))]
<1> DEFINE rs == Reverse(s)
           rt == Reverse(t)
<1>1. /\ rs \in Seq(S) /\ Len(rs) = Len(s)
      /\ \A i \in 1 .. Len(s) : rs[i] = s[(Len(s) - i) + 1]
  <2>1. \A i \in 1 .. Len(s) : (Len(s) - i) + 1 \in 1 .. Len(s)
    OBVIOUS
  <2>2. rs = [i \in 1 .. Len(s) |-> s[(Len(s) - i) + 1]]
    BY DEF Reverse
  <2>3. rs \in [1 .. Len(s) -> S]
    BY <2>1, <2>2
  <2> HIDE DEF rs
  <2> QED BY <2>2, <2>3, IsASeq
<1>2. /\ rt \in Seq(S) /\ Len(rt) = Len(t)
      /\ \A i \in 1 .. Len(t) : rt[i] = t[(Len(t) - i) + 1]
  <2>1. \A i \in 1 .. Len(t) : (Len(t) - i) + 1 \in 1 .. Len(t)
    OBVIOUS
  <2>2. rt = [i \in 1 .. Len(t) |-> t[(Len(t) - i) + 1]]
    BY DEF Reverse
  <2>3. rt \in [1 .. Len(t) -> S]
    BY <2>1, <2>2
  <2> HIDE DEF rt
  <2> QED BY <2>2, <2>3, IsASeq
<1>3. IsSuffix(s, t) <=> Len(rs) <= Len(rt) /\ SubSeq(rs, 1, Len(rs)) = SubSeq(rt, 1, Len(rs))
  BY DEF IsSuffix, IsPrefix
<1> HIDE DEF rs, rt
<1>4. ASSUME Len(s) <= Len(t)
      PROVE  SubSeq(rs, 1, Len(rs)) = SubSeq(rt, 1, Len(rs))
             <=> \A i \in 1 .. Len(s) : rs[i] = rt[i]
  <2>1. Len(s) \in Nat /\ Len(t) \in Nat
    OBVIOUS
  <2>2. /\ SubSeq(rs, 1, Len(s)) \in Seq(S) /\ Len(SubSeq(rs, 1, Len(s))) = Len(s)
        /\ \A i \in 1 .. Len(s) : SubSeq(rs, 1, Len(s))[i] = rs[i]
    BY <1>1, <2>1
  <2>3. /\ SubSeq(rt, 1, Len(s)) \in Seq(S) /\ Len(SubSeq(rt, 1, Len(s))) = Len(s)
        /\ \A i \in 1 .. Len(s) : SubSeq(rt, 1, Len(s))[i] = rt[i]
    BY <1>2, <1>4, <2>1
  <2> QED BY <1>1, <2>2, <2>3, SeqEqual
<1>5. ASSUME Len(s) <= Len(t)
      PROVE  (\A i \in 1 .. Len(s) : rs[i] = rt[i])
             <=> \A k \in 1 .. Len(s) : s[k] = t[k + (Len(t) - Len(s))]
  <2>1. ASSUME \A i \in 1 .. Len(s) : rs[i] = rt[i], NEW k \in 1 .. Len(s)
        PROVE  s[k] = t[k + (Len(t) - Len(s))]
    <3>1. /\ (Len(s) - k) + 1 \in 1 .. Len(s) /\ (Len(s) - k) + 1 \in 1 .. Len(t)
          /\ (Len(s) - ((Len(s) - k) + 1)) + 1 = k
          /\ (Len(t) - ((Len(s) - k) + 1)) + 1 = k + (Len(t) - Len(s))
      BY <1>5
    <3> QED BY <1>1, <1>2, <2>1, <3>1
  <2>2. ASSUME \A k \in 1 .. Len(s) : s[k] = t[k + (Len(t) - Len(s))], NEW i \in 1 .. Len(s)
        PROVE  rs[i] = rt[i]
    <3>1. /\ (Len(s) - i) + 1 \in 1 .. Len(s) /\ i \in 1 .. Len(t)
          /\ ((Len(s) - i) + 1) + (Len(t) - Len(s)) = (Len(t) - i) + 1
      BY <1>5
    <3> QED BY <1>1, <1>2, <2>2, <3>1
  <2> QED BY <2>1, <2>2
<1> QED BY <1>1, <1>2, <1>3, <1>4, <1>5

LEMMA SuffixFacts ==
    ASSUME NEW S, NEW t \in Seq(S)
    PROVE  /\ IsSuffix(t, t) /\ IsSuffix(<<>>, t)
           /\ \A s \in Seq(S) : s # <<>> /\ IsSuffix(s, t) => IsSuffix(Tail(s), t)
           /\ \A s \in Seq(S) : s # <<>> /\ IsSuffix(s, t) =>
                 \E k \in 1 .. Len(t) : t[k] = Head(s)
<1>1. IsSuffix(t, t)
  BY SuffixMeaning
<1>2. IsSuffix(<<>>, t)
  <2>1. <<>> \in Seq(S) /\ Len(<<>>) = 0 /\ Len(t) \in Nat
    OBVIOUS
  <2>2. ASSUME NEW s \in Seq(S), Len(s) = 0
        PROVE  IsSuffix(s, t)
    <3>1. Len(s) <= Len(t) /\ \A k \in 1 .. Len(s) : s[k] = t[k + (Len(t) - Len(s))]
      BY <2>1, <2>2
    <3> QED BY <3>1, SuffixMeaning
  <2> QED BY <2>1, <2>2
<1>3. ASSUME NEW s \in Seq(S), s # <<>>, IsSuffix(s, t)
      PROVE  /\ IsSuffix(Tail(s), t)
             /\ \E k \in 1 .. Len(t) : t[k] = Head(s)
  <2>1. /\ Tail(s) \in Seq(S) /\ Len(s) \in Nat \ {0} /\ Len(t) \in Nat /\ s[1] = Head(s)
        /\ Len(Tail(s)) = Len(s) - 1
        /\ \A k \in 1 .. Len(Tail(s)) : Tail(s)[k] = s[k + 1]
    BY <1>3, SeqFacts
  <2>2. /\ Len(s) <= Len(t)
        /\ \A k \in 1 .. Len(s) : s[k] = t[k + (Len(t) - Len(s))]
    BY <1>3, SuffixMeaning
  <2>3. \A k \in 1 .. Len(Tail(s)) :
           /\ k + 1 \in 1 .. Len(s)
           /\ (k + 1) + (Len(t) - Len(s)) = k + (Len(t) - Len(Tail(s)))
    BY <2>1
  <2>4. IsSuffix(Tail(s), t)
    <3>1. Len(Tail(s)) <= Len(t)
      BY <2>1, <2>2
    <3>2. \A k \in 1 .. Len(Tail(s)) : Tail(s)[k] = t[k + (Len(t) - Len(Tail(s)))]
      BY <2>1, <2>2, <2>3
    <3> QED BY <2>1, <3>1, <3>2, SuffixMeaning
  <2>5. 1 \in 1 .. Len(s) /\ 1 + (Len(t) - Len(s)) \in 1 .. Len(t)
    BY <2>1, <2>2
  <2> QED BY <2>1, <2>2, <2>4, <2>5
<1> QED BY <1>1, <1>2, <1>3

LEMMA HeadOfSuffix ==
    ASSUME NEW S, NEW t \in Seq(S), NEW s \in Seq(S), s # <<>>, IsSuffix(s, t)
    PROVE  \E k \in 1 .. Len(t) : t[k] = Head(s)
BY SuffixFacts

-----------------------------------------------------------------------------
(* TypeOK.                                                                 *)

\* What TypeOK says and Typed does not.
Rest ==
    /\ register \in [Cases -> {"absent", "empty", "full"}]
    /\ prev \in [Platforms -> {f.level : f \in Flags} \cup {Nothing}]
    /\ names \in [Platforms -> {Torn} \cup SUBSET Cases]
    /\ pending \in [Procs -> BOOLEAN]
    /\ loaded \in [Procs -> SUBSET Cases]
    /\ faults \in Seq(Faults) /\ Len(faults) <= MaxFaults

Left(p) ==
    /\ IsSuffix(plats[p], Jobs[p].plats)
    /\ IsSuffix(cases[p], Jobs[p].cases)
    /\ plats[p] = <<>> => cases[p] = <<>>

TInv == BInv /\ Rest /\ \A p \in Procs : Left(p)

LEMMA LevelType ==
    ASSUME NEW p \in Procs
    PROVE  Jobs[p].level \in {f.level : f \in Flags}
<1>1. FlagsOf(p) \in Flags /\ FlagsOf(p).level = Jobs[p].level
  BY DEF FlagsOf, Flags
<1> QED BY <1>1

LEMMA FaultStep ==
    ASSUME Rest, NEW f, Fault(f)
    PROVE  /\ f \in Faults /\ faults' = Append(faults, f)
           /\ faults' \in Seq(Faults) /\ Len(faults') <= MaxFaults
<1>1. f \in Faults /\ faults \in Seq(Faults) /\ Len(faults) < MaxFaults
      /\ faults' = Append(faults, f) /\ MaxFaults \in Nat
  BY FaultAssumption DEF Rest, Fault
<1>2. Append(faults, f) \in Seq(Faults) /\ Len(Append(faults, f)) = Len(faults) + 1
  BY <1>1
<1>3. \A n \in Nat : n < MaxFaults => n + 1 <= MaxFaults
  BY <1>1
<1>4. Len(faults) \in Nat
  BY <1>1
<1> QED BY <1>1, <1>2, <1>3, <1>4

\* Steps that write none of register, prev, names, pending and loaded.
Aside(p) ==
    \/ Finish(p) \/ Acquire(p) \/ Release(p) \/ SkipCase(p) \/ NoClean(p)
    \/ RemoveLinkOutputs(p) \/ (\E o \in Objs : Compile(p, o)) \/ CompileRegister(p)
    \/ MakeFails(p) \/ Link(p) \/ CopyStart(p) \/ CopyEnd(p) \/ ExportFails(p) \/ Crash(p)

LEMMA RestStep ==
    ASSUME TInv, NEW p \in Procs, Work(p) \/ Fails(p)
    PROVE  Rest'
<1> USE DEF TInv, Rest
<1>1. Len(faults) \in Nat
  OBVIOUS
<1>2. pc[p] \notin {"start", "done", "dead"} => Platform(p) \in Platforms
  BY PlatformType
<1>3. Building(p) => cases[p] # <<>> /\ Case(p) \in Cases
  BY CaseType DEF BInv, ProcInv
<1>4. \A f : Fault(f) => faults' \in Seq(Faults) /\ Len(faults') <= MaxFaults
  BY FaultStep
<1>5. CASE Aside(p)
  <2>1. UNCHANGED <<register, prev, names, pending, loaded>>
    BY <1>5 DEF Aside, Finish, Acquire, Release, SkipCase, NoClean, RemoveLinkOutputs,
       Compile, CompileRegister, MakeFails, Link, CopyStart, CopyEnd, ExportFails, Crash,
       disk, work
  <2>2. UNCHANGED faults \/ \E f : Fault(f)
    BY <1>5 DEF Aside, Finish, Acquire, Release, SkipCase, NoClean, RemoveLinkOutputs,
       Compile, CompileRegister, MakeFails, Link, CopyStart, CopyEnd, ExportFails, Crash
  <2> QED BY <1>4, <2>1, <2>2
<1>6. CASE TruncateRegister(p) \/ WriteRegister(p)
  <2>1. UNCHANGED <<prev, names, pending, loaded, faults>>
    BY <1>6 DEF TruncateRegister, WriteRegister
  <2>2. register' \in [Cases -> {"absent", "empty", "full"}]
    BY <1>6 DEF TruncateRegister, WriteRegister
  <2> QED BY <2>1, <2>2
<1>7. CASE Clean(p) \/ CleanFails(p) \/ StartPlatform(p)
  <2>1. /\ UNCHANGED <<register, names, loaded>>
        /\ UNCHANGED faults \/ Fault("clean")
    BY <1>7 DEF Clean, CleanFails, StartPlatform, disk
  <2>2. prev' \in [Platforms -> {f.level : f \in Flags} \cup {Nothing}]
    BY <1>7 DEF Clean, CleanFails, StartPlatform, disk
  <2>3. pending' \in [Procs -> BOOLEAN]
    BY <1>7, JobAssumption DEF Clean, CleanFails, StartPlatform
  <2> QED BY <1>4, <2>1, <2>2, <2>3
<1>8. CASE Parse(p) \/ Reparse(p)
  <2>1. UNCHANGED <<register, names, pending, loaded, faults>>
    BY <1>8 DEF Parse, Reparse
  <2>2. prev' = [prev EXCEPT ![Platform(p)] = Jobs[p].level]
    BY <1>8 DEF Parse, Reparse
  <2>3. prev' \in [Platforms -> {f.level : f \in Flags} \cup {Nothing}]
    BY <2>2, LevelType
  <2> QED BY <2>1, <2>3
<1>9. CASE LoadMap(p)
  <2>1. UNCHANGED <<register, prev, names, pending, faults>> /\ Platform(p) \in Platforms
    BY <1>2, <1>9 DEF LoadMap, disk, At
  <2> DEFINE map == IF names[Platform(p)] = Torn THEN {} ELSE names[Platform(p)]
  <2>2. map \in SUBSET Cases
    <3>1. names[Platform(p)] \in {Torn} \cup SUBSET Cases
      BY <2>1
    <3>2. {} \in SUBSET Cases
      OBVIOUS
    <3>3. CASE names[Platform(p)] = Torn
      BY <3>2, <3>3, Zenon
    <3>4. CASE names[Platform(p)] # Torn
      <4>1. names[Platform(p)] \in SUBSET Cases
        BY <3>1, <3>4, Zenon
      <4> QED BY <3>4, <4>1, Zenon
    <3> QED BY <3>3, <3>4
  <2>3. loaded' = [loaded EXCEPT ![p] = map]
    BY <1>9 DEF LoadMap
  <2>4. loaded' \in [Procs -> SUBSET Cases]
    <3> HIDE DEF map
    <3> QED BY <2>2, <2>3
  <2> QED BY <2>1, <2>4
<1>10. CASE SaveStart(p) \/ SaveEnd(p)
  <2>1. UNCHANGED <<register, prev, pending, loaded, faults>> /\ Case(p) \in Cases
    BY <1>3, <1>10 DEF SaveStart, SaveEnd, At, Building, Inside
  <2>2. names' \in [Platforms -> {Torn} \cup SUBSET Cases]
    <3>1. CASE SaveStart(p)
      <4>1. names' = [names EXCEPT ![Platform(p)] = Torn]
        BY <3>1 DEF SaveStart
      <4>2. Torn \in {Torn} \cup SUBSET Cases
        BY Zenon
      <4> QED BY <4>1, <4>2
    <3>2. CASE SaveEnd(p)
      <4>1. loaded[p] \cup {Case(p)} \in SUBSET Cases
        BY <2>1
      <4>2. names' = [names EXCEPT ![Platform(p)] = loaded[p] \cup {Case(p)}]
        BY <3>2 DEF SaveEnd
      <4> QED BY <4>1, <4>2
    <3> QED BY <1>10, <3>1, <3>2
  <2> QED BY <2>1, <2>2
<1> QED BY <1>5, <1>6, <1>7, <1>8, <1>9, <1>10 DEF Work, Fails, Aside

LEMMA LeftStep ==
    ASSUME TInv, NEW p \in Procs, Work(p) \/ Fails(p)
    PROVE  \A q \in Procs : Left(q)'
<1>1. /\ plats[p] \in Seq(Platforms) /\ cases[p] \in Seq(Cases)
      /\ Jobs[p].plats \in Seq(Platforms) /\ Jobs[p].cases \in Seq(Cases)
      /\ DOMAIN plats = Procs /\ DOMAIN cases = Procs
      /\ \A q \in Procs : Left(q)
  BY JobAssumption DEF TInv, BInv, Typed
<1>2. pc[p] \notin {"start", "done", "dead"} => plats[p] # <<>>
  BY DEF TInv, BInv, ProcInv
<1>3. CASE StartPlatform(p)
  <2>1. plats' = plats /\ cases' = [cases EXCEPT ![p] = Jobs[p].cases] /\ plats[p] # <<>>
    BY <1>3 DEF StartPlatform
  <2>2. IsSuffix(Jobs[p].cases, Jobs[p].cases)
    BY <1>1, SuffixFacts
  <2> QED BY <1>1, <2>1, <2>2 DEF Left
<1>4. CASE Release(p)
  <2>1. cases' = cases /\ plats' = [plats EXCEPT ![p] = Tail(@)]
        /\ plats[p] # <<>> /\ cases[p] = <<>>
    BY <1>2, <1>4 DEF Release, At
  <2>2. IsSuffix(Tail(plats[p]), Jobs[p].plats)
    BY <1>1, <2>1, SuffixFacts DEF Left
  <2> QED BY <1>1, <2>1, <2>2 DEF Left
<1>5. CASE NextCase(p) /\ plats' = plats /\ cases[p] # <<>> /\ plats[p] # <<>>
  <2>1. cases' = [cases EXCEPT ![p] = Tail(@)]
    BY <1>5 DEF NextCase
  <2>2. IsSuffix(Tail(cases[p]), Jobs[p].cases)
    BY <1>1, <1>5, SuffixFacts DEF Left
  <2> QED BY <1>1, <1>5, <2>1, <2>2 DEF Left
<1>6. CASE UNCHANGED <<plats, cases>>
  BY <1>1, <1>6 DEF Left
<1>7. CASE CaseEnds(p)
  <2>1. NextCase(p) /\ plats' = plats
    BY <1>7 DEF CaseEnds, SkipCase, CleanFails, MakeFails, ExportFails, SaveEnd
  <2>2. pc[p] \in {"next", "clean", "compile", "copy", "copying", "saving"}
        /\ (pc[p] = "next" => cases[p] # <<>>)
    BY <1>7 DEF CaseEnds, SkipCase, CleanFails, MakeFails, ExportFails, SaveEnd, At
  <2>3. cases[p] # <<>> /\ plats[p] # <<>>
    BY <1>2, <2>2 DEF TInv, BInv, ProcInv, Building, Inside
  <2> QED BY <1>5, <2>1, <2>3
<1>8. CASE WorkStep(p)
  <2>1. UNCHANGED <<plats, cases>>
    BY <1>8, WorkStepTyped DEF TInv
  <2> QED BY <1>6, <2>1
<1>9. CASE \/ Finish(p) \/ Acquire(p) \/ Crash(p) \/ TruncateRegister(p) \/ Clean(p)
           \/ RemoveLinkOutputs(p) \/ Link(p) \/ CopyStart(p) \/ CopyEnd(p)
  <2>1. UNCHANGED <<plats, cases>>
    BY <1>9 DEF Finish, Acquire, Crash, TruncateRegister, Clean, RemoveLinkOutputs, Link,
       CopyStart, CopyEnd
  <2> QED BY <1>6, <2>1
<1> QED BY <1>3, <1>4, <1>7, <1>8, <1>9 DEF Work, Fails, CaseEnds, WorkStep

LEMMA InitTInv == Init => TInv
<1> SUFFICES ASSUME Init
             PROVE  TInv
  OBVIOUS
<1>1. Rest
  <2>1. <<>> \in Seq(Faults) /\ Len(<<>>) = 0
    OBVIOUS
  <2> QED BY <2>1, JobAssumption, FaultAssumption DEF Init, Rest
<1>2. ASSUME NEW p \in Procs
      PROVE  Left(p)
  <2>1. plats[p] = Jobs[p].plats /\ cases[p] = <<>>
        /\ Jobs[p].plats \in Seq(Platforms) /\ Jobs[p].cases \in Seq(Cases)
    BY JobAssumption DEF Init
  <2> QED BY <2>1, SuffixFacts DEF Left
<1> QED BY <1>1, <1>2, InitBInv DEF TInv

LEMMA StepTInv == TInv /\ [Next]_vars => TInv'
<1> SUFFICES ASSUME TInv, [Next]_vars
             PROVE  TInv'
  OBVIOUS
<1>1. BInv'
  BY StepBInv DEF TInv
<1>2. ASSUME NEW p \in Procs, Work(p) \/ Fails(p)
      PROVE  Rest' /\ \A q \in Procs : Left(q)'
  BY <1>2, RestStep, LeftStep
<1>3. CASE UNCHANGED vars
  <2>1. Rest'
    BY <1>3 DEF vars, disk, work, TInv, Rest
  <2>2. plats' = plats /\ cases' = cases
    BY <1>3 DEF vars, work
  <2>3. \A q \in Procs : Left(q)'
    BY <2>2 DEF TInv, Left
  <2> QED BY <1>1, <2>1, <2>3 DEF TInv
<1> QED BY <1>1, <1>2, <1>3 DEF Next, TInv

\* Every variable keeps its type; what an invocation has still to do is the end
\* of what it was asked for, in that order, and without a platform it has no case.
THEOREM BuildTypes == Spec => []TypeOK
<1>1. TInv => TypeOK
  BY DEF TInv, BInv, Typed, Rest, Left, TypeOK
<1> QED BY <1>1, InitTInv, StepTInv, PTL DEF Spec
-----------------------------------------------------------------------------
(* What a step may touch.                                                  *)

\* A step of p writes what p has in hand: its own variables, the files of its
\* platform while it is inside, the register source of its case.
Wide(p) ==
    /\ \A q \in Procs \ {p} : /\ pc'[q] = pc[q] /\ plats'[q] = plats[q]
                              /\ cases'[q] = cases[q] /\ pending'[q] = pending[q]
                              /\ table'[q] = table[q] /\ loaded'[q] = loaded[q]
    /\ \A l \in Platforms : ~(Inside(p) /\ l = Platform(p)) =>
          /\ objs'[l] = objs[l] /\ linked'[l] = linked[l]
          /\ out'[l] = out[l] /\ names'[l] = names[l]
    /\ \A c \in Cases : ~(Inside(p) /\ cases[p] # <<>> /\ c = Case(p)) =>
          register'[c] = register[c]

LEMMA StepWide ==
    ASSUME TInv, NEW p \in Procs, Work(p) \/ Fails(p)
    PROVE  Wide(p)
<1>1. /\ pc[p] \notin {"start", "done", "dead"} => Platform(p) \in Platforms
      /\ DOMAIN pc = Procs /\ DOMAIN plats = Procs /\ DOMAIN cases = Procs
      /\ DOMAIN pending = Procs /\ DOMAIN table = Procs /\ DOMAIN loaded = Procs
      /\ DOMAIN objs = Platforms /\ DOMAIN linked = Platforms /\ DOMAIN out = Platforms
      /\ DOMAIN names = Platforms /\ DOMAIN register = Cases
      /\ Building(p) => cases[p] # <<>>
  BY PlatformType DEF TInv, BInv, Typed, Rest, ProcInv
<1>2. \A q \in Procs \ {p} : pc'[q] = pc[q]
  <2>1. pc' = pc \/ \E l : GoTo(p, l)
    BY DEF Work, Fails, StartPlatform, Finish, Acquire, Release, SkipCase, NextCase,
       TruncateRegister, WriteRegister, Clean, NoClean, RemoveLinkOutputs, Parse, Reparse,
       Compile, CompileRegister, MakeFails, Link, LoadMap, CopyStart, CopyEnd, SaveStart,
       SaveEnd, CleanFails, ExportFails, Crash, work
  <2> QED BY <1>1, <2>1 DEF GoTo
<1>3. CASE StartPlatform(p) \/ Finish(p) \/ Acquire(p) \/ Release(p) \/ SkipCase(p)
  BY <1>1, <1>2, <1>3 DEF Wide, StartPlatform, Finish, Acquire, Release, SkipCase, NextCase,
     disk
<1>4. CASE TruncateRegister(p) \/ WriteRegister(p)
  BY <1>1, <1>2, <1>4 DEF Wide, TruncateRegister, WriteRegister, At, Inside, Building
<1>5. CASE Clean(p) \/ NoClean(p) \/ RemoveLinkOutputs(p) \/ CleanFails(p)
  BY <1>1, <1>2, <1>5 DEF Wide, Clean, NoClean, RemoveLinkOutputs, CleanFails, NextCase, At,
     Inside, disk
<1>6. CASE Parse(p) \/ Reparse(p) \/ CompileRegister(p)
  BY <1>1, <1>2, <1>6 DEF Wide, Parse, Reparse, CompileRegister, At, Inside, disk
<1>7. ASSUME NEW o \in Objs, Compile(p, o)
      PROVE  Wide(p)
  BY <1>1, <1>2, <1>7 DEF Wide, Compile, At, Inside, work
<1>8. CASE MakeFails(p) \/ Link(p) \/ LoadMap(p)
  BY <1>1, <1>2, <1>8 DEF Wide, MakeFails, NextCase, Link, LoadMap, At, Inside, disk
<1>9. CASE CopyStart(p) \/ CopyEnd(p)
  BY <1>1, <1>2, <1>9 DEF Wide, CopyStart, CopyEnd, At, Inside
<1>10. CASE SaveStart(p) \/ SaveEnd(p) \/ ExportFails(p) \/ Crash(p)
  BY <1>1, <1>2, <1>10 DEF Wide, SaveStart, SaveEnd, ExportFails, NextCase, Crash, At,
     Inside, disk
<1> QED BY <1>3, <1>4, <1>5, <1>6, <1>7, <1>8, <1>9, <1>10 DEF Work, Fails

\* The lock keeps the platforms of two invocations inside apart.
LEMMA TwoPlatforms ==
    ASSUME BInv, NEW p \in Procs, NEW q \in Procs, p # q, Inside(p), Inside(q)
    PROVE  Platform(p) # Platform(q)
BY DEF BInv, ProcInv

\* So what another invocation has in hand stays as it is.
LEMMA InHand ==
    ASSUME BInv, NEW p \in Procs, Wide(p), NEW q \in Procs, q # p
    PROVE  /\ (Inside(q)' <=> Inside(q)) /\ (Building(q)' <=> Building(q))
           /\ pc'[q] = pc[q] /\ pending'[q] = pending[q] /\ table'[q] = table[q]
           /\ loaded'[q] = loaded[q] /\ Platform(q)' = Platform(q) /\ Case(q)' = Case(q)
           /\ Inside(q) => /\ Platform(q) \in Platforms
                           /\ objs'[Platform(q)] = objs[Platform(q)]
                           /\ linked'[Platform(q)] = linked[Platform(q)]
                           /\ out'[Platform(q)] = out[Platform(q)]
                           /\ names'[Platform(q)] = names[Platform(q)]
<1>1. /\ pc'[q] = pc[q] /\ pending'[q] = pending[q] /\ table'[q] = table[q]
      /\ loaded'[q] = loaded[q] /\ plats'[q] = plats[q] /\ cases'[q] = cases[q]
  BY DEF Wide
<1>2. Inside(q)' = Inside(q) /\ Building(q)' = Building(q)
      /\ Platform(q)' = Platform(q) /\ Case(q)' = Case(q)
  BY <1>1 DEF Inside, Building, Platform, Case
<1>3. ASSUME Inside(q)
      PROVE  Platform(q) \in Platforms /\ ~(Inside(p) /\ Platform(q) = Platform(p))
  BY <1>3, PlatformType, TwoPlatforms DEF Inside
<1> QED BY <1>1, <1>2, <1>3 DEF Wide

LEMMA FaultsGrow ==
    ASSUME TInv, NEW p \in Procs, Work(p) \/ Fails(p)
    PROVE  /\ faults' = <<>> => faults = <<>> /\ Work(p)
           /\ ~Happened("clean")' => ~Happened("clean") /\ (Work(p) \/ ExportFails(p) \/ Crash(p))
<1>1. faults \in Seq(Faults)
  BY DEF TInv, Rest
<1>2. ASSUME NEW f, Fault(f)
      PROVE  faults' # <<>> /\ Happened(f)' /\ (Happened("clean") => Happened("clean")')
  <2>1. f \in Faults /\ faults' = Append(faults, f)
    BY <1>2 DEF Fault
  <2>2. /\ Len(faults') = Len(faults) + 1 /\ faults'[Len(faults) + 1] = f
        /\ \A i \in 1 .. Len(faults) : faults'[i] = faults[i]
    BY <1>1, <2>1
  <2>3. Len(faults) \in Nat /\ Len(faults) + 1 \in 1 .. Len(faults')
        /\ \A i \in 1 .. Len(faults) : i \in 1 .. Len(faults')
    BY <1>1, <2>2
  <2>4. faults' # <<>>
    BY <2>2, <2>3
  <2> QED BY <2>2, <2>3, <2>4 DEF Happened
<1>3. CASE Work(p)
  <2>1. faults' = faults
    BY <1>3 DEF Work, StartPlatform, Finish, Acquire, Release, SkipCase, NextCase,
       TruncateRegister, WriteRegister, Clean, NoClean, RemoveLinkOutputs, Parse, Reparse,
       Compile, CompileRegister, MakeFails, Link, LoadMap, CopyStart, CopyEnd, SaveStart,
       SaveEnd
  <2> QED BY <1>3, <2>1 DEF Happened
<1>4. CASE Fails(p)
  <2>1. \/ CleanFails(p) /\ Fault("clean")
        \/ ExportFails(p) /\ Fault("export")
        \/ Crash(p) /\ Fault("crash")
    BY <1>4 DEF Fails, CleanFails, ExportFails, Crash
  <2> QED BY <1>2, <2>1
<1> QED BY <1>3, <1>4

-----------------------------------------------------------------------------
(* The artifact map.                                                       *)

\* The ELF of c is whole, and in N if it is there.
Kept(l, c, N) == out[l][c] # Torn /\ (Exported(l, c) => c \in N)
Whole(l) == names[l] # Torn /\ \A c \in Cases : Kept(l, c, names[l])

\* Only export_case leaves the directory unfinished, and what it has loaded
\* lists the other ELFs of the directory.
MapInv(p) ==
    /\ Inside(p) /\ pc[p] \notin {"copying", "save", "saving"} => Whole(Platform(p))
    /\ pc[p] \in {"copy", "copying", "save", "saving"} =>
          \A c \in Cases \ {Case(p)} : Kept(Platform(p), c, loaded[p])

MInv == faults = <<>> => /\ \A p \in Procs : MapInv(p)
                         /\ \A l \in Platforms : lock[l] = Nothing => Whole(l)

LEMMA MapOthers ==
    ASSUME TInv, NEW p \in Procs, Wide(p), NEW q \in Procs, q # p, MapInv(q)
    PROVE  MapInv(q)'
<1>1. Inside(q) => /\ names'[Platform(q)] = names[Platform(q)]
                   /\ out'[Platform(q)] = out[Platform(q)]
  BY InHand DEF TInv
<1>2. /\ (Inside(q)' <=> Inside(q)) /\ pc'[q] = pc[q] /\ loaded'[q] = loaded[q]
      /\ Platform(q)' = Platform(q) /\ Case(q)' = Case(q)
  BY InHand DEF TInv
<1>3. pc[q] \in {"copy", "copying", "save", "saving"} => Inside(q)
  BY DEF Inside
<1> QED BY <1>1, <1>2, <1>3 DEF MapInv, Whole, Kept, Exported

\* A step that writes neither ELFs nor the map, nor what has been loaded.
LEMMA MapQuiet ==
    ASSUME TInv, NEW p \in Procs, MapInv(p), Inside(p) \/ ~Inside(p)',
           Inside(p)' => plats'[p] = plats[p],
           \/ pc'[p] \notin {"copy", "copying", "save", "saving"}
           \/ pc'[p] = pc[p] /\ cases'[p] = cases[p],
           pc[p] \notin {"copying", "save", "saving"} \/ pc'[p] = pc[p],
           UNCHANGED <<out, names, loaded>>
    PROVE  MapInv(p)'
BY DEF MapInv, Whole, Kept, Exported, Inside, Platform, Case

\* The steps of p by which the map changes, or the right to change it.
MapStep(p) == LoadMap(p) \/ CopyStart(p) \/ CopyEnd(p) \/ SaveStart(p) \/ SaveEnd(p)

LEMMA MapStepInv ==
    ASSUME TInv, NEW p \in Procs, MapInv(p), MapStep(p)
    PROVE  MapInv(p)'
<1> DEFINE l == Platform(p)
           x == Case(p)
<1>0. pc[p] \in {"export", "copy", "copying", "save", "saving"}
  BY DEF MapStep, LoadMap, CopyStart, CopyEnd, SaveStart, SaveEnd, At
<1>1. /\ l \in Platforms /\ x \in Cases /\ Inside(p) /\ plats'[p] = plats[p]
      /\ l' = l
  BY <1>0, PlatformType, CaseType
  DEF TInv, BInv, ProcInv, Building, Inside, MapStep, LoadMap, CopyStart, CopyEnd, SaveStart,
      SaveEnd, Platform
<1>2. /\ DOMAIN out = Platforms /\ DOMAIN out[l] = Cases /\ DOMAIN names = Platforms
      /\ DOMAIN loaded = Procs /\ names[l] \in {Torn} \cup SUBSET Cases
  BY <1>1 DEF TInv, BInv, Typed, Rest
<1>3. CASE LoadMap(p)
  <2>1. /\ pc[p] = "export" /\ pc'[p] = "copy" /\ cases' = cases
        /\ UNCHANGED <<out, names>>
        /\ loaded' = [loaded EXCEPT ![p] = IF names[l] = Torn THEN {} ELSE names[l]]
    BY <1>3, PcStep DEF TInv, BInv, LoadMap, At, disk
  <2>2. Whole(l)
    BY <1>1, <2>1 DEF MapInv
  <2>3. loaded'[p] = names[l] /\ x' = x
    BY <1>2, <2>1, <2>2 DEF Whole, Case
  <2> HIDE DEF l, x
  <2> QED BY <1>1, <2>1, <2>2, <2>3 DEF MapInv, Whole, Kept, Exported, l, x
<1>4. CASE CopyStart(p)
  <2>1. /\ pc[p] = "copy" /\ pc'[p] = "copying" /\ cases' = cases /\ loaded' = loaded
        /\ out' = [out EXCEPT ![l] = [out[l] EXCEPT ![x] = Torn]]
    BY <1>4, PcStep DEF TInv, BInv, CopyStart, At
  <2>2. \A c \in Cases \ {x} : out'[l][c] = out[l][c]
    BY <1>1, <1>2, <2>1
  <2>3. x' = x
    BY <2>1 DEF Case
  <2> QED BY <1>1, <2>1, <2>2, <2>3 DEF MapInv, Kept, Exported
<1>5. CASE CopyEnd(p)
  <2>1. /\ pc[p] = "copying" /\ pc'[p] = "save" /\ cases' = cases /\ loaded' = loaded
        /\ out' = [out EXCEPT ![l] = [out[l] EXCEPT ![x] = linked[l]]]
    BY <1>5, PcStep DEF TInv, BInv, CopyEnd, At
  <2>2. \A c \in Cases \ {x} : out'[l][c] = out[l][c]
    BY <1>1, <1>2, <2>1
  <2>3. x' = x
    BY <2>1 DEF Case
  <2> QED BY <1>1, <2>1, <2>2, <2>3 DEF MapInv, Kept, Exported
<1>6. CASE SaveStart(p)
  <2>1. /\ pc[p] = "save" /\ pc'[p] = "saving" /\ UNCHANGED <<cases, loaded, out>>
    BY <1>6, PcStep DEF TInv, BInv, SaveStart, At
  <2>2. x' = x
    BY <2>1 DEF Case
  <2> QED BY <1>1, <2>1, <2>2 DEF MapInv, Kept, Exported
<1>7. CASE SaveEnd(p)
  <2>1. /\ pc[p] = "saving" /\ pc'[p] = "next" /\ out' = out
        /\ names' = [names EXCEPT ![l] = loaded[p] \cup {x}]
    BY <1>7, PcStep DEF TInv, BInv, SaveEnd, NextCase, At
  <2>2. names'[l] = loaded[p] \cup {x}
    BY <1>1, <1>2, <2>1
  <2>3. By(p, out[l][x])
    BY <2>1 DEF TInv, BInv, ProcInv
  <2>4. \A c \in Cases : Kept(l, c, loaded[p] \cup {x})
    BY <2>1, <2>3, ElfAssumption DEF MapInv, By, Kept, Exported
  <2>5. loaded[p] \cup {x} \in SUBSET Cases
    BY <1>1 DEF TInv, Rest
  <2>6. loaded[p] \cup {x} # Torn
    BY <2>5, ElfAssumption
  <2> QED BY <1>1, <2>1, <2>2, <2>4, <2>6 DEF MapInv, Whole, Kept, Exported
<1> QED BY <1>3, <1>4, <1>5, <1>6, <1>7 DEF MapStep

LEMMA MapWork ==
    ASSUME TInv, NEW p \in Procs, MapInv(p), Work(p),
           \A l \in Platforms : lock[l] = Nothing => Whole(l)
    PROVE  MapInv(p)'
<1>1. CASE MapStep(p)
  BY <1>1, MapStepInv
<1>2. CASE StartPlatform(p) \/ Finish(p) \/ Release(p) \/ SkipCase(p)
  <2>1. /\ pc[p] \in {"start", "next"} /\ pc'[p] \in {"lock", "done", "start", "next"}
        /\ UNCHANGED <<out, names, loaded>>
        /\ pc'[p] = "next" => pc[p] = "next" /\ plats' = plats
    BY <1>2, PcStep DEF TInv, BInv, StartPlatform, Finish, Release, SkipCase, NextCase, At, disk
  <2>2. (Inside(p) \/ ~Inside(p)') /\ (Inside(p)' => plats'[p] = plats[p])
    BY <2>1 DEF Inside
  <2> QED BY <2>1, <2>2, MapQuiet
<1>3. CASE Acquire(p)
  <2>1. /\ pc[p] = "lock" /\ pc'[p] = "next" /\ lock[Platform(p)] = Nothing
        /\ UNCHANGED <<out, names, plats>>
    BY <1>3, PcStep DEF TInv, BInv, Acquire, At
  <2>2. Platform(p) \in Platforms
    BY <2>1, PlatformType DEF TInv
  <2>3. Platform(p)' = Platform(p)
    BY <2>1 DEF Platform
  <2> QED BY <2>1, <2>2, <2>3 DEF MapInv, Whole, Kept, Exported
<1>4. CASE \/ TruncateRegister(p) \/ WriteRegister(p) \/ Clean(p) \/ NoClean(p)
           \/ RemoveLinkOutputs(p) \/ Parse(p) \/ Reparse(p)
           \/ (\E o \in Objs : Compile(p, o)) \/ CompileRegister(p) \/ MakeFails(p) \/ Link(p)
  <2>1. /\ pc[p] \in {"next", "write", "clean", "unlink", "parse", "reparse", "compile"}
        /\ pc'[p] \in {"write", "clean", "unlink", "parse", "reparse", "compile", "next",
                       "export"}
        /\ UNCHANGED <<out, names, loaded, plats>>
    <3>1. CASE TruncateRegister(p) \/ WriteRegister(p) \/ Clean(p) \/ NoClean(p)
      BY <3>1, PcStep DEF TInv, BInv, TruncateRegister, WriteRegister, Clean, NoClean, At, disk
    <3>2. CASE RemoveLinkOutputs(p) \/ Parse(p) \/ Reparse(p)
      BY <3>2, PcStep DEF TInv, BInv, RemoveLinkOutputs, Parse, Reparse, At
    <3>3. CASE (\E o \in Objs : Compile(p, o)) \/ CompileRegister(p)
      BY <3>3 DEF Compile, CompileRegister, At, disk, work
    <3>4. CASE MakeFails(p) \/ Link(p)
      BY <3>4, PcStep DEF TInv, BInv, MakeFails, NextCase, Link, At, disk
    <3> QED BY <1>4, <3>1, <3>2, <3>3, <3>4
  <2>2. Inside(p)
    BY <2>1 DEF Inside
  <2> QED BY <2>1, <2>2, MapQuiet
<1> QED BY <1>1, <1>2, <1>3, <1>4 DEF Work, MapStep

\* Nobody writes to a platform that is free, and one that is given back is whole.
LEMMA MapFree ==
    ASSUME TInv, NEW p \in Procs, MapInv(p), Work(p),
           \A l \in Platforms : lock[l] = Nothing => Whole(l)
    PROVE  \A l \in Platforms : lock'[l] = Nothing => Whole(l)'
<1> SUFFICES ASSUME NEW l \in Platforms, lock'[l] = Nothing
             PROVE  Whole(l)'
  OBVIOUS
<1>0. p # Nothing /\ (Inside(p) => lock[Platform(p)] = p)
  BY CaseAssumption DEF TInv, BInv, ProcInv
<1>1. CASE lock[l] = Nothing
  <2>1. out'[l] = out[l] /\ names'[l] = names[l]
    BY <1>0, <1>1, StepWide DEF Wide
  <2> QED BY <1>1, <2>1 DEF Whole, Kept, Exported
<1>2. CASE lock[l] # Nothing
  <2>1. Release(p) \/ Acquire(p) \/ lock' = lock
    BY DEF Work, StartPlatform, Finish, SkipCase, TruncateRegister, WriteRegister, Clean,
       NoClean, RemoveLinkOutputs, Parse, Reparse, Compile, CompileRegister, MakeFails,
       Link, LoadMap, CopyStart, CopyEnd, SaveStart, SaveEnd, disk
  <2>2. DOMAIN lock = Platforms
    BY DEF TInv, BInv, Typed
  <2>3. Release(p) /\ l = Platform(p)
    BY <1>0, <1>2, <2>1, <2>2 DEF Release, Acquire
  <2>4. pc[p] = "next" /\ UNCHANGED <<out, names>>
    BY <2>3 DEF Release, At
  <2> QED BY <2>3, <2>4 DEF MapInv, Inside, Whole, Kept, Exported
<1> QED BY <1>1, <1>2

LEMMA StepMInv == TInv /\ MInv /\ [Next]_vars => MInv'
<1> SUFFICES ASSUME TInv, MInv, [Next]_vars
             PROVE  MInv'
  OBVIOUS
<1>1. ASSUME NEW p \in Procs, Work(p) \/ Fails(p), faults' = <<>>
      PROVE  /\ \A q \in Procs : MapInv(q)'
             /\ \A l \in Platforms : lock'[l] = Nothing => Whole(l)'
  <2>1. Work(p) /\ (\A q \in Procs : MapInv(q))
        /\ \A l \in Platforms : lock[l] = Nothing => Whole(l)
    BY <1>1, FaultsGrow DEF MInv
  <2>2. \A q \in Procs : q # p => MapInv(q)'
    BY <1>1, <2>1, StepWide, MapOthers
  <2> QED BY <2>1, <2>2, MapWork, MapFree
<1>2. CASE UNCHANGED vars
  BY <1>2 DEF vars, disk, work, MInv, MapInv, Whole, Kept, Exported, Inside, Platform, Case
<1> QED BY <1>1, <1>2 DEF Next, MInv

\* As long as no step has failed and no process has been killed, each platform
\* that nobody builds for has whole ELFs only, and its artifact map lists all of
\* them: however many invocations have exported there in turn.
THEOREM MapAlwaysComplete == Spec => []MapComplete
<1>1. Init => MInv
  <2>1. ASSUME Init
        PROVE  MInv
    <3>1. ASSUME NEW l \in Platforms
          PROVE  Whole(l)
      <4>1. names[l] = {} /\ \A c \in Cases : out[l][c] = Nothing
        BY <2>1 DEF Init
      <4>2. {} # Torn /\ Nothing # Torn
        BY ElfAssumption
      <4> QED BY <4>1, <4>2 DEF Whole, Kept, Exported
    <3>2. ASSUME NEW p \in Procs
          PROVE  MapInv(p)
      BY <2>1 DEF Init, MapInv, Inside
    <3> QED BY <3>1, <3>2 DEF MInv
  <2> QED BY <2>1
<1>2. MInv => MapComplete
  BY DEF MInv, MapComplete, Whole, Kept
<1> QED BY <1>1, <1>2, InitTInv, StepTInv, StepMInv, PTL DEF Spec

-----------------------------------------------------------------------------
(* --clean.                                                                *)

\* After its make clean an invocation finds no object but its own, for nobody
\* else compiles on the platform; before it, it has linked nothing.
CleanInv(p) ==
    /\ pc[p] = "lock" => pending[p] = Jobs[p].clean
    /\ Building(p) /\ pc[p] \notin {"write", "clean"} => ~pending[p]
    /\ Inside(p) /\ Jobs[p].clean /\ ~pending[p] =>
          \A o \in Objs : objs[Platform(p)][o] \in {Nothing, FlagsOf(p)}
    /\ pc[p] \in {"export", "copy", "copying"} /\ Jobs[p].clean =>
          linked[Platform(p)].flags = {FlagsOf(p)}

CInv == /\ \A p \in Procs : ~Happened("clean") => CleanInv(p)
        /\ CleanMeansOwn

LEMMA CleanOthers ==
    ASSUME TInv, NEW p \in Procs, Wide(p), NEW q \in Procs, q # p, CleanInv(q)
    PROVE  CleanInv(q)'
<1>1. /\ (Inside(q)' <=> Inside(q)) /\ (Building(q)' <=> Building(q))
      /\ pc'[q] = pc[q] /\ pending'[q] = pending[q] /\ Platform(q)' = Platform(q)
      /\ Inside(q) => /\ objs'[Platform(q)] = objs[Platform(q)]
                      /\ linked'[Platform(q)] = linked[Platform(q)]
  BY InHand DEF TInv
<1>2. pc[q] \in {"export", "copy", "copying"} => Inside(q)
  BY DEF Inside
<1> QED BY <1>1, <1>2 DEF CleanInv, FlagsOf

\* Steps that write neither objects nor ELFs of the platform.
LEMMA CleanQuiet ==
    ASSUME TInv, NEW p \in Procs, CleanInv(p), Inside(p), plats'[p] = plats[p],
           UNCHANGED <<objs, linked>>, pending'[p] = pending[p],
           pc[p] \in {"write", "clean"} /\ pending[p] =>
              pc'[p] \in {"write", "clean", "next"},
           pc[p] = "next" => pc'[p] \in {"next", "write"}, pc'[p] # "lock",
           pc'[p] \in {"export", "copy", "copying"} =>
              pc[p] \in {"export", "copy", "copying"}
    PROVE  CleanInv(p)'
<1>1. Platform(p)' = Platform(p)
  BY DEF Platform
<1> QED BY <1>1 DEF CleanInv, Building, Inside, FlagsOf

\* Steps that change objects, ELFs or clean_pending.
LEMMA CleanChanges ==
    ASSUME TInv, NEW p \in Procs, CleanInv(p),
           \/ Clean(p) \/ RemoveLinkOutputs(p) \/ Reparse(p)
           \/ (\E o \in Objs : Compile(p, o)) \/ Link(p)
    PROVE  CleanInv(p)'
<1> DEFINE l == Platform(p)
<1>1. pc[p] \in {"clean", "unlink", "reparse", "compile"}
  BY DEF Clean, RemoveLinkOutputs, Reparse, Compile, Link, At
<1>2. /\ Inside(p) /\ Building(p) /\ l \in Platforms /\ Case(p) \in Cases
      /\ plats' = plats /\ l' = l
  BY <1>1, PlatformType, CaseType DEF TInv, BInv, ProcInv, Building, Inside, Clean,
     RemoveLinkOutputs, Reparse, Compile, Link, Platform, work
<1>3. /\ objs \in [Platforms -> [Objs -> Flags \cup {Nothing}]]
      /\ DOMAIN linked = Platforms /\ DOMAIN pending = Procs
  BY DEF TInv, BInv, Typed, Rest
<1>4. CASE Clean(p)
  <2>1. /\ pc'[p] = "unlink" /\ pending' = [pending EXCEPT ![p] = FALSE]
        /\ objs' = [objs EXCEPT ![l] = [o \in Objs |-> Nothing]]
    BY <1>4, PcStep DEF TInv, BInv, Clean
  <2>2. \A o \in Objs : objs'[l][o] = Nothing
    BY <1>2, <1>3, <2>1
  <2> QED BY <1>2, <1>3, <2>1, <2>2 DEF CleanInv
<1>5. CASE RemoveLinkOutputs(p)
  <2>1. pc[p] = "unlink" /\ pc'[p] = "parse" /\ UNCHANGED <<objs, pending>>
    BY <1>5, PcStep DEF TInv, BInv, RemoveLinkOutputs, At
  <2> QED BY <1>2, <2>1 DEF CleanInv, FlagsOf
<1>6. CASE Reparse(p)
  <2>1. /\ pc[p] = "reparse" /\ pc'[p] = "compile" /\ UNCHANGED <<pending, linked>>
        /\ objs' = objs \/ objs' = [objs EXCEPT ![l] = [o \in Objs |-> Nothing]]
    BY <1>6, PcStep DEF TInv, BInv, Reparse, At
  <2>2. \/ objs'[l] = objs[l]
        \/ \A o \in Objs : objs'[l][o] = Nothing
    BY <1>2, <1>3, <2>1
  <2> QED BY <1>2, <2>1, <2>2 DEF CleanInv, FlagsOf
<1>7. ASSUME NEW o \in Objs, Compile(p, o)
      PROVE  CleanInv(p)'
  <2>1. /\ pc[p] = "compile" /\ pc' = pc /\ UNCHANGED <<pending, linked>>
        /\ objs' = [objs EXCEPT ![l] = [objs[l] EXCEPT ![o] = FlagsOf(p)]]
    BY <1>7 DEF Compile, At, work
  <2>2. \A x \in Objs : objs'[l][x] \in {objs[l][x], FlagsOf(p)}
    BY <1>2, <1>3, <2>1
  <2> QED BY <1>2, <2>1, <2>2 DEF CleanInv, FlagsOf
<1>8. CASE Link(p)
  <2> DEFINE flags == {objs[l][o] : o \in Parts(Case(p))}
  <2>1. /\ pc[p] = "compile" /\ pc'[p] = "export" /\ UNCHANGED <<pending, objs>>
        /\ Missing(p) = {}
    BY <1>8, PcStep DEF TInv, BInv, Link, At
  <2>2. linked'[l].flags = flags
    BY <1>2, <1>3, <1>8 DEF Link
  <2>3. Parts(Case(p)) \subseteq Objs /\ "core" \in Parts(Case(p))
    BY <1>2 DEF Parts, Objs, Tables, Backend
  <2>4. \A o \in Parts(Case(p)) : objs[l][o] # Nothing
    BY <2>1 DEF Missing
  <2>5. ASSUME Jobs[p].clean
        PROVE  flags = {FlagsOf(p)}
    <3>1. \A o \in Parts(Case(p)) : objs[l][o] = FlagsOf(p)
      BY <1>2, <2>1, <2>3, <2>4, <2>5 DEF CleanInv
    <3> QED BY <2>3, <3>1
  <2> HIDE DEF flags
  <2> QED BY <1>2, <2>1, <2>2, <2>5 DEF CleanInv, FlagsOf
<1> QED BY <1>4, <1>5, <1>6, <1>7, <1>8

LEMMA CleanStep ==
    ASSUME TInv, NEW p \in Procs, CleanInv(p), Work(p) \/ ExportFails(p) \/ Crash(p)
    PROVE  CleanInv(p)'
<1>1. CASE StartPlatform(p) \/ Finish(p) \/ Release(p) \/ Crash(p)
  <2>1. /\ pc'[p] \in {"lock", "done", "start", "dead"}
        /\ pc'[p] = "lock" => pending' = [pending EXCEPT ![p] = Jobs[p].clean]
        /\ DOMAIN pending = Procs
    BY <1>1, PcStep DEF TInv, BInv, Rest, StartPlatform, Finish, Release, Crash
  <2> QED BY <2>1 DEF CleanInv, Building, Inside
<1>2. CASE Acquire(p)
  <2>1. pc[p] = "lock" /\ pc'[p] = "next" /\ pending' = pending
    BY <1>2, PcStep DEF TInv, BInv, Acquire, At
  <2>2. pending[p] = Jobs[p].clean
    BY <2>1 DEF CleanInv
  <2> QED BY <2>1, <2>2 DEF CleanInv, Building
<1>3. CASE \/ Clean(p) \/ RemoveLinkOutputs(p) \/ Reparse(p)
           \/ (\E o \in Objs : Compile(p, o)) \/ Link(p)
  BY <1>3, CleanChanges
<1>4. CASE \/ SkipCase(p) \/ TruncateRegister(p) \/ WriteRegister(p) \/ NoClean(p)
           \/ Parse(p) \/ CompileRegister(p) \/ MakeFails(p)
  <2>1. /\ pc[p] \in {"next", "write", "clean", "parse", "compile"}
        /\ pc[p] = "next" => pc'[p] \in {"next", "write"}
        /\ pc[p] = "write" => pc'[p] = "clean"
        /\ pc[p] = "clean" => ~pending[p]
        /\ pc'[p] \notin {"export", "copy", "copying", "lock"}
        /\ UNCHANGED <<objs, linked, plats, pending>>
    <3>1. CASE SkipCase(p) \/ TruncateRegister(p) \/ WriteRegister(p) \/ NoClean(p)
      BY <3>1, PcStep DEF TInv, BInv, SkipCase, NextCase, TruncateRegister, WriteRegister,
         NoClean, At, disk
    <3>2. CASE Parse(p) \/ CompileRegister(p) \/ MakeFails(p)
      BY <3>2, PcStep DEF TInv, BInv, Parse, CompileRegister, MakeFails, NextCase, At, disk
    <3> QED BY <1>4, <3>1, <3>2
  <2>2. Inside(p)
    BY <2>1 DEF Inside
  <2> QED BY <2>1, <2>2, CleanQuiet
<1>5. CASE LoadMap(p) \/ CopyStart(p) \/ CopyEnd(p) \/ SaveStart(p) \/ SaveEnd(p)
           \/ ExportFails(p)
  <2>1. /\ pc[p] \in {"export", "copy", "copying", "save", "saving"}
        /\ pc'[p] \in {"export", "copy", "copying"} => pc[p] \in {"export", "copy", "copying"}
        /\ pc'[p] # "lock"
        /\ UNCHANGED <<objs, linked, plats, pending>>
    BY <1>5, PcStep DEF TInv, BInv, LoadMap, CopyStart, CopyEnd, SaveStart, SaveEnd,
       ExportFails, NextCase, At, disk
  <2>2. Inside(p)
    BY <2>1 DEF Inside
  <2> QED BY <2>1, <2>2, CleanQuiet
<1> QED BY <1>1, <1>2, <1>3, <1>4, <1>5 DEF Work

\* Only CopyEnd adds an ELF.
LEMMA NewElf ==
    ASSUME TInv, NEW p \in Procs, Work(p) \/ Fails(p), ~CopyEnd(p),
           NEW l \in Platforms, NEW c \in Cases, Exported(l, c)'
    PROVE  Exported(l, c) /\ out'[l][c] = out[l][c]
<1>1. CASE CopyStart(p)
  <2>1. pc[p] = "copy"
    BY <1>1 DEF CopyStart, At
  <2>2. Platform(p) \in Platforms /\ Case(p) \in Cases
    BY <2>1, PlatformType, CaseType DEF TInv, BInv, ProcInv, Building, Inside
  <2>3. out' = [out EXCEPT ![Platform(p)] = [out[Platform(p)] EXCEPT ![Case(p)] = Torn]]
    BY <1>1 DEF CopyStart
  <2>4. DOMAIN out = Platforms /\ DOMAIN out[l] = Cases
    BY DEF TInv, BInv, Typed
  <2>5. out'[l][c] \in {out[l][c], Torn}
    BY <2>2, <2>3, <2>4
  <2> QED BY <2>5 DEF Exported
<1>2. CASE ~CopyStart(p)
  <2>1. out' = out
    BY <1>2 DEF Work, Fails, StartPlatform, Finish, Acquire, Release, SkipCase,
       TruncateRegister, WriteRegister, Clean, NoClean, RemoveLinkOutputs, Parse, Reparse,
       Compile, CompileRegister, MakeFails, Link, LoadMap, SaveStart, SaveEnd, CleanFails,
       ExportFails, Crash, disk
  <2> QED BY <2>1 DEF Exported
<1> QED BY <1>1, <1>2

\* The ELF that CopyEnd adds is the one that p has linked.
LEMMA CopiedElf ==
    ASSUME TInv, NEW p \in Procs, CopyEnd(p), NEW l \in Platforms, NEW c \in Cases,
           Exported(l, c)'
    PROVE  \/ Exported(l, c) /\ out'[l][c] = out[l][c]
           \/ l = Platform(p) /\ c = Case(p) /\ out'[l][c] = linked[l] /\ By(p, linked[l])
<1>1. pc[p] = "copying"
  BY DEF CopyEnd, At
<1>2. /\ Platform(p) \in Platforms /\ Case(p) \in Cases /\ By(p, linked[Platform(p)])
      /\ DOMAIN out = Platforms /\ DOMAIN out[l] = Cases
  BY <1>1, PlatformType, CaseType DEF TInv, BInv, Typed, ProcInv, Building, Inside
<1>3. out' = [out EXCEPT ![Platform(p)] =
                 [out[Platform(p)] EXCEPT ![Case(p)] = linked[Platform(p)]]]
  BY DEF CopyEnd
<1>4. \/ out'[l][c] = out[l][c]
      \/ l = Platform(p) /\ c = Case(p) /\ out'[l][c] = linked[l]
  BY <1>2, <1>3
<1> QED BY <1>2, <1>4 DEF Exported

LEMMA StepCInv == TInv /\ CInv /\ [Next]_vars => CInv'
<1> SUFFICES ASSUME TInv, CInv, [Next]_vars
             PROVE  CInv'
  OBVIOUS
<1>1. ASSUME NEW p \in Procs, Work(p) \/ Fails(p), ~Happened("clean")'
      PROVE  /\ \A q \in Procs : CleanInv(q)'
             /\ \A l \in Platforms, c \in Cases :
                   Exported(l, c)' /\ Jobs[out'[l][c].by].clean =>
                      out'[l][c].flags = {FlagsOf(out'[l][c].by)}
  <2>1. /\ ~Happened("clean") /\ (Work(p) \/ ExportFails(p) \/ Crash(p))
        /\ \A q \in Procs : CleanInv(q)
    BY <1>1, FaultsGrow DEF CInv
  <2>2. \A q \in Procs : CleanInv(q)'
    BY <1>1, <2>1, StepWide, CleanOthers, CleanStep
  <2>3. ASSUME NEW l \in Platforms, NEW c \in Cases, Exported(l, c)',
               Jobs[out'[l][c].by].clean
        PROVE  out'[l][c].flags = {FlagsOf(out'[l][c].by)}
    <3>1. CASE Exported(l, c) /\ out'[l][c] = out[l][c]
      BY <2>1, <2>3, <3>1 DEF CInv, CleanMeansOwn
    <3>2. CASE ~CopyEnd(p)
      BY <1>1, <2>3, <3>1, <3>2, NewElf
    <3>3. CASE CopyEnd(p) /\ l = Platform(p) /\ c = Case(p) /\ out'[l][c] = linked[l]
               /\ By(p, linked[l])
      <4>1. pc[p] = "copying"
        BY <3>3 DEF CopyEnd, At
      <4> QED BY <2>1, <2>3, <3>3, <4>1 DEF CleanInv, By
    <3> QED BY <2>3, <3>1, <3>2, <3>3, CopiedElf
  <2> QED BY <2>2, <2>3
<1>2. CASE UNCHANGED vars
  BY <1>2 DEF vars, disk, work, CInv, CleanInv, CleanMeansOwn, Happened, Exported, Inside,
     Building, Platform, FlagsOf
<1>3. CASE Next
  <2>1. \A q \in Procs : ~Happened("clean")' => CleanInv(q)'
    BY <1>1, <1>3 DEF Next
  <2>2. CleanMeansOwn'
    BY <1>1, <1>3 DEF Next, CleanMeansOwn, FlagsOf
  <2> QED BY <2>1, <2>2 DEF CInv
<1> QED BY <1>2, <1>3

\* As long as no make clean has failed, an ELF of an invocation with --clean is
\* made of objects with its own flags only, whatever was compiled on the platform
\* before and whoever dies in between.
THEOREM CleanAlwaysOwn == Spec => []CleanMeansOwn
<1>1. Init => CInv
  <2>1. ASSUME Init
        PROVE  CInv
    <3>1. \A p \in Procs : CleanInv(p)
      BY <2>1 DEF Init, CleanInv, Building, Inside
    <3>2. \A l \in Platforms, c \in Cases : ~Exported(l, c)
      BY <2>1 DEF Init, Exported
    <3> QED BY <3>1, <3>2 DEF CInv, CleanMeansOwn
  <2> QED BY <2>1
<1>2. CInv => CleanMeansOwn
  BY DEF CInv
<1> QED BY <1>1, <1>2, InitTInv, StepTInv, StepCInv, PTL DEF Spec

-----------------------------------------------------------------------------
(* The case an ELF registers.                                              *)

\* The register source is per case and the lock per platform: two invocations are
\* kept apart if they have no case in common, or only one platform between them.
Apart ==
    \A p, q \in Procs : p # q =>
        \/ \A i \in 1 .. Len(Jobs[p].cases), j \in 1 .. Len(Jobs[q].cases) :
              Jobs[p].cases[i] # Jobs[q].cases[j]
        \/ \A i \in 1 .. Len(Jobs[p].plats), j \in 1 .. Len(Jobs[q].plats) :
              Jobs[p].plats[i] = Jobs[q].plats[j]

\* From write_register on, the register source, its object and the ELF linked
\* from it are those of the case in hand.
OwnInv(p) ==
    /\ pc[p] \in {"clean", "unlink", "parse", "reparse", "compile"} =>
          register[Case(p)] = "full"
    /\ pc[p] = "compile" => table[p] \in {Stale, Case(p)}
    /\ pc[p] \in {"export", "copy", "copying"} => linked[Platform(p)].test = Case(p)

OInv == (\A p \in Procs : OwnInv(p)) /\ OwnElf

\* Two invocations that are inside and apart have different cases in hand.
LEMMA TwoCases ==
    ASSUME TInv, Apart, NEW p \in Procs, NEW q \in Procs, p # q,
           Inside(p), Inside(q), cases[p] # <<>>, cases[q] # <<>>
    PROVE  Case(p) # Case(q)
<1>1. ASSUME NEW r \in Procs, Inside(r), cases[r] # <<>>
      PROVE  /\ \E i \in 1 .. Len(Jobs[r].cases) : Jobs[r].cases[i] = Case(r)
             /\ \E i \in 1 .. Len(Jobs[r].plats) : Jobs[r].plats[i] = Platform(r)
  <2>1. /\ cases[r] \in Seq(Cases) /\ plats[r] \in Seq(Platforms) /\ plats[r] # <<>>
        /\ IsSuffix(cases[r], Jobs[r].cases) /\ IsSuffix(plats[r], Jobs[r].plats)
    BY <1>1 DEF TInv, BInv, Typed, ProcInv, Inside, Left
  <2>2. Jobs[r].cases \in Seq(Cases) /\ Jobs[r].plats \in Seq(Platforms)
    BY JobAssumption
  <2>3. \E i \in 1 .. Len(Jobs[r].cases) : Jobs[r].cases[i] = Head(cases[r])
    BY <1>1, <2>1, <2>2, HeadOfSuffix
  <2>4. \E i \in 1 .. Len(Jobs[r].plats) : Jobs[r].plats[i] = Head(plats[r])
    BY <2>1, <2>2, HeadOfSuffix
  <2> QED BY <2>3, <2>4 DEF Case, Platform
<1>2. Platform(p) # Platform(q)
  BY TwoPlatforms DEF TInv
<1>3. PICK i \in 1 .. Len(Jobs[p].cases), j \in 1 .. Len(Jobs[q].cases) :
         Jobs[p].cases[i] = Case(p) /\ Jobs[q].cases[j] = Case(q)
  BY <1>1
<1>4. PICK k \in 1 .. Len(Jobs[p].plats), m \in 1 .. Len(Jobs[q].plats) :
         Jobs[p].plats[k] = Platform(p) /\ Jobs[q].plats[m] = Platform(q)
  BY <1>1
<1>5. Jobs[p].plats[k] # Jobs[q].plats[m]
  BY <1>2, <1>4
<1>6. \A a \in 1 .. Len(Jobs[p].cases), b \in 1 .. Len(Jobs[q].cases) :
         Jobs[p].cases[a] # Jobs[q].cases[b]
  BY <1>5 DEF Apart
<1>7. Jobs[p].cases[i] # Jobs[q].cases[j]
  BY <1>6
<1> QED BY <1>3, <1>7

LEMMA OwnOthers ==
    ASSUME TInv, Apart, NEW p \in Procs, Wide(p), NEW q \in Procs, q # p, OwnInv(q)
    PROVE  OwnInv(q)'
<1>1. /\ pc'[q] = pc[q] /\ table'[q] = table[q] /\ Platform(q)' = Platform(q)
      /\ Case(q)' = Case(q)
      /\ Inside(q) => linked'[Platform(q)] = linked[Platform(q)]
  BY InHand DEF TInv
<1>2. pc[q] \in {"clean", "unlink", "parse", "reparse", "compile", "export", "copy", "copying"}
         => Inside(q) /\ cases[q] # <<>> /\ Case(q) \in Cases
  BY CaseType DEF TInv, BInv, ProcInv, Building, Inside
<1>3. pc[q] \in {"clean", "unlink", "parse", "reparse", "compile"} =>
         register'[Case(q)] = register[Case(q)]
  BY <1>2, TwoCases DEF Wide
<1> QED BY <1>1, <1>2, <1>3 DEF OwnInv

LEMMA OwnStep ==
    ASSUME TInv, NEW p \in Procs, OwnInv(p), Work(p) \/ Fails(p)
    PROVE  OwnInv(p)'
<1>1. Building(p) => /\ cases[p] # <<>> /\ Case(p) \in Cases /\ Platform(p) \in Platforms
  BY PlatformType, CaseType DEF TInv, BInv, ProcInv, Building, Inside
<1>2. /\ DOMAIN register = Cases /\ DOMAIN table = Procs /\ DOMAIN linked = Platforms
  BY DEF TInv, BInv, Typed, Rest
<1>3. CASE WriteRegister(p)
  <2>1. /\ pc[p] = "write" /\ pc'[p] = "clean" /\ cases' = cases
        /\ register' = [register EXCEPT ![Case(p)] = "full"]
    BY <1>3, PcStep DEF TInv, BInv, WriteRegister, At
  <2>2. Case(p)' = Case(p) /\ Case(p) \in Cases
    BY <1>1, <2>1 DEF Case, Building, Inside
  <2> QED BY <1>2, <2>1, <2>2 DEF OwnInv
<1>4. CASE Clean(p) \/ NoClean(p) \/ RemoveLinkOutputs(p) \/ Parse(p)
  <2>1. /\ pc[p] \in {"clean", "unlink", "parse"} /\ pc'[p] \in {"unlink", "parse", "reparse"}
        /\ UNCHANGED <<cases, register>>
    BY <1>4, PcStep DEF TInv, BInv, Clean, NoClean, RemoveLinkOutputs, Parse, At, disk
  <2>2. Case(p)' = Case(p)
    BY <2>1 DEF Case
  <2> QED BY <2>1, <2>2 DEF OwnInv
<1>5. CASE Reparse(p) \/ (\E o \in Objs : Compile(p, o)) \/ CompileRegister(p)
  <2>1. /\ pc[p] \in {"reparse", "compile"} /\ pc'[p] = "compile"
        /\ UNCHANGED <<cases, register>>
    BY <1>5, PcStep DEF TInv, BInv, Reparse, Compile, CompileRegister, At, disk, work
  <2>2. Case(p)' = Case(p)
    BY <2>1 DEF Case
  <2>3. register[Case(p)] = "full"
    BY <2>1 DEF OwnInv
  <2>4. table'[p] \in {Stale, Case(p)}
    <3>1. CASE Reparse(p)
      BY <1>2, <3>1 DEF Reparse
    <3>2. ASSUME NEW o \in Objs, Compile(p, o)
          PROVE  table'[p] \in {Stale, Case(p)}
      BY <3>2 DEF Compile, work, OwnInv, At
    <3>3. CASE CompileRegister(p)
      BY <1>2, <2>3, <3>3 DEF CompileRegister
    <3> QED BY <1>5, <3>1, <3>2, <3>3
  <2> QED BY <2>1, <2>2, <2>3, <2>4 DEF OwnInv
<1>6. CASE Link(p)
  <2>1. /\ pc[p] = "compile" /\ pc'[p] = "export" /\ UNCHANGED <<cases, plats>>
        /\ table[p] # Stale
        /\ linked' = [linked EXCEPT ![Platform(p)] =
              [test |-> table[p], by |-> p,
               flags |-> {objs[Platform(p)][o] : o \in Parts(Case(p))}]]
    BY <1>6, PcStep DEF TInv, BInv, Link, At
  <2>2. Case(p)' = Case(p) /\ Platform(p)' = Platform(p) /\ Platform(p) \in Platforms
    BY <1>1, <2>1 DEF Case, Platform, Building, Inside
  <2>3. table[p] = Case(p)
    BY <2>1 DEF OwnInv
  <2> QED BY <1>2, <2>1, <2>2, <2>3 DEF OwnInv
<1>7. CASE LoadMap(p) \/ CopyStart(p)
  <2>1. /\ pc[p] \in {"export", "copy"} /\ pc'[p] \in {"copy", "copying"}
        /\ UNCHANGED <<cases, plats, linked>>
    BY <1>7, PcStep DEF TInv, BInv, LoadMap, CopyStart, At, disk
  <2>2. Case(p)' = Case(p) /\ Platform(p)' = Platform(p)
    BY <2>1 DEF Case, Platform
  <2> QED BY <2>1, <2>2 DEF OwnInv
<1>8. CASE \/ StartPlatform(p) \/ Finish(p) \/ Acquire(p) \/ Release(p) \/ TruncateRegister(p)
           \/ CaseEnds(p) \/ CopyEnd(p) \/ SaveStart(p) \/ Crash(p)
  <2>1. pc'[p] \in {"lock", "done", "next", "start", "write", "save", "saving", "dead"}
    BY <1>8, PcStep DEF TInv, BInv, StartPlatform, Finish, Acquire, Release, TruncateRegister,
       CaseEnds, SkipCase, CleanFails, MakeFails, ExportFails, SaveEnd, NextCase, CopyEnd,
       SaveStart, Crash
  <2> QED BY <2>1 DEF OwnInv
<1> QED BY <1>3, <1>4, <1>5, <1>6, <1>7, <1>8 DEF Work, Fails, CaseEnds

LEMMA StepOInv == ASSUME Apart PROVE TInv /\ OInv /\ [Next]_vars => OInv'
<1> SUFFICES ASSUME TInv, OInv, [Next]_vars
             PROVE  OInv'
  OBVIOUS
<1>1. ASSUME NEW p \in Procs, Work(p) \/ Fails(p)
      PROVE  OInv'
  <2>1. \A q \in Procs : OwnInv(q)'
    BY <1>1, StepWide, OwnOthers, OwnStep DEF OInv
  <2>2. ASSUME NEW l \in Platforms, NEW c \in Cases, Exported(l, c)'
        PROVE  out'[l][c].test = c
    <3>1. CASE Exported(l, c) /\ out'[l][c] = out[l][c]
      BY <3>1 DEF OInv, OwnElf
    <3>2. CASE ~CopyEnd(p)
      BY <1>1, <2>2, <3>1, <3>2, NewElf
    <3>3. CASE CopyEnd(p) /\ l = Platform(p) /\ c = Case(p) /\ out'[l][c] = linked[l]
      <4>1. pc[p] = "copying"
        BY <3>3 DEF CopyEnd, At
      <4> QED BY <3>3, <4>1 DEF OInv, OwnInv
    <3> QED BY <2>2, <3>1, <3>2, <3>3, CopiedElf
  <2> QED BY <2>1, <2>2 DEF OInv, OwnElf
<1>2. CASE UNCHANGED vars
  BY <1>2 DEF vars, disk, work, OInv, OwnInv, OwnElf, Exported, Platform, Case
<1> QED BY <1>1, <1>2 DEF Next

\* Invocations that are apart export under each name the ELF that registers this
\* case, through every failure and death.  The hypothesis is needed: the run
\* shared_register shows what two invocations do that have a case in common and
\* two platforms.
THEOREM ElfAlwaysOwn == ASSUME Apart PROVE Spec => []OwnElf
<1>1. Init => OInv
  <2>1. ASSUME Init
        PROVE  OInv
    <3>1. \A p \in Procs : OwnInv(p)
      BY <2>1 DEF Init, OwnInv
    <3>2. \A l \in Platforms, c \in Cases : ~Exported(l, c)
      BY <2>1 DEF Init, Exported
    <3> QED BY <3>1, <3>2 DEF OInv, OwnElf
  <2> QED BY <2>1
<1>2. OInv => OwnElf
  BY DEF OInv
<1> QED BY <1>1, <1>2, InitTInv, StepTInv, StepOInv, PTL DEF Spec

=============================================================================
