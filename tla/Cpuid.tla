-------------------------------- MODULE Cpuid -------------------------------
(***************************************************************************)
(* x86cpuid() (hardware/x86cpuid.c), run on the processor being described: *)
(* vendor, signature and topology, then the caches and TLBs the vendor's   *)
(* leaves report, the brand name and the place.  Each cache and TLB is     *)
(* inserted into a sorted array that is reallocated for it; the caller     *)
(* releases what there is when the description fails.                      *)
(*                                                                         *)
(* A processor is what CPUID answers, field by field: the record of        *)
(* X86Topology with sig, the fields of leaf 1's EAX; leaf4, the subleaves  *)
(* before the null one; leaf2, its call count and four registers; maxex,   *)
(* the highest extended leaf less 0x80000000; lme and gbpt; amd5, amd6 and *)
(* amd19, the registers of those extended leaves; and the brand.  Fields   *)
(* hold what the register holds, before the decoding below.                *)
(***************************************************************************)
EXTENDS X86Topology, IntelDescriptors, Sequences, FiniteSets, SequencesExt

CONSTANTS
    Processors   \* what CPUID may answer

VARIABLES
    pc,     \* where x86cpuid() is, or how it ended
    proc,   \* the processor
    cpu,    \* torque_cput: topology, memdescs, tlbdescs, the blocks it points to
    level,  \* id_intel_caches(): level looked for
    maxdc,  \* its highest level seen
    sub,    \* its next subleaf
    todo,   \* reports still to be handled, in the order of the code
    live    \* blocks allocated and not freed

vars == <<pc, proc, cpu, level, maxdc, sub, todo, live>>

StandardCpuconf == 2

\* The fields of the registers are unsigned; leaf4 stops at the null subleaf
Halves == [da : Nat, de : Nat, ia : Nat, ie : Nat]
L1Registers == [kib : Nat, assoc : Nat, line : Nat]
L23Registers == [size : Nat, assoc : Nat, line : Nat]
Subleaves == [type : Nat \ {0}, level : Nat, direct : BOOLEAN, ways : Nat, parts : Nat, line : Nat,
              sets : Nat, shared : Nat, cores : Nat]

ASSUME ProcessorsAssumption ==
    \A p \in Processors :
        /\ p.max \in Nat /\ p.logical \in Nat /\ p.logical < 256
        /\ p.vendor = "intel" =>
              /\ p.leaf4 \in Seq(Subleaves)
              /\ p.b[0].count \in Nat /\ p.b[1].count \in Nat
        /\ p.vendor = "amd" =>
              /\ {p.amd5.eax, p.amd5.ebx, p.amd6.eax, p.amd6.ebx, p.amd19.eax, p.amd19.ebx} \subseteq Halves
              /\ {p.amd5.ecx, p.amd5.edx} \subseteq L1Registers
              /\ {p.amd6.ecx, p.amd6.edx} \subseteq L23Registers

\* A torque_memt or a torque_tlbt.  size and unit are total size and line
\* size, or page size and entries: the fields in the order they compare.
Desc(lev, type, size, unit, assoc, shared) ==
    [level |-> lev, type |-> type, size |-> size, unit |-> unit, assoc |-> assoc, shared |-> shared]

\* compare_memdetails(), compare_tlbdetails(): sharing is not looked at
Key(d) == <<d.level, d.type, d.size, d.unit, d.assoc>>
Greater(d, e) ==
    \E i \in 1 .. 5 : Key(d)[i] > Key(e)[i] /\ \A j \in 1 .. i - 1 : Key(d)[j] = Key(e)[j]

\* A report of the vendor's leaves: into which array, and what
Report(array, d) == [array |-> array, d |-> d]
Bad == Report("bad", <<>>)       \* the decoder returns nonzero
Fault == Report("fault", <<>>)   \* it divides by zero
Skip == Report("skip", <<>>)

Init ==
    /\ pc = "identify" /\ proc \in Processors
    /\ cpu = [tpc |-> 0, cpp |-> 0, apic |-> 0, sig |-> <<>>, mems |-> <<>>, tlbs |-> <<>>,
              brand |-> <<>>, place |-> NoPlace, holds |-> {}]
    /\ level = 1 /\ maxdc = 1 /\ sub = 0 /\ todo = <<>> /\ live = {}

Fails == pc' = "failed" /\ UNCHANGED <<proc, level, maxdc, sub, todo, live>>

-----------------------------------------------------------------------------
(* The two arrays.                                                           *)

\* add_hwmem(), add_tlb(): before the first greater entry
Insert(s, d) ==
    LET greater == {i \in DOMAIN s : Greater(s[i], d)} IN
    InsertAt(s, IF greater = {} THEN Len(s) + 1 ELSE CHOOSE i \in greater : \A j \in greater : i <= j, d)

\* The description with d added, its block the one reallocated
Added(c, array, d) ==
    IF array = "mem" THEN [c EXCEPT !.mems = Insert(@, d), !.holds = @ \cup {"mem"}]
    ELSE [c EXCEPT !.tlbs = Insert(@, d), !.holds = @ \cup {"tlb"}]

\* Mutant: the pointer is overwritten with realloc()'s NULL
AddMutant(c, array, d, next) ==
    \/ Fails /\ cpu' = [c EXCEPT !.holds = @ \ {array}]
    \/ next /\ cpu' = Added(c, array, d) /\ live' = live \cup {array}

\* realloc() for one more entry of an array of description c: it fails and
\* leaves the old block to the caller, or the entry is in
Add(c, array, d, next) ==
    \/ Fails /\ cpu' = c
    \/ next /\ cpu' = Added(c, array, d) /\ live' = live \cup {array}

-----------------------------------------------------------------------------
(* Intel: leaf 4, then leaf 2.                                               *)

\* Mutant: the count of leaf 4 is taken as it is
AtLeastMutant(shared, tpc) == shared

\* A cache is shared at least by the threads of a core
AtLeast(shared, tpc) == IF shared < tpc THEN tpc ELSE shared

\* Mutant: off by one, the outermost caches are left out
LevelLeftMutant == level + 1 < maxdc

\* "while(++level <= maxdc)"
LevelLeft == level + 1 <= maxdc

Subleaf(n) == IF n < Len(proc.leaf4) THEN proc.leaf4[n + 1] ELSE [type |-> 0, level |-> 0]

\* The cache of a subleaf.  Partitions are a 10-bit field cut to 9 bits.
Leaf4Cache(s, tpc) ==
    LET assoc == IF s.direct THEN 1 ELSE s.ways + 1 IN
    Desc(s.level, CASE s.type = 1 -> Data [] s.type = 2 -> Code [] s.type = 3 -> Unified,
         (assoc * ((s.parts % 512) + 1) * (s.line + 1) * (s.sets + 1)) \div 1024, s.line + 1, assoc,
         AtLeast(s.shared + 1, tpc))

\* Byte i of register z of leaf 2 as a descriptor.  A register may be marked
\* invalid and AL is the call count: they are null, as is a byte that is zero.
Descriptor(regs, z, i) ==
    IF regs[z].invalid \/ (z = 1 /\ i = 4) THEN 0 ELSE regs[z].bytes[i]

\* get_intel_cache(), get_intel_tlb(), get_intel_trace() and the rest of
\* decode_intel_func2()'s chain
Described(b, tpc) ==
    LET cache == {r \in CacheRows : r[1] = b}
        tlb == {r \in TlbRows : r[1] = b}
        row(set) == CHOOSE r \in set : TRUE
        desc(r) == Desc(r[2], r[3], r[4], r[5], r[6], tpc) IN
    IF b = 0 THEN Skip
    ELSE IF cache # {} THEN Report("unless", desc(row(cache)))
    ELSE IF tlb # {} THEN Report("tlb", desc(row(tlb)))
    ELSE IF b \in TraceDescriptors \cup SkippedDescriptors THEN Skip ELSE Bad

\* id_intel_caches_old(); more than one call of leaf 2 is refused
Leaf2Starts(c) ==
    IF proc.max < StandardCpuconf \/ proc.leaf2.reps # 1 THEN Fails
    ELSE /\ pc' = "reports"
         /\ todo' = [n \in 1 .. 16 |->
                LET z == ((n - 1) \div 4) + 1 i == ((n - 1) % 4) + 1 IN
                Described(Descriptor(proc.leaf2.regs, z, i), c.tpc)]
         /\ UNCHANGED <<proc, level, maxdc, sub, live>>

\* The first cache of the level settles cores per package
Cores(s) ==
    IF cpu.cpp # 0 THEN cpu
    ELSE [cpu EXCEPT !.tpc = IF proc.max < StandardTopology THEN @ \div (s.cores + 1) ELSE @,
                     !.cpp = s.cores + 1]

\* id_intel_caches(): one subleaf; the subleaves are gone through once for
\* each level, up to the highest seen
Leaf4 ==
    LET s == Subleaf(sub) c == Cores(s) IN
    /\ pc = "leaf4"
    /\ \/ /\ s.type = 0
          /\ IF LevelLeft
             THEN level' = level + 1 /\ sub' = 0 /\ UNCHANGED <<pc, proc, cpu, maxdc, todo, live>>
             ELSE Leaf2Starts(cpu) /\ UNCHANGED cpu
       \/ s.type > 3 /\ Fails /\ UNCHANGED cpu
       \/ /\ s.type \in 1 .. 3 /\ s.level # level
          /\ sub' = sub + 1 /\ maxdc' = IF s.level > maxdc THEN s.level ELSE maxdc
          /\ UNCHANGED <<pc, proc, cpu, level, todo, live>>
       \/ /\ s.type \in 1 .. 3 /\ s.level = level
          /\ IF c.tpc = 0 \/ (cpu.cpp # 0 /\ cpu.cpp \div cpu.tpc > s.cores + 1)
             THEN Fails /\ cpu' = [cpu EXCEPT !.tpc = c.tpc]
             ELSE Add(c, "mem", Leaf4Cache(s, c.tpc),
                      sub' = sub + 1 /\ UNCHANGED <<pc, proc, level, maxdc, todo>>)

-----------------------------------------------------------------------------
(* AMD: extended leaves 5, 6 and 0x19.                                       *)

\* amd_l23assoc(): the index of the associativity; others are reserved
L23Assoc(idx, lines) ==
    CASE idx = 15 -> lines [] idx = 14 -> 128 [] idx = 13 -> 96 [] idx = 12 -> 64
      [] idx = 11 -> 48 [] idx = 10 -> 32 [] idx = 8 -> 16 [] idx = 6 -> 8
      [] idx \in {1, 2, 4} -> idx [] OTHER -> 0
L1Assoc(idx, lines) == IF idx = 255 THEN lines ELSE idx

\* scale_amd_l23tlb(): a 4 MiB page takes two entries
Scaled(entries, page) == IF page = 4096 THEN entries \div 2 ELSE entries

\* determine_amd_pagesize(), in KiB; x86_getprocsig() leaves lme and gbpt at
\* zero where there is no extended leaf 1
LargePage == IF proc.lme /\ proc.maxex >= 1 THEN 4096 ELSE 2048

Valid(report) == IF 0 \in {report.d.size, report.d.unit, report.d.assoc} THEN Bad ELSE report

\* decode_amd_l1cache(), decode_amd_l23cache(): the number of lines is
\* computed before the line size is looked at.  Sizes are 32 bits of bytes.
Kib(n) == n % 4194304
Lines(size, line) == (size * 1024) \div line
L1Cache(type, reg) ==
    LET size == Kib(reg.kib) IN
    IF reg.line = 0 THEN Fault
    ELSE Valid(Report("mem", Desc(1, type, size, reg.line, L1Assoc(reg.assoc, Lines(size, reg.line)), cpu.tpc)))
L23Cache(lev, reg, mul, shared) ==
    LET size == Kib(reg.size * mul) IN
    IF reg.line = 0 THEN Fault
    ELSE Valid(Report("mem", Desc(lev, Unified, size, reg.line,
                                  L23Assoc(reg.assoc, Lines(size, reg.line)), shared)))

\* decode_amd_l1tlb(), decode_amd_l23dtlb(), decode_amd_l23itlb()
L1Tlb(type, page, entries, idx) ==
    Valid(Report("tlb", Desc(1, type, page, entries, L1Assoc(idx, entries), cpu.tpc)))
L23Tlb(lev, type, page, entries, idx) ==
    LET n == Scaled(entries, page) IN
    Valid(Report("tlb", Desc(lev, type, page, n, L23Assoc(idx, n), cpu.tpc)))

\* The data and the code half of a TLB register, each if it is there
L23Tlbs(lev, page, reg) ==
    (IF reg.da # 0 /\ reg.de # 0 THEN <<L23Tlb(lev, Data, page, reg.de, reg.da)>> ELSE <<>>)
    \o (IF reg.ia # 0 /\ reg.ie # 0 THEN <<L23Tlb(lev, Code, page, reg.ie, reg.ia)>> ELSE <<>>)

\* id_amd_gbtlbs(): pages of 1 GiB
GbPage == 1048576
GbTlbs ==
    IF ~(proc.gbpt /\ proc.maxex >= 1) \/ proc.maxex < 25 THEN <<>>
    ELSE L23Tlbs(1, GbPage, proc.amd19.eax) \o L23Tlbs(2, GbPage, proc.amd19.ebx)

\* id_amd_23caches()
L23Reports ==
    IF proc.maxex < 6 THEN <<>>
    ELSE (IF proc.amd6.ecx.assoc # 0 THEN <<L23Cache(2, proc.amd6.ecx, 1, cpu.tpc)>> ELSE <<>>)
         \o (IF proc.amd6.edx.assoc # 0 THEN <<L23Cache(3, proc.amd6.edx, 512, cpu.cpp)>> ELSE <<>>)
         \o L23Tlbs(2, LargePage, proc.amd6.eax) \o L23Tlbs(2, 4, proc.amd6.ebx) \o GbTlbs

\* id_amd_caches(): all of leaf 5 is decoded before anything is added
AmdCaches ==
    LET large == proc.amd5.eax small == proc.amd5.ebx
        dtlb(page, reg) == L1Tlb(Data, page, reg.de, reg.da)
        itlb(page, reg) == L1Tlb(Code, page, reg.ie, reg.ia)
        first == <<L1Cache(Code, proc.amd5.ecx), L1Cache(Data, proc.amd5.edx), dtlb(4, small),
                   dtlb(LargePage, large), itlb(4, small), itlb(LargePage, large)>>
        bad == {i \in 1 .. 6 : first[i].array \in {"bad", "fault"}} IN
    /\ pc = "amd" /\ UNCHANGED cpu
    /\ IF proc.maxex < 5 THEN Fails
       ELSE /\ pc' = "reports"
            /\ todo' = IF bad # {} THEN <<first[Min(bad)]>> ELSE first \o L23Reports
            /\ UNCHANGED <<proc, level, maxdc, sub, live>>

-----------------------------------------------------------------------------
(* x86cpuid().                                                               *)

\* The next report.  A cache of leaf 2 is added unless leaf 4, or leaf 2
\* itself, has it already (match_memtype()).
NextReport ==
    LET r == Head(todo) known == \E i \in DOMAIN cpu.mems : Key(cpu.mems[i]) = Key(r.d)
        pass == todo' = Tail(todo) /\ UNCHANGED <<pc, proc, level, maxdc, sub>> IN
    /\ pc = "reports" /\ todo # <<>>
    /\ CASE r.array = "bad" -> Fails /\ UNCHANGED cpu
         [] r.array = "fault" -> pc' = "sigfpe" /\ UNCHANGED <<proc, cpu, level, maxdc, sub, todo, live>>
         [] r.array = "skip" \/ (r.array = "unless" /\ known) -> pass /\ UNCHANGED <<cpu, live>>
         [] r.array = "unless" /\ ~known -> Add(cpu, "mem", r.d, pass)
         [] r.array \in {"mem", "tlb"} -> Add(cpu, r.array, r.d, pass)

\* x86_getprocsig(): the type is masked with 2, and the extended family is
\* shifted by 3, over the highest bit of the family
Signature(e) ==
    [stepping |-> e.stepping, type |-> And(e.type, 2), model |-> e.extmodel * 16 + e.model,
     family |-> Or(e.extfamily * 8, e.family)]

\* From lookup_vendor() to the topfxn.  VIA has none, and its memfxn adds one
\* cache of which only the line size is known.
Identify ==
    LET top == CASE proc.vendor = "intel" -> IdIntelTopology(proc)
                 [] proc.vendor = "amd" -> IdAmdTopology(proc) [] OTHER -> NoTopology
        via == Report("mem", Desc(1, Unknown, 0, 32, 0, 0)) IN
    /\ pc = "identify"
    /\ cpu' = [cpu EXCEPT !.tpc = top.tpc, !.apic = top.apic, !.sig = Signature(proc.sig),
                          !.cpp = IF proc.vendor = "intel" /\ proc.max < CacheConf THEN 1 ELSE top.cpp]
    /\ CASE proc.vendor = "via" /\ proc.max >= CpuVersion ->
              pc' = "reports" /\ todo' = <<via>> /\ UNCHANGED <<proc, level, maxdc, sub, live>>
         [] proc.vendor = "intel" /\ top # NoTopology /\ proc.max >= CacheConf ->
              pc' = "leaf4" /\ UNCHANGED <<proc, level, maxdc, sub, todo, live>>
         [] proc.vendor = "intel" /\ top # NoTopology /\ proc.max < CacheConf -> Leaf2Starts(cpu')
         [] proc.vendor = "amd" /\ top # NoTopology ->
              pc' = "amd" /\ UNCHANGED <<proc, level, maxdc, sub, todo, live>>
         [] OTHER -> Fails

\* x86_getbrandname(): runs of spaces become one, leading ones go
Collapsed(s) ==
    FoldLeft(LAMBDA name, ch : IF ch = " " /\ (name = <<>> \/ Last(name) = " ") THEN name
                               ELSE Append(name, ch), <<>>, s)
GetBrandname ==
    /\ pc = "reports" /\ todo = <<>>
    /\ \/ Fails /\ UNCHANGED cpu    \* no extended leaf 4, or strdup() fails
       \/ /\ proc.maxex >= 4 /\ pc' = "place"
          /\ cpu' = [cpu EXCEPT !.brand = Collapsed(proc.brand), !.holds = @ \cup {"brand"}]
          /\ live' = live \cup {"brand"} /\ UNCHANGED <<proc, level, maxdc, sub, todo>>

\* x86topology(), which refuses a processor without threads per core
Placed ==
    LET place == X86TopologyOf(cpu) IN
    /\ pc = "place" /\ cpu' = [cpu EXCEPT !.place = place]
    /\ IF place = NoPlace THEN Fails
       ELSE pc' = "known" /\ UNCHANGED <<proc, level, maxdc, sub, todo, live>>

\* free_cpudetails(), by the caller, of what the description points to
FreeCpudetails ==
    /\ pc = "failed" /\ pc' = "freed" /\ live' = live \ cpu.holds
    /\ UNCHANGED <<proc, cpu, level, maxdc, sub, todo>>

Next == Identify \/ Leaf4 \/ AmdCaches \/ NextReport \/ GetBrandname \/ Placed \/ FreeCpudetails

Spec == Init /\ [][Next]_vars

-----------------------------------------------------------------------------
(* Properties.                                                               *)

Sorted(s) == \A i, j \in DOMAIN s : i < j => ~Greater(s[i], s[j])
KeysOf(s) == {Key(s[i]) : i \in DOMAIN s}
Count(s, k) == Cardinality({i \in DOMAIN s : Key(s[i]) = k})

\* What an Intel processor's leaves say, read without the code's loops
Leaf4Keys == LET real == {i \in DOMAIN proc.leaf4 : proc.leaf4[i].level >= 1} IN
             [i \in IF proc.max >= CacheConf THEN real ELSE {} |-> Key(Leaf4Cache(proc.leaf4[i], 0))]
Leaf2Keys == {<<r[2], r[3], r[4], r[5], r[6]>> :
                 r \in {row \in CacheRows : \E z \in 1 .. 4 : \E i \in 1 .. 4 :
                           /\ ~proc.leaf2.regs[z].invalid /\ <<z, i>> # <<1, 4>>
                           /\ proc.leaf2.regs[z].bytes[i] = row[1]}}

\* The description of an Intel processor is canonical: both arrays are in
\* compare_memdetails() order at every step, and in the end leaf 4's caches
\* of every level are there as often as leaf 4 lists them, those of leaf 2
\* once unless leaf 4 had them, and no other.  detect_cputypes() compares
\* these arrays with memcmp(), so two processors that report the same in
\* another order are one type.
CanonicalDetails ==
    /\ Sorted(cpu.mems) /\ Sorted(cpu.tlbs)
    /\ pc = "known" /\ proc.vendor = "intel" =>
          LET four == {Leaf4Keys[i] : i \in DOMAIN Leaf4Keys} IN
          /\ KeysOf(cpu.mems) = four \cup Leaf2Keys
          /\ \A k \in four : Count(cpu.mems, k) = Cardinality({i \in DOMAIN Leaf4Keys : Leaf4Keys[i] = k})
          /\ \A k \in Leaf2Keys \ four : Count(cpu.mems, k) = 1

\* "Physical resources are shared at least by the logical cores": no cache or
\* TLB in a finished description, an AMD L3 apart, is shared by fewer
\* processors than a core has threads, though threads per core change while
\* the caches are being added.
SharedByCore ==
    pc = "known" => \A s \in {cpu.mems, cpu.tlbs} : \A i \in DOMAIN s :
        s[i].shared >= cpu.tpc \/ (proc.vendor = "amd" /\ s[i].level = 3)

\* Whatever call fails, the description still points to every block it has
\* allocated, so that the caller's free_cpudetails() releases them all.
NothingLost ==
    /\ pc # "freed" => live = cpu.holds
    /\ pc = "freed" => live = {}

\* "ECX: DL1 EDX: CL1": the L1 data cache of an AMD processor is the one in
\* ECX of extended leaf 5.
AmdL1Kinds ==
    pc = "known" /\ proc.vendor = "amd" =>
        \E i \in DOMAIN cpu.mems :
            /\ cpu.mems[i].level = 1 /\ cpu.mems[i].type = Data
            /\ cpu.mems[i].size = proc.amd5.ecx.kib /\ cpu.mems[i].unit = proc.amd5.ecx.line
=============================================================================
