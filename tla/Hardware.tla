------------------------------ MODULE Hardware ------------------------------
(***************************************************************************)
(* detect_architecture() (hardware/arch.c) and what it builds: the types   *)
(* of processors, the scheduling zones of hardware/topology.c, the memory  *)
(* node of hardware/memory.c, and one thread per processor of the caller's *)
(* affinity mask, each inheriting the caller's pin.                        *)
(*                                                                         *)
(* A machine is tpc threads on each of cores cores on each of pkgs         *)
(* packages, all processors of a package being of one kind; the operating  *)
(* system numbers them with threads or with cores fastest.  A kind stands  *)
(* for everything compare_cpudetails() looks at apart from tpc, cpp, the   *)
(* APIC ID, and the padding of the structures it compares with memcmp().   *)
(***************************************************************************)
EXTENDS X86Topology, Sequences, FiniteSets, SequencesExt, FiniteSetsExt

CONSTANTS
    Machines,    \* records: vendor, max, tpc, cores, pkgs, order, kinds
    MaxCpu,      \* bound: processors of a machine
    Masks,       \* affinity masks torque_init() may be called with
    Pads,        \* values the padding of a description may hold
    Gpus,        \* kinds of the CUDA devices, in order
    SysPage,     \* sysconf(_SC_PAGESIZE)
    TlbPages,    \* page sizes of each kind's TLBs, in order
    Faults       \* calls that may fail

FaultNames == {"getaffinity", "malloc", "pin", "cpuid", "types", "zone", "spawn", "unpin",
               "cuda", "pages", "node"}

ASSUME HardwareAssumption ==
    /\ MaxCpu \in Nat /\ SysPage \in Nat \ {0} /\ Faults \subseteq FaultNames
    /\ \A k \in DOMAIN TlbPages : TlbPages[k] \in Seq(Nat)
    /\ Gpus \in Seq(DOMAIN TlbPages)
    /\ \A m \in Machines :
         /\ {m.tpc, m.cores} \subseteq 1 .. 128 /\ m.pkgs \in Nat \ {0} /\ m.max \in Nat
         /\ m.tpc * m.cores * m.pkgs <= MaxCpu
         /\ m.kinds \in Seq(DOMAIN TlbPages) /\ Len(m.kinds) = m.pkgs

VARIABLES
    pc,        \* where detect_architecture() is
    mach,      \* the machine
    mask,      \* the caller's affinity mask on entry
    affinity,  \* its affinity now
    aid,       \* the processor looked at
    cpu,       \* its description and place, None between processors
    types,     \* cpudescs: descriptions and elements
    zones,     \* sched_zone: packages, each with its list of cores
    tm,        \* topmap: the core ID stored for each processor
    threads,   \* processors the event threads were spawned on
    gpu,       \* CUDA devices looked at
    tlb,       \* determine_pagesizes(): the type and the TLB looked at
    pages,     \* psizevals of the node being built
    nodes,     \* manodes
    live,      \* descriptions allocated and not freed
    fault      \* the call that failed first

vars == <<pc, mach, mask, affinity, aid, cpu, types, zones, tm, threads, gpu, tlb, pages, nodes, live, fault>>
detvars == <<mach, mask>>

None == "none"
Cpus(m) == 0 .. m.tpc * m.cores * m.pkgs - 1

\* Where processor n of the machine really is
Place(m, n) ==
    IF m.order = "threads"
    THEN [thread |-> n % m.tpc, core |-> (n \div m.tpc) % m.cores, pkg |-> n \div (m.tpc * m.cores)]
    ELSE [thread |-> n \div (m.cores * m.pkgs), core |-> n % m.cores, pkg |-> (n \div m.cores) % m.pkgs]
Kind(m, n) == m.kinds[Place(m, n).pkg + 1]

Apic(m, n) ==
    LET p == Place(m, n) IN
    p.thread + RoundUp(m.tpc) * (p.core + RoundUp(m.cores) * p.pkg)

\* What CPUID says on processor n
Regs(m, n) ==
    LET level(type, count) == [type |-> type, count |-> count, apic |-> Apic(m, n)] IN
    [vendor |-> m.vendor, max |-> m.max, ht |-> m.tpc * m.cores > 1,
     logical |-> RoundUp(m.tpc) * RoundUp(m.cores), legacy |-> Apic(m, n) % 256,
     cores |-> RoundUp(m.cores),
     b |-> [s \in 0 .. 3 |-> CASE s = 0 -> level(1, m.tpc) [] s = 1 -> level(2, m.tpc * m.cores)
                              [] OTHER -> level(0, 0)]]

Init ==
    /\ pc = "count" /\ mach \in Machines
    /\ mask \in {m \in Masks : m # {} /\ m \subseteq Cpus(mach)}
    /\ affinity = mask /\ aid = 0 /\ cpu = None /\ types = <<>> /\ zones = <<>>
    /\ tm = [a \in 0 .. MaxCpu - 1 |-> 0] /\ threads = <<>> /\ gpu = 0
    /\ tlb = <<1, 1>> /\ pages = <<>> /\ nodes = <<>> /\ live = 0 /\ fault = None

\* A call fails: the error path starts at label l
FailAt(call, l) == call \in Faults /\ fault' = call /\ pc' = l

-----------------------------------------------------------------------------
(* detect_cputypes().                                                        *)

\* detect_cpucount(), and the allocation of topmap.  Without a mask, the error
\* path sets the affinity to whatever the uninitialized mask holds.
DetectCpucount ==
    /\ pc = "count"
    /\ \/ pc' = "pin" /\ UNCHANGED <<affinity, fault>>
       \/ FailAt("malloc", "unwind") /\ UNCHANGED affinity
       \/ FailAt("getaffinity", "unwind") /\ affinity' \in (SUBSET Cpus(mach)) \ {{}}
    /\ UNCHANGED <<detvars, aid, cpu, types, zones, tm, threads, gpu, tlb, pages, nodes, live>>

\* The next processor of the mask, which pin_thread() pins the caller to
PinThread ==
    LET rest == {a \in mask : a >= aid} IN
    /\ pc = "pin" /\ Len(threads) < Cardinality(mask)
    /\ aid' = Min(rest)
    /\ \/ affinity' = {Min(rest)} /\ pc' = "cpuid" /\ UNCHANGED fault
       \/ FailAt("pin", "unwind") /\ UNCHANGED affinity
    /\ UNCHANGED <<detvars, cpu, types, zones, tm, threads, gpu, tlb, pages, nodes, live>>

\* x86cpuid() on the processor the caller runs on; a failure frees what it allocated
DetectCpudetails ==
    LET t == VendorTopology(Regs(mach, aid))
        place == X86TopologyOf(t) IN
    /\ pc = "cpuid"
    /\ \/ /\ place # NoPlace
          /\ \E pad \in Pads : cpu' = [desc |-> [kind |-> Kind(mach, aid), top |-> t, pad |-> pad],
                                       place |-> place]
          /\ live' = live + 1 /\ pc' = "type" /\ UNCHANGED fault
       \/ /\ place = NoPlace /\ fault' = "cpuid" /\ pc' = "unwind"
          /\ UNCHANGED <<cpu, live>>
       \/ FailAt("cpuid", "unwind") /\ UNCHANGED <<cpu, live>>
    /\ UNCHANGED <<detvars, affinity, aid, types, zones, tm, threads, gpu, tlb, pages, nodes>>

\* match_cputype(): the first type equal to a description, 0 for none
MatchCputype(desc) == SelectInSeq(types, LAMBDA y : y.desc = desc)

\* Mutant: a type that is found is not counted
CountTypeMutant(desc) ==
    LET n == MatchCputype(desc) IN
    IF n = 0 THEN Append(types, [desc |-> desc, elements |-> 1]) ELSE types

\* The types with one more processor of this description
CountType(desc) ==
    LET n == MatchCputype(desc) IN
    IF n = 0 THEN Append(types, [desc |-> desc, elements |-> 1])
    ELSE [types EXCEPT ![n].elements = @ + 1]

\* match_cputype(), add_cputype(): a description that is not kept is freed
AddCputype ==
    LET n == MatchCputype(cpu.desc) IN
    /\ pc = "type"
    /\ \/ /\ types' = CountType(cpu.desc)
          /\ live' = IF n = 0 THEN live ELSE live - 1
          /\ cpu' = [cpu EXCEPT !.desc = n] /\ pc' = "topologize" /\ UNCHANGED fault
       \/ /\ n = 0 /\ FailAt("types", "unwind")
          /\ live' = live - 1 /\ cpu' = None /\ UNCHANGED types
    /\ UNCHANGED <<detvars, affinity, aid, zones, tm, threads, gpu, tlb, pages, nodes>>

\* find_sched_group(): where the list has or should have a group
GroupIndex(list, id) == Min({i \in DOMAIN list : list[i].id >= id} \cup {Len(list) + 1})
HasGroup(list, id) == \E g \in Range(list) : g.id = id

Zone(id, type, cpus) == [id |-> id, type |-> type, cpus |-> cpus, sub |-> <<>>]

\* Mutant: a new group goes to the end of its list
WithGroupMutant(list, id, type) ==
    IF HasGroup(list, id) THEN list ELSE Append(list, Zone(id, type, {}))

\* Mutant: cpudesc is not set
WithGroupTypeMutant(list, id, type) ==
    IF HasGroup(list, id) THEN list
    ELSE InsertAt(list, GroupIndex(list, id), Zone(id, 1, {}))

\* The list with a group for id, sorted by id
WithGroup(list, id, type) ==
    IF HasGroup(list, id) THEN list
    ELSE InsertAt(list, GroupIndex(list, id), Zone(id, type, {}))

\* The list with processor a in the group for id
Joined(list, id, type, a) ==
    [WithGroup(list, id, type) EXCEPT ![GroupIndex(list, id)].cpus = @ \cup {a}]

\* tm[] has an entry per processor of the mask and is indexed by processor
\* number: beyond its end, what is read back is anything
StoredCores(a) == IF a < Cardinality(mask) THEN {tm[a]} ELSE 0 .. MaxCpu - 1

\* The second processor of a package creates the group of the first, with the
\* core stored for it and the type of the second
Split(g, type, first) ==
    IF zones[g].sub # <<>> THEN zones
    ELSE [zones EXCEPT ![g].sub = <<Zone(first, type, {Min(zones[g].cpus)})>>]

\* The zones with processor a, in its package and, if that is shared, its core
Topologized(id, type, a, core, first) ==
    LET g == GroupIndex(zones, id) IN
    Joined(IF HasGroup(zones, id)
           THEN [Split(g, type, first) EXCEPT ![g].sub = Joined(@, core, type, a)] ELSE zones,
           id, type, a)

\* topologize().  A zone that cannot be allocated may be the second processor's
\* own, with that of the first already in place.
Topologize ==
    LET p == cpu.place
        type == IF cpu.desc = 0 THEN Len(types) ELSE cpu.desc
        g == GroupIndex(zones, p.pkg)
        firsts == IF HasGroup(zones, p.pkg) THEN StoredCores(Min(zones[g].cpus)) ELSE {} IN
    /\ pc = "topologize"
    /\ \/ /\ \E first \in IF firsts = {} THEN {0} ELSE firsts :
               zones' = Topologized(p.pkg, type, aid, p.core, first)
          /\ tm' = [tm EXCEPT ![aid] = p.core]
          /\ pc' = "spawn" /\ UNCHANGED fault
       \/ /\ FailAt("zone", "unwind") /\ UNCHANGED tm
          /\ zones' \in {zones} \cup {Split(g, type, first) : first \in firsts}
    /\ UNCHANGED <<detvars, affinity, aid, cpu, types, threads, gpu, tlb, pages, nodes, live>>

\* Mutant: the search resumes at the processor just done
SpawnThreadMutant ==
    /\ pc = "spawn"
    /\ threads' = threads \o SetToSeq(affinity)
    /\ cpu' = None /\ pc' = "pin"
    /\ UNCHANGED <<detvars, affinity, aid, types, zones, tm, gpu, tlb, pages, nodes, live, fault>>

\* spawn_thread(): the new thread inherits the pin
SpawnThread ==
    /\ pc = "spawn"
    /\ \/ /\ threads' = threads \o SetToSeq(affinity)
          /\ aid' = aid + 1 /\ cpu' = None /\ pc' = "pin" /\ UNCHANGED fault
       \/ FailAt("spawn", "unwind") /\ UNCHANGED <<threads, aid, cpu>>
    /\ UNCHANGED <<detvars, affinity, types, zones, tm, gpu, tlb, pages, nodes, live>>

UnpinThread ==
    /\ pc = "pin" /\ Len(threads) = Cardinality(mask)
    /\ \/ affinity' = mask /\ pc' = "cuda" /\ UNCHANGED fault
       \/ FailAt("unpin", "unwind") /\ UNCHANGED affinity
    /\ UNCHANGED <<detvars, aid, cpu, types, zones, tm, threads, gpu, tlb, pages, nodes, live>>

\* err: of detect_cputypes(): unpin_thread(), reap_threads(), and every
\* description is freed
Unwind ==
    /\ pc = "unwind"
    /\ affinity' = IF fault \in {"unpin", "getaffinity"} THEN affinity ELSE mask
    /\ threads' = <<>> /\ live' = live - Len(types) /\ types' = <<>> /\ cpu' = None
    /\ pc' = "free"
    /\ UNCHANGED <<detvars, aid, zones, tm, gpu, tlb, pages, nodes, fault>>

-----------------------------------------------------------------------------
(* detect_cuda(), detect_memories() and free_architecture().                 *)

\* One device: cudaid(), match_cputype(), add_cputype()
DetectCuda ==
    LET desc == [kind |-> Gpus[gpu + 1], top |-> NoTopology, pad |-> 0] IN
    /\ pc = "cuda" /\ gpu < Len(Gpus)
    /\ \/ /\ types' = CountType(desc)
          /\ live' = IF MatchCputype(desc) = 0 THEN live + 1 ELSE live
          /\ gpu' = gpu + 1 /\ UNCHANGED <<pc, fault>>
       \/ FailAt("cuda", "free") /\ UNCHANGED <<types, live, gpu>>
    /\ UNCHANGED <<detvars, affinity, aid, cpu, zones, tm, threads, tlb, pages, nodes>>

\* add_pagesize(): before the first larger one
AddPagesize(list, size) ==
    InsertAt(list, Min({i \in DOMAIN list : list[i] > size} \cup {Len(list) + 1}), size)

\* Mutant: the comparison is the other way round
KnownPagesizeMutant(list, size) == \E s \in Range(list) : s <= size

\* match_pagesize(): a size is taken to be known when a larger one is
KnownPagesize(list, size) == \E s \in Range(list) : s >= size

\* detect_memories(): the system's page size first
DetectMemories ==
    /\ pc = "cuda" /\ gpu = Len(Gpus)
    /\ \/ pages' = AddPagesize(<<>>, SysPage) /\ tlb' = <<1, 1>> /\ pc' = "tlbs" /\ UNCHANGED fault
       \/ FailAt("pages", "free") /\ UNCHANGED <<pages, tlb>>
    /\ UNCHANGED <<detvars, affinity, aid, cpu, types, zones, tm, threads, gpu, nodes, live>>

\* determine_pagesizes(): then the page size of the next TLB of a type.  A
\* failure frees the sizes.
DeterminePagesizes ==
    LET sizes == TlbPages[types[tlb[1]].desc.kind]
        known == KnownPagesize(pages, sizes[tlb[2]]) IN
    /\ pc = "tlbs" /\ tlb[1] <= Len(types)
    /\ \/ tlb[2] > Len(sizes) /\ tlb' = <<tlb[1] + 1, 1>> /\ UNCHANGED <<pages, pc, fault>>
       \/ /\ tlb[2] <= Len(sizes) /\ tlb' = <<tlb[1], tlb[2] + 1>>
          /\ pages' = IF known THEN pages ELSE AddPagesize(pages, sizes[tlb[2]])
          /\ UNCHANGED <<pc, fault>>
       \/ /\ tlb[2] <= Len(sizes) /\ ~known /\ FailAt("pages", "free")
          /\ pages' = <<>> /\ UNCHANGED tlb
    /\ UNCHANGED <<detvars, affinity, aid, cpu, types, zones, tm, threads, gpu, nodes, live>>

\* determine_sysmem(), add_node() and detect_numa(), which does nothing.  A
\* failure frees the sizes.
AddNode ==
    /\ pc = "tlbs" /\ tlb[1] > Len(types)
    /\ \/ nodes' = <<pages>> /\ pc' = "done" /\ UNCHANGED <<pages, fault>>
       \/ FailAt("node", "free") /\ pages' = <<>> /\ UNCHANGED nodes
    /\ UNCHANGED <<detvars, affinity, aid, cpu, types, zones, tm, threads, gpu, tlb, live>>

\* large_system_pagesize(), which get_big_page() maps
LargePagesize == Max({0} \cup UNION {Range(nodes[i]) : i \in DOMAIN nodes})

\* Mutant: the zones are kept
FreeArchitectureMutant ==
    /\ pc = "free"
    /\ live' = live - Len(types) /\ types' = <<>> /\ nodes' = <<>>
    /\ pc' = "failed"
    /\ UNCHANGED <<detvars, affinity, aid, cpu, zones, tm, threads, gpu, tlb, pages, fault>>

\* err: of detect_architecture(): free_architecture()
FreeArchitecture ==
    /\ pc = "free"
    /\ zones' = <<>> /\ live' = live - Len(types) /\ types' = <<>> /\ nodes' = <<>>
    /\ pc' = "failed"
    /\ UNCHANGED <<detvars, affinity, aid, cpu, tm, threads, gpu, tlb, pages, fault>>

Next == \/ DetectCpucount \/ PinThread \/ DetectCpudetails \/ AddCputype \/ Topologize
        \/ SpawnThread \/ UnpinThread \/ Unwind
        \/ DetectCuda \/ DetectMemories \/ DeterminePagesizes \/ AddNode \/ FreeArchitecture
Spec == Init /\ [][Next]_vars

-----------------------------------------------------------------------------
(* Properties.                                                               *)

Leaves == UNION {IF g.sub = <<>> THEN {g} ELSE Range(g.sub) : g \in Range(zones)}
Placed == UNION {g.cpus : g \in Range(zones)}
Increasing(s) == \A i, j \in DOMAIN s : i < j => s[i] < s[j]

\* The rules internal.h gives for walking the topology: a group schedules the
\* union of its subgroups, every group has a processor, siblings have distinct
\* IDs (in increasing order, as find_sched_group() assumes), and no processor
\* is in two groups.  They hold whatever topmap's out-of-bounds entries hold.
TopologyRules ==
    /\ Increasing([i \in DOMAIN zones |-> zones[i].id])
    /\ \A g \in Range(zones) :
         /\ g.cpus # {} /\ Increasing([i \in DOMAIN g.sub |-> g.sub[i].id])
         /\ g.sub # <<>> => g.cpus = UNION {s.cpus : s \in Range(g.sub)}
         /\ \A s \in Range(g.sub) : s.cpus # {}
    /\ \A l, k \in Leaves : l # k => l.cpus \cap k.cpus = {}
    /\ pc = "done" => Placed = mask

\* Machines whose places the code can tell: leaf 0xb, powers of two, and a mask
\* without gaps
Told == /\ mach.vendor = "intel" /\ mach.max >= StandardTopology
        /\ {mach.tpc, mach.cores} \subseteq Powers /\ mask = 0 .. Cardinality(mask) - 1
SameCore(a, b) == LET p == Place(mach, a) q == Place(mach, b) IN p.core = q.core /\ p.pkg = q.pkg

\* "all threads of SMT processors will be folded into a single group"
\* (topology.h): on such machines two processors share a leaf exactly when
\* they are threads of one core.
LeavesAreCores ==
    Told => \A l \in Leaves : \A a \in l.cpus, b \in Placed : b \in l.cpus <=> SameCore(a, b)

\* lookup_aid() finds every processor, and the type it gives is the type of
\* some processor of the same package zone.
LookupAid(a) ==
    LET g == CHOOSE z \in Range(zones) : a \in z.cpus
        l == IF g.sub = <<>> THEN g ELSE CHOOSE s \in Range(g.sub) : a \in s.cpus IN
    types[l.type].desc.kind
LookupStaysInPackage ==
    pc \in {"spawn", "cuda", "tlbs", "done"} =>
        \A g \in Range(zones) : \A a \in g.cpus : LookupAid(a) \in {Kind(mach, b) : b \in g.cpus}

\* Every processor and device is counted in exactly one type, and the types
\* are distinct: elements adds up.
Counted == UNION {{i} \X (1 .. types[i].elements) : i \in DOMAIN types}
ElementsAddUp ==
    /\ \A i, j \in DOMAIN types : types[i].desc = types[j].desc => i = j
    /\ pc \in {"pin", "cuda", "tlbs", "done"} => Cardinality(Counted) = Len(threads) + gpu

\* One event thread on each processor of the mask, pinned to it, and the
\* caller gets its own affinity back, unless the call that restores or saves
\* it is the one that failed.
OneThreadPerProcessor ==
    /\ pc \in {"cuda", "tlbs", "done"} => Range(threads) = mask /\ Len(threads) = Cardinality(mask)
    /\ pc \in {"cuda", "tlbs", "done", "free", "failed"} /\ fault \notin {"unpin", "getaffinity"} => affinity = mask

\* A detection that fails leaves no zone, type, node or description behind; a
\* failure before the CUDA devices leaves no thread either.
CleanFailure ==
    pc = "failed" =>
        /\ zones = <<>> /\ types = <<>> /\ nodes = <<>> /\ live = 0
        /\ fault \notin {"cuda", "pages", "node"} => threads = <<>>

\* The page sizes are distinct and in increasing order, and the buffers are
\* mapped with the largest page any TLB or the system knows.
AllTlbPages == UNION {Range(TlbPages[types[i].desc.kind]) : i \in DOMAIN types}
LargestPageFound ==
    pc = "done" =>
        /\ Increasing(pages) /\ SysPage \in Range(pages)
        /\ LargePagesize = Max({SysPage} \cup AllTlbPages)

\* "note that a leaf node cannot encompass heterogeneous setups" (internal.h)
LeafHomogeneous == \A l \in Leaves : \A a, b \in l.cpus : Kind(mach, a) = Kind(mach, b)
=============================================================================
