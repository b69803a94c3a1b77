----------------------------- MODULE X86Topology ----------------------------
(***************************************************************************)
(* How hardware/x86cpuid.c places an x86 processor: threads per core and   *)
(* cores per package from CPUID, and the thread, core and package cut out  *)
(* of the APIC ID.  What CPUID says on a processor is a record: vendor;    *)
(* max, the highest standard leaf; ht, the HTT flag; logical, EBX[23:16]   *)
(* of leaf 1; legacy, the 8-bit APIC ID of leaf 1; cores, the cores per    *)
(* package of leaf 4; b, the subleaves 0 to 3 of leaf 0xb, each with its   *)
(* level type, its count of logical processors and its APIC ID.            *)
(***************************************************************************)
EXTENDS Integers, Sequences, FiniteSetsExt

CpuVersion == 1        \* CPUID_CPU_VERSION
CacheConf == 4         \* CPUID_STANDARD_CACHECONF
StandardTopology == 11 \* CPUID_STANDARD_TOPOLOGY

\* What is left when a function here returns nonzero
NoApic == -1
NoTopology == [tpc |-> 0, cpp |-> 0, apic |-> 0]
NoPlace == [thread |-> -1, core |-> -1, pkg |-> -1]

\* The counts below are at most 16 bits wide
Powers == {1, 2, 4, 8, 16, 32, 64, 128, 256, 512, 1024, 2048, 4096, 8192, 16384, 32768}

\* "x & y" and "x | y" where one of them has 16 bits, four bits at a time
AndBit(bit, x, y) == IF (x \div bit) % 2 = 1 /\ (y \div bit) % 2 = 1 THEN bit ELSE 0
AndNibble(bit, x, y) ==
    AndBit(bit, x, y) + AndBit(2 * bit, x, y) + AndBit(4 * bit, x, y) + AndBit(8 * bit, x, y)
And(x, y) == AndNibble(1, x, y) + AndNibble(16, x, y) + AndNibble(256, x, y) + AndNibble(4096, x, y)
Or(x, y) == x + y - And(x, y)

\* id_x86_topology() counts up to the next power of two
RoundUp(n) == Min({p \in Powers : p >= n})

\* id_x86_topology(): nothing here sets cores per package or the APIC ID
IdX86Topology(r, cpp) ==
    IF r.max < CpuVersion \/ (r.ht /\ r.logical = 0) THEN NoTopology
    ELSE [tpc |-> RoundUp(IF r.ht THEN r.logical ELSE 1), cpp |-> cpp, apic |-> 0]

\* x86apic(): after the subleaf of a level it asks for the one after the
\* level's type, until there is none; these are the ways it can come to an end
Chains == {<<0>>, <<0, 2>>, <<0, 3>>, <<0, 2, 3>>, <<0, 3, 2>>}
LevelsAgree(b, apic) ==
    \E asked \in Chains :
        /\ \A i \in 1 .. Len(asked) - 1 :
              /\ b[asked[i]].type \in {1, 2} /\ asked[i + 1] = b[asked[i]].type + 1
              /\ b[asked[i + 1]].apic = apic
        /\ b[asked[Len(asked)]].type = 0

X86Apic(r) ==
    IF r.max < CpuVersion THEN NoApic
    ELSE IF r.max < StandardTopology THEN r.legacy
    ELSE IF r.b[0].apic % 256 = r.legacy /\ LevelsAgree(r.b, r.b[0].apic)
         THEN r.b[0].apic ELSE NoApic

\* id_amd_topology(): max is a standard leaf and never reaches the extended
\* leaf 0x80000008 it is compared with, so the rest is never executed
IdAmdTopology(r) == IdX86Topology(r, 1)

\* id_intel_topology(): the count of subleaf 1, all logical processors of a
\* package, is taken for its number of cores
IdIntelTopology(r) ==
    IF r.max < StandardTopology THEN IdX86Topology(r, 0)
    ELSE IF r.b[0].type # 1 \/ r.b[0].count = 0 \/ r.b[1].type # 2 \/ r.b[1].count = 0
            \/ X86Apic(r) = NoApic THEN NoTopology
    ELSE [tpc |-> r.b[0].count, cpp |-> r.b[1].count, apic |-> X86Apic(r)]

\* The part of id_intel_caches() that settles cores per package from leaf 4;
\* a processor without leaf 4 has one
IntelCores(r, t) ==
    IF r.max < CacheConf THEN [t EXCEPT !.cpp = 1]
    ELSE IF t.cpp = 0
    THEN LET tpc == IF r.max < StandardTopology THEN t.tpc \div r.cores ELSE t.tpc IN
         IF tpc = 0 THEN NoTopology ELSE [t EXCEPT !.tpc = tpc, !.cpp = r.cores]
    ELSE IF t.cpp \div t.tpc > r.cores THEN NoTopology ELSE t

\* The vendor's topfxn and memfxn, as far as the topology goes.  VIA has no
\* topfxn and keeps the zeroes of x86cpuid().
VendorTopology(r) ==
    CASE r.vendor = "intel" ->
           LET t == IdIntelTopology(r) IN IF t.tpc = 0 THEN NoTopology ELSE IntelCores(r, t)
      [] r.vendor = "amd" -> IdAmdTopology(r)
      [] r.vendor = "via" -> NoTopology
      [] OTHER -> NoTopology

\* "while((n /= 2)) apic >>= 1"
ShiftOut(apic, n) == apic \div Max({p \in Powers : p <= n})

\* Mutant: the package is cut out without the cores
X86TopologyMutant(t) ==
    IF t.tpc = 0 \/ t.cpp = 0 THEN NoPlace
    ELSE LET rest == ShiftOut(t.apic, t.tpc) IN
         [thread |-> And(t.apic, t.tpc - 1), core |-> And(t.apic, t.cpp - 1),
          pkg |-> ShiftOut(rest, t.cpp)]

\* x86topology()
X86TopologyOf(t) ==
    IF t.tpc = 0 \/ t.cpp = 0 THEN NoPlace
    ELSE LET rest == ShiftOut(t.apic, t.tpc) IN
         [thread |-> And(t.apic, t.tpc - 1), core |-> And(rest, t.cpp - 1),
          pkg |-> ShiftOut(rest, t.cpp)]
=============================================================================
