------------------------------ MODULE MCCpuid -------------------------------
(* Instances of Cpuid for TLC.                                               *)
EXTENDS Cpuid

Reg(invalid, bytes) == [invalid |-> invalid, bytes |-> bytes]
NoReg == Reg(FALSE, <<0, 0, 0, 0>>)
Tlb(da, de, ia, ie) == [da |-> da, de |-> de, ia |-> ia, ie |-> ie]
L1(kib, assoc, line) == [kib |-> kib, assoc |-> assoc, line |-> line]
L23(size, assoc, line) == [size |-> size, assoc |-> assoc, line |-> line]
Cache4(type, lev, ways, sets, shared, cores) ==
    [type |-> type, level |-> lev, direct |-> FALSE, ways |-> ways, parts |-> 0, line |-> 63,
     sets |-> sets, shared |-> shared, cores |-> cores]
Level(type, count) == [type |-> type, count |-> count, apic |-> 3]

L1d == Cache4(1, 1, 7, 63, 1, 1)
L1i == Cache4(2, 1, 3, 127, 0, 1)
L2u == Cache4(3, 2, 7, 511, 1, 1)
L3u == Cache4(3, 3, 15, 4095, 3, 1)
Leaf4s ==
    {<<L1d, L1i, L2u, L3u>>, <<L3u, L2u, L1i, L1d>>, <<L2u, L1d, L2u>>, <<L1d>>, <<>>,
     <<[L1d EXCEPT !.parts = 512], [L2u EXCEPT !.direct = TRUE]>>, <<[L1d EXCEPT !.level = 0], L2u>>,
     <<[L1d EXCEPT !.type = 4], L2u>>, <<L1d, [L3u EXCEPT !.cores = 0]>>,
     <<[L1d EXCEPT !.cores = 7], L2u>>}

\* 0x2c is L1d, 0x2d is in no table, 0x21 and 0x7a are one cache, 0x4e is an
\* L2, 0x5a and 0xb1 are TLBs, 0x70 a trace cache
Leaf2s ==
    {[reps |-> 1, regs |-> <<Reg(FALSE, <<44, 33, 122, 1>>), Reg(FALSE, <<0, 90, 177, 112>>),
                            Reg(TRUE, <<128, 45, 45, 45>>), Reg(FALSE, <<78, 64, 90, 240>>)>>],
     [reps |-> 1, regs |-> <<Reg(FALSE, <<78, 122, 44, 1>>), NoReg, NoReg, NoReg>>],
     [reps |-> 1, regs |-> <<NoReg, NoReg, Reg(FALSE, <<0, 44, 45, 90>>), NoReg>>],
     [reps |-> 2, regs |-> <<NoReg, NoReg, NoReg, NoReg>>]}

Intel ==
    [vendor |-> "intel", max |-> 11, ht |-> TRUE, logical |-> 4, legacy |-> 3,
     b |-> [s \in 0 .. 3 |-> CASE s = 0 -> Level(1, 2) [] s = 1 -> Level(2, 4) [] OTHER -> Level(0, 0)],
     sig |-> [stepping |-> 1, type |-> 1, model |-> 2, extmodel |-> 1, family |-> 15, extfamily |-> 1],
     leaf4 |-> <<>>, leaf2 |-> CHOOSE l \in Leaf2s : l.reps = 2, maxex |-> 8, lme |-> TRUE,
     gbpt |-> TRUE, brand |-> <<" ", " ", "x", " ", " ", "y", " ">>]

\* Every descriptor by itself, and the leaves above in all combinations
Single(d) == [reps |-> 1, regs |-> <<NoReg, NoReg, NoReg, Reg(FALSE, <<0, 0, d, 0>>)>>]
Intels ==
    {[Intel EXCEPT !.max = m, !.leaf4 = l4, !.leaf2 = l2] : m \in {0, 1, 2, 4, 11}, l4 \in Leaf4s, l2 \in Leaf2s}
    \cup {[Intel EXCEPT !.max = 2, !.leaf2 = Single(d)] : d \in 0 .. 255}
    \cup {[Intel EXCEPT !.max = 2, !.leaf2 = Single(44), !.maxex = 3]}

Amd ==
    [vendor |-> "amd", max |-> 1, ht |-> TRUE, logical |-> 2, legacy |-> 0, sig |-> Intel.sig,
     lme |-> TRUE, gbpt |-> TRUE, maxex |-> 25, brand |-> <<"z">>,
     amd5 |-> [eax |-> Tlb(255, 8, 255, 16), ebx |-> Tlb(4, 48, 255, 32),
               ecx |-> L1(32, 8, 64), edx |-> L1(64, 4, 64)],
     amd6 |-> [eax |-> Tlb(2, 128, 0, 0), ebx |-> Tlb(4, 512, 4, 512),
               ecx |-> L23(512, 8, 64), edx |-> L23(12, 12, 64)],
     amd19 |-> [eax |-> Tlb(15, 48, 0, 0), ebx |-> Tlb(0, 0, 15, 16)]]
Amds ==
    {[Amd EXCEPT !.maxex = m, !.lme = b, !.gbpt = b] : m \in {0, 4, 5, 6, 25}, b \in BOOLEAN}
    \cup {[Amd EXCEPT !.amd5.ecx.line = 0], [Amd EXCEPT !.amd5.eax.ie = 0], [Amd EXCEPT !.amd6.edx.assoc = 9],
          [Amd EXCEPT !.amd6.edx.size = 8192], [Amd EXCEPT !.amd6.eax.de = 1], [Amd EXCEPT !.amd6.ecx.assoc = 0],
          [Amd EXCEPT !.max = 0]}

Vias == {[Amd EXCEPT !.vendor = v, !.max = m] : v \in {"via", "other"}, m \in {0, 1}}

AllProcessors == Intels \cup Amds \cup Vias
OneAmd == {Amd}
=============================================================================
