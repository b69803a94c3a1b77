--------------------------- MODULE HardwareProofs ---------------------------
(***************************************************************************)
(* Proofs about Hardware, for every set of machines, affinity masks,       *)
(* devices and failing calls.                                              *)
(***************************************************************************)
EXTENDS Hardware, FiniteSetTheorems, WellFoundedInduction, TLAPS

-----------------------------------------------------------------------------
(* Least and greatest elements.                                              *)

\* Every set of naturals that is not empty has a least element.
LEMMA Least ==
    ASSUME NEW T, T \subseteq Nat, T # {}
    PROVE  \E x \in T : \A y \in T : x <= y
<1> DEFINE R == OpToRel(<, Nat)
<1>1. IsWellFoundedOn(R, Nat)
  BY NatLessThanWellFounded
<1>2. \A x, y \in Nat : x < y => <<x, y>> \in R
  BY DEF OpToRel
<1> HIDE DEF R
<1>3. \E x \in T : \A y \in T : ~ (<<y, x>> \in R)
  BY <1>1, WFMin
<1>4. PICK x \in T : \A y \in T : ~ (<<y, x>> \in R)
  BY <1>3
<1>5. ASSUME NEW y \in T PROVE x <= y
  <2>1. x \in Nat /\ y \in Nat
    OBVIOUS
  <2>2. ~(y < x)
    BY <1>2, <1>4, <2>1
  <2>3. QED
    BY <2>1, <2>2
<1>6. QED
  BY <1>5

\* Min is that element.
LEMMA MinFact ==
    ASSUME NEW T, T \subseteq Nat, T # {}
    PROVE  Min(T) \in T /\ \A y \in T : Min(T) <= y
BY Least DEF Min

\* Max is the greatest element of a set of naturals that has one.
LEMMA MaxFact ==
    ASSUME NEW T, NEW m \in T, T \subseteq Nat, \A y \in T : y <= m
    PROVE  Max(T) = m
<1>1. Max(T) \in T /\ \A y \in T : Max(T) >= y
  BY DEF Max
<1>2. Max(T) \in Nat /\ m \in Nat /\ Max(T) <= m /\ Max(T) >= m
  BY <1>1
<1>3. QED
  BY <1>2

-----------------------------------------------------------------------------
(* The topology of X86Topology is made of naturals.                          *)

\* The power of two a count is cut down to.
LEMMA PowerBelow ==
    ASSUME NEW n \in Nat \ {0}
    PROVE  Max({p \in Powers : p <= n}) \in Powers
<1> DEFINE T == {p \in Powers : p <= n}
<1>1. \E m \in T : \A y \in T : y <= m
  BY DEF Powers
<1>2. T \subseteq Nat
  BY DEF Powers
<1>3. QED
  BY <1>1, <1>2, MaxFact

\* The power of two a count is rounded up to.
LEMMA RoundUpFact ==
    ASSUME NEW n \in Nat, 1 <= n, n <= 32768
    PROVE  RoundUp(n) \in Nat
<1> DEFINE T == {p \in Powers : p >= n}
<1>1. T \subseteq Nat /\ 32768 \in T
  BY DEF Powers
<1>2. Min(T) \in T
  BY <1>1, MinFact
<1>3. QED
  BY <1>1, <1>2 DEF RoundUp

\* The bitwise conjunction of naturals is a natural.
LEMMA AndType ==
    ASSUME NEW x \in Nat, NEW y \in Nat
    PROVE  And(x, y) \in Nat
<1>1. \A bit \in Nat : AndBit(bit, x, y) \in Nat
  BY DEF AndBit
<1>2. \A bit \in Nat : AndNibble(bit, x, y) \in Nat
  BY <1>1 DEF AndNibble
<1>3. QED
  BY <1>2 DEF And

Tops == [tpc : Nat, cpp : Nat, apic : Nat]
Places == [thread : Nat, core : Nat, pkg : Nat]

\* Shifting leaves a natural.
LEMMA ShiftType ==
    ASSUME NEW a \in Nat, NEW n \in Nat \ {0}
    PROVE  ShiftOut(a, n) \in Nat
<1>1. Max({p \in Powers : p <= n}) \in Powers
  BY PowerBelow
<1>2. \A p \in Powers : a \div p \in Nat
  BY DEF Powers
<1>3. QED
  BY <1>1, <1>2 DEF ShiftOut

\* What x86topology() gives, if it gives a place.
LEMMA PlaceType ==
    ASSUME NEW t \in Tops
    PROVE  X86TopologyOf(t) = NoPlace \/ X86TopologyOf(t) \in Places
<1>1. SUFFICES ASSUME t.tpc # 0, t.cpp # 0
               PROVE  X86TopologyOf(t) \in Places
  BY DEF X86TopologyOf
<1>2. t.tpc \in Nat \ {0} /\ t.cpp \in Nat \ {0} /\ t.apic \in Nat
  BY <1>1 DEF Tops
<1> DEFINE rest == ShiftOut(t.apic, t.tpc)
<1>3. rest \in Nat
  BY <1>2, ShiftType
<1>4. ShiftOut(rest, t.cpp) \in Nat
  BY <1>2, <1>3, ShiftType
<1>5. t.tpc - 1 \in Nat /\ t.cpp - 1 \in Nat
  BY <1>2
<1>6. And(t.apic, t.tpc - 1) \in Nat /\ And(rest, t.cpp - 1) \in Nat
  BY <1>2, <1>3, <1>5, AndType
<1>7. X86TopologyOf(t) = [thread |-> And(t.apic, t.tpc - 1), core |-> And(rest, t.cpp - 1),
                          pkg |-> ShiftOut(rest, t.cpp)]
  BY <1>1 DEF X86TopologyOf
<1>8. QED
  BY <1>4, <1>6, <1>7 DEF Places

\* Division of naturals.
LEMMA DivFact ==
    ASSUME NEW b \in Nat \ {0}, NEW n \in Nat
    PROVE  n \div b \in Nat /\ n = b * (n \div b) + (n % b) /\ n % b \in 0 .. b - 1
OBVIOUS

\* A quotient below a product.
LEMMA DivBound ==
    ASSUME NEW a \in Nat, NEW b \in Nat \ {0}, NEW n \in Nat, n < a * b
    PROVE  n \div b \in Nat /\ n \div b < a
<1> DEFINE q == n \div b
<1>1. q \in Nat /\ b * q <= n
  <2>1. q \in Nat /\ n = b * q + (n % b) /\ n % b \in 0 .. b - 1
    BY DivFact
  <2>2. b * q \in Nat
    BY <2>1
  <2> HIDE DEF q
  <2>3. QED
    BY <2>1, <2>2
<1> HIDE DEF q
<1>2. ASSUME q >= a PROVE FALSE
  <2>1. PICK d \in Nat : q = a + d
    BY <1>1, <1>2
  <2>2. b * q = a * b + b * d /\ b * d \in Nat /\ a * b \in Nat
    BY <2>1
  <2>3. QED
    BY <1>1, <2>2
<1>3. QED
  BY <1>1, <1>2 DEF q

\* What the machines are.
LEMMA MachineFact ==
    ASSUME NEW m \in Machines
    PROVE  /\ m.tpc \in Nat /\ 1 <= m.tpc /\ m.tpc <= 128
           /\ m.cores \in Nat /\ 1 <= m.cores /\ m.cores <= 128
           /\ m.pkgs \in Nat \ {0} /\ m.max \in Nat
<1>1. m.tpc \in 1 .. 128 /\ m.cores \in 1 .. 128 /\ m.pkgs \in Nat \ {0} /\ m.max \in Nat
  BY HardwareAssumption
<1>2. QED
  BY <1>1

\* A processor of a machine has a thread, a core and a package of that machine.
LEMMA PlaceBounds ==
    ASSUME NEW m \in Machines, NEW n \in Cpus(m)
    PROVE  /\ Place(m, n).thread \in Nat /\ Place(m, n).thread < m.tpc
           /\ Place(m, n).core \in Nat /\ Place(m, n).core < m.cores
           /\ Place(m, n).pkg \in Nat /\ Place(m, n).pkg < m.pkgs
<1>1. m.tpc \in Nat \ {0} /\ m.cores \in Nat \ {0} /\ m.pkgs \in Nat \ {0}
  BY MachineFact
<1>2. n \in Nat /\ n < m.tpc * m.cores * m.pkgs
  <2>1. m.tpc * m.cores * m.pkgs \in Nat
    BY <1>1
  <2>2. QED
    BY <2>1 DEF Cpus
<1>3. \A k \in Nat, d \in Nat \ {0} : k % d \in Nat /\ k % d < d
  OBVIOUS
<1>4. \A k \in Nat, d \in Nat \ {0} : k \div d \in Nat
  OBVIOUS
<1>5. m.tpc * m.cores \in Nat \ {0} /\ m.cores * m.pkgs \in Nat \ {0}
  BY <1>1
<1>6. CASE m.order = "threads"
  <2>1. n < m.pkgs * (m.tpc * m.cores)
    BY <1>1, <1>2
  <2>2. n \div (m.tpc * m.cores) \in Nat /\ n \div (m.tpc * m.cores) < m.pkgs
    BY <1>1, <1>2, <1>5, <2>1, DivBound
  <2>3. (n \div m.tpc) % m.cores \in Nat /\ (n \div m.tpc) % m.cores < m.cores
    BY <1>1, <1>2, <1>3, <1>4
  <2>4. n % m.tpc \in Nat /\ n % m.tpc < m.tpc
    BY <1>1, <1>2, <1>3
  <2>5. QED
    BY <1>6, <2>2, <2>3, <2>4 DEF Place
<1>7. CASE m.order # "threads"
  <2>1. n < m.tpc * (m.cores * m.pkgs)
    BY <1>1, <1>2
  <2>2. n \div (m.cores * m.pkgs) \in Nat /\ n \div (m.cores * m.pkgs) < m.tpc
    BY <1>1, <1>2, <1>5, <2>1, DivBound
  <2>3. (n \div m.cores) % m.pkgs \in Nat /\ (n \div m.cores) % m.pkgs < m.pkgs
    BY <1>1, <1>2, <1>3, <1>4
  <2>4. n % m.cores \in Nat /\ n % m.cores < m.cores
    BY <1>1, <1>2, <1>3
  <2>5. QED
    BY <1>7, <2>2, <2>3, <2>4 DEF Place
<1>8. QED
  BY <1>6, <1>7

\* A small count is rounded up to a small power of two.
LEMMA RoundUpSmall ==
    ASSUME NEW n \in Nat, 1 <= n, n <= 128
    PROVE  RoundUp(n) \in Nat /\ 1 <= RoundUp(n) /\ RoundUp(n) <= 128
<1> DEFINE T == {p \in Powers : p >= n}
<1>1. T \subseteq Nat /\ 128 \in T
  BY DEF Powers
<1>2. Min(T) \in T /\ Min(T) <= 128
  BY <1>1, MinFact
<1>3. QED
  BY <1>1, <1>2 DEF RoundUp

\* The APIC ID of a processor of a machine is a natural.
LEMMA ApicType ==
    ASSUME NEW m \in Machines, NEW n \in Cpus(m)
    PROVE  Apic(m, n) \in Nat
<1>1. RoundUp(m.tpc) \in Nat /\ RoundUp(m.cores) \in Nat
  BY MachineFact, RoundUpSmall
<1>2. QED
  BY <1>1, PlaceBounds DEF Apic

\* The product of two small counts.
LEMMA SmallProduct ==
    ASSUME NEW x \in Nat, NEW y \in Nat, 1 <= x, x <= 128, 1 <= y, y <= 128
    PROVE  x * y \in Nat /\ 1 <= x * y /\ x * y <= 32768
<1>1. x * y \in Nat /\ x * y <= 128 * y /\ x * y >= 1
  OBVIOUS
<1>2. QED
  BY <1>1

\* What CPUID says of the topology of a processor of a machine.
LEMMA RegsType ==
    ASSUME NEW m \in Machines, NEW n \in Cpus(m)
    PROVE  VendorTopology(Regs(m, n)) \in Tops
<1> DEFINE r == Regs(m, n)
<1>1. m.tpc \in Nat /\ m.cores \in Nat /\ m.max \in Nat /\ m.tpc * m.cores \in Nat
  BY MachineFact, SmallProduct
<1>2. Apic(m, n) \in Nat
  BY ApicType
<1>3. \A k \in Nat : 1 <= k /\ k <= 32768 => RoundUp(k) \in Nat
  BY RoundUpFact
<1>4. /\ RoundUp(m.tpc) \in Nat /\ 1 <= RoundUp(m.tpc) /\ RoundUp(m.tpc) <= 128
      /\ RoundUp(m.cores) \in Nat /\ 1 <= RoundUp(m.cores) /\ RoundUp(m.cores) <= 128
  BY MachineFact, RoundUpSmall
<1>5. RoundUp(m.tpc) * RoundUp(m.cores) \in Nat /\ 1 <= RoundUp(m.tpc) * RoundUp(m.cores)
      /\ RoundUp(m.tpc) * RoundUp(m.cores) <= 32768
  BY <1>4, SmallProduct
<1>6. /\ r.vendor = m.vendor /\ r.max = m.max
      /\ r.logical \in Nat /\ 1 <= r.logical /\ r.logical <= 32768
      /\ r.cores \in Nat /\ 1 <= r.cores
  BY <1>4, <1>5 DEF Regs
<1>7. r.legacy \in Nat
  BY <1>2 DEF Regs
<1>8. r.b[0].count = m.tpc /\ r.b[1].count = m.tpc * m.cores /\ r.b[0].apic = Apic(m, n)
  BY DEF Regs
<1> HIDE DEF r
<1>9. X86Apic(r) = NoApic \/ X86Apic(r) \in Nat
  BY <1>2, <1>7, <1>8 DEF X86Apic
<1>10. NoTopology \in Tops
  BY DEF NoTopology, Tops
<1>11. \A cpp \in Nat : IdX86Topology(r, cpp) \in Tops
  <2>1. RoundUp(IF r.ht THEN r.logical ELSE 1) \in Nat
    BY <1>3, <1>6
  <2>2. QED
    BY <1>10, <2>1 DEF IdX86Topology, Tops
<1>12. IdIntelTopology(r) \in Tops
  <2>1. CASE r.max < StandardTopology
    BY <1>11, <2>1 DEF IdIntelTopology
  <2>2. CASE ~(r.max < StandardTopology) /\ X86Apic(r) # NoApic
    BY <1>1, <1>8, <1>9, <1>10, <2>2 DEF IdIntelTopology, Tops
  <2>3. CASE ~(r.max < StandardTopology) /\ X86Apic(r) = NoApic
    BY <1>10, <2>3 DEF IdIntelTopology
  <2>4. QED
    BY <2>1, <2>2, <2>3
<1>13. ASSUME NEW t \in Tops PROVE IntelCores(r, t) \in Tops
  <2>1. t.tpc \in Nat /\ t.cpp \in Nat /\ t.apic \in Nat
    BY DEF Tops
  <2>2. \A x \in Nat : [t EXCEPT !.cpp = x] \in Tops
    BY DEF Tops
  <2>3. \A x, y \in Nat : [t EXCEPT !.tpc = x, !.cpp = y] \in Tops
    BY DEF Tops
  <2>4. t.tpc \div r.cores \in Nat /\ r.cores \in Nat
    BY <1>6, <2>1
  <2>5. QED
    BY <1>10, <2>1, <2>2, <2>3, <2>4 DEF IntelCores
<1>14. QED
  BY <1>10, <1>11, <1>12, <1>13 DEF VendorTopology, IdAmdTopology, r

\* The kind of a processor of a machine is one with TLBs.
LEMMA KindType ==
    ASSUME NEW m \in Machines, NEW n \in Cpus(m)
    PROVE  Kind(m, n) \in DOMAIN TlbPages
<1>1. m.kinds \in Seq(DOMAIN TlbPages) /\ Len(m.kinds) = m.pkgs /\ m.pkgs \in Nat
  BY HardwareAssumption
<1>2. Place(m, n).pkg + 1 \in 1 .. Len(m.kinds)
  BY <1>1, PlaceBounds
<1>3. QED
  BY <1>1, <1>2 DEF Kind

-----------------------------------------------------------------------------
(* The types of processors.                                                  *)

Descs == [kind : DOMAIN TlbPages, top : Tops, pad : Pads \cup {0}]
TypeRecs == [desc : Descs, elements : Nat]
Distinct == \A i, j \in DOMAIN types : types[i].desc = types[j].desc => i = j

\* match_cputype() gives the place of the description, or 0 when it has none.
LEMMA MatchFact ==
    ASSUME types \in Seq(TypeRecs), NEW desc
    PROVE  \/ MatchCputype(desc) = 0 /\ \A i \in DOMAIN types : types[i].desc # desc
           \/ MatchCputype(desc) \in DOMAIN types /\ types[MatchCputype(desc)].desc = desc
<1> DEFINE I == {i \in 1 .. Len(types) : types[i].desc = desc}
<1>1. MatchCputype(desc) = IF I # {} THEN Min(I) ELSE 0
  BY DEF MatchCputype, SelectInSeq
<1>2. I \subseteq Nat /\ DOMAIN types = 1 .. Len(types)
  OBVIOUS
<1>3. CASE I = {}
  BY <1>1, <1>2, <1>3
<1>4. CASE I # {}
  <2>1. Min(I) \in I
    BY <1>2, <1>4, MinFact
  <2>2. QED
    BY <1>1, <1>2, <1>4, <2>1
<1>5. QED
  BY <1>3, <1>4

\* Counting a processor keeps the descriptions there are, at their places, and
\* none twice.
LEMMA CountTypeFact ==
    ASSUME types \in Seq(TypeRecs), Distinct, NEW desc \in Descs, types' = CountType(desc)
    PROVE  /\ types' \in Seq(TypeRecs) /\ Distinct'
           /\ \A i \in DOMAIN types : i \in DOMAIN types' /\ types'[i].desc = types[i].desc
           /\ MatchCputype(desc) = 0 => Len(types') = Len(types) + 1 /\ types'[Len(types')].desc = desc
           /\ MatchCputype(desc) # 0 =>
                /\ Len(types') = Len(types) /\ MatchCputype(desc) \in DOMAIN types'
                /\ types'[MatchCputype(desc)].desc = desc
<1> DEFINE n == MatchCputype(desc)
           one == [desc |-> desc, elements |-> 1]
<1>1. CASE n = 0
  <2>1. types' = Append(types, one)
    BY <1>1 DEF CountType
  <2>2. one \in TypeRecs /\ one.desc = desc
    BY DEF TypeRecs
  <2>3. \A i \in DOMAIN types : types[i].desc # desc
    BY <1>1, MatchFact
  <2> HIDE DEF one
  <2>4. /\ types' \in Seq(TypeRecs) /\ Len(types') = Len(types) + 1
        /\ DOMAIN types' = 1 .. Len(types) + 1 /\ DOMAIN types = 1 .. Len(types)
        /\ \A i \in DOMAIN types : types'[i] = types[i]
        /\ types'[Len(types) + 1] = one
    BY <2>1, <2>2
  <2>5. Distinct'
    BY <2>2, <2>3, <2>4 DEF Distinct
  <2>6. QED
    BY <1>1, <2>2, <2>4, <2>5
<1>2. CASE n # 0
  <2>1. n \in DOMAIN types /\ types[n].desc = desc
    BY <1>2, MatchFact
  <2>2. types' = [types EXCEPT ![n].elements = @ + 1]
    BY <1>2 DEF CountType
  <2> HIDE DEF n
  <2>3. types[n] \in TypeRecs
    BY <2>1
  <2>4. [types[n] EXCEPT !.elements = @ + 1] \in TypeRecs
    BY <2>3 DEF TypeRecs
  <2>5. types' \in Seq(TypeRecs) /\ Len(types') = Len(types) /\ DOMAIN types' = DOMAIN types
    BY <2>1, <2>2, <2>4
  <2>6. \A i \in DOMAIN types : types'[i].desc = types[i].desc
    <3>1. types'[n].desc = types[n].desc
      BY <2>1, <2>2, <2>3 DEF TypeRecs
    <3>2. \A i \in DOMAIN types : i # n => types'[i] = types[i]
      BY <2>2
    <3>3. QED
      BY <3>1, <3>2
  <2>7. Distinct'
    BY <2>5, <2>6 DEF Distinct
  <2>8. QED
    BY <1>2, <2>1, <2>5, <2>6, <2>7 DEF n
<1>3. QED
  BY <1>1, <1>2

\* Counting a processor counts one more.
LEMMA CountedFact ==
    ASSUME types \in Seq(TypeRecs), NEW desc \in Descs, types' = CountType(desc),
           IsFiniteSet(Counted)
    PROVE  IsFiniteSet(Counted') /\ Cardinality(Counted') = Cardinality(Counted) + 1
<1> DEFINE n == MatchCputype(desc)
           one == [desc |-> desc, elements |-> 1]
           x == IF n = 0 THEN <<Len(types) + 1, 1>> ELSE <<n, types[n].elements + 1>>
<1>1. Counted' = Counted \cup {x} /\ x \notin Counted
  <2>1. CASE n = 0
    <3>1. types' = Append(types, one)
      BY <2>1 DEF CountType
    <3>2. one.elements = 1
      OBVIOUS
    <3> HIDE DEF one
    <3>3. /\ DOMAIN types' = 1 .. Len(types) + 1 /\ DOMAIN types = 1 .. Len(types)
          /\ \A i \in DOMAIN types : types'[i] = types[i]
          /\ types'[Len(types) + 1] = one
      BY <3>1
    <3>4. x = <<Len(types) + 1, 1>> /\ Len(types) \in Nat
      BY <2>1
    <3> HIDE DEF x, n
    <3>5. x \notin Counted
      BY <3>3, <3>4 DEF Counted
    <3>6. Counted' = Counted \cup {x}
      <4>1. {Len(types) + 1} \X (1 .. types'[Len(types) + 1].elements) = {x}
        BY <3>2, <3>3, <3>4
      <4>2. DOMAIN types' = DOMAIN types \cup {Len(types) + 1}
        BY <3>3, <3>4
      <4>3. QED
        BY <3>3, <4>1, <4>2 DEF Counted
    <3>7. QED
      BY <3>5, <3>6
  <2>2. CASE n # 0
    <3>1. n \in DOMAIN types
      BY <2>2, MatchFact
    <3>2. types' = [types EXCEPT ![n].elements = @ + 1]
      BY <2>2 DEF CountType
    <3>3. x = <<n, types[n].elements + 1>>
      BY <2>2
    <3> HIDE DEF x, n
    <3>4. types[n] \in TypeRecs
      BY <3>1
    <3>5. types[n].elements \in Nat /\ types'[n].elements = types[n].elements + 1
      BY <3>1, <3>2, <3>4 DEF TypeRecs
    <3>6. DOMAIN types' = DOMAIN types /\ \A i \in DOMAIN types : i # n => types'[i] = types[i]
      BY <3>2
    <3> DEFINE E(i) == {i} \X (1 .. types[i].elements)
               F(i) == {i} \X (1 .. types'[i].elements)
    <3>7. F(n) = E(n) \cup {x}
      BY <3>3, <3>5
    <3>8. \A i \in DOMAIN types : i # n => F(i) = E(i)
      BY <3>6
    <3>9. Counted = UNION {E(i) : i \in DOMAIN types} /\ Counted' = UNION {F(i) : i \in DOMAIN types}
      BY <3>6 DEF Counted
    <3>10. \A i \in DOMAIN types : x \notin E(i)
      BY <3>3, <3>5
    <3> HIDE DEF E, F
    <3>11. QED
      BY <3>1, <3>7, <3>8, <3>9, <3>10
  <2>3. QED
    BY <2>1, <2>2
<1> HIDE DEF x
<1>2. QED
  BY <1>1, FS_AddElement

-----------------------------------------------------------------------------
(* The invariant of detect_architecture(): processors done, threads, types   *)
(* and descriptions.                                                         *)

Detecting == {"count", "pin", "cpuid", "type", "topologize", "spawn"}
Detected == {"cuda", "tlbs", "done"}
Labels == Detecting \cup Detected \cup {"unwind", "free", "failed"}

\* The type of the processor being placed
TypeIndex == IF cpu.desc = 0 THEN Len(types) ELSE cpu.desc

\* The processors of the mask before the one looked at
Before == {a \in mask : a < aid}

Typing ==
    /\ pc \in Labels /\ mach \in Machines /\ mask # {} /\ mask \subseteq Cpus(mach)
    /\ aid \in Nat /\ types \in Seq(TypeRecs) /\ threads \in Seq(Nat) /\ gpu \in Nat /\ live \in Int
DescribedNow ==
    pc = "type" => /\ cpu \in [desc : Descs, place : Places] /\ cpu.desc.kind = Kind(mach, aid)
                   /\ cpu.place = X86TopologyOf(VendorTopology(Regs(mach, aid)))
TypedNow ==
    pc = "topologize" =>
        /\ cpu \in [desc : Nat, place : Places]
        /\ TypeIndex \in DOMAIN types /\ types[TypeIndex].desc.kind = Kind(mach, aid)
        /\ cpu.place = X86TopologyOf(VendorTopology(Regs(mach, aid)))
PinnedNow == pc \in {"cpuid", "type", "topologize", "spawn"} => aid \in mask /\ affinity = {aid}
Spawned ==
    /\ pc \in Detecting => Range(threads) = Before /\ Len(threads) = Cardinality(Before)
    /\ pc \in Detected => /\ Range(threads) = mask /\ Len(threads) = Cardinality(mask)
                          /\ affinity = mask /\ mask \subseteq Before
Restored == pc \in {"free", "failed"} /\ fault \notin {"unpin", "getaffinity"} => affinity = mask
Alive == live = Len(types) + (IF pc = "type" THEN 1 ELSE 0)
Summed ==
    pc \in Detecting \cup Detected =>
        /\ IsFiniteSet(Counted)
        /\ Cardinality(Counted) = Len(threads) + gpu + (IF pc \in {"topologize", "spawn"} THEN 1 ELSE 0)
Released ==
    /\ pc \in {"free", "failed"} /\ fault \notin {"cuda", "pages", "node"} => threads = <<>>
    /\ pc = "failed" => zones = <<>> /\ types = <<>> /\ nodes = <<>>

Base == /\ Typing /\ DescribedNow /\ TypedNow /\ PinnedNow /\ Spawned /\ Restored
        /\ Alive /\ Distinct /\ Summed /\ Released

\* A mask is a finite set of naturals.
LEMMA MaskFact ==
    ASSUME Typing
    PROVE  IsFiniteSet(mask) /\ mask \subseteq Nat /\ IsFiniteSet(Before) /\ Cardinality(Before) \in Nat
<1>1. mach.tpc * mach.cores * mach.pkgs \in Nat
  <2>1. mach.tpc \in Nat /\ mach.cores \in Nat /\ mach.pkgs \in Nat
    BY MachineFact DEF Typing
  <2>2. QED
    BY <2>1
<1>2. IsFiniteSet(Cpus(mach)) /\ Cpus(mach) \subseteq Nat
  BY <1>1, FS_Interval DEF Cpus
<1>3. IsFiniteSet(mask)
  BY <1>2, FS_Subset DEF Typing
<1>4. IsFiniteSet(Before)
  BY <1>3, FS_Subset DEF Before
<1>5. QED
  BY <1>2, <1>3, <1>4, FS_CardinalityType DEF Typing

\* The invariant holds initially.
LEMMA BaseInit == Init => Base
<1>1. SUFFICES ASSUME Init PROVE Base
  OBVIOUS
<1>2. Typing
  BY <1>1 DEF Init, Typing, Labels, Detecting
<1>3. Before = {}
  <2>1. mask \subseteq Nat
    BY <1>2, MaskFact
  <2>2. aid = 0
    BY <1>1 DEF Init
  <2>3. ASSUME NEW a \in mask PROVE ~(a < aid)
    <3>1. a \in Nat
      BY <2>1
    <3>2. QED
      BY <2>2, <3>1
  <2>4. QED
    BY <2>3 DEF Before
<1>4. Range(threads) = {} /\ Len(threads) = 0 /\ Counted = {}
  BY <1>1 DEF Init, Range, Counted
<1>5. Cardinality({}) = 0 /\ IsFiniteSet({})
  BY FS_EmptySet
<1>6. Spawned
  BY <1>1, <1>3, <1>4, <1>5 DEF Init, Spawned, Detecting, Detected
<1>7. Summed
  BY <1>1, <1>4, <1>5 DEF Init, Summed
<1>8. Alive /\ Distinct
  BY <1>1 DEF Init, Alive, Distinct
<1>9. QED
  BY <1>1, <1>2, <1>6, <1>7, <1>8
     DEF Init, Base, DescribedNow, TypedNow, PinnedNow, Restored, Released

\* What the processors done, their threads and their types depend on
Core == <<mach, mask, aid, types, threads, gpu>>

\* A step that changes none of these keeps what is said of them.
LEMMA CoreFrame ==
    ASSUME Typing, Distinct, UNCHANGED Core, pc' \in Labels, live' \in Int
    PROVE  /\ Typing' /\ Distinct' /\ Before' = Before /\ Counted' = Counted
           /\ Range(threads') = Range(threads)
BY DEF Core, Typing, Distinct, Before, Counted, Range

\* A failing call between processors leaves the invariant to the error path.
LEMMA BaseFails ==
    ASSUME Base, UNCHANGED <<Core, live>>, pc # "type", pc' = "unwind"
    PROVE  Base'
<1>1. Typing /\ Distinct /\ Alive
  BY DEF Base
<1>2. Typing' /\ Distinct'
  <2>1. pc' \in Labels /\ live' \in Int /\ UNCHANGED Core
    BY <1>1 DEF Labels, Typing
  <2>2. QED
    BY <1>1, <2>1, CoreFrame
<1>3. Alive'
  BY <1>1 DEF Alive, Core
<1>4. QED
  BY <1>2, <1>3 DEF Base, DescribedNow, TypedNow, PinnedNow, Spawned, Restored, Summed, Released,
                    Detecting, Detected

\* detect_cpucount().
LEMMA BaseDetectCpucount == Base /\ DetectCpucount => Base'
<1>1. SUFFICES ASSUME Base, DetectCpucount PROVE Base'
  OBVIOUS
<1>2. UNCHANGED <<Core, live>> /\ pc = "count"
  BY <1>1 DEF DetectCpucount, Core, detvars
<1>3. CASE pc' = "unwind"
  BY <1>1, <1>2, <1>3, BaseFails
<1>4. CASE pc' = "pin"
  <2>1. /\ Typing' /\ Distinct' /\ Before' = Before /\ Counted' = Counted
        /\ Range(threads') = Range(threads)
    <3>1. pc' \in Labels /\ live' \in Int /\ UNCHANGED Core /\ Typing /\ Distinct
      BY <1>1, <1>2, <1>4 DEF Base, Typing, Labels, Detecting
    <3>2. QED
      BY <3>1, CoreFrame
  <2>2. Spawned'
    BY <1>1, <1>2, <1>4, <2>1 DEF Base, Spawned, Detecting, Detected, Core
  <2>3. Summed'
    BY <1>1, <1>2, <1>4, <2>1 DEF Base, Summed, Detecting, Core
  <2>4. Alive'
    BY <1>1, <1>2, <1>4 DEF Base, Alive, Core
  <2>5. QED
    BY <1>4, <2>1, <2>2, <2>3, <2>4
       DEF Base, DescribedNow, TypedNow, PinnedNow, Restored, Released
<1>5. QED
  BY <1>1, <1>3, <1>4 DEF DetectCpucount, FailAt

\* The processors left, as long as a thread is missing.
LEMMA RestFact ==
    ASSUME Typing, Spawned, pc = "pin", Len(threads) < Cardinality(mask)
    PROVE  LET rest == {a \in mask : a >= aid} IN
           /\ Min(rest) \in mask /\ Min(rest) \in Nat
           /\ {a \in mask : a < Min(rest)} = Before
<1> DEFINE rest == {a \in mask : a >= aid}
<1>1. mask \subseteq Nat /\ aid \in Nat
  BY MaskFact DEF Typing
<1>2. Before # mask
  <2>1. Len(threads) = Cardinality(Before) /\ Cardinality(Before) \in Nat
    BY MaskFact DEF Spawned, Detecting
  <2>2. QED
    BY <2>1
<1>3. rest \subseteq Nat /\ rest # {}
  <2>1. PICK a \in mask : ~(a < aid)
    BY <1>2 DEF Before
  <2>2. a \in rest
    BY <1>1, <2>1
  <2>3. QED
    BY <1>1, <2>2
<1>4. Min(rest) \in rest /\ \A y \in rest : Min(rest) <= y
  BY <1>3, MinFact
<1>5. {a \in mask : a < Min(rest)} = Before
  <2> HIDE DEF rest
  <2>1. Min(rest) \in Nat /\ Min(rest) >= aid
    BY <1>1, <1>4 DEF rest
  <2>2. ASSUME NEW a \in mask PROVE a < Min(rest) <=> a < aid
    <3>1. a \in Nat
      BY <1>1
    <3>2. a >= aid => Min(rest) <= a
      BY <1>4 DEF rest
    <3>3. QED
      BY <1>1, <2>1, <3>1, <3>2
  <2>3. QED
    BY <2>2 DEF Before
<1>6. QED
  BY <1>1, <1>4, <1>5

\* pin_thread().
LEMMA BasePinThread == Base /\ PinThread => Base'
<1>1. SUFFICES ASSUME Base, PinThread PROVE Base'
  OBVIOUS
<1> DEFINE rest == {a \in mask : a >= aid}
<1>2. /\ UNCHANGED <<mach, mask, types, threads, gpu, live>>
      /\ pc = "pin" /\ Len(threads) < Cardinality(mask) /\ aid' = Min(rest)
      /\ pc' \in {"cpuid", "unwind"} /\ (pc' = "cpuid" => affinity' = {aid'})
  BY <1>1 DEF PinThread, detvars, FailAt
<1>3. /\ Typing /\ Spawned /\ Distinct /\ Alive /\ Summed
  BY <1>1 DEF Base
<1>4. aid' \in mask /\ aid' \in Nat /\ Before' = Before
  <2>1. Min(rest) \in mask /\ Min(rest) \in Nat /\ {a \in mask : a < Min(rest)} = Before
    BY <1>2, <1>3, RestFact
  <2> HIDE DEF rest
  <2>2. QED
    BY <1>2, <2>1 DEF Before
<1> HIDE DEF rest
<1>5. Typing'
  BY <1>2, <1>3, <1>4 DEF Typing, Labels, Detecting
<1>6. Distinct' /\ Counted' = Counted /\ Range(threads') = Range(threads)
  BY <1>2, <1>3 DEF Distinct, Counted, Range
<1>7. Alive'
  BY <1>2, <1>3 DEF Alive
<1>8. Spawned'
  BY <1>2, <1>3, <1>4, <1>6 DEF Spawned, Detecting, Detected
<1>9. Summed'
  BY <1>2, <1>3, <1>6 DEF Summed, Detecting, Detected
<1>10. PinnedNow'
  BY <1>2, <1>4 DEF PinnedNow
<1>11. QED
  BY <1>2, <1>5, <1>6, <1>7, <1>8, <1>9, <1>10 DEF Base, DescribedNow, TypedNow, Restored, Released

\* detect_cpudetails().
LEMMA BaseDetectCpudetails == Base /\ DetectCpudetails => Base'
<1>1. SUFFICES ASSUME Base, DetectCpudetails PROVE Base'
  OBVIOUS
<1> DEFINE t == VendorTopology(Regs(mach, aid))
           place == X86TopologyOf(t)
<1>2. UNCHANGED Core /\ UNCHANGED affinity /\ pc = "cpuid"
  BY <1>1 DEF DetectCpudetails, Core, detvars
<1>3. Typing /\ PinnedNow /\ Spawned /\ Distinct /\ Alive /\ Summed
  BY <1>1 DEF Base
<1>4. CASE pc' = "unwind" /\ UNCHANGED live
  BY <1>1, <1>2, <1>4, BaseFails
<1>5. CASE /\ pc' = "type" /\ live' = live + 1 /\ place # NoPlace
           /\ \E pad \in Pads : cpu' = [desc |-> [kind |-> Kind(mach, aid), top |-> t, pad |-> pad],
                                        place |-> place]
  <2>1. aid \in Cpus(mach) /\ mach \in Machines
    BY <1>2, <1>3 DEF PinnedNow, Typing
  <2>2. t \in Tops /\ Kind(mach, aid) \in DOMAIN TlbPages
    BY <2>1, RegsType, KindType
  <2>3. place \in Places
    BY <1>5, <2>2, PlaceType
  <2>4. PICK pad \in Pads : cpu' = [desc |-> [kind |-> Kind(mach, aid), top |-> t, pad |-> pad],
                                    place |-> place]
    BY <1>5
  <2>5. DescribedNow'
    <3>1. mach' = mach /\ aid' = aid
      BY <1>2 DEF Core
    <3>2. cpu'.place = X86TopologyOf(VendorTopology(Regs(mach', aid')))
      BY <2>4, <3>1
    <3>3. cpu'.desc.kind = Kind(mach', aid')
      BY <2>4, <3>1
    <3> HIDE DEF t, place
    <3>4. cpu' \in [desc : Descs, place : Places]
      BY <2>2, <2>3, <2>4 DEF Descs
    <3>5. QED
      BY <3>2, <3>3, <3>4 DEF DescribedNow
  <2>6. /\ Typing' /\ Distinct' /\ Before' = Before /\ Counted' = Counted
        /\ Range(threads') = Range(threads)
    <3>1. pc' \in Labels /\ live' \in Int
      BY <1>3, <1>5 DEF Typing, Labels, Detecting
    <3>2. QED
      BY <1>2, <1>3, <3>1, CoreFrame
  <2>7. Alive'
    BY <1>2, <1>3, <1>5 DEF Alive, Core
  <2>8. Spawned'
    BY <1>2, <1>3, <1>5, <2>6 DEF Spawned, Detecting, Detected, Core
  <2>9. Summed'
    BY <1>2, <1>3, <1>5, <2>6 DEF Summed, Detecting, Detected, Core
  <2>10. PinnedNow'
    BY <1>2, <1>3, <1>5 DEF PinnedNow, Core
  <2>11. QED
    BY <1>5, <2>5, <2>6, <2>7, <2>8, <2>9, <2>10 DEF Base, TypedNow, Restored, Released
<1>6. QED
  BY <1>1, <1>4, <1>5 DEF DetectCpudetails, FailAt

\* add_cputype().
LEMMA BaseAddCputype == Base /\ AddCputype => Base'
<1>1. SUFFICES ASSUME Base, AddCputype PROVE Base'
  OBVIOUS
<1> DEFINE n == MatchCputype(cpu.desc)
<1>2. /\ UNCHANGED <<mach, mask, aid, threads, gpu, affinity>> /\ pc = "type"
  BY <1>1 DEF AddCputype, detvars
<1>3. Typing /\ DescribedNow /\ PinnedNow /\ Spawned /\ Distinct /\ Alive /\ Summed
  BY <1>1 DEF Base
<1>4. CASE pc' = "unwind" /\ live' = live - 1 /\ UNCHANGED types
  <2>1. Typing' /\ Distinct'
    BY <1>2, <1>3, <1>4 DEF Typing, Distinct, Labels
  <2>2. Alive'
    BY <1>2, <1>3, <1>4 DEF Alive, Typing
  <2>3. QED
    BY <1>4, <2>1, <2>2 DEF Base, DescribedNow, TypedNow, PinnedNow, Spawned, Restored, Summed,
                            Released, Detecting, Detected
<1>5. CASE /\ pc' = "topologize" /\ types' = CountType(cpu.desc)
           /\ live' = (IF n = 0 THEN live ELSE live - 1) /\ cpu' = [cpu EXCEPT !.desc = n]
  <2>1. /\ cpu \in [desc : Descs, place : Places] /\ cpu.desc \in Descs
        /\ cpu.desc.kind = Kind(mach, aid)
        /\ cpu.place = X86TopologyOf(VendorTopology(Regs(mach, aid)))
    BY <1>2, <1>3 DEF DescribedNow
  <2>2. /\ types' \in Seq(TypeRecs) /\ Distinct'
        /\ n = 0 => Len(types') = Len(types) + 1 /\ types'[Len(types')].desc = cpu.desc
        /\ n # 0 => /\ Len(types') = Len(types) /\ n \in DOMAIN types'
                    /\ types'[n].desc = cpu.desc
    BY <1>3, <1>5, <2>1, CountTypeFact DEF Typing
  <2>3. IsFiniteSet(Counted') /\ Cardinality(Counted') = Cardinality(Counted) + 1
    BY <1>2, <1>3, <1>5, <2>1, CountedFact DEF Typing, Summed, Detecting
  <2>4. n \in Nat
    <3>1. n = 0 \/ n \in DOMAIN types
      BY <1>3, MatchFact DEF Typing
    <3>2. QED
      BY <1>3, <3>1 DEF Typing
  <2> HIDE DEF n
  <2>5. cpu'.desc = n /\ cpu'.place = cpu.place /\ cpu' \in [desc : Nat, place : Places]
    BY <1>5, <2>1, <2>4
  <2>6. TypeIndex' = IF n = 0 THEN Len(types') ELSE n
    BY <2>5 DEF TypeIndex
  <2>7. TypeIndex' \in DOMAIN types' /\ types'[TypeIndex'].desc = cpu.desc
    <3>1. CASE n = 0
      <4>1. Len(types') \in DOMAIN types'
        BY <1>3, <2>2, <3>1 DEF Typing
      <4>2. QED
        BY <2>2, <2>6, <3>1, <4>1
    <3>2. CASE n # 0
      BY <2>2, <2>6, <3>2
    <3>3. QED
      BY <3>1, <3>2
  <2>8. TypedNow'
    BY <1>2, <2>1, <2>5, <2>7 DEF TypedNow
  <2>9. Typing'
    BY <1>2, <1>3, <1>5, <2>2 DEF Typing, Labels, Detecting
  <2>10. Alive'
    BY <1>2, <1>3, <1>5, <2>2 DEF Alive, Typing
  <2>11. Before' = Before /\ Range(threads') = Range(threads)
    BY <1>2 DEF Before, Range
  <2>12. Spawned'
    BY <1>2, <1>3, <1>5, <2>11 DEF Spawned, Detecting, Detected
  <2>13. Summed'
    BY <1>2, <1>3, <1>5, <2>3 DEF Summed, Detecting, Detected, Typing
  <2>14. PinnedNow'
    BY <1>2, <1>3, <1>5 DEF PinnedNow
  <2>15. QED
    BY <1>5, <2>2, <2>8, <2>9, <2>10, <2>12, <2>13, <2>14 DEF Base, DescribedNow, Restored, Released
<1>6. QED
  BY <1>1, <1>4, <1>5 DEF AddCputype, FailAt

\* topologize().
LEMMA BaseTopologize == Base /\ Topologize => Base'
<1>1. SUFFICES ASSUME Base, Topologize PROVE Base'
  OBVIOUS
<1>2. UNCHANGED <<Core, live>> /\ UNCHANGED affinity /\ pc = "topologize" /\ pc' \in {"spawn", "unwind"}
  BY <1>1 DEF Topologize, Core, detvars, FailAt
<1>3. CASE pc' = "unwind"
  BY <1>1, <1>2, <1>3, BaseFails
<1>4. CASE pc' = "spawn"
  <2>1. Typing /\ PinnedNow /\ Spawned /\ Distinct /\ Alive /\ Summed
    BY <1>1 DEF Base
  <2>2. /\ Typing' /\ Distinct' /\ Before' = Before /\ Counted' = Counted
        /\ Range(threads') = Range(threads)
    <3>1. pc' \in Labels /\ live' \in Int /\ UNCHANGED Core
      BY <1>2, <1>4, <2>1 DEF Typing, Labels, Detecting
    <3>2. QED
      BY <2>1, <3>1, CoreFrame
  <2>3. Alive'
    BY <1>2, <1>4, <2>1 DEF Alive, Core
  <2>4. Spawned'
    BY <1>2, <1>4, <2>1, <2>2 DEF Spawned, Detecting, Detected, Core
  <2>5. Summed'
    BY <1>2, <1>4, <2>1, <2>2 DEF Summed, Detecting, Detected, Core
  <2>6. PinnedNow'
    BY <1>2, <1>4, <2>1 DEF PinnedNow, Core
  <2>7. QED
    BY <1>4, <2>2, <2>3, <2>4, <2>5, <2>6 DEF Base, DescribedNow, TypedNow, Restored, Released
<1>5. QED
  BY <1>2, <1>3, <1>4

\* The sequence of a single element.
LEMMA SetToSeqSingle ==
    ASSUME NEW a
    PROVE  SetToSeq({a}) = <<a>>
<1>1. Cardinality({a}) = 1
  BY FS_Singleton
<1> DEFINE P(f) == f \in [1 .. 1 -> {a}] /\ IsInjective(f)
<1>2. <<a>> \in [1 .. 1 -> {a}] /\ IsInjective(<<a>>)
  BY DEF IsInjective
<1>3. \A f \in [1 .. 1 -> {a}] : f = <<a>>
  OBVIOUS
<1>4. SetToSeq({a}) = CHOOSE f \in [1 .. 1 -> {a}] : IsInjective(f)
  BY <1>1 DEF SetToSeq
<1>5. QED
  BY <1>2, <1>3, <1>4

\* spawn_thread().
LEMMA BaseSpawnThread == Base /\ SpawnThread => Base'
<1>1. SUFFICES ASSUME Base, SpawnThread PROVE Base'
  OBVIOUS
<1>2. UNCHANGED <<mach, mask, types, gpu, live>> /\ pc = "spawn"
  BY <1>1 DEF SpawnThread, detvars
<1>3. Typing /\ PinnedNow /\ Spawned /\ Distinct /\ Alive /\ Summed
  BY <1>1 DEF Base
<1>4. CASE pc' = "unwind" /\ UNCHANGED <<threads, aid>>
  BY <1>1, <1>2, <1>4, BaseFails DEF Core
<1>5. CASE pc' = "pin" /\ threads' = threads \o SetToSeq(affinity) /\ aid' = aid + 1
  <2>1. aid \in mask /\ affinity = {aid} /\ aid \in Nat /\ threads \in Seq(Nat)
    BY <1>2, <1>3 DEF PinnedNow, Typing
  <2>2. threads' = Append(threads, aid)
    <3>1. SetToSeq({aid}) = <<aid>>
      BY SetToSeqSingle
    <3>2. threads' = threads \o <<aid>>
      BY <1>5, <2>1, <3>1
    <3>3. QED
      BY <2>1, <3>2
  <2>3. /\ threads' \in Seq(Nat) /\ Len(threads') = Len(threads) + 1
        /\ DOMAIN threads' = 1 .. Len(threads) + 1 /\ DOMAIN threads = 1 .. Len(threads)
        /\ \A i \in DOMAIN threads : threads'[i] = threads[i]
        /\ threads'[Len(threads) + 1] = aid
    BY <2>1, <2>2
  <2>4. Range(threads') = Range(threads) \cup {aid}
    <3>1. DOMAIN threads' = DOMAIN threads \cup {Len(threads) + 1}
      BY <2>1, <2>3
    <3>2. QED
      BY <2>3, <3>1 DEF Range
  <2>5. Before' = Before \cup {aid} /\ aid \notin Before
    <3>1. mask \subseteq Nat
      BY <1>3, MaskFact
    <3>2. ASSUME NEW a \in mask PROVE a < aid + 1 <=> a < aid \/ a = aid
      <4>1. a \in Nat
        BY <3>1
      <4>2. QED
        BY <2>1, <4>1
    <3>3. mask' = mask /\ aid' = aid + 1 /\ ~(aid < aid)
      BY <1>2, <1>5, <2>1
    <3>4. Before' = {a \in mask : a < aid + 1}
      BY <3>3 DEF Before
    <3>5. QED
      BY <2>1, <3>2, <3>3, <3>4 DEF Before
  <2>6. Cardinality(Before') = Cardinality(Before) + 1
    BY <1>3, <2>5, MaskFact, FS_AddElement
  <2>7. Spawned'
    BY <1>2, <1>3, <1>5, <2>3, <2>4, <2>5, <2>6 DEF Spawned, Detecting, Detected
  <2>8. Typing'
    BY <1>2, <1>3, <1>5, <2>1, <2>3 DEF Typing, Labels, Detecting
  <2>9. Counted' = Counted /\ Distinct'
    BY <1>2, <1>3 DEF Counted, Distinct
  <2>10. Summed'
    <3>1. IsFiniteSet(Counted) /\ Cardinality(Counted) = Len(threads) + gpu + 1
      BY <1>2, <1>3 DEF Summed, Detecting
    <3>2. gpu \in Nat /\ gpu' = gpu /\ Len(threads) \in Nat
      BY <1>2, <1>3, <2>1 DEF Typing
    <3>3. Len(threads) + gpu + 1 = Len(threads') + gpu' + 0
      BY <2>3, <3>2
    <3>4. QED
      BY <1>5, <2>9, <3>1, <3>3 DEF Summed
  <2>11. Alive'
    BY <1>2, <1>3, <1>5 DEF Alive
  <2>12. QED
    BY <1>5, <2>7, <2>8, <2>9, <2>10, <2>11
       DEF Base, DescribedNow, TypedNow, PinnedNow, Restored, Released
<1>6. QED
  BY <1>1, <1>4, <1>5 DEF SpawnThread, FailAt

\* unpin_thread(), after the last processor.
LEMMA BaseUnpinThread == Base /\ UnpinThread => Base'
<1>1. SUFFICES ASSUME Base, UnpinThread PROVE Base'
  OBVIOUS
<1>2. UNCHANGED <<Core, live>> /\ pc = "pin" /\ Len(threads) = Cardinality(mask)
  BY <1>1 DEF UnpinThread, Core, detvars
<1>3. CASE pc' = "unwind"
  BY <1>1, <1>2, <1>3, BaseFails
<1>4. CASE pc' = "cuda" /\ affinity' = mask
  <2>1. Typing /\ Spawned /\ Distinct /\ Alive /\ Summed
    BY <1>1 DEF Base
  <2>2. /\ Typing' /\ Distinct' /\ Before' = Before /\ Counted' = Counted
        /\ Range(threads') = Range(threads)
    <3>1. pc' \in Labels /\ live' \in Int /\ UNCHANGED Core
      BY <1>2, <1>4, <2>1 DEF Typing, Labels, Detected
    <3>2. QED
      BY <2>1, <3>1, CoreFrame
  <2>3. Before = mask
    <3>1. Range(threads) = Before /\ Cardinality(Before) = Cardinality(mask)
      BY <1>2, <2>1 DEF Spawned, Detecting
    <3>2. Before \subseteq mask /\ IsFiniteSet(mask)
      BY <2>1, MaskFact DEF Before
    <3>3. QED
      BY <3>1, <3>2, FS_Subset
  <2>4. Spawned'
    BY <1>2, <1>4, <2>1, <2>2, <2>3 DEF Spawned, Detecting, Detected, Core
  <2>5. Summed'
    BY <1>2, <1>4, <2>1, <2>2 DEF Summed, Detecting, Detected, Core
  <2>6. Alive'
    BY <1>2, <1>4, <2>1 DEF Alive, Core
  <2>7. QED
    BY <1>4, <2>2, <2>4, <2>5, <2>6
       DEF Base, DescribedNow, TypedNow, PinnedNow, Restored, Released
<1>5. QED
  BY <1>1, <1>3, <1>4 DEF UnpinThread, FailAt

\* The error path of detect_cputypes().
LEMMA BaseUnwind == Base /\ Unwind => Base'
<1>1. SUFFICES ASSUME Base, Unwind PROVE Base'
  OBVIOUS
<1>2. /\ UNCHANGED <<mach, mask, aid, gpu, fault>> /\ pc = "unwind" /\ pc' = "free"
      /\ threads' = <<>> /\ live' = live - Len(types) /\ types' = <<>>
      /\ affinity' = (IF fault \in {"unpin", "getaffinity"} THEN affinity ELSE mask)
  BY <1>1 DEF Unwind, detvars
<1>3. Typing /\ Alive
  BY <1>1 DEF Base
<1>4. Typing' /\ Distinct'
  BY <1>2, <1>3 DEF Typing, Distinct, Labels
<1>5. Alive'
  BY <1>2, <1>3 DEF Alive, Typing
<1>6. Restored' /\ Released'
  BY <1>2 DEF Restored, Released
<1>7. QED
  BY <1>2, <1>4, <1>5, <1>6
     DEF Base, DescribedNow, TypedNow, PinnedNow, Spawned, Summed, Detecting, Detected

\* A failing call after the processors leaves the invariant to free_architecture().
LEMMA BaseFailsLate ==
    ASSUME Base, UNCHANGED <<Core, live, affinity>>, pc \in Detected, pc' = "free",
           fault' \in {"cuda", "pages", "node"}
    PROVE  Base'
<1>1. Typing /\ Distinct /\ Alive /\ Spawned
  BY DEF Base
<1>2. Typing' /\ Distinct'
  <2>1. pc' \in Labels /\ live' \in Int /\ UNCHANGED Core
    BY <1>1 DEF Labels, Typing
  <2>2. QED
    BY <1>1, <2>1, CoreFrame
<1>3. Alive'
  BY <1>1 DEF Alive, Core, Detected
<1>4. Restored' /\ Released'
  BY <1>1 DEF Restored, Released, Spawned, Core
<1>5. QED
  BY <1>2, <1>3, <1>4 DEF Base, DescribedNow, TypedNow, PinnedNow, Spawned, Summed,
                          Detecting, Detected

\* A step between the devices and the end that changes none of these.
LEMMA BaseGoesOn ==
    ASSUME Base, UNCHANGED <<Core, live, affinity>>, pc \in Detected, pc' \in Detected
    PROVE  Base'
<1>1. Typing /\ Distinct /\ Alive /\ Spawned /\ Summed
  BY DEF Base
<1>2. /\ Typing' /\ Distinct' /\ Before' = Before /\ Counted' = Counted
      /\ Range(threads') = Range(threads)
  <2>1. pc' \in Labels /\ live' \in Int /\ UNCHANGED Core
    BY <1>1 DEF Labels, Typing
  <2>2. QED
    BY <1>1, <2>1, CoreFrame
<1>3. Alive'
  BY <1>1 DEF Alive, Core, Detected
<1>4. Spawned'
  BY <1>1, <1>2 DEF Spawned, Core, Detecting, Detected
<1>5. Summed'
  BY <1>1, <1>2 DEF Summed, Core, Detecting, Detected
<1>6. QED
  BY <1>2, <1>3, <1>4, <1>5 DEF Base, DescribedNow, TypedNow, PinnedNow, Restored, Released, Detected

\* detect_cuda().
LEMMA BaseDetectCuda == Base /\ DetectCuda => Base'
<1>1. SUFFICES ASSUME Base, DetectCuda PROVE Base'
  OBVIOUS
<1> DEFINE desc == [kind |-> Gpus[gpu + 1], top |-> NoTopology, pad |-> 0]
<1>2. /\ UNCHANGED <<mach, mask, aid, threads, affinity>> /\ pc = "cuda" /\ gpu < Len(Gpus)
  BY <1>1 DEF DetectCuda, detvars
<1>3. Typing /\ Spawned /\ Distinct /\ Alive /\ Summed
  BY <1>1 DEF Base
<1>4. CASE pc' = "free" /\ fault' = "cuda" /\ UNCHANGED <<types, live, gpu>>
  BY <1>1, <1>2, <1>4, BaseFailsLate DEF Core, Detected
<1>5. CASE /\ types' = CountType(desc) /\ gpu' = gpu + 1 /\ UNCHANGED pc
           /\ live' = IF MatchCputype(desc) = 0 THEN live + 1 ELSE live
  <2>1. desc \in Descs
    <3>1. Gpus[gpu + 1] \in DOMAIN TlbPages
      <4>1. Gpus \in Seq(DOMAIN TlbPages)
        BY HardwareAssumption
      <4>2. gpu \in Nat
        BY <1>3 DEF Typing
      <4>3. QED
        BY <1>2, <4>1, <4>2
    <3>2. NoTopology \in Tops
      BY DEF NoTopology, Tops
    <3>3. QED
      BY <3>1, <3>2 DEF Descs
  <2> HIDE DEF desc
  <2>2. /\ types' \in Seq(TypeRecs) /\ Distinct'
        /\ MatchCputype(desc) = 0 => Len(types') = Len(types) + 1
        /\ MatchCputype(desc) # 0 => Len(types') = Len(types)
    BY <1>3, <1>5, <2>1, CountTypeFact DEF Typing
  <2>3. IsFiniteSet(Counted') /\ Cardinality(Counted') = Cardinality(Counted) + 1
    BY <1>2, <1>3, <1>5, <2>1, CountedFact DEF Typing, Summed, Detected
  <2>4. Typing'
    BY <1>2, <1>3, <1>5, <2>2 DEF Typing
  <2>5. Alive'
    BY <1>2, <1>3, <1>5, <2>2 DEF Alive, Typing
  <2>6. Before' = Before /\ Range(threads') = Range(threads)
    BY <1>2 DEF Before, Range
  <2>7. Spawned'
    BY <1>2, <1>3, <1>5, <2>6 DEF Spawned, Detecting, Detected
  <2>8. Summed'
    <3>1. IsFiniteSet(Counted) /\ Cardinality(Counted) = Len(threads) + gpu + 0
      BY <1>2, <1>3 DEF Summed, Detected
    <3>2. gpu \in Nat /\ Len(threads) \in Nat /\ Len(threads') = Len(threads)
      BY <1>2, <1>3 DEF Typing
    <3>3. Len(threads) + gpu + 0 + 1 = Len(threads') + gpu' + 0
      BY <1>5, <3>2
    <3>4. QED
      BY <1>2, <1>5, <2>3, <3>1, <3>3 DEF Summed
  <2>9. QED
    BY <1>2, <1>5, <2>2, <2>4, <2>5, <2>7, <2>8
       DEF Base, DescribedNow, TypedNow, PinnedNow, Restored, Released
<1>6. QED
  BY <1>1, <1>4, <1>5 DEF DetectCuda, FailAt

\* detect_memories().
LEMMA BaseMemories == Base /\ (DetectMemories \/ DeterminePagesizes \/ AddNode) => Base'
<1>1. SUFFICES ASSUME Base, DetectMemories \/ DeterminePagesizes \/ AddNode PROVE Base'
  OBVIOUS
<1>2. /\ UNCHANGED <<Core, live, affinity>> /\ pc \in Detected
      /\ pc' \in Detected \/ (pc' = "free" /\ fault' \in {"cuda", "pages", "node"})
  <2>1. CASE DetectMemories
    BY <2>1 DEF DetectMemories, Core, detvars, Detected, FailAt
  <2>2. CASE DeterminePagesizes
    BY <2>2 DEF DeterminePagesizes, Core, detvars, Detected, FailAt
  <2>3. CASE AddNode
    BY <2>3 DEF AddNode, Core, detvars, Detected, FailAt
  <2>4. QED
    BY <1>1, <2>1, <2>2, <2>3
<1>3. QED
  BY <1>1, <1>2, BaseFailsLate, BaseGoesOn

\* free_architecture().
LEMMA BaseFreeArchitecture == Base /\ FreeArchitecture => Base'
<1>1. SUFFICES ASSUME Base, FreeArchitecture PROVE Base'
  OBVIOUS
<1>2. /\ UNCHANGED <<mach, mask, aid, gpu, fault, threads, affinity>> /\ pc = "free" /\ pc' = "failed"
      /\ live' = live - Len(types) /\ types' = <<>> /\ zones' = <<>> /\ nodes' = <<>>
  BY <1>1 DEF FreeArchitecture, detvars
<1>3. Typing /\ Alive /\ Restored /\ Released
  BY <1>1 DEF Base
<1>4. Typing' /\ Distinct'
  BY <1>2, <1>3 DEF Typing, Distinct, Labels
<1>5. Alive'
  BY <1>2, <1>3 DEF Alive, Typing
<1>6. Restored' /\ Released'
  BY <1>2, <1>3 DEF Restored, Released
<1>7. QED
  BY <1>2, <1>4, <1>5, <1>6
     DEF Base, DescribedNow, TypedNow, PinnedNow, Spawned, Summed, Detecting, Detected

\* Nothing changes.
LEMMA BaseStutter == Base /\ UNCHANGED vars => Base'
<1>1. SUFFICES ASSUME Base, UNCHANGED vars PROVE Base'
  OBVIOUS
<1>2. UNCHANGED <<Core, live, affinity, pc, fault, cpu, zones, nodes>>
  BY <1>1 DEF vars, Core
<1>3. /\ Typing' /\ Distinct' /\ Before' = Before /\ Counted' = Counted
      /\ Range(threads') = Range(threads)
  <2>1. Typing /\ Distinct /\ pc' \in Labels /\ live' \in Int /\ UNCHANGED Core
    BY <1>1, <1>2 DEF Base, Typing
  <2>2. QED
    BY <2>1, CoreFrame
<1>4. DescribedNow' /\ TypedNow'
  BY <1>1, <1>2 DEF Base, DescribedNow, TypedNow, TypeIndex, Core
<1>5. PinnedNow' /\ Restored' /\ Alive' /\ Released'
  BY <1>1, <1>2 DEF Base, PinnedNow, Restored, Alive, Released, Core
<1>6. Spawned' /\ Summed'
  BY <1>1, <1>2, <1>3 DEF Base, Spawned, Summed, Core
<1>7. QED
  BY <1>3, <1>4, <1>5, <1>6 DEF Base

\* Every step keeps the invariant.
LEMMA BaseStep == Base /\ [Next]_vars => Base'
BY BaseDetectCpucount, BasePinThread, BaseDetectCpudetails, BaseAddCputype, BaseTopologize,
   BaseSpawnThread, BaseUnpinThread, BaseUnwind, BaseDetectCuda, BaseMemories,
   BaseFreeArchitecture, BaseStutter DEF Next

\* The invariant of detect_architecture() always holds.
THEOREM BaseAlways == Spec => []Base
BY BaseInit, BaseStep, PTL DEF Spec

\* Theorem: one event thread is spawned on each processor of the caller's
\* mask, pinned to it, and the caller gets its affinity back unless the call
\* that restores or saves it is the one that failed, for every machine and mask.
THEOREM OneThreadAlways == Spec => []OneThreadPerProcessor
<1>1. Base => OneThreadPerProcessor
  BY DEF Base, OneThreadPerProcessor, Spawned, Restored, Detected
<1>2. QED
  BY <1>1, BaseAlways, PTL

\* Theorem: a detection that fails leaves no zone, type, node, description or,
\* before the devices, thread behind, whichever call failed.
THEOREM CleanFailureAlways == Spec => []CleanFailure
<1>1. Base => CleanFailure
  <2>1. SUFFICES ASSUME Base, pc = "failed" PROVE CleanFailure
    BY DEF CleanFailure
  <2>2. zones = <<>> /\ types = <<>> /\ nodes = <<>> /\ live = Len(types) + 0
    BY <2>1 DEF Base, Released, Alive
  <2>3. live = 0
    BY <2>2
  <2>4. QED
    BY <2>1, <2>2, <2>3 DEF CleanFailure, Base, Released
<1>2. QED
  BY <1>1, BaseAlways, PTL

\* Theorem: every processor and device is counted in exactly one type and no
\* description is kept twice, however the processors differ.
THEOREM ElementsAlways == Spec => []ElementsAddUp
<1>1. Base => ElementsAddUp
  <2>1. SUFFICES ASSUME Base, pc \in {"pin", "cuda", "tlbs", "done"}
                 PROVE  Cardinality(Counted) = Len(threads) + gpu
    BY DEF ElementsAddUp, Base, Distinct
  <2>2. Cardinality(Counted) = Len(threads) + gpu + 0
    BY <2>1 DEF Base, Summed, Detecting, Detected
  <2>3. Len(threads) \in Nat /\ gpu \in Nat
    BY <2>1 DEF Base, Typing
  <2>4. QED
    BY <2>2, <2>3
<1>2. QED
  BY <1>1, BaseAlways, PTL

-----------------------------------------------------------------------------
(* Lists sorted by group ID.                                                 *)

SortedIds(list) == \A i, j \in DOMAIN list : i < j => list[i].id < list[j].id

\* r is the list with e at g, and the rest moved up by one
Inserted(r, list, g, e, S) ==
    /\ r \in Seq(S) /\ Len(r) = Len(list) + 1
    /\ \A i \in Nat : 1 <= i /\ i < g => r[i] = list[i]
    /\ r[g] = e
    /\ \A i, k \in Nat : g <= k /\ k <= Len(list) /\ i = k + 1 => r[i] = list[k]

\* Inserting into a sequence moves the rest up by one.
LEMMA InsertFact ==
    ASSUME NEW S, NEW list \in Seq(S), NEW e \in S, NEW g \in Nat, 1 <= g, g <= Len(list) + 1,
           NEW r, r = InsertAt(list, g, e)
    PROVE  Inserted(r, list, g, e, S)
<1> DEFINE u == SubSeq(list, 1, g - 1)
           v == SubSeq(list, g, Len(list))
<1>1. /\ u \in Seq(S) /\ Len(u) = g - 1 /\ \A i \in Nat : 1 <= i /\ i < g => u[i] = list[i]
  OBVIOUS
<1>2. /\ v \in Seq(S) /\ Len(v) = Len(list) - g + 1
      /\ \A i \in Nat : 1 <= i /\ i <= Len(list) - g + 1 => v[i] = list[g + i - 1]
  OBVIOUS
<1>3. r = (u \o <<e>>) \o v
  BY DEF InsertAt
<1> HIDE DEF u, v
<1> DEFINE w == u \o <<e>>
<1>4. /\ w \in Seq(S) /\ Len(w) = g /\ w[g] = e
      /\ \A i \in Nat : 1 <= i /\ i < g => w[i] = list[i]
  BY <1>1
<1> HIDE DEF w
<1>5. r = w \o v
  BY <1>3 DEF w
<1>6. /\ w \o v \in Seq(S) /\ Len(w \o v) = Len(list) + 1
      /\ \A i \in Nat : 1 <= i /\ i <= g => (w \o v)[i] = w[i]
      /\ \A i \in Nat : g < i /\ i <= Len(list) + 1 => (w \o v)[i] = v[i - g]
  BY <1>2, <1>4
<1>7. ASSUME NEW i \in Nat, g < i, i <= Len(list) + 1 PROVE v[i - g] = list[i - 1]
  <2>1. i - g \in Nat /\ 1 <= i - g /\ i - g <= Len(list) - g + 1 /\ g + (i - g) - 1 = i - 1
    BY <1>7
  <2>2. QED
    BY <1>2, <2>1
<1>8. ASSUME NEW i \in Nat, NEW k \in Nat, g <= k, k <= Len(list), i = k + 1 PROVE r[i] = list[k]
  <2>1. g < i /\ i <= Len(list) + 1 /\ i - 1 = k
    BY <1>8
  <2>2. QED
    BY <1>5, <1>6, <1>7, <2>1
<1>9. QED
  BY <1>4, <1>5, <1>6, <1>8 DEF Inserted

\* find_sched_group() stops at the first group that is not before the ID.
LEMMA GroupFact ==
    ASSUME NEW S, \A z \in S : z.id \in Nat,
           NEW list \in Seq(S), SortedIds(list), NEW id \in Nat
    PROVE  LET g == GroupIndex(list, id) IN
           /\ g \in Nat /\ 1 <= g /\ g <= Len(list) + 1
           /\ \A i \in DOMAIN list : i < g => list[i].id < id
           /\ \A i \in DOMAIN list : i >= g => list[i].id >= id
           /\ HasGroup(list, id) <=> g <= Len(list) /\ list[g].id = id
<1> DEFINE T == {i \in DOMAIN list : list[i].id >= id} \cup {Len(list) + 1}
           g == GroupIndex(list, id)
<1>1. g = Min(T)
  BY DEF GroupIndex
<1>2. DOMAIN list = 1 .. Len(list) /\ Len(list) \in Nat
  OBVIOUS
<1>3. T \subseteq Nat /\ T # {}
  BY <1>2
<1>4. g \in T /\ \A y \in T : g <= y
  BY <1>1, <1>3, MinFact
<1> HIDE DEF g
<1>5. g \in Nat /\ 1 <= g /\ g <= Len(list) + 1
  BY <1>2, <1>4
<1>6. \A i \in DOMAIN list : list[i].id \in Nat
  OBVIOUS
<1>7. ASSUME NEW i \in DOMAIN list, i < g PROVE list[i].id < id
  <2>1. i \in Nat /\ ~(g <= i)
    BY <1>2, <1>5, <1>7
  <2>2. ~(list[i].id >= id)
    BY <1>4, <2>1
  <2>3. QED
    BY <1>6, <2>2
<1>8. ASSUME NEW i \in DOMAIN list, i >= g PROVE list[i].id >= id
  <2>1. i \in Nat /\ i <= Len(list) /\ g <= Len(list) /\ g \in DOMAIN list
    BY <1>2, <1>5, <1>8
  <2>2. list[g].id >= id
    BY <1>2, <1>4, <1>5, <2>1
  <2>3. i = g \/ list[g].id < list[i].id
    BY <1>5, <1>8, <2>1 DEF SortedIds
  <2>4. QED
    BY <1>6, <2>1, <2>2, <2>3
<1>9. HasGroup(list, id) <=> g <= Len(list) /\ list[g].id = id
  <2>1. ASSUME HasGroup(list, id) PROVE g <= Len(list) /\ list[g].id = id
    <3>1. PICK i \in DOMAIN list : list[i].id = id
      BY <2>1 DEF HasGroup, Range
    <3>2. i \in Nat /\ i <= Len(list) /\ g <= i
      BY <1>2, <1>4, <3>1
    <3>3. g \in DOMAIN list
      BY <1>2, <1>5, <3>2
    <3>4. list[g].id >= id
      BY <1>5, <1>8, <3>3
    <3>5. i = g \/ list[g].id < list[i].id
      BY <1>5, <3>2, <3>3 DEF SortedIds
    <3>6. QED
      BY <1>5, <1>6, <3>1, <3>2, <3>3, <3>4, <3>5
  <2>2. ASSUME g <= Len(list), list[g].id = id PROVE HasGroup(list, id)
    BY <1>2, <1>5, <2>2 DEF HasGroup, Range
  <2>3. QED
    BY <2>1, <2>2
<1>10. QED
  BY <1>5, <1>7, <1>8, <1>9 DEF g

\* Putting a group with a new ID where find_sched_group() stopped keeps the
\* list sorted, and adds only that group.
LEMMA InsertGroupFact ==
    ASSUME NEW S, \A z \in S : z.id \in Nat,
           NEW list \in Seq(S), SortedIds(list), NEW id \in Nat, ~HasGroup(list, id),
           NEW e \in S, e.id = id, NEW g \in Nat, 1 <= g, g <= Len(list) + 1,
           \A i \in DOMAIN list : i < g => list[i].id < id,
           \A i \in DOMAIN list : i >= g => list[i].id >= id,
           NEW W, W = InsertAt(list, g, e)
    PROVE  /\ W \in Seq(S) /\ SortedIds(W) /\ g \in DOMAIN W /\ W[g] = e
           /\ {W[i] : i \in DOMAIN W \ {g}} = {z \in Range(list) : z.id # id}
<1>2. DOMAIN list = 1 .. Len(list) /\ Len(list) \in Nat
  OBVIOUS
<1>a. \A i \in DOMAIN list : list[i].id \in Nat
  OBVIOUS
<1>3. /\ W \in Seq(S) /\ Len(W) = Len(list) + 1
      /\ \A i \in Nat : 1 <= i /\ i < g => W[i] = list[i]
      /\ W[g] = e
      /\ \A i, k \in Nat : g <= k /\ k <= Len(list) /\ i = k + 1 => W[i] = list[k]
  <2>1. Inserted(W, list, g, e, S)
    BY InsertFact
  <2>2. QED
    BY <2>1 DEF Inserted
<1>4. DOMAIN W = 1 .. Len(list) + 1 /\ g \in DOMAIN W
  BY <1>2, <1>3
<1>5. \A i \in DOMAIN list : i >= g => list[i].id > id
  <2>1. ASSUME NEW i \in DOMAIN list, i >= g PROVE list[i].id > id
    <3>1. list[i].id >= id
      BY <2>1
    <3>2. list[i].id # id
      BY ~HasGroup(list, id) DEF HasGroup, Range
    <3>3. QED
      BY <1>a, <3>1, <3>2
  <2>2. QED
    BY <2>1
<1>6. \A i \in DOMAIN W : i < g => i \in DOMAIN list /\ W[i] = list[i] /\ W[i].id < id
  BY <1>2, <1>3, <1>4
<1>7. \A i \in DOMAIN W : g < i => i - 1 \in DOMAIN list /\ W[i] = list[i - 1] /\ W[i].id > id
  <2>1. ASSUME NEW i \in DOMAIN W, g < i
        PROVE  i - 1 \in DOMAIN list /\ W[i] = list[i - 1] /\ i - 1 >= g
    <3>1. i - 1 \in Nat /\ g <= i - 1 /\ i - 1 <= Len(list) /\ i = (i - 1) + 1
      BY <1>2, <1>4, <2>1
    <3>2. QED
      BY <1>2, <1>3, <1>4, <3>1
  <2>2. QED
    BY <1>5, <2>1
<1>8. SortedIds(W)
  <2>1. SUFFICES ASSUME NEW i \in DOMAIN W, NEW j \in DOMAIN W, i < j PROVE W[i].id < W[j].id
    BY DEF SortedIds
  <2>2. i \in Nat /\ j \in Nat
    BY <1>4
  <2>3. W[i] \in S /\ W[j] \in S /\ W[i].id \in Nat /\ W[j].id \in Nat
    BY <1>3
  <2>4. CASE j < g
    BY <1>6, <2>1, <2>2, <2>4 DEF SortedIds
  <2>5. CASE j = g
    BY <1>2, <1>3, <1>6, <2>1, <2>5
  <2>6. CASE g < j /\ i < g
    BY <1>6, <1>7, <2>3, <2>6
  <2>7. CASE g < j /\ i = g
    BY <1>2, <1>3, <1>7, <2>7
  <2>8. CASE g < j /\ g < i
    <3>1. /\ i - 1 \in DOMAIN list /\ W[i] = list[i - 1]
          /\ j - 1 \in DOMAIN list /\ W[j] = list[j - 1] /\ i - 1 < j - 1
      BY <1>7, <2>1, <2>2, <2>8
    <3>2. QED
      BY <3>1 DEF SortedIds
  <2>9. QED
    BY <2>1, <2>2, <2>4, <2>5, <2>6, <2>7, <2>8
<1>9. {W[i] : i \in DOMAIN W \ {g}} = {z \in Range(list) : z.id # id}
  <2>1. ASSUME NEW i \in DOMAIN W \ {g} PROVE W[i] \in {z \in Range(list) : z.id # id}
    <3>1. i < g \/ g < i
      BY <1>4
    <3>2. W[i] \in Range(list)
      BY <1>6, <1>7, <3>1 DEF Range
    <3>3. W[i].id \in Nat /\ (W[i].id < id \/ W[i].id > id)
      BY <1>a, <1>6, <1>7, <3>1
    <3>4. QED
      BY <3>2, <3>3
  <2>2. ASSUME NEW k \in DOMAIN list PROVE \E i \in DOMAIN W \ {g} : W[i] = list[k]
    <3>1. CASE k < g
      <4>1. k \in DOMAIN W \ {g} /\ W[k] = list[k]
        BY <1>2, <1>3, <1>4, <3>1
      <4>2. QED
        BY <4>1
    <3>2. CASE ~(k < g)
      <4>1. k + 1 \in DOMAIN W \ {g} /\ W[k + 1] = list[k]
        <5>1. k \in Nat /\ k + 1 \in Nat /\ g <= k /\ k <= Len(list)
          BY <1>2, <3>2
        <5>2. W[k + 1] = list[k]
          BY <1>3, <5>1
        <5>3. QED
          BY <1>4, <5>1, <5>2
      <4>2. QED
        BY <4>1
    <3>3. QED
      BY <3>1, <3>2
  <2>3. QED
    BY <2>1, <2>2 DEF Range
<1>10. QED
  BY <1>3, <1>4, <1>8, <1>9

\* The group for an ID, found or new
GroupOf(list, id, type) ==
    IF HasGroup(list, id) THEN list[GroupIndex(list, id)] ELSE Zone(id, type, {})

\* The list with a group for the ID stays sorted; the group is at its index,
\* and the others are those of the list with another ID.
LEMMA WithGroupFact ==
    ASSUME NEW S, \A z \in S : z.id \in Nat,
           NEW list \in Seq(S), SortedIds(list), NEW id \in Nat, NEW type, Zone(id, type, {}) \in S
    PROVE  LET W == WithGroup(list, id, type)
               g == GroupIndex(list, id) IN
           /\ W \in Seq(S) /\ SortedIds(W) /\ g \in DOMAIN W
           /\ W[g] = GroupOf(list, id, type) /\ W[g].id = id
           /\ {W[i] : i \in DOMAIN W \ {g}} = {z \in Range(list) : z.id # id}
<1> DEFINE W == WithGroup(list, id, type)
           g == GroupIndex(list, id)
           e == Zone(id, type, {})
<1>1. /\ g \in Nat /\ 1 <= g /\ g <= Len(list) + 1
      /\ \A i \in DOMAIN list : i < g => list[i].id < id
      /\ \A i \in DOMAIN list : i >= g => list[i].id >= id
      /\ HasGroup(list, id) <=> g <= Len(list) /\ list[g].id = id
  BY GroupFact
<1>2. DOMAIN list = 1 .. Len(list) /\ Len(list) \in Nat
  OBVIOUS
<1>3. \A i \in DOMAIN list : list[i].id \in Nat
  OBVIOUS
<1> HIDE DEF g
<1>4. CASE HasGroup(list, id)
  <2>1. W = list /\ g \in DOMAIN list /\ list[g].id = id
    BY <1>1, <1>2, <1>4 DEF WithGroup
  <2>2. \A i \in DOMAIN list : i # g <=> list[i].id # id
    <3>1. ASSUME NEW i \in DOMAIN list, i # g PROVE list[i].id # id
      <4>1. i < g \/ g < i
        BY <1>1, <1>2, <3>1
      <4>2. list[i].id < list[g].id \/ list[g].id < list[i].id
        BY <2>1, <4>1 DEF SortedIds
      <4>3. QED
        BY <1>3, <2>1, <4>2
    <3>2. QED
      BY <2>1, <3>1
  <2>3. {list[i] : i \in DOMAIN list \ {g}} = {z \in Range(list) : z.id # id}
    BY <2>2 DEF Range
  <2>4. list[g] = GroupOf(list, id, type)
    BY <1>4 DEF GroupOf, g
  <2> HIDE DEF W
  <2>5. /\ W \in Seq(S) /\ SortedIds(W) /\ g \in DOMAIN W
        /\ W[g] = GroupOf(list, id, type) /\ W[g].id = id
        /\ {W[i] : i \in DOMAIN W \ {g}} = {z \in Range(list) : z.id # id}
    BY <2>1, <2>3, <2>4
  <2>6. QED
    BY <2>5 DEF W, g
<1>5. CASE ~HasGroup(list, id)
  <2>1. W = InsertAt(list, g, e)
    BY <1>5 DEF WithGroup, g
  <2>2. e \in S /\ e.id = id
    BY DEF Zone
  <2> HIDE DEF e, W
  <2>3. /\ W \in Seq(S) /\ SortedIds(W) /\ g \in DOMAIN W /\ W[g] = e
        /\ {W[i] : i \in DOMAIN W \ {g}} = {z \in Range(list) : z.id # id}
    BY <1>1, <1>5, <2>1, <2>2, InsertGroupFact
  <2>4. W[g] = GroupOf(list, id, type) /\ W[g].id = id
    BY <1>5, <2>2, <2>3 DEF GroupOf, e
  <2>5. QED
    BY <2>3, <2>4 DEF W, g
<1>6. QED
  BY <1>4, <1>5

\* Changing a group without its ID keeps the list sorted.
LEMMA ReplaceFact ==
    ASSUME NEW S, NEW list \in Seq(S), SortedIds(list), NEW g \in DOMAIN list,
           NEW L, DOMAIN L = DOMAIN list, L[g].id = list[g].id,
           \A i \in DOMAIN list : i # g => L[i] = list[i]
    PROVE  SortedIds(L) /\ Range(L) = {list[i] : i \in DOMAIN list \ {g}} \cup {L[g]}
<1>1. SortedIds(L)
  <2>1. \A i \in DOMAIN list : L[i].id = list[i].id
    OBVIOUS
  <2>2. QED
    BY <2>1 DEF SortedIds
<1>2. Range(L) = {list[i] : i \in DOMAIN list \ {g}} \cup {L[g]}
  BY DEF Range
<1>3. QED
  BY <1>1, <1>2

\* A group with one more processor
With(z, a) == [z EXCEPT !.cpus = @ \cup {a}]

\* A processor joins the group for an ID: only that group changes.
LEMMA JoinedFact ==
    ASSUME NEW S, \A z \in S : z.id \in Nat,
           NEW list \in Seq(S), SortedIds(list), NEW id \in Nat, NEW type, NEW a,
           Zone(id, type, {}) \in S,
           NEW new \in S, new = With(GroupOf(list, id, type), a), new.id = id,
           NEW J, J = Joined(list, id, type, a)
    PROVE  /\ J \in Seq(S) /\ SortedIds(J)
           /\ Range(J) = {z \in Range(list) : z.id # id} \cup {new}
<1> DEFINE W == WithGroup(list, id, type)
           g == GroupIndex(list, id)
<1>1. /\ W \in Seq(S) /\ SortedIds(W) /\ g \in DOMAIN W
      /\ W[g] = GroupOf(list, id, type) /\ W[g].id = id
      /\ {W[i] : i \in DOMAIN W \ {g}} = {z \in Range(list) : z.id # id}
  BY WithGroupFact
<1>2. J = [W EXCEPT ![g] = [W[g] EXCEPT !.cpus = @ \cup {a}]]
  BY <1>1 DEF Joined
<1> HIDE DEF W, g
<1>3. J = [W EXCEPT ![g] = new]
  BY <1>1, <1>2 DEF With
<1>4. /\ J \in Seq(S) /\ SortedIds(J)
      /\ Range(J) = {W[i] : i \in DOMAIN W \ {g}} \cup {new}
  <2>1. /\ J \in Seq(S) /\ DOMAIN J = DOMAIN W /\ J[g] = new
        /\ \A i \in DOMAIN W : i # g => J[i] = W[i]
    BY <1>1, <1>3
  <2>2. J[g].id = W[g].id
    BY <1>1, <2>1
  <2>3. SortedIds(J) /\ Range(J) = {W[i] : i \in DOMAIN W \ {g}} \cup {J[g]}
    <3>1. W \in Seq(S) /\ SortedIds(W) /\ g \in DOMAIN W
      BY <1>1
    <3>2. QED
      BY ONLY <2>1, <2>2, <3>1, ReplaceFact
  <2>4. QED
    BY <2>1, <2>3
<1>5. QED
  BY <1>1, <1>4
Leafs == [id : Nat, type : Nat, cpus : SUBSET Nat, sub : {<<>>}]
Groups == [id : Nat, type : Nat, cpus : SUBSET Nat, sub : Seq(Leafs)]

\* The group with an ID is the one find_sched_group() stops at.
LEMMA SameGroupFact ==
    ASSUME NEW S, \A z \in S : z.id \in Nat,
           NEW list \in Seq(S), SortedIds(list), NEW g \in DOMAIN list, NEW id, list[g].id = id
    PROVE  /\ GroupIndex(list, id) = g /\ HasGroup(list, id)
           /\ {z \in Range(list) : z.id # id} = {list[i] : i \in DOMAIN list \ {g}}
<1>1. list[g] \in S /\ id \in Nat /\ g \in Nat /\ DOMAIN list = 1 .. Len(list) /\ Len(list) \in Nat
  OBVIOUS
<1>2. HasGroup(list, id)
  BY DEF HasGroup, Range
<1>3. ASSUME NEW i \in DOMAIN list, i # g PROVE list[i].id # id
  <2>1. list[i] \in S /\ list[i].id \in Nat /\ list[g].id \in Nat /\ i \in Nat
    BY <1>1
  <2>2. i < g \/ g < i
    BY <1>1, <1>3, <2>1
  <2>3. list[i].id < list[g].id \/ list[g].id < list[i].id
    BY <2>2 DEF SortedIds
  <2>4. QED
    BY <2>1, <2>3
<1>4. GroupIndex(list, id) = g
  <2> DEFINE h == GroupIndex(list, id)
  <2>1. h \in Nat /\ 1 <= h /\ (HasGroup(list, id) <=> h <= Len(list) /\ list[h].id = id)
    BY <1>1, GroupFact
  <2> HIDE DEF h
  <2>2. h \in DOMAIN list /\ list[h].id = id
    BY <1>1, <1>2, <2>1
  <2>3. h = g
    BY <1>3, <2>2
  <2>4. QED
    BY <2>3 DEF h
<1>5. {z \in Range(list) : z.id # id} = {list[i] : i \in DOMAIN list \ {g}}
  BY <1>3 DEF Range
<1>6. QED
  BY <1>2, <1>4, <1>5

\* What is said of a list of cores J made of a list by adding a processor
JoinsLeaf(J, list, id, type, a) ==
    /\ J \in Seq(Leafs) /\ SortedIds(J)
    /\ \E n \in Leafs :
         /\ Range(J) = {z \in Range(list) : z.id # id} \cup {n} /\ n.id = id
         /\ \/ \E s \in Range(list) : s.id = id /\ n.type = s.type /\ n.cpus = s.cpus \cup {a}
            \/ n.type = type /\ n.cpus = {a} /\ \A s \in Range(list) : s.id # id

\* A processor joins a core of a package: a core of the list gains it, or
\* there is a new one with it alone.
LEMMA JoinLeaf ==
    ASSUME NEW list \in Seq(Leafs), SortedIds(list), NEW id \in Nat, NEW type \in Nat, NEW a \in Nat,
           NEW J, J = Joined(list, id, type, a)
    PROVE  JoinsLeaf(J, list, id, type, a)
<1> DEFINE old == GroupOf(list, id, type)
           n == With(old, a)
<1>1. \A z \in Leafs : z.id \in Nat
  BY DEF Leafs
<1>2. Zone(id, type, {}) \in Leafs
  BY DEF Zone, Leafs
<1>3. old \in Leafs /\ old.id = id
      /\ \/ old \in Range(list)
         \/ old.type = type /\ old.cpus = {} /\ \A s \in Range(list) : s.id # id
  <2>1. CASE HasGroup(list, id)
    <3>1. PICK i \in DOMAIN list : list[i].id = id
      BY <2>1 DEF HasGroup, Range
    <3>2. GroupIndex(list, id) = i
      BY <1>1, <3>1, SameGroupFact
    <3>3. old = list[i]
      BY <2>1, <3>2 DEF GroupOf
    <3>4. QED
      BY <3>1, <3>3 DEF Range
  <2>2. CASE ~HasGroup(list, id)
    <3>1. old = Zone(id, type, {})
      BY <2>2 DEF GroupOf
    <3>2. QED
      BY <1>2, <2>2, <3>1 DEF HasGroup, Zone
  <2>3. QED
    BY <2>1, <2>2
<1> HIDE DEF old
<1>4. n \in Leafs /\ n.id = id /\ n.type = old.type /\ n.cpus = old.cpus \cup {a}
  BY <1>3 DEF Leafs, With
<1>5. n = With(GroupOf(list, id, type), a)
  BY DEF old
<1> HIDE DEF n
<1>6. J \in Seq(Leafs) /\ SortedIds(J) /\ Range(J) = {z \in Range(list) : z.id # id} \cup {n}
  BY ONLY <1>1, <1>2, <1>4, <1>5, list \in Seq(Leafs), SortedIds(list), id \in Nat,
          J = Joined(list, id, type, a), JoinedFact
<1>7. \/ \E s \in Range(list) : s.id = id /\ n.type = s.type /\ n.cpus = s.cpus \cup {a}
      \/ n.type = type /\ n.cpus = {a} /\ \A s \in Range(list) : s.id # id
  BY <1>3, <1>4
<1>8. \E m \in Leafs :
        /\ Range(J) = {z \in Range(list) : z.id # id} \cup {m} /\ m.id = id
        /\ \/ \E s \in Range(list) : s.id = id /\ m.type = s.type /\ m.cpus = s.cpus \cup {a}
           \/ m.type = type /\ m.cpus = {a} /\ \A s \in Range(list) : s.id # id
  BY <1>4, <1>6, <1>7
<1>9. QED
  BY <1>6, <1>8 DEF JoinsLeaf

\* The cores a package has when another processor joins it
FirstSub(z, type, first) == IF z.sub # <<>> THEN z.sub ELSE <<Zone(first, type, {Min(z.cpus)})>>

\* Creating the core of the first processor changes only that package's cores.
LEMMA SplitFact ==
    ASSUME zones \in Seq(Groups), NEW g \in DOMAIN zones, NEW type \in Nat, NEW first \in Nat,
           Min(zones[g].cpus) \in Nat, SortedIds(zones[g].sub), NEW r, r = Split(g, type, first)
    PROVE  /\ r \in Seq(Groups) /\ DOMAIN r = DOMAIN zones
           /\ \A i \in DOMAIN zones : i # g => r[i] = zones[i]
           /\ r[g].id = zones[g].id /\ r[g].type = zones[g].type /\ r[g].cpus = zones[g].cpus
           /\ r[g].sub = FirstSub(zones[g], type, first)
           /\ r[g].sub \in Seq(Leafs) /\ SortedIds(r[g].sub)
<1>1. zones[g] \in Groups
  OBVIOUS
<1>2. CASE zones[g].sub # <<>>
  <2>1. r = zones
    BY <1>2 DEF Split
  <2>2. QED
    BY <1>1, <1>2, <2>1 DEF FirstSub, Groups
<1>3. CASE zones[g].sub = <<>>
  <2> DEFINE one == Zone(first, type, {Min(zones[g].cpus)})
  <2>1. r = [zones EXCEPT ![g].sub = <<one>>] /\ FirstSub(zones[g], type, first) = <<one>>
    BY <1>3 DEF Split, FirstSub
  <2>2. one \in Leafs
    BY DEF Zone, Leafs
  <2> HIDE DEF one
  <2>3. <<one>> \in Seq(Leafs) /\ SortedIds(<<one>>)
    BY <2>2 DEF SortedIds
  <2>4. [zones[g] EXCEPT !.sub = <<one>>] \in Groups
    BY <1>1, <2>3 DEF Groups
  <2>5. r = [zones EXCEPT ![g] = [zones[g] EXCEPT !.sub = <<one>>]]
    BY <2>1
  <2>6. /\ r \in Seq(Groups) /\ DOMAIN r = DOMAIN zones
        /\ \A i \in DOMAIN zones : i # g => r[i] = zones[i]
        /\ r[g] = [zones[g] EXCEPT !.sub = <<one>>]
    BY <2>4, <2>5
  <2>7. QED
    BY <1>1, <2>1, <2>3, <2>6 DEF Groups
<1>4. QED
  BY <1>2, <1>3

NewGroup(r, id, type, a) ==
    r \in Seq(Groups) /\ SortedIds(r) /\ Range(r) = Range(zones) \cup {Zone(id, type, {a})}

\* The first processor of a package is a group of its own.
LEMMA TopologizedNew ==
    ASSUME zones \in Seq(Groups), SortedIds(zones), NEW id \in Nat, NEW type \in Nat, NEW a \in Nat,
           NEW core, NEW first, ~HasGroup(zones, id),
           NEW r, r = Topologized(id, type, a, core, first)
    PROVE  NewGroup(r, id, type, a)
<1> DEFINE n == Zone(id, type, {a})
<1>1. \A z \in Groups : z.id \in Nat
  BY DEF Groups
<1>2. Zone(id, type, {}) \in Groups
  BY DEF Zone, Groups
<1>3. n \in Groups /\ n.id = id
  BY DEF Zone, Groups
<1>4. n = With(GroupOf(zones, id, type), a)
  <2>1. GroupOf(zones, id, type) = Zone(id, type, {})
    BY DEF GroupOf
  <2> DEFINE y == With(Zone(id, type, {}), a)
  <2>2. y \in Groups /\ y.id = id /\ y.type = type /\ y.cpus = {a} /\ y.sub = <<>>
    <3> DEFINE z == Zone(id, type, {})
    <3>1. z \in Groups /\ z.id = id /\ z.type = type /\ z.cpus = {} /\ z.sub = <<>>
      BY <1>2 DEF Zone
    <3> HIDE DEF z
    <3>2. With(z, a) \in Groups /\ With(z, a).id = id /\ With(z, a).type = type
          /\ With(z, a).cpus = {a} /\ With(z, a).sub = <<>>
      BY <3>1 DEF With, Groups
    <3>3. QED
      BY <3>2 DEF z
  <2> HIDE DEF y
  <2>3. y = n
    BY <2>2 DEF Zone, Groups
  <2>4. QED
    BY <2>1, <2>3 DEF y
<1>5. r = Joined(zones, id, type, a)
  BY DEF Topologized
<1> HIDE DEF n
<1>6. r \in Seq(Groups) /\ SortedIds(r) /\ Range(r) = {z \in Range(zones) : z.id # id} \cup {n}
  BY ONLY <1>1, <1>2, <1>3, <1>4, <1>5, zones \in Seq(Groups), SortedIds(zones), id \in Nat, JoinedFact
<1>7. {z \in Range(zones) : z.id # id} = Range(zones)
  BY DEF HasGroup
<1>8. QED
  BY <1>6, <1>7 DEF n, NewGroup

OldGroup(r, g, id, type, a, core, first) ==
    /\ r \in Seq(Groups) /\ SortedIds(r)
    /\ \E n \in Groups :
         /\ Range(r) = {zones[i] : i \in DOMAIN zones \ {g}} \cup {n}
         /\ n.id = id /\ n.type = zones[g].type /\ n.cpus = zones[g].cpus \cup {a}
         /\ n.sub = Joined(FirstSub(zones[g], type, first), core, type, a)

\* Another processor joins its package, and a core of it.
LEMMA TopologizedOld ==
    ASSUME zones \in Seq(Groups), SortedIds(zones), NEW id \in Nat, NEW type \in Nat, NEW a \in Nat,
           NEW core \in Nat, NEW first \in Nat,
           NEW g \in DOMAIN zones, zones[g].id = id, Min(zones[g].cpus) \in Nat, SortedIds(zones[g].sub),
           NEW r, r = Topologized(id, type, a, core, first)
    PROVE  OldGroup(r, g, id, type, a, core, first)
<1> DEFINE s1 == Split(g, type, first)
           sub == Joined(s1[g].sub, core, type, a)
           z2 == [s1 EXCEPT ![g].sub = sub]
           n == With(z2[g], a)
<1>1. \A z \in Groups : z.id \in Nat
  BY DEF Groups
<1>2. GroupIndex(zones, id) = g /\ HasGroup(zones, id)
  BY <1>1, SameGroupFact
<1>3. r = Joined(z2, id, type, a)
  BY <1>2 DEF Topologized
<1>4. /\ s1 \in Seq(Groups) /\ DOMAIN s1 = DOMAIN zones
      /\ \A i \in DOMAIN zones : i # g => s1[i] = zones[i]
      /\ s1[g].id = zones[g].id /\ s1[g].type = zones[g].type /\ s1[g].cpus = zones[g].cpus
      /\ s1[g].sub = FirstSub(zones[g], type, first)
      /\ s1[g].sub \in Seq(Leafs) /\ SortedIds(s1[g].sub)
  BY SplitFact
<1> HIDE DEF s1
<1>5. sub \in Seq(Leafs) /\ sub = Joined(FirstSub(zones[g], type, first), core, type, a)
  BY <1>4, JoinLeaf DEF JoinsLeaf
<1> HIDE DEF sub
<1>6. s1[g] \in Groups
  BY <1>4
<1>7. [s1[g] EXCEPT !.sub = sub] \in Groups
  BY <1>5, <1>6 DEF Groups
<1>8. z2 = [s1 EXCEPT ![g] = [s1[g] EXCEPT !.sub = sub]]
  BY <1>4
<1> HIDE DEF z2
<1>9. /\ z2 \in Seq(Groups) /\ DOMAIN z2 = DOMAIN zones
      /\ \A i \in DOMAIN zones : i # g => z2[i] = zones[i]
      /\ z2[g] = [s1[g] EXCEPT !.sub = sub]
  BY <1>4, <1>7, <1>8
<1>10. /\ z2[g].id = id /\ z2[g].type = zones[g].type /\ z2[g].cpus = zones[g].cpus
       /\ z2[g].sub = sub /\ z2[g] \in Groups
  BY <1>4, <1>6, <1>7, <1>9 DEF Groups
<1>11. SortedIds(z2)
  <2>1. \A i \in DOMAIN zones : z2[i].id = zones[i].id
    BY <1>9, <1>10
  <2>2. QED
    BY <1>9, <2>1 DEF SortedIds
<1>12. /\ GroupIndex(z2, id) = g /\ HasGroup(z2, id)
       /\ {z \in Range(z2) : z.id # id} = {z2[i] : i \in DOMAIN z2 \ {g}}
  <2>1. g \in DOMAIN z2 /\ z2[g].id = id /\ z2 \in Seq(Groups)
    BY <1>9, <1>10
  <2>2. QED
    BY ONLY <1>1, <1>11, <2>1, SameGroupFact
<1>13. /\ n \in Groups /\ n.id = id /\ n.type = zones[g].type /\ n.cpus = zones[g].cpus \cup {a}
       /\ n.sub = sub
  BY <1>10 DEF With, Groups
<1>14. n = With(GroupOf(z2, id, type), a)
  <2>1. GroupOf(z2, id, type) = z2[g]
    BY <1>12 DEF GroupOf
  <2>2. QED
    BY <2>1
<1>15. Zone(id, type, {}) \in Groups
  BY DEF Zone, Groups
<1> HIDE DEF n
<1>16. r \in Seq(Groups) /\ SortedIds(r) /\ Range(r) = {z \in Range(z2) : z.id # id} \cup {n}
  <2>1. z2 \in Seq(Groups) /\ n.id = id /\ n \in Groups
    BY <1>9, <1>13
  <2>2. QED
    BY ONLY <1>1, <1>3, <1>11, <1>14, <1>15, <2>1, id \in Nat, JoinedFact
<1>17. {z2[i] : i \in DOMAIN z2 \ {g}} = {zones[i] : i \in DOMAIN zones \ {g}}
  BY <1>9
<1>18. Range(r) = {zones[i] : i \in DOMAIN zones \ {g}} \cup {n}
  BY <1>12, <1>16, <1>17
<1>19. \E m \in Groups :
         /\ Range(r) = {zones[i] : i \in DOMAIN zones \ {g}} \cup {m}
         /\ m.id = id /\ m.type = zones[g].type /\ m.cpus = zones[g].cpus \cup {a}
         /\ m.sub = Joined(FirstSub(zones[g], type, first), core, type, a)
  BY <1>5, <1>13, <1>18
<1>20. QED
  BY <1>16, <1>19 DEF OldGroup

-----------------------------------------------------------------------------
(* The invariant of the zones.                                               *)

\* Cores that schedule exactly the processors of their package
Covers(sub, cpus) ==
    /\ SortedIds(sub) /\ \A s \in Range(sub) : s.cpus # {}
    /\ cpus = UNION {s.cpus : s \in Range(sub)}
    /\ \A s, t \in Range(sub) : s # t => s.cpus \cap t.cpus = {}

\* A package has one processor and no cores, or cores that cover it
GoodGroup(z) ==
    /\ z.cpus # {}
    /\ z.sub = <<>> => \E a \in z.cpus : z.cpus = {a}
    /\ z.sub # <<>> => Covers(z.sub, z.cpus)

\* IDs tell the groups of a list apart.
LEMMA IdsUnique ==
    ASSUME NEW S, \A z \in S : z.id \in Nat, NEW list \in Seq(S), SortedIds(list),
           NEW y \in Range(list), NEW z \in Range(list), y.id = z.id
    PROVE  y = z
<1>1. PICK i \in DOMAIN list : y = list[i]
  BY DEF Range
<1>2. PICK j \in DOMAIN list : z = list[j]
  BY DEF Range
<1>3. i \in Nat /\ j \in Nat /\ list[i] \in S /\ list[j] \in S /\ list[i].id \in Nat /\ list[j].id \in Nat
  OBVIOUS
<1>4. ~(i < j) /\ ~(j < i)
  BY <1>1, <1>2, <1>3 DEF SortedIds
<1>5. QED
  BY <1>1, <1>2, <1>3, <1>4

\* What is said of the cores a package has when another processor joins it
FirstCores(sub, z, type, first) ==
    /\ Min(z.cpus) \in z.cpus /\ sub \in Seq(Leafs) /\ sub # <<>> /\ Covers(sub, z.cpus)
    /\ \A t \in Range(sub) :
         \/ t \in Range(z.sub)
         \/ /\ z.sub = <<>> /\ t.type = type /\ t.id = first
            /\ t.cpus = z.cpus /\ t.cpus = {Min(z.cpus)}

\* They cover the package, and are those it had or one for its only processor.
LEMMA FirstSubFact ==
    ASSUME NEW z \in Groups, GoodGroup(z), NEW type \in Nat, NEW first \in Nat,
           NEW sub, sub = FirstSub(z, type, first)
    PROVE  FirstCores(sub, z, type, first)
<1>1. z.cpus \subseteq Nat /\ z.sub \in Seq(Leafs)
  BY DEF Groups
<1>2. Min(z.cpus) \in z.cpus
  BY <1>1, MinFact DEF GoodGroup
<1>3. CASE z.sub # <<>>
  BY <1>1, <1>2, <1>3 DEF FirstSub, GoodGroup, FirstCores
<1>4. CASE z.sub = <<>>
  <2> DEFINE one == Zone(first, type, {Min(z.cpus)})
  <2>1. sub = <<one>>
    BY <1>4 DEF FirstSub
  <2>2. z.cpus = {Min(z.cpus)}
    BY <1>2, <1>4 DEF GoodGroup
  <2>3. /\ one.id = first /\ one.type = type /\ one.cpus = {Min(z.cpus)} /\ one \in Leafs
    BY <1>1, <1>2 DEF Zone, Leafs
  <2> HIDE DEF one
  <2>4. /\ sub \in Seq(Leafs) /\ sub # <<>> /\ Range(sub) = {one} /\ SortedIds(sub)
    BY <2>1, <2>3 DEF Range, SortedIds
  <2>5. Covers(sub, z.cpus)
    BY <2>2, <2>3, <2>4 DEF Covers
  <2>6. QED
    BY <1>2, <1>4, <2>2, <2>3, <2>4, <2>5 DEF FirstCores
<1>5. QED
  BY <1>3, <1>4

Joining(n, z, type, first, core, a) ==
    /\ GoodGroup(n)
    /\ \A s \in Range(n.sub) : s.type = type \/ \E t \in Range(z.sub) : s.type = t.type
    /\ \A s \in Range(n.sub) : \A b \in s.cpus :
         \/ b = a /\ s.id = core
         \/ \E t \in Range(z.sub) : b \in t.cpus /\ s.id = t.id
         \/ z.sub = <<>> /\ b = Min(z.cpus) /\ s.id = first

\* A package that another processor joins is still covered by its cores, and
\* the processors and the types of the cores are those it had and the new one's.
LEMMA PackageJoin ==
    ASSUME NEW z \in Groups, GoodGroup(z), NEW type \in Nat, NEW first \in Nat, NEW core \in Nat,
           NEW a \in Nat, a \notin z.cpus,
           NEW n \in Groups, n.cpus = z.cpus \cup {a},
           n.sub = Joined(FirstSub(z, type, first), core, type, a)
    PROVE  Joining(n, z, type, first, core, a)
<1> DEFINE sub == FirstSub(z, type, first)
           J == n.sub
<1>0. sub = FirstSub(z, type, first) /\ J = Joined(sub, core, type, a)
  OBVIOUS
<1> HIDE DEF sub
<1>a. FirstCores(sub, z, type, first)
  BY <1>0, FirstSubFact
<1>1. /\ sub \in Seq(Leafs) /\ Covers(sub, z.cpus)
      /\ \A t \in Range(sub) :
           \/ t \in Range(z.sub)
           \/ /\ z.sub = <<>> /\ t.type = type /\ t.id = first
              /\ t.cpus = z.cpus /\ t.cpus = {Min(z.cpus)}
  BY <1>a DEF FirstCores
<1>2. SortedIds(sub)
  BY <1>1 DEF Covers
<1>b. JoinsLeaf(J, sub, core, type, a)
  <2>1. sub \in Seq(Leafs)
    BY <1>1
  <2> HIDE DEF J
  <2>2. QED
    BY <1>0, <1>2, <2>1, JoinLeaf
<1>3. /\ n.sub \in Seq(Leafs) /\ SortedIds(n.sub)
      /\ \E m \in Leafs :
           /\ Range(n.sub) = {t \in Range(sub) : t.id # core} \cup {m} /\ m.id = core
           /\ \/ \E s \in Range(sub) : s.id = core /\ m.type = s.type /\ m.cpus = s.cpus \cup {a}
              \/ m.type = type /\ m.cpus = {a} /\ \A s \in Range(sub) : s.id # core
  BY <1>b DEF JoinsLeaf
<1> HIDE DEF J
<1>4. PICK m \in Leafs :
           /\ Range(n.sub) = {t \in Range(sub) : t.id # core} \cup {m} /\ m.id = core
           /\ \/ \E s \in Range(sub) : s.id = core /\ m.type = s.type /\ m.cpus = s.cpus \cup {a}
              \/ m.type = type /\ m.cpus = {a} /\ \A s \in Range(sub) : s.id # core
  BY <1>3
<1>5. \A s, t \in Range(sub) : s.id = t.id => s = t
  <2>1. \A l \in Leafs : l.id \in Nat
    BY DEF Leafs
  <2>2. QED
    BY <1>1, <1>2, <2>1, IdsUnique
<1>6. /\ \A s \in Range(sub) : s.cpus # {} /\ s.cpus \subseteq z.cpus
      /\ z.cpus = UNION {s.cpus : s \in Range(sub)}
      /\ \A s, t \in Range(sub) : s # t => s.cpus \cap t.cpus = {}
  BY <1>1 DEF Covers
<1>7. a \in m.cpus /\ n.sub # <<>>
  <2>1. a \in m.cpus /\ m \in Range(n.sub)
    BY <1>4
  <2>2. QED
    BY <2>1 DEF Range
<1>8. n.cpus = UNION {s.cpus : s \in Range(n.sub)}
  <2>1. ASSUME NEW b \in n.cpus PROVE \E s \in Range(n.sub) : b \in s.cpus
    <3>1. CASE b = a
      BY <1>4, <1>7, <3>1
    <3>2. CASE b # a
      <4>1. PICK t \in Range(sub) : b \in t.cpus
        BY <1>6, <3>2
      <4>2. CASE t.id # core
        BY <1>4, <4>1, <4>2
      <4>3. CASE t.id = core
        BY <1>4, <1>5, <4>1, <4>3
      <4>4. QED
        BY <4>2, <4>3
    <3>3. QED
      BY <3>1, <3>2
  <2>2. ASSUME NEW s \in Range(n.sub), NEW b \in s.cpus PROVE b \in n.cpus
    BY <1>4, <1>6, <2>2
  <2>3. QED
    BY <2>1, <2>2
<1>9. \A t \in Range(sub) : t.id # core => t.cpus \cap m.cpus = {}
  BY <1>4, <1>6
<1>10. Covers(n.sub, n.cpus)
  <2>1. \A s \in Range(n.sub) : s.cpus # {}
    BY <1>4, <1>6, <1>7
  <2>2. \A s, t \in Range(n.sub) : s # t => s.cpus \cap t.cpus = {}
    BY <1>4, <1>6, <1>9
  <2>3. QED
    BY <1>3, <1>8, <2>1, <2>2 DEF Covers
<1>11. GoodGroup(n)
  BY <1>7, <1>10 DEF GoodGroup
<1>12. \A s \in Range(n.sub) : s.type = type \/ \E t \in Range(z.sub) : s.type = t.type
  BY <1>1, <1>4
<1>13. ASSUME NEW s \in Range(n.sub), NEW b \in s.cpus
       PROVE  \/ b = a /\ s.id = core
              \/ \E t \in Range(z.sub) : b \in t.cpus /\ s.id = t.id
              \/ z.sub = <<>> /\ b = Min(z.cpus) /\ s.id = first
  <2>1. (b = a /\ s.id = core) \/ \E t \in Range(sub) : b \in t.cpus /\ s.id = t.id
    BY <1>4
  <2>2. QED
    BY <1>1, <2>1
<1>14. QED
  BY <1>11, <1>12, <1>13 DEF Joining

Shape ==
    /\ zones \in Seq(Groups) /\ SortedIds(zones) /\ \A z \in Range(zones) : GoodGroup(z)
    /\ \A y, z \in Range(zones) : y # z => y.cpus \cap z.cpus = {}

\* The processors done are placed
PlacedNow ==
    /\ pc \in Detecting \ {"spawn"} => Placed = Before
    /\ pc = "spawn" => Placed = Before \cup {aid}
    /\ pc \in Detected => Placed = mask

\* A group has the type of one of these processors
TypedAs(s, cpus) == s.type \in DOMAIN types /\ types[s.type].desc.kind \in {Kind(mach, b) : b \in cpus}
KindsNow ==
    pc \in Detecting \cup Detected =>
        \A z \in Range(zones) : TypedAs(z, z.cpus) /\ \A s \in Range(z.sub) : TypedAs(s, z.cpus)

\* Groups hold the processors the code places there
CodePlace(a) == X86TopologyOf(VendorTopology(Regs(mach, a)))
CoresNow ==
    Told => /\ \A a \in Placed : tm[a] = CodePlace(a).core
            /\ \A z \in Range(zones) :
                 /\ \A a \in z.cpus : CodePlace(a).pkg = z.id
                 /\ \A s \in Range(z.sub) : \A a \in s.cpus : CodePlace(a).core = s.id
TmType == tm \in [0 .. MaxCpu - 1 -> Nat]

InMask == Placed \subseteq mask

ZonesInv == Shape /\ PlacedNow /\ KindsNow /\ CoresNow /\ TmType /\ InMask

\* What topologize() makes of the zones: group n, with the processor, instead
\* of the group of its package if there was one
Grown(list, n, R, first) ==
    /\ Range(list) = R \cup {n} /\ n.id = cpu.place.pkg /\ GoodGroup(n) /\ aid \in n.cpus
    /\ \A z \in R : z.cpus \cap n.cpus = {}
    /\ UNION {z.cpus : z \in R \cup {n}} = Placed \cup {aid}
    /\ n.type = TypeIndex \/ \E z \in Range(zones) : z.cpus \subseteq n.cpus /\ n.type = z.type
    /\ \A s \in Range(n.sub) :
         s.type = TypeIndex
         \/ \E z \in Range(zones) : z.cpus \subseteq n.cpus /\ \E t \in Range(z.sub) : s.type = t.type
    /\ \A b \in n.cpus : b = aid \/ \E z \in Range(zones) : z.id = n.id /\ b \in z.cpus
    /\ \A s \in Range(n.sub) : \A b \in s.cpus :
         \/ b = aid /\ s.id = cpu.place.core
         \/ \E z \in Range(zones) : \E t \in Range(z.sub) : b \in t.cpus /\ s.id = t.id
         \/ b \in Placed /\ s.id = first /\ first \in StoredCores(b)

\* The processor being placed, and its place.
LEMMA PlacingFact ==
    ASSUME Base, ZonesInv, pc = "topologize"
    PROVE  /\ cpu.place \in Places /\ TypeIndex \in Nat /\ TypeIndex \in DOMAIN types
           /\ aid \in Nat /\ aid \in mask /\ Placed = Before /\ aid \notin Placed
           /\ cpu.place = CodePlace(aid) /\ types[TypeIndex].desc.kind = Kind(mach, aid)
<1>1. /\ TypeIndex \in DOMAIN types /\ cpu.place = CodePlace(aid) /\ cpu.place \in Places
      /\ types[TypeIndex].desc.kind = Kind(mach, aid)
  BY DEF Base, TypedNow, CodePlace
<1>2. TypeIndex \in Nat
  <2>1. types \in Seq(TypeRecs)
    BY DEF Base, Typing
  <2>2. QED
    BY <1>1, <2>1
<1>3. aid \in Nat /\ aid \in mask
  BY DEF Base, PinnedNow, Typing
<1>4. Placed = Before
  BY DEF ZonesInv, PlacedNow, Detecting
<1>5. aid \notin Before
  BY <1>3 DEF Before
<1>6. QED
  BY <1>1, <1>2, <1>3, <1>4, <1>5

\* A processor that is the first of its package.
LEMMA GrownNew ==
    ASSUME Base, ZonesInv, pc = "topologize", ~HasGroup(zones, cpu.place.pkg), NEW first \in Nat,
           NEW r, r = Topologized(cpu.place.pkg, TypeIndex, aid, cpu.place.core, first)
    PROVE  /\ r \in Seq(Groups) /\ SortedIds(r)
           /\ \E n \in Groups, R \in SUBSET Range(zones) : Grown(r, n, R, first)
<1> DEFINE id == cpu.place.pkg
           n == Zone(id, TypeIndex, {aid})
<1>1. /\ cpu.place \in Places /\ TypeIndex \in Nat /\ aid \in Nat /\ aid \notin Placed
  BY PlacingFact
<1>2. id \in Nat
  BY <1>1 DEF Places
<1>3. zones \in Seq(Groups) /\ SortedIds(zones)
  BY DEF ZonesInv, Shape
<1>4. r \in Seq(Groups) /\ SortedIds(r) /\ Range(r) = Range(zones) \cup {n}
  <2>1. NewGroup(r, id, TypeIndex, aid)
    BY <1>1, <1>2, <1>3, TopologizedNew
  <2>2. QED
    BY <2>1 DEF NewGroup
<1>5. n \in Groups /\ n.id = id /\ n.type = TypeIndex /\ n.cpus = {aid} /\ n.sub = <<>>
  BY <1>1, <1>2 DEF Zone, Groups
<1> HIDE DEF n
<1>6. Range(n.sub) = {} /\ GoodGroup(n)
  BY <1>5 DEF Range, GoodGroup
<1>7. \A z \in Range(zones) : aid \notin z.cpus
  BY <1>1 DEF Placed
<1>8. Grown(r, n, Range(zones), first)
  <2>1. UNION {z.cpus : z \in Range(zones) \cup {n}} = Placed \cup {aid}
    BY <1>5 DEF Placed
  <2>2. \A z \in Range(zones) : z.cpus \cap n.cpus = {}
    BY <1>5, <1>7
  <2>3. QED
    BY <1>4, <1>5, <1>6, <2>1, <2>2 DEF Grown
<1>9. QED
  BY <1>4, <1>5, <1>8

\* A processor whose package has a group.
LEMMA GrownOld ==
    ASSUME Base, ZonesInv, pc = "topologize", NEW g \in DOMAIN zones, zones[g].id = cpu.place.pkg,
           NEW first \in Nat, first \in StoredCores(Min(zones[g].cpus)),
           NEW r, r = Topologized(cpu.place.pkg, TypeIndex, aid, cpu.place.core, first)
    PROVE  /\ r \in Seq(Groups) /\ SortedIds(r)
           /\ \E n \in Groups, R \in SUBSET Range(zones) : Grown(r, n, R, first)
<1> DEFINE id == cpu.place.pkg
           core == cpu.place.core
           z == zones[g]
           R == {zones[i] : i \in DOMAIN zones \ {g}}
<1>1. /\ cpu.place \in Places /\ TypeIndex \in Nat /\ aid \in Nat /\ aid \notin Placed
  BY PlacingFact
<1>2. id \in Nat /\ core \in Nat
  BY <1>1 DEF Places
<1>3. /\ zones \in Seq(Groups) /\ SortedIds(zones) /\ \A y \in Range(zones) : GoodGroup(y)
      /\ \A x, y \in Range(zones) : x # y => x.cpus \cap y.cpus = {}
  BY DEF ZonesInv, Shape
<1>4. z \in Groups /\ z \in Range(zones) /\ GoodGroup(z) /\ R \subseteq Range(zones)
  BY <1>3 DEF Range
<1>5. aid \notin z.cpus /\ \A y \in Range(zones) : y.cpus \subseteq Placed /\ aid \notin y.cpus
  BY <1>1, <1>4 DEF Placed
<1>6. FirstCores(FirstSub(z, TypeIndex, first), z, TypeIndex, first)
  BY <1>1, <1>4, FirstSubFact
<1>7. Min(z.cpus) \in z.cpus /\ Min(z.cpus) \in Nat
  BY <1>4, <1>6 DEF FirstCores, Groups
<1>8. SortedIds(z.sub)
  <2>1. CASE z.sub = <<>>
    BY <2>1 DEF SortedIds
  <2>2. CASE z.sub # <<>>
    BY <1>4, <2>2 DEF GoodGroup, Covers
  <2>3. QED
    BY <2>1, <2>2
<1>9. /\ r \in Seq(Groups) /\ SortedIds(r)
      /\ \E n \in Groups :
           /\ Range(r) = R \cup {n}
           /\ n.id = id /\ n.type = z.type /\ n.cpus = z.cpus \cup {aid}
           /\ n.sub = Joined(FirstSub(z, TypeIndex, first), core, TypeIndex, aid)
  <2>1. OldGroup(r, g, id, TypeIndex, aid, core, first)
    BY <1>1, <1>2, <1>3, <1>7, <1>8, TopologizedOld
  <2>2. QED
    BY <2>1 DEF OldGroup
<1>10. PICK n \in Groups :
           /\ Range(r) = R \cup {n}
           /\ n.id = id /\ n.type = z.type /\ n.cpus = z.cpus \cup {aid}
           /\ n.sub = Joined(FirstSub(z, TypeIndex, first), core, TypeIndex, aid)
  BY <1>9
<1>11. /\ GoodGroup(n)
       /\ \A s \in Range(n.sub) : s.type = TypeIndex \/ \E t \in Range(z.sub) : s.type = t.type
       /\ \A s \in Range(n.sub) : \A b \in s.cpus :
            \/ b = aid /\ s.id = core
            \/ \E t \in Range(z.sub) : b \in t.cpus /\ s.id = t.id
            \/ z.sub = <<>> /\ b = Min(z.cpus) /\ s.id = first
  <2>1. Joining(n, z, TypeIndex, first, core, aid)
    BY <1>1, <1>2, <1>4, <1>5, <1>10, PackageJoin
  <2>2. QED
    BY <2>1 DEF Joining
<1>12. \A y \in R : y.cpus \cap n.cpus = {}
  <2>1. ASSUME NEW i \in DOMAIN zones \ {g} PROVE zones[i].cpus \cap z.cpus = {}
    <3>1. zones[i].id # zones[g].id
      <4>1. zones[i] \in Groups /\ zones[i].id \in Nat /\ zones[g].id \in Nat /\ i \in Nat /\ g \in Nat
        <5>1. zones[i] \in Groups /\ zones[g] \in Groups /\ i \in Nat /\ g \in Nat
          BY <1>3
        <5>2. QED
          BY <5>1 DEF Groups
      <4>2. i < g \/ g < i
        BY <4>1
      <4>3. zones[i].id < zones[g].id \/ zones[g].id < zones[i].id
        BY <1>3, <4>2 DEF SortedIds
      <4>4. QED
        BY <4>1, <4>3
    <3>2. zones[i] \in Range(zones) /\ zones[i] # z
      BY <3>1 DEF Range
    <3>3. QED
      BY <1>3, <1>4, <3>2
  <2>2. QED
    BY <1>4, <1>5, <1>10, <2>1
<1>13. Range(zones) = R \cup {z}
  BY DEF Range
<1>14. UNION {y.cpus : y \in R \cup {n}} = Placed \cup {aid}
  <2>1. Placed = UNION {y.cpus : y \in R \cup {z}}
    BY <1>13 DEF Placed
  <2> HIDE DEF R, z
  <2>2. QED
    BY <1>10, <2>1
<1>15. Grown(r, n, R, first)
  <2>1. Range(r) = R \cup {n} /\ n.id = id /\ GoodGroup(n) /\ aid \in n.cpus /\ z.cpus \subseteq n.cpus
    BY <1>10, <1>11
  <2>2. \E y \in Range(zones) : y.cpus \subseteq n.cpus /\ n.type = y.type
    BY <1>4, <1>10, <2>1
  <2>3. \A s \in Range(n.sub) :
         s.type = TypeIndex
         \/ \E y \in Range(zones) : y.cpus \subseteq n.cpus /\ \E t \in Range(y.sub) : s.type = t.type
    BY <1>4, <1>11, <2>1
  <2>4. \A b \in n.cpus : b = aid \/ \E y \in Range(zones) : y.id = n.id /\ b \in y.cpus
    BY <1>4, <1>10
  <2>5. ASSUME NEW s \in Range(n.sub), NEW b \in s.cpus
        PROVE  \/ b = aid /\ s.id = core
               \/ \E y \in Range(zones) : \E t \in Range(y.sub) : b \in t.cpus /\ s.id = t.id
               \/ b \in Placed /\ s.id = first /\ first \in StoredCores(b)
    BY <1>4, <1>5, <1>7, <1>11
  <2> HIDE DEF R, z
  <2>6. QED
    BY <1>12, <1>14, <2>1, <2>2, <2>3, <2>4, <2>5 DEF Grown
<1>16. QED
  BY <1>4, <1>9, <1>10, <1>15

\* The core read back for a processor of the mask is a natural; without gaps
\* in the mask, it is the one that was stored.
LEMMA StoredFact ==
    ASSUME Base, ZonesInv, NEW a \in mask
    PROVE  StoredCores(a) # {} /\ StoredCores(a) \subseteq Nat /\ (Told => StoredCores(a) = {tm[a]})
<1>1. MaxCpu \in Nat /\ mach \in Machines /\ mask \subseteq Cpus(mach)
  BY HardwareAssumption DEF Base, Typing
<1>2. mach.tpc * mach.cores * mach.pkgs <= MaxCpu
  BY <1>1, HardwareAssumption
<1>3. mach.tpc * mach.cores * mach.pkgs \in Nat
  <2>1. mach.tpc \in Nat /\ mach.cores \in Nat /\ mach.pkgs \in Nat
    BY <1>1, MachineFact
  <2>2. QED
    BY <2>1
<1>4. a \in Nat /\ a < mach.tpc * mach.cores * mach.pkgs
  BY <1>1, <1>3 DEF Cpus
<1>5. a \in 0 .. MaxCpu - 1
  BY <1>1, <1>2, <1>3, <1>4
<1>6. tm[a] \in Nat
  BY <1>5 DEF ZonesInv, TmType
<1>7. StoredCores(a) # {} /\ StoredCores(a) \subseteq Nat
  <2>1. 0 .. MaxCpu - 1 # {} /\ 0 .. MaxCpu - 1 \subseteq Nat
    <3>1. 0 .. MaxCpu - 1 # {}
      BY <1>5
    <3>2. 0 .. MaxCpu - 1 \subseteq Nat
      BY <1>1
    <3>3. QED
      BY <3>1, <3>2
  <2>2. StoredCores(a) = {tm[a]} \/ StoredCores(a) = 0 .. MaxCpu - 1
    BY DEF StoredCores
  <2>3. QED
    BY <1>6, <2>1, <2>2
<1>8. ASSUME Told PROVE StoredCores(a) = {tm[a]}
  <2>1. mask = 0 .. Cardinality(mask) - 1 /\ Cardinality(mask) \in Nat
    <3>1. IsFiniteSet(mask)
      BY MaskFact DEF Base
    <3>2. QED
      BY <1>8, <3>1, FS_CardinalityType DEF Told
  <2>2. a < Cardinality(mask)
    BY <2>1
  <2>3. QED
    BY <2>2 DEF StoredCores
<1>9. QED
  BY <1>7, <1>8

\* Placing a processor keeps the shape of the zones, and places it.
LEMMA GrownShape ==
    ASSUME Base, ZonesInv, pc = "topologize", NEW first, zones' \in Seq(Groups), SortedIds(zones'),
           NEW n \in Groups, NEW R \in SUBSET Range(zones), Grown(zones', n, R, first)
    PROVE  Shape' /\ Placed' = Placed \cup {aid}
<1>1. /\ Range(zones') = R \cup {n} /\ GoodGroup(n) /\ \A z \in R : z.cpus \cap n.cpus = {}
      /\ UNION {z.cpus : z \in R \cup {n}} = Placed \cup {aid}
  BY DEF Grown
<1>2. /\ \A z \in Range(zones) : GoodGroup(z)
      /\ \A y, z \in Range(zones) : y # z => y.cpus \cap z.cpus = {}
  BY DEF ZonesInv, Shape
<1>3. Placed' = Placed \cup {aid}
  BY <1>1 DEF Placed
<1>4. \A z \in Range(zones') : GoodGroup(z)
  BY <1>1, <1>2
<1>5. \A y, z \in Range(zones') : y # z => y.cpus \cap z.cpus = {}
  BY <1>1, <1>2
<1>6. QED
  BY <1>3, <1>4, <1>5 DEF Shape

\* The groups have the types of their processors.
LEMMA GrownKinds ==
    ASSUME Base, ZonesInv, pc = "topologize", NEW first, UNCHANGED <<mach, types>>,
           NEW n \in Groups, NEW R \in SUBSET Range(zones), Grown(zones', n, R, first)
    PROVE  KindsNow'
<1>1. /\ TypeIndex \in DOMAIN types /\ types[TypeIndex].desc.kind = Kind(mach, aid)
  BY PlacingFact
<1>2. \A z \in Range(zones) : TypedAs(z, z.cpus) /\ \A s \in Range(z.sub) : TypedAs(s, z.cpus)
  BY DEF ZonesInv, KindsNow, Detecting
<1>3. /\ Range(zones') = R \cup {n} /\ aid \in n.cpus
      /\ n.type = TypeIndex \/ \E z \in Range(zones) : z.cpus \subseteq n.cpus /\ n.type = z.type
      /\ \A s \in Range(n.sub) :
           s.type = TypeIndex
           \/ \E z \in Range(zones) : z.cpus \subseteq n.cpus /\ \E t \in Range(z.sub) : s.type = t.type
  BY DEF Grown
<1>4. \A s : s.type = TypeIndex => TypedAs(s, n.cpus)
  BY <1>1, <1>3 DEF TypedAs
<1>5. \A s, t, c : TypedAs(t, c) /\ c \subseteq n.cpus /\ s.type = t.type => TypedAs(s, n.cpus)
  BY DEF TypedAs
<1>6. TypedAs(n, n.cpus)
  BY <1>2, <1>3, <1>4, <1>5
<1>7. ASSUME NEW s \in Range(n.sub) PROVE TypedAs(s, n.cpus)
  BY <1>2, <1>3, <1>4, <1>5
<1>8. \A s, c : TypedAs(s, c)' <=> TypedAs(s, c)
  BY DEF TypedAs
<1>9. \A z \in Range(zones') : TypedAs(z, z.cpus) /\ \A s \in Range(z.sub) : TypedAs(s, z.cpus)
  BY <1>2, <1>3, <1>6, <1>7
<1>10. QED
  BY <1>8, <1>9 DEF KindsNow

\* The groups hold the processors the code places there.
LEMMA GrownCores ==
    ASSUME Base, ZonesInv, pc = "topologize", NEW first, UNCHANGED <<mach, mask>>,
           tm' = [tm EXCEPT ![aid] = cpu.place.core], Placed' = Placed \cup {aid},
           NEW n \in Groups, NEW R \in SUBSET Range(zones), Grown(zones', n, R, first)
    PROVE  CoresNow' /\ TmType'
<1>1. /\ cpu.place \in Places /\ aid \in mask /\ Placed = Before /\ aid \notin Placed
      /\ cpu.place = CodePlace(aid)
  BY PlacingFact
<1>2. TmType'
  BY <1>1 DEF ZonesInv, TmType, Places
<1>3. (Told' <=> Told) /\ \A a : CodePlace(a)' = CodePlace(a)
  BY DEF Told, CodePlace
<1>4. ASSUME Told PROVE CoresNow'
  <2>1. /\ \A a \in Placed : tm[a] = CodePlace(a).core
        /\ \A z \in Range(zones) :
             /\ \A a \in z.cpus : CodePlace(a).pkg = z.id
             /\ \A s \in Range(z.sub) : \A a \in s.cpus : CodePlace(a).core = s.id
    BY <1>4 DEF ZonesInv, CoresNow
  <2>2. /\ Range(zones') = R \cup {n} /\ n.id = cpu.place.pkg
        /\ \A b \in n.cpus : b = aid \/ \E z \in Range(zones) : z.id = n.id /\ b \in z.cpus
        /\ \A s \in Range(n.sub) : \A b \in s.cpus :
             \/ b = aid /\ s.id = cpu.place.core
             \/ \E z \in Range(zones) : \E t \in Range(z.sub) : b \in t.cpus /\ s.id = t.id
             \/ b \in Placed /\ s.id = first /\ first \in StoredCores(b)
    BY DEF Grown
  <2>3. \A b \in Placed : StoredCores(b) = {tm[b]}
    BY <1>1, <1>4, StoredFact DEF Before
  <2>4. \A a \in Placed' : tm'[a] = CodePlace(a).core
    <3>1. aid \in DOMAIN tm
      <4>1. aid \in 0 .. MaxCpu - 1
        <5>1. MaxCpu \in Nat /\ mach \in Machines /\ aid \in Cpus(mach)
          BY <1>1, HardwareAssumption DEF Base, Typing
        <5>2. mach.tpc * mach.cores * mach.pkgs <= MaxCpu
          BY <5>1, HardwareAssumption
        <5>3. mach.tpc * mach.cores * mach.pkgs \in Nat
          <6>1. mach.tpc \in Nat /\ mach.cores \in Nat /\ mach.pkgs \in Nat
            BY <5>1, MachineFact
          <6>2. QED
            BY <6>1
        <5>4. QED
          BY <5>1, <5>2, <5>3 DEF Cpus
      <4>2. QED
        BY <4>1 DEF ZonesInv, TmType
    <3>2. tm'[aid] = CodePlace(aid).core /\ \A a \in Placed : tm'[a] = tm[a]
      BY <1>1, <3>1 DEF ZonesInv, TmType
    <3>3. QED
      BY <2>1, <3>2
  <2>5. \A a \in n.cpus : CodePlace(a).pkg = n.id
    BY <1>1, <2>1, <2>2
  <2>6. ASSUME NEW s \in Range(n.sub), NEW a \in s.cpus PROVE CodePlace(a).core = s.id
    BY <1>1, <2>1, <2>2, <2>3
  <2>7. \A z \in Range(zones') :
             /\ \A a \in z.cpus : CodePlace(a).pkg = z.id
             /\ \A s \in Range(z.sub) : \A a \in s.cpus : CodePlace(a).core = s.id
    BY <2>1, <2>2, <2>5, <2>6
  <2>8. QED
    BY <1>3, <2>4, <2>7 DEF CoresNow
<1>5. QED
  BY <1>2, <1>3, <1>4 DEF CoresNow

\* A zone that cannot be allocated: the core of the first processor may be in
\* place already.
LEMMA ZonesSplit ==
    ASSUME Base, ZonesInv, pc = "topologize", UNCHANGED <<mach, mask, tm>>, pc' = "unwind",
           NEW g \in DOMAIN zones, NEW type \in Nat, NEW first \in StoredCores(Min(zones[g].cpus)),
           zones' = Split(g, type, first)
    PROVE  ZonesInv'
<1> DEFINE z == zones[g]
           n == zones'[g]
           R == {zones[i] : i \in DOMAIN zones \ {g}}
<1>1. /\ zones \in Seq(Groups) /\ SortedIds(zones) /\ \A y \in Range(zones) : GoodGroup(y)
      /\ \A x, y \in Range(zones) : x # y => x.cpus \cap y.cpus = {}
  BY DEF ZonesInv, Shape
<1>2. z \in Groups /\ z \in Range(zones) /\ GoodGroup(z)
  BY <1>1 DEF Range
<1>3. z.cpus \subseteq Nat /\ z.cpus # {} /\ z.cpus \subseteq Placed
  BY <1>2 DEF Groups, GoodGroup, Placed
<1>4. Min(z.cpus) \in z.cpus
  BY <1>3, MinFact
<1>5. Min(z.cpus) \in mask /\ Min(z.cpus) \in Nat /\ Min(z.cpus) \in Placed
  <2>1. Placed = Before
    BY PlacingFact
  <2>2. QED
    BY <1>3, <1>4, <2>1 DEF Before
<1>6. first \in Nat /\ (Told => first = tm[Min(z.cpus)])
  BY <1>5, StoredFact
<1>7. FirstCores(FirstSub(z, type, first), z, type, first)
  BY <1>2, <1>6, FirstSubFact
<1>8. SortedIds(z.sub)
  <2>1. CASE z.sub = <<>>
    BY <2>1 DEF SortedIds
  <2>2. CASE z.sub # <<>>
    BY <1>2, <2>2 DEF GoodGroup, Covers
  <2>3. QED
    BY <2>1, <2>2
<1>9. /\ zones' \in Seq(Groups) /\ DOMAIN zones' = DOMAIN zones
      /\ \A i \in DOMAIN zones : i # g => zones'[i] = zones[i]
      /\ n.id = z.id /\ n.type = z.type /\ n.cpus = z.cpus /\ n.sub = FirstSub(z, type, first)
  BY <1>1, <1>5, <1>6, <1>8, SplitFact
<1>10. \A i \in DOMAIN zones : zones'[i].id = zones[i].id /\ zones'[i].cpus = zones[i].cpus
  BY <1>9
<1>11. SortedIds(zones')
  BY <1>1, <1>9, <1>10 DEF SortedIds
<1>12. GoodGroup(n)
  BY <1>2, <1>7, <1>9 DEF GoodGroup, FirstCores
<1>13. \A y \in Range(zones') : y = n \/ y \in Range(zones)
  BY <1>9 DEF Range
<1>14. \A x, y \in Range(zones') : x # y => x.cpus \cap y.cpus = {}
  <2>1. ASSUME NEW i \in DOMAIN zones, NEW j \in DOMAIN zones, i # j
        PROVE  zones[i].cpus \cap zones[j].cpus = {}
    <3>1. zones[i] \in Groups /\ zones[j] \in Groups /\ i \in Nat /\ j \in Nat
      BY <1>1
    <3>2. zones[i].id \in Nat /\ zones[j].id \in Nat
      BY <3>1 DEF Groups
    <3>3. zones[i].id < zones[j].id \/ zones[j].id < zones[i].id
      BY <1>1, <2>1, <3>1 DEF SortedIds
    <3>4. zones[i] # zones[j] /\ zones[i] \in Range(zones) /\ zones[j] \in Range(zones)
      BY <3>2, <3>3 DEF Range
    <3>5. QED
      BY <1>1, <3>4
  <2>2. SUFFICES ASSUME NEW x \in Range(zones'), NEW y \in Range(zones'), x # y
                 PROVE  x.cpus \cap y.cpus = {}
    OBVIOUS
  <2>3. PICK i \in DOMAIN zones : x = zones'[i]
    BY <1>9 DEF Range
  <2>4. PICK j \in DOMAIN zones : y = zones'[j]
    BY <1>9 DEF Range
  <2>5. QED
    BY <1>10, <2>1, <2>2, <2>3, <2>4
<1>15. Shape'
  BY <1>1, <1>9, <1>11, <1>12, <1>13, <1>14 DEF Shape
<1>16. PlacedNow' /\ KindsNow' /\ TmType'
  BY DEF ZonesInv, PlacedNow, KindsNow, TmType, Detecting, Detected
<1>a. Placed' = Placed
  <2>1. ASSUME NEW a PROVE a \in Placed' <=> a \in Placed
    <3>1. a \in Placed' <=> \E i \in DOMAIN zones : a \in zones'[i].cpus
      BY <1>9 DEF Placed, Range
    <3>2. a \in Placed <=> \E i \in DOMAIN zones : a \in zones[i].cpus
      BY DEF Placed, Range
    <3>3. QED
      BY <1>10, <3>1, <3>2
  <2>2. QED
    BY <2>1
<1>b. InMask'
  BY <1>a DEF ZonesInv, InMask
<1>17. CoresNow'
  <2>1. (Told' <=> Told) /\ \A a : CodePlace(a)' = CodePlace(a)
    BY DEF Told, CodePlace
  <2>2. SUFFICES ASSUME Told PROVE CoresNow'
    BY <2>1 DEF CoresNow
  <2>3. /\ \A a \in Placed : tm[a] = CodePlace(a).core
        /\ \A y \in Range(zones) :
             /\ \A a \in y.cpus : CodePlace(a).pkg = y.id
             /\ \A s \in Range(y.sub) : \A a \in s.cpus : CodePlace(a).core = s.id
    BY <2>2 DEF ZonesInv, CoresNow
  <2>5. \A a \in n.cpus : CodePlace(a).pkg = n.id
    BY <1>2, <1>9, <2>3
  <2>6. ASSUME NEW s \in Range(n.sub), NEW a \in s.cpus PROVE CodePlace(a).core = s.id
    <3>1. s \in Range(FirstSub(z, type, first))
      BY <1>9
    <3>2. s \in Range(z.sub) \/ (s.id = first /\ s.cpus = {Min(z.cpus)})
      BY <1>7, <3>1 DEF FirstCores
    <3>3. QED
      BY <1>2, <1>5, <1>6, <2>2, <2>3, <3>2
  <2> HIDE DEF n, z
  <2>7. \A y \in Range(zones') :
             /\ \A a \in y.cpus : CodePlace(a).pkg = y.id
             /\ \A s \in Range(y.sub) : \A a \in s.cpus : CodePlace(a).core = s.id
    BY <1>13, <2>3, <2>5, <2>6
  <2>8. QED
    BY <1>a, <2>1, <2>3, <2>7 DEF CoresNow
<1>18. QED
  BY <1>15, <1>16, <1>17, <1>b DEF ZonesInv

\* A step that leaves the zones alone and goes on with the same processors, or
\* to the error path.
LEMMA ZonesFrame ==
    ASSUME Base, Base', ZonesInv, UNCHANGED <<zones, mach, mask, tm>>,
           \/ pc' \in {"unwind", "free", "failed"}
           \/ /\ \/ pc \in Detecting \ {"spawn"} /\ pc' \in (Detecting \ {"spawn"}) \cup Detected
                 \/ pc \in Detected /\ pc' \in Detected
              /\ UNCHANGED threads
              /\ \A i \in DOMAIN types : i \in DOMAIN types' /\ types'[i].desc = types[i].desc
    PROVE  ZonesInv'
<1>1. Shape' /\ TmType' /\ Placed' = Placed /\ InMask'
  BY DEF ZonesInv, Shape, TmType, Placed, InMask
<1>2. CoresNow'
  <2>1. (Told' <=> Told) /\ \A a : CodePlace(a)' = CodePlace(a)
    BY DEF Told, CodePlace
  <2>2. QED
    BY <1>1, <2>1 DEF ZonesInv, CoresNow
<1>3. CASE pc' \in {"unwind", "free", "failed"}
  BY <1>1, <1>2, <1>3 DEF ZonesInv, PlacedNow, KindsNow, Detecting, Detected
<1>4. CASE /\ \/ pc \in Detecting \ {"spawn"} /\ pc' \in (Detecting \ {"spawn"}) \cup Detected
              \/ pc \in Detected /\ pc' \in Detected
           /\ UNCHANGED threads
           /\ \A i \in DOMAIN types : i \in DOMAIN types' /\ types'[i].desc = types[i].desc
  <2>1. \A s, c : TypedAs(s, c) => TypedAs(s, c)'
    BY <1>4 DEF TypedAs
  <2>2. KindsNow'
    <3>1. pc \in Detecting \cup Detected
      BY <1>4
    <3>2. \A z \in Range(zones) : TypedAs(z, z.cpus) /\ \A s \in Range(z.sub) : TypedAs(s, z.cpus)
      BY <3>1 DEF ZonesInv, KindsNow
    <3>3. \A z \in Range(zones) : TypedAs(z, z.cpus)' /\ \A s \in Range(z.sub) : TypedAs(s, z.cpus)'
      BY <2>1, <3>2
    <3>4. QED
      BY <3>3 DEF KindsNow, TypedAs
  <2>3. CASE pc \in Detected /\ pc' \in Detected
    BY <1>1, <1>2, <2>2, <2>3 DEF ZonesInv, PlacedNow, Detecting, Detected
  <2>4. CASE pc \in Detecting \ {"spawn"} /\ pc' \in (Detecting \ {"spawn"}) \cup Detected
    <3>1. Placed = Before /\ Range(threads) = Before
      BY <2>4 DEF ZonesInv, PlacedNow, Base, Spawned
    <3>2. Range(threads') = Range(threads)
      BY <1>4
    <3>3. CASE pc' \in Detecting
      <4>1. Range(threads') = Before'
        BY <3>3 DEF Base, Spawned
      <4>2. PlacedNow'
        BY <1>1, <2>4, <3>1, <3>2, <3>3, <4>1 DEF PlacedNow, Detecting, Detected
      <4>3. QED
        BY <1>1, <1>2, <2>2, <4>2 DEF ZonesInv
    <3>4. CASE pc' \in Detected
      <4>1. Range(threads') = mask'
        BY <3>4 DEF Base, Spawned
      <4>2. PlacedNow'
        BY <1>1, <3>1, <3>2, <3>4, <4>1 DEF PlacedNow, Detecting, Detected
      <4>3. QED
        BY <1>1, <1>2, <2>2, <4>2 DEF ZonesInv
    <3>5. QED
      BY <2>4, <3>3, <3>4
  <2>5. QED
    BY <1>4, <2>3, <2>4
<1>5. QED
  BY <1>3, <1>4

\* topologize().
LEMMA ZonesTopologize == Base /\ ZonesInv /\ Topologize => ZonesInv'
<1>1. SUFFICES ASSUME Base, ZonesInv, Topologize PROVE ZonesInv'
  OBVIOUS
<1> DEFINE id == cpu.place.pkg
           g == GroupIndex(zones, id)
           firsts == IF HasGroup(zones, id) THEN StoredCores(Min(zones[g].cpus)) ELSE {}
<1>2. /\ pc = "topologize" /\ UNCHANGED <<mach, mask, aid, types>>
      /\ \/ /\ \E first \in IF firsts = {} THEN {0} ELSE firsts :
                 zones' = Topologized(id, TypeIndex, aid, cpu.place.core, first)
            /\ tm' = [tm EXCEPT ![aid] = cpu.place.core] /\ pc' = "spawn"
         \/ /\ pc' = "unwind" /\ UNCHANGED tm
            /\ zones' \in {zones} \cup {Split(g, TypeIndex, first) : first \in firsts}
  BY <1>1 DEF Topologize, FailAt, detvars, TypeIndex
<1>3. /\ cpu.place \in Places /\ TypeIndex \in Nat /\ Placed = Before /\ aid \in mask
  BY <1>1, <1>2, PlacingFact
<1>4. zones \in Seq(Groups) /\ SortedIds(zones) /\ id \in Nat /\ \A z \in Groups : z.id \in Nat
  BY <1>1, <1>3 DEF ZonesInv, Shape, Places, Groups
<1>5. HasGroup(zones, id) => g \in DOMAIN zones /\ zones[g].id = id
  <2>1. /\ g \in Nat /\ 1 <= g
        /\ HasGroup(zones, id) <=> g <= Len(zones) /\ zones[g].id = id
    BY <1>4, GroupFact
  <2>2. QED
    BY <1>4, <2>1
<1>6. HasGroup(zones, id) => firsts = StoredCores(Min(zones[g].cpus)) /\ firsts # {} /\ firsts \subseteq Nat
  <2>1. SUFFICES ASSUME HasGroup(zones, id)
                 PROVE  firsts = StoredCores(Min(zones[g].cpus)) /\ firsts # {} /\ firsts \subseteq Nat
    OBVIOUS
  <2>2. zones[g] \in Groups /\ zones[g] \in Range(zones) /\ GoodGroup(zones[g])
    BY <1>1, <1>4, <1>5, <2>1 DEF ZonesInv, Shape, Range
  <2>3. zones[g].cpus \subseteq Nat /\ zones[g].cpus # {} /\ zones[g].cpus \subseteq Placed
    BY <2>2 DEF Groups, GoodGroup, Placed
  <2>4. Min(zones[g].cpus) \in zones[g].cpus
    BY <2>3, MinFact
  <2>5. Min(zones[g].cpus) \in mask
    BY <1>3, <2>3, <2>4 DEF Before
  <2>6. QED
    BY <1>1, <2>1, <2>5, StoredFact
<1>7. ~HasGroup(zones, id) => firsts = {}
  OBVIOUS
<1> HIDE DEF firsts, g
<1>8. CASE pc' = "spawn"
  <2>1. PICK first \in IF firsts = {} THEN {0} ELSE firsts :
             zones' = Topologized(id, TypeIndex, aid, cpu.place.core, first)
    BY <1>2, <1>8
  <2>2. tm' = [tm EXCEPT ![aid] = cpu.place.core]
    BY <1>2, <1>8
  <2>3. first \in Nat
    BY <1>6, <1>7, <2>1
  <2>4. /\ zones' \in Seq(Groups) /\ SortedIds(zones')
        /\ \E n \in Groups, R \in SUBSET Range(zones) : Grown(zones', n, R, first)
    <3>1. CASE ~HasGroup(zones, id)
      BY <1>1, <1>2, <2>1, <2>3, <3>1, GrownNew
    <3>2. CASE HasGroup(zones, id)
      <4>1. first \in StoredCores(Min(zones[g].cpus)) /\ g \in DOMAIN zones /\ zones[g].id = id
        BY <1>5, <1>6, <2>1, <3>2
      <4>2. QED
        BY <1>1, <1>2, <2>1, <2>3, <4>1, GrownOld
    <3>3. QED
      BY <3>1, <3>2
  <2>5. PICK n \in Groups, R \in SUBSET Range(zones) : Grown(zones', n, R, first)
    BY <2>4
  <2>6. Shape' /\ Placed' = Placed \cup {aid}
    BY <1>1, <1>2, <2>4, <2>5, GrownShape
  <2>7. KindsNow'
    BY <1>1, <1>2, <2>5, GrownKinds
  <2>8. CoresNow' /\ TmType'
    BY <1>1, <1>2, <2>2, <2>5, <2>6, GrownCores
  <2>9. PlacedNow'
    <3>1. Before' = Before /\ aid' = aid
      BY <1>2 DEF Before
    <3>2. QED
      BY <1>3, <1>8, <2>6, <3>1 DEF PlacedNow, Detecting, Detected
  <2>10. InMask'
    BY <1>1, <1>2, <1>3, <2>6 DEF ZonesInv, InMask
  <2>11. QED
    BY <2>6, <2>7, <2>8, <2>9, <2>10 DEF ZonesInv
<1>9. CASE pc' = "unwind"
  <2>1. UNCHANGED tm /\ zones' \in {zones} \cup {Split(g, TypeIndex, first) : first \in firsts}
    BY <1>2, <1>9
  <2>2. CASE zones' = zones
    <3>1. Base'
      BY <1>1, BaseTopologize
    <3>2. QED
      BY <1>1, <1>2, <1>9, <2>1, <2>2, <3>1, ZonesFrame
  <2>3. CASE zones' \in {Split(g, TypeIndex, first) : first \in firsts}
    <3>1. PICK first \in firsts : zones' = Split(g, TypeIndex, first)
      BY <2>3
    <3>2. g \in DOMAIN zones /\ first \in StoredCores(Min(zones[g].cpus))
      BY <1>5, <1>6, <1>7, <3>1
    <3>3. QED
      BY <1>1, <1>2, <1>3, <1>9, <2>1, <3>1, <3>2, ZonesSplit
  <2>4. QED
    BY <2>1, <2>2, <2>3
<1>10. QED
  BY <1>2, <1>8, <1>9

\* spawn_thread().
LEMMA ZonesSpawnThread == Base /\ ZonesInv /\ SpawnThread => ZonesInv'
<1>1. SUFFICES ASSUME Base, ZonesInv, SpawnThread PROVE ZonesInv'
  OBVIOUS
<1>2. Base'
  BY <1>1, BaseSpawnThread
<1>3. UNCHANGED <<zones, mach, mask, tm, types>> /\ pc = "spawn" /\ pc' \in {"pin", "unwind"}
  BY <1>1 DEF SpawnThread, FailAt, detvars
<1>4. CASE pc' = "unwind"
  BY <1>1, <1>2, <1>3, <1>4, ZonesFrame
<1>5. CASE pc' = "pin"
  <2>1. aid' = aid + 1
    BY <1>1, <1>5 DEF SpawnThread, FailAt
  <2>2. aid \in Nat /\ aid \in mask /\ mask \subseteq Nat
    BY <1>1, <1>3, MaskFact DEF Base, PinnedNow, Typing
  <2>3. Before' = Before \cup {aid}
    <3>1. \A a \in mask : a < aid + 1 <=> a < aid \/ a = aid
      <4>1. ASSUME NEW a \in mask PROVE a < aid + 1 <=> a < aid \/ a = aid
        <5>1. a \in Nat
          BY <2>2
        <5>2. QED
          BY <2>2, <5>1
      <4>2. QED
        BY <4>1
    <3>2. QED
      BY <1>3, <2>1, <2>2, <3>1 DEF Before
  <2>4. Shape' /\ TmType' /\ Placed' = Placed /\ Placed = Before \cup {aid} /\ InMask'
    BY <1>1, <1>3 DEF ZonesInv, Shape, TmType, Placed, PlacedNow, InMask
  <2>5. PlacedNow'
    BY <1>5, <2>3, <2>4 DEF PlacedNow, Detected
  <2>6. CoresNow'
    <3>1. (Told' <=> Told) /\ \A a : CodePlace(a)' = CodePlace(a)
      BY <1>3 DEF Told, CodePlace
    <3>2. QED
      BY <1>1, <1>3, <2>4, <3>1 DEF ZonesInv, CoresNow
  <2>7. KindsNow'
    BY <1>1, <1>3 DEF ZonesInv, KindsNow, TypedAs, Detecting
  <2>8. QED
    BY <2>4, <2>5, <2>6, <2>7 DEF ZonesInv
<1>6. QED
  BY <1>3, <1>4, <1>5

\* The steps that add no processor to the zones.
LEMMA ZonesOthers ==
    ASSUME Base, Base', ZonesInv,
           \/ DetectCpucount \/ PinThread \/ DetectCpudetails \/ AddCputype \/ UnpinThread \/ Unwind
           \/ DetectCuda \/ DetectMemories \/ DeterminePagesizes \/ AddNode
    PROVE  ZonesInv'
<1>1. CASE DetectCpucount \/ PinThread \/ DetectCpudetails \/ UnpinThread
  <2>1. /\ UNCHANGED <<zones, mach, mask, tm, threads, types>>
        /\ pc \in Detecting \ {"spawn"} /\ pc' \in (Detecting \ {"spawn"}) \cup {"cuda", "unwind"}
    BY <1>1 DEF DetectCpucount, PinThread, DetectCpudetails, UnpinThread, FailAt, detvars, Detecting
  <2>2. pc' = "unwind" \/ pc' \in (Detecting \ {"spawn"}) \cup Detected
    BY <2>1 DEF Detected
  <2>3. QED
    BY <2>1, <2>2, ZonesFrame
<1>2. CASE AddCputype
  <2>1. /\ UNCHANGED <<zones, mach, mask, tm, threads>> /\ pc = "type"
        /\ (pc' = "topologize" /\ types' = CountType(cpu.desc)) \/ pc' = "unwind"
    BY <1>2 DEF AddCputype, FailAt, detvars
  <2>2. types \in Seq(TypeRecs) /\ Distinct /\ cpu.desc \in Descs
    BY <2>1 DEF Base, Typing, DescribedNow
  <2>3. CASE pc' = "topologize"
    <3>1. \A i \in DOMAIN types : i \in DOMAIN types' /\ types'[i].desc = types[i].desc
      BY <2>1, <2>2, <2>3, CountTypeFact
    <3>2. pc \in Detecting \ {"spawn"} /\ pc' \in (Detecting \ {"spawn"}) \cup Detected
      BY <2>1, <2>3 DEF Detecting
    <3>3. QED
      BY <2>1, <3>1, <3>2, ZonesFrame
  <2>4. CASE pc' = "unwind"
    BY <2>1, <2>4, ZonesFrame
  <2>5. QED
    BY <2>1, <2>3, <2>4
<1>3. CASE Unwind
  <2>1. UNCHANGED <<zones, mach, mask, tm>> /\ pc' = "free"
    BY <1>3 DEF Unwind, detvars
  <2>2. QED
    BY <2>1, ZonesFrame
<1>4. CASE DetectCuda
  <2>1. /\ UNCHANGED <<zones, mach, mask, tm, threads>> /\ pc = "cuda" /\ gpu < Len(Gpus)
        /\ \/ pc' = pc /\ types' = CountType([kind |-> Gpus[gpu + 1], top |-> NoTopology, pad |-> 0])
           \/ pc' = "free"
    BY <1>4 DEF DetectCuda, FailAt, detvars
  <2>2. types \in Seq(TypeRecs) /\ Distinct /\ gpu \in Nat
    BY DEF Base, Typing
  <2>3. CASE pc' = pc
    <3> DEFINE desc == [kind |-> Gpus[gpu + 1], top |-> NoTopology, pad |-> 0]
    <3>1. desc \in Descs
      <4>1. Gpus[gpu + 1] \in DOMAIN TlbPages
        BY <2>1, <2>2, HardwareAssumption
      <4>2. QED
        BY <4>1 DEF Descs, Tops, NoTopology
    <3>2. types' = CountType(desc)
      BY <2>1, <2>3
    <3> HIDE DEF desc
    <3>3. \A i \in DOMAIN types : i \in DOMAIN types' /\ types'[i].desc = types[i].desc
      BY <2>2, <3>1, <3>2, CountTypeFact
    <3>4. pc \in Detected /\ pc' \in Detected
      BY <2>1, <2>3 DEF Detected
    <3>5. QED
      BY <2>1, <3>3, <3>4, ZonesFrame
  <2>4. CASE pc' = "free"
    BY <2>1, <2>4, ZonesFrame
  <2>5. QED
    BY <2>1, <2>3, <2>4
<1>5. CASE DetectMemories \/ DeterminePagesizes \/ AddNode
  <2>1. /\ UNCHANGED <<zones, mach, mask, tm, threads, types>>
        /\ pc \in {"cuda", "tlbs"} /\ pc' \in {"tlbs", "done", "free"}
    BY <1>5 DEF DetectMemories, DeterminePagesizes, AddNode, FailAt, detvars
  <2>2. pc \in Detected /\ (pc' \in Detected \/ pc' = "free")
    BY <2>1 DEF Detected
  <2>3. QED
    BY <2>1, <2>2, ZonesFrame
<1>6. QED
  BY <1>1, <1>2, <1>3, <1>4, <1>5

\* free_architecture(), and a step that changes nothing.
LEMMA ZonesRest ==
    ASSUME Base, Base', ZonesInv, FreeArchitecture \/ UNCHANGED vars
    PROVE  ZonesInv'
<1>1. CASE FreeArchitecture
  <2>1. zones' = <<>> /\ UNCHANGED <<mach, mask, tm>> /\ pc' = "failed"
    BY <1>1 DEF FreeArchitecture, detvars
  <2>2. Range(zones') = {}
    BY <2>1 DEF Range
  <2>3. Shape' /\ Placed' = {} /\ InMask'
    BY <2>1, <2>2 DEF Shape, SortedIds, Placed, InMask
  <2>4. PlacedNow' /\ KindsNow' /\ TmType'
    BY <2>1 DEF ZonesInv, PlacedNow, KindsNow, TmType, Detecting, Detected
  <2>5. CoresNow'
    BY <2>2, <2>3 DEF CoresNow
  <2>6. QED
    BY <2>3, <2>4, <2>5 DEF ZonesInv
<1>2. CASE UNCHANGED vars
  <2>1. UNCHANGED <<zones, mach, mask, tm, types, aid, pc>>
    BY <1>2 DEF vars
  <2>2. Shape' /\ TmType' /\ Placed' = Placed /\ Before' = Before /\ InMask'
    BY <2>1 DEF ZonesInv, Shape, TmType, Placed, Before, InMask
  <2>3. PlacedNow'
    BY <2>1, <2>2 DEF ZonesInv, PlacedNow
  <2>4. CoresNow'
    <3>1. (Told' <=> Told) /\ \A a : CodePlace(a)' = CodePlace(a)
      BY <2>1 DEF Told, CodePlace
    <3>2. QED
      BY <2>1, <2>2, <3>1 DEF ZonesInv, CoresNow
  <2>5. KindsNow'
    BY <2>1 DEF ZonesInv, KindsNow, TypedAs
  <2>6. QED
    BY <2>2, <2>3, <2>4, <2>5 DEF ZonesInv
<1>3. QED
  BY <1>1, <1>2

\* The invariant of the zones holds initially.
LEMMA ZonesInit == Init => ZonesInv
<1>1. SUFFICES ASSUME Init PROVE ZonesInv
  OBVIOUS
<1>2. zones = <<>> /\ pc = "count" /\ tm = [a \in 0 .. MaxCpu - 1 |-> 0]
  BY <1>1 DEF Init
<1>3. Range(zones) = {}
  BY <1>2 DEF Range
<1>4. Shape /\ Placed = {} /\ InMask
  BY <1>2, <1>3 DEF Shape, SortedIds, Placed, InMask
<1>5. Before = {}
  <2>1. Base
    BY <1>1, BaseInit
  <2>2. Range(threads) = Before /\ threads = <<>>
    BY <1>1, <1>2, <2>1 DEF Base, Spawned, Detecting, Init
  <2>3. QED
    BY <2>2 DEF Range
<1>6. PlacedNow
  BY <1>2, <1>4, <1>5 DEF PlacedNow, Detected
<1>7. KindsNow /\ CoresNow
  BY <1>3, <1>4 DEF KindsNow, CoresNow
<1>8. TmType
  BY <1>2 DEF TmType
<1>9. QED
  BY <1>4, <1>6, <1>7, <1>8 DEF ZonesInv

\* The zones keep their shape and hold the processors done, and their types
\* are those of their processors.
THEOREM ZonesAlways == Spec => [](Base /\ ZonesInv)
<1>1. Base /\ ZonesInv /\ [Next]_vars => Base' /\ ZonesInv'
  <2>1. SUFFICES ASSUME Base, ZonesInv, [Next]_vars PROVE Base' /\ ZonesInv'
    OBVIOUS
  <2>2. Base'
    BY <2>1, BaseStep
  <2>3. QED
    BY <2>1, <2>2, ZonesTopologize, ZonesSpawnThread, ZonesOthers, ZonesRest DEF Next
<1>2. QED
  BY <1>1, BaseInit, ZonesInit, PTL DEF Spec

\* Leaves are packages without cores, or cores.
LEMMA LeafFact ==
    ASSUME ZonesInv, NEW l \in Leaves
    PROVE  \E g \in Range(zones) :
             /\ l.cpus \subseteq g.cpus
             /\ g.sub = <<>> => l = g
             /\ g.sub # <<>> => l \in Range(g.sub) /\ Covers(g.sub, g.cpus)
<1>1. PICK g \in Range(zones) : l \in IF g.sub = <<>> THEN {g} ELSE Range(g.sub)
  BY DEF Leaves
<1>2. GoodGroup(g)
  BY DEF ZonesInv, Shape
<1>3. CASE g.sub = <<>>
  BY <1>1, <1>3
<1>4. CASE g.sub # <<>>
  BY <1>1, <1>2, <1>4 DEF GoodGroup, Covers
<1>5. QED
  BY <1>3, <1>4

\* Theorem: the rules internal.h gives for walking the topology hold at all
\* times on every machine, whatever APIC IDs its processors have and whatever
\* topmap's entries hold, and in the end every processor of the mask is placed.
THEOREM TopologyAlways == Spec => []TopologyRules
<1>1. Base /\ ZonesInv => TopologyRules
  <2>1. SUFFICES ASSUME Base, ZonesInv PROVE TopologyRules
    OBVIOUS
  <2>2. /\ SortedIds(zones) /\ \A z \in Range(zones) : GoodGroup(z)
        /\ \A y, z \in Range(zones) : y # z => y.cpus \cap z.cpus = {}
    BY <2>1 DEF ZonesInv, Shape
  <2>3. \A list : SortedIds(list) => Increasing([i \in DOMAIN list |-> list[i].id])
    BY DEF SortedIds, Increasing
  <2>4. ASSUME NEW g \in Range(zones)
        PROVE  /\ g.cpus # {} /\ Increasing([i \in DOMAIN g.sub |-> g.sub[i].id])
               /\ g.sub # <<>> => g.cpus = UNION {s.cpus : s \in Range(g.sub)}
               /\ \A s \in Range(g.sub) : s.cpus # {}
    <3>1. GoodGroup(g)
      BY <2>2
    <3>2. CASE g.sub = <<>>
      BY <3>1, <3>2 DEF GoodGroup, Increasing, Range
    <3>3. CASE g.sub # <<>>
      BY <2>3, <3>1, <3>3 DEF GoodGroup, Covers
    <3>4. QED
      BY <3>2, <3>3
  <2>5. ASSUME NEW l \in Leaves, NEW k \in Leaves, l # k PROVE l.cpus \cap k.cpus = {}
    <3>1. PICK g \in Range(zones) :
             /\ l.cpus \subseteq g.cpus
             /\ g.sub = <<>> => l = g
             /\ g.sub # <<>> => l \in Range(g.sub) /\ Covers(g.sub, g.cpus)
      BY <2>1, LeafFact
    <3>2. PICK h \in Range(zones) :
             /\ k.cpus \subseteq h.cpus
             /\ h.sub = <<>> => k = h
             /\ h.sub # <<>> => k \in Range(h.sub) /\ Covers(h.sub, h.cpus)
      BY <2>1, LeafFact
    <3>3. CASE g # h
      BY <2>2, <3>1, <3>2, <3>3
    <3>4. CASE g = h
      <4>1. g.sub # <<>>
        BY <2>5, <3>1, <3>2, <3>4
      <4>2. QED
        BY <2>5, <3>1, <3>2, <3>4, <4>1 DEF Covers
    <3>5. QED
      BY <3>3, <3>4
  <2>6. pc = "done" => Placed = mask
    BY <2>1 DEF ZonesInv, PlacedNow, Detected
  <2>7. QED
    BY <2>2, <2>3, <2>4, <2>5, <2>6 DEF TopologyRules
<1>2. QED
  BY <1>1, ZonesAlways, PTL

\* Theorem: lookup_aid() finds every placed processor, and the type it gives is
\* that of a processor of the same package zone, on every machine.
THEOREM LookupAlways == Spec => []LookupStaysInPackage
<1>1. ZonesInv => LookupStaysInPackage
  <2>1. SUFFICES ASSUME ZonesInv, pc \in {"spawn", "cuda", "tlbs", "done"},
                        NEW g \in Range(zones), NEW a \in g.cpus
                 PROVE  LookupAid(a) \in {Kind(mach, b) : b \in g.cpus}
    BY DEF LookupStaysInPackage
  <2>2. /\ GoodGroup(g) /\ \A y, z \in Range(zones) : y # z => y.cpus \cap z.cpus = {}
    BY <2>1 DEF ZonesInv, Shape
  <2>3. TypedAs(g, g.cpus) /\ \A s \in Range(g.sub) : TypedAs(s, g.cpus)
    BY <2>1 DEF ZonesInv, KindsNow, Detecting, Detected
  <2> DEFINE h == CHOOSE z \in Range(zones) : a \in z.cpus
             s == CHOOSE t \in Range(g.sub) : a \in t.cpus
  <2>4. h = g
    <3>1. h \in Range(zones) /\ a \in h.cpus
      BY <2>1
    <3>2. QED
      BY <2>1, <2>2, <3>1
  <2>5. CASE g.sub = <<>>
    <3>1. LookupAid(a) = types[g.type].desc.kind
      BY <2>4, <2>5 DEF LookupAid
    <3>2. QED
      BY <2>3, <3>1 DEF TypedAs
  <2>6. CASE g.sub # <<>>
    <3>1. \E t \in Range(g.sub) : a \in t.cpus
      BY <2>1, <2>2, <2>6 DEF GoodGroup, Covers
    <3>2. s \in Range(g.sub)
      BY <3>1
    <3>3. LookupAid(a) = types[s.type].desc.kind
      BY <2>4, <2>6 DEF LookupAid
    <3> HIDE DEF s
    <3>4. QED
      BY <2>3, <3>2, <3>3 DEF TypedAs
  <2>7. QED
    BY <2>5, <2>6
<1>2. QED
  BY <1>1, ZonesAlways, PTL

-----------------------------------------------------------------------------
(* Page sizes.                                                               *)

\* A size that is not known is larger than all there are, and goes to the end.
LEMMA AddPageFact ==
    ASSUME NEW list \in Seq(Nat), Increasing(list), NEW size \in Nat, ~KnownPagesize(list, size),
           NEW r, r = AddPagesize(list, size)
    PROVE  r \in Seq(Nat) /\ Increasing(r) /\ Range(r) = Range(list) \cup {size}
<1>1. Len(list) \in Nat /\ DOMAIN list = 1 .. Len(list) /\ \A i \in DOMAIN list : list[i] \in Nat
  OBVIOUS
<1>2. \A i \in DOMAIN list : list[i] < size
  <2>1. ASSUME NEW i \in DOMAIN list PROVE list[i] < size
    <3>1. ~(list[i] >= size)
      BY DEF KnownPagesize, Range
    <3>2. QED
      BY <1>1, <3>1
  <2>2. QED
    BY <2>1
<1>3. {i \in DOMAIN list : list[i] > size} \cup {Len(list) + 1} = {Len(list) + 1}
  BY <1>1, <1>2
<1> DEFINE g == Len(list) + 1
<1>4. g \in Nat /\ 1 <= g /\ g <= Len(list) + 1
  BY <1>1
<1>5. Min({g}) = g
  <2>1. {g} \subseteq Nat /\ {g} # {}
    BY <1>4
  <2> HIDE DEF g
  <2>2. QED
    BY <2>1, MinFact
<1>6. r = InsertAt(list, g, size)
  BY <1>3, <1>5 DEF AddPagesize
<1> HIDE DEF g
<1>7. /\ r \in Seq(Nat) /\ Len(r) = Len(list) + 1 /\ r[g] = size
      /\ \A i \in Nat : 1 <= i /\ i < g => r[i] = list[i]
  <2> DEFINE S == Nat
  <2>1. list \in Seq(S) /\ size \in S
    OBVIOUS
  <2> HIDE DEF S
  <2>2. Inserted(r, list, g, size, S)
    BY <1>4, <1>6, <2>1, InsertFact
  <2>3. Inserted(r, list, g, size, Nat)
    BY <2>2 DEF S
  <2>4. QED
    BY <2>3 DEF Inserted
<1>8. DOMAIN r = DOMAIN list \cup {g} /\ \A i \in DOMAIN list : r[i] = list[i] /\ i < g /\ i \in Nat
  BY <1>1, <1>7 DEF g
<1>9. Range(r) = Range(list) \cup {size}
  BY <1>7, <1>8 DEF Range
<1>10. Increasing(r)
  <2>1. SUFFICES ASSUME NEW i \in DOMAIN r, NEW j \in DOMAIN r, i < j PROVE r[i] < r[j]
    BY DEF Increasing
  <2>2. i # g
    BY <1>4, <1>8, <2>1
  <2>3. CASE j = g
    BY <1>2, <1>7, <1>8, <2>2, <2>3
  <2>4. CASE j # g
    BY <1>8, <2>1, <2>2, <2>4 DEF Increasing
  <2>5. QED
    BY <2>3, <2>4
<1>11. QED
  BY <1>7, <1>9, <1>10

\* The page sizes of a type's TLBs
SizesOf(i) == TlbPages[types[i].desc.kind]

\* Types have lists of naturals.
LEMMA SizesFact ==
    ASSUME Typing, NEW i \in DOMAIN types
    PROVE  SizesOf(i) \in Seq(Nat)
<1>1. types[i] \in TypeRecs
  BY DEF Typing
<1>2. types[i].desc.kind \in DOMAIN TlbPages
  BY <1>1 DEF TypeRecs, Descs
<1>3. QED
  BY <1>2, HardwareAssumption DEF SizesOf

\* A TLB determine_pagesizes() is past
Seen(i, j) == i < tlb[1] \/ (i = tlb[1] /\ j < tlb[2])

\* The sizes found are in order, each is the system's or some TLB's, and none
\* of the TLBs looked at has a larger one
PagesFound ==
    /\ pages \in Seq(Nat) /\ Increasing(pages) /\ SysPage \in Range(pages)
    /\ Range(pages) \subseteq {SysPage} \cup AllTlbPages
    /\ \A i \in DOMAIN types : \A j \in DOMAIN SizesOf(i) :
         Seen(i, j) => \E p \in Range(pages) : SizesOf(i)[j] <= p
PagesNow ==
    /\ pc \in {"tlbs", "done"} => PagesFound /\ tlb[1] \in Nat /\ tlb[2] \in Nat
    /\ pc = "tlbs" => 1 <= tlb[1] /\ 1 <= tlb[2]
    /\ pc = "done" => nodes = <<pages>> /\ tlb[1] > Len(types)

\* detect_memories().
LEMMA PagesDetectMemories == Base /\ DetectMemories => PagesNow'
<1>1. SUFFICES ASSUME Base, DetectMemories PROVE PagesNow'
  OBVIOUS
<1>2. /\ UNCHANGED types
      /\ \/ pages' = AddPagesize(<<>>, SysPage) /\ tlb' = <<1, 1>> /\ pc' = "tlbs"
         \/ pc' = "free"
  BY <1>1 DEF DetectMemories, FailAt
<1>3. CASE pc' = "free"
  BY <1>3 DEF PagesNow
<1>4. CASE pc' = "tlbs"
  <2>1. pages' = AddPagesize(<<>>, SysPage) /\ tlb' = <<1, 1>>
    BY <1>2, <1>4
  <2>2. /\ <<>> \in Seq(Nat) /\ Increasing(<<>>) /\ SysPage \in Nat /\ ~KnownPagesize(<<>>, SysPage)
        /\ Range(<<>>) = {}
    BY HardwareAssumption DEF Increasing, KnownPagesize, Range
  <2>3. pages' \in Seq(Nat) /\ Increasing(pages') /\ Range(pages') = {SysPage}
    <3>1. pages' \in Seq(Nat) /\ Increasing(pages') /\ Range(pages') = Range(<<>>) \cup {SysPage}
      BY <2>1, <2>2, AddPageFact
    <3>2. QED
      BY <2>2, <3>1
  <2>4. ASSUME NEW i \in DOMAIN types', NEW j \in DOMAIN SizesOf(i)' PROVE ~Seen(i, j)'
    <3>1. i \in DOMAIN types /\ SizesOf(i)' = SizesOf(i)
      BY <1>2 DEF SizesOf
    <3>2. i \in Nat /\ 1 <= i
      BY <1>1, <3>1 DEF Base, Typing
    <3>3. SizesOf(i) \in Seq(Nat)
      BY <1>1, <3>1, SizesFact DEF Base
    <3>4. j \in Nat /\ 1 <= j
      BY <3>1, <3>3
    <3>5. QED
      BY <2>1, <3>2, <3>4 DEF Seen
  <2>5. PagesFound'
    BY <2>3, <2>4 DEF PagesFound
  <2>6. QED
    BY <1>4, <2>1, <2>5 DEF PagesNow
<1>5. QED
  BY <1>2, <1>3, <1>4

\* determine_pagesizes().
LEMMA PagesDeterminePagesizes == Base /\ PagesNow /\ DeterminePagesizes => PagesNow'
<1>1. SUFFICES ASSUME Base, PagesNow, DeterminePagesizes PROVE PagesNow'
  OBVIOUS
<1> DEFINE k == tlb[1]
           l == tlb[2]
           size == SizesOf(k)[l]
<1>2. /\ pc = "tlbs" /\ k <= Len(types) /\ UNCHANGED types
      /\ \/ l > Len(SizesOf(k)) /\ tlb' = <<k + 1, 1>> /\ UNCHANGED <<pages, pc>>
         \/ /\ l <= Len(SizesOf(k)) /\ tlb' = <<k, l + 1>> /\ UNCHANGED pc
            /\ pages' = IF KnownPagesize(pages, size) THEN pages ELSE AddPagesize(pages, size)
         \/ pc' = "free"
  BY <1>1 DEF DeterminePagesizes, FailAt, SizesOf
<1>3. PagesFound /\ k \in Nat /\ l \in Nat /\ 1 <= k /\ 1 <= l
  BY <1>1, <1>2 DEF PagesNow
<1>4. types \in Seq(TypeRecs) /\ Typing
  BY <1>1 DEF Base, Typing
<1>5. k \in DOMAIN types
  BY <1>2, <1>3, <1>4
<1>6. SizesOf(k) \in Seq(Nat)
  BY <1>4, <1>5, SizesFact
<1>7. \A i : SizesOf(i)' = SizesOf(i)
  BY <1>2 DEF SizesOf
<1>8. AllTlbPages' = AllTlbPages
  BY <1>2 DEF AllTlbPages
<1>9. CASE pc' = "free"
  BY <1>9 DEF PagesNow
<1>10. CASE l > Len(SizesOf(k)) /\ tlb' = <<k + 1, 1>> /\ UNCHANGED <<pages, pc>>
  <2>1. ASSUME NEW i \in DOMAIN types, NEW j \in DOMAIN SizesOf(i), Seen(i, j)'
        PROVE  \E p \in Range(pages) : SizesOf(i)[j] <= p
    <3>1. i \in Nat /\ SizesOf(i) \in Seq(Nat)
      BY <1>4, SizesFact
    <3>2. j \in Nat /\ 1 <= j /\ j <= Len(SizesOf(i)) /\ Len(SizesOf(i)) \in Nat
      BY <3>1
    <3>3. i < k + 1 \/ (i = k + 1 /\ j < 1)
      BY <1>10, <2>1 DEF Seen
    <3>4. i < k \/ i = k
      BY <1>3, <3>1, <3>2, <3>3
    <3>5. Seen(i, j)
      BY <1>3, <1>10, <3>2, <3>4 DEF Seen
    <3>6. QED
      BY <1>3, <3>5 DEF PagesFound
  <2>2. Range(pages') = Range(pages)
    BY <1>10
  <2>3. PagesFound'
    BY <1>2, <1>3, <1>7, <1>8, <1>10, <2>1, <2>2 DEF PagesFound
  <2>4. tlb'[1] \in Nat /\ tlb'[2] \in Nat /\ 1 <= tlb'[1] /\ 1 <= tlb'[2] /\ pc' = "tlbs"
    BY <1>2, <1>3, <1>10
  <2>5. QED
    BY <2>3, <2>4 DEF PagesNow
<1>11. CASE /\ l <= Len(SizesOf(k)) /\ tlb' = <<k, l + 1>> /\ UNCHANGED pc
            /\ pages' = IF KnownPagesize(pages, size) THEN pages ELSE AddPagesize(pages, size)
  <2>1. l \in DOMAIN SizesOf(k) /\ size \in Nat
    BY <1>3, <1>6, <1>11
  <2>2. size \in AllTlbPages
    BY <1>5, <2>1 DEF AllTlbPages, SizesOf, Range
  <2> HIDE DEF size
  <2>3. pages \in Seq(Nat) /\ Increasing(pages) /\ Range(pages) \subseteq Nat
    BY <1>3 DEF PagesFound, Range
  <2>4. /\ pages' \in Seq(Nat) /\ Increasing(pages')
        /\ Range(pages) \subseteq Range(pages') /\ Range(pages') \subseteq Range(pages) \cup {size}
        /\ \E p \in Range(pages') : size <= p
    <3>1. CASE KnownPagesize(pages, size)
      <4>1. pages' = pages
        BY <1>11, <3>1
      <4>2. PICK p \in Range(pages) : p >= size
        BY <3>1 DEF KnownPagesize
      <4>3. p \in Nat
        BY <2>3
      <4>4. size <= p
        BY <2>1, <4>2, <4>3
      <4>5. QED
        BY <2>3, <4>1, <4>4
    <3>2. CASE ~KnownPagesize(pages, size)
      <4>1. pages' = AddPagesize(pages, size)
        BY <1>11, <3>2
      <4>2. pages' \in Seq(Nat) /\ Increasing(pages') /\ Range(pages') = Range(pages) \cup {size}
        BY <2>1, <2>3, <3>2, <4>1, AddPageFact
      <4>3. size <= size
        BY <2>1
      <4>4. QED
        BY <4>2, <4>3
    <3>3. QED
      BY <3>1, <3>2
  <2>5. ASSUME NEW i \in DOMAIN types, NEW j \in DOMAIN SizesOf(i), Seen(i, j)'
        PROVE  \E p \in Range(pages') : SizesOf(i)[j] <= p
    <3>1. i \in Nat /\ SizesOf(i) \in Seq(Nat)
      BY <1>4, SizesFact
    <3>2. j \in Nat
      BY <3>1
    <3>3. i < k \/ (i = k /\ j < l + 1)
      BY <1>11, <2>5 DEF Seen
    <3>4. Seen(i, j) \/ (i = k /\ j = l)
      BY <1>3, <3>2, <3>3 DEF Seen
    <3>5. CASE Seen(i, j)
      BY <1>3, <2>4, <3>5 DEF PagesFound
    <3>6. CASE i = k /\ j = l
      BY <2>4, <3>6 DEF size
    <3>7. QED
      BY <3>4, <3>5, <3>6
  <2>6. PagesFound'
    <3>1. SysPage \in Range(pages') /\ Range(pages') \subseteq {SysPage} \cup AllTlbPages'
      BY <1>3, <1>8, <2>2, <2>4 DEF PagesFound
    <3>2. \A i \in DOMAIN types' : \A j \in DOMAIN SizesOf(i)' :
             Seen(i, j)' => \E p \in Range(pages') : SizesOf(i)'[j] <= p
      BY <1>2, <1>7, <2>5
    <3>3. QED
      BY <2>4, <3>1, <3>2 DEF PagesFound
  <2>7. tlb'[1] \in Nat /\ tlb'[2] \in Nat /\ 1 <= tlb'[1] /\ 1 <= tlb'[2] /\ pc' = "tlbs"
    BY <1>2, <1>3, <1>11
  <2>8. QED
    BY <2>6, <2>7 DEF PagesNow
<1>12. QED
  BY <1>2, <1>9, <1>10, <1>11

\* The other steps.
LEMMA PagesOthers ==
    ASSUME PagesNow,
           \/ DetectCpucount \/ PinThread \/ DetectCpudetails \/ AddCputype \/ Topologize \/ SpawnThread
           \/ UnpinThread \/ Unwind \/ DetectCuda \/ AddNode \/ FreeArchitecture \/ UNCHANGED vars
    PROVE  PagesNow'
<1>1. CASE \/ DetectCpucount \/ PinThread \/ DetectCpudetails \/ AddCputype \/ Topologize \/ SpawnThread
           \/ UnpinThread \/ Unwind \/ DetectCuda \/ FreeArchitecture
  <2>1. pc' \notin {"tlbs", "done"}
    BY <1>1 DEF DetectCpucount, PinThread, DetectCpudetails, AddCputype, Topologize, SpawnThread,
                UnpinThread, Unwind, DetectCuda, FreeArchitecture, FailAt
  <2>2. QED
    BY <2>1 DEF PagesNow
<1>2. CASE AddNode
  <2>1. /\ pc = "tlbs" /\ tlb[1] > Len(types) /\ UNCHANGED <<types, tlb>>
        /\ (nodes' = <<pages>> /\ pc' = "done" /\ UNCHANGED pages) \/ pc' = "free"
    BY <1>2 DEF AddNode, FailAt
  <2>2. CASE pc' = "free"
    BY <2>2 DEF PagesNow
  <2>3. CASE pc' = "done"
    <3>1. UNCHANGED pages /\ nodes' = <<pages>> /\ PagesFound /\ tlb[1] \in Nat /\ tlb[2] \in Nat
      BY <2>1, <2>3 DEF PagesNow
    <3>2. PagesFound'
      BY <2>1, <3>1 DEF PagesFound, AllTlbPages, SizesOf, Seen
    <3>3. QED
      BY <2>1, <2>3, <3>1, <3>2 DEF PagesNow
  <2>4. QED
    BY <2>1, <2>2, <2>3
<1>3. CASE UNCHANGED vars
  <2>1. UNCHANGED <<pages, types, tlb, pc, nodes>>
    BY <1>3 DEF vars
  <2>2. PagesFound => PagesFound'
    BY <2>1 DEF PagesFound, AllTlbPages, SizesOf, Seen
  <2>3. QED
    BY <2>1, <2>2 DEF PagesNow
<1>4. QED
  BY <1>1, <1>2, <1>3

\* Theorem: the page sizes are distinct and in increasing order, and the
\* largest of them, which the buffers are mapped with, is the largest any TLB
\* of any type or the system knows, though match_pagesize() skips every size
\* smaller than one already there, for every list of TLBs.
THEOREM LargestPageAlways == Spec => []LargestPageFound
<1>1. Init => PagesNow
  BY DEF Init, PagesNow
<1>2. Base /\ PagesNow /\ [Next]_vars => PagesNow'
  BY PagesDetectMemories, PagesDeterminePagesizes, PagesOthers DEF Next
<1>3. Base /\ PagesNow => LargestPageFound
  <2>1. SUFFICES ASSUME Base, PagesNow, pc = "done" PROVE LargestPageFound
    BY DEF LargestPageFound
  <2>2. PagesFound /\ nodes = <<pages>> /\ tlb[1] > Len(types) /\ tlb[1] \in Nat
    BY <2>1 DEF PagesNow
  <2>3. /\ pages \in Seq(Nat) /\ Increasing(pages) /\ SysPage \in Range(pages)
        /\ Range(pages) \subseteq {SysPage} \cup AllTlbPages
    BY <2>2 DEF PagesFound
  <2>4. types \in Seq(TypeRecs) /\ Typing /\ SysPage \in Nat
    BY <2>1, HardwareAssumption DEF Base, Typing
  <2>5. \A x \in AllTlbPages : x \in Nat /\ \E p \in Range(pages) : x <= p
    <3>1. SUFFICES ASSUME NEW i \in DOMAIN types, NEW x \in Range(SizesOf(i))
                   PROVE  x \in Nat /\ \E p \in Range(pages) : x <= p
      BY DEF AllTlbPages, SizesOf
    <3>2. PICK j \in DOMAIN SizesOf(i) : x = SizesOf(i)[j]
      BY DEF Range
    <3>3. SizesOf(i) \in Seq(Nat)
      BY <2>4, SizesFact
    <3>4. i < tlb[1]
      <4>1. i \in Nat /\ i <= Len(types) /\ Len(types) \in Nat
        BY <2>4
      <4>2. QED
        BY <2>2, <4>1
    <3>5. \E p \in Range(pages) : SizesOf(i)[j] <= p
      BY <2>2, <3>4 DEF PagesFound, Seen
    <3>6. QED
      BY <3>2, <3>3, <3>5
  <2> DEFINE n == Len(pages)
             m == pages[n]
  <2>6. n \in Nat /\ 1 <= n /\ n \in DOMAIN pages
    <3>1. PICK i \in DOMAIN pages : pages[i] = SysPage
      BY <2>3 DEF Range
    <3>2. i \in Nat /\ 1 <= i /\ i <= n /\ n \in Nat
      BY <2>3
    <3>3. QED
      BY <2>3, <3>2
  <2>7. m \in Nat /\ m \in Range(pages)
    BY <2>3, <2>6 DEF Range
  <2>8. \A p \in Range(pages) : p \in Nat /\ p <= m
    <3>1. ASSUME NEW i \in DOMAIN pages PROVE pages[i] \in Nat /\ pages[i] <= m
      <4>1. i \in Nat /\ i <= n /\ pages[i] \in Nat
        BY <2>3
      <4>2. i < n => pages[i] < pages[n]
        BY <2>3, <2>6 DEF Increasing
      <4>3. QED
        BY <2>6, <2>7, <4>1, <4>2
    <3>2. QED
      BY <3>1 DEF Range
  <2> HIDE DEF m, n
  <2>9. LargePagesize = m
    <3>1. UNION {Range(nodes[i]) : i \in DOMAIN nodes} = Range(pages)
      <4>1. DOMAIN nodes = {1} /\ nodes[1] = pages
        BY <2>2
      <4>2. {Range(nodes[i]) : i \in DOMAIN nodes} = {Range(pages)}
        BY <4>1
      <4>3. QED
        BY <4>2
    <3>2. LargePagesize = Max({0} \cup Range(pages))
      BY <3>1 DEF LargePagesize
    <3> DEFINE T == {0} \cup Range(pages)
    <3>3. T \subseteq Nat /\ m \in T
      <4>1. Range(pages) \subseteq Nat
        BY <2>8
      <4>2. m \in T
        BY <2>7
      <4>3. QED
        BY <4>1, <4>2
    <3>4. \A y \in T : y <= m
      <4>1. 0 <= m
        BY <2>7
      <4>2. QED
        BY <2>8, <4>1
    <3> HIDE DEF T
    <3>5. Max(T) = m
      BY <3>3, <3>4, MaxFact
    <3>6. QED
      BY <3>2, <3>5 DEF T
  <2>10. Max({SysPage} \cup AllTlbPages) = m
    <3> DEFINE T == {SysPage} \cup AllTlbPages
    <3>1. T \subseteq Nat /\ m \in T
      BY <2>3, <2>4, <2>5, <2>7
    <3>2. ASSUME NEW y \in T PROVE y <= m
      <4>1. PICK p \in Range(pages) : y <= p
        <5>1. CASE y = SysPage
          <6>1. SysPage <= SysPage
            BY <2>4
          <6>2. QED
            BY <2>3, <5>1, <6>1
        <5>2. CASE y \in AllTlbPages
          BY <2>5, <5>2
        <5>3. QED
          BY <5>1, <5>2
      <4>2. y \in Nat /\ p \in Nat /\ p <= m
        BY <2>8, <3>1
      <4>3. QED
        BY <2>7, <4>1, <4>2
    <3> HIDE DEF T
    <3>3. Max(T) = m
      BY <3>1, <3>2, MaxFact
    <3>4. QED
      BY <3>3 DEF T
  <2>11. QED
    BY <2>3, <2>9, <2>10 DEF LargestPageFound
<1>4. QED
  BY <1>1, <1>2, <1>3, BaseAlways, PTL DEF Spec

-----------------------------------------------------------------------------
(* The places of the machines the code can tell.                             *)

\* Powers of two are rounded and cut to themselves.
LEMMA PowerFact ==
    ASSUME NEW k \in Powers
    PROVE  RoundUp(k) = k /\ Max({p \in Powers : p <= k}) = k
<1>1. RoundUp(k) = k
  <2> DEFINE T == {p \in Powers : p >= k}
  <2>1. T \subseteq Nat /\ k \in T /\ \A y \in T : y >= k
    BY DEF Powers
  <2> HIDE DEF T
  <2>2. Min(T) \in T /\ Min(T) <= k /\ Min(T) \in Nat /\ Min(T) >= k
    BY <2>1, MinFact
  <2>3. k \in Nat
    BY SMT DEF Powers
  <2>4. Min(T) = k
    BY <2>2, <2>3
  <2>5. QED
    BY <2>4 DEF T, RoundUp
<1>2. Max({p \in Powers : p <= k}) = k
  <2> DEFINE T == {p \in Powers : p <= k}
  <2>1. T \subseteq Nat /\ k \in T /\ \A y \in T : y <= k
    BY DEF Powers
  <2> HIDE DEF T
  <2>2. Max(T) = k
    BY <2>1, MaxFact
  <2>3. QED
    BY <2>2 DEF T
<1>3. QED
  BY <1>1, <1>2

\* The counts of threads and of cores that are powers of two
Small == {1, 2, 4, 8, 16, 32, 64, 128}

\* A number has one quotient and one remainder.
LEMMA Division ==
    ASSUME NEW c \in Nat \ {0}, NEW i \in Nat, NEW j \in Nat, i < c, j < c, NEW v \in Nat, NEW w \in Nat,
           i + c * v = j + c * w
    PROVE  i = j /\ v = w
<1>1. \A d \in Nat : d >= 1 => c * d >= c
  OBVIOUS
<1>2. ASSUME v < w PROVE FALSE
  <2>1. c * w = c * v + c * (w - v) /\ c * v \in Nat
    OBVIOUS
  <2>2. c * (w - v) >= c /\ c * (w - v) \in Nat
    BY <1>1, <1>2
  <2>3. QED
    BY <2>1, <2>2
<1>3. ASSUME w < v PROVE FALSE
  <2>1. c * v = c * w + c * (v - w) /\ c * w \in Nat
    OBVIOUS
  <2>2. c * (v - w) >= c /\ c * (v - w) \in Nat
    BY <1>1, <1>3
  <2>3. QED
    BY <2>1, <2>2
<1>4. v = w
  BY <1>2, <1>3
<1>5. c * v = c * w /\ c * v \in Nat
  BY <1>4
<1>6. QED
  BY <1>4, <1>5

\* The product of two such counts is one of 16 bits.
LEMMA SmallPowers ==
    ASSUME NEW x \in Small, NEW y \in Small
    PROVE  /\ x \in Powers /\ x * y \in Powers /\ x \in Nat \ {0} /\ x * y \in Nat \ {0}
           /\ (x * y) \div x = y
<1>1. CASE x = 1
  BY <1>1 DEF Small, Powers
<1>2. CASE x = 2
  BY <1>2 DEF Small, Powers
<1>3. CASE x = 4
  BY <1>3 DEF Small, Powers
<1>4. CASE x = 8
  BY <1>4 DEF Small, Powers
<1>5. CASE x = 16
  BY <1>5 DEF Small, Powers
<1>6. CASE x = 32
  BY <1>6 DEF Small, Powers
<1>7. CASE x = 64
  BY <1>7 DEF Small, Powers
<1>8. CASE x = 128
  BY <1>8 DEF Small, Powers
<1>9. QED
  BY <1>1, <1>2, <1>3, <1>4, <1>5, <1>6, <1>7, <1>8 DEF Small

\* A power of two less one has the bits below it.
LEMMA BitFact ==
    ASSUME NEW x \in Nat, NEW bit \in Powers, NEW k \in Powers
    PROVE  AndBit(bit, x, k - 1) = IF bit < k THEN (x % (2 * bit)) - (x % bit) ELSE 0
<1>1. CASE bit = 1
  <2>1. ((k - 1) \div 1) % 2 = 1 <=> 1 < k
    BY SMT DEF Powers
  <2>2. (x % 2) - (x % 1) = IF (x \div 1) % 2 = 1 THEN 1 ELSE 0
    BY SMT
  <2>3. QED
    BY <1>1, <2>1, <2>2, SMT DEF AndBit
<1>2. CASE bit = 2
  <2>1. ((k - 1) \div 2) % 2 = 1 <=> 2 < k
    BY SMT DEF Powers
  <2>2. (x % 4) - (x % 2) = IF (x \div 2) % 2 = 1 THEN 2 ELSE 0
    BY SMT
  <2>3. QED
    BY <1>2, <2>1, <2>2, SMT DEF AndBit
<1>3. CASE bit = 4
  <2>1. ((k - 1) \div 4) % 2 = 1 <=> 4 < k
    BY SMT DEF Powers
  <2>2. (x % 8) - (x % 4) = IF (x \div 4) % 2 = 1 THEN 4 ELSE 0
    BY SMT
  <2>3. QED
    BY <1>3, <2>1, <2>2, SMT DEF AndBit
<1>4. CASE bit = 8
  <2>1. ((k - 1) \div 8) % 2 = 1 <=> 8 < k
    BY SMT DEF Powers
  <2>2. (x % 16) - (x % 8) = IF (x \div 8) % 2 = 1 THEN 8 ELSE 0
    BY SMT
  <2>3. QED
    BY <1>4, <2>1, <2>2, SMT DEF AndBit
<1>5. CASE bit = 16
  <2>1. ((k - 1) \div 16) % 2 = 1 <=> 16 < k
    BY SMT DEF Powers
  <2>2. (x % 32) - (x % 16) = IF (x \div 16) % 2 = 1 THEN 16 ELSE 0
    BY SMT
  <2>3. QED
    BY <1>5, <2>1, <2>2, SMT DEF AndBit
<1>6. CASE bit = 32
  <2>1. ((k - 1) \div 32) % 2 = 1 <=> 32 < k
    BY SMT DEF Powers
  <2>2. (x % 64) - (x % 32) = IF (x \div 32) % 2 = 1 THEN 32 ELSE 0
    BY SMT
  <2>3. QED
    BY <1>6, <2>1, <2>2, SMT DEF AndBit
<1>7. CASE bit = 64
  <2>1. ((k - 1) \div 64) % 2 = 1 <=> 64 < k
    BY SMT DEF Powers
  <2>2. (x % 128) - (x % 64) = IF (x \div 64) % 2 = 1 THEN 64 ELSE 0
    BY SMT
  <2>3. QED
    BY <1>7, <2>1, <2>2, SMT DEF AndBit
<1>8. CASE bit = 128
  <2>1. ((k - 1) \div 128) % 2 = 1 <=> 128 < k
    BY SMT DEF Powers
  <2>2. (x % 256) - (x % 128) = IF (x \div 128) % 2 = 1 THEN 128 ELSE 0
    BY SMT
  <2>3. QED
    BY <1>8, <2>1, <2>2, SMT DEF AndBit
<1>9. CASE bit = 256
  <2>1. ((k - 1) \div 256) % 2 = 1 <=> 256 < k
    BY SMT DEF Powers
  <2>2. (x % 512) - (x % 256) = IF (x \div 256) % 2 = 1 THEN 256 ELSE 0
    BY SMT
  <2>3. QED
    BY <1>9, <2>1, <2>2, SMT DEF AndBit
<1>10. CASE bit = 512
  <2>1. ((k - 1) \div 512) % 2 = 1 <=> 512 < k
    BY SMT DEF Powers
  <2>2. (x % 1024) - (x % 512) = IF (x \div 512) % 2 = 1 THEN 512 ELSE 0
    BY SMT
  <2>3. QED
    BY <1>10, <2>1, <2>2, SMT DEF AndBit
<1>11. CASE bit = 1024
  <2>1. ((k - 1) \div 1024) % 2 = 1 <=> 1024 < k
    BY SMT DEF Powers
  <2>2. (x % 2048) - (x % 1024) = IF (x \div 1024) % 2 = 1 THEN 1024 ELSE 0
    BY SMT
  <2>3. QED
    BY <1>11, <2>1, <2>2, SMT DEF AndBit
<1>12. CASE bit = 2048
  <2>1. ((k - 1) \div 2048) % 2 = 1 <=> 2048 < k
    BY SMT DEF Powers
  <2>2. (x % 4096) - (x % 2048) = IF (x \div 2048) % 2 = 1 THEN 2048 ELSE 0
    BY SMT
  <2>3. QED
    BY <1>12, <2>1, <2>2, SMT DEF AndBit
<1>13. CASE bit = 4096
  <2>1. ((k - 1) \div 4096) % 2 = 1 <=> 4096 < k
    BY SMT DEF Powers
  <2>2. (x % 8192) - (x % 4096) = IF (x \div 4096) % 2 = 1 THEN 4096 ELSE 0
    BY SMT
  <2>3. QED
    BY <1>13, <2>1, <2>2, SMT DEF AndBit
<1>14. CASE bit = 8192
  <2>1. ((k - 1) \div 8192) % 2 = 1 <=> 8192 < k
    BY SMT DEF Powers
  <2>2. (x % 16384) - (x % 8192) = IF (x \div 8192) % 2 = 1 THEN 8192 ELSE 0
    BY SMT
  <2>3. QED
    BY <1>14, <2>1, <2>2, SMT DEF AndBit
<1>15. CASE bit = 16384
  <2>1. ((k - 1) \div 16384) % 2 = 1 <=> 16384 < k
    BY SMT DEF Powers
  <2>2. (x % 32768) - (x % 16384) = IF (x \div 16384) % 2 = 1 THEN 16384 ELSE 0
    BY SMT
  <2>3. QED
    BY <1>15, <2>1, <2>2, SMT DEF AndBit
<1>16. CASE bit = 32768
  <2>1. ((k - 1) \div 32768) % 2 = 1 <=> 32768 < k
    BY SMT DEF Powers
  <2>2. (x % 65536) - (x % 32768) = IF (x \div 32768) % 2 = 1 THEN 32768 ELSE 0
    BY SMT
  <2>3. QED
    BY <1>16, <2>1, <2>2, SMT DEF AndBit
<1>17. QED
  BY <1>1, <1>2, <1>3, <1>4, <1>5, <1>6, <1>7, <1>8,
     <1>9, <1>10, <1>11, <1>12, <1>13, <1>14, <1>15, <1>16, SMT DEF Powers

\* Masking with a power of two less one is a remainder.
LEMMA AndFact ==
    ASSUME NEW x \in Nat, NEW k \in Powers
    PROVE  And(x, k - 1) = x % k
<1> DEFINE B(bit) == IF bit < k THEN (x % (2 * bit)) - (x % bit) ELSE 0
<1>1. And(x, k - 1) = B(1) + B(2) + B(4) + B(8) + B(16) + B(32) + B(64) + B(128)
                      + B(256) + B(512) + B(1024) + B(2048) + B(4096) + B(8192) + B(16384) + B(32768)
  <2>1. \A bit \in Powers : AndBit(bit, x, k - 1) = B(bit)
    BY BitFact
  <2> HIDE DEF B
  <2>2. AndNibble(1, x, k - 1) = B(1) + B(2) + B(4) + B(8)
    <3>1. {1, 2, 4, 8} \subseteq Powers
      BY SMT DEF Powers
    <3>2. 2 * 1 = 2 /\ 4 * 1 = 4 /\ 8 * 1 = 8
      BY SMT
    <3>3. /\ AndBit(1, x, k - 1) = B(1) /\ AndBit(2, x, k - 1) = B(2)
          /\ AndBit(4, x, k - 1) = B(4) /\ AndBit(8, x, k - 1) = B(8)
      BY <2>1, <3>1
    <3>4. QED
      BY <3>2, <3>3 DEF AndNibble
  <2>3. AndNibble(16, x, k - 1) = B(16) + B(32) + B(64) + B(128)
    <3>1. {16, 32, 64, 128} \subseteq Powers
      BY SMT DEF Powers
    <3>2. 2 * 16 = 32 /\ 4 * 16 = 64 /\ 8 * 16 = 128
      BY SMT
    <3>3. /\ AndBit(16, x, k - 1) = B(16) /\ AndBit(32, x, k - 1) = B(32)
          /\ AndBit(64, x, k - 1) = B(64) /\ AndBit(128, x, k - 1) = B(128)
      BY <2>1, <3>1
    <3>4. QED
      BY <3>2, <3>3 DEF AndNibble
  <2>4. AndNibble(256, x, k - 1) = B(256) + B(512) + B(1024) + B(2048)
    <3>1. {256, 512, 1024, 2048} \subseteq Powers
      BY SMT DEF Powers
    <3>2. 2 * 256 = 512 /\ 4 * 256 = 1024 /\ 8 * 256 = 2048
      BY SMT
    <3>3. /\ AndBit(256, x, k - 1) = B(256) /\ AndBit(512, x, k - 1) = B(512)
          /\ AndBit(1024, x, k - 1) = B(1024) /\ AndBit(2048, x, k - 1) = B(2048)
      BY <2>1, <3>1
    <3>4. QED
      BY <3>2, <3>3 DEF AndNibble
  <2>5. AndNibble(4096, x, k - 1) = B(4096) + B(8192) + B(16384) + B(32768)
    <3>1. {4096, 8192, 16384, 32768} \subseteq Powers
      BY SMT DEF Powers
    <3>2. 2 * 4096 = 8192 /\ 4 * 4096 = 16384 /\ 8 * 4096 = 32768
      BY SMT
    <3>3. /\ AndBit(4096, x, k - 1) = B(4096) /\ AndBit(8192, x, k - 1) = B(8192)
          /\ AndBit(16384, x, k - 1) = B(16384) /\ AndBit(32768, x, k - 1) = B(32768)
      BY <2>1, <3>1
    <3>4. QED
      BY <3>2, <3>3 DEF AndNibble
  <2>6. \A bit \in Powers : B(bit) \in Int
    BY SMT DEF B, Powers
  <2>7. QED
    BY <2>2, <2>3, <2>4, <2>5, <2>6, SMT DEF And, Powers
<1>2. x % 1 = 0 /\ \A p \in Powers : x % p \in Nat
  BY SMT DEF Powers
<1>3. CASE k = 1
  BY <1>1, <1>2, <1>3, SMT
<1>4. CASE k = 2
  BY <1>1, <1>2, <1>4, SMT
<1>5. CASE k = 4
  BY <1>1, <1>2, <1>5, SMT
<1>6. CASE k = 8
  BY <1>1, <1>2, <1>6, SMT
<1>7. CASE k = 16
  BY <1>1, <1>2, <1>7, SMT
<1>8. CASE k = 32
  BY <1>1, <1>2, <1>8, SMT
<1>9. CASE k = 64
  BY <1>1, <1>2, <1>9, SMT
<1>10. CASE k = 128
  BY <1>1, <1>2, <1>10, SMT
<1>11. CASE k = 256
  BY <1>1, <1>2, <1>11, SMT
<1>12. CASE k = 512
  BY <1>1, <1>2, <1>12, SMT
<1>13. CASE k = 1024
  BY <1>1, <1>2, <1>13, SMT
<1>14. CASE k = 2048
  BY <1>1, <1>2, <1>14, SMT
<1>15. CASE k = 4096
  BY <1>1, <1>2, <1>15, SMT
<1>16. CASE k = 8192
  BY <1>1, <1>2, <1>16, SMT
<1>17. CASE k = 16384
  BY <1>1, <1>2, <1>17, SMT
<1>18. CASE k = 32768
  BY <1>1, <1>2, <1>18, SMT
<1>19. QED
  BY <1>3, <1>4, <1>5, <1>6, <1>7, <1>8, <1>9, <1>10,
     <1>11, <1>12, <1>13, <1>14, <1>15, <1>16, <1>17, <1>18, SMT DEF Powers

\* The counts of a machine are at most 128.
LEMMA SmallCount ==
    ASSUME NEW m \in Machines, {m.tpc, m.cores} \subseteq Powers
    PROVE  m.tpc \in Small /\ m.cores \in Small
<1>1. m.tpc \in Powers /\ m.cores \in Powers /\ m.tpc \in 1 .. 128 /\ m.cores \in 1 .. 128
  BY HardwareAssumption
<1>2. QED
  BY <1>1, SMT DEF Powers, Small

\* What leaf 0xb says on a machine with powers of two of threads and cores.
LEMMA ToldTopology ==
    ASSUME NEW m \in Machines, NEW n \in Cpus(m), m.vendor = "intel", m.max >= StandardTopology,
           m.tpc \in Small, m.cores \in Small
    PROVE  VendorTopology(Regs(m, n)) = [tpc |-> m.tpc, cpp |-> m.tpc * m.cores, apic |-> Apic(m, n)]
<1> DEFINE r == Regs(m, n)
           apic == Apic(m, n)
           t == [tpc |-> m.tpc, cpp |-> m.tpc * m.cores, apic |-> apic]
<1>1. apic \in Nat
  BY ApicType
<1>2. RoundUp(m.cores) = m.cores
  BY PowerFact, SmallPowers
<1>3. /\ r.vendor = "intel" /\ r.max = m.max /\ r.cores = m.cores /\ r.legacy = apic % 256
      /\ r.b[0].type = 1 /\ r.b[0].count = m.tpc /\ r.b[0].apic = apic
      /\ r.b[1].type = 2 /\ r.b[1].count = m.tpc * m.cores
      /\ r.b[2].type = 0 /\ r.b[2].apic = apic
  BY <1>2 DEF Regs
<1>4. m.max \in Nat
  BY MachineFact
<1> HIDE DEF r, apic
<1>5. LevelsAgree(r.b, apic)
  <2> DEFINE asked == <<0, 2>>
  <2>1. asked \in Chains /\ Len(asked) = 2 /\ asked[1] = 0 /\ asked[2] = 2
    BY DEF Chains
  <2> HIDE DEF asked
  <2>2. \A i \in 1 .. Len(asked) - 1 :
              /\ r.b[asked[i]].type \in {1, 2} /\ asked[i + 1] = r.b[asked[i]].type + 1
              /\ r.b[asked[i + 1]].apic = apic
    <3>1. \A i \in 1 .. Len(asked) - 1 : i = 1
      BY <2>1
    <3>2. /\ r.b[asked[1]].type \in {1, 2} /\ asked[1 + 1] = r.b[asked[1]].type + 1
          /\ r.b[asked[1 + 1]].apic = apic
      BY <1>3, <2>1
    <3>3. QED
      BY <3>1, <3>2
  <2>3. r.b[asked[Len(asked)]].type = 0
    BY <1>3, <2>1
  <2>4. QED
    BY <2>1, <2>2, <2>3 DEF LevelsAgree
<1>6. X86Apic(r) = apic
  BY <1>3, <1>4, <1>5 DEF X86Apic, CpuVersion, StandardTopology
<1>7. m.tpc * m.cores # 0 /\ m.tpc # 0 /\ (m.tpc * m.cores) \div m.tpc = m.cores /\ m.cores \in Nat
  BY SmallPowers
<1>8. IdIntelTopology(r) = t
  <2>1. ~(r.max < StandardTopology)
    BY <1>3, <1>4 DEF StandardTopology
  <2>2. X86Apic(r) # NoApic
    BY <1>1, <1>6 DEF NoApic
  <2>3. QED
    BY <1>3, <1>6, <1>7, <2>1, <2>2 DEF IdIntelTopology
<1>9. t.tpc = m.tpc /\ t.cpp = m.tpc * m.cores
  OBVIOUS
<1> HIDE DEF t
<1>10. IntelCores(r, t) = t
  <2>1. ~(r.max < CacheConf) /\ t.cpp # 0 /\ ~(t.cpp \div t.tpc > r.cores)
    BY <1>3, <1>4, <1>7, <1>9 DEF CacheConf, StandardTopology
  <2>2. QED
    BY <2>1 DEF IntelCores
<1>11. VendorTopology(r) = t
  BY <1>3, <1>7, <1>8, <1>9, <1>10 DEF VendorTopology
<1>12. QED
  BY <1>11 DEF r, t, apic

\* The number of a core among all of the machine
CoreNumber(m, n) == Place(m, n).core + m.cores * Place(m, n).pkg

\* Where the code places a processor of such a machine: it cuts the number of
\* the core where a package of tpc * cores cores would end.
LEMMA ToldPlace ==
    ASSUME NEW m \in Machines, NEW n \in Cpus(m), m.vendor = "intel", m.max >= StandardTopology,
           m.tpc \in Small, m.cores \in Small
    PROVE  LET p == X86TopologyOf(VendorTopology(Regs(m, n))) IN
           /\ p.core = CoreNumber(m, n) % (m.tpc * m.cores)
           /\ p.pkg = CoreNumber(m, n) \div (m.tpc * m.cores)
           /\ CoreNumber(m, n) \in Nat
<1> DEFINE apic == Apic(m, n)
           t == [tpc |-> m.tpc, cpp |-> m.tpc * m.cores, apic |-> apic]
           rest == CoreNumber(m, n)
<1>1. VendorTopology(Regs(m, n)) = t
  BY ToldTopology
<1>2. /\ Place(m, n).thread \in Nat /\ Place(m, n).thread < m.tpc
      /\ Place(m, n).core \in Nat /\ Place(m, n).pkg \in Nat
  BY PlaceBounds
<1>3. rest \in Nat
  <2>1. m.cores \in Nat
    BY SmallPowers
  <2>2. QED
    BY <1>2, <2>1 DEF CoreNumber
<1>4. apic = Place(m, n).thread + m.tpc * rest
  <2>1. RoundUp(m.tpc) = m.tpc /\ RoundUp(m.cores) = m.cores
    BY PowerFact, SmallPowers
  <2>2. QED
    BY <2>1 DEF Apic, CoreNumber
<1> HIDE DEF rest
<1>5. apic \in Nat /\ apic \div m.tpc = rest
  <2> DEFINE d == m.tpc
             h == Place(m, n).thread
  <2>1. apic \in Nat /\ d \in Nat \ {0}
    BY ApicType, SmallPowers
  <2>2. apic = h + d * rest /\ h \in Nat /\ h < d
    BY <1>2, <1>4
  <2> HIDE DEF apic, d, h
  <2>3. apic \div d \in Nat /\ apic = d * (apic \div d) + (apic % d) /\ apic % d \in 0 .. d - 1
    BY <2>1, DivFact
  <2> DEFINE q == apic \div d
             e == apic % d
  <2>4. q \in Nat /\ e \in Nat /\ e < d /\ apic = d * q + e
    BY <2>1, <2>3
  <2> HIDE DEF q, e
  <2>5. d * q \in Nat /\ d * rest \in Nat
    BY <1>3, <2>1, <2>4
  <2>6. e + d * q = h + d * rest
    BY <2>2, <2>4, <2>5
  <2>7. q = rest
    BY <1>3, <2>1, <2>2, <2>4, <2>6, Division
  <2>8. QED
    BY <2>1, <2>7 DEF q, d
<1>6. ShiftOut(apic, m.tpc) = rest
  BY <1>5, PowerFact, SmallPowers DEF ShiftOut
<1>7. m.tpc * m.cores \in Powers /\ m.tpc # 0 /\ m.tpc * m.cores # 0
  BY SmallPowers
<1> DEFINE k == m.tpc * m.cores
<1> HIDE DEF apic
<1>8. t.tpc = m.tpc /\ t.cpp = k /\ t.apic = apic
  OBVIOUS
<1> HIDE DEF t, k
<1>9. k \in Powers /\ k # 0
  BY <1>7 DEF k
<1>10. And(rest, k - 1) = rest % k
  BY <1>3, <1>9, AndFact
<1>11. ShiftOut(rest, k) = rest \div k
  BY <1>9, PowerFact DEF ShiftOut
<1>12. /\ X86TopologyOf(t).core = And(rest, k - 1)
       /\ X86TopologyOf(t).pkg = ShiftOut(rest, k)
  BY <1>6, <1>7, <1>8, <1>9 DEF X86TopologyOf
<1>13. X86TopologyOf(t).core = rest % k /\ X86TopologyOf(t).pkg = rest \div k
  BY <1>10, <1>11, <1>12
<1>14. QED
  BY <1>1, <1>3, <1>13 DEF rest, k

\* On the machines the code can tell, it gives two processors the same core
\* and package exactly when they are threads of one core.
LEMMA SameCoreFact ==
    ASSUME mach \in Machines, Told, NEW a \in Cpus(mach), NEW b \in Cpus(mach)
    PROVE  SameCore(a, b) <=> CodePlace(a).core = CodePlace(b).core /\ CodePlace(a).pkg = CodePlace(b).pkg
<1> DEFINE x == CoreNumber(mach, a)
           y == CoreNumber(mach, b)
           k == mach.tpc * mach.cores
           c == mach.cores
<1>1. /\ mach.vendor = "intel" /\ mach.max >= StandardTopology
      /\ mach.tpc \in Small /\ mach.cores \in Small
  BY SmallCount DEF Told
<1>2. /\ CodePlace(a).core = x % k /\ CodePlace(a).pkg = x \div k /\ x \in Nat
  BY <1>1, ToldPlace DEF CodePlace
<1>3. /\ CodePlace(b).core = y % k /\ CodePlace(b).pkg = y \div k /\ y \in Nat
  BY <1>1, ToldPlace DEF CodePlace
<1>4. k \in Nat \ {0}
  BY <1>1, SmallPowers
<1> HIDE DEF k
<1>5. (x % k = y % k /\ x \div k = y \div k) <=> x = y
  <2> HIDE DEF x, y
  <2>1. x = k * (x \div k) + (x % k) /\ y = k * (y \div k) + (y % k)
    BY <1>2, <1>3, <1>4, DivFact
  <2>2. QED
    BY <2>1
<1> DEFINE p == Place(mach, a)
           q == Place(mach, b)
<1>6. /\ p.core \in Nat /\ p.core < c /\ p.pkg \in Nat
      /\ q.core \in Nat /\ q.core < c /\ q.pkg \in Nat
  BY PlaceBounds
<1>7. x = p.core + c * p.pkg /\ y = q.core + c * q.pkg
  BY DEF CoreNumber
<1> HIDE DEF x, y, p, q, c
<1>8. x = y <=> p.core = q.core /\ p.pkg = q.pkg
  <2> DEFINE i == p.core
             j == q.core
             v == p.pkg
             w == q.pkg
  <2>1. i \in Nat /\ j \in Nat /\ v \in Nat /\ w \in Nat /\ i < c /\ j < c
    BY <1>6
  <2>2. x = i + c * v /\ y = j + c * w
    BY <1>7
  <2> HIDE DEF i, j, v, w
  <2>3. c \in Nat \ {0}
    BY <1>1, SmallPowers DEF c
  <2>4. x = y <=> i = j /\ v = w
    BY <2>1, <2>2, <2>3, Division
  <2>5. QED
    BY <2>4 DEF i, j, v, w
<1>9. SameCore(a, b) <=> p.core = q.core /\ p.pkg = q.pkg
  BY DEF SameCore, p, q
<1>10. QED
  BY <1>2, <1>3, <1>5, <1>8, <1>9

\* Theorem: on every machine with leaf 0xb and a power of two of threads per
\* core and of cores per package, and every mask without gaps, two processors are in one leaf of the
\* topology exactly when they are threads of one core.
THEOREM LeavesAlways == Spec => []LeavesAreCores
<1>1. Base /\ ZonesInv => LeavesAreCores
  <2>1. SUFFICES ASSUME Base, ZonesInv, Told, NEW l \in Leaves, NEW a \in l.cpus, NEW b \in Placed
                 PROVE  b \in l.cpus <=> SameCore(a, b)
    BY DEF LeavesAreCores
  <2>2. PICK g \in Range(zones) :
             /\ l.cpus \subseteq g.cpus
             /\ g.sub = <<>> => l = g
             /\ g.sub # <<>> => l \in Range(g.sub) /\ Covers(g.sub, g.cpus)
    BY <2>1, LeafFact
  <2>3. PICK h \in Range(zones) : b \in h.cpus
    BY <2>1 DEF Placed
  <2>4. \A z \in Range(zones) :
             /\ \A i \in z.cpus : CodePlace(i).pkg = z.id
             /\ \A s \in Range(z.sub) : \A i \in s.cpus : CodePlace(i).core = s.id
    BY <2>1 DEF ZonesInv, CoresNow
  <2>5. mach \in Machines /\ a \in Cpus(mach) /\ b \in Cpus(mach)
    <3>1. a \in Placed
      BY <2>1, <2>2 DEF Placed
    <3>2. QED
      BY <2>1, <3>1 DEF ZonesInv, InMask, Base, Typing
  <2>6. SameCore(a, b) <=> CodePlace(a).core = CodePlace(b).core /\ CodePlace(a).pkg = CodePlace(b).pkg
    BY <2>1, <2>5, SameCoreFact
  <2>7. CodePlace(a).pkg = g.id /\ CodePlace(b).pkg = h.id
    BY <2>1, <2>2, <2>3, <2>4
  <2>8. g.id = h.id => g = h
    <3>1. zones \in Seq(Groups) /\ SortedIds(zones) /\ \A z \in Groups : z.id \in Nat
      BY <2>1 DEF ZonesInv, Shape, Groups
    <3>2. QED
      BY <3>1, IdsUnique
  <2>9. \A y, z \in Range(zones) : y # z => y.cpus \cap z.cpus = {}
    BY <2>1 DEF ZonesInv, Shape
  <2>10. CASE g.sub = <<>>
    <3>1. l = g /\ g.cpus = {a}
      BY <2>1, <2>2, <2>10 DEF ZonesInv, Shape, GoodGroup
    <3>2. ASSUME b \in l.cpus PROVE SameCore(a, b)
      BY <2>6, <3>1, <3>2
    <3>3. ASSUME SameCore(a, b) PROVE b \in l.cpus
      BY <2>3, <2>6, <2>7, <2>8, <3>1, <3>3
    <3>4. QED
      BY <3>2, <3>3
  <2>11. CASE g.sub # <<>>
    <3>1. l \in Range(g.sub) /\ Covers(g.sub, g.cpus) /\ CodePlace(a).core = l.id
      BY <2>1, <2>2, <2>4, <2>11
    <3>2. ASSUME b \in l.cpus PROVE SameCore(a, b)
      <4>1. CodePlace(b).core = l.id
        BY <2>4, <3>1, <3>2
      <4>2. g = h
        BY <2>2, <2>3, <2>9, <3>2
      <4>3. QED
        BY <2>6, <2>7, <3>1, <4>1, <4>2
    <3>3. ASSUME SameCore(a, b) PROVE b \in l.cpus
      <4>1. b \in g.cpus
        BY <2>3, <2>6, <2>7, <2>8, <3>3
      <4>2. PICK s \in Range(g.sub) : b \in s.cpus
        BY <3>1, <4>1 DEF Covers
      <4>3. s.id = l.id
        BY <2>4, <2>6, <3>1, <3>3, <4>2
      <4>4. g.sub \in Seq(Leafs) /\ SortedIds(g.sub) /\ \A z \in Leafs : z.id \in Nat
        <5>1. g \in Groups
          BY <2>1 DEF ZonesInv, Shape, Range
        <5>2. QED
          BY <3>1, <5>1 DEF Groups, Leafs, Covers
      <4>5. s = l
        BY <3>1, <4>3, <4>4, IdsUnique
      <4>6. QED
        BY <4>2, <4>5
    <3>4. QED
      BY <3>2, <3>3
  <2>12. QED
    BY <2>10, <2>11
<1>2. QED
  BY <1>1, ZonesAlways, PTL
=============================================================================
