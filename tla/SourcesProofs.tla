---------------------------- MODULE SourcesProofs ----------------------------
(***************************************************************************)
(* Ownership in Sources: OwnedOnce for every set of objects, every set of  *)
(* failing calls and every order of events.                                *)
(*                                                                         *)
(* What an object owns is told from where it is (Held): under construction *)
(* it owns what the error path of the next call would release or leave     *)
(* (Got).  The first part computes the constructors, which are built from  *)
(* those of their callees, as tables, and shows for each that a call adds  *)
(* what it yields and that an error path releases what is there (Exact).   *)
(* The second part shows that every step keeps to Held.                    *)
(***************************************************************************)
EXTENDS Sources, TLAPS

-----------------------------------------------------------------------------
(* Tables of the constructors.                                               *)

(* Sequences with the same elements are the same.                            *)
LEMMA SameSeq ==
    ASSUME NEW S, NEW s \in Seq(S), NEW t \in Seq(S), Len(s) = Len(t),
           \A i \in 1 .. Len(s) : s[i] = t[i]
    PROVE  s = t
<1>1. s = [i \in 1 .. Len(s) |-> s[i]] /\ t = [i \in 1 .. Len(t) |-> t[i]]
  OBVIOUS
<1> QED
  BY <1>1

(* Appending tuples of 2 and 2 elements. *)
LEMMA Append2And2 ==
    ASSUME NEW a1, NEW a2, NEW a3, NEW a4
    PROVE  <<a1, a2>> \o <<a3, a4>> = <<a1, a2, a3, a4>>
<1> DEFINE S == {a1, a2, a3, a4}
           s == <<a1, a2>> \o <<a3, a4>>
           t == <<a1, a2, a3, a4>>
<1>1. s \in Seq(S) /\ Len(s) = 4 /\ s[1] = a1 /\ s[2] = a2 /\ s[3] = a3 /\ s[4] = a4
  OBVIOUS
<1>2. t \in Seq(S) /\ Len(t) = 4 /\ t[1] = a1 /\ t[2] = a2 /\ t[3] = a3 /\ t[4] = a4
  OBVIOUS
<1> HIDE DEF S, s, t
<1>3. \A i \in 1 .. 4 : s[i] = t[i]
  BY <1>1, <1>2
<1>4. s = t
  BY <1>1, <1>2, <1>3, SameSeq
<1> QED
  BY <1>4 DEF s, t

(* Appending tuples of 1 and 4 elements. *)
LEMMA Append1And4 ==
    ASSUME NEW a1, NEW a2, NEW a3, NEW a4, NEW a5
    PROVE  <<a1>> \o <<a2, a3, a4, a5>> = <<a1, a2, a3, a4, a5>>
<1> DEFINE S == {a1, a2, a3, a4, a5}
           s == <<a1>> \o <<a2, a3, a4, a5>>
           t == <<a1, a2, a3, a4, a5>>
<1>1. s \in Seq(S) /\ Len(s) = 5 /\ s[1] = a1 /\ s[2] = a2 /\ s[3] = a3 /\ s[4] = a4 /\ s[5] = a5
  OBVIOUS
<1>2. t \in Seq(S) /\ Len(t) = 5 /\ t[1] = a1 /\ t[2] = a2 /\ t[3] = a3 /\ t[4] = a4 /\ t[5] = a5
  OBVIOUS
<1> HIDE DEF S, s, t
<1>3. \A i \in 1 .. 5 : s[i] = t[i]
  BY <1>1, <1>2
<1>4. s = t
  BY <1>1, <1>2, <1>3, SameSeq
<1> QED
  BY <1>4 DEF s, t

(* Appending tuples of 5 and 4 elements. *)
LEMMA Append5And4 ==
    ASSUME NEW a1, NEW a2, NEW a3, NEW a4, NEW a5, NEW a6, NEW a7, NEW a8, NEW a9
    PROVE  <<a1, a2, a3, a4, a5>> \o <<a6, a7, a8, a9>> = <<a1, a2, a3, a4, a5, a6, a7, a8, a9>>
<1> DEFINE S == {a1, a2, a3, a4, a5, a6, a7, a8, a9}
           s == <<a1, a2, a3, a4, a5>> \o <<a6, a7, a8, a9>>
           t == <<a1, a2, a3, a4, a5, a6, a7, a8, a9>>
<1>1. s \in Seq(S) /\ Len(s) = 9 /\ s[1] = a1 /\ s[2] = a2 /\ s[3] = a3 /\ s[4] = a4 /\ s[5] = a5
      /\ s[6] = a6 /\ s[7] = a7 /\ s[8] = a8 /\ s[9] = a9
  OBVIOUS
<1>2. t \in Seq(S) /\ Len(t) = 9 /\ t[1] = a1 /\ t[2] = a2 /\ t[3] = a3 /\ t[4] = a4 /\ t[5] = a5
      /\ t[6] = a6 /\ t[7] = a7 /\ t[8] = a8 /\ t[9] = a9
  OBVIOUS
<1> HIDE DEF S, s, t
<1>3. \A i \in 1 .. 9 : s[i] = t[i]
  BY <1>1, <1>2
<1>4. s = t
  BY <1>1, <1>2, <1>3, SameSeq
<1> QED
  BY <1>4 DEF s, t

(* Appending tuples of 9 and 3 elements. *)
LEMMA Append9And3 ==
    ASSUME NEW a1, NEW a2, NEW a3, NEW a4, NEW a5, NEW a6, NEW a7, NEW a8, NEW a9, NEW a10, NEW a11, NEW a12
    PROVE  <<a1, a2, a3, a4, a5, a6, a7, a8, a9>> \o <<a10, a11, a12>> = <<a1, a2, a3, a4, a5, a6, a7, a8, a9, a10, a11, a12>>
<1> DEFINE S == {a1, a2, a3, a4, a5, a6, a7, a8, a9, a10, a11, a12}
           s == <<a1, a2, a3, a4, a5, a6, a7, a8, a9>> \o <<a10, a11, a12>>
           t == <<a1, a2, a3, a4, a5, a6, a7, a8, a9, a10, a11, a12>>
<1>1. s \in Seq(S) /\ Len(s) = 12 /\ s[1] = a1 /\ s[2] = a2 /\ s[3] = a3 /\ s[4] = a4 /\ s[5] = a5
      /\ s[6] = a6 /\ s[7] = a7 /\ s[8] = a8 /\ s[9] = a9 /\ s[10] = a10 /\ s[11] = a11 /\ s[12] = a12
  OBVIOUS
<1>2. t \in Seq(S) /\ Len(t) = 12 /\ t[1] = a1 /\ t[2] = a2 /\ t[3] = a3 /\ t[4] = a4 /\ t[5] = a5
      /\ t[6] = a6 /\ t[7] = a7 /\ t[8] = a8 /\ t[9] = a9 /\ t[10] = a10 /\ t[11] = a11 /\ t[12] = a12
  OBVIOUS
<1> HIDE DEF S, s, t
<1>3. \A i \in 1 .. 12 : s[i] = t[i]
  BY <1>1, <1>2
<1>4. s = t
  BY <1>1, <1>2, <1>3, SameSeq
<1> QED
  BY <1>4 DEF s, t

(* Appending tuples of 3 and 3 elements. *)
LEMMA Append3And3 ==
    ASSUME NEW a1, NEW a2, NEW a3, NEW a4, NEW a5, NEW a6
    PROVE  <<a1, a2, a3>> \o <<a4, a5, a6>> = <<a1, a2, a3, a4, a5, a6>>
<1> DEFINE S == {a1, a2, a3, a4, a5, a6}
           s == <<a1, a2, a3>> \o <<a4, a5, a6>>
           t == <<a1, a2, a3, a4, a5, a6>>
<1>1. s \in Seq(S) /\ Len(s) = 6 /\ s[1] = a1 /\ s[2] = a2 /\ s[3] = a3 /\ s[4] = a4 /\ s[5] = a5 /\ s[6] = a6
  OBVIOUS
<1>2. t \in Seq(S) /\ Len(t) = 6 /\ t[1] = a1 /\ t[2] = a2 /\ t[3] = a3 /\ t[4] = a4 /\ t[5] = a5 /\ t[6] = a6
  OBVIOUS
<1> HIDE DEF S, s, t
<1>3. \A i \in 1 .. 6 : s[i] = t[i]
  BY <1>1, <1>2
<1>4. s = t
  BY <1>1, <1>2, <1>3, SameSeq
<1> QED
  BY <1>4 DEF s, t

(* Appending tuples of 6 and 3 elements. *)
LEMMA Append6And3 ==
    ASSUME NEW a1, NEW a2, NEW a3, NEW a4, NEW a5, NEW a6, NEW a7, NEW a8, NEW a9
    PROVE  <<a1, a2, a3, a4, a5, a6>> \o <<a7, a8, a9>> = <<a1, a2, a3, a4, a5, a6, a7, a8, a9>>
<1> DEFINE S == {a1, a2, a3, a4, a5, a6, a7, a8, a9}
           s == <<a1, a2, a3, a4, a5, a6>> \o <<a7, a8, a9>>
           t == <<a1, a2, a3, a4, a5, a6, a7, a8, a9>>
<1>1. s \in Seq(S) /\ Len(s) = 9 /\ s[1] = a1 /\ s[2] = a2 /\ s[3] = a3 /\ s[4] = a4 /\ s[5] = a5
      /\ s[6] = a6 /\ s[7] = a7 /\ s[8] = a8 /\ s[9] = a9
  OBVIOUS
<1>2. t \in Seq(S) /\ Len(t) = 9 /\ t[1] = a1 /\ t[2] = a2 /\ t[3] = a3 /\ t[4] = a4 /\ t[5] = a5
      /\ t[6] = a6 /\ t[7] = a7 /\ t[8] = a8 /\ t[9] = a9
  OBVIOUS
<1> HIDE DEF S, s, t
<1>3. \A i \in 1 .. 9 : s[i] = t[i]
  BY <1>1, <1>2
<1>4. s = t
  BY <1>1, <1>2, <1>3, SameSeq
<1> QED
  BY <1>4 DEF s, t

(* What the caller releases is added to each call of initialize_common_sources(). *)
LEMMA UnderCommon ==
    ASSUME NEW res
    PROVE  Under(res, CommonSources) =
               <<Call("signalfd", {} \cup res), Call("handlers", {} \cup res)>>
<1> DEFINE s == CommonSources
           F(x) == Call(x.call, x.undo \cup res)
           t == <<Call("signalfd", {} \cup res), Call("handlers", {} \cup res)>>
<1>1. DOMAIN s = 1 .. 2 /\ s[1] = Call("signalfd", {})
      /\ s[2] = Call("handlers", {})
  BY DEF CommonSources
<1>2. t = [i \in 1 .. 2 |-> t[i]] /\ t[1] = Call("signalfd", {} \cup res)
      /\ t[2] = Call("handlers", {} \cup res)
  OBVIOUS
<1>3. F(Call("signalfd", {})) = Call("signalfd", {} \cup res)
      /\ F(Call("handlers", {})) = Call("handlers", {} \cup res)
  BY DEF Call
<1>4. Under(res, s) = [i \in 1 .. 2 |-> F(s[i])]
  BY <1>1 DEF Under
<1> HIDE DEF F, s, t
<1>5. \A i \in 1 .. 2 : F(s[i]) = t[i]
  BY <1>1, <1>2, <1>3
<1>6. Under(res, s) = t
  BY <1>2, <1>4, <1>5
<1> QED
  BY <1>6 DEF s, t
(* initialize_etables() with the undo sets written out. *)
LEMMA EtablesTable ==
    InitializeEtables = <<Call("fdarray", {}), Call("sigarray", {"fdarray"}),
                          Call("signalfd", {"sigarray", "fdarray"}), Call("handlers", {"sigarray", "fdarray"})>>
<1> DEFINE R == {"sigarray", "fdarray"}
<1>1. Under(R, CommonSources) = <<Call("signalfd", {} \cup R), Call("handlers", {} \cup R)>>
  BY UnderCommon
<1>2. {} \cup R = R
  OBVIOUS
<1>3. Under(R, CommonSources) = <<Call("signalfd", R), Call("handlers", R)>>
  BY <1>1, <1>2
<1> QED
  BY <1>3, Append2And2 DEF InitializeEtables

(* Likewise for add_evqueue_baseevents(). *)
LEMMA UnderBase ==
    ASSUME NEW res
    PROVE  Under(res, BaseEvents) =
               <<Call("dnsfds", {} \cup res), Call("commonfd", {} \cup res)>>
<1> DEFINE s == BaseEvents
           F(x) == Call(x.call, x.undo \cup res)
           t == <<Call("dnsfds", {} \cup res), Call("commonfd", {} \cup res)>>
<1>1. DOMAIN s = 1 .. 2 /\ s[1] = Call("dnsfds", {})
      /\ s[2] = Call("commonfd", {})
  BY DEF BaseEvents
<1>2. t = [i \in 1 .. 2 |-> t[i]] /\ t[1] = Call("dnsfds", {} \cup res)
      /\ t[2] = Call("commonfd", {} \cup res)
  OBVIOUS
<1>3. F(Call("dnsfds", {})) = Call("dnsfds", {} \cup res)
      /\ F(Call("commonfd", {})) = Call("commonfd", {} \cup res)
  BY DEF Call
<1>4. Under(res, s) = [i \in 1 .. 2 |-> F(s[i])]
  BY <1>1 DEF Under
<1> HIDE DEF F, s, t
<1>5. \A i \in 1 .. 2 : F(s[i]) = t[i]
  BY <1>1, <1>2, <1>3
<1>6. Under(res, s) = t
  BY <1>2, <1>4, <1>5
<1> QED
  BY <1>6 DEF s, t
(* init_evqueue() likewise. *)
LEMMA EvqueueTable ==
    InitEvqueue = <<Call("dns", {}), Call("efd", {"dns"}), Call("dnsfds", Evqueue),
        Call("commonfd", Evqueue)>>
<1>1. Under(Evqueue, BaseEvents) = <<Call("dnsfds", {} \cup Evqueue), Call("commonfd", {} \cup Evqueue)>>
  BY UnderBase
<1>2. {} \cup Evqueue = Evqueue
  OBVIOUS
<1>3. Under(Evqueue, BaseEvents) = <<Call("dnsfds", Evqueue), Call("commonfd", Evqueue)>>
  BY <1>1, <1>2
<1> QED
  BY <1>3, Append2And2 DEF InitEvqueue

(* Likewise for initialize_etables(). *)
LEMMA UnderEtables ==
    ASSUME NEW res
    PROVE  Under(res, InitializeEtables) =
               <<Call("fdarray", {} \cup res), Call("sigarray", {"fdarray"} \cup res),
                   Call("signalfd", {"sigarray", "fdarray"} \cup res),
                   Call("handlers", {"sigarray", "fdarray"} \cup res)>>
<1> DEFINE s == InitializeEtables
           F(x) == Call(x.call, x.undo \cup res)
           t == <<Call("fdarray", {} \cup res), Call("sigarray", {"fdarray"} \cup res),
               Call("signalfd", {"sigarray", "fdarray"} \cup res),
               Call("handlers", {"sigarray", "fdarray"} \cup res)>>
<1>1. DOMAIN s = 1 .. 4 /\ s[1] = Call("fdarray", {})
      /\ s[2] = Call("sigarray", {"fdarray"})
      /\ s[3] = Call("signalfd", {"sigarray", "fdarray"})
      /\ s[4] = Call("handlers", {"sigarray", "fdarray"})
  BY EtablesTable
<1>2. t = [i \in 1 .. 4 |-> t[i]] /\ t[1] = Call("fdarray", {} \cup res)
      /\ t[2] = Call("sigarray", {"fdarray"} \cup res)
      /\ t[3] = Call("signalfd", {"sigarray", "fdarray"} \cup res)
      /\ t[4] = Call("handlers", {"sigarray", "fdarray"} \cup res)
  OBVIOUS
<1>3. F(Call("fdarray", {})) = Call("fdarray", {} \cup res)
      /\ F(Call("sigarray", {"fdarray"})) = Call("sigarray", {"fdarray"} \cup res)
      /\ F(Call("signalfd", {"sigarray", "fdarray"})) = Call("signalfd", {"sigarray", "fdarray"} \cup res)
      /\ F(Call("handlers", {"sigarray", "fdarray"})) = Call("handlers", {"sigarray", "fdarray"} \cup res)
  BY DEF Call
<1>4. Under(res, s) = [i \in 1 .. 4 |-> F(s[i])]
  BY <1>1 DEF Under
<1> HIDE DEF F, s, t
<1>5. \A i \in 1 .. 4 : F(s[i]) = t[i]
  BY <1>1, <1>2, <1>3
<1>6. Under(res, s) = t
  BY <1>2, <1>4, <1>5
<1> QED
  BY <1>6 DEF s, t
(* Likewise for init_evqueue(). *)
LEMMA UnderEvqueue ==
    ASSUME NEW res
    PROVE  Under(res, InitEvqueue) =
               <<Call("dns", {} \cup res), Call("efd", {"dns"} \cup res), Call("dnsfds", Evqueue \cup res),
                   Call("commonfd", Evqueue \cup res)>>
<1> DEFINE s == InitEvqueue
           F(x) == Call(x.call, x.undo \cup res)
           t == <<Call("dns", {} \cup res), Call("efd", {"dns"} \cup res), Call("dnsfds", Evqueue \cup res),
               Call("commonfd", Evqueue \cup res)>>
<1>1. DOMAIN s = 1 .. 4 /\ s[1] = Call("dns", {})
      /\ s[2] = Call("efd", {"dns"})
      /\ s[3] = Call("dnsfds", Evqueue)
      /\ s[4] = Call("commonfd", Evqueue)
  BY EvqueueTable
<1>2. t = [i \in 1 .. 4 |-> t[i]] /\ t[1] = Call("dns", {} \cup res)
      /\ t[2] = Call("efd", {"dns"} \cup res)
      /\ t[3] = Call("dnsfds", Evqueue \cup res)
      /\ t[4] = Call("commonfd", Evqueue \cup res)
  OBVIOUS
<1>3. F(Call("dns", {})) = Call("dns", {} \cup res)
      /\ F(Call("efd", {"dns"})) = Call("efd", {"dns"} \cup res)
      /\ F(Call("dnsfds", Evqueue)) = Call("dnsfds", Evqueue \cup res)
      /\ F(Call("commonfd", Evqueue)) = Call("commonfd", Evqueue \cup res)
  BY DEF Call
<1>4. Under(res, s) = [i \in 1 .. 4 |-> F(s[i])]
  BY <1>1 DEF Under
<1> HIDE DEF F, s, t
<1>5. \A i \in 1 .. 4 : F(s[i]) = t[i]
  BY <1>1, <1>2, <1>3
<1>6. Under(res, s) = t
  BY <1>2, <1>4, <1>5
<1> QED
  BY <1>6 DEF s, t
(* torque_init(): what each failure releases of the context. *)
LEMMA InitTable ==
    TorqueInit = <<Call("ctx", {}), Call("fdarray", {"ctx"}), Call("sigarray", {"fdarray", "ctx"}),
                   Call("signalfd", {"sigarray", "fdarray", "ctx"}), Call("handlers", {"sigarray", "fdarray", "ctx"}),
                   Call("dns", Etables \cup {"ctx"}), Call("efd", Etables \cup {"ctx", "dns"}),
                   Call("dnsfds", Context \ {"arch"}), Call("commonfd", Context \ {"arch"}),
                   Call("arch", Context \ {"arch"}), Call("devices", Context), Call("unmask", Context)>>
<1> DEFINE C == {"ctx"}
           E == Etables \cup {"ctx"}
           t1 == Call("fdarray", {"ctx"})
           t2 == Call("sigarray", {"fdarray", "ctx"})
           t3 == Call("signalfd", {"sigarray", "fdarray", "ctx"})
           t4 == Call("handlers", {"sigarray", "fdarray", "ctx"})
           q1 == Call("dns", Etables \cup {"ctx"})
           q2 == Call("efd", Etables \cup {"ctx", "dns"})
           q3 == Call("dnsfds", Context \ {"arch"})
           q4 == Call("commonfd", Context \ {"arch"})
<1>1. Under(C, InitializeEtables)
        = <<Call("fdarray", {} \cup C), Call("sigarray", {"fdarray"} \cup C),
            Call("signalfd", {"sigarray", "fdarray"} \cup C), Call("handlers", {"sigarray", "fdarray"} \cup C)>>
  BY UnderEtables
<1>2. {} \cup C = {"ctx"} /\ {"fdarray"} \cup C = {"fdarray", "ctx"}
      /\ {"sigarray", "fdarray"} \cup C = {"sigarray", "fdarray", "ctx"}
  OBVIOUS
<1>3. Under(C, InitializeEtables) = <<t1, t2, t3, t4>>
  BY <1>1, <1>2
<1>4. Under(E, InitEvqueue)
        = <<Call("dns", {} \cup E), Call("efd", {"dns"} \cup E), Call("dnsfds", Evqueue \cup E),
            Call("commonfd", Evqueue \cup E)>>
  BY UnderEvqueue
<1>5. {} \cup E = Etables \cup {"ctx"} /\ {"dns"} \cup E = Etables \cup {"ctx", "dns"}
  OBVIOUS
<1>6. Evqueue \cup E = Context \ {"arch"}
  BY DEF Evqueue, Etables, Context
<1>7. Under(E, InitEvqueue) = <<q1, q2, q3, q4>>
  BY <1>4, <1>5, <1>6
<1> HIDE DEF C, E, t1, t2, t3, t4, q1, q2, q3, q4
<1>8. CreateTorqueCtx = <<Call("ctx", {}), t1, t2, t3, t4>> \o <<q1, q2, q3, q4>>
  <2>1. CreateTorqueCtx = <<Call("ctx", {})>> \o Under(C, InitializeEtables) \o Under(E, InitEvqueue)
    BY DEF CreateTorqueCtx, C, E
  <2>2. <<Call("ctx", {})>> \o <<t1, t2, t3, t4>> = <<Call("ctx", {}), t1, t2, t3, t4>>
    BY Append1And4
  <2> QED
    BY <2>1, <2>2, <1>3, <1>7
<1>9. CreateTorqueCtx = <<Call("ctx", {}), t1, t2, t3, t4, q1, q2, q3, q4>>
  BY <1>8, Append5And4
<1>10. TorqueInit = <<Call("ctx", {}), t1, t2, t3, t4, q1, q2, q3, q4, Call("arch", Context \ {"arch"}),
                      Call("devices", Context), Call("unmask", Context)>>
  BY <1>9, Append9And3 DEF TorqueInit
<1> QED
  BY <1>10 DEF t1, t2, t3, t4, q1, q2, q3, q4

(* The calls of create_evhandler() alone. *)
Evhandler == <<Call("evh", {}), Call("events", {"evh"}), Call("ctldata", {"events", "evh"})>>

(* Likewise for create_evhandler(). *)
LEMMA UnderEvhandler ==
    ASSUME NEW res
    PROVE  Under(res, Evhandler) =
               <<Call("evh", {} \cup res), Call("events", {"evh"} \cup res),
                   Call("ctldata", {"events", "evh"} \cup res)>>
<1> DEFINE s == Evhandler
           F(x) == Call(x.call, x.undo \cup res)
           t == <<Call("evh", {} \cup res), Call("events", {"evh"} \cup res),
               Call("ctldata", {"events", "evh"} \cup res)>>
<1>1. DOMAIN s = 1 .. 3 /\ s[1] = Call("evh", {})
      /\ s[2] = Call("events", {"evh"})
      /\ s[3] = Call("ctldata", {"events", "evh"})
  BY DEF Evhandler
<1>2. t = [i \in 1 .. 3 |-> t[i]] /\ t[1] = Call("evh", {} \cup res)
      /\ t[2] = Call("events", {"evh"} \cup res)
      /\ t[3] = Call("ctldata", {"events", "evh"} \cup res)
  OBVIOUS
<1>3. F(Call("evh", {})) = Call("evh", {} \cup res)
      /\ F(Call("events", {"evh"})) = Call("events", {"evh"} \cup res)
      /\ F(Call("ctldata", {"events", "evh"})) = Call("ctldata", {"events", "evh"} \cup res)
  BY DEF Call
<1>4. Under(res, s) = [i \in 1 .. 3 |-> F(s[i])]
  BY <1>1 DEF Under
<1> HIDE DEF F, s, t
<1>5. \A i \in 1 .. 3 : F(s[i]) = t[i]
  BY <1>1, <1>2, <1>3
<1>6. Under(res, s) = t
  BY <1>2, <1>4, <1>5
<1> QED
  BY <1>6 DEF s, t
(* spawn_thread() and the evhandler of the new thread likewise. *)
LEMMA ThreadTable ==
    /\ SpawnThread \o CreateEvhandler =
         <<Call("attr", {}), Call("stack", {"attr"}), Call("setstack", {"stack", "attr"}),
           Call("lock", {"stack", "attr"}), Call("cond", {"lock", "stack", "attr"}),
           Call("create", {"lock", "cond", "stack", "attr"}), Call("evh", Guard),
           Call("events", Guard \cup {"evh"}), Call("ctldata", Guard \cup {"events", "evh"})>>
    /\ Len(SpawnThread) = 6
<1> DEFINE h1 == Call("evh", Guard)
           h2 == Call("events", Guard \cup {"evh"})
           h3 == Call("ctldata", Guard \cup {"events", "evh"})
<1>1. CreateEvhandler = <<Call("evh", {} \cup Guard), Call("events", {"evh"} \cup Guard),
                          Call("ctldata", {"events", "evh"} \cup Guard)>>
  BY UnderEvhandler DEF CreateEvhandler, Evhandler
<1>2. {} \cup Guard = Guard /\ {"evh"} \cup Guard = Guard \cup {"evh"}
      /\ {"events", "evh"} \cup Guard = Guard \cup {"events", "evh"}
  OBVIOUS
<1>3. CreateEvhandler = <<h1, h2, h3>>
  BY <1>1, <1>2
<1>4. SpawnThread = <<Call("attr", {}), Call("stack", {"attr"}), Call("setstack", {"stack", "attr"}),
                      Call("lock", {"stack", "attr"}), Call("cond", {"lock", "stack", "attr"}),
                      Call("create", {"lock", "cond", "stack", "attr"})>>
  BY Append3And3 DEF SpawnThread, SetupThreadStack
<1>5. Len(SpawnThread) = 6
  BY <1>4
<1> HIDE DEF h1, h2, h3
<1>6. SpawnThread \o CreateEvhandler =
         <<Call("attr", {}), Call("stack", {"attr"}), Call("setstack", {"stack", "attr"}),
           Call("lock", {"stack", "attr"}), Call("cond", {"lock", "stack", "attr"}),
           Call("create", {"lock", "cond", "stack", "attr"}), h1, h2, h3>>
  BY <1>3, <1>4, Append6And3
<1> QED
  BY <1>5, <1>6 DEF h1, h2, h3

(* What the error path of the i-th call of o's constructor leaves behind. *)
Left(o, i) ==
    CASE Kind[o] = "init" /\ i = 5 -> {"signalfd"}
      [] Kind[o] = "fd" /\ i = 3 -> {"cb"}
      [] Kind[o] = "thread" /\ i > 6 -> {"stack"}
      [] OTHER -> {}

(* What a finished constructor owns. *)
Full(o) ==
    CASE Kind[o] = "init" -> Context
      [] Kind[o] = "thread" -> Guard \cup {"stack", "evh", "events", "ctldata"}
      [] Kind[o] = "timer" -> {"marshal", "fd"} [] Kind[o] = "signal" -> {"fd"}
      [] Kind[o] \in {"lookup", "connect"} -> {"marshal"} [] Kind[o] = "fd" -> {"cb", "buffer"}
      [] Kind[o] = "ssl" -> {"locks"} [] Kind[o] = "sslctx" -> {"sslctx"}

(* What o's constructor owns after n calls: what the next one would release *)
(* or leave if it failed.                                                   *)
Got(o, n) == IF n < Len(Calls[o]) THEN Calls[o][n + 1].undo \cup Left(o, n + 1) ELSE Full(o)

(* The next call adds what it yields, and its error path releases exactly   *)
(* what is not left.                                                        *)
Exact(o, n) ==
    /\ Got(o, n) \subseteq Yields
    /\ Got(o, n + 1) = Got(o, n) \cup ({Calls[o][n + 1].call} \cap Yields)
    /\ Calls[o][n + 1].undo \cap Left(o, n + 1) = {}

(* The calls at which the model does more than count. *)
Marked(o, n) ==
    LET c == Calls[o][n].call IN
    /\ c = "settime" => Kind[o] = "timer" /\ n = Len(Calls[o]) - 1
    /\ c = "submit" => Kind[o] = "lookup" /\ n = Len(Calls[o]) - 1
    /\ c = "arch" => Kind[o] = "init"
    /\ Kind[o] = "lookup" /\ n = Len(Calls[o]) => c = "load"
    /\ Kind[o] = "timer" /\ n = Len(Calls[o]) => c = "add"
    /\ Kind[o] = "init" /\ n = 5 => c = "handlers"

Constructor(o) ==
    /\ Len(Calls[o]) \in Nat /\ Len(Calls[o]) > 2 /\ Got(o, 0) = {}
    /\ \A n \in 0 .. Len(Calls[o]) - 1 : Exact(o, n) /\ Marked(o, n + 1)

(* Which calls yield a resource. *)
LEMMA YieldsTable ==
    /\ \A x \in Context \cup Guard \cup {"stack", "evh", "events", "ctldata", "marshal", "fd", "cb", "buffer",
                                       "locks", "sslctx"} : {x} \cap Yields = {x}
    /\ \A x \in {"handlers", "dnsfds", "commonfd", "devices", "unmask", "setstack", "create", "settime", "add",
                 "mask", "submit", "load", "connect", "library", "entropy", "numlocks", "mutexes", "options",
                 "sessionid", "cafile", "keyfile"} : {x} \cap Yields = {}
<1>1. \A x \in {"handlers", "dnsfds", "commonfd", "devices", "unmask", "setstack", "create", "settime", "add",
                 "mask", "submit", "load", "connect", "library", "entropy", "numlocks", "mutexes", "options",
                 "sessionid", "cafile", "keyfile"} : x \notin Yields
  BY DEF Yields, Context, Guard, Etables, Evqueue
<1>2. \A x \in Yields : {x} \cap Yields = {x}
  OBVIOUS
<1> QED
  BY <1>1, <1>2 DEF Yields

(* torque_addtimer() releases on every error path exactly what it has. *)
LEMMA TimerExact ==
    ASSUME NEW o \in Objects, Kind[o] = "timer"
    PROVE  Len(Calls[o]) = 4 /\ Constructor(o)
<1> DEFINE s == Calls[o]
<1>1. s = AddTimer
  BY DEF Calls, CallsOf
<1>2. Len(s) = 4
      /\ s[1] = Call("marshal", {})
      /\ s[2] = Call("fd", {"marshal"})
      /\ s[3] = Call("settime", {"fd", "marshal"})
      /\ s[4] = Call("add", {"fd", "marshal"})
  BY <1>1 DEF AddTimer
<1>3. \A i \in 1 .. 4 : Left(o, i) = {}
  BY DEF Left
<1>4. Full(o) = {"marshal", "fd"}
  BY DEF Full
<1> HIDE DEF s
<1>5. Got(o, 0) = {}
      /\ Got(o, 1) = {"marshal"}
      /\ Got(o, 2) = {"marshal", "fd"}
      /\ Got(o, 3) = {"marshal", "fd"}
      /\ Got(o, 4) = {"marshal", "fd"}
  BY <1>2, <1>3, <1>4 DEF Got, Call, s
<1>6. {"marshal"} \cap Yields = {"marshal"}
      /\ {"fd"} \cap Yields = {"fd"}
      /\ {"settime"} \cap Yields = {}
      /\ {"add"} \cap Yields = {}
  BY YieldsTable
<1>7. Exact(o, 0) /\ Exact(o, 1) /\ Exact(o, 2) /\ Exact(o, 3)
  <2>1. Full(o) \subseteq Yields
    BY <1>4 DEF Yields
  <2>2. Got(o, 0) \subseteq Yields /\ Got(o, 1) \subseteq Yields /\ Got(o, 2) \subseteq Yields
        /\ Got(o, 3) \subseteq Yields
    BY <1>4, <1>5, <2>1
  <2> QED
    BY <2>2, <1>2, <1>3, <1>5, <1>6 DEF Exact, Call, s
<1>8. Marked(o, 1) /\ Marked(o, 2) /\ Marked(o, 3) /\ Marked(o, 4)
  BY <1>2 DEF Marked, Call, s
<1>9. \A n \in 0 .. Len(Calls[o]) - 1 : Exact(o, n) /\ Marked(o, n + 1)
  BY <1>2, <1>7, <1>8 DEF s
<1> QED
  BY <1>2, <1>5, <1>9 DEF s, Constructor

(* Likewise torque_addsignal(). *)
LEMMA SignalExact ==
    ASSUME NEW o \in Objects, Kind[o] = "signal"
    PROVE  Len(Calls[o]) = 3 /\ Constructor(o)
<1> DEFINE s == Calls[o]
<1>1. s = AddSignal
  BY DEF Calls, CallsOf
<1>2. Len(s) = 3
      /\ s[1] = Call("mask", {})
      /\ s[2] = Call("fd", {})
      /\ s[3] = Call("add", {"fd"})
  BY <1>1 DEF AddSignal
<1>3. \A i \in 1 .. 3 : Left(o, i) = {}
  BY DEF Left
<1>4. Full(o) = {"fd"}
  BY DEF Full
<1> HIDE DEF s
<1>5. Got(o, 0) = {}
      /\ Got(o, 1) = {}
      /\ Got(o, 2) = {"fd"}
      /\ Got(o, 3) = {"fd"}
  BY <1>2, <1>3, <1>4 DEF Got, Call, s
<1>6. {"mask"} \cap Yields = {}
      /\ {"fd"} \cap Yields = {"fd"}
      /\ {"add"} \cap Yields = {}
  BY YieldsTable
<1>7. Exact(o, 0) /\ Exact(o, 1) /\ Exact(o, 2)
  <2>1. Full(o) \subseteq Yields
    BY <1>4 DEF Yields
  <2>2. Got(o, 0) \subseteq Yields /\ Got(o, 1) \subseteq Yields /\ Got(o, 2) \subseteq Yields
    BY <1>4, <1>5, <2>1
  <2> QED
    BY <2>2, <1>2, <1>3, <1>5, <1>6 DEF Exact, Call, s
<1>8. Marked(o, 1) /\ Marked(o, 2) /\ Marked(o, 3)
  BY <1>2 DEF Marked, Call, s
<1>9. \A n \in 0 .. Len(Calls[o]) - 1 : Exact(o, n) /\ Marked(o, n + 1)
  BY <1>2, <1>7, <1>8 DEF s
<1> QED
  BY <1>2, <1>5, <1>9 DEF s, Constructor

(* Likewise torque_addlookup_dns(). *)
LEMMA LookupExact ==
    ASSUME NEW o \in Objects, Kind[o] = "lookup"
    PROVE  Len(Calls[o]) = 3 /\ Constructor(o)
<1> DEFINE s == Calls[o]
<1>1. s = AddLookup
  BY DEF Calls, CallsOf
<1>2. Len(s) = 3
      /\ s[1] = Call("marshal", {})
      /\ s[2] = Call("submit", {"marshal"})
      /\ s[3] = Call("load", {"marshal"})
  BY <1>1 DEF AddLookup
<1>3. \A i \in 1 .. 3 : Left(o, i) = {}
  BY DEF Left
<1>4. Full(o) = {"marshal"}
  BY DEF Full
<1> HIDE DEF s
<1>5. Got(o, 0) = {}
      /\ Got(o, 1) = {"marshal"}
      /\ Got(o, 2) = {"marshal"}
      /\ Got(o, 3) = {"marshal"}
  BY <1>2, <1>3, <1>4 DEF Got, Call, s
<1>6. {"marshal"} \cap Yields = {"marshal"}
      /\ {"submit"} \cap Yields = {}
      /\ {"load"} \cap Yields = {}
  BY YieldsTable
<1>7. Exact(o, 0) /\ Exact(o, 1) /\ Exact(o, 2)
  <2>1. Full(o) \subseteq Yields
    BY <1>4 DEF Yields
  <2>2. Got(o, 0) \subseteq Yields /\ Got(o, 1) \subseteq Yields /\ Got(o, 2) \subseteq Yields
    BY <1>4, <1>5, <2>1
  <2> QED
    BY <2>2, <1>2, <1>3, <1>5, <1>6 DEF Exact, Call, s
<1>8. Marked(o, 1) /\ Marked(o, 2) /\ Marked(o, 3)
  BY <1>2 DEF Marked, Call, s
<1>9. \A n \in 0 .. Len(Calls[o]) - 1 : Exact(o, n) /\ Marked(o, n + 1)
  BY <1>2, <1>7, <1>8 DEF s
<1> QED
  BY <1>2, <1>5, <1>9 DEF s, Constructor

(* Likewise torque_addconnector(). *)
LEMMA ConnectExact ==
    ASSUME NEW o \in Objects, Kind[o] = "connect"
    PROVE  Len(Calls[o]) = 3 /\ Constructor(o)
<1> DEFINE s == Calls[o]
<1>1. s = AddConnector
  BY DEF Calls, CallsOf
<1>2. Len(s) = 3
      /\ s[1] = Call("connect", {})
      /\ s[2] = Call("marshal", {})
      /\ s[3] = Call("add", {"marshal"})
  BY <1>1 DEF AddConnector
<1>3. \A i \in 1 .. 3 : Left(o, i) = {}
  BY DEF Left
<1>4. Full(o) = {"marshal"}
  BY DEF Full
<1> HIDE DEF s
<1>5. Got(o, 0) = {}
      /\ Got(o, 1) = {}
      /\ Got(o, 2) = {"marshal"}
      /\ Got(o, 3) = {"marshal"}
  BY <1>2, <1>3, <1>4 DEF Got, Call, s
<1>6. {"connect"} \cap Yields = {}
      /\ {"marshal"} \cap Yields = {"marshal"}
      /\ {"add"} \cap Yields = {}
  BY YieldsTable
<1>7. Exact(o, 0) /\ Exact(o, 1) /\ Exact(o, 2)
  <2>1. Full(o) \subseteq Yields
    BY <1>4 DEF Yields
  <2>2. Got(o, 0) \subseteq Yields /\ Got(o, 1) \subseteq Yields /\ Got(o, 2) \subseteq Yields
    BY <1>4, <1>5, <2>1
  <2> QED
    BY <2>2, <1>2, <1>3, <1>5, <1>6 DEF Exact, Call, s
<1>8. Marked(o, 1) /\ Marked(o, 2) /\ Marked(o, 3)
  BY <1>2 DEF Marked, Call, s
<1>9. \A n \in 0 .. Len(Calls[o]) - 1 : Exact(o, n) /\ Marked(o, n + 1)
  BY <1>2, <1>7, <1>8 DEF s
<1> QED
  BY <1>2, <1>5, <1>9 DEF s, Constructor

(* torque_addfd() leaves the torque_rxbufcb when the descriptor cannot be added. *)
LEMMA FdExact ==
    ASSUME NEW o \in Objects, Kind[o] = "fd"
    PROVE  Len(Calls[o]) = 3 /\ Constructor(o)
<1> DEFINE s == Calls[o]
<1>1. s = AddFd
  BY DEF Calls, CallsOf
<1>2. Len(s) = 3
      /\ s[1] = Call("cb", {})
      /\ s[2] = Call("buffer", {"cb"})
      /\ s[3] = Call("add", {"buffer"})
  BY <1>1 DEF AddFd
<1>3. Left(o, 1) = {}
      /\ Left(o, 2) = {}
      /\ Left(o, 3) = {"cb"}
  BY DEF Left
<1>4. Full(o) = {"cb", "buffer"}
  BY DEF Full
<1> HIDE DEF s
<1>5. Got(o, 0) = {}
      /\ Got(o, 1) = {"cb"}
      /\ Got(o, 2) = {"cb", "buffer"}
      /\ Got(o, 3) = {"cb", "buffer"}
  BY <1>2, <1>3, <1>4 DEF Got, Call, s
<1>6. {"cb"} \cap Yields = {"cb"}
      /\ {"buffer"} \cap Yields = {"buffer"}
      /\ {"add"} \cap Yields = {}
  BY YieldsTable
<1>7. Exact(o, 0) /\ Exact(o, 1) /\ Exact(o, 2)
  <2>1. Full(o) \subseteq Yields
    BY <1>4 DEF Yields
  <2>2. Got(o, 0) \subseteq Yields /\ Got(o, 1) \subseteq Yields /\ Got(o, 2) \subseteq Yields
    BY <1>4, <1>5, <2>1
  <2> QED
    BY <2>2, <1>2, <1>3, <1>5, <1>6 DEF Exact, Call, s
<1>8. Marked(o, 1) /\ Marked(o, 2) /\ Marked(o, 3)
  BY <1>2 DEF Marked, Call, s
<1>9. \A n \in 0 .. Len(Calls[o]) - 1 : Exact(o, n) /\ Marked(o, n + 1)
  BY <1>2, <1>7, <1>8 DEF s
<1> QED
  BY <1>2, <1>5, <1>9 DEF s, Constructor

(* torque_init_ssl() releases what it has. *)
LEMMA SslExact ==
    ASSUME NEW o \in Objects, Kind[o] = "ssl"
    PROVE  Len(Calls[o]) = 5 /\ Constructor(o)
<1> DEFINE s == Calls[o]
<1>1. s = InitSsl
  BY DEF Calls, CallsOf
<1>2. Len(s) = 5
      /\ s[1] = Call("library", {})
      /\ s[2] = Call("entropy", {})
      /\ s[3] = Call("numlocks", {})
      /\ s[4] = Call("locks", {})
      /\ s[5] = Call("mutexes", {"locks"})
  BY <1>1 DEF InitSsl
<1>3. \A i \in 1 .. 5 : Left(o, i) = {}
  BY DEF Left
<1>4. Full(o) = {"locks"}
  BY DEF Full
<1> HIDE DEF s
<1>5. Got(o, 0) = {}
      /\ Got(o, 1) = {}
      /\ Got(o, 2) = {}
      /\ Got(o, 3) = {}
      /\ Got(o, 4) = {"locks"}
      /\ Got(o, 5) = {"locks"}
  BY <1>2, <1>3, <1>4 DEF Got, Call, s
<1>6. {"library"} \cap Yields = {}
      /\ {"entropy"} \cap Yields = {}
      /\ {"numlocks"} \cap Yields = {}
      /\ {"locks"} \cap Yields = {"locks"}
      /\ {"mutexes"} \cap Yields = {}
  BY YieldsTable
<1>7. Exact(o, 0) /\ Exact(o, 1) /\ Exact(o, 2) /\ Exact(o, 3) /\ Exact(o, 4)
  <2>1. Full(o) \subseteq Yields
    BY <1>4 DEF Yields
  <2>2. Got(o, 0) \subseteq Yields /\ Got(o, 1) \subseteq Yields /\ Got(o, 2) \subseteq Yields
        /\ Got(o, 3) \subseteq Yields /\ Got(o, 4) \subseteq Yields
    BY <1>4, <1>5, <2>1
  <2> QED
    BY <2>2, <1>2, <1>3, <1>5, <1>6 DEF Exact, Call, s
<1>8. Marked(o, 1) /\ Marked(o, 2) /\ Marked(o, 3) /\ Marked(o, 4) /\ Marked(o, 5)
  BY <1>2 DEF Marked, Call, s
<1>9. \A n \in 0 .. Len(Calls[o]) - 1 : Exact(o, n) /\ Marked(o, n + 1)
  BY <1>2, <1>7, <1>8 DEF s
<1> QED
  BY <1>2, <1>5, <1>9 DEF s, Constructor

(* Likewise torque_ssl_ctx(). *)
LEMMA SslCtxExact ==
    ASSUME NEW o \in Objects, Kind[o] = "sslctx"
    PROVE  Len(Calls[o]) = 5 /\ Constructor(o)
<1> DEFINE s == Calls[o]
<1>1. s = SslCtx
  BY DEF Calls, CallsOf
<1>2. Len(s) = 5
      /\ s[1] = Call("sslctx", {})
      /\ s[2] = Call("options", {"sslctx"})
      /\ s[3] = Call("sessionid", {"sslctx"})
      /\ s[4] = Call("cafile", {"sslctx"})
      /\ s[5] = Call("keyfile", {"sslctx"})
  BY <1>1 DEF SslCtx
<1>3. \A i \in 1 .. 5 : Left(o, i) = {}
  BY DEF Left
<1>4. Full(o) = {"sslctx"}
  BY DEF Full
<1> HIDE DEF s
<1>5. Got(o, 0) = {}
      /\ Got(o, 1) = {"sslctx"}
      /\ Got(o, 2) = {"sslctx"}
      /\ Got(o, 3) = {"sslctx"}
      /\ Got(o, 4) = {"sslctx"}
      /\ Got(o, 5) = {"sslctx"}
  BY <1>2, <1>3, <1>4 DEF Got, Call, s
<1>6. {"sslctx"} \cap Yields = {"sslctx"}
      /\ {"options"} \cap Yields = {}
      /\ {"sessionid"} \cap Yields = {}
      /\ {"cafile"} \cap Yields = {}
      /\ {"keyfile"} \cap Yields = {}
  BY YieldsTable
<1>7. Exact(o, 0) /\ Exact(o, 1) /\ Exact(o, 2) /\ Exact(o, 3) /\ Exact(o, 4)
  <2>1. Full(o) \subseteq Yields
    BY <1>4 DEF Yields
  <2>2. Got(o, 0) \subseteq Yields /\ Got(o, 1) \subseteq Yields /\ Got(o, 2) \subseteq Yields
        /\ Got(o, 3) \subseteq Yields /\ Got(o, 4) \subseteq Yields
    BY <1>4, <1>5, <2>1
  <2> QED
    BY <2>2, <1>2, <1>3, <1>5, <1>6 DEF Exact, Call, s
<1>8. Marked(o, 1) /\ Marked(o, 2) /\ Marked(o, 3) /\ Marked(o, 4) /\ Marked(o, 5)
  BY <1>2 DEF Marked, Call, s
<1>9. \A n \in 0 .. Len(Calls[o]) - 1 : Exact(o, n) /\ Marked(o, n + 1)
  BY <1>2, <1>7, <1>8 DEF s
<1> QED
  BY <1>2, <1>5, <1>9 DEF s, Constructor

(* A new thread: the stack is left once pthread_create(3) has succeeded. *)
LEMMA ThreadExact ==
    ASSUME NEW o \in Objects, Kind[o] = "thread"
    PROVE  Len(Calls[o]) = 9 /\ Constructor(o)
<1> DEFINE s == Calls[o]
<1>1. s = SpawnThread \o CreateEvhandler
  BY DEF Calls, CallsOf
<1>2. Len(s) = 9
      /\ s[1] = Call("attr", {})
      /\ s[2] = Call("stack", {"attr"})
      /\ s[3] = Call("setstack", {"stack", "attr"})
      /\ s[4] = Call("lock", {"stack", "attr"})
      /\ s[5] = Call("cond", {"lock", "stack", "attr"})
      /\ s[6] = Call("create", {"lock", "cond", "stack", "attr"})
      /\ s[7] = Call("evh", Guard)
      /\ s[8] = Call("events", Guard \cup {"evh"})
      /\ s[9] = Call("ctldata", Guard \cup {"events", "evh"})
  BY <1>1, ThreadTable
<1>3. Left(o, 1) = {}
      /\ Left(o, 2) = {}
      /\ Left(o, 3) = {}
      /\ Left(o, 4) = {}
      /\ Left(o, 5) = {}
      /\ Left(o, 6) = {}
      /\ Left(o, 7) = {"stack"}
      /\ Left(o, 8) = {"stack"}
      /\ Left(o, 9) = {"stack"}
  BY DEF Left
<1>4. Full(o) = Guard \cup {"stack", "evh", "events", "ctldata"}
  BY DEF Full
<1> HIDE DEF s
<1>5. Got(o, 0) = {}
      /\ Got(o, 1) = {"attr"}
      /\ Got(o, 2) = {"attr", "stack"}
      /\ Got(o, 3) = {"attr", "stack"}
      /\ Got(o, 4) = {"attr", "stack", "lock"}
      /\ Got(o, 5) = {"attr", "stack", "lock", "cond"}
      /\ Got(o, 6) = {"attr", "stack", "lock", "cond"}
      /\ Got(o, 7) = {"attr", "stack", "lock", "cond", "evh"}
      /\ Got(o, 8) = {"attr", "stack", "lock", "cond", "evh", "events"}
      /\ Got(o, 9) = {"attr", "stack", "lock", "cond", "evh", "events", "ctldata"}
  BY <1>2, <1>3, <1>4 DEF Got, Call, s, Guard
<1>6. {"attr"} \cap Yields = {"attr"}
      /\ {"stack"} \cap Yields = {"stack"}
      /\ {"setstack"} \cap Yields = {}
      /\ {"lock"} \cap Yields = {"lock"}
      /\ {"cond"} \cap Yields = {"cond"}
      /\ {"create"} \cap Yields = {}
      /\ {"evh"} \cap Yields = {"evh"}
      /\ {"events"} \cap Yields = {"events"}
      /\ {"ctldata"} \cap Yields = {"ctldata"}
  BY YieldsTable DEF Guard
<1>7. Exact(o, 0) /\ Exact(o, 1) /\ Exact(o, 2) /\ Exact(o, 3) /\ Exact(o, 4) /\ Exact(o, 5) /\ Exact(o, 6)
      /\ Exact(o, 7) /\ Exact(o, 8)
  <2>1. Full(o) \subseteq Yields
    BY <1>4 DEF Yields, Guard
  <2>2. Got(o, 0) \subseteq Yields /\ Got(o, 1) \subseteq Yields /\ Got(o, 2) \subseteq Yields
        /\ Got(o, 3) \subseteq Yields /\ Got(o, 4) \subseteq Yields /\ Got(o, 5) \subseteq Yields
        /\ Got(o, 6) \subseteq Yields /\ Got(o, 7) \subseteq Yields /\ Got(o, 8) \subseteq Yields
    BY <1>4, <1>5, <2>1 DEF Guard
  <2> QED
    BY <2>2, <1>2, <1>3, <1>5, <1>6 DEF Exact, Call, s, Guard
<1>8. Marked(o, 1) /\ Marked(o, 2) /\ Marked(o, 3) /\ Marked(o, 4) /\ Marked(o, 5) /\ Marked(o, 6)
      /\ Marked(o, 7) /\ Marked(o, 8) /\ Marked(o, 9)
  BY <1>2 DEF Marked, Call, s
<1>9. \A n \in 0 .. Len(Calls[o]) - 1 : Exact(o, n) /\ Marked(o, n + 1)
  BY <1>2, <1>7, <1>8 DEF s
<1> QED
  BY <1>2, <1>5, <1>9 DEF s, Constructor

(* torque_init(): the common signalfd is left when sigaction(2) fails. *)
LEMMA InitExact ==
    ASSUME NEW o \in Objects, Kind[o] = "init"
    PROVE  Len(Calls[o]) = 12 /\ Constructor(o)
<1> DEFINE s == Calls[o]
<1>1. s = TorqueInit
  BY DEF Calls, CallsOf
<1>2. Len(s) = 12
      /\ s[1] = Call("ctx", {})
      /\ s[2] = Call("fdarray", {"ctx"})
      /\ s[3] = Call("sigarray", {"fdarray", "ctx"})
      /\ s[4] = Call("signalfd", {"sigarray", "fdarray", "ctx"})
      /\ s[5] = Call("handlers", {"sigarray", "fdarray", "ctx"})
      /\ s[6] = Call("dns", Etables \cup {"ctx"})
      /\ s[7] = Call("efd", Etables \cup {"ctx", "dns"})
      /\ s[8] = Call("dnsfds", Context \ {"arch"})
      /\ s[9] = Call("commonfd", Context \ {"arch"})
      /\ s[10] = Call("arch", Context \ {"arch"})
      /\ s[11] = Call("devices", Context)
      /\ s[12] = Call("unmask", Context)
  BY <1>1, InitTable
<1>3. Left(o, 1) = {}
      /\ Left(o, 2) = {}
      /\ Left(o, 3) = {}
      /\ Left(o, 4) = {}
      /\ Left(o, 5) = {"signalfd"}
      /\ Left(o, 6) = {}
      /\ Left(o, 7) = {}
      /\ Left(o, 8) = {}
      /\ Left(o, 9) = {}
      /\ Left(o, 10) = {}
      /\ Left(o, 11) = {}
      /\ Left(o, 12) = {}
  BY DEF Left
<1>4. Full(o) = Context
  BY DEF Full
<1> HIDE DEF s
<1>5. Got(o, 0) = {}
      /\ Got(o, 1) = {"ctx"}
      /\ Got(o, 2) = {"fdarray", "ctx"}
      /\ Got(o, 3) = {"sigarray", "fdarray", "ctx"}
      /\ Got(o, 4) = Etables \cup {"ctx"}
      /\ Got(o, 5) = Etables \cup {"ctx"}
      /\ Got(o, 6) = Etables \cup {"ctx", "dns"}
      /\ Got(o, 7) = Context \ {"arch"}
      /\ Got(o, 8) = Context \ {"arch"}
      /\ Got(o, 9) = Context \ {"arch"}
      /\ Got(o, 10) = Context
      /\ Got(o, 11) = Context
      /\ Got(o, 12) = Context
  BY <1>2, <1>3, <1>4 DEF Got, Call, s, Context, Etables, Evqueue
<1>6. {"ctx"} \cap Yields = {"ctx"}
      /\ {"fdarray"} \cap Yields = {"fdarray"}
      /\ {"sigarray"} \cap Yields = {"sigarray"}
      /\ {"signalfd"} \cap Yields = {"signalfd"}
      /\ {"handlers"} \cap Yields = {}
      /\ {"dns"} \cap Yields = {"dns"}
      /\ {"efd"} \cap Yields = {"efd"}
      /\ {"dnsfds"} \cap Yields = {}
      /\ {"commonfd"} \cap Yields = {}
      /\ {"arch"} \cap Yields = {"arch"}
      /\ {"devices"} \cap Yields = {}
      /\ {"unmask"} \cap Yields = {}
  BY YieldsTable DEF Context, Etables, Evqueue
<1>7. Exact(o, 0) /\ Exact(o, 1) /\ Exact(o, 2) /\ Exact(o, 3) /\ Exact(o, 4) /\ Exact(o, 5) /\ Exact(o, 6)
      /\ Exact(o, 7) /\ Exact(o, 8) /\ Exact(o, 9) /\ Exact(o, 10) /\ Exact(o, 11)
  <2>1. Full(o) \subseteq Yields
    BY <1>4 DEF Yields, Context, Etables, Evqueue
  <2>2. Got(o, 0) \subseteq Yields /\ Got(o, 1) \subseteq Yields /\ Got(o, 2) \subseteq Yields
        /\ Got(o, 3) \subseteq Yields /\ Got(o, 4) \subseteq Yields /\ Got(o, 5) \subseteq Yields
        /\ Got(o, 6) \subseteq Yields /\ Got(o, 7) \subseteq Yields /\ Got(o, 8) \subseteq Yields
        /\ Got(o, 9) \subseteq Yields /\ Got(o, 10) \subseteq Yields /\ Got(o, 11) \subseteq Yields
    BY <1>4, <1>5, <2>1 DEF Context, Etables, Evqueue
  <2> QED
    BY <2>2, <1>2, <1>3, <1>5, <1>6 DEF Exact, Call, s, Context, Etables, Evqueue
<1>8. Marked(o, 1) /\ Marked(o, 2) /\ Marked(o, 3) /\ Marked(o, 4) /\ Marked(o, 5) /\ Marked(o, 6)
      /\ Marked(o, 7) /\ Marked(o, 8) /\ Marked(o, 9) /\ Marked(o, 10) /\ Marked(o, 11) /\ Marked(o, 12)
  BY <1>2 DEF Marked, Call, s
<1>9. \A n \in 0 .. Len(Calls[o]) - 1 : Exact(o, n) /\ Marked(o, n + 1)
  BY <1>2, <1>7, <1>8 DEF s
<1> QED
  BY <1>2, <1>5, <1>9 DEF s, Constructor

-----------------------------------------------------------------------------
(* The invariant.                                                            *)

(* No timer has an interval, no signal has the number SIGRTMAX, and         *)
(* load_dns_fds() succeeds in torque_addlookup_dns().                       *)
Tame ==
    /\ Periodic = {} /\ <<"lookup", "load">> \notin Faults
    /\ \A o \in Objects : Kind[o] = "signal" => Signo[o] # SigMax

Fired == {"armed", "pending", "answered", "delivered", "lost"}
Places == Fired \cup {"none", "building", "failed", "stopped"}

(* Where o is, and which places its kind can be in.                         *)
PlaceOK(o) ==
    /\ at[o] \in 0 .. Len(Calls[o]) /\ st[o] \in Places
    /\ st[o] = "none" => at[o] = 0
    /\ st[o] \in {"building", "failed"} => at[o] < Len(Calls[o])
    /\ st[o] \in Fired =>
          \/ at[o] = Len(Calls[o])
          \/ at[o] = Len(Calls[o]) - 1 /\ (Kind[o] = "lookup" \/ (Kind[o] = "timer" /\ st[o] # "delivered"))
    /\ st[o] = "pending" => Kind[o] \in {"timer", "signal", "connect", "lookup"}
    /\ st[o] = "answered" => Kind[o] = "lookup"
    /\ st[o] = "delivered" => Kind[o] \in {"timer", "connect", "lookup"}
    /\ st[o] = "lost" => Kind[o] = "connect"
    /\ st[o] = "stopped" => Kind[o] \in {"init", "ssl"} \/ (Kind[o] = "thread" /\ at[o] = Len(Calls[o]))
    /\ o \in edge /\ Kind[o] \in {"timer", "connect"} => st[o] = "pending"
    /\ o \in reading => Kind[o] = "signal"

(* What o owns, told from where it is.                                      *)
Held(o) ==
    CASE st[o] = "none" -> {}
      [] st[o] = "building" -> Got(o, at[o])
      [] st[o] = "failed" -> Left(o, at[o] + 1)
      [] st[o] = "delivered" -> IF Kind[o] = "timer" THEN {"fd"} ELSE {}
      [] st[o] = "stopped" -> IF Kind[o] = "thread" THEN {"stack"} ELSE {}
      [] OTHER -> IF Kind[o] = "thread" THEN Got(o, at[o]) \ Guard ELSE Got(o, at[o])

SInv ==
    /\ at \in [Objects -> Nat] /\ st \in [Objects -> Places] /\ fault = FALSE
    /\ \A o \in Objects : PlaceOK(o)
    /\ owned \subseteq Objects \X Yields
    /\ \A o \in Objects : \A r \in Yields : <<o, r>> \in owned <=> r \in Held(o)

-----------------------------------------------------------------------------
(* Lemmas.                                                                   *)

(* The constructors together.                                                *)
LEMMA CallTable ==
    ASSUME NEW o \in Objects
    PROVE  /\ Len(Calls[o]) \in Nat /\ Len(Calls[o]) > 2 /\ Got(o, 0) = {}
           /\ \A n \in 0 .. Len(Calls[o]) - 1 : Exact(o, n) /\ Marked(o, n + 1)
<1> SUFFICES Constructor(o)
  BY DEF Constructor
<1>1. Kind[o] \in Kinds
  BY SourcesAssumption
<1>2. CASE Kind[o] = "init"
  BY <1>2, InitExact
<1>3. CASE Kind[o] = "thread"
  BY <1>3, ThreadExact
<1>4. CASE Kind[o] = "timer"
  BY <1>4, TimerExact
<1>5. CASE Kind[o] = "signal"
  BY <1>5, SignalExact
<1>6. CASE Kind[o] = "lookup"
  BY <1>6, LookupExact
<1>7. CASE Kind[o] = "connect"
  BY <1>7, ConnectExact
<1>8. CASE Kind[o] = "fd"
  BY <1>8, FdExact
<1>9. CASE Kind[o] = "ssl"
  BY <1>9, SslExact
<1>10. CASE Kind[o] = "sslctx"
  BY <1>10, SslCtxExact
<1> QED
  BY <1>1, <1>2, <1>3, <1>4, <1>5, <1>6, <1>7, <1>8, <1>9, <1>10 DEF Kinds

(* The last call of a timer or a lookup yields nothing, and what is owned   *)
(* after it is Full(o).                                                     *)
LEMMA Finished ==
    ASSUME NEW o \in Objects
    PROVE  /\ Got(o, Len(Calls[o])) = Full(o)
           /\ Kind[o] \in {"timer", "lookup"} => Got(o, Len(Calls[o]) - 1) = Full(o)
<1> DEFINE n == Len(Calls[o]) - 1
<1>1. Len(Calls[o]) \in Nat /\ n \in 0 .. Len(Calls[o]) - 1 /\ n + 1 = Len(Calls[o])
  BY CallTable
<1>2. Got(o, Len(Calls[o])) = Full(o)
  BY <1>1 DEF Got
<1>3. Exact(o, n) /\ Marked(o, n + 1)
  BY <1>1, CallTable
<1>4. ASSUME Kind[o] \in {"timer", "lookup"} PROVE Got(o, n) = Full(o)
  <2>1. {Calls[o][n + 1].call} \cap Yields = {}
    BY <1>1, <1>3, <1>4, YieldsTable DEF Marked
  <2> QED
    BY <1>1, <1>2, <1>3, <2>1 DEF Exact
<1> QED
  BY <1>2, <1>4

(* Which pairs are resources of an object.                                   *)
LEMMA OfPair ==
    ASSUME NEW o, NEW names, NEW x, NEW r
    PROVE  <<x, r>> \in Of(o, names) <=> x = o /\ r \in names
  BY DEF Of

(* Which pairs are parts of evhandlers.                                      *)
LEMMA EvhandlersPair ==
    ASSUME NEW x, NEW r
    PROVE  <<x, r>> \in Evhandlers <=> x \in Threads /\ r \in {"evh", "events", "ctldata"}
  BY OfPair DEF Evhandlers

(* Every element of Of() is a pair of the object and a name.                 *)
LEMMA OfPairs ==
    ASSUME NEW o, NEW names, NEW p \in Of(o, names)
    PROVE  \E r \in names : p = <<o, r>>
  BY DEF Of

(* Every element of Evhandlers is part of the evhandler of a thread.         *)
LEMMA EvhandlersPairs ==
    ASSUME NEW p \in Evhandlers
    PROVE  \E x \in Threads : \E r \in {"evh", "events", "ctldata"} : p = <<x, r>>
  BY OfPairs DEF Evhandlers

(* What is there can be released.                                            *)
LEMMA Released ==
    ASSUME NEW set, Release(set), fault = FALSE, set \subseteq owned
    PROVE  fault' = FALSE /\ owned' = owned \ set
  BY DEF Release

(* What an object owns depends on its own place only.                        *)
LEMMA Frame ==
    ASSUME NEW x, at'[x] = at[x], st'[x] = st[x]
    PROVE  Held(x)' = Held(x)
  BY DEF Held

(* So does its place.                                                        *)
LEMMA FramePlace ==
    ASSUME NEW x, PlaceOK(x), at'[x] = at[x], st'[x] = st[x],
           x \in edge' => x \in edge, x \in reading' => x \in reading
    PROVE  PlaceOK(x)'
  BY DEF PlaceOK

(* Initially nothing is owned.                                               *)
LEMMA SourcesInit == Init => SInv
<1> SUFFICES ASSUME Init PROVE SInv
  OBVIOUS
<1>1. at \in [Objects -> Nat] /\ st \in [Objects -> Places] /\ fault = FALSE /\ owned = {}
  BY DEF Init, Places
<1>2. ASSUME NEW o \in Objects PROVE PlaceOK(o) /\ Held(o) = {}
  BY CallTable DEF Init, PlaceOK, Places, Fired, Held
<1> QED
  BY <1>1, <1>2 DEF SInv

(* The invariant is what the property asks for.                             *)
LEMMA SourcesSafe == SInv => OwnedOnce
<1> SUFFICES ASSUME SInv PROVE OwnedOnce
  OBVIOUS
<1>1. ctx \in Objects /\ Kind[ctx] = "init"
  BY SourcesAssumption DEF ctx
<1>2. ~fault
  BY DEF SInv
<1>3. ASSUME Running PROVE Of(ctx, Context) \subseteq owned
  <2>1. PlaceOK(ctx) /\ st[ctx] = "armed"
    BY <1>1, <1>3 DEF SInv, Running
  <2>2. at[ctx] = Len(Calls[ctx])
    BY <1>1, <2>1 DEF PlaceOK, Fired
  <2>3. Held(ctx) = Context
    BY <1>1, <2>1, <2>2, Finished DEF Held, Full
  <2>4. \A r \in Context : r \in Yields /\ <<ctx, r>> \in owned
    BY <1>1, <2>3 DEF SInv, Yields
  <2> QED
    BY <2>4, OfPairs
<1>4. ASSUME NEW o \in Objects, NEW r \in Yields, <<o, r>> \in owned,
             st[o] \in {"failed", "delivered", "lost", "stopped"}
      PROVE  Leaked(o, r)
  <2>1. r \in Held(o) /\ PlaceOK(o)
    BY <1>4 DEF SInv
  <2>2. CASE st[o] = "failed"
    <3>1. r \in Left(o, at[o] + 1) /\ at[o] \in 0 .. Len(Calls[o]) - 1
      BY <2>1, <2>2, CallTable DEF Held, PlaceOK
    <3>2. Marked(o, at[o] + 1)
      BY <3>1, CallTable
    <3> QED
      BY <2>2, <3>1, <3>2, ThreadTable DEF Left, Leaked, Marked
  <2>3. CASE st[o] = "delivered"
    BY <2>1, <2>3 DEF Held, Leaked
  <2>4. CASE st[o] = "lost"
    <3>1. Kind[o] = "connect" /\ at[o] = Len(Calls[o])
      BY <2>1, <2>4 DEF PlaceOK, Fired
    <3>2. r \in Full(o)
      BY <2>1, <2>4, <3>1, Finished DEF Held
    <3> QED
      BY <2>4, <3>1, <3>2 DEF Full, Leaked
  <2>5. CASE st[o] = "stopped"
    <3>1. Kind[o] = "thread" /\ r = "stack" /\ at[o] = Len(Calls[o])
      BY <2>1, <2>5 DEF Held, PlaceOK
    <3>2. Len(Calls[o]) = 9
      BY <3>1, ThreadExact
    <3>3. Len(SpawnThread) = 6
      BY ThreadTable
    <3> QED
      BY <3>1, <3>2, <3>3 DEF Leaked
  <2> QED
    BY <1>4, <2>2, <2>3, <2>4, <2>5
<1> QED
  BY <1>2, <1>3, <1>4 DEF OwnedOnce

-----------------------------------------------------------------------------
(* Steps.                                                                    *)

(* A step of an object that releases some of what it owns, and no other    *)
(* object is touched.                                                       *)
LEMMA ReleaseStep ==
    ASSUME SInv, NEW o \in Objects, NEW names, NEW place \in Places,
           Release(Of(o, names)), names \subseteq Yields, names \subseteq Held(o), at' = at,
           st' = [st EXCEPT ![o] = place], Held(o)' = Held(o) \ names, PlaceOK(o)',
           edge' = edge \ {o} \/ edge' = edge, reading' = reading
    PROVE  SInv'
<1>1. Of(o, names) \subseteq owned
  <2>1. \A r \in names : <<o, r>> \in owned
    BY DEF SInv
  <2> QED
    BY <2>1, OfPairs
<1>2. fault' = FALSE /\ owned' = owned \ Of(o, names)
  BY <1>1, Released DEF SInv
<1>3. at' \in [Objects -> Nat] /\ st' \in [Objects -> Places]
  BY DEF SInv
<1>4. st'[o] = place /\ \A x \in Objects : x # o => st'[x] = st[x]
  BY DEF SInv
<1>5. ASSUME NEW x \in Objects PROVE PlaceOK(x)'
  BY <1>4, FramePlace DEF SInv
<1>6. ASSUME NEW x \in Objects, NEW r \in Yields PROVE <<x, r>> \in owned' <=> r \in Held(x)'
  <2>1. CASE x = o
    BY <1>2, <2>1, OfPair DEF SInv
  <2>2. CASE x # o
    <3>1. Held(x)' = Held(x)
      BY <1>4, <2>2, Frame
    <3> QED
      BY <1>2, <2>2, <3>1, OfPair DEF SInv
  <2> QED
    BY <2>1, <2>2
<1>7. owned' \subseteq Objects \X Yields
  BY <1>2 DEF SInv
<1> QED
  BY <1>2, <1>3, <1>5, <1>6, <1>7 DEF SInv

(* A step that owns and releases nothing.                                    *)
LEMMA QuietStep ==
    ASSUME SInv, at' = at, st' \in [Objects -> Places], owned' = owned, fault' = FALSE,
           \A x \in Objects : PlaceOK(x)', \A x \in Objects : Held(x)' = Held(x)
    PROVE  SInv'
  BY DEF SInv

(* timer_passthru(): a registered timer with an event is pending, so that   *)
(* its marshal is there.                                                    *)
LEMMA TimerEventStep ==
    ASSUME SInv, NEW o \in Objects, TimerEvent(o)
    PROVE  SInv'
<1>1. PlaceOK(o) /\ Kind[o] = "timer" /\ st[o] = "pending" /\ at[o] = Len(Calls[o])
  BY DEF SInv, TimerEvent, Registered, PlaceOK
<1>2. Held(o) = {"marshal", "fd"}
  BY <1>1, Finished DEF Held, Full
<1>3. st' = [st EXCEPT ![o] = "delivered"] /\ at' = at /\ edge' = edge \ {o} /\ reading' = reading
  BY DEF TimerEvent
<1>4. st'[o] = "delivered"
  BY <1>3 DEF SInv
<1>5. Held(o)' = {"fd"}
  BY <1>1, <1>4 DEF Held
<1>6. PlaceOK(o)'
  BY <1>1, <1>3, <1>4 DEF PlaceOK, Fired, Places
<1>7. Release(Of(o, {"marshal"}))
  BY DEF TimerEvent, Of
<1>8. "delivered" \in Places /\ {"marshal"} \subseteq Yields
  BY DEF Places, Fired, Yields
<1>9. {"marshal"} \subseteq Held(o) /\ Held(o)' = Held(o) \ {"marshal"}
  BY <1>2, <1>5
<1> QED
  BY <1>3, <1>6, <1>7, <1>8, <1>9, ReleaseStep

(* conn_unbuffered_txfxn(): likewise; on its error path the marshal stays.  *)
LEMMA ConnectEventStep ==
    ASSUME SInv, NEW o \in Objects, ConnectEvent(o)
    PROVE  SInv'
<1>1. PlaceOK(o) /\ Kind[o] = "connect" /\ st[o] = "pending" /\ at[o] = Len(Calls[o])
  BY DEF SInv, ConnectEvent, Registered, PlaceOK
<1>2. Held(o) = {"marshal"}
  BY <1>1, Finished DEF Held, Full
<1>3. at' = at /\ edge' = edge \ {o} /\ reading' = reading
  BY DEF ConnectEvent
<1>4. CASE st' = [st EXCEPT ![o] = "delivered"] /\ Release({<<o, "marshal">>})
  <2>1. st'[o] = "delivered"
    BY <1>4 DEF SInv
  <2>2. Held(o)' = {}
    BY <1>1, <2>1 DEF Held
  <2>3. PlaceOK(o)'
    BY <1>1, <1>3, <2>1 DEF PlaceOK, Fired, Places
  <2>4. Release(Of(o, {"marshal"}))
    BY <1>4 DEF Of
  <2>5. "delivered" \in Places /\ {"marshal"} \subseteq Yields
    BY DEF Places, Fired, Yields
  <2>6. {"marshal"} \subseteq Held(o) /\ Held(o)' = Held(o) \ {"marshal"}
    BY <1>2, <2>2
  <2> QED
    BY <1>3, <1>4, <2>3, <2>4, <2>5, <2>6, ReleaseStep
<1>5. CASE st' = [st EXCEPT ![o] = "lost"] /\ UNCHANGED <<owned, fault>>
  <2>1. st'[o] = "lost" /\ \A x \in Objects : x # o => st'[x] = st[x]
    BY <1>5 DEF SInv
  <2>2. Held(o)' = Held(o)
    BY <1>1, <1>3, <2>1 DEF Held
  <2>3. PlaceOK(o)'
    BY <1>1, <1>3, <2>1 DEF PlaceOK, Fired, Places
  <2>4. \A x \in Objects : PlaceOK(x)'
    BY <1>3, <2>1, <2>3, FramePlace DEF SInv
  <2>5. \A x \in Objects : Held(x)' = Held(x)
    BY <1>3, <2>1, <2>2, Frame
  <2>6. st' \in [Objects -> Places] /\ fault' = FALSE
    BY <1>5 DEF SInv, Places, Fired
  <2> QED
    BY <1>3, <1>5, <2>4, <2>5, <2>6, QuietStep
<1> QED
  BY <1>4, <1>5 DEF ConnectEvent

(* torque_stop_ssl() *)
LEMMA StopSslStep ==
    ASSUME SInv, NEW o \in Objects, StopSsl(o)
    PROVE  SInv'
<1>1. PlaceOK(o) /\ Kind[o] = "ssl" /\ st[o] = "armed"
  BY DEF SInv, StopSsl
<1>2. Held(o) = {"locks"}
  <2>1. at[o] = Len(Calls[o])
    BY <1>1 DEF PlaceOK, Fired
  <2> QED
    BY <1>1, <2>1, Finished DEF Held, Full
<1>3. at' = at /\ edge' = edge /\ reading' = reading /\ st' = [st EXCEPT ![o] = "stopped"]
  BY DEF StopSsl
<1>4. st'[o] = "stopped"
  BY <1>3 DEF SInv
<1>5. Held(o)' = {}
  BY <1>1, <1>4 DEF Held
<1>6. PlaceOK(o)'
  BY <1>1, <1>3, <1>4 DEF PlaceOK, Fired, Places
<1>7. Release(Of(o, {"locks"}))
  BY DEF StopSsl, Of
<1>8. "stopped" \in Places /\ {"locks"} \subseteq Yields
  BY DEF Places, Yields
<1>9. {"locks"} \subseteq Held(o) /\ Held(o)' = Held(o) \ {"locks"}
  BY <1>2, <1>5
<1> QED
  BY <1>3, <1>6, <1>7, <1>8, <1>9, ReleaseStep

(* An event: what is armed is pending, and no timer fires twice.             *)
LEMMA HappensStep ==
    ASSUME Tame, SInv, NEW o \in Objects, Happens(o)
    PROVE  SInv'
<1>1. PlaceOK(o) /\ Kind[o] \in {"timer", "signal", "connect", "lookup"} /\ st[o] = "armed"
  BY DEF Tame, SInv, Happens, Sourced
<1>2. at' = at /\ owned' = owned /\ fault' = fault /\ edge' = edge \cup {o} /\ reading' = reading
      /\ st' = [st EXCEPT ![o] = "pending"]
  BY DEF Happens
<1>3. st'[o] = "pending" /\ \A x \in Objects : x # o => st'[x] = st[x]
  BY <1>2 DEF SInv
<1>4. PlaceOK(o)'
  BY <1>1, <1>2, <1>3 DEF PlaceOK, Fired, Places
<1>5. \A x \in Objects : PlaceOK(x)'
  BY <1>2, <1>3, <1>4, FramePlace DEF SInv
<1>6. Held(o)' = Held(o)
  BY <1>1, <1>2, <1>3 DEF Held
<1>7. \A x \in Objects : Held(x)' = Held(x)
  BY <1>2, <1>3, <1>6, Frame
<1>8. st' \in [Objects -> Places] /\ fault' = FALSE
  BY <1>2 DEF SInv, Places, Fired
<1> QED
  BY <1>2, <1>5, <1>7, <1>8, QuietStep

(* signalfd_demultiplexer() starts.                                          *)
LEMMA SignalEventStep ==
    ASSUME SInv, NEW o \in Objects, SignalEvent(o)
    PROVE  SInv'
<1>1. Kind[o] = "signal" /\ at' = at /\ st' = st /\ owned' = owned /\ fault' = fault /\ edge' = edge \ {o}
      /\ reading' = reading \cup {o}
  BY DEF SignalEvent
<1>2. ASSUME NEW x \in Objects PROVE PlaceOK(x)'
  <2>1. PlaceOK(x)
    BY DEF SInv
  <2> QED
    BY <1>1, <2>1 DEF PlaceOK
<1>3. \A x \in Objects : Held(x)' = Held(x)
  BY <1>1, Frame
<1>4. st' \in [Objects -> Places] /\ fault' = FALSE
  BY <1>1 DEF SInv
<1> QED
  BY <1>1, <1>2, <1>3, <1>4, QuietStep

(* signalfd_demultiplexer() reads a signal, whose number is inside the table.                     *)
LEMMA ReadSignalStep ==
    ASSUME Tame, SInv, NEW o \in Objects, ReadSignal(o)
    PROVE  SInv'
<1>1. PlaceOK(o) /\ Kind[o] = "signal" /\ Signo[o] # SigMax
  <2>1. PlaceOK(o) /\ Kind[o] = "signal"
    BY DEF SInv, ReadSignal, PlaceOK
  <2> QED
    BY <2>1 DEF Tame
<1>2. at' = at /\ owned' = owned /\ edge' = edge
  BY DEF ReadSignal
<1>3. CASE st[o] = "pending" /\ st' = [st EXCEPT ![o] = "armed"]
           /\ fault' = (fault \/ Signo[o] = SigMax) /\ UNCHANGED reading
  <2>1. st'[o] = "armed" /\ \A x \in Objects : x # o => st'[x] = st[x]
    BY <1>3 DEF SInv
  <2>2. PlaceOK(o)'
    BY <1>1, <1>2, <1>3, <2>1 DEF PlaceOK, Fired, Places
  <2>3. \A x \in Objects : PlaceOK(x)'
    BY <1>2, <1>3, <2>1, <2>2, FramePlace DEF SInv
  <2>4. Held(o)' = Held(o)
    BY <1>1, <1>2, <1>3, <2>1 DEF Held
  <2>5. \A x \in Objects : Held(x)' = Held(x)
    BY <1>2, <2>1, <2>4, Frame
  <2>6. st' \in [Objects -> Places]
    BY <1>3 DEF SInv, Places, Fired
  <2>7. fault' = FALSE
    BY <1>1, <1>3 DEF SInv
  <2> QED
    BY <1>2, <2>3, <2>5, <2>6, <2>7, QuietStep
<1>4. CASE reading' = reading \ {o} /\ UNCHANGED <<st, fault>>
  <2>1. \A x \in Objects : PlaceOK(x)'
    BY <1>2, <1>4, FramePlace DEF SInv
  <2>2. \A x \in Objects : Held(x)' = Held(x)
    BY <1>2, <1>4, Frame
  <2>3. st' \in [Objects -> Places] /\ fault' = FALSE
    BY <1>4 DEF SInv
  <2> QED
    BY <1>2, <2>1, <2>2, <2>3, QuietStep
<1> QED
  BY <1>3, <1>4 DEF ReadSignal

(* The handler of the adns socket.                                           *)
LEMMA DnsStep ==
    ASSUME SInv, Dns
    PROVE  SInv'
<1>1. CASE DnsEvent \/ DnsRestore
  <2>1. at' = at /\ st' = st /\ owned' = owned /\ fault' = fault /\ edge' = edge /\ reading' = reading
    BY <1>1 DEF DnsEvent, DnsRestore
  <2>2. \A x \in Objects : PlaceOK(x)'
    BY <2>1, FramePlace DEF SInv
  <2>3. \A x \in Objects : Held(x)' = Held(x)
    BY <2>1, Frame
  <2> QED
    BY <2>1, <2>2, <2>3, QuietStep DEF SInv
<1>2. CASE DnsProcess
  <2>1. at' = at /\ owned' = owned /\ fault' = fault /\ edge' = edge /\ reading' = reading
    BY <1>2 DEF DnsProcess
  <2>2. ASSUME NEW x \in Objects
        PROVE  st'[x] = st[x] \/ (Kind[x] = "lookup" /\ st[x] = "pending" /\ st'[x] = "answered")
    BY <1>2 DEF DnsProcess
  <2>3. st' \in [Objects -> Places]
    BY <1>2 DEF DnsProcess, SInv, Places, Fired
  <2>4. ASSUME NEW x \in Objects PROVE PlaceOK(x)' /\ Held(x)' = Held(x)
    <3>1. CASE st'[x] = st[x]
      BY <2>1, <3>1, Frame, FramePlace DEF SInv
    <3>2. CASE Kind[x] = "lookup" /\ st[x] = "pending" /\ st'[x] = "answered"
      <4>1. PlaceOK(x)
        BY DEF SInv
      <4> QED
        BY <2>1, <3>2, <4>1 DEF PlaceOK, Fired, Places, Held
    <3> QED
      BY <2>2, <3>1, <3>2
  <2> QED
    BY <2>1, <2>3, <2>4, QuietStep DEF SInv
<1>3. CASE DnsCheck
  <2>1. at' = at /\ edge' = edge /\ reading' = reading
    BY <1>3 DEF DnsCheck
  <2>2. CASE \E o \in Objects :
               /\ Kind[o] = "lookup" /\ st[o] = "answered" /\ st' = [st EXCEPT ![o] = "delivered"]
               /\ Release({<<o, "marshal">>})
    <3>1. PICK o \in Objects :
               /\ Kind[o] = "lookup" /\ st[o] = "answered" /\ st' = [st EXCEPT ![o] = "delivered"]
               /\ Release({<<o, "marshal">>})
      BY <2>2
    <3>2. PlaceOK(o)
      BY DEF SInv
    <3>3. Held(o) = {"marshal"}
      <4>1. Held(o) = Got(o, at[o])
        BY <3>1 DEF Held
      <4>2. at[o] = Len(Calls[o]) \/ at[o] = Len(Calls[o]) - 1
        BY <3>1, <3>2 DEF PlaceOK, Fired
      <4> QED
        BY <3>1, <4>1, <4>2, Finished DEF Full
    <3>4. st'[o] = "delivered"
      BY <3>1 DEF SInv
    <3>5. Held(o)' = {}
      BY <3>1, <3>4 DEF Held
    <3>6. PlaceOK(o)'
      BY <2>1, <3>1, <3>2, <3>4 DEF PlaceOK, Fired, Places
    <3>7. Release(Of(o, {"marshal"}))
      BY <3>1 DEF Of
    <3>8. "delivered" \in Places /\ {"marshal"} \subseteq Yields
      BY DEF Places, Fired, Yields
    <3>9. {"marshal"} \subseteq Held(o) /\ Held(o)' = Held(o) \ {"marshal"}
      BY <3>3, <3>5
    <3> QED
      BY <2>1, <3>1, <3>6, <3>7, <3>8, <3>9, ReleaseStep
  <2>3. CASE UNCHANGED <<st, owned, fault>>
    <3>1. \A x \in Objects : PlaceOK(x)'
      BY <2>1, <2>3, FramePlace DEF SInv
    <3>2. \A x \in Objects : Held(x)' = Held(x)
      BY <2>1, <2>3, Frame
    <3> QED
      BY <2>1, <2>3, <3>1, <3>2, QuietStep DEF SInv
  <2> QED
    BY <1>3, <2>2, <2>3 DEF DnsCheck
<1> QED
  BY <1>1, <1>2, <1>3 DEF Dns

(* The next call of a constructor succeeds: what it yields is owned.        *)
LEMMA CallSucceedsStep ==
    ASSUME SInv, NEW o \in Objects, CallSucceeds(o)
    PROVE  SInv'
<1> DEFINE n == at[o]
           len == Len(Calls[o])
           c == Calls[o][n + 1].call
           new == {c} \cap Yields
           guard == IF Kind[o] = "thread" /\ n + 1 = len THEN Guard ELSE {}
<1>1. PlaceOK(o) /\ n \in 0 .. len - 1 /\ len \in Nat
  BY CallTable DEF SInv, CallSucceeds, MayCall, PlaceOK
<1>2. Exact(o, n) /\ Marked(o, n + 1)
  BY <1>1, CallTable
<1>3. at' = [at EXCEPT ![o] = n + 1] /\ fault' = fault /\ edge' = edge /\ reading' = reading
      /\ st' = [st EXCEPT ![o] = IF st[o] \notin {"none", "building"} THEN st[o]
                                 ELSE IF n + 1 = len \/ c \in {"settime", "submit"} THEN "armed" ELSE "building"]
  BY DEF CallSucceeds
<1>4. at'[o] = n + 1 /\ \A x \in Objects : x # o => at'[x] = at[x] /\ st'[x] = st[x]
  BY <1>3 DEF SInv
<1>5. st'[o] = IF st[o] \notin {"none", "building"} THEN st[o]
               ELSE IF n + 1 = len \/ c \in {"settime", "submit"} THEN "armed" ELSE "building"
  BY <1>3 DEF SInv
<1>6. st[o] \in {"none", "building"} \/
         (Kind[o] \in {"lookup", "timer"} /\ st[o] \in {"armed", "pending", "answered", "delivered"}
             /\ n + 1 = len)
  BY <1>1 DEF CallSucceeds, MayCall, PlaceOK, Fired
<1>7. PlaceOK(o)'
  <2>1. CASE st[o] \in {"none", "building"}
    <3>1. st'[o] = IF n + 1 = len \/ c \in {"settime", "submit"} THEN "armed" ELSE "building"
      BY <1>5, <2>1
    <3>2. c \in {"settime", "submit"} => Kind[o] \in {"timer", "lookup"} /\ n + 1 = len - 1
      BY <1>2 DEF Marked
    <3>3. ~(o \in edge /\ Kind[o] \in {"timer", "connect"})
      BY <1>1, <2>1 DEF PlaceOK
    <3> QED
      BY <1>1, <1>3, <1>4, <3>1, <3>2, <3>3 DEF PlaceOK, Places, Fired
  <2>2. CASE st[o] \in {"armed", "pending", "answered", "delivered"} /\ n + 1 = len
    <3>1. st'[o] = st[o]
      BY <1>5, <2>2
    <3> QED
      BY <1>1, <1>3, <1>4, <2>2, <3>1 DEF PlaceOK, Places, Fired
  <2> QED
    BY <1>6, <2>1, <2>2
<1>8. Held(o)' = (Held(o) \cup new) \ guard
  <2>1. CASE st[o] \in {"none", "building"}
    <3>1. Held(o) = Got(o, n)
      BY <1>1, <2>1, CallTable DEF Held, PlaceOK
    <3>2. Got(o, n + 1) = Held(o) \cup new
      BY <1>2, <3>1 DEF Exact
    <3>3. CASE n + 1 = len
      <4>1. st'[o] = "armed"
        BY <1>5, <2>1, <3>3
      <4>2. Held(o)' = IF Kind[o] = "thread" THEN Got(o, n + 1) \ Guard ELSE Got(o, n + 1)
        BY <1>4, <4>1 DEF Held
      <4> QED
        BY <3>2, <3>3, <4>2
    <3>4. CASE n + 1 # len /\ c \in {"settime", "submit"}
      <4>1. st'[o] = "armed" /\ Kind[o] # "thread"
        BY <1>2, <1>5, <2>1, <3>4 DEF Marked
      <4>2. Held(o)' = Got(o, n + 1)
        BY <1>4, <4>1 DEF Held
      <4> QED
        BY <3>2, <3>4, <4>2
    <3>5. CASE n + 1 # len /\ c \notin {"settime", "submit"}
      <4>1. st'[o] = "building"
        BY <1>5, <2>1, <3>5
      <4>2. Held(o)' = Got(o, n + 1)
        BY <1>4, <4>1 DEF Held
      <4> QED
        BY <3>2, <3>5, <4>2
    <3> QED
      BY <3>3, <3>4, <3>5
  <2>2. CASE Kind[o] \in {"lookup", "timer"} /\ st[o] \in {"armed", "pending", "answered", "delivered"}
        /\ n + 1 = len
    <3>1. st'[o] = st[o] /\ guard = {}
      BY <1>5, <2>2
    <3>2. c \in {"add", "load"}
      BY <1>2, <2>2 DEF Marked
    <3>3. new = {}
      BY <3>2, YieldsTable
    <3>4. Got(o, n + 1) = Got(o, n)
      BY <1>2, <3>3 DEF Exact
    <3>5. Held(o)' = Held(o)
      BY <1>4, <2>2, <3>1, <3>4 DEF Held
    <3> QED
      BY <3>1, <3>3, <3>5
  <2> QED
    BY <1>6, <2>1, <2>2
<1>9. owned' = (owned \cup Of(o, new)) \ Of(o, guard)
  <2>1. Of(o, new) = IF c \in Yields THEN {<<o, c>>} ELSE {}
    BY DEF Of
  <2>2. Of(o, {}) = {}
    BY DEF Of
  <2>3. owned' = IF Kind[o] = "thread" /\ n + 1 = len
                 THEN (owned \cup (IF c \in Yields THEN {<<o, c>>} ELSE {})) \ Of(o, Guard)
                 ELSE owned \cup (IF c \in Yields THEN {<<o, c>>} ELSE {})
    BY DEF CallSucceeds
  <2> QED
    BY <2>1, <2>2, <2>3
<1> HIDE DEF n, len, c, new, guard
<1>10. at' \in [Objects -> Nat] /\ st' \in [Objects -> Places]
  <2>1. n + 1 \in Nat
    BY <1>1
  <2>2. st'[o] \in Places
    BY <1>7 DEF PlaceOK
  <2> QED
    BY <1>3, <1>4, <2>1, <2>2 DEF SInv
<1>11. ASSUME NEW x \in Objects PROVE PlaceOK(x)'
  BY <1>3, <1>4, <1>7, FramePlace DEF SInv
<1>12. ASSUME NEW x \in Objects, NEW r \in Yields PROVE <<x, r>> \in owned' <=> r \in Held(x)'
  <2>1. CASE x = o
    BY <1>8, <1>9, <2>1, OfPair DEF SInv
  <2>2. CASE x # o
    <3>1. Held(x)' = Held(x)
      BY <1>4, <2>2, Frame
    <3> QED
      BY <1>9, <2>2, <3>1, OfPair DEF SInv
  <2> QED
    BY <2>1, <2>2
<1>13. owned' \subseteq Objects \X Yields
  <2>1. Of(o, new) \subseteq Objects \X Yields
    BY OfPairs DEF new
  <2> QED
    BY <1>9, <2>1 DEF SInv
<1> QED
  BY <1>3, <1>10, <1>11, <1>12, <1>13 DEF SInv

(* A thread that runs owns its evhandler and its stack.                      *)
LEMMA ThreadHolds ==
    ASSUME SInv, NEW t \in Threads
    PROVE  t \in Objects /\ Kind[t] = "thread" /\ st[t] = "armed" /\ PlaceOK(t) /\ at[t] = Len(Calls[t])
           /\ Held(t) = {"stack", "evh", "events", "ctldata"}
<1>1. t \in Objects /\ Kind[t] = "thread" /\ st[t] = "armed" /\ PlaceOK(t)
  BY DEF SInv, Threads
<1>2. at[t] = Len(Calls[t])
  BY <1>1 DEF PlaceOK, Fired
<1>3. Held(t) = Full(t) \ Guard
  BY <1>1, <1>2, Finished DEF Held
<1>4. Full(t) \ Guard = {"stack", "evh", "events", "ctldata"}
  BY <1>1 DEF Full, Guard
<1> QED
  BY <1>1, <1>2, <1>3, <1>4

(* The context is released and its threads are reaped, by torque_stop() or  *)
(* when torque_init() fails.                                                *)
LEMMA ReapStep ==
    ASSUME SInv, NEW o \in Objects, Kind[o] = "init", NEW names, NEW place \in Places,
           Release(Of(o, names) \cup Evhandlers), names \subseteq Yields, names \subseteq Held(o), at' = at,
           st' = Reaped([st EXCEPT ![o] = place]), st'[o] = place => Held(o)' = Held(o) \ names,
           st'[o] = place => PlaceOK(o)', edge' \subseteq edge, reading' = reading
    PROVE  SInv'
<1> DEFINE evh == {"evh", "events", "ctldata"}
<1>1. Of(o, names) \cup Evhandlers \subseteq owned
  <2>1. \A r \in names : <<o, r>> \in owned
    BY DEF SInv
  <2>2. ASSUME NEW t \in Threads, NEW r \in evh PROVE <<t, r>> \in owned
    <3>1. t \in Objects /\ r \in Held(t) /\ r \in Yields
      BY ThreadHolds DEF Yields
    <3> QED
      BY <3>1 DEF SInv
  <2>3. Of(o, names) \subseteq owned
    BY <2>1, OfPairs
  <2>4. ASSUME NEW p \in Evhandlers PROVE p \in owned
    <3>1. \E t \in Threads : \E r \in evh : p = <<t, r>>
      BY EvhandlersPairs
    <3> QED
      BY <2>2, <3>1
  <2> QED
    BY <2>3, <2>4
<1>2. fault' = FALSE /\ owned' = owned \ (Of(o, names) \cup Evhandlers)
  BY <1>1, Released DEF SInv
<1>3. o \notin Threads
  BY DEF Threads
<1>4. \A x \in Objects : st'[x] = IF x \in Threads THEN "stopped" ELSE IF x = o THEN place ELSE st[x]
  BY DEF Reaped, SInv
<1>5. st' = [x \in Objects |-> IF x \in Threads THEN "stopped" ELSE [st EXCEPT ![o] = place][x]]
  BY DEF Reaped
<1>6. at' \in [Objects -> Nat] /\ st' \in [Objects -> Places]
  BY <1>5 DEF SInv, Places
<1>7. PlaceOK(o)' /\ Held(o)' = Held(o) \ names
  BY <1>3, <1>4
<1>8. ASSUME NEW x \in Objects PROVE PlaceOK(x)'
  <2>1. CASE x = o
    BY <1>7, <2>1
  <2>2. CASE x \in Threads
    <3>1. PlaceOK(x) /\ Kind[x] = "thread" /\ at[x] = Len(Calls[x]) /\ st'[x] = "stopped"
      BY <1>4, <2>2, ThreadHolds
    <3> QED
      BY <3>1 DEF PlaceOK, Places, Fired
  <2>3. CASE x # o /\ x \notin Threads
    <3>1. st'[x] = st[x] /\ PlaceOK(x)
      BY <1>4, <2>3 DEF SInv
    <3> QED
      BY <3>1, FramePlace
  <2> QED
    BY <2>1, <2>2, <2>3
<1>9. ASSUME NEW x \in Objects, NEW r \in Yields PROVE <<x, r>> \in owned' <=> r \in Held(x)'
  <2>1. <<x, r>> \in owned <=> r \in Held(x)
    BY DEF SInv
  <2>2. <<x, r>> \in owned' <=> r \in Held(x) /\ ~(x = o /\ r \in names) /\ ~(x \in Threads /\ r \in evh)
    BY <1>2, <2>1, OfPair, EvhandlersPair
  <2>3. CASE x = o
    BY <1>3, <1>7, <2>2, <2>3
  <2>4. CASE x \in Threads
    <3>1. Held(x) = {"stack", "evh", "events", "ctldata"} /\ Kind[x] = "thread" /\ st'[x] = "stopped"
      BY <1>4, <2>4, ThreadHolds
    <3>2. Held(x)' = {"stack"}
      BY <3>1 DEF Held
    <3>3. x # o
      BY <1>3, <2>4
    <3> QED
      BY <2>2, <2>4, <3>1, <3>2, <3>3
  <2>5. CASE x # o /\ x \notin Threads
    <3>1. Held(x)' = Held(x)
      BY <1>4, <2>5, Frame
    <3> QED
      BY <2>2, <2>5, <3>1
  <2> QED
    BY <2>3, <2>4, <2>5
<1>10. owned' \subseteq Objects \X Yields
  BY <1>2 DEF SInv
<1> QED
  BY <1>2, <1>6, <1>8, <1>9, <1>10 DEF SInv

(* torque_stop(): everything of the context is released.                    *)
LEMMA TorqueStopStep ==
    ASSUME SInv, TorqueStop
    PROVE  SInv'
<1>1. ctx \in Objects /\ Kind[ctx] = "init"
  BY SourcesAssumption DEF ctx
<1>2. PlaceOK(ctx) /\ st[ctx] = "armed"
  BY <1>1 DEF SInv, TorqueStop, Running
<1>3. at[ctx] = Len(Calls[ctx])
  BY <1>1, <1>2 DEF PlaceOK, Fired
<1>4. Held(ctx) = Context
  BY <1>1, <1>2, <1>3, Finished DEF Held, Full
<1>5. at' = at /\ edge' = edge /\ reading' = reading /\ st' = Reaped([st EXCEPT ![ctx] = "stopped"])
      /\ Release(Of(ctx, Context) \cup Evhandlers)
  BY DEF TorqueStop
<1>6. ASSUME st'[ctx] = "stopped" PROVE PlaceOK(ctx)' /\ Held(ctx)' = Held(ctx) \ Context
  <2>1. Held(ctx)' = {}
    BY <1>1, <1>6 DEF Held
  <2>2. PlaceOK(ctx)'
    BY <1>1, <1>2, <1>5, <1>6 DEF PlaceOK, Places, Fired
  <2> QED
    BY <1>4, <2>1, <2>2
<1>7. "stopped" \in Places /\ Context \subseteq Yields /\ Context \subseteq Held(ctx)
  BY <1>4 DEF Places, Yields
<1> QED
  BY <1>1, <1>5, <1>6, <1>7, ReapStep

(* The next call fails: its error path releases what is there.              *)
LEMMA CallFailsStep ==
    ASSUME Tame, SInv, NEW o \in Objects, CallFails(o)
    PROVE  SInv'
<1> DEFINE n == at[o]
           len == Len(Calls[o])
           c == Calls[o][n + 1]
           reaps == c.call = "arch" \/ (Kind[o] = "init" /\ c.call = "unmask")
<1>1. PlaceOK(o) /\ n \in 0 .. len - 1 /\ len \in Nat
  BY CallTable DEF SInv, CallFails, MayCall, PlaceOK
<1>2. Exact(o, n) /\ Marked(o, n + 1)
  BY <1>1, CallTable
<1>3. at' = at /\ edge' = edge \ {o} /\ reading' = reading
      /\ Release(Of(o, c.undo) \cup (IF reaps THEN Evhandlers ELSE {}))
      /\ st' = IF reaps THEN Reaped([st EXCEPT ![o] = "failed"]) ELSE [st EXCEPT ![o] = "failed"]
  BY DEF CallFails
<1>4. st[o] \in {"none", "building"} \/ (Kind[o] = "timer" /\ st[o] \in {"armed", "pending", "answered"})
  <2>1. CASE st[o] \in {"none", "building"}
    BY <2>1
  <2>2. CASE Kind[o] \in {"lookup", "timer"} /\ st[o] \in {"armed", "pending", "answered", "delivered"}
    <3>1. n + 1 = len /\ (Kind[o] = "timer" => st[o] # "delivered")
      BY <1>1, <2>2 DEF PlaceOK, Fired
    <3>2. Kind[o] # "lookup"
      BY <1>2, <3>1 DEF Marked, CallFails, Tame
    <3> QED
      BY <2>2, <3>1, <3>2
  <2> QED
    BY <2>1, <2>2 DEF CallFails, MayCall
<1>5. Held(o) = Got(o, n)
  BY <1>1, <1>4, CallTable DEF Held, PlaceOK
<1>6. Held(o) = c.undo \cup Left(o, n + 1) /\ c.undo \cap Left(o, n + 1) = {} /\ Held(o) \subseteq Yields
  BY <1>1, <1>2, <1>5 DEF Got, Exact
<1>7. ASSUME st'[o] = "failed" PROVE PlaceOK(o)' /\ Held(o)' = Held(o) \ c.undo
  <2>1. Held(o)' = Left(o, n + 1)
    BY <1>3, <1>7 DEF Held
  <2>2. PlaceOK(o)'
    BY <1>1, <1>3, <1>7 DEF PlaceOK, Places, Fired
  <2> QED
    BY <1>6, <2>1, <2>2
<1>8. "failed" \in Places /\ c.undo \subseteq Yields /\ c.undo \subseteq Held(o)
  BY <1>6 DEF Places
<1>9. CASE reaps
  <2>1. Kind[o] = "init"
    BY <1>2, <1>9 DEF Marked
  <2>2. Release(Of(o, c.undo) \cup Evhandlers) /\ st' = Reaped([st EXCEPT ![o] = "failed"])
        /\ edge' \subseteq edge
    BY <1>3, <1>9
  <2> HIDE DEF c, n, len, reaps
  <2> QED
    BY <1>3, <1>7, <1>8, <2>1, <2>2, ReapStep
<1>10. CASE ~reaps
  <2>1. Of(o, c.undo) \cup {} = Of(o, c.undo)
    OBVIOUS
  <2>2. Release(Of(o, c.undo)) /\ st' = [st EXCEPT ![o] = "failed"]
    BY <1>3, <1>10, <2>1
  <2>3. st'[o] = "failed"
    BY <2>2 DEF SInv
  <2> HIDE DEF c, n, len, reaps
  <2> QED
    BY <1>3, <1>7, <1>8, <2>2, <2>3, ReleaseStep
<1> QED
  BY <1>9, <1>10

(* Every step keeps the invariant.                                           *)
LEMMA SourcesNext ==
    ASSUME Tame, SInv, [Next]_vars
    PROVE  SInv'
<1>1. CASE UNCHANGED vars
  <2>1. at' = at /\ st' = st /\ owned' = owned /\ fault' = fault /\ edge' = edge /\ reading' = reading
    BY <1>1 DEF vars
  <2>2. \A x \in Objects : PlaceOK(x)'
    BY <2>1, FramePlace DEF SInv
  <2>3. \A x \in Objects : Held(x)' = Held(x)
    BY <2>1, Frame
  <2> QED
    BY <2>1, <2>2, <2>3, QuietStep DEF SInv
<1>2. CASE Dns
  BY <1>2, DnsStep
<1>3. CASE TorqueStop
  BY <1>3, TorqueStopStep
<1>4. ASSUME NEW o \in Objects, CallSucceeds(o) \/ CallFails(o) \/ Happens(o) \/ Handle(o) \/ StopSsl(o)
      PROVE  SInv'
  BY <1>4, CallSucceedsStep, CallFailsStep, HappensStep, TimerEventStep, ConnectEventStep, SignalEventStep,
     ReadSignalStep, StopSslStep DEF Handle
<1> QED
  BY <1>1, <1>2, <1>3, <1>4 DEF Next

(* If no timer has an interval, no signal has the number SIGRTMAX and       *)
(* load_dns_fds() does not fail under a query that is out already: whatever *)
(* objects clients register, whichever other call of a constructor fails    *)
(* and however events race the constructors, the library releases nothing   *)
(* twice, uses nothing it has released, and every error path leaves only    *)
(* the leaks that Leaked() lists.                                           *)
THEOREM Ownership ==
    ASSUME Tame
    PROVE  Spec => []OwnedOnce
<1>1. Init => SInv
  BY SourcesInit
<1>2. SInv /\ [Next]_vars => SInv'
  BY SourcesNext
<1>3. SInv => OwnedOnce
  BY SourcesSafe
<1> QED
  BY <1>1, <1>2, <1>3, PTL DEF Spec
=============================================================================
