------------------------- MODULE ReportColumns_proofs ------------------------
(***************************************************************************)
(* The columns of every row are those of its header, on every machine and  *)
(* in every format.  Both are flattened lists, made in loops of their own, *)
(* so the proofs count up the lists: what holds of the first and of each   *)
(* next one holds of all.                                                  *)
(***************************************************************************)
EXTENDS Report, SequenceTheorems, WellFoundedInduction, TLAPS

LEMMA Sizes ==
  ASSUME socket_id \in Machines
  PROVE  /\ count \in Nat \ {0} /\ num_packages \in Nat \ {0}
         /\ \A form : Parts(form) \in Nat \ {0}
<1>1. socket_id \in Seq(Nat) /\ Len(socket_id) > 0
  BY ReportOK
<1> QED
  BY <1>1 DEF count, num_packages, Parts

\* What holds of 1, and of k + 1 when it holds of k, holds up to n.
LEMMA CountUp ==
  ASSUME NEW n \in Nat, NEW P, 1 \in P, \A k \in 1 .. n - 1 : k \in P => k + 1 \in P
  PROVE  1 .. n \subseteq P
<1> DEFINE R == {p \in Nat \X Nat : p[1] < p[2]}
           Lacks == {k \in 1 .. n : k \notin P}
<1>1. IsWellFoundedOn(R, Nat)
  BY NatLessThanWellFounded, Zenon DEF OpToRel
<1>2. \A k, m \in Nat : k < m => <<k, m>> \in R
  OBVIOUS
<1> HIDE DEF R
<1>3. SUFFICES ASSUME Lacks # {} PROVE FALSE
  OBVIOUS
<1>4. PICK m \in Lacks : \A k \in Lacks : <<k, m>> \notin R
  <2>1. Lacks \subseteq Nat
    OBVIOUS
  <2> HIDE DEF Lacks
  <2> QED
    BY <1>1, <1>3, <2>1, WFMin, Zenon
<1>5. m - 1 \in 1 .. n - 1 /\ m - 1 \notin Lacks
  <2>1. m \in 1 .. n /\ m \notin P /\ m # 1
    BY <1>4
  <2> HIDE DEF Lacks
  <2>2. m - 1 \in 1 .. n - 1 /\ <<m - 1, m>> \in R
    BY <1>2, <2>1
  <2> QED
    BY <1>4, <2>2
<1> QED
  <2>1. m \in 1 .. n /\ m \notin P /\ m - 1 \in P /\ m - 1 + 1 = m
    BY <1>4, <1>5
  <2> QED
    BY <1>5, <2>1

\* What FlattenSeq does, without the recursion.
Joins(f, seqs, m) == \A k \in 1 .. m : f[k] = IF k = 1 THEN seqs[k] ELSE f[k - 1] \o seqs[k]
Joined(S, seqs, m) == \E f \in [1 .. m -> Seq(S)] : Joins(f, seqs, m)

LEMMA JoinMore ==
  ASSUME NEW S, NEW seqs, NEW m \in Nat \ {0}, Joined(S, seqs, m), seqs[m + 1] \in Seq(S)
  PROVE  Joined(S, seqs, m + 1)
<1>1. PICK f \in [1 .. m -> Seq(S)] : Joins(f, seqs, m)
  BY DEF Joined
<1> DEFINE last == f[m] \o seqs[m + 1]
           g == [k \in 1 .. m + 1 |-> IF k = m + 1 THEN last ELSE f[k]]
<1>2. last \in Seq(S) /\ f[m] = f[m + 1 - 1]
  OBVIOUS
<1> HIDE DEF last
<1>3. g \in [1 .. m + 1 -> Seq(S)]
  BY <1>2
<1>4. g[m + 1] = last /\ \A k \in 1 .. m : g[k] = f[k]
  OBVIOUS
<1> HIDE DEF g
<1>5. Joins(g, seqs, m + 1)
  <2> SUFFICES ASSUME NEW k \in 1 .. m + 1
               PROVE  g[k] = IF k = 1 THEN seqs[k] ELSE g[k - 1] \o seqs[k]
    BY DEF Joins
  <2>1. CASE k = m + 1
    <3>1. k # 1 /\ k - 1 = m /\ m \in 1 .. m
      BY <2>1
    <3>2. g[k] = last /\ g[m] = f[m]
      BY <1>4, <2>1, <3>1
    <3>3. last = f[m] \o seqs[k]
      BY <2>1 DEF last
    <3> QED
      BY <3>1, <3>2, <3>3
  <2>2. CASE k \in 1 .. m
    <3>1. f[k] = IF k = 1 THEN seqs[k] ELSE f[k - 1] \o seqs[k]
      BY <1>1, <2>2 DEF Joins
    <3>2. g[k] = f[k] /\ (k # 1 => g[k - 1] = f[k - 1])
      BY <1>4, <2>2
    <3> QED
      BY <3>1, <3>2
  <2> QED
    BY <2>1, <2>2
<1> QED
  BY <1>3, <1>5 DEF Joined

LEMMA JoinAll ==
  ASSUME NEW S, NEW seqs \in Seq(Seq(S)), Len(seqs) > 0
  PROVE  Joined(S, seqs, Len(seqs))
<1> DEFINE N == Len(seqs)
           P == {m \in 1 .. N : Joined(S, seqs, m)}
<1>1. N \in Nat /\ N > 0 /\ \A k \in 1 .. N : seqs[k] \in Seq(S)
  OBVIOUS
<1> HIDE DEF N
<1>2. Joined(S, seqs, 1)
  <2> DEFINE f == [k \in 1 .. 1 |-> seqs[1]]
  <2>1. f \in [1 .. 1 -> Seq(S)] /\ Joins(f, seqs, 1)
    BY <1>1 DEF Joins
  <2> QED
    BY <2>1 DEF Joined
<1>3. ASSUME NEW k \in 1 .. N - 1, Joined(S, seqs, k) PROVE Joined(S, seqs, k + 1)
  BY <1>1, <1>3, JoinMore
<1>4. 1 .. N \subseteq P
  <2>1. 1 \in P /\ \A k \in 1 .. N - 1 : k \in P => k + 1 \in P
    BY <1>1, <1>2, <1>3
  <2> HIDE DEF P
  <2> QED
    BY <1>1, <2>1, CountUp
<1>5. N \in P
  BY <1>1, <1>4
<1> QED
  BY <1>5 DEF N

LEMMA OneJoin ==
  ASSUME NEW n \in Nat \ {0}, NEW seqs, NEW f, NEW g, Joins(f, seqs, n), Joins(g, seqs, n)
  PROVE  f[n] = g[n]
<1> DEFINE P == {k \in 1 .. n : f[k] = g[k]}
<1>1. f[1] = g[1]
  BY DEF Joins
<1>2. ASSUME NEW k \in 1 .. n - 1, f[k] = g[k] PROVE f[k + 1] = g[k + 1]
  <2>1. k + 1 \in 1 .. n /\ k + 1 # 1 /\ k + 1 - 1 = k
    OBVIOUS
  <2> QED
    BY <1>2, <2>1 DEF Joins
<1>3. 1 \in P /\ \A k \in 1 .. n - 1 : k \in P => k + 1 \in P
  BY <1>1, <1>2
<1>4. 1 .. n \subseteq P
  <2> HIDE DEF P
  <2> QED
    BY <1>3, CountUp
<1> QED
  BY <1>4

LEMMA FlattenJoins ==
  ASSUME NEW S, NEW seqs \in Seq(Seq(S)), NEW n \in Nat \ {0}, n = Len(seqs)
  PROVE  \E f \in [1 .. n -> Seq(S)] : Joins(f, seqs, n) /\ FlattenSeq(seqs) = f[n]
<1> DEFINE Fits(f) == f = [k \in 1 .. n |-> IF k = 1 THEN seqs[k] ELSE f[k - 1] \o seqs[k]]
           flatten == CHOOSE f : Fits(f)
<1>2. FlattenSeq(seqs) = flatten[n]
  BY DEF FlattenSeq
<1>3. PICK f \in [1 .. n -> Seq(S)] : Joins(f, seqs, n)
  BY JoinAll DEF Joined
<1>4. Fits(f)
  BY <1>3 DEF Joins
<1>5. Fits(flatten)
  BY <1>4
<1> HIDE DEF flatten
<1>6. \A g : Fits(g) => Joins(g, seqs, n)
  BY DEF Joins
<1>7. flatten[n] = f[n]
  <2> HIDE DEF Fits
  <2> QED
    BY <1>3, <1>5, <1>6, OneJoin
<1> QED
  BY <1>2, <1>3, <1>7

(***************************************************************************)
(* Titles of columns.                                                      *)
(***************************************************************************)
TitledOne(c) == [name |-> Title(c.name), dimm |-> c.dimm]
AllTitled(S) == {TitledOne(c) : c \in S}

LEMMA TitledFits ==
  ASSUME NEW S, NEW s \in Seq(S)
  PROVE  /\ Titled(s) \in Seq(AllTitled(S)) /\ Len(Titled(s)) = Len(s)
         /\ \A k \in 1 .. Len(s) : Titled(s)[k] = TitledOne(s[k])
<1>1. Titled(s) = [k \in 1 .. Len(s) |-> TitledOne(s[k])]
  BY DEF Titled, TitledOne
<1>2. \A k \in 1 .. Len(s) : TitledOne(s[k]) \in AllTitled(S)
  BY DEF AllTitled
<1> QED
  BY <1>1, <1>2

LEMMA TitledConcat ==
  ASSUME NEW S, NEW s \in Seq(S), NEW t \in Seq(S)
  PROVE  Titled(s \o t) = Titled(s) \o Titled(t)
<1> DEFINE U == AllTitled(S)
           left == Titled(s \o t)
           right == Titled(s) \o Titled(t)
<1>1. /\ s \o t \in Seq(S) /\ Len(s \o t) = Len(s) + Len(t)
      /\ \A k \in 1 .. Len(s) + Len(t) :
           (s \o t)[k] = IF k <= Len(s) THEN s[k] ELSE t[k - Len(s)]
  OBVIOUS
<1>2. /\ left \in Seq(U) /\ Len(left) = Len(s) + Len(t)
      /\ \A k \in 1 .. Len(s) + Len(t) : left[k] = TitledOne((s \o t)[k])
  BY <1>1, TitledFits
<1>3. /\ Titled(s) \in Seq(U) /\ Len(Titled(s)) = Len(s)
      /\ Titled(t) \in Seq(U) /\ Len(Titled(t)) = Len(t)
  BY TitledFits
<1>4. /\ right \in Seq(U) /\ Len(right) = Len(s) + Len(t)
      /\ \A k \in 1 .. Len(s) + Len(t) :
           right[k] = IF k <= Len(s) THEN Titled(s)[k] ELSE Titled(t)[k - Len(s)]
  BY <1>3
<1> HIDE DEF U, left, right
<1>5. ASSUME NEW k \in 1 .. Len(s) + Len(t) PROVE left[k] = right[k]
  <2>1. CASE k <= Len(s)
    <3>1. k \in 1 .. Len(s)
      BY <2>1
    <3> QED
      BY <1>1, <1>2, <1>4, <2>1, <3>1, TitledFits
  <2>2. CASE k > Len(s)
    <3>1. k - Len(s) \in 1 .. Len(t) /\ ~(k <= Len(s))
      BY <2>2
    <3>2. Titled(t)[k - Len(s)] = TitledOne(t[k - Len(s)])
      BY <3>1, TitledFits
    <3> QED
      BY <1>1, <1>2, <1>4, <3>1, <3>2
  <2> QED
    BY <2>1, <2>2
<1>6. left = right
  BY <1>2, <1>4, <1>5, SeqEqual
<1> QED
  BY <1>6 DEF left, right

LEMMA TitledFlatten ==
  ASSUME NEW S, NEW seqs \in Seq(Seq(S)), NEW n \in Nat \ {0}, n = Len(seqs)
  PROVE  Titled(FlattenSeq(seqs)) = FlattenSeq([k \in 1 .. n |-> Titled(seqs[k])])
<1> DEFINE U == AllTitled(S)
           titles == [k \in 1 .. n |-> Titled(seqs[k])]
<1>1. \A k \in 1 .. n : seqs[k] \in Seq(S) /\ titles[k] = Titled(seqs[k]) /\ titles[k] \in Seq(U)
  BY TitledFits
<1>2. titles \in Seq(Seq(U)) /\ Len(titles) = n
  BY <1>1
<1> HIDE DEF titles, U
<1>3. PICK f \in [1 .. n -> Seq(S)] : Joins(f, seqs, n) /\ FlattenSeq(seqs) = f[n]
  BY FlattenJoins
<1>4. PICK g \in [1 .. n -> Seq(U)] : Joins(g, titles, n) /\ FlattenSeq(titles) = g[n]
  BY <1>2, FlattenJoins
<1> DEFINE h == [k \in 1 .. n |-> Titled(f[k])]
<1>5. Joins(h, titles, n)
  <2> SUFFICES ASSUME NEW k \in 1 .. n
               PROVE  h[k] = IF k = 1 THEN titles[k] ELSE h[k - 1] \o titles[k]
    BY DEF Joins
  <2>1. CASE k = 1
    BY <1>1, <1>3, <2>1 DEF Joins
  <2>2. CASE k # 1
    <3>1. f[k] = IF k = 1 THEN seqs[k] ELSE f[k - 1] \o seqs[k]
      BY <1>3, Zenon DEF Joins
    <3>2. f[k] = f[k - 1] \o seqs[k]
      BY <2>2, <3>1, Zenon
    <3>3. k - 1 \in 1 .. n
      BY <2>2
    <3>4. h[k] = Titled(f[k]) /\ h[k - 1] = Titled(f[k - 1]) /\ titles[k] = Titled(seqs[k])
          /\ f[k - 1] \in Seq(S) /\ seqs[k] \in Seq(S)
      BY <1>1, <3>3
    <3> HIDE DEF h
    <3>5. Titled(f[k - 1] \o seqs[k]) = Titled(f[k - 1]) \o Titled(seqs[k])
      BY <3>4, TitledConcat
    <3>6. Titled(f[k]) = Titled(f[k - 1]) \o Titled(seqs[k])
      BY <3>2, <3>5, Zenon
    <3>7. h[k] = h[k - 1] \o titles[k]
      BY <3>4, <3>6
    <3> QED
      BY <2>2, <3>7
  <2> QED
    BY <2>1, <2>2
<1>6. h[n] = g[n]
  <2> HIDE DEF h
  <2> QED
    BY <1>4, <1>5, OneJoin
<1> QED
  BY <1>3, <1>4, <1>6 DEF titles

(***************************************************************************)
(* The columns of a row, with their titles, are those of its header.       *)
(***************************************************************************)
NamesOf(names) == {names[k] : k \in DOMAIN names}
Column(N) == [name : N, dimm : Int]
Entitles(names, titles, n) ==
  /\ DOMAIN names = 1 .. n /\ DOMAIN titles = 1 .. n
  /\ \A k \in 1 .. n : titles[k] = Title(names[k])

LEMMA TitlesKnown ==
  /\ Title("total_bytes_read") = "bytes_read (derived)"
  /\ Title("total_bytes_written") = "bytes_written (derived)"
  /\ Title("media_read") = "media_read_ops (derived)"
  /\ Title("media_write") = "media_write_ops (derived)"
  /\ Title("read_hit_ratio") = "read_hit_ratio (derived)"
  /\ Title("write_hit_ratio") = "write_hit_ratio (derived)"
  /\ Title("bytes_read") = "read_64B_ops_received"
  /\ Title("bytes_written") = "write_64B_ops_received"
  /\ Title("host_reads") = "cpu_read_ops" /\ Title("host_writes") = "cpu_write_ops"
  /\ Title("percentage_used") = "lifespan_used"
  /\ Title("percentage_remaining") = "lifespan_remaining"
  BY DEF Title, TitleOf

LEMMA TitlesLeft ==
  \A name \in {"health_status", "power_on_time", "uptime", "last_shutdown_time", "media_temp",
               "controller_temp", "max_media_temp", "max_controller_temp"} : Title(name) = name
  BY DEF Title, TitleOf

MediaTitles ==
  <<"bytes_read (derived)", "bytes_written (derived)",
    "media_read_ops (derived)", "media_write_ops (derived)">>
BufferTitles == <<"read_hit_ratio (derived)", "write_hit_ratio (derived)">>
ControllerTitles == <<"read_64B_ops_received", "write_64B_ops_received">>
CPUTitles == <<"cpu_read_ops", "cpu_write_ops">>

LEMMA OneEntitled == Entitles(OneRow, OneTitles, 10)
<1>1. /\ OneTitles[1] = Title(OneRow[1])
      /\ OneTitles[2] = Title(OneRow[2])
      /\ OneTitles[3] = Title(OneRow[3])
      /\ OneTitles[4] = Title(OneRow[4])
      /\ OneTitles[5] = Title(OneRow[5])
  BY TitlesKnown DEF OneRow, OneTitles
<1>2. /\ OneTitles[6] = Title(OneRow[6])
      /\ OneTitles[7] = Title(OneRow[7])
      /\ OneTitles[8] = Title(OneRow[8])
      /\ OneTitles[9] = Title(OneRow[9])
      /\ OneTitles[10] = Title(OneRow[10])
  BY TitlesKnown DEF OneRow, OneTitles
<1>3. DOMAIN OneRow = 1 .. 10 /\ DOMAIN OneTitles = 1 .. 10
  BY DEF OneRow, OneTitles
<1>4. \A k \in 1 .. 10 : k = 1 \/ k = 2 \/ k = 3 \/ k = 4 \/ k = 5
          \/ k = 6 \/ k = 7 \/ k = 8 \/ k = 9 \/ k = 10
  OBVIOUS
<1> QED
  BY <1>1, <1>2, <1>3, <1>4 DEF Entitles

LEMMA HealthEntitled == Entitles(HealthRow, HealthTitles, 10)
<1>1. /\ HealthTitles[1] = Title(HealthRow[1])
      /\ HealthTitles[2] = Title(HealthRow[2])
      /\ HealthTitles[3] = Title(HealthRow[3])
      /\ HealthTitles[4] = Title(HealthRow[4])
      /\ HealthTitles[5] = Title(HealthRow[5])
  BY TitlesKnown, TitlesLeft DEF HealthRow, HealthTitles
<1>2. /\ HealthTitles[6] = Title(HealthRow[6])
      /\ HealthTitles[7] = Title(HealthRow[7])
      /\ HealthTitles[8] = Title(HealthRow[8])
      /\ HealthTitles[9] = Title(HealthRow[9])
      /\ HealthTitles[10] = Title(HealthRow[10])
  BY TitlesKnown, TitlesLeft DEF HealthRow, HealthTitles
<1>3. DOMAIN HealthRow = 1 .. 10 /\ DOMAIN HealthTitles = 1 .. 10
  BY DEF HealthRow, HealthTitles
<1>4. \A k \in 1 .. 10 : k = 1 \/ k = 2 \/ k = 3 \/ k = 4 \/ k = 5
          \/ k = 6 \/ k = 7 \/ k = 8 \/ k = 9 \/ k = 10
  OBVIOUS
<1> QED
  BY <1>1, <1>2, <1>3, <1>4 DEF Entitles

LEMMA MediaEntitled == Entitles(Media, MediaTitles, 4)
<1>1. /\ MediaTitles[1] = Title(Media[1])
      /\ MediaTitles[2] = Title(Media[2])
      /\ MediaTitles[3] = Title(Media[3])
      /\ MediaTitles[4] = Title(Media[4])
  BY TitlesKnown DEF Media, MediaTitles
<1>2. DOMAIN Media = 1 .. 4 /\ DOMAIN MediaTitles = 1 .. 4
  BY DEF Media, MediaTitles
<1>3. \A k \in 1 .. 4 : k = 1 \/ k = 2 \/ k = 3 \/ k = 4
  OBVIOUS
<1> QED
  BY <1>1, <1>2, <1>3 DEF Entitles

LEMMA BufferEntitled == Entitles(Buffer, BufferTitles, 2)
<1>1. /\ BufferTitles[1] = Title(Buffer[1])
      /\ BufferTitles[2] = Title(Buffer[2])
  BY TitlesKnown DEF Buffer, BufferTitles
<1>2. DOMAIN Buffer = 1 .. 2 /\ DOMAIN BufferTitles = 1 .. 2
  BY DEF Buffer, BufferTitles
<1>3. \A k \in 1 .. 2 : k = 1 \/ k = 2
  OBVIOUS
<1> QED
  BY <1>1, <1>2, <1>3 DEF Entitles

LEMMA ControllerEntitled == Entitles(Controller, ControllerTitles, 2)
<1>1. /\ ControllerTitles[1] = Title(Controller[1])
      /\ ControllerTitles[2] = Title(Controller[2])
  BY TitlesKnown DEF Controller, ControllerTitles
<1>2. DOMAIN Controller = 1 .. 2 /\ DOMAIN ControllerTitles = 1 .. 2
  BY DEF Controller, ControllerTitles
<1>3. \A k \in 1 .. 2 : k = 1 \/ k = 2
  OBVIOUS
<1> QED
  BY <1>1, <1>2, <1>3 DEF Entitles

LEMMA CPUEntitled == Entitles(CPU, CPUTitles, 2)
<1>1. /\ CPUTitles[1] = Title(CPU[1])
      /\ CPUTitles[2] = Title(CPU[2])
  BY TitlesKnown DEF CPU, CPUTitles
<1>2. DOMAIN CPU = 1 .. 2 /\ DOMAIN CPUTitles = 1 .. 2
  BY DEF CPU, CPUTitles
<1>3. \A k \in 1 .. 2 : k = 1 \/ k = 2
  OBVIOUS
<1> QED
  BY <1>1, <1>2, <1>3 DEF Entitles

LEMMA DimmTitled ==
  ASSUME NEW names, NEW titles, NEW n \in Nat, Entitles(names, titles, n),
         NEW N, NamesOf(names) \subseteq N, NEW d \in Int
  PROVE  /\ OfDimm(names, d) \in Seq(Column(N))
         /\ Titled(OfDimm(names, d)) = OfDimm(titles, d)
<1>1. /\ DOMAIN names = 1 .. n /\ DOMAIN titles = 1 .. n
      /\ \A k \in 1 .. n : names[k] \in N /\ titles[k] = Title(names[k])
  BY DEF Entitles, NamesOf
<1>2. /\ OfDimm(names, d) = [k \in 1 .. n |-> [name |-> names[k], dimm |-> d]]
      /\ OfDimm(titles, d) = [k \in 1 .. n |-> [name |-> titles[k], dimm |-> d]]
  BY <1>1 DEF OfDimm
<1>3. OfDimm(names, d) \in Seq(Column(N))
  BY <1>1, <1>2 DEF Column
<1>4. /\ \A k \in 1 .. n :
           OfDimm(names, d)[k].name = names[k] /\ OfDimm(names, d)[k].dimm = d
      /\ DOMAIN OfDimm(names, d) = 1 .. n
  BY <1>1, <1>2
<1>5. Titled(OfDimm(names, d)) = [k \in 1 .. n |-> [name |-> Title(names[k]), dimm |-> d]]
  BY <1>4 DEF Titled
<1>6. OfDimm(titles, d) = [k \in 1 .. n |-> [name |-> Title(names[k]), dimm |-> d]]
  BY <1>1, <1>2
<1> QED
  BY <1>3, <1>5, <1>6

LEMMA DimmsTitled ==
  ASSUME socket_id \in Machines, NEW names, NEW titles,
         NEW n \in Nat, Entitles(names, titles, n)
  PROVE  Titled(OfDimms(names)) = OfDimms(titles)
<1> DEFINE seqs == [d \in 1 .. count |-> OfDimm(names, d)]
<1>1. count \in Nat \ {0} /\ \A d \in 1 .. count : d \in Int
  BY Sizes
<1>2. \A d \in 1 .. count : OfDimm(names, d) \in Seq(Column(NamesOf(names)))
                            /\ Titled(OfDimm(names, d)) = OfDimm(titles, d)
  BY <1>1, DimmTitled
<1>3. seqs \in Seq(Seq(Column(NamesOf(names)))) /\ Len(seqs) = count
  BY <1>1, <1>2
<1>4. Titled(FlattenSeq(seqs)) = FlattenSeq([k \in 1 .. count |-> Titled(seqs[k])])
  <2> HIDE DEF seqs
  <2> QED
    BY <1>1, <1>3, TitledFlatten
<1>5. [k \in 1 .. count |-> Titled(seqs[k])] = [d \in 1 .. count |-> OfDimm(titles, d)]
  BY <1>2
<1> QED
  BY <1>4, <1>5 DEF OfDimms

LEMMA PackageTitled ==
  ASSUME socket_id \in Machines, NEW names, NEW titles,
         NEW n \in Nat, Entitles(names, titles, n),
         NEW N, NamesOf(names) \subseteq N, NEW p
  PROVE  /\ OfPackage(names, p) \in Seq(Column(N))
         /\ Titled(OfPackage(names, p)) = OfPackage(titles, p)
<1> DEFINE part(list, d) == IF socket_id[d] = p THEN OfDimm(list, d) ELSE <<>>
           seqs == [d \in 1 .. count |-> part(names, d)]
<1>1. count \in Nat \ {0} /\ \A d \in 1 .. count : d \in Int
  BY Sizes
<1>2. <<>> \in Seq(Column(N)) /\ Titled(<<>>) = <<>>
  BY DEF Titled
<1>3. \A d \in 1 .. count : part(names, d) \in Seq(Column(N))
                            /\ Titled(part(names, d)) = part(titles, d)
  BY <1>1, <1>2, DimmTitled
<1> HIDE DEF part
<1>4. seqs \in Seq(Seq(Column(N))) /\ Len(seqs) = count
  BY <1>1, <1>3
<1>5. Titled(FlattenSeq(seqs)) = FlattenSeq([k \in 1 .. count |-> Titled(seqs[k])])
  <2> HIDE DEF seqs
  <2> QED
    BY <1>1, <1>4, TitledFlatten
<1>6. [k \in 1 .. count |-> Titled(seqs[k])] = [d \in 1 .. count |-> part(titles, d)]
  BY <1>3
<1>7. FlattenSeq(seqs) \in Seq(Column(N))
  <2> HIDE DEF seqs
  <2> QED
    BY <1>1, <1>4, FlattenJoins
<1> QED
  BY <1>5, <1>6, <1>7 DEF OfPackage, part

\* The four groups of a package, in a row and in the header.
MetricNames == NamesOf(Media) \cup NamesOf(Buffer) \cup NamesOf(Controller) \cup NamesOf(CPU)
Group(p) == [m \in DOMAIN Metric |-> OfPackage(Metric[m], p)]

LEMMA GroupTitled ==
  ASSUME socket_id \in Machines, NEW p
  PROVE  /\ FlattenSeq(Group(p)) \in Seq(Column(MetricNames))
         /\ Titled(FlattenSeq(Group(p))) = HeaderOfPackage(p)
<1> DEFINE C == Column(MetricNames)
           a == OfPackage(Media, p)
           b == OfPackage(Buffer, p)
           c == OfPackage(Controller, p)
           d == OfPackage(CPU, p)
           g == Group(p)
<1>1. g = <<a, b, c, d>>
  BY DEF Group, Metric
<1>2. /\ NamesOf(Media) \subseteq MetricNames /\ NamesOf(Buffer) \subseteq MetricNames
      /\ NamesOf(Controller) \subseteq MetricNames /\ NamesOf(CPU) \subseteq MetricNames
  BY DEF MetricNames
<1>3. /\ a \in Seq(C) /\ Titled(a) = OfPackage(MediaTitles, p)
      /\ b \in Seq(C) /\ Titled(b) = OfPackage(BufferTitles, p)
      /\ c \in Seq(C) /\ Titled(c) = OfPackage(ControllerTitles, p)
      /\ d \in Seq(C) /\ Titled(d) = OfPackage(CPUTitles, p)
  BY <1>2, MediaEntitled, BufferEntitled, ControllerEntitled, CPUEntitled, PackageTitled
<1> HIDE DEF a, b, c, d, g, C
<1>4. g \in Seq(Seq(C)) /\ Len(g) = 4 /\ g[1] = a /\ g[2] = b /\ g[3] = c /\ g[4] = d
  BY <1>1, <1>3
<1>5. PICK f \in [1 .. 4 -> Seq(C)] : Joins(f, g, 4) /\ FlattenSeq(g) = f[4]
  <2> DEFINE n == Len(g)
  <2>1. n \in Nat \ {0} /\ n = 4
    BY <1>4
  <2>2. \E f \in [1 .. n -> Seq(C)] : Joins(f, g, n) /\ FlattenSeq(g) = f[n]
    <3>1. g \in Seq(Seq(C)) /\ n \in Nat \ {0} /\ n = Len(g)
      BY <1>4, <2>1
    <3> HIDE DEF n
    <3> QED
      BY <3>1, FlattenJoins
  <2> QED
    BY <2>1, <2>2, Zenon
<1>6. /\ f[1] = a /\ f[2] = f[1] \o b /\ f[3] = f[2] \o c /\ f[4] = f[3] \o d
      /\ f[1] \in Seq(C) /\ f[2] \in Seq(C) /\ f[3] \in Seq(C) /\ f[4] \in Seq(C)
  <2>1. f[1] \in Seq(C) /\ f[2] \in Seq(C) /\ f[3] \in Seq(C) /\ f[4] \in Seq(C)
    OBVIOUS
  <2>2. \A k \in 1 .. 4 : f[k] = IF k = 1 THEN g[k] ELSE f[k - 1] \o g[k]
    BY <1>5 DEF Joins
  <2>3. f[1] = g[1] /\ f[2] = f[1] \o g[2] /\ f[3] = f[2] \o g[3] /\ f[4] = f[3] \o g[4]
    <3>1. f[1] = g[1]
      BY <2>2
    <3>2. f[2] = f[1] \o g[2]
      BY <2>2
    <3>3. f[3] = f[2] \o g[3]
      BY <2>2
    <3>4. f[4] = f[3] \o g[4]
      BY <2>2
    <3> QED
      BY <3>1, <3>2, <3>3, <3>4
  <2> QED
    BY <1>4, <2>1, <2>3
<1>7. /\ Titled(f[1] \o b) = Titled(f[1]) \o Titled(b)
      /\ Titled(f[2] \o c) = Titled(f[2]) \o Titled(c)
      /\ Titled(f[3] \o d) = Titled(f[3]) \o Titled(d)
  BY <1>3, <1>6, TitledConcat
<1>8. Titled(f[4]) = ((Titled(a) \o Titled(b)) \o Titled(c)) \o Titled(d)
  <2>1. Titled(f[2]) = Titled(a) \o Titled(b)
    BY <1>6, <1>7, Zenon
  <2>2. Titled(f[3]) = Titled(f[2]) \o Titled(c)
    BY <1>6, <1>7, Zenon
  <2>3. Titled(f[4]) = Titled(f[3]) \o Titled(d)
    BY <1>6, <1>7, Zenon
  <2> QED
    BY <2>1, <2>2, <2>3, Zenon
<1>9. HeaderOfPackage(p) =
        ((OfPackage(MediaTitles, p) \o OfPackage(BufferTitles, p))
          \o OfPackage(ControllerTitles, p)) \o OfPackage(CPUTitles, p)
  BY Zenon DEF HeaderOfPackage, MediaTitles, BufferTitles, ControllerTitles, CPUTitles
<1>10. Titled(FlattenSeq(g)) = HeaderOfPackage(p)
  BY <1>3, <1>5, <1>8, <1>9, Zenon
<1> QED
  BY <1>5, <1>6, <1>10 DEF C, g

(***************************************************************************)
(* On every machine, and in every format that has rows, the columns of a   *)
(* row are those of the header: the same metrics of the same DIMMs, in the *)
(* same order.                                                             *)
(***************************************************************************)
THEOREM HeaderFits ==
  ASSUME socket_id \in Machines, NEW form \in {"one", "two", "health"}
  PROVE  Header(form) = Titled(Columns(form))
<1>1. CASE form = "one"
  <2>1. Parts(form) = count /\ \A p : Cells(form, p) = OfDimm(OneRow, p)
    BY <1>1 DEF Parts, Cells
  <2>2. Columns(form) = OfDimms(OneRow)
    BY <2>1 DEF Columns, OfDimms
  <2>3. Header(form) = OfDimms(OneTitles)
    BY <1>1 DEF Header
  <2> QED
    BY <2>2, <2>3, OneEntitled, DimmsTitled
<1>2. CASE form = "health"
  <2>1. Parts(form) = count /\ \A p : Cells(form, p) = OfDimm(HealthRow, p)
    BY <1>2 DEF Parts, Cells
  <2>2. Columns(form) = OfDimms(HealthRow)
    BY <2>1 DEF Columns, OfDimms
  <2>3. Header(form) = OfDimms(HealthTitles)
    BY <1>2 DEF Header
  <2> QED
    BY <2>2, <2>3, HealthEntitled, DimmsTitled
<1>3. CASE form = "two"
  <2> DEFINE n == num_packages
             rows == [p \in 1 .. n |-> FlattenSeq(Group(p - 1))]
  <2>1. n \in Nat \ {0} /\ Parts(form) = n
    BY <1>3, Sizes DEF Parts
  <2>2. DOMAIN Packages = 1 .. n /\ \A p \in 1 .. n : Packages[p] = p - 1
    BY DEF Packages
  <2>3. \A p \in 1 .. n : Cells(form, p) = FlattenSeq(Group(p - 1))
    BY <1>3, <2>2 DEF Cells, Group
  <2>4. Columns(form) = FlattenSeq(rows)
    BY <2>1, <2>3 DEF Columns
  <2>5. Header(form) = FlattenSeq([p \in 1 .. n |-> HeaderOfPackage(p - 1)])
    BY <1>3, <2>2 DEF Header
  <2>6. \A p \in 1 .. n : /\ rows[p] \in Seq(Column(MetricNames))
                          /\ Titled(rows[p]) = HeaderOfPackage(p - 1)
    BY GroupTitled
  <2>7. rows \in Seq(Seq(Column(MetricNames))) /\ Len(rows) = n
    BY <2>1, <2>6
  <2> HIDE DEF rows, n
  <2>8. Titled(FlattenSeq(rows)) = FlattenSeq([p \in 1 .. n |-> Titled(rows[p])])
    BY <2>1, <2>7, TitledFlatten
  <2>9. [p \in 1 .. n |-> Titled(rows[p])] = [p \in 1 .. n |-> HeaderOfPackage(p - 1)]
    BY <2>6
  <2> QED
    BY <2>4, <2>5, <2>8, <2>9
<1> QED
  BY <1>1, <1>2, <1>3
=============================================================================
