------------------------- MODULE PaperAccountProofs -------------------------
(***************************************************************************)
(* Proofs about PaperAccount, for any symbols, bars, prices, rules and     *)
(* targets.  What a replay computes is recursive: sums, the orders of a    *)
(* bar, the bars of a run.  Facts about it are proved by induction over    *)
(* sets of numbers (Induct).                                               *)
(***************************************************************************)
EXTENDS PaperAccount, WellFoundedInduction, TLAPS

LEMMA LeastOf ==
    ASSUME NEW S \in SUBSET Nat, S # {}
    PROVE  \E t \in S : \A u \in S : t <= u
<1> DEFINE R == {p \in Nat \X Nat : p[1] < p[2]}
<1>1. IsWellFoundedOn(R, Nat)
  BY NatLessThanWellFounded DEF OpToRel
<1> HIDE DEF R
<1>2. PICK t \in S : \A u \in S : <<u, t>> \notin R
  BY <1>1, WFMin
<1>3. \A u \in S : ~(u < t)
  BY <1>2 DEF R
<1> QED BY <1>3

(* S is the set of the numbers for which something has been shown. *)
LEMMA Induct ==
    ASSUME NEW n \in Nat, NEW S,
           0 \in S,
           \A i \in 0 .. n : i \in S /\ i < n => i + 1 \in S
    PROVE  0 .. n \subseteq S
<1> DEFINE Bad == {i \in 0 .. n : i \notin S}
<1> SUFFICES ASSUME Bad # {} PROVE FALSE
  OBVIOUS
<1>1. Bad \in SUBSET Nat
  OBVIOUS
<1>2. PICK t \in Bad : \A u \in Bad : t <= u
  BY <1>1, LeastOf
<1>3. t \in 1 .. n /\ t - 1 \in 0 .. n /\ t - 1 < n /\ t - 1 \notin Bad
  BY <1>2
<1>4. t - 1 \in S
  BY <1>3
<1>5. (t - 1) + 1 \in S
  BY <1>3, <1>4
<1> QED BY <1>2, <1>5

LEMMA GreatestOf ==
    ASSUME NEW n \in Nat, NEW S \in SUBSET (0 .. n), S # {}
    PROVE  \E t \in S : \A u \in S : u <= t
<1> DEFINE T == {n - u : u \in S}
<1>1. T \in SUBSET Nat /\ T # {}
  <2>1. \A u \in S : n - u \in Nat
    OBVIOUS
  <2>2. PICK u \in S : TRUE
    OBVIOUS
  <2> QED BY <2>1, <2>2
<1> HIDE DEF T
<1>2. PICK x \in T : \A y \in T : x <= y
  BY <1>1, LeastOf
<1>3. PICK t \in S : x = n - t
  BY <1>2 DEF T
<1>4. ASSUME NEW u \in S PROVE u <= t
  <2>1. n - u \in T
    BY DEF T
  <2>2. n - t <= n - u
    BY <1>2, <1>3, <2>1
  <2> QED BY <2>2
<1> QED BY <1>4

-----------------------------------------------------------------------------
(* Sums *)

IntSeq(f, n) == DOMAIN f = 1 .. n /\ \A i \in 1 .. n : f[i] \in Int

LEMMA SumsDef ==
    ASSUME NEW n \in Nat, NEW f, IntSeq(f, n)
    PROVE  /\ Sums(f)[0] = 0
           /\ \A i \in 0 .. n : Sums(f)[i] \in Int
           /\ \A i \in 1 .. n : Sums(f)[i] = Sums(f)[i - 1] + f[i]
<1> DEFINE Is(g, m) == g = [i \in 0 .. m |-> IF i = 0 THEN 0 ELSE g[i - 1] + f[i]]
           S == {m \in 0 .. n : \E g : Is(g, m) /\ \A i \in 0 .. m : g[i] \in Int}
<1>1. 0 \in S
  <2> DEFINE h == [i \in 0 .. 0 |-> 0]
  <2>1. Is(h, 0) /\ \A i \in 0 .. 0 : h[i] \in Int
    OBVIOUS
  <2> HIDE DEF h
  <2> QED BY <2>1
<1>2. ASSUME NEW m \in 0 .. n, m \in S, m < n PROVE m + 1 \in S
  <2>1. PICK g : Is(g, m) /\ \A i \in 0 .. m : g[i] \in Int
    BY <1>2
  <2> DEFINE h == [i \in 0 .. m + 1 |-> IF i = m + 1 THEN g[m] + f[m + 1] ELSE g[i]]
  <2>2. ASSUME NEW i \in 0 .. m + 1
        PROVE  h[i] = (IF i = 0 THEN 0 ELSE h[i - 1] + f[i]) /\ h[i] \in Int
    <3>1. CASE i = m + 1
      BY <1>2, <2>1, <3>1 DEF IntSeq
    <3>2. CASE i \in 0 .. m
      <4>1. g[i] = IF i = 0 THEN 0 ELSE g[i - 1] + f[i]
        BY <2>1, <3>2
      <4>2. h[i] = g[i] /\ g[i] \in Int
        BY <2>1, <3>2
      <4>3. i # 0 => h[i - 1] = g[i - 1]
        BY <3>2
      <4> QED BY <4>1, <4>2, <4>3
    <3> QED BY <3>1, <3>2
  <2>3. DOMAIN h = 0 .. m + 1
    OBVIOUS
  <2> HIDE DEF h
  <2>4. Is(h, m + 1)
    <3>1. h = [i \in 0 .. m + 1 |-> h[i]]
      BY <2>3 DEF h
    <3> QED BY <3>1, <2>2
  <2> QED BY <1>2, <2>2, <2>4
<1>3. 0 .. n \subseteq S
  BY <1>1, <1>2, Induct
<1>4. \E g : g = [i \in 0 .. n |-> IF i = 0 THEN 0 ELSE g[i - 1] + f[i]]
  BY <1>3
<1>5. {0} \cup DOMAIN f = 0 .. n
  BY DEF IntSeq
<1>6. Sums(f) = [i \in 0 .. n |-> IF i = 0 THEN 0 ELSE Sums(f)[i - 1] + f[i]]
  BY <1>4, <1>5 DEF Sums
<1>7. /\ Sums(f)[0] = 0
      /\ \A i \in 1 .. n : Sums(f)[i] = Sums(f)[i - 1] + f[i]
  BY <1>6
<1>8. \A i \in 0 .. n : Sums(f)[i] \in Int
  <2> DEFINE Z == {i \in 0 .. n : Sums(f)[i] \in Int}
  <2>1. 0 \in Z
    BY <1>7
  <2>2. ASSUME NEW i \in 0 .. n, i \in Z, i < n PROVE i + 1 \in Z
    <3>1. Sums(f)[i + 1] = Sums(f)[i] + f[i + 1] /\ f[i + 1] \in Int
      BY <1>7, <2>2 DEF IntSeq
    <3> QED BY <2>2, <3>1
  <2> QED BY <2>1, <2>2, Induct
<1> QED BY <1>7, <1>8

LEMMA SumsAgree ==
    ASSUME NEW n \in Nat, NEW m \in Nat, NEW f, NEW g, IntSeq(f, n), IntSeq(g, m),
           NEW k \in Nat, k <= n, k <= m, \A i \in 1 .. k : f[i] = g[i]
    PROVE  Sums(f)[k] = Sums(g)[k]
<1> DEFINE S == {i \in 0 .. k : Sums(f)[i] = Sums(g)[i]}
<1>1. 0 \in S
  BY SumsDef
<1>2. ASSUME NEW i \in 0 .. k, i \in S, i < k PROVE i + 1 \in S
  <2>1. i + 1 \in 1 .. n /\ i + 1 \in 1 .. m /\ i + 1 \in 1 .. k /\ (i + 1) - 1 = i
    BY <1>2
  <2>2. Sums(f)[i + 1] = Sums(f)[(i + 1) - 1] + f[i + 1]
    BY <2>1, SumsDef
  <2>3. Sums(g)[i + 1] = Sums(g)[(i + 1) - 1] + g[i + 1]
    BY <2>1, SumsDef
  <2> QED BY <1>2, <2>1, <2>2, <2>3
<1>3. 0 .. k \subseteq S
  BY <1>1, <1>2, Induct
<1> QED BY <1>3

LEMMA SumsNat ==
    ASSUME NEW n \in Nat, NEW f \in [1 .. n -> Nat]
    PROVE  \A i \in 0 .. n : Sums(f)[i] \in Nat
<1> DEFINE S == {i \in 0 .. n : Sums(f)[i] \in Nat}
<1>0. IntSeq(f, n)
  BY DEF IntSeq
<1>1. 0 \in S
  BY <1>0, SumsDef
<1>2. ASSUME NEW i \in 0 .. n, i \in S, i < n PROVE i + 1 \in S
  <2>1. i + 1 \in 1 .. n /\ (i + 1) - 1 = i
    BY <1>2
  <2>2. Sums(f)[i + 1] = Sums(f)[(i + 1) - 1] + f[i + 1]
    BY <1>0, <2>1, SumsDef
  <2> QED BY <1>2, <2>1, <2>2
<1>3. 0 .. n \subseteq S
  BY <1>1, <1>2, Induct
<1> QED BY <1>3

(* One more term. *)
LEMMA SumsAppended ==
    ASSUME NEW n \in Nat, NEW f, NEW g, IntSeq(f, n), IntSeq(g, n + 1),
           \A i \in 1 .. n : f[i] = g[i]
    PROVE  Sums(g)[n + 1] = Sums(f)[n] + g[n + 1]
<1>1. Sums(g)[n + 1] = Sums(g)[(n + 1) - 1] + g[n + 1]
  <2>1. n + 1 \in Nat /\ n + 1 \in 1 .. n + 1
    OBVIOUS
  <2> QED BY <2>1, SumsDef
<1>2. Sums(f)[n] = Sums(g)[n]
  <2>1. n + 1 \in Nat /\ n <= n /\ n <= n + 1
    OBVIOUS
  <2> QED BY <2>1, SumsAgree
<1> QED BY <1>1, <1>2

(* One larger term. *)
Raised(n, f, c, x) == [j \in 1 .. n |-> f[j] + (IF j = c THEN x ELSE 0)]

LEMMA SumsRaised ==
    ASSUME NEW n \in Nat, NEW f \in [1 .. n -> Nat], NEW c \in 1 .. n, NEW x \in Nat
    PROVE  \A i \in 0 .. n : Sums(Raised(n, f, c, x))[i] = Sums(f)[i] + (IF i >= c THEN x ELSE 0)
<1> DEFINE g == Raised(n, f, c, x)
           S == {i \in 0 .. n : Sums(g)[i] = Sums(f)[i] + (IF i >= c THEN x ELSE 0)}
<1>0. IntSeq(f, n) /\ IntSeq(g, n) /\ \A i \in 1 .. n : g[i] = f[i] + (IF i = c THEN x ELSE 0)
  BY DEF IntSeq, Raised
<1> HIDE DEF g
<1>1. 0 \in S
  BY <1>0, SumsDef
<1>2. ASSUME NEW i \in 0 .. n, i \in S, i < n PROVE i + 1 \in S
  <2>1. i + 1 \in 1 .. n /\ (i + 1) - 1 = i
    BY <1>2
  <2>2. Sums(f)[i + 1] = Sums(f)[(i + 1) - 1] + f[i + 1]
    BY <1>0, <2>1, SumsDef
  <2>3. Sums(g)[i + 1] = Sums(g)[(i + 1) - 1] + g[i + 1]
    BY <1>0, <2>1, SumsDef
  <2>4. Sums(f)[i] \in Int
    BY <1>0, SumsDef
  <2>5. Sums(g)[i] = Sums(f)[i] + (IF i >= c THEN x ELSE 0)
    BY <1>2
  <2> QED BY <1>0, <1>2, <2>1, <2>2, <2>3, <2>4, <2>5
<1>3. 0 .. n \subseteq S
  BY <1>1, <1>2, Induct
<1> QED BY <1>3 DEF g

-----------------------------------------------------------------------------
(* Days and shares *)

LEMMA Calendar ==
    /\ NDays \in Nat
    /\ \A t \in Bars : Day(t) \in Days
    /\ \A t \in Bars, u \in Bars : t <= u => Day(t) <= Day(u)
<1> DEFINE B == BarsPerDay
<1>1. B \in Nat \ {0} /\ NBars \in Nat \ {0}
  BY ExecutionAssumption
<1>2. ASSUME NEW a \in Nat PROVE a \div B \in Nat
  BY <1>1
<1>3. ASSUME NEW a \in Nat, NEW b \in Nat, a <= b PROVE a \div B <= b \div B
  BY <1>1, <1>3
<1>4. \A t \in Bars : t - 1 \in Nat
  BY DEF Bars
<1> QED BY <1>1, <1>2, <1>3, <1>4 DEF Bars, Day, NDays, Days

LEMMA PurchaseSums ==
    ASSUME NEW t \in Bars, NEW lots \in [Days -> Nat], NEW size \in Nat
    PROVE  /\ AfterPurchase(lots, size, t) \in [Days -> Nat]
           /\ \A d \in 0 .. NDays : Sums(AfterPurchase(lots, size, t))[d]
                                   = Sums(lots)[d] + (IF d >= Day(t) THEN size ELSE 0)
<1>1. NDays \in Nat /\ Day(t) \in 1 .. NDays /\ lots \in [1 .. NDays -> Nat]
  BY Calendar DEF Days
<1>2. AfterPurchase(lots, size, t)
        = Raised(NDays, lots, Day(t), size)
  BY DEF AfterPurchase, Raised, Days
<1>3. AfterPurchase(lots, size, t) \in [1 .. NDays -> Nat]
  BY <1>1, <1>2 DEF Raised
<1>4. \A d \in 0 .. NDays : Sums(AfterPurchase(lots, size, t))[d]
                           = Sums(lots)[d] + (IF d >= Day(t) THEN size ELSE 0)
  BY <1>1, <1>2, SumsRaised
<1> QED BY <1>3, <1>4 DEF Days

(* What a sale leaves of the lots: nothing is taken of those of the day, as *)
(* the size is within what had settled.                                     *)
LEMMA SaleSums ==
    ASSUME NEW t \in Bars, NEW lots \in [Days -> Nat], NEW size \in Nat,
           size <= Sums(lots)[Day(t) - 1]
    PROVE  /\ AfterSale(lots, size, t) \in [Days -> Nat]
           /\ \A d \in 0 .. NDays : d >= Day(t) - 1 =>
                 Sums(AfterSale(lots, size, t))[d] = Sums(lots)[d] - size
<1> DEFINE T == Day(t)
           g == AfterSale(lots, size, t)
           S == {d \in 0 .. NDays :
                   Sums(g)[d] = IF d < T THEN Most(0, Sums(lots)[d] - size)
                                ELSE Sums(lots)[d] - size}
<1>0. NDays \in Nat /\ T \in 1 .. NDays /\ lots \in [1 .. NDays -> Nat]
  BY Calendar DEF Days
<1>1. \A d \in 0 .. NDays : Sums(lots)[d] \in Nat
  BY <1>0, SumsNat
<1>2. g = [d \in 1 .. NDays |-> IF d >= T THEN lots[d]
                    ELSE Most(0, lots[d] - Most(0, size - Sums(lots)[d - 1]))]
  BY DEF AfterSale, Days
<1>3. g \in [1 .. NDays -> Nat]
  <2> DEFINE left(d) == Most(0, lots[d] - Most(0, size - Sums(lots)[d - 1]))
  <2>1. \A x, y \in Int : Most(x, y) \in Int /\ Most(0, x) \in Nat
    BY DEF Most
  <2>2. ASSUME NEW d \in 1 .. NDays PROVE lots[d] \in Nat /\ left(d) \in Nat
    <3>1. d - 1 \in 0 .. NDays /\ lots[d] \in Nat
      BY <1>0
    <3>2. size - Sums(lots)[d - 1] \in Int
      BY <1>1, <3>1
    <3>3. lots[d] - Most(0, size - Sums(lots)[d - 1]) \in Int
      <4> DEFINE y == size - Sums(lots)[d - 1]
      <4>1. y \in Int
        BY <3>2
      <4> HIDE DEF y
      <4>2. Most(0, y) \in Int
        BY <4>1 DEF Most
      <4>3. lots[d] - Most(0, y) \in Int
        BY <3>1, <4>2
      <4> QED BY <4>3 DEF y
    <3> QED BY <2>1, <3>1, <3>3
  <2>3. g = [d \in 1 .. NDays |-> IF d >= T THEN lots[d] ELSE left(d)]
    BY <1>2
  <2> HIDE DEF left, g
  <2> QED BY <2>2, <2>3
<1>4. IntSeq(lots, NDays) /\ IntSeq(g, NDays)
  BY <1>0, <1>3 DEF IntSeq
<1> HIDE DEF T, g
<1>5. 0 \in S
  <2>1. Sums(lots)[0] = 0 /\ Sums(g)[0] = 0
    BY <1>0, <1>4, SumsDef
  <2> QED BY <1>0, <2>1 DEF Most
<1>6. ASSUME NEW d \in 0 .. NDays, d \in S, d < NDays PROVE d + 1 \in S
  <2>1. d + 1 \in 1 .. NDays /\ (d + 1) - 1 = d
    BY <1>0, <1>6
  <2>2. Sums(lots)[d + 1] = Sums(lots)[(d + 1) - 1] + lots[d + 1]
    BY <1>0, <1>4, <2>1, SumsDef
  <2>3. Sums(g)[d + 1] = Sums(g)[(d + 1) - 1] + g[d + 1]
    BY <1>0, <1>4, <2>1, SumsDef
  <2>4. Sums(lots)[d] \in Nat /\ lots[d + 1] \in Nat
    BY <1>0, <1>1, <2>1
  <2>5. Sums(g)[d] = IF d < T THEN Most(0, Sums(lots)[d] - size) ELSE Sums(lots)[d] - size
    BY <1>6
  <2>6. g[d + 1] = IF d + 1 >= T THEN lots[d + 1]
                   ELSE Most(0, lots[d + 1] - Most(0, size - Sums(lots)[d]))
    BY <1>2, <2>1
  <2>7. d + 1 = T => size <= Sums(lots)[d]
    BY <1>0, <2>1 DEF T
  <2>8. CASE d + 1 < T
    BY <1>0, <2>1, <2>2, <2>3, <2>4, <2>5, <2>6, <2>8 DEF Most
  <2>9. CASE d + 1 >= T
    <3>1. g[d + 1] = lots[d + 1]
      BY <2>6, <2>9
    <3>2. Sums(g)[d] = Sums(lots)[d] - size
      BY <1>0, <2>4, <2>5, <2>7, <2>9 DEF Most
    <3>3. Sums(g)[d + 1] = Sums(lots)[d + 1] - size
      BY <2>1, <2>2, <2>3, <2>4, <3>1, <3>2
    <3> QED BY <1>0, <2>1, <2>9, <3>3
  <2> QED BY <1>0, <2>8, <2>9
<1>7. 0 .. NDays \subseteq S
  BY <1>0, <1>5, <1>6, Induct
<1>8. ASSUME NEW d \in 0 .. NDays, d >= T - 1 PROVE Sums(g)[d] = Sums(lots)[d] - size
  <2>1. Sums(g)[d] = IF d < T THEN Most(0, Sums(lots)[d] - size) ELSE Sums(lots)[d] - size
    BY <1>7
  <2>2. d < T => d = Day(t) - 1
    BY <1>0, <1>8 DEF T
  <2>3. d < T => size <= Sums(lots)[d]
    BY <2>2
  <2> QED BY <1>1, <2>1, <2>3 DEF Most
<1> QED BY <1>3, <1>8 DEF g, T, Days

-----------------------------------------------------------------------------
(* What the fills add up to *)

Sides == {"buy", "sell"}
NavRows == [bar : Bars, cash : Nat, value : Nat]
FillRows == [bar : Bars, symbol : Symbols, side : Sides, size : Nat \ {0}, price : Nat \ {0}]

LEMMA RowTyped ==
    ASSUME NEW row \in FillRows
    PROVE  /\ row.bar \in Bars /\ row.symbol \in Symbols /\ row.side \in Sides
           /\ row.size \in Nat \ {0} /\ row.price \in Nat \ {0}
           /\ Day(row.bar) \in Days /\ Day(row.bar) \in Nat /\ row.bar \in Nat
           /\ Amount(row) \in Int
<1>1. /\ row.bar \in Bars /\ row.symbol \in Symbols /\ row.side \in Sides
      /\ row.size \in Nat \ {0} /\ row.price \in Nat \ {0}
  BY DEF FillRows
<1>2. Day(row.bar) \in Days /\ Day(row.bar) \in Nat /\ row.bar \in Nat
  BY <1>1, Calendar, ExecutionAssumption DEF Days, Bars
<1>3. row.size * row.price \in Int /\ -row.size * row.price \in Int /\ Commission \in Int
  BY <1>1, ExecutionAssumption
<1> QED BY <1>1, <1>2, <1>3 DEF Amount

LEMMA SharesTyped ==
    ASSUME NEW fills \in Seq(FillRows), NEW s, NEW side, NEW d \in Int
    PROVE  Shares(fills, s, side, d) \in Nat
<1> DEFINE f == [i \in DOMAIN fills |->
                  IF fills[i].symbol = s /\ fills[i].side = side /\ Day(fills[i].bar) <= d
                  THEN fills[i].size ELSE 0]
<1>1. Len(fills) \in Nat /\ DOMAIN fills = 1 .. Len(fills)
      /\ \A i \in 1 .. Len(fills) : fills[i] \in FillRows
  OBVIOUS
<1>2. \A i \in 1 .. Len(fills) : fills[i].size \in Nat
  BY <1>1, RowTyped
<1>3. f \in [1 .. Len(fills) -> Nat]
  BY <1>1, <1>2
<1> HIDE DEF f
<1>4. Sums(f)[Len(fills)] \in Nat
  BY <1>1, <1>3, SumsNat
<1> QED BY <1>4 DEF Shares, f

LEMMA SharesAppended ==
    ASSUME NEW fills \in Seq(FillRows), NEW row \in FillRows, NEW s, NEW side, NEW d \in Int
    PROVE  Shares(Append(fills, row), s, side, d)
             = Shares(fills, s, side, d)
               + (IF row.symbol = s /\ row.side = side /\ Day(row.bar) <= d THEN row.size ELSE 0)
<1> DEFINE n == Len(fills)
           more == Append(fills, row)
           f == [i \in DOMAIN fills |->
                  IF fills[i].symbol = s /\ fills[i].side = side /\ Day(fills[i].bar) <= d
                  THEN fills[i].size ELSE 0]
           g == [i \in DOMAIN more |->
                  IF more[i].symbol = s /\ more[i].side = side /\ Day(more[i].bar) <= d
                  THEN more[i].size ELSE 0]
<1>1. n \in Nat /\ DOMAIN fills = 1 .. n /\ \A i \in 1 .. n : fills[i] \in FillRows
  OBVIOUS
<1>2. /\ DOMAIN more = 1 .. n + 1 /\ Len(more) = n + 1 /\ more[n + 1] = row
      /\ \A i \in 1 .. n : more[i] = fills[i]
  OBVIOUS
<1>3. \A i \in 1 .. n : fills[i].size \in Nat
  BY <1>1, RowTyped
<1>4. row.size \in Nat
  BY RowTyped
<1> HIDE DEF more
<1>5. IntSeq(f, n)
  BY <1>1, <1>3 DEF IntSeq
<1>6. g[n + 1] = IF row.symbol = s /\ row.side = side /\ Day(row.bar) <= d THEN row.size ELSE 0
  BY <1>1, <1>2
<1>7. \A i \in 1 .. n : f[i] = g[i]
  BY <1>1, <1>2
<1>8. IntSeq(g, n + 1)
  <2>1. \A i \in 1 .. n : g[i] \in Int
    BY <1>5, <1>7 DEF IntSeq
  <2>2. g[n + 1] \in Int
    BY <1>4, <1>6
  <2> QED BY <1>1, <1>2, <2>1, <2>2 DEF IntSeq
<1> HIDE DEF f, g, n
<1>9. Sums(g)[n + 1] = Sums(f)[n] + g[n + 1]
  BY <1>1, <1>5, <1>7, <1>8, SumsAppended
<1> QED BY <1>2, <1>6, <1>9 DEF Shares, more, f, g, n

LEMMA CashAppended ==
    ASSUME NEW fills \in Seq(FillRows), NEW row \in FillRows, NEW bar \in Int
    PROVE  CashAfter(Append(fills, row), bar)
             = CashAfter(fills, bar) + (IF row.bar <= bar THEN Amount(row) ELSE 0)
<1> DEFINE n == Len(fills)
           more == Append(fills, row)
           f == [i \in DOMAIN fills |-> IF fills[i].bar <= bar THEN Amount(fills[i]) ELSE 0]
           g == [i \in DOMAIN more |-> IF more[i].bar <= bar THEN Amount(more[i]) ELSE 0]
<1>1. n \in Nat /\ DOMAIN fills = 1 .. n /\ \A i \in 1 .. n : fills[i] \in FillRows
  OBVIOUS
<1>2. /\ DOMAIN more = 1 .. n + 1 /\ Len(more) = n + 1 /\ more[n + 1] = row
      /\ \A i \in 1 .. n : more[i] = fills[i]
  OBVIOUS
<1>3. \A i \in 1 .. n : Amount(fills[i]) \in Int
  BY <1>1, RowTyped
<1>4. Amount(row) \in Int
  BY RowTyped
<1> HIDE DEF more
<1>5. IntSeq(f, n)
  BY <1>1, <1>3 DEF IntSeq
<1>6. g[n + 1] = IF row.bar <= bar THEN Amount(row) ELSE 0
  BY <1>1, <1>2
<1>7. \A i \in 1 .. n : f[i] = g[i]
  BY <1>1, <1>2
<1>8. IntSeq(g, n + 1)
  <2>1. \A i \in 1 .. n : g[i] \in Int
    BY <1>5, <1>7 DEF IntSeq
  <2>2. g[n + 1] \in Int
    BY <1>4, <1>6
  <2> QED BY <1>1, <1>2, <2>1, <2>2 DEF IntSeq
<1> HIDE DEF f, g, n
<1>9. Sums(g)[n + 1] = Sums(f)[n] + g[n + 1]
  BY <1>1, <1>5, <1>7, <1>8, SumsAppended
<1>10. Sums(f)[n] \in Int /\ g[n + 1] \in Int
  <2>1. n \in 0 .. n /\ n + 1 \in 1 .. n + 1
    BY <1>1
  <2> QED BY <1>1, <1>5, <1>8, <2>1, SumsDef DEF IntSeq
<1>11. InitialCash \in Int
  BY ExecutionAssumption
<1>12. CashAfter(fills, bar) = InitialCash + Sums(f)[n]
  BY DEF CashAfter, f, n
<1>13. CashAfter(more, bar) = InitialCash + Sums(g)[n + 1]
  BY <1>2 DEF CashAfter, g
<1> QED BY <1>6, <1>9, <1>10, <1>11, <1>12, <1>13 DEF more

LEMMA CashTyped ==
    ASSUME NEW fills \in Seq(FillRows), NEW bar \in Int
    PROVE  CashAfter(fills, bar) \in Int
<1> DEFINE f == [i \in DOMAIN fills |-> IF fills[i].bar <= bar THEN Amount(fills[i]) ELSE 0]
<1>1. Len(fills) \in Nat /\ DOMAIN fills = 1 .. Len(fills)
      /\ \A i \in 1 .. Len(fills) : fills[i] \in FillRows
  OBVIOUS
<1>2. \A i \in 1 .. Len(fills) : Amount(fills[i]) \in Int
  BY <1>1, RowTyped
<1>3. IntSeq(f, Len(fills))
  BY <1>1, <1>2 DEF IntSeq
<1> HIDE DEF f
<1>4. Sums(f)[Len(fills)] \in Int
  BY <1>1, <1>3, SumsDef
<1> QED BY <1>4, ExecutionAssumption DEF CashAfter, f

(* Later bars and days than those of the fills change nothing. *)
LEMMA FillsEnd ==
    ASSUME NEW fills \in Seq(FillRows), NEW t \in Bars,
           \A i \in 1 .. Len(fills) : fills[i].bar <= t
    PROVE  /\ CashAfter(fills, t) = CashAfter(fills, NBars)
           /\ \A s, side : \A d \in Int :
                d >= Day(t) => Shares(fills, s, side, d) = Shares(fills, s, side, NDays)
<1>1. DOMAIN fills = 1 .. Len(fills) /\ \A i \in 1 .. Len(fills) : fills[i] \in FillRows
  OBVIOUS
<1>2. \A i \in DOMAIN fills : fills[i].bar <= t /\ fills[i].bar <= NBars
  BY <1>1, RowTyped DEF Bars
<1>3. \A i \in DOMAIN fills : Day(fills[i].bar) <= Day(t) /\ Day(fills[i].bar) <= NDays
  <2>1. ASSUME NEW i \in DOMAIN fills
        PROVE  Day(fills[i].bar) <= Day(t) /\ Day(fills[i].bar) <= NDays
    <3>1. fills[i].bar \in Bars /\ Day(fills[i].bar) \in Days
      BY <1>1, RowTyped
    <3> QED BY <1>1, <1>2, <3>1, Calendar DEF Days
  <2> QED BY <2>1
<1>4. [i \in DOMAIN fills |-> IF fills[i].bar <= t THEN Amount(fills[i]) ELSE 0]
      = [i \in DOMAIN fills |-> IF fills[i].bar <= NBars THEN Amount(fills[i]) ELSE 0]
  BY <1>2
<1>5. ASSUME NEW s, NEW side, NEW d \in Int, d >= Day(t)
      PROVE  Shares(fills, s, side, d) = Shares(fills, s, side, NDays)
  <2>1. \A i \in DOMAIN fills : Day(fills[i].bar) <= d /\ Day(fills[i].bar) <= NDays
    <3>1. \A i \in DOMAIN fills : Day(fills[i].bar) \in Nat
      BY <1>1, RowTyped
    <3>2. Day(t) \in Nat
      BY Calendar DEF Days
    <3> QED BY <1>3, <1>5, <3>1, <3>2
  <2>2. [i \in DOMAIN fills |->
            IF fills[i].symbol = s /\ fills[i].side = side /\ Day(fills[i].bar) <= d
            THEN fills[i].size ELSE 0]
        = [i \in DOMAIN fills |->
            IF fills[i].symbol = s /\ fills[i].side = side /\ Day(fills[i].bar) <= NDays
            THEN fills[i].size ELSE 0]
    BY <2>1
  <2> QED BY <2>2 DEF Shares
<1> QED BY <1>4, <1>5 DEF CashAfter

-----------------------------------------------------------------------------
(* Targets, prices and orders *)

Distinct(known) == \A x, y \in known : x.at = y.at => x = y

LEMMA TargetTyped ==
    ASSUME NEW target \in NewTargets
    PROVE  target.at \in Nat /\ target.weights \in [Symbols -> Nat]
<1>1. target.at \in TargetTimes /\ target.weights \in Weights
  BY DEF NewTargets
<1>2. TargetTimes \subseteq Nat
  BY AccountAssumption
<1>3. \A n \in 0 .. Parts : n \in Nat
  BY ExecutionAssumption
<1> QED BY <1>1, <1>2, <1>3 DEF Weights

LEMMA LatestTyped ==
    ASSUME NEW known \in SUBSET NewTargets, known # {}, NEW n \in Nat,
           \A x \in known : x.at <= n
    PROVE  /\ Latest(known) \in known
           /\ \A y \in known : y.at <= Latest(known).at
<1> DEFINE T == {x.at : x \in known}
<1>1. \A x \in known : x.at \in 0 .. n
  BY TargetTyped
<1>2. T \in SUBSET (0 .. n) /\ T # {}
  BY <1>1
<1>3. PICK at \in T : \A u \in T : u <= at
  BY <1>2, GreatestOf
<1>4. \E x \in known : \A y \in known : y.at <= x.at
  BY <1>3
<1> QED BY <1>4 DEF Latest

LEMMA DecidedTyped ==
    ASSUME NEW known \in SUBSET NewTargets, known # {}, NEW n \in Nat,
           \A x \in known : x.at <= n, Distinct(known), NEW s \in Symbols
    PROVE  Decided(known, s) \in Nat
<1> DEFINE weight == Latest(known).weights[s]
           same == {x \in known : \A y \in known : y.at >= x.at => y.weights[s] = weight}
           times == {x.at : x \in same}
<1>1. Latest(known) \in known /\ \A y \in known : y.at <= Latest(known).at
  BY LatestTyped
<1>2. \A x \in known : x.at \in Nat
  BY TargetTyped
<1>3. Latest(known) \in same
  <2>1. ASSUME NEW y \in known, y.at >= Latest(known).at PROVE y = Latest(known)
    <3>1. y.at = Latest(known).at
      BY <1>1, <1>2, <2>1
    <3> QED BY <1>1, <3>1 DEF Distinct
  <2> QED BY <1>1, <2>1
<1>4. times \in SUBSET Nat /\ times # {}
  BY <1>2, <1>3
<1>5. \E at \in times : \A other \in times : at <= other
  BY <1>4, LeastOf
<1>6. Decided(known, s) = CHOOSE at \in times : \A other \in times : at <= other
  BY DEF Decided
<1> HIDE DEF times
<1> QED BY <1>4, <1>5, <1>6

Reasons == {"missing_market_rule", "blocked", "cash_for_sell_fees", "cash", "t_plus_one"}
Refusals == {row \in [bar : Bars, symbol : Symbols, side : Sides, wanted : Nat, size : Nat,
                      reason : Reasons] : row.size < row.wanted}
Books == [cash : Nat, lots : [Symbols -> [Days -> Nat]], marks : [Symbols -> Nat],
          attempts : SUBSET (Symbols \X Nat),
          nav : Seq(NavRows), fills : Seq(FillRows), rejections : Seq(Refusals)]
QuoteRows == [Symbols -> Quotes \cup {NoQuote}]

LEMMA BookTyped ==
    ASSUME NEW b \in Books
    PROVE  /\ b.cash \in Nat /\ b.lots \in [Symbols -> [Days -> Nat]]
           /\ b.marks \in [Symbols -> Nat] /\ b.attempts \in SUBSET (Symbols \X Nat)
           /\ b.nav \in Seq(NavRows) /\ b.fills \in Seq(FillRows)
           /\ b.rejections \in Seq(Refusals)
BY DEF Books

LEMMA QuantityTyped ==
    ASSUME NEW b \in Books, NEW s \in Symbols
    PROVE  Quantity(b, s) \in Nat /\ \A d \in 0 .. NDays : Sums(b.lots[s])[d] \in Nat
<1>1. b.lots[s] \in [1 .. NDays -> Nat] /\ NDays \in Nat /\ NDays \in 0 .. NDays
  BY BookTyped, Calendar DEF Days
<1> QED BY <1>1, SumsNat DEF Quantity

LEMMA ValueTyped ==
    ASSUME NEW b \in Books, NEW price \in [Symbols -> Nat]
    PROVE  Value(b, price) \in Nat
<1> DEFINE f == [s \in Symbols |-> Quantity(b, s) * price[s]]
<1>1. \A s \in Symbols : Quantity(b, s) * price[s] \in Nat
  BY QuantityTyped
<1>2. NSymbols \in Nat /\ NSymbols \in 0 .. NSymbols
  BY ExecutionAssumption
<1>3. f \in [1 .. NSymbols -> Nat]
  BY <1>1 DEF Symbols
<1> HIDE DEF f
<1> QED BY <1>2, <1>3, SumsNat DEF Value, f

LEMMA QuoteTyped ==
    ASSUME NEW quote \in QuoteRows, NEW s \in Symbols
    PROVE  /\ quote[s].open \in Nat /\ quote[s].close \in Nat
           /\ quote[s] # NoQuote => quote[s].open \in Nat \ {0}
<1>1. CASE quote[s] \in Quotes
  <2>1. quote[s] \in [open : Nat \ {0}, close : Nat \ {0}]
    BY <1>1, ExecutionAssumption
  <2> QED BY <2>1
<1>2. CASE quote[s] = NoQuote
  BY <1>2 DEF NoQuote
<1> QED BY <1>1, <1>2 DEF QuoteRows

LEMMA PricesTyped ==
    ASSUME NEW b \in Books, NEW quote \in QuoteRows
    PROVE  /\ Prices(b, quote) \in [Symbols -> Nat]
           /\ \A s \in Symbols : quote[s] # NoQuote =>
                Prices(b, quote)[s] = quote[s].open /\ quote[s].open \in Nat \ {0}
<1>1. \A s \in Symbols : b.marks[s] \in Nat /\ quote[s].open \in Nat
  BY BookTyped, QuoteTyped
<1> QED BY <1>1, QuoteTyped DEF Prices

LEMMA MissingTyped ==
    ASSUME NEW b \in Books, NEW quote \in QuoteRows, NEW known \in SUBSET NewTargets,
           NEW n \in Nat, \A x \in known : x.at <= n, NEW t \in Bars
    PROVE  /\ Missing(b, quote, known, t) \in [Symbols -> Int]
           /\ \A s \in Symbols : Missing(b, quote, known, t)[s] # 0 =>
                known # {} /\ Prices(b, quote)[s] \in Nat \ {0}
<1> DEFINE price == Prices(b, quote)
           equity == b.cash + Value(b, price)
           m == Missing(b, quote, known, t)
<1>1. price \in [Symbols -> Nat] /\ equity \in Nat
  BY PricesTyped, ValueTyped, BookTyped
<1>2. m = [s \in Symbols |->
            IF known # {} /\ quote[s] # NoQuote /\ MayTrade(b, known, s, t)
              THEN (equity * Latest(known).weights[s]) \div (Parts * price[s]) - Quantity(b, s)
              ELSE 0]
  BY DEF Missing
<1>3. ASSUME NEW s \in Symbols, known # {}, quote[s] # NoQuote
      PROVE  /\ (equity * Latest(known).weights[s]) \div (Parts * price[s]) \in Int
             /\ price[s] \in Nat \ {0}
  <2>1. Latest(known).weights[s] \in Nat
    BY <1>3, LatestTyped, TargetTyped
  <2>2. price[s] \in Nat \ {0} /\ Parts \in Nat \ {0}
    BY <1>3, PricesTyped, ExecutionAssumption
  <2> HIDE DEF price, equity
  <2>3. Parts * price[s] \in Nat \ {0}
    BY <2>2
  <2>4. equity * Latest(known).weights[s] \in Nat
    BY <1>1, <2>1
  <2>5. \A a \in Nat, c \in Nat \ {0} : a \div c \in Int
    OBVIOUS
  <2> QED BY <2>2, <2>3, <2>4, <2>5
<1> HIDE DEF price, equity, m
<1>4. \A s \in Symbols : Quantity(b, s) \in Int
  BY QuantityTyped
<1>5. m \in [Symbols -> Int]
  <2>1. ASSUME NEW s \in Symbols PROVE m[s] \in Int
    BY <1>2, <1>3, <1>4
  <2> QED BY <1>2, <2>1
<1>6. \A s \in Symbols : m[s] # 0 => known # {} /\ price[s] \in Nat \ {0}
  BY <1>2, <1>3
<1> QED BY <1>5, <1>6 DEF m, price

-----------------------------------------------------------------------------
(* What becomes of one order *)

OrderRows == [symbol : Symbols, price : Nat \ {0}, side : Sides, wanted : Nat \ {0}]

LEMMA AffordableTyped ==
    ASSUME NEW b \in Books, NEW wanted \in Nat, NEW price \in Nat \ {0}
    PROVE  LET n == Affordable(b, wanted, price)
           IN  n \in 0 .. wanted /\ (n # 0 => n * price + Commission <= b.cash)
<1> DEFINE top == Least(wanted, b.cash \div price)
           paid == {n \in 1 .. top : n * price + Commission <= b.cash}
<1>1. top \in Nat /\ top <= wanted
  <2>1. b.cash \in Nat
    BY BookTyped
  <2>2. b.cash \div price \in Nat
    BY <2>1
  <2> QED BY <2>2 DEF Least
<1>2. Affordable(b, wanted, price)
        = IF paid = {} THEN 0 ELSE CHOOSE n \in paid : \A m \in paid : m <= n
  BY DEF Affordable
<1> HIDE DEF top
<1>3. CASE paid = {}
  BY <1>2, <1>3
<1>4. CASE paid # {}
  <2>1. paid \in SUBSET (0 .. top)
    BY <1>1
  <2>2. PICK n \in paid : \A m \in paid : m <= n
    BY <1>1, <1>4, <2>1, GreatestOf
  <2>3. Affordable(b, wanted, price) \in paid
    BY <1>2, <1>4, <2>2
  <2> QED BY <1>1, <2>3
<1> QED BY <1>3, <1>4

LEMMA OutcomeTyped ==
    ASSUME NEW b \in Books, NEW order \in OrderRows, NEW rule, NEW t \in Bars
    PROVE  LET out == Outcome(b, order, rule, t) IN
           /\ out.size \in 0 .. order.wanted /\ out.reason \in Reasons
           /\ out.size # 0 /\ order.side = "buy" =>
                out.size * order.price + Commission <= b.cash
           /\ out.size # 0 /\ order.side # "buy" =>
                /\ out.size <= Settled(b, order.symbol, t)
                /\ Commission <= b.cash + out.size * order.price
<1> DEFINE out == Outcome(b, order, rule, t)
           sale == Least(order.wanted, Settled(b, order.symbol, t))
           bought == Affordable(b, order.wanted, order.price)
<1>1. /\ order.symbol \in Symbols /\ order.price \in Nat \ {0} /\ order.side \in Sides
      /\ order.wanted \in Nat \ {0}
  BY DEF OrderRows
<1>2. Settled(b, order.symbol, t) \in Nat
  <2>1. Day(t) - 1 \in 0 .. NDays
    BY Calendar DEF Days
  <2> QED BY <1>1, <2>1, QuantityTyped DEF Settled
<1>3. sale \in 0 .. order.wanted /\ sale <= Settled(b, order.symbol, t)
  BY <1>1, <1>2 DEF Least
<1>4. bought \in 0 .. order.wanted
      /\ (bought # 0 => bought * order.price + Commission <= b.cash)
  BY <1>1, AffordableTyped
<1>5. 0 \in 0 .. order.wanted
  BY <1>1
<1>6. b.cash + sale * order.price \in Int /\ Commission \in Int
  BY <1>1, <1>3, BookTyped, ExecutionAssumption
<1> HIDE DEF sale, bought
<1>7. \/ out.size = 0 /\ out.reason \in Reasons
      \/ out.size = bought /\ order.side = "buy" /\ out.reason \in Reasons
      \/ /\ out.size = sale /\ order.side # "buy" /\ out.reason \in Reasons
         /\ ~(sale > 0 /\ b.cash + sale * order.price < Commission)
  <2> DEFINE result(size, reason) == [size |-> size, reason |-> reason]
  <2>1. out = IF rule = {} THEN result(0, "missing_market_rule")
              ELSE IF \E r \in rule : order.side \in r.blocked THEN result(0, "blocked")
              ELSE IF order.side = "buy" THEN result(bought, "cash")
              ELSE IF sale > 0 /\ b.cash + sale * order.price < Commission
                     THEN result(0, "cash_for_sell_fees")
              ELSE result(sale, "t_plus_one")
    BY DEF Outcome, sale, bought
  <2> HIDE DEF out
  <2>2. CASE out = result(0, "missing_market_rule") \/ out = result(0, "blocked")
            \/ out = result(0, "cash_for_sell_fees")
    BY <2>2 DEF Reasons
  <2>3. CASE out = result(bought, "cash") /\ order.side = "buy"
    BY <2>3 DEF Reasons
  <2>4. CASE out = result(sale, "t_plus_one") /\ order.side # "buy"
             /\ ~(sale > 0 /\ b.cash + sale * order.price < Commission)
    BY <2>4 DEF Reasons
  <2> HIDE DEF result
  <2> QED BY <2>1, <2>2, <2>3, <2>4
<1> HIDE DEF out
<1>8. CASE out.size = 0 /\ out.reason \in Reasons
  BY <1>5, <1>8 DEF out
<1>9. CASE out.size = bought /\ order.side = "buy" /\ out.reason \in Reasons
  BY <1>4, <1>9 DEF out
<1>10. CASE /\ out.size = sale /\ order.side # "buy" /\ out.reason \in Reasons
            /\ ~(sale > 0 /\ b.cash + sale * order.price < Commission)
  <2>1. sale # 0 => Commission <= b.cash + sale * order.price
    BY <1>1, <1>3, <1>6, <1>10
  <2> QED BY <1>3, <1>10, <2>1 DEF out
<1> QED BY <1>7, <1>8, <1>9, <1>10

WithFill(b, cash, lots, fills) ==
    [b EXCEPT !.cash = cash, !.lots = lots, !.fills = fills]
WithRejection(b, row) == [b EXCEPT !.rejections = Append(@, row)]
WithAttempts(b, more) == [b EXCEPT !.attempts = @ \cup more]
WithClose(b, marks, row) == [b EXCEPT !.marks = marks, !.nav = Append(@, row)]

LEMMA BookFields ==
    ASSUME NEW b \in Books, NEW cash \in Nat, NEW lots \in [Symbols -> [Days -> Nat]],
           NEW fills \in Seq(FillRows)
    PROVE  LET x == WithFill(b, cash, lots, fills) IN
           /\ x \in Books
           /\ x.cash = cash /\ x.lots = lots /\ x.fills = fills
           /\ x.nav = b.nav /\ x.rejections = b.rejections
BY DEF Books, WithFill

LEMMA RejectionFields ==
    ASSUME NEW b \in Books, NEW row \in Refusals
    PROVE  LET x == WithRejection(b, row) IN
           /\ x \in Books
           /\ x.cash = b.cash /\ x.lots = b.lots /\ x.fills = b.fills
           /\ x.nav = b.nav /\ x.rejections = Append(b.rejections, row)
<1>1. Append(b.rejections, row) \in Seq(Refusals)
  BY BookTyped
<1> QED BY <1>1 DEF Books, WithRejection

LEMMA AttemptFields ==
    ASSUME NEW b \in Books, NEW more \in SUBSET (Symbols \X Nat)
    PROVE  LET x == WithAttempts(b, more) IN
           /\ x \in Books
           /\ x.cash = b.cash /\ x.lots = b.lots /\ x.fills = b.fills
           /\ x.nav = b.nav /\ x.rejections = b.rejections
BY DEF Books, WithAttempts

LEMMA CloseFields ==
    ASSUME NEW b \in Books, NEW marks \in [Symbols -> Nat], NEW row \in NavRows
    PROVE  LET x == WithClose(b, marks, row) IN
           /\ x \in Books
           /\ x.cash = b.cash /\ x.lots = b.lots /\ x.fills = b.fills
           /\ x.nav = Append(b.nav, row) /\ x.rejections = b.rejections
<1>1. Append(b.nav, row) \in Seq(NavRows)
  BY BookTyped
<1> QED BY <1>1 DEF Books, WithClose

(* A fill, by its sides. *)
LEMMA FillFields ==
    ASSUME NEW b \in Books, NEW order \in OrderRows, NEW rule, NEW t \in Bars,
           NEW size, size = Outcome(b, order, rule, t).size, size # 0
    PROVE  LET s == order.symbol
               row == [bar |-> t, symbol |-> s, side |-> order.side, size |-> size,
                       price |-> order.price]
               x == Fill(b, order, size, t)
           IN  /\ x \in Books /\ row \in FillRows
               /\ x.fills = Append(b.fills, row) /\ x.nav = b.nav
               /\ x.rejections = b.rejections
               /\ x.cash = b.cash + Amount(row)
               /\ \A other \in Symbols : other # s => x.lots[other] = b.lots[other]
               /\ order.side = "buy" => x.lots[s] = AfterPurchase(b.lots[s], size, t)
               /\ order.side = "sell" => /\ x.lots[s] = AfterSale(b.lots[s], size, t)
                                         /\ size <= Sums(b.lots[s])[Day(t) - 1]
<1> DEFINE s == order.symbol
           row == [bar |-> t, symbol |-> s, side |-> order.side, size |-> size,
                   price |-> order.price]
           x == Fill(b, order, size, t)
           cash == IF order.side = "buy" THEN b.cash - size * order.price - Commission
                                         ELSE b.cash + size * order.price - Commission
           lot == IF order.side = "buy" THEN AfterPurchase(b.lots[s], size, t)
                                        ELSE AfterSale(b.lots[s], size, t)
<1>1. /\ order.symbol \in Symbols /\ order.price \in Nat \ {0} /\ order.side \in Sides
      /\ order.wanted \in Nat \ {0}
  BY DEF OrderRows
<1>2. /\ size \in 1 .. order.wanted /\ size \in Nat \ {0}
      /\ order.side = "buy" => size * order.price + Commission <= b.cash
      /\ order.side # "buy" => /\ size <= Sums(b.lots[s])[Day(t) - 1]
                               /\ Commission <= b.cash + size * order.price
  BY <1>1, OutcomeTyped DEF Settled
<1>3. row \in FillRows
  BY <1>1, <1>2 DEF FillRows
<1>4. /\ b.cash \in Nat /\ Commission \in Nat /\ size * order.price \in Nat
      /\ -size * order.price = -(size * order.price)
  BY <1>1, <1>2, BookTyped, ExecutionAssumption
<1>5. cash \in Nat /\ cash = b.cash + Amount(row)
  <2>1. row.side = order.side /\ row.size = size /\ row.price = order.price
    OBVIOUS
  <2>2. CASE order.side = "buy"
    <3>1. Amount(row) = -size * order.price - Commission
      BY <2>1, <2>2 DEF Amount
    <3> QED BY <1>2, <1>4, <2>2, <3>1
  <2>3. CASE order.side = "sell"
    <3>1. Amount(row) = size * order.price - Commission
      BY <2>1, <2>3 DEF Amount
    <3> QED BY <1>2, <1>4, <2>3, <3>1
  <2> QED BY <1>1, <2>2, <2>3 DEF Sides
<1>6. b.lots \in [Symbols -> [Days -> Nat]] /\ b.lots[s] \in [Days -> Nat] /\ Day(t) \in Days
  BY <1>1, BookTyped, Calendar
<1>7. lot \in [Days -> Nat]
  <2>1. CASE order.side = "buy"
    <3>1. AfterPurchase(b.lots[s], size, t) \in [Days -> Nat]
      BY <1>2, <1>6, PurchaseSums
    <3> QED BY <2>1, <3>1
  <2>2. CASE order.side # "buy"
    <3>1. AfterSale(b.lots[s], size, t) \in [Days -> Nat]
      BY <1>2, <1>6, <2>2, SaleSums
    <3> QED BY <2>2, <3>1
  <2> QED BY <2>1, <2>2
<1> DEFINE lots == [b.lots EXCEPT ![s] = lot]
           fills == Append(b.fills, row)
<1>8. x = WithFill(b, cash, lots, fills)
  BY DEF Fill, WithFill, Books
<1> HIDE DEF x, cash, lot, row
<1>9. lots \in [Symbols -> [Days -> Nat]] /\ fills \in Seq(FillRows)
  <2>1. b.fills \in Seq(FillRows)
    BY BookTyped
  <2>2. lots \in [Symbols -> [Days -> Nat]]
    BY <1>6, <1>7
  <2> QED BY <1>3, <2>1, <2>2
<1> HIDE DEF lots, fills
<1>10. /\ x \in Books
       /\ x.cash = cash /\ x.lots = lots /\ x.fills = fills
       /\ x.nav = b.nav /\ x.rejections = b.rejections
  BY <1>5, <1>8, <1>9, BookFields
<1>11. x.lots[s] = lot /\ \A other \in Symbols : other # s => x.lots[other] = b.lots[other]
  BY <1>1, <1>6, <1>10 DEF lots
<1> QED BY <1>2, <1>3, <1>5, <1>10, <1>11 DEF x, row, lot, fills

-----------------------------------------------------------------------------
(* A sound book *)

DayOf(t) == IF t = 0 THEN 1 ELSE Day(t)

(* What has been bought up to a day and not been sold is in the lots. *)
Balanced(b, t) ==
    \A s \in Symbols, d \in 0 .. NDays : d >= DayOf(t) - 1 =>
        Sums(b.lots[s])[d] = Shares(b.fills, s, "buy", d) - Shares(b.fills, s, "sell", NDays)

SalesSettled(fills) ==
    \A s \in Symbols, d \in Days : Shares(fills, s, "sell", d) <= Shares(fills, s, "buy", d - 1)

CashFits(b) == b.cash = CashAfter(b.fills, NBars)
NavFits(b) == \A i \in 1 .. Len(b.nav) : b.nav[i].cash = CashAfter(b.fills, b.nav[i].bar)

(* The book of a run that has traded up to bar t and valued up to bar u. *)
Sound(b, t, u) ==
    /\ b \in Books
    /\ \A i \in 1 .. Len(b.fills) : b.fills[i].bar <= t
    /\ \A i \in 1 .. Len(b.nav) : b.nav[i].bar <= u
    /\ Balanced(b, t)
    /\ SalesSettled(b.fills)
    /\ CashFits(b)
    /\ NavFits(b)

Starts(x, y) == Len(x) <= Len(y) /\ \A i \in 1 .. Len(x) : y[i] = x[i]
Grows(b, c) == Starts(b.nav, c.nav) /\ Starts(b.fills, c.fills)
               /\ Starts(b.rejections, c.rejections)

LEMMA StartsAppended ==
    ASSUME NEW S, NEW x \in Seq(S), NEW e \in S
    PROVE  Starts(x, x) /\ Starts(x, Append(x, e))
BY DEF Starts

LEMMA GrowsOn ==
    ASSUME NEW b \in Books, NEW c \in Books, NEW d \in Books, Grows(b, c), Grows(c, d)
    PROVE  Grows(b, d)
<1>1. ASSUME NEW S, NEW x \in Seq(S), NEW y \in Seq(S), NEW z \in Seq(S),
             Starts(x, y), Starts(y, z)
      PROVE  Starts(x, z)
  <2>1. Len(x) \in Nat /\ Len(y) \in Nat /\ Len(z) \in Nat
    BY <1>1
  <2>2. \A i \in 1 .. Len(x) : i \in 1 .. Len(y)
    BY <1>1, <2>1 DEF Starts
  <2> QED BY <1>1, <2>1, <2>2 DEF Starts
<1> QED BY <1>1, BookTyped DEF Grows

LEMMA GrowsSelf == ASSUME NEW b \in Books PROVE Grows(b, b)
<1>1. \A x : Starts(x, x) <=> Len(x) <= Len(x)
  BY DEF Starts
<1>2. Len(b.nav) \in Nat /\ Len(b.fills) \in Nat /\ Len(b.rejections) \in Nat
  BY BookTyped
<1> QED BY <1>1, <1>2 DEF Grows

LEMMA FillSound ==
    ASSUME NEW t \in Bars, NEW b, Sound(b, t, t - 1), NEW order \in OrderRows, NEW rule,
           NEW size, size = Outcome(b, order, rule, t).size, size # 0
    PROVE  Sound(Fill(b, order, size, t), t, t - 1) /\ Grows(b, Fill(b, order, size, t))
<1> DEFINE x == Fill(b, order, size, t)
           s == order.symbol
           T == Day(t)
           row == [bar |-> t, symbol |-> s, side |-> order.side, size |-> size,
                   price |-> order.price]
<1>0. b \in Books /\ b.fills \in Seq(FillRows) /\ b.nav \in Seq(NavRows)
  BY BookTyped DEF Sound
<1>1. s \in Symbols /\ order.side \in Sides
  BY DEF OrderRows
<1>2. /\ x \in Books /\ row \in FillRows
      /\ x.fills = Append(b.fills, row) /\ x.nav = b.nav /\ x.rejections = b.rejections
      /\ x.cash = b.cash + Amount(row)
      /\ \A other \in Symbols : other # s => x.lots[other] = b.lots[other]
      /\ order.side = "buy" => x.lots[s] = AfterPurchase(b.lots[s], size, t)
      /\ order.side = "sell" => /\ x.lots[s] = AfterSale(b.lots[s], size, t)
                                /\ size <= Sums(b.lots[s])[Day(t) - 1]
  BY <1>0, FillFields
<1>3. row.bar = t /\ row.symbol = s /\ row.side = order.side /\ row.size = size /\ size \in Nat
  BY <1>2 DEF FillRows
<1>4. T \in 1 .. NDays /\ NDays \in Nat /\ DayOf(t) = T /\ t \in 1 .. NBars /\ NBars \in Nat
  BY Calendar, ExecutionAssumption DEF Days, DayOf, Bars
<1> HIDE DEF x, row
<1>5. \A i \in 1 .. Len(x.fills) : x.fills[i].bar <= t
  <2>1. Len(x.fills) = Len(b.fills) + 1 /\ x.fills[Len(b.fills) + 1] = row
        /\ \A i \in 1 .. Len(b.fills) : x.fills[i] = b.fills[i]
    BY <1>0, <1>2
  <2>2. \A i \in 1 .. Len(b.fills) : b.fills[i].bar <= t
    BY DEF Sound
  <2>3. t <= t /\ Len(b.fills) \in Nat
    BY <1>0, <1>4
  <2> QED BY <1>3, <2>1, <2>2, <2>3
<1>6. \A i \in 1 .. Len(x.nav) : x.nav[i].bar <= t - 1
  BY <1>2 DEF Sound
<1>7. \A other \in Symbols, side \in Sides, d \in Int :
        Shares(x.fills, other, side, d)
          = Shares(b.fills, other, side, d)
            + (IF other = s /\ side = order.side /\ T <= d THEN size ELSE 0)
  BY <1>0, <1>2, <1>3, SharesAppended
<1>8. \A other \in Symbols, side \in Sides, d \in Int :
        Shares(b.fills, other, side, d) \in Nat /\ Shares(x.fills, other, side, d) \in Nat
  BY <1>0, <1>2, SharesTyped, BookTyped
<1>9. Balanced(x, t)
  <2>1. ASSUME NEW other \in Symbols, NEW d \in 0 .. NDays, d >= T - 1
        PROVE  Sums(x.lots[other])[d]
                 = Shares(x.fills, other, "buy", d) - Shares(x.fills, other, "sell", NDays)
    <3>1. Sums(b.lots[other])[d]
            = Shares(b.fills, other, "buy", d) - Shares(b.fills, other, "sell", NDays)
      BY <1>4, <2>1 DEF Sound, Balanced
    <3>2. "buy" \in Sides /\ "sell" \in Sides /\ "buy" # "sell" /\ d \in Int /\ NDays \in Int
      BY <1>4 DEF Sides
    <3>3. b.lots[other] \in [Days -> Nat]
      BY <1>0, BookTyped
    <3>4. Sums(b.lots[other])[d] \in Nat
      BY <1>0, QuantityTyped
    <3>5. CASE other # s
      <4>1. Shares(x.fills, other, "buy", d) = Shares(b.fills, other, "buy", d) + 0
        BY <1>7, <3>2, <3>5
      <4>2. Shares(x.fills, other, "sell", NDays) = Shares(b.fills, other, "sell", NDays) + 0
        BY <1>7, <3>2, <3>5
      <4>3. x.lots[other] = b.lots[other]
        BY <1>2, <3>5
      <4> QED BY <1>8, <3>1, <3>2, <4>1, <4>2, <4>3
    <3>6. CASE other = s /\ order.side = "buy"
      <4>1. Sums(x.lots[s])[d] = Sums(b.lots[s])[d] + (IF d >= T THEN size ELSE 0)
        <5>1. x.lots[s] = AfterPurchase(b.lots[s], size, t) /\ b.lots[s] \in [Days -> Nat]
          BY <1>2, <3>3, <3>6
        <5>2. \A e \in 0 .. NDays : Sums(AfterPurchase(b.lots[s], size, t))[e]
                                    = Sums(b.lots[s])[e] + (IF e >= Day(t) THEN size ELSE 0)
          BY <1>3, <5>1, PurchaseSums
        <5> QED BY <5>1, <5>2
      <4>2. Shares(x.fills, s, "buy", d)
              = Shares(b.fills, s, "buy", d) + (IF T <= d THEN size ELSE 0)
        BY <1>7, <3>2, <3>6
      <4>3. Shares(x.fills, s, "sell", NDays) = Shares(b.fills, s, "sell", NDays) + 0
        BY <1>7, <3>2, <3>6
      <4> QED BY <1>3, <1>4, <1>8, <3>1, <3>2, <3>4, <3>6, <4>1, <4>2, <4>3
    <3>7. CASE other = s /\ order.side = "sell"
      <4>1. Sums(x.lots[s])[d] = Sums(b.lots[s])[d] - size
        BY <1>2, <1>3, <2>1, <3>3, <3>7, SaleSums
      <4>2. Shares(x.fills, s, "buy", d) = Shares(b.fills, s, "buy", d) + 0
        BY <1>7, <3>2, <3>7
      <4>3. Shares(x.fills, s, "sell", NDays) = Shares(b.fills, s, "sell", NDays) + size
        BY <1>4, <1>7, <3>2, <3>7
      <4> QED BY <1>3, <1>8, <3>1, <3>2, <3>4, <3>7, <4>1, <4>2, <4>3
    <3> QED BY <1>1, <3>5, <3>6, <3>7 DEF Sides
  <2> QED BY <1>4, <2>1 DEF Balanced
<1>10. SalesSettled(x.fills)
  <2>1. ASSUME NEW other \in Symbols, NEW d \in Days
        PROVE  Shares(x.fills, other, "sell", d) <= Shares(x.fills, other, "buy", d - 1)
    <3>1. "buy" \in Sides /\ "sell" \in Sides /\ d \in Int /\ d - 1 \in Int /\ NDays \in Int
          /\ d \in 1 .. NDays
      BY <1>4 DEF Sides, Days
    <3>2. Shares(b.fills, other, "sell", d) <= Shares(b.fills, other, "buy", d - 1)
      BY DEF Sound, SalesSettled
    <3>3. CASE d < T
      <4>1. Shares(x.fills, other, "sell", d) = Shares(b.fills, other, "sell", d) + 0
        BY <1>4, <1>7, <3>1, <3>3
      <4>2. Shares(x.fills, other, "buy", d - 1) = Shares(b.fills, other, "buy", d - 1) + 0
        BY <1>4, <1>7, <3>1, <3>3
      <4> QED BY <1>8, <3>1, <3>2, <4>1, <4>2
    <3>4. CASE d >= T
      <4>1. Shares(x.fills, other, "sell", d) = Shares(x.fills, other, "sell", NDays)
        <5>1. x.fills \in Seq(FillRows)
          BY <1>2, BookTyped
        <5> QED BY <1>5, <3>1, <3>4, <5>1, FillsEnd
      <4>2. d - 1 \in 0 .. NDays /\ d - 1 >= DayOf(t) - 1
        BY <1>4, <3>1, <3>4
      <4>3. Sums(x.lots[other])[d - 1]
              = Shares(x.fills, other, "buy", d - 1) - Shares(x.fills, other, "sell", NDays)
        BY <1>9, <4>2 DEF Balanced
      <4>4. Sums(x.lots[other])[d - 1] \in Nat
        BY <1>2, <4>2, QuantityTyped
      <4> QED BY <1>8, <3>1, <4>1, <4>3, <4>4
    <3> QED BY <1>4, <3>1, <3>3, <3>4
  <2> QED BY <2>1 DEF SalesSettled
<1>11. CashFits(x)
  <2>1. CashAfter(x.fills, NBars) = CashAfter(b.fills, NBars) + Amount(row)
    BY <1>0, <1>2, <1>3, <1>4, CashAppended
  <2> QED BY <1>2, <2>1 DEF Sound, CashFits
<1>12. NavFits(x)
  <2>1. ASSUME NEW i \in 1 .. Len(b.nav)
        PROVE  CashAfter(x.fills, b.nav[i].bar) = CashAfter(b.fills, b.nav[i].bar)
    <3>1. b.nav[i].bar \in Int /\ b.nav[i].bar <= t - 1
      <4>1. b.nav[i] \in NavRows
        BY <1>0
      <4> QED BY <4>1 DEF Sound, NavRows, Bars
    <3>2. ~(row.bar <= b.nav[i].bar)
      BY <1>3, <1>4, <3>1
    <3>3. CashAfter(x.fills, b.nav[i].bar) = CashAfter(b.fills, b.nav[i].bar) + 0
      BY <1>0, <1>2, <3>1, <3>2, CashAppended
    <3> QED BY <1>0, <3>1, <3>3, CashTyped
  <2> QED BY <1>2, <2>1 DEF Sound, NavFits
<1>13. Grows(b, x)
  <2>1. Starts(b.nav, x.nav) /\ Starts(b.rejections, x.rejections)
    BY <1>0, <1>2, GrowsSelf DEF Grows
  <2> QED BY <1>0, <1>2, <2>1, StartsAppended DEF Grows
<1> QED BY <1>2, <1>5, <1>6, <1>9, <1>10, <1>11, <1>12, <1>13 DEF Sound, x

LEMMA ExecuteSound ==
    ASSUME NEW t \in Bars, NEW b, Sound(b, t, t - 1), NEW order \in OrderRows, NEW rule
    PROVE  Sound(Execute(b, order, rule, t), t, t - 1) /\ Grows(b, Execute(b, order, rule, t))
<1> DEFINE result == Outcome(b, order, rule, t)
           filled == IF result.size = 0 THEN b ELSE Fill(b, order, result.size, t)
           row == [bar |-> t, symbol |-> order.symbol, side |-> order.side,
                   wanted |-> order.wanted, size |-> result.size, reason |-> result.reason]
           x == Execute(b, order, rule, t)
<1>1. b \in Books
  BY DEF Sound
<1>2. Sound(filled, t, t - 1) /\ Grows(b, filled) /\ filled \in Books
  BY <1>1, FillSound, GrowsSelf DEF Sound
<1>3. x = filled \/ (result.size # order.wanted /\ x = WithRejection(filled, row))
  BY DEF Execute, WithRejection
<1>4. ASSUME result.size # order.wanted PROVE row \in Refusals
  <2>1. result.size \in 0 .. order.wanted /\ result.reason \in Reasons
    BY <1>1, OutcomeTyped
  <2>2. order.symbol \in Symbols /\ order.side \in Sides /\ order.wanted \in Nat
    BY DEF OrderRows
  <2> HIDE DEF result
  <2> QED BY <1>4, <2>1, <2>2 DEF Refusals
<1> HIDE DEF filled, row, x, result
<1>5. CASE result.size # order.wanted /\ x = WithRejection(filled, row)
  <2>1. /\ x \in Books
        /\ x.cash = filled.cash /\ x.lots = filled.lots /\ x.fills = filled.fills
        /\ x.nav = filled.nav /\ x.rejections = Append(filled.rejections, row)
    BY <1>2, <1>4, <1>5, RejectionFields
  <2>2. Sound(x, t, t - 1)
    BY <1>2, <2>1 DEF Sound, Balanced, CashFits, NavFits
  <2>3. Grows(filled, x)
    <3>1. Starts(filled.nav, x.nav) /\ Starts(filled.fills, x.fills)
      BY <1>2, <2>1, GrowsSelf DEF Grows
    <3>2. filled.rejections \in Seq(Refusals) /\ row \in Refusals
      BY <1>2, <1>4, <1>5, BookTyped
    <3> QED BY <2>1, <3>1, <3>2, StartsAppended DEF Grows
  <2> QED BY <1>1, <1>2, <2>1, <2>2, <2>3, GrowsOn DEF x
<1> QED BY <1>2, <1>3, <1>5 DEF x

LEMMA AfterOrdersDef ==
    ASSUME NEW b, NEW missing, NEW price, NEW given, NEW t
    PROVE  \E after : /\ AfterOrders(b, missing, price, given, t) = after[2 * NSymbols]
                      /\ after[0] = b
                      /\ \A k \in 1 .. 2 * NSymbols :
                           after[k] = AfterOrder(after[k - 1], Order(missing, price, k), given, t)
<1> DEFINE n == 2 * NSymbols
           Is(g, m) == g = [k \in 0 .. m |-> IF k = 0 THEN b
                              ELSE AfterOrder(g[k - 1], Order(missing, price, k), given, t)]
           S == {m \in 0 .. n : \E g : Is(g, m)}
<1>0. n \in Nat
  BY ExecutionAssumption
<1>1. 0 \in S
  <2> DEFINE h == [k \in 0 .. 0 |-> b]
  <2>1. Is(h, 0)
    OBVIOUS
  <2> HIDE DEF h
  <2> QED BY <1>0, <2>1
<1>2. ASSUME NEW m \in 0 .. n, m \in S, m < n PROVE m + 1 \in S
  <2>1. PICK g : Is(g, m)
    BY <1>2
  <2> DEFINE last == AfterOrder(g[m], Order(missing, price, m + 1), given, t)
             h == [k \in 0 .. m + 1 |-> IF k = m + 1 THEN last ELSE g[k]]
  <2>2. ASSUME NEW k \in 0 .. m + 1
        PROVE  h[k] = IF k = 0 THEN b
                      ELSE AfterOrder(h[k - 1], Order(missing, price, k), given, t)
    <3>1. CASE k = m + 1
      <4>1. k # 0 /\ k - 1 = m /\ h[k] = last /\ h[m] = g[m]
        BY <1>0, <3>1
      <4> HIDE DEF h
      <4> QED BY <3>1, <4>1
    <3>2. CASE k \in 0 .. m
      <4>1. g[k] = IF k = 0 THEN b
                   ELSE AfterOrder(g[k - 1], Order(missing, price, k), given, t)
        BY <2>1, <3>2
      <4>2. h[k] = g[k] /\ (k # 0 => h[k - 1] = g[k - 1])
        BY <1>0, <3>2
      <4> HIDE DEF h
      <4> QED BY <4>1, <4>2
    <3> QED BY <1>0, <3>1, <3>2
  <2>3. h = [k \in 0 .. m + 1 |-> h[k]]
    OBVIOUS
  <2> HIDE DEF h
  <2>4. Is(h, m + 1)
    BY <2>2, <2>3
  <2> QED BY <1>0, <1>2, <2>4
<1>3. 0 .. n \subseteq S
  BY <1>0, <1>1, <1>2, Induct
<1>4. \E g : Is(g, n)
  BY <1>0, <1>3
<1> DEFINE after == CHOOSE g : Is(g, n)
<1>5. Is(after, n)
  BY <1>4
<1>6. AfterOrders(b, missing, price, given, t) = after[n]
  BY DEF AfterOrders
<1>7. ASSUME NEW k \in 0 .. n
      PROVE  after[k] = IF k = 0 THEN b
                        ELSE AfterOrder(after[k - 1], Order(missing, price, k), given, t)
  <2> HIDE DEF after
  <2> DEFINE value == IF k = 0 THEN b
                      ELSE AfterOrder(after[k - 1], Order(missing, price, k), given, t)
  <2>1. after[k] = value
    BY <1>5
  <2> QED BY <2>1
<1> HIDE DEF after
<1>8. after[0] = b
  BY <1>0, <1>7
<1>9. \A k \in 1 .. n : after[k] = AfterOrder(after[k - 1], Order(missing, price, k), given, t)
  BY <1>0, <1>7
<1> HIDE DEF Is
<1> QED BY <1>6, <1>8, <1>9

(* All the orders of a bar. *)
LEMMA OrdersSound ==
    ASSUME NEW t \in Bars, NEW b, Sound(b, t, t - 1), NEW given,
           NEW missing \in [Symbols -> Int], NEW price \in [Symbols -> Nat],
           \A s \in Symbols : missing[s] # 0 => price[s] \in Nat \ {0}
    PROVE  LET x == AfterOrders(b, missing, price, given, t)
           IN  Sound(x, t, t - 1) /\ Grows(b, x)
<1> DEFINE n == 2 * NSymbols
<1>0. n \in Nat /\ NSymbols \in Nat
  BY ExecutionAssumption
<1>1. PICK after : /\ AfterOrders(b, missing, price, given, t) = after[n]
                   /\ after[0] = b
                   /\ \A k \in 1 .. n :
                        after[k] = AfterOrder(after[k - 1], Order(missing, price, k), given, t)
  BY AfterOrdersDef
<1> DEFINE S == {k \in 0 .. n : Sound(after[k], t, t - 1) /\ Grows(b, after[k])}
<1>2. 0 \in S
  BY <1>0, <1>1, GrowsSelf DEF Sound
<1>3. ASSUME NEW k \in 0 .. n, k \in S, k < n PROVE k + 1 \in S
  <2> DEFINE order == Order(missing, price, k + 1)
             s == IF k + 1 <= NSymbols THEN k + 1 ELSE (k + 1) - NSymbols
  <2>1. k + 1 \in 1 .. n /\ (k + 1) - 1 = k
    BY <1>0, <1>3
  <2>2. after[k + 1] = AfterOrder(after[k], order, given, t)
    BY <1>1, <2>1
  <2>3. Sound(after[k], t, t - 1) /\ Grows(b, after[k]) /\ b \in Books /\ after[k] \in Books
    BY <1>3 DEF Sound
  <2>4. s \in Symbols
    BY <1>0, <2>1 DEF Symbols
  <2>5. ASSUME ~(order.wanted <= 0) PROVE order \in OrderRows
    <3>1. missing[s] \in Int /\ price[s] \in Nat
      BY <2>4
    <3>2. order.symbol = s /\ order.price = price[s] /\ order.side \in Sides
          /\ order.wanted \in {missing[s], -missing[s]}
          /\ order = [symbol |-> order.symbol, price |-> order.price, side |-> order.side,
                      wanted |-> order.wanted]
      <4>1. CASE k + 1 <= NSymbols
        <5>1. order = [symbol |-> s, price |-> price[s], side |-> "sell", wanted |-> -missing[s]]
          BY <4>1 DEF Order
        <5> HIDE DEF order, s
        <5> QED BY <5>1 DEF Sides
      <4>2. CASE ~(k + 1 <= NSymbols)
        <5>1. order = [symbol |-> s, price |-> price[s], side |-> "buy", wanted |-> missing[s]]
          BY <4>2 DEF Order
        <5> HIDE DEF order, s
        <5> QED BY <5>1 DEF Sides
      <4> QED BY <4>1, <4>2
    <3> HIDE DEF order, s
    <3>3. order.wanted \in Nat \ {0} /\ missing[s] # 0
      BY <2>5, <3>1, <3>2
    <3> QED BY <2>4, <3>2, <3>3 DEF OrderRows
  <2> HIDE DEF order, s
  <2>6. CASE order.wanted <= 0
    BY <2>1, <2>2, <2>3, <2>6 DEF AfterOrder
  <2>7. CASE ~(order.wanted <= 0)
    <3>1. after[k + 1] = Execute(after[k], order, given[order.symbol], t)
      BY <2>2, <2>7 DEF AfterOrder
    <3>2. Sound(after[k + 1], t, t - 1) /\ Grows(after[k], after[k + 1])
      BY <2>3, <2>5, <2>7, <3>1, ExecuteSound
    <3>3. after[k + 1] \in Books
      BY <3>2 DEF Sound
    <3>4. Grows(b, after[k + 1])
      BY <2>3, <3>2, <3>3, GrowsOn
    <3> QED BY <2>1, <3>2, <3>4
  <2> QED BY <2>6, <2>7
<1>4. 0 .. n \subseteq S
  BY <1>0, <1>2, <1>3, Induct
<1> QED BY <1>0, <1>1, <1>4

LEMMA CloseSound ==
    ASSUME NEW t \in Bars, NEW b, Sound(b, t, t - 1), NEW quote \in QuoteRows
    PROVE  Sound(CloseBar(b, quote, t), t, t) /\ Grows(b, CloseBar(b, quote, t))
<1> DEFINE marks == [s \in Symbols |-> IF quote[s] = NoQuote THEN b.marks[s] ELSE quote[s].close]
           row == [bar |-> t, cash |-> b.cash, value |-> Value(b, marks)]
           x == CloseBar(b, quote, t)
<1>1. /\ b \in Books /\ b.cash \in Nat /\ b.marks \in [Symbols -> Nat]
      /\ b.nav \in Seq(NavRows) /\ b.fills \in Seq(FillRows) /\ b.rejections \in Seq(Refusals)
  BY BookTyped DEF Sound
<1>2. marks \in [Symbols -> Nat]
  <2>1. \A s \in Symbols : quote[s].close \in Nat
    BY QuoteTyped
  <2> QED BY <1>1, <2>1
<1>3. x = WithClose(b, marks, row)
  BY DEF CloseBar, WithClose
<1> HIDE DEF marks
<1>4. row \in NavRows
  BY <1>1, <1>2, ValueTyped DEF NavRows
<1>5. row.bar = t /\ row.cash = b.cash
  OBVIOUS
<1> HIDE DEF row, x
<1>6. /\ x \in Books
      /\ x.cash = b.cash /\ x.lots = b.lots /\ x.fills = b.fills
      /\ x.nav = Append(b.nav, row) /\ x.rejections = b.rejections
  BY <1>1, <1>2, <1>3, <1>4, CloseFields
<1>7. /\ Len(b.nav) \in Nat /\ Len(x.nav) = Len(b.nav) + 1 /\ x.nav[Len(b.nav) + 1] = row
      /\ \A i \in 1 .. Len(b.nav) : x.nav[i] = b.nav[i]
  BY <1>1, <1>4, <1>6
<1>8. t \in Int
  BY DEF Bars
<1>9. \A i \in 1 .. Len(x.nav) : x.nav[i].bar <= t
  <2>1. ASSUME NEW i \in 1 .. Len(b.nav) PROVE b.nav[i].bar <= t
    <3>1. b.nav[i].bar <= t - 1
      BY DEF Sound
    <3>2. b.nav[i].bar \in Int
      <4>1. b.nav[i] \in NavRows
        BY <1>1
      <4> QED BY <4>1 DEF NavRows, Bars
    <3> QED BY <1>8, <3>1, <3>2
  <2>2. ASSUME NEW i \in 1 .. Len(x.nav) PROVE i \in 1 .. Len(b.nav) \/ i = Len(b.nav) + 1
    BY <1>7
  <2>3. row.bar <= t
    BY <1>5, <1>8
  <2> QED BY <1>7, <2>1, <2>2, <2>3
<1>10. NavFits(x)
  <2>1. b.cash = CashAfter(b.fills, t)
    BY <1>1, FillsEnd DEF Sound, CashFits
  <2>2. \A i \in 1 .. Len(b.nav) : b.nav[i].cash = CashAfter(b.fills, b.nav[i].bar)
    BY DEF Sound, NavFits
  <2> QED BY <1>5, <1>6, <1>7, <2>1, <2>2 DEF NavFits
<1>11. Sound(x, t, t)
  BY <1>6, <1>9, <1>10 DEF Sound, Balanced, CashFits
<1>12. Starts(b.fills, x.fills) /\ Starts(b.rejections, x.rejections)
  BY <1>1, <1>6, GrowsSelf DEF Grows
<1>13. Starts(b.nav, x.nav)
  BY <1>1, <1>4, <1>6, StartsAppended
<1> QED BY <1>11, <1>12, <1>13 DEF Grows, x

(* A book is as sound after the bars that are not traded. *)
LEMMA LaterSound ==
    ASSUME NEW t \in Bars, NEW b, Sound(b, t - 1, t - 1)
    PROVE  Sound(b, t, t - 1) /\ Sound(b, t, t)
<1>1. /\ b \in Books /\ b.nav \in Seq(NavRows) /\ b.fills \in Seq(FillRows)
  BY BookTyped DEF Sound
<1>2. t \in Nat \ {0} /\ t <= NBars /\ NBars \in Nat
  BY ExecutionAssumption DEF Bars
<1>3. \A i \in 1 .. Len(b.fills) : b.fills[i].bar <= t
  <2>1. ASSUME NEW i \in 1 .. Len(b.fills) PROVE b.fills[i].bar <= t
    <3>1. b.fills[i].bar <= t - 1
      BY DEF Sound
    <3>2. b.fills[i].bar \in Nat
      <4>1. b.fills[i] \in FillRows
        BY <1>1
      <4> QED BY <4>1, RowTyped
    <3> QED BY <1>2, <3>1, <3>2
  <2> QED BY <2>1
<1>4. \A i \in 1 .. Len(b.nav) : b.nav[i].bar <= t
  <2>1. ASSUME NEW i \in 1 .. Len(b.nav) PROVE b.nav[i].bar <= t
    <3>1. b.nav[i].bar <= t - 1
      BY DEF Sound
    <3>2. b.nav[i].bar \in Int
      <4>1. b.nav[i] \in NavRows
        BY <1>1
      <4> QED BY <4>1 DEF NavRows, Bars
    <3> QED BY <1>2, <3>1, <3>2
  <2> QED BY <2>1
<1>5. DayOf(t - 1) <= DayOf(t) /\ DayOf(t - 1) \in Int /\ DayOf(t) \in Int
  <2>1. Day(t) \in Nat \ {0} /\ DayOf(t) = Day(t)
    BY <1>2, Calendar DEF Days, DayOf
  <2>2. CASE t = 1
    <3>1. DayOf(t - 1) = 1
      BY <2>2 DEF DayOf
    <3> QED BY <2>1, <3>1
  <2>3. CASE t # 1
    <3>1. t - 1 \in Bars /\ t - 1 <= t /\ t - 1 # 0
      BY <1>2, <2>3 DEF Bars
    <3>2. Day(t - 1) <= Day(t) /\ Day(t - 1) \in Nat /\ DayOf(t - 1) = Day(t - 1)
      BY <3>1, Calendar DEF Days, DayOf
    <3> QED BY <2>1, <3>2
  <2> QED BY <2>2, <2>3
<1>6. Balanced(b, t)
  <2>1. ASSUME NEW d \in 0 .. NDays, d >= DayOf(t) - 1 PROVE d >= DayOf(t - 1) - 1
    BY <1>5, <2>1
  <2> QED BY <2>1 DEF Sound, Balanced
<1> QED BY <1>3, <1>4, <1>6 DEF Sound

LEMMA OpenTyped == ASSUME NEW t \in Bars PROVE Open(t) \in Nat /\ Open(t) < Close(t)
BY DEF Bars, Open, Close

(* A bar before its close. *)
Traded(b, quote, known, given, t) ==
    AfterOrders(WithAttempts(b, Attempted(Missing(b, quote, known, t), known)),
                Missing(b, quote, known, t), Prices(b, quote), given, t)

LEMMA RunBarIs ==
    ASSUME NEW b, NEW quote, NEW known, NEW given, NEW t
    PROVE  RunBar(b, quote, known, given, t) = CloseBar(Traded(b, quote, known, given, t), quote, t)
BY DEF RunBar, Traded, WithAttempts

LEMMA TradedSound ==
    ASSUME NEW t \in Bars, NEW b, Sound(b, t - 1, t - 1), NEW quote \in QuoteRows,
           NEW known \in SUBSET NewTargets, NEW n \in Nat, \A x \in known : x.at <= n,
           Distinct(known), NEW given
    PROVE  LET x == Traded(b, quote, known, given, t)
           IN  x \in Books /\ Sound(x, t, t - 1) /\ Grows(b, x)
<1> DEFINE missing == Missing(b, quote, known, t)
           price == Prices(b, quote)
           more == Attempted(missing, known)
           tried == WithAttempts(b, more)
           traded == AfterOrders(tried, missing, price, given, t)
<1>1. traded = Traded(b, quote, known, given, t)
  BY DEF Traded
<1>2. Sound(b, t, t - 1) /\ b \in Books
  BY LaterSound DEF Sound
<1>3. /\ missing \in [Symbols -> Int] /\ price \in [Symbols -> Nat]
      /\ \A s \in Symbols : missing[s] # 0 => known # {} /\ price[s] \in Nat \ {0}
  <2>1. price \in [Symbols -> Nat]
    BY <1>2, PricesTyped
  <2> QED BY <1>2, <2>1, MissingTyped
<1> HIDE DEF missing, price
<1>4. more \in SUBSET (Symbols \X Nat)
  BY <1>3, DecidedTyped DEF Attempted
<1> HIDE DEF more
<1>5. /\ tried \in Books
      /\ tried.cash = b.cash /\ tried.lots = b.lots /\ tried.fills = b.fills
      /\ tried.nav = b.nav /\ tried.rejections = b.rejections
  BY <1>2, <1>4, AttemptFields
<1> HIDE DEF tried
<1>6. Sound(tried, t, t - 1)
  BY <1>2, <1>5 DEF Sound, Balanced, CashFits, NavFits
<1>7. Grows(b, tried)
  BY <1>2, <1>5, GrowsSelf DEF Grows
<1>8. Sound(traded, t, t - 1) /\ Grows(tried, traded) /\ traded \in Books
  BY <1>3, <1>6, OrdersSound DEF Sound
<1> HIDE DEF traded
<1>9. Grows(b, traded)
  BY <1>2, <1>5, <1>7, <1>8, GrowsOn
<1> QED BY <1>1, <1>8, <1>9

LEMMA BarSound ==
    ASSUME NEW t \in Bars, NEW b, Sound(b, t - 1, t - 1), NEW given,
           NEW stored \in [Bars -> QuoteRows], NEW decisions \in SUBSET NewTargets,
           Distinct(decisions)
    PROVE  LET x == AfterBar(b, stored, decisions, given, t) IN Sound(x, t, t) /\ Grows(b, x)
<1> DEFINE known == Known(decisions, Open(t))
           inForce == InForce(given, Open(t))
           quote == stored[t]
           traded == Traded(b, quote, known, inForce, t)
           x == CloseBar(traded, quote, t)
<1>1. b \in Books /\ Sound(b, t, t)
  BY LaterSound DEF Sound
<1>2. Open(t) \in Nat /\ quote \in QuoteRows
  BY OpenTyped
<1>3. known \in SUBSET NewTargets /\ (\A y \in known : y.at <= Open(t)) /\ Distinct(known)
  BY DEF Known, Distinct
<1> HIDE DEF known, inForce, quote
<1>4. traded \in Books /\ Sound(traded, t, t - 1) /\ Grows(b, traded)
  BY <1>2, <1>3, TradedSound
<1> HIDE DEF traded
<1>5. Sound(x, t, t) /\ Grows(traded, x) /\ x \in Books
  BY <1>2, <1>4, CloseSound DEF Sound
<1> HIDE DEF x
<1>6. Grows(b, x)
  BY <1>1, <1>4, <1>5, GrowsOn
<1>7. AfterBar(b, stored, decisions, given, t) = b \/ AfterBar(b, stored, decisions, given, t) = x
  BY RunBarIs DEF AfterBar, x, traded, known, inForce, quote
<1> QED BY <1>1, <1>5, <1>6, <1>7, GrowsSelf

-----------------------------------------------------------------------------
(* Runs *)

LEMMA BookAfterDef ==
    ASSUME NEW stored, NEW decisions, NEW given
    PROVE  LET after == BookAfter(stored, decisions, given) IN
           /\ after[0] = NewBook
           /\ \A t \in Bars : after[t] = AfterBar(after[t - 1], stored, decisions, given, t)
<1> DEFINE Is(g, m) == g = [t \in 0 .. m |-> IF t = 0 THEN NewBook
                              ELSE AfterBar(g[t - 1], stored, decisions, given, t)]
           S == {m \in 0 .. NBars : \E g : Is(g, m)}
<1>0. NBars \in Nat
  BY ExecutionAssumption
<1>1. 0 \in S
  <2> DEFINE h == [t \in 0 .. 0 |-> NewBook]
  <2>1. Is(h, 0)
    OBVIOUS
  <2> HIDE DEF h
  <2> QED BY <1>0, <2>1
<1>2. ASSUME NEW m \in 0 .. NBars, m \in S, m < NBars PROVE m + 1 \in S
  <2>1. PICK g : Is(g, m)
    BY <1>2
  <2> DEFINE last == AfterBar(g[m], stored, decisions, given, m + 1)
             h == [t \in 0 .. m + 1 |-> IF t = m + 1 THEN last ELSE g[t]]
  <2>2. ASSUME NEW t \in 0 .. m + 1
        PROVE  h[t] = IF t = 0 THEN NewBook
                      ELSE AfterBar(h[t - 1], stored, decisions, given, t)
    <3>1. CASE t = m + 1
      <4>1. t # 0 /\ t - 1 = m /\ h[t] = last /\ h[m] = g[m]
        BY <1>0, <3>1
      <4> HIDE DEF h
      <4> QED BY <3>1, <4>1
    <3>2. CASE t \in 0 .. m
      <4>1. g[t] = IF t = 0 THEN NewBook
                   ELSE AfterBar(g[t - 1], stored, decisions, given, t)
        BY <2>1, <3>2
      <4>2. h[t] = g[t] /\ (t # 0 => h[t - 1] = g[t - 1])
        BY <1>0, <3>2
      <4> HIDE DEF h
      <4> QED BY <4>1, <4>2
    <3> QED BY <1>0, <3>1, <3>2
  <2>3. h = [t \in 0 .. m + 1 |-> h[t]]
    OBVIOUS
  <2> HIDE DEF h
  <2>4. Is(h, m + 1)
    BY <2>2, <2>3
  <2> QED BY <1>0, <1>2, <2>4
<1>3. 0 .. NBars \subseteq S
  BY <1>0, <1>1, <1>2, Induct
<1>4. \E g : Is(g, NBars)
  BY <1>0, <1>3
<1> DEFINE after == CHOOSE g : Is(g, NBars)
<1>5. Is(after, NBars)
  BY <1>4
<1>6. BookAfter(stored, decisions, given) = after
  BY DEF BookAfter
<1>7. ASSUME NEW t \in 0 .. NBars
      PROVE  after[t] = IF t = 0 THEN NewBook
                        ELSE AfterBar(after[t - 1], stored, decisions, given, t)
  <2> HIDE DEF after
  <2> DEFINE value == IF t = 0 THEN NewBook
                      ELSE AfterBar(after[t - 1], stored, decisions, given, t)
  <2>1. after[t] = value
    BY <1>5
  <2> QED BY <2>1
<1> HIDE DEF after
<1>8. after[0] = NewBook
  BY <1>0, <1>7
<1>9. \A t \in Bars : after[t] = AfterBar(after[t - 1], stored, decisions, given, t)
  BY <1>0, <1>7 DEF Bars
<1> HIDE DEF Is
<1> QED BY <1>6, <1>8, <1>9

LEMMA SumsZero ==
    ASSUME NEW n \in Nat, NEW f, IntSeq(f, n), \A i \in 1 .. n : f[i] = 0
    PROVE  \A i \in 0 .. n : Sums(f)[i] = 0
<1> DEFINE S == {i \in 0 .. n : Sums(f)[i] = 0}
<1>1. 0 \in S
  BY SumsDef
<1>2. ASSUME NEW i \in 0 .. n, i \in S, i < n PROVE i + 1 \in S
  <2>1. i + 1 \in 1 .. n /\ (i + 1) - 1 = i
    BY <1>2
  <2>2. Sums(f)[i + 1] = Sums(f)[(i + 1) - 1] + f[i + 1]
    BY <2>1, SumsDef
  <2> QED BY <1>2, <2>1, <2>2
<1>3. 0 .. n \subseteq S
  BY <1>1, <1>2, Induct
<1> QED BY <1>3

LEMMA NewBookSound == Sound(NewBook, 0, 0)
<1> DEFINE none == [d \in Days |-> 0]
<1>1. /\ NewBook \in Books
      /\ NewBook.cash = InitialCash /\ NewBook.fills = <<>> /\ NewBook.nav = <<>>
      /\ \A s \in Symbols : NewBook.lots[s] = none
  <2>1. InitialCash \in Nat
    BY ExecutionAssumption
  <2>2. \A S : <<>> \in Seq(S)
    OBVIOUS
  <2>3. {} \in SUBSET (Symbols \X Nat)
    OBVIOUS
  <2>4. [s \in Symbols |-> none] \in [Symbols -> [Days -> Nat]]
    OBVIOUS
  <2>5. [s \in Symbols |-> 0] \in [Symbols -> Nat]
    OBVIOUS
  <2> QED BY <2>1, <2>2, <2>3, <2>4, <2>5 DEF Books, NewBook
<1>2. Len(<<>>) = 0 /\ DOMAIN <<>> = 1 .. 0
  OBVIOUS
<1>3. \A d \in 0 .. NDays : Sums(none)[d] = 0
  <2>1. NDays \in Nat /\ IntSeq(none, NDays) /\ \A i \in 1 .. NDays : none[i] = 0
    BY Calendar DEF IntSeq, Days
  <2> HIDE DEF none
  <2> QED BY <2>1, SumsZero
<1>4. ASSUME NEW s, NEW side, NEW d PROVE Shares(<<>>, s, side, d) = 0
  <2> DEFINE f == [i \in DOMAIN <<>> |->
                    IF <<>>[i].symbol = s /\ <<>>[i].side = side /\ Day(<<>>[i].bar) <= d
                    THEN <<>>[i].size ELSE 0]
  <2>1. IntSeq(f, 0)
    BY <1>2 DEF IntSeq
  <2> HIDE DEF f
  <2>2. Sums(f)[0] = 0
    BY <2>1, SumsDef
  <2> QED BY <1>2, <2>2 DEF Shares, f
<1>5. CashAfter(<<>>, NBars) = InitialCash
  <2> DEFINE f == [i \in DOMAIN <<>> |-> IF <<>>[i].bar <= NBars THEN Amount(<<>>[i]) ELSE 0]
  <2>1. IntSeq(f, 0)
    BY <1>2 DEF IntSeq
  <2> HIDE DEF f
  <2>2. Sums(f)[0] = 0 /\ InitialCash \in Int
    BY <2>1, SumsDef, ExecutionAssumption
  <2> QED BY <1>2, <2>2 DEF CashAfter, f
<1> HIDE DEF none
<1>6. Balanced(NewBook, 0)
  BY <1>1, <1>3, <1>4 DEF Balanced
<1>7. SalesSettled(NewBook.fills)
  BY <1>1, <1>4 DEF SalesSettled
<1> QED BY <1>1, <1>2, <1>5, <1>6, <1>7 DEF Sound, CashFits, NavFits

LEMMA RunSound ==
    ASSUME NEW stored \in [Bars -> QuoteRows], NEW decisions \in SUBSET NewTargets,
           Distinct(decisions), NEW given
    PROVE  LET after == BookAfter(stored, decisions, given) IN
           /\ \A t \in 0 .. NBars : Sound(after[t], t, t)
           /\ \A t \in 0 .. NBars, u \in 0 .. NBars : t <= u => Grows(after[t], after[u])
<1> DEFINE after == BookAfter(stored, decisions, given)
<1>0. NBars \in Nat
  BY ExecutionAssumption
<1>1. after[0] = NewBook
      /\ \A t \in Bars : after[t] = AfterBar(after[t - 1], stored, decisions, given, t)
  BY BookAfterDef
<1> HIDE DEF after
<1> DEFINE S == {u \in 0 .. NBars : /\ Sound(after[u], u, u)
                                    /\ \A t \in 0 .. u : Grows(after[t], after[u])
                                                         /\ after[t] \in Books}
<1>2. 0 \in S
  <2>1. Sound(after[0], 0, 0)
    BY <1>1, NewBookSound
  <2>2. after[0] \in Books /\ 0 \in 0 .. NBars /\ \A t \in 0 .. 0 : t = 0
    BY <1>0, <2>1 DEF Sound
  <2> QED BY <2>1, <2>2, GrowsSelf
<1>3. ASSUME NEW u \in 0 .. NBars, u \in S, u < NBars PROVE u + 1 \in S
  <2>1. u + 1 \in Bars /\ (u + 1) - 1 = u /\ u \in 0 .. u
    BY <1>0, <1>3 DEF Bars
  <2>2. after[u + 1] = AfterBar(after[u], stored, decisions, given, u + 1)
    BY <1>1, <2>1
  <2>3. Sound(after[u + 1], u + 1, u + 1) /\ Grows(after[u], after[u + 1])
    BY <1>3, <2>1, <2>2, BarSound
  <2>4. after[u + 1] \in Books /\ after[u] \in Books
    BY <1>3, <2>1, <2>3 DEF Sound
  <2>5. ASSUME NEW t \in 0 .. u + 1 PROVE Grows(after[t], after[u + 1]) /\ after[t] \in Books
    <3>1. CASE t \in 0 .. u
      BY <1>3, <2>3, <2>4, <3>1, GrowsOn
    <3>2. CASE t = u + 1
      BY <2>4, <3>2, GrowsSelf
    <3> QED BY <2>1, <3>1, <3>2
  <2> QED BY <1>0, <1>3, <2>3, <2>5
<1>4. 0 .. NBars \subseteq S
  BY <1>0, <1>2, <1>3, Induct
<1>5. \A t \in 0 .. NBars : Sound(after[t], t, t)
  BY <1>4
<1>6. ASSUME NEW t \in 0 .. NBars, NEW u \in 0 .. NBars, t <= u PROVE Grows(after[t], after[u])
  <2>1. t \in 0 .. u /\ u \in S
    BY <1>4, <1>6
  <2> QED BY <2>1
<1> QED BY <1>5, <1>6 DEF after

(* Runs agree as long as what they use agrees. *)
Same(storedA, storedB, decisionsA, decisionsB, givenA, givenB, k) ==
    \A t \in 1 .. k : /\ storedA[t] = storedB[t]
                     /\ Known(decisionsA, Open(t)) = Known(decisionsB, Open(t))
                     /\ InForce(givenA, Open(t)) = InForce(givenB, Open(t))

LEMMA RunsAgree ==
    ASSUME NEW storedA, NEW storedB, NEW decisionsA, NEW decisionsB, NEW givenA, NEW givenB,
           NEW k \in 0 .. NBars,
           Same(storedA, storedB, decisionsA, decisionsB, givenA, givenB, k)
    PROVE  BookAfter(storedA, decisionsA, givenA)[k] = BookAfter(storedB, decisionsB, givenB)[k]
<1> DEFINE a == BookAfter(storedA, decisionsA, givenA)
           b == BookAfter(storedB, decisionsB, givenB)
           S == {t \in 0 .. k : a[t] = b[t]}
<1>0. k \in Nat /\ NBars \in Nat
  BY ExecutionAssumption
<1>1. /\ a[0] = NewBook
      /\ \A t \in Bars : a[t] = AfterBar(a[t - 1], storedA, decisionsA, givenA, t)
  BY BookAfterDef
<1>2. /\ b[0] = NewBook
      /\ \A t \in Bars : b[t] = AfterBar(b[t - 1], storedB, decisionsB, givenB, t)
  BY BookAfterDef
<1> HIDE DEF a, b
<1>3. 0 \in S
  BY <1>0, <1>1, <1>2
<1>4. ASSUME NEW i \in 0 .. k, i \in S, i < k PROVE i + 1 \in S
  <2> DEFINE t == i + 1
  <2>1. t \in 1 .. k /\ t \in Bars /\ t - 1 = i /\ t \in 0 .. k
    BY <1>0, <1>4 DEF Bars
  <2> HIDE DEF t
  <2>2. a[t] = AfterBar(a[i], storedA, decisionsA, givenA, t)
    BY <1>1, <2>1
  <2>3. b[t] = AfterBar(b[i], storedB, decisionsB, givenB, t)
    BY <1>2, <2>1
  <2>4. /\ storedA[t] = storedB[t]
        /\ Known(decisionsA, Open(t)) = Known(decisionsB, Open(t))
        /\ InForce(givenA, Open(t)) = InForce(givenB, Open(t))
    BY <2>1 DEF Same
  <2>5. t \in Present(storedA) <=> t \in Present(storedB)
    BY <2>4 DEF Present
  <2>6. a[i] = b[i]
    BY <1>4
  <2>7. a[t] = b[t]
    BY <2>2, <2>3, <2>4, <2>5, <2>6 DEF AfterBar
  <2> QED BY <2>1, <2>7 DEF t
<1>5. 0 .. k \subseteq S
  BY <1>0, <1>3, <1>4, Induct
<1> QED BY <1>0, <1>5 DEF a, b

(* Nothing happens where no bars are. *)
LEMMA RunEnds ==
    ASSUME NEW stored, NEW decisions, NEW given, NEW k \in 0 .. NBars,
           \A t \in Bars : t > k => t \notin Present(stored)
    PROVE  Replay(stored, decisions, given) = BookAfter(stored, decisions, given)[k]
<1> DEFINE a == BookAfter(stored, decisions, given)
           S == {t \in 0 .. NBars : t >= k => a[t] = a[k]}
<1>0. k \in Nat /\ NBars \in Nat /\ k <= NBars
  BY ExecutionAssumption
<1>1. \A t \in Bars : a[t] = AfterBar(a[t - 1], stored, decisions, given, t)
  BY BookAfterDef
<1> HIDE DEF a
<1>2. 0 \in S
  BY <1>0
<1>3. ASSUME NEW i \in 0 .. NBars, i \in S, i < NBars PROVE i + 1 \in S
  <2>1. i + 1 \in Bars /\ (i + 1) - 1 = i /\ i + 1 \in 0 .. NBars
    BY <1>0, <1>3 DEF Bars
  <2>2. CASE i + 1 > k
    <3>1. i + 1 \notin Present(stored) /\ i >= k
      BY <1>0, <2>1, <2>2
    <3>2. a[i + 1] = a[i]
      BY <1>1, <2>1, <3>1 DEF AfterBar
    <3> QED BY <1>3, <2>1, <3>1, <3>2
  <2>3. CASE i + 1 = k
    BY <2>1, <2>3
  <2>4. CASE i + 1 < k
    BY <1>0, <2>1, <2>4
  <2> QED BY <1>0, <2>2, <2>3, <2>4
<1>4. 0 .. NBars \subseteq S
  BY <1>0, <1>2, <1>3, Induct
<1>5. NBars \in S
  BY <1>0, <1>4
<1> QED BY <1>0, <1>5 DEF Replay, a

LEMMA ReplaySound ==
    ASSUME NEW stored \in [Bars -> QuoteRows], NEW decisions \in SUBSET NewTargets,
           Distinct(decisions), NEW given
    PROVE  LET run == Replay(stored, decisions, given) IN run \in Books /\ Sound(run, NBars, NBars)
<1>1. NBars \in 0 .. NBars
  BY ExecutionAssumption
<1> QED BY <1>1, RunSound DEF Replay, Sound

-----------------------------------------------------------------------------
(* The account *)

(* What it has committed is a replay of what it has merged. *)
PaperInv ==
    /\ TypeOK
    /\ books = BooksOf(Replay(bars, targets, rules))
    /\ \E n \in 0 .. NBars : Present(bars) = 1 .. n
    /\ Distinct(targets)
    /\ ~refused

LEMMA LastBarIs ==
    ASSUME NEW n \in 0 .. NBars, Present(bars) = 1 .. n
    PROVE  LastBar = n /\ n \in Nat
<1>1. n \in Nat
  BY ExecutionAssumption
<1>2. CASE n = 0
  BY <1>2 DEF LastBar
<1>3. CASE n # 0
  <2>1. n \in Present(bars) /\ \A u \in Present(bars) : u <= n
    BY <1>1, <1>3
  <2>2. \A t \in Present(bars) : (\A u \in Present(bars) : u <= t) => t = n
    BY <1>1, <2>1
  <2> QED BY <1>1, <2>1, <2>2 DEF LastBar
<1> QED BY <1>1, <1>2, <1>3

LEMMA OpensInOrder ==
    ASSUME NEW t \in Bars, NEW k \in Bars, t <= k
    PROVE  Open(t) <= Open(k) /\ Open(t) < Close(k)
BY DEF Bars, Open, Close

LEMMA MergedBarsTyped ==
    ASSUME PaperInv, NEW newBars \in MergedBars \cup {bars}
    PROVE  /\ newBars \in [Bars -> QuoteRows]
           /\ \E n \in 0 .. NBars : Present(newBars) = 1 .. n
           /\ \A t \in 1 .. LastBar : newBars[t] = bars[t]
<1>1. PICK n \in 0 .. NBars : Present(bars) = 1 .. n
  BY DEF PaperInv
<1>2. LastBar = n /\ n \in Nat /\ NBars \in Nat
  BY <1>1, LastBarIs, ExecutionAssumption
<1>3. bars \in [Bars -> QuoteRows]
  BY DEF PaperInv, TypeOK, QuoteRows
<1>4. CASE newBars = bars
  BY <1>1, <1>3, <1>4
<1>5. CASE newBars # bars
  <2>1. PICK q \in NewQuotes : newBars = [bars EXCEPT ![LastBar + 1] = q]
    BY <1>5 DEF MergedBars
  <2>2. LastBar # NBars
    BY <1>5 DEF MergedBars
  <2>3. n + 1 \in Bars /\ n + 1 \in 0 .. NBars
    BY <1>2, <2>2 DEF Bars
  <2>4. q \in QuoteRows /\ \E s \in Symbols : q[s] # NoQuote
    BY DEF NewQuotes, QuoteRows
  <2>5. /\ newBars \in [Bars -> QuoteRows] /\ newBars[n + 1] = q
        /\ \A t \in Bars : t # n + 1 => newBars[t] = bars[t]
    BY <1>2, <1>3, <2>1, <2>3, <2>4
  <2>6. Present(newBars) = 1 .. n + 1
    <3>1. \A t \in Bars : t # n + 1 => (t \in Present(newBars) <=> t \in Present(bars))
      BY <2>5 DEF Present
    <3>2. n + 1 \in Present(newBars)
      BY <2>3, <2>4, <2>5 DEF Present
    <3>3. Present(newBars) \subseteq Bars /\ Present(bars) \subseteq Bars
      BY DEF Present
    <3>4. Present(newBars) = Present(bars) \cup {n + 1}
      BY <1>1, <1>2, <2>3, <3>1, <3>2, <3>3
    <3>5. (1 .. n) \cup {n + 1} = 1 .. n + 1
      BY <1>2
    <3> QED BY <1>1, <3>4, <3>5
  <2>7. \A t \in 1 .. n : t \in Bars /\ t # n + 1
    BY <1>2 DEF Bars
  <2> QED BY <1>2, <2>3, <2>5, <2>6, <2>7
<1> QED BY <1>4, <1>5

LEMMA MergedTargetsTyped ==
    ASSUME PaperInv, NEW newTargets \in MergedTargets \cup {targets}
    PROVE  /\ newTargets \in SUBSET NewTargets /\ Distinct(newTargets)
           /\ \A t \in 1 .. LastBar : Known(newTargets, Open(t)) = Known(targets, Open(t))
<1>1. targets \in SUBSET NewTargets /\ Distinct(targets)
  BY DEF PaperInv, TypeOK
<1>2. CASE newTargets = targets
  BY <1>1, <1>2
<1>3. CASE newTargets # targets
  <2>1. PICK target \in NewTargets : InTime(target) /\ newTargets = targets \cup {target}
    BY <1>3 DEF MergedTargets
  <2>2. target.at \in Nat /\ \A x \in targets : x.at \in Nat /\ x.at < target.at
    BY <1>1, <2>1, TargetTyped DEF InTime
  <2>3. Distinct(newTargets)
    BY <1>1, <2>1, <2>2 DEF Distinct
  <2>4. ASSUME NEW t \in 1 .. LastBar PROVE ~(target.at <= Open(t))
    <3>1. PICK n \in 0 .. NBars : Present(bars) = 1 .. n
      BY DEF PaperInv
    <3>2. LastBar = n /\ n \in Nat /\ NBars \in Nat
      BY <3>1, LastBarIs, ExecutionAssumption
    <3>3. t \in Bars /\ LastBar \in Bars /\ t <= LastBar
      BY <3>2 DEF Bars
    <3>4. Open(t) < Close(LastBar) /\ Open(t) \in Nat
      BY <3>3, OpensInOrder, OpenTyped
    <3>5. target.at >= Close(LastBar) /\ Close(LastBar) \in Nat
      BY <2>1, <3>2 DEF InTime, Watermark, Close
    <3> QED BY <2>2, <3>4, <3>5
  <2>5. \A t \in 1 .. LastBar : Known(newTargets, Open(t)) = Known(targets, Open(t))
    BY <2>1, <2>4 DEF Known
  <2> QED BY <1>1, <2>1, <2>3, <2>5
<1> QED BY <1>2, <1>3

LEMMA TimelyRules ==
    ASSUME PaperInv, NEW newRules \in SUBSET RuleBook, Timely(newRules)
    PROVE  \A t \in 1 .. LastBar : InForce(rules \cup newRules, Open(t)) = InForce(rules, Open(t))
<1>1. PICK n \in 0 .. NBars : Present(bars) = 1 .. n
  BY DEF PaperInv
<1>2. LastBar = n /\ n \in Nat /\ NBars \in Nat
  BY <1>1, LastBarIs, ExecutionAssumption
<1>3. ASSUME NEW t \in 1 .. LastBar PROVE InForce(rules \cup newRules, Open(t)) = InForce(rules, Open(t))
  <2>1. t \in Bars /\ LastBar \in Bars /\ t <= LastBar /\ Exists
    BY <1>2 DEF Bars, Exists
  <2>2. Open(t) <= Open(LastBar) /\ Open(t) \in Nat /\ Open(LastBar) \in Nat
    BY <2>1, OpensInOrder, OpenTyped
  <2>3. ASSUME NEW r \in newRules PROVE ~(r.effective <= Open(t) /\ r.available <= Open(t))
    <3>1. r.available > Open(LastBar) \/ r.effective > Open(LastBar)
      BY <2>1 DEF Timely
    <3>2. r.available \in Nat /\ r.effective \in Nat
      BY AccountAssumption
    <3> QED BY <2>2, <3>1, <3>2
  <2>4. ASSUME NEW s \in Symbols
        PROVE  {r \in rules \cup newRules :
                   r.symbol = s /\ r.effective <= Open(t) /\ r.available <= Open(t)}
               = {r \in rules : r.symbol = s /\ r.effective <= Open(t) /\ r.available <= Open(t)}
    BY <2>3
  <2>5. ASSUME NEW s \in Symbols
        PROVE  RuleAt(rules \cup newRules, s, Open(t)) = RuleAt(rules, s, Open(t))
    BY <2>4 DEF RuleAt
  <2> QED BY <2>5 DEF InForce
<1> QED BY <1>3

LEMMA PrefixOf ==
    ASSUME NEW S, NEW x \in Seq(S), NEW y \in Seq(S), Starts(x, y)
    PROVE  IsPrefix(x, y)
<1>1. Len(x) \in Nat /\ Len(y) \in Nat /\ Len(x) <= Len(y)
      /\ \A i \in 1 .. Len(x) : y[i] = x[i]
  BY DEF Starts
<1>2. SubSeq(x, 1, Len(x)) = [i \in 1 .. Len(x) |-> x[i]]
  BY <1>1
<1>3. SubSeq(y, 1, Len(x)) = [i \in 1 .. Len(x) |-> y[i]]
  BY <1>1
<1>4. [i \in 1 .. Len(x) |-> x[i]] = [i \in 1 .. Len(x) |-> y[i]]
  BY <1>1
<1> QED BY <1>1, <1>2, <1>3, <1>4 DEF IsPrefix

(* A delivery in time adds to what was done: nothing of it counts before    *)
(* the last bar has closed.                                                 *)
LEMMA OnTimeContinues ==
    ASSUME PaperInv, NEW newBars \in MergedBars \cup {bars},
           NEW newTargets \in MergedTargets \cup {targets},
           NEW newRules \in SUBSET RuleBook, Timely(newRules)
    PROVE  Continues(books, BooksOf(Replay(newBars, newTargets, rules \cup newRules)))
<1> DEFINE k == LastBar
           all == rules \cup newRules
           a == BookAfter(bars, targets, rules)
           b == BookAfter(newBars, newTargets, all)
<1>1. PICK n \in 0 .. NBars : Present(bars) = 1 .. n
  BY DEF PaperInv
<1>2. k = n /\ n \in Nat /\ NBars \in Nat /\ k \in 0 .. NBars
  BY <1>1, LastBarIs, ExecutionAssumption
<1>3. /\ newBars \in [Bars -> QuoteRows]
      /\ newTargets \in SUBSET NewTargets /\ Distinct(newTargets)
  BY MergedBarsTyped, MergedTargetsTyped
<1>4. Same(bars, newBars, targets, newTargets, rules, all, k)
  BY MergedBarsTyped, MergedTargetsTyped, TimelyRules DEF Same
<1>5. \A t \in Bars : t > k => t \notin Present(bars)
  BY <1>1, <1>2
<1> HIDE DEF k, all
<1>6. a[k] = b[k]
  BY <1>2, <1>4, RunsAgree
<1>7. Replay(bars, targets, rules) = a[k]
  BY <1>2, <1>5, RunEnds
<1>8. Replay(newBars, newTargets, all) = b[NBars]
  BY DEF Replay
<1>9. NBars \in 0 .. NBars /\ k <= NBars
  BY <1>2
<1>10. Grows(b[k], b[NBars]) /\ b[k] \in Books /\ b[NBars] \in Books
  BY <1>2, <1>3, <1>9, RunSound DEF Sound
<1>11. /\ books.nav = b[k].nav /\ books.fills = b[k].fills
       /\ books.rejections = b[k].rejections
  BY <1>6, <1>7 DEF PaperInv, BooksOf
<1> HIDE DEF a, b
<1>12. IsPrefix(books.nav, b[NBars].nav)
  BY <1>10, <1>11, BookTyped, PrefixOf DEF Grows
<1>13. IsPrefix(books.fills, b[NBars].fills)
  BY <1>10, <1>11, BookTyped, PrefixOf DEF Grows
<1>14. IsPrefix(books.rejections, b[NBars].rejections)
  BY <1>10, <1>11, BookTyped, PrefixOf DEF Grows
<1> QED BY <1>8, <1>12, <1>13, <1>14 DEF Continues, BooksOf, all

LEMMA BooksTyped ==
    ASSUME NEW run \in Books
    PROVE  LET new == BooksOf(run) IN
           /\ \A i \in DOMAIN new.nav : new.nav[i] \in [bar : Bars, cash : Nat, value : Nat]
           /\ \A i \in DOMAIN new.fills :
                new.fills[i] \in [bar : Bars, symbol : Symbols, side : {"buy", "sell"},
                                  size : Nat \ {0}, price : Nat \ {0}]
           /\ \A i \in DOMAIN new.rejections : new.rejections[i].size < new.rejections[i].wanted
<1>1. /\ BooksOf(run).nav = run.nav /\ BooksOf(run).fills = run.fills
      /\ BooksOf(run).rejections = run.rejections
  BY DEF BooksOf
<1>2. run.nav \in Seq(NavRows) /\ run.fills \in Seq(FillRows) /\ run.rejections \in Seq(Refusals)
  BY BookTyped
<1>3. \A S : \A x \in Seq(S) : \A i \in DOMAIN x : x[i] \in S
  OBVIOUS
<1>4. \A i \in DOMAIN run.nav : run.nav[i] \in NavRows
  BY <1>2, <1>3
<1>5. \A i \in DOMAIN run.fills : run.fills[i] \in FillRows
  BY <1>2, <1>3
<1>6. \A i \in DOMAIN run.rejections : run.rejections[i] \in Refusals
  BY <1>2, <1>3
<1>7. \A row \in Refusals : row.size < row.wanted
  BY DEF Refusals
<1> QED BY <1>1, <1>4, <1>5, <1>6, <1>7 DEF NavRows, FillRows, Sides

LEMMA InitInv == Init => PaperInv
<1> SUFFICES ASSUME Init PROVE PaperInv
  OBVIOUS
<1>0. NBars \in Nat
  BY ExecutionAssumption
<1>1. Present(bars) = {}
  BY DEF Init, Present, Nothing
<1>2. Present(bars) = 1 .. 0 /\ 0 \in 0 .. NBars
  BY <1>0, <1>1
<1>3. Distinct(targets)
  BY DEF Init, Distinct
<1>4. Replay(bars, targets, rules) = NewBook
  <2>1. Replay(bars, targets, rules) = BookAfter(bars, targets, rules)[0]
    BY <1>1, <1>2, RunEnds
  <2> QED BY <2>1, BookAfterDef
<1>5. books = BooksOf(NewBook)
  BY DEF Init, NoBooks, NewBook, BooksOf
<1>6. NewBook \in Books
  BY NewBookSound DEF Sound
<1>7. bars \in [Bars -> [Symbols -> Quotes \cup {NoQuote}]] /\ targets \subseteq NewTargets
      /\ rules \subseteq RuleBook /\ refused \in BOOLEAN
  BY DEF Init, Nothing
<1>8. TypeOK
  BY <1>5, <1>6, <1>7, BooksTyped DEF TypeOK
<1>9. ~refused
  BY DEF Init
<1> QED BY <1>2, <1>3, <1>4, <1>5, <1>8, <1>9 DEF PaperInv

LEMMA AdvanceInv ==
    ASSUME PaperInv, NEW newBars \in MergedBars \cup {bars},
           NEW newTargets \in MergedTargets \cup {targets},
           NEW newRules \in SUBSET RuleBook, Advance(newBars, newTargets, newRules)
    PROVE  PaperInv'
<1> DEFINE all == rules \cup newRules
           run == Replay(newBars, newTargets, all)
           new == BooksOf(run)
<1>1. /\ newBars \in [Bars -> QuoteRows]
      /\ \E n \in 0 .. NBars : Present(newBars) = 1 .. n
      /\ newTargets \in SUBSET NewTargets /\ Distinct(newTargets)
  BY MergedBarsTyped, MergedTargetsTyped
<1>2. run \in Books
  BY <1>1, ReplaySound
<1>3. all \subseteq RuleBook
  BY DEF PaperInv, TypeOK
<1>4. CASE /\ bars' = newBars /\ targets' = newTargets /\ rules' = all
           /\ books' = new /\ UNCHANGED refused
  <2>1. books' = BooksOf(Replay(bars', targets', rules'))
    BY <1>4
  <2>2. \E n \in 0 .. NBars : Present(bars') = 1 .. n
    BY <1>1, <1>4
  <2>3. Distinct(targets')
    BY <1>1, <1>4
  <2>4. ~refused'
    BY <1>4 DEF PaperInv
  <2> HIDE DEF run, all
  <2>5. TypeOK'
    BY <1>1, <1>2, <1>3, <1>4, BooksTyped DEF PaperInv, TypeOK, QuoteRows
  <2> QED BY <2>1, <2>2, <2>3, <2>4, <2>5 DEF PaperInv, Distinct, Present
<1>5. CASE /\ ~Continues(books, new)
           /\ refused' = (refused \/ Timely(newRules))
           /\ UNCHANGED <<bars, targets, rules, books>>
  <2>1. ~Timely(newRules)
    BY <1>5, OnTimeContinues
  <2>2. refused' = FALSE
    BY <1>5, <2>1 DEF PaperInv
  <2>3. TypeOK'
    BY <1>5, <2>2 DEF PaperInv, TypeOK
  <2> QED BY <1>5, <2>2, <2>3 DEF PaperInv, Distinct, Present
<1> QED BY <1>4, <1>5 DEF Advance

LEMMA NextInv == PaperInv /\ [Next]_vars => PaperInv'
<1> SUFFICES ASSUME PaperInv, [Next]_vars PROVE PaperInv'
  OBVIOUS
<1>1. ASSUME First PROVE PaperInv'
  BY <1>1, AdvanceInv DEF First, Create
<1>2. ASSUME NEW newBars \in MergedBars, DeliverBars(newBars) PROVE PaperInv'
  <2>1. Advance(newBars, targets, {}) /\ {} \in SUBSET RuleBook
    BY <1>2 DEF DeliverBars
  <2> QED BY <2>1, AdvanceInv
<1>3. ASSUME NEW newBars \in MergedBars \cup {bars}, NEW newTargets \in MergedTargets,
             DeliverTarget(newBars, newTargets)
      PROVE  PaperInv'
  <2>1. Advance(newBars, newTargets, {}) /\ {} \in SUBSET RuleBook
    BY <1>3 DEF DeliverTarget
  <2> QED BY <2>1, AdvanceInv
<1>4. ASSUME NEW rule \in RuleBook \ rules, DeliverRule(rule) PROVE PaperInv'
  <2>1. Advance(bars, targets, {rule}) /\ {rule} \in SUBSET RuleBook
    BY <1>4 DEF DeliverRule
  <2> QED BY <2>1, AdvanceInv
<1>5. ASSUME UNCHANGED vars PROVE PaperInv'
  BY <1>5 DEF vars, PaperInv, TypeOK, Distinct, Present
<1> QED BY <1>1, <1>2, <1>3, <1>4, <1>5 DEF Next, More

(* The books of a sound run balance. *)
LEMMA SoundBalances ==
    ASSUME NEW run, Sound(run, NBars, NBars), books = BooksOf(run)
    PROVE  BooksBalance
<1>1. books.nav = run.nav /\ books.fills = run.fills
  BY DEF BooksOf
<1>2. run \in Books /\ run.nav \in Seq(NavRows)
  BY BookTyped DEF Sound
<1>3. ASSUME NEW i \in DOMAIN books.nav
      PROVE  books.nav[i].cash >= 0
             /\ books.nav[i].cash = CashAfter(books.fills, books.nav[i].bar)
  <2>1. i \in 1 .. Len(run.nav) /\ run.nav[i] \in NavRows
    BY <1>1, <1>2, <1>3
  <2>2. run.nav[i].cash \in Nat
    BY <2>1 DEF NavRows
  <2> QED BY <1>1, <2>1, <2>2 DEF Sound, NavFits
<1>4. \A s \in Symbols, d \in Days :
        Shares(books.fills, s, "sell", d) <= Shares(books.fills, s, "buy", d - 1)
  BY <1>1 DEF Sound, SalesSettled
<1> QED BY <1>3, <1>4 DEF BooksBalance

(* A bar with another close, of the symbols that are traded in it. *)
SameOpen(one, other) ==
    \A s \in Symbols : /\ one[s].open = other[s].open
                       /\ (one[s] = NoQuote) <=> (other[s] = NoQuote)

LEMMA TradedAtOpen ==
    ASSUME NEW one, NEW other, SameOpen(one, other), NEW b, NEW known, NEW given, NEW t
    PROVE  Traded(b, one, known, given, t) = Traded(b, other, known, given, t)
<1>1. Prices(b, one) = Prices(b, other)
  BY DEF Prices, SameOpen
<1> DEFINE price == Prices(b, one)
           equity == b.cash + Value(b, price)
           size(s) == (equity * Latest(known).weights[s]) \div (Parts * price[s]) - Quantity(b, s)
<1>2. Missing(b, one, known, t)
        = [s \in Symbols |-> IF known # {} /\ one[s] # NoQuote /\ MayTrade(b, known, s, t)
                             THEN size(s) ELSE 0]
  BY DEF Missing
<1>3. Missing(b, other, known, t)
        = [s \in Symbols |-> IF known # {} /\ other[s] # NoQuote /\ MayTrade(b, known, s, t)
                             THEN size(s) ELSE 0]
  BY <1>1 DEF Missing
<1> HIDE DEF size
<1>4. Missing(b, one, known, t) = Missing(b, other, known, t)
  BY <1>2, <1>3 DEF SameOpen
<1> QED BY <1>1, <1>4 DEF Traded

LEMMA ClosedFields ==
    ASSUME NEW b \in Books, NEW quote, NEW t
    PROVE  /\ CloseBar(b, quote, t).fills = b.fills
           /\ CloseBar(b, quote, t).rejections = b.rejections
BY DEF Books, CloseBar

LEMMA CloseIgnored == PaperInv => CloseDecidesNothing
<1> SUFFICES ASSUME PaperInv, Exists PROVE CloseDecidesNothing
  BY DEF CloseDecidesNothing
<1> DEFINE k == LastBar
           quote == bars[k]
           moved == [s \in Symbols |-> [bars[LastBar][s] EXCEPT !.close = 2 * @]]
           other == [bars EXCEPT ![LastBar] = moved]
           known == Known(targets, Open(k))
           given == InForce(rules, Open(k))
           a == BookAfter(bars, targets, rules)
           b == BookAfter(other, targets, rules)
<1>1. PICK n \in 0 .. NBars : Present(bars) = 1 .. n
  BY DEF PaperInv
<1>2. k = n /\ k \in Nat \ {0} /\ NBars \in Nat /\ k <= NBars
  BY <1>1, LastBarIs, ExecutionAssumption DEF Exists
<1>3. k \in Bars /\ k - 1 \in 0 .. NBars /\ k \in 0 .. NBars
  BY <1>2 DEF Bars
<1>4. bars \in [Bars -> QuoteRows] /\ targets \in SUBSET NewTargets /\ Distinct(targets)
  BY DEF PaperInv, TypeOK, QuoteRows
<1>5. ASSUME NEW s \in Symbols
      PROVE  quote[s].open = moved[s].open /\ (quote[s] = NoQuote <=> moved[s] = NoQuote)
  <2>1. quote \in QuoteRows
    BY <1>3, <1>4
  <2>2. quote[s].open \in Nat /\ (quote[s] # NoQuote => quote[s].open # 0)
    BY <2>1, QuoteTyped
  <2>3. quote[s] \in [open : Nat, close : Nat]
    <3>1. quote[s] \in Quotes \/ quote[s] = NoQuote
      BY <2>1 DEF QuoteRows
    <3>2. NoQuote \in [open : Nat, close : Nat]
      BY DEF NoQuote
    <3> QED BY <3>1, <3>2, ExecutionAssumption
  <2>4. moved[s] = [open |-> quote[s].open, close |-> 2 * quote[s].close]
    BY <2>3
  <2>5. moved[s].open = quote[s].open
    BY <2>4
  <2>6. quote[s] = NoQuote => moved[s] = NoQuote
    <3>1. 2 * 0 = 0
      OBVIOUS
    <3> QED BY <2>4, <3>1 DEF NoQuote
  <2>7. NoQuote.open = 0
    BY DEF NoQuote
  <2> HIDE DEF moved, quote
  <2> QED BY <2>2, <2>5, <2>6, <2>7
<1>6. SameOpen(quote, moved)
  BY <1>5 DEF SameOpen
<1>7. other[k] = moved /\ \A t \in Bars : t # k => other[t] = bars[t]
  BY <1>3, <1>4
<1> HIDE DEF moved, other
<1>8. \A t \in Bars : t \in Present(other) <=> t \in Present(bars)
  BY <1>5, <1>7 DEF Present
<1>9. \A t \in Bars : t > k => t \notin Present(bars)
  BY <1>1, <1>2
<1>10. k \in Present(bars)
  BY <1>1, <1>2
<1> HIDE DEF k
<1>11. a[k - 1] = b[k - 1]
  <2>1. Same(bars, other, targets, targets, rules, rules, k - 1)
    <3>1. \A t \in 1 .. k - 1 : t \in Bars /\ t # k
      BY <1>2 DEF Bars
    <3> QED BY <1>7, <3>1 DEF Same
  <2> QED BY <1>3, <2>1, RunsAgree
<1>12. a[k] = AfterBar(a[k - 1], bars, targets, rules, k)
  BY <1>3, BookAfterDef
<1>13. b[k] = AfterBar(b[k - 1], other, targets, rules, k)
  BY <1>3, BookAfterDef
<1>14. Replay(bars, targets, rules) = a[k]
  BY <1>3, <1>9, RunEnds
<1>15. Replay(other, targets, rules) = b[k]
  BY <1>3, <1>8, <1>9, RunEnds
<1>16. Sound(a[k - 1], k - 1, k - 1)
  BY <1>3, <1>4, RunSound
<1> HIDE DEF a, b
<1> DEFINE traded == Traded(a[k - 1], quote, known, given, k)
<1>17. a[k] = CloseBar(traded, quote, k)
  BY <1>10, <1>12, RunBarIs DEF AfterBar
<1>18. b[k] = CloseBar(Traded(a[k - 1], moved, known, given, k), moved, k)
  BY <1>3, <1>7, <1>8, <1>10, <1>11, <1>13, RunBarIs DEF AfterBar
<1>19. traded = Traded(a[k - 1], moved, known, given, k)
  BY <1>6, TradedAtOpen
<1>20. traded \in Books
  <2>1. known \in SUBSET NewTargets /\ (\A y \in known : y.at <= Open(k)) /\ Distinct(known)
    BY <1>4 DEF Known, Distinct
  <2>2. Open(k) \in Nat /\ quote \in QuoteRows
    BY <1>3, <1>4, OpenTyped
  <2> HIDE DEF known, given, quote
  <2> QED BY <1>3, <1>16, <2>1, <2>2, TradedSound
<1> HIDE DEF traded, known, given, quote
<1>21. a[k].fills = b[k].fills /\ a[k].rejections = b[k].rejections
  BY <1>17, <1>18, <1>19, <1>20, ClosedFields
<1>22. books.fills = a[k].fills /\ books.rejections = a[k].rejections
  BY <1>14 DEF PaperInv, BooksOf
<1>23. /\ Replay(other, targets, rules).fills = books.fills
       /\ Replay(other, targets, rules).rejections = books.rejections
  BY <1>15, <1>21, <1>22
<1> QED BY <1>23 DEF CloseDecidesNothing, other, moved

-----------------------------------------------------------------------------
(* Theorems *)

(* The books of an account are what a replay of all that was merged gives, *)
(* its bars have no gap and its targets are of different times.             *)
THEOREM AccountIsReplay == Spec => []PaperInv
BY InitInv, NextInv, PTL DEF Spec

(* Bars, targets, rules and the committed books keep their types: every     *)
(* rejection is of an order that was not filled in full (dynamic_paper.py). *)
THEOREM AccountTypeCorrect == Spec => []TypeOK
<1>1. PaperInv => TypeOK
  BY DEF PaperInv
<1> QED BY <1>1, AccountIsReplay, PTL

(* advance never answers HISTORY_REWRITE to a delivery whose rules were     *)
(* published in time.                                                       *)
THEOREM DeliveriesInTimeAccepted == Spec => []OnTimeIsAccepted
<1>1. PaperInv => OnTimeIsAccepted
  BY DEF PaperInv, OnTimeIsAccepted
<1> QED BY <1>1, AccountIsReplay, PTL

(* "Current bar high/low/close/volume never decide fills" (backtest.py):    *)
(* whatever the account has merged, its last bar fills and rejects the same *)
(* orders with another close.                                               *)
THEOREM FillsIgnoreClose == Spec => []CloseDecidesNothing
BY CloseIgnored, AccountIsReplay, PTL

(* The cash of every row of the account's history is what its fills have    *)
(* left of the initial cash and never below zero, and up to every day no    *)
(* more of a symbol has been sold than was bought before that day (T+1).    *)
THEOREM AccountBalances == Spec => []BooksBalance
<1>1. PaperInv => BooksBalance
  <2> SUFFICES ASSUME PaperInv PROVE BooksBalance
    OBVIOUS
  <2>1. bars \in [Bars -> QuoteRows] /\ targets \in SUBSET NewTargets /\ Distinct(targets)
    BY DEF PaperInv, TypeOK, QuoteRows
  <2>2. Sound(Replay(bars, targets, rules), NBars, NBars)
    BY <2>1, ReplaySound
  <2> QED BY <2>2, SoundBalances DEF PaperInv
<1> QED BY <1>1, AccountIsReplay, PTL
=============================================================================
