--------------------------- MODULE BacktestProofs ---------------------------
(***************************************************************************)
(* Proofs about OrderManager and about Backtest, for any prices, clip,     *)
(* limits, BBOs, events and numbers of updates and orders.                 *)
(*                                                                         *)
(* The three safety properties of OrderManager follow from one inductive   *)
(* invariant.  It says of each side that whatever is in flight or open is  *)
(* about the order now in the slot, in the order in which an exchange      *)
(* deals with one order: the request, ACCEPTED, then fills that leave less *)
(* and less, then at most one response that ends the order.                *)
(*                                                                         *)
(* FillSimulator implements the exchange that OrderManager expects; since  *)
(* every step of a backtest is then a step of OrderManager or leaves it    *)
(* alone, that invariant is one of backtests too, and its first use is in  *)
(* that very argument: that a NEW finds its id free and that an event      *)
(* fills one order at most.                                                *)
(***************************************************************************)
EXTENDS Backtest, WellFoundedInduction, SequenceTheorems, FiniteSetTheorems, TLAPS

-----------------------------------------------------------------------------
(* Sums over sequences.  A recursive definition is reasoned about through  *)
(* the least number at which a claim fails.                                *)

(* < on the natural numbers as a set of pairs *)
Less == {p \in Nat \X Nat : p[1] < p[2]}

(* Every set of naturals has a least element: the induction of the lemmas below. *)
LEMMA LeastElement ==
  ASSUME NEW T \in SUBSET Nat, T # {}
  PROVE  \E n \in T : \A m \in T : n <= m
<1>1. IsWellFoundedOn(Less, Nat)
  BY NatLessThanWellFounded DEF OpToRel, Less
<1>2. PICK n \in T : \A m \in T : ~(<<m, n>> \in Less)
  BY <1>1, WFMin, Zenon
<1>3. ASSUME NEW m \in T, m < n PROVE FALSE
  <2>1. <<m, n>> \in Nat \X Nat
    OBVIOUS
  <2>2. <<m, n>>[1] < <<m, n>>[2]
    BY <1>3
  <2> QED BY <2>1, <2>2, <1>2 DEF Less
<1> QED BY <1>3

(* t holds the sums of the first i elements of q. *)
Sums(t, q, n) ==
  /\ t \in [0 .. n -> Int]
  /\ t[0] = 0
  /\ \A i \in 1 .. n : t[i] = t[i - 1] + q[i]

(* The partial sums exist. *)
LEMMA SumsExist ==
  ASSUME NEW q \in Seq(Int), NEW n \in 0 .. Len(q)
  PROVE  \E t : Sums(t, q, n)
<1> DEFINE T == {k \in 0 .. Len(q) : ~\E t : Sums(t, q, k)}
<1> SUFFICES ASSUME T # {} PROVE FALSE
  OBVIOUS
<1>1. PICK k \in T : \A m \in T : k <= m
  <2>1. T \in SUBSET Nat
    OBVIOUS
  <2> QED BY <2>1, LeastElement
<1>2. CASE k = 0
  <2>1. Sums([i \in 0 .. 0 |-> 0], q, 0)
    BY DEF Sums
  <2> QED BY <2>1, <1>1, <1>2
<1>3. CASE k # 0
  <2>1. k - 1 \in 0 .. Len(q) /\ k - 1 \notin T
    BY <1>1, <1>3
  <2>2. PICK t : Sums(t, q, k - 1)
    BY <2>1
  <2> DEFINE u == [i \in 0 .. k |-> IF i = k THEN t[k - 1] + q[k] ELSE t[i]]
  <2>3. Sums(u, q, k)
    <3>1. u \in [0 .. k -> Int]
      BY <2>2, <1>1, <1>3 DEF Sums
    <3>2. u[0] = 0
      BY <2>2, <1>3 DEF Sums
    <3>3. ASSUME NEW i \in 1 .. k PROVE u[i] = u[i - 1] + q[i]
      BY <2>2, <1>1, <1>3 DEF Sums
    <3> QED BY <3>1, <3>2, <3>3 DEF Sums
  <2> QED BY <2>3, <1>1
<1> QED BY <1>2, <1>3

(* Total is the last of the partial sums. *)
LEMMA TotalIs ==
  ASSUME NEW q \in Seq(Int), NEW u, Sums(u, q, Len(q))
  PROVE  Total(q) = u[Len(q)] /\ Total(q) \in Int
<1> DEFINE n == Len(q)
           F(g) == [i \in 0 .. n |-> IF i = 0 THEN 0 ELSE g[i - 1] + q[i]]
           it == CHOOSE g : g = F(g)
<1>1. n \in Nat /\ u[n] \in Int
  BY DEF Sums
<1>2. u = F(u)
  BY <1>1 DEF Sums
<1>3. it = F(it)
  <2> HIDE DEF F
  <2> QED BY <1>2
<1>4. Total(q) = it[n]
  BY DEF Total
<1>5. it[0] = 0 /\ \A i \in 1 .. n : it[i] = it[i - 1] + q[i]
  <2> HIDE DEF it
  <2> QED BY <1>3, <1>1
<1> DEFINE T == {k \in 0 .. n : it[k] # u[k]}
<1> HIDE DEF it
<1>6. ASSUME T # {} PROVE FALSE
  <2>1. T \in SUBSET Nat
    OBVIOUS
  <2>2. PICK k \in T : \A m \in T : k <= m
    BY <2>1, <1>6, LeastElement
  <2>3. k # 0
    BY <1>5 DEF Sums
  <2>4. k - 1 \in 0 .. n /\ k - 1 \notin T
    BY <2>2, <2>3
  <2>5. k \in 1 .. n /\ it[k - 1] = u[k - 1]
    BY <2>3, <2>4
  <2> QED BY <2>5, <1>5 DEF Sums
<1>7. it[n] = u[n]
  BY <1>6, <1>1
<1> QED BY <1>7, <1>4, <1>1

(* A sum is an integer. *)
LEMMA TotalType ==
  ASSUME NEW q \in Seq(Int)
  PROVE  Total(q) \in Int
<1>1. PICK t : Sums(t, q, Len(q))
  BY SumsExist
<1> QED BY <1>1, TotalIs

(* The sum of nothing. *)
LEMMA TotalEmpty == Total(<< >>) = 0
<1>1. Sums([i \in 0 .. 0 |-> 0], << >>, 0)
  BY DEF Sums
<1>2. << >> \in Seq(Int) /\ Len(<< >>) = 0
  OBVIOUS
<1> QED BY <1>1, <1>2, TotalIs

(* The sum of zeroes. *)
LEMMA TotalZero ==
  ASSUME NEW q \in Seq(Int), \A i \in 1 .. Len(q) : q[i] = 0
  PROVE  Total(q) = 0
<1> DEFINE u == [i \in 0 .. Len(q) |-> 0]
<1>1. Sums(u, q, Len(q))
  BY DEF Sums
<1>2. u[Len(q)] = 0
  OBVIOUS
<1> QED BY <1>1, <1>2, TotalIs

(* A sum grows by what is appended. *)
LEMMA TotalAppend ==
  ASSUME NEW q \in Seq(Int), NEW x \in Int
  PROVE  Total(Append(q, x)) = Total(q) + x
<1> DEFINE n == Len(q)
<1>1. PICK t : Sums(t, q, n)
  BY SumsExist
<1> DEFINE u == [i \in 0 .. n + 1 |-> IF i = n + 1 THEN t[n] + x ELSE t[i]]
<1>2. /\ Append(q, x) \in Seq(Int) /\ Len(Append(q, x)) = n + 1
      /\ \A i \in 1 .. n + 1 : Append(q, x)[i] = IF i = n + 1 THEN x ELSE q[i]
  OBVIOUS
<1>3. Sums(u, Append(q, x), n + 1)
  <2>1. u \in [0 .. n + 1 -> Int]
    BY <1>1 DEF Sums
  <2>2. u[0] = 0
    BY <1>1 DEF Sums
  <2>3. ASSUME NEW i \in 1 .. n + 1 PROVE u[i] = u[i - 1] + Append(q, x)[i]
    <3>1. CASE i = n + 1
      BY <3>1, <1>2, <1>1 DEF Sums
    <3>2. CASE i # n + 1
      <4>1. i \in 1 .. n /\ u[i] = t[i] /\ u[i - 1] = t[i - 1]
        BY <3>2
      <4> QED BY <4>1, <1>2, <1>1, <3>2 DEF Sums
    <3> QED BY <3>1, <3>2
  <2> QED BY <2>1, <2>2, <2>3 DEF Sums
<1>4. Total(Append(q, x)) = u[n + 1]
  BY <1>2, <1>3, TotalIs
<1>5. Total(q) = t[n]
  BY <1>1, TotalIs
<1> QED BY <1>4, <1>5

(* The other elements of a sequence of numbers. *)
LEMMA TailElements ==
  ASSUME NEW q \in Seq(Int), q # << >>
  PROVE  /\ Tail(q) \in Seq(Int) /\ Len(Tail(q)) = Len(q) - 1
         /\ \A i \in 1 .. Len(q) - 1 : Tail(q)[i] = q[i + 1]
OBVIOUS

(* A sum is the first element and the sum of the others. *)
LEMMA TotalTail ==
  ASSUME NEW q \in Seq(Int), q # << >>
  PROVE  Total(q) = q[1] + Total(Tail(q))
<1> DEFINE n == Len(q)
<1>0. n \in Nat /\ n >= 1
  OBVIOUS
<1>1. PICK t : Sums(t, q, n)
  BY SumsExist
<1> DEFINE u == [i \in 0 .. n - 1 |-> t[i + 1] - t[1]]
<1>2. /\ Tail(q) \in Seq(Int) /\ Len(Tail(q)) = n - 1
      /\ \A i \in 1 .. n - 1 : Tail(q)[i] = q[i + 1]
  BY TailElements
<1>3. Sums(u, Tail(q), n - 1)
  <2>1. u \in [0 .. n - 1 -> Int]
    BY <1>0, <1>1 DEF Sums
  <2>2. u[0] = 0
    BY <1>0, <1>1 DEF Sums
  <2>3. ASSUME NEW i \in 1 .. n - 1 PROVE u[i] = u[i - 1] + Tail(q)[i]
    <3>1. i + 1 \in 1 .. n /\ u[i] = t[i + 1] - t[1] /\ u[i - 1] = t[i] - t[1] /\ Tail(q)[i] = q[i + 1]
      BY <1>0, <1>2
    <3>2. t[i + 1] = t[i] + q[i + 1]
      BY <3>1, <1>1 DEF Sums
    <3>3. t[i] \in Int /\ t[1] \in Int /\ q[i + 1] \in Int
      BY <3>1, <1>1, <1>0 DEF Sums
    <3> QED BY <3>1, <3>2, <3>3
  <2> QED BY <2>1, <2>2, <2>3 DEF Sums
<1>4. Total(Tail(q)) = u[n - 1]
  BY <1>2, <1>3, TotalIs
<1>5. Total(q) = t[n]
  BY <1>1, TotalIs
<1>6. t[1] = q[1] /\ t[n] \in Int /\ t[1] \in Int
  BY <1>1, <1>0 DEF Sums
<1> QED BY <1>4, <1>5, <1>6, <1>0
(* The sum of what follows the i-th element. *)
Rest(q, i) == Total(SubSeq(q, i + 1, Len(q)))

(* Sums of a suffix, when the sequence grows at its end or loses its head. *)
LEMMA RestAppend ==
  ASSUME NEW q \in Seq(Int), NEW x \in Int, NEW i \in 0 .. Len(q)
  PROVE  Rest(Append(q, x), i) = Rest(q, i) + x
<1> DEFINE a == SubSeq(q, i + 1, Len(q))
<1>1. a \in Seq(Int) /\ Len(a) = Len(q) - i /\ \A j \in 1 .. Len(q) - i : a[j] = q[i + j]
  OBVIOUS
<1>2. SubSeq(Append(q, x), i + 1, Len(q) + 1) = Append(a, x)
  <2> DEFINE b == SubSeq(Append(q, x), i + 1, Len(q) + 1)
  <2>1. /\ Append(q, x) \in Seq(Int) /\ Len(Append(q, x)) = Len(q) + 1
        /\ \A j \in 1 .. Len(q) + 1 : Append(q, x)[j] = IF j = Len(q) + 1 THEN x ELSE q[j]
    OBVIOUS
  <2>2. /\ b \in Seq(Int) /\ Len(b) = Len(q) - i + 1
        /\ \A j \in 1 .. Len(q) - i + 1 : b[j] = Append(q, x)[i + j]
    <3> HIDE DEF a
    <3>1. \A j \in i + 1 .. Len(q) + 1 : Append(q, x)[j] \in Int
      BY <2>1
    <3> QED BY <3>1, SubSeqProperties
  <2> HIDE DEF a, b
  <2>3. /\ Append(a, x) \in Seq(Int) /\ Len(Append(a, x)) = Len(a) + 1
        /\ \A j \in 1 .. Len(a) : Append(a, x)[j] = a[j]
        /\ Append(a, x)[Len(a) + 1] = x
    BY <1>1, AppendProperties
  <2>4. ASSUME NEW j \in 1 .. Len(q) - i + 1 PROVE b[j] = Append(a, x)[j]
    <3>0. b[j] = Append(q, x)[i + j] /\ i + j \in 1 .. Len(q) + 1
      BY <2>2
    <3>1. CASE j = Len(q) - i + 1
      <4>1. i + j = Len(q) + 1 /\ j = Len(a) + 1
        BY <3>1, <1>1
      <4> QED BY <4>1, <3>0, <2>1, <2>3
    <3>2. CASE j # Len(q) - i + 1
      <4>1. i + j # Len(q) + 1 /\ j \in 1 .. Len(a)
        BY <3>2, <1>1
      <4> QED BY <4>1, <3>0, <2>1, <2>3, <1>1
    <3> QED BY <3>1, <3>2
  <2>5. b = Append(a, x)
    BY <1>1, <2>2, <2>3, <2>4, SeqEqual
  <2> QED BY <2>5 DEF b
<1> HIDE DEF a
<1>3. Total(Append(a, x)) = Total(a) + x
  BY <1>1, TotalAppend
<1>4. Len(Append(q, x)) = Len(q) + 1
  OBVIOUS
<1> QED BY <1>2, <1>3, <1>4 DEF Rest, a

(* Dropping the first element shifts what comes after each position. *)
LEMMA RestTail ==
  ASSUME NEW q \in Seq(Int), q # << >>, NEW i \in 0 .. Len(q) - 1
  PROVE  Rest(Tail(q), i) = Rest(q, i + 1)
<1>1. SubSeq(Tail(q), i + 1, Len(q) - 1) = SubSeq(q, i + 2, Len(q))
  OBVIOUS
<1>2. Len(Tail(q)) = Len(q) - 1 /\ (i + 1) + 1 = i + 2
  OBVIOUS
<1> QED BY <1>1, <1>2 DEF Rest

(* After the first element comes the rest. *)
LEMMA RestOfHead ==
  ASSUME NEW q \in Seq(Int), q # << >>
  PROVE  Rest(q, 1) = Total(Tail(q))
<1>1. SubSeq(q, 2, Len(q)) = Tail(q)
  BY TailIsSubSeq
<1>2. 1 + 1 = 2
  OBVIOUS
<1> QED BY <1>1, <1>2, Zenon DEF Rest

(* Nothing comes after the last element. *)
LEMMA RestOfLast ==
  ASSUME NEW q \in Seq(Int)
  PROVE  Rest(q, Len(q)) = 0
<1>1. SubSeq(q, Len(q) + 1, Len(q)) = << >>
  OBVIOUS
<1> QED BY <1>1, TotalEmpty DEF Rest

(* What comes after a position is an integer. *)
LEMMA RestType ==
  ASSUME NEW q \in Seq(Int), NEW i \in 0 .. Len(q)
  PROVE  Rest(q, i) \in Int
<1>1. SubSeq(q, i + 1, Len(q)) \in Seq(Int)
  <2>1. \A j \in i + 1 .. Len(q) : q[j] \in Int
    OBVIOUS
  <2> QED BY <2>1, SubSeqProperties
<1> QED BY <1>1, TotalType DEF Rest

(* The quantities in flight, one response or request more or less. *)
FillOf(r, s) == IF r.type_ = "FILLED" /\ r.side_ = s THEN r.exec_qty_ ELSE 0
NewOf(r, s) == IF r.type_ = "NEW" /\ r.side_ = s THEN r.qty_ ELSE 0

(* fills gives one number for each response. *)
LEMMA FillsType ==
  ASSUME NEW q \in Seq(Response), NEW s
  PROVE  fills(q, s) \in Seq(Int) /\ Len(fills(q, s)) = Len(q)
<1>1. \A r \in Response : FillOf(r, s) \in Int
  BY ClipAssumption DEF Response, FillOf
<1>2. fills(q, s) = [i \in 1 .. Len(q) |-> FillOf(q[i], s)]
  BY DEF fills, FillOf
<1>3. \A i \in 1 .. Len(q) : q[i] \in Response
  OBVIOUS
<1>4. Len(q) \in Nat
  OBVIOUS
<1> HIDE DEF Response
<1> QED BY <1>1, <1>2, <1>3, <1>4

(* fills of one more response. *)
LEMMA FillsAppend ==
  ASSUME NEW q \in Seq(Response), NEW r \in Response, NEW s
  PROVE  /\ fills(Append(q, r), s) = Append(fills(q, s), FillOf(r, s))
         /\ FillOf(r, s) \in Int
<1>1. FillOf(r, s) \in Int
  BY ClipAssumption DEF Response, FillOf
<1>2. fills(q, s) = [i \in 1 .. Len(q) |-> FillOf(q[i], s)]
  BY DEF fills, FillOf
<1>3. fills(Append(q, r), s) = [i \in 1 .. Len(q) + 1 |-> FillOf(Append(q, r)[i], s)]
  BY DEF fills, FillOf
<1>4. \A i \in 1 .. Len(q) + 1 : Append(q, r)[i] = IF i = Len(q) + 1 THEN r ELSE q[i]
  OBVIOUS
<1>5. fills(q, s) \in Seq(Int) /\ Len(fills(q, s)) = Len(q)
  BY FillsType
<1>6. /\ Append(fills(q, s), FillOf(r, s)) \in Seq(Int)
      /\ Len(Append(fills(q, s), FillOf(r, s))) = Len(q) + 1
      /\ \A i \in 1 .. Len(q) + 1 : Append(fills(q, s), FillOf(r, s))[i] =
           IF i = Len(q) + 1 THEN FillOf(r, s) ELSE fills(q, s)[i]
  BY <1>5, <1>1
<1>8. fills(Append(q, r), s) \in Seq(Int) /\ Len(fills(Append(q, r), s)) = Len(q) + 1
  <2>1. Append(q, r) \in Seq(Response) /\ Len(Append(q, r)) = Len(q) + 1
    BY AppendProperties
  <2> QED BY <2>1, FillsType
<1>9. \A i \in 1 .. Len(q) + 1 :
        fills(Append(q, r), s)[i] = Append(fills(q, s), FillOf(r, s))[i]
  BY <1>2, <1>3, <1>4, <1>6
<1> QED BY <1>1, <1>6, <1>8, <1>9, SeqEqual

(* fills after the first response is read. *)
LEMMA FillsTail ==
  ASSUME NEW q \in Seq(Response), q # << >>, NEW s
  PROVE  /\ fills(Tail(q), s) = Tail(fills(q, s))
         /\ fills(q, s)[1] = FillOf(Head(q), s)
         /\ fills(q, s) # << >>
<1>0. Len(q) \in Nat /\ Len(q) >= 1
  OBVIOUS
<1>1. fills(q, s) = [i \in 1 .. Len(q) |-> FillOf(q[i], s)]
  BY DEF fills, FillOf
<1>2. fills(Tail(q), s) = [i \in 1 .. Len(q) - 1 |-> FillOf(Tail(q)[i], s)]
  BY DEF fills, FillOf
<1>3. \A i \in 1 .. Len(q) - 1 : Tail(q)[i] = q[i + 1]
  OBVIOUS
<1>4. fills(q, s) \in Seq(Int) /\ Len(fills(q, s)) = Len(q)
  BY FillsType
<1>5. /\ Tail(fills(q, s)) \in Seq(Int) /\ Len(Tail(fills(q, s))) = Len(q) - 1
      /\ \A i \in 1 .. Len(q) - 1 : Tail(fills(q, s))[i] = fills(q, s)[i + 1]
  <2>1. fills(q, s) # << >>
    BY <1>4, <1>0
  <2> QED BY <2>1, <1>4, TailElements
<1>8. fills(Tail(q), s) \in Seq(Int) /\ Len(fills(Tail(q), s)) = Len(q) - 1
  <2>1. Tail(q) \in Seq(Response) /\ Len(Tail(q)) = Len(q) - 1
    BY HeadTailProperties
  <2> QED BY <2>1, FillsType
<1>9. \A i \in 1 .. Len(q) - 1 : fills(Tail(q), s)[i] = Tail(fills(q, s))[i]
  BY <1>0, <1>1, <1>2, <1>3, <1>5
<1>10. fills(Tail(q), s) = Tail(fills(q, s))
  BY <1>5, <1>8, <1>9, SeqEqual
<1>6. Head(q) = q[1]
  BY <1>0
<1>11. fills(q, s)[1] = FillOf(Head(q), s)
  BY <1>0, <1>1, <1>6
<1>12. fills(q, s) # << >>
  BY <1>0, <1>4
<1> QED BY <1>10, <1>11, <1>12

(* news gives one number for each request. *)
LEMMA NewsType ==
  ASSUME NEW q \in Seq(Request), NEW s
  PROVE  news(q, s) \in Seq(Int) /\ Len(news(q, s)) = Len(q)
<1>1. \A r \in Request : NewOf(r, s) \in Int
  BY ClipAssumption DEF Request, NewOf
<1>2. news(q, s) = [i \in 1 .. Len(q) |-> NewOf(q[i], s)]
  BY DEF news, NewOf
<1>3. \A i \in 1 .. Len(q) : q[i] \in Request
  OBVIOUS
<1>4. Len(q) \in Nat
  OBVIOUS
<1> HIDE DEF Request
<1> QED BY <1>1, <1>2, <1>3, <1>4

(* One more request adds what it may open. *)
LEMMA NewsAppend ==
  ASSUME NEW q \in Seq(Request), NEW r \in Request, NEW s
  PROVE  Total(news(Append(q, r), s)) = Total(news(q, s)) + NewOf(r, s)
<1>1. NewOf(r, s) \in Int
  BY ClipAssumption DEF Request, NewOf
<1>2. news(q, s) = [i \in 1 .. Len(q) |-> NewOf(q[i], s)]
  BY DEF news, NewOf
<1>3. news(Append(q, r), s) = [i \in 1 .. Len(q) + 1 |-> NewOf(Append(q, r)[i], s)]
  BY DEF news, NewOf
<1>4. \A i \in 1 .. Len(q) + 1 : Append(q, r)[i] = IF i = Len(q) + 1 THEN r ELSE q[i]
  OBVIOUS
<1>5. news(q, s) \in Seq(Int) /\ Len(news(q, s)) = Len(q)
  BY NewsType
<1>6. /\ Append(news(q, s), NewOf(r, s)) \in Seq(Int)
      /\ Len(Append(news(q, s), NewOf(r, s))) = Len(q) + 1
      /\ \A i \in 1 .. Len(q) + 1 : Append(news(q, s), NewOf(r, s))[i] =
           IF i = Len(q) + 1 THEN NewOf(r, s) ELSE news(q, s)[i]
  BY <1>5, <1>1
<1>8. news(Append(q, r), s) \in Seq(Int) /\ Len(news(Append(q, r), s)) = Len(q) + 1
  <2>1. Append(q, r) \in Seq(Request) /\ Len(Append(q, r)) = Len(q) + 1
    BY AppendProperties
  <2> QED BY <2>1, NewsType
<1>9. \A i \in 1 .. Len(q) + 1 :
        news(Append(q, r), s)[i] = Append(news(q, s), NewOf(r, s))[i]
  BY <1>2, <1>3, <1>4, <1>6
<1>7. news(Append(q, r), s) = Append(news(q, s), NewOf(r, s))
  BY <1>6, <1>8, <1>9, SeqEqual
<1> QED BY <1>7, <1>5, <1>1, TotalAppend

(* Taking the first request takes what it may open. *)
LEMMA NewsTail ==
  ASSUME NEW q \in Seq(Request), q # << >>, NEW s
  PROVE  Total(news(q, s)) = NewOf(Head(q), s) + Total(news(Tail(q), s))
<1>0. Len(q) \in Nat /\ Len(q) >= 1
  OBVIOUS
<1>1. news(q, s) = [i \in 1 .. Len(q) |-> NewOf(q[i], s)]
  BY DEF news, NewOf
<1>2. news(Tail(q), s) = [i \in 1 .. Len(q) - 1 |-> NewOf(Tail(q)[i], s)]
  BY DEF news, NewOf
<1>3. \A i \in 1 .. Len(q) - 1 : Tail(q)[i] = q[i + 1]
  OBVIOUS
<1>4. news(q, s) \in Seq(Int) /\ Len(news(q, s)) = Len(q)
  BY NewsType
<1>5. /\ Tail(news(q, s)) \in Seq(Int) /\ Len(Tail(news(q, s))) = Len(q) - 1
      /\ \A i \in 1 .. Len(q) - 1 : Tail(news(q, s))[i] = news(q, s)[i + 1]
  BY <1>4, <1>0
<1>8. news(Tail(q), s) \in Seq(Int) /\ Len(news(Tail(q), s)) = Len(q) - 1
  <2>1. Tail(q) \in Seq(Request) /\ Len(Tail(q)) = Len(q) - 1
    BY HeadTailProperties
  <2> QED BY <2>1, NewsType
<1>9. \A i \in 1 .. Len(q) - 1 : news(Tail(q), s)[i] = Tail(news(q, s))[i]
  BY <1>0, <1>1, <1>2, <1>3, <1>5
<1>10. news(Tail(q), s) = Tail(news(q, s))
  BY <1>5, <1>8, <1>9, SeqEqual
<1>6. Head(q) = q[1]
  BY <1>0
<1>11. news(q, s)[1] = NewOf(Head(q), s)
  BY <1>0, <1>1, <1>6
<1>12. news(q, s) # << >>
  BY <1>0, <1>4
<1> QED BY <1>10, <1>11, <1>12, <1>4, TotalTail

(* The quantity open on a side with no order, and with one. *)
LEMMA LeavesNone ==
  ASSUME NEW S, NEW s, \A o \in S : o.side_ # s
  PROVE  leaves(S, s) = 0
<1>1. {o \in S : o.side_ = s} = {}
  OBVIOUS
<1>2. MapThenSumSet(LAMBDA o : o.leaves_, {}) = 0
  BY DEF MapThenSumSet, MapThenFoldSet
<1> QED BY <1>1, <1>2, Zenon DEF leaves

(* A side with one open order has its leaves open. *)
LEMMA LeavesOne ==
  ASSUME NEW S, NEW s, NEW x \in S, x.leaves_ \in Nat, x.side_ = s,
         \A o \in S : o.side_ = s => o = x
  PROVE  leaves(S, s) = x.leaves_
<1> DEFINE F(g) == [t \in SUBSET {x} |-> IF t = {} THEN 0
                      ELSE LET y == CHOOSE z \in t : TRUE IN y.leaves_ + g[t \ {y}]]
           g0 == [t \in SUBSET {x} |-> IF t = {} THEN 0 ELSE x.leaves_]
           it == CHOOSE h : h = F(h)
<1>0. \A t \in SUBSET {x} : t # {} => t = {x} /\ (CHOOSE z \in t : TRUE) = x /\ t \ {x} = {}
  OBVIOUS
<1>1. g0 = F(g0)
  BY <1>0
<1>2. it = F(it)
  <2> HIDE DEF F
  <2> QED BY <1>1
<1>3. it[{}] = 0
  BY <1>2
<1>4. it[{x}] = x.leaves_
  <2>1. {x} \in SUBSET {x} /\ {x} # {} /\ (CHOOSE z \in {x} : TRUE) = x /\ {x} \ {x} = {}
    OBVIOUS
  <2>2. F(it)[{x}] = x.leaves_ + it[{}]
    <3> HIDE DEF it
    <3> QED BY <2>1
  <2> HIDE DEF it, F
  <2> QED BY <2>2, <1>2, <1>3
<1>5. MapThenSumSet(LAMBDA o : o.leaves_, {x}) = it[{x}]
  BY DEF MapThenSumSet, MapThenFoldSet
<1>6. {o \in S : o.side_ = s} = {x}
  OBVIOUS
<1>7. leaves(S, s) = MapThenSumSet(LAMBDA o : o.leaves_, {x})
  BY <1>6, Zenon DEF leaves
<1> QED BY <1>4, <1>5, <1>7, Zenon

-----------------------------------------------------------------------------
(* The inductive invariant *)

Alive(s) == OrderState(s) \in {"PENDING_NEW", "LIVE", "PENDING_CANCEL"}
Id(s) == ticker_side_order_[s].order_id_
Qty(s) == ticker_side_order_[s].qty_

(* The i-th response is read into slot s, is a fill of s, ends the order.  *)
Mine(i, s) == responses[i].type_ # "CANCEL_REJECTED" /\ responses[i].side_ = s
Fill(i, s) == responses[i].type_ = "FILLED" /\ responses[i].side_ = s
Ends(i, s) == /\ Mine(i, s)
              /\ \/ responses[i].type_ = "CANCELED"
                 \/ responses[i].type_ = "FILLED" /\ responses[i].leaves_qty_ = 0
New(i, s) == requests[i].type_ = "NEW" /\ requests[i].side_ = s
Cancel(i, s) == requests[i].type_ = "CANCEL" /\ requests[i].order_id_ = Id(s)

(* Ids are taken from the counter and not shared by the two slots, and an  *)
(* order that was sent has a price and a quantity.                         *)
SlotsInv ==
  /\ \A s \in Side : Id(s) < next_order_id_
  /\ \A s \in Side : Alive(s) => Id(s) # 0 /\ Qty(s) # 0 /\ ticker_side_order_[s].price_ \in Prices
  /\ Id("BUY") = Id("SELL") => Id("BUY") = 0

(* At most one order per side is open: the one in the slot. *)
OpenInv ==
  /\ \A o \in open : o.order_id_ = Id(o.side_) /\ Alive(o.side_)
  /\ \A o, p \in open : o.side_ = p.side_ => o = p

(* A NEW request is the first thing that happens to the order in the slot. *)
NewInv ==
  /\ \A i \in 1 .. Len(requests), s \in Side : New(i, s) =>
       /\ requests[i].order_id_ = Id(s)
       /\ requests[i].qty_ = Qty(s)
       /\ OrderState(s) = "PENDING_NEW"
       /\ \A o \in open : o.side_ # s
       /\ \A j \in 1 .. Len(responses) : ~Mine(j, s)
  /\ \A i, j \in 1 .. Len(requests), s \in Side : New(i, s) /\ New(j, s) => i = j

(* A CANCEL request is for the order in its own side's slot, or for an     *)
(* order of that side that was filled when the two crossed.                *)
CancelInv ==
  \A i \in 1 .. Len(requests) : requests[i].type_ = "CANCEL" =>
    /\ requests[i].order_id_ < next_order_id_
    /\ \A s \in Side : requests[i].order_id_ = Id(s) =>
         s = requests[i].side_ /\ OrderState(s) \in {"PENDING_CANCEL", "DEAD"}

(* Responses: about the slot's order, ACCEPTED first, the end last. *)
ResponseInv ==
  \A i \in 1 .. Len(responses), s \in Side : Mine(i, s) =>
    /\ responses[i].order_id_ = Id(s)
    /\ Alive(s)
    /\ responses[i].type_ = "ACCEPTED" =>
         /\ OrderState(s) = "PENDING_NEW"
         /\ \A j \in 1 .. Len(responses) : j < i => ~Mine(j, s)
    /\ Ends(i, s) =>
         /\ \A o \in open : o.side_ # s
         /\ \A j \in 1 .. Len(responses) : Mine(j, s) => j <= i

(* What an order in a slot is waiting for is under way. *)
WaitInv ==
  \A s \in Side :
    /\ OrderState(s) = "PENDING_NEW" =>
         \/ \E i \in 1 .. Len(requests) : New(i, s)
         \/ \E i \in 1 .. Len(responses) : Mine(i, s) /\ responses[i].type_ = "ACCEPTED"
    /\ OrderState(s) = "PENDING_CANCEL" =>
         \/ \E i \in 1 .. Len(requests) : Cancel(i, s)
         \/ \E i \in 1 .. Len(responses) : Ends(i, s)
    /\ Alive(s) =>
         \/ \E i \in 1 .. Len(requests) : New(i, s)
         \/ \E o \in open : o.side_ = s
         \/ \E i \in 1 .. Len(responses) : Ends(i, s)

(* Quantities: each fill leaves room for the later ones and for what is    *)
(* open, and the last one left exactly that.                               *)
QuantityInv ==
  \A s \in Side :
    /\ \A i \in 1 .. Len(responses) : Fill(i, s) =>
         /\ responses[i].exec_qty_ + responses[i].leaves_qty_ <= Qty(s)
         /\ \A j \in 1 .. Len(responses) : j < i /\ Fill(j, s) =>
              responses[i].exec_qty_ + responses[i].leaves_qty_ <= responses[j].leaves_qty_
    /\ \A o \in open : o.side_ = s =>
         /\ \A i \in 1 .. Len(responses) : Fill(i, s) => o.leaves_ <= responses[i].leaves_qty_
         /\ o.leaves_ <= Qty(s)
         /\ \/ o.leaves_ = Qty(s)
            \/ \E i \in 1 .. Len(responses) : Fill(i, s) /\ o.leaves_ = responses[i].leaves_qty_

(* Sums: what is in flight is within the quantity the client still counts  *)
(* on, and so it is after each fill.                                       *)
SumInv ==
  \A s \in Side :
    /\ inFlight(s) <= IF Alive(s) THEN Qty(s) ELSE 0
    /\ \A i \in 1 .. Len(responses) : Fill(i, s) =>
         Rest(fills(responses, s), i) + leaves(open, s) <= responses[i].leaves_qty_

(* The client's own view keeps the limit. *)
LimitInv ==
  /\ position_ <= MaxPosition
  /\ -MaxPosition <= position_
  /\ Alive("BUY") => position_ + Qty("BUY") <= MaxPosition
  /\ Alive("SELL") => -MaxPosition <= position_ - Qty("SELL")

IInv == /\ TypeOK /\ SlotsInv /\ OpenInv /\ NewInv /\ CancelInv /\ ResponseInv
        /\ WaitInv /\ QuantityInv /\ SumInv /\ LimitInv
-----------------------------------------------------------------------------
(* The strategy's step *)

(* How many orders a call of moveOrders sends, by side. *)
LEMMA SidesCount ==
  ASSUME NEW S \in SUBSET Side
  PROVE  Cardinality(S) = (IF "BUY" \in S THEN 1 ELSE 0) + (IF "SELL" \in S THEN 1 ELSE 0)
<1>1. Cardinality({}) = 0 /\ IsFiniteSet({})
  BY FS_EmptySet
<1>2. Cardinality({"BUY"}) = 1 /\ Cardinality({"SELL"}) = 1 /\ IsFiniteSet({"BUY"})
  BY FS_Singleton
<1>3. Cardinality({"BUY"} \cup {"SELL"}) = 2
  <2>1. "SELL" \notin {"BUY"}
    OBVIOUS
  <2> QED BY <2>1, <1>2, FS_AddElement
<1>4. S = {} \/ S = {"BUY"} \/ S = {"SELL"} \/ S = {"BUY"} \cup {"SELL"}
  BY DEF Side
<1> QED BY <1>1, <1>2, <1>3, <1>4

(* The request that the order of side s is opened or cancelled with. *)
newRequest(s, i, price) == [type_ |-> "NEW", order_id_ |-> i, side_ |-> s,
                            price_ |-> price, qty_ |-> Clip]
cancelRequest(s) == [type_ |-> "CANCEL", order_id_ |-> Id(s), side_ |-> s,
                     price_ |-> ticker_side_order_[s].price_, qty_ |-> Qty(s)]

(* What moveOrders does, with the sets of sides it opens and cancels and   *)
(* the ids and prices it opens with.                                       *)
Moves(opens, cancels, id, price) ==
  /\ opens \subseteq Side /\ cancels \subseteq Side
  /\ \A s \in opens : /\ OrderState(s) \in {"INVALID", "DEAD"}
                      /\ checkPreTradeRisk(s, Clip)
                      /\ price[s] \in Prices
                      /\ id[s] \in next_order_id_ .. MaxOrders
                      /\ id[s] < next_order_id_'
  /\ \A s \in cancels : OrderState(s) = "LIVE"
  /\ opens = Side => id["BUY"] # id["SELL"]
  /\ next_order_id_' \in next_order_id_ .. MaxOrders + 1
  /\ ticker_side_order_' =
       [s \in Side |->
          IF s \in opens
          THEN [order_id_ |-> id[s], price_ |-> price[s], qty_ |-> Clip, order_state_ |-> "PENDING_NEW"]
          ELSE IF s \in cancels
               THEN [ticker_side_order_[s] EXCEPT !.order_state_ = "PENDING_CANCEL"]
               ELSE ticker_side_order_[s]]
  /\ \E b, a : /\ requests' = requests \o b \o a
               /\ b = IF "BUY" \in opens THEN <<newRequest("BUY", id["BUY"], price["BUY"])>>
                      ELSE IF "BUY" \in cancels THEN <<cancelRequest("BUY")>> ELSE << >>
               /\ a = IF "SELL" \in opens THEN <<newRequest("SELL", id["SELL"], price["SELL"])>>
                      ELSE IF "SELL" \in cancels THEN <<cancelRequest("SELL")>> ELSE << >>
  /\ UNCHANGED <<algo, position_, responses, open>>

(* A call of moveOrders opens and cancels orders of distinct sides. *)
LEMMA MoveOrdersMoves ==
  ASSUME TypeOK, NEW bid \in Prices \cup {Price_INVALID}, NEW ask \in Prices \cup {Price_INVALID},
         NEW loss \in BOOLEAN, moveOrders(bid, ask, loss)
  PROVE  \E opens, cancels, id, price : Moves(opens, cancels, id, price)
<1> DEFINE price == [s \in Side |-> IF s = "BUY" THEN bid ELSE ask]
           opens == {s \in Side : Opens(s, price[s]) /\ ~loss}
           cancels == {s \in Side : Cancels(s, price[s])}
           id == [s \in Side |-> IF s = "SELL" /\ "BUY" \in opens THEN next_order_id_ + 1
                                                                  ELSE next_order_id_]
           id0(s) == IF s = "SELL" /\ "BUY" \in opens THEN next_order_id_ + 1 ELSE next_order_id_
           request(s) == IF s \in opens THEN <<newRequest(s, id[s], price[s])>>
                         ELSE IF s \in cancels THEN <<cancelRequest(s)>> ELSE << >>
<1>1. opens \in SUBSET Side /\ cancels \in SUBSET Side
  OBVIOUS
<1>2. /\ next_order_id_ + Cardinality(opens) <= MaxOrders + 1
      /\ next_order_id_' = next_order_id_ + Cardinality(opens)
      /\ UNCHANGED <<algo, position_, responses, open>>
  BY Zenon DEF moveOrders
<1>3. ticker_side_order_' =
       [s \in Side |->
          IF s \in opens
          THEN [order_id_ |-> id[s], price_ |-> price[s], qty_ |-> Clip, order_state_ |-> "PENDING_NEW"]
          ELSE IF s \in cancels
               THEN [ticker_side_order_[s] EXCEPT !.order_state_ = "PENDING_CANCEL"]
               ELSE ticker_side_order_[s]]
  <2>1. ticker_side_order_' =
         [s \in Side |->
            CASE s \in opens -> [order_id_ |-> id0(s), price_ |-> price[s], qty_ |-> Clip,
                                 order_state_ |-> "PENDING_NEW"]
              [] s \in cancels -> [ticker_side_order_[s] EXCEPT !.order_state_ = "PENDING_CANCEL"]
              [] OTHER -> ticker_side_order_[s]]
    BY Zenon DEF moveOrders
  <2>2. \A s \in Side : id0(s) = id[s]
    OBVIOUS
  <2>3. \A s \in Side : ~(s \in opens /\ s \in cancels)
    BY DEF Opens, Cancels
  <2> HIDE DEF opens, cancels, id, price, id0
  <2> QED BY <2>1, <2>2, <2>3
<1>4. requests' = requests \o request("BUY") \o request("SELL")
  <2> DEFINE r(s) ==
        CASE s \in opens ->
               <<[type_ |-> "NEW", order_id_ |-> id0(s), side_ |-> s, price_ |-> price[s],
                  qty_ |-> Clip]>>
          [] s \in cancels ->
               <<[type_ |-> "CANCEL", order_id_ |-> ticker_side_order_[s].order_id_, side_ |-> s,
                  price_ |-> ticker_side_order_[s].price_, qty_ |-> ticker_side_order_[s].qty_]>>
          [] OTHER -> << >>
  <2>1. requests' = requests \o r("BUY") \o r("SELL")
    BY Zenon DEF moveOrders
  <2>2. \A s \in Side : id0(s) = id[s]
    OBVIOUS
  <2>3. \A s \in Side : ~(s \in opens /\ s \in cancels)
    BY DEF Opens, Cancels
  <2>4. \A s \in Side : r(s) = request(s)
    <3> HIDE DEF opens, cancels, id, price, id0
    <3> QED BY <2>2, <2>3 DEF newRequest, cancelRequest, Id, Qty
  <2>5. "BUY" \in Side /\ "SELL" \in Side
    BY DEF Side
  <2> HIDE DEF r, request
  <2> QED BY <2>1, <2>4, <2>5
<1>5. /\ next_order_id_ \in Nat
      /\ Cardinality(opens) = (IF "BUY" \in opens THEN 1 ELSE 0) + (IF "SELL" \in opens THEN 1 ELSE 0)
  <2>1. next_order_id_ \in Nat
    BY MaxOrdersAssumption DEF TypeOK
  <2> HIDE DEF opens
  <2> QED BY <2>1, <1>1, SidesCount
<1>6. \A s \in opens : /\ OrderState(s) \in {"INVALID", "DEAD"}
                       /\ checkPreTradeRisk(s, Clip)
                       /\ price[s] \in Prices
  BY DEF Opens
<1>7. \A s \in cancels : OrderState(s) = "LIVE"
  BY DEF Cancels
<1> HIDE DEF opens, cancels, price
<1>8. \A s \in opens : id[s] \in next_order_id_ .. MaxOrders /\ id[s] < next_order_id_'
  BY <1>1, <1>2, <1>5, MaxOrdersAssumption DEF Side
<1>9. opens = Side => id["BUY"] # id["SELL"]
  BY <1>5 DEF Side
<1>10. next_order_id_' \in next_order_id_ .. MaxOrders + 1
  BY <1>2, <1>5, MaxOrdersAssumption
<1> HIDE DEF id
<1>11. Moves(opens, cancels, id, price)
  BY <1>1, <1>2, <1>3, <1>4, <1>6, <1>7, <1>8, <1>9, <1>10, Zenon DEF Moves
<1> QED BY <1>11

(* The open quantity of a side is a number. *)
LEMMA LeavesType ==
  ASSUME NEW S, NEW s, \A o \in S : o.leaves_ \in Nat, \A o, p \in S : o.side_ = p.side_ => o = p
  PROVE  leaves(S, s) \in Nat
<1>1. CASE \A o \in S : o.side_ # s
  BY <1>1, LeavesNone
<1>2. ASSUME NEW x \in S, x.side_ = s PROVE leaves(S, s) \in Nat
  <2>1. leaves(S, s) = x.leaves_
    BY <1>2, LeavesOne
  <2> QED BY <2>1
<1> QED BY <1>1, <1>2

(* All that is counted is a number. *)
LEMMA InFlightType ==
  ASSUME TypeOK, OpenInv, NEW s \in Side
  PROVE  /\ Total(fills(responses, s)) \in Int /\ Total(news(requests, s)) \in Int
         /\ leaves(open, s) \in Nat /\ inFlight(s) \in Int
         /\ \A i \in 0 .. Len(responses) : Rest(fills(responses, s), i) \in Int
<1>1. responses \in Seq(Response) /\ requests \in Seq(Request)
  BY DEF TypeOK
<1>2. Total(fills(responses, s)) \in Int
  BY <1>1, FillsType, TotalType
<1>3. Total(news(requests, s)) \in Int
  BY <1>1, NewsType, TotalType
<1>4. leaves(open, s) \in Nat
  <2>1. \A o \in open : o.leaves_ \in Nat
    BY ClipAssumption DEF TypeOK
  <2>2. \A o, p \in open : o.side_ = p.side_ => o = p
    BY DEF OpenInv
  <2> QED BY <2>1, <2>2, LeavesType
<1>5. \A i \in 0 .. Len(responses) : Rest(fills(responses, s), i) \in Int
  BY <1>1, FillsType, RestType
<1> QED BY <1>2, <1>3, <1>4, <1>5 DEF inFlight

(* What a sequence of three parts holds. *)
LEMMA Concat3 ==
  ASSUME NEW S, NEW q \in Seq(S), NEW b \in Seq(S), NEW a \in Seq(S)
  PROVE  /\ q \o b \o a \in Seq(S)
         /\ Len(q \o b \o a) = Len(q) + Len(b) + Len(a)
         /\ \A i \in 1 .. Len(q) : (q \o b \o a)[i] = q[i]
         /\ \A i \in 1 .. Len(b) : (q \o b \o a)[Len(q) + i] = b[i]
         /\ \A i \in 1 .. Len(a) : (q \o b \o a)[Len(q) + Len(b) + i] = a[i]
<1>1. /\ q \o b \in Seq(S) /\ Len(q \o b) = Len(q) + Len(b)
      /\ \A i \in 1 .. Len(q) : (q \o b)[i] = q[i]
      /\ \A i \in 1 .. Len(b) : (q \o b)[Len(q) + i] = b[i]
  OBVIOUS
<1>2. \A c \in Seq(S) : /\ c \o a \in Seq(S) /\ Len(c \o a) = Len(c) + Len(a)
                        /\ \A i \in 1 .. Len(c) : (c \o a)[i] = c[i]
                        /\ \A i \in 1 .. Len(a) : (c \o a)[Len(c) + i] = a[i]
  OBVIOUS
<1> QED BY <1>1, <1>2

(* What the requests of one side of a call of moveOrders may open. *)
LEMMA NewsConcat ==
  ASSUME NEW q \in Seq(Request), NEW b, NEW s, b = << >> \/ \E x \in Request : b = <<x>>
  PROVE  /\ b \in Seq(Request) /\ q \o b \in Seq(Request)
         /\ Total(news(q \o b, s)) =
              Total(news(q, s)) + IF b = << >> THEN 0 ELSE NewOf(b[1], s)
<1>0. Total(news(q, s)) \in Int
  BY NewsType, TotalType
<1>1. CASE b = << >>
  <2>1. q \o b = q
    BY <1>1, ConcatEmptySeq
  <2> QED BY <1>0, <1>1, <2>1
<1>2. ASSUME NEW x \in Request, b = <<x>>
      PROVE  /\ b \in Seq(Request) /\ q \o b \in Seq(Request)
             /\ Total(news(q \o b, s)) =
                  Total(news(q, s)) + IF b = << >> THEN 0 ELSE NewOf(b[1], s)
  <2>1. q \o b = Append(q, x)
    BY <1>2, AppendIsConcat
  <2>2. b # << >> /\ b[1] = x
    BY <1>2
  <2>3. Append(q, x) \in Seq(Request) /\ b \in Seq(Request)
    BY <1>2
  <2> QED BY <2>1, <2>2, <2>3, NewsAppend
<1> QED BY <1>1, <1>2

(* The requests after moveOrders, and the quantity they ask for. *)
LEMMA MovedRequests ==
  ASSUME TypeOK, SlotsInv, NEW opens, NEW cancels, NEW id, NEW price, Moves(opens, cancels, id, price)
  PROVE  /\ requests' \in Seq(Request)
         /\ Len(requests') >= Len(requests)
         /\ \A i \in 1 .. Len(requests) : requests'[i] = requests[i]
         /\ \A i \in 1 .. Len(requests') : i > Len(requests) =>
              \/ \E s \in opens : requests'[i] = newRequest(s, id[s], price[s])
              \/ \E s \in cancels : requests'[i] = cancelRequest(s)
         /\ \A i, j \in 1 .. Len(requests') :
              i > Len(requests) /\ j > Len(requests) /\ requests'[i].side_ = requests'[j].side_ => i = j
         /\ \A s \in Side : s \in opens => \E i \in 1 .. Len(requests') : requests'[i] = newRequest(s, id[s], price[s])
         /\ \A s \in Side : s \in cancels => \E i \in 1 .. Len(requests') : requests'[i] = cancelRequest(s)
         /\ \A s \in Side : Total(news(requests', s)) =
              Total(news(requests, s)) + IF s \in opens THEN Clip ELSE 0
<1> DEFINE n(s) == newRequest(s, id[s], price[s])
           r(s) == IF s \in opens THEN <<n(s)>>
                   ELSE IF s \in cancels THEN <<cancelRequest(s)>> ELSE << >>
<1>1. PICK b, a : requests' = requests \o b \o a /\ b = r("BUY") /\ a = r("SELL")
  BY Zenon DEF Moves
<1>2. /\ opens \subseteq Side /\ cancels \subseteq Side
      /\ \A s \in opens : OrderState(s) \in {"INVALID", "DEAD"}
      /\ \A s \in cancels : OrderState(s) = "LIVE"
  BY DEF Moves
<1>3. \A s \in opens : n(s) \in Request /\ n(s).side_ = s /\ NewOf(n(s), s) = Clip
                       /\ \A t \in Side : t # s => NewOf(n(s), t) = 0
  <2> SUFFICES ASSUME NEW s \in opens
               PROVE  n(s) \in Request /\ n(s).side_ = s /\ NewOf(n(s), s) = Clip
                       /\ \A t \in Side : t # s => NewOf(n(s), t) = 0
    OBVIOUS
  <2>1. id[s] \in 1 .. MaxOrders /\ price[s] \in Prices /\ s \in Side
    BY MaxOrdersAssumption DEF Moves, TypeOK
  <2> QED BY <2>1, ClipAssumption DEF newRequest, Request, NewOf
<1>4. \A s \in cancels : cancelRequest(s) \in Request /\ cancelRequest(s).side_ = s
                         /\ \A t \in Side : NewOf(cancelRequest(s), t) = 0
  <2> SUFFICES ASSUME NEW s \in cancels
               PROVE  cancelRequest(s) \in Request /\ cancelRequest(s).side_ = s
                         /\ \A t \in Side : NewOf(cancelRequest(s), t) = 0
    OBVIOUS
  <2>1. s \in Side /\ Alive(s)
    BY <1>2 DEF Alive
  <2>2. Id(s) \in 1 .. MaxOrders /\ Qty(s) \in 0 .. Clip /\ ticker_side_order_[s].price_ \in Prices
    BY <2>1, MaxOrdersAssumption, ClipAssumption DEF TypeOK, OMOrder, SlotsInv, Id, Qty
  <2> QED BY <2>1, <2>2 DEF cancelRequest, Request, NewOf
<1> HIDE DEF n
<1>5. \A s \in Side : r(s) = << >> \/ \E x \in Request : r(s) = <<x>>
  BY <1>3, <1>4
<1>6. \A s \in Side : r(s) # << >> =>
         /\ Len(r(s)) = 1 /\ r(s)[1].side_ = s
         /\ \/ s \in opens /\ r(s)[1] = n(s)
            \/ s \in cancels /\ r(s)[1] = cancelRequest(s)
  <2> HIDE DEF Request
  <2> QED BY <1>3, <1>4
<1>7. \A s \in Side : /\ s \in opens => r(s) # << >> /\ r(s)[1] = n(s)
                      /\ s \in cancels => r(s) # << >> /\ r(s)[1] = cancelRequest(s)
  <2>1. \A s \in Side : ~(s \in opens /\ s \in cancels)
    BY <1>2
  <2> QED BY <2>1
<1>8. \A s, t \in Side : (IF r(s) = << >> THEN 0 ELSE NewOf(r(s)[1], t))
                            = IF s = t /\ s \in opens THEN Clip ELSE 0
  BY <1>3, <1>4, <1>6, <1>7
<1> HIDE DEF r
<1>9. "BUY" \in Side /\ "SELL" \in Side /\ \A s \in Side : s = "BUY" \/ s = "SELL"
  BY DEF Side
<1>10. requests \in Seq(Request)
  BY DEF TypeOK
<1>11. b \in Seq(Request) /\ a \in Seq(Request) /\ requests \o b \in Seq(Request)
  BY <1>1, <1>5, <1>9, <1>10, NewsConcat
<1> DEFINE k == Len(requests)
<1>12. /\ requests' \in Seq(Request)
       /\ Len(requests') = k + Len(b) + Len(a)
       /\ \A i \in 1 .. k : requests'[i] = requests[i]
       /\ \A i \in 1 .. Len(b) : requests'[k + i] = b[i]
       /\ \A i \in 1 .. Len(a) : requests'[k + Len(b) + i] = a[i]
  BY <1>1, <1>10, <1>11, Concat3
<1>13. k \in Nat
  BY <1>10
<1>14. (Len(b) = 0 \/ Len(b) = 1) /\ (Len(a) = 0 \/ Len(a) = 1) /\ (Len(b) = 0 <=> b = << >>) /\ (Len(a) = 0 <=> a = << >>)
  BY <1>1, <1>5, <1>9
<1>15. \A i \in 1 .. Len(requests') : i > k =>
          \/ Len(b) = 1 /\ i = k + 1 /\ requests'[i] = b[1]
          \/ Len(a) = 1 /\ i = k + Len(b) + 1 /\ requests'[i] = a[1]
  <2> SUFFICES ASSUME NEW i \in 1 .. Len(requests'), i > k
               PROVE  \/ Len(b) = 1 /\ i = k + 1 /\ requests'[i] = b[1]
                      \/ Len(a) = 1 /\ i = k + Len(b) + 1 /\ requests'[i] = a[1]
    OBVIOUS
  <2>1. CASE Len(b) = 1 /\ i = k + 1
    BY <2>1, <1>12
  <2>2. CASE ~(Len(b) = 1 /\ i = k + 1)
    <3>0. i \in Int /\ i > k /\ i <= k + Len(b) + Len(a)
      BY <1>12, <1>13, <1>14
    <3>1. Len(a) = 1 /\ i = k + Len(b) + 1
      <4> HIDE DEF k
      <4>1. CASE Len(b) = 1 /\ Len(a) = 0
        BY <4>1, <2>2, <3>0, <1>13
      <4>2. CASE Len(b) = 1 /\ Len(a) = 1
        BY <4>2, <2>2, <3>0, <1>13
      <4>3. CASE Len(b) = 0 /\ Len(a) = 0
        BY <4>3, <3>0, <1>13
      <4>4. CASE Len(b) = 0 /\ Len(a) = 1
        BY <4>4, <3>0, <1>13
      <4> QED BY <4>1, <4>2, <4>3, <4>4, <1>14
    <3> QED BY <3>1, <1>12
  <2> QED BY <2>1, <2>2
<1>16. \A s \in Side : Total(news(requests', s)) =
              Total(news(requests, s)) + IF s \in opens THEN Clip ELSE 0
  <2> SUFFICES ASSUME NEW s \in Side
               PROVE  Total(news(requests', s)) =
                        Total(news(requests, s)) + IF s \in opens THEN Clip ELSE 0
    OBVIOUS
  <2>1. Total(news(requests \o b, s)) =
          Total(news(requests, s)) + IF s = "BUY" /\ s \in opens THEN Clip ELSE 0
    BY <1>1, <1>5, <1>8, <1>9, <1>10, NewsConcat
  <2>2. Total(news(requests', s)) =
          Total(news(requests \o b, s)) + IF s = "SELL" /\ s \in opens THEN Clip ELSE 0
    <3> DEFINE c == requests \o b
    <3>1. c \in Seq(Request)
      BY <1>11
    <3>2. requests' = c \o a
      BY <1>1
    <3> HIDE DEF c
    <3>3. Total(news(c \o a, s)) = Total(news(c, s)) + IF s = "SELL" /\ s \in opens THEN Clip ELSE 0
      BY <1>1, <1>5, <1>8, <1>9, <3>1, NewsConcat
    <3> QED BY <3>2, <3>3 DEF c
  <2>3. Total(news(requests, s)) \in Int /\ Clip \in Int
    BY <1>10, NewsType, TotalType, ClipAssumption
  <2> QED BY <2>1, <2>2, <2>3, <1>9
<1>17. \A i \in 1 .. Len(requests') : i > k =>
              \/ \E s \in opens : requests'[i] = n(s)
              \/ \E s \in cancels : requests'[i] = cancelRequest(s)
  BY <1>15, <1>14, <1>6, <1>1, <1>9
<1>18. \A i, j \in 1 .. Len(requests') :
              i > k /\ j > k /\ requests'[i].side_ = requests'[j].side_ => i = j
  <2>1. (Len(b) = 1 => b[1].side_ = "BUY") /\ (Len(a) = 1 => a[1].side_ = "SELL")
    BY <1>1, <1>6, <1>9, <1>14
  <2> QED BY <2>1, <1>15
<1>19. \A s \in Side :
         /\ s \in opens => \E i \in 1 .. Len(requests') : requests'[i] = n(s)
         /\ s \in cancels => \E i \in 1 .. Len(requests') : requests'[i] = cancelRequest(s)
  <2> SUFFICES ASSUME NEW s \in Side, s \in opens \/ s \in cancels
               PROVE  \E i \in 1 .. Len(requests') : requests'[i] = r(s)[1]
    BY <1>7
  <2>1. r(s) # << >>
    BY <1>7
  <2>2. CASE s = "BUY"
    <3>1. Len(b) = 1 /\ k + 1 \in 1 .. Len(requests') /\ b[1] = r(s)[1]
      BY <2>1, <2>2, <1>1, <1>12, <1>13, <1>14
    <3> QED BY <3>1, <1>12
  <2>3. CASE s = "SELL"
    <3>1. Len(a) = 1 /\ k + Len(b) + 1 \in 1 .. Len(requests') /\ a[1] = r(s)[1]
      BY <2>1, <2>3, <1>1, <1>12, <1>13, <1>14
    <3> QED BY <3>1, <1>12
  <2> QED BY <2>2, <2>3, <1>9
<1>20. Len(requests') >= k
  BY <1>12, <1>13, <1>14
<1> QED BY <1>12, <1>16, <1>17, <1>18, <1>19, <1>20 DEF n

(* A call of moveOrders keeps the invariant: new orders where none was working. *)
LEMMA MoveStep ==
  ASSUME IInv, NEW opens, NEW cancels, NEW id, NEW price, Moves(opens, cancels, id, price)
  PROVE  IInv'
<1> USE DEF Alive, Id, Qty, OrderState
<1>1. /\ opens \subseteq Side /\ cancels \subseteq Side
      /\ \A s \in opens : /\ ~Alive(s)
                          /\ price[s] \in Prices
                          /\ id[s] \in next_order_id_ .. MaxOrders
                          /\ id[s] < next_order_id_'
      /\ \A s \in cancels : OrderState(s) = "LIVE"
      /\ opens = Side => id["BUY"] # id["SELL"]
      /\ next_order_id_' \in next_order_id_ .. MaxOrders + 1
      /\ algo' = algo /\ position_' = position_ /\ responses' = responses /\ open' = open
  BY DEF Moves
<1>2. /\ TypeOK /\ SlotsInv /\ OpenInv /\ NewInv /\ CancelInv /\ ResponseInv
      /\ WaitInv /\ QuantityInv /\ SumInv /\ LimitInv
  BY DEF IInv
<1>3. ticker_side_order_ \in [Side -> OMOrder]
  BY <1>2 DEF TypeOK
<1>4. \A s \in opens : /\ ticker_side_order_'[s] = [order_id_ |-> id[s], price_ |-> price[s], qty_ |-> Clip,
                                                    order_state_ |-> "PENDING_NEW"]
  BY <1>1 DEF Moves
<1>5. \A s \in Side : s \notin opens /\ s \in cancels =>
        ticker_side_order_'[s] = [ticker_side_order_[s] EXCEPT !.order_state_ = "PENDING_CANCEL"]
  BY <1>1 DEF Moves
<1>6. \A s \in Side : s \notin opens /\ s \notin cancels => ticker_side_order_'[s] = ticker_side_order_[s]
  BY <1>1 DEF Moves
<1>7. \A s \in opens : /\ Id(s)' = id[s] /\ Qty(s)' = Clip /\ OrderState(s)' = "PENDING_NEW" /\ Alive(s)'
                       /\ ticker_side_order_'[s].price_ = price[s]
  <2> SUFFICES ASSUME NEW s \in opens
               PROVE  /\ Id(s)' = id[s] /\ Qty(s)' = Clip /\ OrderState(s)' = "PENDING_NEW" /\ Alive(s)'
                      /\ ticker_side_order_'[s].price_ = price[s]
    OBVIOUS
  <2>1. ticker_side_order_'[s] = [order_id_ |-> id[s], price_ |-> price[s], qty_ |-> Clip,
                                  order_state_ |-> "PENDING_NEW"]
    BY <1>4
  <2> QED BY <2>1
<1>8. \A s \in Side : s \notin opens =>
        /\ Id(s)' = Id(s) /\ Qty(s)' = Qty(s) /\ (Alive(s)' <=> Alive(s))
        /\ ticker_side_order_'[s].price_ = ticker_side_order_[s].price_
        /\ OrderState(s)' = IF s \in cancels THEN "PENDING_CANCEL" ELSE OrderState(s)
  <2> SUFFICES ASSUME NEW s \in Side, s \notin opens
               PROVE  /\ Id(s)' = Id(s) /\ Qty(s)' = Qty(s) /\ (Alive(s)' <=> Alive(s))
                      /\ ticker_side_order_'[s].price_ = ticker_side_order_[s].price_
                      /\ OrderState(s)' = IF s \in cancels THEN "PENDING_CANCEL" ELSE OrderState(s)
    OBVIOUS
  <2>1. ticker_side_order_[s] \in OMOrder
    BY <1>3
  <2>2. CASE s \in cancels
    <3>1. ticker_side_order_'[s] = [ticker_side_order_[s] EXCEPT !.order_state_ = "PENDING_CANCEL"]
      BY <2>2, <1>5
    <3>2. ticker_side_order_[s].order_state_ = "LIVE"
      BY <2>2, <1>1 DEF OrderState
    <3> QED BY <2>1, <2>2, <3>1, <3>2 DEF OMOrder, Id, Qty, OrderState, Alive
  <2>3. CASE s \notin cancels
    BY <2>3, <1>6
  <2> QED BY <2>2, <2>3
<1> DEFINE k == Len(requests)
<1>9. /\ requests' \in Seq(Request)
      /\ Len(requests') >= k
      /\ \A i \in 1 .. k : requests'[i] = requests[i]
      /\ \A i \in 1 .. Len(requests') : i > k =>
           \/ \E s \in opens : requests'[i] = newRequest(s, id[s], price[s])
           \/ \E s \in cancels : requests'[i] = cancelRequest(s)
      /\ \A i, j \in 1 .. Len(requests') :
           i > k /\ j > k /\ requests'[i].side_ = requests'[j].side_ => i = j
      /\ \A s \in Side : s \in opens => \E i \in 1 .. Len(requests') : requests'[i] = newRequest(s, id[s], price[s])
      /\ \A s \in Side : s \in cancels => \E i \in 1 .. Len(requests') : requests'[i] = cancelRequest(s)
      /\ \A s \in Side : Total(news(requests', s)) =
           Total(news(requests, s)) + IF s \in opens THEN Clip ELSE 0
  BY <1>2, MovedRequests
<1>10. \A s \in Side : ~Alive(s) =>
         /\ \A o \in open : o.side_ # s
         /\ \A i \in 1 .. k : ~New(i, s)
         /\ \A i \in 1 .. Len(responses) : ~Mine(i, s)
  BY <1>2 DEF OpenInv, NewInv, ResponseInv
<1>11. k \in Nat /\ next_order_id_ \in Nat /\ Clip \in Nat /\ Clip > 0
  BY <1>2, ClipAssumption, MaxOrdersAssumption DEF TypeOK
<1>12. \A s \in opens : s \in Side
  BY <1>1
<1> HIDE DEF Id, Qty, Alive, OrderState
<1>13. \A i, s : (Mine(i, s)' <=> Mine(i, s)) /\ (Fill(i, s)' <=> Fill(i, s)) /\ (Ends(i, s)' <=> Ends(i, s))
  BY <1>1 DEF Mine, Fill, Ends
<1>14. \A i \in 1 .. k : \A s : New(i, s)' <=> New(i, s)
  BY <1>9 DEF New
<1>15. \A i \in 1 .. Len(requests') : i > k =>
         \/ \E s \in opens : requests'[i] = newRequest(s, id[s], price[s]) /\ requests'[i].type_ = "NEW"
               /\ requests'[i].side_ = s /\ requests'[i].order_id_ = Id(s)' /\ requests'[i].qty_ = Qty(s)'
         \/ \E s \in cancels : requests'[i].type_ = "CANCEL"
               /\ requests'[i].side_ = s /\ requests'[i].order_id_ = Id(s)
  <2> SUFFICES ASSUME NEW i \in 1 .. Len(requests'), i > k
               PROVE  \/ \E s \in opens : requests'[i] = newRequest(s, id[s], price[s]) /\ requests'[i].type_ = "NEW"
                            /\ requests'[i].side_ = s /\ requests'[i].order_id_ = Id(s)' /\ requests'[i].qty_ = Qty(s)'
                      \/ \E s \in cancels : requests'[i].type_ = "CANCEL"
                            /\ requests'[i].side_ = s /\ requests'[i].order_id_ = Id(s)
    OBVIOUS
  <2>1. ASSUME NEW s \in opens, requests'[i] = newRequest(s, id[s], price[s])
        PROVE  requests'[i].type_ = "NEW" /\ requests'[i].side_ = s /\ requests'[i].order_id_ = Id(s)'
                 /\ requests'[i].qty_ = Qty(s)'
    BY <2>1, <1>7 DEF newRequest
  <2>2. ASSUME NEW s \in cancels, requests'[i] = cancelRequest(s)
        PROVE  requests'[i].type_ = "CANCEL" /\ requests'[i].side_ = s /\ requests'[i].order_id_ = Id(s)
    BY <2>2 DEF cancelRequest
  <2>3. \/ \E s \in opens : requests'[i] = newRequest(s, id[s], price[s])
        \/ \E s \in cancels : requests'[i] = cancelRequest(s)
    BY <1>9
  <2> QED BY <2>1, <2>2, <2>3, Zenon
<1>16. TypeOK'
  <2>1. ticker_side_order_' \in [Side -> OMOrder]
    <3>1. ticker_side_order_' = [s \in Side |-> ticker_side_order_'[s]]
      BY DEF Moves
    <3>2. ASSUME NEW s \in Side PROVE ticker_side_order_'[s] \in OMOrder
      <4>0. ticker_side_order_[s] \in OMOrder
        BY <1>3
      <4>1. CASE s \in opens
        <5>1. id[s] \in 0 .. MaxOrders /\ price[s] \in Prices
          BY <4>1, <1>1, <1>11, MaxOrdersAssumption
        <5>2. ticker_side_order_'[s] = [order_id_ |-> id[s], price_ |-> price[s], qty_ |-> Clip,
                                        order_state_ |-> "PENDING_NEW"]
          BY <4>1, <1>4
        <5>3. Clip \in 0 .. Clip
          BY <1>11
        <5> QED BY <5>1, <5>2, <5>3 DEF OMOrder, OMOrderState
      <4>2. CASE s \notin opens /\ s \in cancels
        BY <4>0, <4>2, <1>5 DEF OMOrder, OMOrderState
      <4>3. CASE s \notin opens /\ s \notin cancels
        BY <4>0, <4>3, <1>6
      <4> QED BY <4>1, <4>2, <4>3
    <3> QED BY <3>1, <3>2
  <2>2. next_order_id_' \in 1 .. MaxOrders + 1
    BY <1>1, <1>2, MaxOrdersAssumption DEF TypeOK
  <2> QED BY <2>1, <2>2, <1>1, <1>2, <1>9 DEF TypeOK
<1>17. SlotsInv'
  <2>1. ASSUME NEW s \in Side PROVE (Id(s) < next_order_id_)'
    <3>1. CASE s \in opens
      BY <3>1, <1>1, <1>7
    <3>2. CASE s \notin opens
      <4>1. Id(s) < next_order_id_ /\ Id(s) \in Int
        BY <1>2, <1>3, MaxOrdersAssumption DEF SlotsInv, OMOrder, Id
      <4> QED BY <4>1, <3>2, <1>1, <1>8, <1>11
    <3> QED BY <3>1, <3>2
  <2>2. ASSUME NEW s \in Side PROVE (Alive(s) => Id(s) # 0 /\ Qty(s) # 0 /\ ticker_side_order_[s].price_ \in Prices)'
    <3>1. CASE s \in opens
      <4>1. id[s] # 0 /\ Clip # 0 /\ price[s] \in Prices
        BY <3>1, <1>1, <1>2, <1>11, MaxOrdersAssumption DEF TypeOK
      <4> QED BY <4>1, <3>1, <1>7
    <3>2. CASE s \notin opens
      BY <3>2, <1>2, <1>8 DEF SlotsInv
    <3> QED BY <3>1, <3>2
  <2>3. (Id("BUY") = Id("SELL") => Id("BUY") = 0)'
    <3>0. "BUY" \in Side /\ "SELL" \in Side
      BY DEF Side
    <3>1. \A s \in Side : Id(s) < next_order_id_ /\ Id(s) \in Nat
      BY <1>2, <1>3, MaxOrdersAssumption DEF SlotsInv, Id, OMOrder
    <3>2. \A s \in opens : id[s] >= next_order_id_ /\ id[s] \in Int
      BY <1>1, <1>11
    <3>3. CASE "BUY" \in opens /\ "SELL" \in opens
      <4>1. opens = Side
        BY <3>3, <1>1 DEF Side
      <4> QED BY <4>1, <3>3, <1>1, <1>7
    <3>4. CASE "BUY" \in opens /\ "SELL" \notin opens
      <4>1. Id("BUY")' >= next_order_id_ /\ Id("SELL")' < next_order_id_ /\ Id("BUY")' \in Int /\ Id("SELL")' \in Int
        BY <3>0, <3>1, <3>2, <3>4, <1>7, <1>8
      <4> QED BY <4>1, <1>11
    <3>5. CASE "BUY" \notin opens /\ "SELL" \in opens
      <4>1. Id("SELL")' >= next_order_id_ /\ Id("BUY")' < next_order_id_ /\ Id("BUY")' \in Int /\ Id("SELL")' \in Int
        BY <3>0, <3>1, <3>2, <3>5, <1>7, <1>8
      <4> QED BY <4>1, <1>11
    <3>6. CASE "BUY" \notin opens /\ "SELL" \notin opens
      BY <3>0, <3>6, <1>2, <1>8 DEF SlotsInv
    <3> QED BY <3>3, <3>4, <3>5, <3>6
  <2> QED BY <2>1, <2>2, <2>3 DEF SlotsInv
<1>18. OpenInv'
  <2>1. \A o \in open : o.side_ \in Side
    BY <1>2 DEF TypeOK
  <2>2. \A o \in open : o.order_id_ = Id(o.side_)' /\ Alive(o.side_)'
    BY <2>1, <1>1, <1>2, <1>8 DEF OpenInv
  <2> QED BY <2>2, <1>1, <1>2 DEF OpenInv
<1>19. NewInv'
  <2>1. ASSUME NEW i \in 1 .. Len(requests'), NEW s \in Side, New(i, s)'
        PROVE /\ requests'[i].order_id_ = Id(s)'
              /\ requests'[i].qty_ = Qty(s)'
              /\ OrderState(s)' = "PENDING_NEW"
              /\ \A o \in open' : o.side_ # s
              /\ \A j \in 1 .. Len(responses') : ~Mine(j, s)'
    <3>1. CASE i <= k
      <4>1. i \in 1 .. k /\ New(i, s) /\ requests'[i] = requests[i]
        BY <3>1, <2>1, <1>9, <1>11, <1>14
      <4>2. OrderState(s) = "PENDING_NEW" /\ Alive(s)
        BY <4>1, <1>2 DEF NewInv, Alive
      <4>3. s \notin opens /\ s \notin cancels
        BY <4>2, <1>1
      <4> QED BY <4>1, <4>2, <4>3, <1>1, <1>2, <1>8, <1>13 DEF NewInv
    <3>2. CASE i > k
      <4>1. s \in opens /\ requests'[i].order_id_ = Id(s)' /\ requests'[i].qty_ = Qty(s)'
        BY <3>2, <2>1, <1>15 DEF New
      <4> QED BY <4>1, <1>1, <1>7, <1>10, <1>13
    <3> QED BY <3>1, <3>2, <1>11
  <2>2. ASSUME NEW i \in 1 .. Len(requests'), NEW j \in 1 .. Len(requests'), NEW s \in Side,
               New(i, s)', New(j, s)'
        PROVE i = j
    <3>1. CASE i <= k /\ j <= k
      <4>1. i \in 1 .. k /\ j \in 1 .. k /\ New(i, s) /\ New(j, s)
        BY <3>1, <2>2, <1>11, <1>14
      <4> QED BY <4>1, <1>2 DEF NewInv
    <3>2. CASE i > k /\ j > k
      BY <3>2, <2>2, <1>9 DEF New
    <3>3. CASE i <= k /\ j > k
      <4>1. i \in 1 .. k /\ New(i, s)
        BY <3>3, <2>2, <1>11, <1>14
      <4>2. s \in opens
        BY <3>3, <2>2, <1>15 DEF New
      <4> QED BY <4>1, <4>2, <1>1, <1>10
    <3>4. CASE i > k /\ j <= k
      <4>1. j \in 1 .. k /\ New(j, s)
        BY <3>4, <2>2, <1>11, <1>14
      <4>2. s \in opens
        BY <3>4, <2>2, <1>15 DEF New
      <4> QED BY <4>1, <4>2, <1>1, <1>10
    <3> QED BY <3>1, <3>2, <3>3, <3>4, <1>11
  <2> QED BY <2>1, <2>2 DEF NewInv
<1>20. CancelInv'
  <2> SUFFICES ASSUME NEW i \in 1 .. Len(requests'), requests'[i].type_ = "CANCEL"
               PROVE  /\ requests'[i].order_id_ < next_order_id_'
                      /\ \A s \in Side : requests'[i].order_id_ = Id(s)' =>
                           s = requests'[i].side_ /\ OrderState(s)' \in {"PENDING_CANCEL", "DEAD"}
    BY DEF CancelInv
  <2>0. \A s \in Side : Id(s) < next_order_id_ /\ Id(s) \in Nat
    BY <1>2, <1>3, MaxOrdersAssumption DEF SlotsInv, Id, OMOrder
  <2>1. CASE i <= k
    <3>1. i \in 1 .. k /\ requests'[i] = requests[i]
      BY <2>1, <1>9, <1>11
    <3>2. requests[i].order_id_ < next_order_id_ /\ requests[i].order_id_ \in Int
      <4>1. requests[i] \in Request
        BY <3>1, <1>2 DEF TypeOK
      <4>2. requests[i].order_id_ \in Int
        BY <4>1 DEF Request
      <4> QED BY <4>2, <3>1, <1>2 DEF CancelInv
    <3>3. requests'[i].order_id_ < next_order_id_'
      BY <3>1, <3>2, <1>1, <1>11
    <3>4. ASSUME NEW s \in Side, requests'[i].order_id_ = Id(s)'
          PROVE  s = requests'[i].side_ /\ OrderState(s)' \in {"PENDING_CANCEL", "DEAD"}
      <4>1. s \notin opens
        BY <3>1, <3>2, <3>4, <1>1, <1>7, <1>11
      <4>2. s = requests[i].side_ /\ OrderState(s) \in {"PENDING_CANCEL", "DEAD"}
        BY <4>1, <3>1, <3>4, <1>2, <1>8 DEF CancelInv
      <4> QED BY <4>1, <4>2, <3>1, <1>8
    <3> QED BY <3>3, <3>4
  <2>2. CASE i > k
    <3>1. PICK t \in cancels : requests'[i].side_ = t /\ requests'[i].order_id_ = Id(t)
      BY <2>2, <1>15
    <3>2. t \in Side /\ t \notin opens /\ Alive(t) /\ Id(t) # 0
      BY <1>1, <1>2 DEF Alive, SlotsInv
    <3>3. requests'[i].order_id_ < next_order_id_'
      BY <2>0, <3>1, <3>2, <1>1, <1>11
    <3>4. ASSUME NEW s \in Side, requests'[i].order_id_ = Id(s)'
          PROVE  s = requests'[i].side_ /\ OrderState(s)' \in {"PENDING_CANCEL", "DEAD"}
      <4>1. Id(t)' = Id(t) /\ Id(s)' = Id(t)'
        BY <3>1, <3>2, <3>4, <1>8
      <4>2. s = t
        BY <4>1, <3>2, <1>17 DEF SlotsInv, Side
      <4> QED BY <4>2, <3>1, <3>2, <1>8
    <3> QED BY <3>3, <3>4
  <2> QED BY <2>1, <2>2, <1>11
<1>21. ResponseInv'
  <2> SUFFICES ASSUME NEW i \in 1 .. Len(responses), NEW s \in Side, Mine(i, s)
               PROVE  /\ responses[i].order_id_ = Id(s)'
                      /\ Alive(s)'
                      /\ responses[i].type_ = "ACCEPTED" =>
                           /\ OrderState(s)' = "PENDING_NEW"
                           /\ \A j \in 1 .. Len(responses) : j < i => ~Mine(j, s)
                      /\ Ends(i, s) =>
                           /\ \A o \in open : o.side_ # s
                           /\ \A j \in 1 .. Len(responses) : Mine(j, s) => j <= i
    BY <1>1, <1>13 DEF ResponseInv
  <2>1. s \notin opens
    BY <1>1, <1>10
  <2> QED BY <2>1, <1>1, <1>2, <1>8 DEF ResponseInv
<1>22. WaitInv'
  <2> SUFFICES ASSUME NEW s \in Side
               PROVE  /\ OrderState(s)' = "PENDING_NEW" =>
                           \/ \E i \in 1 .. Len(requests') : New(i, s)'
                           \/ \E i \in 1 .. Len(responses) : Mine(i, s) /\ responses[i].type_ = "ACCEPTED"
                      /\ OrderState(s)' = "PENDING_CANCEL" =>
                           \/ \E i \in 1 .. Len(requests') : Cancel(i, s)'
                           \/ \E i \in 1 .. Len(responses) : Ends(i, s)
                      /\ Alive(s)' =>
                           \/ \E i \in 1 .. Len(requests') : New(i, s)'
                           \/ \E o \in open : o.side_ = s
                           \/ \E i \in 1 .. Len(responses) : Ends(i, s)
    BY <1>1, <1>13 DEF WaitInv
  <2>0. \A i \in 1 .. k : i \in 1 .. Len(requests')
    BY <1>9, <1>11
  <2>1. CASE s \in opens
    <3>1. \E i \in 1 .. Len(requests') : New(i, s)'
      <4>1. PICK i \in 1 .. Len(requests') : requests'[i] = newRequest(s, id[s], price[s])
        BY <2>1, <1>9
      <4>2. requests'[i].type_ = "NEW" /\ requests'[i].side_ = s
        BY <4>1 DEF newRequest
      <4> QED BY <4>2 DEF New
    <3> QED BY <2>1, <3>1, <1>7
  <2>2. CASE s \notin opens /\ s \in cancels
    <3>1. \E i \in 1 .. Len(requests') : Cancel(i, s)'
      <4>1. PICK i \in 1 .. Len(requests') : requests'[i] = cancelRequest(s)
        BY <2>2, <1>9
      <4>2. requests'[i].type_ = "CANCEL" /\ requests'[i].order_id_ = Id(s) /\ Id(s)' = Id(s)
        BY <4>1, <2>2, <1>8 DEF cancelRequest
      <4> QED BY <4>2 DEF Cancel
    <3>2. Alive(s) /\ OrderState(s)' = "PENDING_CANCEL"
      BY <2>2, <1>1, <1>8 DEF Alive
    <3>3. \A i \in 1 .. k : New(i, s) => New(i, s)'
      BY <1>14
    <3>4. \/ \E i \in 1 .. k : New(i, s)
          \/ \E o \in open : o.side_ = s
          \/ \E i \in 1 .. Len(responses) : Ends(i, s)
      BY <3>2, <1>2 DEF WaitInv
    <3> QED BY <3>1, <3>2, <3>3, <3>4, <2>0
  <2>3. CASE s \notin opens /\ s \notin cancels
    <3>1. OrderState(s)' = OrderState(s) /\ Alive(s)' = Alive(s) /\ Id(s)' = Id(s)
      BY <2>3, <1>8 DEF Alive
    <3>2. \A i \in 1 .. k : (New(i, s) => New(i, s)') /\ (Cancel(i, s) => Cancel(i, s)')
      BY <3>1, <1>9, <1>14 DEF Cancel
    <3>3. /\ OrderState(s) = "PENDING_NEW" =>
               \/ \E i \in 1 .. k : New(i, s)
               \/ \E i \in 1 .. Len(responses) : Mine(i, s) /\ responses[i].type_ = "ACCEPTED"
          /\ OrderState(s) = "PENDING_CANCEL" =>
               \/ \E i \in 1 .. k : Cancel(i, s)
               \/ \E i \in 1 .. Len(responses) : Ends(i, s)
          /\ Alive(s) =>
               \/ \E i \in 1 .. k : New(i, s)
               \/ \E o \in open : o.side_ = s
               \/ \E i \in 1 .. Len(responses) : Ends(i, s)
      BY <1>2 DEF WaitInv
    <3> QED BY <3>1, <3>2, <3>3, <2>0
  <2> QED BY <2>1, <2>2, <2>3
<1>23. QuantityInv'
  <2>1. \A s \in Side, i \in 1 .. Len(responses) : Fill(i, s) => s \notin opens
    BY <1>1, <1>10 DEF Fill, Mine
  <2>2. \A s \in Side : \A o \in open : o.side_ = s => s \notin opens
    BY <1>1, <1>10
  <2>3. \A s \in Side : s \notin opens => Qty(s)' = Qty(s)
    BY <1>8
  <2> QED BY <2>1, <2>2, <2>3, <1>1, <1>2, <1>13 DEF QuantityInv
<1>24. SumInv'
  <2> SUFFICES ASSUME NEW s \in Side
               PROVE  /\ inFlight(s)' <= IF Alive(s)' THEN Qty(s)' ELSE 0
                      /\ \A i \in 1 .. Len(responses) : Fill(i, s) =>
                           Rest(fills(responses, s), i) + leaves(open, s) <= responses[i].leaves_qty_
    BY <1>1, <1>13 DEF SumInv
  <2>1. inFlight(s)' = Total(fills(responses, s)) + Total(news(requests', s)) + leaves(open, s)
    BY <1>1 DEF inFlight
  <2>2. /\ Total(fills(responses, s)) \in Int /\ Total(news(requests, s)) \in Int
        /\ leaves(open, s) \in Nat
    BY <1>2, InFlightType
  <2>3. /\ inFlight(s) = Total(fills(responses, s)) + Total(news(requests, s)) + leaves(open, s)
        /\ inFlight(s) <= IF Alive(s) THEN Qty(s) ELSE 0
        /\ \A i \in 1 .. Len(responses) : Fill(i, s) =>
             Rest(fills(responses, s), i) + leaves(open, s) <= responses[i].leaves_qty_
    BY <1>2 DEF SumInv, inFlight
  <2>4. CASE s \in opens
    <3>1. Total(fills(responses, s)) + Total(news(requests, s)) + leaves(open, s) <= 0
      BY <2>3, <2>4, <1>1
    <3>2. Total(news(requests', s)) = Total(news(requests, s)) + Clip
      BY <2>4, <1>9
    <3>3. inFlight(s)' <= Clip
      BY <3>1, <3>2, <2>1, <2>2, <1>11
    <3> QED BY <3>3, <2>3, <2>4, <1>7
  <2>5. CASE s \notin opens
    <3>1. Total(news(requests', s)) = Total(news(requests, s))
      BY <2>5, <2>2, <1>9
    <3>2. inFlight(s)' = inFlight(s)
      BY <3>1, <2>1, <2>3
    <3> QED BY <3>2, <2>3, <2>5, <1>8
  <2> QED BY <2>4, <2>5
<1>25. LimitInv'
  <2>1. ASSUME NEW s \in Side, s \in opens
        PROVE  Abs(position_ + sideToValue(s) * Clip) <= MaxPosition
    BY <2>1 DEF Moves, checkPreTradeRisk
  <2>2. position_ \in Int /\ MaxPosition \in Nat
    BY <1>2, LimitsAssumption DEF TypeOK
  <2>3. "BUY" \in opens => position_ + Clip <= MaxPosition
    BY <2>1, <2>2, <1>11 DEF Side, Abs, sideToValue
  <2>4. "SELL" \in opens => -MaxPosition <= position_ - Clip
    BY <2>1, <2>2, <1>11 DEF Side, Abs, sideToValue
  <2>5. "BUY" \in Side /\ "SELL" \in Side
    BY DEF Side
  <2> QED BY <2>3, <2>4, <2>5, <1>1, <1>2, <1>7, <1>8 DEF LimitInv
<1> QED BY <1>16, <1>17, <1>18, <1>19, <1>20, <1>21, <1>22, <1>23, <1>24, <1>25 DEF IInv
-----------------------------------------------------------------------------
(* The exchange's steps *)

(* What appending a response changes, side by side. *)
LEMMA Appended ==
  ASSUME TypeOK, NEW r \in Response, responses' = Append(responses, r)
  PROVE  /\ responses' \in Seq(Response) /\ Len(responses) \in Nat
         /\ Len(responses') = Len(responses) + 1
         /\ \A i \in 1 .. Len(responses) : responses'[i] = responses[i]
         /\ responses'[Len(responses) + 1] = r
         /\ \A i \in 1 .. Len(responses') : \A s : i # Len(responses) + 1 =>
              /\ i \in 1 .. Len(responses)
              /\ (Mine(i, s)' <=> Mine(i, s)) /\ (Fill(i, s)' <=> Fill(i, s))
              /\ (Ends(i, s)' <=> Ends(i, s))
         /\ \A s \in Side :
              /\ Total(fills(responses', s)) = Total(fills(responses, s)) + FillOf(r, s)
              /\ \A i \in 0 .. Len(responses) :
                   Rest(fills(responses', s), i) = Rest(fills(responses, s), i) + FillOf(r, s)
              /\ Rest(fills(responses', s), Len(responses) + 1) = 0
              /\ FillOf(r, s) \in Int
<1>1. responses \in Seq(Response)
  BY DEF TypeOK
<1>2. /\ responses' \in Seq(Response) /\ Len(responses) \in Nat
      /\ Len(responses') = Len(responses) + 1
      /\ \A i \in 1 .. Len(responses) : responses'[i] = responses[i]
      /\ responses'[Len(responses) + 1] = r
  BY <1>1, AppendProperties
<1>3. ASSUME NEW i \in 1 .. Len(responses'), NEW s, i # Len(responses) + 1
      PROVE  /\ i \in 1 .. Len(responses)
             /\ (Mine(i, s)' <=> Mine(i, s)) /\ (Fill(i, s)' <=> Fill(i, s))
             /\ (Ends(i, s)' <=> Ends(i, s))
  <2>1. i \in 1 .. Len(responses)
    BY <1>2, <1>3
  <2>2. responses'[i] = responses[i]
    BY <2>1, <1>2
  <2> QED BY <2>1, <2>2 DEF Mine, Fill, Ends
<1>4. ASSUME NEW s \in Side
      PROVE  /\ Total(fills(responses', s)) = Total(fills(responses, s)) + FillOf(r, s)
             /\ \A i \in 0 .. Len(responses) :
                   Rest(fills(responses', s), i) = Rest(fills(responses, s), i) + FillOf(r, s)
             /\ Rest(fills(responses', s), Len(responses) + 1) = 0
             /\ FillOf(r, s) \in Int
  <2>1. fills(responses', s) = Append(fills(responses, s), FillOf(r, s)) /\ FillOf(r, s) \in Int
    BY <1>1, FillsAppend
  <2>2. fills(responses, s) \in Seq(Int) /\ Len(fills(responses, s)) = Len(responses)
    BY <1>1, FillsType
  <2>3. fills(responses', s) \in Seq(Int) /\ Len(fills(responses', s)) = Len(responses) + 1
    BY <1>2, FillsType
  <2>4. Total(fills(responses', s)) = Total(fills(responses, s)) + FillOf(r, s)
    BY <2>1, <2>2, TotalAppend
  <2>5. \A i \in 0 .. Len(responses) :
           Rest(fills(responses', s), i) = Rest(fills(responses, s), i) + FillOf(r, s)
    BY <2>1, <2>2, RestAppend
  <2>6. Rest(fills(responses', s), Len(responses) + 1) = 0
    BY <2>3, RestOfLast
  <2> QED BY <2>1, <2>4, <2>5, <2>6
<1> QED BY <1>2, <1>3, <1>4

(* What taking the first request away changes. *)
LEMMA Taken ==
  ASSUME TypeOK, requests # << >>, requests' = Tail(requests)
  PROVE  /\ requests' \in Seq(Request) /\ Len(requests) \in Nat /\ Len(requests) >= 1
         /\ Len(requests') = Len(requests) - 1
         /\ Head(requests) = requests[1] /\ requests[1] \in Request
         /\ \A i \in 1 .. Len(requests') :
              i + 1 \in 1 .. Len(requests) /\ requests'[i] = requests[i + 1]
         /\ \A i \in 1 .. Len(requests) : i = 1 \/ (i - 1 \in 1 .. Len(requests') /\ requests'[i - 1] = requests[i])
         /\ \A s \in Side : Total(news(requests, s)) = NewOf(requests[1], s) + Total(news(requests', s))
<1>1. requests \in Seq(Request)
  BY DEF TypeOK
<1>2. /\ requests' \in Seq(Request) /\ Len(requests) \in Nat /\ Len(requests) >= 1
      /\ Len(requests') = Len(requests) - 1
      /\ Head(requests) = requests[1] /\ requests[1] \in Request
      /\ \A i \in 1 .. Len(requests') : requests'[i] = requests[i + 1]
  BY <1>1, HeadTailProperties
<1>3. \A s \in Side : Total(news(requests, s)) = NewOf(requests[1], s) + Total(news(requests', s))
  BY <1>1, <1>2, NewsTail
<1>4. \A i \in 1 .. Len(requests') : i + 1 \in 1 .. Len(requests)
  BY <1>2
<1>5. ASSUME NEW i \in 1 .. Len(requests), i # 1
      PROVE  i - 1 \in 1 .. Len(requests') /\ requests'[i - 1] = requests[i]
  <2>1. i - 1 \in 1 .. Len(requests') /\ (i - 1) + 1 = i
    BY <1>2, <1>5
  <2> QED BY <2>1, <1>2
<1> QED BY <1>2, <1>3, <1>4, <1>5

(* The exchange takes a NEW. *)
LEMMA NewStep ==
  ASSUME IInv, ExchangeNew
  PROVE  IInv'
<1>1. /\ TypeOK /\ SlotsInv /\ OpenInv /\ NewInv /\ CancelInv /\ ResponseInv
      /\ WaitInv /\ QuantityInv /\ SumInv /\ LimitInv
  BY DEF IInv
<1>0. PICK r, n : r = requests[1] /\ n = Len(responses)
  OBVIOUS
<1> DEFINE t == r.side_
           x == [order_id_ |-> r.order_id_, side_ |-> t, leaves_ |-> r.qty_]
           a == [type_ |-> "ACCEPTED", order_id_ |-> r.order_id_, side_ |-> t]
<1>2. /\ requests # << >> /\ requests' = Tail(requests)
      /\ UNCHANGED <<algo, ticker_side_order_, next_order_id_, position_>>
  BY DEF ExchangeNew
<1>3. /\ requests' \in Seq(Request) /\ Len(requests) \in Nat /\ Len(requests) >= 1
      /\ Len(requests') = Len(requests) - 1
      /\ Head(requests) = r /\ r \in Request /\ requests[1] = r
      /\ \A i \in 1 .. Len(requests') :
           i + 1 \in 1 .. Len(requests) /\ requests'[i] = requests[i + 1]
      /\ \A i \in 1 .. Len(requests) : i = 1 \/ (i - 1 \in 1 .. Len(requests') /\ requests'[i - 1] = requests[i])
      /\ \A s \in Side : Total(news(requests, s)) = NewOf(r, s) + Total(news(requests', s))
  BY <1>0, <1>1, <1>2, Taken
<1>4. /\ r.type_ = "NEW" /\ open' = open \cup {x} /\ responses' = Append(responses, a)
  BY <1>3 DEF ExchangeNew, respond
<1>5. t \in Side /\ r.order_id_ \in 1 .. MaxOrders /\ r.qty_ \in 0 .. Clip
  BY <1>3 DEF Request
<1>6. a \in Response
  BY <1>5 DEF Response
<1>7. /\ responses' \in Seq(Response) /\ n \in Nat
      /\ Len(responses') = n + 1
      /\ \A i \in 1 .. n : responses'[i] = responses[i]
      /\ responses'[n + 1] = a
      /\ \A i \in 1 .. Len(responses') : \A s : i # n + 1 =>
           /\ i \in 1 .. n
           /\ (Mine(i, s)' <=> Mine(i, s)) /\ (Fill(i, s)' <=> Fill(i, s))
           /\ (Ends(i, s)' <=> Ends(i, s))
      /\ \A s \in Side :
           /\ Total(fills(responses', s)) = Total(fills(responses, s)) + FillOf(a, s)
           /\ \A i \in 0 .. n :
                Rest(fills(responses', s), i) = Rest(fills(responses, s), i) + FillOf(a, s)
           /\ Rest(fills(responses', s), n + 1) = 0
           /\ FillOf(a, s) \in Int
  <2> HIDE DEF a
  <2> QED BY <1>0, <1>1, <1>4, <1>6, Appended
<1>8. \A s : /\ Mine(n + 1, s)' <=> s = t
             /\ ~Fill(n + 1, s)' /\ ~Ends(n + 1, s)'
  BY <1>7 DEF Mine, Fill, Ends
<1>9. New(1, t)
  BY <1>3, <1>4 DEF New
<1>10. /\ r.order_id_ = Id(t) /\ r.qty_ = Qty(t) /\ OrderState(t) = "PENDING_NEW" /\ Alive(t)
       /\ \A o \in open : o.side_ # t
       /\ \A j \in 1 .. n : ~Mine(j, t)
       /\ \A i \in 1 .. Len(requests) : New(i, t) => i = 1
  BY <1>0, <1>1, <1>3, <1>5, <1>9 DEF NewInv, Alive
<1>11. \A s : Id(s)' = Id(s) /\ Qty(s)' = Qty(s) /\ OrderState(s)' = OrderState(s) /\ (Alive(s)' <=> Alive(s))
  BY <1>2 DEF Id, Qty, OrderState, Alive
<1>12. \A i \in 1 .. Len(requests') : \A s : /\ New(i, s)' <=> New(i + 1, s)
                                             /\ Cancel(i, s)' <=> Cancel(i + 1, s)
  BY <1>3, <1>11 DEF New, Cancel
<1>13. \A i \in 1 .. Len(requests') : \A s : New(i, s)' => s # t
  <2> SUFFICES ASSUME NEW i \in 1 .. Len(requests'), New(i, t)' PROVE FALSE
    OBVIOUS
  <2>1. i + 1 \in 1 .. Len(requests) /\ New(i + 1, t) /\ i + 1 # 1
    BY <1>3, <1>12
  <2> QED BY <2>1, <1>10
<1>14. x.side_ = t /\ x.order_id_ = Id(t) /\ x.leaves_ = Qty(t) /\ x \in open'
  BY <1>4, <1>10
<1>15. Qty(t) \in 1 .. Clip
  <2>1. Qty(t) \in 0 .. Clip
    BY <1>1, <1>5 DEF TypeOK, OMOrder, Qty
  <2>2. Qty(t) # 0
    BY <1>1, <1>5, <1>10 DEF SlotsInv
  <2> QED BY <2>1, <2>2, ClipAssumption
<1> HIDE DEF x, a
<1>16. TypeOK'
  <2>1. x \in [order_id_ : 1 .. MaxOrders, side_ : Side, leaves_ : 1 .. Clip]
    BY <1>5, <1>10, <1>15 DEF x
  <2> QED BY <2>1, <1>1, <1>2, <1>3, <1>4, <1>7 DEF TypeOK
<1>17. SlotsInv'
  BY <1>1, <1>2, <1>11 DEF SlotsInv
<1>18. OpenInv'
  <2>1. \A o \in open' : o \in open \/ o = x
    BY <1>4
  <2>2. \A o \in open' : o.order_id_ = Id(o.side_)' /\ Alive(o.side_)'
    BY <2>1, <1>1, <1>10, <1>11, <1>14 DEF OpenInv
  <2>3. \A o, p \in open' : o.side_ = p.side_ => o = p
    BY <2>1, <1>1, <1>10, <1>14 DEF OpenInv
  <2> QED BY <2>2, <2>3 DEF OpenInv
<1>19. NewInv'
  <2>1. ASSUME NEW i \in 1 .. Len(requests'), NEW s \in Side, New(i, s)'
        PROVE /\ requests'[i].order_id_ = Id(s)'
              /\ requests'[i].qty_ = Qty(s)'
              /\ OrderState(s)' = "PENDING_NEW"
              /\ \A o \in open' : o.side_ # s
              /\ \A j \in 1 .. Len(responses') : ~Mine(j, s)'
    <3>1. i + 1 \in 1 .. Len(requests) /\ New(i + 1, s) /\ requests'[i] = requests[i + 1] /\ s # t
      BY <2>1, <1>3, <1>12, <1>13
    <3>2. /\ requests[i + 1].order_id_ = Id(s)
          /\ requests[i + 1].qty_ = Qty(s)
          /\ OrderState(s) = "PENDING_NEW"
          /\ \A o \in open : o.side_ # s
          /\ \A j \in 1 .. Len(responses) : ~Mine(j, s)
      BY <3>1, <1>1 DEF NewInv
    <3>3. \A o \in open' : o.side_ # s
      BY <3>1, <3>2, <1>4, <1>14
    <3>4. \A j \in 1 .. Len(responses') : ~Mine(j, s)'
      BY <1>0, <3>1, <3>2, <1>7, <1>8
    <3> QED BY <3>1, <3>2, <3>3, <3>4, <1>11
  <2>2. ASSUME NEW i \in 1 .. Len(requests'), NEW j \in 1 .. Len(requests'), NEW s \in Side,
               New(i, s)', New(j, s)'
        PROVE i = j
    <3>1. i + 1 \in 1 .. Len(requests) /\ j + 1 \in 1 .. Len(requests) /\ New(i + 1, s) /\ New(j + 1, s)
      BY <2>2, <1>3, <1>12
    <3>2. i + 1 = j + 1
      BY <3>1, <1>1 DEF NewInv
    <3> QED BY <3>2, <1>3
  <2> QED BY <2>1, <2>2 DEF NewInv
<1>20. CancelInv'
  BY <1>1, <1>2, <1>3, <1>11 DEF CancelInv
<1>21. ResponseInv'
  <2> SUFFICES ASSUME NEW i \in 1 .. Len(responses'), NEW s \in Side, Mine(i, s)'
               PROVE  /\ responses'[i].order_id_ = Id(s)
                      /\ Alive(s)
                      /\ responses'[i].type_ = "ACCEPTED" =>
                           /\ OrderState(s) = "PENDING_NEW"
                           /\ \A j \in 1 .. Len(responses') : j < i => ~Mine(j, s)'
                      /\ Ends(i, s)' =>
                           /\ \A o \in open' : o.side_ # s
                           /\ \A j \in 1 .. Len(responses') : Mine(j, s)' => j <= i
    BY <1>11 DEF ResponseInv
  <2>1. CASE i = n + 1
    <3>1. s = t /\ responses'[i] = a /\ ~Ends(i, s)'
      BY <2>1, <1>7, <1>8
    <3>2. \A j \in 1 .. Len(responses') : j < i => ~Mine(j, s)'
      <4> SUFFICES ASSUME NEW j \in 1 .. Len(responses'), j < i PROVE ~Mine(j, s)'
        OBVIOUS
      <4>1. j # n + 1
        BY <2>1, <1>7
      <4> QED BY <4>1, <3>1, <1>7, <1>10
    <3> QED BY <3>1, <3>2, <1>10 DEF a
  <2>2. CASE i # n + 1
    <3>1. i \in 1 .. n /\ Mine(i, s) /\ responses'[i] = responses[i] /\ (Ends(i, s)' <=> Ends(i, s)) /\ s # t
      BY <2>2, <1>7, <1>10
    <3>2. /\ responses[i].order_id_ = Id(s)
          /\ Alive(s)
          /\ responses[i].type_ = "ACCEPTED" =>
               /\ OrderState(s) = "PENDING_NEW"
               /\ \A j \in 1 .. n : j < i => ~Mine(j, s)
          /\ Ends(i, s) =>
               /\ \A o \in open : o.side_ # s
               /\ \A j \in 1 .. n : Mine(j, s) => j <= i
      BY <1>0, <3>1, <1>1 DEF ResponseInv
    <3>3. \A j \in 1 .. Len(responses') : Mine(j, s)' => j \in 1 .. n /\ Mine(j, s)
      BY <3>1, <1>7, <1>8
    <3>4. \A o \in open' : o.side_ = s => o \in open
      BY <3>1, <1>4, <1>14
    <3> QED BY <3>1, <3>2, <3>3, <3>4
  <2> QED BY <2>1, <2>2
<1>22. WaitInv'
  <2> SUFFICES ASSUME NEW s \in Side
               PROVE  /\ OrderState(s) = "PENDING_NEW" =>
                           \/ \E i \in 1 .. Len(requests') : New(i, s)'
                           \/ \E i \in 1 .. Len(responses') : Mine(i, s)' /\ responses'[i].type_ = "ACCEPTED"
                      /\ OrderState(s) = "PENDING_CANCEL" =>
                           \/ \E i \in 1 .. Len(requests') : Cancel(i, s)'
                           \/ \E i \in 1 .. Len(responses') : Ends(i, s)'
                      /\ Alive(s) =>
                           \/ \E i \in 1 .. Len(requests') : New(i, s)'
                           \/ \E o \in open' : o.side_ = s
                           \/ \E i \in 1 .. Len(responses') : Ends(i, s)'
    BY <1>11 DEF WaitInv
  <2>1. CASE s = t
    <3>1. n + 1 \in 1 .. Len(responses') /\ Mine(n + 1, s)' /\ responses'[n + 1].type_ = "ACCEPTED"
      BY <2>1, <1>7, <1>8 DEF a
    <3> QED BY <2>1, <3>1, <1>10, <1>14
  <2>2. CASE s # t
    <3>1. /\ OrderState(s) = "PENDING_NEW" =>
               \/ \E i \in 1 .. Len(requests) : New(i, s)
               \/ \E i \in 1 .. n : Mine(i, s) /\ responses[i].type_ = "ACCEPTED"
          /\ OrderState(s) = "PENDING_CANCEL" =>
               \/ \E i \in 1 .. Len(requests) : Cancel(i, s)
               \/ \E i \in 1 .. n : Ends(i, s)
          /\ Alive(s) =>
               \/ \E i \in 1 .. Len(requests) : New(i, s)
               \/ \E o \in open : o.side_ = s
               \/ \E i \in 1 .. n : Ends(i, s)
      BY <1>0, <1>1 DEF WaitInv
    <3>2. ~New(1, s) /\ ~Cancel(1, s)
      BY <2>2, <1>3, <1>4 DEF New, Cancel
    <3>3. \A i \in 1 .. Len(requests) : New(i, s) => \E j \in 1 .. Len(requests') : New(j, s)'
      BY <3>2, <1>3 DEF New
    <3>4. \A i \in 1 .. Len(requests) : Cancel(i, s) => \E j \in 1 .. Len(requests') : Cancel(j, s)'
      BY <3>2, <1>3, <1>11 DEF Cancel
    <3>5. \A i \in 1 .. n : i \in 1 .. Len(responses') /\ i # n + 1 /\ responses'[i] = responses[i]
      BY <1>7
    <3>6. open \subseteq open'
      BY <1>4
    <3>7. \A i \in 1 .. n : (Mine(i, s)' <=> Mine(i, s)) /\ (Ends(i, s)' <=> Ends(i, s))
      BY <3>5, <1>7
    <3> QED BY <3>1, <3>3, <3>4, <3>5, <3>6, <3>7
  <2> QED BY <2>1, <2>2
<1>23. QuantityInv'
  <2>1. \A i \in 1 .. Len(responses'), s \in Side : Fill(i, s)' =>
          i \in 1 .. n /\ Fill(i, s) /\ responses'[i] = responses[i] /\ s # t
    BY <1>7, <1>8, <1>10 DEF Fill, Mine
  <2>2. \A i \in 1 .. n, s \in Side : Fill(i, s) => i \in 1 .. Len(responses') /\ Fill(i, s)' /\ responses'[i] = responses[i]
    BY <1>7
  <2> SUFFICES ASSUME NEW s \in Side
               PROVE
    /\ \A i \in 1 .. Len(responses') : Fill(i, s)' =>
         /\ responses'[i].exec_qty_ + responses'[i].leaves_qty_ <= Qty(s)
         /\ \A j \in 1 .. Len(responses') : j < i /\ Fill(j, s)' =>
              responses'[i].exec_qty_ + responses'[i].leaves_qty_ <= responses'[j].leaves_qty_
    /\ \A o \in open' : o.side_ = s =>
         /\ \A i \in 1 .. Len(responses') : Fill(i, s)' => o.leaves_ <= responses'[i].leaves_qty_
         /\ o.leaves_ <= Qty(s)
         /\ \/ o.leaves_ = Qty(s)
            \/ \E i \in 1 .. Len(responses') : Fill(i, s)' /\ o.leaves_ = responses'[i].leaves_qty_
    BY <1>11 DEF QuantityInv
  <2>3. /\ \A i \in 1 .. n : Fill(i, s) =>
         /\ responses[i].exec_qty_ + responses[i].leaves_qty_ <= Qty(s)
         /\ \A j \in 1 .. n : j < i /\ Fill(j, s) =>
              responses[i].exec_qty_ + responses[i].leaves_qty_ <= responses[j].leaves_qty_
    /\ \A o \in open : o.side_ = s =>
         /\ \A i \in 1 .. n : Fill(i, s) => o.leaves_ <= responses[i].leaves_qty_
         /\ o.leaves_ <= Qty(s)
         /\ \/ o.leaves_ = Qty(s)
            \/ \E i \in 1 .. n : Fill(i, s) /\ o.leaves_ = responses[i].leaves_qty_
    BY <1>0, <1>1 DEF QuantityInv
  <2>4. \A i \in 1 .. Len(responses') : Fill(i, s)' =>
         /\ responses'[i].exec_qty_ + responses'[i].leaves_qty_ <= Qty(s)
         /\ \A j \in 1 .. Len(responses') : j < i /\ Fill(j, s)' =>
              responses'[i].exec_qty_ + responses'[i].leaves_qty_ <= responses'[j].leaves_qty_
    BY <2>1, <2>3
  <2>5. ASSUME NEW o \in open', o.side_ = s
        PROVE  /\ \A i \in 1 .. Len(responses') : Fill(i, s)' => o.leaves_ <= responses'[i].leaves_qty_
               /\ o.leaves_ <= Qty(s)
               /\ \/ o.leaves_ = Qty(s)
                  \/ \E i \in 1 .. Len(responses') : Fill(i, s)' /\ o.leaves_ = responses'[i].leaves_qty_
    <3>1. CASE o = x
      <4>1. s = t /\ o.leaves_ = Qty(s)
        BY <3>1, <2>5, <1>14
      <4> QED BY <4>1, <2>1, <1>15
    <3>2. CASE o \in open
      BY <3>2, <2>1, <2>2, <2>3, <2>5
    <3> QED BY <3>1, <3>2, <1>4
  <2> QED BY <2>4, <2>5
<1>24. SumInv'
  <2> SUFFICES ASSUME NEW s \in Side
               PROVE  /\ inFlight(s)' <= IF Alive(s) THEN Qty(s) ELSE 0
                      /\ \A i \in 1 .. Len(responses') : Fill(i, s)' =>
                           Rest(fills(responses', s), i) + leaves(open', s) <= responses'[i].leaves_qty_
    BY <1>11 DEF SumInv
  <2>0. inFlight(s)' = Total(fills(responses', s)) + Total(news(requests', s)) + leaves(open', s)
    BY DEF inFlight
  <2>1. FillOf(a, s) = 0
    BY DEF FillOf, a
  <2>2. /\ Total(fills(responses, s)) \in Int /\ Total(news(requests, s)) \in Int
        /\ leaves(open, s) \in Nat
        /\ \A i \in 0 .. n : Rest(fills(responses, s), i) \in Int
    BY <1>0, <1>1, InFlightType
  <2>3. Total(fills(responses', s)) = Total(fills(responses, s))
    BY <2>1, <2>2, <1>7
  <2>4. \A i \in 1 .. n : Rest(fills(responses', s), i) = Rest(fills(responses, s), i)
    BY <2>1, <2>2, <1>7
  <2>5. /\ Total(fills(responses, s)) + Total(news(requests, s)) + leaves(open, s) <= IF Alive(s) THEN Qty(s) ELSE 0
        /\ \A i \in 1 .. n : Fill(i, s) =>
             Rest(fills(responses, s), i) + leaves(open, s) <= responses[i].leaves_qty_
    BY <1>0, <1>1 DEF SumInv, inFlight
  <2>6. Total(news(requests', s)) \in Int
    BY <1>3, NewsType, TotalType
  <2>7. CASE s = t
    <3>1. NewOf(r, s) = Qty(s)
      BY <2>7, <1>4, <1>10 DEF NewOf
    <3>2. leaves(open, s) = 0
      BY <2>7, <1>10, LeavesNone
    <3>3. leaves(open', s) = Qty(s)
      <4>1. x.leaves_ \in Nat /\ \A o \in open' : o.side_ = s => o = x
        BY <2>7, <1>4, <1>10, <1>14, <1>15
      <4> QED BY <4>1, <2>7, <1>14, LeavesOne
    <3>4. Total(news(requests, s)) = Qty(s) + Total(news(requests', s))
      BY <3>1, <1>3
    <3>5. \A i \in 1 .. Len(responses') : ~Fill(i, s)'
      BY <2>7, <1>7, <1>8, <1>10 DEF Fill, Mine
    <3>6. Qty(s) \in Int
      BY <2>7, <1>15
    <3>7. inFlight(s)' <= IF Alive(s) THEN Qty(s) ELSE 0
      BY <2>0, <2>2, <2>3, <2>5, <2>6, <3>2, <3>3, <3>4, <3>6
    <3> QED BY <3>5, <3>7
  <2>8. CASE s # t
    <3>1. NewOf(r, s) = 0
      BY <2>8 DEF NewOf
    <3>2. {o \in open' : o.side_ = s} = {o \in open : o.side_ = s}
      BY <2>8, <1>4, <1>14
    <3>3. leaves(open', s) = leaves(open, s)
      BY <3>2, Zenon DEF leaves
    <3>4. Total(news(requests, s)) = Total(news(requests', s))
      BY <3>1, <2>6, <1>3
    <3>5. \A i \in 1 .. Len(responses') : Fill(i, s)' => i \in 1 .. n /\ Fill(i, s) /\ responses'[i] = responses[i]
      BY <1>7, <1>8
    <3>6. inFlight(s)' <= IF Alive(s) THEN Qty(s) ELSE 0
      BY <2>0, <2>3, <2>5, <3>3, <3>4
    <3> QED BY <3>3, <3>5, <3>6, <2>4, <2>5
  <2> QED BY <2>7, <2>8
<1>25. LimitInv'
  BY <1>1, <1>2, <1>11 DEF LimitInv
<1> QED BY <1>16, <1>17, <1>18, <1>19, <1>20, <1>21, <1>22, <1>23, <1>24, <1>25 DEF IInv

(* A fill of an open order that leaves at most the difference; nothing     *)
(* left ends the order.                                                    *)
LEMMA FillStep ==
  ASSUME IInv, NEW order \in open, NEW fill \in 1 .. Clip, NEW rest \in 0 .. Clip,
         fill + rest <= order.leaves_,
         open' = (open \ {order}) \cup
                   (IF rest = 0 THEN {} ELSE {[order EXCEPT !.leaves_ = rest]}),
         respondFilled(order, fill, rest),
         UNCHANGED <<algo, ticker_side_order_, next_order_id_, position_, requests>>
  PROVE  IInv'
<1>1. /\ TypeOK /\ SlotsInv /\ OpenInv /\ NewInv /\ CancelInv /\ ResponseInv
      /\ WaitInv /\ QuantityInv /\ SumInv /\ LimitInv
  BY DEF IInv
<1>0. PICK n : n = Len(responses)
  OBVIOUS
<1> DEFINE t == order.side_
           y == [order EXCEPT !.leaves_ = rest]
           a == [type_ |-> "FILLED", order_id_ |-> order.order_id_, side_ |-> t,
                 exec_qty_ |-> fill, leaves_qty_ |-> rest]
<1>2. /\ t \in Side /\ order.order_id_ \in 1 .. MaxOrders /\ order.leaves_ \in 1 .. Clip
      /\ order \in [order_id_ : 1 .. MaxOrders, side_ : Side, leaves_ : 1 .. Clip]
  BY <1>1 DEF TypeOK
<1>3. responses' = Append(responses, a)
  BY DEF respondFilled
<1>4. fill \in Nat /\ rest \in Nat /\ Clip \in Nat /\ order.leaves_ \in Nat
  BY <1>2, ClipAssumption
<1>5. a \in Response
  <2>1. fill \in 0 .. Clip
    BY <1>4
  <2> QED BY <1>2, <2>1 DEF Response
<1>6. FillOf(a, t) = fill /\ \A s \in Side : s # t => FillOf(a, s) = 0
  BY DEF FillOf
<1>7. /\ responses' \in Seq(Response) /\ n \in Nat
      /\ Len(responses') = n + 1
      /\ \A i \in 1 .. n : responses'[i] = responses[i]
      /\ responses'[n + 1] = a
      /\ \A i \in 1 .. Len(responses') : \A s : i # n + 1 =>
           /\ i \in 1 .. n
           /\ (Mine(i, s)' <=> Mine(i, s)) /\ (Fill(i, s)' <=> Fill(i, s))
           /\ (Ends(i, s)' <=> Ends(i, s))
      /\ \A s \in Side :
           /\ Total(fills(responses', s)) = Total(fills(responses, s)) + FillOf(a, s)
           /\ \A i \in 0 .. n :
                Rest(fills(responses', s), i) = Rest(fills(responses, s), i) + FillOf(a, s)
           /\ Rest(fills(responses', s), n + 1) = 0
           /\ FillOf(a, s) \in Int
  <2> HIDE DEF a
  <2> QED BY <1>0, <1>1, <1>3, <1>5, Appended
<1>8. \A s : /\ Mine(n + 1, s)' <=> s = t
             /\ Fill(n + 1, s)' <=> s = t
             /\ Ends(n + 1, s)' <=> s = t /\ rest = 0
  BY <1>7 DEF Mine, Fill, Ends
<1>9. a.order_id_ = order.order_id_ /\ a.type_ = "FILLED" /\ a.exec_qty_ = fill /\ a.leaves_qty_ = rest
  OBVIOUS
<1>10. /\ order.order_id_ = Id(t) /\ Alive(t)
       /\ \A o \in open : o.side_ = t => o = order
       /\ \A i \in 1 .. Len(requests) : ~New(i, t)
       /\ \A i \in 1 .. n : ~Ends(i, t)
  BY <1>0, <1>1, <1>2 DEF OpenInv, NewInv, ResponseInv, Ends
<1>11. \A s : Id(s)' = Id(s) /\ Qty(s)' = Qty(s) /\ OrderState(s)' = OrderState(s) /\ (Alive(s)' <=> Alive(s))
  BY DEF Id, Qty, OrderState, Alive
<1>12. \A i, s : (New(i, s)' <=> New(i, s)) /\ (Cancel(i, s)' <=> Cancel(i, s))
  BY <1>11 DEF New, Cancel
<1>13. y.side_ = t /\ y.order_id_ = order.order_id_ /\ y.leaves_ = rest
  BY <1>2
<1>14. /\ \A o \in open' : o \in open \/ o = y
       /\ \A o \in open' : o.side_ # t => o \in open
       /\ \A o \in open' : o.side_ = t => rest # 0 /\ o = y
       /\ \A o \in open : o.side_ # t => o \in open'
       /\ rest # 0 => y \in open'
  <2> HIDE DEF y
  <2>1. rest = 0 => open' = open \ {order}
    BY DEF y
  <2>2. rest # 0 => open' = (open \ {order}) \cup {y}
    BY DEF y
  <2> QED BY <2>1, <2>2, <1>10, <1>13
<1>15. Qty(t) \in Int
  BY <1>1, <1>2 DEF TypeOK, OMOrder, Qty
<1>16. /\ order.leaves_ <= Qty(t)
       /\ \A i \in 1 .. n : Fill(i, t) => order.leaves_ <= responses[i].leaves_qty_
  BY <1>0, <1>1, <1>2 DEF QuantityInv
<1>17. \A i \in 1 .. n : \A s : Fill(i, s) => responses[i].leaves_qty_ \in Nat /\ responses[i].exec_qty_ \in Nat
  <2>1. \A i \in 1 .. n : responses[i] \in Response
    BY <1>0, <1>1 DEF TypeOK
  <2> QED BY <2>1, <1>4 DEF Fill, Response
<1> HIDE DEF a, y
<1>18. TypeOK'
  <2>1. rest # 0 => y \in [order_id_ : 1 .. MaxOrders, side_ : Side, leaves_ : 1 .. Clip]
    BY <1>2, <1>4 DEF y
  <2>2. open' \subseteq [order_id_ : 1 .. MaxOrders, side_ : Side, leaves_ : 1 .. Clip]
    BY <2>1, <1>1, <1>13, <1>14 DEF TypeOK
  <2> QED BY <2>2, <1>1, <1>7 DEF TypeOK
<1>19. SlotsInv'
  BY <1>1, <1>11 DEF SlotsInv
<1>20. OpenInv'
  <2>1. \A o \in open' : o.order_id_ = Id(o.side_)' /\ Alive(o.side_)'
    BY <1>1, <1>10, <1>11, <1>13, <1>14 DEF OpenInv
  <2>2. \A o, p \in open' : o.side_ = p.side_ => o = p
    BY <1>1, <1>13, <1>14 DEF OpenInv
  <2> QED BY <2>1, <2>2 DEF OpenInv
<1>21. NewInv'
  <2>1. ASSUME NEW i \in 1 .. Len(requests), NEW s \in Side, New(i, s)
        PROVE /\ requests[i].order_id_ = Id(s)
              /\ requests[i].qty_ = Qty(s)
              /\ OrderState(s) = "PENDING_NEW"
              /\ \A o \in open' : o.side_ # s
              /\ \A j \in 1 .. Len(responses') : ~Mine(j, s)'
    <3>1. s # t
      BY <2>1, <1>10
    <3>2. /\ requests[i].order_id_ = Id(s)
          /\ requests[i].qty_ = Qty(s)
          /\ OrderState(s) = "PENDING_NEW"
          /\ \A o \in open : o.side_ # s
          /\ \A j \in 1 .. n : ~Mine(j, s)
      BY <2>1, <1>0, <1>1 DEF NewInv
    <3>3. \A j \in 1 .. Len(responses') : ~Mine(j, s)'
      BY <3>1, <3>2, <1>7, <1>8
    <3> QED BY <3>1, <3>2, <3>3, <1>14
  <2>2. \A i, j \in 1 .. Len(requests), s \in Side : New(i, s) /\ New(j, s) => i = j
    BY <1>1 DEF NewInv
  <2> QED BY <2>1, <2>2, <1>11, <1>12 DEF NewInv
<1>22. CancelInv'
  BY <1>1, <1>11 DEF CancelInv
<1>23. ResponseInv'
  <2> SUFFICES ASSUME NEW i \in 1 .. Len(responses'), NEW s \in Side, Mine(i, s)'
               PROVE  /\ responses'[i].order_id_ = Id(s)
                      /\ Alive(s)
                      /\ responses'[i].type_ = "ACCEPTED" =>
                           /\ OrderState(s) = "PENDING_NEW"
                           /\ \A j \in 1 .. Len(responses') : j < i => ~Mine(j, s)'
                      /\ Ends(i, s)' =>
                           /\ \A o \in open' : o.side_ # s
                           /\ \A j \in 1 .. Len(responses') : Mine(j, s)' => j <= i
    BY <1>11 DEF ResponseInv
  <2>1. CASE i = n + 1
    <3>1. s = t /\ responses'[i] = a /\ (Ends(i, s)' => rest = 0)
      BY <2>1, <1>7, <1>8
    <3>2. \A j \in 1 .. Len(responses') : j <= i
      BY <2>1, <1>7
    <3> QED BY <3>1, <3>2, <1>9, <1>10, <1>14
  <2>2. CASE i # n + 1
    <3>1. i \in 1 .. n /\ Mine(i, s) /\ responses'[i] = responses[i] /\ (Ends(i, s)' <=> Ends(i, s))
      BY <2>2, <1>7
    <3>2. /\ responses[i].order_id_ = Id(s)
          /\ Alive(s)
          /\ responses[i].type_ = "ACCEPTED" =>
               /\ OrderState(s) = "PENDING_NEW"
               /\ \A j \in 1 .. n : j < i => ~Mine(j, s)
          /\ Ends(i, s) =>
               /\ \A o \in open : o.side_ # s
               /\ \A j \in 1 .. n : Mine(j, s) => j <= i
      BY <3>1, <1>0, <1>1 DEF ResponseInv
    <3>3. \A j \in 1 .. Len(responses') : j < i /\ Mine(j, s)' => j \in 1 .. n /\ Mine(j, s)
      <4> SUFFICES ASSUME NEW j \in 1 .. Len(responses'), j < i, Mine(j, s)' PROVE j \in 1 .. n /\ Mine(j, s)
        OBVIOUS
      <4>1. j # n + 1
        BY <3>1, <1>7
      <4> QED BY <4>1, <1>7
    <3>4. ASSUME Ends(i, s)
          PROVE  /\ \A o \in open' : o.side_ # s
                 /\ \A j \in 1 .. Len(responses') : Mine(j, s)' => j <= i
      <4>1. s # t
        BY <3>4, <3>1, <1>10
      <4>2. \A j \in 1 .. Len(responses') : Mine(j, s)' => j \in 1 .. n /\ Mine(j, s)
        BY <4>1, <1>7, <1>8
      <4> QED BY <4>1, <4>2, <3>2, <3>4, <1>14
    <3> QED BY <3>1, <3>2, <3>3, <3>4
  <2> QED BY <2>1, <2>2
<1>24. WaitInv'
  <2> SUFFICES ASSUME NEW s \in Side
               PROVE  /\ OrderState(s) = "PENDING_NEW" =>
                           \/ \E i \in 1 .. Len(requests) : New(i, s)
                           \/ \E i \in 1 .. Len(responses') : Mine(i, s)' /\ responses'[i].type_ = "ACCEPTED"
                      /\ OrderState(s) = "PENDING_CANCEL" =>
                           \/ \E i \in 1 .. Len(requests) : Cancel(i, s)
                           \/ \E i \in 1 .. Len(responses') : Ends(i, s)'
                      /\ Alive(s) =>
                           \/ \E i \in 1 .. Len(requests) : New(i, s)
                           \/ \E o \in open' : o.side_ = s
                           \/ \E i \in 1 .. Len(responses') : Ends(i, s)'
    BY <1>11, <1>12 DEF WaitInv
  <2>1. /\ OrderState(s) = "PENDING_NEW" =>
             \/ \E i \in 1 .. Len(requests) : New(i, s)
             \/ \E i \in 1 .. n : Mine(i, s) /\ responses[i].type_ = "ACCEPTED"
        /\ OrderState(s) = "PENDING_CANCEL" =>
             \/ \E i \in 1 .. Len(requests) : Cancel(i, s)
             \/ \E i \in 1 .. n : Ends(i, s)
        /\ Alive(s) =>
             \/ \E i \in 1 .. Len(requests) : New(i, s)
             \/ \E o \in open : o.side_ = s
             \/ \E i \in 1 .. n : Ends(i, s)
    BY <1>0, <1>1 DEF WaitInv
  <2>2. \A i \in 1 .. n : i \in 1 .. Len(responses') /\ i # n + 1 /\ responses'[i] = responses[i]
    BY <1>7
  <2>3. \A i \in 1 .. n : (Mine(i, s)' <=> Mine(i, s)) /\ (Ends(i, s)' <=> Ends(i, s))
    BY <2>2, <1>7
  <2>4. s = t => \/ \E o \in open' : o.side_ = s
                 \/ \E i \in 1 .. Len(responses') : Ends(i, s)'
    <3>1. n + 1 \in 1 .. Len(responses')
      BY <1>7
    <3> QED BY <3>1, <1>8, <1>13, <1>14
  <2>5. s # t => \A o \in open : o.side_ = s => o \in open'
    BY <1>14
  <2> QED BY <2>1, <2>2, <2>3, <2>4, <2>5
<1>25. QuantityInv'
  <2> SUFFICES ASSUME NEW s \in Side
               PROVE
    /\ \A i \in 1 .. Len(responses') : Fill(i, s)' =>
         /\ responses'[i].exec_qty_ + responses'[i].leaves_qty_ <= Qty(s)
         /\ \A j \in 1 .. Len(responses') : j < i /\ Fill(j, s)' =>
              responses'[i].exec_qty_ + responses'[i].leaves_qty_ <= responses'[j].leaves_qty_
    /\ \A o \in open' : o.side_ = s =>
         /\ \A i \in 1 .. Len(responses') : Fill(i, s)' => o.leaves_ <= responses'[i].leaves_qty_
         /\ o.leaves_ <= Qty(s)
         /\ \/ o.leaves_ = Qty(s)
            \/ \E i \in 1 .. Len(responses') : Fill(i, s)' /\ o.leaves_ = responses'[i].leaves_qty_
    BY <1>11 DEF QuantityInv
  <2>1. /\ \A i \in 1 .. n : Fill(i, s) =>
             /\ responses[i].exec_qty_ + responses[i].leaves_qty_ <= Qty(s)
             /\ \A j \in 1 .. n : j < i /\ Fill(j, s) =>
                  responses[i].exec_qty_ + responses[i].leaves_qty_ <= responses[j].leaves_qty_
        /\ \A o \in open : o.side_ = s =>
             /\ \A i \in 1 .. n : Fill(i, s) => o.leaves_ <= responses[i].leaves_qty_
             /\ o.leaves_ <= Qty(s)
             /\ \/ o.leaves_ = Qty(s)
                \/ \E i \in 1 .. n : Fill(i, s) /\ o.leaves_ = responses[i].leaves_qty_
    BY <1>0, <1>1 DEF QuantityInv
  <2>2. \A i \in 1 .. Len(responses') : Fill(i, s)' =>
          \/ i = n + 1 /\ s = t /\ responses'[i] = a
          \/ i \in 1 .. n /\ Fill(i, s) /\ responses'[i] = responses[i]
    BY <1>7, <1>8
  <2>3. \A i \in 1 .. n : Fill(i, s) => i \in 1 .. Len(responses') /\ Fill(i, s)' /\ responses'[i] = responses[i]
    BY <1>7
  <2>4. ASSUME NEW i \in 1 .. Len(responses'), Fill(i, s)'
        PROVE /\ responses'[i].exec_qty_ + responses'[i].leaves_qty_ <= Qty(s)
              /\ \A j \in 1 .. Len(responses') : j < i /\ Fill(j, s)' =>
                   responses'[i].exec_qty_ + responses'[i].leaves_qty_ <= responses'[j].leaves_qty_
    <3>1. CASE i = n + 1
      <4>1. s = t /\ responses'[i].exec_qty_ = fill /\ responses'[i].leaves_qty_ = rest
        BY <3>1, <2>4, <1>7, <1>8, <1>9
      <4>2. fill + rest <= Qty(t)
        BY <1>4, <1>15, <1>16
      <4>3. ASSUME NEW j \in 1 .. Len(responses'), j < i, Fill(j, s)'
            PROVE  fill + rest <= responses'[j].leaves_qty_
        <5>1. j \in 1 .. n /\ Fill(j, t) /\ responses'[j] = responses[j]
          BY <4>1, <4>3, <3>1, <2>2, <1>7
        <5>2. order.leaves_ <= responses[j].leaves_qty_ /\ responses[j].leaves_qty_ \in Nat
          BY <5>1, <1>16, <1>17
        <5> QED BY <5>1, <5>2, <1>4
      <4> QED BY <4>1, <4>2, <4>3
    <3>2. CASE i # n + 1
      <4>1. i \in 1 .. n /\ Fill(i, s) /\ responses'[i] = responses[i]
        BY <3>2, <2>2, <2>4
      <4>2. \A j \in 1 .. Len(responses') : j < i /\ Fill(j, s)' => j \in 1 .. n /\ Fill(j, s) /\ responses'[j] = responses[j]
        BY <4>1, <2>2, <1>7
      <4> QED BY <4>1, <4>2, <2>1
    <3> QED BY <3>1, <3>2
  <2>5. ASSUME NEW o \in open', o.side_ = s
        PROVE  /\ \A i \in 1 .. Len(responses') : Fill(i, s)' => o.leaves_ <= responses'[i].leaves_qty_
               /\ o.leaves_ <= Qty(s)
               /\ \/ o.leaves_ = Qty(s)
                  \/ \E i \in 1 .. Len(responses') : Fill(i, s)' /\ o.leaves_ = responses'[i].leaves_qty_
    <3>1. CASE s = t
      <4>1. o = y /\ o.leaves_ = rest /\ rest <= order.leaves_
        BY <3>1, <2>5, <1>4, <1>13, <1>14
      <4>2. \A i \in 1 .. Len(responses') : Fill(i, s)' => rest <= responses'[i].leaves_qty_
        <5> SUFFICES ASSUME NEW i \in 1 .. Len(responses'), Fill(i, s)' PROVE rest <= responses'[i].leaves_qty_
          OBVIOUS
        <5>1. CASE i = n + 1
          BY <5>1, <1>4, <1>7, <1>9
        <5>2. CASE i # n + 1
          <6>1. i \in 1 .. n /\ Fill(i, t) /\ responses'[i] = responses[i]
            BY <5>2, <3>1, <2>2
          <6>2. order.leaves_ <= responses[i].leaves_qty_ /\ responses[i].leaves_qty_ \in Nat
            BY <6>1, <1>16, <1>17
          <6> QED BY <6>1, <6>2, <4>1, <1>4
        <5> QED BY <5>1, <5>2
      <4>3. n + 1 \in 1 .. Len(responses') /\ Fill(n + 1, s)' /\ responses'[n + 1].leaves_qty_ = rest
        BY <3>1, <1>7, <1>8, <1>9
      <4>4. rest <= Qty(t)
        BY <4>1, <1>4, <1>15, <1>16
      <4> QED BY <3>1, <4>1, <4>2, <4>3, <4>4
    <3>2. CASE s # t
      <4>1. o \in open
        BY <3>2, <2>5, <1>14
      <4>2. \A i \in 1 .. Len(responses') : Fill(i, s)' => i \in 1 .. n /\ Fill(i, s) /\ responses'[i] = responses[i]
        BY <3>2, <2>2
      <4> QED BY <4>1, <4>2, <2>1, <2>3, <2>5
    <3> QED BY <3>1, <3>2
  <2> QED BY <2>4, <2>5
<1>26. SumInv'
  <2> SUFFICES ASSUME NEW s \in Side
               PROVE  /\ inFlight(s)' <= IF Alive(s) THEN Qty(s) ELSE 0
                      /\ \A i \in 1 .. Len(responses') : Fill(i, s)' =>
                           Rest(fills(responses', s), i) + leaves(open', s) <= responses'[i].leaves_qty_
    BY <1>11 DEF SumInv
  <2>0. inFlight(s)' = Total(fills(responses', s)) + Total(news(requests, s)) + leaves(open', s)
    BY DEF inFlight
  <2>1. /\ Total(fills(responses, s)) \in Int /\ Total(news(requests, s)) \in Int
        /\ leaves(open, s) \in Nat
        /\ \A i \in 0 .. n : Rest(fills(responses, s), i) \in Int
    BY <1>0, <1>1, InFlightType
  <2>2. /\ Total(fills(responses, s)) + Total(news(requests, s)) + leaves(open, s) <= IF Alive(s) THEN Qty(s) ELSE 0
        /\ \A i \in 1 .. n : Fill(i, s) =>
             Rest(fills(responses, s), i) + leaves(open, s) <= responses[i].leaves_qty_
    BY <1>0, <1>1 DEF SumInv, inFlight
  <2>3. CASE s = t
    <3>1. leaves(open, s) = order.leaves_
      BY <2>3, <1>4, <1>10, LeavesOne
    <3>2. leaves(open', s) = rest
      <4>1. CASE rest = 0
        <5>1. \A o \in open' : o.side_ # s
          BY <2>3, <4>1, <1>14
        <5> QED BY <5>1, <4>1, LeavesNone
      <4>2. CASE rest # 0
        <5>0. PICK S : S = open'
          OBVIOUS
        <5>1. y \in S /\ y.leaves_ \in Nat /\ y.side_ = s /\ \A o \in S : o.side_ = s => o = y
          BY <2>3, <4>2, <5>0, <1>4, <1>13, <1>14
        <5>2. leaves(S, s) = y.leaves_
          BY <5>1, LeavesOne
        <5> QED BY <5>0, <5>2, <1>13
      <4> QED BY <4>1, <4>2
    <3>3. Total(fills(responses', s)) = Total(fills(responses, s)) + fill
      BY <2>3, <1>6, <1>7
    <3>4. inFlight(s)' <= Qty(s)
      BY <2>0, <2>1, <2>2, <2>3, <3>1, <3>2, <3>3, <1>4, <1>10, <1>15
    <3>5. ASSUME NEW i \in 1 .. Len(responses'), Fill(i, s)'
          PROVE  Rest(fills(responses', s), i) + rest <= responses'[i].leaves_qty_
      <4>1. CASE i = n + 1
        BY <4>1, <1>4, <1>7, <1>9
      <4>2. CASE i # n + 1
        <5>1. i \in 1 .. n /\ Fill(i, s) /\ responses'[i] = responses[i] /\ i \in 0 .. n
          BY <4>2, <3>5, <1>7
        <5>2. Rest(fills(responses', s), i) = Rest(fills(responses, s), i) + fill
          BY <5>1, <2>3, <1>6, <1>7
        <5>3. Rest(fills(responses, s), i) + order.leaves_ <= responses[i].leaves_qty_
          BY <5>1, <3>1, <2>2
        <5>4. Rest(fills(responses, s), i) \in Int /\ responses[i].leaves_qty_ \in Nat
          BY <5>1, <2>1, <1>17
        <5> QED BY <5>1, <5>2, <5>3, <5>4, <1>4
      <4> QED BY <4>1, <4>2
    <3> QED BY <3>2, <3>4, <3>5, <2>3, <1>10
  <2>4. CASE s # t
    <3>1. {o \in open' : o.side_ = s} = {o \in open : o.side_ = s}
      BY <2>4, <1>13, <1>14
    <3>2. leaves(open', s) = leaves(open, s)
      BY <3>1, Zenon DEF leaves
    <3>3. /\ Total(fills(responses', s)) = Total(fills(responses, s))
          /\ \A i \in 1 .. n : Rest(fills(responses', s), i) = Rest(fills(responses, s), i)
      BY <2>1, <2>4, <1>6, <1>7
    <3>4. \A i \in 1 .. Len(responses') : Fill(i, s)' => i \in 1 .. n /\ Fill(i, s) /\ responses'[i] = responses[i]
      BY <2>4, <1>7, <1>8
    <3>5. inFlight(s)' <= IF Alive(s) THEN Qty(s) ELSE 0
      BY <2>0, <2>2, <3>2, <3>3
    <3> QED BY <3>2, <3>3, <3>4, <3>5, <2>2
  <2> QED BY <2>3, <2>4
<1>27. LimitInv'
  BY <1>1, <1>11 DEF LimitInv
<1> QED BY <1>18, <1>19, <1>20, <1>21, <1>22, <1>23, <1>24, <1>25, <1>26, <1>27 DEF IInv

(* The exchange takes a CANCEL, in time or too late. *)
LEMMA CancelStep ==
  ASSUME IInv, ExchangeCancel
  PROVE  IInv'
<1>1. /\ TypeOK /\ SlotsInv /\ OpenInv /\ NewInv /\ CancelInv /\ ResponseInv
      /\ WaitInv /\ QuantityInv /\ SumInv /\ LimitInv
  BY DEF IInv
<1>0. PICK r, n, found : /\ r = requests[1] /\ n = Len(responses)
                         /\ found = (\E o \in open : o.order_id_ = r.order_id_)
  OBVIOUS
<1> DEFINE t == r.side_
           a == IF found THEN [type_ |-> "CANCELED", order_id_ |-> r.order_id_, side_ |-> t]
                         ELSE [type_ |-> "CANCEL_REJECTED", order_id_ |-> r.order_id_]
<1>2. /\ requests # << >> /\ requests' = Tail(requests)
      /\ UNCHANGED <<algo, ticker_side_order_, next_order_id_, position_>>
  BY DEF ExchangeCancel
<1>3. /\ requests' \in Seq(Request) /\ Len(requests) \in Nat /\ Len(requests) >= 1
      /\ Len(requests') = Len(requests) - 1
      /\ Head(requests) = r /\ r \in Request /\ requests[1] = r
      /\ \A i \in 1 .. Len(requests') :
           i + 1 \in 1 .. Len(requests) /\ requests'[i] = requests[i + 1]
      /\ \A i \in 1 .. Len(requests) : i = 1 \/ (i - 1 \in 1 .. Len(requests') /\ requests'[i - 1] = requests[i])
      /\ \A s \in Side : Total(news(requests, s)) = NewOf(r, s) + Total(news(requests', s))
  BY <1>0, <1>1, <1>2, Taken
<1>4. /\ r.type_ = "CANCEL"
      /\ open' = open \ {o \in open : o.order_id_ = r.order_id_}
      /\ responses' = Append(responses, a)
  <2> DEFINE target == {o \in open : o.order_id_ = r.order_id_}
  <2>1. found <=> target # {}
    BY <1>0
  <2>2. r.type_ = "CANCEL" /\ open' = open \ target
    BY <1>3 DEF ExchangeCancel
  <2>3. IF target = {}
        THEN responses' = Append(responses, [type_ |-> "CANCEL_REJECTED", order_id_ |-> r.order_id_])
        ELSE respond("CANCELED", r)
    BY <1>3, Zenon DEF ExchangeCancel
  <2> HIDE DEF target
  <2>4. responses' = Append(responses, a)
    BY <2>1, <2>3 DEF respond
  <2> QED BY <2>2, <2>4 DEF target
<1>5. t \in Side /\ r.order_id_ \in 1 .. MaxOrders
  BY <1>3 DEF Request
<1>6. a \in Response /\ a.type_ # "FILLED" /\ a.type_ # "ACCEPTED"
      /\ (found => a.type_ = "CANCELED" /\ a.order_id_ = r.order_id_ /\ a.side_ = t)
      /\ (~found => a.type_ = "CANCEL_REJECTED")
  BY <1>5 DEF Response
<1> HIDE DEF a
<1>7. /\ responses' \in Seq(Response) /\ n \in Nat
      /\ Len(responses') = n + 1
      /\ \A i \in 1 .. n : responses'[i] = responses[i]
      /\ responses'[n + 1] = a
      /\ \A i \in 1 .. Len(responses') : \A s : i # n + 1 =>
           /\ i \in 1 .. n
           /\ (Mine(i, s)' <=> Mine(i, s)) /\ (Fill(i, s)' <=> Fill(i, s))
           /\ (Ends(i, s)' <=> Ends(i, s))
      /\ \A s \in Side :
           /\ Total(fills(responses', s)) = Total(fills(responses, s)) + FillOf(a, s)
           /\ \A i \in 0 .. n :
                Rest(fills(responses', s), i) = Rest(fills(responses, s), i) + FillOf(a, s)
           /\ Rest(fills(responses', s), n + 1) = 0
           /\ FillOf(a, s) \in Int
  BY <1>0, <1>1, <1>4, <1>6, Appended
<1>8. \A s : /\ Mine(n + 1, s)' <=> found /\ s = t
             /\ Ends(n + 1, s)' <=> found /\ s = t
             /\ ~Fill(n + 1, s)'
  BY <1>6, <1>7 DEF Mine, Fill, Ends
<1>9. \A i \in 1 .. Len(responses') : \A s : Fill(i, s)' => i \in 1 .. n /\ Fill(i, s) /\ responses'[i] = responses[i]
  BY <1>7, <1>8
<1>10. \A s \in Side : FillOf(a, s) = 0 /\ NewOf(r, s) = 0
  BY <1>4, <1>6 DEF FillOf, NewOf
<1>11. \A s : Id(s)' = Id(s) /\ Qty(s)' = Qty(s) /\ OrderState(s)' = OrderState(s) /\ (Alive(s)' <=> Alive(s))
  BY <1>2 DEF Id, Qty, OrderState, Alive
<1>12. \A i \in 1 .. Len(requests') : \A s : /\ New(i, s)' <=> New(i + 1, s)
                                             /\ Cancel(i, s)' <=> Cancel(i + 1, s)
  BY <1>3, <1>11 DEF New, Cancel
<1>13. \A o \in open : o.side_ \in Side /\ o.order_id_ = Id(o.side_) /\ Alive(o.side_)
  BY <1>1 DEF OpenInv, TypeOK
<1>14. \A s \in Side : r.order_id_ = Id(s) => s = t /\ OrderState(s) \in {"PENDING_CANCEL", "DEAD"}
  <2>1. 1 \in 1 .. Len(requests)
    BY <1>3
  <2> QED BY <2>1, <1>1, <1>3, <1>4 DEF CancelInv
<1>15. \A o \in open : o.order_id_ = r.order_id_ => o.side_ = t
  BY <1>13, <1>14
<1>16. found => /\ r.order_id_ = Id(t) /\ Alive(t) /\ \A o \in open' : o.side_ # t
                /\ \A i \in 1 .. Len(requests) : ~New(i, t)
                /\ \A i \in 1 .. n : ~Ends(i, t)
  <2> SUFFICES ASSUME NEW x \in open, x.order_id_ = r.order_id_
               PROVE  /\ r.order_id_ = Id(t) /\ Alive(t) /\ \A o \in open' : o.side_ # t
                      /\ \A i \in 1 .. Len(requests) : ~New(i, t)
                      /\ \A i \in 1 .. n : ~Ends(i, t)
    BY <1>0
  <2>1. x.side_ = t /\ r.order_id_ = Id(t) /\ Alive(t)
    BY <1>13, <1>15
  <2>2. \A o \in open' : o.side_ # t
    BY <2>1, <1>4, <1>13
  <2>3. \A i \in 1 .. Len(requests) : ~New(i, t)
    BY <2>1, <1>1, <1>5 DEF NewInv
  <2>4. \A i \in 1 .. n : ~Ends(i, t)
    BY <2>1, <1>0, <1>1, <1>5 DEF ResponseInv, Ends
  <2> QED BY <2>1, <2>2, <2>3, <2>4
<1>17. /\ open' \subseteq open
       /\ \A s \in Side : ~found \/ s # t => \A o \in open : o.side_ = s => o \in open'
  BY <1>0, <1>4, <1>15
<1>18. TypeOK'
  BY <1>1, <1>2, <1>3, <1>7, <1>17 DEF TypeOK
<1>19. SlotsInv'
  BY <1>1, <1>2, <1>11 DEF SlotsInv
<1>20. OpenInv'
  BY <1>1, <1>11, <1>17 DEF OpenInv
<1>21. NewInv'
  <2>1. ASSUME NEW i \in 1 .. Len(requests'), NEW s \in Side, New(i, s)'
        PROVE /\ requests'[i].order_id_ = Id(s)
              /\ requests'[i].qty_ = Qty(s)
              /\ OrderState(s) = "PENDING_NEW"
              /\ \A o \in open' : o.side_ # s
              /\ \A j \in 1 .. Len(responses') : ~Mine(j, s)'
    <3>1. i + 1 \in 1 .. Len(requests) /\ New(i + 1, s) /\ requests'[i] = requests[i + 1]
      BY <2>1, <1>3, <1>12
    <3>2. /\ requests[i + 1].order_id_ = Id(s)
          /\ requests[i + 1].qty_ = Qty(s)
          /\ OrderState(s) = "PENDING_NEW"
          /\ \A o \in open : o.side_ # s
          /\ \A j \in 1 .. n : ~Mine(j, s)
      BY <3>1, <1>0, <1>1 DEF NewInv
    <3>3. ~(found /\ s = t)
      BY <3>1, <1>16
    <3>4. \A j \in 1 .. Len(responses') : ~Mine(j, s)'
      BY <3>2, <3>3, <1>7, <1>8
    <3> QED BY <3>1, <3>2, <3>4, <1>17
  <2>2. ASSUME NEW i \in 1 .. Len(requests'), NEW j \in 1 .. Len(requests'), NEW s \in Side,
               New(i, s)', New(j, s)'
        PROVE i = j
    <3>1. i + 1 \in 1 .. Len(requests) /\ j + 1 \in 1 .. Len(requests) /\ New(i + 1, s) /\ New(j + 1, s)
      BY <2>2, <1>3, <1>12
    <3>2. i + 1 = j + 1
      BY <3>1, <1>1 DEF NewInv
    <3> QED BY <3>2, <1>3
  <2> QED BY <2>1, <2>2, <1>11 DEF NewInv
<1>22. CancelInv'
  BY <1>1, <1>2, <1>3, <1>11 DEF CancelInv
<1>23. ResponseInv'
  <2> SUFFICES ASSUME NEW i \in 1 .. Len(responses'), NEW s \in Side, Mine(i, s)'
               PROVE  /\ responses'[i].order_id_ = Id(s)
                      /\ Alive(s)
                      /\ responses'[i].type_ = "ACCEPTED" =>
                           /\ OrderState(s) = "PENDING_NEW"
                           /\ \A j \in 1 .. Len(responses') : j < i => ~Mine(j, s)'
                      /\ Ends(i, s)' =>
                           /\ \A o \in open' : o.side_ # s
                           /\ \A j \in 1 .. Len(responses') : Mine(j, s)' => j <= i
    BY <1>11 DEF ResponseInv
  <2>1. CASE i = n + 1
    <3>1. found /\ s = t /\ responses'[i] = a
      BY <2>1, <1>7, <1>8
    <3>2. \A j \in 1 .. Len(responses') : j <= i
      BY <2>1, <1>7
    <3> QED BY <3>1, <3>2, <1>6, <1>16
  <2>2. CASE i # n + 1
    <3>1. i \in 1 .. n /\ Mine(i, s) /\ responses'[i] = responses[i] /\ (Ends(i, s)' <=> Ends(i, s))
      BY <2>2, <1>7
    <3>2. /\ responses[i].order_id_ = Id(s)
          /\ Alive(s)
          /\ responses[i].type_ = "ACCEPTED" =>
               /\ OrderState(s) = "PENDING_NEW"
               /\ \A j \in 1 .. n : j < i => ~Mine(j, s)
          /\ Ends(i, s) =>
               /\ \A o \in open : o.side_ # s
               /\ \A j \in 1 .. n : Mine(j, s) => j <= i
      BY <3>1, <1>0, <1>1 DEF ResponseInv
    <3>3. \A j \in 1 .. Len(responses') : j < i /\ Mine(j, s)' => j \in 1 .. n /\ Mine(j, s)
      <4> SUFFICES ASSUME NEW j \in 1 .. Len(responses'), j < i, Mine(j, s)' PROVE j \in 1 .. n /\ Mine(j, s)
        OBVIOUS
      <4>1. j # n + 1
        BY <3>1, <1>7
      <4> QED BY <4>1, <1>7
    <3>4. ASSUME Ends(i, s)
          PROVE  /\ \A o \in open' : o.side_ # s
                 /\ \A j \in 1 .. Len(responses') : Mine(j, s)' => j <= i
      <4>1. ~(found /\ s = t)
        BY <3>4, <3>1, <1>16
      <4>2. \A j \in 1 .. Len(responses') : Mine(j, s)' => j \in 1 .. n /\ Mine(j, s)
        BY <4>1, <1>7, <1>8
      <4> QED BY <4>2, <3>2, <3>4, <1>17
    <3> QED BY <3>1, <3>2, <3>3, <3>4
  <2> QED BY <2>1, <2>2
<1>24. WaitInv'
  <2> SUFFICES ASSUME NEW s \in Side
               PROVE  /\ OrderState(s) = "PENDING_NEW" =>
                           \/ \E i \in 1 .. Len(requests') : New(i, s)'
                           \/ \E i \in 1 .. Len(responses') : Mine(i, s)' /\ responses'[i].type_ = "ACCEPTED"
                      /\ OrderState(s) = "PENDING_CANCEL" =>
                           \/ \E i \in 1 .. Len(requests') : Cancel(i, s)'
                           \/ \E i \in 1 .. Len(responses') : Ends(i, s)'
                      /\ Alive(s) =>
                           \/ \E i \in 1 .. Len(requests') : New(i, s)'
                           \/ \E o \in open' : o.side_ = s
                           \/ \E i \in 1 .. Len(responses') : Ends(i, s)'
    BY <1>11 DEF WaitInv
  <2>1. /\ OrderState(s) = "PENDING_NEW" =>
             \/ \E i \in 1 .. Len(requests) : New(i, s)
             \/ \E i \in 1 .. n : Mine(i, s) /\ responses[i].type_ = "ACCEPTED"
        /\ OrderState(s) = "PENDING_CANCEL" =>
             \/ \E i \in 1 .. Len(requests) : Cancel(i, s)
             \/ \E i \in 1 .. n : Ends(i, s)
        /\ Alive(s) =>
             \/ \E i \in 1 .. Len(requests) : New(i, s)
             \/ \E o \in open : o.side_ = s
             \/ \E i \in 1 .. n : Ends(i, s)
    BY <1>0, <1>1 DEF WaitInv
  <2>2. \A i \in 1 .. n : i \in 1 .. Len(responses') /\ i # n + 1 /\ responses'[i] = responses[i]
    BY <1>7
  <2>3. \A i \in 1 .. n : (Mine(i, s)' <=> Mine(i, s)) /\ (Ends(i, s)' <=> Ends(i, s))
    BY <2>2, <1>7
  <2>4. (\E i \in 1 .. Len(requests) : New(i, s)) => \E j \in 1 .. Len(requests') : New(j, s)'
    <3>1. ~New(1, s)
      BY <1>3, <1>4 DEF New
    <3> QED BY <3>1, <1>3 DEF New
  <2>5. found /\ s = t => \E i \in 1 .. Len(responses') : Ends(i, s)'
    <3>1. n + 1 \in 1 .. Len(responses')
      BY <1>7
    <3> QED BY <3>1, <1>8
  <2>6. ~(found /\ s = t) => \A o \in open : o.side_ = s => o \in open'
    BY <1>17
  <2>7. Alive(s) =>
           \/ \E i \in 1 .. Len(requests') : New(i, s)'
           \/ \E o \in open' : o.side_ = s
           \/ \E i \in 1 .. Len(responses') : Ends(i, s)'
    BY <2>1, <2>2, <2>3, <2>4, <2>5, <2>6
  <2>8. OrderState(s) = "PENDING_CANCEL" =>
           \/ \E i \in 1 .. Len(requests') : Cancel(i, s)'
           \/ \E i \in 1 .. Len(responses') : Ends(i, s)'
    <3> SUFFICES ASSUME OrderState(s) = "PENDING_CANCEL", ~\E i \in 1 .. Len(responses') : Ends(i, s)'
                 PROVE  \E i \in 1 .. Len(requests') : Cancel(i, s)'
      OBVIOUS
    <3>1. PICK i \in 1 .. Len(requests) : Cancel(i, s)
      BY <2>1, <2>2, <2>3
    <3>2. CASE i = 1
      <4>1. r.order_id_ = Id(s) /\ s = t
        BY <3>1, <3>2, <1>3, <1>14 DEF Cancel
      <4>2. ~found
        BY <4>1, <2>5
      <4>3. Alive(s) /\ \A j \in 1 .. Len(requests) : ~New(j, s)
        BY <1>1 DEF Alive, NewInv
      <4>4. \A o \in open : o.side_ # s
        BY <4>1, <4>2, <1>0, <1>13
      <4> QED BY <4>3, <4>4, <2>1, <2>2, <2>3
    <3>3. CASE i # 1
      <4>1. i - 1 \in 1 .. Len(requests') /\ requests'[i - 1] = requests[i]
        BY <3>3, <1>3
      <4>2. Cancel(i - 1, s)'
        BY <4>1, <3>1, <1>11 DEF Cancel
      <4> QED BY <4>1, <4>2
    <3> QED BY <3>2, <3>3
  <2>9. OrderState(s) = "PENDING_NEW" =>
           \/ \E i \in 1 .. Len(requests') : New(i, s)'
           \/ \E i \in 1 .. Len(responses') : Mine(i, s)' /\ responses'[i].type_ = "ACCEPTED"
    BY <2>1, <2>2, <2>3, <2>4
  <2> QED BY <2>7, <2>8, <2>9
<1>25. QuantityInv'
  <2> SUFFICES ASSUME NEW s \in Side
               PROVE
    /\ \A i \in 1 .. Len(responses') : Fill(i, s)' =>
         /\ responses'[i].exec_qty_ + responses'[i].leaves_qty_ <= Qty(s)
         /\ \A j \in 1 .. Len(responses') : j < i /\ Fill(j, s)' =>
              responses'[i].exec_qty_ + responses'[i].leaves_qty_ <= responses'[j].leaves_qty_
    /\ \A o \in open' : o.side_ = s =>
         /\ \A i \in 1 .. Len(responses') : Fill(i, s)' => o.leaves_ <= responses'[i].leaves_qty_
         /\ o.leaves_ <= Qty(s)
         /\ \/ o.leaves_ = Qty(s)
            \/ \E i \in 1 .. Len(responses') : Fill(i, s)' /\ o.leaves_ = responses'[i].leaves_qty_
    BY <1>11 DEF QuantityInv
  <2>1. /\ \A i \in 1 .. n : Fill(i, s) =>
             /\ responses[i].exec_qty_ + responses[i].leaves_qty_ <= Qty(s)
             /\ \A j \in 1 .. n : j < i /\ Fill(j, s) =>
                  responses[i].exec_qty_ + responses[i].leaves_qty_ <= responses[j].leaves_qty_
        /\ \A o \in open : o.side_ = s =>
             /\ \A i \in 1 .. n : Fill(i, s) => o.leaves_ <= responses[i].leaves_qty_
             /\ o.leaves_ <= Qty(s)
             /\ \/ o.leaves_ = Qty(s)
                \/ \E i \in 1 .. n : Fill(i, s) /\ o.leaves_ = responses[i].leaves_qty_
    BY <1>0, <1>1 DEF QuantityInv
  <2>2. \A i \in 1 .. n : Fill(i, s) => i \in 1 .. Len(responses') /\ Fill(i, s)' /\ responses'[i] = responses[i]
    BY <1>7
  <2> QED BY <2>1, <2>2, <1>9, <1>17
<1>26. SumInv'
  <2> SUFFICES ASSUME NEW s \in Side
               PROVE  /\ inFlight(s)' <= IF Alive(s) THEN Qty(s) ELSE 0
                      /\ \A i \in 1 .. Len(responses') : Fill(i, s)' =>
                           Rest(fills(responses', s), i) + leaves(open', s) <= responses'[i].leaves_qty_
    BY <1>11 DEF SumInv
  <2>0. inFlight(s)' = Total(fills(responses', s)) + Total(news(requests', s)) + leaves(open', s)
    BY DEF inFlight
  <2>1. /\ Total(fills(responses, s)) \in Int /\ Total(news(requests, s)) \in Int
        /\ leaves(open, s) \in Nat
        /\ \A i \in 0 .. n : Rest(fills(responses, s), i) \in Int
    BY <1>0, <1>1, InFlightType
  <2>2. /\ Total(fills(responses, s)) + Total(news(requests, s)) + leaves(open, s) <= IF Alive(s) THEN Qty(s) ELSE 0
        /\ \A i \in 1 .. n : Fill(i, s) =>
             Rest(fills(responses, s), i) + leaves(open, s) <= responses[i].leaves_qty_
    BY <1>0, <1>1 DEF SumInv, inFlight
  <2>3. leaves(open', s) \in Nat /\ leaves(open', s) <= leaves(open, s)
    <3>1. CASE found /\ s = t
      <4>1. leaves(open', s) = 0
        BY <3>1, <1>16, LeavesNone
      <4> QED BY <4>1, <2>1
    <3>2. CASE ~(found /\ s = t)
      <4>1. {o \in open' : o.side_ = s} = {o \in open : o.side_ = s}
        BY <3>2, <1>17
      <4>2. leaves(open', s) = leaves(open, s)
        BY <4>1, Zenon DEF leaves
      <4> QED BY <4>2, <2>1
    <3> QED BY <3>1, <3>2
  <2>4. /\ Total(fills(responses', s)) = Total(fills(responses, s))
        /\ \A i \in 1 .. n : Rest(fills(responses', s), i) = Rest(fills(responses, s), i)
    BY <2>1, <1>7, <1>10
  <2>5. Total(news(requests', s)) = Total(news(requests, s))
    <3>1. Total(news(requests', s)) \in Int
      BY <1>3, NewsType, TotalType
    <3> QED BY <3>1, <1>3, <1>10
  <2>6. Qty(s) \in Int
    BY <1>1 DEF TypeOK, OMOrder, Qty
  <2>7. inFlight(s)' <= IF Alive(s) THEN Qty(s) ELSE 0
    <3>1. CASE Alive(s)
      BY <3>1, <2>0, <2>1, <2>2, <2>3, <2>4, <2>5, <2>6
    <3>2. CASE ~Alive(s)
      BY <3>2, <2>0, <2>1, <2>2, <2>3, <2>4, <2>5
    <3> QED BY <3>1, <3>2
  <2>8. ASSUME NEW i \in 1 .. Len(responses'), Fill(i, s)'
        PROVE  Rest(fills(responses', s), i) + leaves(open', s) <= responses'[i].leaves_qty_
    <3>1. i \in 1 .. n /\ i \in 0 .. n /\ Fill(i, s) /\ responses'[i] = responses[i]
      BY <2>8, <1>7, <1>9
    <3>2. responses[i].leaves_qty_ \in Int
      <4>1. responses[i] \in Response
        BY <3>1, <1>0, <1>1 DEF TypeOK
      <4> QED BY <4>1, <3>1 DEF Fill, Response
    <3>3. Rest(fills(responses, s), i) + leaves(open, s) <= responses[i].leaves_qty_
      BY <3>1, <2>2
    <3>4. Rest(fills(responses', s), i) = Rest(fills(responses, s), i) /\ Rest(fills(responses, s), i) \in Int
      BY <3>1, <2>1, <2>4
    <3> QED BY <3>1, <3>2, <3>3, <3>4, <2>1, <2>3
  <2> QED BY <2>7, <2>8
<1>27. LimitInv'
  BY <1>1, <1>2, <1>11 DEF LimitInv
<1> QED BY <1>18, <1>19, <1>20, <1>21, <1>22, <1>23, <1>24, <1>25, <1>26, <1>27 DEF IInv

-----------------------------------------------------------------------------
(* The client reads a response *)

(* A side whose slot the first response is not read into keeps all it has. *)
LEMMA UpdateStep ==
  ASSUME IInv, onOrderUpdate
  PROVE  IInv'
<1>1. /\ TypeOK /\ SlotsInv /\ OpenInv /\ NewInv /\ CancelInv /\ ResponseInv
      /\ WaitInv /\ QuantityInv /\ SumInv /\ LimitInv
  BY DEF IInv
<1>0. PICK h, n : h = responses[1] /\ n = Len(responses)
  OBVIOUS
<1>2. /\ responses # << >> /\ responses' = Tail(responses)
      /\ UNCHANGED <<algo, next_order_id_, requests, open>>
  BY DEF onOrderUpdate
<1>3. /\ responses \in Seq(Response) /\ responses' \in Seq(Response) /\ n \in Nat /\ n >= 1 /\ 1 \in 1 .. n
      /\ Len(responses') = n - 1
      /\ Head(responses) = h /\ h \in Response /\ responses[1] = h
      /\ \A i \in 1 .. Len(responses') : i + 1 \in 1 .. n /\ responses'[i] = responses[i + 1]
  <2>1. responses \in Seq(Response)
    BY <1>1 DEF TypeOK
  <2> QED BY <2>1, <1>0, <1>2, HeadTailProperties
<1>4. \A i \in 1 .. n : i = 1 \/ (i - 1 \in 1 .. Len(responses') /\ responses'[i - 1] = responses[i])
  <2> SUFFICES ASSUME NEW i \in 1 .. n, i # 1
               PROVE  i - 1 \in 1 .. Len(responses') /\ responses'[i - 1] = responses[i]
    OBVIOUS
  <2>1. i - 1 \in 1 .. Len(responses') /\ (i - 1) + 1 = i
    BY <1>3
  <2> QED BY <2>1, <1>3
<1>5. \A i \in 1 .. Len(responses') : \A s :
        /\ Mine(i, s)' <=> Mine(i + 1, s)
        /\ Fill(i, s)' <=> Fill(i + 1, s)
        /\ Ends(i, s)' <=> Ends(i + 1, s)
  BY <1>3 DEF Mine, Fill, Ends
<1>6. \A i \in 1 .. n : \A s : i # 1 =>
        /\ i - 1 \in 1 .. Len(responses') /\ responses'[i - 1] = responses[i]
        /\ Mine(i - 1, s)' <=> Mine(i, s)
        /\ Fill(i - 1, s)' <=> Fill(i, s)
        /\ Ends(i - 1, s)' <=> Ends(i, s)
  BY <1>4 DEF Mine, Fill, Ends
<1>7. \A i, s : New(i, s)' <=> New(i, s)
  BY <1>2 DEF New
<1>8. \A s \in Side :
        /\ fills(responses, s) \in Seq(Int)
        /\ Total(fills(responses, s)) = FillOf(h, s) + Total(fills(responses', s))
        /\ Rest(fills(responses, s), 1) = Total(fills(responses', s))
        /\ \A i \in 1 .. Len(responses') : Rest(fills(responses', s), i) = Rest(fills(responses, s), i + 1)
  <2> SUFFICES ASSUME NEW s \in Side
               PROVE  /\ fills(responses, s) \in Seq(Int)
                      /\ Total(fills(responses, s)) = FillOf(h, s) + Total(fills(responses', s))
                      /\ Rest(fills(responses, s), 1) = Total(fills(responses', s))
                      /\ \A i \in 1 .. Len(responses') :
                           Rest(fills(responses', s), i) = Rest(fills(responses, s), i + 1)
    OBVIOUS
  <2>1. fills(responses, s) \in Seq(Int) /\ Len(fills(responses, s)) = n
    BY <1>0, <1>3, FillsType
  <2>2. /\ fills(responses', s) = Tail(fills(responses, s))
        /\ fills(responses, s)[1] = FillOf(h, s) /\ fills(responses, s) # << >>
    BY <1>2, <1>3, FillsTail
  <2>3. Total(fills(responses, s)) = FillOf(h, s) + Total(fills(responses', s))
    BY <2>1, <2>2, TotalTail
  <2>4. Rest(fills(responses, s), 1) = Total(fills(responses', s))
    BY <2>1, <2>2, RestOfHead
  <2>5. \A i \in 0 .. n - 1 : Rest(fills(responses', s), i) = Rest(fills(responses, s), i + 1)
    BY <2>1, <2>2, RestTail
  <2> QED BY <2>1, <2>3, <2>4, <2>5, <1>3
<1>9. \A s \in Side :
        /\ Total(fills(responses, s)) \in Int /\ Total(news(requests, s)) \in Int
        /\ leaves(open, s) \in Nat
        /\ Total(fills(responses', s)) \in Int
        /\ inFlight(s) = Total(fills(responses, s)) + Total(news(requests, s)) + leaves(open, s)
        /\ inFlight(s)' = Total(fills(responses', s)) + Total(news(requests, s)) + leaves(open, s)
  BY <1>1, <1>2, <1>3, InFlightType, FillsType, TotalType DEF inFlight
<1>10. ticker_side_order_ \in [Side -> OMOrder]
  BY <1>1 DEF TypeOK
<1>11. \A i \in 1 .. n : \A s : Fill(i, s) => responses[i].leaves_qty_ \in 0 .. Clip /\ responses[i].exec_qty_ \in 0 .. Clip
  <2>1. \A i \in 1 .. n : responses[i] \in Response
    BY <1>0, <1>3
  <2> QED BY <2>1 DEF Fill, Response
<1>12. Clip \in Nat /\ position_ \in Int /\ MaxPosition \in Nat
  BY <1>1, ClipAssumption, LimitsAssumption DEF TypeOK
(* a slot that the response is not for *)
<1>13. \A s \in Side : ~Mine(1, s) =>
         /\ ticker_side_order_'[s] = ticker_side_order_[s]
         /\ FillOf(h, s) = 0
         /\ Id(s)' = Id(s) /\ Qty(s)' = Qty(s) /\ OrderState(s)' = OrderState(s) /\ (Alive(s)' <=> Alive(s))
  <2> SUFFICES ASSUME NEW s \in Side, ~Mine(1, s)
               PROVE  ticker_side_order_'[s] = ticker_side_order_[s] /\ FillOf(h, s) = 0
    BY DEF Id, Qty, OrderState, Alive
  <2>1. FillOf(h, s) = 0
    BY <1>3 DEF FillOf, Mine
  <2>2. CASE h.type_ = "CANCEL_REJECTED"
    BY <2>1, <2>2, <1>3 DEF onOrderUpdate
  <2>3. CASE h.type_ # "CANCEL_REJECTED"
    <3>1. h.side_ # s
      BY <2>3, <1>3 DEF Mine
    <3>2. ticker_side_order_' = [ticker_side_order_ EXCEPT ![h.side_] = afterResponse(@, h)]
      BY <2>3, <1>3 DEF onOrderUpdate
    <3> QED BY <2>1, <3>1, <3>2, <1>10
  <2> QED BY <2>2, <2>3
(* the slot that it is for *)
<1>14. \A s \in Side : Mine(1, s) =>
         /\ Alive(s) /\ h.order_id_ = Id(s) /\ h.side_ = s
         /\ h.type_ \in {"ACCEPTED", "CANCELED", "FILLED"}
         /\ ticker_side_order_'[s] = afterResponse(ticker_side_order_[s], h)
         /\ ticker_side_order_[s] \in OMOrder
         /\ \A i \in 1 .. Len(requests) : ~New(i, s)
         /\ Total(news(requests, s)) = 0
  <2> SUFFICES ASSUME NEW s \in Side, Mine(1, s)
               PROVE  /\ Alive(s) /\ h.order_id_ = Id(s) /\ h.side_ = s
                      /\ h.type_ \in {"ACCEPTED", "CANCELED", "FILLED"}
                      /\ ticker_side_order_'[s] = afterResponse(ticker_side_order_[s], h)
                      /\ ticker_side_order_[s] \in OMOrder
                      /\ \A i \in 1 .. Len(requests) : ~New(i, s)
                      /\ Total(news(requests, s)) = 0
    OBVIOUS
  <2>1. Alive(s) /\ h.order_id_ = Id(s)
    BY <1>0, <1>1, <1>3 DEF ResponseInv
  <2>2. h.side_ = s /\ h.type_ # "CANCEL_REJECTED"
    BY <1>3 DEF Mine
  <2>3. h.type_ \in {"ACCEPTED", "CANCELED", "FILLED"}
    BY <2>2, <1>3 DEF Response
  <2>4. ticker_side_order_' = [ticker_side_order_ EXCEPT ![s] = afterResponse(@, h)]
    BY <2>2, <1>3 DEF onOrderUpdate
  <2>5. ticker_side_order_'[s] = afterResponse(ticker_side_order_[s], h) /\ ticker_side_order_[s] \in OMOrder
    BY <2>4, <1>10
  <2>6. \A i \in 1 .. Len(requests) : ~New(i, s)
    BY <1>0, <1>1, <1>3 DEF NewInv
  <2>7. Total(news(requests, s)) = 0
    <3>1. requests \in Seq(Request)
      BY <1>1 DEF TypeOK
    <3>2. \A i \in 1 .. Len(requests) : news(requests, s)[i] = 0
      BY <2>6 DEF news, New
    <3>3. news(requests, s) \in Seq(Int) /\ Len(news(requests, s)) = Len(requests)
      BY <3>1, NewsType
    <3> QED BY <3>2, <3>3, TotalZero
  <2> QED BY <2>1, <2>2, <2>3, <2>5, <2>6, <2>7
<1>29. \A s \in Side : Mine(1, s) =>
         Id(s)' = Id(s) /\ ticker_side_order_'[s].price_ = ticker_side_order_[s].price_
  <2> SUFFICES ASSUME NEW s \in Side, Mine(1, s)
               PROVE  Id(s)' = Id(s) /\ ticker_side_order_'[s].price_ = ticker_side_order_[s].price_
    OBVIOUS
  <2>1. ticker_side_order_[s] \in OMOrder /\ ticker_side_order_'[s] = afterResponse(ticker_side_order_[s], h)
    BY <1>14
  <2>2. CASE h.type_ = "ACCEPTED"
    BY <2>1, <2>2 DEF afterResponse, Id, OMOrder
  <2>3. CASE h.type_ = "CANCELED"
    BY <2>1, <2>3 DEF afterResponse, Id, OMOrder
  <2>4. CASE h.type_ = "FILLED"
    BY <2>1, <2>4 DEF afterResponse, Id, OMOrder
  <2> QED BY <2>2, <2>3, <2>4, <1>14
<1>15. \A s \in Side : Mine(1, s) /\ h.type_ = "ACCEPTED" =>
         /\ OrderState(s) = "PENDING_NEW" /\ OrderState(s)' = "LIVE" /\ Alive(s)' /\ Qty(s)' = Qty(s)
         /\ \A i \in 1 .. n : i # 1 /\ Mine(i, s) => responses[i].type_ # "ACCEPTED"
         /\ FillOf(h, s) = 0
  <2> SUFFICES ASSUME NEW s \in Side, Mine(1, s), h.type_ = "ACCEPTED"
               PROVE  /\ OrderState(s) = "PENDING_NEW" /\ OrderState(s)' = "LIVE" /\ Alive(s)' /\ Qty(s)' = Qty(s)
                      /\ \A i \in 1 .. n : i # 1 /\ Mine(i, s) => responses[i].type_ # "ACCEPTED"
                      /\ FillOf(h, s) = 0
    OBVIOUS
  <2>1. OrderState(s) = "PENDING_NEW"
    BY <1>0, <1>1, <1>3 DEF ResponseInv
  <2>2. ticker_side_order_'[s] = [ticker_side_order_[s] EXCEPT !.order_state_ = "LIVE"] /\ ticker_side_order_[s] \in OMOrder
    BY <1>14 DEF afterResponse
  <2>3. OrderState(s)' = "LIVE" /\ Alive(s)' /\ Qty(s)' = Qty(s)
    BY <2>2 DEF OMOrder, OrderState, Alive, Qty
  <2>4. ASSUME NEW i \in 1 .. n, i # 1, Mine(i, s), responses[i].type_ = "ACCEPTED" PROVE FALSE
    <3>1. 1 < i
      BY <2>4, <1>3
    <3> QED BY <2>4, <3>1, <1>0, <1>1, <1>3 DEF ResponseInv
  <2> QED BY <2>1, <2>3, <2>4 DEF FillOf
<1>16. \A s \in Side : Ends(1, s) =>
         /\ OrderState(s)' = "DEAD" /\ ~Alive(s)'
         /\ \A o \in open : o.side_ # s
         /\ \A i \in 1 .. n : i # 1 => ~Mine(i, s)
  <2> SUFFICES ASSUME NEW s \in Side, Ends(1, s)
               PROVE  /\ OrderState(s)' = "DEAD" /\ ~Alive(s)'
                      /\ \A o \in open : o.side_ # s
                      /\ \A i \in 1 .. n : i # 1 => ~Mine(i, s)
    OBVIOUS
  <2>1. Mine(1, s) /\ (h.type_ = "CANCELED" \/ (h.type_ = "FILLED" /\ h.leaves_qty_ = 0))
    BY <1>3 DEF Ends
  <2>2. ticker_side_order_'[s].order_state_ = "DEAD"
    BY <2>1, <1>14 DEF afterResponse, OMOrder
  <2>3. \A o \in open : o.side_ # s
    BY <2>1, <1>0, <1>1, <1>3 DEF ResponseInv
  <2>4. ASSUME NEW i \in 1 .. n, i # 1, Mine(i, s) PROVE FALSE
    <3>1. i <= 1
      BY <2>1, <2>4, <1>0, <1>1, <1>3 DEF ResponseInv
    <3> QED BY <3>1, <2>4, <1>3
  <2> QED BY <2>2, <2>3, <2>4 DEF OrderState, Alive
<1>17. \A s \in Side : Fill(1, s) =>
         /\ Qty(s)' = h.leaves_qty_ /\ FillOf(h, s) = h.exec_qty_
         /\ h.exec_qty_ + h.leaves_qty_ <= Qty(s)
         /\ h.leaves_qty_ # 0 => OrderState(s)' = OrderState(s) /\ (Alive(s)' <=> Alive(s))
         /\ h.leaves_qty_ = 0 => Ends(1, s)
         /\ h.leaves_qty_ \in 0 .. Clip /\ h.exec_qty_ \in 0 .. Clip
  <2> SUFFICES ASSUME NEW s \in Side, Fill(1, s)
               PROVE  /\ Qty(s)' = h.leaves_qty_ /\ FillOf(h, s) = h.exec_qty_
                      /\ h.exec_qty_ + h.leaves_qty_ <= Qty(s)
                      /\ h.leaves_qty_ # 0 => OrderState(s)' = OrderState(s) /\ (Alive(s)' <=> Alive(s))
                      /\ h.leaves_qty_ = 0 => Ends(1, s)
                      /\ h.leaves_qty_ \in 0 .. Clip /\ h.exec_qty_ \in 0 .. Clip
    OBVIOUS
  <2>1. h.type_ = "FILLED" /\ h.side_ = s /\ Mine(1, s)
    BY <1>3 DEF Fill, Mine
  <2>2. FillOf(h, s) = h.exec_qty_
    BY <2>1 DEF FillOf
  <2>3. h.exec_qty_ + h.leaves_qty_ <= Qty(s)
    BY <1>0, <1>1, <1>3 DEF QuantityInv
  <2>8. /\ ticker_side_order_'[s] =
             [ticker_side_order_[s] EXCEPT !.qty_ = h.leaves_qty_,
                                           !.order_state_ = IF h.leaves_qty_ = 0 THEN "DEAD" ELSE @]
        /\ ticker_side_order_[s] \in OMOrder
    BY <2>1, <1>14 DEF afterResponse
  <2>4. Qty(s)' = h.leaves_qty_
    BY <2>8 DEF OMOrder, Qty
  <2>5. h.leaves_qty_ # 0 => OrderState(s)' = OrderState(s) /\ (Alive(s)' <=> Alive(s))
    <3>1. h.leaves_qty_ # 0 => OrderState(s)' = OrderState(s)
      BY <2>8 DEF OMOrder, OrderState
    <3> QED BY <3>1 DEF Alive
  <2>6. h.leaves_qty_ = 0 => Ends(1, s)
    BY <2>1, <1>3 DEF Ends
  <2>7. h.leaves_qty_ \in 0 .. Clip /\ h.exec_qty_ \in 0 .. Clip
    BY <1>3, <1>11
  <2> QED BY <2>2, <2>3, <2>4, <2>5, <2>6, <2>7
<1>18. \A s \in Side : Mine(1, s) => h.type_ = "ACCEPTED" \/ Fill(1, s) \/ (h.type_ = "CANCELED" /\ Ends(1, s))
  BY <1>3, <1>14 DEF Fill, Ends
<1>30. \A s \in Side : Mine(1, s) /\ h.type_ = "CANCELED" => Qty(s)' = Qty(s) /\ FillOf(h, s) = 0
  <2> SUFFICES ASSUME NEW s \in Side, Mine(1, s), h.type_ = "CANCELED" PROVE Qty(s)' = Qty(s) /\ FillOf(h, s) = 0
    OBVIOUS
  <2>1. /\ ticker_side_order_'[s] = [ticker_side_order_[s] EXCEPT !.order_state_ = "DEAD"]
        /\ ticker_side_order_[s] \in OMOrder
    BY <1>14 DEF afterResponse
  <2>2. Qty(s)' = Qty(s)
    BY <2>1 DEF OMOrder, Qty
  <2> QED BY <2>2 DEF FillOf
<1>31. \A s \in Side : Id(s)' = Id(s) /\ ticker_side_order_'[s].price_ = ticker_side_order_[s].price_
  BY <1>13, <1>29
<1>32. \A s \in Side : /\ Alive(s)' => Alive(s)
                       /\ Alive(s)' /\ Mine(1, s) => h.type_ = "ACCEPTED" \/ (Fill(1, s) /\ h.leaves_qty_ # 0)
                       /\ Alive(s) /\ ~Alive(s)' => Ends(1, s)
  BY <1>13, <1>14, <1>15, <1>16, <1>17, <1>18
<1>19. TypeOK'
  <2>1. ticker_side_order_' = [s \in Side |-> ticker_side_order_'[s]]
    <3>1. CASE h.type_ = "CANCEL_REJECTED"
      BY <3>1, <1>3, <1>10 DEF onOrderUpdate
    <3>2. CASE h.type_ # "CANCEL_REJECTED"
      <4>1. ticker_side_order_' = [ticker_side_order_ EXCEPT ![h.side_] = afterResponse(@, h)]
        BY <3>2, <1>3 DEF onOrderUpdate
      <4> QED BY <4>1, <1>10
    <3> QED BY <3>1, <3>2
  <2>2. ASSUME NEW s \in Side PROVE ticker_side_order_'[s] \in OMOrder
    <3>0. ticker_side_order_[s] \in OMOrder
      BY <1>10
    <3>1. CASE ~Mine(1, s)
      BY <3>0, <3>1, <1>13
    <3>2. CASE Mine(1, s) /\ h.type_ = "ACCEPTED"
      <4>1. ticker_side_order_'[s] = [ticker_side_order_[s] EXCEPT !.order_state_ = "LIVE"]
        BY <3>2, <1>14 DEF afterResponse
      <4> QED BY <3>0, <4>1 DEF OMOrder, OMOrderState
    <3>3. CASE Mine(1, s) /\ h.type_ = "CANCELED"
      <4>1. ticker_side_order_'[s] = [ticker_side_order_[s] EXCEPT !.order_state_ = "DEAD"]
        BY <3>3, <1>14 DEF afterResponse
      <4> QED BY <3>0, <4>1 DEF OMOrder, OMOrderState
    <3>4. CASE Fill(1, s)
      <4>1. h.leaves_qty_ \in 0 .. Clip /\ Mine(1, s) /\ h.type_ = "FILLED"
        BY <3>4, <1>3, <1>17 DEF Fill, Mine
      <4>2. \E st \in OMOrderState :
              ticker_side_order_'[s] = [ticker_side_order_[s] EXCEPT !.qty_ = h.leaves_qty_, !.order_state_ = st]
        <5>1. ticker_side_order_[s].order_state_ \in OMOrderState /\ "DEAD" \in OMOrderState
          BY <3>0 DEF OMOrder, OMOrderState
        <5>2. CASE h.leaves_qty_ = 0
          <6>1. ticker_side_order_'[s] = [ticker_side_order_[s] EXCEPT !.qty_ = h.leaves_qty_, !.order_state_ = "DEAD"]
            BY <4>1, <5>2, <3>0, <1>14 DEF afterResponse
          <6> QED BY <5>1, <6>1
        <5>3. CASE h.leaves_qty_ # 0
          <6>1. ticker_side_order_'[s] = [ticker_side_order_[s] EXCEPT !.qty_ = h.leaves_qty_,
                                             !.order_state_ = ticker_side_order_[s].order_state_]
            BY <4>1, <5>3, <3>0, <1>14 DEF afterResponse
          <6> QED BY <5>1, <6>1
        <5> QED BY <5>2, <5>3
      <4> QED BY <3>0, <4>1, <4>2 DEF OMOrder
    <3> QED BY <3>1, <3>2, <3>3, <3>4, <1>18
  <2>3. position_' \in Int
    <3>1. CASE h.type_ = "FILLED"
      <4>1. h.exec_qty_ \in Int
        BY <3>1, <1>3 DEF Response
      <4>2. position_' = position_ + sideToValue(h.side_) * h.exec_qty_
        BY <3>1, <1>3 DEF onOrderUpdate
      <4> QED BY <4>1, <4>2, <1>12 DEF sideToValue
    <3>2. CASE h.type_ # "FILLED"
      BY <3>2, <1>3, <1>12 DEF onOrderUpdate
    <3> QED BY <3>1, <3>2
  <2> QED BY <2>1, <2>2, <2>3, <1>1, <1>2, <1>3 DEF TypeOK
<1>20. SlotsInv'
  <2>1. ASSUME NEW s \in Side, Alive(s)' PROVE Qty(s)' # 0
    BY <2>1, <1>1, <1>13, <1>15, <1>17, <1>32 DEF SlotsInv
  <2> QED BY <2>1, <1>1, <1>2, <1>31, <1>32 DEF SlotsInv, Side
<1>21. OpenInv'
  <2>1. \A o \in open : o.side_ \in Side
    BY <1>1 DEF TypeOK
  <2>2. \A o \in open : o.order_id_ = Id(o.side_)' /\ Alive(o.side_)'
    BY <2>1, <1>1, <1>16, <1>31, <1>32 DEF OpenInv
  <2> QED BY <2>2, <1>1, <1>2 DEF OpenInv
<1>22. NewInv'
  <2>1. ASSUME NEW i \in 1 .. Len(requests), NEW s \in Side, New(i, s)
        PROVE /\ requests[i].order_id_ = Id(s)'
              /\ requests[i].qty_ = Qty(s)'
              /\ OrderState(s)' = "PENDING_NEW"
              /\ \A o \in open : o.side_ # s
              /\ \A j \in 1 .. Len(responses') : ~Mine(j, s)'
    <3>1. ~Mine(1, s)
      BY <2>1, <1>14
    <3>2. /\ requests[i].order_id_ = Id(s)
          /\ requests[i].qty_ = Qty(s)
          /\ OrderState(s) = "PENDING_NEW"
          /\ \A o \in open : o.side_ # s
          /\ \A j \in 1 .. n : ~Mine(j, s)
      BY <2>1, <1>0, <1>1 DEF NewInv
    <3>3. \A j \in 1 .. Len(responses') : ~Mine(j, s)'
      BY <3>2, <1>3, <1>5
    <3> QED BY <3>1, <3>2, <3>3, <1>13
  <2>2. \A i, j \in 1 .. Len(requests), s \in Side : New(i, s) /\ New(j, s) => i = j
    BY <1>1 DEF NewInv
  <2> QED BY <2>1, <2>2, <1>2, <1>7 DEF NewInv
<1>23. CancelInv'
  <2> SUFFICES ASSUME NEW i \in 1 .. Len(requests), requests[i].type_ = "CANCEL",
                      NEW s \in Side, requests[i].order_id_ = Id(s)
               PROVE  s = requests[i].side_ /\ OrderState(s)' \in {"PENDING_CANCEL", "DEAD"}
    BY <1>1, <1>2, <1>31 DEF CancelInv
  <2>1. s = requests[i].side_ /\ OrderState(s) \in {"PENDING_CANCEL", "DEAD"}
    BY <1>1 DEF CancelInv
  <2> QED BY <2>1, <1>13, <1>15, <1>16, <1>17, <1>18
<1>24. ResponseInv'
  <2> SUFFICES ASSUME NEW i \in 1 .. Len(responses'), NEW s \in Side, Mine(i, s)'
               PROVE  /\ responses'[i].order_id_ = Id(s)
                      /\ Alive(s)'
                      /\ responses'[i].type_ = "ACCEPTED" =>
                           /\ OrderState(s)' = "PENDING_NEW"
                           /\ \A j \in 1 .. Len(responses') : j < i => ~Mine(j, s)'
                      /\ Ends(i, s)' =>
                           /\ \A o \in open : o.side_ # s
                           /\ \A j \in 1 .. Len(responses') : Mine(j, s)' => j <= i
    BY <1>2, <1>31 DEF ResponseInv
  <2>1. i + 1 \in 1 .. n /\ Mine(i + 1, s) /\ responses'[i] = responses[i + 1] /\ i + 1 # 1 /\ i \in Int
        /\ (Ends(i, s)' <=> Ends(i + 1, s))
    BY <1>3, <1>5
  <2>2. /\ responses[i + 1].order_id_ = Id(s)
        /\ Alive(s)
        /\ responses[i + 1].type_ = "ACCEPTED" =>
             /\ OrderState(s) = "PENDING_NEW"
             /\ \A j \in 1 .. n : j < i + 1 => ~Mine(j, s)
        /\ Ends(i + 1, s) =>
             /\ \A o \in open : o.side_ # s
             /\ \A j \in 1 .. n : Mine(j, s) => j <= i + 1
    BY <2>1, <1>0, <1>1 DEF ResponseInv
  <2>3. Alive(s)'
    BY <2>1, <2>2, <1>16, <1>32
  <2>4. ASSUME responses[i + 1].type_ = "ACCEPTED"
        PROVE  OrderState(s)' = "PENDING_NEW" /\ \A j \in 1 .. Len(responses') : j < i => ~Mine(j, s)'
    <3>1. 1 < i + 1
      BY <2>1
    <3>2. ~Mine(1, s)
      BY <2>2, <2>4, <3>1, <1>3
    <3>3. OrderState(s)' = "PENDING_NEW"
      BY <3>2, <2>2, <2>4, <1>13
    <3>4. ASSUME NEW j \in 1 .. Len(responses'), j < i PROVE ~Mine(j, s)'
      <4>1. j + 1 \in 1 .. n /\ j + 1 < i + 1
        BY <3>4, <2>1, <1>3
      <4> QED BY <4>1, <2>2, <2>4, <1>5
    <3> QED BY <3>3, <3>4
  <2>5. ASSUME Ends(i + 1, s), NEW j \in 1 .. Len(responses'), Mine(j, s)' PROVE j <= i
    <3>1. j + 1 \in 1 .. n /\ Mine(j + 1, s)
      BY <2>5, <1>3, <1>5
    <3>2. j + 1 <= i + 1
      BY <3>1, <2>2, <2>5
    <3> QED BY <3>2, <2>1, <1>3
  <2> QED BY <2>1, <2>2, <2>3, <2>4, <2>5
<1>25. WaitInv'
  <2> SUFFICES ASSUME NEW s \in Side
               PROVE  /\ OrderState(s)' = "PENDING_NEW" =>
                           \/ \E i \in 1 .. Len(requests) : New(i, s)
                           \/ \E i \in 1 .. Len(responses') : Mine(i, s)' /\ responses'[i].type_ = "ACCEPTED"
                      /\ OrderState(s)' = "PENDING_CANCEL" =>
                           \/ \E i \in 1 .. Len(requests) : Cancel(i, s)
                           \/ \E i \in 1 .. Len(responses') : Ends(i, s)'
                      /\ Alive(s)' =>
                           \/ \E i \in 1 .. Len(requests) : New(i, s)
                           \/ \E o \in open : o.side_ = s
                           \/ \E i \in 1 .. Len(responses') : Ends(i, s)'
    BY <1>2, <1>7, <1>31 DEF WaitInv, Cancel
  <2>1. /\ OrderState(s) = "PENDING_NEW" =>
             \/ \E i \in 1 .. Len(requests) : New(i, s)
             \/ \E i \in 1 .. n : Mine(i, s) /\ responses[i].type_ = "ACCEPTED"
        /\ OrderState(s) = "PENDING_CANCEL" =>
             \/ \E i \in 1 .. Len(requests) : Cancel(i, s)
             \/ \E i \in 1 .. n : Ends(i, s)
        /\ Alive(s) =>
             \/ \E i \in 1 .. Len(requests) : New(i, s)
             \/ \E o \in open : o.side_ = s
             \/ \E i \in 1 .. n : Ends(i, s)
    BY <1>0, <1>1 DEF WaitInv
  <2>2. CASE ~Alive(s)'
    BY <2>2 DEF Alive
  <2>3. CASE Alive(s)'
    <3>1. Alive(s) /\ ~Ends(1, s)
      BY <2>3, <1>16, <1>32
    <3>2. (\E i \in 1 .. n : Ends(i, s)) => \E i \in 1 .. Len(responses') : Ends(i, s)'
      BY <3>1, <1>6
    <3>3. ASSUME OrderState(s)' = "PENDING_NEW"
          PROVE  \/ \E i \in 1 .. Len(requests) : New(i, s)
                 \/ \E i \in 1 .. Len(responses') : Mine(i, s)' /\ responses'[i].type_ = "ACCEPTED"
      <4>1. OrderState(s) = "PENDING_NEW" /\ ~(Mine(1, s) /\ h.type_ = "ACCEPTED")
        BY <2>3, <3>3, <1>13, <1>15, <1>17, <1>32
      <4>2. ASSUME NEW i \in 1 .. n, Mine(i, s), responses[i].type_ = "ACCEPTED"
            PROVE  \E j \in 1 .. Len(responses') : Mine(j, s)' /\ responses'[j].type_ = "ACCEPTED"
        <5>1. i # 1
          BY <4>1, <4>2, <1>3
        <5> QED BY <5>1, <4>2, <1>6
      <4> QED BY <4>1, <4>2, <2>1
    <3>4. OrderState(s)' = "PENDING_CANCEL" => OrderState(s) = "PENDING_CANCEL"
      BY <2>3, <1>13, <1>15, <1>17, <1>32
    <3> QED BY <3>1, <3>2, <3>3, <3>4, <2>1
  <2> QED BY <2>2, <2>3
<1>26. QuantityInv'
  <2> SUFFICES ASSUME NEW s \in Side
               PROVE
    /\ \A i \in 1 .. Len(responses') : Fill(i, s)' =>
         /\ responses'[i].exec_qty_ + responses'[i].leaves_qty_ <= Qty(s)'
         /\ \A j \in 1 .. Len(responses') : j < i /\ Fill(j, s)' =>
              responses'[i].exec_qty_ + responses'[i].leaves_qty_ <= responses'[j].leaves_qty_
    /\ \A o \in open : o.side_ = s =>
         /\ \A i \in 1 .. Len(responses') : Fill(i, s)' => o.leaves_ <= responses'[i].leaves_qty_
         /\ o.leaves_ <= Qty(s)'
         /\ \/ o.leaves_ = Qty(s)'
            \/ \E i \in 1 .. Len(responses') : Fill(i, s)' /\ o.leaves_ = responses'[i].leaves_qty_
    BY <1>2 DEF QuantityInv
  <2>1. /\ \A i \in 1 .. n : Fill(i, s) =>
             /\ responses[i].exec_qty_ + responses[i].leaves_qty_ <= Qty(s)
             /\ \A j \in 1 .. n : j < i /\ Fill(j, s) =>
                  responses[i].exec_qty_ + responses[i].leaves_qty_ <= responses[j].leaves_qty_
        /\ \A o \in open : o.side_ = s =>
             /\ \A i \in 1 .. n : Fill(i, s) => o.leaves_ <= responses[i].leaves_qty_
             /\ o.leaves_ <= Qty(s)
             /\ \/ o.leaves_ = Qty(s)
                \/ \E i \in 1 .. n : Fill(i, s) /\ o.leaves_ = responses[i].leaves_qty_
    BY <1>0, <1>1 DEF QuantityInv
  <2>2. \A i \in 1 .. Len(responses') : Fill(i, s)' =>
          i + 1 \in 1 .. n /\ Fill(i + 1, s) /\ responses'[i] = responses[i + 1] /\ 1 < i + 1
    <3>1. \A i \in 1 .. Len(responses') : 1 < i + 1
      BY <1>3
    <3> QED BY <3>1, <1>3, <1>5
  <2>3. \A i \in 1 .. n : i # 1 /\ Fill(i, s) =>
          i - 1 \in 1 .. Len(responses') /\ Fill(i - 1, s)' /\ responses'[i - 1] = responses[i]
    BY <1>6
  <2>4. CASE ~Fill(1, s)
    <3>1. Qty(s)' = Qty(s)
      BY <2>4, <1>13, <1>15, <1>18, <1>30
    <3>2. \A i \in 1 .. n : Fill(i, s) => i # 1
      BY <2>4
    <3>3. ASSUME NEW i \in 1 .. Len(responses'), Fill(i, s)'
          PROVE  /\ responses'[i].exec_qty_ + responses'[i].leaves_qty_ <= Qty(s)
                 /\ \A j \in 1 .. Len(responses') : j < i /\ Fill(j, s)' =>
                      responses'[i].exec_qty_ + responses'[i].leaves_qty_ <= responses'[j].leaves_qty_
      <4>1. i + 1 \in 1 .. n /\ Fill(i + 1, s) /\ responses'[i] = responses[i + 1]
        BY <3>3, <2>2
      <4>2. ASSUME NEW j \in 1 .. Len(responses'), j < i, Fill(j, s)'
            PROVE  responses'[i].exec_qty_ + responses'[i].leaves_qty_ <= responses'[j].leaves_qty_
        <5>1. /\ j + 1 \in 1 .. n /\ Fill(j + 1, s) /\ responses'[j] = responses[j + 1]
              /\ j + 1 < i + 1
          <6>1. j + 1 \in 1 .. n /\ Fill(j + 1, s) /\ responses'[j] = responses[j + 1]
            BY <4>2, <2>2, Zenon
          <6>2. j + 1 < i + 1
            BY <4>2
          <6> QED BY <6>1, <6>2
        <5> QED BY <4>1, <5>1, <2>1
      <4> QED BY <4>1, <4>2, <2>1
    <3>4. ASSUME NEW o \in open, o.side_ = s
          PROVE  /\ \A i \in 1 .. Len(responses') : Fill(i, s)' => o.leaves_ <= responses'[i].leaves_qty_
                 /\ o.leaves_ <= Qty(s)
                 /\ \/ o.leaves_ = Qty(s)
                    \/ \E i \in 1 .. Len(responses') : Fill(i, s)' /\ o.leaves_ = responses'[i].leaves_qty_
      BY <3>2, <3>4, <2>1, <2>2, <2>3
    <3> QED BY <3>1, <3>3, <3>4
  <2>5. CASE Fill(1, s)
    <3>1. Qty(s)' = responses[1].leaves_qty_ /\ responses[1].exec_qty_ + responses[1].leaves_qty_ <= Qty(s)
          /\ responses[1].leaves_qty_ \in Nat /\ responses[1].exec_qty_ \in Nat
      BY <2>5, <1>3, <1>12, <1>17
    <3>2. ASSUME NEW i \in 1 .. Len(responses'), Fill(i, s)'
          PROVE  /\ responses'[i].exec_qty_ + responses'[i].leaves_qty_ <= Qty(s)'
                 /\ \A j \in 1 .. Len(responses') : j < i /\ Fill(j, s)' =>
                      responses'[i].exec_qty_ + responses'[i].leaves_qty_ <= responses'[j].leaves_qty_
      <4>1. i + 1 \in 1 .. n /\ Fill(i + 1, s) /\ responses'[i] = responses[i + 1] /\ 1 < i + 1
        BY <3>2, <2>2
      <4>2. responses[i + 1].exec_qty_ + responses[i + 1].leaves_qty_ <= responses[1].leaves_qty_
        BY <4>1, <2>1, <2>5, <1>3
      <4>3. ASSUME NEW j \in 1 .. Len(responses'), j < i, Fill(j, s)'
            PROVE  responses'[i].exec_qty_ + responses'[i].leaves_qty_ <= responses'[j].leaves_qty_
        <5>1. /\ j + 1 \in 1 .. n /\ Fill(j + 1, s) /\ responses'[j] = responses[j + 1]
              /\ j + 1 < i + 1
          <6>1. j + 1 \in 1 .. n /\ Fill(j + 1, s) /\ responses'[j] = responses[j + 1]
            BY <4>3, <2>2, Zenon
          <6>2. j + 1 < i + 1
            BY <4>3
          <6> QED BY <6>1, <6>2
        <5> QED BY <4>1, <5>1, <2>1
      <4> QED BY <4>1, <4>2, <4>3, <3>1
    <3>3. ASSUME NEW o \in open, o.side_ = s
          PROVE  /\ \A i \in 1 .. Len(responses') : Fill(i, s)' => o.leaves_ <= responses'[i].leaves_qty_
                 /\ o.leaves_ <= Qty(s)'
                 /\ \/ o.leaves_ = Qty(s)'
                    \/ \E i \in 1 .. Len(responses') : Fill(i, s)' /\ o.leaves_ = responses'[i].leaves_qty_
      <4>1. o.leaves_ <= responses[1].leaves_qty_
        BY <3>3, <2>1, <2>5, <1>3
      <4>2. \A i \in 1 .. Len(responses') : Fill(i, s)' => o.leaves_ <= responses'[i].leaves_qty_
        BY <3>3, <2>1, <2>2
      <4>3. \/ o.leaves_ = Qty(s)'
            \/ \E i \in 1 .. Len(responses') : Fill(i, s)' /\ o.leaves_ = responses'[i].leaves_qty_
        <5>1. CASE o.leaves_ = Qty(s)
          <6>1. o.leaves_ \in Int
            BY <1>1 DEF TypeOK
          <6> QED BY <5>1, <6>1, <4>1, <3>1
        <5>2. ASSUME NEW i \in 1 .. n, Fill(i, s), o.leaves_ = responses[i].leaves_qty_
              PROVE  \/ o.leaves_ = Qty(s)'
                     \/ \E j \in 1 .. Len(responses') : Fill(j, s)' /\ o.leaves_ = responses'[j].leaves_qty_
          <6>1. CASE i = 1
            BY <6>1, <5>2, <3>1
          <6>2. CASE i # 1
            BY <6>2, <5>2, <2>3
          <6> QED BY <6>1, <6>2
        <5> QED BY <5>1, <5>2, <3>3, <2>1
      <4> QED BY <4>1, <4>2, <4>3, <3>1
    <3> QED BY <3>2, <3>3
  <2> QED BY <2>4, <2>5
<1>27. SumInv'
  <2> SUFFICES ASSUME NEW s \in Side
               PROVE  /\ inFlight(s)' <= IF Alive(s)' THEN Qty(s)' ELSE 0
                      /\ \A i \in 1 .. Len(responses') : Fill(i, s)' =>
                           Rest(fills(responses', s), i) + leaves(open, s) <= responses'[i].leaves_qty_
    BY <1>2 DEF SumInv
  <2>1. /\ inFlight(s) <= IF Alive(s) THEN Qty(s) ELSE 0
        /\ \A i \in 1 .. n : Fill(i, s) =>
             Rest(fills(responses, s), i) + leaves(open, s) <= responses[i].leaves_qty_
    BY <1>0, <1>1 DEF SumInv
  <2>2. \A i \in 1 .. Len(responses') : Fill(i, s)' =>
          Rest(fills(responses', s), i) + leaves(open, s) <= responses'[i].leaves_qty_
    BY <2>1, <1>3, <1>5, <1>8
  <2>3. CASE ~Mine(1, s)
    <3>1. inFlight(s)' = inFlight(s)
      BY <2>3, <1>8, <1>9, <1>13
    <3> QED BY <3>1, <2>1, <2>2, <2>3, <1>13
  <2>4. CASE Mine(1, s) /\ h.type_ = "ACCEPTED"
    <3>1. inFlight(s)' = inFlight(s)
      BY <2>4, <1>8, <1>9, <1>15
    <3> QED BY <3>1, <2>1, <2>2, <2>4, <1>14, <1>15
  <2>5. CASE Fill(1, s)
    <3>1. Mine(1, s)
      BY <2>5 DEF Fill, Mine
    <3>2. Total(fills(responses', s)) + leaves(open, s) <= h.leaves_qty_
      BY <2>1, <2>5, <1>3, <1>8
    <3>3. inFlight(s)' <= h.leaves_qty_
      BY <3>1, <3>2, <1>9, <1>14
    <3>4. h.leaves_qty_ = Qty(s)' /\ (~Alive(s)' => h.leaves_qty_ = 0)
      BY <3>1, <2>5, <1>14, <1>17
    <3> QED BY <3>3, <3>4, <2>2
  <2>6. CASE Mine(1, s) /\ h.type_ = "CANCELED"
    <3>0. Ends(1, s)
      BY <2>6, <1>3 DEF Ends
    <3>1. Total(fills(responses', s)) = 0
      <4>1. fills(responses', s) \in Seq(Int) /\ Len(fills(responses', s)) = Len(responses')
        BY <1>3, FillsType
      <4>2. \A i \in 1 .. Len(responses') : ~Fill(i, s)'
        BY <3>0, <1>3, <1>5, <1>16 DEF Fill, Mine
      <4>3. \A i \in 1 .. Len(responses') : fills(responses', s)[i] = 0
        BY <4>2 DEF fills, Fill
      <4> QED BY <4>1, <4>3, TotalZero
    <3>2. leaves(open, s) = 0
      BY <3>0, <1>16, LeavesNone
    <3>3. inFlight(s)' = 0 /\ ~Alive(s)'
      BY <3>0, <3>1, <3>2, <2>6, <1>9, <1>14, <1>16
    <3> QED BY <3>3, <2>2
  <2> QED BY <2>3, <2>4, <2>5, <2>6, <1>18
<1>28. LimitInv'
  <2>0. "BUY" \in Side /\ "SELL" \in Side
    BY DEF Side
  <2>1. \A s \in Side : Qty(s) \in Nat /\ Qty(s)' \in Nat
    BY <1>1, <1>12, <1>19 DEF TypeOK, OMOrder, Qty
  <2>2. CASE h.type_ # "FILLED"
    <3>1. position_' = position_
      BY <2>2, <1>3 DEF onOrderUpdate
    <3>2. \A s \in Side : Alive(s)' => Alive(s) /\ Qty(s)' = Qty(s)
      BY <2>2, <1>3, <1>13, <1>15, <1>32 DEF Fill
    <3> QED BY <3>1, <3>2, <2>0, <1>1 DEF LimitInv
  <2>3. CASE h.type_ = "FILLED" /\ h.side_ = "BUY"
    <3>0. Fill(1, "BUY") /\ Mine(1, "BUY") /\ ~Mine(1, "SELL")
      BY <2>3, <1>3 DEF Fill, Mine
    <3>1. position_' = position_ + h.exec_qty_
      <4>1. position_' = position_ + sideToValue(h.side_) * h.exec_qty_
        BY <2>3, <1>3 DEF onOrderUpdate
      <4>2. h.exec_qty_ \in Int
        BY <3>0, <2>0, <1>17
      <4> QED BY <4>1, <4>2, <2>3, <1>12 DEF sideToValue
    <3>2. /\ Alive("BUY") /\ Qty("BUY")' = h.leaves_qty_ /\ h.exec_qty_ + h.leaves_qty_ <= Qty("BUY")
          /\ h.exec_qty_ \in Nat /\ h.leaves_qty_ \in Nat
      BY <3>0, <2>0, <1>12, <1>14, <1>17
    <3>3. (Alive("SELL")' <=> Alive("SELL")) /\ Qty("SELL")' = Qty("SELL")
      BY <3>0, <2>0, <1>13
    <3>4. position_ + Qty("BUY") <= MaxPosition /\ -MaxPosition <= position_
      BY <3>2, <1>1 DEF LimitInv
    <3>5. Alive("SELL") => -MaxPosition <= position_ - Qty("SELL")
      BY <1>1 DEF LimitInv
    <3>6. position_' <= MaxPosition /\ -MaxPosition <= position_' /\ position_' + Qty("BUY")' <= MaxPosition
      BY <3>1, <3>2, <3>4, <2>0, <2>1, <1>12
    <3>7. Alive("SELL")' => -MaxPosition <= position_' - Qty("SELL")'
      BY <3>1, <3>2, <3>3, <3>5, <2>0, <2>1, <1>12
    <3> QED BY <3>6, <3>7 DEF LimitInv
  <2>4. CASE h.type_ = "FILLED" /\ h.side_ = "SELL"
    <3>0. Fill(1, "SELL") /\ Mine(1, "SELL") /\ ~Mine(1, "BUY")
      BY <2>4, <1>3 DEF Fill, Mine
    <3>1. position_' = position_ - h.exec_qty_
      <4>1. position_' = position_ + sideToValue(h.side_) * h.exec_qty_
        BY <2>4, <1>3 DEF onOrderUpdate
      <4>2. h.exec_qty_ \in Int
        BY <3>0, <2>0, <1>17
      <4>3. sideToValue(h.side_) = -1
        BY <2>4 DEF sideToValue
      <4> QED BY <4>1, <4>2, <4>3, <1>12
    <3>2. /\ Alive("SELL") /\ Qty("SELL")' = h.leaves_qty_ /\ h.exec_qty_ + h.leaves_qty_ <= Qty("SELL")
          /\ h.exec_qty_ \in Nat /\ h.leaves_qty_ \in Nat
      BY <3>0, <2>0, <1>12, <1>14, <1>17
    <3>3. (Alive("BUY")' <=> Alive("BUY")) /\ Qty("BUY")' = Qty("BUY")
      BY <3>0, <2>0, <1>13
    <3>4. -MaxPosition <= position_ - Qty("SELL") /\ position_ <= MaxPosition
      BY <3>2, <1>1 DEF LimitInv
    <3>5. Alive("BUY") => position_ + Qty("BUY") <= MaxPosition
      BY <1>1 DEF LimitInv
    <3>6. position_' <= MaxPosition /\ -MaxPosition <= position_' /\ -MaxPosition <= position_' - Qty("SELL")'
      BY <3>1, <3>2, <3>4, <2>0, <2>1, <1>12
    <3>7. Alive("BUY")' => position_' + Qty("BUY")' <= MaxPosition
      BY <3>1, <3>2, <3>3, <3>5, <2>0, <2>1, <1>12
    <3> QED BY <3>6, <3>7 DEF LimitInv
  <2>5. h.type_ = "FILLED" => h.side_ = "BUY" \/ h.side_ = "SELL"
    BY <1>3 DEF Response, Side
  <2> QED BY <2>2, <2>3, <2>4, <2>5
<1> QED BY <1>19, <1>20, <1>21, <1>22, <1>23, <1>24, <1>25, <1>26, <1>27, <1>28 DEF IInv

-----------------------------------------------------------------------------
(* The invariant holds in every state *)

(* A client that has sent nothing fits. *)
LEMMA InitInv == Init => IInv
<1> SUFFICES ASSUME Init PROVE IInv
  OBVIOUS
<1>1. /\ requests = << >> /\ responses = << >> /\ open = {} /\ position_ = 0 /\ next_order_id_ = 1
      /\ algo \in Algos
      /\ ticker_side_order_ = [s \in Side |-> [order_id_ |-> 0, price_ |-> Price_INVALID,
                                               qty_ |-> 0, order_state_ |-> "INVALID"]]
  BY DEF Init
<1>2. Clip \in Nat /\ MaxOrders \in Nat /\ MaxPosition \in Nat
  BY ClipAssumption, MaxOrdersAssumption, LimitsAssumption
<1>3. \A s \in Side : Id(s) = 0 /\ OrderState(s) = "INVALID" /\ ~Alive(s) /\ Qty(s) = 0
  BY <1>1 DEF Id, Qty, OrderState, Alive
<1>4. TypeOK
  <2>1. [order_id_ |-> 0, price_ |-> Price_INVALID, qty_ |-> 0, order_state_ |-> "INVALID"] \in OMOrder
    BY <1>2 DEF OMOrder, OMOrderState
  <2>2. ticker_side_order_ \in [Side -> OMOrder]
    BY <1>1, <2>1
  <2>3. requests \in Seq(Request) /\ responses \in Seq(Response)
    BY <1>1
  <2> QED BY <1>1, <1>2, <2>2, <2>3 DEF TypeOK
<1>5. SlotsInv
  BY <1>1, <1>3 DEF SlotsInv, Side
<1>6. Len(requests) = 0 /\ Len(responses) = 0
  BY <1>1
<1>7. OpenInv /\ NewInv /\ CancelInv /\ ResponseInv /\ QuantityInv
  BY <1>1, <1>6 DEF OpenInv, NewInv, CancelInv, ResponseInv, QuantityInv
<1>8. WaitInv
  BY <1>3 DEF WaitInv
<1>9. SumInv
  <2>1. ASSUME NEW s \in Side PROVE inFlight(s) = 0
    <3>1. fills(responses, s) = << >> /\ news(requests, s) = << >>
      BY <1>6 DEF fills, news
    <3>2. leaves(open, s) = 0
      BY <1>1, LeavesNone
    <3> QED BY <3>1, <3>2, TotalEmpty DEF inFlight
  <2> QED BY <2>1, <1>3, <1>6 DEF SumInv
<1>10. LimitInv
  BY <1>1, <1>2, <1>3 DEF LimitInv, Side
<1> QED BY <1>4, <1>5, <1>7, <1>8, <1>9, <1>10 DEF IInv

(* A step that changes nothing. *)
LEMMA UnchangedInv ==
  ASSUME IInv, UNCHANGED vars
  PROVE  IInv'
<1>1. /\ algo' = algo /\ ticker_side_order_' = ticker_side_order_
      /\ next_order_id_' = next_order_id_ /\ position_' = position_
      /\ requests' = requests /\ responses' = responses /\ open' = open
  BY DEF vars
<1>2. /\ \A s : Id(s)' = Id(s) /\ Qty(s)' = Qty(s) /\ OrderState(s)' = OrderState(s) /\ (Alive(s)' <=> Alive(s))
      /\ \A s : inFlight(s)' = inFlight(s)
      /\ \A i, s : /\ (Mine(i, s)' <=> Mine(i, s)) /\ (Fill(i, s)' <=> Fill(i, s))
                   /\ (Ends(i, s)' <=> Ends(i, s)) /\ (New(i, s)' <=> New(i, s))
                   /\ (Cancel(i, s)' <=> Cancel(i, s))
  BY <1>1 DEF Id, Qty, OrderState, Alive, Mine, Fill, Ends, New, Cancel, inFlight
<1>3. TypeOK' /\ SlotsInv' /\ OpenInv' /\ LimitInv'
  BY <1>1, <1>2 DEF IInv, TypeOK, SlotsInv, OpenInv, LimitInv
<1>4. NewInv' /\ CancelInv'
  BY <1>1, <1>2 DEF IInv, NewInv, CancelInv
<1>5. ResponseInv' /\ WaitInv'
  BY <1>1, <1>2 DEF IInv, ResponseInv, WaitInv
<1>6. QuantityInv' /\ SumInv'
  BY <1>1, <1>2 DEF IInv, QuantityInv, SumInv
<1> QED BY <1>3, <1>4, <1>5, <1>6 DEF IInv

(* Every call a strategy makes keeps the invariant. *)
LEMMA MoveOrdersInv ==
  ASSUME IInv, NEW bid \in Prices \cup {Price_INVALID}, NEW ask \in Prices \cup {Price_INVALID},
         NEW loss \in BOOLEAN, moveOrders(bid, ask, loss)
  PROVE  IInv'
<1>1. TypeOK
  BY DEF IInv
<1>2. PICK opens, cancels, id, price : Moves(opens, cancels, id, price)
  BY <1>1, MoveOrdersMoves
<1> QED BY <1>2, MoveStep

(* Every step of the client and of the exchange keeps the invariant. *)
LEMMA NextInv == IInv /\ [Next]_vars => IInv'
<1> SUFFICES ASSUME IInv, [Next]_vars PROVE IInv'
  OBVIOUS
<1>1. ASSUME NEW bid_price \in Prices, NEW ask_price \in Prices, MarketMaker(bid_price, ask_price)
      PROVE  IInv'
  <2>1. PICK loss \in BOOLEAN : moveOrders(bid_price, ask_price, loss)
    BY <1>1 DEF MarketMaker
  <2> QED BY <2>1, MoveOrdersInv
<1>2. ASSUME NEW side \in Side, NEW price \in Prices, LiquidityTaker(side, price)
      PROVE  IInv'
  <2>1. PICK loss \in BOOLEAN :
          IF side = "BUY" THEN moveOrders(price, Price_INVALID, loss)
                          ELSE moveOrders(Price_INVALID, price, loss)
    BY <1>2 DEF LiquidityTaker
  <2>2. CASE side = "BUY"
    <3>1. moveOrders(price, Price_INVALID, loss)
      BY <2>1, <2>2
    <3> QED BY <3>1, MoveOrdersInv
  <2>3. CASE side # "BUY"
    <3>1. moveOrders(Price_INVALID, price, loss)
      BY <2>1, <2>3
    <3> QED BY <3>1, MoveOrdersInv
  <2> QED BY <2>2, <2>3
<1>3. CASE onOrderUpdate
  BY <1>3, UpdateStep
<1>4. CASE ExchangeNew
  BY <1>4, NewStep
<1>5. ASSUME NEW order \in open, NEW fill \in 1 .. Clip, ExchangeFill(order, fill) \/ SimulatorFill(order, fill)
      PROVE  IInv'
  <2>0. order.leaves_ \in 1 .. Clip /\ Clip \in Nat
    BY ClipAssumption DEF IInv, TypeOK
  <2>1. CASE ExchangeFill(order, fill)
    <3>1. PICK rest : rest = order.leaves_ - fill
      OBVIOUS
    <3>2. rest \in 0 .. Clip /\ fill + rest <= order.leaves_
      BY <2>0, <2>1, <3>1 DEF ExchangeFill
    <3>3. /\ open' = (open \ {order}) \cup
                       (IF rest = 0 THEN {} ELSE {[order EXCEPT !.leaves_ = rest]})
          /\ respondFilled(order, fill, rest)
          /\ UNCHANGED <<algo, ticker_side_order_, next_order_id_, position_, requests>>
      BY <2>1, <3>1 DEF ExchangeFill
    <3> QED BY <3>2, <3>3, FillStep
  <2>2. CASE SimulatorFill(order, fill)
    <3>1. 0 \in 0 .. Clip /\ fill + 0 <= order.leaves_
      BY <2>0, <2>2 DEF SimulatorFill
    <3>2. /\ open' = (open \ {order}) \cup
                       (IF 0 = 0 THEN {} ELSE {[order EXCEPT !.leaves_ = 0]})
          /\ respondFilled(order, fill, 0)
          /\ UNCHANGED <<algo, ticker_side_order_, next_order_id_, position_, requests>>
      BY <2>2 DEF SimulatorFill
    <3> QED BY <3>1, <3>2, FillStep
  <2> QED BY <1>5, <2>1, <2>2
<1>6. CASE ExchangeCancel
  BY <1>6, CancelStep
<1>7. CASE UNCHANGED vars
  BY <1>7, UnchangedInv
<1> QED BY <1>1, <1>2, <1>3, <1>4, <1>5, <1>6, <1>7 DEF Next, Strategy, Exchange

(* The inductive invariant holds in every state of every behaviour of the  *)
(* client and the exchange, whatever the clip, the limits and the number   *)
(* of orders: slots, requests, open orders and responses always fit.       *)
THEOREM InductiveInvariant == Spec => []IInv
<1>1. Init => IInv
  BY InitInv
<1>2. IInv /\ [Next]_vars => IInv'
  BY NextInv
<1> QED BY <1>1, <1>2, PTL DEF Spec

(* Type correctness: in particular OrderManager's slots and every message  *)
(* hold quantities between 0 and the clip, so no Qty wraps below zero.     *)
THEOREM TypeCorrect == Spec => []TypeOK
<1>1. IInv => TypeOK
  BY DEF IInv
<1> QED BY <1>1, InductiveInvariant, PTL

(* OrderManager::onOrderUpdate finds its order by the side of the response *)
(* alone; every response under way is about the order now in that slot.    *)
THEOREM NoStale == Spec => []NoStaleResponse
<1>1. IInv => NoStaleResponse
  <2> SUFFICES ASSUME IInv, NEW i \in DOMAIN responses, responses[i].type_ # "CANCEL_REJECTED"
               PROVE  responses[i].order_id_ = ticker_side_order_[responses[i].side_].order_id_
    BY DEF NoStaleResponse
  <2>1. responses \in Seq(Response) /\ i \in 1 .. Len(responses) /\ responses[i] \in Response
    BY DEF IInv, TypeOK
  <2>2. responses[i].side_ \in Side
    BY <2>1 DEF Response
  <2>3. Mine(i, responses[i].side_)
    BY DEF Mine
  <2> QED BY <2>1, <2>2, <2>3 DEF IInv, ResponseInv, Id
<1> QED BY <1>1, InductiveInvariant, PTL

(* Once every request is handled and every response read, the slots of     *)
(* OrderManager and the exchange's book agree about the client's orders.   *)
THEOREM Agreement == Spec => []QuiescentAgreement
<1>1. IInv => QuiescentAgreement
  <2> SUFFICES ASSUME IInv, requests = << >>, responses = << >>, NEW s \in Side
               PROVE
        IF ticker_side_order_[s].order_state_ = "LIVE"
        THEN {o \in open : o.side_ = s} =
               {[order_id_ |-> ticker_side_order_[s].order_id_, side_ |-> s,
                 leaves_ |-> ticker_side_order_[s].qty_]}
        ELSE {o \in open : o.side_ = s} = {} /\ ticker_side_order_[s].order_state_ \in {"INVALID", "DEAD"}
    BY DEF QuiescentAgreement
  <2>1. Len(requests) = 0 /\ Len(responses) = 0
    OBVIOUS
  <2>2. ticker_side_order_[s] \in OMOrder
    BY DEF IInv, TypeOK
  <2>3. OrderState(s) # "PENDING_NEW" /\ OrderState(s) # "PENDING_CANCEL"
        /\ (Alive(s) => \E o \in open : o.side_ = s)
    BY <2>1 DEF IInv, WaitInv
  <2>4. OrderState(s) \in OMOrderState
    BY <2>2 DEF OMOrder, OrderState
  <2>5. CASE OrderState(s) = "LIVE"
    <3>1. PICK x \in open : x.side_ = s
      BY <2>3, <2>5 DEF Alive
    <3>2. \A o \in open : o.side_ = s => o = x
      BY <3>1 DEF IInv, OpenInv
    <3>3. x.order_id_ = Id(s) /\ x.leaves_ = Qty(s)
      BY <2>1, <3>1 DEF IInv, OpenInv, QuantityInv
    <3>4. x = [order_id_ |-> ticker_side_order_[s].order_id_, side_ |-> s,
               leaves_ |-> ticker_side_order_[s].qty_]
      <4>1. x \in [order_id_ : 1 .. MaxOrders, side_ : Side, leaves_ : 1 .. Clip]
        BY <3>1 DEF IInv, TypeOK
      <4> QED BY <3>1, <3>3, <4>1 DEF Id, Qty
    <3> QED BY <2>5, <3>1, <3>2, <3>4 DEF OrderState
  <2>6. CASE OrderState(s) # "LIVE"
    <3>1. OrderState(s) \in {"INVALID", "DEAD"} /\ ~Alive(s)
      BY <2>3, <2>4, <2>6 DEF OMOrderState, Alive
    <3>2. \A o \in open : o.side_ # s
      BY <3>1 DEF IInv, OpenInv
    <3> QED BY <2>6, <3>1, <3>2 DEF OrderState
  <2> QED BY <2>5, <2>6
<1> QED BY <1>1, InductiveInvariant, PTL

(* RiskManager::checkPreTradeRisk sees one order and a lagging position;   *)
(* the position stays within max_position_ even if all in flight trades.   *)
THEOREM Exposure == Spec => []ExposureWithinLimit
<1>1. IInv => ExposureWithinLimit
  <2> SUFFICES ASSUME IInv PROVE ExposureWithinLimit
    OBVIOUS
  <2>0. "BUY" \in Side /\ "SELL" \in Side /\ TypeOK /\ OpenInv
    BY DEF Side, IInv
  <2>1. /\ inFlight("BUY") \in Int /\ inFlight("SELL") \in Int
        /\ position_ \in Int /\ MaxPosition \in Nat
    BY <2>0, InFlightType, LimitsAssumption DEF TypeOK
  <2>2. /\ inFlight("BUY") <= IF Alive("BUY") THEN Qty("BUY") ELSE 0
        /\ inFlight("SELL") <= IF Alive("SELL") THEN Qty("SELL") ELSE 0
    BY <2>0 DEF IInv, SumInv
  <2>3. Qty("BUY") \in Int /\ Qty("SELL") \in Int
    BY <2>0, ClipAssumption DEF TypeOK, OMOrder, Qty
  <2>4. LimitInv
    BY DEF IInv
  <2> QED BY <2>1, <2>2, <2>3, <2>4 DEF LimitInv, ExposureWithinLimit
<1> QED BY <1>1, InductiveInvariant, PTL

-----------------------------------------------------------------------------
(* Backtests *)

PendingOrder == [side_ : Side, price_ : Prices, leaves_qty : 1 .. Clip, bbo_at_submit : BBOs,
                 queue_ahead_qty : Nat, priority_watermark : Nat, queue_aware : BOOLEAN]
LevelRecord == [queue : Nat, shown : BOOLEAN, mark : Nat, gone : Nat, later : Nat, filled : Nat]

(* The types of FillSimulator's members, and what step 3 of run() holds. *)
SimTyped ==
  /\ bbo \in BBOs
  /\ \A id \in DOMAIN pending_ : pending_[id] \in PendingOrder
  /\ global_priority_watermark_ \in Nat
  /\ \A id \in DOMAIN level : level[id] \in LevelRecord
  /\ todo \subseteq DOMAIN pending_
  /\ sim = "orders" => cur \in BBOs
  /\ sim # "orders" => todo = {}

(* What rested ahead of an order, as far as the BBO showed it. *)
Shown(v) == IF v.shown THEN v.queue ELSE 0

(* An order of pending_ and what has happened at its price: what is gone   *)
(* of the queue ahead, and the fills, have traded or left there, and there *)
(* is no fill while something is ahead.                                    *)
BehindQueue(po, v) ==
  /\ po.priority_watermark = v.mark
  /\ Shown(v) <= po.queue_ahead_qty + v.gone
  /\ v.filled + Shown(v) <= po.queue_ahead_qty + v.gone + v.later
  /\ v.filled > 0 => po.queue_ahead_qty = 0

Behind(v) == v.filled > 0 => Shown(v) <= v.gone /\ v.filled + Shown(v) <= v.gone + v.later

QueueInv ==
  \A id \in DOMAIN level :
    /\ Behind(level[id])
    /\ id \in DOMAIN pending_ /\ pending_[id].queue_aware => BehindQueue(pending_[id], level[id])

(* The inductive invariant. *)
BtInv ==
  /\ IInv
  /\ open = pendingOrders
  /\ SimTyped
  /\ QueueInv

(* A step that is one of OrderManager's, or leaves it alone, and keeps the *)
(* rest of the invariant.                                                  *)
Refines == [Next]_vars /\ SimTyped' /\ QueueInv'

-----------------------------------------------------------------------------
(* The end of a backtest *)

(* The code's 20 polls and 100 ms: one poll and two rounds are enough. *)
EnoughRounds == IdlePolls >= 1 /\ Rounds >= 2

(* Nothing is left to be read by which the client or the market could act. *)
Drained == rows = 0 /\ md = 0 /\ requests = << >> /\ sim_md = 0

(* These orders were tried against the last BBO. *)
Settled(ids) == \A id \in ids : pending_[id].bbo_at_submit = bbo

(* Every round that began in this sleep used the last BBO. *)
RoundOfLastBBO == sim = "orders" => cur = bbo /\ Settled(DOMAIN pending_ \ todo)

(* The counters, and when main() has left the replay or a poll. *)
MainTyped ==
  /\ rows \in Nat /\ md \in Nat /\ sim_md \in Nat /\ rounds \in Nat /\ idle_iters \in Nat
  /\ main \in {"replay", "sizes", "sleep", "te_stop", "te_clear", "done"}
  /\ main # "replay" => rows = 0
  /\ main \in {"replay", "sleep"} => read = 0 /\ busy = FALSE

(* A poll that has found the queues empty so far: none can fill again. *)
PollInv ==
  main = "sizes" =>
    /\ read \in 0 .. 4
    /\ ~busy => /\ read >= 1 => md = 0
                /\ read >= 2 => requests = << >>
                /\ read >= 4 => sim_md = 0

(* The sleep after an idle poll. *)
SleepInv ==
  main = "sleep" /\ idle_iters >= 1 =>
    /\ Drained
    /\ rounds >= 1 => RoundOfLastBBO
    /\ rounds >= 2 => Settled(DOMAIN pending_)

(* TradeEngine::stop and after. *)
StopInv ==
  /\ main \in {"te_stop", "te_clear", "done"} =>
       Drained /\ RoundOfLastBBO /\ Settled(DOMAIN pending_)
  /\ main \in {"te_clear", "done"} => responses = << >>

(* What leads to a complete end, on top of BtInv. *)
MainInv == MainTyped /\ PollInv /\ SleepInv /\ StopInv

-----------------------------------------------------------------------------
(* The orders of pending_ as the client's exchange has them *)

(* pendingOrders of any table of orders. *)
OrderOf(P, id) == [order_id_ |-> id, side_ |-> P[id].side_, leaves_ |-> P[id].leaves_qty]
OrdersOf(P) == {OrderOf(P, id) : id \in DOMAIN P}

(* pendingOrders before and after a step. *)
LEMMA PendingOrdersOf ==
  pendingOrders = OrdersOf(pending_) /\ pendingOrders' = OrdersOf(pending_')
BY DEF pendingOrders, OrdersOf, OrderOf

(* One order more. *)
LEMMA OrdersAdd ==
  ASSUME NEW P, NEW x, x \notin DOMAIN P, NEW r, NEW R,
         R = [id \in DOMAIN P \cup {x} |-> IF id \in DOMAIN P THEN P[id] ELSE r]
  PROVE  OrdersOf(R) = OrdersOf(P) \cup {[order_id_ |-> x, side_ |-> r.side_, leaves_ |-> r.leaves_qty]}
<1>1. DOMAIN R = DOMAIN P \cup {x} /\ R[x] = r /\ \A id \in DOMAIN P : R[id] = P[id]
  OBVIOUS
<1>2. \A id \in DOMAIN P : OrderOf(R, id) = OrderOf(P, id)
  BY <1>1 DEF OrderOf
<1>3. OrderOf(R, x) = [order_id_ |-> x, side_ |-> r.side_, leaves_ |-> r.leaves_qty]
  BY <1>1 DEF OrderOf
<1> HIDE DEF OrderOf
<1> QED BY <1>1, <1>2, <1>3 DEF OrdersOf

(* Some orders less. *)
LEMMA OrdersWithout ==
  ASSUME NEW P, NEW ids
  PROVE  OrdersOf(Without(P, ids)) = {o \in OrdersOf(P) : o.order_id_ \notin ids}
<1> DEFINE R == Without(P, ids)
<1>1. DOMAIN R = DOMAIN P \ ids /\ \A id \in DOMAIN R : R[id] = P[id]
  BY DEF Without
<1> HIDE DEF R
<1>2. \A id \in DOMAIN R : OrderOf(R, id) = OrderOf(P, id)
  BY <1>1 DEF OrderOf
<1>3. \A id : OrderOf(P, id).order_id_ = id
  BY DEF OrderOf
<1>4. OrdersOf(R) = {o \in OrdersOf(P) : o.order_id_ \notin ids}
  BY <1>1, <1>2, <1>3 DEF OrdersOf
<1> QED BY <1>4 DEF R

(* Other fields change. *)
LEMMA OrdersSame ==
  ASSUME NEW P, NEW R, DOMAIN R = DOMAIN P,
         \A id \in DOMAIN P : R[id].side_ = P[id].side_ /\ R[id].leaves_qty = P[id].leaves_qty
  PROVE  OrdersOf(R) = OrdersOf(P)
<1>1. \A id \in DOMAIN P : OrderOf(R, id) = OrderOf(P, id)
  BY DEF OrderOf
<1> QED BY <1>1 DEF OrdersOf

(* One order leaves the table. *)
LEMMA OrdersDrop ==
  ASSUME NEW P, NEW R, NEW x \in DOMAIN P, DOMAIN R = DOMAIN P \ {x},
         \A id \in DOMAIN R : R[id].side_ = P[id].side_ /\ R[id].leaves_qty = P[id].leaves_qty
  PROVE  OrdersOf(R) = OrdersOf(P) \ {OrderOf(P, x)}
<1>1. \A id \in DOMAIN R : OrderOf(R, id) = OrderOf(P, id)
  BY DEF OrderOf
<1>2. \A id : OrderOf(P, id).order_id_ = id
  BY DEF OrderOf
<1> QED BY <1>1, <1>2 DEF OrdersOf

(* One order has another quantity left. *)
LEMMA OrdersReplace ==
  ASSUME NEW P, NEW R, NEW x \in DOMAIN P, DOMAIN R = DOMAIN P, R[x].side_ = P[x].side_,
         \A id \in DOMAIN P \ {x} :
           R[id].side_ = P[id].side_ /\ R[id].leaves_qty = P[id].leaves_qty
  PROVE  OrdersOf(R) = (OrdersOf(P) \ {OrderOf(P, x)})
                          \cup {[OrderOf(P, x) EXCEPT !.leaves_ = R[x].leaves_qty]}
<1>1. \A id \in DOMAIN R \ {x} : OrderOf(R, id) = OrderOf(P, id)
  BY DEF OrderOf
<1>2. \A id : OrderOf(P, id).order_id_ = id
  BY DEF OrderOf
<1>3. OrderOf(R, x) = [OrderOf(P, x) EXCEPT !.leaves_ = R[x].leaves_qty]
  BY DEF OrderOf
<1> QED BY <1>1, <1>2, <1>3 DEF OrdersOf

(* An order of pending_ is open at the exchange. *)
LEMMA PendingOpen ==
  ASSUME BtInv, NEW id \in DOMAIN pending_
  PROVE  /\ OrderOf(pending_, id) \in open
         /\ id = Id(pending_[id].side_) /\ Alive(pending_[id].side_)
         /\ pending_[id] \in PendingOrder /\ id \in 1 .. MaxOrders
<1>1. OrderOf(pending_, id) \in open
  BY PendingOrdersOf DEF BtInv, OrdersOf
<1>2. /\ OrderOf(pending_, id).order_id_ = id
      /\ OrderOf(pending_, id).side_ = pending_[id].side_
  BY DEF OrderOf
<1>3. id = Id(pending_[id].side_) /\ Alive(pending_[id].side_)
  BY <1>1, <1>2 DEF BtInv, IInv, OpenInv
<1>4. id \in 1 .. MaxOrders
  BY <1>1, <1>2 DEF BtInv, IInv, TypeOK
<1> QED BY <1>1, <1>3, <1>4 DEF BtInv, SimTyped

(* The client has one order per side. *)
LEMMA OnePending ==
  ASSUME BtInv, NEW id \in DOMAIN pending_, NEW jd \in DOMAIN pending_,
         pending_[id].side_ = pending_[jd].side_
  PROVE  id = jd
BY PendingOpen

(* Only orders of the table are open. *)
LEMMA OpenPending ==
  ASSUME BtInv, NEW o \in open
  PROVE  o.order_id_ \in DOMAIN pending_ /\ o = OrderOf(pending_, o.order_id_)
<1>1. PICK id \in DOMAIN pending_ : o = OrderOf(pending_, id)
  BY PendingOrdersOf DEF BtInv, OrdersOf
<1>2. o.order_id_ = id
  BY <1>1 DEF OrderOf
<1> QED BY <1>1, <1>2
-----------------------------------------------------------------------------
(* FillSimulator's steps are steps of the exchange.  The quantities and    *)
(* ids involved are those BtInv allows.                                    *)

(* A NEW finds its id free. *)
LEMMA NewIdFree ==
  ASSUME BtInv, requests # << >>, Head(requests).type_ = "NEW"
  PROVE  /\ Head(requests) \in Request
         /\ Head(requests).order_id_ \notin DOMAIN pending_
         /\ Head(requests).qty_ \in 1 .. Clip
<1>1. requests \in Seq(Request) /\ ticker_side_order_ \in [Side -> OMOrder]
  BY DEF BtInv, IInv, TypeOK
<1>2. Head(requests) = requests[1] /\ requests[1] \in Request /\ 1 \in 1 .. Len(requests)
  BY <1>1
<1> DEFINE r == requests[1]
           s == r.side_
<1>3. s \in Side /\ r.order_id_ \in 1 .. MaxOrders /\ r.qty_ \in 0 .. Clip
  BY <1>2 DEF Request
<1>4. New(1, s)
  BY <1>2 DEF New
<1>5. /\ r.order_id_ = Id(s) /\ r.qty_ = Qty(s) /\ OrderState(s) = "PENDING_NEW"
      /\ \A o \in open : o.side_ # s
  BY <1>2, <1>3, <1>4 DEF BtInv, IInv, NewInv
<1>6. Alive(s) /\ Qty(s) # 0
  BY <1>3, <1>5 DEF Alive, BtInv, IInv, SlotsInv
<1>7. r.order_id_ \notin DOMAIN pending_
  <2> SUFFICES ASSUME r.order_id_ \in DOMAIN pending_ PROVE FALSE
    OBVIOUS
  <2> DEFINE t == pending_[r.order_id_].side_
  <2>1. /\ OrderOf(pending_, r.order_id_) \in open /\ r.order_id_ = Id(t)
        /\ pending_[r.order_id_] \in PendingOrder
    BY PendingOpen
  <2>2. OrderOf(pending_, r.order_id_).side_ = t
    BY DEF OrderOf
  <2>3. t # s /\ t \in Side
    BY <2>1, <2>2, <1>5 DEF PendingOrder
  <2>4. Id("BUY") = Id("SELL") /\ Id("BUY") # 0
    BY <2>1, <2>3, <1>3, <1>5 DEF Side
  <2> QED BY <2>4 DEF BtInv, IInv, SlotsInv
<1> QED BY <1>2, <1>3, <1>5, <1>6, <1>7

(* Step 1 of run(), a NEW: the order is accepted and open. *)
LEMMA NewRequestStep ==
  ASSUME BtInv, NewRequest, UNCHANGED clientVars, open' = pendingOrders'
  PROVE  Refines
<1> DEFINE r == Head(requests)
           po == [side_ |-> r.side_, price_ |-> r.price_, leaves_qty |-> r.qty_,
                  bbo_at_submit |-> bbo, queue_ahead_qty |-> 0,
                  priority_watermark |-> 0, queue_aware |-> FALSE]
<1>1. /\ requests # << >> /\ r.type_ = "NEW" /\ sim = "requests"
      /\ responses' = Append(responses, [type_ |-> "ACCEPTED", order_id_ |-> r.order_id_,
                                         side_ |-> r.side_])
      /\ pending_' = [id \in DOMAIN pending_ \cup {r.order_id_} |->
                         IF id \in DOMAIN pending_ THEN pending_[id] ELSE po]
      /\ requests' = Tail(requests)
      /\ UNCHANGED <<bbo, mode_, global_priority_watermark_, sim_run_, sim, cur, todo, level>>
  BY Zenon DEF NewRequest
<1>2. r \in Request /\ r.order_id_ \notin DOMAIN pending_ /\ r.qty_ \in 1 .. Clip
  BY <1>1, NewIdFree
<1>3. open' = open \cup {[order_id_ |-> r.order_id_, side_ |-> r.side_, leaves_ |-> r.qty_]}
  <2>1. po.side_ = r.side_ /\ po.leaves_qty = r.qty_
    OBVIOUS
  <2>2. OrdersOf(pending_') = OrdersOf(pending_) \cup
          {[order_id_ |-> r.order_id_, side_ |-> po.side_, leaves_ |-> po.leaves_qty]}
    <3> HIDE DEF po, r
    <3>1. PICK R : R = pending_'
      OBVIOUS
    <3>2. R = [id \in DOMAIN pending_ \cup {r.order_id_} |->
                 IF id \in DOMAIN pending_ THEN pending_[id] ELSE po]
      BY <1>1, <3>1
    <3>3. OrdersOf(R) = OrdersOf(pending_) \cup
            {[order_id_ |-> r.order_id_, side_ |-> po.side_, leaves_ |-> po.leaves_qty]}
      BY <3>2, <1>2, OrdersAdd
    <3> QED BY <3>1, <3>3
  <2> HIDE DEF po, r
  <2> QED BY <2>1, <2>2, PendingOrdersOf DEF BtInv
<1>4. ExchangeNew
  BY <1>1, <1>3 DEF ExchangeNew, respond, clientVars
<1>5. [Next]_vars
  BY <1>4 DEF Next, Exchange
<1>6. /\ DOMAIN pending_' = DOMAIN pending_ \cup {r.order_id_}
      /\ \A id \in DOMAIN pending_ : pending_'[id] = pending_[id]
      /\ pending_'[r.order_id_] = po
  <2> HIDE DEF po, r
  <2> QED BY <1>1, <1>2
<1>7. po \in PendingOrder /\ po.queue_aware = FALSE
  BY <1>2 DEF PendingOrder, Request, BtInv, SimTyped
<1> HIDE DEF po, r
<1>8. SimTyped'
  BY <1>1, <1>6, <1>7 DEF BtInv, SimTyped
<1>9. QueueInv'
  BY <1>1, <1>6, <1>7 DEF BtInv, QueueInv
<1> QED BY <1>5, <1>8, <1>9 DEF Refines

(* Step 1 of run(), a CANCEL: in time or too late. *)
LEMMA CancelRequestStep ==
  ASSUME BtInv, CancelRequest, UNCHANGED clientVars, open' = pendingOrders'
  PROVE  Refines
<1> DEFINE r == Head(requests)
           target == {o \in open : o.order_id_ = r.order_id_}
<1>1. /\ requests # << >> /\ r.type_ = "CANCEL" /\ sim = "requests"
      /\ IF r.order_id_ \in DOMAIN pending_
         THEN responses' = Append(responses, [type_ |-> "CANCELED", order_id_ |-> r.order_id_,
                                              side_ |-> r.side_])
         ELSE responses' = Append(responses, [type_ |-> "CANCEL_REJECTED",
                                              order_id_ |-> r.order_id_])
      /\ pending_' = Without(pending_, {r.order_id_})
      /\ level' = Without(level, {r.order_id_})
      /\ requests' = Tail(requests)
      /\ UNCHANGED <<bbo, mode_, global_priority_watermark_, sim_run_, sim, cur, todo>>
  BY Zenon DEF CancelRequest, canceled
<1>2. open' = open \ target
  <2>1. OrdersOf(pending_') = {o \in OrdersOf(pending_) : o.order_id_ \notin {r.order_id_}}
    <3> HIDE DEF r
    <3> QED BY <1>1, OrdersWithout
  <2> QED BY <2>1, PendingOrdersOf DEF BtInv
<1>3. target = {} <=> r.order_id_ \notin DOMAIN pending_
  <2>1. ASSUME r.order_id_ \in DOMAIN pending_ PROVE target # {}
    <3>1. OrderOf(pending_, r.order_id_) \in open
      BY <2>1, PendingOpen
    <3>2. OrderOf(pending_, r.order_id_).order_id_ = r.order_id_
      BY DEF OrderOf
    <3> QED BY <3>1, <3>2
  <2>2. ASSUME NEW o \in target PROVE r.order_id_ \in DOMAIN pending_
    BY <2>2, OpenPending
  <2> QED BY <2>1, <2>2
<1>4. ExchangeCancel
  <2>1. /\ requests # << >> /\ Head(requests).type_ = "CANCEL" /\ requests' = Tail(requests)
        /\ UNCHANGED <<algo, ticker_side_order_, next_order_id_, position_>>
    BY <1>1 DEF clientVars
  <2>2. IF target = {}
        THEN responses' = Append(responses, [type_ |-> "CANCEL_REJECTED", order_id_ |-> r.order_id_])
        ELSE respond("CANCELED", r)
    BY <1>1, <1>3 DEF respond
  <2> QED BY <2>1, <2>2, <1>2, Zenon DEF ExchangeCancel
<1>5. [Next]_vars
  BY <1>4 DEF Next, Exchange
<1>6. /\ DOMAIN pending_' = DOMAIN pending_ \ {r.order_id_}
      /\ \A id \in DOMAIN pending_' : pending_'[id] = pending_[id]
      /\ DOMAIN level' = DOMAIN level \ {r.order_id_}
      /\ \A id \in DOMAIN level' : level'[id] = level[id]
  BY <1>1 DEF Without
<1> HIDE DEF r, target
<1>7. SimTyped'
  BY <1>1, <1>6 DEF BtInv, SimTyped
<1>8. QueueInv'
  BY <1>1, <1>6 DEF BtInv, QueueInv
<1> QED BY <1>5, <1>7, <1>8 DEF Refines

(* What an event takes of the queue ahead of an order, and of what came later. *)
Gone(po, ev) == IF ev.type_ \in {"TRADE", "CANCEL"} /\ ahead(po, ev) THEN ev.qty_ ELSE 0
Later(po, ev) == IF ev.type_ = "TRADE" /\ ~ahead(po, ev) THEN ev.qty_ ELSE 0

(* The quantities of one event: no fill while something is ahead, and      *)
(* never more than is left of the order.                                   *)
LEMMA EventQuantities ==
  ASSUME NEW po \in PendingOrder, NEW ev \in Events
  PROVE  /\ fill_qty(po, ev) \in 0 .. po.leaves_qty
         /\ queueAfter(po, ev) \in Nat
         /\ queueAfter(po, ev) <= po.queue_ahead_qty
         /\ fill_qty(po, ev) > 0 => queueAfter(po, ev) = 0
         /\ fill_qty(po, ev) + po.queue_ahead_qty <=
              queueAfter(po, ev) + Gone(po, ev) + Later(po, ev)
              \/ fill_qty(po, ev) = 0
         /\ po.queue_ahead_qty <= queueAfter(po, ev) + Gone(po, ev)
<1>1. po.leaves_qty \in 1 .. Clip /\ po.queue_ahead_qty \in Nat /\ Clip \in Nat
  BY ClipAssumption DEF PendingOrder
<1>2. ev.qty_ \in Nat
  BY EventsAssumption
<1>3. CASE ahead(po, ev)
  BY <1>1, <1>2, <1>3 DEF fill_qty, queueAfter, trade_left, Least, Gone, Later
<1>4. CASE ~ahead(po, ev)
  BY <1>1, <1>2, <1>4 DEF fill_qty, queueAfter, trade_left, Least, Gone, Later
<1> QED BY <1>3, <1>4

(* What one event does to an order of the table and to its record. *)
LEMMA EventBehind ==
  ASSUME NEW po \in PendingOrder, NEW ev \in Events, NEW v \in LevelRecord, BehindQueue(po, v),
         NEW w, w = witnessed(v, ev, fill_qty(po, ev)),
         NEW q, q = [po EXCEPT !.queue_ahead_qty = queueAfter(po, ev),
                               !.leaves_qty = po.leaves_qty - fill_qty(po, ev)]
  PROVE  w \in LevelRecord /\ BehindQueue(q, w) /\ Behind(w)
<1> DEFINE g == Gone(po, ev)
           l == Later(po, ev)
           f == fill_qty(po, ev)
           a == queueAfter(po, ev)
<1>1. g \in Nat /\ l \in Nat
  BY EventsAssumption DEF Gone, Later
<1>2. /\ f \in Nat /\ a \in Nat /\ a <= po.queue_ahead_qty /\ (f > 0 => a = 0)
      /\ (f + po.queue_ahead_qty <= a + g + l \/ f = 0)
      /\ po.queue_ahead_qty <= a + g
      /\ po.queue_ahead_qty \in Nat
  <2>1. po.leaves_qty \in Nat /\ po.queue_ahead_qty \in Nat
    BY ClipAssumption DEF PendingOrder
  <2> QED BY <2>1, EventQuantities
<1>3. v.queue \in Nat /\ v.gone \in Nat /\ v.later \in Nat /\ v.filled \in Nat /\ v.mark \in Nat
      /\ Shown(v) \in Nat
  BY DEF LevelRecord, Shown
<1>4. q.queue_ahead_qty = a /\ q.priority_watermark = po.priority_watermark
  BY DEF PendingOrder
<1>5. w = [v EXCEPT !.gone = v.gone + g, !.later = v.later + l, !.filled = v.filled + f]
  <2>1. g = IF ev.type_ \in {"TRADE", "CANCEL"} /\ ev.priority_ <= v.mark THEN ev.qty_ ELSE 0
    BY DEF Gone, ahead, BehindQueue
  <2>2. l = IF ev.type_ = "TRADE" /\ ev.priority_ > v.mark THEN ev.qty_ ELSE 0
    <3>1. po.priority_watermark = v.mark /\ ev.priority_ \in Nat /\ v.mark \in Nat
      BY <1>3, EventsAssumption DEF BehindQueue
    <3>2. ~(ev.priority_ <= po.priority_watermark) <=> ev.priority_ > v.mark
      BY <3>1
    <3> QED BY <3>2 DEF Later, ahead
  <2> QED BY <2>1, <2>2 DEF witnessed, LevelRecord
<1> HIDE DEF g, l, f, a
<1>6. PICK x \in Nat, y \in Nat, z \in Nat : x = v.gone + g /\ y = v.later + l /\ z = v.filled + f
  BY <1>1, <1>2, <1>3
<1>7. w = [v EXCEPT !.gone = x, !.later = y, !.filled = z]
  BY <1>5, <1>6
<1>8. w \in LevelRecord
  BY <1>7 DEF LevelRecord
<1>9. w.gone = x /\ w.later = y /\ w.filled = z /\ w.mark = v.mark /\ Shown(w) = Shown(v)
  BY <1>7 DEF LevelRecord, Shown
<1>10. BehindQueue(q, w)
  <2>1. /\ v.mark = po.priority_watermark /\ Shown(v) <= po.queue_ahead_qty + v.gone
        /\ v.filled + Shown(v) <= po.queue_ahead_qty + v.gone + v.later
        /\ v.filled > 0 => po.queue_ahead_qty = 0
    BY DEF BehindQueue
  <2>2. Shown(v) <= a + x /\ z + Shown(v) <= a + x + y /\ (z > 0 => a = 0)
    BY <2>1, <1>1, <1>2, <1>3, <1>6
  <2> QED BY <2>1, <2>2, <1>4, <1>9 DEF BehindQueue
<1>11. Behind(w)
  BY <1>2, <1>3, <1>4, <1>9, <1>10 DEF BehindQueue, Behind
<1> QED BY <1>8, <1>10, <1>11

(* The orders of no fill, or of one, come in one order only. *)
LEMMA FewSeqs ==
  /\ \A f \in SetToSeqs({}) : f = << >>
  /\ \A x : \A f \in SetToSeqs({x}) : f = <<x>>
<1>1. ASSUME NEW f \in SetToSeqs({}) PROVE f = << >>
  <2>1. Cardinality({}) = 0
    BY FS_EmptySet
  <2>2. f \in [1 .. 0 -> {}]
    BY <2>1 DEF SetToSeqs
  <2> QED BY <2>2
<1>2. ASSUME NEW x, NEW f \in SetToSeqs({x}) PROVE f = <<x>>
  <2>1. Cardinality({x}) = 1
    BY FS_Singleton
  <2>2. f \in [1 .. 1 -> {x}]
    BY <2>1 DEF SetToSeqs
  <2> QED BY <2>2
<1> QED BY <1>1, <1>2

(* Step 2 of run(): an event changes at most one order of the client. *)
LEMMA EventStep ==
  ASSUME BtInv, NEW ev \in Events, SimEvent(ev), UNCHANGED clientVars, open' = pendingOrders'
  PROVE  Refines
<1> DEFINE matching == {id \in DOMAIN pending_ : /\ pending_[id].queue_aware
                                                /\ pending_[id].price_ = ev.price_
                                                /\ pending_[id].side_ = ev.side_}
           fill(id) == fill_qty(pending_[id], ev)
           left(id) == pending_[id].leaves_qty - fill(id)
           done == {id \in matching : left(id) = 0}
           hit == {id \in matching : fill(id) > 0}
           after(id) == [pending_[id] EXCEPT !.queue_ahead_qty = queueAfter(pending_[id], ev),
                                             !.leaves_qty = left(id)]
           seen(id) == witnessed(level[id], ev, fill(id))
<1>1. /\ sim = "events"
      /\ global_priority_watermark_' =
           IF ev.priority_ # Priority_INVALID /\ ev.priority_ > global_priority_watermark_
           THEN ev.priority_ ELSE global_priority_watermark_
      /\ \E filled \in SetToSeqs(hit) :
           responses' = responses \o
                          [i \in DOMAIN filled |->
                             emitFilled(filled[i], pending_[filled[i]].side_, fill(filled[i]),
                                        left(filled[i]))]
      /\ pending_' = [id \in DOMAIN pending_ \ done |->
                        IF id \in matching THEN after(id) ELSE pending_[id]]
      /\ level' = [id \in DOMAIN level \cap DOMAIN pending_ |->
                     IF id \in matching THEN seen(id) ELSE level[id]]
      /\ UNCHANGED <<requests, bbo, mode_, sim_run_, sim, cur, todo>>
  BY Zenon DEF SimEvent, onSimMarketEvent
<1>2. /\ DOMAIN pending_' = DOMAIN pending_ \ done
      /\ \A id \in DOMAIN pending_' :
           pending_'[id] = IF id \in matching THEN after(id) ELSE pending_[id]
      /\ DOMAIN level' = DOMAIN level \cap DOMAIN pending_
      /\ \A id \in DOMAIN level' :
           level'[id] = IF id \in matching THEN seen(id) ELSE level[id]
  <2> HIDE DEF matching, after, seen, done
  <2> QED BY <1>1
<1>3. \A id \in DOMAIN pending_ :
        /\ pending_[id] \in PendingOrder
        /\ fill(id) \in 0 .. pending_[id].leaves_qty
        /\ queueAfter(pending_[id], ev) \in Nat
        /\ pending_[id].leaves_qty \in 1 .. Clip
  <2> SUFFICES ASSUME NEW id \in DOMAIN pending_
               PROVE  /\ pending_[id] \in PendingOrder
                      /\ fill(id) \in 0 .. pending_[id].leaves_qty
                      /\ queueAfter(pending_[id], ev) \in Nat
                      /\ pending_[id].leaves_qty \in 1 .. Clip
    OBVIOUS
  <2>1. pending_[id] \in PendingOrder
    BY DEF BtInv, SimTyped
  <2>2. pending_[id].leaves_qty \in 1 .. Clip
    BY <2>1 DEF PendingOrder
  <2> QED BY <2>1, <2>2, EventQuantities
<1>4. Clip \in Nat
  BY ClipAssumption
<1>5. \A id \in DOMAIN pending_ :
        /\ after(id).side_ = pending_[id].side_ /\ after(id).leaves_qty = left(id)
        /\ after(id).queue_aware = pending_[id].queue_aware
        /\ left(id) # 0 => after(id) \in PendingOrder
  <2> SUFFICES ASSUME NEW id \in DOMAIN pending_
               PROVE  /\ after(id).side_ = pending_[id].side_ /\ after(id).leaves_qty = left(id)
                      /\ after(id).queue_aware = pending_[id].queue_aware
                      /\ left(id) # 0 => after(id) \in PendingOrder
    OBVIOUS
  <2>1. PICK l, q : l = left(id) /\ q = queueAfter(pending_[id], ev)
    OBVIOUS
  <2>2. q \in Nat /\ (l # 0 => l \in 1 .. Clip)
    BY <2>1, <1>3, <1>4
  <2>3. pending_[id] \in PendingOrder
    BY <1>3
  <2>4. after(id) = [pending_[id] EXCEPT !.queue_ahead_qty = q, !.leaves_qty = l]
    BY <2>1
  <2> HIDE DEF after, left
  <2> QED BY <2>1, <2>2, <2>3, <2>4 DEF PendingOrder
<1>6. \A x, y \in matching : x = y
  BY OnePending
<1>7. [Next]_vars
  <2>0. responses \in Seq(Response)
    BY DEF BtInv, IInv, TypeOK
  <2>1. PICK filled \in SetToSeqs(hit) :
          responses' = responses \o
            [i \in DOMAIN filled |->
               emitFilled(filled[i], pending_[filled[i]].side_, fill(filled[i]), left(filled[i]))]
    BY <1>1
  <2>2. PICK R : R = pending_'
    OBVIOUS
  <2>3. open = OrdersOf(pending_) /\ open' = OrdersOf(R)
    BY <2>2, PendingOrdersOf DEF BtInv
  <2>4. /\ DOMAIN R = DOMAIN pending_ \ done
        /\ \A id \in DOMAIN R : R[id] = IF id \in matching THEN after(id) ELSE pending_[id]
    <3>1. R = pending_'
      BY <2>2
    <3> QED BY ONLY <3>1, <1>2, Zenon
  <2>5. CASE hit = {}
    <3>1. \A id \in matching : left(id) = pending_[id].leaves_qty /\ left(id) # 0
      BY <2>5, <1>3, <1>4
    <3>2. DOMAIN R = DOMAIN pending_
      BY <3>1, <2>4
    <3>3. \A id \in DOMAIN pending_ : R[id].side_ = pending_[id].side_
                                     /\ R[id].leaves_qty = pending_[id].leaves_qty
      <4> HIDE DEF after, left, matching
      <4> QED BY <3>1, <3>2, <2>4, <1>5
    <3>4. open' = open
      BY <2>3, <3>2, <3>3, OrdersSame
    <3>5. filled = << >>
      BY <2>1, <2>5, FewSeqs
    <3>6. responses' = responses
      <4> HIDE DEF left, fill
      <4> QED BY <2>0, <2>1, <3>5
    <3> QED BY <3>4, <3>6, <1>1 DEF vars, clientVars
  <2>6. CASE hit # {}
    <3>1. PICK x : x \in hit
      BY <2>6
    <3>2. hit = {x} /\ matching = {x} /\ x \in DOMAIN pending_
      BY <3>1, <1>6
    <3>3. filled = <<x>>
      BY <2>1, <3>2, FewSeqs
    <3>4. responses' = Append(responses, emitFilled(x, pending_[x].side_, fill(x), left(x)))
      <4> HIDE DEF left, fill, hit, matching
      <4> QED BY <2>0, <2>1, <3>3
    <3> DEFINE order == OrderOf(pending_, x)
    <3>5. order \in open /\ order.leaves_ = pending_[x].leaves_qty
          /\ order.order_id_ = x /\ order.side_ = pending_[x].side_
      BY <3>2, PendingOpen DEF OrderOf
    <3>6. fill(x) \in 1 .. Clip /\ fill(x) <= order.leaves_ /\ left(x) = order.leaves_ - fill(x)
      BY <3>1, <3>2, <3>5, <1>3, <1>4
    <3>7. open' = (open \ {order}) \cup
                    (IF left(x) = 0 THEN {} ELSE {[order EXCEPT !.leaves_ = left(x)]})
      <4>1. CASE left(x) = 0
        <5>1. DOMAIN R = DOMAIN pending_ \ {x}
          BY <4>1, <3>2, <2>4
        <5>2. \A id \in DOMAIN R : R[id] = pending_[id]
          <6> HIDE DEF matching
          <6> QED BY <5>1, <3>2, <2>4
        <5>3. OrdersOf(R) = OrdersOf(pending_) \ {order}
          <6> HIDE DEF order
          <6> QED BY <5>1, <5>2, <3>2, OrdersDrop DEF order
        <5> QED BY <5>3, <4>1, <2>3
      <4>2. CASE left(x) # 0
        <5>1. DOMAIN R = DOMAIN pending_
          BY <4>2, <3>2, <2>4
        <5>2. (\A id \in DOMAIN pending_ \ {x} : R[id] = pending_[id]) /\ R[x] = after(x)
          <6> HIDE DEF matching, after
          <6> QED BY <5>1, <3>2, <2>4
        <5>3. R[x].side_ = pending_[x].side_ /\ R[x].leaves_qty = left(x)
          <6> HIDE DEF matching, after, left
          <6> QED BY <5>2, <3>2, <1>5
        <5>4. OrdersOf(R) = (OrdersOf(pending_) \ {order})
                              \cup {[order EXCEPT !.leaves_ = R[x].leaves_qty]}
          <6> HIDE DEF left, after, matching
          <6> QED BY <5>1, <5>2, <5>3, <3>2, OrdersReplace
        <5> HIDE DEF order, left
        <5> QED BY <5>3, <5>4, <4>2, <2>3
      <4> QED BY <4>1, <4>2
    <3>8. ExchangeFill(order, fill(x))
      <4>1. respondFilled(order, fill(x), order.leaves_ - fill(x))
        <5>1. emitFilled(x, pending_[x].side_, fill(x), left(x)) =
                [type_ |-> "FILLED", order_id_ |-> order.order_id_, side_ |-> order.side_,
                 exec_qty_ |-> fill(x), leaves_qty_ |-> order.leaves_ - fill(x)]
          BY <3>5, <3>6 DEF emitFilled
        <5> QED BY <5>1, <3>4 DEF respondFilled
      <4>2. UNCHANGED <<algo, ticker_side_order_, next_order_id_, position_, requests>>
        BY <1>1 DEF clientVars
      <4>3. open' = (open \ {order}) \cup
                      (IF order.leaves_ - fill(x) = 0 THEN {}
                       ELSE {[order EXCEPT !.leaves_ = order.leaves_ - fill(x)]})
        BY <3>6, <3>7, Zenon
      <4> HIDE DEF order, fill
      <4> QED BY <4>1, <4>2, <4>3, <3>6 DEF ExchangeFill
    <3> HIDE DEF order, fill
    <3> QED BY <3>5, <3>6, <3>8 DEF Next, Exchange
  <2> QED BY <2>5, <2>6
<1>8. SimTyped' /\ QueueInv'
  <2>0. todo = {} /\ todo' = {} /\ sim' = "events" /\ bbo' = bbo
    BY <1>1 DEF BtInv, SimTyped
  <2>1. \A id \in DOMAIN pending_' : pending_'[id] \in PendingOrder
    <3> SUFFICES ASSUME NEW id \in DOMAIN pending_' PROVE pending_'[id] \in PendingOrder
      OBVIOUS
    <3>1. id \in DOMAIN pending_ /\ id \notin done
      BY <1>2
    <3>2. CASE id \in matching
      <4>1. left(id) # 0
        BY <3>1, <3>2
      <4>2. pending_'[id] = after(id)
        <5> HIDE DEF after, matching
        <5> QED BY <3>2, <1>2
      <4> HIDE DEF after, left
      <4> QED BY <3>1, <4>1, <4>2, <1>5
    <3>3. CASE id \notin matching
      <4> HIDE DEF after, matching
      <4> QED BY <3>1, <3>3, <1>2, <1>3
    <3> QED BY <3>2, <3>3
  <2>2. global_priority_watermark_' \in Nat
    BY <1>1, EventsAssumption DEF BtInv, SimTyped
  <2>3. \A id \in DOMAIN level' :
          /\ level'[id] \in LevelRecord
          /\ Behind(level'[id])
          /\ id \in DOMAIN pending_' /\ pending_'[id].queue_aware =>
                BehindQueue(pending_'[id], level'[id])
    <3> SUFFICES ASSUME NEW id \in DOMAIN level'
                 PROVE  /\ level'[id] \in LevelRecord
                        /\ Behind(level'[id])
                        /\ id \in DOMAIN pending_' /\ pending_'[id].queue_aware =>
                              BehindQueue(pending_'[id], level'[id])
      OBVIOUS
    <3>1. id \in DOMAIN level /\ id \in DOMAIN pending_
      BY <1>2
    <3>2. level[id] \in LevelRecord /\ Behind(level[id])
          /\ (pending_[id].queue_aware => BehindQueue(pending_[id], level[id]))
      BY <3>1 DEF BtInv, SimTyped, QueueInv
    <3>3. CASE id \in matching
      <4>1. level'[id] = seen(id) /\ (id \in DOMAIN pending_' => pending_'[id] = after(id))
        <5> HIDE DEF after, matching, seen
        <5> QED BY <3>3, <1>2
      <4>2. BehindQueue(pending_[id], level[id])
        BY <3>2, <3>3
      <4>3. seen(id) \in LevelRecord /\ BehindQueue(after(id), seen(id)) /\ Behind(seen(id))
        <5>1. pending_[id] \in PendingOrder
          BY <3>1, <1>3
        <5> HIDE DEF matching
        <5> QED BY <5>1, <4>2, <3>2, EventBehind, Zenon
      <4> QED BY <4>1, <4>3, Zenon
    <3>4. CASE id \notin matching
      <4>1. level'[id] = level[id] /\ (id \in DOMAIN pending_' => pending_'[id] = pending_[id])
        <5> HIDE DEF after, matching, seen
        <5> QED BY <3>4, <1>2
      <4> QED BY <4>1, <3>2, Zenon
    <3> QED BY <3>3, <3>4
  <2> HIDE DEF matching, after, seen, done
  <2>4. SimTyped'
    BY <2>0, <2>1, <2>2, <2>3 DEF SimTyped, BtInv
  <2>5. QueueInv'
    BY <2>3 DEF QueueInv
  <2> QED BY <2>4, <2>5
<1> QED BY <1>7, <1>8 DEF Refines

(* Quantities read from a BBO. *)
LEMMA BBOQuantities ==
  ASSUME NEW po \in PendingOrder, NEW b \in BBOs
  PROVE  aggressiveQty(po, b) \in 0 .. po.leaves_qty
<1>1. po.leaves_qty \in 1 .. Clip /\ Clip \in Nat
  BY ClipAssumption DEF PendingOrder
<1>2. b.ask_qty_ \in Nat /\ b.bid_qty_ \in Nat
  BY BBOsAssumption DEF BBO
<1>3. opposite(b, po.side_).qty \in Nat
  BY <1>2 DEF opposite
<1> QED BY <1>1, <1>3 DEF aggressiveQty, Least

(* At the best price of its side, or in front of it, an order's snapshot   *)
(* is what rests there.                                                    *)
LEMMA RestingShown ==
  ASSUME NEW po \in PendingOrder, bbo \in BBOs, NEW queue \in resting(po)
  PROVE  /\ queue \in Nat /\ behindBest(po) \in BOOLEAN
         /\ ~behindBest(po) => snapshotQueueAhead(po) = queue
<1>1. bbo \in BBO /\ po.side_ \in {"BUY", "SELL"} /\ po.price_ \in Prices
  BY BBOsAssumption DEF PendingOrder, Side
<1>2. /\ bbo.bid_qty_ \in Nat /\ bbo.ask_qty_ \in Nat
      /\ bbo.bid_price_ \in Prices \cup {Price_INVALID}
      /\ bbo.ask_price_ \in Prices \cup {Price_INVALID}
  BY <1>1 DEF BBO
<1>3. CASE po.side_ = "BUY"
  <2>1. best(po.side_).price = bbo.bid_price_ /\ best(po.side_).qty = bbo.bid_qty_
    BY <1>3 DEF best, opposite
  <2> QED BY <1>1, <1>2, <1>3, <2>1, HiddenAssumption DEF resting, behindBest, snapshotQueueAhead
<1>4. CASE po.side_ = "SELL"
  <2>1. best(po.side_).price = bbo.ask_price_ /\ best(po.side_).qty = bbo.ask_qty_
    BY <1>4 DEF best, opposite
  <2> QED BY <1>1, <1>2, <1>4, <2>1, HiddenAssumption DEF resting, behindBest, snapshotQueueAhead
<1> QED BY <1>1, <1>3, <1>4

(* Step 3 of run(), one order: filled, for good, by what the best level    *)
(* shows, or else behind what is at its price.                             *)
LEMMA VisitStep ==
  ASSUME BtInv, NEW id \in todo, Visit(id), UNCHANGED clientVars, open' = pendingOrders'
  PROVE  Refines
<1> DEFINE po == pending_[id]
           qty == aggressiveQty(po, cur)
           snapshot == mode_ = "QUEUE_AWARE" /\ ~po.queue_aware
           ahead_qty == snapshotQueueAhead(po)
           order == OrderOf(pending_, id)
<1>1. /\ sim = "orders" /\ todo' = todo \ {id} /\ nextOrder(cur)
      /\ UNCHANGED <<requests, bbo, mode_, global_priority_watermark_, sim_run_>>
  BY DEF Visit
<1>2. /\ id \in DOMAIN pending_ /\ cur \in BBOs /\ bbo \in BBOs /\ todo \subseteq DOMAIN pending_
      /\ po \in PendingOrder
  BY <1>1 DEF BtInv, SimTyped
<1>3. /\ order \in open /\ order.leaves_ = po.leaves_qty /\ order.order_id_ = id
      /\ order.side_ = po.side_
  BY <1>2, PendingOpen DEF OrderOf
<1>4. po.leaves_qty \in 1 .. Clip /\ Clip \in Nat
  BY <1>2, ClipAssumption DEF PendingOrder
<1>5. qty \in 0 .. po.leaves_qty
  BY <1>2, BBOQuantities
<1>6. /\ bbo' \in BBOs /\ global_priority_watermark_' \in Nat
      /\ sim' = "orders" => cur' \in BBOs
      /\ sim' # "orders" => todo' = {}
  BY <1>1, <1>2 DEF nextOrder, BtInv, SimTyped
<1>7. open = OrdersOf(pending_) /\ open' = OrdersOf(pending_')
  BY PendingOrdersOf DEF BtInv
<1>8. CASE UNCHANGED <<responses, pending_, level>>
  <2>1. [Next]_vars
    BY <1>1, <1>7, <1>8 DEF vars, clientVars
  <2>2. SimTyped'
    BY <1>1, <1>2, <1>6, <1>8 DEF BtInv, SimTyped
  <2>3. QueueInv'
    BY <1>8 DEF BtInv, QueueInv
  <2> QED BY <2>1, <2>2, <2>3 DEF Refines
<1>9. CASE /\ qty > 0
           /\ responses' = Append(responses, emitFilled(id, po.side_, qty, 0))
           /\ pending_' = Without(pending_, {id})
           /\ level' = Without(level, {id})
  <2>1. /\ DOMAIN pending_' = DOMAIN pending_ \ {id}
        /\ \A i \in DOMAIN pending_' : pending_'[i] = pending_[i]
        /\ DOMAIN level' = DOMAIN level \ {id}
        /\ \A i \in DOMAIN level' : level'[i] = level[i]
    BY <1>9 DEF Without
  <2>2. open' = open \ {order}
    <3>1. PICK R : R = pending_'
      OBVIOUS
    <3>2. DOMAIN R = DOMAIN pending_ \ {id} /\ \A i \in DOMAIN R : R[i] = pending_[i]
      BY <2>1, <3>1
    <3>3. OrdersOf(R) = OrdersOf(pending_) \ {order}
      BY <1>2, <3>2, OrdersDrop
    <3> QED BY <3>1, <3>3, <1>7
  <2>3. respondFilled(order, qty, 0)
    BY <1>3, <1>9 DEF emitFilled, respondFilled
  <2>4. UNCHANGED <<algo, ticker_side_order_, next_order_id_, position_, requests>>
    BY <1>1 DEF clientVars
  <2>5. qty \in 1 .. Clip /\ qty <= order.leaves_
    BY <1>3, <1>4, <1>5, <1>9
  <2>6. ASSUME qty = order.leaves_ PROVE [Next]_vars
    <3>1. order.leaves_ - qty = 0
      BY <1>3, <1>4, <2>6
    <3>2. respondFilled(order, qty, order.leaves_ - qty)
      BY <3>1, <2>3
    <3>3. open' = (open \ {order}) \cup
                    (IF order.leaves_ - qty = 0 THEN {}
                     ELSE {[order EXCEPT !.leaves_ = order.leaves_ - qty]})
      BY <3>1, <2>2
    <3> HIDE DEF order, qty
    <3>4. ExchangeFill(order, qty)
      BY <2>4, <2>5, <3>2, <3>3 DEF ExchangeFill
    <3> QED BY <3>4, <2>5, <1>3 DEF Next, Exchange
  <2>7. ASSUME qty # order.leaves_ PROVE [Next]_vars
    <3> HIDE DEF order, qty
    <3>0. order.leaves_ \in Int /\ qty \in Int
      BY <1>3, <1>4, <2>5
    <3>1. SimulatorFill(order, qty)
      BY <2>2, <2>3, <2>4, <2>5, <2>7, <3>0 DEF SimulatorFill
    <3> QED BY <3>1, <2>5, <1>3 DEF Next, Exchange
  <2>8. [Next]_vars
    BY <2>6, <2>7
  <2>9. SimTyped'
    BY <1>1, <1>2, <1>6, <2>1 DEF BtInv, SimTyped
  <2>10. QueueInv'
    BY <2>1 DEF BtInv, QueueInv
  <2> QED BY <2>9, <2>10, <2>8 DEF Refines
<1>10. CASE /\ pending_' =
                 [pending_ EXCEPT ![id] =
                    [po EXCEPT !.queue_ahead_qty = IF snapshot THEN ahead_qty ELSE @,
                               !.priority_watermark =
                                  IF snapshot THEN global_priority_watermark_ ELSE @,
                               !.queue_aware = @ \/ snapshot,
                               !.bbo_at_submit = cur]]
            /\ \E queue \in resting(po) :
                 level' = IF snapshot
                          THEN [i \in DOMAIN level \cup {id} |->
                                  IF i = id
                                  THEN [queue |-> queue, shown |-> ~behindBest(po),
                                        mark |-> global_priority_watermark_,
                                        gone |-> 0, later |-> 0, filled |-> 0]
                                  ELSE level[i]]
                          ELSE level
            /\ UNCHANGED responses
  <2>00. PICK shown : shown = ~behindBest(po)
    OBVIOUS
  <2>0. PICK queue \in resting(po) :
          level' = IF snapshot
                   THEN [i \in DOMAIN level \cup {id} |->
                           IF i = id
                           THEN [queue |-> queue, shown |-> shown,
                                 mark |-> global_priority_watermark_,
                                 gone |-> 0, later |-> 0, filled |-> 0]
                           ELSE level[i]]
                   ELSE level
    BY <1>10, <2>00, Zenon
  <2>1. PICK q, w, a : /\ q = IF snapshot THEN ahead_qty ELSE po.queue_ahead_qty
                       /\ w = IF snapshot THEN global_priority_watermark_
                                          ELSE po.priority_watermark
                       /\ a = (po.queue_aware \/ snapshot)
    OBVIOUS
  <2>2. ahead_qty \in Nat
    BY <1>2, BBOsAssumption DEF snapshotQueueAhead, BBO
  <2>2a. queue \in Nat /\ shown \in BOOLEAN /\ (shown => ahead_qty = queue)
    BY <1>2, <2>00, <2>0, RestingShown
  <2>3. q \in Nat /\ w \in Nat /\ a \in BOOLEAN
    <3> HIDE DEF ahead_qty
    <3>1. po.queue_ahead_qty \in Nat /\ po.priority_watermark \in Nat
          /\ global_priority_watermark_ \in Nat
      BY <1>2 DEF PendingOrder, BtInv, SimTyped
    <3>2. q \in Nat /\ w \in Nat
      BY <2>1, <2>2, <3>1
    <3>3. a \in BOOLEAN
      BY <2>1, Zenon
    <3> QED BY <3>2, <3>3
  <2>4. PICK n : n = [po EXCEPT !.queue_ahead_qty = q, !.priority_watermark = w,
                                !.queue_aware = a, !.bbo_at_submit = cur]
    OBVIOUS
  <2>5. pending_' = [pending_ EXCEPT ![id] = n]
    <3>1. n = [po EXCEPT !.queue_ahead_qty = IF snapshot THEN ahead_qty ELSE @,
                         !.priority_watermark =
                            IF snapshot THEN global_priority_watermark_ ELSE @,
                         !.queue_aware = @ \/ snapshot,
                         !.bbo_at_submit = cur]
      BY <2>1, <2>4, Zenon
    <3> QED BY <3>1, <1>10, Zenon
  <2>6. /\ n \in PendingOrder /\ n.side_ = po.side_ /\ n.leaves_qty = po.leaves_qty
        /\ n.queue_ahead_qty = q /\ n.queue_aware = a /\ n.priority_watermark = w
    <3> HIDE DEF po
    <3> QED BY <1>2, <2>3, <2>4 DEF PendingOrder
  <2>7. /\ DOMAIN pending_' = DOMAIN pending_ /\ pending_'[id] = n
        /\ \A i \in DOMAIN pending_ \ {id} : pending_'[i] = pending_[i]
    BY <1>2, <2>5
  <2>8. open' = open
    <3>1. PICK R : R = pending_'
      OBVIOUS
    <3>2. /\ DOMAIN R = DOMAIN pending_
          /\ \A i \in DOMAIN pending_ : R[i].side_ = pending_[i].side_
                                       /\ R[i].leaves_qty = pending_[i].leaves_qty
      BY <2>6, <2>7, <3>1
    <3>3. OrdersOf(R) = OrdersOf(pending_)
      BY <3>2, OrdersSame
    <3> QED BY <3>1, <3>3, <1>7
  <2>9. [Next]_vars
    BY <1>1, <1>10, <2>8 DEF vars, clientVars
  <2>10. \A i \in DOMAIN level' \ {id} : i \in DOMAIN level /\ level'[i] = level[i]
    <3>1. CASE snapshot
      BY <2>0, <3>1
    <3>2. CASE ~snapshot
      BY <2>0, <3>2
    <3> QED BY <3>1, <3>2
  <2>11. id \in DOMAIN level' => /\ level'[id] \in LevelRecord /\ Behind(level'[id])
                                 /\ n.queue_aware => BehindQueue(n, level'[id])
    <3>1. CASE snapshot
      <4>1. PICK x : x = ahead_qty
        OBVIOUS
      <4>2. PICK v : v = level'[id]
        OBVIOUS
      <4>3. v = [queue |-> queue, shown |-> shown, mark |-> global_priority_watermark_,
                 gone |-> 0, later |-> 0, filled |-> 0]
        BY <2>0, <3>1, <4>2
      <4>4. q = x /\ x \in Nat /\ w = global_priority_watermark_ /\ w \in Nat
            /\ (shown => x = queue)
        <5> HIDE DEF ahead_qty
        <5> QED BY <2>1, <2>2, <2>2a, <2>3, <3>1, <4>1
      <4>5. v.queue = queue /\ v.mark = w /\ v.gone = 0 /\ v.later = 0 /\ v.filled = 0
            /\ v \in LevelRecord
        BY <2>2a, <4>3, <4>4 DEF LevelRecord
      <4>6. Shown(v) <= x /\ Shown(v) \in Nat
        <5>1. CASE shown
          <6>1. Shown(v) = queue
            BY <4>3, <5>1 DEF Shown
          <6> QED BY <6>1, <5>1, <4>4, <2>2a
        <5>2. CASE ~shown
          <6>1. Shown(v) = 0
            BY <4>3, <5>2 DEF Shown
          <6> QED BY <6>1, <4>4
        <5> QED BY <5>1, <5>2
      <4>7. Behind(v) /\ BehindQueue(n, v)
        BY <4>4, <4>5, <4>6, <2>6 DEF Behind, BehindQueue
      <4> QED BY <4>2, <4>5, <4>7
    <3>2. CASE ~snapshot
      <4>1. level' = level /\ q = po.queue_ahead_qty /\ w = po.priority_watermark
            /\ (a => po.queue_aware)
        BY <2>0, <2>1, <3>2
      <4>2. ASSUME id \in DOMAIN level
            PROVE  /\ level[id] \in LevelRecord /\ Behind(level[id])
                   /\ po.queue_aware => BehindQueue(po, level[id])
        BY <4>2, <1>2 DEF BtInv, QueueInv, SimTyped
      <4>3. ASSUME BehindQueue(po, level[id]) PROVE BehindQueue(n, level[id])
        BY <4>1, <4>3, <2>6 DEF BehindQueue
      <4> QED BY <4>1, <4>2, <4>3, <2>6
    <3> QED BY <3>1, <3>2
  <2>12. SimTyped'
    <3> HIDE DEF po
    <3> QED BY <1>1, <1>2, <1>6, <2>6, <2>7, <2>10, <2>11 DEF BtInv, SimTyped
  <2>13. QueueInv'
    <3> SUFFICES ASSUME NEW i \in DOMAIN level'
                 PROVE  /\ Behind(level'[i])
                        /\ i \in DOMAIN pending_' /\ pending_'[i].queue_aware =>
                             BehindQueue(pending_'[i], level'[i])
      BY DEF QueueInv
    <3>1. CASE i = id
      BY <3>1, <2>7, <2>11
    <3>2. CASE i # id
      BY <3>2, <2>7, <2>10 DEF BtInv, QueueInv
    <3> QED BY <3>1, <3>2
  <2> QED BY <2>9, <2>12, <2>13 DEF Refines
<1> QED
  <2>1. \/ UNCHANGED <<responses, pending_, level>>
        \/ /\ qty > 0
           /\ responses' = Append(responses, emitFilled(id, po.side_, qty, 0))
           /\ pending_' = Without(pending_, {id})
           /\ level' = Without(level, {id})
        \/ /\ pending_' =
                 [pending_ EXCEPT ![id] =
                    [po EXCEPT !.queue_ahead_qty = IF snapshot THEN ahead_qty ELSE @,
                               !.priority_watermark =
                                  IF snapshot THEN global_priority_watermark_ ELSE @,
                               !.queue_aware = @ \/ snapshot,
                               !.bbo_at_submit = cur]]
           /\ \E queue \in resting(po) :
                level' = IF snapshot
                         THEN [i \in DOMAIN level \cup {id} |->
                                 IF i = id
                                 THEN [queue |-> queue, shown |-> ~behindBest(po),
                                       mark |-> global_priority_watermark_,
                                       gone |-> 0, later |-> 0, filled |-> 0]
                                 ELSE level[i]]
                         ELSE level
           /\ UNCHANGED responses
    BY Zenon DEF Visit
  <2> HIDE DEF po, qty, snapshot, ahead_qty
  <2> QED BY <2>1, <1>8, <1>9, <1>10

(* A step that leaves the simulator's orders alone. *)
LEMMA OrdersUntouched ==
  ASSUME BtInv, UNCHANGED pending_
  PROVE  pendingOrders' = open
BY DEF BtInv, pendingOrders

(* Reading the queues to their end, and the BBO at the start of step 3. *)
LEMMA ReadStep ==
  ASSUME BtInv, RequestsRead \/ EventsRead \/ ReadBBO, UNCHANGED clientVars,
         open' = pendingOrders'
  PROVE  Refines
<1>1. UNCHANGED <<requests, responses, bbo, pending_, global_priority_watermark_>>
  BY DEF RequestsRead, EventsRead, ReadBBO
<1>2. [Next]_vars
  BY <1>1, OrdersUntouched DEF vars, clientVars
<1>3. CASE RequestsRead \/ EventsRead
  <2>1. level' = level /\ todo' = todo /\ sim # "orders" /\ sim' # "orders"
    BY <1>3 DEF RequestsRead, EventsRead
  <2>2. SimTyped' /\ QueueInv'
    BY <1>1, <2>1 DEF BtInv, SimTyped, QueueInv
  <2> QED BY <1>2, <2>2 DEF Refines
<1>4. CASE ReadBBO
  <2>1. level' = [id \in DOMAIN level \cap DOMAIN pending_ |-> level[id]]
        /\ todo' = DOMAIN pending_ /\ nextOrder(bbo)
    BY <1>4 DEF ReadBBO
  <2>2. DOMAIN level' \subseteq DOMAIN level /\ \A id \in DOMAIN level' : level'[id] = level[id]
    BY <2>1
  <2>3. SimTyped'
    BY <1>1, <2>1, <2>2 DEF BtInv, SimTyped, nextOrder
  <2>4. QueueInv'
    BY <1>1, <2>2 DEF BtInv, QueueInv
  <2> QED BY <1>2, <2>3, <2>4 DEF Refines
<1> QED BY <1>3, <1>4

(* The trade engine, the replay and main() leave the simulator alone. *)
LEMMA SimulatorUntouched ==
  ASSUME BtInv, bbo' \in BBOs,
         UNCHANGED <<pending_, global_priority_watermark_, sim, cur, todo, level>>
  PROVE  SimTyped' /\ QueueInv'
BY DEF BtInv, SimTyped, QueueInv

(* An update of the book or a trade: a call of the strategy at prices of   *)
(* the book, or none.                                                      *)
LEMMA UpdateRefines ==
  ASSUME BtInv, TradeEngineUpdate
  PROVE  Refines /\ open' = pendingOrders'
<1>0. bbo \in BBOs
  BY DEF BtInv, SimTyped
<1>1. /\ UNCHANGED <<pending_, mode_, global_priority_watermark_, sim_run_, sim, cur, todo, level>>
      /\ BookUpdate \/ TradeUpdate
  BY DEF TradeEngineUpdate
<1>2. bbo' \in BBOs
  BY <1>0, <1>1 DEF BookUpdate, TradeUpdate
<1>3. [Next]_vars /\ open' = open
  <2>1. CASE nothingSent
    BY <2>1 DEF nothingSent, clientVars, vars
  <2>2. ASSUME NEW bid_price \in Prices, NEW ask_price \in Prices,
               MarketMaker(bid_price, ask_price)
        PROVE  [Next]_vars /\ open' = open
    <3>1. open' = open
      BY <2>2 DEF MarketMaker, moveOrders
    <3> QED BY <3>1, <2>2 DEF Next, Strategy
  <2>3. ASSUME NEW side \in {"BUY", "SELL"}, Valid(bbo),
               LiquidityTaker(side, opposite(bbo, side).price)
        PROVE  [Next]_vars /\ open' = open
    <3>1. open' = open
      BY <2>3 DEF LiquidityTaker, moveOrders
    <3>2. bbo \in BBO
      BY <1>0, BBOsAssumption
    <3>3. opposite(bbo, side).price \in Prices
      BY <2>3, <3>2 DEF opposite, Valid, BBO
    <3>4. side \in Side
      BY DEF Side
    <3> QED BY <3>1, <3>3, <3>4, <2>3 DEF Next, Strategy
  <2> QED BY <1>1, <2>1, <2>2, <2>3 DEF BookUpdate, TradeUpdate
<1>4. SimTyped' /\ QueueInv'
  BY <1>1, <1>2, SimulatorUntouched
<1>5. open' = pendingOrders'
  BY <1>1, <1>3, OrdersUntouched
<1> QED BY <1>3, <1>4, <1>5 DEF Refines

(* Every step of a backtest. *)
LEMMA StepRefines ==
  ASSUME BtInv, [BacktestNext]_backtestVars
  PROVE  Refines /\ open' = pendingOrders'
<1>0. bbo \in BBOs
  BY DEF BtInv, SimTyped
<1>1. ASSUME UNCHANGED <<pending_, global_priority_watermark_, sim, cur, todo, level, bbo, clientVars,
                         open, requests, responses>>
      PROVE  Refines /\ open' = pendingOrders'
  <2>1. SimTyped' /\ QueueInv'
    BY <1>0, <1>1, SimulatorUntouched
  <2>2. open' = pendingOrders'
    BY <1>1, OrdersUntouched
  <2>3. UNCHANGED vars
    BY <1>1 DEF vars, clientVars
  <2> QED BY <2>1, <2>2, <2>3 DEF Refines
<1>2. CASE Replay \/ Main \/ UNCHANGED backtestVars
  BY <1>1, <1>2 DEF Replay, Main, simVars, backtestVars
<1>3. CASE TradeEngineUpdate
  BY <1>3, UpdateRefines
<1>4. CASE TradeEngineResponse
  <2>1. /\ onOrderUpdate /\ bbo' = bbo
        /\ UNCHANGED <<pending_, global_priority_watermark_, sim, cur, todo, level>>
    BY <1>4 DEF TradeEngineResponse
  <2>2. open' = open
    BY <2>1 DEF onOrderUpdate
  <2>3. SimTyped' /\ QueueInv'
    BY <1>0, <2>1, SimulatorUntouched
  <2> QED BY <2>1, <2>2, <2>3, OrdersUntouched DEF Refines, Next
<1>5. CASE Simulator
  <2>1. open' = pendingOrders'
    BY <1>5 DEF Simulator
  <2>2. CASE Requests
    BY <2>1, <2>2, NewRequestStep, CancelRequestStep, ReadStep DEF Requests
  <2>3. CASE Event
    <3>1. UNCHANGED clientVars
      BY <2>3 DEF Event
    <3> QED BY <2>1, <2>3, <3>1, EventStep DEF Event
  <2>4. CASE EventsDone
    BY <2>1, <2>4, ReadStep DEF EventsDone
  <2>5. CASE Orders
    <3>1. UNCHANGED clientVars
      BY <2>5 DEF Orders
    <3> QED BY <2>1, <2>5, <3>1, VisitStep, ReadStep DEF Orders
  <2> QED BY <1>5, <2>2, <2>3, <2>4, <2>5 DEF Simulator
<1> QED BY <1>2, <1>3, <1>4, <1>5 DEF BacktestNext

(* The invariant is kept. *)
LEMMA BtInvNext == BtInv /\ [BacktestNext]_backtestVars => BtInv'
<1> SUFFICES ASSUME BtInv, [BacktestNext]_backtestVars PROVE BtInv'
  OBVIOUS
<1>1. [Next]_vars /\ SimTyped' /\ QueueInv' /\ open' = pendingOrders'
  BY StepRefines DEF Refines
<1>2. IInv'
  BY <1>1, NextInv DEF BtInv
<1> QED BY <1>1, <1>2 DEF BtInv

(* It holds before the first thread runs. *)
LEMMA BtInvInit == BacktestInit => BtInv
<1> SUFFICES ASSUME BacktestInit PROVE BtInv
  OBVIOUS
<1>1. IInv
  BY InitInv DEF BacktestInit
<1>2. open = {} /\ pending_ = << >> /\ level = << >> /\ bbo \in BBOs /\ todo = {}
      /\ global_priority_watermark_ = 0 /\ sim = "requests"
  BY DEF BacktestInit, Init, SimInit
<1>3. DOMAIN pending_ = {} /\ DOMAIN level = {}
  BY <1>2
<1>4. open = pendingOrders
  BY <1>2, <1>3 DEF pendingOrders
<1>5. SimTyped /\ QueueInv
  BY <1>2, <1>3 DEF SimTyped, QueueInv
<1> QED BY <1>1, <1>4, <1>5 DEF BtInv

-----------------------------------------------------------------------------
(* The end of a backtest: what stays true once the queues are drained *)

(* The steps that are left: nothing is read from an empty queue. *)
Idle ==
  \/ TradeEngineResponse
  \/ /\ RequestsRead \/ EventsRead \/ ReadBBO \/ \E id \in todo : Visit(id)
     /\ UNCHANGED <<clientVars, rows, md, sim_md, mainVars>>
  \/ Main
  \/ UNCHANGED backtestVars

(* In a drained backtest no other step is possible. *)
LEMMA OnlyIdle ==
  ASSUME Drained, [BacktestNext]_backtestVars
  PROVE  Idle
<1>1. ~Replay /\ ~TradeEngineUpdate /\ ~Event /\ ~NewRequest /\ ~CancelRequest
  BY DEF Drained, Replay, TradeEngineUpdate, Event, NewRequest, CancelRequest
<1>2. CASE Requests \/ EventsDone \/ Orders
  BY <1>1, <1>2 DEF Requests, EventsDone, Orders, Idle
<1> QED BY <1>1, <1>2 DEF BacktestNext, Simulator, Idle

(* A drained backtest stays drained, at its last BBO. *)
LEMMA DrainedStays ==
  ASSUME Drained, Idle
  PROVE  Drained' /\ bbo' = bbo
<1>1. CASE TradeEngineResponse
  BY <1>1 DEF TradeEngineResponse, onOrderUpdate, Drained
<1>2. CASE /\ RequestsRead \/ EventsRead \/ ReadBBO \/ \E id \in todo : Visit(id)
           /\ UNCHANGED <<clientVars, rows, md, sim_md, mainVars>>
  BY <1>2 DEF RequestsRead, EventsRead, ReadBBO, Visit, Drained
<1>3. CASE Main \/ UNCHANGED backtestVars
  BY <1>3 DEF Main, backtestVars, simVars, Drained
<1> QED BY <1>1, <1>2, <1>3 DEF Idle

(* One order visited with the last BBO has then been tried against it. *)
LEMMA VisitSettles ==
  ASSUME BtInv, NEW id \in todo, Visit(id), cur = bbo
  PROVE  /\ DOMAIN pending_' \subseteq DOMAIN pending_
         /\ id \in DOMAIN pending_' => pending_'[id].bbo_at_submit = bbo
         /\ \A i \in DOMAIN pending_' \ {id} : pending_'[i] = pending_[i]
         /\ pending_[id].bbo_at_submit = bbo => UNCHANGED <<responses, pending_>>
<1>1. id \in DOMAIN pending_ /\ pending_[id] \in PendingOrder
  BY DEF BtInv, SimTyped
<1>2. CASE UNCHANGED <<responses, pending_, level>> /\ cur = pending_[id].bbo_at_submit
  BY <1>2
<1>3. CASE pending_' = Without(pending_, {id}) /\ cur # pending_[id].bbo_at_submit
  BY <1>3 DEF Without
<1> DEFINE po == pending_[id]
           snapshot == mode_ = "QUEUE_AWARE" /\ ~po.queue_aware
           n == [po EXCEPT !.queue_ahead_qty = IF snapshot THEN snapshotQueueAhead(po) ELSE @,
                           !.priority_watermark =
                              IF snapshot THEN global_priority_watermark_ ELSE @,
                           !.queue_aware = @ \/ snapshot,
                           !.bbo_at_submit = cur]
<1>4. CASE cur # pending_[id].bbo_at_submit /\ pending_' = [pending_ EXCEPT ![id] = n]
  <2>1. n.bbo_at_submit = bbo
    BY <1>1 DEF PendingOrder
  <2> HIDE DEF n
  <2> QED BY <1>1, <1>4, <2>1
<1>5. \/ UNCHANGED <<responses, pending_, level>> /\ cur = pending_[id].bbo_at_submit
      \/ pending_' = Without(pending_, {id}) /\ cur # pending_[id].bbo_at_submit
      \/ cur # pending_[id].bbo_at_submit /\ pending_' = [pending_ EXCEPT ![id] = n]
  BY Zenon DEF Visit
<1> HIDE DEF n
<1> QED BY <1>2, <1>3, <1>4, <1>5

(* Rounds that began with the last BBO. *)
LEMMA RoundStays ==
  ASSUME BtInv, Drained, RoundOfLastBBO, Idle
  PROVE  RoundOfLastBBO'
<1>1. bbo' = bbo
  BY DrainedStays
<1>2. CASE TradeEngineResponse \/ Main \/ UNCHANGED backtestVars
  BY <1>2 DEF TradeEngineResponse, Main, backtestVars, simVars, RoundOfLastBBO, Settled
<1>3. CASE RequestsRead \/ EventsRead
  BY <1>3 DEF RequestsRead, EventsRead, RoundOfLastBBO
<1>4. CASE ReadBBO
  <2>1. todo' = DOMAIN pending_' /\ (sim' = "orders" => cur' = bbo)
    BY <1>4 DEF ReadBBO, nextOrder
  <2> QED BY <2>1, <1>1 DEF RoundOfLastBBO, Settled
<1>5. ASSUME NEW id \in todo, Visit(id) PROVE RoundOfLastBBO'
  <2>1. sim = "orders" /\ cur = bbo /\ Settled(DOMAIN pending_ \ todo)
        /\ todo' = todo \ {id} /\ (sim' = "orders" => cur' = cur)
    BY <1>5 DEF Visit, nextOrder, RoundOfLastBBO
  <2>2. /\ DOMAIN pending_' \subseteq DOMAIN pending_
        /\ id \in DOMAIN pending_' => pending_'[id].bbo_at_submit = bbo
        /\ \A i \in DOMAIN pending_' \ {id} : pending_'[i] = pending_[i]
    BY <1>5, <2>1, VisitSettles
  <2>3. \A i \in DOMAIN pending_' \ todo' : pending_'[i].bbo_at_submit = bbo
    BY <2>1, <2>2 DEF Settled
  <2> QED BY <1>1, <2>1, <2>3 DEF RoundOfLastBBO, Settled
<1> QED BY <1>2, <1>3, <1>4, <1>5 DEF Idle

(* The end of such a round: every order was tried. *)
LEMMA RoundEnds ==
  ASSUME BtInv, Drained, RoundOfLastBBO, ReadBBO \/ \E id \in todo : Visit(id), todo' = {}
  PROVE  Settled(DOMAIN pending_)'
<1>1. CASE ReadBBO
  BY <1>1 DEF ReadBBO, Settled
<1>2. ASSUME NEW id \in todo, Visit(id) PROVE Settled(DOMAIN pending_)'
  <2>1. cur = bbo /\ Settled(DOMAIN pending_ \ todo) /\ todo' = todo \ {id} /\ bbo' = bbo
    BY <1>2 DEF Visit, RoundOfLastBBO
  <2>2. /\ DOMAIN pending_' \subseteq DOMAIN pending_
        /\ id \in DOMAIN pending_' => pending_'[id].bbo_at_submit = bbo
        /\ \A i \in DOMAIN pending_' \ {id} : pending_'[i] = pending_[i]
    BY <1>2, <2>1, VisitSettles
  <2>3. \A i \in DOMAIN pending_' : pending_'[i].bbo_at_submit = bbo
    BY <2>1, <2>2 DEF Settled
  <2> QED BY <2>1, <2>3 DEF Settled
<1> QED BY <1>1, <1>2

(* From then on no order changes and the simulator answers nothing. *)
LEMMA SettledStays ==
  ASSUME BtInv, Drained, RoundOfLastBBO, Settled(DOMAIN pending_), Idle
  PROVE  Settled(DOMAIN pending_)' /\ (responses = << >> => responses' = << >>)
<1>1. bbo' = bbo
  BY DrainedStays
<1>2. UNCHANGED pending_ /\ (responses = << >> => responses' = << >>)
  <2>1. CASE TradeEngineResponse
    BY <2>1 DEF TradeEngineResponse, onOrderUpdate
  <2>2. CASE Main \/ UNCHANGED backtestVars
    BY <2>2 DEF Main, backtestVars, simVars
  <2>3. CASE RequestsRead \/ EventsRead \/ ReadBBO
    BY <2>3 DEF RequestsRead, EventsRead, ReadBBO
  <2>4. ASSUME NEW id \in todo, Visit(id) PROVE UNCHANGED <<responses, pending_>>
    <3>1. cur = bbo /\ id \in DOMAIN pending_
      BY <2>4 DEF Visit, RoundOfLastBBO, BtInv, SimTyped
    <3> QED BY <2>4, <3>1, VisitSettles DEF Settled
  <2> QED BY <2>1, <2>2, <2>3, <2>4 DEF Idle
<1> QED BY <1>1, <1>2 DEF Settled

(* main(), the replay and the trade engine keep their counters. *)
LEMMA TypedNext ==
  ASSUME MainTyped, [BacktestNext]_backtestVars
  PROVE  MainTyped'
<1>0. Rounds \in Nat
  BY BacktestAssumption
<1>1. CASE Replay
  <2>1. teed \in Nat
    BY DEF teed
  <2>2. /\ rows' = rows - 1 /\ rows > 0 /\ md' = md + 1 /\ sim_md' = sim_md + teed
        /\ UNCHANGED <<main, read, busy, idle_iters, rounds>>
    BY <1>1 DEF Replay, mainVars
  <2> QED BY <2>1, <2>2 DEF MainTyped
<1>2. CASE TradeEngineUpdate \/ TradeEngineResponse
  <2>1. /\ (md' = md \/ (md > 0 /\ md' = md - 1))
        /\ UNCHANGED <<rows, sim_md, main, read, busy, idle_iters, rounds>>
    BY <1>2 DEF TradeEngineUpdate, TradeEngineResponse, mainVars
  <2> QED BY <2>1 DEF MainTyped
<1>3. CASE Simulator
  <2>1. /\ (sim_md' = sim_md \/ (sim_md > 0 /\ sim_md' = sim_md - 1))
        /\ UNCHANGED <<rows, md, main, read, busy, idle_iters>>
    BY <1>3 DEF Simulator, Requests, Event, EventsDone, Orders, mainVars
  <2>2. rounds' = rounds \/ rounds' = Least(rounds + 1, Rounds)
    BY <1>3 DEF Simulator, Requests, Event, EventsDone, Orders
  <2>3. rounds' \in Nat
    BY <2>2, <1>0 DEF MainTyped, Least
  <2> QED BY <2>1, <2>3 DEF MainTyped
<1>4. CASE Main
  <2>1. UNCHANGED <<rows, md, sim_md>> /\ rounds' \in Nat
    BY <1>4 DEF Main, MainTyped
  <2>2. /\ idle_iters' \in Nat
        /\ main' \in {"replay", "sizes", "sleep", "te_stop", "te_clear", "done"}
        /\ main' # "replay" => rows = 0
        /\ main' \in {"replay", "sleep"} => read' = 0 /\ busy' = FALSE
    BY <1>4 DEF Main, ReplayFinished, ReadSize, Poll, Slept, TradeEngineIdle, TradeEngineStop,
                MainTyped
  <2> QED BY <2>1, <2>2 DEF MainTyped
<1>5. CASE UNCHANGED backtestVars
  BY <1>5 DEF backtestVars, mainVars, MainTyped
<1> QED BY <1>1, <1>2, <1>3, <1>4, <1>5 DEF BacktestNext

(* While main() does nothing the other threads refill no queue it found    *)
(* empty.                                                                  *)
LEMMA PollNext ==
  ASSUME BtInv, MainTyped, PollInv, [BacktestNext]_backtestVars, UNCHANGED mainVars
  PROVE  PollInv'
<1> SUFFICES ASSUME main = "sizes" PROVE PollInv'
  BY DEF PollInv, mainVars
<1>1. ~Replay /\ UNCHANGED <<main, read, busy>>
  BY DEF MainTyped, Replay, mainVars
<1>2. md = 0 => md' = 0 /\ (requests = << >> => requests' = << >>)
  <2>1. CASE TradeEngineUpdate
    BY <2>1 DEF TradeEngineUpdate
  <2>2. CASE TradeEngineResponse
    BY <2>2 DEF TradeEngineResponse, onOrderUpdate
  <2>3. CASE Main \/ UNCHANGED backtestVars
    BY <2>3 DEF Main, backtestVars, simVars
  <2>4. CASE Simulator
    <3>1. md' = md
      BY <2>4 DEF Simulator, Requests, Event, EventsDone, Orders
    <3>2. requests = << >> => requests' = << >>
      BY <2>4 DEF Simulator, Requests, Event, EventsDone, Orders, NewRequest, CancelRequest,
                  RequestsRead, SimEvent, EventsRead, ReadBBO, Visit
    <3> QED BY <3>1, <3>2
  <2> QED BY <1>1, <2>1, <2>2, <2>3, <2>4 DEF BacktestNext
<1>3. sim_md = 0 => sim_md' = 0
  <2>1. CASE Simulator
    BY <2>1 DEF Simulator, Requests, Event, EventsDone, Orders
  <2>2. CASE TradeEngineUpdate \/ TradeEngineResponse \/ Main \/ UNCHANGED backtestVars
    BY <2>2 DEF TradeEngineUpdate, TradeEngineResponse, Main, backtestVars
  <2> QED BY <1>1, <2>1, <2>2 DEF BacktestNext
<1> QED BY <1>1, <1>2, <1>3 DEF PollInv

(* While main() sleeps or stops the threads, the rounds count. *)
LEMMA RoundsNext ==
  ASSUME EnoughRounds, BtInv, MainTyped, SleepInv, StopInv, [BacktestNext]_backtestVars,
         UNCHANGED mainVars
  PROVE  SleepInv' /\ StopInv'
<1>1. UNCHANGED <<main, idle_iters>>
  BY DEF mainVars
<1>2. CASE main = "sleep" /\ idle_iters >= 1
  <2>1. Drained /\ (rounds >= 1 => RoundOfLastBBO) /\ (rounds >= 2 => Settled(DOMAIN pending_))
    BY <1>2 DEF SleepInv
  <2>2. Idle
    BY <2>1, OnlyIdle
  <2>3. Drained'
    BY <2>1, <2>2, DrainedStays
  <2>4. rounds >= 1 => RoundOfLastBBO'
    BY <2>1, <2>2, RoundStays
  <2>5. rounds >= 2 => Settled(DOMAIN pending_)'
    <3> SUFFICES ASSUME rounds >= 2 PROVE Settled(DOMAIN pending_)'
      OBVIOUS
    <3>1. rounds >= 1
      BY DEF MainTyped
    <3> QED BY <3>1, <2>1, <2>2, SettledStays
  <2>6. CASE rounds' = rounds
    BY <1>1, <1>2, <2>3, <2>4, <2>5, <2>6 DEF SleepInv, StopInv
  <2>7. CASE rounds' # rounds
    <3>1. Orders
      <4>1. ~Main \/ rounds' = rounds
        BY <1>1, <1>2 DEF Main
      <4> QED BY <4>1, <2>7 DEF BacktestNext, Replay, TradeEngineUpdate, TradeEngineResponse,
                 Simulator, Requests, Event, EventsDone, backtestVars
    <3>2. ReadBBO \/ \E id \in todo : Visit(id)
      BY <3>1 DEF Orders
    <3>3. todo' = {} /\ rounds' = Least(rounds + 1, Rounds)
      BY <3>1, <2>7 DEF Orders
    <3>4. sim' # "orders"
      BY <3>2, <3>3 DEF ReadBBO, Visit, nextOrder
    <3>5. RoundOfLastBBO'
      BY <3>4 DEF RoundOfLastBBO
    <3>6. rounds' >= 2 => rounds >= 1
      BY <3>3, BacktestAssumption DEF MainTyped, Least
    <3>7. rounds' >= 2 => Settled(DOMAIN pending_)'
      BY <3>2, <3>3, <3>6, <2>1, RoundEnds
    <3> QED BY <1>1, <1>2, <2>3, <3>5, <3>7 DEF SleepInv, StopInv
  <2> QED BY <2>6, <2>7
<1>3. CASE main \in {"te_stop", "te_clear", "done"}
  <2>1. Drained /\ RoundOfLastBBO /\ Settled(DOMAIN pending_)
    BY <1>3 DEF StopInv
  <2>2. Idle
    BY <2>1, OnlyIdle
  <2>3. Drained' /\ RoundOfLastBBO' /\ Settled(DOMAIN pending_)'
        /\ (responses = << >> => responses' = << >>)
    BY <2>1, <2>2, DrainedStays, RoundStays, SettledStays
  <2> QED BY <1>1, <1>3, <2>3 DEF SleepInv, StopInv
<1>4. CASE ~(main = "sleep" /\ idle_iters >= 1) /\ main \notin {"te_stop", "te_clear", "done"}
  BY <1>1, <1>4 DEF SleepInv, StopInv
<1> QED BY <1>2, <1>3, <1>4

(* The steps of main(). *)
LEMMA MainNext ==
  ASSUME EnoughRounds, BtInv, MainInv, Main
  PROVE  PollInv' /\ SleepInv' /\ StopInv'
<1>1. /\ UNCHANGED <<simVars, bbo, rows, md, sim_md>>
      /\ rounds' = IF main' = "sleep" /\ main = "sleep" THEN rounds ELSE 0
  BY DEF Main
<1>2. /\ UNCHANGED <<requests, responses, pending_, sim, cur, todo>>
      /\ (Drained' <=> Drained) /\ (RoundOfLastBBO' <=> RoundOfLastBBO)
      /\ (Settled(DOMAIN pending_)' <=> Settled(DOMAIN pending_))
  BY <1>1 DEF simVars, Drained, RoundOfLastBBO, Settled
<1>3. MainTyped /\ PollInv /\ SleepInv /\ StopInv
  BY DEF MainInv
<1>4. CASE ReplayFinished
  <2>1. main = "replay" /\ main' = "sizes" /\ UNCHANGED <<read, busy>>
    BY <1>4 DEF ReplayFinished
  <2> QED BY <2>1, <1>3 DEF MainTyped, PollInv, SleepInv, StopInv
<1>5. CASE ReadSize
  <2>1. /\ main = "sizes" /\ main' = "sizes" /\ read < Len(sizes)
        /\ busy' = (busy \/ sizes[read + 1] # 0) /\ read' = read + 1
    BY <1>5 DEF ReadSize
  <2>2. Len(sizes) = 4 /\ sizes[1] = md /\ sizes[2] = Len(requests) /\ sizes[4] = sim_md
    BY DEF sizes
  <2>3. read \in 0 .. 3 /\ read' \in 0 .. 4
    BY <2>1, <2>2, <1>3 DEF PollInv
  <2>4. ASSUME ~busy' PROVE ~busy /\ sizes[read + 1] = 0
    BY <2>1, <2>4
  <2>5. requests \in Seq(Request)
    BY DEF BtInv, IInv, TypeOK
  <2>6. ASSUME ~busy'
        PROVE  /\ read' >= 1 => md' = 0
               /\ read' >= 2 => requests' = << >>
               /\ read' >= 4 => sim_md' = 0
    <3>1. ~busy /\ sizes[read + 1] = 0
      BY <2>4, <2>6
    <3>2. /\ read >= 1 => md = 0
          /\ read >= 2 => requests = << >>
      BY <3>1, <2>1, <1>3 DEF PollInv
    <3>3. Len(requests) = 0 => requests = << >>
      BY <2>5
    <3> QED BY <3>1, <3>2, <3>3, <2>1, <2>2, <2>3, <1>1, <1>2
  <2> QED BY <2>1, <2>3, <2>6 DEF PollInv, SleepInv, StopInv
<1>6. CASE Poll
  <2>1. /\ main = "sizes" /\ read = Len(sizes) /\ main' = "sleep"
        /\ idle_iters' = IF busy THEN 0 ELSE idle_iters + 1
    BY <1>6 DEF Poll
  <2>2. Len(sizes) = 4
    BY DEF sizes
  <2>3. idle_iters' >= 1 => Drained
    BY <2>1, <2>2, <1>3 DEF PollInv, MainTyped, Drained
  <2>4. rounds' = 0
    BY <2>1, <1>1
  <2> QED BY <2>1, <2>3, <2>4, <1>2 DEF PollInv, SleepInv, StopInv
<1>7. CASE Slept
  <2>1. /\ main = "sleep" /\ rounds = Rounds
        /\ \/ main' = "sizes"
           \/ main' = "te_stop" /\ ~(idle_iters < IdlePolls)
        /\ UNCHANGED <<read, busy>>
    BY <1>7 DEF Slept
  <2>2. CASE main' = "sizes"
    BY <2>1, <2>2, <1>3 DEF MainTyped, PollInv, SleepInv, StopInv
  <2>3. CASE main' = "te_stop" /\ ~(idle_iters < IdlePolls)
    <3>1. idle_iters >= 1 /\ rounds >= 1 /\ rounds >= 2
      BY <2>1, <2>3, <1>3, BacktestAssumption DEF MainTyped, EnoughRounds
    <3>2. Drained /\ RoundOfLastBBO /\ Settled(DOMAIN pending_)
      BY <3>1, <2>1, <1>3 DEF SleepInv
    <3> QED BY <3>2, <2>3, <1>2 DEF PollInv, SleepInv, StopInv
  <2> QED BY <2>1, <2>2, <2>3
<1>8. CASE TradeEngineIdle
  <2>1. main = "te_stop" /\ main' = "te_clear" /\ responses = << >>
    BY <1>8 DEF TradeEngineIdle
  <2> QED BY <2>1, <1>2, <1>3 DEF PollInv, SleepInv, StopInv
<1>9. CASE TradeEngineStop
  <2>1. main = "te_clear" /\ main' = "done"
    BY <1>9 DEF TradeEngineStop
  <2> QED BY <2>1, <1>2, <1>3 DEF PollInv, SleepInv, StopInv
<1> QED BY <1>4, <1>5, <1>6, <1>7, <1>8, <1>9 DEF Main

(* Every step of a backtest keeps what leads to its end. *)
LEMMA MainInvNext ==
  ASSUME EnoughRounds, BtInv, MainInv, [BacktestNext]_backtestVars
  PROVE  MainInv'
<1>1. MainTyped /\ PollInv /\ SleepInv /\ StopInv
  BY DEF MainInv
<1>2. MainTyped'
  BY <1>1, TypedNext
<1>3. CASE Main
  BY <1>2, <1>3, MainNext DEF MainInv
<1>4. CASE UNCHANGED mainVars
  BY <1>1, <1>2, <1>4, PollNext, RoundsNext DEF MainInv
<1>5. Main \/ UNCHANGED mainVars
  BY DEF BacktestNext, Replay, TradeEngineUpdate, TradeEngineResponse, Simulator, Requests, Event,
         EventsDone, Orders, backtestVars
<1> QED BY <1>3, <1>4, <1>5

-----------------------------------------------------------------------------
(* Theorems *)

(* In every backtest the client, its requests, the simulator's orders and  *)
(* the responses fit together, and every order is behind its queue.        *)
THEOREM BacktestInvariance == BacktestSpec => []BtInv
BY BtInvInit, BtInvNext, PTL DEF BacktestSpec

(* FillSimulator is an exchange as OrderManager expects one: each of its   *)
(* steps, whatever it reads of the BBO and of the events, is one of the    *)
(* exchange or nothing to the client.                                      *)
THEOREM Refinement == BacktestSpec => ImplementsOrderManager
<1>1. BacktestInit => Init
  BY DEF BacktestInit
<1>2. BtInv /\ [BacktestNext]_backtestVars => [Next]_vars
  BY StepRefines DEF Refines
<1>3. BacktestSpec => Spec
  BY <1>1, <1>2, BacktestInvariance, PTL DEF BacktestSpec, Spec
<1> QED BY <1>3 DEF ImplementsOrderManager

(* onSimMarketEvent fills an order whose price was the best of its side,   *)
(* or better, when its queue was read only with volume behind that queue.  *)
THEOREM PassiveFills == BacktestSpec => []PassiveFillsBehindQueue
<1>1. BtInv => PassiveFillsBehindQueue
  BY DEF BtInv, QueueInv, Behind, Shown, PassiveFillsBehindQueue
<1> QED BY <1>1, BacktestInvariance, PTL

(* What holds of the position for any exchange holds in a backtest. *)
THEOREM BacktestExposure == BacktestSpec => []ExposureWithinLimit
<1>1. BacktestSpec => Spec
  BY Refinement DEF ImplementsOrderManager
<1> QED BY <1>1, Exposure, PTL

(* main() stops the threads only when all is done: with one idle poll and  *)
(* two rounds of the simulator per sleep at least, however the sizes are   *)
(* read, nothing is left unread, unanswered or untried.                    *)
THEOREM StopIsComplete == EnoughRounds => (BacktestSpec => []StopLosesNothing)
<1> SUFFICES ASSUME EnoughRounds PROVE BacktestSpec => []StopLosesNothing
  OBVIOUS
<1>1. BacktestInit => MainInv
  BY BacktestAssumption DEF BacktestInit, MainInv, MainTyped, PollInv, SleepInv, StopInv
<1>2. BtInv /\ MainInv /\ [BacktestNext]_backtestVars => MainInv'
  BY MainInvNext
<1>3. BtInv /\ MainInv => StopLosesNothing
  <2> SUFFICES ASSUME BtInv, MainInv, main = "done"
               PROVE
        /\ requests = << >> /\ responses = << >> /\ md = 0 /\ sim_md = 0
        /\ \A s \in {"BUY", "SELL"} :
             ticker_side_order_[s].order_state_ \notin {"PENDING_NEW", "PENDING_CANCEL"}
        /\ \A id \in DOMAIN pending_ : pending_[id].bbo_at_submit = bbo
    BY DEF StopLosesNothing
  <2>1. Drained /\ Settled(DOMAIN pending_) /\ responses = << >>
    BY DEF MainInv, StopInv
  <2>2. Len(requests) = 0 /\ Len(responses) = 0
    BY <2>1 DEF Drained
  <2>3. \A s \in Side : OrderState(s) # "PENDING_NEW" /\ OrderState(s) # "PENDING_CANCEL"
    BY <2>2 DEF BtInv, IInv, WaitInv
  <2> QED BY <2>1, <2>3 DEF Drained, Settled, OrderState, Side
<1> QED BY <1>1, <1>2, <1>3, BacktestInvariance, PTL DEF BacktestSpec
=============================================================================
