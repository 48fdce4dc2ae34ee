------------------------------ MODULE StockProofs ------------------------------
(***************************************************************************)
(* Theorems about Stock: for every set of items, requests and lines, and   *)
(* however many movements there are.                                       *)
(***************************************************************************)
EXTENDS Stock, Sums

-----------------------------------------------------------------------------
(* Sales and their steps.                                                  *)

Sells(step) == step.do = "move" /\ step.type = "sale_out"

Returns(step) == step.do = "move" /\ step.type = "return_in"

Selling(t) == \E k \in DOMAIN t : Sells(t[k])

\* What the steps t have still to sell of item i.
Sold(t, i) ==
    SumFunction([k \in DOMAIN t |-> IF Sells(t[k]) /\ t[k].item = i THEN - t[k].qty ELSE 0])

\* What comes back, then what is read and found to be enough, then what is sold.
SaleOrder(t) ==
    /\ \A k \in DOMAIN t :
         \/ Sells(t[k]) /\ t[k].qty <= 0
         \/ Returns(t[k]) /\ t[k].qty >= 0
         \/ /\ t[k].do = "read" /\ "stock" \in t[k].requires
            /\ Sold(t, t[k].item) <= t[k].need
    /\ \A j, k \in DOMAIN t :
         j < k => /\ Sells(t[j]) => Sells(t[k])
                  /\ t[j].do = "read" => ~Returns(t[k])

\* A deletion comes right after the SELECT of its item.
DeleteOrder(t) ==
    \A k \in DOMAIN t :
        t[k].do = "delete" => k = 2 /\ t[1].do = "read" /\ t[1].item = t[2].item

-----------------------------------------------------------------------------
(* The invariant.                                                          *)

\* A sale in progress has what it has checked, of the items that it keeps.
SaleOK(r) ==
    Selling(todo[r]) =>
        /\ SaleOrder(todo[r])
        /\ \A i \in Items : objects[r][i] # NoObject =>
             /\ ~objects[r][i].pinned /\ Sold(todo[r], i) <= objects[r][i].stock
             /\ \A k \in DOMAIN todo[r] : ~Returns(todo[r][k])
        /\ \A i \in Items : posted[r][i] # <<>> /\ ~Last(posted[r][i]).fresh =>
             /\ objects[r][i] # NoObject
             /\ \A k \in DOMAIN todo[r] : Sells(todo[r][k])

\* The rows that a session has inserted for an item p that it has locked.
RowsOK(r, i) ==
    LET p == posted[r][i] IN
    p # <<>> =>
        /\ i \in held[r]
        /\ \A k \in DOMAIN p :
             /\ p[k].after = p[k].before + p[k].qty
             /\ p[k].fresh <=> p[1].fresh
             /\ k > 1 => p[k].before = p[k - 1].after
             /\ p[k].type = "sale_out" /\ ~p[k].fresh => p[k].after >= 0
        /\ p[1].fresh => p[1].before = stock[i] /\ status[i] = "active"
        /\ objects[r][i] # NoObject => objects[r][i].stock = Last(p).after

SessionOK(r) ==
    /\ ~open[r] =>
          held[r] = {} /\ \A i \in Items : objects[r][i] = NoObject /\ posted[r][i] = <<>>
    /\ \A k \in DOMAIN todo[r] : status[todo[r][k].item] # "absent"
    /\ \A k \in DOMAIN todo[r] : todo[r][k].do = "delete" =>
          \/ k = 1 /\ objects[r][todo[r][k].item] # NoObject
          \/ k = 2 /\ todo[r][1].do = "read" /\ todo[r][1].item = todo[r][k].item
    /\ \A i \in Items : objects[r][i] # NoObject /\ objects[r][i].status = "deleted" =>
          status[i] = "deleted" \/ i \in held[r]
    /\ \A i \in held[r] : Free(r, i)

IInv ==
    /\ \A r \in Requests : SessionOK(r) /\ SaleOK(r) /\ \A i \in Items : RowsOK(r, i)
    /\ FreshRowsChain /\ MovementsAddUp /\ KeptSalesStayAboveZero

-----------------------------------------------------------------------------
(* Sequences of steps.                                                     *)

LEMMA StepFacts ==
    ASSUME NEW step \in Step
    PROVE  /\ step.item \in Items /\ step.do \in {"read", "pin", "delete", "move"}
           /\ step.do = "move" => step.qty \in Int /\ step.type \in MovementType
           /\ step.do = "read" => step.need \in Int /\ step.requires \in SUBSET {"active", "stock"}
  BY DEF Step

LEMMA TailFacts ==
    ASSUME NEW t \in Seq(Step), t # <<>>
    PROVE  /\ Tail(t) \in Seq(Step) /\ Len(Tail(t)) = Len(t) - 1 /\ Len(t) \in Nat \ {0}
           /\ Head(t) = t[1] /\ 1 \in DOMAIN t
           /\ \A k \in DOMAIN Tail(t) : /\ k + 1 \in DOMAIN t /\ Tail(t)[k] = t[k + 1]
                                        /\ k \in Nat /\ k >= 1
  OBVIOUS

\* The quantity that a step sells of item i.
Sale(step, i) == IF Sells(step) /\ step.item = i THEN - step.qty ELSE 0

LEMMA SaleType ==
    ASSUME NEW step \in Step, NEW i
    PROVE  Sale(step, i) \in Int
  BY StepFacts DEF Sale, Sells

LEMMA SoldIsSum ==
    ASSUME NEW t \in Seq(Step), NEW i
    PROVE  /\ Sold(t, i) = SumFunction([k \in 1 .. Len(t) |-> Sale(t[k], i)])
           /\ [k \in 1 .. Len(t) |-> Sale(t[k], i)] \in [1 .. Len(t) -> Int]
           /\ Sold(t, i) \in Int
  <1>1. DOMAIN t = 1 .. Len(t) /\ Len(t) \in Nat /\ \A k \in 1 .. Len(t) : t[k] \in Step
    OBVIOUS
  <1>2. [k \in 1 .. Len(t) |-> Sale(t[k], i)] \in [1 .. Len(t) -> Int]
    BY <1>1, SaleType
  <1>3. Sold(t, i) = SumFunction([k \in 1 .. Len(t) |-> Sale(t[k], i)])
    BY <1>1 DEF Sold, Sale
  <1>4. IsFiniteSet(1 .. Len(t))
    BY <1>1, FS_Interval
  <1>5. PICK f \in [1 .. Len(t) -> Int] : f = [k \in 1 .. Len(t) |-> Sale(t[k], i)]
    BY <1>2
  <1>6. SumFunction(f) \in Int
    BY <1>4, SumType
  <1> QED
    BY <1>2, <1>3, <1>5, <1>6

LEMMA SoldConcat ==
    ASSUME NEW s \in Seq(Step), NEW t \in Seq(Step), NEW i
    PROVE  Sold(s \o t, i) = Sold(s, i) + Sold(t, i)
  <1> DEFINE Terms(u) == [k \in 1 .. Len(u) |-> Sale(u[k], i)]
  <1>1. s \o t \in Seq(Step) /\ Len(s \o t) = Len(s) + Len(t) /\ Len(s) \in Nat /\ Len(t) \in Nat
    OBVIOUS
  <1>2. PICK f \in [1 .. Len(s) + Len(t) -> Int] : f = Terms(s \o t) /\ Sold(s \o t, i) = SumFunction(f)
    BY <1>1, SoldIsSum
  <1>3. PICK g \in [1 .. Len(s) -> Int] : g = Terms(s) /\ Sold(s, i) = SumFunction(g)
    BY SoldIsSum
  <1>4. PICK h \in [1 .. Len(t) -> Int] : h = Terms(t) /\ Sold(t, i) = SumFunction(h)
    BY SoldIsSum
  <1>5. \A k \in 1 .. Len(s) : g[k] = f[k]
    BY <1>1, <1>2, <1>3
  <1>6. \A k \in 1 .. Len(t) : h[k] = f[Len(s) + k]
    BY <1>1, <1>2, <1>4
  <1> HIDE DEF Terms
  <1>7. SumFunction(f) = SumFunction(g) + SumFunction(h)
    BY <1>1, <1>5, <1>6, SumConcat
  <1> QED
    BY <1>2, <1>3, <1>4, <1>7

LEMMA SoldNone ==
    ASSUME NEW t \in Seq(Step), ~Selling(t), NEW i
    PROVE  Sold(t, i) = 0
  <1>1. PICK f \in [1 .. Len(t) -> Int] : /\ f = [k \in 1 .. Len(t) |-> Sale(t[k], i)]
                                          /\ Sold(t, i) = SumFunction(f)
    BY SoldIsSum
  <1>2. \A k \in 1 .. Len(t) : f[k] = 0
    BY <1>1 DEF Selling, Sale
  <1>3. IsFiniteSet(1 .. Len(t))
    BY Len(t) \in Int, 1 \in Int, FS_Interval
  <1> QED
    BY <1>1, <1>2, <1>3, SumZero

LEMMA SoldTail ==
    ASSUME NEW t \in Seq(Step), t # <<>>, NEW i
    PROVE  /\ Sold(t, i) = Sale(t[1], i) + Sold(Tail(t), i)
           /\ Sold(t, i) \in Int /\ Sold(Tail(t), i) \in Int /\ Sale(t[1], i) \in Int
  <1>1. PICK u \in Seq(Step), v \in Seq(Step) : u = <<t[1]>> /\ v = Tail(t)
    <2>1. t[1] \in Step /\ Tail(t) \in Seq(Step)
      OBVIOUS
    <2>2. <<t[1]>> \in Seq(Step)
      BY <2>1
    <2> QED
      BY <2>1, <2>2
  <1>2. u \o v = t /\ t[1] \in Step /\ Len(u) = 1 /\ u[1] = t[1]
    BY <1>1
  <1>3. Sold(u, i) = Sale(t[1], i)
    <2>1. PICK f \in [1 .. 1 -> Int] : /\ f = [k \in 1 .. 1 |-> Sale(u[k], i)]
                                       /\ Sold(u, i) = SumFunction(f)
      <3>1. DOMAIN u = 1 .. 1 /\ u[1] \in Step
        BY <1>2
      <3>2. Sold(u, i) = SumFunction([k \in 1 .. 1 |-> Sale(u[k], i)])
        BY <3>1 DEF Sold, Sale
      <3>3. [k \in 1 .. 1 |-> Sale(u[k], i)] \in [1 .. 1 -> Int]
        BY <3>1, SaleType
      <3> QED
        BY <3>2, <3>3
    <2>2. PICK e \in [1 .. 0 -> Int] : e = [k \in 1 .. 0 |-> 0]
      BY [k \in 1 .. 0 |-> 0] \in [1 .. 0 -> Int]
    <2>3. f \in [1 .. 0 + 1 -> Int] /\ \A k \in 1 .. 0 : e[k] = f[k]
      BY <2>1
    <2>4. SumFunction(f) = SumFunction(e) + f[0 + 1]
      BY <2>3, SumAppend
    <2>5. SumFunction(e) = 0
      <3>1. IsFiniteSet(1 .. 0)
        BY 0 \in Int, 1 \in Int, FS_Interval
      <3> QED
        BY <2>2, <3>1, SumZero
    <2>6. f[0 + 1] = Sale(t[1], i) /\ f[0 + 1] \in Int
      BY <1>2, <2>1
    <2> QED
      BY <2>1, <2>4, <2>5, <2>6
  <1>4. Sold(u \o v, i) = Sold(u, i) + Sold(v, i)
    BY SoldConcat
  <1>5. Sold(t, i) \in Int /\ Sold(v, i) \in Int
    BY <1>1, SoldIsSum
  <1>6. Sale(t[1], i) \in Int
    BY <1>2, SaleType
  <1> QED
    BY <1>1, <1>2, <1>3, <1>4, <1>5, <1>6

\* Without negative terms nothing is sold below zero.
LEMMA SoldPositive ==
    ASSUME NEW t \in Seq(Step), \A k \in DOMAIN t : Sells(t[k]) => t[k].qty <= 0, NEW i
    PROVE  Sold(t, i) \in Nat
  <1>1. PICK f \in [1 .. Len(t) -> Int] : /\ f = [k \in 1 .. Len(t) |-> Sale(t[k], i)]
                                          /\ Sold(t, i) = SumFunction(f)
    BY SoldIsSum
  <1>2. DOMAIN t = 1 .. Len(t) /\ \A k \in 1 .. Len(t) : t[k] \in Step
    OBVIOUS
  <1>3. \A k \in 1 .. Len(t) : f[k] >= 0
    BY <1>1, <1>2, StepFacts DEF Sale, Sells
  <1>4. IsFiniteSet(1 .. Len(t))
    BY Len(t) \in Int, 1 \in Int, FS_Interval
  <1> QED
    BY <1>1, <1>3, <1>4, SumPositive

\* What is left of a sale is a sale.
LEMMA SaleOrderTail ==
    ASSUME NEW t \in Seq(Step), t # <<>>, SaleOrder(t)
    PROVE  SaleOrder(Tail(t))
  <1>1. /\ \A k \in DOMAIN Tail(t) : k + 1 \in DOMAIN t /\ Tail(t)[k] = t[k + 1] /\ k \in Nat
        /\ 1 \in DOMAIN t /\ t[1] \in Step
    BY TailFacts
  <1>2. ASSUME NEW i
        PROVE  Sold(Tail(t), i) <= Sold(t, i) /\ Sold(t, i) \in Int /\ Sold(Tail(t), i) \in Int
    <2>1. Sale(t[1], i) >= 0
      BY <1>1, StepFacts DEF Sale, Sells, Returns, SaleOrder
    <2> QED
      BY <2>1, SoldTail
  <1>3. ASSUME NEW k \in DOMAIN Tail(t), Tail(t)[k].do = "read", "stock" \in Tail(t)[k].requires,
               Sold(t, Tail(t)[k].item) <= Tail(t)[k].need
        PROVE  Sold(Tail(t), Tail(t)[k].item) <= Tail(t)[k].need
    <2>1. Tail(t)[k] \in Step
      BY <1>1
    <2>2. Tail(t)[k].need \in Int
      BY <1>3, <2>1, StepFacts
    <2> QED
      BY <1>2, <1>3, <2>2
  <1>4. ASSUME NEW k \in DOMAIN Tail(t)
        PROVE  \/ Sells(Tail(t)[k]) /\ Tail(t)[k].qty <= 0
               \/ Returns(Tail(t)[k]) /\ Tail(t)[k].qty >= 0
               \/ /\ Tail(t)[k].do = "read" /\ "stock" \in Tail(t)[k].requires
                  /\ Sold(Tail(t), Tail(t)[k].item) <= Tail(t)[k].need
    BY <1>1, <1>3 DEF SaleOrder
  <1>5. ASSUME NEW j \in DOMAIN Tail(t), NEW k \in DOMAIN Tail(t), j < k
        PROVE  /\ Sells(Tail(t)[j]) => Sells(Tail(t)[k])
               /\ Tail(t)[j].do = "read" => ~Returns(Tail(t)[k])
    <2>1. j + 1 \in DOMAIN t /\ k + 1 \in DOMAIN t /\ j + 1 < k + 1
      BY <1>1, <1>5
    <2> QED
      BY <1>1, <2>1 DEF SaleOrder
  <1> QED
    BY <1>4, <1>5 DEF SaleOrder

-----------------------------------------------------------------------------
(* The programs.                                                           *)

LEMMA ConcatFacts ==
    ASSUME NEW s \in Seq(Step), NEW t \in Seq(Step)
    PROVE  /\ s \o t \in Seq(Step) /\ Len(s) \in Nat
           /\ \A k \in DOMAIN (s \o t) :
                 /\ k \in Nat /\ k >= 1
                 /\ \/ k \in DOMAIN s /\ k <= Len(s) /\ (s \o t)[k] = s[k]
                    \/ k > Len(s) /\ k - Len(s) \in DOMAIN t /\ (s \o t)[k] = t[k - Len(s)]
  OBVIOUS

\* What comes back, then the checks, then what goes out.
LEMMA SaleShape ==
    ASSUME NEW a \in Seq(Step), NEW b \in Seq(Step), NEW c \in Seq(Step),
           \A k \in DOMAIN a : Returns(a[k]) /\ a[k].qty >= 0,
           \A k \in DOMAIN b : /\ b[k].do = "read" /\ "stock" \in b[k].requires
                               /\ Sold(c, b[k].item) <= b[k].need,
           \A k \in DOMAIN c : Sells(c[k]) /\ c[k].qty <= 0
    PROVE  (a \o b) \o c \in Seq(Step) /\ SaleOrder((a \o b) \o c)
  <1>1. PICK s \in Seq(Step) : s = a \o b
    BY ConcatFacts
  <1>2. PICK t \in Seq(Step) : t = s \o c
    BY ConcatFacts
  <1>3. ASSUME NEW i
        PROVE  Sold(t, i) = Sold(c, i)
    <2>1. Sold(a, i) = 0 /\ Sold(b, i) = 0
      BY SoldNone DEF Selling, Sells, Returns
    <2>2. Sold(a \o b, i) = Sold(a, i) + Sold(b, i) /\ Sold(s \o c, i) = Sold(s, i) + Sold(c, i)
      BY SoldConcat
    <2>3. Sold(c, i) \in Int
      BY SoldIsSum
    <2> QED
      BY <1>1, <1>2, <2>1, <2>2, <2>3
  <1>4. ASSUME NEW k \in DOMAIN t
        PROVE  /\ k \in Nat
               /\ \/ k <= Len(a) /\ Returns(t[k]) /\ t[k].qty >= 0
                  \/ /\ k > Len(a) /\ k <= Len(s)
                     /\ t[k].do = "read" /\ "stock" \in t[k].requires
                     /\ Sold(c, t[k].item) <= t[k].need
                  \/ k > Len(s) /\ Sells(t[k]) /\ t[k].qty <= 0
    <2>1. /\ k \in Nat /\ k >= 1 /\ Len(a) \in Nat /\ Len(s) \in Nat
          /\ \/ k \in DOMAIN s /\ k <= Len(s) /\ t[k] = s[k]
             \/ k > Len(s) /\ k - Len(s) \in DOMAIN c /\ t[k] = c[k - Len(s)]
      BY <1>2, ConcatFacts
    <2>2. CASE k > Len(s)
      BY <2>1, <2>2
    <2>3. CASE k \in DOMAIN s /\ k <= Len(s) /\ t[k] = s[k]
      <3>1. \/ k \in DOMAIN a /\ k <= Len(a) /\ s[k] = a[k]
            \/ k > Len(a) /\ k - Len(a) \in DOMAIN b /\ s[k] = b[k - Len(a)]
        BY <1>1, <2>3, ConcatFacts
      <3> QED
        BY <2>1, <2>3, <3>1
    <2> QED
      BY <2>1, <2>2, <2>3
  <1>5. Len(a) \in Nat /\ Len(s) \in Nat /\ Len(a) <= Len(s)
    BY <1>1
  <1>6. ASSUME NEW k \in DOMAIN t
        PROVE  \/ Sells(t[k]) /\ t[k].qty <= 0
               \/ Returns(t[k]) /\ t[k].qty >= 0
               \/ /\ t[k].do = "read" /\ "stock" \in t[k].requires
                  /\ Sold(t, t[k].item) <= t[k].need
    BY <1>3, <1>4
  <1>7. ASSUME NEW j \in DOMAIN t, NEW k \in DOMAIN t, j < k
        PROVE  /\ Sells(t[j]) => Sells(t[k])
               /\ t[j].do = "read" => ~Returns(t[k])
    BY <1>4, <1>5, <1>7 DEF Sells, Returns
  <1>8. SaleOrder(t)
    BY <1>6, <1>7 DEF SaleOrder
  <1> QED
    BY <1>1, <1>2, <1>8

\* Neither deleting nor selling.
Plain(t) == \A k \in DOMAIN t : t[k].do # "delete" /\ ~Sells(t[k])

LEMMA PlainConcat ==
    ASSUME NEW s \in Seq(Step), NEW t \in Seq(Step), Plain(s), Plain(t)
    PROVE  s \o t \in Seq(Step) /\ Plain(s \o t)
  BY ConcatFacts DEF Plain

LEMMA LineFacts ==
    ASSUME NEW lines \in Seq(Line)
    PROVE  /\ DOMAIN lines = 1 .. Len(lines) /\ Len(lines) \in Nat
           /\ \A k \in DOMAIN lines :
                /\ lines[k].item \in Items /\ lines[k].qty \in Nat /\ lines[k].qty \in Int
                /\ lines[k].qty >= 0 /\ - lines[k].qty \in Int /\ - lines[k].qty <= 0
                /\ - (- lines[k].qty) = lines[k].qty
  <1>1. \A line \in Line : line.item \in Items /\ line.qty \in Nat
    BY DEF Line
  <1> QED
    BY <1>1

LEMMA TotalFacts ==
    ASSUME NEW lines \in Seq(Line), NEW i
    PROVE  Total(lines, i) \in Nat
  <1> DEFINE f == [k \in 1 .. Len(lines) |-> IF lines[k].item = i THEN lines[k].qty ELSE 0]
  <1>1. DOMAIN lines = 1 .. Len(lines) /\ \A k \in 1 .. Len(lines) : lines[k].qty \in Nat
    BY LineFacts
  <1>2. f \in [1 .. Len(lines) -> Int] /\ \A k \in 1 .. Len(lines) : f[k] >= 0
    BY <1>1
  <1>3. IsFiniteSet(1 .. Len(lines))
    BY Len(lines) \in Int, 1 \in Int, FS_Interval
  <1>4. Total(lines, i) = SumFunction(f)
    BY <1>1 DEF Total
  <1> HIDE DEF f
  <1> QED
    BY <1>2, <1>3, <1>4, SumPositive

\* One step for each line.
LEMMA BlockFacts ==
    ASSUME NEW lines \in Seq(Line)
    PROVE  /\ \A type \in MovementType :
                /\ In(lines, type) \in Seq(Step) /\ Out(lines, type) \in Seq(Step)
                /\ type # "sale_out" => Plain(In(lines, type)) /\ Plain(Out(lines, type))
           /\ Pins(lines) \in Seq(Step) /\ Plain(Pins(lines))
           /\ PurchaseChecks(lines) \in Seq(Step) /\ Plain(PurchaseChecks(lines))
           /\ SaleChecks(lines) \in Seq(Step) /\ Plain(SaleChecks(lines))
           /\ LET b == ForEachLine(lines, LAMBDA l : ReadStep(l.item, {"stock"}, l.qty))
              IN b \in Seq(Step) /\ Plain(b)
  <1>1. /\ DOMAIN lines = 1 .. Len(lines) /\ Len(lines) \in Nat
        /\ \A k \in 1 .. Len(lines) :
             /\ lines[k].item \in Items /\ lines[k].qty \in Nat /\ - lines[k].qty \in Int
             /\ lines[k].qty \in Int
    BY LineFacts
  <1>2. ASSUME NEW f, DOMAIN f = 1 .. Len(lines), \A k \in 1 .. Len(lines) : f[k] \in Step,
               f = [k \in 1 .. Len(lines) |-> f[k]]
        PROVE  f \in Seq(Step)
    BY <1>1, <1>2
  <1>3. ASSUME NEW type \in MovementType
        PROVE  /\ In(lines, type) \in Seq(Step) /\ Out(lines, type) \in Seq(Step)
               /\ type # "sale_out" => Plain(In(lines, type)) /\ Plain(Out(lines, type))
    <2>1. /\ In(lines, type) \in Seq(Step)
          /\ type # "sale_out" => Plain(In(lines, type))
      BY <1>1 DEF In, ForEachLine, MoveStep, Step, Plain, Sells
    <2>2. /\ Out(lines, type) \in Seq(Step)
          /\ type # "sale_out" => Plain(Out(lines, type))
      BY <1>1 DEF Out, ForEachLine, MoveStep, Step, Plain, Sells
    <2> QED
      BY <2>1, <2>2
  <1>4. Pins(lines) \in Seq(Step) /\ Plain(Pins(lines))
    BY <1>1 DEF Pins, ForEachLine, PinStep, Step, Plain, Sells
  <1>5. PurchaseChecks(lines) \in Seq(Step) /\ Plain(PurchaseChecks(lines))
    BY <1>1 DEF PurchaseChecks, ForEachLine, ReadStep, Step, Plain, Sells
  <1>6. SaleChecks(lines) \in Seq(Step) /\ Plain(SaleChecks(lines))
    BY <1>1, TotalFacts DEF SaleChecks, ForEachLine, ReadStep, Step, Plain, Sells
  <1>7. LET b == ForEachLine(lines, LAMBDA l : ReadStep(l.item, {"stock"}, l.qty))
        IN b \in Seq(Step) /\ Plain(b)
    BY <1>1 DEF ForEachLine, ReadStep, Step, Plain, Sells
  <1> QED
    BY <1>3, <1>4, <1>5, <1>6, <1>7

LEMMA SoldOut ==
    ASSUME NEW lines \in Seq(Line), NEW i
    PROVE  Sold(Out(lines, "sale_out"), i) = Total(lines, i)
  <1> DEFINE t == Out(lines, "sale_out")
             f == [k \in DOMAIN t |-> IF Sells(t[k]) /\ t[k].item = i THEN - t[k].qty ELSE 0]
             g == [k \in DOMAIN lines |-> IF lines[k].item = i THEN lines[k].qty ELSE 0]
  <1>1. DOMAIN t = DOMAIN lines
    BY DEF Out, ForEachLine
  <1>2. ASSUME NEW k \in DOMAIN lines
        PROVE  f[k] = g[k]
    <2>1. t[k] = MoveStep(lines[k].item, - lines[k].qty, "sale_out")
      BY DEF Out, ForEachLine
    <2>2. lines[k].qty \in Int /\ - (- lines[k].qty) = lines[k].qty
      BY LineFacts
    <2>3. Sells(t[k]) /\ t[k].item = lines[k].item /\ t[k].qty = - lines[k].qty
      BY <2>1 DEF Sells, MoveStep
    <2> HIDE DEF t
    <2> QED
      BY <1>1, <2>2, <2>3
  <1>3. f = g
    BY <1>1, <1>2
  <1> QED
    BY <1>3 DEF Sold, Total

\* The sale of new lines, after old ones have come back or without any.
LEMMA SaleProgram ==
    ASSUME NEW old \in Seq(Line), NEW new \in Seq(Line)
    PROVE  \A p \in {CreateSale(new), UpdateSale(old, new)} :
             /\ p \in Seq(Step) /\ SaleOrder(p)
             /\ \A k \in DOMAIN p : p[k].do # "delete"
  <1>1. PICK c \in Seq(Step) : c = Out(new, "sale_out")
    BY BlockFacts DEF MovementType
  <1>2. PICK b \in Seq(Step) : b = SaleChecks(new)
    BY BlockFacts
  <1>3. PICK a \in Seq(Step) : a = In(old, "return_in")
    BY BlockFacts DEF MovementType
  <1>4. PICK e \in Seq(Step) : e = <<>>
    BY <<>> \in Seq(Step)
  <1>5. \A k \in DOMAIN c : Sells(c[k]) /\ c[k].qty <= 0 /\ c[k].do # "delete"
    BY <1>1, LineFacts DEF Out, ForEachLine, MoveStep, Sells
  <1>6. \A k \in DOMAIN a : Returns(a[k]) /\ a[k].qty >= 0 /\ a[k].do # "delete"
    BY <1>3, LineFacts DEF In, ForEachLine, MoveStep, Returns
  <1>7. \A k \in DOMAIN b : /\ b[k].do = "read" /\ "stock" \in b[k].requires
                            /\ Sold(c, b[k].item) <= b[k].need
    <2>1. ASSUME NEW k \in DOMAIN b
          PROVE  /\ b[k].do = "read" /\ "stock" \in b[k].requires
                 /\ b[k].need = Total(new, b[k].item)
      BY <1>2 DEF SaleChecks, ForEachLine, ReadStep
    <2>2. ASSUME NEW i
          PROVE  Sold(c, i) = Total(new, i) /\ Total(new, i) \in Nat
      BY <1>1, SoldOut, TotalFacts
    <2> QED
      BY <2>1, <2>2
  <1>8. ASSUME NEW s \in Seq(Step), \A k \in DOMAIN s : Returns(s[k]) /\ s[k].qty >= 0 /\ s[k].do # "delete"
        PROVE  /\ (s \o b) \o c \in Seq(Step) /\ SaleOrder((s \o b) \o c)
               /\ \A k \in DOMAIN ((s \o b) \o c) : ((s \o b) \o c)[k].do # "delete"
    <2>1. (s \o b) \o c \in Seq(Step) /\ SaleOrder((s \o b) \o c)
      BY <1>5, <1>7, <1>8, SaleShape
    <2> QED
      BY <2>1 DEF SaleOrder, Sells, Returns
  <1>9. CreateSale(new) = (e \o b) \o c /\ UpdateSale(old, new) = (a \o b) \o c
    <2>1. e \o b = b
      BY <1>4
    <2> QED
      BY <1>1, <1>2, <1>3, <2>1 DEF CreateSale, UpdateSale
  <1>10. \A k \in DOMAIN e : Returns(e[k]) /\ e[k].qty >= 0 /\ e[k].do # "delete"
    BY <1>4
  <1> QED
    BY <1>6, <1>8, <1>9, <1>10

\* What the steps of a request are to the invariant.
Sound(t) ==
    /\ t \in Seq(Step)
    /\ Selling(t) => SaleOrder(t)
    /\ DeleteOrder(t)

LEMMA PlainIsSound ==
    ASSUME NEW t \in Seq(Step), Plain(t)
    PROVE  Sound(t)
  BY DEF Plain, Sound, Selling, DeleteOrder

LEMMA OneLineFacts ==
    ASSUME NEW l \in OneLine
    PROVE  /\ l.item \in Items /\ l.qty \in Int /\ - l.qty \in Int
           /\ <<l>> \in Seq(Line)
  <1>1. PICK ls \in LineLists : Len(ls) = 1 /\ l = ls[1]
    BY DEF OneLine
  <1>2. ls \in Seq(Line)
    BY StockAssumption
  <1>3. 1 \in DOMAIN ls /\ l \in Line
    BY <1>1, <1>2
  <1> QED
    BY <1>1, <1>2, <1>3, LineFacts

LEMMA VoidProgram ==
    ASSUME NEW lines \in Seq(Line)
    PROVE  Sound(VoidPurchase(lines))
  <1> DEFINE b == [k \in 1 .. 2 * Len(lines) |->
                     LET l == lines[(k + 1) \div 2] IN
                     IF k % 2 = 1 THEN ReadStep(l.item, {"stock"}, l.qty)
                     ELSE MoveStep(l.item, - l.qty, "return_out")]
  <1>1. Len(lines) \in Nat /\ 2 * Len(lines) \in Nat
    BY LineFacts
  <1>2. ASSUME NEW k \in 1 .. 2 * Len(lines)
        PROVE  b[k] \in Step /\ b[k].do # "delete" /\ ~Sells(b[k])
    <2> DEFINE j == (k + 1) \div 2
    <2>1. j \in 1 .. Len(lines)
      BY <1>1
    <2>2. PICK i \in Items, q \in Nat : i = lines[j].item /\ q = lines[j].qty /\ - q \in Int
      BY <2>1, LineFacts
    <2>3. b[k] = IF k % 2 = 1 THEN ReadStep(i, {"stock"}, q) ELSE MoveStep(i, - q, "return_out")
      BY <2>2
    <2>4. ReadStep(i, {"stock"}, q) \in Step /\ MoveStep(i, - q, "return_out") \in Step
      BY <2>2 DEF ReadStep, MoveStep, Step, MovementType
    <2>5. /\ ReadStep(i, {"stock"}, q).do = "read"
          /\ MoveStep(i, - q, "return_out").do = "move"
          /\ MoveStep(i, - q, "return_out").type = "return_out"
      BY DEF ReadStep, MoveStep
    <2> HIDE DEF b, j
    <2> QED
      BY <2>3, <2>4, <2>5 DEF Sells
  <1>3. b \in Seq(Step) /\ Plain(b)
    <2>1. DOMAIN b = 1 .. 2 * Len(lines)
      OBVIOUS
    <2>2. \E n \in Nat : b \in [1 .. n -> Step]
      BY <1>1, <1>2
    <2> HIDE DEF b
    <2>3. b \in Seq(Step)
      BY <2>2
    <2> QED
      BY <1>2, <2>1, <2>3 DEF Plain
  <1>4. VoidPurchase(lines) = Pins(lines) \o b
    BY DEF VoidPurchase
  <1>5. Pins(lines) \in Seq(Step) /\ Plain(Pins(lines))
    BY BlockFacts
  <1> HIDE DEF b
  <1> QED
    BY <1>3, <1>4, <1>5, PlainConcat, PlainIsSound

LEMMA PlainPrograms ==
    ASSUME NEW lines \in Seq(Line), NEW new \in Seq(Line)
    PROVE  /\ Sound(SaleReturn(lines)) /\ Sound(CreatePurchase(new))
           /\ \A p \in BOOLEAN : Sound(UpdatePurchase(lines, new, p))
           /\ Sound(PurchaseReturn(lines))
  <1> DEFINE checks == ForEachLine(lines, LAMBDA l : ReadStep(l.item, {"stock"}, l.qty))
  <1>1. /\ In(lines, "return_in") \in Seq(Step) /\ Plain(In(lines, "return_in"))
        /\ In(new, "purchase_in") \in Seq(Step) /\ Plain(In(new, "purchase_in"))
        /\ Out(lines, "return_out") \in Seq(Step) /\ Plain(Out(lines, "return_out"))
    BY BlockFacts DEF MovementType
  <1>2. /\ PurchaseChecks(new) \in Seq(Step) /\ Plain(PurchaseChecks(new))
        /\ Pins(lines) \in Seq(Step) /\ Plain(Pins(lines))
        /\ checks \in Seq(Step) /\ Plain(checks)
    BY BlockFacts
  <1>3. <<>> \in Seq(Step) /\ Plain(<<>>)
    BY DEF Plain
  <1>4. Sound(SaleReturn(lines))
    BY <1>1, PlainIsSound DEF SaleReturn
  <1>5. Sound(CreatePurchase(new))
    BY <1>1, <1>2, PlainConcat, PlainIsSound DEF CreatePurchase
  <1>6. Sound(PurchaseReturn(lines))
    <2>1. PurchaseReturn(lines) = checks \o Out(lines, "return_out")
      BY DEF PurchaseReturn
    <2> HIDE DEF checks
    <2> QED
      BY <1>1, <1>2, <2>1, PlainConcat, PlainIsSound
  <1>7. ASSUME NEW p \in BOOLEAN
        PROVE  Sound(UpdatePurchase(lines, new, p))
    <2>1. PICK a \in Seq(Step) : a = (IF p THEN <<>> ELSE Pins(lines)) /\ Plain(a)
      BY <1>2, <1>3
    <2>2. a \o Out(lines, "return_out") \in Seq(Step) /\ Plain(a \o Out(lines, "return_out"))
      BY <1>1, <2>1, PlainConcat
    <2>3. PICK d \in Seq(Step) : d = (a \o Out(lines, "return_out")) \o PurchaseChecks(new) /\ Plain(d)
      BY <1>2, <2>2, PlainConcat
    <2>4. UpdatePurchase(lines, new, p) = d \o In(new, "purchase_in")
      BY <2>1, <2>3 DEF UpdatePurchase
    <2> QED
      BY <1>1, <2>3, <2>4, PlainConcat, PlainIsSound
  <1> QED
    BY <1>4, <1>5, <1>6, <1>7

LEMMA OtherPrograms ==
    ASSUME NEW materials \in Seq(Line), NEW l \in OneLine
    PROVE  /\ Sound(CompleteOrder(materials, l)) /\ Sound(DeleteItem(l.item))
           /\ Sound(AdjustStock(l.item, l.qty)) /\ Sound(AdjustStock(l.item, - l.qty))
  <1> DEFINE checks == ForEachLine(materials, LAMBDA m : ReadStep(m.item, {"stock"}, m.qty))
  <1>1. l.item \in Items /\ l.qty \in Int /\ - l.qty \in Int /\ <<l>> \in Seq(Line)
    BY OneLineFacts
  <1>2. Sound(CompleteOrder(materials, l))
    <2>1. PinStep(l.item) \in Step /\ PinStep(l.item).do = "pin"
      BY <1>1 DEF PinStep, Step
    <2>2. PICK a \in Seq(Step) : a = <<PinStep(l.item)>> /\ Plain(a)
      <3>1. <<PinStep(l.item)>> \in Seq(Step)
        BY <2>1
      <3>2. PICK t : t = <<PinStep(l.item)>>
        OBVIOUS
      <3>3. t \in Seq(Step) /\ DOMAIN t = {1} /\ t[1] = PinStep(l.item)
        BY <3>1, <3>2
      <3>4. Plain(t)
        BY <2>1, <3>3 DEF Plain, Sells
      <3> QED
        BY <3>2, <3>3, <3>4
    <2>3. checks \in Seq(Step) /\ Plain(checks)
      BY BlockFacts
    <2>4. /\ Out(materials, "production_out") \in Seq(Step) /\ Plain(Out(materials, "production_out"))
          /\ In(<<l>>, "production_in") \in Seq(Step) /\ Plain(In(<<l>>, "production_in"))
      BY <1>1, BlockFacts DEF MovementType
    <2>5. CompleteOrder(materials, l) =
            ((a \o checks) \o Out(materials, "production_out")) \o In(<<l>>, "production_in")
      BY <2>2 DEF CompleteOrder
    <2> HIDE DEF checks
    <2>6. PICK c \in Seq(Step) : c = a \o checks /\ Plain(c)
      BY <2>2, <2>3, PlainConcat
    <2>7. PICK d \in Seq(Step) : d = c \o Out(materials, "production_out") /\ Plain(d)
      BY <2>4, <2>6, PlainConcat
    <2>8. CompleteOrder(materials, l) = d \o In(<<l>>, "production_in")
      BY <2>5, <2>6, <2>7
    <2> QED
      BY <2>4, <2>7, <2>8, PlainConcat, PlainIsSound
  <1>3. ASSUME NEW q \in Int
        PROVE  Sound(AdjustStock(l.item, q))
    <2>1. /\ ReadStep(l.item, {}, 0) \in Step /\ MoveStep(l.item, q, "adjustment") \in Step
          /\ ReadStep(l.item, {}, 0).do = "read" /\ MoveStep(l.item, q, "adjustment").do = "move"
          /\ MoveStep(l.item, q, "adjustment").type = "adjustment"
      BY <1>1 DEF ReadStep, MoveStep, Step, MovementType
    <2>2. PICK t : t = AdjustStock(l.item, q)
      OBVIOUS
    <2>3. t \in Seq(Step) /\ Plain(t)
      BY <2>1, <2>2 DEF AdjustStock, Plain, Sells
    <2> QED
      BY <2>2, <2>3, PlainIsSound
  <1>4. Sound(DeleteItem(l.item))
    <2>1. /\ ReadStep(l.item, {"active"}, 0) \in Step /\ DeleteStep(l.item) \in Step
          /\ ReadStep(l.item, {"active"}, 0).do = "read" /\ DeleteStep(l.item).do = "delete"
          /\ ReadStep(l.item, {"active"}, 0).item = l.item /\ DeleteStep(l.item).item = l.item
      BY <1>1 DEF ReadStep, DeleteStep, Step
    <2>2. PICK t : t = DeleteItem(l.item)
      OBVIOUS
    <2>3. t \in Seq(Step) /\ ~Selling(t) /\ DeleteOrder(t)
      BY <2>1, <2>2 DEF DeleteItem, Selling, Sells, DeleteOrder
    <2> QED
      BY <2>2, <2>3 DEF Sound
  <1> QED
    BY <1>1, <1>2, <1>3, <1>4

LEMMA ProgramFacts ==
    ASSUME NEW op \in Ops, NEW lines \in Seq(Line), NEW new \in LineLists,
           NEW p \in Programs(op, lines, new)
    PROVE  Sound(p)
  <1>1. new \in Seq(Line)
    BY StockAssumption
  <1>2. op \in {"sale", "updateSale", "voidSale", "saleReturn", "purchase", "updatePurchase",
                "voidPurchase", "purchaseReturn", "complete", "adjust", "delete"}
    BY StockAssumption
  <1>3. CASE op \in {"sale", "updateSale"}
    <2>1. p \in {CreateSale(new), UpdateSale(lines, new)}
      BY <1>3 DEF Programs
    <2>2. /\ p \in Seq(Step) /\ SaleOrder(p)
          /\ \A k \in DOMAIN p : p[k].do # "delete"
      BY <1>1, <2>1, SaleProgram
    <2> QED
      BY <2>2 DEF Sound, DeleteOrder
  <1>4. CASE op \in {"voidSale", "saleReturn"}
    <2>1. p = SaleReturn(lines)
      BY <1>4 DEF Programs
    <2> QED
      BY <1>1, <2>1, PlainPrograms
  <1>5. CASE op = "purchase"
    <2>1. p = CreatePurchase(new)
      BY <1>5 DEF Programs
    <2> QED
      BY <1>1, <2>1, PlainPrograms
  <1>6. CASE op = "updatePurchase"
    <2>1. \E b \in BOOLEAN : p = UpdatePurchase(lines, new, b)
      BY <1>6 DEF Programs
    <2> QED
      BY <1>1, <2>1, PlainPrograms
  <1>7. CASE op = "voidPurchase"
    <2>1. p = VoidPurchase(lines)
      BY <1>7 DEF Programs
    <2> QED
      BY <2>1, VoidProgram
  <1>8. CASE op = "purchaseReturn"
    <2>1. p = PurchaseReturn(lines)
      BY <1>8 DEF Programs
    <2> QED
      BY <1>1, <2>1, PlainPrograms
  <1>9. CASE op = "complete"
    <2>1. \E l \in OneLine : p = CompleteOrder(new, l)
      BY <1>9 DEF Programs
    <2> QED
      BY <1>1, <2>1, OtherPrograms
  <1>10. CASE op = "adjust"
    <2>1. \E l \in OneLine : p \in {AdjustStock(l.item, l.qty), AdjustStock(l.item, - l.qty)}
      BY <1>10 DEF Programs
    <2> QED
      BY <1>1, <2>1, OtherPrograms
  <1>11. CASE op = "delete"
    <2>1. \E l \in OneLine : p = DeleteItem(l.item)
      BY <1>11 DEF Programs
    <2> QED
      BY <1>1, <2>1, OtherPrograms
  <1> QED
    BY <1>2, <1>3, <1>4, <1>5, <1>6, <1>7, <1>8, <1>9, <1>10, <1>11

-----------------------------------------------------------------------------
(* Steps of one session.                                                   *)

LEMMA NoObjectFacts == NoObject \notin Object
  BY StockAssumption DEF Object

LEMMA SessionTypes ==
    ASSUME TypeOK, NEW r \in Requests
    PROVE  /\ todo[r] \in Seq(Step) /\ held[r] \in SUBSET Items
           /\ objects[r] \in [Items -> Object \cup {NoObject}]
           /\ posted[r] \in [Items -> Seq(Row)]
           /\ \A i \in Items : /\ objects[r][i] \in Object \cup {NoObject}
                               /\ posted[r][i] \in Seq(Row)
                               /\ stock[i] \in Int /\ status[i] \in {"absent", "active", "deleted"}
  BY DEF TypeOK

LEMMA ObjectFacts ==
    ASSUME NEW o \in Object
    PROVE  o.stock \in Int /\ o.status \in {"active", "deleted"} /\ o.pinned \in BOOLEAN
  BY DEF Object

LEMMA RowFacts ==
    ASSUME NEW row \in Row
    PROVE  /\ row.type \in MovementType /\ row.qty \in Int /\ row.before \in Int
           /\ row.after \in Int /\ row.fresh \in BOOLEAN
  BY DEF Row

LEMMA LastFacts ==
    ASSUME NEW p \in Seq(Row), p # <<>>
    PROVE  /\ Len(p) \in Nat /\ Len(p) >= 1 /\ Len(p) \in DOMAIN p /\ 1 \in DOMAIN p
           /\ Last(p) = p[Len(p)] /\ Last(p) \in Row
  BY DEF Last

LEMMA SeenFacts ==
    ASSUME TypeOK, NEW r \in Requests, NEW i \in Items
    PROVE  Seen(r, i) \in Int
  <1>1. stock[i] \in Int /\ posted[r][i] \in Seq(Row)
    BY SessionTypes
  <1>2. posted[r][i] # <<>> => Last(posted[r][i]) \in Row
    BY <1>1, LastFacts
  <1> QED
    BY <1>1, <1>2, RowFacts DEF Seen

\* The object that a SELECT returns.
LEMMA LoadedFacts ==
    ASSUME TypeOK, NEW r \in Requests, NEW i \in Items, status[i] # "absent"
    PROVE  /\ Loaded(r, i) \in Object /\ Loaded(r, i) # NoObject
           /\ objects[r][i] # NoObject => Loaded(r, i) = objects[r][i]
           /\ objects[r][i] = NoObject =>
                /\ Loaded(r, i).stock = Seen(r, i) /\ Loaded(r, i).status = status[i]
                /\ Loaded(r, i).pinned = FALSE
  <1>1. /\ objects[r][i] \in Object \cup {NoObject} /\ Seen(r, i) \in Int
        /\ status[i] \in {"active", "deleted"}
    BY SessionTypes, SeenFacts
  <1>2. [stock |-> Seen(r, i), status |-> status[i], pinned |-> FALSE] \in Object
    BY <1>1 DEF Object
  <1> QED
    BY <1>1, <1>2, NoObjectFacts DEF Loaded

\* A step of session r alone.
Local(r) ==
    /\ UNCHANGED dbVars
    /\ \A s \in Requests \ {r} :
         /\ open'[s] = open[s] /\ todo'[s] = todo[s] /\ held'[s] = held[s]
         /\ objects'[s] = objects[s] /\ posted'[s] = posted[s]

LEMMA LocalStep ==
    ASSUME TypeOK, IInv, NEW r \in Requests, Local(r),
           SessionOK(r)', SaleOK(r)', \A i \in Items : RowsOK(r, i)'
    PROVE  IInv'
  <1>1. status' = status /\ stock' = stock /\ moves' = moves
    BY DEF Local, dbVars
  <1>2. ASSUME NEW s \in Requests \ {r}
        PROVE  SessionOK(s)' /\ SaleOK(s)' /\ \A i \in Items : RowsOK(s, i)'
    <2>1. /\ open'[s] = open[s] /\ todo'[s] = todo[s] /\ held'[s] = held[s]
          /\ objects'[s] = objects[s] /\ posted'[s] = posted[s]
      BY DEF Local
    <2>2. SessionOK(s) /\ SaleOK(s) /\ \A i \in Items : RowsOK(s, i)
      BY DEF IInv
    <2>3. SaleOK(s)'
      BY <2>1, <2>2 DEF SaleOK
    <2>4. \A i \in Items : RowsOK(s, i)'
      BY <1>1, <2>1, <2>2 DEF RowsOK
    <2>5. ASSUME NEW i \in held'[s]
          PROVE  Free(s, i)'
      <3>1. SUFFICES ASSUME NEW q \in Requests \ {s}
                     PROVE  i \notin held'[q]
        BY DEF Free
      <3>2. CASE q = r
        BY <2>5, <3>2 DEF SessionOK, Free
      <3>3. CASE q # r
        <4>1. held'[q] = held[q]
          BY <3>3 DEF Local
        <4> QED
          BY <2>1, <2>2, <2>5, <4>1 DEF SessionOK, Free
      <3> QED
        BY <3>2, <3>3
    <2>6. SessionOK(s)'
      BY <1>1, <2>1, <2>2, <2>5 DEF SessionOK
    <2> QED
      BY <2>3, <2>4, <2>6
  <1>3. (FreshRowsChain /\ MovementsAddUp /\ KeptSalesStayAboveZero)'
    BY <1>1 DEF IInv, FreshRowsChain, MovementsAddUp, KeptSalesStayAboveZero, Before
  <1> QED
    BY <1>2, <1>3 DEF IInv

\* The end of a session, of which nothing remains.
LEMMA EndSessionFacts ==
    ASSUME TypeOK, NEW r \in Requests, EndSession(r)
    PROVE  /\ open'[r] = FALSE /\ todo'[r] = <<>> /\ held'[r] = {} /\ job'[r] = NoJob
           /\ objects'[r] = [i \in Items |-> NoObject] /\ posted'[r] = [i \in Items |-> <<>>]
           /\ \A s \in Requests \ {r} :
                /\ open'[s] = open[s] /\ todo'[s] = todo[s] /\ held'[s] = held[s]
                /\ objects'[s] = objects[s] /\ posted'[s] = posted[s]
           /\ open' \in [Requests -> BOOLEAN] /\ todo' \in [Requests -> Seq(Step)]
           /\ job' \in [Requests -> [doc : DocIds \cup {NoDoc}, leaves : Document \cup {NoDoc}]]
           /\ held' \in [Requests -> SUBSET Items]
           /\ objects' \in [Requests -> [Items -> Object \cup {NoObject}]]
           /\ posted' \in [Requests -> [Items -> Seq(Row)]]
           /\ SessionOK(r)' /\ SaleOK(r)' /\ \A i \in Items : RowsOK(r, i)'
  <1>1. NoJob \in [doc : DocIds \cup {NoDoc}, leaves : Document \cup {NoDoc}]
    BY DEF NoJob
  <1>2. <<>> \in Seq(Step) /\ [i \in Items |-> <<>>] \in [Items -> Seq(Row)]
    OBVIOUS
  <1>3. [i \in Items |-> NoObject] \in [Items -> Object \cup {NoObject}]
    OBVIOUS
  <1>4. /\ open' \in [Requests -> BOOLEAN] /\ todo' \in [Requests -> Seq(Step)]
        /\ held' \in [Requests -> SUBSET Items]
    BY <1>2 DEF EndSession, TypeOK
  <1>5. job' \in [Requests -> [doc : DocIds \cup {NoDoc}, leaves : Document \cup {NoDoc}]]
    BY <1>1 DEF EndSession, TypeOK
  <1>6. /\ objects' \in [Requests -> [Items -> Object \cup {NoObject}]]
        /\ posted' \in [Requests -> [Items -> Seq(Row)]]
    BY <1>2, <1>3 DEF EndSession, TypeOK
  <1>7. /\ open'[r] = FALSE /\ todo'[r] = <<>> /\ held'[r] = {} /\ job'[r] = NoJob
        /\ objects'[r] = [i \in Items |-> NoObject] /\ posted'[r] = [i \in Items |-> <<>>]
    BY DEF EndSession, TypeOK
  <1>8. \A s \in Requests \ {r} :
           /\ open'[s] = open[s] /\ todo'[s] = todo[s] /\ held'[s] = held[s]
           /\ objects'[s] = objects[s] /\ posted'[s] = posted[s]
    BY DEF EndSession, TypeOK
  <1>9. SessionOK(r)' /\ SaleOK(r)' /\ \A i \in Items : RowsOK(r, i)'
    BY <1>7 DEF SessionOK, SaleOK, RowsOK, Selling
  <1> QED
    BY <1>4, <1>5, <1>6, <1>7, <1>8, <1>9

LEMMA AbortKeeps ==
    ASSUME TypeOK, IInv, NEW r \in Requests, Abort(r)
    PROVE  TypeOK' /\ IInv'
  <1>1. EndSession(r) /\ UNCHANGED dbVars
    BY DEF Abort
  <1>2. TypeOK'
    BY <1>1, EndSessionFacts DEF TypeOK, dbVars
  <1>3. Local(r) /\ SessionOK(r)' /\ SaleOK(r)' /\ \A i \in Items : RowsOK(r, i)'
    BY <1>1, EndSessionFacts DEF Local
  <1> QED
    BY <1>2, <1>3, LocalStep

LEMMA BeginKeeps ==
    ASSUME TypeOK, IInv, NEW r \in Requests, NEW p, Sound(p),
           NEW d \in DocIds \cup {NoDoc}, NEW leaves \in Document \cup {NoDoc},
           Begin(r, p, d, leaves)
    PROVE  TypeOK' /\ IInv'
  <1>1. /\ ~open[r] /\ UNCHANGED dbVars /\ held' = held /\ objects' = objects /\ posted' = posted
        /\ \A k \in DOMAIN p : status[p[k].item] # "absent"
        /\ open'[r] = TRUE /\ todo'[r] = p
        /\ \A s \in Requests \ {r} : open'[s] = open[s] /\ todo'[s] = todo[s]
    BY DEF Begin, TypeOK
  <1>2. TypeOK'
    <2>1. open' \in [Requests -> BOOLEAN] /\ todo' \in [Requests -> Seq(Step)]
      BY DEF Begin, TypeOK, Sound
    <2>2. [doc |-> d, leaves |-> leaves] \in [doc : DocIds \cup {NoDoc}, leaves : Document \cup {NoDoc}]
      OBVIOUS
    <2>3. job' \in [Requests -> [doc : DocIds \cup {NoDoc}, leaves : Document \cup {NoDoc}]]
      BY <2>2 DEF Begin, TypeOK
    <2> QED
      BY <1>1, <2>1, <2>3 DEF TypeOK, dbVars
  <1>3. /\ held[r] = {}
        /\ \A i \in Items : objects[r][i] = NoObject /\ posted[r][i] = <<>>
    BY <1>1 DEF IInv, SessionOK
  <1>4. Local(r)
    BY <1>1 DEF Local
  <1>5. SessionOK(r)'
    <2>1. status' = status
      BY <1>1 DEF dbVars
    <2>2. \A k \in DOMAIN p : p[k].do = "delete" =>
             k = 2 /\ p[1].do = "read" /\ p[1].item = p[k].item
      BY DEF Sound, DeleteOrder
    <2> QED
      BY <1>1, <1>3, <2>1, <2>2 DEF SessionOK
  <1>6. SaleOK(r)'
    BY <1>1, <1>3 DEF SaleOK, Sound
  <1>7. \A i \in Items : RowsOK(r, i)'
    BY <1>1, <1>3 DEF RowsOK
  <1> QED
    BY <1>2, <1>4, <1>5, <1>6, <1>7, LocalStep

LEMMA BeginCreateKeeps ==
    ASSUME TypeOK, IInv, NEW r \in Requests, NEW op \in Ops, NEW d \in DocIds,
           NEW lines \in LineLists, BeginCreate(r, op, d, lines)
    PROVE  TypeOK' /\ IInv'
  <1>1. PICK p \in Programs(op, <<>>, lines) :
           Begin(r, p, d, [kind |-> Kind(op), lines |-> lines, live |-> TRUE])
    BY DEF BeginCreate
  <1>2. [kind |-> Kind(op), lines |-> lines, live |-> TRUE] \in Document
    BY DEF Kind, Document
  <1>3. <<>> \in Seq(Line)
    OBVIOUS
  <1>4. Sound(p)
    BY <1>3, ProgramFacts
  <1> QED
    BY <1>1, <1>2, <1>4, BeginKeeps

LEMMA BeginOnDocumentKeeps ==
    ASSUME TypeOK, IInv, NEW r \in Requests, NEW op \in Ops, NEW d \in DocIds,
           NEW lines \in LineLists, BeginOnDocument(r, op, d, lines)
    PROVE  TypeOK' /\ IInv'
  <1> DEFINE after == [kind |-> Kind(op), lines |-> lines,
                       live |-> op \in {"updateSale", "updatePurchase"}]
  <1>1. PICK p \in Programs(op, documents[d].lines, lines) :
           Begin(r, p, d, after) \/ Begin(r, p, NoDoc, NoDoc)
    BY DEF BeginOnDocument
  <1>2. after \in Document
    BY DEF Kind, Document
  <1>3. documents[d].lines \in Seq(Line)
    <2>1. documents[d] \in Document
      BY DEF BeginOnDocument, TypeOK
    <2>2. documents[d].lines \in LineLists
      BY <2>1 DEF Document
    <2> QED
      BY <2>2, StockAssumption
  <1>4. Sound(p)
    BY <1>3, ProgramFacts
  <1> HIDE DEF after
  <1> QED
    BY <1>1, <1>2, <1>4, BeginKeeps

LEMMA BeginOtherKeeps ==
    ASSUME TypeOK, IInv, NEW r \in Requests, NEW op \in Ops, NEW lines \in LineLists,
           BeginOther(r, op, lines)
    PROVE  TypeOK' /\ IInv'
  <1>1. PICK p \in Programs(op, <<>>, lines) : Begin(r, p, NoDoc, NoDoc)
    BY DEF BeginOther
  <1>2. <<>> \in Seq(Line)
    OBVIOUS
  <1>3. Sound(p)
    BY <1>2, ProgramFacts
  <1> QED
    BY <1>1, <1>3, BeginKeeps

\* What the next step is, and what is left after it.
LEMMA NextFacts ==
    ASSUME TypeOK, IInv, NEW r \in Requests, NEW action, NextIs(r, action)
    PROVE  /\ open[r] /\ todo[r] \in Seq(Step) /\ todo[r] # <<>>
           /\ Head(todo[r]) = todo[r][1] /\ todo[r][1] \in Step /\ todo[r][1].do = action
           /\ todo[r][1].item \in Items /\ status[todo[r][1].item] # "absent"
           /\ Tail(todo[r]) \in Seq(Step)
           /\ \A k \in DOMAIN Tail(todo[r]) :
                k + 1 \in DOMAIN todo[r] /\ Tail(todo[r])[k] = todo[r][k + 1] /\ k \in Nat /\ k >= 1
  <1>1. open[r] /\ todo[r] \in Seq(Step) /\ todo[r] # <<>>
    BY SessionTypes DEF NextIs
  <1>2. /\ 1 \in DOMAIN todo[r] /\ Head(todo[r]) = todo[r][1] /\ Tail(todo[r]) \in Seq(Step)
        /\ \A k \in DOMAIN Tail(todo[r]) :
             k + 1 \in DOMAIN todo[r] /\ Tail(todo[r])[k] = todo[r][k + 1] /\ k \in Nat /\ k >= 1
    BY <1>1, TailFacts
  <1>3. todo[r][1] \in Step
    BY <1>1, <1>2
  <1>4. status[todo[r][1].item] # "absent"
    BY <1>2 DEF IInv, SessionOK
  <1> QED
    BY <1>1, <1>2, <1>3, <1>4, StepFacts DEF NextIs

\* The steps that are left, as far as the invariant goes.
LEMMA AdvanceKeeps ==
    ASSUME TypeOK, IInv, NEW r \in Requests, NEW action, NextIs(r, action), Advance(r),
           status' = status
    PROVE  /\ todo' \in [Requests -> Seq(Step)] /\ todo'[r] = Tail(todo[r])
           /\ \A s \in Requests \ {r} : todo'[s] = todo[s]
           /\ \A k \in DOMAIN todo'[r] : status'[todo'[r][k].item] # "absent"
           /\ \A k \in DOMAIN todo'[r] : todo'[r][k].do = "delete" =>
                k = 1 /\ action = "read" /\ todo'[r][k].item = todo[r][1].item
  <1> DEFINE t == todo[r]
  <1>1. /\ t \in Seq(Step) /\ t # <<>> /\ Tail(t) \in Seq(Step) /\ t[1].do = action
        /\ \A k \in DOMAIN Tail(t) : k + 1 \in DOMAIN t /\ Tail(t)[k] = t[k + 1] /\ k \in Nat /\ k >= 1
    BY NextFacts
  <1>2. /\ todo' \in [Requests -> Seq(Step)] /\ todo'[r] = Tail(t)
        /\ \A s \in Requests \ {r} : todo'[s] = todo[s]
    BY <1>1 DEF Advance, TypeOK
  <1>3. SessionOK(r)
    BY DEF IInv
  <1>4. \A k \in DOMAIN Tail(t) : status[Tail(t)[k].item] # "absent"
    BY <1>1, <1>3 DEF SessionOK
  <1>5. ASSUME NEW k \in DOMAIN Tail(t), Tail(t)[k].do = "delete"
        PROVE  k = 1 /\ action = "read" /\ Tail(t)[k].item = t[1].item
    <2>1. /\ k + 1 \in DOMAIN t /\ t[k + 1].do = "delete" /\ Tail(t)[k] = t[k + 1]
          /\ k \in Nat /\ k >= 1
      BY <1>1, <1>5
    <2>2. k + 1 = 2 /\ t[1].do = "read" /\ t[1].item = t[k + 1].item
      BY <1>3, <2>1 DEF SessionOK
    <2> QED
      BY <1>1, <2>1, <2>2
  <1>6. \A k \in DOMAIN Tail(t) : Tail(t)[k].do = "delete" =>
           k = 1 /\ action = "read" /\ Tail(t)[k].item = t[1].item
    BY <1>5
  <1>7. \A k \in DOMAIN todo'[r] : status'[todo'[r][k].item] # "absent"
    BY <1>2, <1>4
  <1>8. \A k \in DOMAIN todo'[r] : todo'[r][k].do = "delete" =>
           k = 1 /\ action = "read" /\ todo'[r][k].item = t[1].item
    BY <1>2, <1>6
  <1> QED
    BY <1>2, <1>7, <1>8

\* A sale in progress takes a step.
LEMMA SaleAdvance ==
    ASSUME TypeOK, IInv, NEW r \in Requests, NEW action, NextIs(r, action),
           Selling(Tail(todo[r]))
    PROVE  /\ Selling(todo[r]) /\ SaleOrder(Tail(todo[r]))
           /\ \A i : /\ Sold(todo[r], i) = Sale(todo[r][1], i) + Sold(Tail(todo[r]), i)
                     /\ Sold(todo[r], i) \in Int /\ Sold(Tail(todo[r]), i) \in Nat
           /\ \/ /\ Sells(todo[r][1])
                 /\ \A k \in DOMAIN Tail(todo[r]) : Sells(Tail(todo[r])[k])
              \/ Returns(todo[r][1])
              \/ /\ todo[r][1].do = "read" /\ "stock" \in todo[r][1].requires
                 /\ Sold(todo[r], todo[r][1].item) <= todo[r][1].need
                 /\ \A k \in DOMAIN Tail(todo[r]) : ~Returns(Tail(todo[r])[k])
           /\ (\A k \in DOMAIN todo[r] : ~Returns(todo[r][k])) =>
                 \A k \in DOMAIN Tail(todo[r]) : ~Returns(Tail(todo[r])[k])
  <1>1. PICK t \in Seq(Step) : t = todo[r]
    BY SessionTypes
  <1>2. /\ t # <<>> /\ Tail(t) \in Seq(Step) /\ 1 \in DOMAIN t /\ t[1] \in Step
        /\ \A k \in DOMAIN Tail(t) : /\ k + 1 \in DOMAIN t /\ Tail(t)[k] = t[k + 1]
                                     /\ k \in Nat /\ k >= 1
    BY <1>1, NextFacts, TailFacts
  <1>3. Selling(t)
    BY <1>1, <1>2 DEF Selling
  <1>4. SaleOrder(t)
    BY <1>1, <1>3 DEF IInv, SaleOK
  <1>5. SaleOrder(Tail(t))
    BY <1>2, <1>4, SaleOrderTail
  <1>6. ASSUME NEW i
        PROVE  /\ Sold(t, i) = Sale(t[1], i) + Sold(Tail(t), i)
               /\ Sold(t, i) \in Int /\ Sold(Tail(t), i) \in Nat
    <2>1. \A k \in DOMAIN Tail(t) : Sells(Tail(t)[k]) => Tail(t)[k].qty <= 0
      BY <1>5 DEF SaleOrder, Sells, Returns
    <2> QED
      BY <1>2, <2>1, SoldTail, SoldPositive
  <1>7. \/ Sells(t[1]) /\ \A k \in DOMAIN Tail(t) : Sells(Tail(t)[k])
        \/ Returns(t[1])
        \/ /\ t[1].do = "read" /\ "stock" \in t[1].requires
           /\ Sold(t, t[1].item) <= t[1].need
           /\ \A k \in DOMAIN Tail(t) : ~Returns(Tail(t)[k])
    <2>1. \A k \in DOMAIN Tail(t) : 1 < k + 1
      BY <1>2
    <2>2. CASE Sells(t[1])
      BY <1>2, <1>4, <2>1, <2>2 DEF SaleOrder
    <2>3. CASE t[1].do = "read"
      <3>1. "stock" \in t[1].requires /\ Sold(t, t[1].item) <= t[1].need
        BY <1>2, <1>4, <2>3 DEF SaleOrder, Sells, Returns
      <3>2. \A k \in DOMAIN Tail(t) : ~Returns(Tail(t)[k])
        BY <1>2, <1>4, <2>1, <2>3 DEF SaleOrder
      <3> QED
        BY <2>3, <3>1, <3>2
    <2> QED
      BY <1>2, <1>4, <2>2, <2>3 DEF SaleOrder
  <1> QED
    BY <1>1, <1>2, <1>3, <1>5, <1>6, <1>7

\* What a read or a pin finds agrees with the rows the session has inserted.
LEMMA LoadedRows ==
    ASSUME TypeOK, IInv, NEW r \in Requests, NEW i \in Items, status[i] # "absent",
           posted[r][i] # <<>>
    PROVE  Loaded(r, i).stock = Last(posted[r][i]).after
  <1>1. RowsOK(r, i)
    BY DEF IInv
  <1> QED
    BY <1>1, LoadedFacts DEF RowsOK, Seen

\* An object that says its item is deleted is right, or its session will make it so.
LEMMA LoadedDeleted ==
    ASSUME TypeOK, IInv, NEW r \in Requests, NEW i \in Items, status[i] # "absent",
           Loaded(r, i).status = "deleted"
    PROVE  status[i] = "deleted" \/ i \in held[r]
  <1>1. SessionOK(r)
    BY DEF IInv
  <1> QED
    BY <1>1, LoadedFacts DEF SessionOK

LEMMA ReadKeeps ==
    ASSUME TypeOK, IInv, NEW r \in Requests, Read(r)
    PROVE  TypeOK' /\ IInv'
  <1> DEFINE step == todo[r][1]
             i == step.item
             object == Loaded(r, i)
             refused == \/ "active" \in step.requires /\ object.status # "active"
                        \/ "stock" \in step.requires /\ object.stock < step.need
             kept(j) == IF j = i THEN object
                        ELSE IF objects[r][j] # NoObject /\ objects[r][j].pinned
                             THEN objects[r][j]
                             ELSE NoObject
  <1>1. NextIs(r, "read") /\ Head(todo[r]) = todo[r][1]
    <2>1. NextIs(r, "read")
      BY DEF Read
    <2> QED
      BY <2>1, NextFacts
  <1>2. \/ /\ ~refused
           /\ objects' = [objects EXCEPT ![r] = [j \in Items |-> kept(j)]]
           /\ Advance(r)
           /\ UNCHANGED <<dbVars, open, job, held, posted>>
        \/ Abort(r)
    BY <1>1 DEF Read
  <1>3. SUFFICES ASSUME ~refused,
                        objects' = [objects EXCEPT ![r] = [j \in Items |-> kept(j)]],
                        Advance(r), UNCHANGED <<dbVars, open, job, held, posted>>
                 PROVE  TypeOK' /\ IInv'
    BY <1>2, AbortKeeps
  <1>4. /\ step \in Step /\ i \in Items /\ status[i] # "absent" /\ step.do = "read"
        /\ open[r]
    BY <1>1, NextFacts
  <1>5. /\ object \in Object /\ object # NoObject
        /\ objects[r][i] # NoObject => object = objects[r][i]
        /\ objects[r][i] = NoObject => object.pinned = FALSE
    BY <1>4, LoadedFacts
  <1>6. /\ todo' \in [Requests -> Seq(Step)] /\ todo'[r] = Tail(todo[r])
        /\ \A s \in Requests \ {r} : todo'[s] = todo[s]
        /\ \A k \in DOMAIN todo'[r] : status'[todo'[r][k].item] # "absent"
        /\ \A k \in DOMAIN todo'[r] : todo'[r][k].do = "delete" =>
             k = 1 /\ todo'[r][k].item = i
    <2>1. status' = status
      BY <1>3 DEF dbVars
    <2> QED
      BY <1>1, <1>3, <2>1, AdvanceKeeps
  <1>7. ~("stock" \in step.requires /\ object.stock < step.need)
    BY <1>3
  <1> HIDE DEF step, object, refused
  <1>8. [j \in Items |-> kept(j)] \in [Items -> Object \cup {NoObject}]
    BY <1>5, SessionTypes
  <1>9. /\ objects' \in [Requests -> [Items -> Object \cup {NoObject}]]
        /\ objects'[r] = [j \in Items |-> kept(j)]
        /\ \A s \in Requests \ {r} : objects'[s] = objects[s]
    <2> HIDE DEF kept
    <2> QED
      BY <1>3, <1>8 DEF TypeOK
  <1>10. \A j \in Items : \/ j = i /\ objects'[r][j] = object
                          \/ j # i /\ objects'[r][j] = NoObject
                          \/ /\ j # i /\ objects[r][j] # NoObject /\ objects[r][j].pinned
                             /\ objects'[r][j] = objects[r][j]
    BY <1>9
  <1> HIDE DEF kept
  <1>11. TypeOK'
    BY <1>3, <1>6, <1>9 DEF TypeOK, dbVars
  <1>12. Local(r)
    BY <1>3, <1>6, <1>9 DEF Local
  <1>13. SessionOK(r) /\ SaleOK(r) /\ \A j \in Items : RowsOK(r, j)
    BY DEF IInv
  <1>14. SessionOK(r)'
    <2>1. held' = held /\ posted' = posted /\ open' = open /\ status' = status
      BY <1>3 DEF dbVars
    <2>2. open'[r]
      BY <1>4, <2>1
    <2>3. \A k \in DOMAIN todo'[r] : todo'[r][k].do = "delete" =>
             k = 1 /\ objects'[r][todo'[r][k].item] # NoObject
      BY <1>4, <1>5, <1>6, <1>10
    <2>4. object.status = "deleted" => status[i] = "deleted" \/ i \in held[r]
      BY <1>4, LoadedDeleted DEF object
    <2>5. \A j \in Items : objects'[r][j] # NoObject /\ objects'[r][j].status = "deleted" =>
             status'[j] = "deleted" \/ j \in held'[r]
      BY <1>10, <1>13, <2>1, <2>4 DEF SessionOK
    <2>6. \A j \in held'[r] : Free(r, j)'
      BY <1>13, <2>1 DEF SessionOK, Free
    <2> QED
      BY <1>6, <2>2, <2>3, <2>5, <2>6 DEF SessionOK
  <1>15. ASSUME Selling(todo'[r])
         PROVE  /\ SaleOrder(todo'[r])
                /\ \A j \in Items : objects'[r][j] # NoObject =>
                     /\ ~objects'[r][j].pinned /\ Sold(todo'[r], j) <= objects'[r][j].stock
                     /\ \A k \in DOMAIN todo'[r] : ~Returns(todo'[r][k])
                /\ \A j \in Items : posted[r][j] # <<>> => Last(posted[r][j]).fresh
    <2>1. Selling(todo[r]) /\ SaleOrder(todo'[r])
      BY <1>1, <1>6, <1>15, SaleAdvance
    <2>2. /\ Sold(todo[r], i) = Sale(step, i) + Sold(todo'[r], i)
          /\ Sold(todo[r], i) \in Int /\ Sold(todo'[r], i) \in Nat
      BY <1>1, <1>6, <1>15, SaleAdvance DEF step
    <2>3. ~Sells(step) /\ ~Returns(step)
      BY <1>4 DEF Sells, Returns
    <2>4. /\ "stock" \in step.requires /\ Sold(todo[r], i) <= step.need
          /\ \A k \in DOMAIN todo'[r] : ~Returns(todo'[r][k])
      BY <1>1, <1>6, <1>15, <2>3, SaleAdvance DEF step
    <2>5. Sale(step, i) = 0
      BY <2>3 DEF Sale
    <2>6. object.stock \in Int /\ step.need \in Int
      BY <1>4, <1>5, ObjectFacts, StepFacts
    <2>7. Sold(todo'[r], i) <= object.stock
      BY <1>7, <2>2, <2>4, <2>5, <2>6
    <2>8. \A j \in Items : objects[r][j] # NoObject => ~objects[r][j].pinned
      BY <1>13, <2>1 DEF SaleOK
    <2>9. \A j \in Items : objects'[r][j] # NoObject => j = i /\ objects'[r][j] = object
      BY <1>10, <2>8
    <2>10. ~object.pinned
      BY <1>4, <1>5, <2>8
    <2>11. 1 \in DOMAIN todo[r]
      BY <1>1, NextFacts, TailFacts
    <2>12. \A j \in Items : posted[r][j] # <<>> => Last(posted[r][j]).fresh
      BY <1>13, <2>1, <2>3, <2>11 DEF SaleOK, step
    <2> QED
      BY <2>1, <2>4, <2>7, <2>9, <2>10, <2>12
  <1>16. SaleOK(r)'
    BY <1>3, <1>15 DEF SaleOK
  <1>17. ASSUME NEW j \in Items
         PROVE  RowsOK(r, j)'
    <2>1. held' = held /\ posted' = posted /\ status' = status /\ stock' = stock
      BY <1>3 DEF dbVars
    <2>2. posted[r][i] # <<>> => object.stock = Last(posted[r][i]).after
      BY <1>4, LoadedRows DEF object
    <2>3. posted[r][j] # <<>> /\ objects'[r][j] # NoObject =>
             objects'[r][j].stock = Last(posted[r][j]).after
      BY <1>10, <1>13, <2>2 DEF RowsOK
    <2> QED
      BY <1>13, <2>1, <2>3 DEF RowsOK
  <1> QED
    BY <1>11, <1>12, <1>14, <1>16, <1>17, LocalStep

\* A sale has no pins and no deletions.
LEMMA SaleSteps ==
    ASSUME TypeOK, IInv, NEW r \in Requests, NEW action \in {"pin", "delete"}, NextIs(r, action)
    PROVE  ~Selling(Tail(todo[r]))
  <1>1. SUFFICES ASSUME Selling(Tail(todo[r]))
                 PROVE  FALSE
    OBVIOUS
  <1>2. todo[r][1].do = action
    BY NextFacts
  <1>3. Sells(todo[r][1]) \/ Returns(todo[r][1]) \/ todo[r][1].do = "read"
    BY <1>1, SaleAdvance
  <1> QED
    BY <1>2, <1>3 DEF Sells, Returns

LEMMA PinKeeps ==
    ASSUME TypeOK, IInv, NEW r \in Requests, Pin(r)
    PROVE  TypeOK' /\ IInv'
  <1> DEFINE i == todo[r][1].item
             object == [Loaded(r, i) EXCEPT !.pinned = TRUE]
  <1>1. NextIs(r, "pin") /\ Head(todo[r]) = todo[r][1]
    <2>1. NextIs(r, "pin")
      BY DEF Pin
    <2> QED
      BY <2>1, NextFacts
  <1>2. /\ objects' = [objects EXCEPT ![r][i] = object]
        /\ Advance(r)
        /\ UNCHANGED <<dbVars, open, job, held, posted>>
    BY <1>1 DEF Pin
  <1>3. i \in Items /\ status[i] # "absent" /\ open[r]
    BY <1>1, NextFacts
  <1>4. /\ Loaded(r, i) \in Object
        /\ objects[r][i] # NoObject => Loaded(r, i) = objects[r][i]
    BY <1>3, LoadedFacts
  <1>5. /\ object \in Object /\ object # NoObject
        /\ object.stock = Loaded(r, i).stock /\ object.status = Loaded(r, i).status
    BY <1>4, NoObjectFacts DEF Object
  <1>6. /\ todo' \in [Requests -> Seq(Step)] /\ todo'[r] = Tail(todo[r])
        /\ \A s \in Requests \ {r} : todo'[s] = todo[s]
        /\ \A k \in DOMAIN todo'[r] : status'[todo'[r][k].item] # "absent"
        /\ \A k \in DOMAIN todo'[r] : todo'[r][k].do # "delete"
    <2>1. status' = status
      BY <1>2 DEF dbVars
    <2> QED
      BY <1>1, <1>2, <2>1, AdvanceKeeps
  <1> HIDE DEF object, i
  <1>7. /\ objects' \in [Requests -> [Items -> Object \cup {NoObject}]]
        /\ \A s \in Requests \ {r} : objects'[s] = objects[s]
        /\ objects'[r][i] = object
        /\ \A j \in Items \ {i} : objects'[r][j] = objects[r][j]
    BY <1>2, <1>3, <1>5 DEF TypeOK
  <1>8. TypeOK'
    BY <1>2, <1>6, <1>7 DEF TypeOK, dbVars
  <1>9. Local(r)
    BY <1>2, <1>6, <1>7 DEF Local
  <1>10. SessionOK(r) /\ SaleOK(r) /\ \A j \in Items : RowsOK(r, j)
    BY DEF IInv
  <1>11. SessionOK(r)'
    <2>1. held' = held /\ posted' = posted /\ open' = open /\ status' = status
      BY <1>2 DEF dbVars
    <2>2. object.status = "deleted" => status[i] = "deleted" \/ i \in held[r]
      BY <1>3, <1>5, LoadedDeleted
    <2>3. \A j \in Items : objects'[r][j] # NoObject /\ objects'[r][j].status = "deleted" =>
             status'[j] = "deleted" \/ j \in held'[r]
      BY <1>7, <1>10, <2>1, <2>2 DEF SessionOK
    <2>4. \A j \in held'[r] : Free(r, j)'
      BY <1>10, <2>1 DEF SessionOK, Free
    <2> QED
      BY <1>3, <1>6, <2>1, <2>3, <2>4 DEF SessionOK
  <1>12. SaleOK(r)'
    BY <1>1, <1>6, SaleSteps DEF SaleOK
  <1>13. ASSUME NEW j \in Items
         PROVE  RowsOK(r, j)'
    <2>1. held' = held /\ posted' = posted /\ status' = status /\ stock' = stock
      BY <1>2 DEF dbVars
    <2>2. posted[r][i] # <<>> => object.stock = Last(posted[r][i]).after
      BY <1>3, <1>5, LoadedRows
    <2>3. posted[r][j] # <<>> /\ objects'[r][j] # NoObject =>
             objects'[r][j].stock = Last(posted[r][j]).after
      BY <1>7, <1>10, <2>2 DEF RowsOK
    <2> QED
      BY <1>10, <2>1, <2>3 DEF RowsOK
  <1> QED
    BY <1>8, <1>9, <1>11, <1>12, <1>13, LocalStep

LEMMA DeleteKeeps ==
    ASSUME TypeOK, IInv, NEW r \in Requests, Delete(r)
    PROVE  TypeOK' /\ IInv'
  <1> DEFINE i == todo[r][1].item
  <1>1. NextIs(r, "delete") /\ Head(todo[r]) = todo[r][1]
    <2>1. NextIs(r, "delete")
      BY DEF Delete
    <2> QED
      BY <2>1, NextFacts
  <1>2. /\ Free(r, i)
        /\ held' = [held EXCEPT ![r] = @ \cup {i}]
        /\ objects' = [objects EXCEPT ![r][i].status = "deleted"]
        /\ Advance(r)
        /\ UNCHANGED <<dbVars, open, job, posted>>
    BY <1>1 DEF Delete
  <1>3. i \in Items /\ open[r]
    BY <1>1, NextFacts
  <1>4. SessionOK(r) /\ SaleOK(r) /\ \A j \in Items : RowsOK(r, j)
    BY DEF IInv
  <1>5. /\ todo' \in [Requests -> Seq(Step)] /\ todo'[r] = Tail(todo[r])
        /\ \A s \in Requests \ {r} : todo'[s] = todo[s]
        /\ \A k \in DOMAIN todo'[r] : status'[todo'[r][k].item] # "absent"
        /\ \A k \in DOMAIN todo'[r] : todo'[r][k].do # "delete"
    <2>1. status' = status
      BY <1>2 DEF dbVars
    <2> QED
      BY <1>1, <1>2, <2>1, AdvanceKeeps
  <1>6. objects[r][i] # NoObject
    <2>1. 1 \in DOMAIN todo[r] /\ todo[r][1].do = "delete"
      BY <1>1, NextFacts, TailFacts
    <2> QED
      BY <1>4, <2>1 DEF SessionOK
  <1> HIDE DEF i
  <1>7. PICK object \in Object : objects[r][i] = object
    BY <1>3, <1>6, SessionTypes
  <1>8. /\ [object EXCEPT !.status = "deleted"] \in Object
        /\ [object EXCEPT !.status = "deleted"].stock = object.stock
    BY DEF Object
  <1>9. /\ objects' \in [Requests -> [Items -> Object \cup {NoObject}]]
        /\ \A s \in Requests \ {r} : objects'[s] = objects[s]
        /\ objects'[r][i] = [object EXCEPT !.status = "deleted"]
        /\ \A j \in Items \ {i} : objects'[r][j] = objects[r][j]
    BY <1>2, <1>3, <1>7, <1>8 DEF TypeOK
  <1>10. /\ held' \in [Requests -> SUBSET Items] /\ held'[r] = held[r] \cup {i}
         /\ \A s \in Requests \ {r} : held'[s] = held[s]
    BY <1>2, <1>3 DEF TypeOK
  <1>11. TypeOK'
    BY <1>2, <1>5, <1>9, <1>10 DEF TypeOK, dbVars
  <1>12. Local(r)
    BY <1>2, <1>5, <1>9, <1>10 DEF Local
  <1>13. SessionOK(r)'
    <2>1. posted' = posted /\ open' = open /\ status' = status
      BY <1>2 DEF dbVars
    <2>2. \A j \in Items : objects'[r][j] # NoObject /\ objects'[r][j].status = "deleted" =>
             status'[j] = "deleted" \/ j \in held'[r]
      BY <1>4, <1>9, <1>10, <2>1 DEF SessionOK
    <2>3. \A j \in held'[r] : Free(r, j)'
      BY <1>2, <1>4, <1>10 DEF SessionOK, Free
    <2> QED
      BY <1>3, <1>5, <2>1, <2>2, <2>3 DEF SessionOK
  <1>14. SaleOK(r)'
    BY <1>1, <1>5, SaleSteps DEF SaleOK
  <1>15. ASSUME NEW j \in Items
         PROVE  RowsOK(r, j)'
    <2>1. posted' = posted /\ status' = status /\ stock' = stock
      BY <1>2 DEF dbVars
    <2>2. posted[r][j] # <<>> /\ objects'[r][j] # NoObject =>
             objects'[r][j].stock = Last(posted[r][j]).after
      BY <1>4, <1>6, <1>7, <1>8, <1>9 DEF RowsOK
    <2> QED
      BY <1>4, <1>10, <2>1, <2>2 DEF RowsOK
  <1> QED
    BY <1>11, <1>12, <1>13, <1>14, <1>15, LocalStep

LEMMA AppendFacts ==
    ASSUME NEW p \in Seq(Row), NEW row \in Row
    PROVE  /\ Append(p, row) \in Seq(Row) /\ Append(p, row) # <<>>
           /\ Last(Append(p, row)) = row
           /\ \A k \in DOMAIN Append(p, row) :
                \/ k \in DOMAIN p /\ k # Len(p) + 1 /\ Append(p, row)[k] = p[k]
                \/ k = Len(p) + 1 /\ Append(p, row)[k] = row
           /\ \A k \in DOMAIN p : k - 1 # Len(p) + 1 /\ k # Len(p) + 1 /\ k \in Int
           /\ Len(p) \in Nat
  BY DEF Last

\* The row that a move inserts continues those that its session has inserted.
LEMMA RowContinues ==
    ASSUME TypeOK, IInv, NEW r \in Requests, NEW i \in Items, status[i] # "absent",
           Loaded(r, i).status = "active", NEW row \in Row,
           row.before = Loaded(r, i).stock, row.after = row.before + row.qty,
           row.fresh = IF posted[r][i] = <<>> THEN objects[r][i] = NoObject
                       ELSE Last(posted[r][i]).fresh,
           row.type = "sale_out" /\ ~row.fresh => row.after >= 0
    PROVE  LET p == Append(posted[r][i], row) IN
           /\ \A k \in DOMAIN p :
                /\ p[k].after = p[k].before + p[k].qty
                /\ p[k].fresh <=> p[1].fresh
                /\ k > 1 => p[k].before = p[k - 1].after
                /\ p[k].type = "sale_out" /\ ~p[k].fresh => p[k].after >= 0
           /\ p[1].fresh => p[1].before = stock[i] /\ status[i] = "active"
  <1>1. RowsOK(r, i) /\ posted[r][i] \in Seq(Row)
    BY SessionTypes DEF IInv
  <1>2. PICK o \in Seq(Row) : o = posted[r][i]
    BY <1>1
  <1>3. PICK p \in Seq(Row) : p = Append(o, row)
    BY AppendFacts
  <1>4. /\ Len(o) \in Nat
        /\ \A k \in DOMAIN p : \/ k \in DOMAIN o /\ p[k] = o[k]
                               \/ k = Len(o) + 1 /\ p[k] = row
    BY <1>3, AppendFacts
  <1>5. CASE o = <<>>
    <2>1. /\ \A k \in DOMAIN p : k = 1 /\ p[k] = row
          /\ p[1] = row
      BY <1>3, <1>5
    <2>2. row.fresh => row.before = stock[i] /\ status[i] = "active"
      BY <1>2, <1>5, LoadedFacts DEF Seen
    <2> QED
      BY <1>2, <1>3, <2>1, <2>2
  <1>6. CASE o # <<>>
    <2>1. /\ \A k \in DOMAIN o :
               /\ o[k].after = o[k].before + o[k].qty
               /\ o[k].fresh <=> o[1].fresh
               /\ k > 1 => o[k].before = o[k - 1].after
               /\ o[k].type = "sale_out" /\ ~o[k].fresh => o[k].after >= 0
          /\ o[1].fresh => o[1].before = stock[i] /\ status[i] = "active"
      BY <1>1, <1>2, <1>6 DEF RowsOK
    <2>2. Len(o) \in DOMAIN o /\ 1 \in DOMAIN o /\ Last(o) = o[Len(o)]
      BY <1>6, LastFacts
    <2>3. p[1] = o[1] /\ \A k \in DOMAIN o : k > 1 => p[k - 1] = o[k - 1]
      BY <1>3, <2>2
    <2>4. p[Len(o)] = Last(o)
      BY <1>3, <2>2
    <2>5. row.before = Last(o).after
      BY <1>2, <1>6, LoadedRows
    <2>6. row.fresh <=> o[1].fresh
      BY <1>2, <1>6, <2>1, <2>2
    <2>7. ASSUME NEW k \in DOMAIN p
          PROVE  /\ p[k].after = p[k].before + p[k].qty
                 /\ p[k].fresh <=> p[1].fresh
                 /\ k > 1 => p[k].before = p[k - 1].after
                 /\ p[k].type = "sale_out" /\ ~p[k].fresh => p[k].after >= 0
      <3>1. CASE k \in DOMAIN o /\ p[k] = o[k]
        BY <2>1, <2>3, <3>1
      <3>2. CASE k = Len(o) + 1 /\ p[k] = row
        <4>1. k - 1 = Len(o)
          BY <1>4, <3>2
        <4>2. p[k].fresh <=> p[1].fresh
          BY <2>3, <2>6, <3>2
        <4>3. p[k].before = p[k - 1].after
          BY <2>4, <2>5, <3>2, <4>1
        <4> QED
          BY <3>2, <4>2, <4>3
      <3> QED
        BY <1>4, <3>1, <3>2
    <2>8. p[1].fresh => p[1].before = stock[i] /\ status[i] = "active"
      BY <2>1, <2>3
    <2> QED
      BY <1>2, <1>3, <2>7, <2>8
  <1> QED
    BY <1>5, <1>6

LEMMA MoveKeeps ==
    ASSUME TypeOK, IInv, NEW r \in Requests, Move(r)
    PROVE  TypeOK' /\ IInv'
  <1> DEFINE step == todo[r][1]
             i == step.item
             object == Loaded(r, i)
             new == object.stock + step.qty
             row == [type |-> step.type, qty |-> step.qty, before |-> object.stock,
                     after |-> new,
                     fresh |-> IF posted[r][i] = <<>> THEN objects[r][i] = NoObject
                               ELSE Last(posted[r][i]).fresh]
  <1>1. NextIs(r, "move") /\ Head(todo[r]) = todo[r][1]
    <2>1. NextIs(r, "move")
      BY DEF Move
    <2> QED
      BY <2>1, NextFacts
  <1>2. \/ /\ Free(r, i) /\ object.status = "active"
           /\ ApplyStockUpdate(r, i, new)
           /\ Record(r, i, row)
           /\ Advance(r)
           /\ UNCHANGED <<dbVars, open, job>>
        \/ Abort(r)
    BY <1>1 DEF Move
  <1>3. SUFFICES ASSUME Free(r, i), object.status = "active",
                        ApplyStockUpdate(r, i, new), Record(r, i, row),
                        Advance(r), UNCHANGED <<dbVars, open, job>>
                 PROVE  TypeOK' /\ IInv'
    BY <1>2, AbortKeeps
  <1>4. /\ step \in Step /\ i \in Items /\ status[i] # "absent" /\ step.do = "move"
        /\ open[r]
    BY <1>1, NextFacts
  <1>5. /\ object \in Object
        /\ objects[r][i] # NoObject => object = objects[r][i]
    BY <1>4, LoadedFacts
  <1>6. /\ object.stock \in Int /\ step.qty \in Int /\ step.type \in MovementType
        /\ new \in Int
    BY <1>4, <1>5, ObjectFacts, StepFacts
  <1>7. SessionOK(r) /\ SaleOK(r) /\ \A j \in Items : RowsOK(r, j)
    BY DEF IInv
  <1>8. /\ todo' \in [Requests -> Seq(Step)] /\ todo'[r] = Tail(todo[r])
        /\ \A s \in Requests \ {r} : todo'[s] = todo[s]
        /\ \A k \in DOMAIN todo'[r] : status'[todo'[r][k].item] # "absent"
        /\ \A k \in DOMAIN todo'[r] : todo'[r][k].do # "delete"
    <2>1. status' = status
      BY <1>3 DEF dbVars
    <2> QED
      BY <1>1, <1>3, <2>1, AdvanceKeeps
  <1>9. posted[r][i] \in Seq(Row) /\ (posted[r][i] # <<>> => Last(posted[r][i]) \in Row)
    BY <1>4, SessionTypes, LastFacts
  <1>10. /\ row \in Row /\ row.type = step.type /\ row.qty = step.qty
         /\ row.before = object.stock /\ row.after = new /\ row.after = row.before + row.qty
         /\ row.fresh = IF posted[r][i] = <<>> THEN objects[r][i] = NoObject
                        ELSE Last(posted[r][i]).fresh
    <2>1. (IF posted[r][i] = <<>> THEN objects[r][i] = NoObject
           ELSE Last(posted[r][i]).fresh) \in BOOLEAN
      BY <1>9, RowFacts
    <2> HIDE DEF step, object
    <2> QED
      BY <1>6, <2>1 DEF Row
  <1>11. held' = [held EXCEPT ![r] = @ \cup {i}] /\ posted' = [posted EXCEPT ![r][i] = Append(@, row)]
    BY <1>3 DEF ApplyStockUpdate, Record
  <1>12. objects' = IF objects[r][i] = NoObject THEN objects
                    ELSE [objects EXCEPT ![r][i].stock = new]
    BY <1>3 DEF ApplyStockUpdate
  <1> HIDE DEF row, object, new
  <1>13. /\ held' \in [Requests -> SUBSET Items] /\ held'[r] = held[r] \cup {i}
         /\ \A s \in Requests \ {r} : held'[s] = held[s]
    BY <1>4, <1>11 DEF TypeOK
  <1>14. /\ posted' \in [Requests -> [Items -> Seq(Row)]]
         /\ posted'[r][i] = Append(posted[r][i], row)
         /\ \A j \in Items \ {i} : posted'[r][j] = posted[r][j]
         /\ \A s \in Requests \ {r} : posted'[s] = posted[s]
    <2>1. Append(posted[r][i], row) \in Seq(Row)
      BY <1>9, <1>10, AppendFacts
    <2> HIDE DEF i
    <2> QED
      BY <1>4, <1>11, <2>1 DEF TypeOK
  <1>15. /\ objects' \in [Requests -> [Items -> Object \cup {NoObject}]]
         /\ \A s \in Requests \ {r} : objects'[s] = objects[s]
         /\ \A j \in Items \ {i} : objects'[r][j] = objects[r][j]
         /\ objects[r][i] = NoObject => objects'[r][i] = NoObject
         /\ objects[r][i] # NoObject =>
              /\ objects'[r][i].stock = new /\ objects'[r][i].status = "active"
              /\ objects'[r][i].pinned = objects[r][i].pinned
    <2>1. CASE objects[r][i] = NoObject
      BY <1>12, <2>1 DEF TypeOK
    <2>2. CASE objects[r][i] # NoObject
      <3>1. object = objects[r][i]
        BY <1>5, <2>2
      <3>2. /\ [object EXCEPT !.stock = new] \in Object
            /\ [object EXCEPT !.stock = new].stock = new
            /\ [object EXCEPT !.stock = new].status = object.status
            /\ [object EXCEPT !.stock = new].pinned = object.pinned
        BY <1>5, <1>6 DEF Object
      <3> HIDE DEF i
      <3>3. objects' = [objects EXCEPT ![r][i].stock = new]
        BY <1>12, <2>2
      <3>4. /\ objects' \in [Requests -> [Items -> Object \cup {NoObject}]]
            /\ objects'[r][i] = [object EXCEPT !.stock = new]
            /\ \A s \in Requests \ {r} : objects'[s] = objects[s]
            /\ \A j \in Items \ {i} : objects'[r][j] = objects[r][j]
        BY <1>4, <3>1, <3>2, <3>3 DEF TypeOK
      <3> QED
        BY <1>3, <2>2, <3>1, <3>2, <3>4
    <2> QED
      BY <2>1, <2>2
  <1>16. TypeOK'
    BY <1>3, <1>8, <1>13, <1>14, <1>15 DEF TypeOK, dbVars
  <1>17. Local(r)
    BY <1>3, <1>8, <1>13, <1>14, <1>15 DEF Local
  <1>18. SessionOK(r)'
    <2>1. open' = open /\ status' = status
      BY <1>3 DEF dbVars
    <2>2. \A j \in Items : objects'[r][j] # NoObject /\ objects'[r][j].status = "deleted" =>
             status'[j] = "deleted" \/ j \in held'[r]
      BY <1>7, <1>13, <1>15, <2>1 DEF SessionOK
    <2>3. \A j \in held'[r] : Free(r, j)'
      BY <1>3, <1>7, <1>13 DEF SessionOK, Free
    <2> QED
      BY <1>4, <1>8, <2>1, <2>2, <2>3 DEF SessionOK
  <1>19. ASSUME Sells(step)
         PROVE  /\ Selling(todo[r])
                /\ objects[r][i] # NoObject => Sold(todo[r], i) <= object.stock
                /\ posted[r][i] # <<>> /\ ~Last(posted[r][i]).fresh => objects[r][i] # NoObject
    <2>1. Selling(todo[r])
      BY <1>1, <1>19, NextFacts, TailFacts DEF Selling
    <2> QED
      BY <1>4, <1>5, <1>7, <2>1 DEF SaleOK
  <1>20. row.type = "sale_out" /\ ~row.fresh => row.after >= 0
    <2>1. SUFFICES ASSUME row.type = "sale_out", ~row.fresh
                   PROVE  row.after >= 0
      OBVIOUS
    <2>2. Sells(step)
      BY <1>4, <1>10, <2>1 DEF Sells
    <2>3. Sold(todo[r], i) <= object.stock
      BY <1>10, <1>19, <2>1, <2>2
    <2>4. PICK t \in Seq(Step) : t = todo[r] /\ t # <<>> /\ t[1] = step /\ Tail(t) \in Seq(Step)
      BY <1>1, NextFacts
    <2>5. SaleOrder(t)
      BY <1>7, <1>19, <2>2, <2>4 DEF SaleOK
    <2>6. SaleOrder(Tail(t))
      BY <2>4, <2>5, SaleOrderTail
    <2>7. \A k \in DOMAIN Tail(t) : Sells(Tail(t)[k]) => Tail(t)[k].qty <= 0
      BY <2>6 DEF SaleOrder, Sells, Returns
    <2>8. /\ Sold(Tail(t), i) \in Nat /\ Sold(t, i) = Sale(t[1], i) + Sold(Tail(t), i)
      BY <2>4, <2>7, SoldPositive, SoldTail
    <2>9. Sale(t[1], i) = - step.qty
      BY <2>2, <2>4 DEF Sale
    <2> QED
      BY <1>6, <1>10, <2>3, <2>4, <2>8, <2>9 DEF new
  <1>21. ASSUME NEW j \in Items, j = i
         PROVE  RowsOK(r, j)'
    <2>1. LET p == Append(posted[r][i], row) IN
          /\ \A k \in DOMAIN p :
               /\ p[k].after = p[k].before + p[k].qty
               /\ p[k].fresh <=> p[1].fresh
               /\ k > 1 => p[k].before = p[k - 1].after
               /\ p[k].type = "sale_out" /\ ~p[k].fresh => p[k].after >= 0
          /\ p[1].fresh => p[1].before = stock[i] /\ status[i] = "active"
      BY <1>3, <1>4, <1>10, <1>20, RowContinues DEF object
    <2>2. posted'[r][i] = Append(posted[r][i], row) /\ Last(posted'[r][i]) = row
      BY <1>9, <1>10, <1>14, AppendFacts
    <2> HIDE DEF i, step
    <2>3. stock' = stock /\ status' = status
      BY <1>3 DEF dbVars
    <2>4. objects'[r][j] # NoObject => objects'[r][j].stock = Last(posted'[r][j]).after
      BY <1>10, <1>15, <1>21, <2>2
    <2>5. j \in held'[r]
      BY <1>13, <1>21
    <2> QED
      BY <1>21, <2>1, <2>2, <2>3, <2>4, <2>5 DEF RowsOK
  <1>22. ASSUME NEW j \in Items, j # i
         PROVE  RowsOK(r, j)'
    <2>1. stock' = stock /\ status' = status
      BY <1>3 DEF dbVars
    <2>2. posted'[r][j] = posted[r][j] /\ objects'[r][j] = objects[r][j]
      BY <1>14, <1>15, <1>22
    <2>3. j \in held[r] => j \in held'[r]
      BY <1>13
    <2> QED
      BY <1>7, <2>1, <2>2, <2>3 DEF RowsOK
  <1>23. ASSUME Selling(todo'[r])
         PROVE  /\ SaleOrder(todo'[r])
                /\ \A j \in Items : objects'[r][j] # NoObject =>
                     /\ ~objects'[r][j].pinned /\ Sold(todo'[r], j) <= objects'[r][j].stock
                     /\ \A k \in DOMAIN todo'[r] : ~Returns(todo'[r][k])
                /\ \A j \in Items : posted'[r][j] # <<>> /\ ~Last(posted'[r][j]).fresh =>
                     /\ objects'[r][j] # NoObject
                     /\ \A k \in DOMAIN todo'[r] : Sells(todo'[r][k])
    <2>1. /\ Selling(todo[r]) /\ SaleOrder(todo'[r])
          /\ \A j : /\ Sold(todo[r], j) = Sale(step, j) + Sold(todo'[r], j)
                    /\ Sold(todo[r], j) \in Int /\ Sold(todo'[r], j) \in Nat
      BY <1>1, <1>8, <1>23, SaleAdvance
    <2>2. /\ \A j \in Items : objects[r][j] # NoObject =>
               /\ ~objects[r][j].pinned /\ Sold(todo[r], j) <= objects[r][j].stock
               /\ \A k \in DOMAIN todo[r] : ~Returns(todo[r][k])
          /\ \A j \in Items : posted[r][j] # <<>> /\ ~Last(posted[r][j]).fresh =>
               /\ objects[r][j] # NoObject
               /\ \A k \in DOMAIN todo[r] : Sells(todo[r][k])
      BY <1>7, <2>1 DEF SaleOK
    <2>3. (\A k \in DOMAIN todo[r] : ~Returns(todo[r][k])) =>
             \A k \in DOMAIN todo'[r] : ~Returns(todo'[r][k])
      BY <1>1, <1>8, <1>23, SaleAdvance
    <2>4. 1 \in DOMAIN todo[r]
      BY <1>1, NextFacts, TailFacts
    <2>5. Last(posted'[r][i]) = row
      BY <1>9, <1>10, <1>14, AppendFacts
    <2>6. CASE Sells(step)
      <3>1. \A k \in DOMAIN todo'[r] : Sells(todo'[r][k])
        BY <1>1, <1>8, <1>23, <2>6, SaleAdvance DEF Sells, Returns
      <3>2. Sale(step, i) = - step.qty /\ \A j \in Items \ {i} : Sale(step, j) = 0
        BY <2>6 DEF Sale
      <3>3. objects[r][i] # NoObject => Sold(todo'[r], i) <= new
        BY <1>5, <1>6, <1>19, <2>1, <2>6, <3>2 DEF new
      <3>4. \A j \in Items : objects'[r][j] # NoObject =>
               Sold(todo'[r], j) <= objects'[r][j].stock /\ ~objects'[r][j].pinned
        <4>1. ASSUME NEW j \in Items \ {i}, objects'[r][j] # NoObject
              PROVE  Sold(todo'[r], j) <= objects'[r][j].stock /\ ~objects'[r][j].pinned
          <5>1. Sold(todo'[r], j) = Sold(todo[r], j)
            BY <2>1, <3>2
          <5> QED
            BY <1>15, <2>2, <4>1, <5>1
        <4>2. objects'[r][i] # NoObject =>
                Sold(todo'[r], i) <= objects'[r][i].stock /\ ~objects'[r][i].pinned
          BY <1>4, <1>15, <2>2, <3>3
        <4> QED
          BY <4>1, <4>2
      <3>5. \A j \in Items : posted'[r][j] # <<>> /\ ~Last(posted'[r][j]).fresh =>
               objects'[r][j] # NoObject
        <4>1. ~row.fresh => objects[r][i] # NoObject
          BY <1>10, <1>19, <2>6
        <4>2. objects[r][i] # NoObject => objects'[r][i] # NoObject
          <5>1. objects[r][i] # NoObject => objects'[r][i] \in Object
            BY <1>4, <1>5, <1>6, <1>12, ObjectFacts DEF TypeOK, Object
          <5> QED
            BY <5>1, NoObjectFacts
        <4> QED
          BY <1>14, <1>15, <2>2, <2>5, <4>1, <4>2
      <3>6. \A k \in DOMAIN todo'[r] : ~Returns(todo'[r][k])
        BY <3>1 DEF Sells, Returns
      <3> QED
        BY <2>1, <3>1, <3>4, <3>5, <3>6
    <2>7. CASE Returns(step)
      <3>1. \A j \in Items : objects[r][j] = NoObject
        BY <2>2, <2>4, <2>7
      <3>2. \A j \in Items : posted[r][j] # <<>> => Last(posted[r][j]).fresh
        BY <2>2, <2>4, <2>7 DEF Sells, Returns
      <3>3. \A j \in Items : objects'[r][j] = NoObject
        BY <1>4, <1>15, <3>1
      <3>4. row.fresh
        BY <1>4, <1>10, <3>1, <3>2
      <3>5. \A j \in Items : posted'[r][j] # <<>> => Last(posted'[r][j]).fresh
        BY <1>14, <2>5, <3>2, <3>4
      <3> QED
        BY <2>1, <3>3, <3>5
    <2>8. Sells(step) \/ Returns(step)
      BY <1>1, <1>4, <1>8, <1>23, SaleAdvance
    <2> QED
      BY <2>6, <2>7, <2>8
  <1>24. SaleOK(r)'
    BY <1>23 DEF SaleOK
  <1>25. \A j \in Items : RowsOK(r, j)'
    BY <1>21, <1>22
  <1> QED
    BY <1>16, <1>17, <1>18, <1>24, <1>25, LocalStep

-----------------------------------------------------------------------------
(* The steps that change the database.                                     *)

LEMMA CreateItemKeeps ==
    ASSUME TypeOK, IInv, NEW i \in Items, CreateItem(i)
    PROVE  TypeOK' /\ IInv'
  <1>1. /\ UNCHANGED <<stock, moves, documents, open, job, todo, held, objects, posted>>
        /\ status[i] = "absent" /\ status'[i] = "active" /\ status' \in [Items -> {"absent", "active", "deleted"}]
        /\ \A j \in Items \ {i} : status'[j] = status[j]
    BY DEF CreateItem, TypeOK
  <1>2. TypeOK'
    BY <1>1 DEF TypeOK
  <1>3. ASSUME NEW r \in Requests
        PROVE  SessionOK(r)' /\ SaleOK(r)' /\ \A j \in Items : RowsOK(r, j)'
    <2>1. SessionOK(r) /\ SaleOK(r) /\ \A j \in Items : RowsOK(r, j)
      BY DEF IInv
    <2>2. ASSUME NEW k \in DOMAIN todo'[r]
          PROVE  status'[todo'[r][k].item] # "absent"
      <3>1. todo'[r][k].item \in Items
        BY <1>1, SessionTypes, StepFacts
      <3>2. status[todo'[r][k].item] # "absent"
        BY <1>1, <2>1 DEF SessionOK
      <3> QED
        BY <1>1, <3>1, <3>2
    <2>3. ASSUME NEW j \in Items, objects[r][j] # NoObject, objects[r][j].status = "deleted"
          PROVE  status'[j] = "deleted" \/ j \in held[r]
      BY <1>1, <2>1, <2>3 DEF SessionOK
    <2>4. \A j \in held[r] : Free(r, j)'
      BY <1>1, <2>1 DEF SessionOK, Free
    <2>5. SessionOK(r)'
      BY <1>1, <2>1, <2>2, <2>3, <2>4 DEF SessionOK
    <2>6. SaleOK(r)'
      BY <1>1, <2>1 DEF SaleOK
    <2>7. ASSUME NEW j \in Items
          PROVE  RowsOK(r, j)'
      <3>1. RowsOK(r, j) /\ (status[j] = "active" => status'[j] = "active")
        BY <1>1, <2>1
      <3> QED
        BY <1>1, <3>1 DEF RowsOK
    <2> QED
      BY <2>5, <2>6, <2>7
  <1>4. (FreshRowsChain /\ MovementsAddUp /\ KeptSalesStayAboveZero)'
    BY <1>1 DEF IInv, FreshRowsChain, MovementsAddUp, KeptSalesStayAboveZero, Before
  <1> QED
    BY <1>2, <1>3, <1>4 DEF IInv

\* The stock before the k-th of the rows m.
Preceding(m, k) == IF k = 1 THEN 0 ELSE m[k - 1].after

\* The rows p of a session follow the rows m of an item whose stock is b.
LEMMA HistoryContinues ==
    ASSUME NEW m \in Seq(Row), NEW p \in Seq(Row), NEW b, b = Preceding(m, Len(m) + 1),
           NEW active \in BOOLEAN,
           \A k \in DOMAIN m : /\ m[k].fresh => m[k].before = Preceding(m, k)
                               /\ m[k].after = m[k].before + m[k].qty
                               /\ m[k].type = "sale_out" /\ ~m[k].fresh => m[k].after >= 0,
           \A k \in DOMAIN p : /\ p[k].after = p[k].before + p[k].qty
                               /\ p[k].fresh <=> p[1].fresh
                               /\ k > 1 => p[k].before = p[k - 1].after
                               /\ p[k].type = "sale_out" /\ ~p[k].fresh => p[k].after >= 0,
           p # <<>> /\ p[1].fresh => p[1].before = b /\ active
    PROVE  LET q == m \o p IN
           /\ q \in Seq(Row)
           /\ \A k \in DOMAIN q : /\ q[k].fresh => q[k].before = Preceding(q, k)
                                  /\ q[k].after = q[k].before + q[k].qty
                                  /\ q[k].type = "sale_out" /\ ~q[k].fresh => q[k].after >= 0
           /\ Preceding(q, Len(q) + 1) = IF p = <<>> THEN b ELSE Last(p).after
           /\ \A k \in DOMAIN q \ DOMAIN m : q[k].fresh => active
  <1>1. PICK q \in Seq(Row) : q = m \o p
    BY m \o p \in Seq(Row)
  <1>2. /\ Len(m) \in Nat /\ Len(p) \in Nat /\ Len(q) = Len(m) + Len(p)
        /\ DOMAIN m = 1 .. Len(m) /\ DOMAIN p = 1 .. Len(p) /\ DOMAIN q = 1 .. Len(q)
        /\ \A k \in 1 .. Len(m) : q[k] = m[k]
        /\ \A k \in 1 .. Len(p) : q[Len(m) + k] = p[k]
    BY <1>1
  <1>3. ASSUME NEW k \in DOMAIN q
        PROVE  /\ q[k].fresh => q[k].before = Preceding(q, k)
               /\ q[k].after = q[k].before + q[k].qty
               /\ q[k].type = "sale_out" /\ ~q[k].fresh => q[k].after >= 0
               /\ k \notin DOMAIN m /\ q[k].fresh => active
    <2>1. CASE k \in DOMAIN m
      <3>1. q[k] = m[k] /\ (k # 1 => q[k - 1] = m[k - 1])
        BY <1>2, <2>1
      <3> QED
        BY <2>1, <3>1 DEF Preceding
    <2>2. CASE k \notin DOMAIN m
      <3>1. PICK j \in DOMAIN p : k = Len(m) + j
        <4>1. k - Len(m) \in DOMAIN p /\ k = Len(m) + (k - Len(m))
          BY <1>2, <2>2
        <4> QED
          BY <4>1
      <3>2. q[k] = p[j] /\ p # <<>> /\ j \in Nat /\ j >= 1
        BY <1>2, <3>1
      <3>3. CASE j = 1
        <4>1. Preceding(q, k) = Preceding(m, Len(m) + 1)
          <5>1. k = Len(m) + 1 /\ k - 1 = Len(m) /\ (k # 1 => q[Len(m)] = m[Len(m)])
            BY <1>2, <3>1, <3>3
          <5> QED
            BY <5>1 DEF Preceding
        <4> QED
          BY <2>2, <3>1, <3>2, <3>3, <4>1
      <3>4. CASE j # 1
        <4>1. j > 1 /\ j - 1 \in 1 .. Len(p) /\ k - 1 = Len(m) + (j - 1) /\ k # 1
          BY <1>2, <3>1, <3>2, <3>4
        <4>2. q[k - 1] = p[j - 1]
          BY <1>2, <4>1
        <4>3. p[j].before = p[j - 1].after
          BY <4>1
        <4>4. q[k].before = Preceding(q, k)
          BY <3>2, <4>1, <4>2, <4>3 DEF Preceding
        <4>5. q[k].fresh => active
          BY <3>2
        <4> QED
          BY <2>2, <3>1, <3>2, <4>4, <4>5
      <3> QED
        BY <3>3, <3>4
    <2> QED
      BY <2>1, <2>2
  <1>4. Preceding(q, Len(q) + 1) = IF p = <<>> THEN b ELSE Last(p).after
    <2>1. CASE p = <<>>
      <3>1. q = m
        BY <1>1, <2>1
      <3> QED
        BY <2>1, <3>1
    <2>2. CASE p # <<>>
      <3>1. Len(p) >= 1 /\ Last(p) = p[Len(p)]
        BY <2>2, LastFacts
      <3>2. q[Len(q)] = Last(p) /\ Len(q) + 1 # 1 /\ (Len(q) + 1) - 1 = Len(q)
        BY <1>2, <3>1
      <3> QED
        BY <2>2, <3>2 DEF Preceding
    <2> QED
      BY <2>1, <2>2
  <1> QED
    BY <1>1, <1>3, <1>4

\* The rows of each item once session r has committed.
LEMMA CommitRows ==
    ASSUME TypeOK, IInv, NEW r \in Requests, Commit(r), NEW i \in Items
    PROVE  /\ moves'[i] \in Seq(Row) /\ stock'[i] \in Int
           /\ \A k \in DOMAIN moves'[i] :
                /\ moves'[i][k].fresh => moves'[i][k].before = Before(i, k)'
                /\ moves'[i][k].after = moves'[i][k].before + moves'[i][k].qty
                /\ moves'[i][k].type = "sale_out" /\ ~moves'[i][k].fresh => moves'[i][k].after >= 0
           /\ stock'[i] = Before(i, Len(moves[i]) + 1)'
           /\ \A k \in DOMAIN moves'[i] \ DOMAIN moves[i] :
                moves'[i][k].fresh => status[i] = "active"
  <1>1. PICK m \in Seq(Row) : m = moves[i]
    BY DEF TypeOK
  <1>2. PICK p \in Seq(Row) : p = posted[r][i]
    BY SessionTypes
  <1>3. PICK q : q = m \o p
    OBVIOUS
  <1>4. moves'[i] = q /\ stock'[i] = Seen(r, i)
    BY <1>1, <1>2, <1>3 DEF Commit
  <1>5. stock[i] = Preceding(m, Len(m) + 1)
    BY <1>1 DEF IInv, MovementsAddUp, Before, Preceding
  <1>6. \A k \in DOMAIN m : /\ m[k].fresh => m[k].before = Preceding(m, k)
                            /\ m[k].after = m[k].before + m[k].qty
                            /\ m[k].type = "sale_out" /\ ~m[k].fresh => m[k].after >= 0
    BY <1>1 DEF IInv, FreshRowsChain, MovementsAddUp, KeptSalesStayAboveZero, Before, Preceding
  <1>7. /\ \A k \in DOMAIN p : /\ p[k].after = p[k].before + p[k].qty
                               /\ p[k].fresh <=> p[1].fresh
                               /\ k > 1 => p[k].before = p[k - 1].after
                               /\ p[k].type = "sale_out" /\ ~p[k].fresh => p[k].after >= 0
        /\ p # <<>> /\ p[1].fresh => p[1].before = stock[i] /\ status[i] = "active"
    BY <1>2 DEF IInv, RowsOK
  <1>8. PICK active \in BOOLEAN : active <=> status[i] = "active"
    OBVIOUS
  <1>9. /\ q \in Seq(Row)
        /\ \A k \in DOMAIN q : /\ q[k].fresh => q[k].before = Preceding(q, k)
                               /\ q[k].after = q[k].before + q[k].qty
                               /\ q[k].type = "sale_out" /\ ~q[k].fresh => q[k].after >= 0
        /\ Preceding(q, Len(q) + 1) = IF p = <<>> THEN stock[i] ELSE Last(p).after
        /\ \A k \in DOMAIN q \ DOMAIN m : q[k].fresh => active
    <2>1. p # <<>> /\ p[1].fresh => p[1].before = stock[i] /\ active
      BY <1>7, <1>8
    <2> QED
      BY <1>3, <1>5, <1>6, <1>7, <2>1, HistoryContinues
  <1>10. Seen(r, i) = Preceding(q, Len(q) + 1)
    BY <1>2, <1>9 DEF Seen
  <1>11. \A k : Before(i, k)' = Preceding(q, k)
    BY <1>4 DEF Before, Preceding
  <1> QED
    BY <1>1, <1>4, <1>8, <1>9, <1>10, <1>11, SeenFacts

LEMMA CommitKeeps ==
    ASSUME TypeOK, IInv, NEW r \in Requests, Commit(r)
    PROVE  TypeOK' /\ IInv'
  <1>1. EndSession(r) /\ open[r] /\ todo[r] = <<>>
    BY DEF Commit
  <1>2. /\ held'[r] = {}
        /\ \A s \in Requests \ {r} :
             /\ open'[s] = open[s] /\ todo'[s] = todo[s] /\ held'[s] = held[s]
             /\ objects'[s] = objects[s] /\ posted'[s] = posted[s]
        /\ SessionOK(r)' /\ SaleOK(r)' /\ \A i \in Items : RowsOK(r, i)'
    BY <1>1, EndSessionFacts
  <1>3. ASSUME NEW i \in Items
        PROVE  /\ status'[i] \in {"absent", "active", "deleted"}
               /\ status[i] # "absent" => status'[i] # "absent"
               /\ status[i] = "deleted" => status'[i] = "deleted"
               /\ i \notin held[r] => status'[i] = status[i] /\ stock'[i] = stock[i]
    <2>1. status'[i] = IF objects[r][i] # NoObject /\ objects[r][i].status = "deleted"
                       THEN "deleted" ELSE status[i]
      BY DEF Commit
    <2>2. status[i] \in {"absent", "active", "deleted"}
      BY SessionTypes
    <2>3. SessionOK(r) /\ RowsOK(r, i)
      BY DEF IInv
    <2>4. stock'[i] = Seen(r, i)
      BY DEF Commit
    <2>5. i \notin held[r] => posted[r][i] = <<>>
      BY <2>3 DEF RowsOK
    <2>6. i \notin held[r] /\ objects[r][i] # NoObject /\ objects[r][i].status = "deleted" =>
             status[i] = "deleted"
      BY <2>3 DEF SessionOK
    <2> QED
      BY <2>1, <2>2, <2>4, <2>5, <2>6 DEF Seen
  <1>4. ASSUME NEW i \in Items
        PROVE  /\ moves'[i] \in Seq(Row) /\ stock'[i] \in Int
               /\ \A k \in DOMAIN moves'[i] :
                    /\ moves'[i][k].fresh => moves'[i][k].before = Before(i, k)'
                    /\ moves'[i][k].after = moves'[i][k].before + moves'[i][k].qty
                    /\ moves'[i][k].type = "sale_out" /\ ~moves'[i][k].fresh =>
                          moves'[i][k].after >= 0
               /\ stock'[i] = Before(i, Len(moves[i]) + 1)'
    BY CommitRows
  <1>5. TypeOK'
    <2>1. status' = [i \in Items |-> status'[i]] /\ status' \in [Items -> {"absent", "active", "deleted"}]
      BY <1>3 DEF Commit
    <2>2. stock' \in [Items -> Int] /\ moves' \in [Items -> Seq(Row)]
      BY <1>4 DEF Commit
    <2>3. documents' \in [DocIds -> Document \cup {NoDoc}]
      <3>1. job[r].doc \in DocIds \cup {NoDoc} /\ job[r].leaves \in Document \cup {NoDoc}
        BY DEF TypeOK
      <3> QED
        BY <3>1 DEF Commit, TypeOK
    <2> QED
      BY <1>1, <2>1, <2>2, <2>3, EndSessionFacts DEF TypeOK
  <1>6. ASSUME NEW s \in Requests \ {r}
        PROVE  SessionOK(s)' /\ SaleOK(s)' /\ \A i \in Items : RowsOK(s, i)'
    <2>1. /\ open'[s] = open[s] /\ todo'[s] = todo[s] /\ held'[s] = held[s]
          /\ objects'[s] = objects[s] /\ posted'[s] = posted[s]
      BY <1>2
    <2>2. SessionOK(s) /\ SaleOK(s) /\ \A i \in Items : RowsOK(s, i)
      BY DEF IInv
    <2>3. ASSUME NEW k \in DOMAIN todo'[s]
          PROVE  status'[todo'[s][k].item] # "absent"
      <3>1. todo'[s][k].item \in Items /\ status[todo'[s][k].item] # "absent"
        BY <2>1, <2>2, SessionTypes, StepFacts DEF SessionOK
      <3> QED
        BY <1>3, <3>1
    <2>4. \A i \in Items : objects'[s][i] # NoObject /\ objects'[s][i].status = "deleted" =>
             status'[i] = "deleted" \/ i \in held'[s]
      BY <1>3, <2>1, <2>2 DEF SessionOK
    <2>5. \A i \in held'[s] : Free(s, i)'
      BY <1>2, <2>1, <2>2 DEF SessionOK, Free
    <2>6. SessionOK(s)'
      BY <2>1, <2>2, <2>3, <2>4, <2>5 DEF SessionOK
    <2>7. SaleOK(s)'
      BY <2>1, <2>2 DEF SaleOK
    <2>8. ASSUME NEW i \in Items
          PROVE  RowsOK(s, i)'
      <3>1. CASE posted[s][i] = <<>>
        BY <2>1, <3>1 DEF RowsOK
      <3>2. CASE posted[s][i] # <<>>
        <4>1. i \in held[s] /\ Free(s, i)
          BY <2>2, <3>2 DEF RowsOK, SessionOK
        <4>2. status'[i] = status[i] /\ stock'[i] = stock[i]
          BY <1>3, <4>1 DEF Free
        <4>3. RowsOK(s, i)
          BY <2>2
        <4> QED
          BY <2>1, <4>2, <4>3 DEF RowsOK
      <3> QED
        BY <3>1, <3>2
    <2> QED
      BY <2>6, <2>7, <2>8
  <1>7. FreshRowsChain'
    BY <1>4 DEF FreshRowsChain
  <1>8. MovementsAddUp'
    BY <1>4 DEF MovementsAddUp
  <1>9. KeptSalesStayAboveZero'
    BY <1>4 DEF KeptSalesStayAboveZero
  <1> QED
    BY <1>2, <1>5, <1>6, <1>7, <1>8, <1>9 DEF IInv

-----------------------------------------------------------------------------
(* The theorems.                                                           *)

LEMMA InitKeeps ==
    ASSUME Init
    PROVE  TypeOK /\ IInv
  <1>1. NoJob \in [doc : DocIds \cup {NoDoc}, leaves : Document \cup {NoDoc}]
    BY DEF NoJob
  <1>2. <<>> \in Seq(Row) /\ <<>> \in Seq(Step) /\ Len(<<>>) + 1 = 1
    OBVIOUS
  <1>3. TypeOK
    BY <1>1, <1>2 DEF Init, TypeOK
  <1>4. \A r \in Requests : SessionOK(r) /\ SaleOK(r) /\ \A i \in Items : RowsOK(r, i)
    BY DEF Init, SessionOK, SaleOK, RowsOK, Selling
  <1>5. FreshRowsChain /\ MovementsAddUp /\ KeptSalesStayAboveZero
    BY <1>2 DEF Init, FreshRowsChain, MovementsAddUp, KeptSalesStayAboveZero, Before
  <1> QED
    BY <1>3, <1>4, <1>5 DEF IInv

LEMMA StepKeeps ==
    ASSUME TypeOK, IInv, [Next]_vars
    PROVE  TypeOK' /\ IInv'
  <1>1. CASE \E i \in Items : CreateItem(i)
    BY <1>1, CreateItemKeeps
  <1>2. ASSUME NEW r \in Requests,
               \E op \in Ops, d \in DocIds, lines \in LineLists :
                  BeginCreate(r, op, d, lines) \/ BeginOnDocument(r, op, d, lines)
        PROVE  TypeOK' /\ IInv'
    BY <1>2, BeginCreateKeeps, BeginOnDocumentKeeps
  <1>3. ASSUME NEW r \in Requests, \E op \in Ops, lines \in LineLists : BeginOther(r, op, lines)
        PROVE  TypeOK' /\ IInv'
    BY <1>3, BeginOtherKeeps
  <1>4. ASSUME NEW r \in Requests, Read(r) \/ Pin(r) \/ Move(r) \/ Delete(r)
        PROVE  TypeOK' /\ IInv'
    BY <1>4, ReadKeeps, PinKeeps, MoveKeeps, DeleteKeeps
  <1>5. ASSUME NEW r \in Requests, Commit(r) \/ Rollback(r)
        PROVE  TypeOK' /\ IInv'
    BY <1>5, CommitKeeps, AbortKeeps DEF Rollback
  <1>6. CASE UNCHANGED vars
    <2>1. /\ status' = status /\ stock' = stock /\ moves' = moves /\ documents' = documents
          /\ open' = open /\ job' = job /\ todo' = todo /\ held' = held
          /\ objects' = objects /\ posted' = posted
      BY <1>6 DEF vars
    <2>2. TypeOK'
      BY <2>1 DEF TypeOK
    <2>3. ASSUME NEW r \in Requests
          PROVE  SessionOK(r)' /\ SaleOK(r)' /\ \A i \in Items : RowsOK(r, i)'
      BY <2>1 DEF IInv, SessionOK, SaleOK, RowsOK, Free
    <2>4. (FreshRowsChain /\ MovementsAddUp /\ KeptSalesStayAboveZero)'
      BY <2>1 DEF IInv, FreshRowsChain, MovementsAddUp, KeptSalesStayAboveZero, Before
    <2> QED
      BY <2>2, <2>3, <2>4 DEF IInv
  <1> QED
    BY <1>1, <1>2, <1>3, <1>4, <1>5, <1>6 DEF Next

LEMMA InvariantHolds == Spec => [](TypeOK /\ IInv)
  <1>1. Init => TypeOK /\ IInv
    BY InitKeeps
  <1>2. TypeOK /\ IInv /\ [Next]_vars => (TypeOK /\ IInv)'
    BY StepKeeps
  <1> QED
    BY <1>1, <1>2, PTL DEF Spec

\* Items, their rows, documents and sessions keep their types.
THEOREM TypeCorrect == Spec => []TypeOK
  BY InvariantHolds, PTL

\* A row computed under the lock from the row that was locked continues the chain of
\* its item's movements, whichever requests ran in between.
THEOREM FreshRowsContinue == Spec => []FreshRowsChain
  <1>1. IInv => FreshRowsChain
    BY DEF IInv
  <1> QED
    BY <1>1, InvariantHolds, PTL

\* Every row adds its quantity, and an item's stock is what its last row says.
THEOREM MovementsAlwaysAddUp == Spec => []MovementsAddUp
  <1>1. IInv => MovementsAddUp
    BY DEF IInv
  <1> QED
    BY <1>1, InvariantHolds, PTL

\* A sale that computes from the object it has checked never shows a negative stock.
THEOREM KeptSalesHold == Spec => []KeptSalesStayAboveZero
  <1>1. IInv => KeptSalesStayAboveZero
    BY DEF IInv
  <1> QED
    BY <1>1, InvariantHolds, PTL

\* A deleted item gets no row from a session that kept no object of it.
THEOREM DeletedItemsStay == Spec => DeletedItemsRest
  <1>1. ASSUME TypeOK, IInv, [Next]_vars
        PROVE  [\A i \in Items : \A k \in DOMAIN moves'[i] \ DOMAIN moves[i] :
                  moves'[i][k].fresh => status[i] = "active"]_vars
    <2>1. CASE \E r \in Requests : Commit(r)
      BY <1>1, <2>1, CommitRows
    <2>2. CASE moves' = moves
      BY <2>2
    <2>3. CASE \E i \in Items : CreateItem(i)
      BY <2>2, <2>3 DEF CreateItem
    <2>4. ASSUME NEW r \in Requests,
                 \/ \E op \in Ops, d \in DocIds, lines \in LineLists :
                      BeginCreate(r, op, d, lines) \/ BeginOnDocument(r, op, d, lines)
                 \/ \E op \in Ops, lines \in LineLists : BeginOther(r, op, lines)
          PROVE  moves' = moves
      <3>1. \E p, d, leaves : Begin(r, p, d, leaves)
        BY <2>4 DEF BeginCreate, BeginOnDocument, BeginOther
      <3> QED
        BY <3>1 DEF Begin, dbVars
    <2>5. ASSUME NEW r \in Requests, Read(r) \/ Pin(r) \/ Move(r) \/ Delete(r) \/ Rollback(r)
          PROVE  moves' = moves
      BY <2>5 DEF Read, Pin, Move, Delete, Rollback, Abort, dbVars
    <2>6. UNCHANGED vars => moves' = moves
      BY DEF vars
    <2> QED
      BY <1>1, <2>1, <2>2, <2>3, <2>4, <2>5, <2>6 DEF Next
  <1> QED
    BY <1>1, InvariantHolds, PTL DEF Spec, DeletedItemsRest
=============================================================================
