----------------------------- MODULE CounterProofs -----------------------------
(***************************************************************************)
(* Theorems about Counter, for every number of orders, tables, items and   *)
(* calls under way.                                                        *)
(***************************************************************************)
EXTENDS Counter, DataTheorems

-----------------------------------------------------------------------------
(***************************************************************************)
(* The inductive invariant says what may be under way while a screen is on *)
(* display: what the answers still to come may do to it.                   *)
(***************************************************************************)

\* What a call may ask for: orders that are stored, an edit that fits what its caller does
\* next, a list that the screen on display has asked for.
Fits(c, placed, name) ==
  /\ c.op \in {"edit", "summary", "recall", "preview", "settle"} => c.order \in placed
  /\ c.op \in {"running", "held"} => c.op = name
  /\ c.chain = "edit" => c.op = "create" /\ c.edit.kind # "remove"
  /\ c.chain = "seat" => c.op \in {"create", "edit"}
  /\ c.chain = "seated" => c.op = "edit"
  /\ c.chain \in {"seat", "seated"} => c.edit.kind \in {"alter", "seat"} /\ c.edit.item = 0
  /\ c.chain = "leave" => c.op \in {"summary", "floor"}

CallsFit == \A i \in DOMAIN calls : Fits(calls[i], Placed, screen.name)

Removes(c) == c.op = "edit" /\ c.edit.kind = "remove"
AddsTo(c, o) == c.op = "edit" /\ c.order = o /\ c.edit.kind = "add"
Leaves(c) == c.chain \in {"seat", "seated", "leave"}

\* Buttons are disabled on two screens only, and wait for a call.
BusyWaits ==
  screen.busy =>
    screen.name \in {"tables", "running"} /\ \E i \in DOMAIN calls : Leaves(calls[i])

\* Items that are still to be removed were to be before the list was asked for.
ListFresh ==
  screen.name = "running" =>
    /\ \A entry \in screen.list : entry.filled => rows[entry.order].items # {}
    /\ \A i \in DOMAIN calls : Removes(calls[i]) =>
         /\ screen.list = {}
         /\ \A j \in DOMAIN calls : calls[j].op = "running" => i < j

BillingStays ==
  screen.name = "billing" =>
    /\ screen.route \in Placed /\ rows[screen.route].items # {}
    /\ \A i \in DOMAIN calls : ~Removes(calls[i])

\* Calls that leave the bill of order o as it is, or settle it.
Harmless(c, o) == c.op # "preview" /\ (c.op = "settle" => c.order = o) /\ ~AddsTo(c, o)

\* The bill is that of order o, or a preview that shows it is under way.
Previews(p, o) ==
  IF p = 0
  THEN /\ screen.bill = BillNow(o)
       /\ screen.loading => \E i \in DOMAIN calls : calls[i].op = "settle"
  ELSE calls[p].op = "preview" /\ calls[p].order = o

BillArrives ==
  screen.name = "billing" =>
    \E p \in {0} \cup DOMAIN calls :
      /\ Previews(p, screen.route)
      /\ \A i \in DOMAIN calls : i > p => Harmless(calls[i], screen.route)

Inv == TypeOK /\ CallsFit /\ BusyWaits /\ ListFresh /\ BillingStays /\ BillArrives

-----------------------------------------------------------------------------
(***************************************************************************)
(* What the operators of the model return.                                 *)
(***************************************************************************)

\* A new order is listed before the others.
LEMMA NewListed ==
  ASSUME TypeOK, NEW o \in Orders \ Placed
  PROVE  LET list == <<o>> \o recent
         IN  /\ list \in Seq(Orders) /\ ToSet(list) = Placed \cup {o}
             /\ \A i, j \in DOMAIN list : list[i] = list[j] => i = j
<1> DEFINE list == <<o>> \o recent
<1>1. recent \in Seq(Orders) /\ Len(recent) \in Nat /\ DOMAIN recent = 1 .. Len(recent)
      /\ \A i, j \in DOMAIN recent : recent[i] = recent[j] => i = j
  BY DEF TypeOK
<1>2. /\ list \in Seq(Orders) /\ Len(list) = Len(recent) + 1
      /\ DOMAIN list = 1 .. Len(recent) + 1
      /\ list[1] = o /\ \A i \in DOMAIN recent : list[i + 1] = recent[i]
  BY <1>1
<1>3. \A i \in DOMAIN recent : recent[i] # o
  BY DEF Placed, ToSet
<1>4. \A i \in DOMAIN list : i = 1 \/ (i - 1 \in DOMAIN recent /\ list[i] = recent[i - 1])
  BY <1>1, <1>2
<1> HIDE DEF list
<1>5. \A i, j \in DOMAIN list : list[i] = list[j] => i = j
  <2> SUFFICES ASSUME NEW i \in DOMAIN list, NEW j \in DOMAIN list, list[i] = list[j]
               PROVE  i = j
    OBVIOUS
  <2>1. i \in Nat /\ j \in Nat
    BY <1>1, <1>2
  <2>2. CASE i = 1 \/ j = 1
    BY <1>2, <1>3, <1>4, <2>2
  <2>3. CASE i # 1 /\ j # 1
    <3>1. /\ i - 1 \in DOMAIN recent /\ list[i] = recent[i - 1]
          /\ j - 1 \in DOMAIN recent /\ list[j] = recent[j - 1]
      BY <1>4, <2>3
    <3>2. i - 1 = j - 1
      BY <1>1, <3>1
    <3>3. QED
      BY <2>1, <3>2
  <2>4. QED
    BY <2>2, <2>3
<1>6. ToSet(list) = Placed \cup {o}
  <2>1. \A i \in DOMAIN list : list[i] \in Placed \cup {o}
    BY <1>2, <1>4 DEF Placed, ToSet
  <2>2. 1 \in DOMAIN list /\ \A i \in DOMAIN recent : i + 1 \in DOMAIN list
    BY <1>1, <1>2
  <2>3. o \in ToSet(list) /\ \A p \in Placed : p \in ToSet(list)
    BY <1>2, <2>2 DEF Placed, ToSet
  <2>4. QED
    BY <2>1, <2>3 DEF ToSet
<1>7. QED
  BY <1>2, <1>5, <1>6 DEF list

\* A written order moves to the front of the list.
LEMMA TouchedListed ==
  ASSUME TypeOK, NEW o \in Placed
  PROVE  /\ Touched(o) \in Seq(Orders) /\ ToSet(Touched(o)) = Placed
         /\ \A i, j \in DOMAIN Touched(o) : Touched(o)[i] = Touched(o)[j] => i = j
<1> DEFINE at == CHOOSE i \in DOMAIN recent : recent[i] = o
           others == RemoveAt(recent, at)
           list == <<o>> \o others
           n == Len(recent)
<1>1. /\ recent \in Seq(Orders) /\ n \in Nat /\ DOMAIN recent = 1 .. n
      /\ \A i, j \in DOMAIN recent : recent[i] = recent[j] => i = j
  BY DEF TypeOK
<1>2. at \in 1 .. n /\ recent[at] = o /\ o \in Orders
  <2>1. \E i \in DOMAIN recent : recent[i] = o
    BY DEF Placed, ToSet
  <2>2. at \in DOMAIN recent /\ recent[at] = o
    BY <2>1
  <2>3. QED
    BY <1>1, <2>2
<1>3. Touched(o) = list
  BY DEF Touched
<1> HIDE DEF at
<1>4. /\ others \in Seq(Orders) /\ Len(others) = n - 1
      /\ \A j \in 1 .. n - 1 : others[j] = IF j < at THEN recent[j] ELSE recent[j + 1]
  <2> DEFINE a == SubSeq(recent, 1, at - 1)
             b == SubSeq(recent, at + 1, n)
  <2>1. /\ a \in Seq(Orders) /\ Len(a) = at - 1 /\ \A j \in 1 .. at - 1 : a[j] = recent[j]
    BY <1>1, <1>2
  <2>2. /\ b \in Seq(Orders) /\ Len(b) = n - at
        /\ \A j \in 1 .. n - at : b[j] = recent[at + j]
    <3>1. \A i \in at + 1 .. n : recent[i] \in Orders
      BY <1>1, <1>2
    <3>2. at + 1 \in Int /\ n \in Int /\ n - (at + 1) + 1 = n - at
      BY <1>1, <1>2
    <3>3. /\ b \in Seq(Orders) /\ Len(b) = IF at + 1 <= n THEN n - (at + 1) + 1 ELSE 0
          /\ \A j \in 1 .. n - (at + 1) + 1 : b[j] = recent[(at + 1) + j - 1]
      BY <3>1, <3>2, SubSeqProperties
    <3> HIDE DEF b, n
    <3>4. Len(b) = n - at
      BY <1>1, <1>2, <3>3
    <3>5. ASSUME NEW j \in 1 .. n - at PROVE b[j] = recent[at + j]
      <4>1. j \in 1 .. n - (at + 1) + 1 /\ (at + 1) + j - 1 = at + j
        BY <1>1, <1>2
      <4>2. QED
        BY <3>3, <4>1
    <3>6. QED
      BY <3>3, <3>4, <3>5
  <2>3. others = a \o b
    BY DEF RemoveAt
  <2> HIDE DEF a, b, others
  <2>4. /\ others \in Seq(Orders) /\ Len(others) = n - 1
        /\ \A j \in 1 .. n - 1 :
              others[j] = IF j <= at - 1 THEN a[j] ELSE b[j - (at - 1)]
    <3>1. /\ a \o b \in Seq(Orders) /\ Len(a \o b) = Len(a) + Len(b)
          /\ \A j \in 1 .. Len(a) + Len(b) :
                (a \o b)[j] = IF j <= Len(a) THEN a[j] ELSE b[j - Len(a)]
      BY <2>1, <2>2, ConcatProperties
    <3>2. Len(a) = at - 1 /\ Len(a) + Len(b) = n - 1
      BY <1>1, <1>2, <2>1, <2>2
    <3>3. QED
      BY <2>3, <3>1, <3>2
  <2>5. ASSUME NEW j \in 1 .. n - 1
        PROVE  others[j] = IF j < at THEN recent[j] ELSE recent[j + 1]
    <3>1. CASE j < at
      <4>1. j \in 1 .. at - 1 /\ j <= at - 1
        BY <1>1, <1>2, <3>1
      <4>2. QED
        BY <2>1, <2>4, <3>1, <4>1
    <3>2. CASE ~(j < at)
      <4>1. j - (at - 1) \in 1 .. n - at /\ at + (j - (at - 1)) = j + 1
        BY <1>1, <1>2, <3>2
      <4>2. others[j] = b[j - (at - 1)]
        BY <1>1, <1>2, <2>4, <3>2
      <4>3. QED
        BY <2>2, <3>2, <4>1, <4>2
    <3>3. QED
      BY <3>1, <3>2
  <2>6. QED
    BY <2>4, <2>5
<1> HIDE DEF others
<1>5. /\ list \in Seq(Orders) /\ Len(list) = n /\ DOMAIN list = 1 .. n
      /\ list[1] = o /\ \A i \in 2 .. n : list[i] = others[i - 1]
  <2>1. <<o>> \in Seq(Orders) /\ Len(<<o>>) = 1 /\ <<o>>[1] = o
    BY <1>2
  <2> HIDE DEF list
  <2>2. /\ list \in Seq(Orders) /\ Len(list) = 1 + (n - 1)
        /\ \A i \in 1 .. 1 + (n - 1) : list[i] = IF i <= 1 THEN <<o>>[i] ELSE others[i - 1]
    BY <1>4, <2>1, ConcatProperties DEF list
  <2>3. 1 + (n - 1) = n /\ 1 \in 1 .. n /\ \A i \in 2 .. n : i \in 1 .. n /\ ~(i <= 1)
    BY <1>1, <1>2
  <2>4. QED
    BY <2>1, <2>2, <2>3
<1> HIDE DEF list
<1> DEFINE from(i) == IF i = 1 THEN at ELSE IF i - 1 < at THEN i - 1 ELSE i
<1>6. \A i \in 1 .. n : from(i) \in 1 .. n /\ list[i] = recent[from(i)]
  <2> SUFFICES ASSUME NEW i \in 1 .. n PROVE from(i) \in 1 .. n /\ list[i] = recent[from(i)]
    OBVIOUS
  <2>1. CASE i = 1
    BY <1>2, <1>5, <2>1
  <2>2. CASE i # 1
    <3>1. i \in 2 .. n /\ i - 1 \in 1 .. n - 1 /\ (i - 1) + 1 = i
      BY <1>1, <2>2
    <3>2. list[i] = IF i - 1 < at THEN recent[i - 1] ELSE recent[i]
      BY <1>4, <1>5, <3>1
    <3>3. QED
      BY <1>1, <2>2, <3>1, <3>2
  <2>3. QED
    BY <2>1, <2>2
<1>7. \A i, j \in 1 .. n : from(i) = from(j) => i = j
  BY <1>1, <1>2
<1>8. \A k \in 1 .. n : \E i \in 1 .. n : from(i) = k
  <2> SUFFICES ASSUME NEW k \in 1 .. n PROVE \E i \in 1 .. n : from(i) = k
    OBVIOUS
  <2>1. CASE k = at
    <3>1. 1 \in 1 .. n /\ from(1) = k
      BY <1>1, <1>2, <2>1
    <3>2. QED
      BY <3>1
  <2>2. CASE k < at
    <3>1. k + 1 \in 1 .. n /\ from(k + 1) = k
      BY <1>1, <1>2, <2>2
    <3>2. QED
      BY <3>1
  <2>3. CASE k > at
    <3>1. k \in 1 .. n /\ from(k) = k
      BY <1>1, <1>2, <2>3
    <3>2. QED
      BY <3>1
  <2>4. QED
    BY <1>1, <1>2, <2>1, <2>2, <2>3
<1> HIDE DEF from
<1>9. \A i, j \in DOMAIN list : list[i] = list[j] => i = j
  BY <1>1, <1>5, <1>6, <1>7
<1>10. ToSet(list) = ToSet(recent)
  <2>1. \A i \in 1 .. n : list[i] \in ToSet(recent)
    BY <1>1, <1>6 DEF ToSet
  <2>2. \A k \in 1 .. n : recent[k] \in ToSet(list)
    BY <1>5, <1>6, <1>8 DEF ToSet
  <2>3. \A x : (x \in ToSet(list) <=> \E i \in 1 .. n : x = list[i])
            /\ (x \in ToSet(recent) <=> \E i \in 1 .. n : x = recent[i])
    BY <1>1, <1>5 DEF ToSet
  <2>4. \A x : x \in ToSet(list) <=> x \in ToSet(recent)
    BY <2>1, <2>2, <2>3
  <2>5. QED
    BY <2>4
<1>11. QED
  BY <1>3, <1>5, <1>9, <1>10 DEF Placed

\* The number of items of an order.
LEMMA Totals ==
  ASSUME NEW row \in Row
  PROVE  Total(row) \in 0 .. MaxItems /\ (row.items # {} => Total(row) \in 1 .. MaxItems)
<1>1. row.items \in SUBSET (1 .. MaxItems)
  BY DEF Row
<1>2. IsFiniteSet(1 .. MaxItems) /\ Cardinality(1 .. MaxItems) = MaxItems /\ MaxItems \in Nat
  BY FS_Interval, CounterAssumption
<1>3. IsFiniteSet(row.items) /\ Cardinality(row.items) <= MaxItems
  BY <1>1, <1>2, FS_Subset
<1>4. Cardinality(row.items) \in Nat /\ (row.items # {} => Cardinality(row.items) # 0)
  BY <1>3, FS_CardinalityType, FS_EmptySet
<1>5. QED
  BY <1>2, <1>3, <1>4 DEF Total

LEMMA EditedType ==
  ASSUME NEW row \in Row, NEW e \in Edits
  PROVE  Edited(row, e) \in Row
<1>1. row.items \in SUBSET (1 .. MaxItems) /\ row.table \in Tables \cup {Null}
      /\ row.held \in BOOLEAN
  BY DEF Row
<1>2. /\ e.item \in 0 .. MaxItems /\ e.table \in Tables \cup {Null} /\ MaxItems \in Nat
      /\ e.kind = "add" => e.item # 0
  BY CounterAssumption DEF Edits
<1>3. e.kind = "add" => row.items \cup {e.item} \in SUBSET (1 .. MaxItems)
  BY <1>1, <1>2
<1>4. Edited(row, e).items \in SUBSET (1 .. MaxItems)
  BY <1>1, <1>3 DEF Edited
<1>5. QED
  BY <1>1, <1>2, <1>4 DEF Edited, Row

\* The floor map names stored orders.
LEMMA FloorNowType ==
  ASSUME TypeOK PROVE FloorNow \in [Tables -> Placed \cup {Null}]
<1> SUFFICES ASSUME NEW t \in Tables PROVE FloorNow[t] \in Placed \cup {Null}
  BY DEF FloorNow
<1> DEFINE at == {i \in DOMAIN recent : rows[recent[i]].table = t /\ recent[i] \notin Settled}
           first == CHOOSE i \in at : \A j \in at : i <= j
<1>1. FloorNow[t] = IF at = {} THEN Null ELSE recent[first]
  BY DEF FloorNow
<1>2. at \subseteq DOMAIN recent /\ at \subseteq Nat
  BY DEF TypeOK
<1>3. ASSUME at # {} PROVE first \in DOMAIN recent
  <2>1. \E i \in at : \A j \in at : i <= j
    BY <1>2, <1>3, LeastElement
  <2>2. QED
    BY <1>2, <2>1
<1> HIDE DEF first, at
<1>4. QED
  BY <1>1, <1>3 DEF Placed, ToSet

\* Lists of orders name stored orders, with whether they have items.
LEMMA ListsType ==
  ASSUME TypeOK
  PROVE  \A list \in {RunningNow, HeldNow} :
           /\ list \in SUBSET [order : Orders, filled : BOOLEAN]
           /\ \A entry \in list :
                entry.order \in Placed /\ (entry.filled <=> rows[entry.order].items # {})
<1>1. Placed \subseteq Orders
  BY DEF TypeOK, Placed, ToSet
<1>2. \A chosen \in SUBSET Placed :
        /\ Listed(chosen) \in SUBSET [order : Orders, filled : BOOLEAN]
        /\ \A entry \in Listed(chosen) :
             entry.order \in Placed /\ (entry.filled <=> rows[entry.order].items # {})
  <2> SUFFICES ASSUME NEW chosen \in SUBSET Placed, NEW entry \in Listed(chosen)
               PROVE  /\ entry \in [order : Orders, filled : BOOLEAN]
                      /\ entry.order \in Placed
                      /\ entry.filled <=> rows[entry.order].items # {}
    OBVIOUS
  <2>1. PICK o \in chosen : entry = [order |-> o, filled |-> rows[o].items # {}]
    BY DEF Listed
  <2>2. o \in Placed /\ o \in Orders
    BY <1>1
  <2>3. entry.order = o /\ entry.filled = (rows[o].items # {})
    BY <2>1
  <2>4. entry \in [order : Orders, filled : BOOLEAN]
    BY <2>1, <2>2
  <2>5. QED
    BY <2>2, <2>3, <2>4
<1>3. QED
  BY <1>2 DEF RunningNow, HeldNow

\* The bill of an order that has items, or was settled.
LEMMA BillNowType ==
  ASSUME TypeOK, NEW o \in Placed, o \in Settled \/ rows[o].items # {}
  PROVE  BillNow(o) \in Bill
<1>1. o \in Orders /\ rows[o] \in Row /\ paid[o] \in 0 .. MaxItems
  BY DEF TypeOK, Placed, ToSet
<1>2. o \in Settled => paid[o] \in 1 .. MaxItems
  BY <1>1, CounterAssumption DEF Settled
<1>3. o \notin Settled => Total(rows[o]) \in 1 .. MaxItems
  BY <1>1, Totals
<1>4. QED
  BY <1>1, <1>2, <1>3 DEF BillNow, Bill

-----------------------------------------------------------------------------
(***************************************************************************)
(* What a step does to the calls under way.                                *)
(***************************************************************************)

StoreTyped ==
  /\ recent \in Seq(Orders)
  /\ \A i, j \in DOMAIN recent : recent[i] = recent[j] => i = j
  /\ rows \in [Orders -> Row] /\ paid \in [Orders -> 0 .. MaxItems]
  /\ Settled \subseteq Placed

CallsTyped ==
  calls \in Seq(Call) /\ \A i \in DOMAIN calls : calls[i].order \in Placed \cup {Null}

ScreenTyped ==
  /\ shown \in Placed \cup {Null} /\ floor \in [Tables -> Placed \cup {Null}]
  /\ screen \in Screen /\ added \in 0 .. MaxItems
  /\ \A o \in {entry.order : entry \in screen.list} \cup {screen.route} : o \in Placed \cup {Null}

LEMMA Typed == TypeOK <=> StoreTyped /\ CallsTyped /\ ScreenTyped
BY DEF TypeOK, StoreTyped, CallsTyped, ScreenTyped

\* The calls that are left when the first k are answered.
Pending(k) == IF k = 0 THEN calls ELSE Tail(calls)

LEMMA PendingCalls ==
  ASSUME CallsTyped, NEW k \in {0, 1}, k <= Len(calls)
  PROVE  /\ Pending(k) \in Seq(Call) /\ Len(Pending(k)) = Len(calls) - k
         /\ Len(calls) \in Nat /\ Len(calls) - k \in Nat /\ DOMAIN calls = 1 .. Len(calls)
         /\ \A i \in 1 .. Len(calls) - k : i + k \in DOMAIN calls /\ Pending(k)[i] = calls[i + k]
<1>1. calls \in Seq(Call) /\ Len(calls) \in Nat /\ DOMAIN calls = 1 .. Len(calls)
  BY DEF CallsTyped
<1>2. CASE k = 0
  BY <1>1, <1>2 DEF Pending
<1>3. CASE k = 1
  <2>1. calls # <<>>
    BY <1>1, <1>3
  <2>2. /\ Tail(calls) \in Seq(Call) /\ Len(Tail(calls)) = Len(calls) - 1
        /\ \A i \in 1 .. Len(Tail(calls)) : Tail(calls)[i] = calls[i + 1]
    BY <1>1, <2>1, HeadTailProperties
  <2>3. Len(calls) - 1 \in Nat /\ \A i \in 1 .. Len(calls) - 1 : i + 1 \in 1 .. Len(calls)
    BY <1>1, <1>3
  <2>4. QED
    BY <1>1, <1>3, <2>2, <2>3 DEF Pending
<1>4. QED
  BY <1>2, <1>3

\* The place of a call moves up by k, the new ones follow the others.
Shaped(k, kept, more) ==
  /\ calls' \in Seq(Call)
  /\ \A i \in DOMAIN calls' :
       \/ i + k \in DOMAIN calls /\ calls'[i] = kept[i]
       \/ \E j \in DOMAIN more : i = (Len(calls) - k) + j /\ calls'[i] = more[j]
  /\ \A j \in DOMAIN calls : j > k => j - k \in DOMAIN calls' /\ calls'[j - k] = kept[j - k]
  /\ \A j \in DOMAIN more :
       /\ (Len(calls) - k) + j \in DOMAIN calls'
       /\ calls'[(Len(calls) - k) + j] = more[j]

LEMMA Shape ==
  ASSUME CallsTyped, NEW k \in {0, 1}, k <= Len(calls), NEW kept \in Seq(Call),
         Len(kept) = Len(calls) - k, NEW more \in Seq(Call), calls' = kept \o more
  PROVE  Shaped(k, kept, more)
<1> DEFINE n == Len(calls) - k
           m == Len(more)
<1>1. /\ Len(calls) \in Nat /\ n \in Nat /\ m \in Nat /\ DOMAIN calls = 1 .. Len(calls)
      /\ DOMAIN more = 1 .. m
  BY PendingCalls
<1>2. /\ calls' \in Seq(Call) /\ Len(calls') = n + m /\ DOMAIN calls' = 1 .. n + m
      /\ \A i \in 1 .. n + m : calls'[i] = IF i <= n THEN kept[i] ELSE more[i - n]
  <2> HIDE DEF n, m
  <2>1. Len(kept) = n /\ Len(more) = m
    BY DEF n, m
  <2>2. /\ kept \o more \in Seq(Call) /\ Len(kept \o more) = n + m
        /\ \A i \in 1 .. n + m : (kept \o more)[i] = IF i <= n THEN kept[i] ELSE more[i - n]
    BY <2>1, ConcatProperties, ZenonT(30)
  <2>3. DOMAIN (kept \o more) = 1 .. n + m
    BY <2>2
  <2>4. QED
    BY <2>2, <2>3
<1>3. k \in Nat /\ Len(calls) = n + k
  BY <1>1
<1> HIDE DEF n, m
<1>4. ASSUME NEW i \in DOMAIN calls'
      PROVE  \/ i + k \in DOMAIN calls /\ calls'[i] = kept[i]
             \/ \E j \in DOMAIN more : i = n + j /\ calls'[i] = more[j]
  <2>1. i \in 1 .. n + m
    BY <1>2
  <2>2. CASE i <= n
    <3>1. i + k \in 1 .. n + k
      BY <1>1, <1>3, <2>1, <2>2
    <3>2. QED
      BY <1>1, <1>2, <1>3, <2>1, <2>2, <3>1
  <2>3. CASE ~(i <= n)
    <3>1. i - n \in 1 .. m /\ i = n + (i - n)
      BY <1>1, <2>1, <2>3
    <3>2. calls'[i] = more[i - n]
      BY <1>2, <2>1, <2>3
    <3>3. QED
      BY <1>1, <3>1, <3>2
  <2>4. QED
    BY <2>2, <2>3
<1>5. ASSUME NEW j \in DOMAIN calls, j > k
      PROVE  j - k \in DOMAIN calls' /\ calls'[j - k] = kept[j - k]
  <2>1. j \in 1 .. n + k
    BY <1>1, <1>3
  <2>2. j - k \in 1 .. n + m /\ j - k <= n
    BY <1>1, <1>3, <1>5, <2>1
  <2>3. QED
    BY <1>2, <2>2
<1>6. ASSUME NEW j \in DOMAIN more
      PROVE  n + j \in DOMAIN calls' /\ calls'[n + j] = more[j]
  <2>1. n + j \in 1 .. n + m /\ ~(n + j <= n) /\ (n + j) - n = j
    BY <1>1
  <2>2. QED
    BY <1>2, <2>1
<1>7. QED
  BY <1>2, <1>4, <1>5, <1>6 DEF n, Shaped

-----------------------------------------------------------------------------
(***************************************************************************)
(* Steps that stay on the screen.                                          *)
(***************************************************************************)

\* The first k calls are answered and more are made, on the same screen.
Stay(k, more) ==
  /\ k <= Len(calls) /\ calls' = Pending(k) \o more
  /\ screen'.name = screen.name /\ screen'.route = screen.route /\ Placed \subseteq Placed'
  /\ \A i \in DOMAIN more :
       /\ more[i].order \in Placed' \cup {Null} /\ Fits(more[i], Placed', screen.name)
       /\ screen.name # "pos" => ~Removes(more[i])
       /\ screen.name = "billing" => Harmless(more[i], screen.route)

LEMMA StayCalls ==
  ASSUME Inv, NEW k \in {0, 1}, NEW more \in Seq(Call), Stay(k, more)
  PROVE  /\ CallsTyped' /\ CallsFit'
         /\ Len(calls) \in Nat /\ DOMAIN calls = 1 .. Len(calls) /\ DOMAIN calls' \subseteq Nat \ {0}
         /\ \A i \in DOMAIN calls' :
              \/ i + k \in DOMAIN calls /\ calls'[i] = calls[i + k]
              \/ \E j \in DOMAIN more : i = (Len(calls) - k) + j /\ calls'[i] = more[j]
         /\ \A j \in DOMAIN calls : j > k => j - k \in DOMAIN calls' /\ calls'[j - k] = calls[j]
         /\ \A j \in DOMAIN more :
              /\ (Len(calls) - k) + j \in DOMAIN calls'
              /\ calls'[(Len(calls) - k) + j] = more[j]
<1>1. CallsTyped /\ k <= Len(calls) /\ calls' = Pending(k) \o more /\ Placed \subseteq Placed'
  BY Typed DEF Inv, Stay
<1>2. /\ Pending(k) \in Seq(Call) /\ Len(Pending(k)) = Len(calls) - k
      /\ Len(calls) \in Nat /\ Len(calls) - k \in Nat /\ DOMAIN calls = 1 .. Len(calls)
      /\ \A i \in 1 .. Len(calls) - k : i + k \in DOMAIN calls /\ Pending(k)[i] = calls[i + k]
  BY <1>1, PendingCalls
<1>3. /\ calls' \in Seq(Call)
      /\ \A i \in DOMAIN calls' :
           \/ i + k \in DOMAIN calls /\ calls'[i] = Pending(k)[i]
           \/ \E j \in DOMAIN more : i = (Len(calls) - k) + j /\ calls'[i] = more[j]
      /\ \A j \in DOMAIN calls :
           j > k => j - k \in DOMAIN calls' /\ calls'[j - k] = Pending(k)[j - k]
      /\ \A j \in DOMAIN more :
           /\ (Len(calls) - k) + j \in DOMAIN calls'
           /\ calls'[(Len(calls) - k) + j] = more[j]
  <2>1. PICK kept : kept = Pending(k)
    OBVIOUS
  <2>2. kept \in Seq(Call) /\ Len(kept) = Len(calls) - k /\ calls' = kept \o more
    BY <1>1, <1>2, <2>1
  <2>3. /\ calls' \in Seq(Call)
        /\ \A i \in DOMAIN calls' :
             \/ i + k \in DOMAIN calls /\ calls'[i] = kept[i]
             \/ \E j \in DOMAIN more : i = (Len(calls) - k) + j /\ calls'[i] = more[j]
        /\ \A j \in DOMAIN calls :
             j > k => j - k \in DOMAIN calls' /\ calls'[j - k] = kept[j - k]
        /\ \A j \in DOMAIN more :
             /\ (Len(calls) - k) + j \in DOMAIN calls'
             /\ calls'[(Len(calls) - k) + j] = more[j]
    <3>1. Shaped(k, kept, more)
      BY <1>1, <2>2, Shape
    <3>2. QED
      BY <3>1 DEF Shaped
  <2>4. QED
    BY <2>1, <2>3
<1>4. DOMAIN calls' \subseteq Nat \ {0} /\ \A i \in DOMAIN calls' : i \in Nat /\ i # 0
  BY <1>3
<1>5. ASSUME NEW i \in DOMAIN calls', i + k \in DOMAIN calls
      PROVE  Pending(k)[i] = calls[i + k]
  <2>1. i \in 1 .. Len(calls) - k
    BY <1>2, <1>4, <1>5
  <2>2. QED
    BY <1>2, <2>1
<1>6. \A i \in DOMAIN calls' :
        \/ i + k \in DOMAIN calls /\ calls'[i] = calls[i + k]
        \/ \E j \in DOMAIN more : i = (Len(calls) - k) + j /\ calls'[i] = more[j]
  BY <1>3, <1>5
<1>7. ASSUME NEW j \in DOMAIN calls, j > k
      PROVE  j - k \in DOMAIN calls' /\ calls'[j - k] = calls[j]
  <2>1. j - k \in 1 .. Len(calls) - k /\ (j - k) + k = j
    BY <1>2, <1>7
  <2>2. QED
    BY <1>2, <1>3, <1>7, <2>1
<1>8. CallsTyped'
  <2>1. \A i \in DOMAIN calls' : calls'[i].order \in Placed' \cup {Null}
    BY <1>1, <1>6 DEF CallsTyped, Stay
  <2>2. QED
    BY <1>3, <2>1 DEF CallsTyped
<1>9. CallsFit'
  <2>1. \A c : Fits(c, Placed, screen.name) => Fits(c, Placed', screen'.name)
    BY <1>1 DEF Fits, Stay
  <2>2. \A j \in DOMAIN more : Fits(more[j], Placed', screen'.name)
    BY DEF Stay
  <2>3. \A j \in DOMAIN calls : Fits(calls[j], Placed, screen.name)
    BY DEF Inv, CallsFit
  <2>4. \A i \in DOMAIN calls' : Fits(calls'[i], Placed', screen'.name)
    BY <1>6, <2>1, <2>2, <2>3
  <2>5. QED
    BY <2>4 DEF CallsFit
<1>10. QED
  BY <1>2, <1>3, <1>4, <1>6, <1>7, <1>8, <1>9

\* What a step on the same screen must not do: forget a call that the disabled buttons wait
\* for, take the last item of an order while a list is shown, or show another bill.
LEMMA StayInv ==
  ASSUME Inv, NEW k \in {0, 1}, NEW more \in Seq(Call), Stay(k, more),
         StoreTyped', ScreenTyped',
         screen'.busy =>
           /\ screen.name \in {"tables", "running"}
           /\ \/ \E i \in DOMAIN more : Leaves(more[i])
              \/ screen.busy /\ (k = 1 => ~Leaves(calls[1])),
         screen.name = "running" =>
           \/ screen'.list = screen.list
           \/ /\ k = 1 /\ calls[1].op = "running"
              /\ \A entry \in screen'.list : entry.filled => rows'[entry.order].items # {},
         \A o \in Placed : rows[o].items # {} =>
           rows'[o].items # {} \/ (k = 1 /\ Removes(calls[1])),
         NEW o, screen.name = "billing" => o = screen.route,
         screen.name = "billing" /\ k = 1 /\ calls[1].op = "preview" /\ calls[1].order = o =>
           screen'.bill = BillNow(o)' /\ ~screen'.loading,
         /\ screen.name = "billing" /\ screen.bill = BillNow(o)
         /\ k = 1 => Harmless(calls[1], o)
         => /\ screen'.bill = BillNow(o)'
            /\ screen'.loading =>
                 \/ \E i \in DOMAIN more : more[i].op = "settle"
                 \/ screen.loading /\ (k = 1 => calls[1].op # "settle")
  PROVE  Inv'
<1>1. /\ CallsTyped' /\ CallsFit'
      /\ Len(calls) \in Nat /\ DOMAIN calls = 1 .. Len(calls) /\ DOMAIN calls' \subseteq Nat \ {0}
      /\ \A i \in DOMAIN calls' :
           \/ i + k \in DOMAIN calls /\ calls'[i] = calls[i + k]
           \/ \E j \in DOMAIN more : i = (Len(calls) - k) + j /\ calls'[i] = more[j]
      /\ \A j \in DOMAIN calls : j > k => j - k \in DOMAIN calls' /\ calls'[j - k] = calls[j]
      /\ \A j \in DOMAIN more :
           /\ (Len(calls) - k) + j \in DOMAIN calls'
           /\ calls'[(Len(calls) - k) + j] = more[j]
  BY StayCalls
<1>2. TypeOK'
  BY <1>1, Typed DEF TypeOK, StoreTyped, CallsTyped, ScreenTyped
<1>3. \A j \in DOMAIN calls : j > k \/ (j = 1 /\ k = 1)
  BY <1>1
<1>4. /\ screen'.name = screen.name /\ screen'.route = screen.route /\ Placed \subseteq Placed'
      /\ \A i \in DOMAIN more :
           /\ screen.name # "pos" => ~Removes(more[i])
           /\ screen.name = "billing" => Harmless(more[i], screen.route)
  BY DEF Stay
<1>5. BusyWaits'
  <2> SUFFICES ASSUME screen'.busy
               PROVE  screen'.name \in {"tables", "running"} /\ \E i \in DOMAIN calls' : Leaves(calls'[i])
    BY DEF BusyWaits
  <2>1. CASE \E i \in DOMAIN more : Leaves(more[i])
    BY <1>1, <1>4, <2>1
  <2>2. CASE screen.busy /\ (k = 1 => ~Leaves(calls[1]))
    <3>1. PICK j \in DOMAIN calls : Leaves(calls[j])
      BY <2>2 DEF Inv, BusyWaits
    <3>2. j > k
      BY <1>3, <2>2, <3>1
    <3>3. QED
      BY <1>1, <1>4, <3>1, <3>2
  <2>3. QED
    BY <2>1, <2>2
<1>6. ListFresh'
  <2> SUFFICES ASSUME screen.name = "running"
               PROVE  /\ \A entry \in screen'.list : entry.filled => rows'[entry.order].items # {}
                      /\ \A i \in DOMAIN calls' : Removes(calls'[i]) =>
                           /\ screen'.list = {}
                           /\ \A j \in DOMAIN calls' : calls'[j].op = "running" => i < j
    BY <1>4 DEF ListFresh
  <2>1. /\ \A entry \in screen.list : entry.filled => rows[entry.order].items # {}
        /\ \A i \in DOMAIN calls : Removes(calls[i]) =>
             /\ screen.list = {}
             /\ \A j \in DOMAIN calls : calls[j].op = "running" => i < j
    BY DEF Inv, ListFresh
  <2>2. \A entry \in screen.list : entry.order \in Placed
    <3>1. \A entry \in screen.list : entry.order \in Orders /\ entry.order \in Placed \cup {Null}
      BY Typed DEF Inv, ScreenTyped, Screen
    <3>2. QED
      BY <3>1, CounterAssumption
  <2>3. k = 1 /\ Removes(calls[1]) => screen.list = {}
    <3>1. k = 1 => 1 \in DOMAIN calls
      BY <1>1 DEF Stay
    <3>2. QED
      BY <2>1, <3>1
  <2>4. \A entry \in screen'.list : entry.filled => rows'[entry.order].items # {}
    BY <2>1, <2>2, <2>3
  <2>5. ASSUME NEW i \in DOMAIN calls', Removes(calls'[i])
        PROVE  /\ screen'.list = {}
               /\ \A j \in DOMAIN calls' : calls'[j].op = "running" => i < j
    <3>1. i + k \in DOMAIN calls /\ calls'[i] = calls[i + k]
      BY <1>1, <1>4, <2>5
    <3>2. screen.list = {} /\ \A j \in DOMAIN calls : calls[j].op = "running" => i + k < j
      BY <2>1, <2>5, <3>1
    <3>3. ~(k = 1 /\ calls[1].op = "running")
      <4>1. i \in Nat /\ ~(i + 1 < 1)
        BY <1>1
      <4>2. k = 1 => 1 \in DOMAIN calls
        BY <1>1 DEF Stay
      <4>3. QED
        BY <3>2, <4>1, <4>2
    <3>4. ASSUME NEW j \in DOMAIN calls', calls'[j].op = "running" PROVE i < j
      <4>1. i \in Nat /\ j \in Nat
        BY <1>1
      <4>2. CASE j + k \in DOMAIN calls /\ calls'[j] = calls[j + k]
        <5>1. i + k < j + k
          BY <3>2, <3>4, <4>2
        <5>2. QED
          BY <4>1, <5>1
      <4>3. CASE \E m \in DOMAIN more : j = (Len(calls) - k) + m /\ calls'[j] = more[m]
        <5>1. PICK m \in DOMAIN more : j = (Len(calls) - k) + m
          BY <4>3
        <5>2. m \in Nat /\ m # 0 /\ i + k <= Len(calls)
          BY <1>1, <3>1
        <5>3. QED
          BY <1>1, <4>1, <5>1, <5>2
      <4>4. QED
        BY <1>1, <4>2, <4>3
    <3>5. QED
      BY <3>2, <3>3, <3>4
  <2>6. QED
    BY <2>4, <2>5
<1>7. BillingStays'
  <2> SUFFICES ASSUME screen.name = "billing"
               PROVE  /\ screen.route \in Placed' /\ rows'[screen.route].items # {}
                      /\ \A i \in DOMAIN calls' : ~Removes(calls'[i])
    BY <1>4 DEF BillingStays
  <2>1. /\ screen.route \in Placed /\ rows[screen.route].items # {}
        /\ \A i \in DOMAIN calls : ~Removes(calls[i])
    BY DEF Inv, BillingStays
  <2>2. ~(k = 1 /\ Removes(calls[1]))
    <3>1. k = 1 => 1 \in DOMAIN calls
      BY <1>1 DEF Stay
    <3>2. QED
      BY <2>1, <3>1
  <2>3. \A i \in DOMAIN calls' : ~Removes(calls'[i])
    BY <1>1, <1>4, <2>1
  <2>4. QED
    BY <1>4, <2>1, <2>2, <2>3
<1>8. BillArrives'
  <2> SUFFICES ASSUME screen.name = "billing"
               PROVE  \E p \in {0} \cup DOMAIN calls' :
                        /\ Previews(p, o)'
                        /\ \A i \in DOMAIN calls' : i > p => Harmless(calls'[i], o)
    BY <1>4 DEF BillArrives, Previews
  <2>1. PICK p \in {0} \cup DOMAIN calls :
          Previews(p, o) /\ \A i \in DOMAIN calls : i > p => Harmless(calls[i], o)
    BY DEF Inv, BillArrives
  <2>2. p \in Nat
    BY <1>1, <2>1
  <2>3. \A j \in DOMAIN more : Harmless(more[j], o)
    BY <1>4
  <2>4. CASE p > k
    <3>1. p \in DOMAIN calls /\ calls[p].op = "preview" /\ calls[p].order = o
      BY <2>1, <2>2, <2>4 DEF Previews
    <3>2. p - k \in DOMAIN calls' /\ calls'[p - k] = calls[p] /\ p - k # 0
      BY <1>1, <2>2, <2>4, <3>1
    <3>3. \A i \in DOMAIN calls' : i > p - k => Harmless(calls'[i], o)
      <4>1. ASSUME NEW i \in DOMAIN calls', i > p - k PROVE i + k > p
        BY <1>1, <2>2, <4>1
      <4>2. QED
        BY <1>1, <2>1, <2>3, <4>1
    <3>4. Previews(p - k, o)'
      BY <3>1, <3>2 DEF Previews
    <3>5. QED
      BY <3>2, <3>3, <3>4
  <2>5. CASE ~(p > k)
    <3>1. p = 0 \/ (p = 1 /\ k = 1)
      BY <2>2, <2>5
    <3>2. \A i \in DOMAIN calls' : Harmless(calls'[i], o)
      <4>1. \A i \in DOMAIN calls' : i + k > p
        BY <1>1, <3>1
      <4>2. QED
        BY <1>1, <2>1, <2>3, <4>1
    <3>3. Previews(0, o)'
      <4>1. CASE p = 1 /\ k = 1
        <5>1. calls[1].op = "preview" /\ calls[1].order = o
          BY <2>1, <4>1 DEF Previews
        <5>2. screen'.bill = BillNow(o)' /\ ~screen'.loading
          BY <4>1, <5>1
        <5>3. QED
          BY <5>2 DEF Previews
      <4>2. CASE p = 0
        <5>1. /\ screen.bill = BillNow(o)
              /\ screen.loading => \E i \in DOMAIN calls : calls[i].op = "settle"
          BY <2>1, <4>2 DEF Previews
        <5>2. k = 1 => 1 \in DOMAIN calls /\ Harmless(calls[1], o)
          BY <1>1, <2>1, <4>2 DEF Stay
        <5>3. /\ screen'.bill = BillNow(o)'
              /\ screen'.loading =>
                   \/ \E i \in DOMAIN more : more[i].op = "settle"
                   \/ screen.loading /\ (k = 1 => calls[1].op # "settle")
          BY <5>1, <5>2
        <5>4. ASSUME screen'.loading PROVE \E i \in DOMAIN calls' : calls'[i].op = "settle"
          <6>1. CASE \E i \in DOMAIN more : more[i].op = "settle"
            BY <1>1, <6>1
          <6>2. CASE screen.loading /\ (k = 1 => calls[1].op # "settle")
            <7>1. PICK j \in DOMAIN calls : calls[j].op = "settle"
              BY <5>1, <6>2
            <7>2. j > k
              BY <1>3, <6>2, <7>1
            <7>3. QED
              BY <1>1, <7>1, <7>2
          <6>3. QED
            BY <5>3, <5>4, <6>1, <6>2
        <5>5. QED
          BY <5>3, <5>4 DEF Previews
      <4>3. QED
        BY <3>1, <4>1, <4>2
    <3>4. QED
      BY <3>2, <3>3
  <2>6. QED
    BY <2>4, <2>5
<1>9. QED
  BY <1>1, <1>2, <1>5, <1>6, <1>7, <1>8 DEF Inv

-----------------------------------------------------------------------------
(***************************************************************************)
(* Steps that enter a screen.                                              *)
(***************************************************************************)

Ops == {"create", "edit", "summary", "recall", "running", "held", "floor", "preview",
        "settle", "dropped"}
Chains == {"none", "edit", "seat", "seated", "leave"}

LEMMA ToType ==
  ASSUME NEW op \in Ops, NEW o \in Orders \cup {Null}, NEW edit \in Edits, NEW chain \in Chains
  PROVE  LET c == To(op, o, edit, chain)
         IN  c \in Call /\ c.op = op /\ c.order = o /\ c.edit = edit /\ c.chain = chain
<1>1. 0 \in 0 .. MaxItems
  BY CounterAssumption
<1>2. QED
  BY <1>1 DEF To, Call, Ops, Chains

\* The same, for a call that is named.
LEMMA ToCall ==
  ASSUME NEW op \in Ops, NEW o \in Orders \cup {Null}, NEW edit \in Edits, NEW chain \in Chains
  PROVE  \E c \in Call : /\ c = To(op, o, edit, chain)
                         /\ c.op = op /\ c.order = o /\ c.edit = edit /\ c.chain = chain
BY ToType

LEMMA NoEditType == NoEdit \in Edits /\ NoEdit.kind = "alter" /\ NoEdit.item = 0
<1>1. 0 \in 0 .. MaxItems
  BY CounterAssumption
<1>2. QED
  BY <1>1 DEF NoEdit, Change, Edits

LEMMA AskType ==
  ASSUME NEW op \in Ops, NEW o \in Orders \cup {Null}, NEW chain \in Chains
  PROVE  LET c == Ask(op, o, chain)
         IN  c \in Call /\ c.op = op /\ c.order = o /\ c.edit = NoEdit /\ c.chain = chain
BY NoEditType, ToType DEF Ask

\* What a screen asks for when it is mounted.
LEMMA MountType ==
  ASSUME NEW name \in {"pos", "tables", "running", "held", "billing"},
         NEW o \in Orders \cup {Null}, NEW cur
  PROVE  LET more == MountCalls(name, o, cur)
         IN  /\ more \in Seq(Call)
             /\ \A i \in DOMAIN more :
                  /\ more[i].chain = "none" /\ more[i].edit = NoEdit
                  /\ more[i].order \in {Null, o}
                  /\ \/ more[i].op \in {"create", "floor"}
                     \/ more[i].op = name /\ name \in {"running", "held"}
                     \/ more[i].op = "preview" /\ more[i].order = o /\ name = "billing"
             /\ name = "billing" => Len(more) = 1 /\ 1 \in DOMAIN more /\ more[1].op = "preview"
                                    /\ more[1].order = o
<1> DEFINE a == Ask("create", Null, "none")
           b == Ask("floor", Null, "none")
           c == Ask("preview", o, "none")
           d == Ask(name, Null, "none")
<1>1. /\ a \in Call /\ a.op = "create" /\ a.order = Null /\ a.edit = NoEdit /\ a.chain = "none"
      /\ b \in Call /\ b.op = "floor" /\ b.order = Null /\ b.edit = NoEdit /\ b.chain = "none"
      /\ c \in Call /\ c.op = "preview" /\ c.order = o /\ c.edit = NoEdit /\ c.chain = "none"
      /\ name \in {"running", "held"} =>
           d \in Call /\ d.op = name /\ d.order = Null /\ d.edit = NoEdit /\ d.chain = "none"
  <2>1. {"create", "floor", "preview", "running", "held"} \subseteq Ops /\ "none" \in Chains
    BY DEF Ops, Chains
  <2> HIDE DEF a, b, c, d
  <2> PICK null \in Orders \cup {Null} : null = Null
    OBVIOUS
  <2>2. a \in Call /\ a.op = "create" /\ a.order = Null /\ a.edit = NoEdit /\ a.chain = "none"
    BY <2>1, AskType DEF a
  <2>3. b \in Call /\ b.op = "floor" /\ b.order = Null /\ b.edit = NoEdit /\ b.chain = "none"
    BY <2>1, AskType DEF b
  <2>4. c \in Call /\ c.op = "preview" /\ c.order = o /\ c.edit = NoEdit /\ c.chain = "none"
    BY <2>1, AskType DEF c
  <2>5. ASSUME name \in {"running", "held"}
        PROVE  d \in Call /\ d.op = name /\ d.order = Null /\ d.edit = NoEdit /\ d.chain = "none"
    BY <2>1, <2>5, AskType DEF d
  <2>6. QED
    BY <2>2, <2>3, <2>4, <2>5
<1>2. MountCalls(name, o, cur) =
        IF name = "pos" /\ cur = Null THEN <<a, b>>
        ELSE IF name \in {"pos", "tables"} THEN <<b>> ELSE IF name = "billing" THEN <<c>> ELSE <<d>>
  BY DEF MountCalls
<1> HIDE DEF a, b, c, d
<1>3. CASE name = "pos" /\ cur = Null
  <2>1. <<a, b>> \in Seq(Call) /\ DOMAIN <<a, b>> = {1, 2} /\ <<a, b>>[1] = a /\ <<a, b>>[2] = b
    BY <1>1
  <2>2. MountCalls(name, o, cur) = <<a, b>>
    BY <1>2, <1>3
  <2>3. QED
    BY <1>1, <1>3, <2>1, <2>2
<1>4. ASSUME NEW e \in Call
      PROVE  <<e>> \in Seq(Call) /\ DOMAIN <<e>> = {1} /\ Len(<<e>>) = 1 /\ <<e>>[1] = e
  OBVIOUS
<1>5. CASE name \in {"pos", "tables"} /\ ~(name = "pos" /\ cur = Null)
  <2>1. MountCalls(name, o, cur) = <<b>>
    BY <1>2, <1>5
  <2>2. QED
    BY <1>1, <1>4, <1>5, <2>1
<1>6. CASE name = "billing"
  <2>1. MountCalls(name, o, cur) = <<c>>
    BY <1>2, <1>6
  <2>2. QED
    BY <1>1, <1>4, <1>6, <2>1
<1>7. CASE name \in {"running", "held"}
  <2>1. MountCalls(name, o, cur) = <<d>>
    BY <1>2, <1>7
  <2>2. QED
    BY <1>1, <1>4, <1>7, <2>1
<1>8. QED
  BY <1>3, <1>5, <1>6, <1>7

\* The answers to a screen that is left are dropped: nothing else about the calls changes.
LEMMA DroppedCalls ==
  ASSUME NEW pending \in Seq(Call)
  PROVE  /\ Dropped(pending) \in Seq(Call) /\ Len(Dropped(pending)) = Len(pending)
         /\ \A i \in DOMAIN pending :
              LET c == pending[i]
                  d == Dropped(pending)[i]
              IN  /\ d.order = c.order /\ d.edit = c.edit /\ d.chain = c.chain
                  /\ d.op = IF c.op \in {"running", "held"} THEN "dropped" ELSE c.op
<1>1. Len(pending) \in Nat /\ DOMAIN pending = 1 .. Len(pending)
      /\ \A i \in DOMAIN pending : pending[i] \in Call
  OBVIOUS
<1>2. ASSUME NEW c \in Call
      PROVE  LET d == IF c.op \in {"running", "held"} THEN [c EXCEPT !.op = "dropped"] ELSE c
             IN  /\ d \in Call /\ d.order = c.order /\ d.edit = c.edit /\ d.chain = c.chain
                 /\ d.op = IF c.op \in {"running", "held"} THEN "dropped" ELSE c.op
  BY DEF Call
<1>3. \A i \in DOMAIN pending :
        LET c == pending[i]
            d == Dropped(pending)[i]
        IN  /\ d \in Call
            /\ d.order = c.order /\ d.edit = c.edit /\ d.chain = c.chain
            /\ d.op = IF c.op \in {"running", "held"} THEN "dropped" ELSE c.op
  BY <1>1, <1>2 DEF Dropped
<1>4. Dropped(pending) \in [1 .. Len(pending) -> Call]
  <2>1. DOMAIN Dropped(pending) = 1 .. Len(pending)
        /\ Dropped(pending) = [i \in 1 .. Len(pending) |-> Dropped(pending)[i]]
    BY <1>1 DEF Dropped
  <2>2. QED
    BY <1>1, <1>3, <2>1
<1>5. Dropped(pending) \in Seq(Call) /\ Len(Dropped(pending)) = Len(pending)
  BY <1>1, <1>4
<1>6. QED
  BY <1>3, <1>5

LEMMA EnterInv ==
  ASSUME Inv, NEW k \in {0, 1}, k <= Len(calls),
         NEW name \in {"pos", "tables", "running", "held", "billing"},
         NEW o \in Placed \cup {Null}, NEW cur, Enter(name, o, cur, Pending(k)),
         UNCHANGED <<stored, added>>,
         shown' \in Placed \cup {Null}, floor' \in [Tables -> Placed \cup {Null}],
         name = "billing" =>
           /\ o \in Placed /\ rows[o].items # {} /\ \A i \in DOMAIN calls : ~Removes(calls[i])
  PROVE  Inv'
<1>1. /\ CallsTyped /\ StoreTyped /\ ScreenTyped /\ Placed' = Placed
      /\ rows' = rows /\ recent' = recent /\ paid' = paid /\ added' = added
      /\ screen' = Mounted(name, o)
      /\ calls' = Dropped(Pending(k)) \o MountCalls(name, o, cur)
  BY Typed DEF Inv, stored, Enter, Placed
<1>2. /\ Pending(k) \in Seq(Call) /\ Len(Pending(k)) = Len(calls) - k
      /\ Len(calls) \in Nat /\ Len(calls) - k \in Nat /\ DOMAIN calls = 1 .. Len(calls)
      /\ \A i \in 1 .. Len(calls) - k : i + k \in DOMAIN calls /\ Pending(k)[i] = calls[i + k]
  BY <1>1, PendingCalls
<1>3. o \in Orders \cup {Null}
  BY <1>1 DEF StoreTyped, Placed, ToSet
<1>4. PICK more \in Seq(Call) :
        /\ more = MountCalls(name, o, cur)
        /\ \A i \in DOMAIN more :
             /\ more[i].chain = "none" /\ more[i].edit = NoEdit
             /\ more[i].order \in {Null, o}
             /\ \/ more[i].op \in {"create", "floor"}
                \/ more[i].op = name /\ name \in {"running", "held"}
                \/ more[i].op = "preview" /\ more[i].order = o /\ name = "billing"
        /\ name = "billing" => Len(more) = 1 /\ 1 \in DOMAIN more /\ more[1].op = "preview"
                               /\ more[1].order = o
  BY <1>3, MountType
<1>5. PICK kept \in Seq(Call) :
        /\ kept = Dropped(Pending(k)) /\ Len(kept) = Len(calls) - k
        /\ \A i \in 1 .. Len(calls) - k :
             /\ kept[i].order = calls[i + k].order /\ kept[i].edit = calls[i + k].edit
             /\ kept[i].chain = calls[i + k].chain
             /\ kept[i].op = IF calls[i + k].op \in {"running", "held"}
                             THEN "dropped" ELSE calls[i + k].op
  <2>1. PICK pending \in Seq(Call) : pending = Pending(k)
    BY <1>2
  <2>2. DOMAIN pending = 1 .. Len(calls) - k
    BY <1>2, <2>1
  <2>3. QED
    BY <1>2, <2>1, <2>2, DroppedCalls
<1>6. /\ calls' \in Seq(Call)
      /\ \A i \in DOMAIN calls' :
           \/ i + k \in DOMAIN calls /\ calls'[i] = kept[i]
           \/ \E j \in DOMAIN more : i = (Len(calls) - k) + j /\ calls'[i] = more[j]
      /\ \A j \in DOMAIN calls : j > k => j - k \in DOMAIN calls' /\ calls'[j - k] = kept[j - k]
      /\ \A j \in DOMAIN more :
           /\ (Len(calls) - k) + j \in DOMAIN calls'
           /\ calls'[(Len(calls) - k) + j] = more[j]
  <2>1. calls' = kept \o more
    BY <1>1, <1>4, <1>5
  <2>2. CallsTyped /\ k \in {0, 1} /\ k <= Len(calls) /\ kept \in Seq(Call)
        /\ Len(kept) = Len(calls) - k /\ more \in Seq(Call)
    BY <1>1, <1>5
  <2>3. Shaped(k, kept, more)
    BY <2>1, <2>2, Shape
  <2>4. QED
    BY <2>3 DEF Shaped
<1>7. ASSUME NEW i \in DOMAIN calls'
      PROVE  \/ /\ i \in 1 .. Len(calls) - k /\ i + k \in DOMAIN calls
                /\ calls'[i].order = calls[i + k].order /\ calls'[i].edit = calls[i + k].edit
                /\ calls'[i].chain = calls[i + k].chain
                /\ calls'[i].op = IF calls[i + k].op \in {"running", "held"}
                                  THEN "dropped" ELSE calls[i + k].op
             \/ \E j \in DOMAIN more : i = (Len(calls) - k) + j /\ calls'[i] = more[j]
  <2>1. CASE i + k \in DOMAIN calls /\ calls'[i] = kept[i]
    <3>1. i \in Nat /\ i # 0
      BY <1>6
    <3>2. i \in 1 .. Len(calls) - k
      BY <1>2, <2>1, <3>1
    <3>3. QED
      BY <1>5, <2>1, <3>2
  <2>2. QED
    BY <1>6, <2>1
<1>8. /\ screen'.name = name /\ screen'.route = o /\ screen'.list = {} /\ ~screen'.busy
      /\ screen' \in Screen
  <2>1. /\ Mounted(name, o).name = name /\ Mounted(name, o).route = o
        /\ Mounted(name, o).list = {} /\ ~Mounted(name, o).busy
        /\ Mounted(name, o) \in Screen
    BY <1>3 DEF Mounted, Screen
  <2>2. QED
    BY <1>1, <2>1
<1>9. TypeOK'
  <2>1. ASSUME NEW i \in DOMAIN calls' PROVE calls'[i].order \in Placed \cup {Null}
    <3>1. \A j \in DOMAIN more : more[j].order \in Placed \cup {Null}
      BY <1>4
    <3>2. \A j \in DOMAIN calls : calls[j].order \in Placed \cup {Null}
      BY <1>1 DEF CallsTyped
    <3>3. QED
      BY <1>7, <3>1, <3>2
  <2>2. CallsTyped'
    BY <1>1, <1>6, <2>1 DEF CallsTyped
  <2>3. StoreTyped'
    BY <1>1 DEF StoreTyped, Settled
  <2>4. ScreenTyped'
    BY <1>1, <1>8 DEF ScreenTyped
  <2>5. QED
    BY <2>2, <2>3, <2>4 DEF TypeOK, CallsTyped, StoreTyped, ScreenTyped
<1>10. CallsFit'
  <2> SUFFICES ASSUME NEW i \in DOMAIN calls' PROVE Fits(calls'[i], Placed, name)
    BY <1>1, <1>8 DEF CallsFit
  <2>1. CASE \E j \in DOMAIN more : i = (Len(calls) - k) + j /\ calls'[i] = more[j]
    BY <1>4, <2>1, ZenonT(30) DEF Fits
  <2>2. CASE /\ i + k \in DOMAIN calls
             /\ calls'[i].order = calls[i + k].order /\ calls'[i].edit = calls[i + k].edit
             /\ calls'[i].chain = calls[i + k].chain
             /\ calls'[i].op = IF calls[i + k].op \in {"running", "held"}
                               THEN "dropped" ELSE calls[i + k].op
    <3>1. Fits(calls[i + k], Placed, screen.name)
      BY <2>2 DEF Inv, CallsFit
    <3>2. QED
      BY <2>2, <3>1 DEF Fits
  <2>3. QED
    BY <1>7, <2>1, <2>2
<1>11. BusyWaits'
  BY <1>8 DEF BusyWaits
<1>12. \A j \in DOMAIN more : ~Removes(more[j])
  BY <1>4, NoEditType DEF Removes
<1>13. ListFresh'
  <2> SUFFICES ASSUME NEW i \in DOMAIN calls', Removes(calls'[i]),
                      NEW j \in DOMAIN calls', calls'[j].op = "running"
               PROVE  i < j
    BY <1>8 DEF ListFresh
  <2>1. i \in 1 .. Len(calls) - k
    BY <1>7, <1>12
  <2>2. PICK m \in DOMAIN more : j = (Len(calls) - k) + m
    BY <1>7
  <2>3. m \in Nat /\ m # 0
    BY <1>4
  <2>4. QED
    BY <1>2, <2>1, <2>2, <2>3
<1>14. BillingStays'
  <2> SUFFICES ASSUME name = "billing", NEW i \in DOMAIN calls'
               PROVE  o \in Placed /\ rows[o].items # {} /\ ~Removes(calls'[i])
    <3>1. CASE DOMAIN calls' = {}
      BY <1>1, <1>8, <3>1 DEF BillingStays
    <3>2. QED
      BY <1>1, <1>8 DEF BillingStays
  <2>1. QED
    BY <1>7, <1>12 DEF Removes
<1>15. BillArrives'
  <2> SUFFICES ASSUME name = "billing"
               PROVE  \E p \in {0} \cup DOMAIN calls' :
                        /\ Previews(p, o)'
                        /\ \A i \in DOMAIN calls' : i > p => Harmless(calls'[i], o)
    BY <1>8 DEF BillArrives, Previews
  <2>1. PICK p \in DOMAIN calls' : p = (Len(calls) - k) + 1 /\ calls'[p] = more[1]
    BY <1>4, <1>6
  <2>2. p # 0 /\ calls'[p].op = "preview" /\ calls'[p].order = o
    BY <1>2, <1>4, <2>1
  <2>3. ASSUME NEW i \in DOMAIN calls' PROVE ~(i > p)
    <3>1. CASE i \in 1 .. Len(calls) - k
      BY <1>2, <2>1, <3>1
    <3>2. CASE \E j \in DOMAIN more : i = (Len(calls) - k) + j
      <4>1. \A j \in DOMAIN more : j = 1
        BY <1>4
      <4>2. QED
        BY <1>2, <2>1, <3>2, <4>1
    <3>3. QED
      BY <1>7, <3>1, <3>2
  <2>4. Previews(p, o)'
    BY <2>2 DEF Previews
  <2>5. QED
    BY <2>1, <2>3, <2>4
<1>16. QED
  BY <1>9, <1>10, <1>11, <1>13, <1>14, <1>15 DEF Inv

-----------------------------------------------------------------------------
(***************************************************************************)
(* What the cashier presses.                                               *)
(***************************************************************************)

\* A call as a sequence.
LEMMA OneCall ==
  ASSUME NEW c \in Call
  PROVE  \E more \in Seq(Call) : more = <<c>> /\ DOMAIN more = {1} /\ more[1] = c
<1>1. <<c>> \in Seq(Call) /\ DOMAIN <<c>> = {1} /\ <<c>>[1] = c
  OBVIOUS
<1>2. QED
  BY <1>1

\* A button that sends call c and stays on the screen.
LEMMA SendInv ==
  ASSUME Inv, NEW c \in Call, Send(c), UNCHANGED <<stored, shown, floor>>,
         added' \in 0 .. MaxItems, screen' \in Screen,
         screen'.name = screen.name, screen'.route = screen.route, screen'.list = screen.list,
         screen'.bill = screen.bill,
         screen'.busy => screen.busy \/ (screen.name \in {"tables", "running"} /\ Leaves(c)),
         screen'.loading => screen.loading \/ c.op = "settle",
         c.order \in Placed \cup {Null}, Fits(c, Placed, screen.name),
         screen.name # "pos" => ~Removes(c),
         screen.name = "billing" => Harmless(c, screen.route)
  PROVE  Inv'
<1>1. /\ CallsTyped /\ StoreTyped /\ ScreenTyped /\ Placed' = Placed /\ Settled' = Settled
      /\ rows' = rows /\ recent' = recent /\ paid' = paid /\ shown' = shown /\ floor' = floor
  BY Typed DEF Inv, stored, Placed, Settled
<1>2. PICK more \in Seq(Call) : more = <<c>> /\ DOMAIN more = {1} /\ more[1] = c
  BY OneCall
<1>3. DOMAIN more = {1} /\ more[1] = c
  BY <1>2
<1>4. calls' = Pending(0) \o more
  <2>1. calls \in Seq(Call)
    BY <1>1 DEF CallsTyped
  <2>2. Append(calls, c) = calls \o <<c>>
    BY <2>1
  <2>3. QED
    BY <1>2, <2>2 DEF Send, Pending
<1>5. Stay(0, more)
  <2>1. 0 <= Len(calls)
    BY <1>1 DEF CallsTyped
  <2>2. QED
    BY <1>1, <1>3, <1>4, <2>1 DEF Stay
<1>6. StoreTyped' /\ ScreenTyped'
  BY <1>1 DEF StoreTyped, ScreenTyped
<1>7. PICK o : o = screen.route
  OBVIOUS
<1>8. BillNow(o)' = BillNow(o)
  BY <1>1 DEF BillNow
<1>9. screen'.busy =>
        /\ screen.name \in {"tables", "running"}
        /\ (\E i \in DOMAIN more : Leaves(more[i])) \/ screen.busy
  BY <1>3 DEF Inv, BusyWaits
<1>10. screen'.loading => (\E i \in DOMAIN more : more[i].op = "settle") \/ screen.loading
  BY <1>3
<1>11. \A p \in Placed : rows[p].items # {} => rows'[p].items # {}
  BY <1>1
<1>12. QED
  BY <1>5, <1>6, <1>7, <1>8, <1>9, <1>10, <1>11, StayInv

LEMMA Names ==
  ASSUME TypeOK
  PROVE  /\ screen.name \in {"pos", "tables", "running", "held", "billing"}
         /\ screen \in Screen /\ screen.route \in Placed \cup {Null}
         /\ \A entry \in screen.list : entry.order \in Placed
         /\ shown \in Placed \cup {Null} /\ Placed \subseteq Orders /\ Null \notin Orders
         /\ \A o \in Placed : rows[o] \in Row
         /\ added \in 0 .. MaxItems /\ MaxItems \in Nat
<1>1. Placed \subseteq Orders
  BY DEF TypeOK, Placed, ToSet
<1>2. \A entry \in screen.list : entry.order \in Orders /\ entry.order \in Placed \cup {Null}
  BY DEF TypeOK, Screen
<1>3. \A entry \in screen.list : entry.order \in Placed
  BY <1>2, CounterAssumption
<1>4. QED
  BY <1>1, <1>3, CounterAssumption DEF TypeOK, Screen

\* Calls that name an order or nothing, and nothing their caller goes on with.
LEMMA AskInv ==
  ASSUME Inv, NEW op \in {"create", "floor", "running", "held", "summary", "recall"},
         NEW o \in Placed \cup {Null}, NEW chain \in {"none", "leave"},
         Send(Ask(op, o, chain)), UNCHANGED <<stored, shown, floor, added>>,
         op \in {"summary", "recall"} => o \in Placed,
         op \in {"running", "held"} => op = screen.name,
         chain = "leave" => op \in {"summary", "floor"},
         \/ screen' = screen
         \/ /\ screen' = [screen EXCEPT !.busy = TRUE]
            /\ screen.name \in {"tables", "running"} /\ chain = "leave"
  PROVE  Inv'
<1>1. screen \in Screen /\ o \in Orders \cup {Null} /\ added \in 0 .. MaxItems
  BY Names DEF Inv
<1>2. PICK c \in Call : /\ c = Ask(op, o, chain)
                        /\ c.op = op /\ c.order = o /\ c.edit = NoEdit /\ c.chain = chain
  <2>1. op \in Ops /\ chain \in Chains
    BY DEF Ops, Chains
  <2>2. QED
    BY <1>1, <2>1, AskType
<1>3. /\ screen' \in Screen /\ screen'.name = screen.name /\ screen'.route = screen.route
      /\ screen'.list = screen.list /\ screen'.bill = screen.bill
      /\ screen'.loading = screen.loading
      /\ screen'.busy => screen.busy \/ (screen.name \in {"tables", "running"} /\ chain = "leave")
  <2>1. CASE screen' = screen
    BY <1>1, <2>1
  <2>2. CASE /\ screen' = [screen EXCEPT !.busy = TRUE]
             /\ screen.name \in {"tables", "running"} /\ chain = "leave"
    BY <1>1, <2>2 DEF Screen
  <2>3. QED
    BY <2>1, <2>2
<1>4. /\ Fits(c, Placed, screen.name) /\ ~Removes(c) /\ Harmless(c, screen.route)
      /\ chain = "leave" => Leaves(c)
  BY <1>2, NoEditType DEF Fits, Removes, Harmless, AddsTo, Leaves
<1>5. Send(c) /\ c.order \in Placed \cup {Null} /\ added' \in 0 .. MaxItems
  BY <1>1, <1>2
<1>6. QED
  BY <1>3, <1>4, <1>5, SendInv

LEMMA NavigateInv == ASSUME Inv, Navigate PROVE Inv'
<1>1. PICK name \in {"pos", "tables", "running", "held"} : Enter(name, Null, shown, calls)
  BY DEF Navigate
<1>2. UNCHANGED <<stored, shown, floor, added>> /\ shown' \in Placed \cup {Null}
      /\ floor' \in [Tables -> Placed \cup {Null}]
  BY DEF Navigate, Inv, TypeOK
<1>3. Pending(0) = calls /\ 0 <= Len(calls)
  BY DEF Pending, Inv, TypeOK
<1>4. PICK cur : cur = shown
  OBVIOUS
<1>5. Enter(name, Null, cur, Pending(0))
  BY <1>1, <1>3, <1>4
<1>6. QED
  BY <1>2, <1>3, <1>5, EnterInv

LEMMA PressEditInv == ASSUME Inv, PressEdit PROVE Inv'
<1>1. PICK e \in Offered :
        /\ IF shown = Null THEN Send(To("create", Null, e, "edit"))
           ELSE Send(To("edit", shown, e, "none"))
        /\ added' = IF e.kind = "add" THEN added + 1 ELSE added
  BY DEF PressEdit
<1>2. screen.name = "pos" /\ UNCHANGED <<stored, shown, floor, screen>>
  BY DEF PressEdit
<1>3. /\ shown \in Placed \cup {Null} /\ Placed \subseteq Orders /\ screen \in Screen
      /\ added \in 0 .. MaxItems /\ MaxItems \in Nat /\ \A o \in Placed : rows[o] \in Row
  BY Names DEF Inv
<1>4. /\ e \in Edits /\ added' \in 0 .. MaxItems
      /\ shown = Null => e.kind # "remove"
  <2>1. CASE e \in {Change("alter"), Change("hold")} \cup {Seat(t) : t \in Tables}
    BY <1>1, <1>3, <2>1 DEF Edits, Change, Seat
  <2>2. CASE added < MaxItems /\ e = ChangeItem("add", added + 1)
    BY <1>1, <1>3, <2>2 DEF Edits, ChangeItem
  <2>3. CASE /\ shown # Null
             /\ \E kind \in {"alter", "remove"}, i \in rows[shown].items : e = ChangeItem(kind, i)
    <3>1. rows[shown].items \subseteq 1 .. MaxItems
      BY <1>3, <2>3 DEF Row
    <3>2. QED
      BY <1>1, <1>3, <2>3, <3>1 DEF Edits, ChangeItem
  <2>4. QED
    BY <2>1, <2>2, <2>3 DEF Offered
<1>5. {"create", "edit"} \subseteq Ops /\ {"edit", "none"} \subseteq Chains
  BY DEF Ops, Chains
<1>6. CASE shown = Null
  <2>1. PICK null \in Orders \cup {Null} : null = Null
    OBVIOUS
  <2>2. PICK c \in Call : /\ c = To("create", null, e, "edit") /\ c.op = "create"
                          /\ c.order = null /\ c.edit = e /\ c.chain = "edit"
    <3>1. "create" \in Ops /\ "edit" \in Chains /\ e \in Edits
      BY <1>4, <1>5
    <3>2. QED
      BY <3>1, ToCall
  <2>3. Send(c) /\ c.order \in Placed \cup {Null} /\ Fits(c, Placed, screen.name)
    BY <1>1, <1>4, <1>6, <2>1, <2>2 DEF Fits
  <2>4. QED
    BY <1>2, <1>3, <1>4, <2>3, SendInv
<1>7. CASE shown # Null
  <2>1. PICK o \in Placed : o = shown
    BY <1>3, <1>7
  <2>2. PICK c \in Call : /\ c = To("edit", o, e, "none") /\ c.op = "edit"
                          /\ c.order = o /\ c.edit = e /\ c.chain = "none"
    BY <1>3, <1>4, <1>5, ToType
  <2>3. Send(c) /\ c.order \in Placed \cup {Null} /\ Fits(c, Placed, screen.name)
    BY <1>1, <1>7, <2>1, <2>2 DEF Fits
  <2>4. QED
    BY <1>2, <1>3, <1>4, <2>3, SendInv
<1>8. QED
  BY <1>6, <1>7

LEMMA PressAskInv ==
  ASSUME Inv, PressNewDraft \/ PressRefresh \/ PressOpen \/ PressRecall \/ PressBack PROVE Inv'
<1>1. PICK null \in Placed \cup {Null} : null = Null
  OBVIOUS
<1>2. screen.name = "billing" => screen.route \in Placed
  BY DEF Inv, BillingStays
<1>3. \A entry \in screen.list : entry.order \in Placed
  BY Names DEF Inv
<1>4. CASE PressNewDraft
  <2>1. Send(Ask("create", null, "none")) /\ UNCHANGED <<stored, shown, floor, screen, added>>
    BY <1>1, <1>4 DEF PressNewDraft
  <2>2. QED
    BY <2>1, AskInv
<1>5. CASE PressRefresh
  <2>1. PICK op \in {"floor", "running", "held"} :
          Send(Ask(op, null, "none")) /\ (op \in {"running", "held"} => op = screen.name)
    BY <1>1, <1>5 DEF PressRefresh
  <2>2. UNCHANGED <<stored, shown, floor, screen, added>>
    BY <1>5 DEF PressRefresh
  <2>3. QED
    BY <2>1, <2>2, AskInv
<1>6. CASE PressOpen
  <2>1. PICK o \in Placed : Send(Ask("summary", o, "leave"))
    BY <1>3, <1>6 DEF PressOpen
  <2>2. /\ UNCHANGED <<stored, shown, floor, added>> /\ screen.name = "running"
        /\ screen' = [screen EXCEPT !.busy = TRUE]
    BY <1>6 DEF PressOpen
  <2>3. QED
    BY <2>1, <2>2, AskInv
<1>7. CASE PressRecall
  <2>1. PICK o \in Placed : Send(Ask("recall", o, "none"))
    BY <1>3, <1>7 DEF PressRecall
  <2>2. UNCHANGED <<stored, shown, floor, screen, added>>
    BY <1>7 DEF PressRecall
  <2>3. QED
    BY <2>1, <2>2, AskInv
<1>8. CASE PressBack
  <2>1. PICK o \in Placed : Send(Ask("summary", o, "leave"))
    BY <1>2, <1>8 DEF PressBack
  <2>2. UNCHANGED <<stored, shown, floor, screen, added>>
    BY <1>8 DEF PressBack
  <2>3. QED
    BY <2>1, <2>2, AskInv
<1>9. QED
  BY <1>4, <1>5, <1>6, <1>7, <1>8

\* The list the cashier picks from is not so old that the order has lost its items.
LEMMA PressBillInv == ASSUME Inv, PressBill PROVE Inv'
<1>1. PICK entry \in screen.list : entry.filled /\ Enter("billing", entry.order, shown, calls)
  BY DEF PressBill
<1>2. /\ UNCHANGED <<stored, shown, floor, added>> /\ shown' \in Placed \cup {Null}
      /\ floor' \in [Tables -> Placed \cup {Null}] /\ screen.name = "running"
  BY DEF PressBill, Inv, TypeOK
<1>3. Pending(0) = calls /\ 0 <= Len(calls)
  BY DEF Pending, Inv, TypeOK
<1>4. PICK cur, o : cur = shown /\ o = entry.order
  OBVIOUS
<1>5. o \in Placed /\ rows[o].items # {} /\ \A i \in DOMAIN calls : ~Removes(calls[i])
  BY <1>1, <1>2, <1>4, Names DEF Inv, ListFresh
<1>6. Enter("billing", o, cur, Pending(0))
  BY <1>1, <1>3, <1>4
<1>7. QED
  BY <1>2, <1>3, <1>5, <1>6, EnterInv

LEMMA PressTableInv == ASSUME Inv, PressTable PROVE Inv'
<1>1. /\ screen.name = "tables" /\ screen' = [screen EXCEPT !.busy = TRUE]
      /\ UNCHANGED <<stored, shown, floor, added>>
  BY DEF PressTable
<1>2. PICK t \in Tables :
        \/ floor[t] # Null /\ Send(Ask("summary", floor[t], "leave"))
        \/ shown # Null /\ Send(To("edit", shown, Seat(t), "seated"))
        \/ shown # Null /\ Send(To("edit", shown, [Seat(t) EXCEPT !.kind = "alter"], "seat"))
        \/ Send(To("create", Null, Seat(t), "seat"))
  BY DEF PressTable
<1>3. /\ shown \in Placed \cup {Null} /\ Placed \subseteq Orders /\ screen \in Screen
      /\ added \in 0 .. MaxItems /\ floor[t] \in Placed \cup {Null}
  BY Names DEF Inv, TypeOK
<1>4. PICK seat \in Edits, alter \in Edits :
        /\ seat = Seat(t) /\ seat.kind = "seat" /\ seat.item = 0
        /\ alter = [Seat(t) EXCEPT !.kind = "alter"] /\ alter.kind = "alter" /\ alter.item = 0
  <2>1. 0 \in 0 .. MaxItems /\ t \in Tables \cup {Null}
    BY CounterAssumption
  <2>2. Seat(t) \in Edits /\ Seat(t).kind = "seat" /\ Seat(t).item = 0
    BY <2>1 DEF Seat, Edits
  <2> DEFINE a == [Seat(t) EXCEPT !.kind = "alter"]
  <2>3. a = [kind |-> "alter", item |-> 0, table |-> t]
    BY DEF Seat
  <2>4. a \in Edits /\ a.kind = "alter" /\ a.item = 0
    BY <2>1, <2>3 DEF Edits
  <2> HIDE DEF a
  <2>5. \E alter \in Edits : alter = a /\ alter.kind = "alter" /\ alter.item = 0
    BY <2>4
  <2>6. QED
    BY <2>2, <2>5 DEF a
<1>5. /\ screen' \in Screen /\ screen'.name = screen.name /\ screen'.route = screen.route
      /\ screen'.list = screen.list /\ screen'.bill = screen.bill
      /\ screen'.loading = screen.loading
  BY <1>1, <1>3 DEF Screen
<1>6. ASSUME NEW c \in Call, Send(c), c.order \in Placed \cup {Null}, c.op \in {"edit", "create"},
             c.op = "edit" => c.order \in Placed, c.chain \in {"seat", "seated"},
             c.chain = "seated" => c.op = "edit",
             c.edit.kind \in {"alter", "seat"}, c.edit.item = 0
      PROVE  Inv'
  <2>1. Fits(c, Placed, screen.name) /\ ~Removes(c) /\ Leaves(c)
    BY <1>6 DEF Fits, Removes, Leaves
  <2>2. QED
    BY <1>1, <1>3, <1>5, <1>6, <2>1, SendInv
<1>7. {"create", "edit"} \subseteq Ops /\ {"seat", "seated"} \subseteq Chains
  BY DEF Ops, Chains
<1>8. CASE floor[t] # Null /\ Send(Ask("summary", floor[t], "leave"))
  <2>1. PICK o \in Placed : Send(Ask("summary", o, "leave"))
    BY <1>3, <1>8
  <2>2. QED
    BY <1>1, <2>1, AskInv
<1>9. CASE /\ shown # Null
           /\ \/ Send(To("edit", shown, Seat(t), "seated"))
              \/ Send(To("edit", shown, [Seat(t) EXCEPT !.kind = "alter"], "seat"))
  <2>1. PICK o \in Placed : o = shown
    BY <1>3, <1>9
  <2>2. PICK a \in Call : /\ a = To("edit", o, seat, "seated") /\ a.op = "edit" /\ a.order = o
                          /\ a.edit = seat /\ a.chain = "seated"
    BY <1>3, <1>7, ToType
  <2>3. PICK b \in Call : /\ b = To("edit", o, alter, "seat") /\ b.op = "edit" /\ b.order = o
                          /\ b.edit = alter /\ b.chain = "seat"
    BY <1>3, <1>7, ToType
  <2>4. Send(a) \/ Send(b)
    BY <1>4, <1>9, <2>1, <2>2, <2>3
  <2>5. CASE Send(a)
    BY <1>4, <1>6, <2>2, <2>5
  <2>6. CASE Send(b)
    BY <1>4, <1>6, <2>3, <2>6
  <2>7. QED
    BY <2>4, <2>5, <2>6
<1>10. CASE Send(To("create", Null, Seat(t), "seat"))
  <2>1. PICK null \in Orders \cup {Null} : null = Null
    OBVIOUS
  <2>2. PICK c \in Call : /\ c = To("create", null, seat, "seat") /\ c.op = "create"
                          /\ c.order = null /\ c.edit = seat /\ c.chain = "seat"
    BY <1>7, ToType
  <2>3. Send(c) /\ c.order \in Placed \cup {Null}
    BY <1>4, <1>10, <2>1, <2>2
  <2>4. QED
    BY <1>4, <1>6, <2>2, <2>3
<1>11. QED
  BY <1>2, <1>8, <1>9, <1>10

LEMMA PressSettleInv == ASSUME Inv, PressSettle PROVE Inv'
<1>1. /\ screen.name = "billing" /\ screen.bill # NoBill
      /\ screen' = [screen EXCEPT !.loading = TRUE] /\ UNCHANGED <<stored, shown, floor, added>>
      /\ Send([Ask("settle", screen.route, "none") EXCEPT !.amount = screen.bill.amount])
  BY DEF PressSettle
<1>2. screen \in Screen /\ screen.route \in Placed /\ Placed \subseteq Orders
      /\ added \in 0 .. MaxItems /\ MaxItems \in Nat
  BY <1>1, Names DEF Inv, BillingStays
<1>3. screen.bill.amount \in 0 .. MaxItems
  <2>1. screen.bill \in Bill
    BY <1>1, <1>2 DEF Screen
  <2>2. screen.bill.amount \in 1 .. MaxItems
    BY <2>1 DEF Bill
  <2>3. QED
    BY <1>2, <2>2
<1>4. PICK o \in Placed : o = screen.route
  BY <1>2
<1>5. PICK a \in Call : /\ a = Ask("settle", o, "none") /\ a.op = "settle" /\ a.order = o
                        /\ a.edit = NoEdit /\ a.chain = "none"
  <2>1. "settle" \in Ops /\ "none" \in Chains
    BY DEF Ops, Chains
  <2>2. QED
    BY <1>2, <2>1, AskType
<1>6. PICK c \in Call : /\ c = [a EXCEPT !.amount = screen.bill.amount]
                        /\ c.op = "settle" /\ c.order = o /\ c.edit = NoEdit /\ c.chain = "none"
  <2>1. PICK amount \in 0 .. MaxItems : amount = screen.bill.amount
    BY <1>3
  <2> DEFINE c == [a EXCEPT !.amount = amount]
  <2>2. c \in Call /\ c.op = a.op /\ c.order = a.order /\ c.edit = a.edit /\ c.chain = a.chain
    BY DEF Call
  <2> HIDE DEF c
  <2>3. \E d \in Call : d = c /\ d.op = "settle" /\ d.order = o /\ d.edit = NoEdit
                       /\ d.chain = "none"
    BY <1>5, <2>2
  <2>4. QED
    BY <2>1, <2>3 DEF c
<1>7. /\ screen' \in Screen /\ screen'.name = screen.name /\ screen'.route = screen.route
      /\ screen'.list = screen.list /\ screen'.bill = screen.bill /\ screen'.busy = screen.busy
  BY <1>1, <1>2 DEF Screen
<1>8. /\ Fits(c, Placed, screen.name) /\ ~Removes(c) /\ Harmless(c, screen.route)
  BY <1>4, <1>6, NoEditType DEF Fits, Removes, Harmless, AddsTo
<1>9. Send(c) /\ c.order \in Placed \cup {Null} /\ added' \in 0 .. MaxItems
  BY <1>1, <1>2, <1>4, <1>5, <1>6
<1>10. QED
  BY <1>1, <1>6, <1>7, <1>8, <1>9, SendInv

-----------------------------------------------------------------------------
(***************************************************************************)
(* What the main process answers.                                          *)
(***************************************************************************)

\* Steps that leave the screen as it is and settle nothing.
LEMMA StaySame ==
  ASSUME Inv, NEW k \in {0, 1}, NEW more \in Seq(Call), Stay(k, more),
         StoreTyped', ScreenTyped', UNCHANGED <<screen, paid>>,
         k = 1 => calls[1].op \notin {"preview", "settle"},
         k = 1 /\ Leaves(calls[1]) /\ screen.busy => \E i \in DOMAIN more : Leaves(more[i]),
         \A o \in Placed :
           \/ rows'[o].items = rows[o].items
           \/ k = 1 /\ Removes(calls[1])
           \/ k = 1 /\ AddsTo(calls[1], o) /\ rows'[o].items # {}
  PROVE  Inv'
<1>1. screen' = screen /\ Settled' = Settled /\ paid' = paid
  BY DEF Settled
<1>2. k = 1 => 1 \in DOMAIN calls
  BY Typed DEF Inv, Stay, CallsTyped
<1>3. PICK o : o = screen.route
  OBVIOUS
<1>4. screen.name = "billing" =>
        o \in Placed /\ rows[o].items # {} /\ (k = 1 => ~Removes(calls[1]))
  BY <1>2, <1>3 DEF Inv, BillingStays
<1>5. screen'.busy =>
        /\ screen.name \in {"tables", "running"}
        /\ \/ \E i \in DOMAIN more : Leaves(more[i])
           \/ screen.busy /\ (k = 1 => ~Leaves(calls[1]))
  BY <1>1 DEF Inv, BusyWaits
<1>6. \A q \in Placed : rows[q].items # {} =>
        rows'[q].items # {} \/ (k = 1 /\ Removes(calls[1]))
  OBVIOUS
<1>7. ASSUME screen.name = "billing", k = 1 => Harmless(calls[1], o)
      PROVE  BillNow(o)' = BillNow(o)
  <2>1. rows'[o].items = rows[o].items
    BY <1>4, <1>7 DEF Harmless
  <2>2. QED
    BY <1>1, <2>1 DEF BillNow, Total
<1>8. screen.name = "billing" /\ k = 1 /\ calls[1].op = "preview" /\ calls[1].order = o =>
        screen'.bill = BillNow(o)' /\ ~screen'.loading
  OBVIOUS
<1>9. /\ screen.name = "billing" /\ screen.bill = BillNow(o)
      /\ k = 1 => Harmless(calls[1], o)
      => /\ screen'.bill = BillNow(o)'
         /\ screen'.loading =>
              \/ \E i \in DOMAIN more : more[i].op = "settle"
              \/ screen.loading /\ (k = 1 => calls[1].op # "settle")
  BY <1>1, <1>7
<1>10. screen.name = "running" =>
         \/ screen'.list = screen.list
         \/ /\ k = 1 /\ calls[1].op = "running"
            /\ \A entry \in screen'.list : entry.filled => rows'[entry.order].items # {}
  BY <1>1
<1>11. screen.name = "billing" => o = screen.route
  BY <1>3
<1>12. QED
  BY <1>5, <1>6, <1>8, <1>9, <1>10, <1>11, StayInv

\* The call that is answered.
LEMMA HeadCall ==
  ASSUME Inv, calls # <<>>
  PROVE  /\ 1 \in DOMAIN calls /\ 1 <= Len(calls) /\ Pending(1) = Tail(calls)
         /\ Head(calls) = calls[1] /\ calls[1] \in Call /\ calls[1].order \in Placed \cup {Null}
         /\ Fits(calls[1], Placed, screen.name)
         /\ calls[1].op \in {"edit", "summary", "recall", "preview", "settle"} =>
              calls[1].order \in Placed /\ calls[1].order \in Orders
<1>1. calls \in Seq(Call) /\ \A i \in DOMAIN calls : calls[i].order \in Placed \cup {Null}
  BY DEF Inv, TypeOK
<1>2. 1 \in DOMAIN calls /\ 1 <= Len(calls) /\ Head(calls) = calls[1] /\ calls[1] \in Call
  BY <1>1
<1>3. Fits(calls[1], Placed, screen.name)
  BY <1>2 DEF Inv, CallsFit
<1>4. Placed \subseteq Orders
  BY DEF Inv, TypeOK, Placed, ToSet
<1>5. QED
  BY <1>1, <1>2, <1>3, <1>4 DEF Pending, Fits

\* No call follows.
LEMMA NoneFollow ==
  ASSUME Inv, calls # <<>>, calls' = Tail(calls), Placed \subseteq Placed',
         screen'.name = screen.name, screen'.route = screen.route
  PROVE  \E more \in Seq(Call) : more = <<>> /\ DOMAIN more = {} /\ Stay(1, more)
<1>1. <<>> \in Seq(Call) /\ DOMAIN <<>> = {}
  OBVIOUS
<1>2. PICK kept \in Seq(Call) : kept = Tail(calls)
  <2>1. calls \in Seq(Call)
    BY DEF Inv, TypeOK
  <2>2. Tail(calls) \in Seq(Call)
    BY <2>1, HeadTailProperties
  <2>3. QED
    BY <2>2
<1>3. kept \o <<>> = kept
  BY <1>2, ConcatEmptySeq
<1>4. calls' = Pending(1) \o <<>>
  BY <1>2, <1>3 DEF Pending
<1>5. Stay(1, <<>>)
  BY <1>1, <1>4, HeadCall DEF Stay
<1>6. QED
  BY <1>1, <1>5

\* What follows in a chain about order o: at most one call, which takes no item away and
\* adds one to order o only.
LEMMA FollowingType ==
  ASSUME NEW c \in Call, NEW o \in Orders, NEW placed, o \in placed, NEW name, NEW before,
         Fits(c, before, name)
  PROVE  \E more \in Seq(Call) :
           /\ more = Following(c, o)
           /\ \A i \in DOMAIN more :
                /\ more[i].order \in {o, Null} /\ Fits(more[i], placed, name)
                /\ ~Removes(more[i]) /\ more[i].op \in {"edit", "floor"}
                /\ \A p : AddsTo(more[i], p) => p = o /\ c.chain = "edit"
           /\ c.chain \in {"seat", "seated"} => \E i \in DOMAIN more : Leaves(more[i])
<1>1. {"edit", "floor"} \subseteq Ops /\ {"none", "seated", "leave"} \subseteq Chains
  BY DEF Ops, Chains
<1>2. c.edit \in Edits
  BY DEF Call
<1>3. CASE c.chain = "edit"
  <2>1. PICK d \in Call : /\ d = To("edit", o, c.edit, "none")
                          /\ d.op = "edit" /\ d.order = o /\ d.edit = c.edit /\ d.chain = "none"
    BY <1>1, <1>2, ToCall
  <2>2. PICK more \in Seq(Call) : more = <<d>> /\ DOMAIN more = {1} /\ more[1] = d
    BY OneCall
  <2>3. more = Following(c, o)
    BY <1>3, <2>1, <2>2 DEF Following
  <2>4. Fits(d, placed, name) /\ ~Removes(d) /\ \A p : AddsTo(d, p) => p = o
    BY <1>3, <2>1 DEF Fits, Removes, AddsTo
  <2>5. QED
    BY <1>3, <2>1, <2>2, <2>3, <2>4
<1>4. CASE c.chain = "seat"
  <2>1. c.edit.table \in Tables \cup {Null} /\ 0 \in 0 .. MaxItems
    BY <1>2, CounterAssumption DEF Edits
  <2>2. PICK e \in Edits : e = Seat(c.edit.table) /\ e.kind = "seat" /\ e.item = 0
    <3>1. Seat(c.edit.table) \in Edits /\ Seat(c.edit.table).kind = "seat"
          /\ Seat(c.edit.table).item = 0
      BY <2>1 DEF Seat, Edits
    <3>2. QED
      BY <3>1
  <2>3. PICK d \in Call : /\ d = To("edit", o, e, "seated")
                          /\ d.op = "edit" /\ d.order = o /\ d.edit = e /\ d.chain = "seated"
    BY <1>1, ToCall
  <2>4. PICK more \in Seq(Call) : more = <<d>> /\ DOMAIN more = {1} /\ more[1] = d
    BY OneCall
  <2>5. more = Following(c, o)
    BY <1>4, <2>2, <2>3, <2>4 DEF Following
  <2>6. Fits(d, placed, name) /\ ~Removes(d) /\ Leaves(d) /\ \A p : ~AddsTo(d, p)
    BY <2>2, <2>3 DEF Fits, Removes, AddsTo, Leaves
  <2>7. QED
    BY <1>4, <2>3, <2>4, <2>5, <2>6
<1>5. CASE c.chain = "seated"
  <2>1. PICK null \in Orders \cup {Null} : null = Null
    OBVIOUS
  <2>2. PICK d \in Call : /\ d = Ask("floor", null, "leave") /\ d.op = "floor"
                          /\ d.order = null /\ d.edit = NoEdit /\ d.chain = "leave"
    <3>1. "floor" \in Ops /\ "leave" \in Chains
      BY <1>1
    <3>2. QED
      BY <3>1, AskType
  <2>3. PICK more \in Seq(Call) : more = <<d>> /\ DOMAIN more = {1} /\ more[1] = d
    BY OneCall
  <2>4. more = Following(c, o)
    BY <1>5, <2>1, <2>2, <2>3 DEF Following
  <2>5. Fits(d, placed, name) /\ ~Removes(d) /\ Leaves(d) /\ \A p : ~AddsTo(d, p)
    BY <2>2, NoEditType DEF Fits, Removes, AddsTo, Leaves
  <2>6. QED
    BY <1>5, <2>1, <2>2, <2>3, <2>4, <2>5
<1>6. CASE c.chain \notin {"edit", "seat", "seated"}
  <2>1. <<>> \in Seq(Call) /\ DOMAIN <<>> = {} /\ Following(c, o) = <<>>
    BY <1>6 DEF Following
  <2>2. QED
    BY <1>6, <2>1
<1>7. QED
  BY <1>3, <1>4, <1>5, <1>6

LEMMA AnswerCreateInv == ASSUME Inv, AnswerCreate PROVE Inv'
<1>1. PICK o \in Orders \ Placed :
        /\ recent' = <<o>> \o recent /\ rows' = [rows EXCEPT ![o] = NewRow] /\ shown' = o
        /\ calls' = Tail(calls) \o Following(Head(calls), o)
  BY DEF AnswerCreate
<1>2. UNCHANGED <<paid, floor, screen, added>> /\ calls # <<>> /\ Head(calls).op = "create"
  BY DEF AnswerCreate, Answers
<1>3. /\ 1 <= Len(calls) /\ Pending(1) = Tail(calls) /\ Head(calls) = calls[1]
      /\ calls[1] \in Call /\ Fits(calls[1], Placed, screen.name)
  BY <1>2, HeadCall
<1>4. StoreTyped /\ ScreenTyped
  BY Typed DEF Inv
<1>5. /\ recent' \in Seq(Orders) /\ Placed' = Placed \cup {o}
      /\ \A i, j \in DOMAIN recent' : recent'[i] = recent'[j] => i = j
  <2>1. PICK list : list = <<o>> \o recent
    OBVIOUS
  <2>2. /\ list \in Seq(Orders) /\ ToSet(list) = Placed \cup {o}
        /\ \A i, j \in DOMAIN list : list[i] = list[j] => i = j
    BY <2>1, NewListed DEF Inv
  <2>3. recent' = list
    BY <1>1, <2>1
  <2>4. QED
    BY <2>2, <2>3 DEF Placed
<1>6. StoreTyped'
  <2>1. NewRow \in Row
    BY DEF NewRow, Row
  <2>2. rows' \in [Orders -> Row] /\ paid' \in [Orders -> 0 .. MaxItems] /\ Settled' = Settled
    BY <1>1, <1>2, <1>4, <2>1 DEF StoreTyped, Settled
  <2>3. QED
    BY <1>4, <1>5, <2>2 DEF StoreTyped
<1>7. ScreenTyped'
  BY <1>1, <1>2, <1>4, <1>5 DEF ScreenTyped
<1>8. PICK placed : placed = Placed'
  OBVIOUS
<1>9. PICK c \in Call : c = calls[1]
  BY <1>3
<1>10. PICK more \in Seq(Call) :
         /\ more = Following(c, o)
         /\ \A i \in DOMAIN more :
              /\ more[i].order \in {o, Null} /\ Fits(more[i], placed, screen.name)
              /\ ~Removes(more[i]) /\ more[i].op \in {"edit", "floor"}
              /\ \A p : AddsTo(more[i], p) => p = o /\ c.chain = "edit"
         /\ c.chain \in {"seat", "seated"} => \E i \in DOMAIN more : Leaves(more[i])
  <2>1. PICK name, before : name = screen.name /\ before = Placed
    OBVIOUS
  <2>2. Fits(c, before, name) /\ o \in placed
    BY <1>3, <1>5, <1>8, <1>9, <2>1
  <2>3. QED
    BY <2>1, <2>2, FollowingType
<1>11. Stay(1, more)
  <2>1. screen.name = "billing" => screen.route \in Placed
    BY DEF Inv, BillingStays
  <2>2. screen.name = "billing" => \A i \in DOMAIN more : Harmless(more[i], screen.route)
    BY <1>10, <2>1 DEF Harmless
  <2>3. calls' = Pending(1) \o more
    BY <1>1, <1>3, <1>9, <1>10
  <2>4. QED
    BY <1>2, <1>3, <1>5, <1>8, <1>10, <2>2, <2>3 DEF Stay
<1>12. /\ calls[1].op \notin {"preview", "settle"}
       /\ Leaves(calls[1]) => \E i \in DOMAIN more : Leaves(more[i])
  BY <1>2, <1>3, <1>9, <1>10 DEF Fits, Leaves
<1>13. \A p \in Placed : rows'[p].items = rows[p].items
  BY <1>1, <1>4 DEF StoreTyped
<1>14. UNCHANGED <<screen, paid>>
  BY <1>2
<1>15. QED
  BY <1>6, <1>7, <1>11, <1>12, <1>13, <1>14, StaySame

\* A write of a stored order leaves the tables of the main process as they should be.
LEMMA StoreType ==
  ASSUME Inv, NEW o \in Placed, NEW row \in Row, Store(o, row), UNCHANGED paid
  PROVE  StoreTyped' /\ Placed' = Placed
<1>1. StoreTyped
  BY Typed DEF Inv
<1>2. recent' = Touched(o) /\ rows' = [rows EXCEPT ![o] = row] /\ paid' = paid
  BY DEF Store
<1>3. /\ recent' \in Seq(Orders) /\ Placed' = Placed
      /\ \A i, j \in DOMAIN recent' : recent'[i] = recent'[j] => i = j
  <2>1. PICK list : list = Touched(o)
    OBVIOUS
  <2>2. /\ list \in Seq(Orders) /\ ToSet(list) = Placed
        /\ \A i, j \in DOMAIN list : list[i] = list[j] => i = j
    BY <2>1, TouchedListed DEF Inv
  <2>3. recent' = list
    BY <1>2, <2>1
  <2>4. QED
    BY <2>2, <2>3 DEF Placed
<1>4. rows' \in [Orders -> Row] /\ paid' \in [Orders -> 0 .. MaxItems] /\ Settled' = Settled
  BY <1>1, <1>2 DEF StoreTyped, Settled
<1>5. QED
  BY <1>1, <1>3, <1>4 DEF StoreTyped

LEMMA AnswerEditInv == ASSUME Inv, AnswerEdit PROVE Inv'
<1>1. /\ UNCHANGED <<paid, floor, screen, added>> /\ calls # <<>> /\ Head(calls).op = "edit"
  BY DEF AnswerEdit, Answers
<1>2. /\ 1 \in DOMAIN calls /\ 1 <= Len(calls) /\ Pending(1) = Tail(calls)
      /\ Head(calls) = calls[1] /\ calls[1] \in Call /\ Fits(calls[1], Placed, screen.name)
      /\ calls[1].order \in Placed /\ calls[1].order \in Orders
  BY <1>1, HeadCall
<1>3. StoreTyped /\ ScreenTyped
  BY Typed DEF Inv
<1>4. PICK c \in Call, o \in Placed, row \in Row :
        c = calls[1] /\ o = calls[1].order /\ row = rows[o]
  BY <1>2, <1>3 DEF StoreTyped
<1>5. /\ o \in Orders /\ c.edit \in Edits /\ c.op = "edit" /\ c.order = o
      /\ Fits(c, Placed, screen.name) /\ c.chain # "edit"
  BY <1>1, <1>2, <1>4 DEF Call, Fits
<1>6. CASE /\ Accepted(row, c.edit) /\ Store(o, Edited(row, c.edit)) /\ shown' = o
           /\ calls' = Tail(calls) \o Following(c, o)
  <2>1. PICK new \in Row : new = Edited(row, c.edit)
    BY <1>5, EditedType
  <2>2. Store(o, new) /\ UNCHANGED paid
    BY <1>1, <1>6, <2>1
  <2>3. StoreTyped' /\ Placed' = Placed
    BY <2>2, StoreType
  <2>4. ScreenTyped'
    BY <1>1, <1>3, <1>6, <2>3 DEF ScreenTyped
  <2>5. PICK more \in Seq(Call) :
          /\ more = Following(c, o)
          /\ \A i \in DOMAIN more :
               /\ more[i].order \in {o, Null} /\ Fits(more[i], Placed, screen.name)
               /\ ~Removes(more[i]) /\ more[i].op \in {"edit", "floor"}
               /\ \A p : AddsTo(more[i], p) => p = o /\ c.chain = "edit"
          /\ c.chain \in {"seat", "seated"} => \E i \in DOMAIN more : Leaves(more[i])
    <3>1. PICK name, placed : name = screen.name /\ placed = Placed
      OBVIOUS
    <3>2. Fits(c, placed, name) /\ o \in placed
      BY <1>5, <3>1
    <3>3. QED
      BY <1>5, <3>1, <3>2, FollowingType
  <2>6. Stay(1, more)
    <3>1. \A i \in DOMAIN more : Harmless(more[i], screen.route)
      BY <1>5, <2>5 DEF Harmless
    <3>2. calls' = Pending(1) \o more
      BY <1>2, <1>6, <2>5
    <3>3. QED
      BY <1>1, <1>2, <2>3, <2>5, <3>1, <3>2 DEF Stay
  <2>7. /\ calls[1].op \notin {"preview", "settle"}
        /\ Leaves(calls[1]) => \E i \in DOMAIN more : Leaves(more[i])
    BY <1>4, <1>5, <2>5 DEF Fits, Leaves
  <2>8. ASSUME NEW p \in Placed
        PROVE  \/ rows'[p].items = rows[p].items
               \/ Removes(calls[1])
               \/ AddsTo(calls[1], p) /\ rows'[p].items # {}
    <3>1. rows' = [rows EXCEPT ![o] = new] /\ p \in Orders /\ rows \in [Orders -> Row]
      BY <1>3, <2>2 DEF Store, StoreTyped, Placed, ToSet
    <3>2. CASE p # o
      BY <3>1, <3>2
    <3>3. CASE p = o
      <4>1. rows'[p] = Edited(row, c.edit) /\ rows[p] = row
        BY <1>4, <2>1, <3>1, <3>3
      <4>2. CASE c.edit.kind = "remove"
        BY <1>4, <1>5, <4>2 DEF Removes
      <4>3. CASE c.edit.kind = "add"
        <5>1. rows'[p].items = row.items \cup {c.edit.item}
          BY <4>1, <4>3 DEF Edited
        <5>2. AddsTo(calls[1], p)
          BY <1>4, <1>5, <3>3, <4>3 DEF AddsTo
        <5>3. QED
          BY <5>1, <5>2
      <4>4. CASE c.edit.kind \notin {"add", "remove"}
        BY <4>1, <4>4 DEF Edited
      <4>5. QED
        BY <4>2, <4>3, <4>4
    <3>4. QED
      BY <3>2, <3>3
  <2>9. UNCHANGED <<screen, paid>>
    BY <1>1
  <2>10. QED
    BY <2>3, <2>4, <2>6, <2>7, <2>8, <2>9, StaySame
<1>7. CASE /\ MayRefuse(c)
           /\ calls' = Tail(calls) /\ UNCHANGED <<recent, rows, shown>>
  <2>1. Placed' = Placed /\ StoreTyped' /\ ScreenTyped'
    BY <1>1, <1>3, <1>7 DEF Placed, Settled, StoreTyped, ScreenTyped
  <2>2. PICK more \in Seq(Call) : more = <<>> /\ Stay(1, more)
    BY <1>1, <1>7, <2>1, NoneFollow
  <2>3. ~Leaves(calls[1]) /\ calls[1].op \notin {"preview", "settle"}
    BY <1>4, <1>5, <1>7 DEF Leaves, Fits, MayRefuse, Accepted
  <2>4. \A p \in Placed : rows'[p].items = rows[p].items
    BY <1>7
  <2>5. UNCHANGED <<screen, paid>>
    BY <1>1
  <2>6. QED
    BY <2>1, <2>2, <2>3, <2>4, <2>5, StaySame
<1>8. QED
  <2>1. \/ /\ Accepted(row, c.edit) /\ Store(o, Edited(row, c.edit)) /\ shown' = o
           /\ calls' = Tail(calls) \o Following(c, o)
        \/ /\ MayRefuse(c)
           /\ calls' = Tail(calls) /\ UNCHANGED <<recent, rows, shown>>
    BY <1>2, <1>4 DEF AnswerEdit
  <2>2. QED
    BY <1>6, <1>7, <2>1

\* navigate("/pos") once the first call is answered: no button of the POS screen waits.
LEMMA EnterPosInv ==
  ASSUME Inv, calls # <<>>, NEW cur, EnterPos(cur, Tail(calls)), UNCHANGED <<stored, added>>,
         shown' \in Placed \cup {Null}, floor' \in [Tables -> Placed \cup {Null}],
         calls[1].op \notin {"preview", "settle"}
  PROVE  Inv'
<1>1. 1 <= Len(calls) /\ Pending(1) = Tail(calls)
  BY HeadCall
<1>2. StoreTyped /\ ScreenTyped
  BY Typed DEF Inv
<1>3. CASE screen.name = "pos"
  <2>1. screen' = screen /\ calls' = Tail(calls)
    BY <1>3 DEF EnterPos
  <2>2. /\ Placed' = Placed /\ StoreTyped' /\ rows' = rows
        /\ UNCHANGED <<screen, paid>>
    BY <1>2, <2>1 DEF stored, Placed, Settled, StoreTyped
  <2>3. ScreenTyped'
    BY <1>2, <2>1, <2>2 DEF ScreenTyped
  <2>4. PICK more \in Seq(Call) : more = <<>> /\ Stay(1, more)
    BY <2>1, <2>2, NoneFollow
  <2>5. ~screen.busy
    BY <1>3 DEF Inv, BusyWaits
  <2>6. QED
    BY <2>2, <2>3, <2>4, <2>5, StaySame
<1>4. CASE screen.name # "pos"
  <2>1. Enter("pos", Null, cur, Pending(1))
    BY <1>1, <1>4 DEF EnterPos
  <2>2. PICK null \in Placed \cup {Null} : null = Null
    OBVIOUS
  <2>3. Enter("pos", null, cur, Pending(1))
    BY <2>1, <2>2
  <2>4. QED
    BY <1>1, <2>3, EnterInv
<1>5. QED
  BY <1>3, <1>4

LEMMA AnswerSummaryInv == ASSUME Inv, AnswerSummary PROVE Inv'
<1>1. /\ calls # <<>> /\ Head(calls).op = "summary" /\ shown' = Head(calls).order
      /\ EnterPos(Head(calls).order, Tail(calls)) /\ UNCHANGED <<stored, floor, added>>
  BY DEF AnswerSummary, Answers
<1>2. Head(calls) = calls[1] /\ calls[1].order \in Placed
  BY <1>1, HeadCall
<1>3. PICK cur : cur = Head(calls).order
  OBVIOUS
<1>4. EnterPos(cur, Tail(calls)) /\ shown' \in Placed \cup {Null}
      /\ calls[1].op \notin {"preview", "settle"}
  BY <1>1, <1>2, <1>3
<1>5. floor' \in [Tables -> Placed \cup {Null}]
  BY <1>1 DEF Inv, TypeOK
<1>6. QED
  BY <1>1, <1>4, <1>5, EnterPosInv

LEMMA AnswerRecallInv == ASSUME Inv, AnswerRecall PROVE Inv'
<1>1. /\ calls # <<>> /\ Head(calls).op = "recall" /\ calls' = Tail(calls)
      /\ UNCHANGED <<paid, floor, screen, added>>
  BY DEF AnswerRecall, Answers
<1>2. /\ Head(calls) = calls[1] /\ calls[1].order \in Placed
      /\ Fits(calls[1], Placed, screen.name)
  BY <1>1, HeadCall
<1>3. StoreTyped /\ ScreenTyped
  BY Typed DEF Inv
<1>4. PICK o \in Placed : o = Head(calls).order
  BY <1>2
<1>5. o \in Orders /\ rows[o] \in Row
  BY <1>3 DEF StoreTyped, Placed, ToSet
<1>6. PICK row \in Row : row = [rows[o] EXCEPT !.held = FALSE] /\ row.items = rows[o].items
  <2>1. PICK old \in Row : old = rows[o]
    BY <1>5
  <2> DEFINE new == [old EXCEPT !.held = FALSE]
  <2>2. new \in Row /\ new.items = old.items
    BY DEF Row
  <2> HIDE DEF new
  <2>3. \E row \in Row : row = new /\ row.items = old.items
    BY <2>2
  <2>4. QED
    BY <2>1, <2>3 DEF new
<1>7. Store(o, row) /\ shown' = o /\ UNCHANGED paid
  BY <1>1, <1>4, <1>6 DEF AnswerRecall
<1>8. StoreTyped' /\ Placed' = Placed
  BY <1>7, StoreType
<1>9. ScreenTyped'
  BY <1>1, <1>3, <1>7, <1>8 DEF ScreenTyped
<1>10. PICK more \in Seq(Call) : more = <<>> /\ Stay(1, more)
  BY <1>1, <1>8, NoneFollow
<1>11. ~Leaves(calls[1]) /\ calls[1].op \notin {"preview", "settle"}
  BY <1>1, <1>2 DEF Leaves, Fits
<1>12. \A p \in Placed : rows'[p].items = rows[p].items
  BY <1>3, <1>6, <1>7 DEF Store, StoreTyped
<1>13. UNCHANGED <<screen, paid>>
  BY <1>1
<1>14. QED
  BY <1>8, <1>9, <1>10, <1>11, <1>12, <1>13, StaySame

\* The answer for the running or held orders: the calls that ask for a list belong to the
\* screen on display, so the list is of that screen.
LEMMA AnswerListInv == ASSUME Inv, AnswerList PROVE Inv'
<1>1. /\ calls # <<>> /\ calls' = Tail(calls) /\ UNCHANGED <<stored, shown, floor, added>>
      /\ Head(calls).op \in {"running", "held"}
  BY DEF AnswerList, Answers
<1>2. /\ Head(calls) = calls[1] /\ Fits(calls[1], Placed, screen.name)
  BY <1>1, HeadCall
<1>3. PICK list \in {RunningNow, HeldNow} : screen' = [screen EXCEPT !.list = list]
  BY DEF AnswerList
<1>4. /\ list \in SUBSET [order : Orders, filled : BOOLEAN]
      /\ \A entry \in list :
           entry.order \in Placed /\ (entry.filled <=> rows[entry.order].items # {})
  BY <1>3, ListsType DEF Inv
<1>5. StoreTyped /\ ScreenTyped /\ screen \in Screen
  BY Typed DEF Inv, ScreenTyped
<1>6. /\ screen' \in Screen /\ screen'.name = screen.name /\ screen'.route = screen.route
      /\ screen'.list = list /\ screen'.busy = screen.busy
  BY <1>3, <1>4, <1>5 DEF Screen
<1>7. StoreTyped' /\ Placed' = Placed /\ rows' = rows
  BY <1>1, <1>5 DEF stored, Placed, Settled, StoreTyped
<1>8. ScreenTyped'
  BY <1>1, <1>4, <1>5, <1>6, <1>7 DEF ScreenTyped
<1>9. PICK more \in Seq(Call) : more = <<>> /\ Stay(1, more)
  BY <1>1, <1>6, <1>7, NoneFollow
<1>10. ~Leaves(calls[1]) /\ screen.name # "billing" /\ calls[1].op = screen.name
  BY <1>1, <1>2 DEF Leaves, Fits
<1>11. PICK o : o = screen.route
  OBVIOUS
<1>12. screen'.busy => screen.name \in {"tables", "running"} /\ screen.busy
  BY <1>6 DEF Inv, BusyWaits
<1>13. screen.name = "running" =>
         /\ calls[1].op = "running"
         /\ \A entry \in screen'.list : entry.filled => rows'[entry.order].items # {}
  BY <1>4, <1>6, <1>7, <1>10
<1>14. \A q \in Placed : rows[q].items # {} => rows'[q].items # {}
  BY <1>7
<1>15. QED
  BY <1>7, <1>8, <1>9, <1>10, <1>11, <1>12, <1>13, <1>14, StayInv

LEMMA AnswerDroppedInv == ASSUME Inv, AnswerDropped PROVE Inv'
<1>1. /\ calls # <<>> /\ Head(calls).op = "dropped" /\ calls' = Tail(calls)
      /\ UNCHANGED <<stored, shown, floor, screen, added>>
  BY DEF AnswerDropped, Answers
<1>2. Head(calls) = calls[1] /\ Fits(calls[1], Placed, screen.name)
  BY <1>1, HeadCall
<1>3. StoreTyped /\ ScreenTyped
  BY Typed DEF Inv
<1>4. StoreTyped' /\ Placed' = Placed /\ rows' = rows /\ UNCHANGED <<screen, paid>>
  BY <1>1, <1>3 DEF stored, Placed, Settled, StoreTyped
<1>5. ScreenTyped'
  BY <1>1, <1>3, <1>4 DEF ScreenTyped
<1>6. PICK more \in Seq(Call) : more = <<>> /\ Stay(1, more)
  BY <1>1, <1>4, NoneFollow
<1>7. ~Leaves(calls[1]) /\ calls[1].op \notin {"preview", "settle"}
  BY <1>1, <1>2 DEF Leaves, Fits
<1>8. QED
  BY <1>4, <1>5, <1>6, <1>7, StaySame

LEMMA AnswerFloorInv == ASSUME Inv, AnswerFloor PROVE Inv'
<1>1. /\ calls # <<>> /\ Head(calls).op = "floor" /\ floor' = FloorNow
      /\ UNCHANGED <<stored, shown, added>>
  BY DEF AnswerFloor, Answers
<1>2. Head(calls) = calls[1] /\ Fits(calls[1], Placed, screen.name)
  BY <1>1, HeadCall
<1>3. StoreTyped /\ ScreenTyped /\ floor' \in [Tables -> Placed \cup {Null}]
  BY <1>1, Typed, FloorNowType DEF Inv
<1>4. CASE Head(calls).chain = "leave"
  <2>1. PICK cur : cur = shown
    OBVIOUS
  <2>2. EnterPos(cur, Tail(calls)) /\ UNCHANGED <<stored, added>>
        /\ shown' \in Placed \cup {Null} /\ calls[1].op \notin {"preview", "settle"}
    BY <1>1, <1>2, <1>3, <1>4, <2>1 DEF AnswerFloor, ScreenTyped
  <2>3. QED
    BY <1>1, <1>3, <2>2, EnterPosInv
<1>5. CASE Head(calls).chain # "leave"
  <2>1. calls' = Tail(calls) /\ UNCHANGED screen
    BY <1>5 DEF AnswerFloor
  <2>2. StoreTyped' /\ Placed' = Placed /\ rows' = rows /\ UNCHANGED <<screen, paid>>
    BY <1>1, <1>3, <2>1 DEF stored, Placed, Settled, StoreTyped
  <2>3. ScreenTyped'
    BY <1>1, <1>3, <2>2 DEF ScreenTyped
  <2>4. PICK more \in Seq(Call) : more = <<>> /\ Stay(1, more)
    BY <1>1, <2>1, <2>2, NoneFollow
  <2>5. ~Leaves(calls[1]) /\ calls[1].op \notin {"preview", "settle"}
    BY <1>1, <1>2, <1>5 DEF Leaves, Fits
  <2>6. QED
    BY <2>2, <2>3, <2>4, <2>5, StaySame
<1>6. QED
  BY <1>4, <1>5

\* What Showing does to the screen.
LEMMA ShowingType ==
  ASSUME TypeOK, NEW bill \in Bill \cup {NoBill}, Showing(bill)
  PROVE  /\ screen' \in Screen /\ screen'.name = screen.name /\ screen'.route = screen.route
         /\ screen'.list = screen.list /\ screen'.busy = screen.busy
         /\ screen.name = "billing" => screen'.bill = bill /\ ~screen'.loading
<1>1. screen \in Screen
  BY DEF TypeOK
<1>2. screen' = IF screen.name = "billing"
                THEN [screen EXCEPT !.loading = FALSE, !.bill = bill] ELSE screen
  BY DEF Showing
<1>3. CASE screen.name = "billing"
  BY <1>1, <1>2, <1>3 DEF Screen
<1>4. CASE screen.name # "billing"
  BY <1>1, <1>2, <1>4
<1>5. QED
  BY <1>3, <1>4

\* The answer to a preview: only that of the order of the screen brings its bill.
LEMMA AnswerPreviewInv == ASSUME Inv, AnswerPreview PROVE Inv'
<1>1. /\ calls # <<>> /\ Head(calls).op = "preview" /\ calls' = Tail(calls)
      /\ UNCHANGED <<stored, shown, floor, added>>
  BY DEF AnswerPreview, Answers
<1>2. /\ Head(calls) = calls[1] /\ calls[1].order \in Placed
      /\ Fits(calls[1], Placed, screen.name)
  BY <1>1, HeadCall
<1>3. StoreTyped /\ ScreenTyped /\ TypeOK /\ screen \in Screen
  BY Typed DEF Inv, ScreenTyped
<1>4. PICK o \in Placed : o = calls[1].order
  BY <1>2
<1>5. PICK bill \in Bill \cup {NoBill} :
        /\ bill = IF o \in Settled \/ rows[o].items # {} THEN BillNow(o) ELSE screen.bill
        /\ Showing(bill)
  <2>1. screen.bill \in Bill \cup {NoBill}
    BY <1>3 DEF Screen
  <2>2. (IF o \in Settled \/ rows[o].items # {} THEN BillNow(o) ELSE screen.bill)
          \in Bill \cup {NoBill}
    BY <1>3, <2>1, BillNowType
  <2>3. Showing(IF o \in Settled \/ rows[o].items # {} THEN BillNow(o) ELSE screen.bill)
    BY <1>2, <1>4 DEF AnswerPreview
  <2>4. QED
    BY <2>2, <2>3
<1>6. /\ screen' \in Screen /\ screen'.name = screen.name /\ screen'.route = screen.route
      /\ screen'.list = screen.list /\ screen'.busy = screen.busy
      /\ screen.name = "billing" => screen'.bill = bill /\ ~screen'.loading
  BY <1>3, <1>5, ShowingType
<1>7. /\ StoreTyped' /\ Placed' = Placed /\ rows' = rows /\ paid' = paid /\ Settled' = Settled
  BY <1>1, <1>3 DEF stored, Placed, Settled, StoreTyped
<1>8. ScreenTyped'
  BY <1>1, <1>3, <1>6, <1>7 DEF ScreenTyped
<1>9. PICK more \in Seq(Call) : more = <<>> /\ Stay(1, more)
  BY <1>1, <1>6, <1>7, NoneFollow
<1>10. ~Leaves(calls[1]) /\ calls[1].op = "preview"
  BY <1>1, <1>2 DEF Leaves, Fits
<1>11. PICK r : r = screen.route
  OBVIOUS
<1>12. screen'.busy => screen.name \in {"tables", "running"} /\ screen.busy
  BY <1>6 DEF Inv, BusyWaits
<1>13. ASSUME screen.name = "billing", calls[1].order = r
       PROVE  screen'.bill = BillNow(r)' /\ ~screen'.loading
  <2>1. o = r /\ rows[r].items # {}
    BY <1>4, <1>11, <1>13 DEF Inv, BillingStays
  <2>2. screen'.bill = BillNow(r)
    BY <1>5, <1>6, <1>13, <2>1
  <2>3. BillNow(r)' = BillNow(r)
    BY <1>7 DEF BillNow
  <2>4. QED
    BY <1>6, <1>13, <2>2, <2>3
<1>14. ~Harmless(calls[1], r)
  BY <1>10 DEF Harmless
<1>15. \A q \in Placed : rows[q].items # {} => rows'[q].items # {}
  BY <1>7
<1>16. QED
  BY <1>6, <1>7, <1>8, <1>9, <1>10, <1>11, <1>12, <1>13, <1>14, <1>15, StayInv

\* The answer to a settlement.
LEMMA AnswerSettleInv == ASSUME Inv, AnswerSettle PROVE Inv'
<1>1. /\ calls # <<>> /\ Head(calls).op = "settle" /\ calls' = Tail(calls)
      /\ UNCHANGED <<recent, rows, shown, floor, added>>
  BY DEF AnswerSettle, Answers
<1>2. /\ Head(calls) = calls[1] /\ calls[1].order \in Placed /\ calls[1].order \in Orders
      /\ calls[1] \in Call /\ Fits(calls[1], Placed, screen.name)
  BY <1>1, HeadCall
<1>3. StoreTyped /\ ScreenTyped /\ TypeOK /\ screen \in Screen
  BY Typed DEF Inv, ScreenTyped
<1>4. PICK o \in Placed, c \in Call : c = calls[1] /\ o = c.order /\ o \in Orders
  BY <1>2
<1>5. PICK r : r = screen.route
  OBVIOUS
<1>6. Placed' = Placed /\ rows' = rows
  BY <1>1 DEF Placed
<1>7. ~Leaves(calls[1]) /\ calls[1].op = "settle"
  BY <1>1, <1>2 DEF Leaves, Fits
<1>8. \A q \in Placed : rows[q].items # {} => rows'[q].items # {}
  BY <1>6
<1>9. ASSUME NEW bill \in Bill \cup {NoBill}, Showing(bill), StoreTyped',
             screen.name = "billing" /\ screen.bill = BillNow(r) /\ o = r => bill = BillNow(r)'
      PROVE  Inv'
  <2>1. /\ screen' \in Screen /\ screen'.name = screen.name /\ screen'.route = screen.route
        /\ screen'.list = screen.list /\ screen'.busy = screen.busy
        /\ screen.name = "billing" => screen'.bill = bill /\ ~screen'.loading
    BY <1>3, <1>9, ShowingType
  <2>2. ScreenTyped'
    BY <1>1, <1>3, <1>6, <2>1 DEF ScreenTyped
  <2>3. PICK more \in Seq(Call) : more = <<>> /\ Stay(1, more)
    BY <1>1, <1>6, <2>1, NoneFollow
  <2>4. screen'.busy => screen.name \in {"tables", "running"} /\ screen.busy
    BY <2>1 DEF Inv, BusyWaits
  <2>5. ASSUME screen.name = "billing", screen.bill = BillNow(r), Harmless(calls[1], r)
        PROVE  screen'.bill = BillNow(r)' /\ ~screen'.loading
    BY <1>4, <1>7, <1>9, <2>1, <2>5 DEF Harmless
  <2>6. QED
    BY <1>5, <1>7, <1>8, <1>9, <2>1, <2>2, <2>3, <2>4, <2>5, StayInv
<1>10. CASE CanSettle(c)
  <2>1. /\ paid' = [paid EXCEPT ![o] = c.amount]
        /\ Showing([order |-> o, amount |-> c.amount, settled |-> TRUE])
    BY <1>2, <1>4, <1>10 DEF AnswerSettle
  <2>2. rows[o] \in Row /\ rows[o].items # {} /\ c.amount = Total(rows[o])
    BY <1>3, <1>4, <1>10 DEF CanSettle, StoreTyped
  <2>3. c.amount \in 1 .. MaxItems /\ c.amount \in 0 .. MaxItems /\ c.amount > 0
    BY <2>2, Totals, CounterAssumption
  <2>4. PICK bill \in Bill : bill = [order |-> o, amount |-> c.amount, settled |-> TRUE]
    BY <1>4, <2>3 DEF Bill
  <2>5. /\ paid \in [Orders -> 0 .. MaxItems] /\ paid' \in [Orders -> 0 .. MaxItems]
        /\ paid'[o] = c.amount
    BY <1>3, <1>4, <2>1, <2>3 DEF StoreTyped
  <2>6. o \in Settled' /\ Settled' \subseteq Settled \cup {o}
    <3>1. \A p \in Orders : p # o => paid'[p] = paid[p]
      BY <2>1, <2>5
    <3>2. o \in Settled'
      BY <1>4, <2>3, <2>5 DEF Settled
    <3>3. \A p \in Settled' : p = o \/ p \in Settled
      BY <3>1 DEF Settled
    <3>4. QED
      BY <3>2, <3>3
  <2>7. StoreTyped'
    BY <1>1, <1>3, <1>4, <1>6, <2>5, <2>6 DEF StoreTyped
  <2>8. o = r => bill = BillNow(r)'
    BY <2>4, <2>5, <2>6 DEF BillNow
  <2>9. QED
    BY <1>9, <2>1, <2>4, <2>7, <2>8
<1>11. CASE ~CanSettle(c)
  <2>1. paid' = paid /\ Showing(screen.bill)
    BY <1>2, <1>4, <1>11 DEF AnswerSettle
  <2>2. PICK bill \in Bill \cup {NoBill} : bill = screen.bill
    BY <1>3 DEF Screen
  <2>3. StoreTyped' /\ Settled' = Settled
    BY <1>1, <1>3, <1>6, <2>1 DEF StoreTyped, Settled
  <2>4. BillNow(r)' = BillNow(r)
    BY <1>6, <2>1, <2>3 DEF BillNow
  <2>5. QED
    BY <1>9, <2>1, <2>2, <2>3, <2>4
<1>12. QED
  BY <1>10, <1>11

-----------------------------------------------------------------------------
(***************************************************************************)
(* The invariant.                                                          *)
(***************************************************************************)

LEMMA InvInitially == Init => Inv
<1> SUFFICES ASSUME Init PROVE Inv
  OBVIOUS
<1>1. /\ recent = <<>> /\ added = 0 /\ rows = [o \in Orders |-> NewRow]
      /\ paid = [o \in Orders |-> 0] /\ shown = Null /\ floor = [t \in Tables |-> Null]
      /\ screen = Mounted("pos", Null)
      /\ calls = <<Ask("create", Null, "none"), Ask("floor", Null, "none")>>
  BY DEF Init
<1>2. PICK null \in Orders \cup {Null} : null = Null
  OBVIOUS
<1>3. PICK a \in Call : /\ a = Ask("create", null, "none") /\ a.op = "create" /\ a.order = null
                        /\ a.edit = NoEdit /\ a.chain = "none"
  <2>1. "create" \in Ops /\ "none" \in Chains
    BY DEF Ops, Chains
  <2>2. QED
    BY <2>1, AskType
<1>4. PICK b \in Call : /\ b = Ask("floor", null, "none") /\ b.op = "floor" /\ b.order = null
                        /\ b.edit = NoEdit /\ b.chain = "none"
  <2>1. "floor" \in Ops /\ "none" \in Chains
    BY DEF Ops, Chains
  <2>2. QED
    BY <2>1, AskType
<1>5. calls \in Seq(Call) /\ DOMAIN calls = {1, 2} /\ \A i \in DOMAIN calls : calls[i] \in {a, b}
  <2>1. calls = <<a, b>>
    BY <1>1, <1>2, <1>3, <1>4
  <2>2. <<a, b>> \in Seq(Call) /\ DOMAIN <<a, b>> = {1, 2} /\ <<a, b>>[1] = a /\ <<a, b>>[2] = b
    OBVIOUS
  <2>3. QED
    BY <2>1, <2>2
<1>6. Placed = {} /\ Settled = {} /\ DOMAIN recent = {} /\ recent \in Seq(Orders)
  <2>1. recent \in Seq(Orders) /\ DOMAIN recent = {}
    BY <1>1
  <2>2. \A o \in Orders : paid[o] = 0
    BY <1>1
  <2>3. QED
    BY <2>1, <2>2 DEF Placed, ToSet, Settled
<1>7. /\ screen.name = "pos" /\ screen.route = Null /\ screen.list = {} /\ ~screen.busy
      /\ screen \in Screen
  <2>1. /\ Mounted("pos", Null).name = "pos" /\ Mounted("pos", Null).route = Null
        /\ Mounted("pos", Null).list = {} /\ ~Mounted("pos", Null).busy
        /\ Mounted("pos", Null) \in Screen
    BY DEF Mounted, Screen
  <2>2. QED
    BY <1>1, <2>1
<1>8. TypeOK
  <2>1. NewRow \in Row /\ 0 \in 0 .. MaxItems
    BY CounterAssumption DEF NewRow, Row
  <2>2. StoreTyped
    BY <1>1, <1>6, <2>1 DEF StoreTyped
  <2>3. CallsTyped
    BY <1>2, <1>3, <1>4, <1>5 DEF CallsTyped
  <2>4. ScreenTyped
    BY <1>1, <1>7, <2>1 DEF ScreenTyped
  <2>5. QED
    BY <2>2, <2>3, <2>4, Typed
<1>9. CallsFit
  BY <1>3, <1>4, <1>5 DEF CallsFit, Fits
<1>10. QED
  BY <1>7, <1>8, <1>9 DEF Inv, BusyWaits, ListFresh, BillingStays, BillArrives

LEMMA InvPreserved == Inv /\ [Next]_vars => Inv'
<1> SUFFICES ASSUME Inv, [Next]_vars PROVE Inv'
  OBVIOUS
<1>1. CASE Press
  BY <1>1, NavigateInv, PressEditInv, PressAskInv, PressBillInv, PressTableInv, PressSettleInv
     DEF Press
<1>2. CASE Answer
  BY <1>2, AnswerCreateInv, AnswerEditInv, AnswerSummaryInv, AnswerRecallInv, AnswerListInv,
     AnswerDroppedInv, AnswerFloorInv, AnswerPreviewInv, AnswerSettleInv DEF Answer
<1>3. CASE UNCHANGED vars
  <2>1. /\ recent' = recent /\ rows' = rows /\ paid' = paid /\ calls' = calls /\ shown' = shown
        /\ floor' = floor /\ screen' = screen /\ added' = added
    BY <1>3 DEF vars
  <2>2. Placed' = Placed /\ Settled' = Settled
    BY <2>1 DEF Placed, Settled
  <2>3. TypeOK' /\ CallsFit' /\ BusyWaits' /\ ListFresh' /\ BillingStays'
    BY <2>1, <2>2 DEF Inv, TypeOK, CallsFit, BusyWaits, ListFresh, BillingStays
  <2>4. \A o : BillNow(o)' = BillNow(o)
    BY <2>1, <2>2 DEF BillNow
  <2>5. BillArrives'
    BY <2>1, <2>4 DEF Inv, BillArrives, Previews
  <2>6. QED
    BY <2>3, <2>5 DEF Inv
<1>4. QED
  BY <1>1, <1>2, <1>3 DEF Next

\* In every reachable state what is under way fits the screen on display.
THEOREM CounterInvariant == Spec => []Inv
<1>1. Init => Inv
  BY InvInitially
<1>2. Inv /\ [Next]_vars => Inv'
  BY InvPreserved
<1>3. QED
  BY <1>1, <1>2, PTL DEF Spec

\* The screens, the calls and the floor map name stored orders only.
THEOREM CounterTyped == Spec => []TypeOK
<1>1. Inv => TypeOK
  BY DEF Inv
<1>2. QED
  BY <1>1, CounterInvariant, PTL

\* The billing screen never shows an order that has lost its items.
THEOREM BillingNeverEmptyAlways == Spec => []BillingNeverEmpty
<1>1. Inv => BillingNeverEmpty
  BY DEF Inv, BillingStays, BillingNeverEmpty
<1>2. QED
  BY <1>1, CounterInvariant, PTL

\* Once the answers are in, the billing screen shows the bill of its own order.
THEOREM BillIsTrueAlways == Spec => []BillIsTrue
<1>1. Inv => BillIsTrue
  <2> SUFFICES ASSUME Inv, screen.name = "billing", BillCalls = {}
               PROVE  ~screen.loading /\ screen.bill = BillNow(screen.route)
    BY DEF BillIsTrue, BillNow
  <2>1. PICK p \in {0} \cup DOMAIN calls : Previews(p, screen.route)
    BY DEF Inv, BillArrives
  <2>2. \A i \in DOMAIN calls : calls[i].op \notin {"preview", "settle"}
    BY DEF BillCalls
  <2>3. p = 0
    BY <2>1, <2>2 DEF Previews
  <2>4. QED
    BY <2>1, <2>2, <2>3 DEF Previews
<1>2. QED
  BY <1>1, CounterInvariant, PTL

\* Buttons disabled while an order is opened wait for a call that leaves the screen.
THEOREM BusyHasCallAlways == Spec => []BusyHasCall
<1>1. Inv => BusyHasCall
  BY DEF Inv, BusyWaits, Leaves, BusyHasCall
<1>2. QED
  BY <1>1, CounterInvariant, PTL
=============================================================================
