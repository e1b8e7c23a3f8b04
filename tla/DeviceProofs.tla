---------------------------- MODULE DeviceProofs ----------------------------
(***************************************************************************)
(* Proofs about the device table and what is built on it: nop/device.c for *)
(* any number of slots, the boot's tasks and mounts of DeviceTree for any  *)
(* number of terminals, functions and disks, and the scan, the listings    *)
(* and the opened functions of PciTree for any machine.                    *)
(***************************************************************************)
EXTENDS DeviceTree, PciTree, SequenceTheorems, FiniteSetTheorems, TLAPS

-----------------------------------------------------------------------------
(* Numbers. The library states the least number principle for operators;   *)
(* for sets it follows from the order of finite sets by inclusion.         *)

LEMMA Least ==
  ASSUME NEW S \in SUBSET Nat, S # {}
  PROVE  \E m \in S : \A k \in S : m <= k
<1> DEFINE T == {0 .. m - 1 : m \in S}
<1>1. IsWellFoundedOn(StrictSubsetOrdering(Nat), FiniteSubsetsOf(Nat))
  BY FS_StrictSubsetOrderingWellFounded
<1>2. T \subseteq FiniteSubsetsOf(Nat) /\ T # {}
  <2>1. ASSUME NEW m \in S PROVE 0 .. m - 1 \in FiniteSubsetsOf(Nat)
    <3>1. IsFiniteSet(0 .. m - 1)
      BY FS_Interval
    <3> QED BY <3>1 DEF FiniteSubsetsOf
  <2> QED BY <2>1
<1>3. \E x \in T : \A y \in T : ~(<<y, x>> \in StrictSubsetOrdering(Nat))
  <2> HIDE DEF T
  <2> QED BY <1>1, <1>2, WFMin
<1>4. PICK m \in S : \A k \in S : ~(<<0 .. k - 1, 0 .. m - 1>> \in StrictSubsetOrdering(Nat))
  BY <1>3
<1>5. ASSUME NEW k \in S, k < m PROVE FALSE
  <2>1. (0 .. k - 1) \subseteq (0 .. m - 1) /\ (0 .. k - 1) # (0 .. m - 1)
    <3>1. k \in 0 .. m - 1 /\ k \notin 0 .. k - 1
      BY <1>5
    <3> QED BY <1>5, <3>1
  <2>2. (0 .. k - 1) \in SUBSET Nat /\ (0 .. m - 1) \in SUBSET Nat
    <3>1. \A a \in Int : (0 .. a) \in SUBSET Nat
      OBVIOUS
    <3>2. k - 1 \in Int /\ m - 1 \in Int
      OBVIOUS
    <3> QED BY <3>1, <3>2
  <2>3. ASSUME NEW a \in SUBSET Nat, NEW b \in SUBSET Nat, a \subseteq b, a # b
        PROVE  <<a, b>> \in StrictSubsetOrdering(Nat)
    BY <2>3 DEF StrictSubsetOrdering
  <2>4. <<0 .. k - 1, 0 .. m - 1>> \in StrictSubsetOrdering(Nat)
    BY <2>1, <2>2, <2>3
  <2> QED BY <1>4, <2>4
<1> QED BY <1>5

LEMMA Greatest ==
  ASSUME NEW S \in SUBSET Nat, S # {}, NEW n \in Nat, \A k \in S : k <= n
  PROVE  \E m \in S : \A k \in S : k <= m
<1> DEFINE T == {n - k : k \in S}
<1>1. T \in SUBSET Nat /\ T # {}
  <2>1. \A k \in S : n - k \in Nat
    OBVIOUS
  <2> QED BY <2>1
<1>2. PICK t \in T : \A u \in T : t <= u
  <2> HIDE DEF T
  <2> QED BY <1>1, Least
<1>3. PICK m \in S : t = n - m
  OBVIOUS
<1>4. ASSUME NEW k \in S PROVE k <= m
  <2>1. n - k \in T /\ n - m <= n - k
    BY <1>2, <1>3
  <2> QED BY <2>1
<1> QED BY <1>4

LEMMA QuotientOf ==
  ASSUME NEW a \in Nat, NEW b \in Nat \ {0}
  PROVE  /\ a % b \in Nat /\ a % b < b
         /\ a \div b \in Nat
         /\ a = b * (a \div b) + (a % b)
OBVIOUS

LEMMA Grows ==
  ASSUME NEW b \in Nat, NEW c \in Int, NEW d \in Int, c <= d
  PROVE  b * c <= b * d
OBVIOUS

LEMMA ProductType == \A a, b \in Nat : a * b \in Nat
OBVIOUS

(* The quotient and the remainder are the only ones. *)
LEMMA Divided ==
  ASSUME NEW b \in Nat \ {0}, NEW q \in Nat, NEW r \in Nat, r < b,
         NEW a, a = b * q + r
  PROVE  a \in Nat /\ a \div b = q /\ a % b = r
<1>1. b * q \in Nat
  BY ProductType
<1>2. a \in Nat
  BY <1>1
<1> DEFINE p == a \div b
<1>3. p \in Nat /\ a % b \in Nat /\ a % b < b /\ a = b * p + (a % b)
  BY <1>2, QuotientOf
<1> HIDE DEF p
<1>4. CASE p >= q + 1
  <2>1. b * (q + 1) <= b * p /\ b * (q + 1) = b * q + b
    BY <1>3, <1>4, Grows
  <2>2. b * p \in Nat
    BY <1>3, ProductType
  <2> QED BY <1>1, <1>3, <2>1, <2>2
<1>5. CASE p + 1 <= q
  <2>1. b * (p + 1) <= b * q /\ b * (p + 1) = b * p + b
    BY <1>3, <1>5, Grows
  <2>2. b * p \in Nat
    BY <1>3, ProductType
  <2> QED BY <1>1, <1>3, <2>1, <2>2
<1>6. CASE p = q
  BY <1>1, <1>2, <1>3, <1>6 DEF p
<1> QED BY <1>3, <1>4, <1>5, <1>6

LEMMA DividedTwice ==
  ASSUME NEW x \in Nat \ {0}, NEW y \in Nat \ {0}, NEW c \in Nat
  PROVE  x * y \in Nat \ {0} /\ (c \div x) \div y = c \div (x * y)
<1> DEFINE q == c \div x
           r == c % x
           s == q \div y
           t == q % y
<1>1. q \in Nat /\ r \in Nat /\ r < x /\ c = x * q + r
  BY QuotientOf
<1>2. s \in Nat /\ t \in Nat /\ t < y /\ q = y * s + t
  <2> HIDE DEF q
  <2> QED BY <1>1, QuotientOf
<1> HIDE DEF q, r, s, t
<1>3. x * y \in Nat \ {0}
  BY Grows
<1>4. x * t + r \in Nat /\ x * t + r < x * y
  <2>1. x * (t + 1) <= x * y /\ x * (t + 1) = x * t + x
    BY <1>2, Grows
  <2>2. x * t \in Nat
    BY <1>2, ProductType
  <2> QED BY <1>1, <1>3, <2>1, <2>2
<1>5. c = (x * y) * s + (x * t + r)
  <2>1. x * (y * s + t) = (x * y) * s + x * t
    BY <1>2
  <2> QED BY <1>1, <1>2, <2>1
<1>6. c \div (x * y) = s
  BY <1>2, <1>3, <1>4, <1>5, Divided
<1> QED BY <1>3, <1>6 DEF s, q

-----------------------------------------------------------------------------
(* Powers of the radix of the names, and the order of names by IsStart.    *)

Power(k) == Radix ^ k

LEMMA Powers ==
  /\ Radix \in Nat /\ Radix >= 2 /\ MaxTotal \in Nat
  /\ Power(0) = 1
  /\ \A k \in 0 .. MaxTotal - 1 : Power(k + 1) = Power(k) * Radix
BY PowerAssumption, TableAssumption DEF Power

LEMMA PowerGrows ==
  \A k \in 0 .. MaxTotal : Power(k) \in Nat /\ k < Power(k)
<1> DEFINE Bad == {k \in 0 .. MaxTotal : ~(Power(k) \in Nat /\ k < Power(k))}
<1>1. SUFFICES ASSUME Bad # {} PROVE FALSE
  OBVIOUS
<1>2. Bad \in SUBSET Nat
  BY Powers
<1>3. PICK m \in Bad : \A k \in Bad : m <= k
  <2> HIDE DEF Bad
  <2> QED BY <1>1, <1>2, Least
<1>4. m # 0
  BY Powers
<1>5. m \in 1 .. MaxTotal /\ m - 1 \in 0 .. MaxTotal - 1 /\ (m - 1) + 1 = m
  BY <1>4, Powers
<1>6. m - 1 \notin Bad
  BY <1>3, <1>5
<1> DEFINE p == Power(m - 1)
<1>7. p \in Nat /\ m <= p
  BY <1>5, <1>6, Powers
<1>8. Power(m) = p * Radix
  BY <1>5, Powers
<1> HIDE DEF p
<1>9. p * 2 <= p * Radix /\ p * Radix \in Nat
  BY <1>7, Powers, Grows, ProductType
<1>10. Power(m) \in Nat /\ m < Power(m)
  BY <1>5, <1>7, <1>8, <1>9
<1> QED BY <1>3, <1>10

LEMMA PowerOfSum ==
  ASSUME NEW k \in Nat, NEW m \in Nat, k + m <= MaxTotal
  PROVE  Power(k + m) = Power(k) * Power(m)
<1> DEFINE Bad == {n \in Nat : k + n <= MaxTotal /\ Power(k + n) # Power(k) * Power(n)}
<1>1. SUFFICES ASSUME Bad # {} PROVE FALSE
  OBVIOUS
<1>2. Bad \in SUBSET Nat
  OBVIOUS
<1>3. PICK n \in Bad : \A x \in Bad : n <= x
  <2> HIDE DEF Bad
  <2> QED BY <1>1, <1>2, Least
<1>4. Power(k) \in Nat /\ k \in 0 .. MaxTotal
  BY Powers, PowerGrows
<1>5. n # 0
  <2>1. Power(k) * 1 = Power(k) /\ k + 0 = k
    BY <1>4
  <2> QED BY <1>3, <2>1, Powers
<1>6. n - 1 \in Nat /\ (n - 1) + 1 = n /\ k + (n - 1) <= MaxTotal
      /\ k + (n - 1) \in 0 .. MaxTotal - 1 /\ n - 1 \in 0 .. MaxTotal - 1
      /\ (k + (n - 1)) + 1 = k + n
  BY <1>3, <1>5, Powers
<1>7. Power(k + (n - 1)) = Power(k) * Power(n - 1)
  BY <1>3, <1>6
<1> DEFINE a == Power(k)
           b == Power(n - 1)
<1>8. Power(k + n) = (a * b) * Radix /\ Power(n) = b * Radix
  BY <1>6, <1>7, Powers
<1>9. a \in Nat /\ b \in Nat
  <2>1. n - 1 \in 0 .. MaxTotal
    BY <1>6, Powers
  <2> QED BY <1>4, <2>1, PowerGrows
<1>10. Power(k) = a
  OBVIOUS
<1> HIDE DEF a, b
<1>11. (a * b) * Radix = a * (b * Radix)
  BY <1>9, Powers
<1> QED BY <1>3, <1>8, <1>10, <1>11

Numbers == 0 .. MaxTotal

(* x is what is left of y's digits when some of its last are taken away. *)
Leads(x, y) == x > 0 /\ \E k \in 0 .. MaxTotal : y \div Power(k) = x

LEMMA StartLeads ==
  ASSUME NEW a, NEW b, a[2] \in Nat
  PROVE  IsStart(a, b) <=> a[1] = b[1] /\ (a[2] = b[2] \/ Leads(a[2], b[2]))
BY DEF IsStart, Leads, Power

LEMMA LeadsSmaller ==
  ASSUME NEW x \in Numbers, NEW y \in Numbers, Leads(x, y)
  PROVE  x <= y
<1>1. PICK k \in 0 .. MaxTotal : y \div Power(k) = x
  BY DEF Leads
<1> DEFINE p == Power(k)
<1>2. p \in Nat \ {0} /\ y \div p = x
  BY <1>1, PowerGrows
<1> HIDE DEF p
<1>3. x \in Nat /\ y \in Nat
  BY DEF Numbers
<1>4. y = p * x + (y % p) /\ y % p \in Nat
  BY <1>2, <1>3, QuotientOf
<1>5. x * 1 <= x * p /\ p * x = x * p /\ p * x \in Nat
  BY <1>2, <1>3, Grows, ProductType
<1> QED BY <1>3, <1>4, <1>5

LEMMA LeadsTransitive ==
  ASSUME NEW x \in Numbers, NEW y \in Numbers, NEW z \in Numbers, Leads(x, y), Leads(y, z)
  PROVE  Leads(x, z)
<1>1. PICK k \in 0 .. MaxTotal : y \div Power(k) = x
  BY DEF Leads
<1>2. PICK m \in 0 .. MaxTotal : z \div Power(m) = y
  BY DEF Leads
<1> DEFINE p == Power(k)
           q == Power(m)
<1>3. p \in Nat \ {0} /\ q \in Nat \ {0} /\ k < p /\ m < q
  BY PowerGrows
<1>4. y \div p = x /\ z \div q = y
  BY <1>1, <1>2
<1>5. k \in Nat /\ m \in Nat /\ x \in Nat /\ y \in Nat /\ z \in Nat /\ x > 0 /\ z <= MaxTotal
      /\ MaxTotal \in Nat
  BY Powers DEF Leads, Numbers
<1>6. Power(k) = p /\ Power(m) = q
  OBVIOUS
<1> HIDE DEF p, q
<1>7. q * p \in Nat \ {0} /\ z \div (q * p) = x
  BY <1>3, <1>4, <1>5, DividedTwice
<1>8. q * p <= z
  <2> DEFINE pq == q * p
  <2>1. pq \in Nat \ {0} /\ z \div pq = x
    BY <1>7
  <2> HIDE DEF pq
  <2>2. z = pq * x + (z % pq) /\ z % pq \in Nat /\ pq * 1 <= pq * x /\ pq * x \in Nat
    BY <1>5, <2>1, QuotientOf, Grows, ProductType
  <2>3. pq <= z
    BY <1>5, <2>1, <2>2
  <2> QED BY <2>3 DEF pq
<1>9. k + m < q * p
  <2>1. q * (k + 1) <= q * p /\ q * (k + 1) = (k + 1) * q
    BY <1>3, <1>5, Grows
  <2>2. (k + 1) * (m + 1) <= (k + 1) * q
    BY <1>3, <1>5, Grows
  <2>3. (k + 1) * (m + 1) = k * m + k + m + 1 /\ k * m \in Nat
    BY <1>5
  <2>4. q * p \in Nat /\ (k + 1) * q \in Nat
    BY <1>3, <1>5, ProductType
  <2> QED BY <1>5, <2>1, <2>2, <2>3, <2>4
<1>10. k + m <= MaxTotal /\ k + m \in 0 .. MaxTotal /\ m + k = k + m
  BY <1>5, <1>7, <1>8, <1>9
<1>11. Power(m + k) = q * p
  BY <1>5, <1>6, <1>10, PowerOfSum
<1> QED BY <1>5, <1>7, <1>10, <1>11 DEF Leads

(* A name and the names it starts, by base and number. *)
LEMMA StartIsOrder ==
  ASSUME NEW a, NEW b, a[2] \in Numbers, b[2] \in Numbers
  PROVE  /\ IsStart(a, a)
         /\ IsStart(a, b) => a[1] = b[1] /\ a[2] <= b[2]
<1>1. a[2] \in Nat
  BY DEF Numbers
<1>2. ASSUME IsStart(a, b) PROVE a[1] = b[1] /\ a[2] <= b[2]
  <2>1. a[1] = b[1] /\ (a[2] = b[2] \/ Leads(a[2], b[2]))
    BY <1>1, <1>2, StartLeads
  <2> QED BY <1>1, <2>1, LeadsSmaller
<1> QED BY <1>1, <1>2, StartLeads

LEMMA StartTransitive ==
  ASSUME NEW a, NEW b, NEW c, a[2] \in Numbers, b[2] \in Numbers, c[2] \in Numbers,
         IsStart(a, b), IsStart(b, c)
  PROVE  IsStart(a, c)
<1>1. a[2] \in Nat /\ b[2] \in Nat
  BY DEF Numbers
<1>2. /\ a[1] = b[1] /\ (a[2] = b[2] \/ Leads(a[2], b[2]))
      /\ b[1] = c[1] /\ (b[2] = c[2] \/ Leads(b[2], c[2]))
  BY <1>1, StartLeads
<1>3. a[2] = c[2] \/ Leads(a[2], c[2])
  <2>1. Leads(a[2], b[2]) /\ Leads(b[2], c[2]) => Leads(a[2], c[2])
    BY LeadsTransitive
  <2> QED BY <1>2, <2>1
<1> QED BY <1>1, <1>2, <1>3, StartLeads

-----------------------------------------------------------------------------
(* The table.                                                              *)

Kinds == Bases \cup TempNames \cup
         {"term", "pci", "disk", "root_list", "list", "pci_open", "pci_list", "junk"}

Slot == [free : BOOLEAN, name : Kinds \X Int, public : BOOLEAN]

IsTable(d, t) == t \in Nat /\ d \in [0 .. t - 1 -> Slot]

(* Slots that hold what was in memory. *)
IsJunk(s) == s.name = <<"junk", -1>> /\ ~s.public

(* d is the table after realloc, with t slots. *)
IsGrown(d, t) ==
  /\ IsTable(d, t) /\ device_total <= t /\ t <= MaxTotal
  /\ \A k \in 0 .. t - 1 : IF k < device_total THEN d[k] = devices[k] ELSE IsJunk(d[k])

LEMMA JunkSlot ==
  ASSUME NEW f \in BOOLEAN
  PROVE  Junk(f) \in Slot /\ IsJunk(Junk(f))
BY DEF Junk, Slot, Kinds, IsJunk

LEMMA GrownTable ==
  ASSUME IsTable(devices, device_total), NewTotal <= MaxTotal,
         NEW junk \in [device_total .. NewTotal - 1 -> FreshFree]
  PROVE  IsGrown(Grown(junk, NewTotal), NewTotal)
<1> DEFINE t == NewTotal
           d == Grown(junk, t)
<1>1. t \in Nat /\ device_total \in Nat /\ device_total <= t
  BY TableAssumption DEF IsTable, NewTotal
<1>2. t <= MaxTotal /\ junk \in [device_total .. t - 1 -> FreshFree]
  OBVIOUS
<1> HIDE DEF t
<1>3. d = [k \in 0 .. t - 1 |-> IF k < device_total THEN devices[k] ELSE Junk(junk[k])]
  BY DEF Grown
<1>4. ASSUME NEW k \in 0 .. t - 1
      PROVE  /\ d[k] \in Slot
             /\ IF k < device_total THEN d[k] = devices[k] ELSE IsJunk(d[k])
  <2>1. CASE k < device_total
    <3>1. k \in 0 .. device_total - 1
      BY <1>1, <2>1
    <3> QED BY <1>3, <2>1, <3>1 DEF IsTable
  <2>2. CASE ~(k < device_total)
    <3>1. k \in device_total .. t - 1
      BY <1>1, <2>2
    <3>2. junk[k] \in BOOLEAN
      BY <1>2, <3>1, TableAssumption
    <3> QED BY <1>3, <2>2, <3>2, JunkSlot
  <2> QED BY <2>1, <2>2
<1>5. d \in [0 .. t - 1 -> Slot]
  BY <1>3, <1>4
<1> HIDE DEF d
<1>6. IsGrown(d, t)
  BY <1>1, <1>2, <1>4, <1>5 DEF IsGrown, IsTable
<1> QED BY <1>6 DEF d, t

(* The slot device_add takes. *)
LEMMA FirstFreeIs ==
  ASSUME NEW d, NEW t, IsTable(d, t)
  PROVE  \/ FirstFree(d) = -1 /\ \A k \in 0 .. t - 1 : ~d[k].free
         \/ /\ FirstFree(d) \in 0 .. t - 1 /\ d[FirstFree(d)].free
            /\ \A k \in 0 .. t - 1 : d[k].free => FirstFree(d) <= k
<1>1. DOMAIN d = 0 .. t - 1 /\ t \in Nat
  BY DEF IsTable
<1>2. CASE FreeSlots(d) = {}
  BY <1>1, <1>2 DEF FirstFree, FreeSlots
<1>3. CASE FreeSlots(d) # {}
  <2>1. FreeSlots(d) \in SUBSET Nat
    BY <1>1 DEF FreeSlots
  <2>2. \E m \in FreeSlots(d) : \A k \in FreeSlots(d) : m <= k
    BY <1>3, <2>1, Least
  <2>3. /\ FirstFree(d) \in FreeSlots(d)
        /\ \A k \in FreeSlots(d) : FirstFree(d) <= k
    BY <1>3, <2>2 DEF FirstFree
  <2> QED BY <1>1, <2>3 DEF FreeSlots
<1> QED BY <1>2, <1>3

(* Its number: that after the last slot with the base. *)
Same(d, k, base) == {m \in DOMAIN d \ {k} : d[m].name[1] = base /\ d[m].name[2] >= 0}

LEMMA SuffixIs ==
  ASSUME NEW d, NEW t, IsTable(d, t), NEW k, NEW base
  PROVE  \/ Same(d, k, base) = {} /\ Suffix(d, k, base) = 0
         \/ \E last \in Same(d, k, base) :
              /\ \A m \in Same(d, k, base) : m <= last
              /\ Suffix(d, k, base) = d[last].name[2] + 1
<1>1. DOMAIN d = 0 .. t - 1 /\ t \in Nat
  BY DEF IsTable
<1> DEFINE same == Same(d, k, base)
<1>2. Suffix(d, k, base) =
        IF same = {} THEN 0
          ELSE d[CHOOSE m \in same : \A n \in same : n <= m].name[2] + 1
  BY DEF Suffix, Same
<1>3. same \in SUBSET Nat /\ \A m \in same : m <= t
  BY <1>1 DEF Same
<1> HIDE DEF same
<1>4. same # {} => \E m \in same : \A n \in same : n <= m
  BY <1>1, <1>3, Greatest
<1>5. CASE same # {}
  <2> DEFINE last == CHOOSE m \in same : \A n \in same : n <= m
  <2>1. last \in same /\ \A m \in same : m <= last
    BY <1>4, <1>5
  <2>2. Suffix(d, k, base) = d[last].name[2] + 1
    BY <1>2, <1>5
  <2> HIDE DEF last
  <2>3. \E m \in same : (\A l \in same : l <= m) /\ Suffix(d, k, base) = d[m].name[2] + 1
    BY <2>1, <2>2
  <2> QED BY <2>3 DEF same
<1>6. CASE same = {}
  BY <1>2, <1>6 DEF same
<1> QED BY <1>5, <1>6

LEMMA SuffixType ==
  ASSUME NEW d, NEW t, IsTable(d, t), NEW k, NEW base
  PROVE  Suffix(d, k, base) \in Nat
<1>1. ASSUME NEW last \in Same(d, k, base)
      PROVE  d[last].name[2] \in Int /\ d[last].name[2] >= 0
  BY DEF Same, IsTable, Slot
<1> QED BY <1>1, SuffixIs

(* What device_add leaves. *)
Entry(name, public) == [free |-> FALSE, name |-> name, public |-> public]

Given(d, t, k, name, public) ==
  /\ k \in 0 .. t - 1 /\ d[k].free
  /\ \A m \in 0 .. t - 1 : d[m].free => k <= m
  /\ result' = k
  /\ devices' = [d EXCEPT ![k] = Entry(name, public)]
  /\ handles' = handles \cup {<<k, name, public>>}

Refused(d) == result' = -1 /\ devices' = d /\ handles' = handles

LEMMA AddIs ==
  ASSUME IsTable(devices, device_total), NEW base, NEW public, NEW no_suffix,
         Add(base, public, no_suffix)
  PROVE  \E d, t :
           /\ IsGrown(d, t) /\ device_total' = t
           /\ \/ Refused(d)
              \/ \E k \in 0 .. t - 1 :
                   LET number == IF no_suffix THEN -1 ELSE Suffix(d, k, base)
                   IN  Given(d, t, k, <<base, number>>, public)
<1>1. PICK junk \in [device_total .. NewTotal - 1 -> FreshFree] :
        LET d == Grown(junk, NewTotal)
            k == FirstFree(d)
            name == <<base, IF no_suffix THEN -1 ELSE Suffix(d, k, base)>>
        IN  /\ device_total' = NewTotal
            /\ result' = k
            /\ IF k < 0 THEN devices' = d /\ UNCHANGED <<device_used, handles>>
                 ELSE /\ devices' = [d EXCEPT ![k] = Entry(name, public)]
                      /\ device_used' = device_used + 1
                      /\ handles' = handles \cup {<<k, name, public>>}
  BY DEF Add, Entry
<1> DEFINE t == NewTotal
           d == Grown(junk, t)
           k == FirstFree(d)
           number == IF no_suffix THEN -1 ELSE Suffix(d, k, base)
<1>2. NewTotal <= MaxTotal
  BY DEF Add
<1>3. IsGrown(d, t)
  BY <1>2, GrownTable
<1>4. /\ device_total' = t /\ result' = k
      /\ k < 0 => devices' = d /\ handles' = handles
      /\ ~(k < 0) => /\ devices' = [d EXCEPT ![k] = Entry(<<base, number>>, public)]
                     /\ handles' = handles \cup {<<k, <<base, number>>, public>>}
  BY <1>1
<1> HIDE DEF t, d
<1>5. IsTable(d, t) /\ t \in Nat
  BY <1>3 DEF IsGrown, IsTable
<1>6. \/ k = -1
      \/ /\ k \in 0 .. t - 1 /\ d[k].free
         /\ \A m \in 0 .. t - 1 : d[m].free => k <= m
  BY <1>5, FirstFreeIs
<1> HIDE DEF k, number
<1>7. CASE k = -1
  <2>1. Refused(d)
    BY <1>4, <1>7 DEF Refused
  <2> QED BY <1>3, <1>4, <2>1
<1>8. CASE k # -1
  <2>1. k \in 0 .. t - 1 /\ ~(k < 0)
    BY <1>5, <1>6, <1>8
  <2>2. Given(d, t, k, <<base, number>>, public)
    BY <1>4, <1>6, <1>8, <2>1 DEF Given
  <2>3. number = IF no_suffix THEN -1 ELSE Suffix(d, k, base)
    BY DEF number
  <2> QED BY <1>3, <1>4, <2>1, <2>2, <2>3
<1> QED BY <1>7, <1>8

(* The slots that are given out, whoever frees what. *)
HandleInv ==
  /\ IsTable(devices, device_total)
  /\ \A h \in handles :
       /\ h \in Nat \X (Kinds \X Int) \X BOOLEAN
       /\ h[1] \in Ids /\ devices[h[1]] = Entry(h[2], h[3])
  /\ \A g, h \in handles : g[1] = h[1] => g = h

LEMMA HandleInvKeeps == HandleInv => HandlesKept
BY DEF HandleInv, HandlesKept, Entry

LEMMA EntrySlot ==
  ASSUME NEW name \in Kinds \X Int, NEW public \in BOOLEAN
  PROVE  Entry(name, public) \in Slot
BY DEF Entry, Slot

LEMMA EmptyHandles == DeviceInit => HandleInv
<1> SUFFICES ASSUME DeviceInit PROVE HandleInv
  OBVIOUS
<1>1. /\ devices = [k \in {} |-> Junk(TRUE)] /\ device_total = 0 /\ handles = {}
  BY DEF DeviceInit
<1>2. 0 .. 0 - 1 = {}
  OBVIOUS
<1>3. devices \in [0 .. device_total - 1 -> Slot]
  BY <1>1, <1>2
<1> QED BY <1>1, <1>3 DEF HandleInv, IsTable

LEMMA AddHandles ==
  ASSUME HandleInv, NEW base \in Kinds, NEW public \in BOOLEAN, NEW no_suffix \in BOOLEAN,
         Add(base, public, no_suffix)
  PROVE  HandleInv'
<1>1. PICK d, t :
        /\ IsGrown(d, t) /\ device_total' = t
        /\ \/ Refused(d)
           \/ \E k \in 0 .. t - 1 :
                LET number == IF no_suffix THEN -1 ELSE Suffix(d, k, base)
                IN  Given(d, t, k, <<base, number>>, public)
  BY AddIs DEF HandleInv
<1>2. IsTable(d, t) /\ t \in Nat /\ device_total \in Nat /\ device_total <= t
  BY <1>1 DEF IsGrown, IsTable, HandleInv
<1>3. \A m \in Ids : m \in 0 .. t - 1 /\ d[m] = devices[m]
  BY <1>1, <1>2 DEF IsGrown, Ids
<1>4. Ids' = 0 .. t - 1
  BY <1>1 DEF Ids
<1>5. CASE Refused(d)
  <2>1. ASSUME NEW h \in handles
        PROVE  h[1] \in Ids' /\ devices'[h[1]] = Entry(h[2], h[3])
    BY <1>3, <1>4, <1>5 DEF Refused, HandleInv
  <2> QED BY <1>1, <1>2, <1>5, <2>1 DEF Refused, HandleInv, Entry
<1>6. ASSUME NEW k \in 0 .. t - 1, NEW number,
             number = IF no_suffix THEN -1 ELSE Suffix(d, k, base),
             Given(d, t, k, <<base, number>>, public)
      PROVE  HandleInv'
  <2>1. number \in Int
    BY <1>2, <1>6, SuffixType
  <2> DEFINE name == <<base, number>>
             new == <<k, name, public>>
  <2>2. name \in Kinds \X Int
    BY <2>1
  <2>3. /\ IsTable(devices', t) /\ devices'[k] = Entry(name, public)
        /\ \A m \in 0 .. t - 1 : m # k => devices'[m] = d[m]
    <3>1. devices' = [d EXCEPT ![k] = Entry(name, public)]
      BY <1>6 DEF Given
    <3>2. Entry(name, public) \in Slot
      BY <2>2, EntrySlot
    <3> DEFINE s == Entry(name, public)
    <3> HIDE DEF s
    <3>3. devices' = [d EXCEPT ![k] = s] /\ s \in Slot
      BY <3>1, <3>2 DEF s
    <3>4. /\ IsTable(devices', t) /\ devices'[k] = s
          /\ \A m \in 0 .. t - 1 : m # k => devices'[m] = d[m]
      BY <1>2, <3>3 DEF IsTable
    <3> QED BY <3>4 DEF s
  <2>4. handles' = handles \cup {new} /\ d[k].free
    BY <1>6 DEF Given
  <2>5. new \in Nat \X (Kinds \X Int) \X BOOLEAN /\ new[1] = k /\ new[2] = name /\ new[3] = public
    BY <2>2
  <2> HIDE DEF name, new
  <2>6. ASSUME NEW h \in handles
        PROVE  h[1] \in Ids' /\ devices'[h[1]] = Entry(h[2], h[3]) /\ h[1] # k
    <3>1. h[1] \in Ids /\ devices[h[1]] = Entry(h[2], h[3])
      BY DEF HandleInv
    <3>2. h[1] \in 0 .. t - 1 /\ d[h[1]] = Entry(h[2], h[3])
      BY <1>3, <3>1
    <3>3. ~d[h[1]].free
      BY <3>2 DEF Entry
    <3> QED BY <1>4, <2>3, <2>4, <3>2, <3>3
  <2>7. \A h \in handles' : /\ h \in Nat \X (Kinds \X Int) \X BOOLEAN
                            /\ h[1] \in Ids' /\ devices'[h[1]] = Entry(h[2], h[3])
    BY <1>4, <2>3, <2>4, <2>5, <2>6 DEF HandleInv
  <2>8. \A g, h \in handles' : g[1] = h[1] => g = h
    BY <2>4, <2>5, <2>6 DEF HandleInv
  <2> QED BY <1>1, <2>3, <2>7, <2>8 DEF HandleInv, Entry
<1> QED BY <1>1, <1>5, <1>6

LEMMA FreeHandles ==
  ASSUME HandleInv, NEW h, Free(h)
  PROVE  HandleInv'
<1>1. /\ h \in handles /\ handles' = handles \ {h} /\ device_total' = device_total
      /\ devices' = [devices EXCEPT ![h[1]].free = TRUE]
  BY DEF Free
<1>2. h[1] \in Ids /\ devices \in [Ids -> Slot] /\ device_total \in Nat
  BY <1>1 DEF HandleInv, IsTable, Ids
<1>3. [devices[h[1]] EXCEPT !.free = TRUE] \in Slot
  BY <1>2 DEF Slot
<1>4. devices' \in [Ids -> Slot] /\ \A k \in Ids : k # h[1] => devices'[k] = devices[k]
  BY <1>1, <1>2, <1>3
<1>5. \A g \in handles' : g \in handles /\ g[1] # h[1]
  BY <1>1 DEF HandleInv
<1>6. IsTable(devices', device_total') /\ Ids' = Ids
  BY <1>1, <1>2, <1>4 DEF IsTable, Ids
<1> QED BY <1>4, <1>5, <1>6 DEF HandleInv, Entry

-----------------------------------------------------------------------------
(* The numbers of drivers' devices, as long as nothing is freed: they grow *)
(* with the slot, because the first free slot is above all that are taken. *)

IsNumbered(d, t) ==
  \A k \in 0 .. t - 1 :
    /\ d[k].public <=> d[k].name[2] >= 0
    /\ d[k].public =>
         /\ ~d[k].free /\ d[k].name[2] <= k
         /\ \A m \in 0 .. t - 1 :
              /\ d[m].free => k < m
              /\ d[m].public /\ k < m /\ d[k].name[1] = d[m].name[1] =>
                   d[k].name[2] < d[m].name[2]

LEMMA GrownNumbered ==
  ASSUME NEW d, NEW t, IsTable(devices, device_total), IsNumbered(devices, device_total),
         IsGrown(d, t)
  PROVE  IsNumbered(d, t)
<1>1. t \in Nat /\ device_total \in Nat /\ device_total <= t
  BY DEF IsGrown, IsTable
<1>2. ASSUME NEW k \in 0 .. t - 1
      PROVE  \/ k \in 0 .. device_total - 1 /\ d[k] = devices[k]
             \/ device_total <= k /\ ~d[k].public /\ d[k].name[2] = -1
  BY <1>1 DEF IsGrown, IsJunk
<1>3. ASSUME NEW k \in 0 .. t - 1
      PROVE  /\ d[k].public <=> d[k].name[2] >= 0
             /\ d[k].public => ~d[k].free /\ d[k].name[2] <= k /\ k \in 0 .. device_total - 1
  BY <1>1, <1>2 DEF IsNumbered
<1>4. ASSUME NEW k \in 0 .. t - 1, NEW m \in 0 .. t - 1, d[k].public
      PROVE  /\ d[m].free => k < m
             /\ d[m].public /\ k < m /\ d[k].name[1] = d[m].name[1] =>
                  d[k].name[2] < d[m].name[2]
  <2>1. k \in 0 .. device_total - 1 /\ d[k] = devices[k] /\ devices[k].public
    BY <1>1, <1>2, <1>3, <1>4
  <2>2. CASE m \in 0 .. device_total - 1 /\ d[m] = devices[m]
    BY <2>1, <2>2 DEF IsNumbered
  <2>3. CASE device_total <= m /\ ~d[m].public
    BY <1>1, <2>1, <2>3
  <2> QED BY <1>2, <2>2, <2>3
<1> QED BY <1>3, <1>4 DEF IsNumbered

LEMMA DriverNumbered ==
  ASSUME NEW d, NEW t, IsTable(d, t), IsNumbered(d, t), NEW base \in Kinds,
         NEW k \in 0 .. t - 1, d[k].free, \A m \in 0 .. t - 1 : d[m].free => k <= m,
         NEW e, \A m \in 0 .. t - 1 : m # k => e[m] = d[m],
         e[k].public, ~e[k].free, e[k].name = <<base, Suffix(d, k, base)>>
  PROVE  IsNumbered(e, t)
<1> DEFINE number == Suffix(d, k, base)
<1>1. t \in Nat /\ DOMAIN d = 0 .. t - 1
  BY DEF IsTable
<1>2. \A m \in 0 .. t - 1 : d[m].name[2] \in Int
  BY DEF IsTable, Slot
<1>3. \A m \in 0 .. t - 1 : d[m].public => m < k
  BY DEF IsNumbered
<1>4. ASSUME NEW m \in 0 .. t - 1, d[m].public, d[m].name[1] = base
      PROVE  m \in Same(d, k, base)
  BY <1>1, <1>3, <1>4 DEF Same, IsNumbered
<1>5. /\ number \in Nat /\ number <= k
      /\ \A m \in 0 .. t - 1 : d[m].public /\ d[m].name[1] = base => d[m].name[2] < number
  <2>1. CASE Same(d, k, base) = {} /\ number = 0
    BY <1>1, <1>4, <2>1
  <2>2. ASSUME NEW last \in Same(d, k, base), \A m \in Same(d, k, base) : m <= last,
               number = d[last].name[2] + 1
        PROVE  /\ number \in Nat /\ number <= k
               /\ \A m \in 0 .. t - 1 :
                    d[m].public /\ d[m].name[1] = base => d[m].name[2] < number
    <3>1. last \in 0 .. t - 1 /\ d[last].name[1] = base /\ d[last].name[2] >= 0
      BY <1>1 DEF Same
    <3>2. d[last].public /\ last < k /\ d[last].name[2] <= last
      BY <1>3, <3>1 DEF IsNumbered
    <3> QED BY <1>2, <1>4, <2>2, <3>1, <3>2 DEF IsNumbered
  <2> QED BY <2>1, <2>2, SuffixIs
<1> HIDE DEF number
<1>6. \A m \in 0 .. t - 1 : m # k => e[m] = d[m]
  OBVIOUS
<1>7. e[k].public /\ ~e[k].free /\ e[k].name[1] = base /\ e[k].name[2] = number
  BY DEF number
<1>8. ASSUME NEW n \in 0 .. t - 1
      PROVE  /\ e[n].public <=> e[n].name[2] >= 0
             /\ e[n].public => ~e[n].free /\ e[n].name[2] <= n
  <2>1. CASE n = k
    <3>1. e[k].name[2] >= 0 /\ e[k].name[2] <= k
      BY <1>1, <1>5, <1>7
    <3>2. e[k].public /\ ~e[k].free
      BY <1>7
    <3> QED BY <2>1, <3>1, <3>2
  <2>2. CASE n # k
    BY <1>6, <2>2 DEF IsNumbered
  <2> QED BY <2>1, <2>2
<1>9. ASSUME NEW n \in 0 .. t - 1, NEW m \in 0 .. t - 1, e[n].public
      PROVE  /\ e[m].free => n < m
             /\ e[m].public /\ n < m /\ e[n].name[1] = e[m].name[1] => e[n].name[2] < e[m].name[2]
  <2>1. CASE n # k /\ m # k
    BY <1>6, <1>9, <2>1 DEF IsNumbered
  <2>2. CASE n # k /\ m = k
    BY <1>3, <1>5, <1>6, <1>7, <1>9, <2>2
  <2>3. CASE n = k
    <3>1. CASE m = k
      BY <1>1, <1>7, <2>3, <3>1
    <3>2. CASE m # k
      <4>1. e[m] = d[m] /\ (d[m].public => m < k) /\ (d[m].free => k <= m)
        BY <1>3, <1>6, <3>2
      <4> QED BY <1>1, <2>3, <3>2, <4>1
    <3> QED BY <3>1, <3>2
  <2> QED BY <2>1, <2>2, <2>3
<1> QED BY <1>8, <1>9 DEF IsNumbered

LEMMA TempNumbered ==
  ASSUME NEW d, NEW t, IsTable(d, t), IsNumbered(d, t),
         NEW k \in 0 .. t - 1, NEW e, \A m \in 0 .. t - 1 : m # k => e[m] = d[m],
         ~e[k].public, ~e[k].free, e[k].name[2] = -1
  PROVE  IsNumbered(e, t)
<1>2. /\ ~e[k].public /\ ~e[k].free /\ e[k].name[2] = -1
      /\ \A m \in 0 .. t - 1 : m # k => e[m] = d[m]
  OBVIOUS
<1>3. ASSUME NEW n \in 0 .. t - 1
      PROVE  /\ e[n].public <=> e[n].name[2] >= 0
             /\ e[n].public => n # k /\ ~e[n].free /\ e[n].name[2] <= n
  BY <1>2 DEF IsNumbered
<1>4. ASSUME NEW n \in 0 .. t - 1, NEW m \in 0 .. t - 1, e[n].public
      PROVE  /\ e[m].free => n < m
             /\ e[m].public /\ n < m /\ e[n].name[1] = e[m].name[1] => e[n].name[2] < e[m].name[2]
  <2>1. n # k /\ e[n] = d[n]
    BY <1>2, <1>3, <1>4
  <2>2. e[m].free \/ e[m].public => m # k /\ e[m] = d[m]
    BY <1>2
  <2> QED BY <1>4, <2>1, <2>2 DEF IsNumbered
<1> QED BY <1>3, <1>4 DEF IsNumbered

(* What the boot's tasks do to the table: drivers' devices are public and  *)
(* numbered, temporary ones neither.                                       *)
FoundInv ==
  /\ HandleInv
  /\ device_total <= MaxTotal
  /\ IsNumbered(devices, device_total)

(* What is in use stays as it is, and a new public device is above all     *)
(* others.                                                                 *)
Extends(e, t, public) ==
  /\ t \in Nat /\ device_total <= t
  /\ \A m \in Ids : m \in 0 .. t - 1 /\ (devices[m].public => e[m] = devices[m])
  /\ \A m \in 0 .. t - 1 : e[m].public =>
       \/ m \in Ids /\ devices[m].public
       \/ public /\ \A k \in Ids : devices[k].public => k < m

LEMMA EmptyFound == DeviceInit => FoundInv
<1> SUFFICES ASSUME DeviceInit PROVE FoundInv
  OBVIOUS
<1>1. device_total = 0 /\ 0 .. 0 - 1 = {}
  BY DEF DeviceInit
<1> QED BY <1>1, EmptyHandles, TableAssumption DEF FoundInv, IsNumbered

LEMMA AddFound ==
  ASSUME FoundInv, NEW base \in Kinds, AddDriver(base) \/ AddTemp(base)
  PROVE  /\ FoundInv'
         /\ AddDriver(base) => Extends(devices', device_total', TRUE)
         /\ AddTemp(base) => Extends(devices', device_total', FALSE)
<1>1. HandleInv'
  BY AddHandles DEF AddDriver, AddTemp, FoundInv
<1>2. IsTable(devices, device_total) /\ device_total \in Nat
  BY DEF FoundInv, HandleInv, IsTable
<1>3. ASSUME NEW d, NEW t, IsGrown(d, t), device_total' = t, Refused(d),
             NEW public
      PROVE  FoundInv' /\ Extends(devices', device_total', public)
  <2>1. IsNumbered(d, t) /\ devices' = d /\ t <= MaxTotal /\ t \in Nat /\ device_total <= t
    BY <1>2, <1>3, GrownNumbered DEF FoundInv, Refused, IsGrown, IsTable
  <2>2. \A m \in Ids : m \in 0 .. t - 1 /\ d[m] = devices[m]
    BY <1>2, <1>3, <2>1 DEF Ids, IsGrown
  <2>3. \A m \in 0 .. t - 1 : d[m].public => m \in Ids
    BY <1>2, <1>3, <2>1 DEF Ids, IsGrown, IsJunk
  <2> QED BY <1>1, <1>3, <2>1, <2>2, <2>3 DEF FoundInv, Extends
<1>4. ASSUME NEW d, NEW t, IsGrown(d, t), NEW k \in 0 .. t - 1, d[k].free,
             \A m \in 0 .. t - 1 : d[m].free => k <= m,
             device_total' = t, NEW public, IsNumbered(devices', t),
             devices'[k].public <=> public,
             \A m \in 0 .. t - 1 : m # k => devices'[m] = d[m]
      PROVE  FoundInv' /\ Extends(devices', device_total', public)
  <2>1. IsNumbered(d, t) /\ t <= MaxTotal /\ t \in Nat /\ device_total <= t
    BY <1>2, <1>4, GrownNumbered DEF FoundInv, IsGrown, IsTable
  <2>2. \A m \in Ids : m \in 0 .. t - 1 /\ d[m] = devices[m]
    BY <1>2, <1>4, <2>1 DEF Ids, IsGrown
  <2>3. \A m \in Ids : devices[m].public => m < k /\ m # k
    BY <1>2, <1>4, <2>1, <2>2 DEF IsNumbered
  <2>4. \A m \in 0 .. t - 1 : d[m].public => m \in Ids
    BY <1>2, <1>4, <2>1 DEF Ids, IsGrown, IsJunk
  <2>5. \A m \in Ids : m \in 0 .. t - 1 /\ (devices[m].public => devices'[m] = devices[m])
    BY <1>4, <2>2, <2>3
  <2>6. ASSUME NEW m \in 0 .. t - 1, devices'[m].public
        PROVE  \/ m \in Ids /\ devices[m].public
               \/ public /\ \A l \in Ids : devices[l].public => l < m
    BY <1>4, <2>2, <2>3, <2>4, <2>6
  <2> QED BY <1>1, <1>4, <2>1, <2>5, <2>6 DEF FoundInv, Extends
<1>5. ASSUME AddDriver(base)
      PROVE  FoundInv' /\ Extends(devices', device_total', TRUE)
  <2>1. PICK d, t :
          /\ IsGrown(d, t) /\ device_total' = t
          /\ \/ Refused(d)
             \/ \E k \in 0 .. t - 1 : Given(d, t, k, <<base, Suffix(d, k, base)>>, TRUE)
    BY <1>2, <1>5, AddIs DEF AddDriver
  <2>2. IsTable(d, t) /\ IsNumbered(d, t) /\ DOMAIN d = 0 .. t - 1
    BY <1>2, <2>1, GrownNumbered DEF IsGrown, FoundInv, IsTable
  <2>3. ASSUME NEW k \in 0 .. t - 1, Given(d, t, k, <<base, Suffix(d, k, base)>>, TRUE)
        PROVE  FoundInv' /\ Extends(devices', device_total', TRUE)
    <3>1. /\ d[k].free /\ \A m \in 0 .. t - 1 : d[m].free => k <= m
          /\ devices'[k].public /\ ~devices'[k].free
          /\ devices'[k].name = <<base, Suffix(d, k, base)>>
          /\ \A m \in 0 .. t - 1 : m # k => devices'[m] = d[m]
      BY <2>2, <2>3 DEF Given, Entry
    <3>2. IsNumbered(devices', t)
      BY <2>2, <3>1, DriverNumbered
    <3> QED BY <1>4, <2>1, <3>1, <3>2
  <2> QED BY <1>3, <2>1, <2>3
<1>6. ASSUME AddTemp(base)
      PROVE  FoundInv' /\ Extends(devices', device_total', FALSE)
  <2>1. PICK d, t :
          /\ IsGrown(d, t) /\ device_total' = t
          /\ \/ Refused(d)
             \/ \E k \in 0 .. t - 1 : Given(d, t, k, <<base, -1>>, FALSE)
    BY <1>2, <1>6, AddIs DEF AddTemp
  <2>2. IsTable(d, t) /\ IsNumbered(d, t) /\ DOMAIN d = 0 .. t - 1
    BY <1>2, <2>1, GrownNumbered DEF IsGrown, FoundInv, IsTable
  <2>3. ASSUME NEW k \in 0 .. t - 1, Given(d, t, k, <<base, -1>>, FALSE)
        PROVE  FoundInv' /\ Extends(devices', device_total', FALSE)
    <3>1. /\ d[k].free /\ \A m \in 0 .. t - 1 : d[m].free => k <= m
          /\ ~devices'[k].public /\ ~devices'[k].free /\ devices'[k].name[2] = -1
          /\ \A m \in 0 .. t - 1 : m # k => devices'[m] = d[m]
      BY <2>2, <2>3 DEF Given, Entry
    <3>2. IsNumbered(devices', t)
      BY <2>2, <3>1, TempNumbered
    <3> QED BY <1>4, <2>1, <3>1, <3>2
  <2> QED BY <1>3, <2>1, <2>3
<1> QED BY <1>5, <1>6

(* A public device's name is its own. *)
LEMMA PublicName ==
  ASSUME FoundInv, NEW k \in Ids, devices[k].public
  PROVE  /\ devices[k].name \in Kinds \X Int /\ devices[k].name[2] \in Numbers
         /\ ~devices[k].free /\ k \in Nat
<1>1. device_total \in Nat /\ devices[k] \in Slot /\ k \in 0 .. device_total - 1
  BY DEF FoundInv, HandleInv, IsTable, Ids
<1>2. devices[k].name \in Kinds \X Int /\ devices[k].name[2] \in Int
  BY <1>1 DEF Slot
<1>3. ~devices[k].free /\ devices[k].name[2] >= 0 /\ devices[k].name[2] <= k
  BY <1>1 DEF FoundInv, IsNumbered
<1> QED BY <1>1, <1>2, <1>3, TableAssumption DEF Numbers, FoundInv

LEMMA StartBefore ==
  ASSUME FoundInv, NEW k \in Ids, NEW m \in Ids, devices[k].public, devices[m].public,
         IsStart(devices[k].name, devices[m].name)
  PROVE  k = m \/ k < m
<1>1. /\ devices[k].name[2] \in Numbers /\ devices[m].name[2] \in Numbers /\ k \in Nat /\ m \in Nat
      /\ k \in 0 .. device_total - 1 /\ m \in 0 .. device_total - 1
  BY PublicName DEF Ids
<1>2. devices[k].name[1] = devices[m].name[1] /\ devices[k].name[2] <= devices[m].name[2]
  BY <1>1, StartIsOrder
<1>3. m < k => devices[m].name[2] < devices[k].name[2]
  BY <1>1, <1>2 DEF FoundInv, IsNumbered
<1> QED BY <1>1, <1>2, <1>3 DEF Numbers

LEMMA FoundInvFinds == FoundInv => FoundByName
<1> SUFFICES ASSUME FoundInv, NEW h \in handles, h[3]
             PROVE  Find(h[2]) = h[1]
  BY DEF FoundByName
<1> DEFINE same == {k \in Ids : ~devices[k].free /\ devices[k].name = h[2]}
<1>1. h[1] \in Ids /\ devices[h[1]] = Entry(h[2], h[3])
  BY DEF FoundInv, HandleInv
<1>2. ~devices[h[1]].free /\ devices[h[1]].name = h[2] /\ devices[h[1]].public
  BY <1>1 DEF Entry
<1>3. h[2][2] \in Numbers /\ h[1] \in Nat
  BY <1>1, <1>2, PublicName
<1>4. ASSUME NEW k \in same PROVE k = h[1]
  <2>1. k \in Ids /\ devices[k].name = h[2]
    OBVIOUS
  <2>2. devices[k].public
    BY <1>3, <2>1 DEF FoundInv, IsNumbered, Ids, Numbers
  <2>3. IsStart(devices[k].name, devices[h[1]].name) /\ IsStart(devices[h[1]].name, devices[k].name)
    BY <1>2, <1>3, <2>1, StartIsOrder
  <2>4. k = h[1] \/ k < h[1]
    BY <1>1, <1>2, <2>1, <2>2, <2>3, StartBefore
  <2>5. k = h[1] \/ h[1] < k
    BY <1>1, <1>2, <2>1, <2>2, <2>3, StartBefore
  <2>6. k \in Nat
    BY <2>1, <2>2, PublicName
  <2> QED BY <1>3, <2>4, <2>5, <2>6
<1>5. h[1] \in same /\ h[1] <= h[1]
  <2>1. h[1] \in same
    BY <1>1, <1>2
  <2>2. h[1] <= h[1]
    BY <1>3
  <2> QED BY <2>1, <2>2
<1>6. Find(h[2]) = IF same = {} THEN -1 ELSE CHOOSE k \in same : \A m \in same : k <= m
  BY DEF Find
<1> HIDE DEF same
<1> QED BY <1>4, <1>5, <1>6

-----------------------------------------------------------------------------
(* The root's mounts and the walks over them.                              *)

(* root_mount has seen slot k: if it could be mounted, a tree is there     *)
(* that it was taken for.                                                  *)
Settled(k) == Shown(k) /\ Mountable(devices[k].name) => HasTree(devices[k].name)

Trees == 1 .. Len(childs)

(* A tree is of a public device, every slot below it had been seen when it *)
(* was mounted, and no tree's name starts another's.                       *)
TreesInv ==
  /\ childs \in Seq([name : Kinds \X Int, id : Nat])
  /\ \A j \in Trees :
       /\ childs[j].id \in Ids /\ devices[childs[j].id].public
       /\ childs[j].name = devices[childs[j].id].name
       /\ \A k \in 0 .. childs[j].id - 1 : Settled(k)
  /\ \A j, k \in Trees : IsStart(childs[j].name, childs[k].name) => j = k

(* A pass has seen what is below its cursor, and the last one all slots.   *)
PassInv ==
  /\ cursor \in Nat
  /\ pc = "mount" => cursor <= device_total /\ \A k \in 0 .. cursor - 1 : Settled(k)
  /\ pc \in {"show", "shown"} => \A k \in Ids : Settled(k)

(* What a list says can be listed has a tree, which no one takes away.     *)
ListedInv ==
  \A e \in listing :
    /\ e.name \in Kinds \X Int /\ e.name[2] \in Numbers
    /\ e.can_list => HasTree(e.name)

BootInv == FoundInv /\ TreesInv /\ PassInv /\ ListedInv /\ ReachesOwn

LEMMA TreeDomain ==
  ASSUME TreesInv
  PROVE  DOMAIN childs = Trees /\ Len(childs) \in Nat
BY LenProperties DEF TreesInv, Trees

LEMMA TreeName ==
  ASSUME FoundInv, TreesInv, NEW j \in Trees
  PROVE  childs[j].name \in Kinds \X Int /\ childs[j].name[2] \in Numbers
<1>1. /\ childs[j].id \in Ids /\ devices[childs[j].id].public
      /\ childs[j].name = devices[childs[j].id].name
  BY DEF TreesInv
<1> DEFINE k == childs[j].id
<1>2. k \in Ids /\ devices[k].public /\ childs[j].name = devices[k].name
  BY <1>1
<1> HIDE DEF k
<1> QED BY <1>2, PublicName

LEMMA SameName ==
  ASSUME FoundInv, NEW k \in Ids, NEW m \in Ids, devices[k].public, devices[m].public,
         devices[k].name = devices[m].name
  PROVE  k = m
<1>1. k \in Nat /\ m \in Nat /\ devices[k].name[2] \in Numbers /\ devices[m].name[2] \in Numbers
  BY PublicName
<1>2. IsStart(devices[k].name, devices[m].name) /\ IsStart(devices[m].name, devices[k].name)
  BY <1>1, StartIsOrder
<1>3. (k = m \/ k < m) /\ (m = k \/ m < k)
  BY <1>2, StartBefore
<1> QED BY <1>1, <1>3

LEMMA TreesInvOne ==
  ASSUME FoundInv, TreesInv
  PROVE  OneTreePerDevice
<1>1. ASSUME NEW j \in Trees
      PROVE  devices[childs[j].id].name = childs[j].name
  BY DEF TreesInv
<1>2. ASSUME NEW j \in Trees, NEW k \in Trees, childs[j].id = childs[k].id
      PROVE  j = k
  <2>1. childs[j].name = childs[k].name
    BY <1>1, <1>2
  <2>2. IsStart(childs[j].name, childs[k].name)
    BY <2>1, TreeName, StartIsOrder
  <2> QED BY <2>2 DEF TreesInv
<1> QED BY <1>1, <1>2, TreeDomain DEF OneTreePerDevice

LEMMA PassInvMounted ==
  ASSUME FoundInv, TreesInv, PassInv
  PROVE  MountedUnlessShadowed
<1> SUFFICES ASSUME pc \in {"show", "shown"}, NEW k \in Ids,
                    Shown(k), Mountable(devices[k].name)
             PROVE  \/ \E j \in DOMAIN childs : childs[j].id = k
                    \/ \E j \in DOMAIN childs :
                         /\ childs[j].name # devices[k].name
                         /\ IsStart(childs[j].name, devices[k].name)
                         /\ childs[j].id < k
  BY DEF MountedUnlessShadowed
<1>1. HasTree(devices[k].name) /\ devices[k].public
  BY DEF PassInv, Settled, Shown
<1>2. PICK j \in Trees : IsStart(childs[j].name, devices[k].name)
  BY <1>1, TreeDomain DEF HasTree
<1> DEFINE m == childs[j].id
<1>3. m \in Ids /\ devices[m].public /\ childs[j].name = devices[m].name
  BY DEF TreesInv
<1>4. childs[j].id = m /\ j \in DOMAIN childs
  BY TreeDomain
<1> HIDE DEF m
<1>5. m = k \/ m < k
  BY <1>1, <1>2, <1>3, StartBefore
<1>6. childs[j].name = devices[k].name => m = k
  BY <1>1, <1>3, SameName
<1> QED BY <1>2, <1>4, <1>5, <1>6

(* Of the trees that a listed name starts there is one, its own.           *)
LEMMA OwnTree ==
  ASSUME FoundInv, TreesInv, NEW name \in Kinds \X Int, name[2] \in Numbers, HasTree(name),
         NEW j \in Matches(name)
  PROVE  childs[j].name = name
<1>1. j \in Trees /\ IsStart(name, childs[j].name)
  BY TreeDomain DEF Matches
<1>2. PICK k \in Trees : IsStart(childs[k].name, name)
  BY TreeDomain DEF HasTree
<1>3. /\ childs[j].name \in Kinds \X Int /\ childs[j].name[2] \in Numbers
      /\ childs[k].name \in Kinds \X Int /\ childs[k].name[2] \in Numbers
  BY <1>1, <1>2, TreeName
<1>4. IsStart(childs[k].name, childs[j].name)
  BY <1>1, <1>2, <1>3, StartTransitive
<1>5. k = j
  BY <1>1, <1>4 DEF TreesInv
<1>6. name[1] = childs[j].name[1] /\ name[2] <= childs[j].name[2] /\ childs[j].name[2] <= name[2]
  BY <1>1, <1>2, <1>3, <1>5, StartIsOrder
<1>7. name[2] = childs[j].name[2]
  BY <1>3, <1>6 DEF Numbers
<1> QED BY <1>3, <1>6, <1>7

(* What device_add does not change. *)
LEMMA SettledStays ==
  ASSUME NEW t, NEW public, Extends(devices', t, public), device_total' = t,
         UNCHANGED <<childs, mbr>>, NEW k \in 0 .. t - 1, k \in Ids => Settled(k),
         public => \E m \in Ids : devices[m].public /\ k < m, device_total \in Nat
  PROVE  Settled(k)'
<1> SUFFICES ASSUME Shown(k)', Mountable(devices[k].name)'
             PROVE  HasTree(devices[k].name)'
  BY DEF Settled
<1>1. devices'[k].public
  BY DEF Shown
<1>2. k \in Ids /\ devices[k].public
  BY <1>1 DEF Extends, Ids
<1>3. devices'[k] = devices[k]
  BY <1>2 DEF Extends
<1>4. Shown(k) /\ Mountable(devices[k].name)
  BY <1>3 DEF Shown, Mountable
<1>5. HasTree(devices[k].name)
  BY <1>2, <1>4 DEF Settled
<1> QED BY <1>3, <1>5 DEF HasTree

LEMMA AddTrees ==
  ASSUME FoundInv, TreesInv, NEW t, NEW public, Extends(devices', t, public),
         device_total' = t, UNCHANGED <<childs, mbr>>
  PROVE  TreesInv'
<1>1. t \in Nat /\ device_total \in Nat /\ device_total <= t /\ Ids' = 0 .. t - 1
  BY DEF Extends, FoundInv, HandleInv, IsTable, Ids
<1>2. Trees' = Trees
  BY DEF Trees
<1>3. ASSUME NEW j \in Trees
      PROVE  /\ childs'[j].id \in Ids' /\ devices'[childs'[j].id].public
             /\ childs'[j].name = devices'[childs'[j].id].name
             /\ \A k \in 0 .. childs'[j].id - 1 : Settled(k)'
  <2> DEFINE m == childs[j].id
  <2>1. /\ m \in Ids /\ devices[m].public /\ childs[j].name = devices[m].name
        /\ \A k \in 0 .. m - 1 : Settled(k)
    BY DEF TreesInv
  <2>2. childs' = childs /\ childs[j].id = m
    OBVIOUS
  <2> HIDE DEF m
  <2>3. m \in 0 .. t - 1 /\ devices'[m] = devices[m]
    BY <2>1 DEF Extends
  <2>4. ASSUME NEW k \in 0 .. m - 1
        PROVE  Settled(k)'
    <3>1. k \in 0 .. t - 1 /\ Settled(k) /\ k < m
      BY <1>1, <2>1, <2>3
    <3> QED BY <1>1, <2>1, <3>1, SettledStays
  <2> QED BY <1>1, <2>1, <2>2, <2>3, <2>4
<1> QED BY <1>2, <1>3 DEF TreesInv

LEMMA ListedStays ==
  ASSUME ListedInv, listing' \subseteq listing, UNCHANGED childs
  PROVE  ListedInv'
BY DEF ListedInv, HasTree

(* A temporary device is not public: the slots that were seen stay so.     *)
LEMMA TempKeeps ==
  ASSUME FoundInv, TreesInv, NEW base \in Kinds, AddTemp(base), UNCHANGED <<childs, mbr>>
  PROVE  /\ FoundInv' /\ TreesInv'
         /\ (\A k \in Ids : Settled(k)) => \A k \in Ids' : Settled(k)'
<1>1. FoundInv' /\ Extends(devices', device_total', FALSE)
  BY AddFound
<1>2. device_total \in Nat
  BY DEF FoundInv, HandleInv, IsTable
<1>3. Ids' = 0 .. device_total' - 1
  BY DEF Ids
<1>4. ASSUME \A k \in Ids : Settled(k), NEW k \in 0 .. device_total' - 1
      PROVE  Settled(k)'
  BY <1>1, <1>2, <1>4, SettledStays
<1> QED BY <1>1, <1>3, <1>4, AddTrees

LEMMA InitBoot == Init => BootInv
<1> SUFFICES ASSUME Init PROVE BootInv
  OBVIOUS
<1>1. childs = <<>> /\ listing = {} /\ reached = None /\ cursor = 0 /\ pc = "log" /\ DeviceInit
  BY DEF Init
<1>2. TreesInv
  <2>1. Trees = {} /\ childs \in Seq([name : Kinds \X Int, id : Nat])
    BY <1>1, EmptySeq DEF Trees
  <2> QED BY <2>1 DEF TreesInv
<1> QED BY <1>1, <1>2, EmptyFound DEF BootInv, PassInv, ListedInv, ReachesOwn, None

(* A turn of root_mount. *)
LEMMA MountBoot ==
  ASSUME BootInv, MountNext
  PROVE  BootInv'
<1>1. /\ pc = "mount" /\ cursor < device_total /\ cursor' = cursor + 1
      /\ UNCHANGED <<deviceVars, mbr, listing, reached, task, pc>>
      /\ IF Shown(cursor) /\ ~HasTree(devices[cursor].name) /\ Mountable(devices[cursor].name)
           THEN childs' = Append(childs, [name |-> devices[cursor].name, id |-> cursor])
           ELSE UNCHANGED childs
  BY DEF MountNext
<1>2. /\ FoundInv /\ TreesInv /\ PassInv /\ ListedInv /\ ReachesOwn
      /\ cursor \in Nat /\ device_total \in Nat /\ cursor \in Ids
  BY <1>1 DEF BootInv, PassInv, FoundInv, HandleInv, IsTable, Ids
<1>3. FoundInv' /\ ReachesOwn'
  BY <1>1, <1>2 DEF FoundInv, HandleInv, Ids, deviceVars, table, ReachesOwn
<1>4. CASE UNCHANGED childs /\ Settled(cursor)
  <2>1. \A k : Settled(k)' <=> Settled(k)
    BY <1>1, <1>4 DEF Settled, Shown, Mountable, HasTree, deviceVars, table
  <2>2. TreesInv'
    BY <1>1, <1>2, <1>4, <2>1 DEF TreesInv, Trees, Ids, deviceVars, table
  <2>3. PassInv'
    <3>1. \A k \in 0 .. (cursor + 1) - 1 : Settled(k)
      BY <1>1, <1>2, <1>4 DEF PassInv
    <3>2. cursor + 1 \in Nat /\ cursor + 1 <= device_total /\ device_total' = device_total
      BY <1>1, <1>2 DEF deviceVars, table
    <3> QED BY <1>1, <2>1, <3>1, <3>2 DEF PassInv
  <2> QED BY <1>1, <1>2, <1>3, <1>4, <2>2, <2>3, ListedStays DEF BootInv
<1> DEFINE name == devices[cursor].name
           c == [name |-> name, id |-> cursor]
<1>5. CASE /\ childs' = Append(childs, c) /\ Shown(cursor) /\ ~HasTree(name) /\ Mountable(name)
  <2>1. devices[cursor].public /\ name \in Kinds \X Int /\ name[2] \in Numbers
    BY <1>2, <1>5, PublicName DEF Shown
  <2>2. c \in [name : Kinds \X Int, id : Nat] /\ c.name = name /\ c.id = cursor
    BY <1>2, <2>1
  <2> HIDE DEF c
  <2>3. childs \in Seq([name : Kinds \X Int, id : Nat])
    BY <1>2 DEF TreesInv
  <2> DEFINE n == Len(childs)
  <2>4. /\ childs' \in Seq([name : Kinds \X Int, id : Nat])
        /\ n \in Nat /\ Len(childs') = n + 1 /\ childs'[n + 1] = c
    BY <1>5, <2>2, <2>3, AppendProperties, LenProperties
  <2>5. \A j \in 1 .. n : childs'[j] = childs[j]
    BY <1>5, <2>2, <2>3, AppendProperties
  <2>6. Trees' = 1 .. n + 1 /\ Trees = 1 .. n /\ DOMAIN childs' = 1 .. n + 1
    BY <2>4, LenProperties DEF Trees
  <2> HIDE DEF n
  <2>7. ASSUME NEW x, HasTree(x)
        PROVE  HasTree(x)'
    <3>1. PICK j \in 1 .. n : IsStart(childs[j].name, x)
      BY <1>2, <2>6, <2>7, TreeDomain DEF HasTree
    <3>2. j \in DOMAIN childs' /\ childs'[j].name = childs[j].name
      BY <2>4, <2>5, <2>6
    <3> QED BY <3>1, <3>2 DEF HasTree
  <2>8. ASSUME NEW x, x = name
        PROVE  HasTree(x)'
    <3>1. n + 1 \in DOMAIN childs' /\ childs'[n + 1].name = x
      BY <2>2, <2>4, <2>6, <2>8
    <3>2. IsStart(x, x)
      BY <2>1, <2>8, StartIsOrder
    <3> QED BY <3>1, <3>2 DEF HasTree
  <2>9. ASSUME NEW k, Settled(k) \/ k = cursor
        PROVE  Settled(k)'
    <3> DEFINE x == devices[k].name
    <3>1. Shown(k)' = Shown(k) /\ Mountable(x)' = Mountable(x) /\ x' = x
      BY <1>1 DEF Shown, Mountable, deviceVars, table
    <3>2. ASSUME Shown(k), Mountable(x)
          PROVE  HasTree(x)'
      <4>1. CASE Settled(k)
        <5>1. HasTree(x)
          BY <3>2, <4>1 DEF Settled
        <5>2. \E l \in DOMAIN childs' : IsStart(childs'[l].name, x)
          BY <2>7, <5>1 DEF HasTree
        <5> QED BY <3>1, <5>2 DEF HasTree
      <4>2. CASE k = cursor
        <5>1. \E l \in DOMAIN childs' : IsStart(childs'[l].name, x)
          BY <2>8, <4>2 DEF HasTree
        <5> QED BY <3>1, <5>1 DEF HasTree
      <4> QED BY <2>9, <4>1, <4>2
    <3> QED BY <3>1, <3>2 DEF Settled
  <2>10. Ids' = Ids /\ devices' = devices /\ device_total' = device_total
    BY <1>1 DEF Ids, deviceVars, table
  <2>11. \A k \in 0 .. cursor - 1 : Settled(k)'
    BY <1>1, <1>2, <2>9 DEF PassInv
  <2>12. ASSUME NEW j \in 1 .. n + 1
         PROVE  /\ childs'[j].id \in Ids' /\ devices'[childs'[j].id].public
                /\ childs'[j].name = devices'[childs'[j].id].name
                /\ \A k \in 0 .. childs'[j].id - 1 : Settled(k)'
    <3>1. CASE j = n + 1
      BY <1>2, <2>1, <2>2, <2>4, <2>10, <2>11, <3>1
    <3>2. CASE j \in 1 .. n
      BY <1>2, <2>5, <2>6, <2>9, <2>10, <3>2 DEF TreesInv
    <3> QED BY <2>4, <3>1, <3>2
  <2>13. ASSUME NEW j \in 1 .. n, IsStart(name, childs[j].name)
         PROVE  FALSE
    <3> DEFINE m == childs[j].id
    <3>1. /\ m \in Ids /\ devices[m].public /\ childs[j].name = devices[m].name
          /\ \A k \in 0 .. m - 1 : Settled(k)
      BY <1>2, <2>6 DEF TreesInv
    <3>2. ~IsStart(childs[j].name, name) /\ j \in DOMAIN childs
      BY <1>2, <1>5, <2>6, TreeDomain DEF HasTree
    <3> HIDE DEF m
    <3>3. cursor = m \/ cursor < m
      BY <1>2, <2>1, <2>13, <3>1, StartBefore
    <3>4. CASE cursor = m
      BY <2>1, <3>1, <3>2, <3>4, StartIsOrder
    <3>5. CASE cursor < m
      <4>1. cursor \in 0 .. m - 1
        BY <1>2, <3>1, <3>5 DEF Ids
      <4> QED BY <1>5, <3>1, <4>1 DEF Settled
    <3> QED BY <3>3, <3>4, <3>5
  <2>14. ASSUME NEW j \in 1 .. n + 1, NEW k \in 1 .. n + 1,
                IsStart(childs'[j].name, childs'[k].name)
         PROVE  j = k
    <3>1. CASE j \in 1 .. n /\ k \in 1 .. n
      BY <1>2, <2>5, <2>6, <2>14, <3>1 DEF TreesInv
    <3>2. CASE j \in 1 .. n /\ k = n + 1
      <4>1. IsStart(childs[j].name, name) /\ j \in DOMAIN childs
        BY <1>2, <2>2, <2>4, <2>5, <2>6, <2>14, <3>2, TreeDomain
      <4> QED BY <1>5, <4>1 DEF HasTree
    <3>3. CASE j = n + 1 /\ k \in 1 .. n
      BY <2>2, <2>4, <2>5, <2>13, <2>14, <3>3
    <3> QED BY <2>4, <3>1, <3>2, <3>3
  <2>15. TreesInv'
    BY <2>4, <2>6, <2>12, <2>14 DEF TreesInv
  <2>16. PassInv'
    <3>1. \A k \in 0 .. (cursor + 1) - 1 : Settled(k)'
      BY <1>2, <2>9, <2>11
    <3>2. cursor + 1 \in Nat /\ cursor + 1 <= device_total /\ device_total' = device_total
      BY <1>1, <1>2, <2>10
    <3> QED BY <1>1, <3>1, <3>2 DEF PassInv
  <2>17. ListedInv'
    BY <1>1, <1>2, <2>7 DEF ListedInv
  <2> QED BY <1>3, <2>15, <2>16, <2>17 DEF BootInv
<1>6. Settled(cursor) \/ (Shown(cursor) /\ ~HasTree(name) /\ Mountable(name))
  BY DEF Settled
<1> QED BY <1>1, <1>4, <1>5, <1>6 DEF Settled

LEMMA QuietBoot ==
  ASSUME BootInv, UNCHANGED <<deviceVars, mbr, childs, reached>>, listing' \subseteq listing,
         cursor' \in Nat, pc' = "mount" => cursor' = 0,
         pc' \in {"show", "shown"} =>
           \/ pc \in {"show", "shown"}
           \/ pc = "mount" /\ cursor = device_total
  PROVE  BootInv'
<1>1. /\ FoundInv' /\ TreesInv' /\ ReachesOwn'
      /\ Ids' = Ids /\ device_total' = device_total /\ \A k : Settled(k)' <=> Settled(k)
  <2>1. /\ UNCHANGED <<devices, device_total, handles>>
        /\ childs' = childs /\ mbr' = mbr /\ reached' = reached
    BY DEF deviceVars, table
  <2>2. FoundInv' /\ ReachesOwn' /\ Ids' = Ids /\ device_total' = device_total
    BY <2>1 DEF BootInv, FoundInv, HandleInv, Ids, ReachesOwn
  <2>3. \A k : Settled(k)' <=> Settled(k)
    BY <2>1 DEF Settled, Shown, Mountable, HasTree
  <2>4. TreesInv'
    BY <2>1, <2>2, <2>3 DEF BootInv, TreesInv, Trees
  <2> QED BY <2>2, <2>3, <2>4
<1>2. ListedInv'
  BY ListedStays DEF BootInv
<1>3. device_total \in Nat
  BY DEF BootInv, FoundInv, HandleInv, IsTable
<1>4. pc = "mount" /\ cursor = device_total => \A k \in Ids : Settled(k)
  BY <1>3 DEF BootInv, PassInv, Ids
<1>5. pc \in {"show", "shown"} => \A k \in Ids : Settled(k)
  BY DEF BootInv, PassInv
<1>6. pc' = "mount" => cursor' <= device_total' /\ \A k \in 0 .. cursor' - 1 : Settled(k)'
  BY <1>1, <1>3
<1> QED BY <1>1, <1>2, <1>4, <1>5, <1>6 DEF BootInv, PassInv

LEMMA DriverBoot ==
  ASSUME BootInv, NEW base \in Kinds, AddDriver(base),
         UNCHANGED <<mbr, childs, listing, reached>>,
         cursor' \in Nat, pc' = "mount" => cursor' = 0, pc' \in {"task", "bus", "mount"}
  PROVE  BootInv'
<1>1. FoundInv' /\ Extends(devices', device_total', TRUE)
  BY AddFound DEF BootInv
<1>2. TreesInv'
  BY <1>1, AddTrees DEF BootInv
<1>3. ListedInv' /\ ReachesOwn'
  BY ListedStays DEF BootInv, ReachesOwn
<1>4. device_total' \in Nat
  BY <1>1 DEF Extends
<1>5. pc' = "mount" => cursor' <= device_total' /\ \A k \in 0 .. cursor' - 1 : Settled(k)'
  BY <1>4
<1> QED BY <1>1, <1>2, <1>3, <1>5 DEF BootInv, PassInv

LEMMA TempBoot ==
  ASSUME BootInv, NEW base \in Kinds, AddTemp(base), UNCHANGED <<mbr, childs, cursor>>,
         ListedInv', ReachesOwn', pc' # "mount",
         pc' \in {"show", "shown"} => pc \in {"show", "shown"}
  PROVE  BootInv'
<1>1. /\ FoundInv' /\ TreesInv'
      /\ (\A k \in Ids : Settled(k)) => \A k \in Ids' : Settled(k)'
  BY TempKeeps DEF BootInv
<1>2. cursor' \in Nat
  BY DEF BootInv, PassInv
<1>3. pc' \in {"show", "shown"} => \A k \in Ids' : Settled(k)'
  BY <1>1 DEF BootInv, PassInv
<1> QED BY <1>1, <1>2, <1>3 DEF BootInv, PassInv

LEMMA RootBoot ==
  ASSUME BootInv, NEW next \in {"walk", "shown"}, RootList(next),
         UNCHANGED <<mbr, childs, reached, cursor>>, next = "shown" => pc = "show"
  PROVE  BootInv'
<1>1. /\ AddTemp("root_list") /\ pc' \in {"wild", "walk", "shown"}
      /\ pc' = "shown" => next = "shown"
      /\ listing' = {[name |-> devices[k].name, can_list |-> HasTree(devices[k].name)] :
                       k \in {m \in Ids : Shown(m)}}
  BY DEF RootList
<1>2. ASSUME NEW e \in listing'
      PROVE  /\ e.name \in Kinds \X Int /\ e.name[2] \in Numbers
             /\ e.can_list => HasTree(e.name)'
  <2>1. PICK k \in Ids : /\ Shown(k)
                         /\ e = [name |-> devices[k].name, can_list |-> HasTree(devices[k].name)]
    BY <1>1
  <2>2. devices[k].public /\ e.name = devices[k].name /\ (e.can_list => HasTree(e.name))
    BY <2>1 DEF Shown
  <2>3. e.name \in Kinds \X Int /\ e.name[2] \in Numbers
    BY <2>2, PublicName DEF BootInv
  <2> QED BY <2>2, <2>3 DEF HasTree
<1>3. ListedInv'
  BY <1>2 DEF ListedInv
<1>4. ReachesOwn' /\ "root_list" \in Kinds
  BY DEF BootInv, ReachesOwn, Kinds
<1> QED BY <1>1, <1>3, <1>4, TempBoot

LEMMA WalkBoot ==
  ASSUME BootInv, NEW e \in listing, e.can_list, NEW next \in {"bus", "shown"},
         TreeList(e.name, next), listing' = listing \ {e},
         UNCHANGED <<mbr, childs, cursor>>, next = "shown" => pc = "shown"
  PROVE  BootInv'
<1>1. /\ AddTemp("list") /\ pc' \in {"wild", "bus", "shown"} /\ (pc' = "shown" => next = "shown")
      /\ Matches(e.name) # {}
      /\ LET j == CHOOSE k \in Matches(e.name) : \A m \in Matches(e.name) : k <= m
         IN  reached' = [entry |-> e.name, child |-> childs[j].name]
  BY DEF TreeList
<1>2. Matches(e.name) \in SUBSET Nat
  BY TreeDomain DEF Matches, Trees, BootInv
<1>3. \E k \in Matches(e.name) : \A m \in Matches(e.name) : k <= m
  BY <1>1, <1>2, Least
<1>4. PICK j \in Matches(e.name) : reached' = [entry |-> e.name, child |-> childs[j].name]
  BY <1>1, <1>3
<1>5. e.name \in Kinds \X Int /\ e.name[2] \in Numbers /\ HasTree(e.name)
  BY DEF BootInv, ListedInv
<1>6. childs[j].name = e.name
  BY <1>5, OwnTree DEF BootInv
<1>7. ReachesOwn' /\ "list" \in Kinds
  BY <1>4, <1>6 DEF ReachesOwn, Kinds
<1>8. ListedInv'
  BY ListedStays DEF BootInv
<1> QED BY <1>1, <1>7, <1>8, TempBoot

LEMMA NextBoot == BootInv /\ [Next]_vars => BootInv'
<1> SUFFICES ASSUME BootInv, [Next]_vars PROVE BootInv'
  OBVIOUS
<1>0. cursor \in Nat /\ {"term", "pci", "disk", "pci_open"} \subseteq Kinds
  BY DEF BootInv, PassInv, Kinds
<1>1. CASE UNCHANGED vars
  <2>1. UNCHANGED <<deviceVars, mbr, childs, reached, listing, pc, cursor>>
    BY <1>1 DEF vars, treeVars
  <2>2. UNCHANGED <<devices, device_total, handles>>
    BY <2>1 DEF deviceVars, table
  <2>3. FoundInv' /\ ReachesOwn' /\ Ids' = Ids /\ \A k : Settled(k)' <=> Settled(k)
    BY <2>1, <2>2
       DEF BootInv, FoundInv, HandleInv, Ids, ReachesOwn, Settled, Shown, Mountable, HasTree
  <2>4. TreesInv'
    BY <2>1, <2>2, <2>3 DEF BootInv, TreesInv, Trees
  <2>5. PassInv' /\ ListedInv'
    BY <2>1, <2>2, <2>3 DEF BootInv, PassInv, ListedInv, HasTree
  <2> QED BY <2>3, <2>4, <2>5 DEF BootInv
<1>2. CASE LogInit
  BY <1>0, <1>2, QuietBoot DEF LogInit
<1>3. CASE MountNext
  BY <1>3, MountBoot
<1>4. CASE MountEnd
  BY <1>4, QuietBoot DEF MountEnd
<1>5. CASE TextTask \/ PciTask
  BY <1>0, <1>5, DriverBoot DEF TextTask, PciTask, EndTask
<1>6. CASE SerialPort \/ AhciDrive
  BY <1>0, <1>6, DriverBoot DEF SerialPort, AhciDrive, treeVars
<1>7. CASE SerialTask \/ AhciEnd
  BY <1>7, QuietBoot DEF SerialTask, AhciEnd, EndTask
<1>8. CASE AhciBusEnd
  BY <1>0, <1>8, QuietBoot DEF AhciBusEnd
<1>9. CASE AhciOpen
  <2>1. AddTemp("pci_open") /\ pc = "bus" /\ UNCHANGED treeVars
    BY <1>9 DEF AhciOpen
  <2>2. ListedInv' /\ ReachesOwn'
    BY <2>1, ListedStays DEF BootInv, ReachesOwn, treeVars
  <2> QED BY <1>0, <2>1, <2>2, TempBoot DEF treeVars
<1>10. CASE AhciRoot \/ ShowRoot
  BY <1>10, RootBoot DEF AhciRoot, ShowRoot
<1>11. CASE AhciBus
  BY <1>11, WalkBoot DEF AhciBus
<1>12. CASE ShowEntry
  <2>1. PICK e \in listing :
          /\ e.can_list
          /\ \/ TreeList(e.name, "shown")
             \/ Matches(e.name) = {} /\ UNCHANGED <<deviceVars, reached, pc>>
          /\ listing' = listing \ {e}
    BY <1>12 DEF ShowEntry
  <2>2. pc = "shown" /\ UNCHANGED <<mbr, childs, cursor, task>>
    BY <1>12 DEF ShowEntry
  <2>3. CASE TreeList(e.name, "shown")
    BY <2>1, <2>2, <2>3, WalkBoot
  <2>4. CASE UNCHANGED <<deviceVars, reached, pc>>
    BY <1>0, <2>1, <2>2, <2>4, QuietBoot
  <2> QED BY <2>1, <2>3, <2>4
<1> QED BY <1>1, <1>2, <1>3, <1>4, <1>5, <1>6, <1>7, <1>8, <1>9, <1>10, <1>11, <1>12
        DEF Next, Tasks

LEMMA BootAlways == Spec => []BootInv
BY InitBoot, NextBoot, PTL DEF Spec

(* Every driver's device is found by its name, and only that device, for   *)
(* any number of terminals, functions and disks and whatever unwritten     *)
(* slots read as: numbers grow with the slots.                             *)
THEOREM Finds == Spec => []FoundByName
<1>1. BootInv => FoundByName
  BY FoundInvFinds DEF BootInv
<1> QED BY <1>1, BootAlways, PTL

(* A mounted tree is of the device whose name it has, and no device is     *)
(* mounted twice, however many passes look at it.                          *)
THEOREM OneTree == Spec => []OneTreePerDevice
<1>1. BootInv => OneTreePerDevice
  BY TreesInvOne DEF BootInv
<1> QED BY <1>1, BootAlways, PTL

(* Every device that can be mounted is mounted after the boot, unless the  *)
(* name of a mounted device below it starts its own.                       *)
THEOREM AllMounted == Spec => []MountedUnlessShadowed
<1>1. BootInv => MountedUnlessShadowed
  BY PassInvMounted DEF BootInv
<1> QED BY <1>1, BootAlways, PTL

(* A list below the root is that of the device it was asked for: of the    *)
(* trees that a listable name starts there is only its own.                *)
THEOREM OwnLists == Spec => []ReachesOwn
<1>1. BootInv => ReachesOwn
  BY DEF BootInv
<1> QED BY <1>1, BootAlways, PTL
-----------------------------------------------------------------------------
(* The digits of addresses. *)

AddressPower(k) == AddressRadix ^ k

LEMMA AddressPowers ==
  /\ AddressRadix \in Nat \ {0} /\ Digits \in Nat
  /\ \A d \in 0 .. Digits : AddressPower(d) \in Nat \ {0}
  /\ AddressPower(0) = 1
  /\ \A d \in 0 .. Digits - 1 : AddressPower(d + 1) = AddressPower(d) * AddressRadix
<1>1. /\ AddressRadix \in Nat \ {0} /\ Digits \in Nat
      /\ AddressPower(0) = 1
      /\ \A d \in 0 .. Digits - 1 : AddressPower(d + 1) = AddressPower(d) * AddressRadix
  BY PciTreeAssumption, DigitAssumption DEF AddressPower
<1> DEFINE Bad == {d \in 0 .. Digits : AddressPower(d) \notin Nat \ {0}}
<1>2. ASSUME Bad # {} PROVE FALSE
  <2>1. Bad \in SUBSET Nat
    BY <1>1
  <2>2. PICK m \in Bad : \A k \in Bad : m <= k
    <3> HIDE DEF Bad
    <3> QED BY <1>2, <2>1, Least
  <2>3. m # 0
    BY <1>1
  <2>4. m \in 0 .. Digits /\ m - 1 \in 0 .. Digits - 1 /\ (m - 1) + 1 = m
    BY <1>1, <2>3
  <2>5. AddressPower(m - 1) \in Nat \ {0}
    BY <1>1, <2>2, <2>4
  <2>6. AddressPower(m) = AddressPower(m - 1) * AddressRadix
    BY <1>1, <2>4
  <2>7. ASSUME NEW a \in Nat \ {0}, NEW b \in Nat \ {0} PROVE a * b \in Nat \ {0}
    BY DividedTwice
  <2> QED BY <1>1, <2>2, <2>5, <2>6, <2>7
<1> QED BY <1>1, <1>2

(* The four digits that pci_list writes for an address (lib/digits.c) are  *)
(* read back as that address by pci_open, for every machine, number of     *)
(* digits and radix.                                                       *)
THEOREM AddressOfName ==
  ASSUME NEW a \in Addrs
  PROVE  Address(Name(a)) = a
<1> DEFINE name == Name(a)
           Part(d) == a \div AddressPower(Digits - d)
           Next1(v) == [d \in 0 .. Digits |->
                          IF d = 0 THEN 0 ELSE v[d - 1] * AddressRadix + name[d]]
           value == CHOOSE v : v = Next1(v)
<1>1. Address(name) = value[Digits]
  BY DEF Address
<1>2. a \in Nat /\ Digits \in Nat /\ AddressRadix \in Nat \ {0} /\ a < AddressPower(Digits)
  BY PciTreeAssumption DEF Addrs, AddressPower
<1>3. ASSUME NEW d \in 0 .. Digits
      PROVE  /\ Part(d) \in Nat
             /\ d = 0 => Part(d) = 0
             /\ d = Digits => Part(d) = a
             /\ d # 0 => Part(d) = Part(d - 1) * AddressRadix + name[d]
  <2> DEFINE p == AddressPower(Digits - d)
  <2>1. Digits - d \in 0 .. Digits
    BY <1>2
  <2>2. p \in Nat \ {0}
    BY <2>1, AddressPowers
  <2>3. CASE d = 0
    <3>1. Part(d) = a \div AddressPower(Digits)
      BY <1>2, <2>3
    <3> DEFINE q == AddressPower(Digits)
    <3>2. q \in Nat \ {0} /\ a < q
      BY <1>2, AddressPowers
    <3> HIDE DEF q
    <3>3. a = q * 0 + a
      BY <1>2, <3>2
    <3>4. a \div q = 0
      BY <1>2, <3>2, <3>3, Divided
    <3>5. Part(d) = 0
      BY <3>1, <3>4 DEF q
    <3>6. Digits = 0 => a = 0
      BY <1>2, AddressPowers
    <3> HIDE DEF Part, p
    <3> QED BY <2>3, <3>5, <3>6
  <2>4. CASE d # 0
    <3> DEFINE e == AddressPower(Digits - (d - 1))
    <3>1. /\ Digits - d \in 0 .. Digits - 1
          /\ (Digits - d) + 1 = Digits - (d - 1)
      BY <1>2, <2>4
    <3>2. e = p * AddressRadix
      BY <3>1, AddressPowers
    <3>3. name[d] = (a \div p) % AddressRadix
      BY <1>2, <2>4 DEF Name, AddressPower
    <3>4. Part(d) = a \div p /\ Part(d - 1) = a \div e
      OBVIOUS
    <3>5. d = Digits => p = 1
      BY <1>2, AddressPowers
    <3> HIDE DEF p, e, Part, name
    <3> DEFINE n == a \div p
    <3>6. n \in Nat /\ (d = Digits => n = a)
      <4>1. n \in Nat
        BY <1>2, <2>2, QuotientOf
      <4>2. a = 1 * a + 0
        BY <1>2
      <4>3. a \div 1 = a
        BY <1>2, <4>2, Divided
      <4> QED BY <3>5, <4>1, <4>3
    <3>7. a \div e = n \div AddressRadix
      BY <1>2, <2>2, <3>2, DividedTwice
    <3> HIDE DEF n
    <3>8. /\ n = AddressRadix * (n \div AddressRadix) + (n % AddressRadix)
          /\ n \div AddressRadix \in Nat
      BY <1>2, <3>6, QuotientOf
    <3>9. n = (n \div AddressRadix) * AddressRadix + (n % AddressRadix)
      BY <1>2, <3>8
    <3> QED BY <2>4, <3>3, <3>4, <3>6, <3>7, <3>9 DEF n
  <2> QED BY <2>3, <2>4
<1>4. [d \in 0 .. Digits |-> Part(d)] = Next1([d \in 0 .. Digits |-> Part(d)])
  <2> DEFINE w == [d \in 0 .. Digits |-> Part(d)]
  <2> HIDE DEF Part
  <2>1. \A d \in 0 .. Digits : d # 0 => w[d - 1] = Part(d - 1)
    BY <1>2
  <2> HIDE DEF name
  <2>2. \A d \in 0 .. Digits : Part(d) = IF d = 0 THEN 0 ELSE w[d - 1] * AddressRadix + name[d]
    BY <1>3, <2>1
  <2> QED BY <2>2
<1>5. value = Next1(value)
  <2> HIDE DEF Part, name
  <2> HIDE DEF Next1
  <2> QED BY <1>4
<1> HIDE DEF value
<1>6. \A d \in 0 .. Digits :
         value[d] = IF d = 0 THEN 0 ELSE value[d - 1] * AddressRadix + name[d]
  <2> HIDE DEF name
  <2>1. \A v : \A d \in 0 .. Digits :
           Next1(v)[d] = IF d = 0 THEN 0 ELSE v[d - 1] * AddressRadix + name[d]
    OBVIOUS
  <2> HIDE DEF Next1
  <2> QED BY <1>5, <2>1
<1> HIDE DEF Part, name
<1> DEFINE Bad == {d \in 0 .. Digits : value[d] # Part(d)}
<1>7. ASSUME Bad # {} PROVE FALSE
  <2>1. Bad \in SUBSET Nat
    BY <1>2
  <2>2. PICK m \in Bad : \A k \in Bad : m <= k
    <3> HIDE DEF Bad
    <3> QED BY <1>7, <2>1, Least
  <2>3. m # 0
    BY <1>2, <1>3, <1>6
  <2>4. m - 1 \in 0 .. Digits /\ m - 1 < m /\ m \in 0 .. Digits
    BY <1>2, <2>3
  <2>5. value[m - 1] = Part(m - 1)
    BY <2>2, <2>4
  <2> QED BY <1>3, <1>6, <2>2, <2>3, <2>4, <2>5
<1>8. value[Digits] = Part(Digits)
  BY <1>2, <1>7
<1> QED BY <1>1, <1>2, <1>3, <1>8 DEF name

-----------------------------------------------------------------------------
(* The scan. What is found below address n is what can be reached there.   *)

FoundBelow(n) ==
  /\ found \in Seq(Addrs)
  /\ \A k, m \in DOMAIN found : k < m => found[k] < found[m]
  /\ \A a \in Addrs : a \in ToSet(found) <=> a < n /\ Reachable(a)

(* Where pci_test stands in its slot: it has not passed a gap.             *)
Scanning ==
  /\ slot \in Slots /\ i \in 0 .. FuncMax - 1
  /\ addr \in FuncMax * slot .. FuncMax * slot + i
  /\ \A a \in FuncMax * slot .. addr - 1 : a \in machine.present
  /\ addr # FuncMax * slot + i => addr \notin machine.present
  /\ addr # FuncMax * slot => slot \in machine.multi

ScanInv ==
  /\ machine.present \subseteq Addrs
  /\ doing \in {"task", "scan", "idle", "list", "wild"}
  /\ IF doing \in {"task", "scan"} THEN Scanning /\ FoundBelow(addr)
       ELSE FoundBelow(SlotCount * FuncMax)

LEMMA InSlot ==
  ASSUME NEW s \in Nat, NEW f \in 0 .. FuncMax - 1, NEW a, a = FuncMax * s + f
  PROVE  Reachable(a) <=> /\ \A b \in FuncMax * s .. a : b \in machine.present
                          /\ a = FuncMax * s \/ s \in machine.multi
<1>1. FuncMax \in Nat \ {0} /\ f \in Nat /\ f < FuncMax
  BY PciTreeAssumption
<1>2. a \in Nat /\ a \div FuncMax = s /\ a % FuncMax = f
  BY <1>1, Divided
<1> DEFINE first == FuncMax * s
<1>3. first \in Nat
  BY <1>1, ProductType
<1>4. a - (a % FuncMax) = first
  <2>1. a = first + f
    OBVIOUS
  <2> HIDE DEF first
  <2> QED BY <1>1, <1>2, <1>3, <2>1
<1>5. Reachable(a) <=> /\ first .. a \subseteq machine.present
                       /\ a = first \/ s \in machine.multi
  BY <1>2, <1>4 DEF Reachable
<1> QED BY <1>5

(* The scan has come to address n, with everything below it settled.       *)
LEMMA FoundOn ==
  ASSUME NEW m, NEW n, FoundBelow(m), m \in Nat, n \in Nat, m <= n,
         UNCHANGED <<found, machine>>,
         \A a \in Addrs : m <= a /\ a < n => ~Reachable(a)
  PROVE  FoundBelow(n)'
<1>1. \A a : Reachable(a)' <=> Reachable(a)
  BY DEF Reachable
<1>2. \A a \in Addrs : a \in Nat
  BY DEF Addrs
<1>3. \A a \in Addrs : a < n /\ Reachable(a) <=> a < m /\ Reachable(a)
  BY <1>2
<1> QED BY <1>1, <1>3 DEF FoundBelow

LEMMA FoundNext ==
  ASSUME NEW m \in Addrs, NEW n, FoundBelow(m), n \in Nat, m < n, Reachable(m),
         found' = Append(found, m), machine' = machine,
         \A a \in Addrs : m < a /\ a < n => ~Reachable(a)
  PROVE  FoundBelow(n)'
<1>1. found \in Seq(Addrs) /\ m \in Nat
  BY DEF FoundBelow, Addrs
<1> DEFINE l == Len(found)
<1>2. l \in Nat /\ DOMAIN found = 1 .. l
  BY <1>1, LenProperties
<1>3. found' \in Seq(Addrs)
  BY <1>1, AppendProperties
<1>4. Len(found') = l + 1
  BY <1>1, AppendProperties
<1>5. found'[l + 1] = m /\ \A k \in 1 .. l : found'[k] = found[k]
  BY <1>1, AppendProperties
<1>6. DOMAIN found' = 1 .. l + 1
  BY <1>3, <1>4, LenProperties
<1> HIDE DEF l
<1>7. \A k \in 1 .. l : found[k] \in Addrs /\ found[k] < m
  <2>1. \A k \in 1 .. l : found[k] \in Addrs
    BY <1>1, <1>2, ElementOfSeq DEF l
  <2>2. ToSet(found) = {found[k] : k \in 1 .. l}
    BY <1>2 DEF ToSet
  <2> QED BY <2>1, <2>2 DEF FoundBelow
<1>8. ASSUME NEW j \in DOMAIN found', NEW k \in DOMAIN found', j < k
      PROVE  found'[j] < found'[k]
  <2>1. j \in 1 .. l
    BY <1>2, <1>6, <1>8
  <2>2. CASE k = l + 1
    BY <1>5, <1>7, <2>1, <2>2
  <2>3. CASE k # l + 1
    <3>1. k \in 1 .. l
      BY <1>2, <1>6, <2>3
    <3>2. found[j] < found[k]
      BY <1>2, <1>8, <2>1, <3>1 DEF FoundBelow
    <3> QED BY <1>5, <2>1, <3>1, <3>2
  <2> QED BY <2>2, <2>3
<1>9. ToSet(found') = ToSet(found) \cup {m}
  <2>1. ToSet(found') = {found'[k] : k \in 1 .. l + 1}
    BY <1>6 DEF ToSet
  <2>2. ToSet(found) = {found[k] : k \in 1 .. l}
    BY <1>2 DEF ToSet
  <2>3. \A k \in 1 .. l + 1 : k \in 1 .. l \/ k = l + 1
    BY <1>2
  <2>4. l + 1 \in 1 .. l + 1 /\ \A k \in 1 .. l : k \in 1 .. l + 1
    BY <1>2
  <2> QED BY <1>5, <2>1, <2>2, <2>3, <2>4
<1>10. \A a : Reachable(a)' <=> Reachable(a)
  BY DEF Reachable
<1>11. \A a \in Addrs : a \in Nat
  BY DEF Addrs
<1>12. \A a \in Addrs : a \in ToSet(found') <=> a < n /\ Reachable(a)
  <2>1. ASSUME NEW a \in Addrs PROVE a \in ToSet(found') <=> a < n /\ Reachable(a)
    <3>1. a \in Nat
      BY <1>11
    <3>2. a \in ToSet(found) <=> a < m /\ Reachable(a)
      BY DEF FoundBelow
    <3> QED BY <1>1, <1>9, <3>1, <3>2
  <2> QED BY <2>1
<1> QED BY <1>3, <1>8, <1>10, <1>12 DEF FoundBelow

LEMMA ScanStart == PciInit => ScanInv
<1> SUFFICES ASSUME PciInit PROVE ScanInv
  OBVIOUS
<1>1. /\ machine \in Hardware /\ found = <<>> /\ slot = 0 /\ i = 0 /\ addr = 0
      /\ doing = "task"
  BY DEF PciInit
<1>2. machine.present \subseteq Addrs
  BY <1>1, PciTreeAssumption
<1>3. FuncMax \in Nat \ {0} /\ SlotCount \in Nat \ {0} /\ FuncMax * 0 = 0
  BY PciTreeAssumption
<1>4. Scanning
  BY <1>1, <1>3 DEF Scanning, Slots
<1>5. FoundBelow(addr)
  <2>1. found \in Seq(Addrs) /\ DOMAIN found = {} /\ ToSet(found) = {}
    BY <1>1 DEF ToSet
  <2>2. \A a \in Addrs : ~(a < addr)
    BY <1>1 DEF Addrs
  <2> QED BY <2>1, <2>2 DEF FoundBelow
<1> QED BY <1>1, <1>2, <1>4, <1>5 DEF ScanInv

(* Numbers of a slot's functions, for the steps of the scan.               *)
LEMMA ScanNumbers ==
  ASSUME Scanning, machine.present \subseteq Addrs
  PROVE  \E first, end \in Nat :
           /\ first = FuncMax * slot /\ end = first + FuncMax
           /\ FuncMax \in Nat \ {0} /\ SlotCount \in Nat
           /\ slot \in Nat /\ slot < SlotCount
           /\ FuncMax * (slot + 1) = end /\ (slot + 1) * FuncMax = end
           /\ slot + 1 \notin Slots => end = SlotCount * FuncMax
           /\ addr \in Nat /\ first <= addr /\ addr <= first + i /\ i \in Nat
           /\ addr \in Addrs /\ addr < end
<1> DEFINE first == FuncMax * slot
<1>1. FuncMax \in Nat \ {0} /\ SlotCount \in Nat \ {0} /\ slot \in 0 .. SlotCount - 1
  BY PciTreeAssumption DEF Scanning, Slots
<1>2. first \in Nat
  BY <1>1, ProductType
<1>3. (slot + 1) * FuncMax = FuncMax * slot + FuncMax /\ FuncMax * (slot + 1) = FuncMax * slot + FuncMax
  BY <1>1
<1>4. slot + 1 \notin Slots => slot + 1 = SlotCount
  BY <1>1 DEF Slots
<1>5. addr \in first .. first + i /\ i \in 0 .. FuncMax - 1
  BY DEF Scanning
<1>6. FuncMax * (slot + 1) <= FuncMax * SlotCount /\ FuncMax * SlotCount = SlotCount * FuncMax
  BY <1>1, Grows
<1>7. SlotCount * FuncMax \in Nat
  BY <1>1, ProductType
<1>8. first = FuncMax * slot /\ FuncMax * (slot + 1) = first + FuncMax
      /\ (slot + 1) * FuncMax = first + FuncMax
  BY <1>3
<1>9. slot + 1 \notin Slots => first + FuncMax = SlotCount * FuncMax
  <2>1. slot + 1 = SlotCount => (slot + 1) * FuncMax = SlotCount * FuncMax
    OBVIOUS
  <2> QED BY <1>4, <1>8, <2>1
<1> DEFINE top == SlotCount * FuncMax
<1>10. first + FuncMax <= top /\ top \in Nat
  BY <1>6, <1>7, <1>8
<1>11. addr \in 0 .. top - 1 => addr \in Addrs
  BY DEF Addrs
<1>12. first = FuncMax * slot
  OBVIOUS
<1> HIDE DEF first, top
<1>13. addr \in Nat /\ first <= addr /\ addr <= first + i /\ i \in Nat /\ addr < first + FuncMax
  BY <1>1, <1>2, <1>5
<1>14. addr \in Addrs
  BY <1>1, <1>2, <1>10, <1>11, <1>13
<1>15. first + FuncMax \in Nat
  BY <1>1, <1>2
<1> QED BY <1>1, <1>2, <1>8, <1>9, <1>12, <1>13, <1>14, <1>15

LEMMA SlotScanned ==
  ASSUME ScanInv, doing = "scan", NextSlot, machine' = machine,
         NEW end, end = FuncMax * slot + FuncMax, FoundBelow(end)'
  PROVE  ScanInv'
<1>1. Scanning /\ machine.present \subseteq Addrs
  BY DEF ScanInv
<1>2. /\ end \in Nat /\ FuncMax \in Nat \ {0} /\ slot \in Nat
      /\ FuncMax * (slot + 1) = end /\ (slot + 1) * FuncMax = end
      /\ slot + 1 \notin Slots => end = SlotCount * FuncMax
  BY <1>1, ScanNumbers
<1>3. /\ slot' = slot + 1 /\ i' = 0 /\ addr' = end
      /\ doing' = IF slot + 1 \in Slots THEN "scan" ELSE "idle"
  BY <1>2 DEF NextSlot
<1>4. CASE slot + 1 \in Slots
  <2>1. slot' \in Slots /\ doing' = "scan" /\ FoundBelow(addr)'
    BY <1>3, <1>4
  <2>2. FuncMax * slot' = end
    BY <1>2, <1>3
  <2>3. Scanning'
    BY <1>2, <1>3, <2>1, <2>2 DEF Scanning
  <2> QED BY <1>1, <2>1, <2>3 DEF ScanInv
<1>5. CASE slot + 1 \notin Slots
  <2>1. doing' = "idle" /\ end = SlotCount * FuncMax
    BY <1>2, <1>3, <1>5
  <2>2. FoundBelow(SlotCount * FuncMax)'
    BY <2>1
  <2> QED BY <1>1, <2>1, <2>2 DEF ScanInv
<1> QED BY <1>4, <1>5

LEMMA AbsentScan == ScanInv /\ ScanAbsent => ScanInv'
<1> SUFFICES ASSUME ScanInv, ScanAbsent PROVE ScanInv'
  OBVIOUS
<1>1. /\ doing = "scan" /\ addr \notin machine.present /\ NextFunction(addr)
      /\ machine' = machine /\ found' = found
  BY DEF ScanAbsent
<1>2. Scanning /\ FoundBelow(addr) /\ machine.present \subseteq Addrs
  BY <1>1 DEF ScanInv
<1>3. PICK first, end \in Nat :
        /\ first = FuncMax * slot /\ end = first + FuncMax
        /\ FuncMax \in Nat \ {0} /\ slot \in Nat
        /\ addr \in Nat /\ first <= addr /\ addr < end /\ i \in Nat /\ addr <= first + i
  BY <1>2, ScanNumbers
<1>4. CASE i + 1 = FuncMax
  <2>1. ASSUME NEW a \in Addrs, addr <= a, a < end
        PROVE  ~Reachable(a)
    <3>1. a \in Nat
      BY DEF Addrs
    <3>2. a - first \in 0 .. FuncMax - 1 /\ a = first + (a - first)
      BY <1>3, <2>1, <3>1
    <3>3. addr \in first .. a
      BY <1>3, <2>1, <3>1
    <3>4. Reachable(a) => \A b \in first .. a : b \in machine.present
      BY <1>3, <3>2, InSlot
    <3> QED BY <1>1, <3>3, <3>4
  <2>2. FoundBelow(end)'
    <3>1. addr \in Nat /\ end \in Nat /\ addr <= end
      BY <1>3
    <3>2. \A a \in Addrs : addr <= a /\ a < end => ~Reachable(a)
      BY <2>1
    <3>3. UNCHANGED <<found, machine>>
      BY <1>1
    <3> QED BY <1>2, <3>1, <3>2, <3>3, FoundOn
  <2>3. NextSlot
    BY <1>1, <1>4 DEF NextFunction
  <2> QED BY <1>1, <1>3, <2>2, <2>3, SlotScanned
<1>5. CASE i + 1 # FuncMax
  <2>1. i' = i + 1 /\ addr' = addr /\ slot' = slot /\ doing' = doing
    BY <1>1, <1>5 DEF NextFunction
  <2>2. i + 1 \in 0 .. FuncMax - 1
    BY <1>2, <1>3, <1>5 DEF Scanning
  <2>3. addr \in first .. first + (i + 1)
    BY <1>3
  <2>4. Scanning'
    BY <1>1, <1>2, <1>3, <2>1, <2>2, <2>3 DEF Scanning
  <2>5. FoundBelow(addr)'
    <3>1. PICK n \in Nat : n = addr
      BY <1>3
    <3>2. \A a \in Addrs : ~(n <= a /\ a < n)
      BY <3>1 DEF Addrs
    <3>3. FoundBelow(n)'
      BY <1>1, <1>2, <3>1, <3>2, FoundOn
    <3> QED BY <2>1, <3>1, <3>3
  <2> QED BY <1>1, <1>2, <2>1, <2>4, <2>5 DEF ScanInv
<1> QED BY <1>4, <1>5

LEMMA PresentScan == ScanInv /\ ScanPresent => ScanInv'
<1> SUFFICES ASSUME ScanInv, ScanPresent PROVE ScanInv'
  OBVIOUS
<1>1. /\ doing = "scan" /\ addr \in machine.present /\ machine' = machine
      /\ found' = Append(found, addr)
      /\ IF i = 0 /\ slot \notin machine.multi THEN NextSlot ELSE NextFunction(addr + 1)
  BY DEF ScanPresent
<1>2. Scanning /\ FoundBelow(addr) /\ machine.present \subseteq Addrs
  BY <1>1 DEF ScanInv
<1>3. PICK first, end \in Nat :
        /\ first = FuncMax * slot /\ end = first + FuncMax
        /\ FuncMax \in Nat \ {0} /\ slot \in Nat
        /\ addr \in Nat /\ first <= addr /\ addr < end /\ i \in Nat /\ addr <= first + i
        /\ addr \in Addrs
  BY <1>2, ScanNumbers
<1>4. addr = first + i
  BY <1>1, <1>2, <1>3 DEF Scanning
<1>5. Reachable(addr)
  <2>1. addr - first \in 0 .. FuncMax - 1 /\ addr = first + (addr - first)
    BY <1>3
  <2>2. ASSUME NEW b \in first .. addr PROVE b \in machine.present
    <3>1. b = addr \/ b \in first .. addr - 1
      BY <1>3
    <3> QED BY <1>1, <1>2, <1>3, <3>1 DEF Scanning
  <2>3. addr = first \/ slot \in machine.multi
    BY <1>2, <1>3 DEF Scanning
  <2> QED BY <1>3, <2>1, <2>2, <2>3, InSlot
<1>6. CASE i = 0 /\ slot \notin machine.multi
  <2>1. ASSUME NEW a \in Addrs, addr < a, a < end
        PROVE  ~Reachable(a)
    <3>1. a \in Nat
      BY DEF Addrs
    <3>2. a - first \in 0 .. FuncMax - 1 /\ a = first + (a - first) /\ a # first
      BY <1>3, <2>1, <3>1
    <3>3. Reachable(a) => a = first \/ slot \in machine.multi
      BY <1>3, <3>2, InSlot
    <3> QED BY <1>6, <3>2, <3>3
  <2>2. FoundBelow(end)'
    BY <1>1, <1>2, <1>3, <1>5, <2>1, FoundNext
  <2> QED BY <1>1, <1>3, <1>6, <2>2, SlotScanned
<1>7. CASE ~(i = 0 /\ slot \notin machine.multi)
  <2>1. slot \in machine.multi
    BY <1>2, <1>3, <1>4, <1>7 DEF Scanning
  <2>2. PICK next \in Nat : next = addr + 1
    BY <1>3
  <2>3. FoundBelow(next)'
    <3>1. addr < next
      BY <1>3, <2>2
    <3>2. \A a \in Addrs : ~(addr < a /\ a < next)
      BY <1>3, <2>2 DEF Addrs
    <3> QED BY <1>1, <1>2, <1>3, <1>5, <3>1, <3>2, FoundNext
  <2>4. CASE i + 1 = FuncMax
    <3>1. NextSlot
      BY <1>1, <1>7, <2>4 DEF NextFunction
    <3>2. next = end
      BY <1>3, <1>4, <2>2, <2>4
    <3>3. FoundBelow(end)'
      BY <2>3, <3>2
    <3> QED BY <1>1, <1>3, <3>1, <3>3, SlotScanned
  <2>5. CASE i + 1 # FuncMax
    <3>1. i' = i + 1 /\ addr' = addr + 1 /\ slot' = slot /\ doing' = doing
      BY <1>1, <1>7, <2>5 DEF NextFunction
    <3>2. i + 1 \in 0 .. FuncMax - 1
      BY <1>2, <1>3, <2>5 DEF Scanning
    <3>3. addr + 1 = first + (i + 1) /\ addr + 1 \in first .. first + (i + 1)
      BY <1>3, <1>4
    <3>4. \A a \in first .. (addr + 1) - 1 : a \in machine.present
      <4>1. \A a \in first .. (addr + 1) - 1 : a = addr \/ a \in first .. addr - 1
        BY <1>3
      <4> QED BY <1>1, <1>2, <1>3, <4>1 DEF Scanning
    <3>5. Scanning'
      BY <1>1, <1>2, <1>3, <2>1, <3>1, <3>2, <3>3, <3>4 DEF Scanning
    <3>6. FoundBelow(addr)'
      BY <2>2, <2>3, <3>1
    <3> QED BY <1>1, <1>2, <3>1, <3>5, <3>6 DEF ScanInv
  <2> QED BY <2>4, <2>5
<1> QED BY <1>6, <1>7

(* Nothing else touches what was found.                                    *)
LEMMA QuietScan ==
  ASSUME ScanInv, UNCHANGED <<machine, found>>,
         \/ UNCHANGED <<slot, i, addr>> /\ doing = "task" /\ doing' = "scan"
         \/ doing \in {"idle", "list", "wild"} /\ doing' \in {"idle", "list", "wild"}
         \/ UNCHANGED <<slot, i, addr, doing>>
  PROVE  ScanInv'
<1>1. \A n : FoundBelow(n)' <=> FoundBelow(n)
  BY DEF FoundBelow, Reachable
<1>2. UNCHANGED <<slot, i, addr>> => (Scanning' <=> Scanning)
  BY DEF Scanning
<1>3. CASE UNCHANGED <<slot, i, addr>> /\ doing = "task" /\ doing' = "scan"
  <2>1. Scanning /\ FoundBelow(addr)
    BY <1>3 DEF ScanInv
  <2> QED BY <1>1, <1>2, <1>3, <2>1 DEF ScanInv
<1>4. CASE doing \in {"idle", "list", "wild"} /\ doing' \in {"idle", "list", "wild"}
  BY <1>1, <1>4 DEF ScanInv
<1>5. CASE UNCHANGED <<slot, i, addr, doing>>
  BY <1>1, <1>2, <1>5 DEF ScanInv
<1> QED BY <1>3, <1>4, <1>5

LEMMA ScanInvFinds == ScanInv => ScanFinds
<1> SUFFICES ASSUME ScanInv, doing \notin {"task", "scan"}
             PROVE  /\ ToSet(found) = {a \in Addrs : Reachable(a)}
                    /\ \A j, k \in DOMAIN found : j < k => found[j] < found[k]
  BY DEF ScanFinds
<1>1. FoundBelow(SlotCount * FuncMax)
  BY DEF ScanInv
<1>2. found \in Seq(Addrs)
  BY <1>1 DEF FoundBelow
<1>3. ToSet(found) \subseteq Addrs
  <2>1. DOMAIN found = 1 .. Len(found)
    BY <1>2, LenProperties
  <2> QED BY <1>2, <2>1, ElementOfSeq DEF ToSet
<1>4. \A a \in Addrs : a < SlotCount * FuncMax
  <2> DEFINE top == SlotCount * FuncMax
  <2>1. top \in Nat
    BY PciTreeAssumption, ProductType
  <2>2. Addrs = 0 .. top - 1
    BY DEF Addrs
  <2> HIDE DEF top
  <2>3. \A a \in Addrs : a < top
    BY <2>1, <2>2
  <2> QED BY <2>3 DEF top
<1>5. \A a \in Addrs : a \in ToSet(found) <=> Reachable(a)
  BY <1>1, <1>4 DEF FoundBelow
<1> QED BY <1>1, <1>3, <1>5 DEF FoundBelow

-----------------------------------------------------------------------------
(* The files. *)

Files == Lists \cup Opens

(* A listing of which n entries are written, at offset o.                  *)
Listing(n, o) ==
  [kind |-> "temp", size |-> Len(found), offset |-> o,
   bytes |-> [k \in 1 .. Len(found) |-> IF k <= n THEN Name(found[k]) ELSE <<>>]]

(* Every file has memory of its own behind it, and in it what it is for.   *)
FilesInv ==
  /\ HandleInv
  /\ doing \in {"task", "scan"} => Files = {}
  /\ doing # "list" => list = -1
  /\ doing = "list" =>
       /\ i \in 0 .. Len(found)
       /\ \E h \in Lists : h[1] = list /\ File(h) = Listing(i, i)
  /\ DOMAIN heap \subseteq 1 .. MaxHeap
  /\ \A h \in Files : h[1] \in DOMAIN data /\ data[h[1]] \in DOMAIN heap
  /\ \A g, h \in Files : data[g[1]] = data[h[1]] => g = h
  /\ \A h \in Lists :
       h[1] # list => \E o \in 0 .. Len(found) : File(h) = Listing(Len(found), o)
  /\ \A h \in Opens :
       /\ h[1] \in DOMAIN asked
       /\ File(h) = [kind |-> "func", addr |-> asked[h[1]]]

PciInv == ScanInv /\ FilesInv

(* The handle that device_add makes, if it finds a slot.                   *)
LEMMA NewHandle ==
  ASSUME HandleInv, NEW base, NEW public, NEW no_suffix, Add(base, public, no_suffix)
  PROVE  \/ result' = -1 /\ handles' = handles
         \/ \E new : /\ result' \in Nat /\ handles' = handles \cup {new}
                     /\ new[1] = result' /\ new[2][1] = base
                     /\ no_suffix => new[2] = <<base, -1>>
                     /\ \A h \in handles : h[1] # result'
<1>1. PICK d, t :
        /\ IsGrown(d, t)
        /\ \/ Refused(d)
           \/ \E k \in 0 .. t - 1 :
                LET number == IF no_suffix THEN -1 ELSE Suffix(d, k, base)
                IN  Given(d, t, k, <<base, number>>, public)
  BY AddIs DEF HandleInv
<1>2. CASE Refused(d)
  BY <1>2 DEF Refused
<1>3. ASSUME NEW k \in 0 .. t - 1, NEW number,
             number = IF no_suffix THEN -1 ELSE Suffix(d, k, base),
             Given(d, t, k, <<base, number>>, public)
      PROVE  \E new : /\ result' \in Nat /\ handles' = handles \cup {new}
                      /\ new[1] = result' /\ new[2][1] = base
                      /\ no_suffix => new[2] = <<base, -1>>
                      /\ \A h \in handles : h[1] # result'
  <2> DEFINE name == <<base, number>>
             new == <<k, name, public>>
  <2>1. result' = k /\ d[k].free /\ handles' = handles \cup {new}
    BY <1>3 DEF Given
  <2>2. new[1] = k /\ new[2] = name /\ name[1] = base
    OBVIOUS
  <2>3. no_suffix => name = <<base, -1>>
    BY <1>3
  <2>4. k \in Nat
    OBVIOUS
  <2> HIDE DEF name, new
  <2>5. ASSUME NEW h \in handles PROVE h[1] # k
    <3>1. h[1] \in Ids /\ devices[h[1]] = Entry(h[2], h[3])
      BY DEF HandleInv
    <3>2. d[h[1]] = devices[h[1]]
      BY <1>1, <3>1 DEF IsGrown, IsTable, Ids, HandleInv
    <3>3. ~d[h[1]].free
      BY <3>1, <3>2 DEF Entry
    <3> QED BY <2>1, <3>3
  <2> QED BY <2>1, <2>2, <2>3, <2>4, <2>5
<1> QED BY <1>1, <1>2, <1>3

LEMMA FreshPointer ==
  ASSUME DOMAIN heap \subseteq 1 .. MaxHeap, Cardinality(DOMAIN heap) < MaxHeap
  PROVE  NewPointer \in 1 .. MaxHeap /\ NewPointer \notin DOMAIN heap
<1> DEFINE Left == (1 .. MaxHeap) \ DOMAIN heap
<1>1. MaxHeap \in Nat
  BY PciTreeAssumption
<1>2. Left # {}
  <2>1. Cardinality(1 .. MaxHeap) = MaxHeap
    BY <1>1, FS_Interval
  <2>2. DOMAIN heap # 1 .. MaxHeap
    BY <1>1, <2>1
  <2> QED BY <2>2
<1>3. Left \in SUBSET Nat
  BY <1>1
<1>4. PICK m \in Left : \A k \in Left : m <= k
  <2> HIDE DEF Left
  <2> QED BY <1>2, <1>3, Least
<1>5. m \in 1 .. MaxHeap /\ m \notin DOMAIN heap
  OBVIOUS
<1>6. \A q \in 1 .. m - 1 : q \in DOMAIN heap
  <2>1. ASSUME NEW q \in 1 .. m - 1, q \notin DOMAIN heap PROVE FALSE
    <3>1. q \in 1 .. MaxHeap /\ q < m
      BY <1>1, <1>5
    <3>2. q \in Left
      BY <2>1, <3>1
    <3> QED BY <1>1, <1>4, <1>5, <3>1, <3>2
  <2> QED BY <2>1
<1> QED BY <1>5, <1>6 DEF NewPointer

(* A new file, or a refused device whose allocation is lost: the files     *)
(* there were keep slot and memory.                                        *)
FileAdded(name, content, p) ==
  /\ p \in 1 .. MaxHeap /\ p \notin DOMAIN heap
  /\ DOMAIN heap' = DOMAIN heap \cup {p}
  /\ heap'[p] = content
  /\ \A q \in DOMAIN heap : heap'[q] = heap[q]
  /\ \/ result' = -1 /\ handles' = handles /\ data' = data
     \/ \E new : /\ result' \in Nat /\ handles' = handles \cup {new}
                 /\ new[1] = result' /\ new[2] = <<name, -1>>
                 /\ \A h \in handles : h[1] # result'
                 /\ DOMAIN data' = DOMAIN data \cup {result'} /\ data'[result'] = p
                 /\ \A d \in DOMAIN data : d # result' => data'[d] = data[d]

LEMMA AddWithFile ==
  ASSUME HandleInv, DOMAIN heap \subseteq 1 .. MaxHeap,
         NEW name \in {"pci_list", "pci_open"}, NEW content, AddWith(name, content)
  PROVE  HandleInv' /\ \E p : FileAdded(name, content, p)
<1> DEFINE p == NewPointer
<1>1. /\ Cardinality(DOMAIN heap) < MaxHeap /\ AddTemp(name)
      /\ heap' = [q \in DOMAIN heap \cup {p} |-> IF q = p THEN content ELSE heap[q]]
      /\ data' = IF result' < 0 THEN data
                 ELSE [d \in DOMAIN data \cup {result'} |-> IF d = result' THEN p ELSE data[d]]
  BY DEF AddWith
<1>2. p \in 1 .. MaxHeap /\ p \notin DOMAIN heap
  BY <1>1, FreshPointer
<1> HIDE DEF p
<1>3. HandleInv'
  <2>1. name \in Kinds
    BY DEF Kinds
  <2> QED BY <1>1, <2>1, AddHandles DEF AddTemp
<1>4. /\ DOMAIN heap' = DOMAIN heap \cup {p} /\ heap'[p] = content
      /\ \A q \in DOMAIN heap : heap'[q] = heap[q]
  BY <1>1, <1>2
<1>5. \/ result' = -1 /\ handles' = handles
      \/ \E new : /\ result' \in Nat /\ handles' = handles \cup {new}
                  /\ new[1] = result' /\ new[2] = <<name, -1>>
                  /\ \A h \in handles : h[1] # result'
  BY <1>1, NewHandle DEF AddTemp
<1>6. result' = -1 => data' = data
  BY <1>1
<1>7. result' \in Nat =>
        /\ DOMAIN data' = DOMAIN data \cup {result'} /\ data'[result'] = p
        /\ \A d \in DOMAIN data : d # result' => data'[d] = data[d]
  <2> SUFFICES ASSUME result' \in Nat
               PROVE  /\ DOMAIN data' = DOMAIN data \cup {result'} /\ data'[result'] = p
                      /\ \A d \in DOMAIN data : d # result' => data'[d] = data[d]
    OBVIOUS
  <2>1. ~(result' < 0)
    OBVIOUS
  <2>2. data' = [d \in DOMAIN data \cup {result'} |-> IF d = result' THEN p ELSE data[d]]
    BY <1>1, <2>1
  <2> QED BY <2>2
<1>8. FileAdded(name, content, p)
  BY <1>2, <1>4, <1>5, <1>6, <1>7 DEF FileAdded
<1> QED BY <1>3, <1>8

LEMMA WriteListing ==
  ASSUME found \in Seq(Addrs), NEW n \in 0 .. Len(found) - 1
  PROVE  TempWrite(Listing(n, n), Name(found[n + 1])) = Listing(n + 1, n + 1)
<1> DEFINE l == Len(found)
           t == Listing(n, n)
           e == Name(found[n + 1])
<1>1. l \in Nat
  OBVIOUS
<1>2. t.size = l /\ t.offset = n /\ t.bytes = [k \in 1 .. l |-> IF k <= n THEN Name(found[k]) ELSE <<>>]
      /\ t.kind = "temp"
  BY DEF Listing
<1>3. t = [kind |-> "temp", size |-> l, offset |-> n, bytes |-> t.bytes]
  BY <1>2 DEF Listing
<1>4. Listing(n + 1, n + 1) =
        [kind |-> "temp", size |-> l, offset |-> n + 1,
         bytes |-> [k \in 1 .. l |-> IF k <= n + 1 THEN Name(found[k]) ELSE <<>>]]
  BY DEF Listing
<1>5. n \in Nat /\ n < l /\ n + 1 \in 1 .. l
  BY <1>1
<1> HIDE DEF l, t
<1>6. Room(t, 1) # 0
  BY <1>1, <1>2, <1>5 DEF Room
<1>7. TempWrite(t, e) = [t EXCEPT !.bytes[t.offset + 1] = e, !.offset = t.offset + 1]
  BY <1>6 DEF TempWrite
<1>8. [t.bytes EXCEPT ![n + 1] = e] = [k \in 1 .. l |-> IF k <= n + 1 THEN Name(found[k]) ELSE <<>>]
  <2>1. \A k \in 1 .. l : k <= n + 1 <=> k <= n \/ k = n + 1
    BY <1>5
  <2>2. \A k \in 1 .. l : k = n + 1 => ~(k <= n)
    BY <1>5
  <2> QED BY <1>2, <1>5, <2>1, <2>2
<1> HIDE DEF e
<1> DEFINE b == t.bytes
<1> HIDE DEF b
<1>9. [t EXCEPT !.bytes[n + 1] = e, !.offset = n + 1] =
        [kind |-> "temp", size |-> l, offset |-> n + 1, bytes |-> [b EXCEPT ![n + 1] = e]]
  <2>1. t = [kind |-> "temp", size |-> l, offset |-> n, bytes |-> b]
    BY <1>3 DEF b
  <2> DEFINE m == n + 1
  <2> HIDE DEF m
  <2> DEFINE c == [b EXCEPT ![m] = e]
             u == [kind |-> "temp", size |-> l, offset |-> n, bytes |-> c]
             v == [kind |-> "temp", size |-> l, offset |-> m, bytes |-> c]
  <2>2. [t EXCEPT !.bytes[m] = e, !.offset = m] = [t EXCEPT !.bytes = c, !.offset = m]
    <3>1. [t EXCEPT !.bytes[m] = e, !.offset = m] =
            [t EXCEPT !.bytes = [t.bytes EXCEPT ![m] = e], !.offset = m]
      OBVIOUS
    <3>2. t.bytes = b
      BY <2>1
    <3> QED BY <3>1, <3>2
  <2>3. [t EXCEPT !.bytes = c, !.offset = m] = v
    <3> HIDE DEF c
    <3>1. [t EXCEPT !.bytes = c, !.offset = m] = [[t EXCEPT !.bytes = c] EXCEPT !.offset = m]
      OBVIOUS
    <3>2. [t EXCEPT !.bytes = c] = u
      BY <2>1
    <3>3. [u EXCEPT !.offset = m] = v
      OBVIOUS
    <3> HIDE DEF u, v
    <3> QED BY <3>1, <3>2, <3>3
  <2>4. v = [kind |-> "temp", size |-> l, offset |-> n + 1, bytes |-> [b EXCEPT ![n + 1] = e]]
    BY DEF m
  <2> HIDE DEF c, v
  <2>5. [t EXCEPT !.bytes[n + 1] = e, !.offset = n + 1] = v
    BY <2>2, <2>3 DEF m
  <2> QED BY <2>4, <2>5
<1>10. TempWrite(t, e) = Listing(n + 1, n + 1)
  BY <1>2, <1>4, <1>7, <1>8, <1>9 DEF b
<1> QED BY <1>10 DEF t, e

LEMMA ListingIs ==
  ASSUME found \in Seq(Addrs), NEW n, NEW o
  PROVE  /\ Len(found) \in Nat
         /\ Listing(n, o).kind = "temp" /\ Listing(n, o).size = Len(found)
         /\ Listing(n, o).offset = o
         /\ \A q : [Listing(n, o) EXCEPT !.offset = q] = Listing(n, q)
<1> DEFINE l == Len(found)
           b == [k \in 1 .. l |-> IF k <= n THEN Name(found[k]) ELSE <<>>]
<1>1. l \in Nat
  OBVIOUS
<1>2. \A q : Listing(n, q) = [kind |-> "temp", size |-> l, offset |-> q, bytes |-> b]
  BY DEF Listing
<1> HIDE DEF l, b
<1>3. \A q : [Listing(n, o) EXCEPT !.offset = q] = Listing(n, q)
  BY <1>2
<1> QED BY <1>1, <1>2, <1>3 DEF l

LEMMA SeekListing ==
  ASSUME found \in Seq(Addrs), NEW n, NEW o, NEW position \in Int
  PROVE  \E q \in 0 .. Len(found) : TempSeek(Listing(n, o), position) = Listing(n, q)
<1> DEFINE t == Listing(n, o)
           l == Len(found)
           q == IF position < 0 THEN 0 ELSE IF position > l THEN l ELSE position
<1>1. l \in Nat /\ t.size = l
  BY ListingIs
<1>2. TempSeek(t, position) = [t EXCEPT !.offset = q]
  BY <1>1 DEF TempSeek
<1>3. [t EXCEPT !.offset = q] = Listing(n, q)
  BY ListingIs
<1>4. q \in 0 .. l
  <2> HIDE DEF l
  <2> QED BY <1>1
<1> HIDE DEF q
<1> QED BY <1>2, <1>3, <1>4

LEMMA ReadListing ==
  ASSUME found \in Seq(Addrs), NEW n, NEW o \in 0 .. Len(found),
         Room(Listing(n, o), 1) = 1
  PROVE  /\ o + 1 \in 0 .. Len(found)
         /\ [Listing(n, o) EXCEPT !.offset = @ + 1] = Listing(n, o + 1)
<1> DEFINE t == Listing(n, o)
           l == Len(found)
<1>1. l \in Nat /\ t.size = l /\ t.offset = o /\ o \in 0 .. l
  BY ListingIs
<1>2. [t EXCEPT !.offset = @ + 1] = [t EXCEPT !.offset = o + 1]
  BY <1>1
<1>3. [t EXCEPT !.offset = o + 1] = Listing(n, o + 1)
  BY ListingIs
<1>4. Room(t, 1) = 1
  OBVIOUS
<1> HIDE DEF t, l
<1>5. o + 1 \in 0 .. l
  BY <1>1, <1>4 DEF Room
<1> QED BY <1>2, <1>3, <1>5 DEF t, l

(* The memory of one file is written: that of all others stays.            *)
LEMMA FileWritten ==
  ASSUME FilesInv, NEW f \in Files, NEW t, heap' = [heap EXCEPT ![data[f[1]]] = t],
         data' = data
  PROVE  /\ DOMAIN heap' = DOMAIN heap
         /\ File(f)' = t
         /\ \A h \in Files : h # f => File(h)' = File(h)
<1>1. \A h \in Files : data[h[1]] \in DOMAIN heap /\ (data[h[1]] = data[f[1]] => h = f)
  BY DEF FilesInv
<1> QED BY <1>1 DEF File

LEMMA FilesStay ==
  ASSUME UNCHANGED <<handles, found>>
  PROVE  /\ Lists' = Lists /\ Opens' = Opens /\ Files' = Files
         /\ \A n, o : Listing(n, o)' = Listing(n, o)
BY DEF Lists, Opens, Files, Listing

LEMMA HandlesStay ==
  ASSUME HandleInv, UNCHANGED deviceVars
  PROVE  HandleInv'
BY DEF HandleInv, IsTable, deviceVars, table, Ids

LEMMA FilesStart == PciInit => FilesInv
<1> SUFFICES ASSUME PciInit PROVE FilesInv
  OBVIOUS
<1>1. HandleInv
  BY EmptyHandles DEF PciInit
<1>2. handles = {} /\ DOMAIN heap = {} /\ list = -1 /\ doing = "task"
  BY DEF PciInit, DeviceInit
<1>3. Lists = {} /\ Opens = {} /\ Files = {}
  BY <1>2 DEF Lists, Opens, Files
<1> QED BY <1>1, <1>2, <1>3 DEF FilesInv

LEMMA AddBusFiles == FilesInv /\ AddBus => FilesInv'
<1> SUFFICES ASSUME FilesInv, AddBus PROVE FilesInv'
  OBVIOUS
<1>1. doing = "task" /\ AddDriver("pci") /\ doing' = "scan" /\ UNCHANGED fileVars
  BY DEF AddBus
<1>2. HandleInv /\ Files = {} /\ list = -1 /\ DOMAIN heap \subseteq 1 .. MaxHeap
  BY <1>1 DEF FilesInv
<1>3. HandleInv'
  <2>1. "pci" \in Kinds
    BY DEF Kinds
  <2> QED BY <1>1, <1>2, <2>1, AddHandles DEF AddDriver
<1>4. handles' = handles \/ \E new : handles' = handles \cup {new} /\ new[2][1] = "pci"
  BY <1>1, <1>2, NewHandle DEF AddDriver
<1>5. Files' = {} /\ Lists' = {} /\ Opens' = {}
  BY <1>2, <1>4 DEF Files, Lists, Opens
<1>6. UNCHANGED <<heap, list>>
  BY <1>1 DEF fileVars
<1> QED BY <1>1, <1>2, <1>3, <1>5, <1>6 DEF FilesInv

LEMMA ScanFiles ==
  ASSUME FilesInv, doing = "scan", doing' \in {"scan", "idle"},
         UNCHANGED <<deviceVars, fileVars>>
  PROVE  FilesInv'
<1>1. HandleInv /\ Files = {} /\ list = -1 /\ DOMAIN heap \subseteq 1 .. MaxHeap
  BY DEF FilesInv
<1>2. HandleInv'
  BY <1>1, HandlesStay
<1>3. UNCHANGED <<handles, heap, list>>
  BY DEF deviceVars, fileVars
<1>4. Files' = {} /\ Lists' = {} /\ Opens' = {}
  BY <1>1, <1>3 DEF Files, Lists, Opens
<1> QED BY <1>1, <1>2, <1>3, <1>4 DEF FilesInv

(* What a new file leaves of the others.                                   *)
LEMMA OthersKept ==
  ASSUME FilesInv, NEW name, NEW content, NEW p, FileAdded(name, content, p)
  PROVE  /\ DOMAIN heap' \subseteq 1 .. MaxHeap
         /\ \A h \in Files :
              /\ h \in handles' /\ h[1] \in DOMAIN data' /\ data'[h[1]] = data[h[1]]
              /\ data'[h[1]] \in DOMAIN heap' /\ data'[h[1]] # p
              /\ File(h)' = File(h)
<1>1. /\ p \in 1 .. MaxHeap /\ p \notin DOMAIN heap
      /\ DOMAIN heap' = DOMAIN heap \cup {p}
      /\ \A q \in DOMAIN heap : heap'[q] = heap[q]
      /\ \/ handles' = handles /\ data' = data
         \/ /\ handles \subseteq handles' /\ DOMAIN data' = DOMAIN data \cup {result'}
            /\ \A h \in handles : h[1] # result'
            /\ \A d \in DOMAIN data : d # result' => data'[d] = data[d]
  BY DEF FileAdded
<1>2. DOMAIN heap \subseteq 1 .. MaxHeap
  BY DEF FilesInv
<1>3. ASSUME NEW h \in Files
      PROVE  /\ h \in handles' /\ h[1] \in DOMAIN data' /\ data'[h[1]] = data[h[1]]
             /\ data'[h[1]] \in DOMAIN heap' /\ data'[h[1]] # p
             /\ File(h)' = File(h)
  <2>1. h \in handles /\ h[1] \in DOMAIN data /\ data[h[1]] \in DOMAIN heap
    BY DEF FilesInv, Files, Lists, Opens
  <2>2. h \in handles' /\ h[1] \in DOMAIN data' /\ data'[h[1]] = data[h[1]]
    BY <1>1, <2>1
  <2>3. heap'[data[h[1]]] = heap[data[h[1]]]
    BY <1>1, <2>1
  <2> QED BY <1>1, <2>1, <2>2, <2>3 DEF File
<1> QED BY <1>1, <1>2, <1>3

(* A device that was refused is none of the files.                         *)
LEMMA RefusedFiles ==
  ASSUME FilesInv, HandleInv', NEW name, NEW content, NEW p, FileAdded(name, content, p),
         handles' = handles, found' = found, asked' = asked, list = -1, list' = -1,
         doing \notin {"task", "scan"}, doing' \notin {"task", "scan", "list"}
  PROVE  FilesInv'
<1>1. Lists' = Lists /\ Opens' = Opens /\ Files' = Files
      /\ \A n, o : Listing(n, o)' = Listing(n, o)
  BY FilesStay
<1>2. /\ DOMAIN heap' \subseteq 1 .. MaxHeap
      /\ \A h \in Files :
           /\ h[1] \in DOMAIN data' /\ data'[h[1]] = data[h[1]]
           /\ data'[h[1]] \in DOMAIN heap' /\ File(h)' = File(h)
  BY OthersKept
<1>3. \A g, h \in Files : data'[g[1]] = data'[h[1]] => g = h
  BY <1>2 DEF FilesInv
<1>4. \A h \in Lists : \E o \in 0 .. Len(found) : File(h)' = Listing(Len(found), o)
  <2>1. ASSUME NEW h \in Lists PROVE \E o \in 0 .. Len(found) : File(h)' = Listing(Len(found), o)
    <3>1. h \in Files /\ h \in handles
      BY DEF Files, Lists
    <3>2. h[1] # list
      BY <3>1 DEF FilesInv, HandleInv
    <3>3. \E o \in 0 .. Len(found) : File(h) = Listing(Len(found), o)
      BY <3>2 DEF FilesInv
    <3> QED BY <1>2, <3>1, <3>3
  <2> QED BY <2>1
<1>5. \A h \in Opens : /\ h[1] \in DOMAIN asked
                       /\ File(h)' = [kind |-> "func", addr |-> asked[h[1]]]
  BY <1>2 DEF FilesInv, Files
<1>6. FilesInv'
  BY <1>1, <1>2, <1>3, <1>4, <1>5 DEF FilesInv
<1> QED BY <1>6

(* A new file of its own slot and memory: the parts of FilesInv that every *)
(* file has.                                                               *)
LEMMA OwnMemory ==
  ASSUME FilesInv, NEW name, NEW content, NEW p, FileAdded(name, content, p),
         NEW new, handles' = handles \cup {new}, new[1] = result',
         DOMAIN data' = DOMAIN data \cup {result'}, data'[result'] = p,
         Files' = Files \cup {new}
  PROVE  /\ File(new)' = content
         /\ \A h \in Files' : h[1] \in DOMAIN data' /\ data'[h[1]] \in DOMAIN heap'
         /\ \A g, h \in Files' : data'[g[1]] = data'[h[1]] => g = h
<1>1. DOMAIN heap' = DOMAIN heap \cup {p} /\ heap'[p] = content
  BY DEF FileAdded
<1>2. \A h \in Files :
        /\ h[1] \in DOMAIN data' /\ data'[h[1]] = data[h[1]]
        /\ data'[h[1]] \in DOMAIN heap' /\ data'[h[1]] # p
  BY OthersKept
<1>3. data'[new[1]] = p /\ new[1] \in DOMAIN data' /\ p \in DOMAIN heap'
  BY <1>1
<1>4. File(new)' = content
  BY <1>1, <1>3 DEF File
<1>5. ASSUME NEW g \in Files', NEW h \in Files', data'[g[1]] = data'[h[1]]
      PROVE  g = h
  <2>1. CASE g = new
    <3>1. h \notin Files
      BY <1>2, <1>3, <1>5, <2>1
    <3> QED BY <2>1, <3>1
  <2>2. CASE h = new
    <3>1. g \notin Files
      BY <1>2, <1>3, <1>5, <2>2
    <3> QED BY <2>2, <3>1
  <2>3. CASE g # new /\ h # new
    <3>1. g \in Files /\ h \in Files
      BY <2>3
    <3> QED BY <1>2, <1>5, <3>1 DEF FilesInv
  <2> QED BY <2>1, <2>2, <2>3
<1> QED BY <1>2, <1>3, <1>4, <1>5

LEMMA EmptyListing ==
  ASSUME found \in Seq(Addrs)
  PROVE  Temp(Len(found)) = Listing(0, 0)
<1>1. \A k \in 1 .. Len(found) : ~(k <= 0)
  OBVIOUS
<1>2. [k \in 1 .. Len(found) |-> <<>>] =
      [k \in 1 .. Len(found) |-> IF k <= 0 THEN Name(found[k]) ELSE <<>>]
  BY <1>1
<1> QED BY <1>2 DEF Temp, Listing

LEMMA BeginFiles ==
  ASSUME FilesInv, found \in Seq(Addrs), ListBegin
  PROVE  FilesInv'
<1>1. /\ doing = "idle" /\ AddWith("pci_list", Temp(Len(found)))
      /\ list' = result' /\ i' = 0 /\ doing' = IF result' < 0 THEN "wild" ELSE "list"
      /\ found' = found /\ asked' = asked
  BY DEF ListBegin
<1>2. HandleInv /\ DOMAIN heap \subseteq 1 .. MaxHeap /\ list = -1
  BY <1>1 DEF FilesInv
<1>3. HandleInv' /\ \E p : FileAdded("pci_list", Temp(Len(found)), p)
  BY <1>1, <1>2, AddWithFile
<1>4. PICK p : FileAdded("pci_list", Temp(Len(found)), p)
  BY <1>3
<1>5. CASE result' = -1
  <2>1. handles' = handles
    BY <1>4, <1>5 DEF FileAdded
  <2>2. doing' = "wild" /\ list' = -1
    BY <1>1, <1>5
  <2> QED BY <1>1, <1>2, <1>3, <1>4, <2>1, <2>2, RefusedFiles
<1>6. CASE result' # -1
  <2>1. PICK new :
          /\ result' \in Nat /\ handles' = handles \cup {new}
          /\ new[1] = result' /\ new[2] = <<"pci_list", -1>>
          /\ \A h \in handles : h[1] # result'
          /\ DOMAIN data' = DOMAIN data \cup {result'} /\ data'[result'] = p
    BY <1>4, <1>6 DEF FileAdded
  <2>2. Lists' = Lists \cup {new} /\ Opens' = Opens /\ Files' = Files \cup {new}
    <3>1. <<"pci_list", -1>> # <<"pci_open", -1>>
      OBVIOUS
    <3> QED BY <2>1, <3>1 DEF Lists, Opens, Files
  <2>3. /\ File(new)' = Temp(Len(found))
        /\ \A h \in Files' : h[1] \in DOMAIN data' /\ data'[h[1]] \in DOMAIN heap'
        /\ \A g, h \in Files' : data'[g[1]] = data'[h[1]] => g = h
    BY <1>4, <2>1, <2>2, OwnMemory
  <2>4. DOMAIN heap' \subseteq 1 .. MaxHeap /\ \A h \in Files : File(h)' = File(h)
    BY <1>4, OthersKept
  <2>5. doing' = "list" /\ i' = 0 /\ list' = new[1]
    <3>1. ~(result' < 0)
      BY <2>1
    <3> QED BY <1>1, <2>1, <3>1
  <2>6. \A n, o : Listing(n, o)' = Listing(n, o)
    BY <1>1 DEF Listing
  <2>7. File(new)' = Listing(0, 0)' /\ Len(found) \in Nat
    BY <2>3, <2>6, EmptyListing
  <2>8. \A h \in Lists : \E o \in 0 .. Len(found) : File(h)' = Listing(Len(found), o)
    <3>1. ASSUME NEW h \in Lists
          PROVE  \E o \in 0 .. Len(found) : File(h)' = Listing(Len(found), o)
      <4>1. h \in Files /\ h \in handles
        BY DEF Files, Lists
      <4>2. h[1] # list
        BY <1>2, <4>1 DEF HandleInv
      <4>3. \E o \in 0 .. Len(found) : File(h) = Listing(Len(found), o)
        BY <4>2 DEF FilesInv
      <4> QED BY <2>4, <4>1, <4>3
    <3> QED BY <3>1
  <2>9. \A h \in Lists' : h[1] # list' =>
          \E o \in 0 .. Len(found') : File(h)' = Listing(Len(found), o)'
    BY <1>1, <2>2, <2>5, <2>6, <2>8
  <2>10. \E h \in Lists' : h[1] = list' /\ File(h)' = Listing(i, i)'
    <3>1. Listing(i, i)' = Listing(0, 0)'
      BY <2>5 DEF Listing
    <3> QED BY <2>2, <2>5, <2>7, <3>1
  <2>11. \A h \in Opens' : /\ h[1] \in DOMAIN asked'
                           /\ File(h)' = [kind |-> "func", addr |-> asked'[h[1]]]
    BY <1>1, <2>2, <2>4 DEF FilesInv, Files
  <2>12. i' \in 0 .. Len(found')
    BY <1>1, <2>5, <2>7
  <2> QED BY <1>3, <2>3, <2>4, <2>5, <2>9, <2>10, <2>11, <2>12 DEF FilesInv
<1> QED BY <1>5, <1>6

LEMMA OpenFiles ==
  ASSUME FilesInv, NEW a \in Addrs, Open(a)
  PROVE  FilesInv'
<1>1. /\ doing = "idle" /\ AddWith("pci_open", [kind |-> "func", addr |-> Address(Name(a))])
      /\ asked' = IF result' < 0 THEN asked
                  ELSE [d \in DOMAIN asked \cup {result'} |-> IF d = result' THEN a ELSE asked[d]]
      /\ found' = found /\ list' = list /\ doing' = doing
  BY DEF Open, scanVars
<1>2. HandleInv /\ DOMAIN heap \subseteq 1 .. MaxHeap /\ list = -1
  BY <1>1 DEF FilesInv
<1> DEFINE content == [kind |-> "func", addr |-> a]
<1>3. HandleInv' /\ \E p : FileAdded("pci_open", content, p)
  <2>1. AddWith("pci_open", content)
    BY <1>1, AddressOfName
  <2> HIDE DEF content
  <2> QED BY <1>2, <2>1, AddWithFile
<1> HIDE DEF content
<1>4. PICK p : FileAdded("pci_open", content, p)
  BY <1>3
<1>5. CASE result' = -1
  <2>1. handles' = handles /\ asked' = asked
    BY <1>1, <1>4, <1>5 DEF FileAdded
  <2> QED BY <1>1, <1>2, <1>3, <1>4, <2>1, RefusedFiles
<1>6. CASE result' # -1
  <2>1. PICK new :
          /\ result' \in Nat /\ handles' = handles \cup {new}
          /\ new[1] = result' /\ new[2] = <<"pci_open", -1>>
          /\ \A h \in handles : h[1] # result'
          /\ DOMAIN data' = DOMAIN data \cup {result'} /\ data'[result'] = p
    BY <1>4, <1>6 DEF FileAdded
  <2>2. Lists' = Lists /\ Opens' = Opens \cup {new} /\ Files' = Files \cup {new}
    <3>1. <<"pci_list", -1>> # <<"pci_open", -1>>
      OBVIOUS
    <3> QED BY <2>1, <3>1 DEF Lists, Opens, Files
  <2>3. /\ File(new)' = content
        /\ \A h \in Files' : h[1] \in DOMAIN data' /\ data'[h[1]] \in DOMAIN heap'
        /\ \A g, h \in Files' : data'[g[1]] = data'[h[1]] => g = h
    BY <1>4, <2>1, <2>2, OwnMemory
  <2>4. DOMAIN heap' \subseteq 1 .. MaxHeap /\ \A h \in Files : File(h)' = File(h)
    BY <1>4, OthersKept
  <2>5. \A n, o : Listing(n, o)' = Listing(n, o)
    BY <1>1 DEF Listing
  <2>6. \A h \in Lists' : h[1] # list' =>
          \E o \in 0 .. Len(found') : File(h)' = Listing(Len(found), o)'
    BY <1>1, <2>2, <2>4, <2>5 DEF FilesInv, Files
  <2>7. /\ DOMAIN asked' = DOMAIN asked \cup {result'} /\ asked'[result'] = a
        /\ \A d \in DOMAIN asked : d # result' => asked'[d] = asked[d]
    <3>1. ~(result' < 0)
      BY <2>1
    <3>2. asked' = [d \in DOMAIN asked \cup {result'} |-> IF d = result' THEN a ELSE asked[d]]
      BY <1>1, <3>1
    <3> QED BY <3>2
  <2>8. ASSUME NEW h \in Opens'
        PROVE  /\ h[1] \in DOMAIN asked'
               /\ File(h)' = [kind |-> "func", addr |-> asked'[h[1]]]
    <3>1. CASE h = new
      BY <2>1, <2>3, <2>7, <3>1 DEF content
    <3>2. CASE h # new
      <4>1. h \in Opens /\ h \in Files /\ h \in handles
        BY <2>2, <3>2 DEF Files, Opens
      <4>2. h[1] \in DOMAIN asked /\ File(h) = [kind |-> "func", addr |-> asked[h[1]]]
        BY <4>1 DEF FilesInv
      <4>3. asked'[h[1]] = asked[h[1]] /\ h[1] \in DOMAIN asked'
        BY <2>1, <2>7, <4>1, <4>2
      <4> QED BY <2>4, <4>1, <4>2, <4>3
    <3> QED BY <3>1, <3>2
  <2> QED BY <1>1, <1>2, <1>3, <2>3, <2>4, <2>6, <2>8 DEF FilesInv
<1> QED BY <1>5, <1>6

(* The entries of a listing are written, or the file is read or positioned *)
(* by who has it open: no other file notices.                              *)
LEMMA InPlaceFiles ==
  ASSUME FilesInv, found \in Seq(Addrs), NEW f \in Lists, NEW t,
         heap' = [heap EXCEPT ![data[f[1]]] = t],
         UNCHANGED <<deviceVars, found, data, asked>>,
         doing \in {"idle", "list"}, doing' \in {"idle", "list"},
         doing' # "list" => list' = -1 /\ \E o \in 0 .. Len(found) : t = Listing(Len(found), o),
         doing = "list" => f[1] = list,
         doing' = "list" => /\ i' \in 0 .. Len(found) /\ t = Listing(i, i)'
                            /\ f[1] = list' /\ doing = "list"
  PROVE  FilesInv'
<1>1. /\ UNCHANGED <<handles, found, data, asked>>
      /\ Lists' = Lists /\ Opens' = Opens /\ Files' = Files
      /\ \A n, o : Listing(n, o)' = Listing(n, o)
  BY FilesStay DEF deviceVars
<1>2. HandleInv /\ HandleInv'
  BY HandlesStay DEF FilesInv
<1>3. f \in Files
  BY DEF Files
<1>4. /\ DOMAIN heap' = DOMAIN heap /\ File(f)' = t
      /\ \A h \in Files : h # f => File(h)' = File(h)
  BY <1>3, FileWritten
<1>5. \A g, h \in Lists : g[1] = h[1] => g = h
  BY <1>2 DEF HandleInv, Lists
<1>6. \A h \in Lists : h[1] # -1 /\ (h # f => h[1] # list)
  <2>1. ASSUME NEW h \in Lists PROVE h[1] # -1
    BY <1>2 DEF HandleInv, Lists
  <2>2. ASSUME NEW h \in Lists, h # f PROVE h[1] # list
    <3>1. CASE doing = "list"
      BY <1>5, <2>2, <3>1
    <3>2. CASE doing # "list"
      BY <2>1, <3>2 DEF FilesInv
    <3> QED BY <3>1, <3>2
  <2> QED BY <2>1, <2>2
<1>7. \A h \in Lists : h # f => \E o \in 0 .. Len(found) : File(h)' = Listing(Len(found), o)
  <2>1. \A h \in Lists : h # f => \E o \in 0 .. Len(found) : File(h) = Listing(Len(found), o)
    BY <1>6 DEF FilesInv
  <2> QED BY <1>4, <2>1 DEF Files
<1>8. \A h \in Opens : /\ h[1] \in DOMAIN asked
                       /\ File(h)' = [kind |-> "func", addr |-> asked[h[1]]]
  <2>1. ASSUME NEW h \in Opens
        PROVE  /\ h[1] \in DOMAIN asked
               /\ File(h)' = [kind |-> "func", addr |-> asked[h[1]]]
    <3>1. h # f
      <4>1. <<"pci_list", -1>> # <<"pci_open", -1>>
        OBVIOUS
      <4> QED BY <4>1 DEF Lists, Opens
    <3>2. File(h)' = File(h)
      BY <1>4, <3>1 DEF Files
    <3> QED BY <3>2 DEF FilesInv
  <2> QED BY <2>1
<1>9. /\ DOMAIN heap' \subseteq 1 .. MaxHeap
      /\ \A h \in Files' : h[1] \in DOMAIN data' /\ data'[h[1]] \in DOMAIN heap'
      /\ \A g, h \in Files' : data'[g[1]] = data'[h[1]] => g = h
  BY <1>1, <1>4 DEF FilesInv
<1>10. \A h \in Opens' : /\ h[1] \in DOMAIN asked'
                         /\ File(h)' = [kind |-> "func", addr |-> asked'[h[1]]]
  BY <1>1, <1>8
<1>11. CASE doing' = "list"
  <2>1. \A h \in Lists' : h[1] # list' =>
          \E o \in 0 .. Len(found') : File(h)' = Listing(Len(found), o)'
    BY <1>1, <1>7, <1>11
  <2>2. i' \in 0 .. Len(found') /\ \E h \in Lists' : h[1] = list' /\ File(h)' = Listing(i, i)'
    BY <1>1, <1>4, <1>11
  <2> QED BY <1>2, <1>9, <1>10, <1>11, <2>1, <2>2 DEF FilesInv
<1>12. CASE doing' # "list"
  <2>1. \A h \in Lists' : h[1] # list' =>
          \E o \in 0 .. Len(found') : File(h)' = Listing(Len(found), o)'
    BY <1>1, <1>4, <1>7, <1>12
  <2>2. doing' = "idle" /\ list' = -1
    BY <1>12
  <2> QED BY <1>2, <1>9, <1>10, <2>1, <2>2 DEF FilesInv
<1> QED BY <1>11, <1>12

LEMMA EntryFiles ==
  ASSUME FilesInv, found \in Seq(Addrs), ListEntry
  PROVE  FilesInv'
<1>1. /\ doing = "list" /\ i < Len(found) /\ i' = i + 1
      /\ heap' = [heap EXCEPT ![data[list]] = TempWrite(@, Name(found[i + 1]))]
      /\ UNCHANGED <<deviceVars, found, data, list, asked, doing>>
  BY DEF ListEntry
<1>2. i \in 0 .. Len(found) /\ \E h \in Lists : h[1] = list /\ File(h) = Listing(i, i)
  BY <1>1 DEF FilesInv
<1>3. PICK f \in Lists : f[1] = list /\ File(f) = Listing(i, i)
  BY <1>2
<1>4. PICK n \in 0 .. Len(found) - 1 : n = i
  BY <1>1, <1>2
<1> DEFINE t == Listing(n + 1, n + 1)
<1>5. TempWrite(Listing(n, n), Name(found[n + 1])) = t
  BY WriteListing
<1>6. heap' = [heap EXCEPT ![data[f[1]]] = t]
  BY <1>1, <1>3, <1>4, <1>5 DEF File
<1>7. i' \in 0 .. Len(found) /\ i' = n + 1
  BY <1>1, <1>4
<1>8. Listing(i, i)' = t
  BY <1>1, <1>7 DEF Listing
<1> HIDE DEF t
<1> QED BY <1>1, <1>3, <1>6, <1>7, <1>8, InPlaceFiles

LEMMA EndFiles ==
  ASSUME FilesInv, found \in Seq(Addrs), ListEnd
  PROVE  FilesInv'
<1>1. /\ doing = "list" /\ i = Len(found) /\ list' = -1 /\ doing' = "idle"
      /\ heap' = [heap EXCEPT ![data[list]] = TempSeek(@, 0)]
      /\ UNCHANGED <<deviceVars, found, data, asked>>
  BY DEF ListEnd
<1>2. PICK f \in Lists : f[1] = list /\ File(f) = Listing(i, i)
  BY <1>1 DEF FilesInv
<1>3. PICK o \in 0 .. Len(found) : TempSeek(Listing(i, i), 0) = Listing(i, o)
  BY SeekListing
<1> DEFINE t == Listing(Len(found), o)
<1>4. heap' = [heap EXCEPT ![data[f[1]]] = t]
  BY <1>1, <1>2, <1>3 DEF File
<1>5. \E q \in 0 .. Len(found) : t = Listing(Len(found), q)
  OBVIOUS
<1> HIDE DEF t
<1> QED BY <1>1, <1>2, <1>4, <1>5, InPlaceFiles

LEMMA ReadFiles ==
  ASSUME FilesInv, found \in Seq(Addrs), NEW f, Read(f)
  PROVE  FilesInv'
<1>1. /\ doing = "idle" /\ doing' = doing /\ f \in Lists /\ Room(File(f), 1) = 1
      /\ heap' = [heap EXCEPT ![data[f[1]]].offset = @ + 1]
      /\ UNCHANGED <<deviceVars, found, data, list, asked>>
  BY DEF Read, scanVars
<1>2. list = -1 /\ f[1] # list
  BY <1>1 DEF FilesInv, HandleInv, Lists
<1>3. PICK o \in 0 .. Len(found) : File(f) = Listing(Len(found), o)
  BY <1>1, <1>2 DEF FilesInv
<1>4. o + 1 \in 0 .. Len(found) /\ [File(f) EXCEPT !.offset = @ + 1] = Listing(Len(found), o + 1)
  BY <1>1, <1>3, ReadListing
<1> DEFINE t == Listing(Len(found), o + 1)
<1> DEFINE p == data[f[1]]
           n == heap[p].offset + 1
<1>5. heap' = [heap EXCEPT ![p].offset = n]
  BY <1>1
<1>6. [heap[p] EXCEPT !.offset = n] = t
  BY <1>4 DEF File
<1>7. heap' = [heap EXCEPT ![p] = t]
  <2> HIDE DEF p, n
  <2>1. heap' = [heap EXCEPT ![p] = [heap[p] EXCEPT !.offset = n]]
    BY <1>5
  <2> QED BY <1>6, <2>1
<1>8. \E q \in 0 .. Len(found) : t = Listing(Len(found), q)
  BY <1>4
<1> HIDE DEF t
<1> QED BY <1>1, <1>2, <1>7, <1>8, InPlaceFiles

LEMMA SeekFiles ==
  ASSUME FilesInv, found \in Seq(Addrs), NEW f, Seek(f)
  PROVE  FilesInv'
<1>1. /\ doing = "idle" /\ doing' = doing /\ f \in Lists
      /\ UNCHANGED <<deviceVars, found, data, list, asked>>
  BY DEF Seek, scanVars
<1>2. list = -1 /\ f[1] # list
  BY <1>1 DEF FilesInv, HandleInv, Lists
<1>3. PICK o \in 0 .. Len(found) : File(f) = Listing(Len(found), o)
  BY <1>1, <1>2 DEF FilesInv
<1>4. PICK base \in {0, File(f).offset, File(f).size}, d \in Distances :
        heap' = [heap EXCEPT ![data[f[1]]] = TempSeek(@, base + d)]
  BY DEF Seek
<1>5. base + d \in Int
  BY <1>3, <1>4, ListingIs, PciTreeAssumption
<1>6. PICK q \in 0 .. Len(found) : TempSeek(File(f), base + d) = Listing(Len(found), q)
  BY <1>3, <1>5, SeekListing
<1> DEFINE t == Listing(Len(found), q)
<1>7. heap' = [heap EXCEPT ![data[f[1]]] = t]
  BY <1>4, <1>6 DEF File
<1>8. \E o2 \in 0 .. Len(found) : t = Listing(Len(found), o2)
  OBVIOUS
<1> HIDE DEF t
<1> QED BY <1>1, <1>2, <1>7, <1>8, InPlaceFiles

(* A closed listing gives its own memory back, and nothing else.           *)
LEMMA CloseFiles ==
  ASSUME FilesInv, NEW f, Close(f)
  PROVE  FilesInv'
<1>1. /\ doing = "idle" /\ doing' = doing /\ f \in Files /\ Free(f)
      /\ heap' = IF f \in Lists THEN [p \in DOMAIN heap \ {data[f[1]]} |-> heap[p]] ELSE heap
      /\ UNCHANGED <<found, data, list, asked>>
  BY DEF Close, scanVars, Files
<1>2. HandleInv' /\ list = -1
  BY <1>1, FreeHandles DEF FilesInv
<1>3. handles' = handles \ {f}
  BY <1>1 DEF Free
<1>4. Lists' = Lists \ {f} /\ Opens' = Opens \ {f} /\ Files' = Files \ {f}
  BY <1>3 DEF Lists, Opens, Files
<1>5. DOMAIN heap' \subseteq 1 .. MaxHeap
  BY <1>1 DEF FilesInv
<1>6. ASSUME NEW h \in Files, h # f
      PROVE  /\ h[1] \in DOMAIN data' /\ data'[h[1]] = data[h[1]]
             /\ data'[h[1]] \in DOMAIN heap' /\ File(h)' = File(h)
  <2>1. h[1] \in DOMAIN data /\ data[h[1]] \in DOMAIN heap /\ data[h[1]] # data[f[1]]
    BY <1>1, <1>6 DEF FilesInv
  <2> QED BY <1>1, <2>1 DEF File
<1>7. \A n, o : Listing(n, o)' = Listing(n, o)
  BY <1>1 DEF Listing
<1>8. \A h \in Lists' : h[1] # list' =>
        \E o \in 0 .. Len(found') : File(h)' = Listing(Len(found), o)'
  <2>1. ASSUME NEW h \in Lists', h[1] # list'
        PROVE  \E o \in 0 .. Len(found') : File(h)' = Listing(Len(found), o)'
    <3>1. h \in Lists /\ h # f /\ h[1] # list
      BY <1>1, <1>4, <2>1
    <3>2. \E o \in 0 .. Len(found) : File(h) = Listing(Len(found), o)
      BY <3>1 DEF FilesInv
    <3> QED BY <1>1, <1>6, <1>7, <3>1, <3>2 DEF Files
  <2> QED BY <2>1
<1>9. \A h \in Opens' : /\ h[1] \in DOMAIN asked'
                        /\ File(h)' = [kind |-> "func", addr |-> asked'[h[1]]]
  BY <1>1, <1>4, <1>6 DEF FilesInv, Files
<1>10. /\ \A h \in Files' : h[1] \in DOMAIN data' /\ data'[h[1]] \in DOMAIN heap'
       /\ \A g, h \in Files' : data'[g[1]] = data'[h[1]] => g = h
  BY <1>4, <1>6 DEF FilesInv
<1> QED BY <1>1, <1>2, <1>5, <1>8, <1>9, <1>10 DEF FilesInv

LEMMA FoundIsSeq ==
  ASSUME ScanInv
  PROVE  found \in Seq(Addrs) /\ ToSet(found) \subseteq Addrs
<1>1. found \in Seq(Addrs)
  BY DEF ScanInv, FoundBelow
<1>2. DOMAIN found = 1 .. Len(found)
  BY <1>1, LenProperties
<1> QED BY <1>1, <1>2, ElementOfSeq DEF ToSet

LEMMA PciStart == PciInit => PciInv
BY ScanStart, FilesStart DEF PciInv

LEMMA PciStep == PciInv /\ [PciNext]_pciVars => PciInv'
<1> SUFFICES ASSUME PciInv, [PciNext]_pciVars PROVE PciInv'
  OBVIOUS
<1>0. ScanInv /\ FilesInv /\ found \in Seq(Addrs) /\ ToSet(found) \subseteq Addrs
  BY FoundIsSeq DEF PciInv
<1>1. CASE AddBus
  <2>1. UNCHANGED <<machine, found, slot, i, addr>> /\ doing = "task" /\ doing' = "scan"
    BY <1>1 DEF AddBus, scanVars
  <2>2. ScanInv'
    BY <1>0, <2>1, QuietScan
  <2> QED BY <1>0, <1>1, <2>2, AddBusFiles DEF PciInv
<1>2. CASE ScanAbsent \/ ScanPresent
  <2>1. doing = "scan" /\ UNCHANGED <<deviceVars, fileVars>>
    BY <1>2 DEF ScanAbsent, ScanPresent
  <2>2. doing' \in {"scan", "idle"}
    BY <1>2, <2>1 DEF ScanAbsent, ScanPresent, NextFunction, NextSlot
  <2>3. ScanInv'
    BY <1>0, <1>2, AbsentScan, PresentScan
  <2> QED BY <1>0, <2>1, <2>2, <2>3, ScanFiles DEF PciInv
<1>3. CASE ListBegin
  <2>1. UNCHANGED <<machine, found>> /\ doing = "idle" /\ doing' \in {"wild", "list"}
    BY <1>3 DEF ListBegin
  <2>2. ScanInv'
    BY <1>0, <2>1, QuietScan
  <2> QED BY <1>0, <1>3, <2>2, BeginFiles DEF PciInv
<1>4. CASE ListEntry
  <2>1. UNCHANGED <<machine, found>> /\ doing = "list" /\ doing' = "list"
    BY <1>4 DEF ListEntry
  <2>2. ScanInv'
    BY <1>0, <2>1, QuietScan
  <2> QED BY <1>0, <1>4, <2>2, EntryFiles DEF PciInv
<1>5. CASE ListEnd
  <2>1. UNCHANGED <<machine, found>> /\ doing = "list" /\ doing' = "idle"
    BY <1>5 DEF ListEnd
  <2>2. ScanInv'
    BY <1>0, <2>1, QuietScan
  <2> QED BY <1>0, <1>5, <2>2, EndFiles DEF PciInv
<1>6. ASSUME NEW a \in ToSet(found), Open(a) PROVE PciInv'
  <2>1. UNCHANGED <<machine, found, slot, i, addr, doing>>
    BY <1>6 DEF Open, scanVars
  <2>2. ScanInv'
    BY <1>0, <2>1, QuietScan
  <2>3. a \in Addrs
    BY <1>0
  <2> QED BY <1>0, <1>6, <2>2, <2>3, OpenFiles DEF PciInv
<1>7. ASSUME NEW h \in handles, Read(h) \/ Seek(h) \/ Close(h) PROVE PciInv'
  <2>1. UNCHANGED <<machine, found, slot, i, addr, doing>>
    BY <1>7 DEF Read, Seek, Close, scanVars
  <2>2. ScanInv'
    BY <1>0, <2>1, QuietScan
  <2>3. FilesInv'
    BY <1>0, <1>7, ReadFiles, SeekFiles, CloseFiles
  <2> QED BY <2>2, <2>3 DEF PciInv
<1>8. CASE UNCHANGED pciVars
  <2>1. /\ UNCHANGED <<machine, found, slot, i, addr, doing>>
        /\ UNCHANGED deviceVars /\ UNCHANGED <<heap, data, list, asked>>
    BY <1>8 DEF pciVars, scanVars, fileVars
  <2>2. ScanInv'
    BY <1>0, <2>1, QuietScan
  <2>3. UNCHANGED <<handles, found>>
    BY <2>1 DEF deviceVars
  <2>4. HandleInv'
    BY <1>0, <2>1, HandlesStay DEF FilesInv
  <2>5. /\ Lists' = Lists /\ Opens' = Opens /\ Files' = Files
        /\ \A n, o : Listing(n, o)' = Listing(n, o)
    BY <2>3, FilesStay
  <2>6. Listing(i, i)' = Listing(i, i) /\ \A h : File(h)' = File(h)
    BY <2>1 DEF Listing, File
  <2>7. FilesInv'
    BY <1>0, <2>1, <2>4, <2>5, <2>6 DEF FilesInv
  <2> QED BY <2>2, <2>7 DEF PciInv
<1> QED BY <1>1, <1>2, <1>3, <1>4, <1>5, <1>6, <1>7, <1>8 DEF PciNext

LEMMA PciAlways == PciSpec => []PciInv
BY PciStart, PciStep, PTL DEF PciSpec

LEMMA WholeListing ==
  ASSUME found \in Seq(Addrs), NEW o
  PROVE  Listing(Len(found), o).bytes = [k \in 1 .. Len(found) |-> Name(found[k])]
<1>1. \A k \in 1 .. Len(found) : k <= Len(found)
  OBVIOUS
<1>2. [k \in 1 .. Len(found) |-> IF k <= Len(found) THEN Name(found[k]) ELSE <<>>] =
      [k \in 1 .. Len(found) |-> Name(found[k])]
  BY <1>1
<1> QED BY <1>2 DEF Listing

LEMMA PciInvKeeps == PciInv => FilesKept
<1> SUFFICES ASSUME PciInv PROVE FilesKept
  OBVIOUS
<1>0. FilesInv /\ found \in Seq(Addrs)
  BY FoundIsSeq DEF PciInv
<1>1. HandlesKept
  BY <1>0, HandleInvKeeps DEF FilesInv
<1>2. ASSUME NEW h \in Lists, h[1] # list
      PROVE  /\ data[h[1]] \in DOMAIN heap
             /\ File(h).kind = "temp" /\ File(h).offset \in 0 .. File(h).size
             /\ File(h).bytes = [k \in 1 .. Len(found) |-> Name(found[k])]
  <2>1. PICK o \in 0 .. Len(found) : File(h) = Listing(Len(found), o)
    BY <1>0, <1>2 DEF FilesInv
  <2>2. /\ Listing(Len(found), o).kind = "temp" /\ Listing(Len(found), o).size = Len(found)
        /\ Listing(Len(found), o).offset = o
    BY <1>0, ListingIs
  <2>3. Listing(Len(found), o).bytes = [k \in 1 .. Len(found) |-> Name(found[k])]
    BY <1>0, WholeListing
  <2>4. data[h[1]] \in DOMAIN heap
    BY <1>0 DEF FilesInv, Files
  <2> QED BY <2>1, <2>2, <2>3, <2>4
<1>3. ListingWhole
  BY <1>2 DEF ListingWhole
<1>4. OpensOwn
  BY <1>0 DEF FilesInv, Files, OpensOwn
<1> QED BY <1>1, <1>3, <1>4 DEF FilesKept

(* On every machine the scan finds what each slot shows, once and in       *)
(* order, and nothing that does not answer or lies behind a gap.           *)
THEOREM ScanFindsAll == PciSpec => []ScanFinds
<1>1. PciInv => ScanFinds
  BY ScanInvFinds DEF PciInv
<1> QED BY <1>1, PciAlways, PTL

(* Every open device keeps its slot, every listing holds all functions in  *)
(* order, and an opened function is the one whose listed name was opened:  *)
(* its digits give the address back, and no device shares its memory.      *)
THEOREM FilesStayWhole == PciSpec => []FilesKept
<1>1. PciInv => FilesKept
  BY PciInvKeeps
<1> QED BY <1>1, PciAlways, PTL

=============================================================================
