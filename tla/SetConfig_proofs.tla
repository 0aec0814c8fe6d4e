-------------------------- MODULE SetConfig_proofs --------------------------
(***************************************************************************)
(* Proofs about SetConfig for any number of names, rates, subsystems and   *)
(* slots: the bookkeeping of the rate-limit slots, and what the kernel     *)
(* enforces while a configuration is replaced step by step.                *)
(***************************************************************************)
EXTENDS SetConfig, SequenceTheorems, Counting

Ready(e)  == e.state = "ReadyToUse"
Active(e) == e.state = "Active"

Config == [entries : [Slot -> Entry],
           free    : Seq(Slot),
           rules   : [Sub -> Slot \cup {NoSlot}],
           meant   : [Sub -> Name \cup {NoName}]]

(* The bookkeeping of Ratelimits: ConfigOK with types, and name_to_index_  *)
(* is a function.                                                          *)
Books(c) ==
    /\ c \in Config
    /\ \A j \in 1..Len(c.free) : Ready(c.entries[c.free[j]])
    /\ \A i \in Slot : Ready(c.entries[i]) => \E j \in 1..Len(c.free) : c.free[j] = i
    /\ \A j, k \in 1..Len(c.free) : c.free[j] = c.free[k] => j = k
    /\ \A i \in Slot : ~Ready(c.entries[i]) => c.entries[i].name \in Name
    /\ \A i, j \in Slot : (~Ready(c.entries[i]) /\ ~Ready(c.entries[j])
                            /\ c.entries[i].name = c.entries[j].name) => i = j

-----------------------------------------------------------------------------
(* The operators of Ratelimits *)

LEMMA NoSlotNotSlot == NoSlot \notin Slot /\ Slot \subseteq Nat
  BY SetConfigAssumption DEF Slot, NoSlot

LEMMA BooksOK == ASSUME NEW c, Books(c) PROVE ConfigOK(c)
  BY DEF Books, ConfigOK, Config, Ready

LEMMA BooksType ==
    ASSUME NEW c, Books(c)
    PROVE  /\ c.free \in Seq(Slot) /\ Len(c.free) \in Nat
           /\ \A j \in 1..Len(c.free) : c.free[j] \in Slot
           /\ \A i \in Slot : c.entries[i] \in Entry
<1>1. c.free \in Seq(Slot) /\ \A i \in Slot : c.entries[i] \in Entry
  BY DEF Books, Config
<1> QED
  BY <1>1, LenProperties, ElementOfSeq

LEMMA EmptyBooks == Books(EmptyConfig)
<1>1. Unused \in Entry /\ Ready(Unused)
  BY DEF Unused, Entry, Ready
<1>2. EmptyConfig.free \in Seq(Slot) /\ Len(EmptyConfig.free) = MaxEntries
  BY SetConfigAssumption DEF EmptyConfig, Slot
<1>3. EmptyConfig \in Config
  BY <1>1, <1>2 DEF EmptyConfig, Config, NoRules, NoNames
<1>4. \A i \in Slot : i + 1 \in 1..MaxEntries /\ EmptyConfig.free[i + 1] = i
  BY SetConfigAssumption DEF EmptyConfig, Slot
<1>5. \A j \in 1..MaxEntries : EmptyConfig.free[j] = j - 1 /\ j - 1 \in Slot
  BY SetConfigAssumption DEF EmptyConfig, Slot
<1>6. \A i \in Slot : EmptyConfig.entries[i] = Unused
  BY DEF EmptyConfig
<1>7. \A i \in Slot : Ready(EmptyConfig.entries[i]) /\ i \in Nat
  BY <1>1, <1>6, NoSlotNotSlot
<1>8. \A i \in Slot : \E j \in 1..MaxEntries : EmptyConfig.free[j] = i
  BY <1>4
<1>9. \A j, k \in 1..MaxEntries : EmptyConfig.free[j] = EmptyConfig.free[k] => j = k
  BY <1>5
<1>10. \A j \in 1..MaxEntries : Ready(EmptyConfig.entries[EmptyConfig.free[j]])
  BY <1>5, <1>7
<1> QED
  BY <1>2, <1>3, <1>7, <1>8, <1>9, <1>10, Zenon DEF Books

(* upsert names one slot: the one that had the name, or a free one. *)
LEMMA UpsertFacts ==
    ASSUME NEW c, Books(c), NEW n \in Name, NEW r \in Rate, Find(c, n) # {} \/ c.free # <<>>
    PROVE  /\ Books(upsert(c, n, r))
           /\ upsert(c, n, r).rules = c.rules /\ upsert(c, n, r).meant = c.meant
           /\ \E i \in Slot :
                /\ Ready(c.entries[i]) \/ c.entries[i].name = n
                /\ Active(upsert(c, n, r).entries[i]) /\ upsert(c, n, r).entries[i].name = n
                /\ \A k \in Slot : k # i => upsert(c, n, r).entries[k] = c.entries[k]
<1> DEFINE e == [name |-> n, rate |-> r, state |-> "Active"]
           u == upsert(c, n, r)
<1>1. e \in Entry /\ ~Ready(e) /\ Active(e) /\ e.name = n
  BY DEF Entry, Ready, Active
<1>2. CASE Find(c, n) # {}
  <2>1. PICK i \in Slot : /\ i \in Find(c, n)
                          /\ u = [c EXCEPT !.entries[i] = e]
    BY <1>2 DEF upsert, Find
  <2>2. ~Ready(c.entries[i]) /\ c.entries[i].name = n
    BY <2>1 DEF Find, Ready
  <2> HIDE DEF e, u
  <2>3. /\ u.rules = c.rules /\ u.meant = c.meant /\ u.free = c.free /\ u \in Config
        /\ u.entries[i] = e /\ \A k \in Slot : k # i => u.entries[k] = c.entries[k]
    BY <1>1, <2>1 DEF Books, Config
  <2>4. Books(u)
    <3>1. \A k \in Slot : Ready(u.entries[k]) <=> Ready(c.entries[k])
      BY <1>1, <2>2, <2>3
    <3>2. \A k \in Slot : ~Ready(c.entries[k]) => u.entries[k].name = c.entries[k].name
      BY <1>1, <2>2, <2>3
    <3> QED
      BY <2>3, <3>1, <3>2, BooksType DEF Books
  <2> QED
    BY <1>1, <2>2, <2>3, <2>4 DEF u
<1>3. CASE Find(c, n) = {}
  <2> DEFINE i == Head(c.free)
  <2>1. u = [c EXCEPT !.entries[Head(c.free)] = e, !.free = Tail(@)] /\ c.free # <<>>
    BY <1>3 DEF upsert
  <2>2. c.free \in Seq(Slot) /\ i \in Slot /\ i = c.free[1] /\ Ready(c.entries[i])
    <3>1. c.free \in Seq(Slot) /\ c.free # <<>>
      BY <2>1, BooksType
    <3>2. Len(c.free) \in Nat \ {0} /\ i = c.free[1]
      BY <3>1, EmptySeq
    <3>3. 1 \in 1..Len(c.free)
      BY <3>2
    <3> QED
      BY <3>1, <3>2, <3>3, BooksType DEF Books
  <2> HIDE DEF e, u, i
  <2>3. /\ u.rules = c.rules /\ u.meant = c.meant /\ u.free = Tail(c.free) /\ u \in Config
        /\ u.entries[i] = e /\ \A k \in Slot : k # i => u.entries[k] = c.entries[k]
    <3>1. Tail(c.free) \in Seq(Slot)
      BY <2>1, <2>2, HeadTailProperties
    <3>2. u = [c EXCEPT !.entries[i] = e, !.free = Tail(c.free)]
      BY <2>1 DEF i
    <3>3. c \in Config
      BY DEF Books
    <3> QED
      BY <1>1, <2>2, <3>1, <3>2, <3>3 DEF Config
  <2>4. /\ Len(c.free) \in Nat /\ Len(c.free) >= 1
        /\ Len(u.free) = Len(c.free) - 1
        /\ \A j \in 1..Len(u.free) : u.free[j] = c.free[j + 1]
    BY <2>1, <2>2, <2>3
  <2>5. \A k \in Slot : ~Ready(c.entries[k]) => c.entries[k].name # n
    BY <1>3 DEF Find, Ready
  <2>6. \A j \in 1..Len(u.free) : Ready(u.entries[u.free[j]])
    <3> TAKE j \in 1..Len(u.free)
    <3>1. j + 1 \in 1..Len(c.free) /\ j + 1 # 1 /\ 1 \in 1..Len(c.free)
      BY <2>4
    <3>2. u.free[j] = c.free[j + 1] /\ c.free[j + 1] # i /\ c.free[j + 1] \in Slot
      BY <2>2, <2>4, <3>1, BooksType DEF Books
    <3> QED
      BY <2>3, <3>1, <3>2 DEF Books
  <2>7. ASSUME NEW k \in Slot, Ready(u.entries[k]) PROVE \E j \in 1..Len(u.free) : u.free[j] = k
    <3>1. k # i /\ Ready(c.entries[k])
      BY <1>1, <2>3, <2>7
    <3>2. PICK j \in 1..Len(c.free) : c.free[j] = k
      BY <3>1 DEF Books
    <3>3. j # 1
      BY <2>2, <3>1, <3>2
    <3>4. j - 1 \in 1..Len(u.free) /\ u.free[j - 1] = k
      BY <2>4, <3>2, <3>3
    <3> QED
      BY <3>4
  <2>8. \A j, k \in 1..Len(u.free) : u.free[j] = u.free[k] => j = k
    <3> TAKE j, k \in 1..Len(u.free)
    <3>1. j + 1 \in 1..Len(c.free) /\ k + 1 \in 1..Len(c.free) /\ j \in Nat /\ k \in Nat
      BY <2>4
    <3>2. c.free[j + 1] = c.free[k + 1] => j + 1 = k + 1
      BY <3>1 DEF Books
    <3> QED
      BY <2>4, <3>1, <3>2
  <2>9. /\ \A k \in Slot : ~Ready(u.entries[k]) => u.entries[k].name \in Name
        /\ \A j, k \in Slot : (~Ready(u.entries[j]) /\ ~Ready(u.entries[k])
                                /\ u.entries[j].name = u.entries[k].name) => j = k
    BY <1>1, <2>3, <2>5 DEF Books
  <2>10. Books(u)
    BY <2>3, <2>6, <2>7, <2>8, <2>9 DEF Books
  <2> QED
    BY <1>1, <2>2, <2>3, <2>10 DEF u
<1> QED
  BY <1>2, <1>3

(* Changing entries from Active to Inactive leaves the books as they are. *)
LEMMA InactivateBooks ==
    ASSUME NEW c, Books(c), NEW d, d \in Config, d.free = c.free,
           \A i \in Slot : \/ d.entries[i] = c.entries[i]
                           \/ /\ ~Ready(c.entries[i]) /\ ~Ready(d.entries[i])
                              /\ d.entries[i].name = c.entries[i].name
    PROVE  Books(d)
<1>1. c.free \in Seq(Slot) /\ \A j \in 1..Len(c.free) : c.free[j] \in Slot
  BY DEF Books, Config
<1>2. \A i \in Slot : Ready(d.entries[i]) <=> Ready(c.entries[i])
  OBVIOUS
<1>3. \A i \in Slot : ~Ready(c.entries[i]) => d.entries[i].name = c.entries[i].name
  OBVIOUS
<1> QED
  BY <1>1, <1>2, <1>3 DEF Books

LEMMA InactivateFacts ==
    ASSUME NEW c, Books(c), NEW n \in Name
    PROVE  /\ Books(inactivate(c, n))
           /\ inactivate(c, n).rules = c.rules /\ inactivate(c, n).meant = c.meant
           /\ \A i \in Slot : /\ Ready(inactivate(c, n).entries[i]) <=> Ready(c.entries[i])
                              /\ inactivate(c, n).entries[i].name = c.entries[i].name
                              /\ i \notin Find(c, n) => inactivate(c, n).entries[i] = c.entries[i]
<1> DEFINE d == inactivate(c, n)
<1>1. ASSUME NEW i \in Slot
      PROVE  c.entries[i] \in Entry /\ [c.entries[i] EXCEPT !.state = "Inactive"] \in Entry
  <2>1. c.entries[i] \in Entry
    BY DEF Books, Config
  <2> QED
    BY <2>1 DEF Entry
<1>2. /\ d.rules = c.rules /\ d.meant = c.meant /\ d.free = c.free
      /\ d.entries = [i \in Slot |-> IF i \in Find(c, n)
                        THEN [c.entries[i] EXCEPT !.state = "Inactive"] ELSE c.entries[i]]
      /\ d \in Config
  BY <1>1 DEF Books, Config, inactivate
<1> HIDE DEF d
<1>3. \A i \in Slot : i \in Find(c, n) =>
         ~Ready(c.entries[i]) /\ ~Ready(d.entries[i]) /\ d.entries[i].name = c.entries[i].name
  BY <1>1, <1>2 DEF Find, Ready, Entry
<1>4. \A i \in Slot : i \notin Find(c, n) => d.entries[i] = c.entries[i]
  BY <1>2
<1>5. Books(d)
  BY <1>2, <1>3, <1>4, InactivateBooks
<1> QED
  BY <1>2, <1>3, <1>4, <1>5 DEF d

LEMMA InactivateAllFacts ==
    ASSUME NEW c, Books(c)
    PROVE  LET d == [inactivate_all(c) EXCEPT !.rules = NoRules, !.meant = NoNames]
           IN  /\ Books(d)
               /\ d.rules = NoRules /\ d.meant = NoNames
               /\ \A i \in Slot : /\ Ready(d.entries[i]) <=> Ready(c.entries[i])
                                  /\ d.entries[i].name = c.entries[i].name
<1> DEFINE d == [inactivate_all(c) EXCEPT !.rules = NoRules, !.meant = NoNames]
<1>1. ASSUME NEW i \in Slot
      PROVE  c.entries[i] \in Entry /\ [c.entries[i] EXCEPT !.state = "Inactive"] \in Entry
  <2>1. c.entries[i] \in Entry
    BY DEF Books, Config
  <2> QED
    BY <2>1 DEF Entry
<1>2. /\ d.rules = NoRules /\ d.meant = NoNames /\ d.free = c.free
      /\ d.entries = [i \in Slot |-> IF c.entries[i].state = "Active"
                        THEN [c.entries[i] EXCEPT !.state = "Inactive"] ELSE c.entries[i]]
      /\ d \in Config
  BY <1>1 DEF Books, Config, inactivate_all, NoRules, NoNames
<1> HIDE DEF d
<1>3. \A i \in Slot : c.entries[i].state = "Active" =>
         ~Ready(c.entries[i]) /\ ~Ready(d.entries[i]) /\ d.entries[i].name = c.entries[i].name
  BY <1>1, <1>2 DEF Ready, Entry
<1>4. \A i \in Slot : c.entries[i].state # "Active" => d.entries[i] = c.entries[i]
  BY <1>2
<1>5. Books(d)
  BY <1>2, <1>3, <1>4, InactivateBooks
<1> QED
  BY <1>2, <1>3, <1>4, <1>5 DEF d

(* Every set of slots has an ascending listing. *)
LEMMA AscendingExists ==
    ASSUME NEW S \in SUBSET Slot
    PROVE  \E q \in [1..Cardinality(S) -> S] :
              \A j, k \in 1..Cardinality(S) : j < k => q[j] < q[k]
<1> DEFINE Listed(T) == \E q \in [1..Cardinality(T) -> T] :
                           \A j, k \in 1..Cardinality(T) : j < k => q[j] < q[k]
           P == {n \in Nat : \A T \in SUBSET (0..(n - 1)) : Listed(T)}
<1>1. 0 \in P
  <2>1. \A T \in SUBSET (0..(0 - 1)) : T = {}
    OBVIOUS
  <2>2. Listed({})
    <3>1. Cardinality({}) = 0 /\ 1..0 = {}
      BY FS_EmptySet
    <3>2. <<>> \in [1..0 -> {}]
      BY <3>1
    <3> QED
      BY <3>1, <3>2
  <2> QED
    BY <2>1, <2>2
<1>2. ASSUME NEW n \in Nat, n \in P, NEW T \in SUBSET (0..n) PROVE Listed(T)
  <2>1. CASE n \notin T
    <3>1. T \in SUBSET (0..(n - 1))
      BY <2>1
    <3> QED
      BY <1>2, <3>1
  <2>2. CASE n \in T
    <3> DEFINE R == T \ {n}
               m == Cardinality(R)
    <3>1. R \in SUBSET (0..(n - 1))
      BY <2>2
    <3>2. IsFiniteSet(R)
      <4>1. IsFiniteSet(0..(n - 1))
        BY FS_Interval
      <4> QED
        BY <3>1, <4>1, FS_Subset
    <3>3. m \in Nat /\ Cardinality(T) = m + 1
      <4>1. T = R \cup {n} /\ n \notin R
        BY <2>2
      <4> HIDE DEF R
      <4> QED
        BY <3>2, <4>1, FS_AddElement, FS_CardinalityType
    <3>4. PICK q \in [1..m -> R] : \A j, k \in 1..m : j < k => q[j] < q[k]
      BY <1>2, <3>1
    <3> DEFINE r == [j \in 1..(m + 1) |-> IF j = m + 1 THEN n ELSE q[j]]
    <3> HIDE DEF m
    <3>5. \A j \in 1..(m + 1) : j # m + 1 => j \in 1..m /\ q[j] \in R /\ q[j] < n
      <4> TAKE j \in 1..(m + 1)
      <4> HAVE j # m + 1
      <4>1. j \in 1..m
        BY <3>3
      <4>2. q[j] \in R
        BY <3>4, <4>1
      <4>3. q[j] \in 0..(n - 1)
        BY <3>1, <4>2
      <4> QED
        BY <4>1, <4>2, <4>3
    <3>6. r \in [1..(m + 1) -> T]
      BY <2>2, <3>3, <3>5
    <3>7. \A j, k \in 1..(m + 1) : j < k => r[j] < r[k]
      BY <3>3, <3>4, <3>5
    <3> HIDE DEF r
    <3> QED
      BY <3>3, <3>6, <3>7
  <2> QED
    BY <2>1, <2>2
<1>3. \A n \in Nat : n \in P => n + 1 \in P
  <2> SUFFICES ASSUME NEW n \in Nat, n \in P PROVE n + 1 \in P
    OBVIOUS
  <2>1. \A T \in SUBSET (0..n) : Listed(T)
    BY <1>2
  <2>2. (n + 1) - 1 = n /\ n + 1 \in Nat
    OBVIOUS
  <2> HIDE DEF Listed
  <2> QED
    BY <2>1, <2>2
<1>4. MaxEntries \in P
  <2> HIDE DEF P
  <2> QED
    BY <1>1, <1>3, NatInduct, SetConfigAssumption
<1> QED
  BY <1>4 DEF Slot

LEMMA AscendingFacts ==
    ASSUME NEW S \in SUBSET Slot
    PROVE  /\ Ascending(S) \in Seq(Slot)
           /\ \A j \in 1..Len(Ascending(S)) : Ascending(S)[j] \in S
           /\ \A i \in S : \E j \in 1..Len(Ascending(S)) : Ascending(S)[j] = i
           /\ \A j, k \in 1..Len(Ascending(S)) : Ascending(S)[j] = Ascending(S)[k] => j = k
<1> DEFINE q == Ascending(S)
           m == Cardinality(S)
<1>1. q \in [1..m -> S] /\ \A j, k \in 1..m : j < k => q[j] < q[k]
  BY AscendingExists DEF Ascending
<1>2. IsFiniteSet(S) /\ m \in Nat
  <2>1. IsFiniteSet(Slot)
    BY FS_Interval, SetConfigAssumption DEF Slot
  <2> QED
    BY <2>1, FS_Subset, FS_CardinalityType
<1> HIDE DEF q
<1>3. \A j, k \in 1..m : q[j] = q[k] => j = k
  <2> SUFFICES ASSUME NEW j \in 1..m, NEW k \in 1..m, q[j] = q[k], j # k PROVE FALSE
    OBVIOUS
  <2>1. q[j] \in Nat /\ q[k] \in Nat
    BY <1>1, NoSlotNotSlot
  <2>2. j < k \/ k < j
    BY <1>2
  <2> QED
    BY <1>1, <2>1, <2>2
<1>4. q \in Injection(1..m, S)
  BY <1>1, <1>3 DEF Injection, IsInjective
<1>5. Cardinality(1..m) = m
  BY <1>2, FS_Interval
<1>6. q \in Surjection(1..m, S)
  BY <1>2, <1>4, <1>5, FS_Injection
<1>7. \A i \in S : \E j \in 1..m : q[j] = i
  BY <1>6 DEF Surjection
<1> HIDE DEF m
<1>8. q \in Seq(Slot) /\ Len(q) = m
  BY <1>1, <1>2
<1> QED
  BY <1>1, <1>3, <1>7, <1>8 DEF q

(* free_inactive returns the inactive slots to the queue and keeps the rest. *)
LEMMA FreeInactiveFacts ==
    ASSUME NEW c, Books(c)
    PROVE  /\ Books(free_inactive(c))
           /\ free_inactive(c).rules = c.rules /\ free_inactive(c).meant = c.meant
           /\ \A i \in Slot : Active(c.entries[i]) \/ Active(free_inactive(c).entries[i])
                 => free_inactive(c).entries[i] = c.entries[i]
<1> DEFINE d == free_inactive(c)
           a == Ascending(Freed(c))
           n == Len(c.free)
<1>1. ASSUME NEW i \in Slot
      PROVE  c.entries[i] \in Entry /\ [c.entries[i] EXCEPT !.state = "ReadyToUse"] \in Entry
  <2>1. c.entries[i] \in Entry
    BY DEF Books, Config
  <2> QED
    BY <2>1 DEF Entry
<1>2. /\ a \in Seq(Slot) /\ Len(a) \in Nat
      /\ \A j \in 1..Len(a) : a[j] \in Freed(c)
      /\ \A i \in Freed(c) : \E j \in 1..Len(a) : a[j] = i
      /\ \A j, k \in 1..Len(a) : a[j] = a[k] => j = k
  <2>1. Freed(c) \in SUBSET Slot
    BY DEF Freed
  <2> QED
    BY <2>1, AscendingFacts, LenProperties
<1>3. c.free \in Seq(Slot) /\ n \in Nat /\ \A j \in 1..n : c.free[j] \in Slot
  BY BooksType
<1> HIDE DEF a, n
<1>4. c.free \o a \in Seq(Slot)
  BY <1>2, <1>3, ConcatProperties
<1>5. /\ d.rules = c.rules /\ d.meant = c.meant /\ d.free = c.free \o a
      /\ d.entries = [i \in Slot |-> IF i \in Freed(c)
                        THEN [c.entries[i] EXCEPT !.state = "ReadyToUse"] ELSE c.entries[i]]
      /\ d \in Config
  BY <1>1, <1>4 DEF Books, Config, free_inactive, a
<1> HIDE DEF d
<1>6. \A i \in Slot : i \in Freed(c) => Ready(d.entries[i]) /\ ~Ready(c.entries[i])
                                         /\ ~Active(c.entries[i]) /\ ~Active(d.entries[i])
  BY <1>1, <1>5 DEF Freed, Ready, Active, Entry
<1>7. \A i \in Slot : i \notin Freed(c) => d.entries[i] = c.entries[i]
  BY <1>5
<1>8. /\ Len(d.free) = n + Len(a)
      /\ \A j \in 1..n : d.free[j] = c.free[j] /\ d.free[j] \in Slot \ Freed(c)
      /\ \A j \in 1..Len(a) : d.free[n + j] = a[j] /\ d.free[n + j] \in Freed(c)
  <2>1. \A j \in 1..(n + Len(a)) : (c.free \o a)[j] = IF j <= n THEN c.free[j] ELSE a[j - n]
    BY <1>2, <1>3, ConcatProperties DEF n
  <2>2. Len(d.free) = n + Len(a)
    BY <1>2, <1>3, <1>5, ConcatProperties DEF n
  <2>3. ASSUME NEW j \in 1..n PROVE d.free[j] = c.free[j]
    <3>1. j \in 1..(n + Len(a)) /\ j <= n
      BY <1>2, <1>3
    <3> QED
      BY <1>5, <2>1, <3>1
  <2>4. \A j \in 1..n : Ready(c.entries[c.free[j]])
    BY DEF Books, n
  <2>5. ASSUME NEW j \in 1..Len(a) PROVE d.free[n + j] = a[j]
    <3>1. n + j \in 1..(n + Len(a)) /\ ~(n + j <= n) /\ (n + j) - n = j
      BY <1>2, <1>3
    <3> QED
      BY <1>5, <2>1, <3>1
  <2> QED
    BY <1>2, <1>3, <1>6, <2>2, <2>3, <2>4, <2>5
<1>9. \A j \in 1..Len(d.free) : j \in 1..n \/ (j - n \in 1..Len(a) /\ n + (j - n) = j)
  BY <1>2, <1>3, <1>8
<1>10. \A j \in 1..Len(d.free) : Ready(d.entries[d.free[j]])
  <2> TAKE j \in 1..Len(d.free)
  <2>1. CASE j \in 1..n
    BY <1>7, <1>8, <2>1 DEF Books, n
  <2>2. CASE j - n \in 1..Len(a) /\ n + (j - n) = j
    <3>1. d.free[j] \in Freed(c) /\ Freed(c) \subseteq Slot
      BY <1>8, <2>2 DEF Freed
    <3> QED
      BY <1>6, <3>1
  <2> QED
    BY <1>9, <2>1, <2>2
<1>11. ASSUME NEW i \in Slot, Ready(d.entries[i]) PROVE \E j \in 1..Len(d.free) : d.free[j] = i
  <2>1. CASE i \in Freed(c)
    <3>1. PICK j \in 1..Len(a) : a[j] = i
      BY <1>2, <2>1
    <3>2. n + j \in 1..Len(d.free) /\ d.free[n + j] = i
      BY <1>2, <1>3, <1>8, <3>1
    <3> QED
      BY <3>2
  <2>2. CASE i \notin Freed(c)
    <3>1. PICK j \in 1..n : c.free[j] = i
      BY <1>7, <1>11, <2>2 DEF Books, n
    <3>2. j \in 1..Len(d.free) /\ d.free[j] = i
      BY <1>2, <1>3, <1>8, <3>1
    <3> QED
      BY <3>2
  <2> QED
    BY <2>1, <2>2
<1>12. ASSUME NEW j \in 1..Len(d.free), NEW k \in 1..Len(d.free), d.free[j] = d.free[k] PROVE j = k
  <2>1. CASE j \in 1..n /\ k \in 1..n
    BY <1>8, <1>12, <2>1 DEF Books, n
  <2>2. CASE /\ j - n \in 1..Len(a) /\ n + (j - n) = j
             /\ k - n \in 1..Len(a) /\ n + (k - n) = k
    <3>1. a[j - n] = a[k - n]
      BY <1>8, <1>12, <2>2
    <3>2. j - n = k - n
      BY <1>2, <2>2, <3>1
    <3> QED
      BY <2>2, <3>2
  <2>3. CASE j \in 1..n /\ k - n \in 1..Len(a) /\ n + (k - n) = k
    BY <1>8, <1>12, <2>3
  <2>4. CASE k \in 1..n /\ j - n \in 1..Len(a) /\ n + (j - n) = j
    BY <1>8, <1>12, <2>4
  <2> QED
    BY <1>9, <2>1, <2>2, <2>3, <2>4
<1>13. \A i \in Slot : ~Ready(d.entries[i]) => d.entries[i] = c.entries[i]
  BY <1>6, <1>7
<1>14. Books(d)
  BY <1>5, <1>10, <1>11, <1>12, <1>13 DEF Books
<1> QED
  BY <1>5, <1>6, <1>7, <1>14 DEF d

-----------------------------------------------------------------------------
(* The inductive invariant *)

KernelType ==
    /\ present \in BOOLEAN /\ rules_active \in BOOLEAN
    /\ named_rates \in [Slot -> Rate \cup {0}]
    /\ writtenFor \in [Slot -> Name \cup {NoName}]
    /\ rules \in [Sub -> Slot \cup {NoSlot}]
    /\ meant \in [Sub -> Name \cup {NoName}]
    /\ failures \in Nat

(* The phases of a request *)
Request == {"full", "patch", "reload"}
Phase ==
    /\ pc \in {"idle", "prepare_ratelimits", "prepare_rules", "set_ratelimits", "subsystems"}
    /\ at \in 1..(Len(Subsystem) + 1) /\ (pc # "subsystems" => at = 1)
    /\ pc # "idle" <=> result \in Request
    /\ pc \in {"prepare_ratelimits", "prepare_rules"} => result # "reload"
    /\ ~present => config = EmptyConfig /\ ~rules_active
    /\ (pc = "prepare_ratelimits" /\ result = "full") => new.rules = NoRules

(* Once set_ratelimits has run, the kernel has the limits of the new       *)
(* configuration, and its rules for the subsystems updated so far.         *)
Progress == pc = "subsystems" =>
    /\ \A i \in Slot : Active(new.entries[i]) =>
          named_rates[i] = new.entries[i].rate /\ writtenFor[i] = new.entries[i].name
    /\ \A j \in 1..(at - 1) : /\ rules[Subsystem[j]] = new.rules[Subsystem[j]]
                              /\ meant[Subsystem[j]] = new.meant[Subsystem[j]]

(* A rule refers to an active limit, the one that was meant. *)
NoDangling(c) == \A s \in Sub : c.rules[s] # NoSlot =>
    /\ Active(c.entries[c.rules[s]])
    /\ c.entries[c.rules[s]].name = c.meant[s]

(* A request does not give an active slot of the stored configuration to   *)
(* another name: free_inactive runs when the request is over.              *)
SlotsKeepNames == pc # "idle" =>
    \A i \in Slot : Active(config.entries[i]) =>
        ~Ready(new.entries[i]) /\ new.entries[i].name = config.entries[i].name

(* Until an update fails, every live rule is the stored or the new one. *)
InStep == (failures = 0 /\ rules_active) =>
    /\ \A i \in Slot : Active(config.entries[i]) => writtenFor[i] = config.entries[i].name
    /\ \A s \in Sub : \/ rules[s] = config.rules[s] /\ meant[s] = config.meant[s]
                      \/ pc = "subsystems" /\ rules[s] = new.rules[s] /\ meant[s] = new.meant[s]

IInv == /\ Books(config) /\ Books(new) /\ KernelType /\ Phase /\ Progress
        /\ KernelMatchesConfig /\ SlotsKeepNames /\ InStep
        /\ ~PatchDeletesUsed => NoDangling(config) /\ NoDangling(new)

LEMMA EmptyFacts ==
    /\ Books(EmptyConfig) /\ NoDangling(EmptyConfig)
    /\ EmptyConfig.rules = NoRules /\ \A i \in Slot : ~Active(EmptyConfig.entries[i])
  BY EmptyBooks DEF EmptyConfig, NoDangling, NoRules, Active, Unused

LEMMA InitIInv == ASSUME Init PROVE IInv
<1>1. KernelType
  BY DEF Init, KernelType, NoRules, NoNames
<1>2. Phase
  <2>1. 1 \in 1..(Len(Subsystem) + 1)
    BY SetConfigAssumption
  <2> QED
    BY <2>1 DEF Init, Phase, Request
<1> QED
  BY <1>1, <1>2, EmptyFacts
     DEF Init, IInv, Progress, KernelMatchesConfig, SlotsKeepNames, InStep

LEMMA BeginIInv == ASSUME IInv, NEW kind \in Kind, Begin(kind) PROVE IInv'
<1>1. /\ pc = "idle" /\ (kind = "reload" => present)
      /\ new' = StartFrom(kind)
      /\ pc' = IF kind = "reload" THEN "set_ratelimits" ELSE "prepare_ratelimits"
      /\ at' = 1 /\ result' = kind
      /\ UNCHANGED <<present, config, kernelVars, failures>>
  BY DEF Begin
<1>2. kind \in Request
  BY SetConfigAssumption DEF Request
<1> DEFINE d == [inactivate_all(config) EXCEPT !.rules = NoRules, !.meant = NoNames]
<1>3. /\ Books(d) /\ d.rules = NoRules
      /\ \A i \in Slot : /\ Ready(d.entries[i]) <=> Ready(config.entries[i])
                         /\ d.entries[i].name = config.entries[i].name
  BY InactivateAllFacts DEF IInv
<1>4. NoDangling(d)
  BY <1>3 DEF NoDangling, NoRules
<1>5. \/ new' = config /\ (kind = "full" => config = EmptyConfig)
      \/ new' = d
  BY <1>1 DEF StartFrom, IInv, Phase
<1> HIDE DEF d
<1>6. \A i \in Slot : Active(config.entries[i]) => ~Ready(config.entries[i])
  BY DEF Active, Ready
<1>7. Books(new') /\ (~PatchDeletesUsed => NoDangling(new')) /\ (kind = "full" => new'.rules = NoRules)
  BY <1>3, <1>4, <1>5, EmptyFacts DEF IInv
<1>8. SlotsKeepNames'
  BY <1>1, <1>3, <1>5, <1>6 DEF SlotsKeepNames
<1>9. KernelType' /\ Phase'
  BY <1>1, <1>2, <1>7, SetConfigAssumption DEF IInv, KernelType, kernelVars, Phase
<1>10. Progress' /\ KernelMatchesConfig'
  BY <1>1, <1>2 DEF Progress, KernelMatchesConfig, Request
<1>11. InStep'
  BY <1>1 DEF IInv, InStep, kernelVars
<1>12. Books(config') /\ (~PatchDeletesUsed => NoDangling(config'))
  BY <1>1 DEF IInv
<1> QED
  BY <1>7, <1>8, <1>9, <1>10, <1>11, <1>12, Zenon DEF IInv, NoDangling

(* A step of the updater: only its own XfwConfig changes. *)
LEMMA PrepareIInv ==
    ASSUME IInv, pc \in {"prepare_ratelimits", "prepare_rules"},
           UNCHANGED <<present, config, kernelVars, pc, at, result, failures>>,
           Books(new'), ~PatchDeletesUsed => NoDangling(new'),
           new'.rules = new.rules \/ pc = "prepare_rules",
           \A i \in Slot : ~Ready(new.entries[i]) =>
               ~Ready(new'.entries[i]) /\ new'.entries[i].name = new.entries[i].name
    PROVE  IInv'
<1>1. KernelType' /\ Phase' /\ Progress' /\ KernelMatchesConfig' /\ InStep' /\ SlotsKeepNames'
  BY DEF IInv, KernelType, Phase, Progress, KernelMatchesConfig, InStep, SlotsKeepNames, kernelVars
<1>2. Books(config') /\ (~PatchDeletesUsed => NoDangling(config'))
  BY DEF IInv
<1> QED
  BY <1>1, <1>2, Zenon DEF IInv, NoDangling

LEMMA UpsertIInv == ASSUME IInv, NEW n \in Name, NEW r \in Rate, Upsert(n, r) PROVE IInv'
<1>1. /\ pc = "prepare_ratelimits" /\ (Find(new, n) # {} \/ new.free # <<>>)
      /\ new' = upsert(new, n, r)
      /\ UNCHANGED <<present, config, kernelVars, pc, at, result, failures>>
  BY DEF Upsert
<1>2. Books(new)
  BY DEF IInv
<1>3. /\ Books(new') /\ new'.rules = new.rules /\ new'.meant = new.meant
      /\ \E i \in Slot :
            /\ Ready(new.entries[i]) \/ new.entries[i].name = n
            /\ Active(new'.entries[i]) /\ new'.entries[i].name = n
            /\ \A k \in Slot : k # i => new'.entries[k] = new.entries[k]
  BY <1>1, <1>2, UpsertFacts
<1>4. PICK i \in Slot : /\ Ready(new.entries[i]) \/ new.entries[i].name = n
                        /\ Active(new'.entries[i]) /\ new'.entries[i].name = n
                        /\ \A k \in Slot : k # i => new'.entries[k] = new.entries[k]
  BY <1>3
<1>5. ~Ready(new'.entries[i])
  BY <1>4 DEF Active, Ready
<1>6. \A k \in Slot : ~Ready(new.entries[k]) =>
         ~Ready(new'.entries[k]) /\ new'.entries[k].name = new.entries[k].name
  BY <1>4, <1>5
<1>7. ~PatchDeletesUsed => NoDangling(new')
  <2> SUFFICES ASSUME ~PatchDeletesUsed, NEW s \in Sub, new.rules[s] # NoSlot
               PROVE  /\ Active(new'.entries[new.rules[s]])
                      /\ new'.entries[new.rules[s]].name = new.meant[s]
    BY <1>3 DEF NoDangling
  <2>1. /\ Active(new.entries[new.rules[s]]) /\ new.entries[new.rules[s]].name = new.meant[s]
        /\ new.rules[s] \in Slot
    BY DEF IInv, NoDangling, Books, Config
  <2>2. ~Ready(new.entries[new.rules[s]])
    BY <2>1 DEF Active, Ready
  <2> QED
    BY <1>4, <2>1, <2>2
<1> QED
  BY <1>1, <1>3, <1>6, <1>7, PrepareIInv

LEMMA DeleteIInv == ASSUME IInv, NEW n \in Name, Delete(n) PROVE IInv'
<1>1. /\ pc = "prepare_ratelimits" /\ new' = inactivate(new, n)
      /\ (result = "patch" /\ ~PatchDeletesUsed) => \A s \in Sub : new.rules[s] \notin Find(new, n)
      /\ UNCHANGED <<present, config, kernelVars, pc, at, result, failures>>
  BY DEF Delete
<1>2. /\ Books(new') /\ new'.rules = new.rules /\ new'.meant = new.meant
      /\ \A i \in Slot : /\ Ready(new'.entries[i]) <=> Ready(new.entries[i])
                         /\ new'.entries[i].name = new.entries[i].name
                         /\ i \notin Find(new, n) => new'.entries[i] = new.entries[i]
  BY <1>1, InactivateFacts DEF IInv
<1>3. ~PatchDeletesUsed => NoDangling(new')
  <2> SUFFICES ASSUME ~PatchDeletesUsed, NEW s \in Sub, new.rules[s] # NoSlot
               PROVE  /\ Active(new'.entries[new.rules[s]])
                      /\ new'.entries[new.rules[s]].name = new.meant[s]
    BY <1>2 DEF NoDangling
  <2>1. result # "full"
    BY <1>1 DEF IInv, Phase, NoRules
  <2>2. result # "reload"
    BY <1>1 DEF IInv, Phase
  <2>3. result \in Request
    BY <1>1 DEF IInv, Phase
  <2>4. new.rules[s] \notin Find(new, n)
    BY <1>1, <2>1, <2>2, <2>3 DEF Request
  <2>5. /\ Active(new.entries[new.rules[s]]) /\ new.entries[new.rules[s]].name = new.meant[s]
        /\ new.rules[s] \in Slot
    BY DEF IInv, NoDangling, Books, Config
  <2> QED
    BY <1>2, <2>4, <2>5
<1> QED
  BY <1>1, <1>2, <1>3, PrepareIInv

LEMMA SetRuleIInv == ASSUME IInv, NEW s \in Sub, NEW n \in Name, SetRule(s, n) PROVE IInv'
<1>1. /\ pc = "prepare_rules"
      /\ UNCHANGED <<present, config, kernelVars, pc, at, result, failures>>
  BY DEF SetRule
<1>2. PICK i \in ActiveIndex(new, n) : new' = [new EXCEPT !.rules[s] = i, !.meant[s] = n]
  BY DEF SetRule
<1>3. i \in Slot /\ Active(new.entries[i]) /\ new.entries[i].name = n
  BY DEF ActiveIndex, Find, Active
<1>4. new \in Config
  BY DEF IInv, Books
<1>5. /\ new'.entries = new.entries /\ new'.free = new.free /\ new' \in Config
      /\ \A t \in Sub : /\ new'.rules[t] = IF t = s THEN i ELSE new.rules[t]
                        /\ new'.meant[t] = IF t = s THEN n ELSE new.meant[t]
  BY <1>2, <1>3, <1>4 DEF Config
<1>6. Books(new')
  BY <1>5 DEF IInv, Books
<1>7. ~PatchDeletesUsed => NoDangling(new')
  BY <1>3, <1>5 DEF IInv, NoDangling
<1> QED
  BY <1>1, <1>5, <1>6, <1>7, PrepareIInv

LEMMA ClearRuleIInv == ASSUME IInv, NEW s \in Sub, ClearRule(s) PROVE IInv'
<1>1. /\ pc = "prepare_rules"
      /\ new' = [new EXCEPT !.rules[s] = NoSlot, !.meant[s] = NoName]
      /\ UNCHANGED <<present, config, kernelVars, pc, at, result, failures>>
  BY DEF ClearRule
<1>2. new \in Config
  BY DEF IInv, Books
<1>3. /\ new'.entries = new.entries /\ new'.free = new.free /\ new' \in Config
      /\ \A t \in Sub : /\ new'.rules[t] = IF t = s THEN NoSlot ELSE new.rules[t]
                        /\ new'.meant[t] = IF t = s THEN NoName ELSE new.meant[t]
  BY <1>1, <1>2 DEF Config
<1>4. Books(new')
  BY <1>3 DEF IInv, Books
<1>5. ~PatchDeletesUsed => NoDangling(new')
  BY <1>3 DEF IInv, NoDangling
<1> QED
  BY <1>1, <1>3, <1>4, <1>5, PrepareIInv

(* The updater has finished one of its phases. *)
LEMMA PreparedIInv == ASSUME IInv, RatelimitsPrepared \/ RulesPrepared PROVE IInv'
<1>1. /\ pc \in {"prepare_ratelimits", "prepare_rules"}
      /\ pc' \in {"prepare_rules", "set_ratelimits"}
      /\ UNCHANGED <<present, config, kernelVars, new, at, result, failures>>
  BY DEF RatelimitsPrepared, RulesPrepared
<1>2. Phase'
  BY <1>1 DEF IInv, Phase, kernelVars
<1>3. KernelType' /\ Progress' /\ KernelMatchesConfig' /\ InStep' /\ SlotsKeepNames'
  BY <1>1 DEF IInv, KernelType, Progress, KernelMatchesConfig, InStep, SlotsKeepNames, kernelVars
<1> QED
  BY <1>1, <1>2, <1>3 DEF IInv, NoDangling

LEMMA AbortIInv == ASSUME IInv, Abort PROVE IInv'
<1>1. /\ failures' = failures + 1 /\ pc' = "idle" /\ new' = EmptyConfig /\ at' = 1
      /\ result' = "failed" /\ UNCHANGED <<present, config, kernelVars>>
  BY DEF Abort
<1>2. failures \in Nat /\ failures' # 0 /\ failures' \in Nat
  BY <1>1 DEF IInv, KernelType
<1>3. KernelType' /\ Phase'
  BY <1>1, <1>2, SetConfigAssumption DEF IInv, KernelType, Phase, kernelVars, Request
<1>4. Progress' /\ KernelMatchesConfig' /\ InStep' /\ SlotsKeepNames'
  BY <1>1, <1>2 DEF Progress, KernelMatchesConfig, InStep, SlotsKeepNames
<1>5. Books(config') /\ (~PatchDeletesUsed => NoDangling(config'))
  BY <1>1 DEF IInv
<1>6. Books(new') /\ NoDangling(new')
  BY <1>1, EmptyFacts
<1> QED
  BY <1>3, <1>4, <1>5, <1>6, Zenon DEF IInv, NoDangling

LEMMA SetRatelimitsIInv == ASSUME IInv, SetRatelimits PROVE IInv'
<1>1. /\ pc = "set_ratelimits" /\ pc' = "subsystems"
      /\ named_rates' = [i \in Slot |-> IF i \in WrittenSlots(new)
                                          THEN new.entries[i].rate ELSE named_rates[i]]
      /\ writtenFor' = [i \in Slot |-> IF i \in WrittenSlots(new)
                                        THEN new.entries[i].name ELSE writtenFor[i]]
      /\ UNCHANGED <<present, config, rules, meant, rules_active, new, at, result, failures>>
  BY DEF SetRatelimits
<1>2. \A i \in Slot : i \in WrittenSlots(new) <=> Active(new.entries[i])
  BY DEF WrittenSlots, Active
<1>3. \A i \in Slot : new.entries[i].rate \in Rate \cup {0} /\ new.entries[i].name \in Name \cup {NoName}
  BY DEF IInv, Books, Config, Entry
<1>4. KernelType'
  BY <1>1, <1>3 DEF IInv, KernelType
<1>5. Phase'
  BY <1>1 DEF IInv, Phase
<1>6. Progress'
  BY <1>1, <1>2 DEF IInv, Phase, Progress
<1>7. KernelMatchesConfig' /\ SlotsKeepNames'
  BY <1>1 DEF IInv, Phase, Request, KernelMatchesConfig, SlotsKeepNames
<1>8. InStep'
  <2> SUFFICES ASSUME failures = 0, rules_active
               PROVE  /\ \A i \in Slot : Active(config.entries[i]) => writtenFor'[i] = config.entries[i].name
                      /\ \A s \in Sub : rules[s] = config.rules[s] /\ meant[s] = config.meant[s]
    BY <1>1 DEF InStep
  <2>1. \A i \in Slot : Active(config.entries[i]) =>
           writtenFor[i] = config.entries[i].name /\ new.entries[i].name = config.entries[i].name
    BY <1>1 DEF IInv, InStep, SlotsKeepNames
  <2> QED
    BY <1>1, <2>1 DEF IInv, InStep
<1> QED
  BY <1>1, <1>4, <1>5, <1>6, <1>7, <1>8 DEF IInv, NoDangling

LEMMA UpdateSubsystemIInv == ASSUME IInv, UpdateSubsystem PROVE IInv'
<1> DEFINE t == Subsystem[at]
<1>1. /\ pc = "subsystems" /\ at <= Len(Subsystem)
      /\ rules' = [rules EXCEPT ![t] = new.rules[t]]
      /\ meant' = [meant EXCEPT ![t] = new.meant[t]]
      /\ at' = at + 1
      /\ UNCHANGED <<present, config, named_rates, writtenFor, rules_active, pc, new, result, failures>>
  BY DEF UpdateSubsystem
<1>2. Len(Subsystem) \in Nat /\ at \in 1..Len(Subsystem) /\ at \in Nat
  BY <1>1, SetConfigAssumption DEF IInv, Phase
<1>3. t \in Sub /\ \A j \in 1..Len(Subsystem) : Subsystem[j] \in Sub
  BY <1>2 DEF Sub
<1> HIDE DEF t
<1>4. new.rules[t] \in Slot \cup {NoSlot} /\ new.meant[t] \in Name \cup {NoName}
  BY <1>3 DEF IInv, Books, Config
<1>5. \A s \in Sub : /\ rules'[s] = IF s = t THEN new.rules[t] ELSE rules[s]
                     /\ meant'[s] = IF s = t THEN new.meant[t] ELSE meant[s]
  BY <1>1, <1>3 DEF IInv, KernelType
<1>6. KernelType'
  BY <1>1, <1>4 DEF IInv, KernelType
<1>7. Phase'
  BY <1>1, <1>2 DEF IInv, Phase
<1>8. Progress'
  <2>1. ASSUME NEW j \in 1..(at' - 1)
        PROVE  rules'[Subsystem[j]] = new.rules[Subsystem[j]] /\ meant'[Subsystem[j]] = new.meant[Subsystem[j]]
    <3>1. Subsystem[j] \in Sub /\ (j \in 1..(at - 1) \/ Subsystem[j] = t)
      BY <1>1, <1>2, <1>3 DEF t
    <3>2. j \in 1..(at - 1) => /\ rules[Subsystem[j]] = new.rules[Subsystem[j]]
                               /\ meant[Subsystem[j]] = new.meant[Subsystem[j]]
      BY <1>1 DEF IInv, Progress
    <3> QED
      BY <1>5, <3>1, <3>2
  <2> QED
    BY <1>1, <2>1 DEF IInv, Progress
<1>9. KernelMatchesConfig' /\ SlotsKeepNames'
  BY <1>1 DEF IInv, Phase, Request, KernelMatchesConfig, SlotsKeepNames
<1>10. InStep'
  BY <1>1, <1>5 DEF IInv, InStep
<1> QED
  BY <1>1, <1>6, <1>7, <1>8, <1>9, <1>10 DEF IInv, NoDangling

LEMMA FinishIInv == ASSUME IInv, Finish PROVE IInv'
<1>1. /\ pc = "subsystems" /\ at > Len(Subsystem) /\ rules_active' = TRUE /\ present' = TRUE
      /\ config' = free_inactive(new) /\ pc' = "idle" /\ new' = EmptyConfig /\ at' = 1
      /\ result' = "ok" /\ UNCHANGED <<named_rates, writtenFor, rules, meant, failures>>
  BY DEF Finish
<1>2. /\ Books(config') /\ config'.rules = new.rules /\ config'.meant = new.meant
      /\ \A i \in Slot : Active(new.entries[i]) \/ Active(config'.entries[i])
                              => config'.entries[i] = new.entries[i]
  BY <1>1, FreeInactiveFacts DEF IInv
<1>3. \A s \in Sub : rules[s] = new.rules[s] /\ meant[s] = new.meant[s]
  <2> TAKE s \in Sub
  <2>1. PICK j \in 1..Len(Subsystem) : s = Subsystem[j]
    BY DEF Sub
  <2>2. j \in 1..(at - 1)
    BY <1>1, <2>1, SetConfigAssumption DEF IInv, Phase
  <2> QED
    BY <1>1, <2>1, <2>2 DEF IInv, Progress
<1>4. rules = new.rules
  BY <1>3 DEF IInv, KernelType, Books, Config
<1>5. \A i \in Slot : Active(config'.entries[i]) =>
         named_rates[i] = config'.entries[i].rate /\ writtenFor[i] = config'.entries[i].name
  BY <1>1, <1>2 DEF IInv, Progress
<1>6. KernelMatchesConfig'
  BY <1>1, <1>2, <1>4, <1>5 DEF KernelMatchesConfig, Active
<1>7. KernelType' /\ Phase'
  BY <1>1, SetConfigAssumption DEF IInv, KernelType, Phase, Request
<1>8. Progress' /\ SlotsKeepNames'
  BY <1>1 DEF Progress, SlotsKeepNames
<1>9. InStep'
  BY <1>1, <1>2, <1>3, <1>5 DEF InStep
<1>10. Books(new') /\ NoDangling(new')
  BY <1>1, EmptyFacts
<1>11. ~PatchDeletesUsed => NoDangling(config')
  <2> SUFFICES ASSUME ~PatchDeletesUsed, NEW s \in Sub, new.rules[s] # NoSlot
               PROVE  /\ Active(config'.entries[new.rules[s]])
                      /\ config'.entries[new.rules[s]].name = new.meant[s]
    BY <1>2 DEF NoDangling
  <2>1. /\ Active(new.entries[new.rules[s]]) /\ new.entries[new.rules[s]].name = new.meant[s]
        /\ new.rules[s] \in Slot
    BY DEF IInv, NoDangling, Books, Config
  <2> QED
    BY <1>2, <2>1
<1> QED
  BY <1>2, <1>6, <1>7, <1>8, <1>9, <1>10, <1>11, Zenon DEF IInv, NoDangling

LEMMA NextIInv == IInv /\ [Next]_vars => IInv'
<1> SUFFICES ASSUME IInv, [Next]_vars PROVE IInv'
  OBVIOUS
<1>1. CASE UNCHANGED vars
  BY <1>1 DEF vars, kernelVars, IInv, KernelType, Phase, Progress, KernelMatchesConfig, InStep,
              SlotsKeepNames, NoDangling
<1>2. CASE Next
  BY <1>2, BeginIInv, UpsertIInv, DeleteIInv, SetRuleIInv, ClearRuleIInv, PreparedIInv, AbortIInv,
     SetRatelimitsIInv, UpdateSubsystemIInv, FinishIInv DEF Next
<1> QED
  BY <1>1, <1>2

LEMMA InductiveInvariant == Spec => []IInv
<1>1. Init => IInv
  BY InitIInv
<1> QED
  BY <1>1, NextIInv, PTL DEF Spec

-----------------------------------------------------------------------------
(* upsert, inactivate and free_inactive keep free_indices_ and the slots   *)
(* in step: every ReadyToUse slot is queued exactly once, no other is.     *)
THEOREM TypeCorrect == Spec => []TypeOK
<1>1. IInv => TypeOK
  BY BooksOK DEF IInv, KernelType, Phase, TypeOK
<1> QED
  BY <1>1, InductiveInvariant, PTL

(* After set_config has returned normally, rules and named rates in the    *)
(* kernel are those of config_, whatever earlier requests left behind.     *)
THEOREM KernelFollowsConfig == Spec => []KernelMatchesConfig
<1>1. IInv => KernelMatchesConfig
  BY DEF IInv
<1> QED
  BY <1>1, InductiveInvariant, PTL

(* Where no PATCH deletes a limit in use, free_inactive never frees a slot *)
(* that a rule of config_ refers to, and no slot changes its name under a  *)
(* rule.                                                                   *)
THEOREM RulesKeepTheirLimit == ASSUME ~PatchDeletesUsed PROVE Spec => []NoDanglingRule
<1>1. IInv => NoDanglingRule
  BY DEF IInv, NoDangling, NoDanglingRule, Active
<1> QED
  BY <1>1, InductiveInvariant, PTL

(* Where no PATCH deletes a limit in use and no update has failed, every   *)
(* live rule is held to a rate written for the name its configuration      *)
(* gave, also while set_config is half way through the subsystems.         *)
THEOREM LiveRulesMeanTheirName == ASSUME ~PatchDeletesUsed PROVE Spec => []EnforcesItsName
<1>1. ASSUME IInv, rules_active, failures = 0, NEW s \in Sub, rules[s] # NoSlot
      PROVE  writtenFor[rules[s]] = meant[s]
  <2>1. rules[s] \in Slot
    BY <1>1 DEF IInv, KernelType
  <2>2. CASE rules[s] = config.rules[s] /\ meant[s] = config.meant[s]
    BY <1>1, <2>1, <2>2 DEF IInv, NoDangling, InStep
  <2>3. CASE pc = "subsystems" /\ rules[s] = new.rules[s] /\ meant[s] = new.meant[s]
    BY <1>1, <2>1, <2>3 DEF IInv, NoDangling, Progress
  <2> QED
    BY <1>1, <2>2, <2>3 DEF IInv, InStep
<1>2. IInv => EnforcesItsName
  BY <1>1 DEF EnforcesItsName
<1> QED
  BY <1>2, InductiveInvariant, PTL
=============================================================================
