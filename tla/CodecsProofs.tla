----------------------------- MODULE CodecsProofs -----------------------------
(***************************************************************************)
(* Theorems of Codecs and of the modules it is composed of: for any number *)
(* of surfaces, slots and submissions, any pictures of the four codecs and *)
(* every failure.                                                          *)
(***************************************************************************)
EXTENDS Codecs, FiniteSetTheorems, SequenceTheorems, WellFoundedInduction, TLAPS

-----------------------------------------------------------------------------
(* Least elements, which also serve for induction. *)

LEMMA LeastNumber ==
  ASSUME NEW T \in SUBSET Nat, T # {}
  PROVE  \E m \in T : \A k \in T : m <= k
<1> DEFINE R == OpToRel(<, Nat)
<1>1. IsWellFoundedOn(R, Nat)
  BY NatLessThanWellFounded
<1>2. \A k, m \in Nat : k < m => <<k, m>> \in R
  BY DEF OpToRel
<1> HIDE DEF R
<1>3. PICK m \in T : \A k \in T : <<k, m>> \notin R
  BY <1>1, WFMin
<1>4. \A k \in T : k \in Nat /\ m \in Nat /\ ~(k < m)
  BY <1>2, <1>3
<1> QED BY <1>3, <1>4

\* What holds of 0 and of the successors, up to a bound, has no least exception.
\* The numbers of which it holds are given as a set.
LEMMA UpTo ==
  ASSUME NEW n \in Nat, NEW T,
         0 \in T, \A k \in 0 .. n - 1 : k \in T => k + 1 \in T
  PROVE  \A k \in 0 .. n : k \in T
<1> DEFINE Without == {k \in 0 .. n : k \notin T}
<1> SUFFICES ASSUME Without # {} PROVE FALSE
  OBVIOUS
<1>1. PICK m \in Without : \A k \in Without : m <= k
  <2>1. Without \in SUBSET Nat
    OBVIOUS
  <2> HIDE DEF Without
  <2> QED BY <2>1, LeastNumber
<1>2. m \in 1 .. n /\ m - 1 \in 0 .. n - 1 /\ m \notin T
  BY <1>1
<1>3. m - 1 \in T
  BY <1>1, <1>2
<1>4. (m - 1) + 1 \in T
  BY <1>2, <1>3
<1>5. (m - 1) + 1 = m
  BY <1>2
<1> QED BY <1>2, <1>4, <1>5

LEMMA MinOf ==
  ASSUME NEW T \in SUBSET Nat, T # {}
  PROVE  Min(T) \in T /\ \A k \in T : Min(T) <= k
<1>1. \E m \in T : \A k \in T : m <= k
  BY LeastNumber
<1> QED BY <1>1 DEF Min

-----------------------------------------------------------------------------
(* The table of references: what its operators find and change. *)

Entry == [pic : Pics, age : 0 .. MaxAge, used : BOOLEAN, valid : BOOLEAN, reserved : BOOLEAN]
Tables == [Slots -> Entry]

\* A picture has one entry.
Distinct(d) ==
  \A i, j \in Slots : d[i].valid /\ d[j].valid /\ d[i].pic = d[j].pic => i = j

Sound(d) == d \in Tables /\ Distinct(d)

LEMMA SlotNumbers == Slots \in SUBSET Nat /\ NoSlot \notin Slots /\ 1 \in Slots
BY DpbAssumption DEF DpbAssumption, Slots, NoSlot

\* A table is not what is left of one.
LEMMA TableNotBroken == \A d \in Tables : d # Broken
<1>1. DOMAIN Broken = {}
  BY DEF Broken
<1> QED BY <1>1, SlotNumbers DEF Tables

\* dpb_lookup finds the entry of a picture when there is one.
Holds(d, i, p) == d[i].valid /\ d[i].pic = p
LEMMA LookupFinds ==
  ASSUME NEW d, NEW p
  PROVE  \/ Lookup(d, p) = NoSlot /\ \A i \in Slots : ~Holds(d, i, p)
         \/ Lookup(d, p) \in Slots /\ Holds(d, Lookup(d, p), p)
<1> DEFINE found == {i \in Slots : d[i].valid /\ d[i].pic = p}
<1>1. CASE found = {}
  BY <1>1 DEF Lookup, Holds
<1>2. CASE found # {}
  <2>1. found \in SUBSET Nat
    BY SlotNumbers
  <2>2. Min(found) \in found
    <3> HIDE DEF found
    <3> QED BY <1>2, <2>1, MinOf
  <2>3. Lookup(d, p) = Min(found)
    BY <1>2 DEF Lookup
  <2> QED BY <2>2, <2>3 DEF Holds
<1> QED BY <1>1, <1>2

\* It is the only one.
LEMMA LookupIs ==
  ASSUME NEW d, Distinct(d), NEW p, NEW i \in Slots, Holds(d, i, p)
  PROVE  Lookup(d, p) = i
BY LookupFinds DEF Distinct, Holds

\* dpb_find_entry: an entry that is free, or the oldest one that is not used.
Free(d, i) == ~d[i].valid /\ ~d[i].reserved
Oldest(d, i) ==
  /\ ~d[i].used /\ d[i].age < MaxAge
  /\ \A j \in Slots : ~d[j].used /\ d[j].age < MaxAge => d[i].age <= d[j].age
LEMMA FindEntryFinds ==
  ASSUME NEW d \in Tables
  PROVE  \/ FindEntry(d) = NoSlot /\ \A i \in Slots : d[i].used \/ d[i].age = MaxAge
         \/ FindEntry(d) \in Slots /\ (Free(d, FindEntry(d)) \/ Oldest(d, FindEntry(d)))
<1> DEFINE free   == {i \in Slots : ~d[i].valid /\ ~d[i].reserved}
           unused == {i \in Slots : ~d[i].used /\ d[i].age < MaxAge}
           oldest == {i \in unused : \A j \in unused : d[i].age <= d[j].age}
<1>0. \A i \in Slots : d[i] \in Entry /\ d[i].age \in 0 .. MaxAge
  BY DEF Tables, Entry
<1>a. MaxAge \in Nat
  BY DpbAssumption DEF DpbAssumption
<1>b. FindEntry(d) = IF free # {} THEN Min(free) ELSE IF unused # {} THEN Min(oldest) ELSE NoSlot
  BY DEF FindEntry
<1>1. CASE free # {}
  <2>1. Min(free) \in free
    <3>1. free \in SUBSET Nat
      BY SlotNumbers
    <3> HIDE DEF free
    <3> QED BY <1>1, <3>1, MinOf
  <2>2. FindEntry(d) = Min(free)
    <3> HIDE DEF free, unused, oldest
    <3> QED BY <1>1, <1>b
  <2>3. PICK k : k = FindEntry(d) /\ k \in free
    <3> HIDE DEF free
    <3> QED BY <2>1, <2>2
  <2>4. k \in Slots /\ Free(d, k)
    BY <2>3 DEF Free
  <2> QED BY <2>3, <2>4
<1>2. CASE free = {} /\ unused # {}
  <2>1. oldest # {}
    <3> DEFINE ages == {d[i].age : i \in unused}
    <3>1. ages \in SUBSET Nat /\ ages # {}
      BY <1>0, <1>2, <1>a
    <3>2. PICK a \in ages : \A b \in ages : a <= b
      <4> HIDE DEF ages
      <4> QED BY <3>1, LeastNumber
    <3> QED BY <3>2
  <2>2. Min(oldest) \in oldest
    <3>1. oldest \in SUBSET Nat
      BY SlotNumbers
    <3> HIDE DEF oldest
    <3> QED BY <2>1, <3>1, MinOf
  <2>3. FindEntry(d) = Min(oldest)
    <3> HIDE DEF free, unused, oldest
    <3> QED BY <1>2, <1>b
  <2>4. PICK k : k = FindEntry(d) /\ k \in oldest
    <3> HIDE DEF oldest
    <3> QED BY <2>2, <2>3
  <2>5. k \in Slots /\ Oldest(d, k)
    BY <2>4 DEF Oldest
  <2> QED BY <2>4, <2>5
<1>3. CASE free = {} /\ unused = {}
  <2>1. FindEntry(d) = NoSlot
    <3> HIDE DEF free, unused, oldest
    <3> QED BY <1>3, <1>b
  <2>2. \A i \in Slots : d[i].used \/ d[i].age = MaxAge
    BY <1>0, <1>3, <1>a
  <2> QED BY <2>1, <2>2
<1> QED BY <1>1, <1>2, <1>3


\* An entry is written for picture p, in slot k.
Written(d, e, now, p, k) ==
  /\ k \in Slots /\ e \in Tables
  /\ e[k].pic = p /\ e[k].valid /\ e[k].used /\ e[k].age = now
  /\ \A i \in Slots : i # k => e[i] = d[i]

\* A picture that is not in the table is written to one entry.
LEMMA WrittenSound ==
  ASSUME NEW d, Sound(d), NEW e, NEW now, NEW p, NEW k, Written(d, e, now, p, k),
         \A i \in Slots : Holds(d, i, p) => i = k
  PROVE  Sound(e)
<1> SUFFICES ASSUME NEW i \in Slots, NEW j \in Slots, e[i].valid, e[j].valid, e[i].pic = e[j].pic
             PROVE  i = j
  BY DEF Sound, Distinct, Written
<1>1. CASE i # k /\ j # k
  BY <1>1 DEF Written, Sound, Distinct
<1>2. CASE i = k /\ j # k
  BY <1>2 DEF Written, Holds
<1>3. CASE i # k /\ j = k
  BY <1>3 DEF Written, Holds
<1> QED BY <1>1, <1>2, <1>3

\* dpb_insert of a picture that is not there.
LEMMA InsertWrites ==
  ASSUME NEW d \in Tables, NEW now \in 0 .. MaxAge, NEW p \in Pics, NEW slot \in Slots \cup {NoSlot},
         Lookup(d, p) = NoSlot, NEW k \in Slots, k = IF slot = NoSlot THEN FindEntry(d) ELSE slot
  PROVE  Written(d, Insert(d, now, p, slot), now, p, k)
<1>1. Insert(d, now, p, slot) =
        [d EXCEPT ![k] = [pic |-> p, age |-> now, used |-> TRUE, valid |-> TRUE, reserved |-> FALSE]]
  BY SlotNumbers DEF Insert
<1> QED BY <1>1 DEF Written, Tables, Entry

\* dpb_update breaks a table only when it finds no entry, and writes to an entry
\* that no reference has.
LEMMA TouchWrites ==
  ASSUME NEW d, Sound(d), NEW now \in 0 .. MaxAge, NEW p \in Pics,
         NEW e, e = Touch(d, now, p), NEW k, k = IF Lookup(d, p) = NoSlot THEN FindEntry(d) ELSE Lookup(d, p)
  PROVE  /\ k = NoSlot => e = Broken /\ \A i \in Slots : d[i].used \/ d[i].age = MaxAge
         /\ k # NoSlot =>
              /\ Written(d, e, now, p, k) /\ Sound(e)
              /\ Lookup(d, p) = NoSlot => Free(d, k) \/ Oldest(d, k)
<1>0. d \in Tables /\ d # Broken
  BY TableNotBroken DEF Sound
<1>1. CASE Lookup(d, p) # NoSlot
  <2>1. k \in Slots /\ Holds(d, k, p) /\ \A i \in Slots : Holds(d, i, p) => i = k
    BY <1>1, LookupFinds, LookupIs DEF Sound
  <2>2. e = [d EXCEPT ![k] = [d[k] EXCEPT !.age = now, !.used = TRUE]]
    BY <1>0, <1>1 DEF Touch
  <2>3. d[k] \in Entry
    BY <1>0, <2>1 DEF Tables
  <2>4. Written(d, e, now, p, k)
    <3>0. [d[k] EXCEPT !.age = now, !.used = TRUE] \in Entry
      BY <2>3 DEF Entry
    <3>1. e \in [Slots -> Entry] /\ \A i \in Slots : i # k => e[i] = d[i]
      BY <1>0, <2>1, <2>2, <3>0 DEF Tables
    <3>2. e[k] = [d[k] EXCEPT !.age = now, !.used = TRUE]
      BY <1>0, <2>1, <2>2 DEF Tables
    <3>3. e[k].pic = p /\ e[k].valid /\ e[k].used /\ e[k].age = now
      BY <2>1, <2>3, <3>2 DEF Holds, Entry
    <3> QED BY <2>1, <3>1, <3>3 DEF Written, Tables
  <2> QED BY <1>1, <2>1, <2>4, WrittenSound, SlotNumbers
<1>2. CASE Lookup(d, p) = NoSlot
  <2>1. e = Insert(d, now, p, NoSlot) /\ k = FindEntry(d)
    BY <1>0, <1>2 DEF Touch
  <2>2. \A i \in Slots : ~Holds(d, i, p)
    BY <1>2, LookupFinds, SlotNumbers
  <2>3. CASE k = NoSlot
    <3>1. e = Broken
      BY <1>2, <2>1, <2>3 DEF Insert
    <3> QED BY <1>0, <2>1, <2>3, <3>1, FindEntryFinds, SlotNumbers
  <2>4. CASE k # NoSlot
    <3>1. k \in Slots /\ (Free(d, k) \/ Oldest(d, k))
      BY <1>0, <2>1, <2>4, FindEntryFinds
    <3>2. Written(d, e, now, p, k)
      BY <1>0, <1>2, <2>1, <3>1, InsertWrites
    <3> QED BY <1>0, <1>2, <2>2, <2>4, <3>1, <3>2, WrittenSound
  <2> QED BY <2>3, <2>4
<1> QED BY <1>1, <1>2

-----------------------------------------------------------------------------
(* The run of dpb_update over the references. *)

\* Of a sound table, so many of its slots are occupied by pictures of a smaller
\* set: one is left.
LEMMA SlotLeft ==
  ASSUME NEW t, Sound(t), NEW J \in SUBSET Slots, NEW C, IsFiniteSet(C), Cardinality(C) < Size,
         \A j \in J : t[j].valid /\ t[j].pic \in C
  PROVE  \E j \in Slots : j \notin J
<1> SUFFICES ASSUME \A j \in Slots : t[j].valid /\ t[j].pic \in C PROVE FALSE
  OBVIOUS
<1> DEFINE pic == [j \in Slots |-> t[j].pic]
<1>1. pic \in [Slots -> C]
  OBVIOUS
<1>2. IsFiniteSet(Slots) /\ Cardinality(Slots) = Size
  BY FS_Interval, DpbAssumption DEF DpbAssumption, Slots
<1>3. PICK i, j \in Slots : i # j /\ pic[i] = pic[j]
  <2> HIDE DEF pic
  <2> QED BY <1>1, <1>2, FS_PigeonHole
<1> QED BY <1>3 DEF Sound, Distinct

\* The recursion that defines the run has a solution.
LEMMA RunExists ==
  ASSUME NEW d, NEW now, NEW pics \in Seq(Pics)
  PROVE  \E run : run = [n \in 0 .. Len(pics) |->
                           IF n = 0 THEN Unused(d) ELSE Touch(run[n - 1], now, pics[n])]
<1> DEFINE T == {k \in Nat : \E f : f = [n \in 0 .. k |->
                                 IF n = 0 THEN Unused(d) ELSE Touch(f[n - 1], now, pics[n])]}
<1>1. 0 \in T
  <2> DEFINE f == [n \in 0 .. 0 |-> Unused(d)]
  <2>1. f = [n \in 0 .. 0 |-> IF n = 0 THEN Unused(d) ELSE Touch(f[n - 1], now, pics[n])]
    OBVIOUS
  <2> HIDE DEF f
  <2> QED BY <2>1
<1>2. ASSUME NEW k \in Nat, k \in T PROVE k + 1 \in T
  <2>1. PICK f : f = [n \in 0 .. k |-> IF n = 0 THEN Unused(d) ELSE Touch(f[n - 1], now, pics[n])]
    BY <1>2
  <2> DEFINE g == [n \in 0 .. k + 1 |-> IF n <= k THEN f[n] ELSE Touch(f[k], now, pics[n])]
  <2>2. \A n \in 0 .. k : f[n] = IF n = 0 THEN Unused(d) ELSE Touch(f[n - 1], now, pics[n])
    BY <2>1
  <2>3. ASSUME NEW n \in 0 .. k + 1
        PROVE  g[n] = IF n = 0 THEN Unused(d) ELSE Touch(g[n - 1], now, pics[n])
    <3>1. CASE n = 0
      BY <2>2, <3>1
    <3>2. CASE n \in 1 .. k
      <4>1. g[n] = f[n] /\ g[n - 1] = f[n - 1] /\ n # 0
        BY <3>2
      <4> QED BY <2>2, <3>2, <4>1
    <3>3. CASE n = k + 1
      <4>1. g[n] = Touch(f[k], now, pics[n]) /\ g[n - 1] = f[k] /\ n # 0
        BY <3>3
      <4> QED BY <4>1
    <3> QED BY <3>1, <3>2, <3>3
  <2>4. g = [n \in 0 .. k + 1 |-> IF n = 0 THEN Unused(d) ELSE Touch(g[n - 1], now, pics[n])]
    <3>1. g = [n \in 0 .. k + 1 |-> g[n]]
      OBVIOUS
    <3> HIDE DEF g
    <3> QED BY <2>3, <3>1
  <2>5. \E f1 : f1 = [n \in 0 .. k + 1 |->
                    IF n = 0 THEN Unused(d) ELSE Touch(f1[n - 1], now, pics[n])]
    <3> HIDE DEF g
    <3> QED BY <2>4
  <2>6. k + 1 \in Nat
    OBVIOUS
  <2> QED BY <2>5, <2>6, Zenon
<1>3. Len(pics) \in Nat
  OBVIOUS
<1>4. \A k \in 0 .. Len(pics) : k \in T
  <2>1. \A k \in 0 .. Len(pics) - 1 : k \in T => k + 1 \in T
    BY <1>2, <1>3
  <2> HIDE DEF T
  <2> QED BY <1>1, <1>3, <2>1, UpTo
<1>5. Len(pics) \in T
  BY <1>3, <1>4
<1> QED BY <1>5

\* The table after the first n references.
Run(d, now, pics) ==
  CHOOSE run : run = [n \in 0 .. Len(pics) |->
                       IF n = 0 THEN Unused(d) ELSE Touch(run[n - 1], now, pics[n])]

LEMMA RunSteps ==
  ASSUME NEW d, NEW now, NEW pics \in Seq(Pics)
  PROVE  /\ Update(d, now, pics) = Run(d, now, pics)[Len(pics)]
         /\ Run(d, now, pics)[0] = Unused(d)
         /\ \A n \in 0 .. Len(pics) - 1 :
              Run(d, now, pics)[n + 1] = Touch(Run(d, now, pics)[n], now, pics[n + 1])
<1>1. Update(d, now, pics) = Run(d, now, pics)[Len(pics)]
  BY DEF Update, Run
<1> DEFINE run == Run(d, now, pics)
<1>2. run = [n \in 0 .. Len(pics) |-> IF n = 0 THEN Unused(d) ELSE Touch(run[n - 1], now, pics[n])]
  BY RunExists DEF Run
<1> HIDE DEF run
<1>3. Len(pics) \in Nat
  OBVIOUS
<1>4. run[0] = Unused(d)
  BY <1>2, <1>3
<1>5. ASSUME NEW n \in 0 .. Len(pics) - 1
      PROVE  run[n + 1] = Touch(run[n], now, pics[n + 1])
  <2>1. n + 1 \in 0 .. Len(pics) /\ n + 1 # 0 /\ (n + 1) - 1 = n
    BY <1>3
  <2> QED BY <1>2, <2>1
<1> QED BY <1>1, <1>4, <1>5 DEF run

\* What the first n references leave of table d: their entries are the used ones,
\* and the others are as they were.
Ran(d, t, now, pics, n) ==
  /\ Sound(t)
  /\ \A i \in Slots : t[i].used =>
       /\ t[i].valid /\ t[i].age = now
       /\ \E m \in 1 .. n : t[i].pic = pics[m]
  /\ \A m \in 1 .. n : \E i \in Slots : t[i].used /\ Holds(t, i, pics[m])
  /\ \A i \in Slots : ~t[i].used => t[i] = Unused(d)[i]

LEMMA UnusedSound ==
  ASSUME NEW d, Sound(d)
  PROVE  Sound(Unused(d)) /\ \A i \in Slots : ~Unused(d)[i].used
<1>1. \A i \in Slots : d[i] \in Entry
  BY DEF Sound, Tables
<1>2. \A i \in Slots : [d[i] EXCEPT !.used = FALSE] \in Entry
  BY <1>1 DEF Entry
<1>3. \A i \in Slots : /\ Unused(d)[i].valid = d[i].valid /\ Unused(d)[i].pic = d[i].pic
                       /\ ~Unused(d)[i].used
  BY <1>1 DEF Unused, Entry
<1>4. Unused(d) \in Tables
  BY <1>2 DEF Unused, Tables
<1> QED BY <1>3, <1>4 DEF Sound, Distinct

LEMMA RunStarts ==
  ASSUME NEW d, Sound(d), NEW now, NEW pics
  PROVE  Ran(d, Unused(d), now, pics, 0)
BY UnusedSound DEF Ran

LEMMA RunContinues ==
  ASSUME NEW d, NEW now \in 0 .. MaxAge, NEW pics \in Seq(Pics), NEW n \in 0 .. Len(pics) - 1,
         NEW t, Ran(d, t, now, pics, n), NEW e, e = Touch(t, now, pics[n + 1]), e # Broken
  PROVE  Ran(d, e, now, pics, n + 1)
<1>0. Sound(t) /\ n + 1 \in 1 .. Len(pics) /\ pics[n + 1] \in Pics
  BY DEF Ran
<1> DEFINE p == pics[n + 1]
<1>1. PICK k : k = IF Lookup(t, p) = NoSlot THEN FindEntry(t) ELSE Lookup(t, p)
  OBVIOUS
<1>2. /\ Written(t, e, now, p, k) /\ Sound(e)
      /\ Lookup(t, p) = NoSlot => Free(t, k) \/ Oldest(t, k)
  BY <1>0, <1>1, TouchWrites
<1>3. \A i \in Slots : i # k => e[i] = t[i]
  BY <1>2 DEF Written
<1>4. k \in Slots /\ e[k].pic = p /\ e[k].valid /\ e[k].used /\ e[k].age = now
  BY <1>2 DEF Written
<1>5. t[k].used => t[k].pic = p
  <2>1. CASE Lookup(t, p) = NoSlot
    BY <1>2, <1>4, <2>1 DEF Ran, Free, Oldest
  <2>2. CASE Lookup(t, p) # NoSlot
    BY <1>1, <2>2, LookupFinds DEF Holds
  <2> QED BY <2>1, <2>2
<1>6. ASSUME NEW i \in Slots, e[i].used
      PROVE  e[i].valid /\ e[i].age = now /\ \E m \in 1 .. n + 1 : e[i].pic = pics[m]
  <2>1. CASE i = k
    BY <1>4, <2>1
  <2>2. CASE i # k
    <3>1. t[i].used /\ e[i] = t[i]
      BY <1>3, <1>6, <2>2
    <3> QED BY <3>1 DEF Ran
  <2> QED BY <2>1, <2>2
<1>7. ASSUME NEW m \in 1 .. n + 1
      PROVE  \E i \in Slots : e[i].used /\ Holds(e, i, pics[m])
  <2>1. CASE m = n + 1
    BY <1>4, <2>1 DEF Holds
  <2>2. CASE m \in 1 .. n
    <3>1. PICK i \in Slots : t[i].used /\ Holds(t, i, pics[m])
      BY <2>2 DEF Ran
    <3>2. CASE i = k
      BY <1>4, <1>5, <3>1, <3>2 DEF Holds
    <3>3. CASE i # k
      BY <1>3, <3>1, <3>3 DEF Holds
    <3> QED BY <3>2, <3>3
  <2> QED BY <2>1, <2>2
<1>8. \A i \in Slots : ~e[i].used => e[i] = Unused(d)[i]
  BY <1>3, <1>4 DEF Ran
<1> QED BY <1>2, <1>6, <1>7, <1>8 DEF Ran

\* The slots K hold pictures that may not be lost: they and the references are of
\* a set C that has fewer members than there are slots, and all other entries are
\* older than theirs.
Spare(d, K, past, C) ==
  /\ K \in SUBSET Slots /\ IsFiniteSet(C) /\ Cardinality(C) < Size /\ past \in 0 .. MaxAge
  /\ \A i \in K : d[i].valid /\ d[i].pic \in C /\ d[i].age >= past
  /\ \A i \in Slots \ K : d[i].age < past
Kept(d, t, K) == \A i \in K : t[i].valid /\ t[i].pic = d[i].pic

LEMMA RunKeeps ==
  ASSUME NEW d, Sound(d), NEW now \in 0 .. MaxAge, NEW pics \in Seq(Pics), NEW n \in 0 .. Len(pics) - 1,
         NEW t, Ran(d, t, now, pics, n), NEW e, e = Touch(t, now, pics[n + 1]),
         NEW K, NEW past, NEW C, Spare(d, K, past, C), \A m \in 1 .. Len(pics) : pics[m] \in C,
         Kept(d, t, K)
  PROVE  e # Broken /\ Kept(d, e, K)
<1>0. Sound(t) /\ t \in Tables /\ n + 1 \in 1 .. Len(pics) /\ pics[n + 1] \in Pics
  BY DEF Ran, Sound
<1> DEFINE p == pics[n + 1]
<1>1. PICK k : k = IF Lookup(t, p) = NoSlot THEN FindEntry(t) ELSE Lookup(t, p)
  OBVIOUS
<1>2. \A i \in Slots : Unused(d)[i].age = d[i].age
  BY DEF Unused, Sound, Tables, Entry
<1>a. MaxAge \in Nat /\ past \in 0 .. MaxAge /\ \A i \in Slots : d[i].age \in 0 .. MaxAge /\ t[i].age \in 0 .. MaxAge
  BY <1>0, DpbAssumption DEF DpbAssumption, Spare, Sound, Tables, Entry
<1>3. PICK j \in Slots : ~t[j].used /\ t[j].age < past
  <2> DEFINE J == {i \in Slots : t[i].used} \cup K
  <2>1. \A i \in J : t[i].valid /\ t[i].pic \in C
    BY DEF Ran, Spare, Kept
  <2>2. J \in SUBSET Slots /\ IsFiniteSet(C) /\ Cardinality(C) < Size
    BY DEF Spare
  <2>3. PICK j \in Slots : j \notin J
    <3> HIDE DEF J
    <3> QED BY <1>0, <2>1, <2>2, SlotLeft
  <2> QED BY <1>2, <2>3 DEF Ran, Spare
<1>4. k # NoSlot
  BY <1>0, <1>1, <1>3, <1>a, TouchWrites
<1>5. /\ Written(t, e, now, p, k) /\ Sound(e)
      /\ Lookup(t, p) = NoSlot => Free(t, k) \/ Oldest(t, k)
  BY <1>0, <1>1, <1>4, TouchWrites
<1>6. ASSUME NEW i \in K PROVE e[i].valid /\ e[i].pic = d[i].pic
  <2>0. i \in Slots /\ t[i].valid /\ t[i].pic = d[i].pic
    BY DEF Kept, Spare
  <2>1. CASE i # k
    BY <1>5, <2>0, <2>1 DEF Written
  <2>2. CASE i = k /\ Lookup(t, p) # NoSlot
    <3>1. t[k].pic = p
      BY <1>1, <2>2, LookupFinds DEF Holds
    <3> QED BY <1>5, <2>0, <2>2, <3>1 DEF Written
  <2>3. CASE i = k /\ Lookup(t, p) = NoSlot
    <3>1. ~t[i].used /\ t[i].age <= t[j].age
      BY <1>3, <1>5, <1>a, <2>0, <2>3 DEF Free, Oldest
    <3>2. t[i].age = d[i].age
      BY <1>2, <2>0, <3>1 DEF Ran
    <3> QED BY <1>3, <1>a, <2>0, <3>1, <3>2 DEF Spare
  <2> QED BY <2>1, <2>2, <2>3
<1>7. e # Broken
  BY <1>5, TableNotBroken DEF Sound
<1> QED BY <1>6, <1>7 DEF Kept

\* dpb_update: the used entries are those of the references.
LEMMA UpdateRuns ==
  ASSUME NEW d, Sound(d), NEW now \in 0 .. MaxAge, NEW pics \in Seq(Pics),
         Update(d, now, pics) # Broken
  PROVE  Ran(d, Update(d, now, pics), now, pics, Len(pics))
<1> DEFINE run == Run(d, now, pics)
           T == {n \in 0 .. Len(pics) : run[n] = Broken \/ Ran(d, run[n], now, pics, n)}
<1>0. Len(pics) \in Nat
  OBVIOUS
<1>1. 0 \in T
  BY <1>0, RunSteps, RunStarts
<1>2. ASSUME NEW n \in 0 .. Len(pics) - 1, n \in T PROVE n + 1 \in T
  <2>0. n + 1 \in 0 .. Len(pics)
    BY <1>0
  <2>1. run[n + 1] = Touch(run[n], now, pics[n + 1])
    BY RunSteps
  <2>2. CASE run[n] = Broken
    BY <2>0, <2>1, <2>2 DEF Touch
  <2>3. CASE Ran(d, run[n], now, pics, n)
    BY <2>0, <2>1, <2>3, RunContinues
  <2> QED BY <1>2, <2>2, <2>3
<1>3. \A n \in 0 .. Len(pics) : n \in T
  <2> HIDE DEF T
  <2> QED BY <1>0, <1>1, <1>2, UpTo
<1>4. Len(pics) \in T
  BY <1>0, <1>3
<1> QED BY <1>4, RunSteps

\* It breaks no table with slots to spare, and keeps the pictures that count.
LEMMA UpdateKeeps ==
  ASSUME NEW d, Sound(d), NEW now \in 0 .. MaxAge, NEW pics \in Seq(Pics),
         NEW K, NEW past, NEW C, Spare(d, K, past, C), \A m \in 1 .. Len(pics) : pics[m] \in C
  PROVE  Update(d, now, pics) # Broken /\ Kept(d, Update(d, now, pics), K)
<1> DEFINE run == Run(d, now, pics)
           T == {n \in 0 .. Len(pics) : /\ run[n] # Broken /\ Ran(d, run[n], now, pics, n)
                                        /\ Kept(d, run[n], K)}
<1>0. Len(pics) \in Nat
  OBVIOUS
<1>1. 0 \in T
  <2>1. run[0] = Unused(d) /\ Ran(d, Unused(d), now, pics, 0)
    BY RunSteps, RunStarts
  <2>2. Unused(d) # Broken
    BY UnusedSound, TableNotBroken DEF Sound
  <2>3. Kept(d, Unused(d), K)
    BY DEF Kept, Unused, Spare, Sound, Tables, Entry
  <2> QED BY <1>0, <2>1, <2>2, <2>3
<1>2. ASSUME NEW n \in 0 .. Len(pics) - 1, n \in T PROVE n + 1 \in T
  <2>0. n + 1 \in 0 .. Len(pics)
    BY <1>0
  <2>1. run[n + 1] = Touch(run[n], now, pics[n + 1])
    BY RunSteps
  <2>2. run[n + 1] # Broken /\ Kept(d, run[n + 1], K)
    BY <1>2, <2>1, RunKeeps
  <2>3. Ran(d, run[n + 1], now, pics, n + 1)
    BY <1>2, <2>1, <2>2, RunContinues
  <2> QED BY <2>0, <2>2, <2>3
<1>3. \A n \in 0 .. Len(pics) : n \in T
  <2> HIDE DEF T
  <2> QED BY <1>0, <1>1, <1>2, UpTo
<1>4. Len(pics) \in T
  BY <1>0, <1>3
<1> QED BY <1>4, RunSteps

-----------------------------------------------------------------------------
(* One picture: set_controls on the table. *)

\* The references come in any order.
LEMMA ReferencesListed ==
  ASSUME NEW R \in SUBSET Surfaces, Cardinality(R) <= MaxRefs, NEW pics \in SetToSeqs(R)
  PROVE  /\ pics \in Seq(Pics) /\ IsFiniteSet(R) /\ \A m \in 1 .. Len(pics) : pics[m] \in R
         /\ ToSet(pics) = {pics[m] : m \in 1 .. Len(pics)} /\ ToSet(pics) \in SUBSET R
         /\ Cardinality(ToSet(pics)) <= MaxRefs
<1>1. IsFiniteSet(R) /\ Cardinality(R) \in Nat
  BY FS_Subset, FS_CardinalityType, DpbAssumption DEF DpbAssumption
<1>2. pics \in [1 .. Cardinality(R) -> R]
  BY DEF SetToSeqs
<1>3. pics \in Seq(R) /\ Len(pics) = Cardinality(R)
  BY <1>1, <1>2
<1>4. pics \in Seq(Pics) /\ \A m \in 1 .. Len(pics) : pics[m] \in R
  BY <1>2, <1>3 DEF Pics
<1>5. ToSet(pics) = {pics[m] : m \in 1 .. Len(pics)}
  BY <1>3 DEF ToSet
<1>6. ToSet(pics) \in SUBSET R
  BY <1>4, <1>5
<1>7. Cardinality(ToSet(pics)) <= Cardinality(R) /\ Cardinality(ToSet(pics)) \in Nat
  BY <1>1, <1>6, FS_Subset, FS_CardinalityType
<1> QED BY <1>1, <1>4, <1>5, <1>6, <1>7, DpbAssumption DEF DpbAssumption

\* The slot that is reserved for the picture, and the table with it.
LEMMA ReserveIs ==
  ASSUME NEW d, Sound(d), NEW c \in Surfaces, NEW k, k = OutputSlot(d, c)
  PROVE  /\ k = NoSlot => Reserve(d, c) = Broken /\ \A i \in Slots : d[i].used \/ d[i].age = MaxAge
         /\ k # NoSlot =>
              /\ k \in Slots /\ (Holds(d, k, c) \/ Free(d, k) \/ Oldest(d, k))
              /\ Reserve(d, c) # Broken /\ Sound(Reserve(d, c))
              /\ Reserve(d, c)[k].age = 0
              /\ \A i \in Slots : i # k => Reserve(d, c)[i] = d[i]
              /\ \A i \in Slots : ~Holds(Reserve(d, c), i, c)
<1>0. d \in Tables
  BY DEF Sound
<1>1. CASE k = NoSlot
  <2>1. FindEntry(d) = NoSlot
    BY <1>1 DEF OutputSlot
  <2> QED BY <1>0, <1>1, <2>1, FindEntryFinds, SlotNumbers DEF Reserve
<1>2. CASE k # NoSlot
  <2>1. /\ k \in Slots /\ (Holds(d, k, c) \/ Free(d, k) \/ Oldest(d, k))
        /\ \A i \in Slots : i # k => ~Holds(d, i, c)
    <3>1. CASE Lookup(d, c) = NoSlot
      BY <1>0, <1>2, <3>1, FindEntryFinds, LookupFinds, SlotNumbers DEF OutputSlot
    <3>2. CASE Lookup(d, c) # NoSlot
      BY <3>2, LookupFinds, LookupIs DEF OutputSlot, Sound
    <3> QED BY <3>1, <3>2
  <2> DEFINE reserved == [Cleared EXCEPT !.reserved = TRUE]
  <2>2. Reserve(d, c) = [d EXCEPT ![k] = reserved]
    BY <1>2 DEF Reserve
  <2>3. reserved \in Entry /\ ~reserved.valid /\ reserved.age = 0
    <3>1. /\ reserved \in [pic : {NoSurface}, age : {0}, used : BOOLEAN, valid : BOOLEAN, reserved : BOOLEAN]
          /\ ~reserved.valid /\ reserved.age = 0
      BY DEF Cleared
    <3>2. NoSurface \in Pics /\ 0 \in 0 .. MaxAge
      BY DpbAssumption DEF DpbAssumption, Pics
    <3> HIDE DEF reserved
    <3> QED BY <3>1, <3>2 DEF Entry
  <2> HIDE DEF reserved
  <2>4. /\ Reserve(d, c) \in Tables /\ Reserve(d, c)[k] = reserved
        /\ \A i \in Slots : i # k => Reserve(d, c)[i] = d[i]
    BY <1>0, <2>1, <2>2, <2>3 DEF Tables
  <2>5. Sound(Reserve(d, c))
    BY <2>3, <2>4 DEF Sound, Distinct
  <2>6. \A i \in Slots : ~Holds(Reserve(d, c), i, c)
    BY <2>1, <2>3, <2>4 DEF Holds
  <2>7. Reserve(d, c) # Broken
    BY <2>4, TableNotBroken
  <2> QED BY <1>2, <2>1, <2>3, <2>4, <2>5, <2>6, <2>7
<1> QED BY <1>1, <1>2

\* The table that is described to the device.
LEMMA DescribedIs ==
  ASSUME Sound(dpb), age \in 0 .. MaxAge, NEW c \in Surfaces, NEW pics \in Seq(Pics),
         Described(c, pics) # Broken
  PROVE  /\ OutputSlot(dpb, c) # NoSlot /\ NextAge \in 0 .. MaxAge
         /\ Described(c, pics) = Update(Reserve(dpb, c), NextAge, pics)
         /\ Ran(Reserve(dpb, c), Described(c, pics), NextAge, pics, Len(pics))
<1>1. Reserve(dpb, c) # Broken
  BY DEF Described
<1>2. OutputSlot(dpb, c) # NoSlot
  BY <1>1, ReserveIs
<1>3. NextAge \in 0 .. MaxAge
  BY DpbAssumption DEF DpbAssumption, NextAge
<1>4. Described(c, pics) = Update(Reserve(dpb, c), NextAge, pics)
  BY <1>1 DEF Described
<1>5. Sound(Reserve(dpb, c))
  BY <1>2, ReserveIs
<1> QED BY <1>2, <1>3, <1>4, <1>5, UpdateRuns

\* dpb_insert of the decoded picture.
LEMMA InsertIs ==
  ASSUME NEW t, Sound(t), NEW now \in 0 .. MaxAge, NEW c \in Surfaces, NEW k \in Slots,
         NEW e, e = Insert(t, now, c, k)
  PROVE  /\ Sound(e) /\ \A i \in Slots : i # k => e[i] = t[i]
         /\ \/ e = t /\ \E i \in Slots : Holds(t, i, c)
            \/ Written(t, e, now, c, k) /\ \A i \in Slots : ~Holds(t, i, c)
<1>1. CASE Lookup(t, c) # NoSlot
  <2>1. e = t
    BY <1>1 DEF Insert
  <2> QED BY <1>1, <2>1, LookupFinds
<1>2. CASE Lookup(t, c) = NoSlot
  <2>1. \A i \in Slots : ~Holds(t, i, c)
    BY <1>2, LookupFinds, SlotNumbers
  <2>2. t \in Tables /\ c \in Pics
    BY DEF Sound, Pics
  <2>3. Written(t, e, now, c, k)
    BY <1>2, <2>2, InsertWrites, SlotNumbers
  <2>4. Sound(e)
    BY <2>1, <2>3, WrittenSound
  <2> QED BY <2>1, <2>3, <2>4 DEF Written
<1> QED BY <1>1, <1>2

-----------------------------------------------------------------------------
(* The invariant of the table. *)

Current == {current} \ {NoSurface}

\* A table of the size that streams need: room for the references, for the picture
\* that was decoded last and for the next one; and the count of pictures does not
\* overflow within the bound on behaviours.
Roomy == MaxRefs + 2 <= Size /\ MaxSubmitted <= MaxAge

TableOK ==
  /\ Sound(dpb) /\ age \in 0 .. MaxAge
  /\ refs \in SUBSET Surfaces /\ Cardinality(refs) <= MaxRefs /\ current \in Pics
  /\ submitted \in 0 .. MaxSubmitted
  /\ submitted = 0 => refs = {} /\ current = NoSurface
  /\ active = refs

\* In a table that started as zeros, the used entries are exactly the valid ones of
\* the last picture and of its references, and all others are older.
Aged ==
  /\ age = submitted
  /\ \A i \in Slots : dpb[i].used =>
       dpb[i].valid /\ dpb[i].age = age /\ dpb[i].pic \in refs \cup Current
  /\ \A i \in Slots : ~dpb[i].used => dpb[i].age < age \/ dpb[i].age = 0
  /\ \A i \in Slots : dpb[i].valid /\ dpb[i].pic \in refs \cup Current => dpb[i].used

Counted == zeroed /\ MaxSubmitted <= MaxAge
DpbInv ==
  /\ TableOK /\ zeroed \in BOOLEAN /\ gaps \in BOOLEAN /\ crashed \in BOOLEAN
  /\ Counted => Aged
  /\ Roomy => SlotsSuffice

LEMMA DpbInitInv == DpbInit => DpbInv
<1> SUFFICES ASSUME DpbInit PROVE DpbInv
  OBVIOUS
<1>0. MaxAge \in Nat /\ MaxRefs \in Nat /\ MaxSubmitted \in Nat /\ NoSurface \in Pics /\ 1 \in Slots
  BY SlotNumbers, DpbAssumption DEF DpbAssumption, Pics
<1>1. Cleared \in Entry /\ ~Cleared.valid /\ ~Cleared.used /\ Cleared.age = 0
  <2>1. /\ Cleared \in [pic : {NoSurface}, age : {0}, used : BOOLEAN, valid : BOOLEAN, reserved : BOOLEAN]
        /\ ~Cleared.valid /\ ~Cleared.used /\ Cleared.age = 0
    BY DEF Cleared
  <2> QED BY <1>0, <2>1 DEF Entry
<1>2. \E e \in Entry : dpb = [i \in Slots |-> IF i = 1 THEN e ELSE Cleared]
  <2>1. CASE zeroed
    <3>1. dpb = [i \in Slots |-> Cleared]
      BY <2>1 DEF DpbInit
    <3>2. dpb = [i \in Slots |-> IF i = 1 THEN Cleared ELSE Cleared]
      BY <3>1
    <3> QED BY <1>1, <3>2
  <2>2. CASE ~zeroed
    <3>1. PICK e \in AnyEntry : dpb = [i \in Slots |-> IF i = 1 THEN e ELSE Cleared]
      BY <2>2 DEF DpbInit, AnyTable
    <3>2. e \in Entry
      BY <1>0 DEF AnyEntry, Entry
    <3> QED BY <3>1, <3>2
  <2> QED BY <2>1, <2>2
<1>3. Sound(dpb)
  BY <1>1, <1>2 DEF Sound, Tables, Distinct
<1>4. /\ age \in 0 .. MaxAge /\ zeroed \in BOOLEAN /\ gaps \in BOOLEAN /\ ~crashed
      /\ refs = {} /\ current = NoSurface /\ active = {} /\ submitted = 0
  <2>1. refs = {} /\ current = NoSurface /\ active = {} /\ submitted = 0 /\ zeroed \in BOOLEAN
    BY DEF DpbInit
  <2>2. crashed = FALSE /\ (gaps = FALSE \/ gaps = zeroed)
    BY Zenon DEF DpbInit
  <2>3. age = 0 \/ age = MaxAge
    BY DEF DpbInit
  <2>4. age \in 0 .. MaxAge
    BY <1>0, <2>3
  <2>5. ~crashed /\ gaps \in BOOLEAN
    BY <2>1, <2>2, Zenon
  <2> QED BY <2>1, <2>4, <2>5, Zenon
<1>5. Cardinality(refs) = 0
  BY <1>4, FS_EmptySet
<1>6. TableOK
  BY <1>0, <1>3, <1>4, <1>5 DEF TableOK
<1>7. zeroed => Aged
  <2> SUFFICES ASSUME zeroed PROVE Aged
    OBVIOUS
  <2>1. age = 0 /\ \A i \in Slots : dpb[i] = Cleared
    BY DEF DpbInit
  <2> QED BY <1>1, <1>4, <2>1 DEF Aged
<1>8. crashed = FALSE
  BY Zenon DEF DpbInit
<1> QED BY <1>4, <1>6, <1>7, <1>8, Zenon DEF DpbInv, Counted, SlotsSuffice

\* A picture may be submitted: what the client and the code pass on.
LEMMA Ready ==
  ASSUME TableOK, NEW c \in Surfaces, NEW R \in SUBSET Surfaces, DpbReady(c, R), NEW pics \in SetToSeqs(R)
  PROVE  /\ pics \in Seq(Pics) /\ IsFiniteSet(R) /\ \A m \in 1 .. Len(pics) : pics[m] \in R
         /\ ToSet(pics) = {pics[m] : m \in 1 .. Len(pics)} /\ ToSet(pics) \in SUBSET R
         /\ Cardinality(ToSet(pics)) <= MaxRefs /\ Cardinality(R) <= MaxRefs
         /\ submitted + 1 \in 1 .. MaxSubmitted
         /\ ~gaps => R \in SUBSET (refs \cup Current)
         /\ c # NoSurface /\ c \in Pics
<1>1. Cardinality(R) <= MaxRefs /\ (~gaps => R \in SUBSET (refs \cup Current))
  BY DEF DpbReady, MayFollow, Current
<1>2. submitted + 1 \in 1 .. MaxSubmitted
  <2>1. submitted < MaxSubmitted \/ submitted < MaxSubmitted \div 2
    BY DEF DpbReady, MayFollow
  <2>2. submitted \in Nat /\ MaxSubmitted \in Nat
    BY DpbAssumption DEF DpbAssumption, TableOK
  <2> QED BY <2>1, <2>2
<1>3. c # NoSurface /\ c \in Pics
  BY DpbAssumption DEF DpbAssumption, NoSurface, Pics
<1> QED BY <1>1, <1>2, <1>3, ReferencesListed

\* What set_controls makes of the table, whether the device accepted the controls
\* or not.
Decides(c, pics) ==
  /\ Submit(c, pics)
  /\ \/ dpb' = Insert(Described(c, pics), NextAge, c, OutputSlot(dpb, c))
     \/ dpb' = Described(c, pics)

\* The entries of the table after a picture: those of its references, that of
\* the picture itself when it was accepted, and what is left.
LEMMA SubmitWrites ==
  ASSUME TableOK, NEW c \in Surfaces, NEW pics \in Seq(Pics), Decides(c, pics),
         NEW k, k = OutputSlot(dpb, c), NEW t, t = Described(c, pics)
  PROVE  /\ k \in Slots /\ age' = NextAge /\ NextAge \in 0 .. MaxAge
         /\ Ran(Reserve(dpb, c), t, age', pics, Len(pics))
         /\ Sound(dpb') /\ \A i \in Slots : i # k => dpb'[i] = t[i]
         /\ \/ dpb' = t
            \/ Written(t, dpb', age', c, k) /\ \A i \in Slots : ~Holds(t, i, c)
<1>1. Sound(dpb) /\ age \in 0 .. MaxAge /\ t # Broken /\ age' = NextAge
  BY DEF TableOK, Decides, Submit
<1>2. /\ OutputSlot(dpb, c) # NoSlot /\ NextAge \in 0 .. MaxAge
      /\ Ran(Reserve(dpb, c), t, NextAge, pics, Len(pics))
  BY <1>1, DescribedIs
<1>3. k \in Slots
  BY <1>1, <1>2, ReserveIs
<1>4. Sound(t)
  BY <1>2 DEF Ran
<1>5. CASE dpb' = t
  BY <1>1, <1>2, <1>3, <1>4, <1>5
<1>6. CASE dpb' = Insert(t, NextAge, c, k)
  BY <1>1, <1>2, <1>3, <1>4, <1>6, InsertIs
<1> QED BY <1>5, <1>6 DEF Decides

LEMMA SubmitTable ==
  ASSUME TableOK, NEW c \in Surfaces, NEW R \in SUBSET Surfaces, DpbReady(c, R),
         NEW pics \in SetToSeqs(R), Decides(c, pics)
  PROVE  TableOK'
<1> DEFINE t == Described(c, pics)
<1>1. pics \in Seq(Pics) /\ \A m \in 1 .. Len(pics) : pics[m] \in R
  BY Ready
<1>2. /\ ToSet(pics) = {pics[m] : m \in 1 .. Len(pics)} /\ ToSet(pics) \in SUBSET R
      /\ Cardinality(ToSet(pics)) <= MaxRefs
      /\ submitted + 1 \in 1 .. MaxSubmitted /\ c \in Pics
  BY Ready
<1>3. /\ Sound(dpb') /\ age' \in 0 .. MaxAge
      /\ Ran(Reserve(dpb, c), t, age', pics, Len(pics))
  BY <1>1, SubmitWrites
<1>4. /\ refs' = ToSet(pics) /\ current' = c /\ submitted' = submitted + 1
      /\ active' = {t[i].pic : i \in {j \in Slots : t[j].valid /\ t[j].used}}
  BY DEF Decides, Submit
<1>5. active' = refs'
  <2>1. ASSUME NEW i \in Slots, t[i].valid, t[i].used PROVE t[i].pic \in refs'
    BY <1>2, <1>3, <1>4, <2>1 DEF Ran
  <2>2. ASSUME NEW m \in 1 .. Len(pics) PROVE pics[m] \in active'
    BY <1>3, <1>4 DEF Ran, Holds
  <2> HIDE DEF t
  <2> QED BY <1>2, <1>4, <2>1, <2>2
<1>6. submitted' \in 0 .. MaxSubmitted /\ submitted' # 0
  BY <1>2, <1>4, DpbAssumption DEF DpbAssumption
<1> QED BY <1>2, <1>3, <1>4, <1>5, <1>6 DEF TableOK

LEMMA SubmitAged ==
  ASSUME TableOK, NEW c \in Surfaces, NEW R \in SUBSET Surfaces, DpbReady(c, R),
         NEW pics \in SetToSeqs(R), Decides(c, pics), MaxSubmitted <= MaxAge, Aged
  PROVE  Aged'
<1> DEFINE t == Described(c, pics)
           d == Reserve(dpb, c)
           k == OutputSlot(dpb, c)
<1>1. pics \in Seq(Pics) /\ ToSet(pics) = {pics[m] : m \in 1 .. Len(pics)}
  BY Ready
<1>2. submitted + 1 \in 1 .. MaxSubmitted /\ c # NoSurface
  BY Ready
<1>3. /\ k \in Slots /\ age' = NextAge
      /\ Ran(d, t, age', pics, Len(pics))
      /\ Sound(dpb') /\ \A i \in Slots : i # k => dpb'[i] = t[i]
      /\ \/ dpb' = t
         \/ Written(t, dpb', age', c, k) /\ \A i \in Slots : ~Holds(t, i, c)
  BY <1>1, SubmitWrites
<1>4. /\ refs' = ToSet(pics) /\ current' = c /\ submitted' = submitted + 1
  BY DEF Decides, Submit
<1>5. age' = submitted' /\ age \in Nat /\ age' = age + 1
  <2>1. age = submitted /\ submitted + 1 \in 1 .. MaxAge /\ MaxAge \in Nat /\ submitted \in Nat
    BY <1>2, DpbAssumption DEF DpbAssumption, Aged, TableOK
  <2>2. (age + 1) % (MaxAge + 1) = age + 1
    BY <2>1
  <2> QED BY <1>3, <1>4, <2>1, <2>2 DEF NextAge
<1>6. refs' \cup Current' = {pics[m] : m \in 1 .. Len(pics)} \cup {c}
  BY <1>1, <1>2, <1>4 DEF Current
<1>7. /\ Sound(dpb) /\ k # NoSlot
      /\ d[k].age = 0 /\ Sound(d)
      /\ \A i \in Slots : i # k => d[i] = dpb[i]
      /\ \A i \in Slots : ~Holds(d, i, c)
  <2>1. Sound(dpb) /\ k # NoSlot
    BY <1>3, SlotNumbers DEF TableOK
  <2> QED BY <2>1, ReserveIs
<1>8. /\ \A i \in Slots : Unused(d)[i].age = d[i].age /\ Unused(d)[i].valid = d[i].valid
      /\ \A i \in Slots : Unused(d)[i].pic = d[i].pic /\ d[i].age \in Nat
  BY <1>7, DpbAssumption DEF DpbAssumption, Unused, Sound, Tables, Entry
<1> HIDE DEF t, d, k
<1>9. ASSUME NEW i \in Slots PROVE d[i].age <= age
  <2>1. CASE i = k
    <3>1. d[i].age = 0
      BY <1>7, <2>1
    <3> QED BY <1>5, <3>1
  <2>2. CASE i # k
    <3>1. dpb[i].age \in Nat /\ d[i] = dpb[i]
      BY <1>7, <1>8, <2>2
    <3>2. dpb[i].age = age \/ dpb[i].age < age \/ dpb[i].age = 0
      BY DEF Aged
    <3> QED BY <1>5, <3>1, <3>2
  <2> QED BY <2>1, <2>2

<1>10. ASSUME NEW i \in Slots, dpb'[i].used
       PROVE  dpb'[i].valid /\ dpb'[i].age = age' /\ dpb'[i].pic \in refs' \cup Current'
  <2>1. CASE dpb'[i] = t[i]
    BY <1>3, <1>6, <1>10, <2>1 DEF Ran
  <2>2. CASE dpb'[i] # t[i]
    <3>1. i = k /\ Written(t, dpb', age', c, k)
      BY <1>3, <2>2
    <3> QED BY <1>6, <3>1 DEF Written
  <2> QED BY <2>1, <2>2
<1>11. ASSUME NEW i \in Slots, ~dpb'[i].used
       PROVE  dpb'[i].age < age'
  <2>1. dpb'[i] = t[i]
    BY <1>3, <1>11 DEF Written
  <2>2. dpb'[i].age = d[i].age
    BY <1>3, <1>8, <1>11, <2>1 DEF Ran
  <2> QED BY <1>5, <1>8, <1>9, <2>2
<1>12. ASSUME NEW i \in Slots, dpb'[i].valid, dpb'[i].pic \in refs' \cup Current'
       PROVE  dpb'[i].used
  <2>1. CASE dpb'[i] # t[i]
    <3>1. i = k /\ Written(t, dpb', age', c, k)
      BY <1>3, <2>1
    <3> QED BY <3>1 DEF Written
  <2>2. CASE dpb'[i] = t[i] /\ \E m \in 1 .. Len(pics) : dpb'[i].pic = pics[m]
    <3>1. PICK m \in 1 .. Len(pics) : t[i].valid /\ t[i].pic = pics[m]
      BY <1>12, <2>2
    <3>2. PICK j \in Slots : t[j].used /\ t[j].valid /\ t[j].pic = pics[m]
      BY <1>3 DEF Ran, Holds
    <3>3. i = j
      BY <1>3, <3>1, <3>2 DEF Ran, Sound, Distinct
    <3> QED BY <2>2, <3>2, <3>3
  <2>3. CASE dpb'[i] = t[i] /\ dpb'[i].pic = c
    <3>1. SUFFICES ASSUME ~t[i].used PROVE FALSE
      BY <2>3
    <3>2. Holds(t, i, c)
      BY <1>12, <2>3 DEF Holds
    <3>3. Holds(d, i, c)
      BY <1>3, <1>8, <3>1, <3>2 DEF Ran, Holds
    <3> QED BY <1>7, <3>3
  <2> QED BY <1>6, <1>12, <2>1, <2>2, <2>3
<1> QED BY <1>5, <1>10, <1>11, <1>12 DEF Aged

\* The pictures that an entry may belong to after a picture are too few for the
\* table to be full.
LEMMA FewPictures ==
  ASSUME TableOK, MaxRefs + 2 <= Size
  PROVE  IsFiniteSet(refs \cup Current) /\ Cardinality(refs \cup Current) < Size
<1>1. IsFiniteSet(refs) /\ Cardinality(refs) \in Nat /\ Cardinality(refs) <= MaxRefs
  BY FS_Subset, FS_CardinalityType, DpbAssumption DEF DpbAssumption, TableOK
<1>2. IsFiniteSet(refs \cup {current})
      /\ Cardinality(refs \cup {current}) \in {Cardinality(refs), Cardinality(refs) + 1}
  BY <1>1, FS_AddElement
<1>3. refs \cup Current \in SUBSET (refs \cup {current})
  BY DEF Current
<1>4. /\ IsFiniteSet(refs \cup Current) /\ Cardinality(refs \cup Current) \in Nat
      /\ Cardinality(refs \cup Current) <= Cardinality(refs \cup {current})
  BY <1>2, <1>3, FS_Subset, FS_CardinalityType
<1> QED BY <1>1, <1>2, <1>4, DpbAssumption DEF DpbAssumption

\* No null entry is followed.
LEMMA Survives ==
  ASSUME TableOK, Aged, Roomy,
         NEW c \in Surfaces, NEW R \in SUBSET Surfaces, DpbReady(c, R), NEW pics \in SetToSeqs(R)
  PROVE  Described(c, pics) # Broken
<1> DEFINE d == Reserve(dpb, c)
<1>0. /\ MaxAge \in Nat \ {0} /\ MaxRefs \in Nat /\ Size \in Nat
      /\ NextAge \in 0 .. MaxAge /\ Sound(dpb)
  BY DpbAssumption DEF DpbAssumption, NextAge, TableOK
<1>1. /\ pics \in Seq(Pics) /\ IsFiniteSet(R) /\ \A m \in 1 .. Len(pics) : pics[m] \in R
      /\ Cardinality(R) <= MaxRefs /\ submitted + 1 \in 1 .. MaxSubmitted
  BY Ready
<1>2. \A i \in Slots : dpb[i].age \in Nat /\ dpb[i].age < MaxAge
  <2>1. age \in Nat /\ age < MaxAge
    BY <1>0, <1>1, DpbAssumption DEF DpbAssumption, Roomy, Aged, TableOK
  <2>2. \A i \in Slots : dpb[i].age \in 0 .. MaxAge
    BY <1>0 DEF Sound, Tables, Entry
  <2> QED BY <1>0, <2>1, <2>2 DEF Aged
<1>3. OutputSlot(dpb, c) # NoSlot
  <2> SUFFICES ASSUME OutputSlot(dpb, c) = NoSlot PROVE FALSE
    OBVIOUS
  <2>1. \A i \in Slots : dpb[i].used
    BY <1>0, <1>2, ReserveIs
  <2>2. \A i \in Slots : dpb[i].valid /\ dpb[i].pic \in refs \cup Current
    BY <2>1 DEF Aged
  <2>3. IsFiniteSet(refs \cup Current) /\ Cardinality(refs \cup Current) < Size
    BY FewPictures DEF Roomy
  <2> QED BY <1>0, <2>2, <2>3, SlotLeft
<1>4. /\ d # Broken /\ Sound(d) /\ OutputSlot(dpb, c) \in Slots
      /\ d[OutputSlot(dpb, c)].age = 0
      /\ \A i \in Slots : i # OutputSlot(dpb, c) => d[i] = dpb[i]
  BY <1>0, <1>3, ReserveIs
<1>5. \A i \in Slots : d[i].age < MaxAge
  BY <1>0, <1>2, <1>4
<1>6. Cardinality(R) < Size
  BY <1>0, <1>1, FS_CardinalityType DEF Roomy
<1>7. Spare(d, {}, MaxAge, R)
  BY <1>0, <1>1, <1>5, <1>6 DEF Spare
<1>8. Update(d, NextAge, pics) # Broken
  BY <1>0, <1>1, <1>4, <1>7, UpdateKeeps
<1> QED BY <1>4, <1>8 DEF Described

\* The references keep their slots.
LEMMA SubmitStays ==
  ASSUME TableOK, Aged, Roomy, ~gaps,
         NEW c \in Surfaces, NEW R \in SUBSET Surfaces, DpbReady(c, R), NEW pics \in SetToSeqs(R),
         Decides(c, pics), NEW p \in refs' \ {current'}, Lookup(dpb, p) # NoSlot
  PROVE  Lookup(dpb', p) = Lookup(dpb, p)
<1> DEFINE d == Reserve(dpb, c)
           t == Described(c, pics)
           k == OutputSlot(dpb, c)
           K == {i \in Slots : dpb[i].used /\ i # k}
           i0 == Lookup(dpb, p)
<1>0. /\ MaxAge \in Nat \ {0} /\ MaxRefs \in Nat /\ Size \in Nat /\ Sound(dpb)
      /\ age \in 0 .. MaxAge
  BY DpbAssumption DEF DpbAssumption, TableOK
<1>1. /\ pics \in Seq(Pics) /\ \A m \in 1 .. Len(pics) : pics[m] \in R
      /\ ToSet(pics) \in SUBSET R /\ R \in SUBSET (refs \cup Current)
  BY Ready
<1>2. /\ refs' = ToSet(pics) /\ current' = c
  BY DEF Decides, Submit
<1>3. p # c /\ p \in refs \cup Current
  BY <1>1, <1>2
<1>4. i0 \in Slots /\ Holds(dpb, i0, p) /\ dpb[i0].used
  <2>1. i0 \in Slots /\ Holds(dpb, i0, p)
    BY LookupFinds
  <2> QED BY <1>3, <2>1 DEF Aged, Holds
<1>5. /\ k \in Slots /\ age' = NextAge /\ NextAge \in 0 .. MaxAge
      /\ Ran(d, t, age', pics, Len(pics))
      /\ Sound(dpb') /\ \A i \in Slots : i # k => dpb'[i] = t[i]
  BY <1>1, SubmitWrites
<1>6. /\ Holds(dpb, k, c) \/ Free(dpb, k) \/ Oldest(dpb, k)
      /\ Sound(d) /\ d[k].age = 0 /\ \A i \in Slots : i # k => d[i] = dpb[i]
  <2>1. k # NoSlot
    BY <1>5, SlotNumbers
  <2> QED BY <1>0, <2>1, ReserveIs
<1>7. i0 # k
  BY <1>3, <1>4, <1>6 DEF Holds, Free, Oldest
<1>8. age > 0
  <2>1. submitted # 0
    BY <1>3 DEF TableOK, Current
  <2> QED BY <1>0, <2>1 DEF Aged
<1>9. Spare(d, K, age, refs \cup Current)
  <2>1. IsFiniteSet(refs \cup Current) /\ Cardinality(refs \cup Current) < Size
    BY FewPictures DEF Roomy
  <2>2. ASSUME NEW i \in K
        PROVE  d[i].valid /\ d[i].pic \in refs \cup Current /\ d[i].age = age
    BY <1>6 DEF Aged
  <2>3. ASSUME NEW i \in Slots \ K PROVE d[i].age < age
    <3>1. CASE i = k
      BY <1>0, <1>6, <1>8, <3>1
    <3>2. CASE i # k /\ ~dpb[i].used
      BY <1>0, <1>6, <1>8, <3>2 DEF Aged
    <3> QED BY <3>1, <3>2
  <2> HIDE DEF d, K
  <2>4. \A i \in K : d[i].valid /\ d[i].pic \in refs \cup Current /\ d[i].age >= age
    BY <1>0, <2>2
  <2>5. K \in SUBSET Slots
    BY DEF K
  <2> QED BY <1>0, <2>1, <2>3, <2>4, <2>5 DEF Spare
<1>10. t = Update(d, NextAge, pics)
  <2>1. t # Broken /\ Sound(dpb)
    BY <1>0 DEF Decides, Submit
  <2> QED BY <1>0, <1>1, <2>1, DescribedIs
<1>11. Kept(d, t, K)
  <2> HIDE DEF d, K, t
  <2>1. \A m \in 1 .. Len(pics) : pics[m] \in refs \cup Current
    BY <1>1
  <2> QED BY <1>1, <1>5, <1>6, <1>9, <1>10, <2>1, UpdateKeeps
<1>12. Holds(dpb', i0, p)
  BY <1>4, <1>5, <1>6, <1>7, <1>11 DEF Kept, Holds
<1> QED BY <1>4, <1>5, <1>12, LookupIs DEF Sound

-----------------------------------------------------------------------------
(* The controls of a slice. *)

SliceOf == [type : 0 .. 9, bipred : 0 .. 2, bits : SUBSET (DOMAIN SpsFlag \cup DOMAIN PpsFlag)]

\* No two bits of a parameter set have the same flag, and a flag is found again.
LEMMA FlagsDistinct ==
  /\ \A a, b \in DOMAIN SpsFlag : SpsFlag[a] = SpsFlag[b] => a = b
  /\ \A a, b \in DOMAIN PpsFlag : PpsFlag[a] = PpsFlag[b] => a = b
<1>1. \A a, b \in DOMAIN SpsFlag : SpsFlag[a] = SpsFlag[b] => a = b
  BY DEF SpsFlag
<1>2. \A a, b \in DOMAIN PpsFlag : PpsFlag[a] = PpsFlag[b] => a = b
  BY DEF PpsFlag
<1> QED BY <1>1, <1>2

LEMMA BitsReadBack ==
  ASSUME NEW sl \in SliceOf
  PROVE  sl.bits = {b \in DOMAIN SpsFlag : SpsFlag[b] \in Sps(sl)}
                   \cup {b \in DOMAIN PpsFlag : PpsFlag[b] \in Pps(sl).flags}
BY FlagsDistinct DEF Sps, Pps, SliceOf

\* The lists that a slice uses, and the weights that are sent for it.
LEMMA ListsOfSlice ==
  ASSUME NEW sl \in SliceOf
  PROVE  /\ SliceLists(sl) \in SUBSET {0, 1}
         /\ sl.type % 5 = P => SliceLists(sl) = {0}
         /\ sl.type % 5 = B => SliceLists(sl) = {0, 1}
         /\ sl.type = P /\ "weighted_pred_flag" \in sl.bits =>
              PredWeightsRequired(Pps(sl), sl) /\ PredWeights(sl) = {0}
         /\ sl.type = B /\ sl.bipred = 1 =>
              PredWeightsRequired(Pps(sl), sl) /\ PredWeights(sl) = {0, 1}
<1>0. sl.type \in 0 .. 9
  BY DEF SliceOf
<1>1. /\ SliceLists(sl) \in SUBSET {0, 1}
      /\ sl.type % 5 = P => SliceLists(sl) = {0}
      /\ sl.type % 5 = B => SliceLists(sl) = {0, 1}
  BY <1>0 DEF P, B, SliceLists, UsesList0, UsesList1
<1>2. ASSUME sl.type = P, "weighted_pred_flag" \in sl.bits
      PROVE  PredWeightsRequired(Pps(sl), sl) /\ PredWeights(sl) = {0}
  <2>1. PpsFlag["weighted_pred_flag"] = "WEIGHTED_PRED" /\ "weighted_pred_flag" \in DOMAIN PpsFlag
    BY DEF PpsFlag
  <2>2. "WEIGHTED_PRED" \in Pps(sl).flags
    BY <1>2, <2>1 DEF Pps
  <2> QED BY <1>0, <1>2, <2>2 DEF PredWeightsRequired, P, SP, B, PredWeights, SliceLists, UsesList0, UsesList1
<1>3. ASSUME sl.type = B, sl.bipred = 1
      PROVE  PredWeightsRequired(Pps(sl), sl) /\ PredWeights(sl) = {0, 1}
  <2>1. Pps(sl).weighted_bipred_idc = 1
    BY <1>3 DEF Pps
  <2> QED BY <1>0, <1>3, <2>1 DEF PredWeightsRequired, P, SP, B, PredWeights, SliceLists, UsesList0, UsesList1
<1> QED BY <1>1, <1>2, <1>3

\* Every index of the lists leads to the reference that was put there.
LEMMA ListsLead ==
  ASSUME TableOK, NEW c \in Surfaces, NEW pics \in Seq(Pics), Described(c, pics) # Broken,
         ToSet(pics) = {pics[m] : m \in 1 .. Len(pics)}, NEW p \in ToSet(pics)
  PROVE  Resolved(Described(c, pics), Index(Described(c, pics), p)) = p
<1> DEFINE t == Described(c, pics)
<1>1. Ran(Reserve(dpb, c), t, NextAge, pics, Len(pics))
  BY DescribedIs DEF TableOK
<1>2. PICK m \in 1 .. Len(pics) : p = pics[m]
  OBVIOUS
<1>3. PICK i \in Slots : Holds(t, i, p)
  BY <1>1, <1>2 DEF Ran
<1>4. Lookup(t, p) = i /\ i \in 1 .. Size /\ i # NoSlot
  BY <1>1, <1>3, LookupIs, SlotNumbers DEF Ran, Sound, Slots
<1>5. Index(t, p) = i - 1 /\ (i - 1) + 1 = i
  BY <1>4 DEF Index
<1> QED BY <1>3, <1>5 DEF Resolved, Holds

\* The structure of the controls.
H264Held ==
  [sps : H264Sps, pps : H264Pps, params : H264SliceParams, weights : H264PredWeights,
   scaling : {ListOrder8x8, ScalingList8x8}]

SliceInv == slice \in SliceOf /\ h264 \in H264Held /\ SliceControlsOwn
            /\ slice.bits = {b \in DOMAIN SpsFlag : SpsFlag[b] \in h264.sps}
                            \cup {b \in DOMAIN PpsFlag : PpsFlag[b] \in h264.pps.flags}

LEMMA ParameterSets ==
  ASSUME NEW sl \in SliceOf
  PROVE  Sps(sl) \in H264Sps /\ Pps(sl) \in H264Pps
<1>1. Sps(sl) \in H264Sps
  BY DEF Sps, H264Sps
<1>2. {PpsFlag[b] : b \in sl.bits \cap DOMAIN PpsFlag} \in
        SUBSET ({PpsFlag[b] : b \in DOMAIN PpsFlag} \cup {"SCALING_MATRIX_PRESENT"})
  OBVIOUS
<1>3. sl.bipred \in 0 .. 2
  BY DEF SliceOf
<1> QED BY <1>1, <1>2, <1>3 DEF Pps, H264Pps

LEMMA NoSliceIs == NoSlice \in SliceOf /\ NoSlice.type = 2 /\ NoSlice.bits = {}
BY DEF NoSlice, SliceOf

LEMMA SliceInitInv == H264Init => SliceInv
<1> SUFFICES ASSUME H264Init PROVE SliceInv
  OBVIOUS
<1>1. slice = NoSlice /\ slice \in SliceOf /\ slice.type = 2 /\ slice.bits = {}
  BY NoSliceIs DEF H264Init
<1>2. /\ h264.sps = {} /\ h264.pps = Pps(NoSlice) /\ h264.params.lists = {}
      /\ h264.params.found = << >> /\ h264.weights.lists = {}
  BY DEF H264Init
<1>3. [lists |-> {}, found |-> << >>] \in H264SliceParams
  <2>1. << >> \in [{} -> Pics]
    OBVIOUS
  <2>2. << >> \in UNION {[D -> Pics] : D \in SUBSET Surfaces}
    BY <2>1
  <2> QED BY <2>2 DEF H264SliceParams
<1>4. [own |-> FALSE, lists |-> {}] \in H264PredWeights
  BY DEF H264PredWeights
<1>5. Pps(NoSlice) \in H264Pps /\ {} \in H264Sps
  BY NoSliceIs, ParameterSets DEF H264Sps
<1>6. h264 \in H264Held
  <2> HIDE DEF H264Sps, H264Pps, H264SliceParams, H264PredWeights
  <2> QED BY <1>3, <1>4, <1>5 DEF H264Init, H264Held
<1>7. SliceControlsOwn
  <2>1. DOMAIN h264.params.found = {}
    BY <1>2
  <2> QED BY <1>1, <2>1 DEF SliceControlsOwn, P, B
<1>8. Pps(NoSlice).flags = {}
  BY NoSliceIs DEF Pps
<1> QED BY <1>1, <1>2, <1>6, <1>7, <1>8 DEF SliceInv

\* The controls that are set for a slice are its own.
LEMMA SliceStep ==
  ASSUME TableOK, SliceInv, NEW c \in Surfaces, NEW R \in SUBSET Surfaces, DpbReady(c, R),
         NEW pics \in SetToSeqs(R), NEW sl \in Slices, H264SetControls(c, pics, sl)
  PROVE  SliceInv'
<1> DEFINE t == Described(c, pics)
           params == SliceParams(t, sl, pics)
           weights == [own |-> TRUE, lists |-> PredWeights(sl)]
<1>0. sl \in SliceOf
  BY SlicesAssumption DEF SlicesAssumption, SliceOf
<1>1. /\ t # Broken /\ slice' = sl /\ mode' = mode /\ h264' = ControlsOf(c, pics, sl)
  BY DEF H264SetControls, DpbSetControls, Submit
<1>2. /\ pics \in Seq(Pics) /\ ToSet(pics) = {pics[m] : m \in 1 .. Len(pics)}
      /\ ToSet(pics) \in SUBSET Surfaces
  BY Ready
<1>3. \A p \in ToSet(pics) : Resolved(t, Index(t, p)) = p
  BY <1>1, <1>2, ListsLead
<1> HIDE DEF t
<1>4. /\ params.lists = SliceLists(sl)
      /\ \A p \in DOMAIN params.found : params.found[p] = p
  BY <1>3 DEF SliceParams
<1>5. params \in H264SliceParams
  <2> DEFINE D == IF SliceLists(sl) = {} THEN {} ELSE ToSet(pics)
             found == [p \in D |-> Resolved(t, Index(t, p))]
  <2>1. D \in SUBSET Surfaces /\ \A p \in D : Resolved(t, Index(t, p)) \in Pics
    BY <1>2, <1>3 DEF Pics
  <2>2. found \in [D -> Pics]
    <3> HIDE DEF D
    <3> QED BY <2>1
  <2>3. found \in UNION {[E -> Pics] : E \in SUBSET Surfaces}
    <3> HIDE DEF found, D
    <3> QED BY <2>1, <2>2
  <2>4. params = [lists |-> SliceLists(sl), found |-> found]
    BY DEF SliceParams
  <2>5. SliceLists(sl) \in SUBSET {0, 1}
    BY <1>0, ListsOfSlice
  <2> HIDE DEF found, params
  <2> QED BY <2>3, <2>4, <2>5 DEF H264SliceParams
<1>6. /\ weights.own = TRUE /\ weights.lists = PredWeights(sl) /\ weights \in H264PredWeights
  <2>1. PredWeights(sl) \in SUBSET {0, 1}
    BY <1>0, ListsOfSlice DEF PredWeights
  <2> QED BY <2>1 DEF H264PredWeights
<1>7. /\ DOMAIN h264 = {"sps", "pps", "params", "weights", "scaling"}
      /\ h264.params \in H264SliceParams /\ h264.weights \in H264PredWeights
  BY DEF SliceInv, H264Held
<1>8. [h264.weights EXCEPT !.own = FALSE] \in H264PredWeights
  BY <1>7 DEF H264PredWeights
<1> HIDE DEF params, weights
<1>9. h264' = [h264 EXCEPT !.sps = Sps(sl), !.pps = Pps(sl),
                           !.params = IF mode = "slice" THEN params ELSE h264.params,
                           !.weights = IF PredWeightsRequired(Pps(sl), sl) THEN weights
                                       ELSE [h264.weights EXCEPT !.own = FALSE],
                           !.scaling = ScalingList8x8]
  BY <1>1 DEF ControlsOf, params, weights, t
<1>10. /\ h264'.sps = Sps(sl) /\ h264'.pps = Pps(sl)
       /\ mode = "slice" => h264'.params = params
       /\ PredWeightsRequired(Pps(sl), sl) => h264'.weights = weights
  BY <1>7, <1>9
<1>11. h264' \in H264Held
  <2>1. Sps(sl) \in H264Sps /\ Pps(sl) \in H264Pps
    BY <1>0, ParameterSets
  <2>2. h264 \in H264Held
    BY DEF SliceInv
  <2> HIDE DEF H264Sps, H264Pps, H264SliceParams, H264PredWeights
  <2> QED BY <1>5, <1>6, <1>7, <1>8, <1>9, <2>1, <2>2 DEF H264Held
<1>12. SliceControlsOwn'
  <2>1. mode' = "slice" =>
          /\ slice'.type % 5 = P => h264'.params.lists = {0}
          /\ slice'.type % 5 = B => h264'.params.lists = {0, 1}
          /\ \A p \in DOMAIN h264'.params.found : h264'.params.found[p] = p
    BY <1>0, <1>1, <1>4, <1>10, ListsOfSlice
  <2>2. slice'.type = P /\ "weighted_pred_flag" \in slice'.bits =>
          h264'.weights = [own |-> TRUE, lists |-> {0}]
    BY <1>0, <1>1, <1>10, ListsOfSlice DEF weights
  <2>3. slice'.type = B /\ slice'.bipred = 1 => h264'.weights = [own |-> TRUE, lists |-> {0, 1}]
    BY <1>0, <1>1, <1>10, ListsOfSlice DEF weights
  <2> QED BY <2>1, <2>2, <2>3 DEF SliceControlsOwn
<1>13. slice'.bits = {b \in DOMAIN SpsFlag : SpsFlag[b] \in h264'.sps}
                     \cup {b \in DOMAIN PpsFlag : PpsFlag[b] \in h264'.pps.flags}
  BY <1>0, <1>1, <1>10, BitsReadBack
<1> QED BY <1>0, <1>1, <1>11, <1>12, <1>13 DEF SliceInv

\* The invariant of the H264 part, and its steps.
H264Inv == DpbInv /\ SliceInv

LEMMA H264InitInv == H264Init => H264Inv
BY DpbInitInv, SliceInitInv DEF H264Init, H264Inv

LEMMA H264StepInv ==
  ASSUME H264Inv, H264Next
  PROVE  H264Inv'
<1>0. TableOK /\ SliceInv /\ (Counted => Aged) /\ (Roomy => SlotsSuffice)
      /\ zeroed \in BOOLEAN /\ gaps \in BOOLEAN /\ crashed \in BOOLEAN
  BY DEF H264Inv, DpbInv
<1>a. PICK c \in Surfaces : \E R \in SUBSET Surfaces :
        /\ DpbReady(c, R)
        /\ \E pics \in SetToSeqs(R) :
             \/ \E sl \in Slices : H264SetControls(c, pics, sl)
             \/ H264SetControlsFail(c, pics)
             \/ H264SetControlsCrash(c, pics)
  BY DEF H264Next
<1>b. PICK R \in SUBSET Surfaces :
        /\ DpbReady(c, R)
        /\ \E pics \in SetToSeqs(R) :
             \/ \E sl \in Slices : H264SetControls(c, pics, sl)
             \/ H264SetControlsFail(c, pics)
             \/ H264SetControlsCrash(c, pics)
  BY <1>a
<1>1. PICK pics \in SetToSeqs(R) :
        /\ DpbReady(c, R)
        /\ \/ \E sl \in Slices : H264SetControls(c, pics, sl)
           \/ H264SetControlsFail(c, pics)
           \/ H264SetControlsCrash(c, pics)
  BY <1>b
<1>2. ASSUME Decides(c, pics) PROVE DpbInv'
  <2>1. TableOK'
    BY <1>0, <1>1, <1>2, SubmitTable
  <2>2. zeroed' = zeroed /\ gaps' = gaps /\ crashed' = crashed
    BY <1>2 DEF Decides, Submit
  <2>3. Counted' => Aged'
    BY <1>0, <1>1, <1>2, <2>2, SubmitAged DEF Counted
  <2> QED BY <1>0, <2>1, <2>2, <2>3 DEF DpbInv, SlotsSuffice
<1>3. CASE H264SetControlsCrash(c, pics)
  <2>1. /\ Described(c, pics) = Broken /\ crashed' = TRUE
        /\ UNCHANGED <<zeroed, gaps, dpb, age, refs, current, active, submitted, mode, slice, h264>>
    BY <1>3 DEF H264SetControlsCrash, SetControlsCrash
  <2>2. TableOK' /\ (Counted' => Aged') /\ SliceInv'
    BY <1>0, <2>1 DEF TableOK, Counted, Aged, Current, SliceInv, SliceControlsOwn
  <2>3. Roomy => ~zeroed
    <3> SUFFICES ASSUME Roomy, zeroed PROVE FALSE
      OBVIOUS
    <3>1. Aged
      BY <1>0 DEF Roomy, Counted
    <3> QED BY <1>0, <1>1, <2>1, <3>1, Survives
  <2> QED BY <1>0, <2>1, <2>2, <2>3 DEF H264Inv, DpbInv, SlotsSuffice
<1>4. CASE H264SetControlsFail(c, pics)
  <2>1. Decides(c, pics) /\ UNCHANGED <<mode, slice, h264>>
    BY <1>4 DEF H264SetControlsFail, DpbSetControlsFail, Decides
  <2>2. SliceInv'
    BY <1>0, <2>1 DEF SliceInv, SliceControlsOwn
  <2> QED BY <1>2, <2>1, <2>2 DEF H264Inv
<1>5. ASSUME NEW sl \in Slices, H264SetControls(c, pics, sl) PROVE H264Inv'
  <2>1. Decides(c, pics)
    BY <1>5 DEF H264SetControls, DpbSetControls, Decides
  <2>2. SliceInv'
    BY <1>0, <1>1, <1>5, SliceStep
  <2> QED BY <1>2, <2>1, <2>2 DEF H264Inv
<1> QED BY <1>1, <1>3, <1>4, <1>5

-----------------------------------------------------------------------------
(* Arithmetic of bytes and digits. *)

LEMMA Powers ==
  /\ 2^0 = 1 /\ 2^3 = 8 /\ 2^4 = 16 /\ 2^8 = 256 /\ 2^11 = 2048 /\ 2^12 = 4096
  /\ 2^14 = 16384 /\ 2^16 = 65536 /\ 2^19 = 524288
BY SMT

\* Quotient and remainder, for the divisors of the controls.
LEMMA By8 ==
  ASSUME NEW a \in Nat
  PROVE /\ (a % 8) \in Nat /\ (a % 8) < 8 /\ (a \div 8) \in Nat /\ a = 8 * (a \div 8) + (a % 8)
        /\ \A q \in Nat, r \in Nat : r < 8 /\ a = 8 * q + r => a \div 8 = q /\ a % 8 = r
BY SMT

LEMMA By16 ==
  ASSUME NEW a \in Nat
  PROVE /\ (a % 16) \in Nat /\ (a % 16) < 16 /\ (a \div 16) \in Nat /\ a = 16 * (a \div 16) + (a % 16)
        /\ \A q \in Nat, r \in Nat : r < 16 /\ a = 16 * q + r => a \div 16 = q /\ a % 16 = r
BY SMT

LEMMA By256 ==
  ASSUME NEW a \in Nat
  PROVE /\ (a % 256) \in Nat /\ (a % 256) < 256 /\ (a \div 256) \in Nat /\ a = 256 * (a \div 256) + (a % 256)
        /\ \A q \in Nat, r \in Nat : r < 256 /\ a = 256 * q + r => a \div 256 = q /\ a % 256 = r
BY SMT

LEMMA By2048 ==
  ASSUME NEW a \in Nat, NEW q \in Nat, NEW r \in Nat, r < 2048, a = 2048 * q + r
  PROVE a \div 2048 = q
BY SMT

LEMMA By4096 ==
  ASSUME NEW a \in Nat, NEW q \in Nat, NEW r \in Nat, r < 4096, a = 4096 * q + r
  PROVE a \div 4096 = q
BY SMT

\* The three parts of the size of the first partition make up the size.
LEMMA SizeBytes ==
  ASSUME NEW s \in Nat, s < 524288
  PROVE s = (s % 8) + 8 * ((s \div 8) % 256) + 2048 * ((s \div 2048) % 256)
<1> DEFINE q == s \div 8
           h == q \div 256
<1>1. (s % 8) \in Nat /\ (s % 8) < 8 /\ q \in Nat /\ s = 8 * q + (s % 8)
  BY By8
<1>2. (q % 256) \in Nat /\ (q % 256) < 256 /\ h \in Nat /\ q = 256 * h + (q % 256)
  BY <1>1, By256
<1> HIDE DEF q, h
<1>3. s = 2048 * h + (8 * (q % 256) + (s % 8)) /\ 8 * (q % 256) + (s % 8) < 2048
       /\ 8 * (q % 256) + (s % 8) \in Nat
  BY <1>1, <1>2, SMT
<1>4. s \div 2048 = h
  BY <1>2, <1>3, By2048
<1>5. h < 256
  BY <1>2, <1>3, SMT
<1>6. h % 256 = h
  BY <1>2, <1>5, SMT
<1> QED BY <1>1, <1>2, <1>3, <1>4, <1>6, SMT DEF q

\* A frame tag is taken apart again.
LEMMA TagBack ==
  ASSUME NEW s \in Nat, NEW k \in {0, 1}, NEW v \in Nat, v < 8, NEW tag \in Nat, tag = k + 2 * v + 16 + 32 * s
  PROVE tag % 2 = k /\ (tag \div 2) % 8 = v /\ (tag \div 16) % 2 = 1 /\ tag \div 32 = s
<1>1. tag % 2 = k /\ tag \div 2 = 8 * (1 + 2 * s) + v
  BY SMT
<1>2. (tag \div 2) % 8 = v
  <2> DEFINE h == tag \div 2
             q == 1 + 2 * s
  <2>1. h \in Nat /\ q \in Nat /\ h = 8 * q + v
    BY <1>1, SMT
  <2> HIDE DEF h, q
  <2>2. h % 8 = v
    BY <2>1, By8
  <2> QED BY <2>2 DEF h
<1>3. tag \div 16 = 1 + 2 * s /\ tag \div 32 = s
  BY SMT
<1>4. (tag \div 16) % 2 = 1
  BY <1>3, SMT
<1> QED BY <1>1, <1>2, <1>3, <1>4

\* The two bytes of a width or height, and the scale in their upper bits.
LEMMA WordBack ==
  ASSUME NEW w \in Nat, w < 16384
  PROVE /\ (w % 256) + 256 * ((w \div 256) % 256) = w /\ w % 16384 = w /\ w \div 16384 = 0
<1> DEFINE q == w \div 256
<1>1. (w % 256) \in Nat /\ (w % 256) < 256 /\ q \in Nat /\ w = 256 * q + (w % 256)
  BY By256
<1> HIDE DEF q
<1>2. q < 256
  BY <1>1, SMT
<1>3. q % 256 = q
  BY <1>1, <1>2, SMT
<1>4. w % 16384 = w /\ w \div 16384 = 0
  BY SMT
<1> QED BY <1>1, <1>3, <1>4, SMT DEF q

\* The four digits of f_code.
LEMMA Nibbles ==
  ASSUME NEW x \in Nat, x < 65536
  PROVE x = 4096 * ((x \div 4096) % 16) + 256 * ((x \div 256) % 16) + 16 * ((x \div 16) % 16) + (x % 16)
<1> DEFINE a == x \div 16
           b == a \div 16
           c == b \div 16
<1>1. (x % 16) \in Nat /\ (x % 16) < 16 /\ a \in Nat /\ x = 16 * a + (x % 16)
  BY By16
<1>2. (a % 16) \in Nat /\ (a % 16) < 16 /\ b \in Nat /\ a = 16 * b + (a % 16)
  BY <1>1, By16
<1>3. (b % 16) \in Nat /\ (b % 16) < 16 /\ c \in Nat /\ b = 16 * c + (b % 16)
  BY <1>2, By16
<1> HIDE DEF a, b, c
<1>4. x \div 256 = b
  <2>1. 16 * (a % 16) + (x % 16) \in Nat /\ 16 * (a % 16) + (x % 16) < 256 /\ x = 256 * b + (16 * (a % 16) + (x % 16))
    BY <1>1, <1>2, SMT
  <2> QED BY <1>2, <2>1, By256
<1>5. x \div 4096 = c
  <2>1. /\ 256 * (b % 16) + 16 * (a % 16) + (x % 16) \in Nat /\ 256 * (b % 16) + 16 * (a % 16) + (x % 16) < 4096
        /\ x = 4096 * c + (256 * (b % 16) + 16 * (a % 16) + (x % 16))
    BY <1>1, <1>2, <1>3, SMT
  <2> QED BY <1>3, <2>1, By4096
<1>6. c < 16
  BY <1>1, <1>2, <1>3, SMT
<1>7. c % 16 = c
  BY <1>3, <1>6, SMT
<1> QED BY <1>1, <1>2, <1>3, <1>4, <1>5, <1>7, SMT DEF a

-----------------------------------------------------------------------------
(* The chunk in front of a VP8 picture. *)

Vp8Of(p) ==
  /\ p.n \in Nat /\ p.key \in BOOLEAN /\ p.size \in Nat
  /\ p.version \in Nat /\ p.version < 8
  /\ p.width \in Nat /\ p.width < 2^14 /\ p.width > 0
  /\ p.height \in Nat /\ p.height < 2^14 /\ p.height > 0
  /\ p.partitions \in Seq(Nat) /\ Len(p.partitions) >= 2 /\ Len(p.partitions) <= 9
  /\ FirstPartSize(p) \in Nat /\ FirstPartSize(p) < 2^19

LEMMA Vp8Given == \A p \in Vp8Pictures : Vp8Of(p)
<1> SUFFICES ASSUME NEW p \in Vp8Pictures PROVE Vp8Of(p)
  OBVIOUS
<1>1. /\ p.n \in Nat /\ p.key \in BOOLEAN /\ p.size \in Nat /\ p.version \in 0 .. 7
      /\ {p.width, p.height} \subseteq 1 .. 2^14 - 1
      /\ p.partitions \in Seq(Nat) /\ Len(p.partitions) \in 2 .. 9
      /\ FirstPartSize(p) \in 0 .. 2^19 - 1
  BY CodecsAssumption, Zenon DEF CodecsAssumption
<1>2. p.width \in 1 .. 2^14 - 1 /\ p.height \in 1 .. 2^14 - 1
  BY <1>1
<1>3. \A x \in 1 .. 2^14 - 1 : x \in Nat /\ x < 2^14 /\ x > 0
  BY Powers, SMT
<1>4. \A x \in 0 .. 2^19 - 1 : x \in Nat /\ x < 2^19
  BY Powers, SMT
<1>5. FirstPartSize(p) \in Nat /\ FirstPartSize(p) < 2^19
  BY <1>1, <1>4
<1>6. /\ p.width \in Nat /\ p.width < 2^14 /\ p.width > 0
      /\ p.height \in Nat /\ p.height < 2^14 /\ p.height > 0
  BY <1>2, <1>3
<1>7. Len(p.partitions) >= 2 /\ Len(p.partitions) <= 9
  <2>1. \A x \in 2 .. 9 : x >= 2 /\ x <= 9
    OBVIOUS
  <2> QED BY <1>1, <2>1, Zenon
<1>8. p.version \in Nat /\ p.version < 8
  <2>1. \A x \in 0 .. 7 : x \in Nat /\ x < 8
    OBVIOUS
  <2> QED BY <1>1, <2>1, Zenon
<1> QED BY <1>1, <1>5, <1>6, <1>7, <1>8, Zenon DEF Vp8Of

LEMMA PrefixBytes ==
  ASSUME NEW a, NEW b, NEW c, NEW d, NEW e, NEW f, NEW g
  PROVE  /\ (<<a, b, c>> \o << >>)[1] = a /\ (<<a, b, c>> \o << >>)[2] = b /\ (<<a, b, c>> \o << >>)[3] = c
         /\ LET t == <<a, b, c>> \o <<157, 1, 42, d, e, f, g>>
            IN /\ t[1] = a /\ t[2] = b /\ t[3] = c /\ t[4] = 157 /\ t[5] = 1 /\ t[6] = 42
               /\ t[7] = d /\ t[8] = e /\ t[9] = f /\ t[10] = g
OBVIOUS

\* The bytes of the chunk: the tag, ...
LEMMA PrefixIs ==
  ASSUME NEW p, p.key \in BOOLEAN, NEW size, size = FirstPartSize(p),
         NEW k, k = IF p.key THEN 0 ELSE 1, NEW v, v = p.version
  PROVE  /\ Prefix(p)[1] = Byte(k + 2 * (v % 8) + 16 + 32 * (size % 8))
         /\ Prefix(p)[2] = Byte(size \div 2^3) /\ Prefix(p)[3] = Byte(size \div 2^11)
<1> DEFINE a == Byte(k + 2 * (v % 8) + 16 + 32 * (size % 8))
           b == Byte(size \div 2^3)
           c == Byte(size \div 2^11)
           d == Byte(p.width)
           e == Byte(p.width \div 2^8)
           f == Byte(p.height)
           g == Byte(p.height \div 2^8)
<1>1. Prefix(p) = <<a, b, c>> \o IF p.key THEN <<157, 1, 42, d, e, f, g>> ELSE << >>
  BY DEF Prefix
<1> HIDE DEF a, b, c, d, e, f, g
<1>2. Prefix(p) = <<a, b, c>> \o <<157, 1, 42, d, e, f, g>> \/ Prefix(p) = <<a, b, c>> \o << >>
  BY <1>1
<1>3. Prefix(p)[1] = a /\ Prefix(p)[2] = b /\ Prefix(p)[3] = c
  BY <1>2, PrefixBytes
<1> QED BY <1>3, Zenon DEF a, b, c

\* ... and what a key frame adds to it.
LEMMA PrefixOfKeyIs ==
  ASSUME NEW p, p.key
  PROVE  /\ Prefix(p)[4] = 157 /\ Prefix(p)[5] = 1 /\ Prefix(p)[6] = 42
         /\ Prefix(p)[7] = Byte(p.width) /\ Prefix(p)[8] = Byte(p.width \div 2^8)
         /\ Prefix(p)[9] = Byte(p.height) /\ Prefix(p)[10] = Byte(p.height \div 2^8)
<1> DEFINE size == FirstPartSize(p)
           a == Byte(0 + 2 * (p.version % 8) + 16 + 32 * (size % 8))
           b == Byte(size \div 2^3)
           c == Byte(size \div 2^11)
           d == Byte(p.width)
           e == Byte(p.width \div 2^8)
           f == Byte(p.height)
           g == Byte(p.height \div 2^8)
<1>1. Prefix(p) = <<a, b, c>> \o <<157, 1, 42, d, e, f, g>>
  BY DEF Prefix
<1> HIDE DEF size, a, b, c, d, e, f, g
<1>2. /\ Prefix(p)[4] = 157 /\ Prefix(p)[5] = 1 /\ Prefix(p)[6] = 42
      /\ Prefix(p)[7] = d /\ Prefix(p)[8] = e /\ Prefix(p)[9] = f /\ Prefix(p)[10] = g
  BY <1>1, PrefixBytes
<1> QED BY <1>2, Zenon DEF d, e, f, g

\* The three bytes, as one number.
LEMMA TagIs ==
  ASSUME NEW p, Vp8Of(p), NEW k, k = IF p.key THEN 0 ELSE 1
  PROVE  Tag(Prefix(p)) = k + 2 * p.version + 16 + 32 * FirstPartSize(p)
<1>1. /\ p.key \in BOOLEAN /\ p.version \in Nat /\ p.version < 8
      /\ FirstPartSize(p) \in Nat /\ FirstPartSize(p) < 2^19
  BY DEF Vp8Of
<1>2. PICK v \in Nat : v = p.version /\ v < 8
  BY <1>1
<1>3. PICK s \in Nat : s = FirstPartSize(p) /\ s < 2^19
  BY <1>1
<1>4. s < 524288
  BY <1>3, Powers, SMT
<1>5. /\ Prefix(p)[1] = Byte(k + 2 * (v % 8) + 16 + 32 * (s % 8))
      /\ Prefix(p)[2] = Byte(s \div 2^3) /\ Prefix(p)[3] = Byte(s \div 2^11)
  BY <1>1, <1>2, <1>3, PrefixIs
<1>6. k \in {0, 1}
  OBVIOUS
<1> DEFINE r == s % 8
           b1 == Prefix(p)[1]
           b2 == Prefix(p)[2]
           b3 == Prefix(p)[3]
<1>7. r \in Nat /\ r < 8
  BY By8
<1>8. b1 = k + 2 * v + 16 + 32 * r
  <2>1. b1 = (k + 2 * (v % 8) + 16 + 32 * r) % 256
    BY <1>5, Powers, SMT DEF Byte
  <2>2. v % 8 = v
    BY <1>2, SMT
  <2> HIDE DEF b1, r
  <2>3. k + 2 * v + 16 + 32 * r \in Nat /\ k + 2 * v + 16 + 32 * r < 256
    BY <1>2, <1>6, <1>7, SMT
  <2> QED BY <2>1, <2>2, <2>3, SMT
<1>9. b2 = (s \div 8) % 256 /\ b3 = (s \div 2048) % 256
  BY <1>5, Powers, SMT DEF Byte
<1>10. s = r + 8 * b2 + 2048 * b3
  BY <1>4, <1>9, SizeBytes, SMT
<1>11. Tag(Prefix(p)) = b1 + 256 * b2 + 65536 * b3
  BY Powers, SMT DEF Tag
<1>12. b2 \in Nat /\ b3 \in Nat
  BY <1>9, By256, SMT
<1> HIDE DEF r, b1, b2, b3
<1>13. Tag(Prefix(p)) = k + 2 * v + 16 + 32 * s
  BY <1>2, <1>6, <1>7, <1>8, <1>10, <1>11, <1>12, SMT
<1> QED BY <1>2, <1>3, <1>13, Zenon

\* Width and height.
LEMMA WordIs ==
  ASSUME NEW w \in Nat, w < 2^14, NEW bytes, NEW i, bytes[i] = Byte(w), bytes[i + 1] = Byte(w \div 2^8)
  PROVE  Word(bytes, i) % 2^14 = w /\ Word(bytes, i) \div 2^14 = 0
<1>1. bytes[i] = w % 256 /\ bytes[i + 1] = (w \div 256) % 256
  BY Powers, SMT DEF Byte
<1>2. w < 16384
  BY Powers, SMT
<1>3. Word(bytes, i) = (w % 256) + 256 * ((w \div 256) % 256)
  BY <1>1, Powers, SMT DEF Word
<1>4. Word(bytes, i) = w /\ w % 16384 = w /\ w \div 16384 = 0
  BY <1>2, <1>3, WordBack, SMT
<1> QED BY <1>4, Powers, SMT

\* The control.
LEMMA FrameIs ==
  ASSUME NEW p, Vp8Of(p)
  PROVE  /\ Frame(p) \in Vp8Frame
         /\ Frame(p).n = p.n /\ Frame(p).width = p.width /\ Frame(p).height = p.height
         /\ Frame(p).version = p.version
         /\ Frame(p).horizontal_scale = 0 /\ Frame(p).vertical_scale = 0
         /\ Frame(p).first_part_size = FirstPartSize(p)
         /\ p.key <=> KeyFrame \in Frame(p).flags
         /\ ShowFrame \in Frame(p).flags
         /\ Frame(p).num_dct_parts = 1 => FirstPartSize(p) + Frame(p).dct_part_sizes[1] = p.size
<1>0. /\ p.partitions \in Seq(Nat) /\ Len(p.partitions) >= 2 /\ Len(p.partitions) <= 9 /\ p.n \in Nat /\ p.key \in BOOLEAN
      /\ FirstPartSize(p) \in Nat /\ p.size \in Nat
      /\ p.version \in Nat /\ p.version < 8
      /\ p.width \in Nat /\ p.height \in Nat /\ p.width < 2^14 /\ p.height < 2^14
  BY DEF Vp8Of
<1> DEFINE dct == DctParts(p)
           sizes == [i \in 1 .. 8 |-> IF i <= Len(dct) THEN dct[i] ELSE 0]
           flags == {ShowFrame} \cup (IF p.key THEN {KeyFrame} ELSE {})
<1>1. dct \in Seq(Nat) /\ Len(dct) = Len(p.partitions) - 1 /\ Len(dct) >= 1 /\ Len(dct) <= 8
  <2>1. p.partitions # << >>
    BY <1>0
  <2>2. dct \in Seq(Nat) /\ Len(dct) = Len(p.partitions) - 1
    BY <1>0, <2>1, HeadTailProperties DEF DctParts
  <2> QED BY <1>0, <2>2
<1>2. sizes \in [1 .. 8 -> Nat] /\ sizes[1] = dct[1] /\ dct[1] \in Nat
  <2> HIDE DEF dct
  <2>1. \A i \in 1 .. Len(dct) : dct[i] \in Nat
    BY <1>1
  <2>2. 1 \in 1 .. Len(dct) /\ 1 <= Len(dct) /\ Len(dct) \in Nat
    BY <1>1
  <2>3. sizes[1] = dct[1]
    BY <2>2
  <2>4. ASSUME NEW i \in 1 .. 8 PROVE sizes[i] \in Nat
    BY <2>1, <2>2, <2>4
  <2> QED BY <2>1, <2>2, <2>3, <2>4
<1>3. flags \in SUBSET {KeyFrame, ShowFrame} /\ (p.key <=> KeyFrame \in flags) /\ ShowFrame \in flags
  BY DEF KeyFrame, ShowFrame
<1>4. \A x \in Nat : x < 2^14 => x \in 0 .. 2^16 - 1
  BY Powers, SMT
<1>5. 0 \in 0 .. 3 /\ \A x \in 0 .. 9 : x \in 0 .. 2^8 - 1
  BY Powers, SMT
<1>6. Frame(p) = [n |-> p.n, width |-> p.width, height |-> p.height, version |-> p.version,
                  horizontal_scale |-> 0, vertical_scale |-> 0,
                  num_dct_parts |-> Len(p.partitions) - 1, first_part_size |-> FirstPartSize(p),
                  dct_part_sizes |-> sizes, flags |-> flags]
  BY DEF Frame
<1>7. FirstPartSize(p) + dct[1] = p.size
  BY <1>0, <1>2 DEF FirstPartSize
<1> HIDE DEF dct, sizes, flags
<1>8. p.version \in 0 .. 9 /\ Len(p.partitions) - 1 \in 0 .. 9
  <2>1. PICK len \in Nat : len = Len(p.partitions)
    BY <1>0
  <2>a. len >= 2 /\ len <= 9
    BY <1>0, <2>1, Zenon
  <2>2. len - 1 \in 0 .. 9
    BY <2>a
  <2>3. \A x \in Nat : x < 8 => x \in 0 .. 9
    OBVIOUS
  <2>4. p.version \in 0 .. 9
    BY <1>0, <2>3
  <2> QED BY <2>1, <2>2, <2>4
<1>9. /\ p.width \in 0 .. 2^16 - 1 /\ p.height \in 0 .. 2^16 - 1
      /\ p.version \in 0 .. 2^8 - 1 /\ Len(p.partitions) - 1 \in 0 .. 2^8 - 1
  BY <1>0, <1>4, <1>5, <1>8
<1>10. Frame(p) \in Vp8Frame
  <2> DEFINE W == 0 .. 2^16 - 1
             V == 0 .. 2^8 - 1
             S == [1 .. 8 -> Nat]
  <2>1. Vp8Frame =
          [n : Nat, width : W, height : W, version : V, horizontal_scale : 0 .. 3, vertical_scale : 0 .. 3,
           num_dct_parts : V, first_part_size : Nat, dct_part_sizes : S, flags : SUBSET {KeyFrame, ShowFrame}]
    BY DEF Vp8Frame
  <2>2. /\ p.width \in W /\ p.height \in W /\ p.version \in V
        /\ Len(p.partitions) - 1 \in V /\ sizes \in S
    BY <1>2, <1>9
  <2> HIDE DEF W, V, S
  <2> QED BY <1>0, <1>3, <1>5, <1>6, <2>1, <2>2
<1> QED BY <1>2, <1>3, <1>6, <1>7, <1>10

\* A device that parses the chunk and one that takes the control agree.
LEMMA ChunkAgrees ==
  ASSUME NEW p, Vp8Of(p), NEW f, f = Frame(p), NEW chunk, chunk = Parsed(Prefix(p))
  PROVE  /\ chunk.key <=> KeyFrame \in f.flags
         /\ chunk.show <=> ShowFrame \in f.flags
         /\ chunk.version = f.version
         /\ chunk.first_part_size = f.first_part_size
         /\ chunk.key => ParsedSize(Prefix(p)) =
              [start |-> << 157, 1, 42 >>,
               width |-> f.width, horizontal_scale |-> f.horizontal_scale,
               height |-> f.height, vertical_scale |-> f.vertical_scale]
         /\ f.num_dct_parts = 1 => f.first_part_size + f.dct_part_sizes[1] = p.size
<1>1. /\ f.width = p.width /\ f.height = p.height /\ f.version = p.version
      /\ f.horizontal_scale = 0 /\ f.vertical_scale = 0
      /\ f.first_part_size = FirstPartSize(p)
      /\ p.key <=> KeyFrame \in f.flags
      /\ ShowFrame \in f.flags
      /\ f.num_dct_parts = 1 => f.first_part_size + f.dct_part_sizes[1] = p.size
  BY FrameIs
<1>2. /\ p.key \in BOOLEAN /\ p.version \in Nat /\ p.version < 8 /\ FirstPartSize(p) \in Nat
      /\ p.width \in Nat /\ p.height \in Nat /\ p.width < 2^14 /\ p.height < 2^14
  BY DEF Vp8Of
<1> DEFINE k == IF p.key THEN 0 ELSE 1
           tag == Tag(Prefix(p))
<1>a. PICK v \in Nat : v = p.version /\ v < 8
  BY <1>2
<1>b. PICK size \in Nat : size = FirstPartSize(p)
  BY <1>2
<1>3. k \in {0, 1} /\ (k = 0 <=> p.key) /\ k = IF p.key THEN 0 ELSE 1
  OBVIOUS
<1>4. tag = k + 2 * v + 16 + 32 * size
  BY <1>a, <1>b, TagIs
<1> HIDE DEF k, tag
<1>5. /\ tag % 2 = k /\ (tag \div 2) % 8 = p.version /\ (tag \div 16) % 2 = 1
      /\ tag \div 32 = FirstPartSize(p)
  <2>1. tag \in Nat
    BY <1>3, <1>4
  <2>2. tag % 2 = k /\ (tag \div 2) % 8 = v /\ (tag \div 16) % 2 = 1 /\ tag \div 32 = size
    BY <1>a, <1>3, <1>4, <2>1, TagBack
  <2> QED BY <1>a, <1>b, <2>2
<1>6. /\ chunk.key <=> p.key
      /\ chunk.show /\ chunk.version = p.version /\ chunk.first_part_size = FirstPartSize(p)
  BY <1>3, <1>5 DEF Parsed, tag
<1>7. ASSUME p.key
      PROVE  ParsedSize(Prefix(p)) =
               [start |-> << 157, 1, 42 >>, width |-> p.width, horizontal_scale |-> 0,
                height |-> p.height, vertical_scale |-> 0]
  <2>1. /\ Prefix(p)[4] = 157 /\ Prefix(p)[5] = 1 /\ Prefix(p)[6] = 42
        /\ Prefix(p)[7] = Byte(p.width) /\ Prefix(p)[8] = Byte(p.width \div 2^8)
        /\ Prefix(p)[9] = Byte(p.height) /\ Prefix(p)[10] = Byte(p.height \div 2^8)
    BY <1>7, PrefixOfKeyIs
  <2>2. 7 + 1 = 8 /\ 9 + 1 = 10
    OBVIOUS
  <2>3. Word(Prefix(p), 7) % 2^14 = p.width /\ Word(Prefix(p), 7) \div 2^14 = 0
    BY <1>2, <2>1, <2>2, WordIs
  <2>4. Word(Prefix(p), 9) % 2^14 = p.height /\ Word(Prefix(p), 9) \div 2^14 = 0
    BY <1>2, <2>1, <2>2, WordIs
  <2> QED BY <2>1, <2>3, <2>4 DEF ParsedSize
<1> QED BY <1>1, <1>6, <1>7

-----------------------------------------------------------------------------
(* MPEG-2: the digits of f_code, the flags and the matrices. *)

Mpeg2Of(p) == p.n \in Nat /\ p.f_code \in Nat /\ p.f_code < 2^16 /\ p.bits \subseteq DOMAIN Mpeg2Flag

LEMMA Mpeg2Given == \A p \in Mpeg2Pictures : Mpeg2Of(p)
<1> SUFFICES ASSUME NEW p \in Mpeg2Pictures PROVE Mpeg2Of(p)
  OBVIOUS
<1>1. p.n \in Nat /\ p.f_code \in 0 .. 2^16 - 1 /\ p.bits \subseteq DOMAIN Mpeg2Flag
  BY CodecsAssumption, Zenon DEF CodecsAssumption
<1>2. \A x \in 0 .. 2^16 - 1 : x \in Nat /\ x < 2^16
  BY Powers, SMT
<1> QED BY <1>1, <1>2, Zenon DEF Mpeg2Of

LEMMA FCodeIs ==
  ASSUME NEW code \in Nat, code < 2^16, NEW f, f = FCode(code)
  PROVE  /\ f \in [{0, 1} -> [{0, 1} -> 0 .. 15]]
         /\ code = 2^12 * f[0][0] + 2^8 * f[0][1] + 2^4 * f[1][0] + f[1][1]
<1>1. \A shift \in Nat : Nibble(code, shift) = (code \div 2^shift) % 16
  BY DEF Nibble
<1>2. /\ f[0][0] = (code \div 4096) % 16 /\ f[0][1] = (code \div 256) % 16
      /\ f[1][0] = (code \div 16) % 16 /\ f[1][1] = code % 16
  <2>1. /\ f[0][0] = Nibble(code, 8 * (1 - 0) + 4 * (1 - 0)) /\ f[0][1] = Nibble(code, 8 * (1 - 0) + 4 * (1 - 1))
        /\ f[1][0] = Nibble(code, 8 * (1 - 1) + 4 * (1 - 0)) /\ f[1][1] = Nibble(code, 8 * (1 - 1) + 4 * (1 - 1))
    BY DEF FCode
  <2>2. /\ f[0][0] = Nibble(code, 12) /\ f[0][1] = Nibble(code, 8)
        /\ f[1][0] = Nibble(code, 4) /\ f[1][1] = Nibble(code, 0)
    BY <2>1, SMT
  <2>3. code \div 1 = code
    BY SMT
  <2> QED BY <2>2, <2>3, Powers, SMT DEF Nibble
<1>3. code < 65536
  BY Powers, SMT
<1>4. code = 4096 * f[0][0] + 256 * f[0][1] + 16 * f[1][0] + f[1][1]
  BY <1>2, <1>3, Nibbles, SMT
<1>5. \A x \in Nat : (x % 16) \in 0 .. 15
  BY SMT
<1>6. code \div 4096 \in Nat /\ code \div 256 \in Nat /\ code \div 16 \in Nat
  BY SMT
<1>7. \A i, j \in {0, 1} : f[i][j] \in 0 .. 15
  BY <1>2, <1>5, <1>6, SMT
<1>8. f \in [{0, 1} -> [{0, 1} -> 0 .. 15]]
  <2>1. f = [i \in {0, 1} |-> [j \in {0, 1} |-> f[i][j]]]
    BY DEF FCode
  <2> QED BY <1>7, <2>1
<1>9. PICK a, b, c, d \in Nat : f[0][0] = a /\ f[0][1] = b /\ f[1][0] = c /\ f[1][1] = d
  <2>1. \A x \in 0 .. 15 : x \in Nat
    OBVIOUS
  <2> QED BY <1>7, <2>1
<1>10. 2^12 * a + 2^8 * b + 2^4 * c + d = 4096 * a + 256 * b + 16 * c + d
  BY Powers, SMT
<1> QED BY <1>4, <1>8, <1>9, <1>10

FlagsOf(p) == {Mpeg2Flag[b] : b \in p.bits}

LEMMA Mpeg2FlagsDistinct == \A a, b \in DOMAIN Mpeg2Flag : Mpeg2Flag[a] = Mpeg2Flag[b] => a = b
BY DEF Mpeg2Flag

\* The matrices that are loaded are the picture's, and no others.
LEMMA QuantisationIs ==
  ASSUME NEW p, p.n \in Nat
  PROVE  /\ Quantisation(p) \in Mpeg2Quantisation
         /\ \A m \in Matrices : (m \in p.load) <=> (Quantisation(p)[m] = Own(p, m))
<1>1. \A m \in Matrices : Own(p, m) \in MatrixValue /\ Own(p, m).kind = "own"
  BY DEF Own, MatrixValue
<1>2. \A m \in Matrices : DefaultValue(m) \in MatrixValue /\ DefaultValue(m).kind # "own"
  BY DEF DefaultValue, MatrixValue
<1>3. \A m \in Matrices : Quantisation(p)[m] = IF m \in p.load THEN Own(p, m) ELSE DefaultValue(m)
  BY DEF Quantisation
<1>4. Quantisation(p) = [m \in Matrices |-> Quantisation(p)[m]]
  BY DEF Quantisation
<1>5. \A m \in Matrices : Quantisation(p)[m] \in MatrixValue
  BY <1>1, <1>2, <1>3
<1> QED BY <1>1, <1>2, <1>3, <1>4, <1>5 DEF Mpeg2Quantisation

-----------------------------------------------------------------------------
(* VP9: what is recoded, and what comes from the header. *)

Vp9Of(p) == p.n \in Nat /\ p.width \in Nat /\ p.width > 0 /\ p.width <= 2^16 /\ p.reset \in {0, 1, 2, 3}

LEMMA Vp9Given == \A p \in Vp9Pictures : Vp9Of(p)
<1> SUFFICES ASSUME NEW p \in Vp9Pictures PROVE Vp9Of(p)
  OBVIOUS
<1>1. p.n \in Nat /\ p.width \in 1 .. 2^16 /\ p.reset \in 0 .. 3
  BY CodecsAssumption, Zenon DEF CodecsAssumption
<1>2. \A x \in 1 .. 2^16 : x \in Nat /\ x > 0 /\ x <= 2^16
  BY Powers, SMT
<1>3. \A x \in 0 .. 3 : x \in {0, 1, 2, 3}
  OBVIOUS
<1> QED BY <1>1, <1>2, <1>3, Zenon DEF Vp9Of

LEMMA ParseIs ==
  ASSUME NEW before \in Deltas, NEW p, p.n \in Nat
  PROVE  Parse(before, p) \in Deltas
<1>1. \A g \in Groups : Parse(before, p)[g] \in Nat \cup {Default, Zero}
  BY DEF Parse, Deltas
<1>2. Parse(before, p) = [g \in Groups |-> Parse(before, p)[g]]
  BY DEF Parse
<1> QED BY <1>1, <1>2 DEF Deltas

LEMMA Vp9FrameIs ==
  ASSUME NEW p, Vp9Of(p), NEW h, h.n \in Nat, NEW f, f = FrameWith(p, h)
  PROVE  /\ f \in Vp9Frame /\ f.n = p.n /\ f.header = h.n /\ f.lf = Parse(NewParser, h)
         /\ f.frame_width_minus_1 + 1 = p.width
         /\ f.reset_frame_context = ResetCode[ResetMeaning[p.reset + 1]]
<1>0. p.n \in Nat /\ p.reset \in {0, 1, 2, 3}
  BY DEF Vp9Of
<1>1. PICK w \in Nat : w = p.width /\ w > 0 /\ w <= 2^16
  BY DEF Vp9Of
<1>2. (w - 1) % 2^16 = w - 1 /\ (w - 1) \in 0 .. 2^16 - 1 /\ (w - 1) + 1 = w
  BY <1>1, Powers, SMT
<1>3. ResetRecoded(p.reset) \in 0 .. 2 /\ ResetRecoded(p.reset) = ResetCode[ResetMeaning[p.reset + 1]]
  BY <1>0 DEF ResetRecoded, ResetCode, ResetMeaning
<1>4. Parse(NewParser, h) \in Deltas
  BY ParseIs DEF NewParser, Deltas
<1>5. f = [n |-> p.n, header |-> h.n, lf |-> Parse(NewParser, h), frame_width_minus_1 |-> w - 1,
           reset_frame_context |-> ResetRecoded(p.reset)]
  BY <1>1, <1>2, Zenon DEF FrameWith
<1>6. f \in Vp9Frame
  <2> DEFINE W == 0 .. 2^16 - 1
  <2>1. Vp9Frame = [n : Nat, header : Nat, lf : Deltas, frame_width_minus_1 : W, reset_frame_context : 0 .. 2]
    BY DEF Vp9Frame
  <2>2. w - 1 \in W
    BY <1>2
  <2> HIDE DEF W
  <2> QED BY <1>0, <1>3, <1>4, <1>5, <2>1, <2>2
<1>7. f.frame_width_minus_1 + 1 = p.width
  BY <1>1, <1>2, <1>5
<1> QED BY <1>3, <1>5, <1>6, <1>7

\* The tables of the parser and of the kernel have the same sizes.
LEMMA CompressedIs == CompressedHeader = Vp9Tables
BY DEF CompressedHeader, Vp9Tables, TX_SIZES, INTER_MODES, SWITCHABLE_FILTERS, INTRA_MODES, PARTITION_TYPES

-----------------------------------------------------------------------------
(* The requests: what the calls of set_controls leave in them. *)

\* The controls of each codec.
Named(k) == CASE k = "mpeg2" -> {"sequence", "picture", "quantisation"}
              [] k = "vp8"   -> {"frame"}
              [] k = "vp9"   -> {"frame", "compressed"}
              [] k = "h264"  -> {}
TypeOf(k, c) ==
  CASE k = "mpeg2" /\ c = "sequence"     -> Mpeg2Sequence
    [] k = "mpeg2" /\ c = "picture"      -> Mpeg2Picture
    [] k = "mpeg2" /\ c = "quantisation" -> Mpeg2Quantisation
    [] k = "vp8"   /\ c = "frame"        -> Vp8Frame
    [] k = "vp9"   /\ c = "frame"        -> Vp9Frame
    [] k = "vp9"   /\ c = "compressed"   -> [n : Nat, copied : {Vp9Tables}]
Typed(k, controls) ==
  DOMAIN controls \subseteq Named(k) /\ \A c \in DOMAIN controls : controls[c] \in TypeOf(k, c)

LEMMA MergeIs ==
  ASSUME NEW set, NEW controls
  PROVE  /\ DOMAIN Merge(set, controls) = DOMAIN set \cup DOMAIN controls
         /\ \A c \in DOMAIN controls : Merge(set, controls)[c] = controls[c]
         /\ \A c \in DOMAIN set \ DOMAIN controls : Merge(set, controls)[c] = set[c]
BY DEF Merge

LEMMA MergeTyped ==
  ASSUME NEW k, NEW set, Typed(k, set), NEW controls, Typed(k, controls)
  PROVE  Typed(k, Merge(set, controls))
<1> DEFINE m == Merge(set, controls)
<1>1. /\ DOMAIN m = DOMAIN set \cup DOMAIN controls
      /\ \A c \in DOMAIN controls : m[c] = controls[c]
      /\ \A c \in DOMAIN set \ DOMAIN controls : m[c] = set[c]
  BY MergeIs
<1>2. \A c \in DOMAIN set : set[c] \in TypeOf(k, c)
  BY DEF Typed
<1>3. \A c \in DOMAIN controls : controls[c] \in TypeOf(k, c)
  BY DEF Typed
<1>4. DOMAIN set \subseteq Named(k) /\ DOMAIN controls \subseteq Named(k)
  BY DEF Typed
<1> HIDE DEF m
<1>5. ASSUME NEW c \in DOMAIN m PROVE m[c] \in TypeOf(k, c)
  <2>1. CASE c \in DOMAIN controls
    BY <1>1, <1>3, <2>1, Zenon
  <2>2. CASE c \in DOMAIN set \ DOMAIN controls
    BY <1>1, <1>2, <2>2, Zenon
  <2> QED BY <1>1, <2>1, <2>2
<1>6. DOMAIN m \subseteq Named(k)
  BY <1>1, <1>4
<1> QED BY <1>5, <1>6 DEF Typed, m

LEMMA NothingTyped == \A k : Typed(k, Nothing)
BY DEF Typed, Nothing

\* The recursion over the calls has a solution.
LEMMA SettingExists ==
  ASSUME NEW first, NEW steps, Len(steps) \in Nat
  PROVE  \E set : set = [n \in 0 .. Len(steps) |->
                           IF n = 0 THEN first ELSE Merge(set[n - 1], steps[n])]
<1> DEFINE T == {k \in Nat : \E f : f = [n \in 0 .. k |->
                                 IF n = 0 THEN first ELSE Merge(f[n - 1], steps[n])]}
<1>1. 0 \in T
  <2> DEFINE f == [n \in 0 .. 0 |-> first]
  <2>1. f = [n \in 0 .. 0 |-> IF n = 0 THEN first ELSE Merge(f[n - 1], steps[n])]
    OBVIOUS
  <2> HIDE DEF f
  <2> QED BY <2>1
<1>2. ASSUME NEW k \in Nat, k \in T PROVE k + 1 \in T
  <2>1. PICK f : f = [n \in 0 .. k |-> IF n = 0 THEN first ELSE Merge(f[n - 1], steps[n])]
    BY <1>2
  <2> DEFINE g == [n \in 0 .. k + 1 |-> IF n <= k THEN f[n] ELSE Merge(f[k], steps[n])]
  <2>2. \A n \in 0 .. k : f[n] = IF n = 0 THEN first ELSE Merge(f[n - 1], steps[n])
    BY <2>1
  <2>3. ASSUME NEW n \in 0 .. k + 1
        PROVE  g[n] = IF n = 0 THEN first ELSE Merge(g[n - 1], steps[n])
    <3>1. CASE n = 0
      BY <2>2, <3>1
    <3>2. CASE n \in 1 .. k
      <4>1. g[n] = f[n] /\ g[n - 1] = f[n - 1] /\ n # 0
        BY <3>2
      <4> QED BY <2>2, <3>2, <4>1
    <3>3. CASE n = k + 1
      <4>1. g[n] = Merge(f[k], steps[n]) /\ g[n - 1] = f[k] /\ n # 0
        BY <3>3
      <4> QED BY <4>1
    <3> QED BY <3>1, <3>2, <3>3
  <2>4. g = [n \in 0 .. k + 1 |-> IF n = 0 THEN first ELSE Merge(g[n - 1], steps[n])]
    <3>1. g = [n \in 0 .. k + 1 |-> g[n]]
      OBVIOUS
    <3> HIDE DEF g
    <3> QED BY <2>3, <3>1
  <2>5. \E f1 : f1 = [n \in 0 .. k + 1 |-> IF n = 0 THEN first ELSE Merge(f1[n - 1], steps[n])]
    <3> HIDE DEF g
    <3> QED BY <2>4
  <2>6. k + 1 \in Nat
    OBVIOUS
  <2> QED BY <2>5, <2>6, Zenon
<1>3. \A k \in 0 .. Len(steps) : k \in T
  <2>1. \A k \in 0 .. Len(steps) - 1 : k \in T => k + 1 \in T
    BY <1>2
  <2> HIDE DEF T
  <2> QED BY <1>1, <2>1, UpTo
<1>4. Len(steps) \in T
  BY <1>3
<1> QED BY <1>4

LEMMA SetSteps ==
  ASSUME NEW s, NEW p, Len(Steps(s, p)) \in Nat
  PROVE  /\ SetUpTo(s, p, 0) = request[s]
         /\ \A n \in 0 .. Len(Steps(s, p)) - 1 :
              SetUpTo(s, p, n + 1) = Merge(SetUpTo(s, p, n), Steps(s, p)[n + 1])
<1>1. PICK steps : steps = Steps(s, p)
  OBVIOUS
<1>2. PICK first : first = request[s]
  OBVIOUS
<1> DEFINE set == CHOOSE set : set = [n \in 0 .. Len(steps) |->
                                   IF n = 0 THEN first ELSE Merge(set[n - 1], steps[n])]
<1>3. \A k : SetUpTo(s, p, k) = set[k]
  BY <1>1, <1>2 DEF SetUpTo
<1>4. Len(steps) \in Nat
  BY <1>1
<1>5. set = [n \in 0 .. Len(steps) |-> IF n = 0 THEN first ELSE Merge(set[n - 1], steps[n])]
  BY <1>4, SettingExists
<1> HIDE DEF set
<1>6. set[0] = first
  BY <1>4, <1>5
<1>7. ASSUME NEW n \in 0 .. Len(steps) - 1
      PROVE  set[n + 1] = Merge(set[n], steps[n + 1])
  <2>1. n + 1 \in 0 .. Len(steps) /\ n + 1 # 0 /\ (n + 1) - 1 = n
    BY <1>4
  <2> QED BY <1>5, <2>1
<1> QED BY <1>1, <1>2, <1>3, <1>6, <1>7

LEMMA SetFew ==
  ASSUME NEW s, NEW p, Len(Steps(s, p)) \in Nat
  PROVE  /\ Len(Steps(s, p)) >= 1 => SetUpTo(s, p, 1) = Merge(request[s], Steps(s, p)[1])
         /\ Len(Steps(s, p)) >= 2 => SetUpTo(s, p, 2) = Merge(SetUpTo(s, p, 1), Steps(s, p)[2])
         /\ Len(Steps(s, p)) >= 3 => SetUpTo(s, p, 3) = Merge(SetUpTo(s, p, 2), Steps(s, p)[3])
<1>1. PICK len \in Nat : len = Len(Steps(s, p))
  OBVIOUS
<1>2. /\ SetUpTo(s, p, 0) = request[s]
      /\ \A n \in 0 .. len - 1 : SetUpTo(s, p, n + 1) = Merge(SetUpTo(s, p, n), Steps(s, p)[n + 1])
  BY <1>1, SetSteps
<1>3. ASSUME len >= 1 PROVE SetUpTo(s, p, 1) = Merge(request[s], Steps(s, p)[1])
  <2>1. 0 \in 0 .. len - 1 /\ 0 + 1 = 1
    BY <1>3
  <2> QED BY <1>2, <2>1
<1>4. ASSUME len >= 2 PROVE SetUpTo(s, p, 2) = Merge(SetUpTo(s, p, 1), Steps(s, p)[2])
  <2>1. 1 \in 0 .. len - 1 /\ 1 + 1 = 2
    BY <1>4
  <2> QED BY <1>2, <2>1
<1>5. ASSUME len >= 3 PROVE SetUpTo(s, p, 3) = Merge(SetUpTo(s, p, 2), Steps(s, p)[3])
  <2>1. 2 \in 0 .. len - 1 /\ 2 + 1 = 3
    BY <1>5
  <2> QED BY <1>2, <2>1
<1> QED BY <1>1, <1>3, <1>4, <1>5

\* Whatever calls succeed, the controls in a request have their types.
LEMMA SettingTyped ==
  ASSUME NEW s, NEW p, Len(Steps(s, p)) \in Nat, NEW k, Typed(k, request[s]),
         \A n \in 1 .. Len(Steps(s, p)) : Typed(k, Steps(s, p)[n])
  PROVE  \A n \in 0 .. Len(Steps(s, p)) : Typed(k, SetUpTo(s, p, n))
<1> DEFINE T == {n \in 0 .. Len(Steps(s, p)) : Typed(k, SetUpTo(s, p, n))}
<1>0. PICK len \in Nat : len = Len(Steps(s, p))
  OBVIOUS
<1>1. 0 \in T
  BY <1>0, SetSteps
<1>2. ASSUME NEW n \in 0 .. len - 1, n \in T PROVE n + 1 \in T
  <2>1. n + 1 \in 1 .. len /\ n + 1 \in 0 .. len
    BY <1>0
  <2>2. SetUpTo(s, p, n + 1) = Merge(SetUpTo(s, p, n), Steps(s, p)[n + 1])
    BY <1>0, SetSteps
  <2>3. Typed(k, SetUpTo(s, p, n)) /\ Typed(k, Steps(s, p)[n + 1])
    BY <1>0, <1>2, <2>1
  <2> QED BY <1>0, <2>1, <2>2, <2>3, MergeTyped
<1>3. \A n \in 0 .. len : n \in T
  <2> HIDE DEF T
  <2> QED BY <1>1, <1>2, UpTo
<1> QED BY <1>0, <1>3

LEMMA TwoOrThree ==
  ASSUME NEW a, NEW b, NEW c
  PROVE  /\ Len(<<a, b>> \o << >>) = 2 /\ DOMAIN (<<a, b>> \o << >>) = 1 .. 2
         /\ (<<a, b>> \o << >>)[1] = a /\ (<<a, b>> \o << >>)[2] = b
         /\ Len(<<a, b>> \o <<c>>) = 3 /\ DOMAIN (<<a, b>> \o <<c>>) = 1 .. 3
         /\ (<<a, b>> \o <<c>>)[1] = a /\ (<<a, b>> \o <<c>>)[2] = b /\ (<<a, b>> \o <<c>>)[3] = c
OBVIOUS

LEMMA Singles ==
  ASSUME NEW x
  PROVE  /\ DOMAIN [sequence |-> x] = {"sequence"} /\ [sequence |-> x]["sequence"] = x
         /\ DOMAIN [picture |-> x] = {"picture"} /\ [picture |-> x]["picture"] = x
         /\ DOMAIN [quantisation |-> x] = {"quantisation"} /\ [quantisation |-> x]["quantisation"] = x
         /\ DOMAIN [frame |-> x] = {"frame"} /\ [frame |-> x]["frame"] = x
OBVIOUS

LEMMA SetTwo ==
  ASSUME NEW s, NEW p, Len(Steps(s, p)) = 2,
         DOMAIN (Steps(s, p)[1]) = {"sequence"}, DOMAIN (Steps(s, p)[2]) = {"picture"}
  PROVE  /\ DOMAIN SetAll(s, p) = DOMAIN request[s] \cup {"sequence", "picture"}
         /\ SetAll(s, p)["sequence"] = Steps(s, p)[1]["sequence"]
         /\ SetAll(s, p)["picture"] = Steps(s, p)[2]["picture"]
<1>a. PICK a : a = Steps(s, p)[1]
  OBVIOUS
<1>b. PICK b : b = Steps(s, p)[2]
  OBVIOUS
<1>c. PICK all : all = SetAll(s, p)
  OBVIOUS
<1>1. PICK steps : steps = Steps(s, p)
  OBVIOUS
<1>2. PICK r : r = request[s]
  OBVIOUS
<1>3. PICK m : m = SetUpTo(s, p, 1)
  OBVIOUS
<1>4. Len(Steps(s, p)) \in Nat /\ Len(Steps(s, p)) >= 1 /\ Len(Steps(s, p)) >= 2
  BY <1>1
<1>5. m = Merge(r, a) /\ SetUpTo(s, p, 2) = Merge(m, b)
  <2>1. SetUpTo(s, p, 1) = Merge(request[s], Steps(s, p)[1])
    BY <1>4, SetFew, Zenon
  <2>2. SetUpTo(s, p, 2) = Merge(SetUpTo(s, p, 1), Steps(s, p)[2])
    BY <1>4, SetFew, Zenon
  <2> QED BY <1>a, <1>b, <1>2, <1>3, <2>1, <2>2, Zenon
<1>6. all = Merge(m, b)
  BY <1>c, <1>5 DEF SetAll
<1>7. /\ DOMAIN m = DOMAIN r \cup {"sequence"} /\ m["sequence"] = a["sequence"]
  BY <1>a, <1>5 DEF Merge
<1>8. /\ DOMAIN all = DOMAIN m \cup {"picture"} /\ all["picture"] = b["picture"]
      /\ \A x \in DOMAIN m : x # "picture" => all[x] = m[x]
  BY <1>b, <1>6 DEF Merge
<1> QED BY <1>a, <1>b, <1>c, <1>2, <1>7, <1>8

LEMMA SetThree ==
  ASSUME NEW s, NEW p, Len(Steps(s, p)) = 3,
         DOMAIN (Steps(s, p)[1]) = {"sequence"}, DOMAIN (Steps(s, p)[2]) = {"picture"},
         DOMAIN (Steps(s, p)[3]) = {"quantisation"}
  PROVE  /\ DOMAIN SetAll(s, p) = DOMAIN request[s] \cup {"sequence", "picture", "quantisation"}
         /\ SetAll(s, p)["sequence"] = Steps(s, p)[1]["sequence"]
         /\ SetAll(s, p)["picture"] = Steps(s, p)[2]["picture"]
         /\ SetAll(s, p)["quantisation"] = Steps(s, p)[3]["quantisation"]
<1>a. PICK a : a = Steps(s, p)[1]
  OBVIOUS
<1>b. PICK b : b = Steps(s, p)[2]
  OBVIOUS
<1>c. PICK c : c = Steps(s, p)[3]
  OBVIOUS
<1>d. PICK all : all = SetAll(s, p)
  OBVIOUS
<1>1. PICK steps : steps = Steps(s, p)
  OBVIOUS
<1>2. PICK r : r = request[s]
  OBVIOUS
<1>3. PICK m : m = SetUpTo(s, p, 1)
  OBVIOUS
<1>4. PICK m2 : m2 = SetUpTo(s, p, 2)
  OBVIOUS
<1>5. /\ Len(Steps(s, p)) \in Nat
      /\ Len(Steps(s, p)) >= 1 /\ Len(Steps(s, p)) >= 2 /\ Len(Steps(s, p)) >= 3
  BY <1>1
<1>6. m = Merge(r, a) /\ m2 = Merge(m, b) /\ SetUpTo(s, p, 3) = Merge(m2, c)
  <2>1. SetUpTo(s, p, 1) = Merge(request[s], Steps(s, p)[1])
    BY <1>5, SetFew, Zenon
  <2>2. SetUpTo(s, p, 2) = Merge(SetUpTo(s, p, 1), Steps(s, p)[2])
    BY <1>5, SetFew, Zenon
  <2>3. SetUpTo(s, p, 3) = Merge(SetUpTo(s, p, 2), Steps(s, p)[3])
    BY <1>5, SetFew, Zenon
  <2> QED BY <1>a, <1>b, <1>c, <1>2, <1>3, <1>4, <2>1, <2>2, <2>3, Zenon
<1>7. all = Merge(m2, c)
  BY <1>d, <1>6 DEF SetAll
<1>8. DOMAIN m = DOMAIN r \cup {"sequence"} /\ m["sequence"] = a["sequence"]
  BY <1>a, <1>b, <1>6 DEF Merge
<1>9. /\ DOMAIN m2 = DOMAIN m \cup {"picture"} /\ m2["picture"] = b["picture"]
      /\ \A x \in DOMAIN m : x # "picture" => m2[x] = m[x]
  BY <1>a, <1>b, <1>6 DEF Merge
<1>10. /\ DOMAIN all = DOMAIN m2 \cup {"quantisation"} /\ all["quantisation"] = c["quantisation"]
       /\ \A x \in DOMAIN m2 : x # "quantisation" => all[x] = m2[x]
  BY <1>c, <1>7 DEF Merge
<1> QED BY <1>a, <1>b, <1>c, <1>d, <1>2, <1>8, <1>9, <1>10

\* MPEG-2: sequence and picture, and the matrices that the surface has.
LEMMA Mpeg2Sets ==
  ASSUME codec = "mpeg2", NEW s, NEW p, Mpeg2Of(p), Typed("mpeg2", request[s]),
         Matrix(s, p).load = NoMatrix \/ Matrix(s, p).n \in Nat
  PROVE  /\ Len(Steps(s, p)) \in Nat /\ DOMAIN Steps(s, p) = 1 .. Len(Steps(s, p))
         /\ \A n \in 0 .. Len(Steps(s, p)) : Typed("mpeg2", SetUpTo(s, p, n))
         /\ {"sequence", "picture"} \subseteq DOMAIN SetAll(s, p)
         /\ SetAll(s, p)["sequence"].n = p.n
         /\ SetAll(s, p)["picture"] = [n |-> p.n, f_code |-> FCode(p.f_code), flags |-> FlagsOf(p)]
         /\ Matrix(s, p).load # NoMatrix =>
              "quantisation" \in DOMAIN SetAll(s, p) /\ SetAll(s, p)["quantisation"] = Quantisation(Matrix(s, p))
         /\ Matrix(s, p).load = NoMatrix =>
              DOMAIN SetAll(s, p) = DOMAIN request[s] \cup {"sequence", "picture"}
<1>a. PICK iq : iq = Matrix(s, p)
  OBVIOUS
<1>b. PICK all : all = SetAll(s, p)
  OBVIOUS
<1>c. iq.load = NoMatrix \/ iq.n \in Nat
  BY <1>a
<1> DEFINE sequence == [n |-> p.n, chroma_format |-> 1]
           picture == [n |-> p.n, f_code |-> FCode(p.f_code), flags |-> FlagsOf(p)]
           a == [sequence |-> sequence]
           b == [picture |-> picture]
           c == [quantisation |-> Quantisation(iq)]
<1>1. p.n \in Nat /\ p.f_code \in Nat /\ p.f_code < 2^16 /\ p.bits \subseteq DOMAIN Mpeg2Flag
  BY DEF Mpeg2Of
<1>2. sequence \in Mpeg2Sequence /\ sequence.n = p.n
  BY <1>1 DEF Mpeg2Sequence
<1>3. picture \in Mpeg2Picture
  <2>1. FCode(p.f_code) \in [{0, 1} -> [{0, 1} -> 0 .. 15]]
    BY <1>1, FCodeIs
  <2>2. FlagsOf(p) \in SUBSET {Mpeg2Flag[x] : x \in DOMAIN Mpeg2Flag}
    BY <1>1 DEF FlagsOf
  <2> QED BY <1>1, <2>1, <2>2 DEF Mpeg2Picture
<1>4. /\ TypeOf("mpeg2", "sequence") = Mpeg2Sequence /\ TypeOf("mpeg2", "picture") = Mpeg2Picture
      /\ TypeOf("mpeg2", "quantisation") = Mpeg2Quantisation
      /\ Named("mpeg2") = {"sequence", "picture", "quantisation"}
  BY DEF TypeOf, Named
<1>5. Steps(s, p) = <<a, b>> \o IF iq.load = NoMatrix THEN << >> ELSE <<c>>
  BY <1>a DEF Steps, Mpeg2Steps, FlagsOf
<1> HIDE DEF sequence, picture
<1>6. /\ DOMAIN a = {"sequence"} /\ a["sequence"] = sequence
      /\ DOMAIN b = {"picture"} /\ b["picture"] = picture
      /\ DOMAIN c = {"quantisation"} /\ c["quantisation"] = Quantisation(iq)
  BY Singles
<1> HIDE DEF a, b, c
<1>7. Typed("mpeg2", a) /\ Typed("mpeg2", b) /\ (iq.load # NoMatrix => Typed("mpeg2", c))
  <2>1. iq.load # NoMatrix => Quantisation(iq) \in Mpeg2Quantisation
    BY <1>c, QuantisationIs
  <2> QED BY <1>a, <1>b, <1>2, <1>3, <1>4, <1>6, <2>1, Zenon DEF Typed
<1>8. CASE iq.load = NoMatrix
  <2>1. Steps(s, p) = <<a, b>> \o << >>
    BY <1>5, <1>8
  <2>2. /\ Len(Steps(s, p)) = 2 /\ DOMAIN Steps(s, p) = 1 .. 2
        /\ Steps(s, p)[1] = a /\ Steps(s, p)[2] = b
    BY <2>1, TwoOrThree
  <2>3. \A n \in 1 .. 2 : n = 1 \/ n = 2
    OBVIOUS
  <2>4. \A n \in 1 .. Len(Steps(s, p)) : Typed("mpeg2", Steps(s, p)[n])
    <3>1. Typed("mpeg2", Steps(s, p)[1]) /\ Typed("mpeg2", Steps(s, p)[2])
      BY <1>7, <2>2
    <3>2. \A n \in 1 .. 2 : Typed("mpeg2", Steps(s, p)[n])
      BY <2>3, <3>1, Zenon
    <3> QED BY <2>2, <3>2
  <2>5. \A n \in 0 .. Len(Steps(s, p)) : Typed("mpeg2", SetUpTo(s, p, n))
    <3>1. Len(Steps(s, p)) \in Nat
      BY <2>2
    <3> QED BY <2>4, <3>1, SettingTyped, Zenon
  <2>6. /\ DOMAIN all = DOMAIN request[s] \cup {"sequence", "picture"}
        /\ all["sequence"] = sequence /\ all["picture"] = picture
    <3>1. DOMAIN (Steps(s, p)[1]) = {"sequence"} /\ DOMAIN (Steps(s, p)[2]) = {"picture"}
      BY <1>6, <2>2
    <3> QED BY <1>b, <1>6, <2>2, <3>1, SetTwo
  <2> QED BY <1>a, <1>b, <1>2, <1>8, <2>2, <2>5, <2>6 DEF picture
<1>9. CASE iq.load # NoMatrix
  <2>1. Steps(s, p) = <<a, b>> \o <<c>>
    BY <1>5, <1>9
  <2>2. /\ Len(Steps(s, p)) = 3 /\ DOMAIN Steps(s, p) = 1 .. 3
        /\ Steps(s, p)[1] = a /\ Steps(s, p)[2] = b /\ Steps(s, p)[3] = c
    BY <2>1, TwoOrThree
  <2>3. \A n \in 1 .. 3 : n = 1 \/ n = 2 \/ n = 3
    OBVIOUS
  <2>4. \A n \in 1 .. Len(Steps(s, p)) : Typed("mpeg2", Steps(s, p)[n])
    <3>1. /\ Typed("mpeg2", Steps(s, p)[1]) /\ Typed("mpeg2", Steps(s, p)[2])
          /\ Typed("mpeg2", Steps(s, p)[3])
      BY <1>7, <1>9, <2>2
    <3>2. \A n \in 1 .. 3 : Typed("mpeg2", Steps(s, p)[n])
      BY <2>3, <3>1, Zenon
    <3> QED BY <2>2, <3>2
  <2>5. \A n \in 0 .. Len(Steps(s, p)) : Typed("mpeg2", SetUpTo(s, p, n))
    <3>1. Len(Steps(s, p)) \in Nat
      BY <2>2
    <3> QED BY <2>4, <3>1, SettingTyped, Zenon
  <2>6. /\ DOMAIN all = DOMAIN request[s] \cup {"sequence", "picture", "quantisation"}
        /\ all["sequence"] = sequence /\ all["picture"] = picture
        /\ all["quantisation"] = Quantisation(iq)
    <3>1. /\ DOMAIN (Steps(s, p)[1]) = {"sequence"} /\ DOMAIN (Steps(s, p)[2]) = {"picture"}
          /\ DOMAIN (Steps(s, p)[3]) = {"quantisation"}
      BY <1>6, <2>2
    <3> QED BY <1>b, <1>6, <2>2, <3>1, SetThree
  <2> QED BY <1>a, <1>b, <1>2, <1>9, <2>2, <2>5, <2>6 DEF picture
<1> QED BY <1>8, <1>9

\* One call sets the control of VP8, and both controls of VP9.
LEMMA SetOne ==
  ASSUME NEW s, NEW p, Len(Steps(s, p)) = 1, NEW k,
         Typed(k, request[s]), Typed(k, Steps(s, p)[1])
  PROVE  /\ SetAll(s, p) = Merge(request[s], Steps(s, p)[1])
         /\ \A n \in 0 .. 1 : Typed(k, SetUpTo(s, p, n))
<1>1. Len(Steps(s, p)) \in Nat /\ Len(Steps(s, p)) >= 1
  OBVIOUS
<1>2. SetUpTo(s, p, 1) = Merge(request[s], Steps(s, p)[1])
  BY <1>1, SetFew, Zenon
<1>3. SetUpTo(s, p, 0) = request[s]
  BY <1>1, SetSteps, Zenon
<1>4. Typed(k, SetUpTo(s, p, 1)) /\ Typed(k, SetUpTo(s, p, 0))
  BY <1>2, <1>3, MergeTyped
<1>5. \A n \in 0 .. 1 : n = 0 \/ n = 1
  OBVIOUS
<1> QED BY <1>2, <1>4, <1>5 DEF SetAll

LEMMA Vp8Sets ==
  ASSUME codec = "vp8", NEW s, NEW p, Vp8Of(p), Typed("vp8", request[s])
  PROVE  /\ Len(Steps(s, p)) = 1 /\ DOMAIN Steps(s, p) = 1 .. 1
         /\ \A n \in 0 .. 1 : Typed("vp8", SetUpTo(s, p, n))
         /\ DOMAIN SetAll(s, p) = {"frame"} /\ SetAll(s, p)["frame"] = Frame(p)
<1>1. PICK a : a = [frame |-> Frame(p)]
  OBVIOUS
<1>2. PICK r : r = request[s]
  OBVIOUS
<1>3. DOMAIN a = {"frame"} /\ a["frame"] = Frame(p)
  BY <1>1, Singles
<1>4. Steps(s, p) = <<a>>
  BY <1>1 DEF Steps, Vp8Steps
<1>5. Len(Steps(s, p)) = 1 /\ DOMAIN Steps(s, p) = 1 .. 1 /\ Steps(s, p)[1] = a
  BY <1>4
<1>6. Named("vp8") = {"frame"} /\ TypeOf("vp8", "frame") = Vp8Frame
  BY DEF Named, TypeOf
<1>7. Typed("vp8", a)
  <2>1. Frame(p) \in Vp8Frame
    BY FrameIs
  <2> QED BY <1>3, <1>6, <2>1, Zenon DEF Typed
<1>8. SetAll(s, p) = Merge(r, a) /\ \A n \in 0 .. 1 : Typed("vp8", SetUpTo(s, p, n))
  BY <1>2, <1>5, <1>7, SetOne
<1>9. DOMAIN r \subseteq {"frame"}
  BY <1>2, <1>6 DEF Typed
<1>10. DOMAIN SetAll(s, p) = {"frame"} /\ SetAll(s, p)["frame"] = Frame(p)
  BY <1>3, <1>8, <1>9 DEF Merge
<1> QED BY <1>5, <1>8, <1>10

LEMMA Vp9Sets ==
  ASSUME codec = "vp9", NEW s, NEW p, Vp9Of(p), Typed("vp9", request[s]),
         NEW h, h = Header(s, p), h.n \in Nat
  PROVE  /\ Len(Steps(s, p)) = 1 /\ DOMAIN Steps(s, p) = 1 .. 1
         /\ \A n \in 0 .. 1 : Typed("vp9", SetUpTo(s, p, n))
         /\ DOMAIN SetAll(s, p) = {"frame", "compressed"}
         /\ SetAll(s, p)["frame"] = FrameWith(p, h)
         /\ SetAll(s, p)["compressed"].n = h.n
<1> DEFINE compressed == [n |-> h.n, copied |-> CompressedHeader]
<1>1. PICK a : a = [frame |-> FrameWith(p, h), compressed |-> compressed]
  OBVIOUS
<1>2. PICK r : r = request[s]
  OBVIOUS
<1>3. compressed \in [n : Nat, copied : {Vp9Tables}] /\ compressed.n = h.n
  BY CompressedIs
<1> HIDE DEF compressed
<1>4. DOMAIN a = {"frame", "compressed"} /\ a["frame"] = FrameWith(p, h) /\ a["compressed"] = compressed
  BY <1>1
<1>5. Steps(s, p) = <<a>>
  BY <1>1 DEF Steps, Vp9Steps, compressed
<1>6. Len(Steps(s, p)) = 1 /\ DOMAIN Steps(s, p) = 1 .. 1 /\ Steps(s, p)[1] = a
  BY <1>5
<1>7. /\ Named("vp9") = {"frame", "compressed"} /\ TypeOf("vp9", "frame") = Vp9Frame
      /\ TypeOf("vp9", "compressed") = [n : Nat, copied : {Vp9Tables}]
  BY DEF Named, TypeOf
<1>8. Typed("vp9", a)
  <2>1. FrameWith(p, h) \in Vp9Frame
    BY Vp9FrameIs
  <2> QED BY <1>3, <1>4, <1>7, <2>1, Zenon DEF Typed
<1>9. SetAll(s, p) = Merge(r, a) /\ \A n \in 0 .. 1 : Typed("vp9", SetUpTo(s, p, n))
  BY <1>2, <1>6, <1>8, SetOne
<1>10. DOMAIN r \subseteq {"frame", "compressed"}
  BY <1>2, <1>7 DEF Typed
<1>11. /\ DOMAIN SetAll(s, p) = {"frame", "compressed"}
       /\ SetAll(s, p)["frame"] = FrameWith(p, h) /\ SetAll(s, p)["compressed"] = compressed
  BY <1>4, <1>9, <1>10 DEF Merge
<1> QED BY <1>3, <1>6, <1>9, <1>11

-----------------------------------------------------------------------------
(* What is kept for the surfaces: a surface whose last picture did not fail *)
(* holds nothing of an earlier one.                                         *)

RequestsInv ==
  /\ codec \in {"h264", "mpeg2", "vp8", "vp9"}
  /\ source \in [Targets -> Seq(Pictures)]
  /\ iqmatrix \in [Targets -> Pictures \cup {None}]
  /\ DOMAIN request = Targets
  /\ \A s \in Targets : Typed(codec, request[s])
  /\ failed \subseteq Targets
  /\ \A s \in Targets \ failed : request[s] = Nothing /\ iqmatrix[s] = None /\ source[s] = << >>

LEMMA PicturesOf ==
  /\ codec = "mpeg2" => Pictures = Mpeg2Pictures /\ Targets = Surfaces
  /\ codec = "vp8" => Pictures = Vp8Pictures /\ Targets = Surfaces
  /\ codec = "vp9" => Pictures = Vp9Pictures /\ Targets = Surfaces
  /\ codec = "h264" => Pictures = {} /\ Targets = {}
BY DEF Pictures, Targets

LEMMA SamePictures == codec' = codec => Pictures' = Pictures /\ Targets' = Targets
BY DEF Pictures, Targets

LEMMA RequestsInitInv == Init => RequestsInv
<1> SUFFICES ASSUME Init PROVE RequestsInv
  OBVIOUS
<1>1. codec \in {"h264", "mpeg2", "vp8", "vp9"}
  BY DEF Init
<1>2. PICK T : T = Targets
  OBVIOUS
<1>3. /\ source = [s \in T |-> << >>] /\ iqmatrix = [s \in T |-> None]
      /\ request = [s \in T |-> Nothing] /\ failed = {}
  BY <1>2 DEF Init
<1>4. \A s \in T : Typed(codec, request[s])
  BY <1>3, NothingTyped
<1>5. source \in [T -> Seq(Pictures)] /\ iqmatrix \in [T -> Pictures \cup {None}]
  BY <1>3
<1> QED BY <1>1, <1>2, <1>3, <1>4, <1>5 DEF RequestsInv

\* The header at the start of the source buffer is that of a picture of the
\* stream, and the picture's own when nothing was left there.
LEMMA HeaderIs ==
  ASSUME RequestsInv, NEW s \in Targets, NEW p \in Pictures
  PROVE  Header(s, p) \in Pictures /\ (s \notin failed => Header(s, p) = p)
<1>1. PICK data \in Seq(Pictures) : data = source[s]
  BY DEF RequestsInv
<1>2. Head(Append(data, p)) \in Pictures
  <2>1. Append(data, p) \in Seq(Pictures) /\ Append(data, p) # << >>
    BY AppendProperties
  <2> QED BY <2>1, HeadTailProperties
<1>3. s \notin failed => data = << >>
  BY <1>1 DEF RequestsInv
<1>4. Head(Append(<< >>, p)) = p
  OBVIOUS
<1> QED BY <1>1, <1>2, <1>3, <1>4 DEF Header

\* The matrices of a surface are those of a picture that has some.
LEMMA MatrixIs ==
  ASSUME RequestsInv, codec = "mpeg2", NEW s \in Targets, NEW p \in Pictures
  PROVE  /\ Matrix(s, p) \in Pictures \cup {None}
         /\ Matrix(s, p).load = NoMatrix \/ Matrix(s, p).n \in Nat
         /\ p.load # NoMatrix => Matrix(s, p) = p
         /\ p.load = NoMatrix /\ s \notin failed => Matrix(s, p) = None
<1>1. iqmatrix[s] \in Pictures \cup {None} /\ (s \notin failed => iqmatrix[s] = None)
  BY DEF RequestsInv
<1>2. \A q \in Pictures : q.n \in Nat
  BY Mpeg2Given, PicturesOf DEF Mpeg2Of
<1>3. None.load = NoMatrix
  BY DEF None
<1> QED BY <1>1, <1>2, <1>3 DEF Matrix

LEMMA MatrixTyped ==
  ASSUME RequestsInv, NEW s \in Targets, NEW p \in Pictures
  PROVE  Matrix(s, p) \in Pictures \cup {None}
<1>1. iqmatrix[s] \in Pictures \cup {None}
  BY DEF RequestsInv
<1> QED BY <1>1 DEF Matrix

\* What a number of calls leaves in a request is typed.
LEMMA SetsTyped ==
  ASSUME RequestsInv, NEW s \in Targets, NEW p \in Pictures
  PROVE  /\ \A k \in DOMAIN Steps(s, p) : Typed(codec, SetUpTo(s, p, k - 1))
         /\ Typed(codec, SetAll(s, p))
<1> DEFINE Goal == \E len \in Nat : /\ len = Len(Steps(s, p)) /\ DOMAIN Steps(s, p) = 1 .. len
                                    /\ \A n \in 0 .. len : Typed(codec, SetUpTo(s, p, n))
<1>1. Typed(codec, request[s]) /\ codec \in {"h264", "mpeg2", "vp8", "vp9"}
  BY DEF RequestsInv
<1>2. codec # "h264"
  BY PicturesOf
<1>3. ASSUME codec = "mpeg2" PROVE Goal
  <2>1. Mpeg2Of(p)
    BY <1>3, Mpeg2Given, PicturesOf
  <2>2. PICK iq : iq = Matrix(s, p)
    OBVIOUS
  <2>3. iq.load = NoMatrix \/ iq.n \in Nat
    BY <1>3, <2>2, MatrixIs
  <2>4. PICK all : all = SetAll(s, p)
    OBVIOUS
  <2>5. /\ Len(Steps(s, p)) \in Nat /\ DOMAIN Steps(s, p) = 1 .. Len(Steps(s, p))
        /\ \A n \in 0 .. Len(Steps(s, p)) : Typed("mpeg2", SetUpTo(s, p, n))
    BY <1>1, <1>3, <2>1, <2>2, <2>3, <2>4, Mpeg2Sets
  <2> QED BY <1>3, <2>5
<1>4. ASSUME codec = "vp8" PROVE Goal
  <2>1. Vp8Of(p)
    BY <1>4, Vp8Given, PicturesOf
  <2>2. /\ Len(Steps(s, p)) = 1 /\ DOMAIN Steps(s, p) = 1 .. 1
        /\ \A n \in 0 .. 1 : Typed("vp8", SetUpTo(s, p, n))
    BY <1>1, <1>4, <2>1, Vp8Sets
  <2> QED BY <1>4, <2>2
<1>5. ASSUME codec = "vp9" PROVE Goal
  <2>1. PICK h : h = Header(s, p)
    OBVIOUS
  <2>2. Vp9Of(p) /\ h.n \in Nat
    BY <1>5, <2>1, HeaderIs, Vp9Given, PicturesOf DEF Vp9Of
  <2>3. /\ Len(Steps(s, p)) = 1 /\ DOMAIN Steps(s, p) = 1 .. 1
        /\ \A n \in 0 .. 1 : Typed("vp9", SetUpTo(s, p, n))
    BY <1>1, <1>5, <2>1, <2>2, Vp9Sets
  <2> QED BY <1>5, <2>3
<1>6. PICK len \in Nat : /\ len = Len(Steps(s, p)) /\ DOMAIN Steps(s, p) = 1 .. len
                         /\ \A n \in 0 .. len : Typed(codec, SetUpTo(s, p, n))
  BY <1>1, <1>2, <1>3, <1>4, <1>5
<1>7. \A k \in 1 .. len : k - 1 \in 0 .. len
  OBVIOUS
<1>8. len \in 0 .. len
  OBVIOUS
<1> QED BY <1>6, <1>7, <1>8 DEF SetAll

LEMMA LeaveInv ==
  ASSUME RequestsInv, NEW s \in Targets, NEW p \in Pictures, codec' = codec,
         NEW controls, Typed(codec, controls), Leave(s, p, controls)
  PROVE  RequestsInv'
<1>1. /\ source \in [Targets -> Seq(Pictures)] /\ iqmatrix \in [Targets -> Pictures \cup {None}]
      /\ DOMAIN request = Targets /\ failed \subseteq Targets
      /\ \A t \in Targets : Typed(codec, request[t])
      /\ \A t \in Targets \ failed : request[t] = Nothing /\ iqmatrix[t] = None /\ source[t] = << >>
  BY DEF RequestsInv
<1>2. PICK q : q = Matrix(s, p)
  OBVIOUS
<1>3. q \in Pictures \cup {None}
  BY <1>2, MatrixTyped
<1>4. /\ request' = [request EXCEPT ![s] = controls]
      /\ iqmatrix' = [iqmatrix EXCEPT ![s] = q]
      /\ source' = [source EXCEPT ![s] = Append(source[s], p)]
      /\ failed' = failed \cup {s}
  BY <1>2 DEF Leave
<1>5. Append(source[s], p) \in Seq(Pictures)
  <2>1. source[s] \in Seq(Pictures)
    BY <1>1
  <2> QED BY <2>1, AppendProperties
<1>6. /\ source' \in [Targets -> Seq(Pictures)] /\ iqmatrix' \in [Targets -> Pictures \cup {None}]
  BY <1>1, <1>3, <1>4, <1>5
<1>7. DOMAIN request' = Targets /\ \A t \in Targets : Typed(codec, request'[t])
  BY <1>1, <1>4
<1>8. \A t \in Targets \ failed' : request'[t] = Nothing /\ iqmatrix'[t] = None /\ source'[t] = << >>
  <2> SUFFICES ASSUME NEW t \in Targets \ failed'
               PROVE  request'[t] = Nothing /\ iqmatrix'[t] = None /\ source'[t] = << >>
    OBVIOUS
  <2>1. t # s /\ t \in Targets \ failed
    BY <1>4
  <2>2. request'[t] = request[t] /\ iqmatrix'[t] = iqmatrix[t] /\ source'[t] = source[t]
    BY <1>1, <1>4, <2>1
  <2> QED BY <1>1, <2>1, <2>2
<1> QED BY <1>1, <1>4, <1>6, <1>7, <1>8, SamePictures DEF RequestsInv

LEMMA ClearInv ==
  ASSUME RequestsInv, NEW s \in Targets, codec' = codec, Clear(s), failed' = failed \ {s}
  PROVE  RequestsInv'
<1>1. /\ source \in [Targets -> Seq(Pictures)] /\ iqmatrix \in [Targets -> Pictures \cup {None}]
      /\ DOMAIN request = Targets /\ failed \subseteq Targets
      /\ \A t \in Targets : Typed(codec, request[t])
      /\ \A t \in Targets \ failed : request[t] = Nothing /\ iqmatrix[t] = None /\ source[t] = << >>
  BY DEF RequestsInv
<1>2. /\ request' = [request EXCEPT ![s] = Nothing]
      /\ iqmatrix' = [iqmatrix EXCEPT ![s] = None]
      /\ source' = [source EXCEPT ![s] = << >>]
  BY DEF Clear
<1>3. << >> \in Seq(Pictures) /\ Typed(codec, Nothing)
  BY NothingTyped
<1>4. /\ source' \in [Targets -> Seq(Pictures)] /\ iqmatrix' \in [Targets -> Pictures \cup {None}]
  BY <1>1, <1>2, <1>3
<1>5. DOMAIN request' = Targets /\ \A t \in Targets : Typed(codec, request'[t])
  BY <1>1, <1>2, <1>3
<1>6. \A t \in Targets \ failed' : request'[t] = Nothing /\ iqmatrix'[t] = None /\ source'[t] = << >>
  <2> SUFFICES ASSUME NEW t \in Targets \ failed'
               PROVE  request'[t] = Nothing /\ iqmatrix'[t] = None /\ source'[t] = << >>
    OBVIOUS
  <2>1. CASE t = s
    BY <1>1, <1>2, <2>1
  <2>2. CASE t # s
    <3>1. t \in Targets \ failed
      BY <2>2
    <3>2. request'[t] = request[t] /\ iqmatrix'[t] = iqmatrix[t] /\ source'[t] = source[t]
      BY <1>1, <1>2, <2>2
    <3> QED BY <1>1, <3>1, <3>2
  <2> QED BY <2>1, <2>2
<1> QED BY <1>1, <1>4, <1>5, <1>6, SamePictures DEF RequestsInv

-----------------------------------------------------------------------------
(* What the device holds: it is of the picture decoded last. *)

ReadBack ==
  /\ codec = "mpeg2" /\ Decoded =>
       LET f == device.picture.f_code
       IN /\ last.picture.bits = {b \in DOMAIN Mpeg2Flag : Mpeg2Flag[b] \in device.picture.flags}
          /\ last.picture.f_code = 2^12 * f[0][0] + 2^8 * f[0][1] + 2^4 * f[1][0] + f[1][1]
  /\ codec = "vp9" /\ Decoded =>
       /\ device.frame.frame_width_minus_1 + 1 = last.picture.width
       /\ device.frame.reset_frame_context = ResetCode[ResetMeaning[last.picture.reset + 1]]
  /\ Vp8PrefixAgrees

DeviceInv ==
  /\ Typed(codec, device)
  /\ last.picture \in Pictures \cup {None}
  /\ ControlsOwn /\ MatricesReach /\ ReadBack /\ Vp9HeadersOwn

LEMMA DeviceInitInv == Init => DeviceInv
<1> SUFFICES ASSUME Init PROVE DeviceInv
  OBVIOUS
<1>1. Typed(codec, device)
  BY NothingTyped DEF Init
<1>2. last.picture = None
  BY DEF Init
<1>3. ~Decoded
  BY <1>2 DEF Decoded
<1> QED BY <1>1, <1>2, <1>3
        DEF DeviceInv, ControlsOwn, MatricesReach, ReadBack, Vp9HeadersOwn, Vp8PrefixAgrees

LEMMA DeviceIdleInv ==
  ASSUME DeviceInv, codec' = codec, UNCHANGED <<device, last>>
  PROVE  DeviceInv'
BY SamePictures
   DEF DeviceInv, Decoded, ControlsOwn, MatricesReach, ReadBack, Vp9HeadersOwn, Vp8PrefixAgrees

\* The flags of MPEG-2 tell which bits the picture has.
LEMMA Mpeg2BitsBack ==
  ASSUME NEW bits \in SUBSET DOMAIN Mpeg2Flag
  PROVE  bits = {b \in DOMAIN Mpeg2Flag : Mpeg2Flag[b] \in {Mpeg2Flag[a] : a \in bits}}
BY Mpeg2FlagsDistinct

LEMMA Mpeg2Decodes ==
  ASSUME RequestsInv, Typed(codec, device), codec = "mpeg2", codec' = codec,
         NEW s \in Targets, NEW p \in Pictures, DeviceDecodes(s, p)
  PROVE  DeviceInv'
<1>0. codec' = "mpeg2"
  OBVIOUS
<1>1. Mpeg2Of(p) /\ p.n \in Nat /\ p.f_code \in Nat /\ p.f_code < 2^16 /\ p.bits \subseteq DOMAIN Mpeg2Flag
  BY Mpeg2Given, PicturesOf DEF Mpeg2Of
<1>2. PICK iq : iq = Matrix(s, p)
  OBVIOUS
<1>3. /\ iq.load = NoMatrix \/ iq.n \in Nat
      /\ p.load # NoMatrix => iq = p
      /\ p.load = NoMatrix /\ s \notin failed => iq = None
  BY <1>2, MatrixIs
<1>4. PICK all : all = SetAll(s, p)
  OBVIOUS
<1>5. PICK r : r = request[s]
  OBVIOUS
<1>6. Typed("mpeg2", r) /\ (s \notin failed => r = Nothing)
  BY <1>5 DEF RequestsInv
<1>7. /\ {"sequence", "picture"} \subseteq DOMAIN all
      /\ all["sequence"].n = p.n
      /\ all["picture"] = [n |-> p.n, f_code |-> FCode(p.f_code), flags |-> FlagsOf(p)]
      /\ iq.load # NoMatrix => "quantisation" \in DOMAIN all /\ all["quantisation"] = Quantisation(iq)
      /\ iq.load = NoMatrix => DOMAIN all = DOMAIN r \cup {"sequence", "picture"}
  BY <1>1, <1>2, <1>3, <1>4, <1>5, <1>6, Mpeg2Sets
<1>8. PICK d : d = device'
  OBVIOUS
<1>9. d = Merge(device, all) /\ Typed("mpeg2", all)
  BY <1>4, <1>8, SetsTyped DEF DeviceDecodes
<1>10. /\ last'.picture = p /\ (last'.clean <=> s \notin failed) /\ last'.before = device
  BY DEF DeviceDecodes
<1>11. Typed("mpeg2", d)
  BY <1>9, MergeTyped
<1>12. DOMAIN d = DOMAIN device \cup DOMAIN all /\ DOMAIN d \subseteq {"sequence", "picture", "quantisation"}
  BY <1>9, <1>11 DEF Merge, Typed, Named
<1>13. d["sequence"].n = p.n /\ d["picture"] = all["picture"] /\ d["picture"].n = p.n
  <2>1. d["sequence"] = all["sequence"] /\ d["picture"] = all["picture"]
    BY <1>7, <1>9 DEF Merge
  <2> QED BY <1>7, <2>1
<1>14. ControlsOwn'
  BY <1>8, <1>10, <1>12, <1>13 DEF ControlsOwn
<1>15. ReadBack'
  <2>1. PICK f : f = FCode(p.f_code)
    OBVIOUS
  <2>2. p.f_code = 2^12 * f[0][0] + 2^8 * f[0][1] + 2^4 * f[1][0] + f[1][1]
    BY <1>1, <2>1, FCodeIs
  <2>3. p.bits = {b \in DOMAIN Mpeg2Flag : Mpeg2Flag[b] \in {Mpeg2Flag[a] : a \in p.bits}}
    BY <1>1, Mpeg2BitsBack
  <2>4. d.picture.f_code = f /\ d.picture.flags = {Mpeg2Flag[a] : a \in p.bits}
    BY <1>7, <1>13, <2>1 DEF FlagsOf
  <2>5. codec' # "vp9" /\ Vp8PrefixAgrees'
    BY <1>0 DEF Vp8PrefixAgrees
  <2> QED BY <1>8, <1>10, <2>2, <2>3, <2>4, <2>5, Zenon DEF ReadBack
<1>16. MatricesReach'
  <2> SUFFICES ASSUME s \notin failed
               PROVE  LET held(controls) == IF "quantisation" \in DOMAIN controls
                                            THEN {controls.quantisation} ELSE {}
                      IN IF p.load = NoMatrix THEN held(d) = held(device)
                         ELSE \A m \in Matrices : (m \in p.load) <=> (d.quantisation[m] = Own(p, m))
    BY <1>8, <1>10 DEF MatricesReach
  <2>1. CASE p.load = NoMatrix
    <3>1. iq.load = NoMatrix /\ DOMAIN r = {}
      BY <1>3, <1>6, <2>1 DEF None, Nothing
    <3>2. DOMAIN all = {"sequence", "picture"}
      BY <1>7, <3>1
    <3>3. /\ "quantisation" \in DOMAIN d <=> "quantisation" \in DOMAIN device
          /\ "quantisation" \in DOMAIN d => d.quantisation = device.quantisation
      BY <1>9, <3>2 DEF Merge
    <3> QED BY <2>1, <3>3
  <2>2. CASE p.load # NoMatrix
    <3>1. d.quantisation = Quantisation(p)
      <4>1. "quantisation" \in DOMAIN all /\ all["quantisation"] = Quantisation(p)
        BY <1>3, <1>7, <2>2
      <4> QED BY <1>9, <4>1 DEF Merge
    <3>2. \A m \in Matrices : (m \in p.load) <=> (Quantisation(p)[m] = Own(p, m))
      BY <1>1, QuantisationIs
    <3> QED BY <2>2, <3>1, <3>2
  <2> QED BY <2>1, <2>2
<1>17. Vp9HeadersOwn'
  BY <1>0 DEF Vp9HeadersOwn
<1> QED BY <1>8, <1>10, <1>11, <1>14, <1>15, <1>16, <1>17, SamePictures DEF DeviceInv

LEMMA Vp8Decodes ==
  ASSUME RequestsInv, Typed(codec, device), codec = "vp8", codec' = codec,
         NEW s \in Targets, NEW p \in Pictures, DeviceDecodes(s, p)
  PROVE  DeviceInv'
<1>0. codec' = "vp8"
  OBVIOUS
<1>1. Vp8Of(p)
  BY Vp8Given, PicturesOf
<1>2. PICK all : all = SetAll(s, p)
  OBVIOUS
<1>3. Typed("vp8", request[s])
  BY DEF RequestsInv
<1>4. DOMAIN all = {"frame"} /\ all["frame"] = Frame(p)
  BY <1>1, <1>2, <1>3, Vp8Sets
<1>5. PICK d : d = device'
  OBVIOUS
<1>6. d = Merge(device, all) /\ Typed("vp8", all)
  BY <1>2, <1>5, SetsTyped DEF DeviceDecodes
<1>7. last'.picture = p
  BY DEF DeviceDecodes
<1>8. Typed("vp8", d)
  BY <1>6, MergeTyped
<1>9. DOMAIN d = {"frame"} /\ d["frame"] = Frame(p)
  BY <1>4, <1>6, <1>8 DEF Merge, Typed, Named
<1>10. PICK f : f = Frame(p)
  OBVIOUS
<1>11. ControlsOwn'
  <2>1. f.n = p.n
    BY <1>1, <1>10, FrameIs
  <2> QED BY <1>5, <1>7, <1>9, <1>10, <2>1 DEF ControlsOwn
<1>12. Vp8PrefixAgrees'
  <2>1. PICK chunk : chunk = Parsed(Prefix(p))
    OBVIOUS
  <2>2. /\ chunk.key <=> KeyFrame \in f.flags
        /\ chunk.show <=> ShowFrame \in f.flags
        /\ chunk.version = f.version
        /\ chunk.first_part_size = f.first_part_size
        /\ chunk.key => ParsedSize(Prefix(p)) =
             [start |-> << 157, 1, 42 >>,
              width |-> f.width, horizontal_scale |-> f.horizontal_scale,
              height |-> f.height, vertical_scale |-> f.vertical_scale]
        /\ f.num_dct_parts = 1 => f.first_part_size + f.dct_part_sizes[1] = p.size
    BY <1>1, <1>10, <2>1, ChunkAgrees
  <2>3. device'["frame"] = f
    BY <1>5, <1>9, <1>10
  <2> QED BY <1>7, <2>1, <2>2, <2>3, Zenon DEF Vp8PrefixAgrees
<1>13. MatricesReach' /\ ReadBack' /\ Vp9HeadersOwn'
  BY <1>0, <1>12 DEF MatricesReach, ReadBack, Vp9HeadersOwn
<1> QED BY <1>5, <1>7, <1>8, <1>11, <1>13, SamePictures DEF DeviceInv

LEMMA Vp9Decodes ==
  ASSUME RequestsInv, Typed(codec, device), codec = "vp9", codec' = codec,
         NEW s \in Targets, NEW p \in Pictures, DeviceDecodes(s, p),
         deltas' = Parse(deltas, p)
  PROVE  DeviceInv'
<1>0. codec' = "vp9"
  OBVIOUS
<1>1. PICK h : h = Header(s, p)
  OBVIOUS
<1>2. Vp9Of(p) /\ h.n \in Nat /\ (s \notin failed => h = p)
  BY <1>1, HeaderIs, Vp9Given, PicturesOf DEF Vp9Of
<1>3. PICK all : all = SetAll(s, p)
  OBVIOUS
<1>4. Typed("vp9", request[s])
  BY DEF RequestsInv
<1>5. PICK f : f = FrameWith(p, h)
  OBVIOUS
<1>6. DOMAIN all = {"frame", "compressed"} /\ all["frame"] = f /\ all["compressed"].n = h.n
  BY <1>1, <1>2, <1>3, <1>4, <1>5, Vp9Sets
<1>7. PICK d : d = device'
  OBVIOUS
<1>8. d = Merge(device, all) /\ Typed("vp9", all)
  BY <1>3, <1>7, SetsTyped DEF DeviceDecodes
<1>9. last'.picture = p /\ (last'.clean <=> s \notin failed) /\ last'.deltas = Parse(deltas, p)
  BY DEF DeviceDecodes
<1>10. Typed("vp9", d)
  BY <1>8, MergeTyped
<1>11. DOMAIN d = {"frame", "compressed"} /\ d["frame"] = f /\ d["compressed"].n = h.n
  <2>1. DOMAIN d \subseteq {"frame", "compressed"}
    BY <1>10 DEF Typed, Named
  <2> QED BY <1>6, <1>8, <2>1 DEF Merge
<1>12. /\ f.n = p.n /\ f.header = h.n /\ f.lf = Parse(NewParser, h)
       /\ f.frame_width_minus_1 + 1 = p.width
       /\ f.reset_frame_context = ResetCode[ResetMeaning[p.reset + 1]]
  BY <1>2, <1>5, Vp9FrameIs
<1>13. ControlsOwn'
  BY <1>7, <1>9, <1>11, <1>12 DEF ControlsOwn
<1>14. MatricesReach' /\ Vp8PrefixAgrees'
  BY <1>0 DEF MatricesReach, Vp8PrefixAgrees
<1>15. ReadBack'
  <2>1. device'["frame"] = f /\ codec' # "mpeg2"
    BY <1>0, <1>7, <1>11
  <2> QED BY <1>9, <1>12, <1>14, <2>1, Zenon DEF ReadBack
<1>16. Vp9HeadersOwn'
  <2> SUFFICES ASSUME s \notin failed
               PROVE  /\ d.frame.header = p.n /\ d.compressed.n = p.n
                      /\ \A g \in Groups : g \in p.update \/ ~p.past => d.frame.lf[g] = Parse(deltas, p)[g]
    BY <1>7, <1>9 DEF Vp9HeadersOwn
  <2>1. h = p
    BY <1>2
  <2>2. \A g \in Groups : g \in p.update \/ ~p.past => Parse(NewParser, p)[g] = Parse(deltas, p)[g]
    BY DEF Parse
  <2> QED BY <1>11, <1>12, <2>1, <2>2
<1> QED BY <1>7, <1>9, <1>10, <1>13, <1>14, <1>15, <1>16, SamePictures DEF DeviceInv

-----------------------------------------------------------------------------
(* The specification. *)

\* The inductive invariant.
IInv == H264Inv /\ RequestsInv /\ DeviceInv

LEMMA InitInv == Init => IInv
BY H264InitInv, RequestsInitInv, DeviceInitInv DEF Init, IInv

\* One submission to a device of MPEG-2, VP8 or VP9, with any outcome.
LEMMA SubmissionInv ==
  ASSUME RequestsInv, DeviceInv, codec' = codec,
         NEW s \in Targets, NEW p \in Pictures, Submission(s, p)
  PROVE  RequestsInv' /\ DeviceInv'
<1>1. codec \in {"mpeg2", "vp8", "vp9"} /\ Typed(codec, device)
  BY PicturesOf DEF RequestsInv, DeviceInv
<1>2. codec = "vp9" => deltas' = Parse(deltas, p)
  BY DEF Submission
<1>3. ASSUME DeviceDecodes(s, p) PROVE DeviceInv'
  <2>1. CASE codec = "mpeg2"
    BY <1>1, <1>3, <2>1, Mpeg2Decodes
  <2>2. CASE codec = "vp8"
    BY <1>1, <1>3, <2>2, Vp8Decodes
  <2>3. CASE codec = "vp9"
    BY <1>1, <1>2, <1>3, <2>3, Vp9Decodes
  <2> QED BY <1>1, <2>1, <2>2, <2>3
<1>4. /\ \A k \in DOMAIN Steps(s, p) : Typed(codec, SetUpTo(s, p, k - 1))
      /\ Typed(codec, SetAll(s, p)) /\ Typed(codec, Nothing)
  BY SetsTyped, NothingTyped
<1>5. CASE EndPicture(s, p)
  <2>1. Clear(s) /\ failed' = failed \ {s} /\ DeviceDecodes(s, p)
    BY <1>5 DEF EndPicture
  <2> QED BY <1>3, <2>1, ClearInv
<1>6. ASSUME NEW k \in DOMAIN Steps(s, p), ControlsFail(s, p, k) PROVE RequestsInv' /\ DeviceInv'
  <2>1. PICK controls : controls = SetUpTo(s, p, k - 1)
    OBVIOUS
  <2>2. Typed(codec, controls) /\ Leave(s, p, controls) /\ UNCHANGED <<device, last>>
    BY <1>4, <1>6, <2>1 DEF ControlsFail, DeviceIdle
  <2> QED BY <2>2, LeaveInv, DeviceIdleInv
<1>7. CASE QueueBufferFails(s, p)
  <2>1. PICK controls : controls = SetAll(s, p)
    OBVIOUS
  <2>2. Typed(codec, controls) /\ Leave(s, p, controls) /\ UNCHANGED <<device, last>>
    BY <1>4, <1>7, <2>1 DEF QueueBufferFails, DeviceIdle
  <2> QED BY <2>2, LeaveInv, DeviceIdleInv
<1>8. CASE QueueRequestFails(s, p)
  <2>1. Leave(s, p, Nothing) /\ UNCHANGED <<device, last>>
    BY <1>8 DEF QueueRequestFails, DeviceIdle
  <2> QED BY <1>4, <2>1, LeaveInv, DeviceIdleInv
<1>9. CASE WaitFails(s, p)
  <2>1. Leave(s, p, Nothing) /\ DeviceDecodes(s, p)
    BY <1>9 DEF WaitFails
  <2> QED BY <1>3, <1>4, <2>1, LeaveInv
<1> QED BY <1>5, <1>6, <1>7, <1>8, <1>9 DEF Submission

LEMMA H264Unchanged == H264Inv /\ UNCHANGED h264Vars => H264Inv'
BY DEF H264Inv, DpbInv, TableOK, Counted, Aged, Current, SlotsSuffice, SliceInv, SliceControlsOwn,
       h264Vars, dpbVars

LEMMA OthersUnchanged ==
  ASSUME RequestsInv, DeviceInv, UNCHANGED <<codec, controlVars>>
  PROVE  RequestsInv' /\ DeviceInv'
<1>1. codec' = codec /\ UNCHANGED <<source, iqmatrix, request, device, last, failed>>
  BY DEF controlVars
<1>2. RequestsInv'
  BY <1>1, SamePictures DEF RequestsInv
<1>3. DeviceInv'
  BY <1>1, DeviceIdleInv
<1> QED BY <1>2, <1>3

LEMMA NextInv == IInv /\ [Next]_vars => IInv'
<1> SUFFICES ASSUME IInv, [Next]_vars PROVE IInv'
  OBVIOUS
<1>0. H264Inv /\ RequestsInv /\ DeviceInv
  BY DEF IInv
<1>1. CASE H264Next /\ UNCHANGED <<codec, controlVars>>
  <2>1. H264Inv'
    BY <1>0, <1>1, H264StepInv
  <2>2. RequestsInv' /\ DeviceInv'
    BY <1>0, <1>1, OthersUnchanged
  <2> QED BY <2>1, <2>2 DEF IInv
<1>2. ASSUME UNCHANGED <<codec, h264Vars>>, NEW s \in Targets, NEW p \in Pictures, Submission(s, p)
      PROVE  IInv'
  <2>1. H264Inv'
    BY <1>0, <1>2, H264Unchanged
  <2>2. RequestsInv' /\ DeviceInv'
    <3>1. codec' = codec
      BY <1>2
    <3> QED BY <1>0, <1>2, <3>1, SubmissionInv
  <2> QED BY <2>1, <2>2 DEF IInv
<1>3. CASE UNCHANGED vars
  <2>1. UNCHANGED h264Vars /\ UNCHANGED <<codec, controlVars>>
    BY <1>3 DEF vars
  <2>2. H264Inv'
    BY <1>0, <2>1, H264Unchanged
  <2>3. RequestsInv' /\ DeviceInv'
    BY <1>0, <2>1, OthersUnchanged
  <2> QED BY <2>2, <2>3 DEF IInv
<1> QED BY <1>1, <1>2, <1>3 DEF Next

\* The invariant holds in every state: the base of what follows.
THEOREM Invariance == Spec => []IInv
<1>1. Init => IInv
  BY InitInv
<1>2. IInv /\ [Next]_vars => IInv'
  BY NextInv
<1> QED BY <1>1, <1>2, PTL DEF Spec

-----------------------------------------------------------------------------
(* Theorems. *)

LEMMA Typing == IInv => TypeOK
<1> SUFFICES ASSUME IInv PROVE TypeOK
  OBVIOUS
<1>1. TableOK /\ SliceInv /\ Typed(codec, device)
  BY DEF IInv, H264Inv, DpbInv, DeviceInv
<1>2. Size \in Nat
  BY DpbAssumption DEF DpbAssumption
<1>3. dpb \in [1 .. Size -> Entry] /\ \A i \in Slots : dpb[i] \in Entry
  BY <1>1 DEF TableOK, Sound, Tables, Slots
<1>4. Len(dpb) = Size
  BY <1>2, <1>3
<1>5. refs \subseteq Surfaces /\ active \subseteq Pics /\ age \in 0 .. MaxAge
  BY <1>1 DEF TableOK, Pics
<1>6. /\ h264.sps \in H264Sps /\ h264.pps \in H264Pps
      /\ h264.params \in H264SliceParams /\ h264.weights \in H264PredWeights
  BY <1>1 DEF SliceInv, H264Held
<1>7. H264TypeOK
  BY <1>3, <1>4, <1>5, <1>6 DEF H264TypeOK, Entry
<1>8. \A c \in DOMAIN device : device[c] \in TypeOf(codec, c)
  BY <1>1 DEF Typed
<1> QED BY <1>7, <1>8 DEF TypeOK, TypeOf

\* The table of decoded pictures, the controls of all codecs and what the driver
\* keeps for its surfaces always have their types: no element that is recoded for
\* the device leaves the range of its control.
THEOREM TypeCorrect == Spec => []TypeOK
<1>1. IInv => TypeOK
  BY Typing
<1> QED BY <1>1, Invariance, PTL

\* Whatever was decoded or failed before, and whatever memory the table of H264
\* pictures started with, the references the device is told of are exactly those
\* the client gave (dpb_update, decode_params).
THEOREM ReferencesTold == Spec => []ActiveAreRefs
<1>1. IInv => ActiveAreRefs
  BY DEF IInv, H264Inv, DpbInv, TableOK, ActiveAreRefs
<1> QED BY <1>1, Invariance, PTL

\* The table of H264 pictures has a slot for every picture of a stream that leaves
\* it room for two pictures besides the references: no null entry is followed.
THEOREM SlotsEnough == ASSUME Roomy PROVE Spec => []SlotsSuffice
<1>1. IInv => SlotsSuffice
  BY DEF IInv, H264Inv, DpbInv
<1> QED BY <1>1, Invariance, PTL

\* With that room, a picture keeps its slot for as long as it is referred to.
THEOREM ReferencesKept == ASSUME Roomy PROVE Spec => ReferencesStay
<1> DEFINE Stay == zeroed /\ ~gaps => \A p \in refs' \ {current'} :
                     Lookup(dpb, p) # NoSlot => Lookup(dpb', p) = Lookup(dpb, p)
<1>1. IInv /\ [Next]_vars => [Stay]_dpbVars
  <2> SUFFICES ASSUME IInv, [Next]_vars, dpbVars' # dpbVars, zeroed, ~gaps,
                      NEW p \in refs' \ {current'}, Lookup(dpb, p) # NoSlot
               PROVE  Lookup(dpb', p) = Lookup(dpb, p)
    OBVIOUS
  <2>1. TableOK /\ Aged
    BY DEF IInv, H264Inv, DpbInv, Counted, Roomy
  <2>2. H264Next
    BY DEF Next, vars, h264Vars
  <2>3. PICK c \in Surfaces : \E R \in SUBSET Surfaces :
          /\ DpbReady(c, R)
          /\ \E pics \in SetToSeqs(R) :
               \/ \E sl \in Slices : H264SetControls(c, pics, sl)
               \/ H264SetControlsFail(c, pics)
               \/ H264SetControlsCrash(c, pics)
    BY <2>2 DEF H264Next
  <2>4. PICK R \in SUBSET Surfaces :
          /\ DpbReady(c, R)
          /\ \E pics \in SetToSeqs(R) :
               \/ \E sl \in Slices : H264SetControls(c, pics, sl)
               \/ H264SetControlsFail(c, pics)
               \/ H264SetControlsCrash(c, pics)
    BY <2>3
  <2>5. PICK pics \in SetToSeqs(R) :
          \/ \E sl \in Slices : H264SetControls(c, pics, sl)
          \/ H264SetControlsFail(c, pics)
          \/ H264SetControlsCrash(c, pics)
    BY <2>4
  <2>6. CASE Decides(c, pics)
    BY <2>1, <2>4, <2>6, SubmitStays
  <2>7. CASE H264SetControlsCrash(c, pics)
    BY <2>7 DEF H264SetControlsCrash, SetControlsCrash
  <2>8. CASE \E sl \in Slices : H264SetControls(c, pics, sl)
    BY <2>6, <2>8 DEF H264SetControls, DpbSetControls, Decides
  <2>9. CASE H264SetControlsFail(c, pics)
    BY <2>6, <2>9 DEF H264SetControlsFail, DpbSetControlsFail, Decides
  <2> QED BY <2>5, <2>7, <2>8, <2>9
<1>2. Spec => [][Stay]_dpbVars
  <2> HIDE DEF Stay
  <2> QED BY <1>1, Invariance, PTL DEF Spec
<1> QED BY <1>2 DEF ReferencesStay

\* An H264 slice is decoded with its own reference lists, every entry of which
\* leads to the picture the client put there, and with its own weights
\* (h264_va_slice_to_v4l2, h264_va_slice_to_predicted_weights).
THEOREM SliceControlsCorrect == Spec => []SliceControlsOwn
<1>1. IInv => SliceControlsOwn
  BY DEF IInv, H264Inv, SliceInv
<1> QED BY <1>1, Invariance, PTL

\* Whatever calls failed before, on the same surface or on another one, the device
\* decodes an MPEG-2, VP8 or VP9 picture with the controls of that picture.
THEOREM ControlsCorrect == Spec => []ControlsOwn
<1>1. IInv => ControlsOwn
  BY DEF IInv, DeviceInv
<1> QED BY <1>1, Invariance, PTL

\* Where no picture failed on its surface before, an MPEG-2 picture is decoded with
\* the matrices it loads or with those of the picture the device decoded before.
THEOREM MatricesCorrect == Spec => []MatricesReach
<1>1. IInv => MatricesReach
  BY DEF IInv, DeviceInv
<1> QED BY <1>1, Invariance, PTL

\* The flags of H264 and MPEG-2, the digits of f_code, the chunk in front of a VP8
\* picture and the codes of VP9 lose nothing of what they are packed from, for
\* every size, version and code that they have bits for.
THEOREM PackingLossless == Spec => []ElementsReadBack
<1>1. IInv => ElementsReadBack
  <2> SUFFICES ASSUME IInv PROVE ElementsReadBack
    OBVIOUS
  <2>1. SliceInv /\ ReadBack
    BY DEF IInv, H264Inv, DeviceInv
  <2>2. slice.bits = {b \in DOMAIN SpsFlag : SpsFlag[b] \in h264.sps}
                     \cup {b \in DOMAIN PpsFlag : PpsFlag[b] \in h264.pps.flags}
    BY <2>1 DEF SliceInv
  <2> QED BY <2>1, <2>2, Zenon DEF ElementsReadBack, ReadBack
<1> QED BY <1>1, Invariance, PTL

\* Where no picture failed on its surface before, the header that is parsed for a
\* VP9 picture is its own, and so are the deltas that it carries or resets.
THEOREM HeadersCorrect == Spec => []Vp9HeadersOwn
<1>1. IInv => Vp9HeadersOwn
  BY DEF IInv, DeviceInv
<1> QED BY <1>1, Invariance, PTL
=============================================================================
