-------------------------- MODULE ResponsiveProofs --------------------------
(***************************************************************************)
(* What TLAPS proves of Responsive for any hosts, pages and numbers of     *)
(* events: the types, that rotation and derivation, kept apart, forget and *)
(* reinstate no host, and that the list is walked around without a repeat. *)
(***************************************************************************)
EXTENDS Responsive, SequenceTheorems, FiniteSetTheorems, TLAPS

TypeInv ==
    /\ TypeOK
    /\ pos \in [Writers -> Nat]
    /\ list["derivation"] \in Seq(Hosts)
    /\ pc["derivation"] \notin {"checking", "rotating"} /\ pc["run"] # "querying"
    /\ \A w \in Writers : pc[w] # "writing" => pos[w] = 0
    /\ pc["run"] = "idle" => tried = 0
    /\ \A w \in Writers : target[w] = "tmp" => tmp \in Seq(Lines)

(* The list is the derivation that was last put in place, in some order,   *)
(* and a writer has the temporary file for itself.                         *)
ListInv ==
    /\ ToSet(file) = derived /\ Distinct(file)
    /\ ~(Writes("run") /\ Writes("derivation"))
    /\ \A w \in Writers : Writes(w) => Distinct(list[w])
    /\ Writes("run") => ToSet(list["run"]) = ToSet(file)
    /\ \A w \in Writers : pc[w] = "writing" =>
           /\ target[w] = "tmp" /\ Len(tmp) = pos[w]
           /\ \A i \in 1 .. pos[w] : tmp[i] = list[w][i]

(* The hosts of this lap stand behind the others. *)
Behind(s, from, to) ==
    \A i, j \in from .. to : i < j /\ s[i] \in lap => s[j] \in lap

(* How the lap stands to the list that a run has read.  The lap it has     *)
(* joined, the one it has begun, or one that a derivation has cut short.   *)
Joined == known = file /\ Covered \subseteq lap /\ Behind(known, tried + 1, Len(known))
Begun == known = file /\ lap \subseteq Covered /\ Behind(known, 1, tried)
CutShort ==
    /\ lap \subseteq Covered
    /\ \/ Covered \intersect ToSet(file) \subseteq lap
       \/ ToSet(file) \subseteq Covered /\ lap \intersect ToSet(file) = {}

LapInv ==
    /\ Distinct(known)
    /\ pc["run"] = "idle" => Behind(file, 1, Len(file))
    /\ pc["run"] \in {"checking", "rotating"} => Joined \/ Begun \/ CutShort
    /\ Writes("run") => Behind(list["run"], 1, Len(list["run"]))

-----------------------------------------------------------------------------
(* at lists the members of I in the order of their keys. *)
Lists(at, I, key) ==
    /\ at \in [1 .. Cardinality(I) -> I]
    /\ \A k, l \in 1 .. Cardinality(I) : k < l => key[at[k]] < key[at[l]]
    /\ \A i \in I : \E k \in 1 .. Cardinality(I) : at[k] = i

(* t has the items of s at the positions I in the order of their keys. *)
Sorts(t, s, I, key) ==
    \E at : Lists(at, I, key) /\ t = [k \in 1 .. Cardinality(I) |-> s[at[k]]]

(* What Arranged returns. *)
LEMMA ArrangedFact ==
    ASSUME NEW s, NEW I, IsFiniteSet(I), NEW key,
           \A i \in I : key[i] \in Nat,
           \A i, j \in I : key[i] = key[j] => i = j
    PROVE  Sorts(Arranged(s, I, key), s, I, key)
<1> DEFINE n == Cardinality(I)
           upto(i) == {j \in I : key[j] <= key[i]}
           place == [i \in I |-> Cardinality(upto(i))]
           pick == [k \in 1 .. n |-> CHOOSE i \in I : Cardinality(upto(i)) = k]
<1>1. IsFiniteSet(I) /\ n \in Nat
    BY FS_CardinalityType
<1>2. ASSUME NEW i \in I
      PROVE  /\ IsFiniteSet(upto(i)) /\ place[i] \in 1 .. n /\ i \in upto(i)
             /\ \A U \in SUBSET upto(i) :
                    Cardinality(U) <= place[i] /\ Cardinality(U) \in Nat /\ (Cardinality(U) = place[i] => U = upto(i))
    <2>1. i \in upto(i) /\ upto(i) \subseteq I
        OBVIOUS
    <2>2. IsFiniteSet(upto(i)) /\ Cardinality(upto(i)) <= n /\ Cardinality(upto(i)) \in Nat
        BY <1>1, <2>1, FS_Subset, FS_CardinalityType
    <2>3. Cardinality(upto(i)) # 0
        BY <2>1, <2>2, FS_EmptySet
    <2>4. place[i] = Cardinality(upto(i))
        OBVIOUS
    <2>5. ASSUME NEW U \in SUBSET upto(i)
          PROVE  /\ Cardinality(U) <= Cardinality(upto(i)) /\ Cardinality(U) \in Nat
                 /\ Cardinality(U) = Cardinality(upto(i)) => U = upto(i)
        BY <2>2, FS_Subset, FS_CardinalityType
    <2> QED
        BY <1>1, <2>1, <2>2, <2>3, <2>4, <2>5
<1>3. ASSUME NEW i \in I, NEW j \in I, key[i] < key[j] PROVE place[i] < place[j]
    <2>1. upto(i) \subseteq upto(j) /\ j \notin upto(i)
        BY <1>3
    <2>2. Cardinality(upto(i)) <= place[j] /\ Cardinality(upto(i)) # place[j]
        BY <1>2, <2>1
    <2>3. place[i] = Cardinality(upto(i)) /\ place[i] \in Nat /\ place[j] \in Nat
        BY <1>2
    <2> QED
        BY <2>2, <2>3
<1>4. place \in Injection(I, 1 .. n)
    <2>1. place \in [I -> 1 .. n]
        BY <1>2
    <2>2. ASSUME NEW i \in I, NEW j \in I, place[i] = place[j] PROVE i = j
        <3>1. key[i] \in Nat /\ key[j] \in Nat /\ place[i] \in Nat /\ place[j] \in Nat
            BY <1>2
        <3>2. ~(key[i] < key[j]) /\ ~(key[j] < key[i])
            <4> HIDE DEF place
            <4> QED
                BY <1>3, <2>2, <3>1
        <3>3. key[i] = key[j]
            BY <3>1, <3>2
        <3> QED
            BY <3>3
    <2> QED
        BY <2>1, <2>2 DEF Injection, IsInjective
<1>5. place \in Surjection(I, 1 .. n)
    <2>1. IsFiniteSet(1 .. n) /\ Cardinality(1 .. n) = n
        BY <1>1, FS_Interval
    <2> QED
        BY <1>1, <1>4, <2>1, FS_Injection
<1>6. ASSUME NEW k \in 1 .. n PROVE pick[k] \in I /\ place[pick[k]] = k
    <2>1. \E i \in I : place[i] = k
        BY <1>5 DEF Surjection
    <2>2. \A i \in I : place[i] = Cardinality(upto(i))
        OBVIOUS
    <2>3. \E i \in I : Cardinality(upto(i)) = k
        BY <2>1, <2>2
    <2>4. pick[k] \in I /\ Cardinality(upto(pick[k])) = k
        BY <2>3
    <2> QED
        BY <2>2, <2>4
<1>7. pick \in [1 .. n -> I]
    BY <1>6
<1>8. Arranged(s, I, key) = [k \in 1 .. n |-> s[pick[k]]]
    BY DEF Arranged
<1>9. ASSUME NEW k \in 1 .. n, NEW l \in 1 .. n, k < l PROVE key[pick[k]] < key[pick[l]]
    <2>1. pick[k] \in I /\ pick[l] \in I /\ place[pick[k]] = k /\ place[pick[l]] = l
        BY <1>6
    <2>2. key[pick[k]] \in Nat /\ key[pick[l]] \in Nat
        BY <2>1
    <2> HIDE DEF pick, place
    <2>3. ~(key[pick[l]] < key[pick[k]])
        BY <1>3, <1>9, <2>1
    <2>4. key[pick[l]] # key[pick[k]]
        BY <1>9, <2>1
    <2> QED
        BY <2>2, <2>3, <2>4
<1>10. ASSUME NEW i \in I PROVE place[i] \in 1 .. n /\ pick[place[i]] = i
    <2>1. place[i] \in 1 .. n
        BY <1>2
    <2>2. pick[place[i]] \in I /\ place[pick[place[i]]] = place[i]
        BY <1>6, <2>1
    <2> HIDE DEF pick, place
    <2> QED
        BY <1>4, <2>1, <2>2 DEF Injection, IsInjective
<1> HIDE DEF pick, place
<1>11. Lists(pick, I, key)
    BY <1>7, <1>9, <1>10 DEF Lists
<1> QED
    BY <1>8, <1>11 DEF Sorts

(* Its items, and that none is there twice. *)
LEMMA ArrangedItems ==
    ASSUME NEW T, NEW s \in Seq(T), NEW I \in SUBSET DOMAIN s, NEW key,
           \A i \in I : key[i] \in Nat,
           \A i, j \in I : key[i] = key[j] => i = j
    PROVE  /\ Arranged(s, I, key) \in Seq(T)
           /\ ToSet(Arranged(s, I, key)) = {s[i] : i \in I}
           /\ (\A i, j \in I : s[i] = s[j] => i = j) => Distinct(Arranged(s, I, key))
<1> DEFINE n == Cardinality(I)
           a == Arranged(s, I, key)
<1>1. IsFiniteSet(I) /\ n \in Nat
    <2>1. IsFiniteSet(DOMAIN s)
        <3>1. DOMAIN s = 1 .. Len(s) /\ Len(s) \in Nat
            OBVIOUS
        <3> QED
            BY <3>1, FS_Interval
    <2> QED
        BY <2>1, FS_Subset, FS_CardinalityType
<1>s. Sorts(Arranged(s, I, key), s, I, key)
    BY <1>1, ArrangedFact
<1>0. PICK at : /\ Lists(at, I, key)
               /\ Arranged(s, I, key) = [k \in 1 .. Cardinality(I) |-> s[at[k]]]
    BY <1>s DEF Sorts
<1>2. /\ at \in [1 .. n -> I]
      /\ a = [k \in 1 .. n |-> s[at[k]]]
      /\ \A k, l \in 1 .. n : k < l => key[at[k]] < key[at[l]]
      /\ \A i \in I : \E k \in 1 .. n : at[k] = i
    BY <1>0 DEF Lists
<1> HIDE DEF a, n
<1>3. \A i \in I : s[i] \in T
    OBVIOUS
<1>4. a \in Seq(T) /\ DOMAIN a = 1 .. n
    <2>1. a \in [1 .. n -> T]
        BY <1>2, <1>3
    <2> QED
        BY ONLY <1>1, <2>1, SeqDef
<1>5. ToSet(a) = {s[i] : i \in I}
    BY <1>2, <1>4 DEF ToSet
<1>6. ASSUME \A i, j \in I : s[i] = s[j] => i = j PROVE Distinct(a)
    <2>1. ASSUME NEW k \in 1 .. n, NEW l \in 1 .. n, a[k] = a[l] PROVE k = l
        <3>1. at[k] = at[l]
            BY <1>2, <1>6, <2>1
        <3>2. key[at[k]] \in Nat /\ k \in Int /\ l \in Int
            BY <1>2
        <3>3. ~(k < l) /\ ~(l < k)
            BY <1>2, <3>1, <3>2
        <3> QED
            BY <3>2, <3>3
    <2> QED
        BY <1>4, <2>1 DEF Distinct
<1> QED
    BY <1>4, <1>5, <1>6 DEF a

-----------------------------------------------------------------------------
(* The operators of the model that arrange a sequence. *)

(* No row is in the feed twice. *)
LEMMA NewestFact ==
    ASSUME NEW T, NEW s \in Seq(T), NEW new \in Seq(T)
    PROVE  Newest(s, new) \in Seq(T) /\ Distinct(Newest(s, new))
<1> DEFINE all == s \o new
           last == {i \in 1 .. Len(all) : ~\E j \in i + 1 .. Len(all) : all[j] = all[i]}
           key == [i \in 1 .. Len(all) |-> i]
<1>1. all \in Seq(T)
    BY ConcatProperties
<1>2. Newest(s, new) = Arranged(all, last, key)
    BY DEF Newest
<1> HIDE DEF all
<1>3. Len(all) \in Nat /\ DOMAIN all = 1 .. Len(all)
    BY <1>1
<1>4. last \in SUBSET DOMAIN all
    BY <1>3
<1>5. \A i \in last : key[i] = i /\ i \in Nat
    BY <1>3
<1>6. ASSUME NEW i \in last, NEW j \in last, all[i] = all[j] PROVE i = j
    <2>1. i \in 1 .. Len(all) /\ j \in 1 .. Len(all)
        OBVIOUS
    <2>2. ~(i < j) /\ ~(j < i)
        <3>1. i < j => j \in i + 1 .. Len(all)
            BY <1>3, <2>1
        <3>2. j < i => i \in j + 1 .. Len(all)
            BY <1>3, <2>1
        <3> QED
            BY <1>6, <3>1, <3>2
    <2> QED
        BY <2>1, <2>2
<1>7. /\ \A i \in last : key[i] \in Nat
      /\ \A i, j \in last : key[i] = key[j] => i = j
      /\ \A i, j \in last : all[i] = all[j] => i = j
    BY <1>5, <1>6
<1> HIDE DEF last, key
<1>8. /\ Arranged(all, last, key) \in Seq(T)
      /\ Distinct(Arranged(all, last, key))
    BY <1>1, <1>4, <1>7, ArrangedItems
<1> QED
    BY <1>2, <1>8

(* The keys by which a rotation arranges the list. *)
Place(hosts) == [i \in DOMAIN hosts |-> IF hosts[i] \in Covered THEN Len(hosts) + i ELSE i]

LEMMA PlaceFact ==
    ASSUME NEW hosts \in Seq(Lines)
    PROVE  /\ Rotated(hosts) = Arranged(hosts, DOMAIN hosts, Place(hosts))
           /\ DOMAIN hosts = 1 .. Len(hosts) /\ Len(hosts) \in Nat
           /\ \A i \in DOMAIN hosts : Place(hosts)[i] \in Nat
           /\ \A i, j \in DOMAIN hosts : Place(hosts)[i] = Place(hosts)[j] => i = j
<1>1. DOMAIN hosts = 1 .. Len(hosts) /\ Len(hosts) \in Nat
    OBVIOUS
<1>2. Rotated(hosts) = Arranged(hosts, DOMAIN hosts, Place(hosts))
    BY DEF Rotated, Place
<1>3. ASSUME NEW i \in 1 .. Len(hosts), NEW j \in 1 .. Len(hosts)
      PROVE  Place(hosts)[i] \in Nat /\ (Place(hosts)[i] = Place(hosts)[j] => i = j)
    BY <1>1 DEF Place
<1> QED
    BY <1>1, <1>2, <1>3

(* A rotation keeps every host of the list, and each once. *)
LEMMA RotatedFact ==
    ASSUME NEW hosts \in Seq(Lines)
    PROVE  /\ Rotated(hosts) \in Seq(Lines) /\ ToSet(Rotated(hosts)) = ToSet(hosts)
           /\ Distinct(hosts) => Distinct(Rotated(hosts))
<1>0. /\ Rotated(hosts) = Arranged(hosts, DOMAIN hosts, Place(hosts))
      /\ \A i \in DOMAIN hosts : Place(hosts)[i] \in Nat
      /\ \A i, j \in DOMAIN hosts : Place(hosts)[i] = Place(hosts)[j] => i = j
      /\ DOMAIN hosts \in SUBSET DOMAIN hosts
    BY PlaceFact
<1> DEFINE a == Arranged(hosts, DOMAIN hosts, Place(hosts))
<1>1. /\ a \in Seq(Lines)
      /\ ToSet(a) = {hosts[i] : i \in DOMAIN hosts}
      /\ (\A i, j \in DOMAIN hosts : hosts[i] = hosts[j] => i = j) => Distinct(a)
    BY <1>0, ArrangedItems
<1> QED
    BY <1>0, <1>1 DEF ToSet, Distinct

(* Each host of the list that a derivation makes is there once. *)
LEMMA FetchedFact ==
    ASSUME feed \in Seq(Rows), Distinct(feed)
    PROVE  Fetched \in Seq(Hosts) /\ Distinct(Fetched)
<1> DEFINE hosts == [i \in DOMAIN feed |-> feed[i][1]]
           found == Page("success")
           key == [i \in found |-> LastAttempt(i)]
<1>1. DOMAIN feed = 1 .. Len(feed) /\ Len(feed) \in Nat
    OBVIOUS
<1>2. \A i \in DOMAIN feed : /\ feed[i][1] \in Hosts
                             /\ feed[i] = <<feed[i][1], feed[i][2]>>
    <2>1. \A i \in DOMAIN feed : feed[i] \in Rows
        OBVIOUS
    <2> QED
        BY <2>1, ResponsiveAssumption DEF Rows
<1>3. hosts \in Seq(Hosts) /\ DOMAIN hosts = DOMAIN feed
    <2>1. hosts \in [1 .. Len(feed) -> Hosts]
        BY <1>1, <1>2
    <2> QED
        BY <1>1, <2>1
<1>4. found \in SUBSET DOMAIN feed /\ \A i \in found : feed[i][2] = "success"
    BY DEF Page
<1>5. ASSUME NEW i \in found
      PROVE  LastAttempt(i) \in DOMAIN feed /\ feed[LastAttempt(i)][1] = feed[i][1]
    <2> DEFINE later == {j \in Page("failure") : j > i /\ feed[j][1] = feed[i][1]}
    <2>1. LastAttempt(i) = IF later = {} THEN i ELSE CHOOSE j \in later : TRUE
        BY DEF LastAttempt
    <2>2. LastAttempt(i) = i \/ LastAttempt(i) \in later
        BY <2>1
    <2>3. Page("failure") \subseteq DOMAIN feed
        BY DEF Page
    <2> QED
        BY <1>4, <2>2, <2>3
<1>6. ASSUME NEW i \in found, NEW j \in found, feed[i][1] = feed[j][1] PROVE i = j
    BY <1>2, <1>4, <1>6 DEF Distinct
<1>7. \A i \in found : key[i] \in Nat
    BY <1>1, <1>5
<1>8. \A i, j \in found : key[i] = key[j] => i = j
    BY <1>5, <1>6
<1>9. Fetched = Arranged(hosts, found, key)
    BY DEF Fetched
<1>10. \A i, j \in found : hosts[i] = hosts[j] => i = j
    BY <1>4, <1>6
<1> HIDE DEF hosts, found, key
<1>11. found \in SUBSET DOMAIN hosts
    BY <1>3, <1>4
<1> QED
    BY <1>3, <1>7, <1>8, <1>9, <1>10, <1>11, ArrangedItems

(* t is s with the line x at its end. *)
Extends(t, s, i, x) == Len(t) = i /\ t[i] = x /\ \A k \in 1 .. i - 1 : t[k] = s[k]

(* A line is written. *)
LEMMA PutAtFact ==
    ASSUME NEW s \in Seq(Lines), NEW i \in Nat \ {0}, NEW x \in Lines
    PROVE  /\ PutAt(s, i, x) \in Seq(Lines)
           /\ Len(s) = i - 1 => Extends(PutAt(s, i, x), s, i, x)
<1> DEFINE n == IF i > Len(s) THEN i ELSE Len(s)
           t == [k \in 1 .. n |-> IF k = i THEN x ELSE IF k <= Len(s) THEN s[k] ELSE Hole]
<1>1. Len(s) \in Nat /\ n \in Nat /\ \A k \in 1 .. Len(s) : s[k] \in Lines
    OBVIOUS
<1>2. PutAt(s, i, x) = t
    BY DEF PutAt
<1>3. t \in [1 .. n -> Lines]
    BY <1>1 DEF Lines
<1>4. t \in Seq(Lines) /\ Len(t) = n
    BY <1>1, <1>3
<1>5. ASSUME Len(s) = i - 1
      PROVE  n = i /\ t[i] = x /\ \A k \in 1 .. i - 1 : t[k] = s[k]
    BY <1>1, <1>5
<1> HIDE DEF t, n
<1> QED
    BY <1>2, <1>4, <1>5 DEF Extends

-----------------------------------------------------------------------------
(* Type correctness. *)

LEMMA TypeInit == Init => TypeInv
<1> SUFFICES ASSUME Init PROVE TypeInv
    OBVIOUS
<1>1. PICK s \in SetToSeqs(Hosts) : feed = [i \in 1 .. Len(s) |-> <<s[i], "success">>]
    BY DEF Init
<1>2. feed \in Seq(Rows) /\ Distinct(feed)
    <2>1. Cardinality(Hosts) \in Nat
        BY ResponsiveAssumption, FS_CardinalityType
    <2>2. /\ s \in [1 .. Cardinality(Hosts) -> Hosts]
          /\ \A i, j \in 1 .. Cardinality(Hosts) : i # j => s[i] # s[j]
        BY DEF SetToSeqs
    <2>3. Len(s) = Cardinality(Hosts)
        BY <2>1, <2>2
    <2>4. \A i \in 1 .. Len(s) : <<s[i], "success">> \in Rows
        BY <2>2, <2>3 DEF Rows
    <2>5. feed \in [1 .. Len(s) -> Rows]
        BY <1>1, <2>4
    <2>6. \A i \in DOMAIN feed : feed[i] = <<s[i], "success">> /\ feed[i][1] = s[i]
        BY <1>1
    <2>7. DOMAIN feed = 1 .. Cardinality(Hosts)
        BY <1>1, <2>3
    <2>8. ASSUME NEW i \in DOMAIN feed, NEW j \in DOMAIN feed, feed[i] = feed[j] PROVE i = j
        BY <2>2, <2>6, <2>7, <2>8
    <2>9. feed \in Seq(Rows)
        BY <2>1, <2>3, <2>5
    <2> QED
        BY <2>8, <2>9 DEF Distinct
<1>3. <<>> \in Seq(Rows) /\ <<>> \in Seq(Lines) /\ <<>> \in Seq(Hosts) /\ Len(<<>>) = 0
      /\ DOMAIN <<>> = {}
    OBVIOUS
<1> QED
    BY <1>2, <1>3, ResponsiveAssumption DEF Init, TypeInv, TypeOK, Distinct, Writers

LEMMA HostsAreLines == Seq(Hosts) \subseteq Seq(Lines)
<1>1. Hosts \subseteq Lines
    BY DEF Lines
<1> QED
    BY <1>1

(* The state of the writers is typed. *)
WritersTyped ==
    /\ pc \in [Writers -> {"idle", "checking", "rotating", "querying", "opening", "writing"}]
    /\ list \in [Writers -> Seq(Lines)] /\ list["derivation"] \in Seq(Hosts)
    /\ pos \in [Writers -> Nat] /\ \A w \in Writers : pos[w] \in 0 .. Len(list[w])
    /\ target \in [Writers -> {"none", "tmp", "file", "gone"}]
    /\ pc["derivation"] \notin {"checking", "rotating"} /\ pc["run"] # "querying"
    /\ \A w \in Writers : pc[w] # "writing" => pos[w] = 0
    /\ pc["run"] = "idle" => tried = 0
    /\ \A w \in Writers : target[w] = "tmp" => tmp \in Seq(Lines)

(* and so are the files and the rows. *)
DataTyped ==
    /\ feed \in Seq(Rows) /\ Distinct(feed)
    /\ staged \in Seq(Rows) /\ Distinct(staged)
    /\ file \in Seq(Lines) /\ tmp \in Seq(Lines) \union {None}
    /\ known \in Seq(Lines) /\ tried \in 0 .. Len(known)
    /\ rows \in Seq(Rows)
    /\ derived \subseteq Hosts /\ lap \subseteq Lines
    /\ events \in 0 .. MaxEvents

LEMMA TypeParts == TypeInv <=> WritersTyped /\ DataTyped
BY DEF TypeInv, TypeOK, WritersTyped, DataTyped

LEMMA IdleTyped ==
    ASSUME TypeInv, NEW w \in Writers, Idle(w), tmp' = tmp
    PROVE  /\ WritersTyped'
           /\ known' \in Seq(Lines) /\ tried' \in 0 .. Len(known') /\ rows' \in Seq(Rows)
<1> USE TypeParts DEF Writers
<1>1. /\ <<>> \in Seq(Lines) /\ <<>> \in Seq(Hosts) /\ <<>> \in Seq(Rows) /\ Len(<<>>) = 0
    OBVIOUS
<1>2. WritersTyped'
    BY <1>1 DEF Idle, Goto, WritersTyped, runVars
<1>3. CASE w = "run"
    BY <1>1, <1>2, <1>3 DEF Idle
<1>4. CASE w # "run"
    BY <1>2, <1>4 DEF Idle, runVars, DataTyped
<1> QED
    BY <1>2, <1>3, <1>4

LEMMA TypeStep == ASSUME TypeInv, [Next]_vars PROVE TypeInv'
<1>0. WritersTyped /\ DataTyped
    BY TypeParts
<1>e. TypeInv' <=> WritersTyped' /\ DataTyped'
    BY DEF TypeInv, TypeOK, WritersTyped, DataTyped
<1>m. MaxEvents \in Nat
    BY ResponsiveAssumption
<1> USE DEF Goto, dataVars, fileVars, runVars
<1>1. ASSUME NEW w \in Writers, Open(w) PROVE TypeInv'
    <2>1. <<>> \in Seq(Lines)
        OBVIOUS
    <2> QED
        BY <1>0, <1>1, <1>e, <2>1 DEF Open, WritersTyped, DataTyped
<1>2. ASSUME NEW w \in Writers, WriteLine(w) PROVE TypeInv'
    <2> DEFINE i == pos[w] + 1
    <2>1. /\ pc[w] = "writing" /\ pos[w] < Len(list[w])
          /\ pos' = [pos EXCEPT ![w] = i]
          /\ tmp' = IF target[w] = "tmp" THEN PutAt(tmp, i, list[w][i]) ELSE tmp
          /\ file' = IF target[w] = "file" THEN PutAt(file, i, list[w][i]) ELSE file
          /\ UNCHANGED <<dataVars, pc, list, target, runVars, derived, lap, events>>
        BY <1>2 DEF WriteLine
    <2>2. pos[w] \in Nat /\ list[w] \in Seq(Lines) /\ Len(list[w]) \in Nat
        BY <1>0 DEF WritersTyped
    <2>3. i \in Nat \ {0} /\ i \in 1 .. Len(list[w]) /\ list[w][i] \in Lines
        BY <2>1, <2>2
    <2>4. file' \in Seq(Lines)
        BY <1>0, <2>1, <2>3, PutAtFact DEF DataTyped
    <2>5. tmp' \in Seq(Lines) \union {None} /\ (tmp \in Seq(Lines) => tmp' \in Seq(Lines))
        BY <1>0, <2>1, <2>3, PutAtFact DEF DataTyped, WritersTyped
    <2> HIDE DEF i
    <2>6. WritersTyped'
        BY <1>0, <2>1, <2>3, <2>5 DEF WritersTyped
    <2> QED
        BY <1>0, <1>e, <2>1, <2>4, <2>5, <2>6 DEF DataTyped
<1>3. ASSUME NEW w \in Writers, Replace(w) PROVE TypeInv'
    <2>1. tmp \in Seq(Lines) /\ list[w] \in Seq(Lines)
        BY <1>0, <1>3 DEF Replace, DataTyped, WritersTyped
    <2>2. /\ <<>> \in Seq(Lines) /\ <<>> \in Seq(Hosts) /\ <<>> \in Seq(Rows) /\ Len(<<>>) = 0
        OBVIOUS
    <2>3. /\ pc' = [pc EXCEPT ![w] = "idle"] /\ list' = [list EXCEPT ![w] = <<>>]
          /\ pos' = [pos EXCEPT ![w] = 0]
          /\ target' = [v \in Writers |->
                 IF v = w THEN "none"
                 ELSE CASE target[v] = "tmp" -> "file"
                        [] target[v] = "file" -> "gone"
                        [] OTHER -> target[v]]
        BY <1>3 DEF Replace
    <2>4. target' \in [Writers -> {"none", "tmp", "file", "gone"}] /\ \A v \in Writers : target'[v] # "tmp"
        BY <1>0, <2>3 DEF WritersTyped
    <2>8. pc'["run"] = "idle" => tried' = 0
        BY <1>0, <1>3, <2>3 DEF Replace, WritersTyped, Writers
    <2>5. WritersTyped'
        BY <1>0, <2>2, <2>3, <2>4, <2>8 DEF WritersTyped, Writers
    <2>6. CASE w = "run"
        BY <1>0, <1>3, <1>e, <2>1, <2>2, <2>5, <2>6 DEF Replace, DataTyped
    <2>7. CASE w # "run"
        <3>1. w = "derivation"
            BY <2>7 DEF Writers
        <3>2. ToSet(list[w]) \subseteq Hosts
            BY <1>0, <3>1 DEF ToSet, WritersTyped
        <3>3. {known[i] : i \in 1 .. tried} \subseteq Lines
            BY <1>0 DEF DataTyped
        <3> QED
            BY <1>0, <1>3, <1>e, <2>1, <2>5, <3>1, <3>2, <3>3 DEF Replace, DataTyped
    <2> QED
        BY <2>6, <2>7
<1>4. ASSUME NEW w \in Writers, ReplaceRaises(w) PROVE TypeInv'
    <2>1. Idle(w) /\ UNCHANGED <<dataVars, file, tmp, derived, lap, events>>
        BY <1>4 DEF ReplaceRaises
    <2> QED
        BY <1>0, <1>e, <2>1, IdleTyped DEF DataTyped
<1>5. CASE RunStart
    BY <1>0, <1>5, <1>e DEF RunStart, WritersTyped, DataTyped, Writers
<1>6. ASSUME NEW result \in Statuses, Check(result) PROVE TypeInv'
    <2> DEFINE ip == known[tried + 1]
    <2>1. /\ pc["run"] = "checking" /\ tried < Len(known)
          /\ rows' = IF ip \in Blocked \union {Hole} THEN rows ELSE Append(rows, <<ip, result>>)
          /\ result = "failure" => ip \in Flaky
          /\ lap' = IF derived \subseteq lap THEN {ip} ELSE lap \union {ip}
          /\ tried' = tried + 1
          /\ UNCHANGED <<dataVars, fileVars, pc, known, derived, events>>
        BY <1>6 DEF Check
    <2>2. Len(known) \in Nat /\ tried \in Nat /\ tried + 1 \in 1 .. Len(known)
        BY <1>0, <2>1 DEF DataTyped
    <2>3. ip \in Lines
        BY <1>0, <2>2 DEF DataTyped
    <2>4. ip \notin Blocked \union {Hole} => <<ip, result>> \in Rows
        BY <2>1, <2>3 DEF Lines, Rows, Statuses
    <2>5. rows' \in Seq(Rows)
        BY <1>0, <2>1, <2>4 DEF DataTyped
    <2> HIDE DEF ip
    <2> QED
        BY <1>0, <1>e, <2>1, <2>2, <2>3, <2>5 DEF WritersTyped, DataTyped
<1>7. CASE StageRows
    <2>1. staged' \in Seq(Rows) /\ Distinct(staged') /\ rows' = <<>>
        BY <1>0, <1>7, NewestFact DEF StageRows, DataTyped
    <2> QED
        BY <1>0, <1>7, <1>e, <2>1 DEF StageRows, WritersTyped, DataTyped, Writers
<1>b. ASSUME NEW w \in Writers, Begins(w) PROVE events' \in 0 .. MaxEvents
    BY <1>0, <1>b, <1>m DEF Begins, Event, DataTyped
<1>8. CASE Rotate
    <2>1. CASE ToSet(file) \intersect Covered = {}
        <3>1. Idle("run") /\ UNCHANGED <<dataVars, file, tmp, derived, lap, events>>
            BY <1>8, <2>1 DEF Rotate
        <3> QED
            BY <1>0, <1>e, <3>1, IdleTyped DEF DataTyped, Writers
    <2>2. CASE ToSet(file) \intersect Covered # {}
        <3>1. /\ Begins("run") /\ list' = [list EXCEPT !["run"] = Rotated(file)]
              /\ pc' = [pc EXCEPT !["run"] = "opening"] /\ pc["run"] = "rotating"
              /\ UNCHANGED <<pos, target, runVars, dataVars, file, tmp, derived, lap>>
            BY <1>8, <2>2 DEF Rotate
        <3>2. Rotated(file) \in Seq(Lines) /\ Len(Rotated(file)) \in Nat
            BY <1>0, RotatedFact DEF DataTyped
        <3>3. events' \in 0 .. MaxEvents
            BY <1>b, <3>1 DEF Writers
        <3>4. WritersTyped'
            BY <1>0, <3>1, <3>2 DEF WritersTyped, Writers
        <3> QED
            BY <1>0, <1>e, <3>1, <3>3, <3>4 DEF DataTyped
    <2> QED
        BY <2>1, <2>2
<1>9. CASE DerivationStart
    BY <1>0, <1>9, <1>e DEF DerivationStart, WritersTyped, DataTyped, Writers
<1>10. CASE Query
    <2>1. /\ Begins("derivation") /\ list' = [list EXCEPT !["derivation"] = Fetched]
          /\ pc' = [pc EXCEPT !["derivation"] = "opening"] /\ pc["derivation"] = "querying"
          /\ UNCHANGED <<dataVars, file, tmp, pos, target, runVars, derived, lap>>
        BY <1>10 DEF Query
    <2>2. Fetched \in Seq(Hosts) /\ Fetched \in Seq(Lines) /\ Len(Fetched) \in Nat
        BY <1>0, FetchedFact, HostsAreLines DEF DataTyped
    <2>3. events' \in 0 .. MaxEvents
        BY <1>b, <2>1 DEF Writers
    <2>4. WritersTyped'
        BY <1>0, <2>1, <2>2 DEF WritersTyped, Writers
    <2> QED
        BY <1>0, <1>e, <2>1, <2>3, <2>4 DEF DataTyped
<1>11. CASE QueryFails
    <2>1. Idle("derivation") /\ UNCHANGED <<dataVars, file, tmp, derived, lap, events>>
        BY <1>11 DEF QueryFails
    <2> QED
        BY <1>0, <1>e, <2>1, IdleTyped DEF DataTyped, Writers
<1>12. CASE PublishRows
    <2>1. feed' \in Seq(Rows) /\ Distinct(feed') /\ staged' = <<>>
        BY <1>0, <1>12, NewestFact DEF PublishRows, DataTyped
    <2> QED
        BY <1>0, <1>12, <1>e, <2>1 DEF PublishRows, WritersTyped, DataTyped, Distinct
<1>13. ASSUME NEW h \in Hosts, Discover(h) PROVE TypeInv'
    <2>1. <<h, "success">> \in Rows
        BY DEF Rows
    <2>2. <<<<h, "success">>>> \in Seq(Rows)
        BY <2>1
    <2>3. staged' \in Seq(Rows) /\ Distinct(staged')
        BY <1>0, <1>13, <2>2, NewestFact DEF Discover, DataTyped
    <2> QED
        BY <1>0, <1>13, <1>e, <2>3 DEF Discover, WritersTyped, DataTyped
<1>14. CASE AgeOut
    <2>1. feed # <<>> /\ feed' = Tail(feed) /\ feed \in Seq(Rows) /\ Distinct(feed)
        BY <1>0, <1>14 DEF AgeOut, DataTyped
    <2>2. /\ Tail(feed) \in Seq(Rows) /\ Len(Tail(feed)) = Len(feed) - 1 /\ Len(feed) \in Nat
          /\ \A i \in 1 .. Len(Tail(feed)) : Tail(feed)[i] = feed[i + 1]
        BY <2>1, HeadTailProperties
    <2>3. Distinct(Tail(feed))
        <3>1. ASSUME NEW i \in DOMAIN Tail(feed), NEW j \in DOMAIN Tail(feed),
                     Tail(feed)[i] = Tail(feed)[j]
              PROVE  i = j
            <4>1. i \in 1 .. Len(feed) - 1 /\ j \in 1 .. Len(feed) - 1
                BY <2>2
            <4>2. i + 1 \in DOMAIN feed /\ j + 1 \in DOMAIN feed /\ feed[i + 1] = feed[j + 1]
                BY <2>1, <2>2, <3>1, <4>1
            <4>3. i + 1 = j + 1
                BY <2>1, <4>2 DEF Distinct
            <4> QED
                BY <4>1, <4>3
        <3> QED
            BY <3>1 DEF Distinct
    <2> QED
        BY <1>0, <1>14, <1>e, <1>m, <2>1, <2>2, <2>3 DEF AgeOut, Event, WritersTyped, DataTyped
<1>15. ASSUME NEW w \in Writers, Crash(w) PROVE TypeInv'
    <2>1. /\ Idle(w) /\ UNCHANGED <<dataVars, file, tmp, derived>>
          /\ lap' = IF w = "run" THEN {} ELSE lap
          /\ events' \in 0 .. MaxEvents
        BY <1>0, <1>15, <1>m DEF Crash, Event, DataTyped
    <2> QED
        BY <1>0, <1>e, <2>1, IdleTyped DEF DataTyped
<1>16. CASE InstanceReplaced
    <2>1. <<>> \in Seq(Lines) /\ <<>> \in Seq(Hosts) /\ <<>> \in Seq(Rows) /\ Len(<<>>) = 0
              /\ DOMAIN <<>> = {}
        OBVIOUS
    <2>2. WritersTyped'
        BY <1>16, <2>1 DEF InstanceReplaced, WritersTyped, Writers
    <2>3. events' \in 0 .. MaxEvents
        BY <1>0, <1>16, <1>m DEF InstanceReplaced, Event, DataTyped
    <2> QED
        BY <1>0, <1>16, <1>e, <2>1, <2>2, <2>3 DEF InstanceReplaced, DataTyped, Distinct
<1>17. CASE UNCHANGED vars
    BY <1>0, <1>17, <1>e DEF vars, WritersTyped, DataTyped
<1> QED
    BY <1>1, <1>2, <1>3, <1>4, <1>5, <1>6, <1>7, <1>8, <1>9, <1>10, <1>11, <1>12, <1>13, <1>14,
       <1>15, <1>16, <1>17
       DEF Next, RunStep, DerivationStep, WriteFile, Writers

-----------------------------------------------------------------------------
(* The list and its writers. *)

LEMMA ListInit == Init => ListInv
<1>1. DOMAIN <<>> = {}
    OBVIOUS
<1> QED
    BY <1>1 DEF Init, ListInv, ToSet, Distinct, Writes, Writers

(* A step that leaves the files and whoever writes alone. *)
LEMMA ListKept ==
    ASSUME ListInv, UNCHANGED <<file, tmp, derived>>,
           \A w \in Writers : Writes(w)' =>
               pc'[w] = pc[w] /\ list'[w] = list[w] /\ pos'[w] = pos[w] /\ target'[w] = target[w]
    PROVE  ListInv'
<1>1. \A w \in Writers : Writes(w)' => Writes(w)
    BY DEF Writes
<1>2. ToSet(file') = derived' /\ Distinct(file')
    BY DEF ListInv
<1>3. ~(Writes("run")' /\ Writes("derivation")')
    BY <1>1 DEF ListInv, Writers
<1>4. \A w \in Writers : Writes(w)' => Distinct(list'[w])
    BY <1>1 DEF ListInv
<1>5. Writes("run")' => ToSet(list'["run"]) = ToSet(file')
    BY <1>1 DEF ListInv, Writers
<1>6. ASSUME NEW w \in Writers, pc'[w] = "writing"
      PROVE  /\ target'[w] = "tmp" /\ Len(tmp') = pos'[w]
             /\ \A i \in 1 .. pos'[w] : tmp'[i] = list'[w][i]
    BY <1>6 DEF ListInv, Writes
<1> QED
    BY <1>2, <1>3, <1>4, <1>5, <1>6 DEF ListInv

(* Idle lets a writer stop, and leaves the other alone. *)
LEMMA IdleFact ==
    ASSUME TypeInv, NEW w \in Writers, Idle(w)
    PROVE  /\ pc'[w] = "idle"
           /\ \A v \in Writers : v # w =>
                  pc'[v] = pc[v] /\ list'[v] = list[v] /\ pos'[v] = pos[v] /\ target'[v] = target[v]
BY TypeParts DEF Idle, Goto, WritersTyped

(* What a writer has written when it is done is its list. *)
LEMMA WrittenFact ==
    ASSUME TypeInv, ListInv, NEW w \in Writers, pc[w] = "writing", pos[w] = Len(list[w]), tmp # None
    PROVE  tmp = list[w]
<1>1. tmp \in Seq(Lines) /\ list[w] \in Seq(Lines) /\ Len(tmp) = Len(list[w])
    BY TypeParts DEF WritersTyped, DataTyped, ListInv
<1>2. \A i \in 1 .. Len(list[w]) : tmp[i] = list[w][i]
    BY DEF ListInv
<1> QED
    BY <1>1, <1>2

LEMMA ListStep == ASSUME Apart, TypeInv, ListInv, [Next]_vars PROVE ListInv'
<1>0. WritersTyped /\ DataTyped
    BY TypeParts
<1>t. /\ pc = [w \in Writers |-> pc[w]] /\ list = [w \in Writers |-> list[w]]
      /\ pos = [w \in Writers |-> pos[w]] /\ target = [w \in Writers |-> target[w]]
    BY <1>0 DEF WritersTyped
<1>w. Writers = {"run", "derivation"}
    BY DEF Writers
<1> USE DEF Goto, dataVars, fileVars, runVars
<1>1. ASSUME NEW w \in Writers, Open(w) PROVE ListInv'
    <2>1. /\ pc[w] = "opening" /\ tmp' = <<>> /\ target'[w] = "tmp" /\ pc'[w] = "writing"
          /\ \A v \in Writers : v # w => pc'[v] = pc[v]
          /\ UNCHANGED <<file, list, pos, derived>>
        BY <1>1, <1>t DEF Open
    <2>2. pos[w] = 0
        BY <1>0, <2>1 DEF WritersTyped
    <2>3. \A v \in Writers : v # w => ~Writes(v) /\ ~Writes(v)'
        BY <1>w, <2>1 DEF ListInv, Writes
    <2>4. Len(<<>>) = 0 /\ Writes(w) /\ \A i \in 1 .. 0 : FALSE
        BY <2>1 DEF Writes
    <2> QED
        BY <1>w, <2>1, <2>2, <2>3, <2>4 DEF ListInv, Writes
<1>2. ASSUME NEW w \in Writers, WriteLine(w) PROVE ListInv'
    <2> DEFINE i == pos[w] + 1
    <2>1. /\ pc[w] = "writing" /\ pos[w] < Len(list[w])
          /\ pos'[w] = i /\ target[w] = "tmp"
          /\ tmp' = PutAt(tmp, i, list[w][i])
          /\ UNCHANGED <<file, pc, list, target, derived>>
        BY <1>2, <1>t DEF WriteLine, ListInv
    <2>2. /\ i \in Nat \ {0} /\ list[w][i] \in Lines /\ tmp \in Seq(Lines) /\ Len(tmp) = i - 1
        <3>1. pos[w] \in Nat /\ list[w] \in Seq(Lines) /\ tmp \in Seq(Lines) /\ Len(tmp) = pos[w]
            BY <1>0, <2>1 DEF WritersTyped, ListInv
        <3> QED
            BY <2>1, <3>1
    <2>3. Len(tmp') = i /\ tmp'[i] = list[w][i] /\ \A k \in 1 .. i - 1 : tmp'[k] = tmp[k]
        <3> DEFINE x == list[w][i]
        <3> HIDE DEF i, x
        <3>1. x \in Lines /\ i \in Nat \ {0} /\ tmp \in Seq(Lines) /\ Len(tmp) = i - 1
            BY <2>2 DEF x
        <3>2. Extends(PutAt(tmp, i, x), tmp, i, x)
            BY <3>1, PutAtFact
        <3> QED
            BY <2>1, <3>2 DEF x, Extends
    <2>4. \A k \in 1 .. i - 1 : tmp[k] = list[w][k]
        <3>1. i - 1 = pos[w]
            BY <1>0 DEF WritersTyped
        <3> QED
            BY <2>1, <3>1 DEF ListInv
    <2> HIDE DEF i
    <2>5. \A k \in 1 .. i : k = i \/ k \in 1 .. i - 1
        BY <2>2
    <2>6. \A k \in 1 .. i : tmp'[k] = list[w][k]
        BY <2>3, <2>4, <2>5
    <2>7. \A v \in Writers : Writes(v)' <=> Writes(v)
        BY <2>1 DEF Writes
    <2>8. \A v \in Writers : v # w => ~Writes(v)
        BY <1>w, <2>1 DEF ListInv, Writes
    <2>9. ASSUME NEW v \in Writers, pc'[v] = "writing"
          PROVE  /\ target'[v] = "tmp" /\ Len(tmp') = pos'[v]
                 /\ \A k \in 1 .. pos'[v] : tmp'[k] = list'[v][k]
        <3>1. v = w
            BY <2>1, <2>8, <2>9 DEF Writes
        <3> QED
            BY <2>1, <2>3, <2>6, <3>1
    <2> QED
        BY <1>w, <2>1, <2>7, <2>9 DEF ListInv
<1>3. ASSUME NEW w \in Writers, Replace(w) PROVE ListInv'
    <2>1. tmp = list[w] /\ pc[w] = "writing"
        BY <1>3, WrittenFact DEF Replace
    <2>2. Writes(w) /\ \A v \in Writers : v # w => ~Writes(v)
        BY <1>w, <2>1 DEF ListInv, Writes
    <2>3. file' = list[w] /\ \A v \in Writers : ~Writes(v)'
        BY <1>3, <1>t, <2>1, <2>2 DEF Replace, Writes
    <2>4. Distinct(file') /\ (w = "run" => ToSet(file') = ToSet(file))
        BY <2>2, <2>3 DEF ListInv
    <2>5. derived' = IF w = "run" THEN derived ELSE ToSet(list[w])
        BY <1>3 DEF Replace
    <2>6. ToSet(file') = derived'
        BY <2>3, <2>4, <2>5 DEF ListInv
    <2> QED
        BY <1>w, <2>3, <2>4, <2>6 DEF ListInv, Writes
<1>4. ASSUME NEW w \in Writers, Idle(w), UNCHANGED <<file, tmp, derived>> PROVE ListInv'
    BY <1>4, IdleFact, ListKept DEF Writes
<1>5. CASE Rotate
    <2>1. CASE ToSet(file) \intersect Covered = {}
        BY <1>4, <1>5, <1>w, <2>1 DEF Rotate
    <2>2. CASE ToSet(file) \intersect Covered # {}
        <3>1. /\ Begins("run") /\ list'["run"] = Rotated(file)
              /\ pc'["run"] = "opening" /\ pc'["derivation"] = pc["derivation"]
              /\ UNCHANGED <<file, derived>>
            BY <1>5, <1>t, <1>w, <2>2 DEF Rotate
        <3>2. ~Writes("derivation") /\ ~Writes("derivation")'
            BY <1>w, <3>1 DEF Begins, Writes
        <3>3. ToSet(Rotated(file)) = ToSet(file) /\ Distinct(Rotated(file))
            BY <1>0, RotatedFact DEF DataTyped, ListInv
        <3> QED
            BY <1>w, <3>1, <3>2, <3>3 DEF ListInv, Writes
    <2> QED
        BY <2>1, <2>2
<1>6. CASE Query
    <2>1. /\ Begins("derivation") /\ list'["derivation"] = Fetched
          /\ pc'["derivation"] = "opening" /\ pc'["run"] = pc["run"]
          /\ UNCHANGED <<file, derived>>
        BY <1>6, <1>t, <1>w DEF Query
    <2>2. ~Writes("run") /\ ~Writes("run")'
        BY <1>w, <2>1 DEF Begins, Writes
    <2>3. Distinct(Fetched)
        BY <1>0, FetchedFact DEF DataTyped
    <2> QED
        BY <1>w, <2>1, <2>2, <2>3 DEF ListInv, Writes
<1>7. CASE InstanceReplaced
    <2>1. file' = <<>> /\ derived' = {} /\ \A w \in Writers : pc'[w] = "idle"
        BY <1>7 DEF InstanceReplaced
    <2>2. DOMAIN <<>> = {}
        OBVIOUS
    <2> QED
        BY <1>w, <2>1, <2>2 DEF ListInv, Writes, ToSet, Distinct
<1>8. CASE RunStart \/ StageRows \/ DerivationStart \/ PublishRows \/ AgeOut \/ UNCHANGED vars
    <2>1. /\ UNCHANGED <<file, tmp, derived, list, pos, target>>
          /\ \A w \in Writers : Writes(w)' => pc'[w] = pc[w]
        BY <1>8, <1>t, <1>w
           DEF RunStart, StageRows, DerivationStart, PublishRows, AgeOut, vars, Writes
    <2> QED
        BY <2>1, ListKept
<1>9. ASSUME NEW result \in Statuses, Check(result) PROVE ListInv'
    BY <1>9, ListKept DEF Check
<1>10. ASSUME NEW h \in Hosts, Discover(h) PROVE ListInv'
    BY <1>10, ListKept DEF Discover
<1>11. ASSUME NEW w \in Writers, ReplaceRaises(w) \/ Crash(w) PROVE ListInv'
    BY <1>4, <1>11 DEF ReplaceRaises, Crash
<1>12. CASE QueryFails
    BY <1>4, <1>12, <1>w DEF QueryFails
<1> QED
    BY <1>1, <1>2, <1>3, <1>5, <1>6, <1>7, <1>8, <1>9, <1>10, <1>11, <1>12
       DEF Next, RunStep, DerivationStep, WriteFile, Writers

-----------------------------------------------------------------------------
(* The lap around the list. *)

LEMMA LapInit == Init => LapInv
<1>1. DOMAIN <<>> = {} /\ Len(<<>>) = 0 /\ \A i \in 1 .. 0 : FALSE
    OBVIOUS
<1> QED
    BY <1>1 DEF Init, LapInv, Distinct, Behind, Writes, Writers

(* A step that leaves the run, its list and the lap alone. *)
LEMMA LapKept ==
    ASSUME LapInv, UNCHANGED <<file, known, tried, lap>>, list'["run"] = list["run"],
           pc'["run"] = pc["run"] \/ (Writes("run") /\ Writes("run")')
    PROVE  LapInv'
BY DEF LapInv, Joined, Begun, CutShort, Behind, Covered, Writes

LEMMA CoveredFact ==
    ASSUME TypeInv
    PROVE  /\ tried \in Nat /\ Len(known) \in Nat /\ tried <= Len(known)
           /\ DOMAIN known = 1 .. Len(known) /\ DOMAIN file = 1 .. Len(file) /\ Len(file) \in Nat
           /\ \A i \in 1 .. tried : i \in DOMAIN known /\ known[i] \in Covered
           /\ Distinct(known) => \A i \in DOMAIN known : known[i] \in Covered => i <= tried
<1>1. /\ tried \in Nat /\ Len(known) \in Nat /\ tried <= Len(known)
      /\ DOMAIN known = 1 .. Len(known) /\ DOMAIN file = 1 .. Len(file) /\ Len(file) \in Nat
    BY TypeParts DEF DataTyped
<1>2. \A i \in 1 .. tried : i \in DOMAIN known /\ known[i] \in Covered
    BY <1>1 DEF Covered
<1>3. ASSUME Distinct(known), NEW i \in DOMAIN known, known[i] \in Covered PROVE i <= tried
    <2>1. PICK k \in 1 .. tried : known[i] = known[k]
        BY <1>3 DEF Covered
    <2>2. i = k
        BY <1>2, <1>3, <2>1 DEF Distinct
    <2> QED
        BY <1>1, <2>2
<1> QED
    BY <1>1, <1>2, <1>3

(* A rotation puts the hosts of the lap behind the others. *)
LEMMA RotatedBehind ==
    ASSUME TypeInv, Distinct(known), Joined \/ Begun \/ CutShort
    PROVE  Behind(Rotated(file), 1, Len(Rotated(file)))
<1> DEFINE n == Cardinality(DOMAIN file)
<1>0. file \in Seq(Lines)
    BY TypeParts DEF DataTyped
<1>1. /\ Rotated(file) = Arranged(file, DOMAIN file, Place(file))
      /\ DOMAIN file = 1 .. Len(file) /\ Len(file) \in Nat
      /\ \A i \in DOMAIN file : Place(file)[i] \in Nat
      /\ \A i, j \in DOMAIN file : Place(file)[i] = Place(file)[j] => i = j
    BY <1>0, PlaceFact
<1>2. IsFiniteSet(DOMAIN file)
    BY <1>1, FS_Interval
<1>3. PICK at : /\ Lists(at, DOMAIN file, Place(file))
                /\ Rotated(file) = [k \in 1 .. Cardinality(DOMAIN file) |-> file[at[k]]]
    <2>1. Sorts(Arranged(file, DOMAIN file, Place(file)), file, DOMAIN file, Place(file))
        BY <1>1, <1>2, ArrangedFact
    <2> QED
        BY <1>1, <2>1 DEF Sorts
<1>4. n \in Nat /\ Len(Rotated(file)) = n
    <2>1. n \in Nat
        BY <1>2, FS_CardinalityType
    <2> QED
        BY <1>3, <2>1
<1>5. ASSUME NEW a \in DOMAIN file, NEW b \in DOMAIN file, Place(file)[a] < Place(file)[b],
             file[a] \in lap
      PROVE  file[b] \in lap
    <2>1. a \in 1 .. Len(file) /\ b \in 1 .. Len(file)
        BY <1>1
    <2>2. (file[b] \in Covered /\ file[a] \notin Covered)
              \/ (a < b /\ (file[a] \in Covered <=> file[b] \in Covered))
        BY <1>1, <1>5, <2>1 DEF Place
    <2>3. CASE Joined
        <3>1. known = file /\ Covered \subseteq lap /\ Behind(known, tried + 1, Len(known))
            BY <2>3 DEF Joined
        <3>2. CASE file[b] \in Covered
            BY <3>1, <3>2
        <3>3. CASE file[b] \notin Covered
            <4>1. a < b /\ a \in tried + 1 .. Len(known) /\ b \in tried + 1 .. Len(known)
                BY <2>1, <2>2, <3>1, <3>3, CoveredFact
            <4> QED
                BY <1>5, <3>1, <4>1 DEF Behind
        <3> QED
            BY <3>2, <3>3
    <2>4. CASE Begun
        <3>1. known = file /\ lap \subseteq Covered /\ Behind(known, 1, tried)
            BY <2>4 DEF Begun
        <3>2. a < b /\ file[a] \in Covered /\ file[b] \in Covered
            BY <1>5, <2>2, <3>1
        <3>3. a \in 1 .. tried /\ b \in 1 .. tried
            BY <2>1, <3>1, <3>2, CoveredFact
        <3> QED
            BY <1>5, <3>1, <3>2, <3>3 DEF Behind
    <2>5. CASE CutShort
        <3>1. file[a] \in ToSet(file) /\ file[b] \in ToSet(file)
            BY DEF ToSet
        <3> QED
            BY <1>5, <2>2, <2>5, <3>1 DEF CutShort
    <2> QED
        BY <2>3, <2>4, <2>5
<1>6. ASSUME NEW k \in 1 .. n, NEW l \in 1 .. n, k < l, Rotated(file)[k] \in lap
      PROVE  Rotated(file)[l] \in lap
    <2>1. /\ at[k] \in DOMAIN file /\ at[l] \in DOMAIN file
          /\ Place(file)[at[k]] < Place(file)[at[l]]
        BY <1>3, <1>6 DEF Lists
    <2>2. Rotated(file)[k] = file[at[k]] /\ Rotated(file)[l] = file[at[l]]
        BY <1>3
    <2> QED
        BY <1>5, <1>6, <2>1, <2>2
<1> HIDE DEF n
<1> QED
    BY <1>4, <1>6 DEF Behind

(* No host is tried again before the lap is complete. *)
LEMMA CheckFact ==
    ASSUME TypeInv, ListInv, LapInv, NEW result, Check(result)
    PROVE  /\ known[tried + 1] \notin lap \/ derived \subseteq lap
           /\ LapInv'
<1> DEFINE ip == known[tried + 1]
<1>1. /\ pc["run"] = "checking" /\ tried < Len(known) /\ tried' = tried + 1
      /\ lap' = IF derived \subseteq lap THEN {ip} ELSE lap \union {ip}
      /\ UNCHANGED <<file, pc, known, list, derived>>
    BY DEF Check, fileVars
<1>2. /\ Distinct(known) /\ (Joined \/ Begun \/ CutShort)
    BY <1>1 DEF LapInv
<1>3. /\ tried \in Nat /\ Len(known) \in Nat /\ tried + 1 \in 1 .. Len(known)
      /\ DOMAIN known = 1 .. Len(known) /\ tried + 1 \in DOMAIN known
      /\ ToSet(file) = derived
    BY <1>1, CoveredFact DEF ListInv
<1>4. ip \notin Covered
    BY <1>2, <1>3, CoveredFact
<1>5. Covered' = Covered \union {ip}
    <2>1. Covered' = {known[i] : i \in 1 .. tried + 1}
        BY <1>1 DEF Covered
    <2>2. \A i \in 1 .. tried + 1 : i \in 1 .. tried \/ i = tried + 1
        BY <1>3
    <2>3. \A i \in 1 .. tried : i \in 1 .. tried + 1
        BY <1>3
    <2>4. tried + 1 \in 1 .. tried + 1
        BY <1>3
    <2> QED
        BY <2>1, <2>2, <2>3, <2>4 DEF Covered
<1>6. ToSet(known) = {known[i] : i \in 1 .. Len(known)}
    BY <1>3 DEF ToSet
<1>7. CASE Joined
    <2>1. known = file /\ Covered \subseteq lap /\ Behind(known, tried + 1, Len(known))
        BY <1>7 DEF Joined
    <2>2. ASSUME ip \in lap PROVE derived \subseteq lap
        <3>1. ASSUME NEW i \in 1 .. Len(known) PROVE known[i] \in lap
            <4>1. i \in 1 .. tried \/ i = tried + 1 \/ (i \in tried + 1 .. Len(known) /\ tried + 1 < i)
                BY <1>3
            <4>2. tried + 1 \in tried + 1 .. Len(known)
                BY <1>3
            <4> QED
                BY <2>1, <2>2, <4>1, <4>2 DEF Behind, Covered
        <3> QED
            BY <1>3, <1>6, <2>1, <3>1
    <2>3. CASE derived \subseteq lap
        <3>1. lap' = {ip}
            BY <1>1, <2>3
        <3>2. ASSUME NEW i \in 1 .. tried + 1, NEW j \in 1 .. tried + 1, i < j PROVE known[i] # ip
            <4>1. i \in DOMAIN known /\ i # tried + 1
                BY <1>3, <3>2
            <4> QED
                BY <1>2, <1>3, <4>1 DEF Distinct
        <3>3. Begun'
            BY <1>1, <1>5, <2>1, <3>1, <3>2 DEF Begun, Behind
        <3> QED
            BY <1>1, <1>2, <2>3, <3>3 DEF LapInv, Writes
    <2>4. CASE ~(derived \subseteq lap)
        <3>1. lap' = lap \union {ip}
            BY <1>1, <2>4
        <3>2. ASSUME NEW i \in tried + 2 .. Len(known)
              PROVE  i \in tried + 1 .. Len(known) /\ known[i] # ip
            <4>1. i \in DOMAIN known /\ i # tried + 1 /\ i \in tried + 1 .. Len(known)
                BY <1>3
            <4> QED
                BY <1>2, <1>3, <4>1 DEF Distinct
        <3>3. \A i, j \in tried + 2 .. Len(known) : i < j /\ known[i] \in lap' => known[j] \in lap'
            BY <2>1, <3>1, <3>2 DEF Behind
        <3>4. tried' + 1 = tried + 2 /\ known' = known
            BY <1>1, <1>3
        <3>5. Behind(known, tried + 1, Len(known))'
            BY <3>3, <3>4 DEF Behind
        <3>6. known' = file' /\ (Covered \subseteq lap)'
            BY <1>1, <1>5, <2>1, <3>1
        <3>7. Joined'
            BY <3>5, <3>6 DEF Joined
        <3> QED
            BY <1>1, <1>2, <2>2, <2>4, <3>7 DEF LapInv, Writes
    <2> QED
        BY <2>3, <2>4
<1>8. CASE Begun
    <2>1. known = file /\ lap \subseteq Covered /\ Behind(known, 1, tried)
        BY <1>8 DEF Begun
    <2>2. ip \notin lap /\ ip \in derived
        BY <1>3, <1>4, <1>6, <2>1
    <2>3. lap' = lap \union {ip}
        BY <1>1, <2>2
    <2>4. ASSUME NEW i \in 1 .. tried + 1, NEW j \in 1 .. tried + 1, i < j, known[i] \in lap'
          PROVE  known[j] \in lap'
        <3>1. i \in 1 .. tried /\ (j \in 1 .. tried \/ j = tried + 1)
            BY <1>3, <2>4
        <3>2. known[i] # ip
            BY <1>4, <3>1 DEF Covered
        <3> QED
            BY <2>1, <2>3, <2>4, <3>1, <3>2 DEF Behind
    <2>5. Begun'
        BY <1>1, <1>5, <2>1, <2>3, <2>4 DEF Begun, Behind
    <2> QED
        BY <1>1, <1>2, <2>2, <2>5 DEF LapInv, Writes
<1>9. CASE CutShort
    <2>1. ip \notin lap
        BY <1>4, <1>9 DEF CutShort
    <2>2. CASE derived \subseteq lap
        <3>1. lap' = {ip} /\ ip \notin ToSet(file) /\ ToSet(file) \subseteq Covered
            BY <1>1, <1>3, <1>9, <2>1, <2>2 DEF CutShort
        <3> QED
            BY <1>1, <1>2, <1>5, <2>1, <3>1 DEF CutShort, LapInv, Writes
    <2>3. CASE ~(derived \subseteq lap)
        <3>1. lap' = lap \union {ip}
            BY <1>1, <2>3
        <3>2. CutShort'
            BY <1>1, <1>4, <1>5, <1>9, <3>1 DEF CutShort
        <3> QED
            BY <1>1, <1>2, <2>1, <3>2 DEF LapInv, Writes
    <2> QED
        BY <2>2, <2>3
<1> QED
    BY <1>2, <1>7, <1>8, <1>9

LEMMA LapStep == ASSUME Apart, TypeInv, ListInv, LapInv, [Next]_vars PROVE LapInv'
<1>0. WritersTyped /\ DataTyped
    BY TypeParts
<1>t. pc = [w \in Writers |-> pc[w]] /\ list = [w \in Writers |-> list[w]]
    BY <1>0 DEF WritersTyped
<1>w. Writers = {"run", "derivation"}
    BY DEF Writers
<1>d. DOMAIN <<>> = {} /\ Len(<<>>) = 0
    OBVIOUS
<1> USE DEF Goto, dataVars, fileVars, runVars
<1>1. ASSUME NEW w \in Writers, Open(w) \/ WriteLine(w) PROVE LapInv'
    <2>1. UNCHANGED <<known, tried, lap, list>> /\ (pc'["run"] = pc["run"] \/ (Writes("run") /\ Writes("run")'))
        BY <1>1, <1>t, <1>w DEF Open, WriteLine, Writes
    <2>2. UNCHANGED file
        BY <1>1 DEF Open, WriteLine, ListInv
    <2> QED
        BY <2>1, <2>2, LapKept
<1>2. CASE Replace("run")
    <2>1. tmp = list["run"] /\ Writes("run")
        BY <1>2, <1>w, WrittenFact DEF Replace, Writes
    <2>2. /\ file' = list["run"] /\ pc'["run"] = "idle" /\ known' = <<>> /\ UNCHANGED lap
        BY <1>2, <1>t, <1>w, <2>1 DEF Replace
    <2>3. Behind(list["run"], 1, Len(list["run"]))
        BY <2>1 DEF LapInv
    <2>4. Behind(file, 1, Len(file))'
        BY <2>2, <2>3 DEF Behind
    <2> QED
        BY <1>d, <2>2, <2>4 DEF LapInv, Writes, Distinct
<1>3. CASE Replace("derivation")
    <2>1. /\ UNCHANGED <<known, tried>> /\ pc'["run"] = pc["run"] /\ lap' = Covered
          /\ pc["derivation"] = "writing"
        BY <1>3, <1>t, <1>w DEF Replace, Covered
    <2>2. ~Writes("run")
        BY <2>1 DEF ListInv, Writes
    <2>3. CutShort'
        BY <2>1 DEF CutShort, Covered
    <2>4. pc["run"] = "idle" => lap' = {}
        BY <1>0, <2>1 DEF Covered, WritersTyped
    <2>5. lap' = {} => Behind(file, 1, Len(file))'
        BY DEF Behind
    <2> QED
        BY <2>1, <2>2, <2>3, <2>4, <2>5 DEF LapInv, Writes
<1>4. ASSUME NEW w \in Writers PROVE ~ReplaceRaises(w)
    <2>1. pc[w] = "writing" => tmp \in Seq(Lines)
        BY <1>0 DEF WritersTyped, ListInv
    <2> QED
        BY <2>1, ResponsiveAssumption DEF ReplaceRaises
<1>5. CASE RunStart
    <2>1. /\ pc["run"] = "idle" /\ known' = file /\ pc'["run"] = "checking"
          /\ UNCHANGED <<file, tried, lap>>
        BY <1>5, <1>t, <1>w DEF RunStart
    <2>2. tried = 0
        BY <1>0, <2>1 DEF WritersTyped
    <2>3. Covered' = {}
        BY <2>1, <2>2 DEF Covered
    <2>4. Joined'
        BY <2>1, <2>2, <2>3 DEF Joined, LapInv, Behind
    <2>5. Distinct(known')
        BY <2>1 DEF ListInv
    <2> QED
        BY <2>1, <2>4, <2>5 DEF LapInv, Writes
<1>6. ASSUME NEW result \in Statuses, Check(result) PROVE LapInv'
    BY <1>6, CheckFact
<1>7. CASE StageRows
    <2>1. /\ pc["run"] = "checking" /\ pc'["run"] = "rotating" /\ UNCHANGED <<file, known, tried, lap>>
        BY <1>7, <1>t, <1>w DEF StageRows
    <2> QED
        BY <2>1 DEF LapInv, Joined, Begun, CutShort, Behind, Covered, Writes
<1>8. CASE Rotate
    <2>0. pc["run"] = "rotating" /\ Distinct(known) /\ (Joined \/ Begun \/ CutShort)
        BY <1>8 DEF Rotate, LapInv
    <2>1. CASE ToSet(file) \intersect Covered = {}
        <3>1. pc'["run"] = "idle" /\ known' = <<>> /\ UNCHANGED <<file, lap>>
            BY <1>8, <1>t, <1>w, <2>1 DEF Rotate, Idle
        <3>2. ASSUME lap \intersect ToSet(file) = {} PROVE Behind(file, 1, Len(file))
            BY <3>2, CoveredFact DEF Behind, ToSet
        <3>3. CASE Joined
            <4>1. known = file /\ Behind(known, tried + 1, Len(known))
                BY <3>3 DEF Joined
            <4>2. tried = 0
                <5>1. 1 \in 1 .. tried => known[1] \in Covered /\ known[1] \in ToSet(known)
                    BY CoveredFact DEF ToSet
                <5> QED
                    BY <2>1, <4>1, <5>1, CoveredFact
            <4> QED
                BY <1>d, <3>1, <4>1, <4>2 DEF LapInv, Behind, Writes, Distinct
        <3>4. CASE Begun \/ CutShort
            <4>1. Behind(file, 1, Len(file))
                BY <2>1, <3>2, <3>4 DEF Begun, CutShort
            <4> QED
                BY <1>d, <3>1, <4>1 DEF LapInv, Behind, Writes, Distinct
        <3> QED
            BY <2>0, <3>3, <3>4
    <2>2. CASE ToSet(file) \intersect Covered # {}
        <3>1. /\ list'["run"] = Rotated(file) /\ pc'["run"] = "opening"
              /\ UNCHANGED <<known, lap>>
            BY <1>8, <1>t, <1>w, <2>2 DEF Rotate
        <3>2. Behind(Rotated(file), 1, Len(Rotated(file)))
            BY <2>0, RotatedBehind
        <3>3. Behind(list["run"], 1, Len(list["run"]))'
            BY <3>1, <3>2 DEF Behind
        <3> QED
            BY <2>0, <3>1, <3>3 DEF LapInv, Writes
    <2> QED
        BY <2>1, <2>2
<1>9. CASE DerivationStart \/ Query \/ QueryFails \/ PublishRows \/ AgeOut \/ UNCHANGED vars
    <2>1. UNCHANGED <<file, known, tried, lap>> /\ list'["run"] = list["run"] /\ pc'["run"] = pc["run"]
        BY <1>9, <1>t, <1>w DEF DerivationStart, Query, QueryFails, PublishRows, AgeOut, Idle, vars
    <2> QED
        BY <2>1, LapKept
<1>10. ASSUME NEW h \in Hosts, Discover(h) PROVE LapInv'
    BY <1>10, LapKept DEF Discover
<1>11. CASE Crash("run")
    <2>1. lap' = {} /\ pc'["run"] = "idle" /\ known' = <<>>
        BY <1>11, <1>t, <1>w DEF Crash, Idle
    <2> QED
        BY <1>d, <2>1 DEF LapInv, Behind, Writes, Distinct
<1>12. CASE Crash("derivation")
    <2>1. UNCHANGED <<file, known, tried, lap>> /\ list'["run"] = list["run"] /\ pc'["run"] = pc["run"]
        BY <1>12, <1>t, <1>w DEF Crash, Idle
    <2> QED
        BY <2>1, LapKept
<1>13. CASE InstanceReplaced
    <2>1. lap' = {} /\ pc'["run"] = "idle" /\ known' = <<>>
        BY <1>13, <1>w DEF InstanceReplaced
    <2> QED
        BY <1>d, <2>1 DEF LapInv, Behind, Writes, Distinct
<1> QED
    BY <1>1, <1>2, <1>3, <1>4, <1>5, <1>6, <1>7, <1>8, <1>9, <1>10, <1>11, <1>12, <1>13
       DEF Next, RunStep, DerivationStep, WriteFile, Writers

-----------------------------------------------------------------------------
(* Every variable keeps its type, whoever crashes and whoever meets whom:  *)
(* no row is in the feed twice, no writer writes past the end of its list. *)
THEOREM TypeCorrect == Spec => []TypeOK
<1>1. TypeInv /\ [Next]_vars => TypeInv'
    BY TypeStep
<1>2. TypeInv => TypeOK
    BY DEF TypeInv
<1> QED
    BY TypeInit, <1>1, <1>2, PTL DEF Spec

LEMMA Apartness == ASSUME Apart PROVE Spec => [](TypeInv /\ ListInv /\ LapInv)
<1>1. Init => TypeInv /\ ListInv /\ LapInv
    BY TypeInit, ListInit, LapInit
<1>2. (TypeInv /\ ListInv /\ LapInv) /\ [Next]_vars => (TypeInv /\ ListInv /\ LapInv)'
    BY TypeStep, ListStep, LapStep
<1> QED
    BY <1>1, <1>2, PTL DEF Spec

(* If rotation and derivation never write at once, rotating loses no host  *)
(* of the derivation, whatever crashes.                                    *)
THEOREM Forgetting == ASSUME Apart PROVE Spec => []NoneForgotten
<1>1. TypeInv /\ ListInv => NoneForgotten
    BY TypeParts, ResponsiveAssumption DEF DataTyped, ListInv, NoneForgotten
<1> QED
    BY <1>1, Apartness, PTL

(* Nor does it then reinstate one that the derivation has dropped. *)
THEOREM Reinstating == ASSUME Apart PROVE Spec => []NoneReinstated
<1>1. ListInv => NoneReinstated
    BY DEF ListInv, NoneReinstated
<1> QED
    BY <1>1, Apartness, PTL

(* And the runs walk around the list: no host is tried again before every  *)
(* other has been, however many runs, rotations and derivations it takes.  *)
THEOREM Lapping == ASSUME Apart PROVE Spec => RoundRobin
<1>1. TypeInv /\ ListInv /\ LapInv /\ [Next]_vars =>
          [\A h \in Hosts : Tries(h) => h \notin lap \/ derived \subseteq lap]_vars
    <2> SUFFICES ASSUME TypeInv, ListInv, LapInv, Next, NEW h \in Hosts, Tries(h)
                 PROVE  h \notin lap \/ derived \subseteq lap
        OBVIOUS
    <2>1. tried' = tried + 1 /\ known[tried + 1] = h /\ tried \in Nat /\ tried + 1 # tried /\ tried + 1 # 0
        BY CoveredFact DEF Tries
    <2>2. \E result \in Statuses : Check(result)
        BY <2>1
           DEF Next, RunStep, DerivationStep, WriteFile, RunStart, StageRows, Rotate, Open, WriteLine,
               Replace, ReplaceRaises, DerivationStart, Query, QueryFails, PublishRows, Discover,
               AgeOut, Crash, InstanceReplaced, Idle, runVars
    <2> QED
        BY <2>1, <2>2, CheckFact
<1> QED
    BY <1>1, Apartness, PTL DEF Spec, RoundRobin
=============================================================================
