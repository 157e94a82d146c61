--------------------------- MODULE PublishProofs ---------------------------
(***************************************************************************)
(* What TLAPS proves of Publish for any runs and publishers, any number of *)
(* datasets in any two orders, any number of writes to a batch and any     *)
(* number of faults.                                                       *)
(***************************************************************************)
EXTENDS Publish, SequenceTheorems, TLAPS

-----------------------------------------------------------------------------
(* The order of a publish, and the rows of a file. *)

LEMMA QueueFacts ==
    /\ Len(PublishOrder) \in Nat
    /\ Len(Queue) = Len(PublishOrder) + 1
    /\ \A j \in 1 .. Len(Queue) :
           /\ Queue[j] \in Targets
           /\ Queue[j] \in Datasets <=> j < Len(Queue)
           /\ Queue[j] = "exclusions" <=> j = Len(Queue)
    /\ \A i, j \in 1 .. Len(Queue) : Queue[i] = Queue[j] => i = j
<1>1. PublishOrder \in Seq(Targets) /\ "exclusions" \in Targets
    BY OrderAssumption, SeqMonotonic DEF Targets
<1>2. PublishOrder \in Seq(Datasets) /\ "exclusions" \notin Datasets
    BY OrderAssumption
<1>3. Len(PublishOrder) \in Nat /\ DOMAIN PublishOrder = 1 .. Len(PublishOrder)
    BY <1>2, LenProperties
<1>4. \A j \in 1 .. Len(PublishOrder) : PublishOrder[j] \in Datasets
    BY <1>2, ElementOfSeq
<1>5. \A i, j \in 1 .. Len(PublishOrder) : PublishOrder[i] = PublishOrder[j] => i = j
    BY <1>3, OrderAssumption
<1>6. /\ Len(Queue) = Len(PublishOrder) + 1
      /\ \A j \in 1 .. Len(PublishOrder) : Queue[j] = PublishOrder[j]
      /\ Queue[Len(PublishOrder) + 1] = "exclusions"
    BY <1>1, <1>3, AppendProperties DEF Queue
<1>7. ASSUME NEW j \in 1 .. Len(Queue)
      PROVE  \/ j = Len(Queue) /\ Queue[j] = "exclusions"
             \/ j \in 1 .. Len(PublishOrder) /\ Queue[j] \in Datasets
                  /\ Queue[j] = PublishOrder[j]
    BY <1>3, <1>4, <1>6
<1>8. \A i, j \in 1 .. Len(Queue) : Queue[i] = Queue[j] => i = j
    BY <1>2, <1>3, <1>5, <1>6, <1>7
<1>9. \A j \in 1 .. Len(Queue) :
           /\ Queue[j] \in Targets
           /\ Queue[j] \in Datasets <=> j < Len(Queue)
           /\ Queue[j] = "exclusions" <=> j = Len(Queue)
    BY <1>2, <1>3, <1>6, <1>7 DEF Targets
<1> QED
    BY <1>3, <1>6, <1>8, <1>9

LEMMA EveryDatasetQueued == \A d \in Datasets : \E j \in 1 .. Len(Queue) - 1 : Queue[j] = d
<1>1. PublishOrder \in Seq(Datasets) /\ Datasets = {PublishOrder[i] : i \in DOMAIN PublishOrder}
    BY OrderAssumption
<1>2. DOMAIN PublishOrder = 1 .. Len(PublishOrder)
    BY <1>1, LenProperties
<1>3. PublishOrder \in Seq(Targets) /\ "exclusions" \in Targets
    BY <1>1, SeqMonotonic DEF Targets
<1>4. \A j \in 1 .. Len(PublishOrder) : Queue[j] = PublishOrder[j]
    BY <1>3, AppendProperties DEF Queue
<1>5. Len(Queue) - 1 = Len(PublishOrder)
    BY QueueFacts
<1>6. \A d \in Datasets : \E i \in DOMAIN PublishOrder : PublishOrder[i] = d
    BY <1>1
<1> QED
    BY <1>2, <1>4, <1>5, <1>6

LEMMA WriteFacts ==
    /\ Len(WriteOrder) \in Nat
    /\ \A j \in 1 .. Len(WriteOrder) : WriteOrder[j] \in Datasets
    /\ \A i, j \in 1 .. Len(WriteOrder) : WriteOrder[i] = WriteOrder[j] => i = j
    /\ Writes \in Nat \ {0}
<1>1. WriteOrder \in Seq(Datasets)
    BY OrderAssumption
<1>2. Len(WriteOrder) \in Nat /\ DOMAIN WriteOrder = 1 .. Len(WriteOrder)
    BY <1>1, LenProperties
<1>3. \A j \in 1 .. Len(WriteOrder) : WriteOrder[j] \in Datasets
    BY <1>1, ElementOfSeq
<1>4. \A i, j \in 1 .. Len(WriteOrder) : WriteOrder[i] = WriteOrder[j] => i = j
    BY <1>2, OrderAssumption
<1> QED
    BY <1>2, <1>3, <1>4, ParameterAssumption

LEMMA TornIsNoItem == Torn \notin Items
BY ParameterAssumption DEF Torn, Items

LEMMA RowsAppended ==
    ASSUME NEW f \in Seq(Items \union {Torn}), NEW x \in Items \union {Torn}
    PROVE  RowsOf(Append(f, x)) = RowsOf(f) \union ({x} \ {Torn})
<1> DEFINE g == Append(f, x)
<1>1. Len(f) \in Nat /\ DOMAIN f = 1 .. Len(f) /\ DOMAIN g = 1 .. Len(f) + 1
    BY AppendProperties, LenProperties
<1>2. (\A i \in 1 .. Len(f) : g[i] = f[i]) /\ g[Len(f) + 1] = x
    BY AppendProperties
<1>3. \A i \in DOMAIN g : i \in DOMAIN f \/ i = Len(f) + 1
    BY <1>1
<1>4. DOMAIN f \subseteq DOMAIN g /\ Len(f) + 1 \in DOMAIN g
    BY <1>1
<1> HIDE DEF g
<1> QED
    BY <1>1, <1>2, <1>3, <1>4 DEF RowsOf, g

LEMMA RowsAreItems ==
    /\ RowsOf(<<>>) = {}
    /\ \A f \in Seq(Items \union {Torn}) : RowsOf(f) \subseteq Items
<1>1. RowsOf(<<>>) = {}
    BY DEF RowsOf
<1>2. ASSUME NEW f \in Seq(Items \union {Torn}) PROVE RowsOf(f) \subseteq Items
    <2>1. \A i \in DOMAIN f : f[i] \in Items \union {Torn}
        BY LenProperties, ElementOfSeq
    <2> QED
        BY <2>1 DEF RowsOf
<1> QED
    BY <1>1, <1>2

-----------------------------------------------------------------------------
(* The steps of a publish.  Any of them may also end the process.          *)

Acts(p) ==
    PublisherStep(p) \/ CommitRejected(p) \/ CommitUnanswered(p) \/ PublisherCrash(p)

(* What a step of publisher p leaves alone of another publisher. *)
LEMMA OthersKeep ==
    ASSUME TypeOK, NEW p \in Publishers, NEW q \in Publishers, p # q, Acts(p)
    PROVE  /\ pc'[q] = pc[q] /\ next'[q] = next[q] /\ Item(q)' = Item(q)
           /\ batch'[q] = batch[q] /\ part'[q] = part[q] /\ listed'[q] = listed[q]
<1> USE DEF TypeOK, Item, Goto, Ends, NextDataset
<1>1. CASE Start(p) \/ ReadFile(p) \/ ReadRaises(p) \/ SnapshotExclusions(p) \/ Skip(p)
    BY <1>1 DEF Start, ReadFile, ReadRaises, SnapshotExclusions, Skip
<1>2. CASE OpenTmp(p) \/ WriteTmp(p) \/ Convert(p) \/ OpenParquet(p) \/ WriteParquet(p)
    <2>1. CASE OpenTmp(p) \/ WriteTmp(p)
        BY <2>1 DEF OpenTmp, WriteTmp
    <2>2. CASE Convert(p) \/ OpenParquet(p) \/ WriteParquet(p)
        BY <2>2 DEF Convert, OpenParquet, WriteParquet
    <2> QED
        BY <1>2, <2>1, <2>2
<1>3. CASE Upload(p) \/ Inspect(p) \/ Flagged(p) \/ Commit(p) \/ Clear(p) \/ Remove(p)
    BY <1>3 DEF Upload, Inspect, Flagged, Commit, Clear, Remove
<1>4. CASE Finish(p) \/ CommitRejected(p) \/ CommitUnanswered(p) \/ PublisherCrash(p)
    BY <1>4 DEF Finish, CommitRejected, CommitUnanswered, PublisherCrash
<1> QED
    BY <1>1, <1>2, <1>3, <1>4 DEF Acts, PublisherStep

(* What it leaves alone of the rest: only Remove touches a pending file,   *)
(* and only a commit that lands the published datasets.                    *)
LEMMA ActsFrame ==
    ASSUME NEW p \in Publishers, Acts(p)
    PROVE  /\ UNCHANGED <<at, written, register>>
           /\ Remove(p) \/ UNCHANGED <<file, handle>>
           /\ \/ Lands(p) /\ pc[p] = "committing" /\ (Commit(p) \/ CommitUnanswered(p))
              \/ UNCHANGED <<committed, published>>
           /\ Start(p) \/ pc[p] # "idle"
<1> USE DEF writerVars, serviceVars
<1>1. CASE Start(p) \/ ReadFile(p) \/ ReadRaises(p) \/ SnapshotExclusions(p) \/ Skip(p)
    BY <1>1 DEF Start, ReadFile, ReadRaises, SnapshotExclusions, Skip
<1>2. CASE OpenTmp(p) \/ WriteTmp(p) \/ Convert(p) \/ OpenParquet(p) \/ WriteParquet(p)
    BY <1>2 DEF OpenTmp, WriteTmp, Convert, OpenParquet, WriteParquet
<1>3. CASE Upload(p) \/ Inspect(p) \/ Flagged(p) \/ Commit(p) \/ Clear(p) \/ Remove(p)
    BY <1>3 DEF Upload, Inspect, Flagged, Commit, Clear, Remove
<1>4. CASE Finish(p) \/ CommitRejected(p) \/ CommitUnanswered(p) \/ PublisherCrash(p)
    BY <1>4 DEF Finish, CommitRejected, CommitUnanswered, PublisherCrash
<1> QED
    BY <1>1, <1>2, <1>3, <1>4 DEF Acts, PublisherStep

(* The steps between the reading and the commit. *)
Preparing == {"staging", "writing", "saving", "storing", "uploading", "inspecting"}

Prepares(p) ==
    /\ pc[p] \in Preparing /\ pc'[p] \in Preparing \union {"committing"}
    /\ UNCHANGED <<file, batch, committed, published>>
    /\ \/ next'[p] = next[p]
       \/ next'[p] = next[p] + 1 /\ pc[p] = "staging" /\ pc'[p] = "staging"
              /\ batch[p][Item(p)] = {}

(* The steps after it that go on to the next dataset. *)
Removes(p) ==
    \/ Clear(p) /\ pc'[p] = "removing" /\ UNCHANGED <<next, batch>>
    \/ (Clear(p) \/ Remove(p)) /\ pc'[p] = "staging" /\ next'[p] = next[p] + 1
           /\ UNCHANGED batch

LEMMA ActsCases ==
    ASSUME TypeOK, NEW p \in Publishers, Acts(p)
    PROVE  \/ Start(p) \/ ReadFile(p) \/ SnapshotExclusions(p) \/ Prepares(p) \/ Commit(p)
           \/ Removes(p) \/ Ends(p)
<1> USE DEF TypeOK, Goto, Prepares, Preparing
<1>1. CASE Skip(p)
    BY <1>1 DEF Skip, serviceVars
<1>2. CASE OpenTmp(p) \/ WriteTmp(p) \/ Convert(p) \/ OpenParquet(p) \/ WriteParquet(p)
    BY <1>2 DEF OpenTmp, WriteTmp, Convert, OpenParquet, WriteParquet, serviceVars
<1>3. CASE Upload(p) \/ Inspect(p)
    BY <1>3 DEF Upload, Inspect, serviceVars
<1>4. CASE Clear(p) \/ Remove(p)
    BY <1>4 DEF Clear, Remove, NextDataset, Removes
<1>5. CASE \/ ReadRaises(p) \/ Flagged(p) \/ Finish(p) \/ CommitRejected(p)
           \/ CommitUnanswered(p) \/ PublisherCrash(p)
    BY <1>5 DEF ReadRaises, Flagged, Finish, CommitRejected, CommitUnanswered, PublisherCrash
<1> QED
    BY <1>1, <1>2, <1>3, <1>4, <1>5 DEF Acts, PublisherStep

-----------------------------------------------------------------------------
(* What a publisher has in hand is of the kind its step needs: rows for a  *)
(* dataset, a generation of the register for the exclusions.               *)
Snapshots == {"register"} \X (0 .. register)

InHand == {"writing", "saving", "storing", "inspecting", "committing"}

BatchOK ==
    /\ tmp["exclusions"] \subseteq Snapshots \union {Torn}
    /\ parquet["exclusions"] \subseteq Snapshots
    /\ \A p \in Publishers :
        /\ \A d \in Datasets : batch[p][d] \subseteq Items
        /\ batch[p]["exclusions"] \subseteq Snapshots
        /\ pc[p] = "idle" => next[p] = 1
        /\ pc[p] = "removing" => Item(p) \in Datasets
        /\ pc[p] \notin {"idle", "reading"} => batch[p]["exclusions"] # {}
        /\ pc[p] \in InHand /\ Item(p) = "exclusions" => part[p] \subseteq Snapshots

TypeInv == TypeOK /\ BatchOK

LEMMA TypeInit == Init => TypeInv
<1> SUFFICES ASSUME Init PROVE TypeInv
    OBVIOUS
<1> USE QueueFacts, WriteFacts, ParameterAssumption
<1>1. \A d \in Targets : Nothing[d] = {}
    BY DEF Nothing
<1>2. Nothing \in [Targets -> SUBSET Contents]
    BY DEF Nothing
<1>3. Nothing \in [Targets -> SUBSET (Contents \union {Torn})]
    BY DEF Nothing
<1>4. TypeOK
    BY <1>2, <1>3 DEF Init, TypeOK, Steps
<1>5. BatchOK
    BY <1>1 DEF Init, BatchOK, Targets, Steps, InHand
<1> QED
    BY <1>4, <1>5 DEF TypeInv

LEMMA TypeStep == ASSUME TypeInv, [Next]_vars PROVE TypeInv'
<1> USE QueueFacts, WriteFacts, ParameterAssumption
<1> USE DEF writerVars, publisherVars, serviceVars
<1>t. TypeOK /\ BatchOK
    BY DEF TypeInv
<1>n. /\ \A d \in Targets : Nothing[d] = {}
      /\ Nothing \in [Targets -> SUBSET Contents]
    BY DEF Nothing
<1>i. /\ \A p \in Publishers : next[p] \in 1 .. Len(Queue) /\ Item(p) \in Targets
      /\ \A p \in Publishers : Item(p) \in Datasets \/ Item(p) = "exclusions"
      /\ "exclusions" \in Targets /\ "exclusions" \notin Datasets /\ Datasets \subseteq Targets
      /\ Items \subseteq Contents
    BY <1>t, OrderAssumption DEF TypeOK, Item, Targets, Contents
<1>s. register' \in Nat /\ register' >= register => Snapshots \subseteq Snapshots'
    BY <1>t DEF TypeOK, Snapshots
<1>1. CASE UNCHANGED vars
    BY <1>1, <1>t DEF TypeInv, TypeOK, BatchOK, Snapshots, Item, vars
<1>2. ASSUME NEW r \in Runs, WriterStep(r) \/ WriterCrash(r) \/ WriteTorn(r)
      PROVE  TypeInv'
    <2>1. BatchOK'
        BY <1>2, <1>t DEF WriterStep, WriteSome, WriteLast, WriterCrash, WriteTorn,
                          BatchOK, Snapshots, Item, Fault
    <2>2. at[r] \in 1 .. Len(WriteOrder) => Target(r) \in Datasets
        BY DEF Target
    <2>3. ASSUME NEW x \in Items \union {Torn}, Appends(r, x), at[r] \in 1 .. Len(WriteOrder)
          PROVE  file' \in [Datasets -> Seq(Items \union {Torn})]
        <3>1. Append(file[Target(r)], x) \in Seq(Items \union {Torn})
            BY <1>t, <2>2, <2>3, AppendProperties DEF TypeOK
        <3> QED
            BY <1>t, <2>2, <2>3, <3>1 DEF TypeOK, Appends
    <2>4. CASE WriteSome(r)
        <3>1. at[r] \in 1 .. Len(WriteOrder) /\ <<r, written[r] + 1>> \in Items
            BY <1>t, <2>4 DEF WriteSome, Writing, TypeOK, Items
        <3>2. file' \in [Datasets -> Seq(Items \union {Torn})]
            BY <2>3, <2>4, <3>1 DEF WriteSome
        <3>3. at' \in [Runs -> 1 .. Len(WriteOrder) + 1] /\ written' \in [Runs -> 0 .. Writes - 1]
            BY <1>t, <2>4, <3>1 DEF WriteSome, TypeOK
        <3>4. handle' \in [Runs -> {"closed", "linked", "removed", "crashed"}]
            BY <1>t, <2>4 DEF WriteSome, TypeOK
        <3>5. UNCHANGED <<publisherVars, serviceVars, register, faults>>
            BY <2>4 DEF WriteSome
        <3>6. TypeOK'
            BY <1>t, <3>2, <3>3, <3>4, <3>5 DEF TypeOK
        <3> QED
            BY <2>1, <3>6 DEF TypeInv
    <2>5. CASE WriteLast(r)
        <3>1. at[r] \in 1 .. Len(WriteOrder) /\ <<r, written[r] + 1>> \in Items
            BY <1>t, <2>5 DEF WriteLast, Writing, TypeOK, Items
        <3>2. file' \in [Datasets -> Seq(Items \union {Torn})]
            BY <2>3, <2>5, <3>1 DEF WriteLast
        <3>3. at' \in [Runs -> 1 .. Len(WriteOrder) + 1] /\ written' \in [Runs -> 0 .. Writes - 1]
            BY <1>t, <2>5, <3>1 DEF WriteLast, TypeOK
        <3>4. handle' \in [Runs -> {"closed", "linked", "removed", "crashed"}]
            BY <1>t, <2>5 DEF WriteLast, TypeOK
        <3>5. UNCHANGED <<publisherVars, serviceVars, register, faults>>
            BY <2>5 DEF WriteLast
        <3>6. TypeOK'
            BY <1>t, <3>2, <3>3, <3>4, <3>5 DEF TypeOK
        <3> QED
            BY <2>1, <3>6 DEF TypeInv
    <2>6. CASE WriteTorn(r)
        <3>1. at[r] \in 1 .. Len(WriteOrder)
            BY <1>t, <2>6 DEF WriteTorn, Writing, TypeOK
        <3>2. file' \in [Datasets -> Seq(Items \union {Torn})]
            BY <2>3, <2>6, <3>1 DEF WriteTorn
        <3>3. TypeOK'
            BY <1>t, <2>6, <3>1, <3>2 DEF WriteTorn, Fault, TypeOK
        <3> QED
            BY <2>1, <3>3 DEF TypeInv
    <2>7. CASE WriterCrash(r)
        <3>1. TypeOK'
            BY <1>t, <2>7 DEF WriterCrash, Fault, TypeOK
        <3> QED
            BY <2>1, <3>1 DEF TypeInv
    <2> QED
        BY <1>2, <2>4, <2>5, <2>6, <2>7 DEF WriterStep
<1>3. ASSUME NEW p \in Publishers, Acts(p)
      PROVE  TypeInv'
    <2> DEFINE Kind(c) == c \subseteq Contents /\ (Item(p) = "exclusions" => c \subseteq Snapshots)
    <2>o. \A q \in Publishers : q # p =>
              /\ pc'[q] = pc[q] /\ next'[q] = next[q] /\ Item(q)' = Item(q)
              /\ batch'[q] = batch[q] /\ part'[q] = part[q]
        BY <1>t, <1>3, OthersKeep
    <2>f. UNCHANGED register /\ Snapshots' = Snapshots /\ Snapshots \subseteq Contents
        BY <1>t, <1>3, ActsFrame DEF Snapshots, Contents, TypeOK
    <2>k. Item(p) \in Targets /\ Kind(batch[p][Item(p)]) /\ Kind(parquet[Item(p)])
              /\ (pc[p] \in InHand => Kind(part[p]))
              /\ (Torn \notin tmp[Item(p)] => Kind(tmp[Item(p)]))
        BY <1>t, <1>i DEF TypeOK, BatchOK
    <2>1. ASSUME Ends(p), UNCHANGED <<at, written, tmp, parquet, register>>,
                 file' \in [Datasets -> Seq(Items \union {Torn})],
                 handle' \in [Runs -> {"closed", "linked", "removed", "crashed"}],
                 committed' \in [Datasets -> [Items -> Nat]], published' \in 0 .. MaxRegister,
                 faults' \in 0 .. MaxFaults
          PROVE  TypeInv'
        <3>1. TypeOK'
            BY <1>t, <1>n, <2>1 DEF TypeOK, Steps, Ends
        <3>2. batch'[p] = Nothing /\ pc'[p] = "idle" /\ next'[p] = 1
            BY <1>t, <2>1 DEF TypeOK, Ends
        <3>3. \A d \in Targets : batch'[p][d] = {}
            BY <1>n, <3>2
        <3>4. batch'[p]["exclusions"] = {} /\ \A d \in Datasets : batch'[p][d] = {}
            BY <1>i, <3>3
        <3>5. UNCHANGED <<tmp, parquet>>
            BY <2>1
        <3>6. BatchOK'
            BY <1>t, <2>o, <2>f, <3>2, <3>4, <3>5 DEF BatchOK, InHand
        <3> QED
            BY <3>1, <3>6 DEF TypeInv
    <2>2. ASSUME Lands(p), pc[p] = "committing"
          PROVE  committed' \in [Datasets -> [Items -> Nat]] /\ published' \in 0 .. MaxRegister
        <3>1. CASE Item(p) = "exclusions"
            <4>1. \A c \in part[p] : c[2] \in 0 .. register
                BY <1>t, <2>2, <3>1 DEF BatchOK, Snapshots, InHand
            <4> QED
                BY <1>t, <2>2, <3>1, <4>1 DEF Lands, TypeOK
        <3>2. CASE Item(p) # "exclusions"
            <4> DEFINE More == [i \in Items |-> IF i \in part[p] THEN committed[Item(p)][i] + 1
                                               ELSE committed[Item(p)][i]]
            <4>1. Item(p) \in Datasets /\ committed[Item(p)] \in [Items -> Nat]
                BY <1>t, <1>i, <3>2 DEF TypeOK
            <4>2. More \in [Items -> Nat]
                BY <4>1
            <4>3. committed' = [committed EXCEPT ![Item(p)] = More] /\ published' = published
                BY <2>2, <3>2 DEF Lands
            <4> HIDE DEF More
            <4> QED
                BY <1>t, <4>1, <4>2, <4>3 DEF TypeOK
        <3> QED
            BY <3>1, <3>2
    <2>3. ASSUME NEW s \in Steps \ {"idle", "reading", "removing"}, NEW c,
                 pc[p] \notin {"idle", "reading"},
                 Goto(p, s), part' = [part EXCEPT ![p] = c], Kind(c),
                 UNCHANGED <<file, writerVars, next, batch, listed, register, faults>>,
                 committed' \in [Datasets -> [Items -> Nat]], published' \in 0 .. MaxRegister,
                 \/ UNCHANGED <<tmp, parquet>>
                 \/ \E new \in SUBSET (Contents \union {Torn}) :
                        /\ tmp' = [tmp EXCEPT ![Item(p)] = new] /\ Kind(new \ {Torn})
                        /\ UNCHANGED parquet
                 \/ \E new : /\ parquet' = [parquet EXCEPT ![Item(p)] = new] /\ Kind(new)
                             /\ UNCHANGED tmp
          PROVE  TypeInv'
        <3>1. tmp' \in [Targets -> SUBSET (Contents \union {Torn})]
                  /\ tmp'["exclusions"] \subseteq Snapshots \union {Torn}
            <4>1. CASE UNCHANGED tmp
                BY <1>t, <4>1 DEF TypeOK, BatchOK
            <4>2. ASSUME NEW new \in SUBSET (Contents \union {Torn}), Kind(new \ {Torn}),
                         tmp' = [tmp EXCEPT ![Item(p)] = new]
                  PROVE  /\ tmp' \in [Targets -> SUBSET (Contents \union {Torn})]
                         /\ tmp'["exclusions"] \subseteq Snapshots \union {Torn}
                <5>1. tmp'["exclusions"] = IF Item(p) = "exclusions" THEN new
                                          ELSE tmp["exclusions"]
                    BY <1>t, <1>i, <4>2 DEF TypeOK
                <5>2. tmp["exclusions"] \subseteq Snapshots \union {Torn}
                    BY <1>t DEF BatchOK
                <5>3. tmp' \in [Targets -> SUBSET (Contents \union {Torn})]
                    BY <1>t, <4>2 DEF TypeOK
                <5>4. Item(p) = "exclusions" => new \subseteq Snapshots \union {Torn}
                    BY <4>2
                <5> QED
                    BY <5>1, <5>2, <5>3, <5>4
            <4> QED
                BY <2>3, <4>1, <4>2
        <3>2. parquet' \in [Targets -> SUBSET Contents]
                  /\ parquet'["exclusions"] \subseteq Snapshots
            <4>1. CASE UNCHANGED parquet
                BY <1>t, <4>1 DEF TypeOK, BatchOK
            <4>2. ASSUME NEW new, Kind(new), parquet' = [parquet EXCEPT ![Item(p)] = new]
                  PROVE  /\ parquet' \in [Targets -> SUBSET Contents]
                         /\ parquet'["exclusions"] \subseteq Snapshots
                <5>1. parquet'["exclusions"] = IF Item(p) = "exclusions" THEN new
                                              ELSE parquet["exclusions"]
                    BY <1>t, <1>i, <4>2 DEF TypeOK
                <5>2. parquet["exclusions"] \subseteq Snapshots
                    BY <1>t DEF BatchOK
                <5>3. parquet' \in [Targets -> SUBSET Contents]
                    BY <1>t, <4>2 DEF TypeOK
                <5> QED
                    BY <4>2, <5>1, <5>2, <5>3
            <4> QED
                BY <2>3, <4>1, <4>2
        <3>3. pc' \in [Publishers -> Steps] /\ part' \in [Publishers -> SUBSET Contents]
                  /\ pc'[p] = s /\ part'[p] = c
            BY <1>t, <2>3 DEF TypeOK, Goto
        <3>4. TypeOK'
            BY <1>t, <2>3, <3>1, <3>2, <3>3 DEF TypeOK
        <3>5. Item(p)' = Item(p)
            BY <2>3 DEF Item
        <3>6. BatchOK'
            BY <1>t, <2>o, <2>f, <2>3, <3>1, <3>2, <3>3, <3>5 DEF BatchOK
        <3> QED
            BY <3>4, <3>6 DEF TypeInv
    <2>4. ASSUME Item(p) \in Datasets, NextDataset(p), pc[p] \notin {"idle", "reading"},
                 file' \in [Datasets -> Seq(Items \union {Torn})],
                 handle' \in [Runs -> {"closed", "linked", "removed", "crashed"}],
                 UNCHANGED <<at, written, tmp, parquet, serviceVars, register, faults>>
          PROVE  TypeInv'
        <3>1. next[p] + 1 \in 1 .. Len(Queue)
            BY <1>i, <2>4 DEF Item
        <3>2. TypeOK'
            BY <1>t, <2>4, <3>1 DEF NextDataset, Goto, TypeOK, Steps
        <3>3. pc'[p] = "staging" /\ UNCHANGED <<batch, part>>
            BY <1>t, <2>4 DEF NextDataset, Goto, TypeOK
        <3>4. pc'[p] \notin InHand
            BY <3>3 DEF InHand
        <3>5. BatchOK'
            BY <1>t, <2>o, <2>f, <2>4, <3>3, <3>4 DEF BatchOK
        <3> QED
            BY <3>2, <3>5 DEF TypeInv
    <2> HIDE DEF Kind
    <2>5. CASE Start(p)
        <3>1. TypeOK'
            BY <1>t, <2>5 DEF Start, TypeOK, Steps, Goto
        <3>2. pc'[p] = "reading" /\ UNCHANGED <<next, batch, tmp, parquet>>
            BY <1>t, <2>5 DEF Start, TypeOK, Goto
        <3>3. BatchOK'
            BY <1>t, <2>o, <2>f, <3>2 DEF BatchOK, InHand
        <3> QED
            BY <3>1, <3>3 DEF TypeInv
    <2>6. CASE ReadFile(p)
        <3>1. RowsOf(file[Item(p)]) \subseteq Items
            BY <1>t, <2>6, RowsAreItems DEF ReadFile, TypeOK
        <3>2. next[p] + 1 \in 1 .. Len(Queue)
            BY <1>i, <2>6 DEF ReadFile, Item
        <3>3. TypeOK'
            BY <1>t, <1>i, <2>6, <3>1, <3>2 DEF ReadFile, TypeOK
        <3>4. \A d \in Targets :
                  \/ batch'[p][d] = batch[p][d]
                  \/ d = Item(p) /\ batch'[p][d] \subseteq Items
            BY <1>t, <2>6, <3>1 DEF ReadFile, TypeOK
        <3>5. pc'[p] = "reading" /\ Item(p) \in Datasets /\ UNCHANGED <<tmp, parquet>>
            BY <1>t, <2>6 DEF ReadFile, TypeOK
        <3>6. BatchOK'
            BY <1>t, <1>i, <2>o, <2>f, <3>4, <3>5 DEF BatchOK, InHand
        <3> QED
            BY <3>3, <3>6 DEF TypeInv
    <2>7. CASE SnapshotExclusions(p)
        <3>1. {<<"register", register>>} \subseteq Snapshots
            BY <1>t DEF Snapshots, TypeOK
        <3>2. TypeOK'
            BY <1>t, <1>i, <2>f, <2>7, <3>1 DEF SnapshotExclusions, TypeOK, Steps, Goto
        <3>3. \A d \in Targets : batch'[p][d] = IF d = "exclusions" THEN {<<"register", register>>}
                                                ELSE batch[p][d]
            BY <1>t, <2>7 DEF SnapshotExclusions, TypeOK
        <3>4. pc'[p] = "staging" /\ UNCHANGED <<tmp, parquet>>
            BY <1>t, <2>7 DEF SnapshotExclusions, TypeOK, Goto
        <3>5. \A d \in Datasets : d \in Targets /\ d # "exclusions"
            BY <1>i
        <3>6. batch'[p]["exclusions"] # {} /\ batch'[p]["exclusions"] \subseteq Snapshots
            BY <1>i, <3>1, <3>3
        <3>7. BatchOK'
            BY <1>t, <2>o, <2>f, <3>3, <3>4, <3>5, <3>6 DEF BatchOK, InHand
        <3> QED
            BY <3>2, <3>7 DEF TypeInv
    <2>8. CASE Skip(p)
        <3>1. Item(p) # "exclusions"
            BY <1>t, <2>8 DEF Skip, BatchOK
        <3>2. next[p] + 1 \in 1 .. Len(Queue)
            BY <1>i, <3>1 DEF Item
        <3>3. TypeOK'
            BY <1>t, <2>8, <3>2 DEF Skip, TypeOK
        <3>4. pc'[p] = "staging" /\ pc[p] = "staging" /\ UNCHANGED <<batch, tmp, parquet>>
            BY <1>t, <2>8 DEF Skip, TypeOK
        <3>5. BatchOK'
            BY <1>t, <2>o, <2>f, <3>4 DEF BatchOK, InHand
        <3> QED
            BY <3>3, <3>5 DEF TypeInv
    <2>t. /\ committed \in [Datasets -> [Items -> Nat]] /\ published \in 0 .. MaxRegister
          /\ part = [part EXCEPT ![p] = part[p]] /\ Kind({})
        BY <1>t DEF TypeOK, Kind
    <2>9. CASE OpenTmp(p)
        <3>1. Kind({} \ {Torn}) /\ {} \in SUBSET (Contents \union {Torn})
            BY DEF Kind
        <3> QED
            BY <2>t, <2>3, <2>9, <3>1 DEF OpenTmp, Steps
    <2>10. CASE WriteTmp(p)
        <3>1. PICK i \in batch[p][Item(p)] \ part[p] :
                  /\ part' = [part EXCEPT ![p] = part[p] \union {i}]
                  /\ \E new \in {tmp[Item(p)] \union {i}, tmp[Item(p)] \union {i, Torn}} :
                         tmp' = [tmp EXCEPT ![Item(p)] = new]
            BY <2>10 DEF WriteTmp
        <3>2. pc[p] = "writing" /\ Kind(part[p] \union {i})
            BY <2>k, <2>10, <3>1 DEF WriteTmp, InHand, Kind
        <3>3. \E new \in SUBSET (Contents \union {Torn}) :
                  tmp' = [tmp EXCEPT ![Item(p)] = new] /\ Kind(new \ {Torn})
            <4>1. PICK new \in {tmp[Item(p)] \union {i}, tmp[Item(p)] \union {i, Torn}} :
                      tmp' = [tmp EXCEPT ![Item(p)] = new]
                BY <3>1
            <4>2. tmp[Item(p)] \subseteq Contents \union {Torn} /\ i \in Contents
                BY <1>t, <2>k, <3>1 DEF Kind, TypeOK
            <4>3. Item(p) = "exclusions" => /\ tmp[Item(p)] \subseteq Snapshots \union {Torn}
                                            /\ i \in Snapshots
                BY <1>t, <2>k, <3>1 DEF Kind, BatchOK
            <4>4. new \in SUBSET (Contents \union {Torn}) /\ Kind(new \ {Torn})
                BY <4>1, <4>2, <4>3 DEF Kind
            <4> QED
                BY <4>1, <4>4
        <3>4. Goto(p, "writing")
            BY <1>t, <2>10, <3>2 DEF Goto, WriteTmp, TypeOK
        <3> QED
            BY <2>t, <2>3, <2>10, <3>1, <3>2, <3>3, <3>4 DEF WriteTmp, Steps
    <2>11. CASE Convert(p)
        <3>1. CASE tmp[Item(p)] # {} /\ Torn \notin tmp[Item(p)]
            BY <2>t, <2>k, <2>3, <2>11, <3>1 DEF Convert, Steps
        <3>2. CASE ~(tmp[Item(p)] # {} /\ Torn \notin tmp[Item(p)])
            BY <1>t, <2>1, <2>11, <3>2 DEF Convert, TypeOK
        <3> QED
            BY <3>1, <3>2
    <2>12. CASE OpenParquet(p)
        BY <2>t, <2>k, <2>3, <2>12 DEF OpenParquet, Steps, InHand
    <2>13. CASE WriteParquet(p)
        <3>1. \E new : parquet' = [parquet EXCEPT ![Item(p)] = new] /\ Kind(new)
            BY <2>t, <2>k, <2>13 DEF WriteParquet, InHand
        <3> QED
            BY <2>t, <2>k, <2>3, <2>13, <3>1 DEF WriteParquet, Steps, InHand
    <2>14. CASE Upload(p)
        BY <2>t, <2>k, <2>3, <2>14 DEF Upload, Steps
    <2>15. CASE Inspect(p)
        BY <2>t, <2>k, <2>3, <2>15 DEF Inspect, Steps, InHand
    <2>16. CASE Commit(p)
        <3>1. committed' \in [Datasets -> [Items -> Nat]] /\ published' \in 0 .. MaxRegister
            BY <2>2, <2>16 DEF Commit
        <3> QED
            BY <2>t, <2>k, <2>3, <2>16, <3>1 DEF Commit, Steps, InHand
    <2>17. CASE Clear(p)
        <3>1. CASE file[Item(p)] # <<>>
            <4>1. pc'[p] = "removing" /\ Item(p)' = Item(p) /\ UNCHANGED <<batch, tmp, parquet>>
                BY <1>t, <2>17, <3>1 DEF Clear, Goto, TypeOK, Item
            <4>2. TypeOK'
                BY <1>t, <2>17, <3>1 DEF Clear, Goto, TypeOK, Steps
            <4>3. BatchOK'
                BY <1>t, <2>o, <2>f, <2>17, <4>1 DEF BatchOK, InHand, Clear
            <4> QED
                BY <4>2, <4>3 DEF TypeInv
        <3>2. CASE file[Item(p)] = <<>>
            BY <1>t, <2>4, <2>17, <3>2 DEF Clear, TypeOK
        <3> QED
            BY <3>1, <3>2
    <2>18. CASE Remove(p)
        <3>1. <<>> \in Seq(Items \union {Torn}) /\ Item(p) \in Datasets
            BY <1>t, <2>18, EmptySeq DEF BatchOK, Remove
        <3>2. handle' \in [Runs -> {"closed", "linked", "removed", "crashed"}]
            BY <1>t, <2>18 DEF Remove, TypeOK
        <3>3. file' \in [Datasets -> Seq(Items \union {Torn})]
            BY <1>t, <2>18, <3>1 DEF Remove, TypeOK
        <3>4. CASE file[Item(p)] # <<>>
            BY <2>4, <2>18, <3>1, <3>2, <3>3, <3>4 DEF Remove
        <3>5. CASE file[Item(p)] = <<>>
            BY <1>t, <2>1, <2>18, <3>2, <3>3, <3>5 DEF Remove, TypeOK
        <3> QED
            BY <3>4, <3>5
    <2>19. CASE ReadRaises(p) \/ Flagged(p) \/ Finish(p)
        BY <1>t, <2>1, <2>19 DEF ReadRaises, Flagged, Finish, TypeOK
    <2>20. CASE CommitRejected(p) \/ PublisherCrash(p)
        BY <1>t, <2>1, <2>20 DEF CommitRejected, PublisherCrash, Fault, TypeOK
    <2>21. CASE CommitUnanswered(p)
        <3>1. committed' \in [Datasets -> [Items -> Nat]] /\ published' \in 0 .. MaxRegister
            BY <2>2, <2>21 DEF CommitUnanswered
        <3> QED
            BY <1>t, <2>1, <2>21, <3>1 DEF CommitUnanswered, Fault, TypeOK
    <2> QED
        BY <1>3, <2>5, <2>6, <2>7, <2>8, <2>9, <2>10, <2>11, <2>12, <2>13, <2>14, <2>15, <2>16,
           <2>17, <2>18, <2>19, <2>20, <2>21 DEF Acts, PublisherStep
<1>4. CASE RegisterChanges
    <2>1. TypeOK'
        BY <1>t, <1>4 DEF RegisterChanges, TypeOK
    <2>2. BatchOK'
        BY <1>t, <1>4, <1>s DEF RegisterChanges, BatchOK, TypeOK, Item
    <2> QED
        BY <2>1, <2>2 DEF TypeInv
<1> QED
    BY <1>1, <1>2, <1>3, <1>4 DEF Next, Acts

(* Every variable of a publish keeps its type: the queue is never left     *)
(* behind, and what lands in the published exclusions is a generation that *)
(* the register has had.                                                   *)
THEOREM TypeCorrect == Spec => []TypeOK
<1>1. Spec => []TypeInv
    BY TypeInit, TypeStep, PTL DEF Spec
<1>2. TypeInv => TypeOK
    BY DEF TypeInv
<1> QED
    BY <1>1, <1>2, PTL

-----------------------------------------------------------------------------
(* What a write and a removal do to the files, and when a row is staged. *)

LEMMA StagedStep ==
    ASSUME TypeOK, NEW r \in Runs, WriterStep(r)
    PROVE  /\ at[r] \in 1 .. Len(WriteOrder) /\ Target(r) \in Datasets
           /\ <<r, written[r] + 1>> \in Items
           /\ ~Staged(r, written[r] + 1, Target(r))
           /\ \A q \in Runs, n \in 1 .. Writes, d \in Datasets :
                  Staged(q, n, d)' <=>
                      Staged(q, n, d) \/ (q = r /\ n = written[r] + 1 /\ d = Target(r))
<1> USE WriteFacts
<1>1. at[r] \in 1 .. Len(WriteOrder) /\ written[r] + 1 \in 1 .. Writes
    BY DEF WriterStep, WriteSome, WriteLast, Writing, TypeOK
<1>2. Target(r) \in Datasets /\ <<r, written[r] + 1>> \in Items
    BY <1>1 DEF Target, Items
<1>3. ~Staged(r, written[r] + 1, Target(r))
    BY <1>1 DEF Staged, Target, TypeOK
<1>4. ASSUME NEW q \in Runs, NEW n \in 1 .. Writes, NEW d \in Datasets
      PROVE  Staged(q, n, d)' <=>
                 Staged(q, n, d) \/ (q = r /\ n = written[r] + 1 /\ d = Target(r))
    <2>1. CASE q # r
        <3>1. at'[q] = at[q] /\ written'[q] = written[q]
            BY <2>1 DEF WriterStep, WriteSome, WriteLast, TypeOK
        <3> QED
            BY <2>1, <3>1 DEF Staged, Target
    <2>2. CASE q = r /\ WriteSome(r)
        <3>1. at'[r] = at[r] /\ written'[r] = written[r] + 1
            BY <2>2 DEF WriteSome, TypeOK
        <3>2. Staged(r, n, d) <=> (\E i \in 1 .. at[r] - 1 : WriteOrder[i] = d)
                                     \/ (Target(r) = d /\ n <= written[r])
            BY <1>1 DEF Staged
        <3>3. Staged(r, n, d)' <=> (\E i \in 1 .. at[r] - 1 : WriteOrder[i] = d)
                                      \/ (Target(r) = d /\ n <= written[r] + 1)
            BY <1>1, <3>1 DEF Staged, Target
        <3>4. written[r] \in Nat
            BY DEF TypeOK
        <3>5. n <= written[r] + 1 <=> n <= written[r] \/ n = written[r] + 1
            BY <3>4
        <3> QED
            BY <2>2, <3>2, <3>3, <3>5
    <2>3. CASE q = r /\ WriteLast(r)
        <3>1. at'[r] = at[r] + 1 /\ written'[r] = 0 /\ written[r] + 1 = Writes
            BY <2>3 DEF WriteLast, TypeOK
        <3>2. Staged(r, n, d)' <=> \E i \in 1 .. at[r] : WriteOrder[i] = d
            BY <1>1, <3>1 DEF Staged
        <3>3. (\E i \in 1 .. at[r] : WriteOrder[i] = d) <=>
                  (\E i \in 1 .. at[r] - 1 : WriteOrder[i] = d) \/ Target(r) = d
            BY <1>1 DEF Target
        <3>4. n <= written[r] \/ n = written[r] + 1
            BY <1>1, <3>1 DEF TypeOK
        <3> QED
            BY <1>1, <2>3, <3>2, <3>3, <3>4 DEF Staged
    <2> QED
        BY <2>1, <2>2, <2>3 DEF WriterStep
<1> QED
    BY <1>1, <1>2, <1>3, <1>4

LEMMA FilesAppended ==
    ASSUME TypeOK, NEW r \in Runs, at[r] \in 1 .. Len(WriteOrder),
           NEW x \in Items \union {Torn}, Appends(r, x)
    PROVE  \A d \in Datasets : RowsOf(file'[d]) =
               IF d = Target(r) /\ handle[r] # "removed" THEN RowsOf(file[d]) \union ({x} \ {Torn})
               ELSE RowsOf(file[d])
<1>1. Target(r) \in Datasets /\ file[Target(r)] \in Seq(Items \union {Torn})
    BY WriteFacts DEF Target, TypeOK
<1>2. RowsOf(Append(file[Target(r)], x)) = RowsOf(file[Target(r)]) \union ({x} \ {Torn})
    BY <1>1, RowsAppended
<1> QED
    BY <1>1, <1>2 DEF Appends, TypeOK

LEMMA FilesCleared ==
    ASSUME TypeOK, BatchOK, NEW p \in Publishers, Remove(p)
    PROVE  \A d \in Datasets : RowsOf(file'[d]) = IF d = Item(p) THEN {} ELSE RowsOf(file[d])
BY RowsAreItems DEF Remove, TypeOK, BatchOK

(* What a commit adds: the uploaded rows, to the dataset it is for. *)
LEMMA CommitsRows ==
    ASSUME TypeOK, NEW p \in Publishers, Lands(p)
    PROVE  \A d \in Datasets, i \in Items : committed'[d][i] =
               IF d = Item(p) /\ Item(p) # "exclusions" /\ i \in part[p]
               THEN committed[d][i] + 1 ELSE committed[d][i]
<1>1. CASE Item(p) = "exclusions"
    BY <1>1 DEF Lands
<1>2. CASE Item(p) # "exclusions"
    <2> DEFINE More == [i \in Items |-> IF i \in part[p] THEN committed[Item(p)][i] + 1
                                        ELSE committed[Item(p)][i]]
    <2>1. committed' = [committed EXCEPT ![Item(p)] = More]
        BY <1>2 DEF Lands
    <2>2. \A d \in Datasets : committed'[d] = IF d = Item(p) THEN More ELSE committed[d]
        BY <2>1 DEF TypeOK
    <2>3. \A i \in Items : More[i] = IF i \in part[p] THEN committed[Item(p)][i] + 1
                                     ELSE committed[Item(p)][i]
        OBVIOUS
    <2> HIDE DEF More
    <2> QED
        BY <1>2, <2>2, <2>3
<1> QED
    BY <1>1, <1>2

-----------------------------------------------------------------------------
(* One publish at a time: the files in tmp_dir are its own, and what it    *)
(* has staged and uploaded is its batch, whole.                            *)
Alone ==
    /\ \A p, q \in Publishers : pc[p] # "idle" /\ pc[q] # "idle" => p = q
    /\ \A p \in Publishers :
        /\ pc[p] = "writing" => tmp[Item(p)] = part[p] /\ part[p] \subseteq batch[p][Item(p)]
                                    /\ batch[p][Item(p)] # {}
        /\ pc[p] \in {"saving", "storing", "inspecting", "committing"} =>
               part[p] = batch[p][Item(p)]
        /\ pc[p] = "storing" => parquet[Item(p)] = {}
        /\ pc[p] = "uploading" => parquet[Item(p)] = batch[p][Item(p)]

(* While publisher p acts, and from then on, the others are idle. *)
LEMMA OthersIdle ==
    ASSUME ~Overlap, TypeOK, Alone, NEW p \in Publishers, Acts(p)
    PROVE  \A q \in Publishers : q # p => pc[q] = "idle" /\ pc'[q] = "idle"
<1>1. \A q \in Publishers : q # p => pc[q] = "idle"
    BY ActsFrame DEF Alone, Start
<1> QED
    BY <1>1, OthersKeep

LEMMA AloneInit == Init => Alone
BY DEF Init, Alone

LEMMA AloneStep == ASSUME ~Overlap, TypeInv, Alone, [Next]_vars PROVE Alone'
<1> USE DEF writerVars, publisherVars, serviceVars
<1>1. TypeOK
    BY DEF TypeInv
<1>2. CASE UNCHANGED publisherVars
    BY <1>2 DEF Alone, Item
<1>3. ASSUME NEW p \in Publishers, Acts(p)
      PROVE  Alone'
    <2>1. \A q \in Publishers : q # p => pc'[q] = "idle"
        BY <1>1, <1>3, OthersIdle
    <2>2. Item(p) \in Targets
        BY <1>1, QueueFacts DEF TypeOK, Item
    <2>3. CASE pc'[p] \notin {"writing", "saving", "storing", "uploading", "inspecting", "committing"}
        BY <2>1, <2>3 DEF Alone
    <2>4. CASE OpenTmp(p)
        <3>1. pc'[p] = "writing" /\ Item(p)' = Item(p) /\ UNCHANGED batch
              /\ tmp'[Item(p)] = {} /\ part'[p] = {} /\ batch[p][Item(p)] # {}
            BY <1>1, <2>2, <2>4 DEF OpenTmp, Item, TypeOK, Goto
        <3> QED
            BY <2>1, <3>1 DEF Alone
    <2>5. CASE WriteTmp(p)
        <3>1. pc[p] = "writing" /\ UNCHANGED <<pc, batch>> /\ Item(p)' = Item(p)
            BY <2>5 DEF WriteTmp, Item
        <3>2. tmp[Item(p)] = part[p] /\ part[p] \subseteq batch[p][Item(p)]
                  /\ batch[p][Item(p)] # {}
            BY <3>1 DEF Alone
        <3>3. PICK i \in batch[p][Item(p)] \ part[p] :
                  part'[p] = part[p] \union {i} /\ tmp'[Item(p)] = tmp[Item(p)] \union {i}
            BY <1>1, <2>2, <2>5, <3>2 DEF WriteTmp, TypeOK
        <3> QED
            BY <2>1, <3>1, <3>2, <3>3 DEF Alone
    <2>6. CASE Convert(p)
        <3>1. tmp[Item(p)] = batch[p][Item(p)] /\ tmp[Item(p)] # {} /\ part[p] = batch[p][Item(p)]
            BY <2>6 DEF Alone, Convert
        <3>2. part[p] \subseteq Contents /\ Torn \notin Contents
            BY <1>1, TornIsNoItem DEF TypeOK, Contents, Torn
        <3>3. pc'[p] = "saving" /\ Item(p)' = Item(p) /\ UNCHANGED batch
              /\ part'[p] = tmp[Item(p)]
            BY <1>1, <2>6, <3>1, <3>2 DEF Convert, Item, TypeOK, Goto
        <3> QED
            BY <2>1, <3>1, <3>3 DEF Alone
    <2>7. CASE OpenParquet(p)
        <3>1. pc'[p] = "storing" /\ Item(p)' = Item(p) /\ UNCHANGED <<batch, part>>
              /\ parquet'[Item(p)] = {} /\ pc[p] = "saving"
            BY <1>1, <2>2, <2>7 DEF OpenParquet, Item, TypeOK, Goto
        <3> QED
            BY <2>1, <3>1 DEF Alone
    <2>8. CASE WriteParquet(p)
        <3>1. pc[p] = "storing" /\ parquet[Item(p)] = {} /\ part[p] = batch[p][Item(p)]
            BY <2>8 DEF WriteParquet, Alone
        <3>2. pc'[p] = "uploading" /\ Item(p)' = Item(p) /\ UNCHANGED batch
              /\ parquet'[Item(p)] = part[p]
            BY <1>1, <2>2, <2>8, <3>1 DEF WriteParquet, Item, TypeOK, Goto
        <3> QED
            BY <2>1, <3>1, <3>2 DEF Alone
    <2>9. CASE Upload(p)
        <3>1. pc'[p] = "inspecting" /\ Item(p)' = Item(p) /\ UNCHANGED batch
              /\ part'[p] = parquet[Item(p)] /\ pc[p] = "uploading"
            BY <1>1, <2>9 DEF Upload, Item, TypeOK, Goto
        <3> QED
            BY <2>1, <3>1 DEF Alone
    <2>10. CASE Inspect(p)
        <3>1. pc'[p] = "committing" /\ Item(p)' = Item(p) /\ UNCHANGED <<batch, part>>
              /\ pc[p] = "inspecting"
            BY <1>1, <2>10 DEF Inspect, Item, TypeOK, Goto
        <3> QED
            BY <2>1, <3>1 DEF Alone
    <2>11. \/ OpenTmp(p) \/ WriteTmp(p) \/ Convert(p) \/ OpenParquet(p) \/ WriteParquet(p)
           \/ Upload(p) \/ Inspect(p)
           \/ pc'[p] \notin {"writing", "saving", "storing", "uploading", "inspecting", "committing"}
        <3>1. CASE Start(p) \/ ReadFile(p) \/ SnapshotExclusions(p) \/ Skip(p) \/ Commit(p)
            BY <1>1, <3>1 DEF Start, ReadFile, SnapshotExclusions, Skip, Commit, Goto, TypeOK
        <3>2. CASE Clear(p) \/ Remove(p)
            BY <1>1, <3>2 DEF Clear, Remove, NextDataset, Ends, Goto, TypeOK
        <3>3. CASE \/ ReadRaises(p) \/ Flagged(p) \/ Finish(p) \/ CommitRejected(p)
                   \/ CommitUnanswered(p) \/ PublisherCrash(p)
            BY <1>1, <3>3 DEF ReadRaises, Flagged, Finish, CommitRejected, CommitUnanswered,
                              PublisherCrash, Ends, TypeOK
        <3> QED
            BY <1>3, <3>1, <3>2, <3>3 DEF Acts, PublisherStep
    <2> QED
        BY <2>3, <2>4, <2>5, <2>6, <2>7, <2>8, <2>9, <2>10, <2>11
<1>4. UNCHANGED vars \/ RegisterChanges
          \/ (\E r \in Runs : WriterStep(r) \/ WriterCrash(r) \/ WriteTorn(r))
      => UNCHANGED publisherVars
    BY DEF vars, RegisterChanges, WriterStep, WriteSome, WriteLast, WriterCrash, WriteTorn
<1> QED
    BY <1>2, <1>3, <1>4 DEF Next, Acts

-----------------------------------------------------------------------------
(* Runs stage between the cycles: no file is open while a publisher is     *)
(* active, so what a publisher has in hand holds every row of the files it *)
(* is about to remove.                                                     *)
Parted ==
    /\ \A r \in Runs : handle[r] # "removed"
    /\ (\E p \in Publishers : pc[p] # "idle") => \A r \in Runs : handle[r] # "linked"

Custody(p) ==
    /\ pc[p] = "reading" =>
        /\ \A d \in Datasets \ listed[p] : RowsOf(file[d]) = {}
        /\ \A j \in 1 .. next[p] - 1 : RowsOf(file[Queue[j]]) \subseteq batch[p][Queue[j]]
    /\ pc[p] \notin {"idle", "reading"} =>
           \A d \in Datasets : RowsOf(file[d]) \subseteq batch[p][d]
    /\ pc[p] \in {"clearing", "removing"} /\ Item(p) \in Datasets =>
           \A i \in RowsOf(file[Item(p)]) : committed[Item(p)][i] > 0

KeptInv == Alone /\ Parted /\ (\A p \in Publishers : Custody(p)) /\ NoRowDropped

LEMMA KeptInit == Init => KeptInv
<1> SUFFICES ASSUME Init PROVE KeptInv
    OBVIOUS
<1>1. Parted
    BY DEF Init, Parted
<1>2. \A p \in Publishers : Custody(p)
    BY DEF Init, Custody
<1>3. NoRowDropped
    BY WriteFacts DEF Init, NoRowDropped, Staged, Target
<1> QED
    BY <1>1, <1>2, <1>3, AloneInit DEF KeptInv

LEMMA KeptByWriter ==
    ASSUME Apart, TypeInv, KeptInv, Alone', NEW r \in Runs,
           WriterStep(r) \/ WriterCrash(r) \/ WriteTorn(r)
    PROVE  KeptInv'
<1> USE WriteFacts
<1> USE DEF publisherVars, serviceVars
<1>1. TypeOK /\ BatchOK /\ Parted /\ NoRowDropped /\ \A p \in Publishers : Custody(p)
    BY DEF TypeInv, KeptInv
<1>2. ASSUME \A p \in Publishers : pc[p] = "idle", UNCHANGED publisherVars
      PROVE  \A p \in Publishers : Custody(p)'
    BY <1>2 DEF Custody
<1>3. \A q \in Publishers : UNCHANGED <<publisherVars, file, serviceVars>> /\ Custody(q) => Custody(q)'
    BY DEF Custody, Item
<1>4. CASE WriterStep(r)
    <2>1. (\A p \in Publishers : pc[p] = "idle") /\ UNCHANGED <<publisherVars, serviceVars>>
        BY <1>4 DEF WriterStep, WriteSome, WriteLast, MayWrite
    <2>2. Parted'
        <3>1. \A q \in Runs : handle'[q] # "removed"
            BY <1>1, <1>4 DEF WriterStep, WriteSome, WriteLast, TypeOK, Parted
        <3> QED
            BY <2>1, <3>1 DEF Parted
    <2>3. Appends(r, <<r, written[r] + 1>>) /\ handle[r] # "removed"
        BY <1>1, <1>4 DEF WriterStep, WriteSome, WriteLast, Parted
    <2>4. <<r, written[r] + 1>> \in Items /\ <<r, written[r] + 1>> # Torn
        BY <1>1, <1>4, StagedStep, TornIsNoItem
    <2>5. \A d \in Datasets : RowsOf(file'[d]) =
              IF d = Target(r) THEN RowsOf(file[d]) \union {<<r, written[r] + 1>>}
              ELSE RowsOf(file[d])
        <3>1. at[r] \in 1 .. Len(WriteOrder)
            BY <1>1, <1>4, StagedStep
        <3>2. \A d \in Datasets : RowsOf(file'[d]) =
                  IF d = Target(r) /\ handle[r] # "removed"
                  THEN RowsOf(file[d]) \union ({<<r, written[r] + 1>>} \ {Torn})
                  ELSE RowsOf(file[d])
            BY <1>1, <2>3, <2>4, <3>1, FilesAppended
        <3>3. {<<r, written[r] + 1>>} \ {Torn} = {<<r, written[r] + 1>>}
            BY <2>4
        <3> QED
            BY <2>3, <3>2, <3>3
    <2>6. NoRowDropped'
        <3> SUFFICES ASSUME NEW q \in Runs, NEW n \in 1 .. Writes, NEW d \in Datasets,
                            Staged(q, n, d)'
                     PROVE  <<q, n>> \in RowsOf(file'[d]) \/ committed'[d][<<q, n>>] > 0
            BY DEF NoRowDropped
        <3>1. Staged(q, n, d) \/ (q = r /\ n = written[r] + 1 /\ d = Target(r))
            BY <1>1, <1>4, StagedStep
        <3> QED
            BY <1>1, <2>1, <2>5, <3>1 DEF NoRowDropped
    <2> QED
        BY <1>2, <2>1, <2>2, <2>6 DEF KeptInv
<1>5. CASE WriteTorn(r)
    <2>1. (\A p \in Publishers : pc[p] = "idle")
              /\ UNCHANGED <<at, written, publisherVars, serviceVars>>
        BY <1>5 DEF WriteTorn, MayWrite
    <2>2. Parted'
        <3>1. \A q \in Runs : handle'[q] # "removed"
            BY <1>1, <1>5 DEF WriteTorn, TypeOK, Parted
        <3> QED
            BY <2>1, <3>1 DEF Parted
    <2>3. \A d \in Datasets : RowsOf(file'[d]) = RowsOf(file[d])
        <3>1. Appends(r, Torn) /\ at[r] \in 1 .. Len(WriteOrder)
            BY <1>1, <1>5 DEF WriteTorn, Writing, TypeOK
        <3>2. \A d \in Datasets : RowsOf(file'[d]) =
                  IF d = Target(r) /\ handle[r] # "removed"
                  THEN RowsOf(file[d]) \union ({Torn} \ {Torn}) ELSE RowsOf(file[d])
            BY <1>1, <3>1, FilesAppended
        <3>3. {Torn} \ {Torn} = {}
            OBVIOUS
        <3> QED
            BY <3>2, <3>3
    <2>4. \A q \in Runs, n \in 1 .. Writes, d \in Datasets : Staged(q, n, d)' <=> Staged(q, n, d)
        BY <2>1 DEF Staged, Target
    <2>5. NoRowDropped'
        BY <1>1, <2>1, <2>3, <2>4 DEF NoRowDropped
    <2> QED
        BY <1>2, <2>1, <2>2, <2>5 DEF KeptInv
<1>6. CASE WriterCrash(r)
    <2>1. UNCHANGED <<file, at, written, publisherVars, serviceVars>>
              /\ handle' = [handle EXCEPT ![r] = "crashed"]
        BY <1>6 DEF WriterCrash
    <2>2. Parted'
        BY <1>1, <2>1 DEF Parted, TypeOK
    <2>3. NoRowDropped'
        BY <1>1, <2>1 DEF NoRowDropped, Staged, Target
    <2> QED
        BY <1>1, <1>3, <2>1, <2>2, <2>3 DEF KeptInv
<1> QED
    BY <1>4, <1>5, <1>6

LEMMA KeptByPublisher ==
    ASSUME Apart, ~Overlap, TypeInv, KeptInv, Alone', NEW p \in Publishers, Acts(p)
    PROVE  KeptInv'
<1> USE QueueFacts
<1>1. TypeOK /\ BatchOK /\ Alone /\ Parted /\ NoRowDropped /\ Custody(p)
    BY DEF TypeInv, KeptInv
<1>2. /\ next[p] \in 1 .. Len(Queue) /\ Item(p) \in Targets
      /\ \A d \in Datasets : d \in Targets /\ d # "exclusions"
    BY <1>1, OrderAssumption DEF TypeOK, Item, Targets
<1>3. \A j \in 1 .. next[p] - 1 : Queue[j] \in Datasets
    BY <1>2
<1>4. \A q \in Publishers : q # p => pc[q] = "idle" /\ pc'[q] = "idle"
    BY <1>1, OthersIdle

(* the files only lose rows, and commits only add them *)
<1>5. /\ UNCHANGED <<at, written>>
      /\ \A d \in Datasets : RowsOf(file'[d]) \subseteq RowsOf(file[d])
    <2>1. CASE Remove(p)
        BY <1>1, <2>1, ActsFrame, FilesCleared
    <2>2. CASE ~Remove(p)
        BY <2>2, ActsFrame
    <2> QED
        BY <2>1, <2>2
<1>6. \A d \in Datasets, i \in Items : committed[d][i] > 0 => committed'[d][i] > 0
    <2>1. CASE Lands(p)
        <3>1. \A d \in Datasets, i \in Items :
                  committed'[d][i] = committed[d][i] + 1 \/ committed'[d][i] = committed[d][i]
            BY <1>1, <2>1, CommitsRows
        <3>2. \A d \in Datasets, i \in Items : committed[d][i] \in Nat
            BY <1>1 DEF TypeOK
        <3> QED
            BY <3>1, <3>2
    <2>2. CASE ~Lands(p)
        BY <2>2, ActsFrame
    <2> QED
        BY <2>1, <2>2

(* no file is open, so removing one takes no row from a run *)
<1>7. Parted'
    <2>1. CASE Start(p)
        <3>1. ~Remove(p)
            BY <2>1 DEF Start, Remove
        <3> QED
            BY <1>1, <2>1, <3>1, ActsFrame DEF Start, Parted
    <2>2. CASE Remove(p)
        <3>1. pc[p] # "idle"
            BY <2>2 DEF Remove
        <3>2. handle' = handle
            BY <1>1, <2>2, <3>1 DEF Remove, Parted, TypeOK
        <3> QED
            BY <1>1, <3>1, <3>2 DEF Parted
    <2>3. CASE ~Start(p) /\ ~Remove(p)
        BY <1>1, <2>3, ActsFrame DEF Parted
    <2> QED
        BY <2>1, <2>2, <2>3

(* a removed file held committed rows only *)
<1>8. NoRowDropped'
    <2> SUFFICES ASSUME NEW r \in Runs, NEW n \in 1 .. Writes, NEW d \in Datasets,
                        Staged(r, n, d)'
                 PROVE  <<r, n>> \in RowsOf(file'[d]) \/ committed'[d][<<r, n>>] > 0
        BY DEF NoRowDropped
    <2>1. <<r, n>> \in RowsOf(file[d]) \/ committed[d][<<r, n>>] > 0
        BY <1>1, <1>5 DEF NoRowDropped, Staged, Target
    <2>2. <<r, n>> \in Items
        BY DEF Items
    <2>3. CASE Remove(p)
        <3>1. pc[p] = "removing" /\ Item(p) \in Datasets
            BY <1>1, <2>3 DEF Remove, BatchOK
        <3>2. d = Item(p) /\ <<r, n>> \in RowsOf(file[d]) => committed[d][<<r, n>>] > 0
            BY <1>1, <3>1 DEF Custody
        <3> QED
            BY <1>1, <1>6, <2>1, <2>2, <2>3, <3>2, FilesCleared
    <2>4. CASE ~Remove(p)
        BY <1>6, <2>1, <2>2, <2>4, ActsFrame
    <2> QED
        BY <2>3, <2>4

(* what the publisher has in hand holds the rows of the files *)
<1>9. Custody(p)'
    <2>1. CASE Ends(p)
        BY <1>1, <2>1 DEF Custody, Ends, TypeOK
    <2>2. CASE Start(p)
        <3>1. pc'[p] = "reading" /\ next'[p] = 1
            BY <1>1, <2>2 DEF Start, TypeOK, BatchOK, Goto
        <3>2. \A d \in Datasets \ listed'[p] : RowsOf(file'[d]) = {}
            BY <1>1, <2>2, RowsAreItems DEF Start, TypeOK
        <3>3. \A j \in 1 .. next'[p] - 1 : FALSE
            BY <3>1
        <3> QED
            BY <3>1, <3>2, <3>3 DEF Custody
    <2>3. CASE ReadFile(p)
        <3>1. /\ pc'[p] = "reading" /\ pc[p] = "reading" /\ next'[p] = next[p] + 1
              /\ UNCHANGED <<file, listed>> /\ Item(p) \in Datasets
            BY <1>1, <2>3 DEF ReadFile, TypeOK
        <3>2. \A d \in Datasets : \/ RowsOf(file[d]) \subseteq batch'[p][d]
                                  \/ batch'[p][d] = batch[p][d]
            BY <1>1, <2>3 DEF ReadFile, TypeOK, Custody
        <3>3. RowsOf(file[Item(p)]) \subseteq batch'[p][Item(p)]
            BY <1>1, <1>2, <2>3, <3>1 DEF ReadFile, TypeOK, Custody
        <3>4. \A j \in 1 .. next[p] - 1 : RowsOf(file[Queue[j]]) \subseteq batch[p][Queue[j]]
            BY <1>1, <3>1 DEF Custody
        <3>5. ASSUME NEW j \in 1 .. next[p]
              PROVE  RowsOf(file[Queue[j]]) \subseteq batch'[p][Queue[j]]
            <4>1. j = next[p] \/ j \in 1 .. next[p] - 1
                BY <1>2
            <4> QED
                BY <1>3, <3>2, <3>3, <3>4, <4>1 DEF Item
        <3>6. next'[p] - 1 = next[p]
            BY <1>2, <3>1
        <3> QED
            BY <1>1, <3>1, <3>5, <3>6 DEF Custody
    <2>4. CASE SnapshotExclusions(p)
        <3>1. pc'[p] = "staging" /\ UNCHANGED file
            BY <1>1, <2>4 DEF SnapshotExclusions, TypeOK, Goto
        <3>2. \A d \in Datasets : batch'[p][d] = batch[p][d]
            BY <1>1, <1>2, <2>4 DEF SnapshotExclusions, TypeOK
        <3>3. next[p] = Len(Queue)
            BY <1>2, <2>4 DEF SnapshotExclusions, Item
        <3>4. \A d \in Datasets : \E j \in 1 .. next[p] - 1 : Queue[j] = d
            BY <3>3, EveryDatasetQueued
        <3>5. \A d \in Datasets : RowsOf(file[d]) \subseteq batch[p][d]
            BY <1>1, <2>4, <3>4 DEF SnapshotExclusions, Custody
        <3> QED
            BY <3>1, <3>2, <3>5 DEF Custody
    <2>5. CASE Prepares(p)
        <3>1. /\ pc[p] \notin {"idle", "reading"} /\ UNCHANGED <<batch, file>>
              /\ pc'[p] \notin {"idle", "reading", "clearing", "removing"}
            BY <2>5 DEF Prepares, Preparing
        <3> QED
            BY <1>1, <3>1 DEF Custody
    <2>6. CASE Commit(p)
        <3>1. pc'[p] = "clearing" /\ UNCHANGED <<file, next, batch>> /\ Item(p)' = Item(p)
              /\ pc[p] = "committing" /\ Lands(p)
            BY <1>1, <2>6 DEF Commit, TypeOK, Goto, Item
        <3>2. part[p] = batch[p][Item(p)]
            BY <1>1, <3>1 DEF Alone
        <3>3. ASSUME Item(p) \in Datasets, NEW i \in RowsOf(file[Item(p)])
              PROVE  committed'[Item(p)][i] > 0
            <4>1. i \in Items /\ i \in part[p] /\ Item(p) # "exclusions"
                BY <1>1, <1>2, <3>1, <3>2, <3>3, RowsAreItems DEF Custody, TypeOK
            <4>2. committed'[Item(p)][i] = committed[Item(p)][i] + 1
                BY <1>1, <3>1, <3>3, <4>1, CommitsRows
            <4>3. committed[Item(p)][i] \in Nat
                BY <1>1, <3>3, <4>1 DEF TypeOK
            <4> QED
                BY <4>2, <4>3
        <3> QED
            BY <1>1, <3>1, <3>3 DEF Custody
    <2>7. CASE Removes(p)
        <3>1. /\ pc[p] \in {"clearing", "removing"} /\ UNCHANGED batch
              /\ \/ pc'[p] = "staging"
                 \/ pc'[p] = "removing" /\ pc[p] = "clearing" /\ next'[p] = next[p]
                       /\ UNCHANGED <<file, committed>>
            BY <2>7 DEF Removes, Clear, Remove, serviceVars
        <3> QED
            BY <1>1, <1>5, <3>1 DEF Custody, Item
    <2> QED
        BY <1>1, <2>1, <2>2, <2>3, <2>4, <2>5, <2>6, <2>7, ActsCases
<1>10. \A q \in Publishers : q # p => Custody(q)'
    BY <1>4 DEF Custody
<1> QED
    BY <1>7, <1>8, <1>9, <1>10 DEF KeptInv

(* Rows that were staged are still in the pending file or have been        *)
(* committed, whatever fails and wherever a publish dies, with one publish *)
(* at a time and no run that stages rows while it is in progress.  Without *)
(* either premise it does not hold of the code.                            *)
THEOREM Kept == ASSUME Apart, ~Overlap PROVE Spec => []NoRowDropped
<1>1. Init => TypeInv /\ KeptInv
    BY TypeInit, KeptInit
<1>2. TypeInv /\ KeptInv /\ [Next]_vars => TypeInv' /\ KeptInv'
    <2> SUFFICES ASSUME TypeInv, KeptInv, [Next]_vars PROVE TypeInv' /\ KeptInv'
        OBVIOUS
    <2>1. TypeInv'
        BY TypeStep
    <2>2. Alone'
        BY AloneStep DEF KeptInv
    <2>3. ASSUME UNCHANGED <<file, writerVars, publisherVars, serviceVars>> PROVE KeptInv'
        <3> USE <2>3 DEF writerVars, publisherVars, serviceVars, KeptInv
        <3>1. Parted'
            BY DEF Parted
        <3>2. ASSUME NEW p \in Publishers PROVE Custody(p)'
            BY DEF Custody, Item
        <3>3. NoRowDropped'
            BY DEF NoRowDropped, Staged, Target
        <3> QED
            BY <2>2, <3>1, <3>2, <3>3
    <2>4. UNCHANGED vars \/ RegisterChanges =>
              UNCHANGED <<file, writerVars, publisherVars, serviceVars>>
        BY DEF vars, RegisterChanges
    <2> QED
        BY <2>1, <2>2, <2>3, <2>4, KeptByWriter, KeptByPublisher DEF Next, Acts
<1>3. KeptInv => NoRowDropped
    BY DEF KeptInv
<1> QED
    BY <1>1, <1>2, <1>3, PTL DEF Spec

-----------------------------------------------------------------------------
(* With one publish at a time, a row that is committed is on its way out.  *)
Fresh(d) == {i \in Items : committed[d][i] = 0}

(* Only staged rows are in a file, a batch or a commit. *)
Known ==
    \A d \in Datasets, i \in Items :
        \/ i \in RowsOf(file[d])
        \/ committed[d][i] > 0
        \/ \E p \in Publishers : i \in batch[p][d]
        => Staged(i[1], i[2], d)

(* A committed row is in a file only while that file is being removed, and *)
(* in the batch only where the queue is past its dataset.                  *)
ToCommit(p) ==
    /\ pc[p] = "reading" => \A j \in 1 .. next[p] - 1 : batch[p][Queue[j]] \subseteq Fresh(Queue[j])
    /\ pc[p] \notin {"idle", "reading"} =>
           \A j \in next[p] .. Len(PublishOrder) :
               (pc[p] \in {"clearing", "removing"} => j > next[p]) =>
                   batch[p][Queue[j]] \subseteq Fresh(Queue[j])

Cleared ==
    \A d \in Datasets :
        \/ RowsOf(file[d]) \subseteq Fresh(d)
        \/ \E p \in Publishers : pc[p] \in {"clearing", "removing"} /\ Item(p) = d

OnceInv == Alone /\ Known /\ (\A p \in Publishers : ToCommit(p)) /\ Cleared /\ NoRowTwice

LEMMA OnceInit == Init => OnceInv
<1> SUFFICES ASSUME Init PROVE OnceInv
    OBVIOUS
<1>1. Alone
    BY AloneInit
<1>2. \A d \in Datasets : RowsOf(file[d]) = {}
    BY RowsAreItems DEF Init
<1>3. \A d \in Datasets, i \in Items : committed[d][i] = 0
    BY DEF Init
<1>4. \A p \in Publishers, d \in Datasets : batch[p][d] = {}
    BY DEF Init, Nothing, Targets
<1>5. Known
    BY <1>2, <1>3, <1>4 DEF Known
<1>6. \A p \in Publishers : ToCommit(p)
    BY DEF Init, ToCommit
<1>7. Cleared /\ NoRowTwice
    BY <1>2, <1>3 DEF Cleared, NoRowTwice
<1> QED
    BY <1>1, <1>5, <1>6, <1>7 DEF OnceInv

LEMMA OnceByWriter ==
    ASSUME TypeInv, OnceInv, Alone', NEW r \in Runs,
           WriterStep(r) \/ WriterCrash(r) \/ WriteTorn(r)
    PROVE  OnceInv'
<1> USE DEF publisherVars, serviceVars
<1>1. TypeOK /\ Known /\ Cleared /\ NoRowTwice /\ \A p \in Publishers : ToCommit(p)
    BY DEF TypeInv, OnceInv
<1>2. UNCHANGED <<publisherVars, serviceVars>>
    BY DEF WriterStep, WriteSome, WriteLast, WriterCrash, WriteTorn
<1>3. NoRowTwice' /\ \A p \in Publishers : ToCommit(p)'
    BY <1>1, <1>2 DEF NoRowTwice, ToCommit, Fresh
<1>4. \A d \in Datasets, i \in Items : committed[d][i] \in Nat
    BY <1>1 DEF TypeOK
<1>5. CASE WriterStep(r)
    <2> DEFINE new == <<r, written[r] + 1>>
    <2>1. at[r] \in 1 .. Len(WriteOrder) /\ new \in Items /\ Target(r) \in Datasets
          /\ ~Staged(r, written[r] + 1, Target(r))
        BY <1>1, <1>5, StagedStep
    <2>2. Appends(r, new)
        BY <1>5 DEF WriterStep, WriteSome, WriteLast
    <2>3. \A d \in Datasets : RowsOf(file'[d]) =
              IF d = Target(r) /\ handle[r] # "removed"
              THEN RowsOf(file[d]) \union ({new} \ {Torn}) ELSE RowsOf(file[d])
        BY <1>1, <2>1, <2>2, FilesAppended
    <2>4. \A d \in Datasets : \A i \in RowsOf(file'[d]) :
              i \in RowsOf(file[d]) \/ (i = new /\ d = Target(r))
        BY <2>3
    <2>5a. \A q \in Runs, n \in 1 .. Writes, d \in Datasets :
               Staged(q, n, d)' <=>
                   Staged(q, n, d) \/ (q = r /\ n = written[r] + 1 /\ d = Target(r))
        BY <1>1, <1>5, StagedStep
    <2>5. ASSUME NEW d \in Datasets, NEW i \in Items
          PROVE  Staged(i[1], i[2], d)' <=>
                     Staged(i[1], i[2], d) \/ (i[1] = r /\ i[2] = written[r] + 1 /\ d = Target(r))
        <3>1. i[1] \in Runs /\ i[2] \in 1 .. Writes
            BY DEF Items
        <3> QED
            BY <2>5a, <3>1
    <2>6. new[1] = r /\ new[2] = written[r] + 1
        OBVIOUS
    <2> HIDE DEF new
    <2>7. Known'
        <3> SUFFICES ASSUME NEW d \in Datasets, NEW i \in Items,
                            \/ i \in RowsOf(file'[d])
                            \/ committed'[d][i] > 0
                            \/ \E p \in Publishers : i \in batch'[p][d]
                     PROVE  Staged(i[1], i[2], d)'
            BY DEF Known
        <3>1. (i = new /\ d = Target(r)) \/ Staged(i[1], i[2], d)
            BY <1>1, <1>2, <2>4 DEF Known
        <3> QED
            BY <2>5, <2>6, <3>1
    <2>8. committed[Target(r)][new] = 0
        BY <1>1, <1>4, <2>1, <2>6 DEF Known
    <2>9. Cleared'
        <3> SUFFICES ASSUME NEW d \in Datasets,
                            ~\E p \in Publishers : pc[p] \in {"clearing", "removing"} /\ Item(p) = d
                     PROVE  RowsOf(file'[d]) \subseteq Fresh(d)
            BY <1>2 DEF Cleared, Item, Fresh
        <3>1. RowsOf(file[d]) \subseteq Fresh(d)
            BY <1>1 DEF Cleared
        <3> QED
            BY <2>1, <2>4, <2>8, <3>1 DEF Fresh
    <2> QED
        BY <1>3, <2>7, <2>9 DEF OnceInv
<1>6. CASE WriterCrash(r) \/ WriteTorn(r)
    <2>1. \A d \in Datasets : RowsOf(file'[d]) = RowsOf(file[d])
        <3>1. CASE WriteTorn(r)
            <4>1. Appends(r, Torn) /\ at[r] \in 1 .. Len(WriteOrder)
                BY <1>1, <3>1 DEF WriteTorn, Writing, TypeOK
            <4>2. \A d \in Datasets : RowsOf(file'[d]) =
                      IF d = Target(r) /\ handle[r] # "removed"
                      THEN RowsOf(file[d]) \union ({Torn} \ {Torn}) ELSE RowsOf(file[d])
                BY <1>1, <4>1, FilesAppended
            <4>3. {Torn} \ {Torn} = {}
                OBVIOUS
            <4> QED
                BY <4>2, <4>3
        <3>2. CASE WriterCrash(r)
            BY <3>2 DEF WriterCrash
        <3> QED
            BY <1>6, <3>1, <3>2
    <2>2. UNCHANGED <<at, written>>
        BY <1>6 DEF WriterCrash, WriteTorn
    <2>3. \A d \in Datasets, i \in Items : Staged(i[1], i[2], d)' <=> Staged(i[1], i[2], d)
        BY <2>2 DEF Staged, Target
    <2>4. Known'
        BY <1>1, <1>2, <2>1, <2>3 DEF Known
    <2>5. Cleared'
        BY <1>1, <1>2, <2>1 DEF Cleared, Fresh, Item
    <2> QED
        BY <1>3, <2>4, <2>5 DEF OnceInv
<1> QED
    BY <1>5, <1>6

LEMMA OnceByPublisher ==
    ASSUME ~Overlap, "publisher_crash" \notin Faults, "lost_ack" \notin Faults,
           TypeInv, OnceInv, Alone', NEW p \in Publishers, Acts(p)
    PROVE  OnceInv'
<1> USE QueueFacts
<1>1. /\ TypeOK /\ BatchOK /\ Alone /\ Known /\ Cleared /\ NoRowTwice
      /\ \A q \in Publishers : ToCommit(q)
    BY DEF TypeInv, OnceInv
<1>2. ~CommitUnanswered(p)
    BY DEF CommitUnanswered, Fault
<1>3. /\ next[p] \in 1 .. Len(Queue) /\ Item(p) \in Targets
      /\ Len(Queue) - 1 = Len(PublishOrder)
      /\ \A d \in Datasets : d \in Targets /\ d # "exclusions"
      /\ \A j \in 1 .. Len(PublishOrder) : j \in 1 .. Len(Queue) /\ Queue[j] \in Datasets
    <2>1. next[p] \in 1 .. Len(Queue)
        BY <1>1 DEF TypeOK
    <2>2. Item(p) \in Targets /\ Len(Queue) - 1 = Len(PublishOrder)
        BY <2>1 DEF Item
    <2>3. \A d \in Datasets : d \in Targets /\ d # "exclusions"
        BY OrderAssumption DEF Targets
    <2>4. \A j \in 1 .. Len(PublishOrder) : j \in 1 .. Len(Queue) /\ Queue[j] \in Datasets
        OBVIOUS
    <2> QED
        BY <2>1, <2>2, <2>3, <2>4
<1>4. \A q \in Publishers : q # p => pc[q] = "idle" /\ pc'[q] = "idle"
    BY <1>1, OthersIdle
<1>5. \A q \in Publishers : q # p => batch'[q] = batch[q] /\ Item(q)' = Item(q)
    BY <1>1, OthersKeep
<1>6. \A d \in Datasets, i \in Items : committed[d][i] \in Nat
    BY <1>1 DEF TypeOK
<1>7. \A d \in Datasets : RowsOf(file[d]) \subseteq Items
    BY <1>1, RowsAreItems DEF TypeOK

(* what a step does to the files, the commits and the batch *)
<1>8. ~Remove(p) => UNCHANGED file
    BY ActsFrame
<1>9. ~Commit(p) => UNCHANGED committed
    BY <1>2, ActsFrame
<1>10. \A d \in Datasets : RowsOf(file'[d]) =
           IF Remove(p) /\ d = Item(p) THEN {} ELSE RowsOf(file[d])
    BY <1>1, <1>8, FilesCleared
<1>11. Commit(p) => \A d \in Datasets, i \in Items : committed'[d][i] =
           IF d = Item(p) /\ i \in batch[p][d] THEN committed[d][i] + 1 ELSE committed[d][i]
    <2> SUFFICES ASSUME Commit(p), NEW d \in Datasets, NEW i \in Items
                 PROVE  committed'[d][i] = IF d = Item(p) /\ i \in batch[p][d]
                                           THEN committed[d][i] + 1 ELSE committed[d][i]
        OBVIOUS
    <2>1. Lands(p) /\ part[p] = batch[p][Item(p)]
        BY <1>1 DEF Commit, Alone
    <2>2. committed'[d][i] = IF d = Item(p) /\ Item(p) # "exclusions" /\ i \in part[p]
                             THEN committed[d][i] + 1 ELSE committed[d][i]
        BY <1>1, <2>1, CommitsRows
    <2> QED
        BY <1>3, <2>1, <2>2
<1>12. \A d \in Datasets : \/ batch'[p][d] = batch[p][d] \/ batch'[p][d] = {}
                           \/ ReadFile(p) /\ d = Item(p) /\ batch'[p][d] = RowsOf(file[d])
    <2>1. CASE ReadFile(p)
        BY <1>1, <1>3, <2>1 DEF ReadFile, TypeOK
    <2>2. CASE SnapshotExclusions(p)
        BY <1>1, <1>3, <2>2 DEF SnapshotExclusions, TypeOK
    <2>3. CASE Ends(p)
        <3>1. batch'[p] = Nothing
            BY <1>1, <2>3 DEF TypeOK, Ends
        <3> QED
            BY <1>3, <3>1 DEF Nothing
    <2>4. CASE UNCHANGED batch
        BY <2>4
    <2> QED
        BY <1>1, <2>1, <2>2, <2>3, <2>4, ActsCases DEF Start, Prepares, Commit, Removes

(* what the publisher is about to commit has not been committed *)
<1>13. Commit(p) => \A d \in Datasets : \A i \in batch[p][d] : d = Item(p) => committed[d][i] = 0
    <2> SUFFICES ASSUME Commit(p), Item(p) \in Datasets
                 PROVE  batch[p][Item(p)] \subseteq Fresh(Item(p))
        BY DEF Fresh
    <2>1. pc[p] = "committing" /\ next[p] \in next[p] .. Len(PublishOrder)
        BY <1>3 DEF Commit, Item
    <2> QED
        BY <1>1, <2>1 DEF ToCommit, Item
<1>14. NoRowTwice'
    <2> SUFFICES ASSUME NEW i \in Items, NEW d \in Datasets PROVE committed'[d][i] <= 1
        BY DEF NoRowTwice
    <2>1. committed[d][i] <= 1
        BY <1>1 DEF NoRowTwice
    <2> QED
        BY <1>6, <1>9, <1>11, <1>13, <2>1

(* only staged rows are read and committed *)
<1>15. Known'
    <2> SUFFICES ASSUME NEW d \in Datasets, NEW i \in Items,
                        \/ i \in RowsOf(file'[d])
                        \/ committed'[d][i] > 0
                        \/ \E q \in Publishers : i \in batch'[q][d]
                 PROVE  Staged(i[1], i[2], d)'
        BY DEF Known
    <2>1. UNCHANGED <<at, written>>
        BY ActsFrame
    <2>2. Staged(i[1], i[2], d)' <=> Staged(i[1], i[2], d)
        BY <2>1 DEF Staged, Target
    <2>3. i \in RowsOf(file'[d]) => i \in RowsOf(file[d])
        BY <1>10
    <2>4. committed'[d][i] > 0 => committed[d][i] > 0 \/ i \in batch[p][d]
        BY <1>6, <1>9, <1>11
    <2>5. \A q \in Publishers : i \in batch'[q][d] => i \in batch[q][d] \/ i \in RowsOf(file[d])
        BY <1>5, <1>12
    <2> QED
        BY <1>1, <2>2, <2>3, <2>4, <2>5 DEF Known

(* a file is removed before anything else happens to its dataset *)
<1>16. pc[p] \notin {"clearing", "removing"} =>
           \A d \in Datasets : RowsOf(file[d]) \subseteq Fresh(d)
    BY <1>1, <1>4 DEF Cleared
<1>17. Cleared'
    <2> SUFFICES ASSUME NEW d \in Datasets
                 PROVE  \/ RowsOf(file'[d]) \subseteq Fresh(d)'
                        \/ pc'[p] \in {"clearing", "removing"} /\ Item(p)' = d
        BY DEF Cleared
    <2>1. CASE Commit(p)
        <3>1. pc'[p] = "clearing" /\ Item(p)' = Item(p) /\ pc[p] = "committing" /\ ~Remove(p)
            BY <1>1, <2>1 DEF Commit, Remove, Item, TypeOK, Goto
        <3>2. d # Item(p) => Fresh(d)' = Fresh(d)
            BY <1>11, <2>1 DEF Fresh
        <3> QED
            BY <1>10, <1>16, <3>1, <3>2
    <2>2. ASSUME ~Commit(p), d = Item(p) => RowsOf(file'[d]) = {} \/ pc[p] \notin {"clearing", "removing"}
          PROVE  RowsOf(file'[d]) \subseteq Fresh(d)'
        <3>1. UNCHANGED committed
            BY <1>9, <2>2
        <3>2. d # Item(p) => RowsOf(file[d]) \subseteq Fresh(d)
            BY <1>1, <1>4 DEF Cleared
        <3> QED
            BY <1>10, <1>16, <2>2, <3>1, <3>2 DEF Fresh
    <2>3. CASE Clear(p)
        <3>1. file[Item(p)] # <<>> =>
                  pc'[p] = "removing" /\ Item(p)' = Item(p)
            BY <1>1, <2>3 DEF Clear, Goto, Item, TypeOK
        <3>2. ~Commit(p) /\ UNCHANGED file
            BY <2>3 DEF Clear, Commit
        <3> QED
            BY <2>2, <3>1, <3>2, RowsAreItems
    <2>4. CASE Remove(p)
        <3>1. ~Commit(p)
            BY <2>4 DEF Remove, Commit
        <3> QED
            BY <1>10, <2>2, <2>4, <3>1
    <2>5. CASE ~Commit(p) /\ ~Clear(p) /\ ~Remove(p)
        <3>1. pc[p] \in {"clearing", "removing"} => Item(p) = "exclusions"
            BY <1>2, <2>5 DEF Acts, PublisherStep, Start, ReadFile, ReadRaises, SnapshotExclusions,
                   Skip, OpenTmp, WriteTmp, Convert, OpenParquet, WriteParquet, Upload, Inspect,
                   Flagged, Finish, CommitRejected, PublisherCrash, Fault
        <3> QED
            BY <1>3, <2>2, <2>5, <3>1
    <2> QED
        BY <2>1, <2>3, <2>4, <2>5

(* the batch ahead of the queue is still to commit *)
<1>18. ToCommit(p)'
    <2>1. ToCommit(p)
        BY <1>1
    <2>2. CASE Ends(p)
        <3>1. pc'[p] = "idle"
            BY <1>1, <2>2 DEF Ends, TypeOK
        <3> QED
            BY <3>1 DEF ToCommit
    <2>3. CASE Start(p)
        <3>1. pc'[p] = "reading" /\ next'[p] = 1
            BY <1>1, <2>3 DEF Start, TypeOK, BatchOK, Goto
        <3>2. \A j \in 1 .. next'[p] - 1 : FALSE
            BY <3>1
        <3> QED
            BY <3>1, <3>2 DEF ToCommit
    <2>4. CASE ReadFile(p)
        <3>1. /\ pc'[p] = "reading" /\ pc[p] = "reading" /\ next'[p] = next[p] + 1
              /\ UNCHANGED committed
            BY <1>1, <2>4 DEF ReadFile, TypeOK, serviceVars
        <3>2. \A d \in Datasets : d # Item(p) => batch'[p][d] = batch[p][d]
            BY <1>1, <1>3, <2>4 DEF ReadFile, TypeOK
        <3>3. \A d \in Datasets : RowsOf(file[d]) \subseteq Fresh(d)
            BY <1>16, <3>1
        <3>4. batch'[p][Item(p)] \subseteq Fresh(Item(p))
            BY <1>1, <1>3, <2>4, <3>3 DEF ReadFile, TypeOK
        <3>5. ASSUME NEW j \in 1 .. next[p] PROVE batch'[p][Queue[j]] \subseteq Fresh(Queue[j])
            <4>1. Queue[j] \in Datasets
                BY <1>3, <2>4 DEF ReadFile, Item
            <4>2. j = next[p] \/ (j \in 1 .. next[p] - 1 /\ Queue[j] # Item(p))
                BY <1>3 DEF Item
            <4> QED
                BY <2>1, <3>1, <3>2, <3>4, <4>1, <4>2 DEF Item, ToCommit
        <3>6. next'[p] - 1 = next[p] /\ \A j \in 1 .. next[p] : Fresh(Queue[j])' = Fresh(Queue[j])
            BY <1>3, <3>1 DEF Fresh
        <3> QED
            BY <3>1, <3>5, <3>6 DEF ToCommit
    <2>5. CASE SnapshotExclusions(p)
        <3>1. /\ pc'[p] = "staging" /\ next'[p] = 1 /\ pc[p] = "reading" /\ UNCHANGED committed
            BY <1>1, <2>5 DEF SnapshotExclusions, TypeOK, Goto, serviceVars
        <3>2. \A d \in Datasets : batch'[p][d] = batch[p][d]
            BY <1>1, <1>3, <2>5 DEF SnapshotExclusions, TypeOK
        <3>3. next[p] - 1 = Len(PublishOrder)
            BY <1>3, <2>5 DEF SnapshotExclusions, Item
        <3>4. \A j \in 1 .. Len(PublishOrder) :
                  batch'[p][Queue[j]] \subseteq Fresh(Queue[j]) /\ Fresh(Queue[j])' = Fresh(Queue[j])
            BY <1>3, <2>1, <3>1, <3>2, <3>3 DEF ToCommit, Fresh
        <3> QED
            BY <3>1, <3>4 DEF ToCommit
    <2>6. ASSUME UNCHANGED <<batch, committed>>, pc[p] \notin {"idle", "reading"},
                 pc'[p] \notin {"idle", "reading"},
                 \/ next'[p] = next[p] /\ (pc[p] \in {"clearing", "removing"} =>
                                              pc'[p] \in {"clearing", "removing"})
                 \/ next'[p] = next[p] + 1
          PROVE  ToCommit(p)'
        <3>1. \A j \in next'[p] .. Len(PublishOrder) :
                  (pc'[p] \in {"clearing", "removing"} => j > next'[p]) =>
                      /\ j \in next[p] .. Len(PublishOrder)
                      /\ pc[p] \in {"clearing", "removing"} => j > next[p]
            BY <1>3, <2>6
        <3>2. \A j \in next'[p] .. Len(PublishOrder) :
                  (pc'[p] \in {"clearing", "removing"} => j > next'[p]) =>
                      batch[p][Queue[j]] \subseteq Fresh(Queue[j])
            BY <2>1, <2>6, <3>1 DEF ToCommit
        <3> QED
            BY <2>6, <3>2 DEF ToCommit, Fresh
    <2>7. CASE Prepares(p)
        BY <2>6, <2>7 DEF Prepares, Preparing
    <2>8. CASE Removes(p)
        BY <2>6, <2>8 DEF Removes, Clear, Remove, serviceVars
    <2>9. CASE Commit(p)
        <3>1. pc'[p] = "clearing" /\ UNCHANGED <<next, batch>> /\ pc[p] = "committing"
            BY <1>1, <2>9 DEF Commit, TypeOK, Goto
        <3>2. ASSUME NEW j \in next[p] .. Len(PublishOrder), j > next[p]
              PROVE  batch[p][Queue[j]] \subseteq Fresh(Queue[j])'
            <4>1. batch[p][Queue[j]] \subseteq Fresh(Queue[j])
                BY <2>1, <3>1 DEF ToCommit
            <4>2. Queue[j] \in Datasets /\ Queue[j] # Item(p)
                BY <1>3, <3>2 DEF Item
            <4>3. \A i \in Items : committed'[Queue[j]][i] = committed[Queue[j]][i]
                BY <1>11, <2>9, <4>2
            <4> QED
                BY <4>1, <4>3 DEF Fresh
        <3> QED
            BY <3>1, <3>2 DEF ToCommit
    <2> QED
        BY <1>1, <2>2, <2>3, <2>4, <2>5, <2>7, <2>8, <2>9, ActsCases
<1>19. \A q \in Publishers : q # p => ToCommit(q)'
    BY <1>4 DEF ToCommit
<1> QED
    BY <1>14, <1>15, <1>17, <1>18, <1>19 DEF OnceInv

(* No row is committed twice when one publish runs at a time and none dies *)
(* between a commit and the removal of its file, or loses the answer to a  *)
(* commit: whatever is flagged, rejected or torn, and though runs stage    *)
(* rows at any moment.                                                     *)
THEOREM Once ==
    ASSUME ~Overlap, "publisher_crash" \notin Faults, "lost_ack" \notin Faults
    PROVE  Spec => []NoRowTwice
<1>1. Init => TypeInv /\ OnceInv
    BY TypeInit, OnceInit
<1>2. TypeInv /\ OnceInv /\ [Next]_vars => TypeInv' /\ OnceInv'
    <2> SUFFICES ASSUME TypeInv, OnceInv, [Next]_vars PROVE TypeInv' /\ OnceInv'
        OBVIOUS
    <2>1. TypeInv'
        BY TypeStep
    <2>2. Alone'
        BY AloneStep DEF OnceInv
    <2>3. ASSUME UNCHANGED <<file, writerVars, publisherVars, serviceVars>> PROVE OnceInv'
        <3> USE <2>3 DEF writerVars, publisherVars, serviceVars, OnceInv
        <3>1. Known'
            BY DEF Known, Staged, Target
        <3>2. ASSUME NEW p \in Publishers PROVE ToCommit(p)'
            BY DEF ToCommit, Fresh
        <3>3. Cleared' /\ NoRowTwice'
            BY DEF Cleared, Fresh, Item, NoRowTwice
        <3> QED
            BY <2>2, <3>1, <3>2, <3>3
    <2>4. UNCHANGED vars \/ RegisterChanges =>
              UNCHANGED <<file, writerVars, publisherVars, serviceVars>>
        BY DEF vars, RegisterChanges
    <2> QED
        BY <2>1, <2>2, <2>3, <2>4, OnceByWriter, OnceByPublisher DEF Next, Acts
<1>3. OnceInv => NoRowTwice
    BY DEF OnceInv
<1> QED
    BY <1>1, <1>2, <1>3, PTL DEF Spec

-----------------------------------------------------------------------------
(* The snapshot of an active publisher is no older than what is published. *)
NewerInv ==
    /\ Alone
    /\ published <= register
    /\ \A p \in Publishers :
           pc[p] \notin {"idle", "reading"} /\ ~(pc[p] = "clearing" /\ Item(p) = "exclusions") =>
               \A c \in batch[p]["exclusions"] : c[2] >= published

LEMMA NewerInit == Init => NewerInv
BY AloneInit DEF Init, NewerInv

LEMMA NewerStep ==
    ASSUME ~Overlap, TypeInv, NewerInv, Alone', [Next]_vars
    PROVE  NewerInv' /\ published' >= published
<1> USE QueueFacts, ParameterAssumption
<1> USE DEF writerVars, publisherVars, serviceVars, Goto, Ends
<1>1. TypeOK /\ BatchOK /\ Alone /\ published <= register /\ published \in Nat /\ register \in Nat
    BY DEF TypeInv, NewerInv, TypeOK
<1>2. ASSUME UNCHANGED <<publisherVars, published>>,
             register' = register \/ register' = register + 1
      PROVE  NewerInv' /\ published' >= published
    <2>1. published' <= register' /\ published' >= published
        BY <1>1, <1>2
    <2> QED
        BY <1>2, <2>1 DEF NewerInv, Item
<1>3. UNCHANGED vars \/ RegisterChanges
          \/ (\E r \in Runs : WriterStep(r) \/ WriterCrash(r) \/ WriteTorn(r))
      => UNCHANGED <<publisherVars, published>> /\ (register' = register \/ register' = register + 1)
    BY DEF vars, RegisterChanges, WriterStep, WriteSome, WriteLast, WriterCrash, WriteTorn
<1>4. ASSUME NEW p \in Publishers, Acts(p)
      PROVE  NewerInv' /\ published' >= published
    <2>1. \A q \in Publishers : q # p => pc'[q] = "idle"
        BY <1>1, <1>4, OthersIdle
    <2>2. UNCHANGED register
        BY <1>4, ActsFrame
    <2>3. published' >= published /\ published' <= register /\ published' \in Nat
        <3>1. CASE Lands(p) /\ pc[p] = "committing" /\ Item(p) = "exclusions"
            <4>1. PICK c \in part[p] : published' = c[2]
                BY <3>1 DEF Lands
            <4>2. c \in batch[p]["exclusions"] /\ c \in Snapshots
                BY <1>1, <3>1, <4>1 DEF Alone, BatchOK
            <4>3. c[2] >= published
                BY <3>1, <4>2 DEF NewerInv
            <4>4. c[2] \in 0 .. register
                BY <4>2 DEF Snapshots
            <4> QED
                BY <1>1, <4>1, <4>3, <4>4
        <3>2. CASE UNCHANGED published
            BY <1>1, <3>2
        <3>3. (Lands(p) /\ pc[p] = "committing" /\ Item(p) = "exclusions") \/ UNCHANGED published
            BY <1>4, ActsFrame DEF Lands
        <3> QED
            BY <3>1, <3>2, <3>3
    <2>4. ASSUME pc'[p] \notin {"idle", "reading"},
                 ~(pc'[p] = "clearing" /\ Item(p)' = "exclusions"),
                 NEW c \in batch'[p]["exclusions"]
          PROVE  c[2] >= published'
        <3>1. CASE SnapshotExclusions(p)
            <4>1. batch'[p]["exclusions"] = {<<"register", register>>} /\ published' = published
                BY <1>1, <3>1 DEF SnapshotExclusions, TypeOK, Targets
            <4> QED
                BY <1>1, <2>4, <4>1
        <3>2. CASE Prepares(p)
            BY <2>4, <3>2 DEF Prepares, Preparing, NewerInv
        <3>3. CASE Removes(p)
            <4>1. /\ UNCHANGED <<batch, published>>
                  /\ \/ pc[p] = "removing"
                     \/ pc[p] = "clearing" /\ Item(p) # "exclusions"
                BY <3>3, OrderAssumption DEF Removes, Clear, Remove, serviceVars
            <4> QED
                BY <2>4, <4>1 DEF NewerInv
        <3>4. CASE Commit(p)
            <4>1. pc'[p] = "clearing" /\ Item(p)' = Item(p) /\ pc[p] = "committing"
                  /\ UNCHANGED batch
                BY <1>1, <3>4 DEF Commit, Item, TypeOK
            <4>2. UNCHANGED published
                BY <2>4, <3>4, <4>1 DEF Commit, Lands
            <4> QED
                BY <2>4, <4>1, <4>2 DEF NewerInv
        <3>5. Start(p) \/ ReadFile(p) \/ Ends(p) => pc'[p] \in {"idle", "reading"}
            BY <1>1 DEF Start, ReadFile, TypeOK
        <3> QED
            BY <1>1, <1>4, <2>4, <3>1, <3>2, <3>3, <3>4, <3>5, ActsCases
    <2> QED
        BY <2>1, <2>2, <2>3, <2>4 DEF NewerInv
<1> QED
    BY <1>2, <1>3, <1>4 DEF Next, Acts

(* With one publish at a time the published exclusions never go back to an *)
(* older generation of the register, after any failure.                    *)
THEOREM NeverRevert == ASSUME ~Overlap PROVE Spec => ExclusionsNeverRevert
<1>1. Init => TypeInv /\ NewerInv
    BY TypeInit, NewerInit
<1>2. TypeInv /\ NewerInv /\ [Next]_vars =>
          TypeInv' /\ NewerInv' /\ [published' >= published]_vars
    <2> SUFFICES ASSUME TypeInv, NewerInv, [Next]_vars
                 PROVE  TypeInv' /\ NewerInv' /\ published' >= published
        OBVIOUS
    <2>1. Alone'
        BY AloneStep DEF NewerInv
    <2> QED
        BY <2>1, TypeStep, NewerStep
<1> QED
    BY <1>1, <1>2, PTL DEF Spec, ExclusionsNeverRevert
=============================================================================
