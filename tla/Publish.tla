------------------------------ MODULE Publish ------------------------------
(***************************************************************************)
(* From a finished run to the published datasets: scan and refresh append  *)
(* their rows to one pending file per dataset (_write_pending_outcome,     *)
(* append_ndjson), and an hourly publish reads the pending files, commits  *)
(* the datasets one after the other to the Upload Service and removes each *)
(* file as its dataset lands (cmd_publish, publish_hour, clear_pending).   *)
(* All of them are separate processes that share the directory; cron gives *)
(* the publisher no lock.                                                  *)
(*                                                                         *)
(* Python hands a batch to the kernel in several writes, each of whole     *)
(* lines, so that the batches of two runs may interleave but a line is cut *)
(* only where the disk is full.  One write is one item here.               *)
(*                                                                         *)
(* A publish copies each dataset to an NDJSON file in tmp_dir, converts it *)
(* to a Parquet file beside it and uploads that.  Both have the dataset's  *)
(* name, so publishes that overlap share them: each cuts them to nothing   *)
(* when it opens them, whatever another is doing with them.                *)
(*                                                                         *)
(* A definition named Mut... is no part of the model: it is the definition *)
(* after it with a plausible bug, which the properties must notice.        *)
(***************************************************************************)
EXTENDS Naturals, Sequences

CONSTANTS
    Runs,             \* the finished runs that have rows to stage
    Publishers,       \* invocations of publish that may be in flight
    WriteOrder,       \* the datasets in the order PublishBatch.datasets() has
    PublishOrder,     \* the same in the order of sorted(os.listdir())
    Poison,           \* datasets the Upload Service flags at inspect()
    Writes,           \* the writes a batch takes
    Apart,            \* staging and publishing are never in progress at once
    Overlap,          \* publish may start while another is in flight
    Faults,           \* the faults that may happen: a subset of FaultKinds
    MaxFaults,        \* bound: faults in a behaviour
    MaxRegister       \* bound: changes of the exclusion register

FaultKinds == {"publisher_crash", "writer_crash", "disk_full", "rejection", "lost_ack"}
Datasets == {WriteOrder[i] : i \in DOMAIN WriteOrder}
Targets == Datasets \union {"exclusions"}
Queue == Append(PublishOrder, "exclusions")
Items == Runs \X (1 .. Writes)
Torn == <<"torn", 0>>

ASSUME OrderAssumption ==
    /\ WriteOrder \in Seq(Datasets) /\ PublishOrder \in Seq(Datasets)
    /\ Len(WriteOrder) = Len(PublishOrder)
    /\ Datasets = {PublishOrder[i] : i \in DOMAIN PublishOrder}
    /\ \A i, j \in DOMAIN PublishOrder : PublishOrder[i] = PublishOrder[j] => i = j
    /\ \A i, j \in DOMAIN WriteOrder : WriteOrder[i] = WriteOrder[j] => i = j
    /\ "exclusions" \notin Datasets /\ Poison \subseteq Targets
ASSUME ParameterAssumption ==
    /\ {Apart, Overlap} \subseteq BOOLEAN /\ Writes \in Nat \ {0}
    /\ Faults \subseteq FaultKinds /\ MaxFaults \in Nat /\ MaxRegister \in Nat

VARIABLES
    file,        \* the pending file of each dataset
    at,          \* per run: which dataset of WriteOrder it writes next
    written,     \* per run: the writes of the batch it is in that are done
    handle,      \* per run: its pending file is "closed", or open and "linked"
                 \* or "removed", or the run has "crashed"
    pc, next,    \* per publisher: its step, and which dataset of Queue is next
    batch,       \* per publisher: the rows it has read
    listed,      \* per publisher: the pending files that it found
    part,        \* per publisher: the rows of the dataset in hand that it has
                 \* written to tmp_dir, then converted, then uploaded
    tmp,         \* each dataset's NDJSON file in the shared tmp_dir
    parquet,     \* its Parquet file there; {} if it is missing, cut or spoilt
    committed,   \* how often each run's batch was committed to each dataset
    register,    \* the generation of the exclusion register
    published,   \* the generation of the published exclusions
    faults

writerVars == <<at, written, handle>>
publisherVars == <<pc, next, batch, listed, part, tmp, parquet>>
serviceVars == <<committed, published>>
vars == <<file, writerVars, publisherVars, serviceVars, register, faults>>

Steps == {"idle", "reading", "staging", "writing", "saving", "storing", "uploading",
          "inspecting", "committing", "clearing", "removing"}
Contents == Items \union ({"register"} \X (0 .. MaxRegister))

TypeOK ==
    /\ file \in [Datasets -> Seq(Items \union {Torn})]
    /\ at \in [Runs -> 1 .. Len(WriteOrder) + 1]
    /\ written \in [Runs -> 0 .. Writes - 1]
    /\ handle \in [Runs -> {"closed", "linked", "removed", "crashed"}]
    /\ pc \in [Publishers -> Steps]
    /\ next \in [Publishers -> 1 .. Len(Queue)]
    /\ batch \in [Publishers -> [Targets -> SUBSET Contents]]
    /\ listed \in [Publishers -> SUBSET Datasets]
    /\ part \in [Publishers -> SUBSET Contents]
    /\ tmp \in [Targets -> SUBSET (Contents \union {Torn})]
    /\ parquet \in [Targets -> SUBSET Contents]
    /\ committed \in [Datasets -> [Items -> Nat]]
    /\ register \in 0 .. MaxRegister
    /\ published \in 0 .. MaxRegister
    /\ faults \in 0 .. MaxFaults

Nothing == [d \in Targets |-> {}]

Init ==
    /\ file = [d \in Datasets |-> <<>>]
    /\ at = [r \in Runs |-> 1]
    /\ written = [r \in Runs |-> 0]
    /\ handle = [r \in Runs |-> "closed"]
    /\ pc = [p \in Publishers |-> "idle"]
    /\ next = [p \in Publishers |-> 1]
    /\ batch = [p \in Publishers |-> Nothing]
    /\ listed = [p \in Publishers |-> {}]
    /\ part = [p \in Publishers |-> {}]
    /\ tmp = Nothing /\ parquet = Nothing
    /\ committed = [d \in Datasets |-> [i \in Items |-> 0]]
    /\ register = 0 /\ published = 0
    /\ faults = 0

Fault(kind) ==
    /\ kind \in Faults /\ faults < MaxFaults
    /\ faults' = faults + 1

-----------------------------------------------------------------------------
(* A run stages its rows, one dataset after the other. *)

Writing(r) == at[r] <= Len(WriteOrder) /\ handle[r] # "crashed"
MayWrite == Apart => \A p \in Publishers : pc[p] = "idle"
Target(r) == WriteOrder[at[r]]

(* What is written to a removed file is gone. *)
Appends(r, item) ==
    file' = IF handle[r] = "removed" THEN file
            ELSE [file EXCEPT ![Target(r)] = Append(@, item)]

(* one write too many *)
MutWriteMore(r) ==
    /\ Writing(r) /\ MayWrite /\ written[r] < Writes
    /\ Appends(r, <<r, written[r] + 1>>)
    /\ written' = [written EXCEPT ![r] = @ + 1]
    /\ handle' = [handle EXCEPT ![r] = IF @ = "closed" THEN "linked" ELSE @]
    /\ UNCHANGED <<at, publisherVars, serviceVars, register, faults>>

WriteSome(r) ==
    /\ Writing(r) /\ MayWrite /\ written[r] + 1 < Writes
    /\ Appends(r, <<r, written[r] + 1>>)
    /\ written' = [written EXCEPT ![r] = @ + 1]
    /\ handle' = [handle EXCEPT ![r] = IF @ = "closed" THEN "linked" ELSE @]
    /\ UNCHANGED <<at, publisherVars, serviceVars, register, faults>>

(* The last write of the batch: the file is closed. *)
WriteLast(r) ==
    /\ Writing(r) /\ MayWrite /\ written[r] + 1 = Writes
    /\ Appends(r, <<r, written[r] + 1>>)
    /\ at' = [at EXCEPT ![r] = @ + 1]
    /\ written' = [written EXCEPT ![r] = 0]
    /\ handle' = [handle EXCEPT ![r] = "closed"]
    /\ UNCHANGED <<publisherVars, serviceVars, register, faults>>

(* The disk is full in the middle of a line: the write raises. *)
WriteTorn(r) ==
    /\ Fault("disk_full")
    /\ Writing(r) /\ MayWrite
    /\ Appends(r, Torn)
    /\ handle' = [handle EXCEPT ![r] = "crashed"]
    /\ UNCHANGED <<at, written, publisherVars, serviceVars, register>>

WriterCrash(r) ==
    /\ Fault("writer_crash")
    /\ Writing(r)
    /\ handle' = [handle EXCEPT ![r] = "crashed"]
    /\ UNCHANGED <<file, at, written, publisherVars, serviceVars, register>>

-----------------------------------------------------------------------------
(* One publish. *)

Goto(p, s) == pc' = [pc EXCEPT ![p] = s]
Item(p) == Queue[next[p]]

(* The process ends, whatever its exit code. *)
Ends(p) ==
    /\ pc' = [pc EXCEPT ![p] = "idle"]
    /\ next' = [next EXCEPT ![p] = 1]
    /\ batch' = [batch EXCEPT ![p] = Nothing]
    /\ listed' = [listed EXCEPT ![p] = {}]
    /\ part' = [part EXCEPT ![p] = {}]

(* The directory is listed before any of its files is opened. *)
Start(p) ==
    /\ pc[p] = "idle"
    /\ Overlap \/ \A q \in Publishers : pc[q] = "idle"
    /\ Apart => \A r \in Runs : handle[r] # "linked"
    /\ listed' = [listed EXCEPT ![p] = {d \in Datasets : file[d] # <<>>}]
    /\ Goto(p, "reading")
    /\ UNCHANGED <<file, writerVars, next, batch, part, tmp, parquet, serviceVars,
                   register, faults>>

RowsOf(f) == {f[i] : i \in DOMAIN f} \ {Torn}
Parses(f) == \A i \in DOMAIN f : f[i] # Torn

(* A listed file may have been removed since, and does not open. *)
Reads(p) == Item(p) \in listed[p] => file[Item(p)] # <<>> /\ Parses(file[Item(p)])

ReadFile(p) ==
    /\ pc[p] = "reading" /\ Item(p) \in Datasets
    /\ Reads(p)
    /\ batch' = [batch EXCEPT ![p][Item(p)] =
           IF Item(p) \in listed[p] THEN RowsOf(file[Item(p)]) ELSE {}]
    /\ next' = [next EXCEPT ![p] = @ + 1]
    /\ UNCHANGED <<file, writerVars, pc, listed, part, tmp, parquet, serviceVars,
                   register, faults>>

(* open or json.loads raises, and nothing catches it. *)
ReadRaises(p) ==
    /\ pc[p] = "reading" /\ Item(p) \in Datasets
    /\ ~Reads(p)
    /\ Ends(p)
    /\ UNCHANGED <<file, writerVars, tmp, parquet, serviceVars, register, faults>>

(* with nothing pending there is nothing to publish *)
MutIdleHour(p) ==
    /\ pc[p] = "reading" /\ Item(p) = "exclusions"
    /\ IF \A d \in Datasets : batch[p][d] = {}
       THEN Ends(p)
       ELSE /\ batch' = [batch EXCEPT ![p]["exclusions"] = {<<"register", register>>}]
            /\ next' = [next EXCEPT ![p] = 1]
            /\ Goto(p, "staging")
            /\ UNCHANGED <<listed, part>>
    /\ UNCHANGED <<file, writerVars, tmp, parquet, serviceVars, register, faults>>

(* The exclusions are read from the register after the pending files. *)
SnapshotExclusions(p) ==
    /\ pc[p] = "reading" /\ Item(p) = "exclusions"
    /\ batch' = [batch EXCEPT ![p]["exclusions"] = {<<"register", register>>}]
    /\ next' = [next EXCEPT ![p] = 1]
    /\ Goto(p, "staging")
    /\ UNCHANGED <<file, writerVars, listed, part, tmp, parquet, serviceVars,
                   register, faults>>

Skip(p) ==
    /\ pc[p] = "staging" /\ batch[p][Item(p)] = {}
    /\ next' = [next EXCEPT ![p] = @ + 1]
    /\ UNCHANGED <<file, writerVars, pc, batch, listed, part, tmp, parquet, serviceVars,
                   register, faults>>

(* the file in tmp_dir is opened to append *)
MutOpenAppends(p) ==
    /\ pc[p] = "staging" /\ batch[p][Item(p)] # {}
    /\ part' = [part EXCEPT ![p] = tmp[Item(p)]]
    /\ Goto(p, "writing")
    /\ UNCHANGED <<file, writerVars, next, batch, listed, tmp, parquet, serviceVars,
                   register, faults>>

(* write_ndjson: open(path, "w") cuts the file, ... *)
OpenTmp(p) ==
    /\ pc[p] = "staging" /\ batch[p][Item(p)] # {}
    /\ tmp' = [tmp EXCEPT ![Item(p)] = {}]
    /\ part' = [part EXCEPT ![p] = {}]
    /\ Goto(p, "writing")
    /\ UNCHANGED <<file, writerVars, next, batch, listed, parquet, serviceVars,
                   register, faults>>

(* ... the buffer goes to it in several writes, the last as it is closed.  *)
(* A write goes behind the publisher's own last one: if another publisher  *)
(* has cut the file since, or filled it with other rows, it is spoilt.     *)
WriteTmp(p) ==
    /\ pc[p] = "writing"
    /\ \E i \in batch[p][Item(p)] \ part[p] :
        /\ part' = [part EXCEPT ![p] = @ \union {i}]
        /\ tmp' = [tmp EXCEPT ![Item(p)] =
               IF part[p] \subseteq @ /\ @ \subseteq part[p] \union batch[p][Item(p)]
               THEN @ \union {i} ELSE @ \union {i, Torn}]
    /\ UNCHANGED <<file, writerVars, pc, next, batch, listed, parquet, serviceVars,
                   register, faults>>

(* read_jsonl opens the file again.  What it finds there is the morsel; an *)
(* empty file gives none, and like a spoilt one ends the process.          *)
Convert(p) ==
    /\ pc[p] = "writing" /\ batch[p][Item(p)] \subseteq part[p]
    /\ IF tmp[Item(p)] # {} /\ Torn \notin tmp[Item(p)]
       THEN /\ part' = [part EXCEPT ![p] = tmp[Item(p)]]
            /\ Goto(p, "saving")
            /\ UNCHANGED <<next, batch, listed>>
       ELSE Ends(p)
    /\ UNCHANGED <<file, writerVars, tmp, parquet, serviceVars, register, faults>>

(* open(parquet_path, "wb") cuts the Parquet file, ... *)
OpenParquet(p) ==
    /\ pc[p] = "saving"
    /\ parquet' = [parquet EXCEPT ![Item(p)] = {}]
    /\ Goto(p, "storing")
    /\ UNCHANGED <<file, writerVars, next, batch, listed, part, tmp, serviceVars,
                   register, faults>>

(* ... and one write fills it.  Two files in one place are no Parquet.     *)
WriteParquet(p) ==
    /\ pc[p] = "storing"
    /\ parquet' = [parquet EXCEPT ![Item(p)] = IF @ \in {{}, part[p]} THEN part[p] ELSE {}]
    /\ Goto(p, "uploading")
    /\ UNCHANGED <<file, writerVars, next, batch, listed, part, tmp, serviceVars,
                   register, faults>>

(* an uploaded dataset is taken for a committed one *)
MutClearUploaded(p) ==
    /\ pc[p] = "uploading"
    /\ part' = [part EXCEPT ![p] = parquet[Item(p)]]
    /\ Goto(p, "inspecting")
    /\ file' = [d \in Datasets |-> IF d = Item(p) THEN <<>> ELSE file[d]]
    /\ UNCHANGED <<writerVars, next, batch, listed, tmp, parquet, serviceVars,
                   register, faults>>

(* What is uploaded is what the Parquet file in tmp_dir holds. *)
Upload(p) ==
    /\ pc[p] = "uploading"
    /\ part' = [part EXCEPT ![p] = parquet[Item(p)]]
    /\ Goto(p, "inspecting")
    /\ UNCHANGED <<file, writerVars, next, batch, listed, tmp, parquet, serviceVars,
                   register, faults>>

(* What is no Parquet file is flagged, and so is a dataset in Poison. *)
Passes(p) == Item(p) \notin Poison /\ part[p] # {}

Inspect(p) ==
    /\ pc[p] = "inspecting" /\ Passes(p)
    /\ Goto(p, "committing")
    /\ UNCHANGED <<file, writerVars, next, batch, listed, part, tmp, parquet, serviceVars,
                   register, faults>>

(* PublishError: the rest of the queue is not attempted. *)
Flagged(p) ==
    /\ pc[p] = "inspecting" /\ ~Passes(p)
    /\ Ends(p)
    /\ UNCHANGED <<file, writerVars, tmp, parquet, serviceVars, register, faults>>

(* APPEND for the rows of runs, OVERWRITE for the exclusions. *)
Lands(p) ==
    IF Item(p) = "exclusions"
    THEN /\ \E c \in part[p] : published' = c[2]
         /\ UNCHANGED committed
    ELSE /\ committed' = [committed EXCEPT ![Item(p)] =
                [i \in Items |-> IF i \in part[p] THEN @[i] + 1 ELSE @[i]]]
         /\ UNCHANGED published

Commit(p) ==
    /\ pc[p] = "committing"
    /\ Lands(p)
    /\ Goto(p, "clearing")
    /\ UNCHANGED <<file, writerVars, next, batch, listed, part, tmp, parquet,
                   register, faults>>

(* the pending file goes even if the commit failed *)
MutClearRejected(p) ==
    /\ Fault("rejection")
    /\ pc[p] = "committing"
    /\ Ends(p)
    /\ file' = [d \in Datasets |-> IF d = Item(p) THEN <<>> ELSE file[d]]
    /\ UNCHANGED <<writerVars, tmp, parquet, serviceVars, register>>

(* UploadClientError: the commit had no effect... *)
CommitRejected(p) ==
    /\ Fault("rejection")
    /\ pc[p] = "committing"
    /\ Ends(p)
    /\ UNCHANGED <<file, writerVars, tmp, parquet, serviceVars, register>>

(* ... or it had, and only its answer was lost. *)
CommitUnanswered(p) ==
    /\ Fault("lost_ack")
    /\ pc[p] = "committing"
    /\ Lands(p)
    /\ Ends(p)
    /\ UNCHANGED <<file, writerVars, tmp, parquet, register>>

NextDataset(p) ==
    /\ next' = [next EXCEPT ![p] = @ + 1]
    /\ Goto(p, "staging")
    /\ UNCHANGED <<batch, listed, part>>

(* on_commit, clear_pending: is the file there? *)
Clear(p) ==
    /\ pc[p] = "clearing" /\ Item(p) \in Datasets
    /\ IF file[Item(p)] # <<>>
       THEN Goto(p, "removing") /\ UNCHANGED <<next, batch, listed, part>>
       ELSE NextDataset(p)
    /\ UNCHANGED <<file, writerVars, tmp, parquet, serviceVars, register, faults>>

(* the files wait for the whole batch to land *)
MutKeepFile(p) ==
    /\ pc[p] = "removing"
    /\ NextDataset(p)
    /\ UNCHANGED <<file, writerVars, tmp, parquet, serviceVars, register, faults>>

(* It is removed as it is now, under any open handle.  If another publish  *)
(* has removed it first, os.remove raises and nothing catches it.          *)
Remove(p) ==
    /\ pc[p] = "removing"
    /\ file' = [file EXCEPT ![Item(p)] = <<>>]
    /\ handle' = [r \in Runs |->
           IF handle[r] = "linked" /\ Target(r) = Item(p) THEN "removed" ELSE handle[r]]
    /\ IF file[Item(p)] # <<>> THEN NextDataset(p) ELSE Ends(p)
    /\ UNCHANGED <<at, written, tmp, parquet, serviceVars, register, faults>>

(* The exclusions have no pending file, and they are the last. *)
Finish(p) ==
    /\ pc[p] = "clearing" /\ Item(p) = "exclusions"
    /\ Ends(p)
    /\ UNCHANGED <<file, writerVars, tmp, parquet, serviceVars, register, faults>>

(* The process is killed, or an error nothing catches ends it. *)
PublisherCrash(p) ==
    /\ Fault("publisher_crash")
    /\ pc[p] # "idle"
    /\ Ends(p)
    /\ UNCHANGED <<file, writerVars, tmp, parquet, serviceVars, register>>

-----------------------------------------------------------------------------
(* An opt-out is submitted or withdrawn. *)
RegisterChanges ==
    /\ register < MaxRegister
    /\ register' = register + 1
    /\ UNCHANGED <<file, writerVars, publisherVars, serviceVars, faults>>

WriterStep(r) == WriteSome(r) \/ WriteLast(r)

PublisherStep(p) ==
    \/ Start(p) \/ ReadFile(p) \/ ReadRaises(p) \/ SnapshotExclusions(p)
    \/ Skip(p) \/ OpenTmp(p) \/ WriteTmp(p) \/ Convert(p) \/ OpenParquet(p)
    \/ WriteParquet(p) \/ Upload(p) \/ Inspect(p) \/ Flagged(p)
    \/ Commit(p) \/ Clear(p) \/ Remove(p) \/ Finish(p)

Next ==
    \/ \E r \in Runs : WriterStep(r) \/ WriterCrash(r) \/ WriteTorn(r)
    \/ \E p \in Publishers :
           PublisherStep(p) \/ CommitRejected(p) \/ CommitUnanswered(p) \/ PublisherCrash(p)
    \/ RegisterChanges

(* cron starts publish every hour and its process runs; so do the runs'.   *)
Fairness ==
    /\ \A r \in Runs : SF_vars(WriterStep(r))
    /\ \A p \in Publishers : WF_vars(PublisherStep(p))

Spec == Init /\ [][Next]_vars /\ Fairness

-----------------------------------------------------------------------------
(* Properties. *)

(* The n-th write of run r to dataset d has been made. *)
Staged(r, n, d) ==
    \/ \E i \in 1 .. at[r] - 1 : WriteOrder[i] = d
    \/ at[r] <= Len(WriteOrder) /\ Target(r) = d /\ n <= written[r]

(* A failed batch holds its files: rows that were staged are still in the  *)
(* pending file or have been committed, after any failure of a publish at  *)
(* any of its steps.                                                       *)
NoRowDropped ==
    \A r \in Runs, n \in 1 .. Writes, d \in Datasets :
        Staged(r, n, d) => <<r, n>> \in RowsOf(file[d]) \/ committed[d][<<r, n>>] > 0

(* A dataset that has been committed is not sent again by a later cycle,   *)
(* though a dataset after it failed.                                       *)
NoRowTwice == \A i \in Items, d \in Datasets : committed[d][i] <= 1

(* The published exclusions never go back to an older generation.          *)
ExclusionsNeverRevert == [][published' >= published]_vars

(* Every staged row is committed in the end.                               *)
RowsArrive ==
    \A r \in Runs, n \in 1 .. Writes, d \in Datasets :
        Staged(r, n, d) ~> committed[d][<<r, n>>] > 0

(* A change of the register reaches the published exclusions in the end:   *)
(* they are published every cycle.                                         *)
ExclusionsArrive == <>[](published = register)
=============================================================================
