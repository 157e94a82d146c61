----------------------------- MODULE Discovery -----------------------------
(***************************************************************************)
(* One discovery run (_stream_discover_and_grab and the end of run_scan,   *)
(* scanner.py): a ZMap process streams classified addresses, the main      *)
(* thread records the closed ones and feeds the others to the grabber, a   *)
(* watchdog timer bounds ZMap, and the teardown closes the grabber, waits  *)
(* for ZMap and gives the run its status.  Composed with Grabber, whose    *)
(* caller it is.                                                           *)
(*                                                                         *)
(* A definition named Mut... is no part of the model: it is the definition *)
(* after it with a plausible bug, which the properties must notice.        *)
(***************************************************************************)
EXTENDS Naturals, FiniteSets, Sequences

CONSTANTS
    Hosts, Fingerprints, None, StdinCap, StdoutCap, Senders,
    MayWedge, MayDie, StoreFails, SlowStore,
    ZMapCap,        \* rows ZMap's stdout pipe holds
    ZMapFails,      \* ZMap may exit non-zero, or hang
    SpawnFails      \* starting ZGrab2 may raise

VARIABLES
    main, current, submitted, pending, unanswered, abandoned, stdin, grabbing, stdout,
    zgrab, reader, line, rows, responsive, index, newVersions,
    phase,       \* where the run is: see Phases
    zmap,        \* the ZMap process
    zmapOut,     \* rows in its stdout pipe
    classified,  \* every row ZMap wrote
    code,        \* proc.returncode
    watchdog,    \* the timer that kills ZMap
    status       \* metadata.status

G == INSTANCE Grabber

grabberVars == <<main, current, submitted, pending, unanswered, abandoned, stdin, grabbing,
                 stdout, zgrab, reader, line, rows, responsive, index, newVersions>>
runVars == <<phase, zmap, zmapOut, classified, code, watchdog, status>>
vars == <<grabberVars, runVars>>

Classes == {"synack", "rst", "other"}
ZMapRows == [ip : Hosts, class : Classes]
Phases == {"spawning", "streaming", "closing", "waiting", "judging", "done", "aborted"}

ASSUME DiscoveryAssumption ==
    /\ ZMapCap \in Nat \ {0}
    /\ {ZMapFails, SpawnFails} \subseteq BOOLEAN

(* Grabber's own assumptions, of the constants that are passed to it. *)
ASSUME GrabberAssumption ==
    /\ {StdinCap, StdoutCap, Senders} \subseteq Nat \ {0}
    /\ {MayWedge, MayDie, StoreFails, SlowStore} \subseteq BOOLEAN
    /\ None \notin Hosts \union G!Lines
    /\ Fingerprints \intersect {"failed", "unreadable", "torn", "closed"} = {}

TypeOK ==
    /\ phase \in Phases
    /\ zmap \in {"running", "lingering", "exited"}
    /\ classified \subseteq ZMapRows
    /\ zmapOut \subseteq classified
    /\ code \in {"none", "zero", "nonzero"}
    /\ watchdog \in {"armed", "fired", "cancelled"}
    /\ status \in {"running", "completed", "failed"}

(* ZMap and the watchdog are started before ZGrab2 is. *)
Init ==
    /\ G!Init
    /\ phase = "spawning"
    /\ zmap = "running" /\ zmapOut = {} /\ classified = {} /\ code = "none"
    /\ watchdog = "armed" /\ status = "running"

-----------------------------------------------------------------------------
(* The main thread. *)

SpawnZGrab ==
    /\ phase = "spawning"
    /\ phase' = "streaming"
    /\ UNCHANGED <<grabberVars, zmap, zmapOut, classified, code, watchdog, status>>

(* the exception cancels the watchdog *)
MutAbortDisarms ==
    /\ SpawnFails
    /\ phase = "spawning"
    /\ phase' = "aborted" /\ watchdog' = "cancelled"
    /\ UNCHANGED <<grabberVars, zmap, zmapOut, classified, code, status>>

(* The constructor is outside the try: the run ends without its teardown. *)
SpawnRaises ==
    /\ SpawnFails
    /\ phase = "spawning"
    /\ phase' = "aborted"
    /\ UNCHANGED <<grabberVars, zmap, zmapOut, classified, code, watchdog, status>>

(* a reset is grabbed like an answer *)
MutGrabClosed(r) ==
    /\ phase = "streaming" /\ main = "feeding" /\ r \in zmapOut
    /\ IF r.class = "other" THEN UNCHANGED grabberVars ELSE G!Submit(r.ip)
    /\ zmapOut' = zmapOut \ {r}
    /\ UNCHANGED <<phase, zmap, classified, code, watchdog, status>>

(* a closed host is recorded without the record lock *)
MutRecordUnlocked(r) ==
    /\ phase = "streaming" /\ main = "feeding" /\ r \in zmapOut
    /\ \/ r.class = "rst" /\ rows' = [rows EXCEPT ![r.ip] = Append(@, "closed")]
          /\ UNCHANGED <<main, current, submitted, pending, unanswered, abandoned, stdin, grabbing,
                         stdout, zgrab, reader, line, responsive, index, newVersions>>
       \/ r.class = "synack" /\ G!Submit(r.ip)
       \/ r.class = "other" /\ UNCHANGED grabberVars
    /\ zmapOut' = zmapOut \ {r}
    /\ UNCHANGED <<phase, zmap, classified, code, watchdog, status>>

(* One line of ZMap's output: a reset is recorded, an answer is grabbed,   *)
(* anything else is ignored.                                               *)
ReadRow(r) ==
    /\ phase = "streaming" /\ main = "feeding" /\ r \in zmapOut
    /\ \/ r.class = "rst" /\ G!RecordClosed(r.ip)
       \/ r.class = "synack" /\ G!Submit(r.ip)
       \/ r.class = "other" /\ UNCHANGED grabberVars
    /\ zmapOut' = zmapOut \ {r}
    /\ UNCHANGED <<phase, zmap, classified, code, watchdog, status>>

(* ZMap's output has ended: the loop is over, close() begins. *)
EndOfOutput ==
    /\ phase = "streaming" /\ zmapOut = {} /\ zmap # "running"
    /\ G!CloseStdin
    /\ phase' = "closing"
    /\ UNCHANGED <<zmap, zmapOut, classified, code, watchdog, status>>

GrabberStep == G!MainStep /\ UNCHANGED runVars

GrabberClosed ==
    /\ phase = "closing" /\ main = "closed"
    /\ phase' = "waiting"
    /\ watchdog' = "cancelled"
    /\ UNCHANGED <<grabberVars, zmap, zmapOut, classified, code, status>>

ZMapWaited ==
    /\ phase = "waiting" /\ zmap = "exited"
    /\ phase' = "judging"
    /\ UNCHANGED <<grabberVars, zmap, zmapOut, classified, code, watchdog, status>>

Killed == zmap' = "exited" /\ code' = IF zmap = "exited" THEN code ELSE "nonzero"

(* DISCOVERY_EXIT_GRACE_SECONDS have passed. *)
ZMapGraceExpires ==
    /\ phase = "waiting" /\ zmap # "exited"
    /\ phase' = "judging"
    /\ Killed
    /\ UNCHANGED <<grabberVars, zmapOut, classified, watchdog, status>>

(* a run is completed whatever ZMap's exit code *)
MutAlwaysCompleted ==
    /\ phase = "judging"
    /\ phase' = "done"
    /\ status' = "completed"
    /\ UNCHANGED <<grabberVars, zmap, zmapOut, classified, code, watchdog>>

(* the exit code is stored where the status belongs *)
MutStatusIsCode ==
    /\ phase = "judging"
    /\ phase' = "done"
    /\ status' = code
    /\ UNCHANGED <<grabberVars, zmap, zmapOut, classified, code, watchdog>>

Judge ==
    /\ phase = "judging"
    /\ phase' = "done"
    /\ status' = IF code = "zero" THEN "completed" ELSE "failed"
    /\ UNCHANGED <<grabberVars, zmap, zmapOut, classified, code, watchdog>>

-----------------------------------------------------------------------------
(* The watchdog thread. *)

(* the timer is never started *)
MutNoWatchdog == FALSE /\ UNCHANGED vars

WatchdogFires ==
    /\ watchdog = "armed"
    /\ watchdog' = "fired"
    /\ Killed
    /\ UNCHANGED <<grabberVars, phase, zmapOut, classified, status>>

-----------------------------------------------------------------------------
(* ZMap: external. *)

(* `repeat = 0`: one row per address. *)
Classify(h, c) ==
    /\ zmap = "running" /\ Cardinality(zmapOut) < ZMapCap
    /\ h \notin {r.ip : r \in classified}
    /\ classified' = classified \union {[ip |-> h, class |-> c]}
    /\ zmapOut' = zmapOut \union {[ip |-> h, class |-> c]}
    /\ UNCHANGED <<grabberVars, phase, zmap, code, watchdog, status>>

(* The window is over: stdout closes a moment before the process exits. *)
ZMapCompletes ==
    /\ zmap = "running"
    /\ zmap' = "lingering"
    /\ UNCHANGED <<grabberVars, phase, zmapOut, classified, code, watchdog, status>>

ZMapExits ==
    /\ zmap = "lingering"
    /\ zmap' = "exited" /\ code' = "zero"
    /\ UNCHANGED <<grabberVars, phase, zmapOut, classified, watchdog, status>>

(* ZMap gives up: what it had not yet written is lost. *)
ZMapDies ==
    /\ ZMapFails
    /\ zmap \in {"running", "lingering"}
    /\ zmap' = "exited" /\ code' = "nonzero"
    /\ UNCHANGED <<grabberVars, phase, zmapOut, classified, watchdog, status>>

-----------------------------------------------------------------------------
MainStep ==
    \/ SpawnZGrab \/ SpawnRaises \/ (\E r \in zmapOut : ReadRow(r)) \/ EndOfOutput
    \/ GrabberStep \/ GrabberClosed \/ ZMapWaited \/ ZMapGraceExpires \/ Judge

Spawned == phase \notin {"spawning", "aborted"}
ReaderStep == Spawned /\ G!ReaderStep /\ UNCHANGED runVars
ZGrabWork == Spawned /\ G!ZGrabWork /\ UNCHANGED runVars
GrabberEnvironment == Spawned /\ G!Environment /\ UNCHANGED runVars

ZMapStep ==
    \/ \E h \in Hosts, c \in Classes : Classify(h, c)
    \/ ZMapCompletes \/ ZMapExits \/ ZMapDies

(* The process is gone, or only waits for its timer thread. *)
Terminated ==
    /\ phase \in {"done", "aborted"} /\ zmap = "exited"
    /\ UNCHANGED vars

Next ==
    \/ MainStep \/ ReaderStep \/ ZGrabWork \/ GrabberEnvironment
    \/ WatchdogFires \/ ZMapStep \/ Terminated

(* The threads run, the timer expires, and a ZGrab2 that can, works.       *)
(* Nothing makes ZMap progress: it is the watchdog that ends it.           *)
Fairness ==
    /\ WF_vars(MainStep) /\ WF_vars(ReaderStep) /\ WF_vars(ZGrabWork)
    /\ WF_vars(WatchdogFires)

Spec == Init /\ [][Next]_vars /\ Fairness

-----------------------------------------------------------------------------
(* Properties. *)

Classified(c) == {r.ip : r \in {q \in classified : q.class = c}}

(* A run that says "completed" is whole: ZMap ended well, and every host   *)
(* it reported, open or closed, has its one row.  Whatever was cut short - *)
(* by ZMap, the watchdog or the teardown - is reported as failed.          *)
CompletedIsWhole ==
    phase = "done" /\ status = "completed" =>
        /\ code = "zero"
        /\ \A h \in Classified("synack") \union Classified("rst") : Len(rows[h]) = 1

(* A run that fails still accounts for what it took from ZMap: a host read *)
(* off the pipe has its row, and a closed host is never given a grab's.    *)
ReadIsRecorded ==
    phase = "done" =>
        \A r \in classified \ zmapOut :
            /\ r.class = "synack" => Len(rows[r.ip]) = 1 /\ rows[r.ip][1] # "closed"
            /\ r.class = "rst" => rows[r.ip] = <<"closed">>
            /\ r.class = "other" => rows[r.ip] = <<>>

(* No ZMap process outlives the run that started it for ever, not even one *)
(* whose ZGrab2 could not be started.                                      *)
ZMapIsReaped == <>[](zmap = "exited")

(* The run ends, and with it the cron slot its lock holds.                 *)
RunEnds == <>(phase \in {"done", "aborted"})

(* An observation of the run never points at a payload nobody publishes    *)
(* (Grabber), however ZMap and ZGrab2 end.                                 *)
FingerprintsPublished == G!FingerprintsPublished

(* Discovery uses the grabber as Grabber allows.                           *)
UsesGrabber == G!Init /\ [][G!Next]_grabberVars
=============================================================================
