---------------------------- MODULE MCBlocklist ----------------------------
(* Small instances of Blocklist for TLC. *)
EXTENDS Blocklist, TLC

CONSTANTS scan1, scan2, refresh1, a1, a2, a6

(* Two scans that cron starts in the same minute, and a refresh. *)
TwoScansAndRefresh == scan1 :> "scan" @@ scan2 :> "scan" @@ refresh1 :> "refresh"
KnownHosts == scan1 :> {a1} @@ scan2 :> {} @@ refresh1 :> {a1}
Minutes == scan1 :> 6 @@ scan2 :> 6 @@ refresh1 :> 0

OneScan == scan1 :> "scan"
NoneKnown == scan1 :> {}
OneMinuteEach == scan1 :> 6
=============================================================================
