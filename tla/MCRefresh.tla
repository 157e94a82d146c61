----------------------------- MODULE MCRefresh -----------------------------
(* Small instances of Refresh for TLC. *)
EXTENDS Refresh, TLC

CONSTANTS h1, h2, h3, h4, h5

(* Four hosts fill both pipes, a sender and the writer; h5 is blocked. *)
FiveHosts == <<h5, h1, h2, h3, h4>>
=============================================================================
