----------------------------- MODULE MCGrabber -----------------------------
(* Small instances of Grabber for TLC. *)
EXTENDS Grabber, TLC

HostAndFingerprintSymmetry == Permutations(Hosts) \union Permutations(Fingerprints)
=============================================================================
