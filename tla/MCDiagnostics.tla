--------------------------- MODULE MCDiagnostics ---------------------------
(***************************************************************************)
(* Small instances of Diagnostics for TLC.  A tick stands for several      *)
(* hours: 15 minutes, 6, 12, 24 and 72 hours keep their order.             *)
(***************************************************************************)
EXTENDS Diagnostics, TLC

CONSTANTS u1, u2, u3, u4, c1, c2

AllOperations == {"create", "partUrl", "complete", "moderate", "download", "preverify"}

CallerSymmetry == Permutations(Callers)
UploadSymmetry == Permutations(Uploads)
=============================================================================
