----------------------------- MODULE MCBundleScan -----------------------------
(* Small chains for the bundle scan.  A fork lists the root, or Empty, of  *)
(* every slot, from the lowest height up.                                  *)
EXTENDS BundleScan, TLC

CONSTANTS ra, rb

\* Two heights that exchange their roots.
MCSwapForks == <<<<ra, rb>>, <<rb, ra>>>>
=============================================================================
