----------------------------- MODULE MCInversion -----------------------------
(* Each thread but low is woken by an interrupt of its own. *)
EXTENDS Inversion, TLC

CONSTANTS s_mid, s_hog, s_high

MCGo == mid :> s_mid @@ hog :> s_hog @@ high :> s_high

==============================================================================
