------------------------------ MODULE MCLinkStore ------------------------------
(* Two devices and three keys: enough for a relink and for a key made anew *)
(* with the passphrase, without it, and after a purge.                     *)
EXTENDS LinkStore

===============================================================================
