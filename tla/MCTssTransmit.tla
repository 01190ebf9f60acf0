--------------------------- MODULE MCTssTransmit ---------------------------
(* TssTransmit with a server of each format, a device and three commands. *)
EXTENDS TssTransmit, TLC

CONSTANTS s1, s2

MCServers == {s1, s2}

MCServerFormat == s1 :> "mssim" @@ s2 :> "raw"
=============================================================================
