--------------------------- MODULE MCPacketWake ---------------------------
(* The sleep and wake-up protocol on a few CPUs; it needs no bound.        *)
EXTENDS PacketWake

AllCpus   == Cpus
FirstCpus == {0, 1}
=============================================================================
