----------------------------- MODULE MC_CanWire -----------------------------
(* Boundary values for model checking CanWire.                             *)
EXTENDS CanWire

MCNodes == {0, 1, 2, 127, 129}
MCWatchdogs == {0, 1, 256, 65535, 65536}
MCNumbers == {0, 129, 255}
MCVelocities == {-40000, -32769, -32768, -256, -1, 0, 1, 255, 32767, 32768}
MCPositions == {-2147483647, -2147483001, -2147483000, -65536, -1, 0, 255,
                16777216, 2147483000, 2147483001}

\* One identifier of each kind, or of no kind of this robot.
MCStrangers ==
    [ identifier : {0, 257, 384, 385, 641, 643, 2047}, extended : BOOLEAN,
      remote : BOOLEAN, dlc : {8},
      data : {<<1, 0, 0, 0, 0, 0, 0, 0>>, <<1, 0, 0, 0, 0, 0, 0, 7>>} ]
=============================================================================
