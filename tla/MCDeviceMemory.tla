--------------------------- MODULE MCDeviceMemory ---------------------------
(***************************************************************************)
(* Instances of DeviceMemory for TLC.                                      *)
(***************************************************************************)
EXTENDS DeviceMemory

MCSizes   == {0, 1, 3, 4, 9}
MCExtents == {<<0, 0>>, <<0, 2>>, <<1, 2>>, <<3, 1>>}
=============================================================================
