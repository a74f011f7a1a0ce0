-------------------------- MODULE MCDeviceManager --------------------------
(* Devices, and HTTP threads, are interchangeable. *)
EXTENDS DeviceManager, TLC

Symmetry == Permutations(Device) \cup Permutations(HttpThread)
=============================================================================
