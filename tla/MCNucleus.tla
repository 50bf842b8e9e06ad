------------------------------ MODULE MCNucleus ------------------------------
(* Instances of Nucleus for TLC: the ports and the symmetry of the pcbs.   *)
EXTENDS Nucleus, TLC

disk0 == <<3, 0, 0>>
disk1 == <<3, 1, 0>>
printer0 == <<6, 0, 0>>
term0write == <<7, 0, 0>>
term0read == <<7, 0, 1>>
term5read == <<7, 5, 1>>

NoPort == {}
OneDisk == {disk0}
DiskAndPrinter == {disk0, printer0}
ThreeDevices == {disk0, disk1, term0write}
Terminal0 == {term0write, term0read}
Terminal5 == {term5read}

ProcSymmetry == Permutations(Proc)
==============================================================================
