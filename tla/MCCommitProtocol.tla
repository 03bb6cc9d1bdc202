-------------------------- MODULE MCCommitProtocol --------------------------
(* CommitProtocol with two devices.                                        *)
EXTENDS CommitProtocol, TLC

MCSymmetry == Permutations(Device) \cup Permutations(Group)
=============================================================================
