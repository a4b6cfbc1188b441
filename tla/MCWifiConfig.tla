---------------------------- MODULE MCWifiConfig ----------------------------
(* Instances of WifiConfig for TLC: two of three networks are configured at the  *)
(* start, and a handful of connections.                                      *)
EXTENDS WifiConfig, TLC

CONSTANTS s1, s2, s3   \* SSIDs: s1 and s2 are configured at the start

MCInitNets == <<s1, s2>>
MCOneNet == <<s1>>

\* Inodes and connections are interchangeable; the SSIDs are not.
Symmetry == Permutations(Inode) \cup Permutations(Conn)
=============================================================================
