--------------------------- MODULE MCPosixServer ---------------------------
(* Small instances of PosixServer for TLC. *)
EXTENDS PosixServer, TLC

MCListenFd == 1
MCWakeFd == 2
MCNames == [p \in Peer |-> ToString(p)]
MCTokens == {MCNames[p] : p \in Peer} \cup {Data}
AddrSymmetry == Permutations(Addr)
=============================================================================
