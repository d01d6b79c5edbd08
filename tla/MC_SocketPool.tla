--------------------------- MODULE MC_SocketPool ---------------------------
(* A Unix listener that exits when idle, TCP listeners with and without a  *)
(* proxy in front, and the peers they tell apart, for MC_SocketPool.cfg.   *)
EXTENDS SocketPool

Ip(a) == [exact |-> TRUE, ip |-> a]
Unix == [kind |-> "unix", idle |-> 1, grace |-> 1, path |-> TRUE, conns |-> 3, active |-> 2,
         pending |-> 1, others |-> 1]
Plain == [kind |-> "tcp", setup |-> 1, preamble |-> 1, identity |-> 1, idleRead |-> 1, write |-> 1,
          maxPreamble |-> 50, v2 |-> FALSE, trusted |-> <<>>, iroh |-> FALSE, conns |-> 2,
          active |-> 1, pending |-> 1, others |-> 0]
Proxied == [Plain EXCEPT !.v2 = TRUE, !.trusted = <<Ip("proxy")>>, !.iroh = TRUE,
                          !.setup = 2, !.preamble = 2, !.identity = 2]

Saturated == [Unix EXCEPT !.active = 1]

McOptions == {Unix, Saturated, Plain, Proxied, [Unix EXCEPT !.path = FALSE], [Proxied EXCEPT !.trusted = <<>>],
              [Plain EXCEPT !.active = 0]}

Preamble == [signature |-> TRUE, version |-> 2, size |-> 28, command |-> "proxy", family |-> "inet",
             fits |-> TRUE, tlvs |-> <<>>]
IrohTlv == [type |-> "iroh", fits |-> TRUE, wellFormed |-> TRUE]
From(a, p) == [address |-> Ip(a), preamble |-> p]

McPeers == [kind \in {"unix", "tcp"} |->
    IF kind = "unix" THEN {From("local", Preamble)}
    ELSE {From("proxy", Preamble), From("proxy", [Preamble EXCEPT !.command = "local"]),
          From("proxy", [Preamble EXCEPT !.family = "unspec", !.tlvs = <<IrohTlv>>]),
          From("elsewhere", Preamble)}]
=============================================================================
