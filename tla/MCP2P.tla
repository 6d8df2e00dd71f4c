-------------------------------- MODULE MCP2P --------------------------------
(* P2P on small instances; see the configurations MCP2P*.cfg. *)
EXTENDS P2P, TLC

CONSTANTS self, a, b, ip1, c1, c2, t1, t2

Msg(k, s, g, f, u) == [kind |-> k, signer |-> s, good |-> g, feat |-> f, uri |-> u]

\* Handshakes of two nodes, one of them with a URI, and a message that needs
\* a handshake.
HandshakeInputs ==
    {Msg("done", a, TRUE, TRUE, NoId), Msg("done", b, TRUE, TRUE, b),
     Msg("query", NoId, TRUE, TRUE, NoId)}

\* A peer that completes its handshake and announces another node.
AnnounceInputs ==
    {Msg("done", a, TRUE, TRUE, NoId), Msg("announce", NoId, TRUE, TRUE, b)}

\* A message whose answer may hang or fail and a handshake that dials back.
SendingInputs ==
    {Msg("open", NoId, TRUE, TRUE, NoId), Msg("done", a, TRUE, TRUE, a)}

\* Every kind of message, with every reason to refuse it: another network, a
\* wrong challenge, missing features, an unusable URI, a URI of this node.
AllInputs ==
    AnnounceInputs \cup SendingInputs \cup
    {Msg("bad", NoId, TRUE, TRUE, NoId), Msg("open", NoId, FALSE, TRUE, NoId),
     Msg("done", a, FALSE, TRUE, NoId),
     Msg("done", b, TRUE, FALSE, NoId), Msg("announce", NoId, TRUE, TRUE, NoId),
     Msg("announce", NoId, TRUE, TRUE, self), Msg("query", NoId, TRUE, TRUE, NoId)}

Symmetry == Permutations(Task) \cup Permutations(Conn)
=============================================================================
