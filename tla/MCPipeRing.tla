----------------------------- MODULE MCPipeRing -----------------------------
(* An instance of PipeRing: every message of up to three bytes.            *)
EXTENDS PipeRing

MCBytes == {0, 1}
MCMessages == UNION {[1..n -> MCBytes] : n \in 0..3}
=============================================================================
