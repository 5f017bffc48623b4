------------------------------ MODULE MCClient ------------------------------
(* Two calls: a priced or an oversized store, and beside it an unpriced     *)
(* Solana store of the same wallet.                                        *)
EXTENDS Client

CONSTANTS c1, c2

MCStarts == {<<c1, "evm", TRUE, "bytes">>, <<c1, "evm", FALSE, "oversized">>,
             <<c1, "solana", TRUE, "bytes">>,
             <<c2, "solana", FALSE, "bytes">>, <<c2, "solana", FALSE, "empty">>}

\* A call hangs for good only while the other has not started: what hangs beside a
\* call looks to it like one that is slow.
HangsAlone == hung' = {} \/ Cardinality({c \in Calls : call'[c].pc # "idle"}) = 1
MCSpec == Init /\ [][Next /\ HangsAlone]_vars /\ Fairness
=============================================================================
