------------------------------- MODULE LzInbound -------------------------------
(***************************************************************************)
(* The receiving end of a LayerZero pathway on Solana (external), as the   *)
(* return worker and the adapter use it: a packet is attested by the DVN,  *)
(* committed to the endpoint and cleared by the receiving program.  The    *)
(* endpoint commits in any order but clears only below its inbound nonce,  *)
(* the end of the gapless run of committed packets.                        *)
(***************************************************************************)
EXTENDS Naturals

CONSTANT MaxPackets     \* bound on the packets of the pathway

VARIABLES
    confirmations,  \* nonces the DVN attested
    payloadHash,    \* the payload hash account of a nonce
    inboundNonce    \* the frontier

Nonces == 1 .. MaxPackets

lzVars == <<confirmations, payloadHash, inboundNonce>>

TypeOK ==
    /\ confirmations \subseteq Nonces
    /\ payloadHash \in [Nonces -> {"none", "empty", "hash"}]
    /\ inboundNonce \in 0 .. MaxPackets

Init ==
    /\ confirmations = {}
    /\ payloadHash = [n \in Nonces |-> "none"]
    /\ inboundNonce = 0

\* Cleared by lz_receive or skipped by hand: no account at or below the frontier.
Cleared(n) == n <= inboundNonce /\ payloadHash[n] = "none"

\* The end of the run of committed nonces that starts above from.
Frontier(from, hashes) ==
    CHOOSE m \in from .. MaxPackets :
        /\ \A n \in (from + 1) .. m : hashes[n] = "hash"
        /\ m < MaxPackets => hashes[m + 1] # "hash"

\* endpoint init_verify, if the account is absent, and the DVN's verify, in one transaction.
Verify(n) ==
    /\ payloadHash' =
           [payloadHash EXCEPT ![n] = IF @ = "none" /\ n > inboundNonce THEN "empty" ELSE @]
    /\ confirmations' = confirmations \union {n}
    /\ UNCHANGED inboundNonce

\* The ULN's commit_verification: the endpoint records the payload hash.
Committable(n) == n \in confirmations /\ payloadHash[n] # "none"

Commit(n) ==
    /\ Committable(n)
    /\ payloadHash' = [payloadHash EXCEPT ![n] = "hash"]
    /\ inboundNonce' = Frontier(inboundNonce, payloadHash')
    /\ UNCHANGED confirmations

\* The clear a receiving program calls.
Clearable(n) == n <= inboundNonce /\ payloadHash[n] = "hash"

Clear(n) ==
    /\ Clearable(n)
    /\ payloadHash' = [payloadHash EXCEPT ![n] = "none"]
    /\ UNCHANGED <<confirmations, inboundNonce>>

\* init_verify and skip of the next k nonces, in one transaction of the delegate: it fails
\* on a committed one, over which the frontier has moved by then.
Skip(k) ==
    /\ inboundNonce + k <= MaxPackets
    /\ \A n \in (inboundNonce + 1) .. (inboundNonce + k) : payloadHash[n] # "hash"
    /\ payloadHash' = [n \in Nonces |-> IF n \in (inboundNonce + 1) .. (inboundNonce + k)
                                        THEN "none" ELSE payloadHash[n]]
    /\ inboundNonce' = Frontier(inboundNonce + k, payloadHash')
    /\ UNCHANGED confirmations
=============================================================================
