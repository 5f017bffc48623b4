----------------------------- MODULE SolanaAdapter -----------------------------
(***************************************************************************)
(* The bosphor-adapter program on Solana: the store account with its admin *)
(* and peer, an intent account and an escrow vault per submitted intent.   *)
(* An instruction is one action; it reverts as a whole, so the guards are  *)
(* its account constraints and its require!s, in any order.  A vault has   *)
(* no terminal status on chain: it is closed, and its lamports go to the   *)
(* relayer (the store admin when the intent was submitted) or the payer.   *)
(***************************************************************************)
EXTENDS Integers

CONSTANTS
    Payers,         \* accounts that submit intents
    Admins,         \* accounts that may become the store admin
    PeerAddresses,  \* remote OApp addresses an admin may set
    Blobs, Deadlines, Amounts,
    EndEpochs,      \* end epochs a proof may carry
    MaxNonce,       \* bound on submissions of a payer
    MaxTime,        \* bound on the clock
    NoAccount       \* an account, address or vault that does not exist

VARIABLES
    now,        \* Clock::unix_timestamp
    admin,      \* Store.admin, NoAccount before init_store
    peer,       \* Peer.address for the Sui endpoint id
    nonces,     \* SenderNonce.nonce
    intents,    \* IntentState accounts
    escrows,    \* EscrowVault accounts
    closedTo,   \* the account the lamports of a vault went to when it was closed
    forwarded   \* forward packets: the ids dispatched to Sui, with the receiver address

solanaVars == <<now, admin, peer, nonces, intents, escrows, closedTo, forwarded>>

\* The canonical id hashes the commitment, the sender and the nonce.
compute_intent_id(blob, deadline, sender, nonce) ==
    [sender |-> sender, nonce |-> nonce, blob |-> blob, deadline |-> deadline]

Ids == [sender : Payers, nonce : 0 .. (MaxNonce - 1), blob : Blobs, deadline : Deadlines]

EscrowVault ==
    [payer : Payers, beneficiary : Admins, amount : Amounts, deadline : Deadlines,
     status : {"pending"}]

IntentState == [blob : Blobs, executed : BOOLEAN, endEpoch : EndEpochs \union {0}]

TypeOK ==
    /\ now \in 0 .. MaxTime
    /\ admin \in Admins \union {NoAccount}
    /\ peer \in PeerAddresses \union {NoAccount}
    /\ nonces \in [Payers -> 0 .. MaxNonce]
    /\ intents \in [Ids -> IntentState \union {NoAccount}]
    /\ escrows \in [Ids -> EscrowVault \union {NoAccount}]
    /\ closedTo \in [Ids -> Payers \union Admins \union {NoAccount}]
    /\ forwarded \subseteq [id : Ids, receiver : PeerAddresses]

Init ==
    /\ now = 0
    /\ admin = NoAccount
    /\ peer = NoAccount
    /\ nonces = [p \in Payers |-> 0]
    /\ intents = [id \in Ids |-> NoAccount]
    /\ escrows = [id \in Ids |-> NoAccount]
    /\ closedTo = [id \in Ids |-> NoAccount]
    /\ forwarded = {}

Exists(account) == account # NoAccount

-----------------------------------------------------------------------------
(* Set-up by the operator.                                                 *)

\* The store is a singleton account: the first call creates it, for good.
InitStore == ~Exists(admin)

init_store(newAdmin) ==
    /\ InitStore
    /\ admin' = newAdmin
    /\ UNCHANGED <<now, peer, nonces, intents, escrows, closedTo, forwarded>>

SetPeer(signer) == Exists(admin) /\ signer = admin

set_peer(signer, address) ==
    /\ SetPeer(signer)
    /\ peer' = address
    /\ UNCHANGED <<now, admin, nonces, intents, escrows, closedTo, forwarded>>

-----------------------------------------------------------------------------
(* Submission and settlement.                                              *)

\* The store and the peer exist; the intent and its vault are created, so they do not.
SubmitIntent(id) ==
    /\ Exists(admin) /\ Exists(peer)
    /\ ~Exists(intents[id]) /\ ~Exists(escrows[id])

encode_forward(id) == [id |-> id, receiver |-> peer]

\* No check of the deadline: it may have passed already.
submit_intent(sender, blob, deadline, amount) ==
    LET id == compute_intent_id(blob, deadline, sender, nonces[sender]) IN
    /\ nonces[sender] < MaxNonce
    /\ SubmitIntent(id)
    /\ intents' = [intents EXCEPT ![id] = [blob |-> blob, executed |-> FALSE, endEpoch |-> 0]]
    /\ nonces' = [nonces EXCEPT ![sender] = @ + 1]
    /\ escrows' = [escrows EXCEPT ![id] =
           [payer |-> sender, beneficiary |-> admin, amount |-> amount, deadline |-> deadline,
            status |-> "pending"]]
    /\ forwarded' = forwarded \union {encode_forward(id)}
    /\ UNCHANGED <<now, admin, peer, closedTo>>

\* The accounts an executor must pass; the beneficiary is looked up in the store.
lz_receive_types(id) == [peer |-> peer, intent |-> id, escrow |-> id, beneficiary |-> admin]

\* The proof names accounts that exist, comes from the peer and pays the vault's beneficiary.
LzReceive(sender, metas) ==
    /\ Exists(metas.peer) /\ metas.peer = sender
    /\ Exists(intents[metas.intent])
    /\ Exists(escrows[metas.escrow])
    /\ metas.beneficiary = escrows[metas.escrow].beneficiary

check_release(status) == status = "pending"

check_refund(status, time, deadline) == status = "pending" /\ time > deadline

Close(id, account) ==
    /\ escrows' = [escrows EXCEPT ![id] = NoAccount]
    /\ closedTo' = [closedTo EXCEPT ![id] = account]

MarkExecuted(id, endEpoch) ==
    intents' = [intents EXCEPT ![id].executed = TRUE, ![id].endEpoch = endEpoch]

\* The type-1 proof in a return message.
decode_proof(message) ==
    [id |-> message.intentId, blob |-> message.blobId, endEpoch |-> message.endEpoch]

\* The return proof; the endpoint's clear is conjoined by the module that has the endpoint.
lz_receive(params) ==
    LET proof == decode_proof(params.message)
        id    == proof.id IN
    /\ params.message.type = 1
    /\ LzReceive(params.sender, lz_receive_types(id))
    /\ ~intents[id].executed
    /\ proof.blob = intents[id].blob
    /\ MarkExecuted(id, proof.endEpoch)
    /\ check_release(escrows[id].status)
    /\ Close(id, escrows[id].beneficiary)
    /\ UNCHANGED <<now, admin, peer, nonces, forwarded>>

ConfirmExecution(signer, id) == Exists(admin) /\ signer = admin /\ Exists(intents[id])

\* Mutant: the admin's fallback releases the escrow as a proof does.
ConfirmReleases(signer, id, blob, endEpoch) ==
    /\ ConfirmExecution(signer, id)
    /\ ~intents[id].executed
    /\ Exists(escrows[id])
    /\ MarkExecuted(id, endEpoch)
    /\ Close(id, admin)
    /\ UNCHANGED <<now, admin, peer, nonces, forwarded>>

\* The admin's fallback: records the execution, never moves the escrow.
confirm_execution(signer, id, blob, endEpoch) ==
    /\ ConfirmExecution(signer, id)
    /\ ~intents[id].executed
    /\ blob = intents[id].blob
    /\ MarkExecuted(id, endEpoch)
    /\ UNCHANGED <<now, admin, peer, nonces, escrows, closedTo, forwarded>>

RefundEscrow(payer, id) == Exists(escrows[id]) /\ escrows[id].payer = payer

\* Anyone may call it; the lamports go to the recorded payer.
refund_escrow(payer, id) ==
    /\ RefundEscrow(payer, id)
    /\ check_refund(escrows[id].status, now, escrows[id].deadline)
    /\ Close(id, payer)
    /\ UNCHANGED <<now, admin, peer, nonces, intents, forwarded>>

Clock ==
    /\ now < MaxTime
    /\ now' = now + 1
    /\ UNCHANGED <<admin, peer, nonces, intents, escrows, closedTo, forwarded>>
=============================================================================
