------------------------------ MODULE EvmEscrow ------------------------------
(***************************************************************************)
(* The origin-chain contract: BosphorEscrowAdapter with its EscrowVault.   *)
(* A user submits an intent and pays; the surplus over the LayerZero fee   *)
(* is escrowed under the intent id.  A proof packet from Sui releases the  *)
(* escrow to the trusted relayer, the owner's confirmExecution only marks  *)
(* the intent, and after the deadline anyone may refund the payer.  Value  *)
(* leaves by pull payment.                                                 *)
(*                                                                         *)
(* A transaction is a step and a revert is no step.  withdraw() calls its  *)
(* receiver after the credit is cleared and the value has left, so what    *)
(* the receiver calls from there is a step that follows it.                *)
(***************************************************************************)
EXTENDS Integers, FiniteSetsExt

CONSTANTS
    Users,      \* addresses that submit and pay for intents
    Relayers,   \* addresses the owner may name as the trusted relayer
    Blobs,      \* Walrus blob ids
    Deadlines,  \* block times an intent or a deposit may carry as its deadline
    Payments,   \* msg.value of a submission, amount of a permit
    Fees,       \* LayerZero quotes
    MaxNonce,   \* bound on the submissions of a user
    MaxTime     \* bound on block.timestamp

ASSUME EscrowAssumption ==
    /\ Payments \subseteq Nat
    /\ Fees \subseteq Nat
    /\ Deadlines \subseteq Nat
    /\ MaxNonce \in Nat
    /\ MaxTime \in Nat

\* Addresses, blob ids and block times are machine words: there are finitely many.
ASSUME FinitenessAssumption ==
    IsFiniteSet(Users) /\ IsFiniteSet(Relayers) /\ IsFiniteSet(Blobs) /\ IsFiniteSet(Deadlines)

VARIABLES
    now,            \* block.timestamp
    nonces,         \* submissions of each user so far
    intents,        \* intents[id]
    executed,       \* executed[id]
    proven,         \* ids whose IntentExecuted came from a proof packet
    escrows,        \* escrows[id]
    credit,         \* withdrawable and withdrawableToken, by token and account
    balance,        \* what the contract holds of each token
    permit2,        \* the owner has configured Permit2
    trustedRelayer

ledgers == <<escrows, credit, balance>>
intentState == <<nonces, intents, executed, proven>>
admin   == <<permit2, trustedRelayer>>
vars    == <<now, intentState, ledgers, admin>>

-----------------------------------------------------------------------------

Accounts == Users \union Relayers
Tokens   == {"native", "usdc"}

\* deriveIntentId() hashes the commitment, the sender and the nonce: an id is those.
Ids == [sender : Users, nonce : 0 .. MaxNonce - 1, blob : Blobs, deadline : Deadlines]

Escrow == [status   : {"None", "Pending", "Released", "Refunded"},
           payer    : Accounts,
           token    : Tokens,
           amount   : Nat,
           deadline : Nat]

NoEscrow(id) == [status |-> "None", payer |-> id.sender, token |-> "native", amount |-> 0,
                 deadline |-> 0]

TypeOK ==
    /\ now \in 0 .. MaxTime
    /\ nonces \in [Users -> 0 .. MaxNonce]
    /\ intents \subseteq Ids
    /\ executed \subseteq Ids
    /\ proven \subseteq Ids
    /\ escrows \in [Ids -> Escrow]
    /\ credit \in [Tokens -> [Accounts -> Nat]]
    /\ balance \in [Tokens -> Int]
    /\ permit2 \in BOOLEAN
    /\ trustedRelayer \in Relayers

Init ==
    /\ now = 0
    /\ nonces = [u \in Users |-> 0]
    /\ intents = {}
    /\ executed = {}
    /\ proven = {}
    /\ escrows = [id \in Ids |-> NoEscrow(id)]
    /\ credit = [t \in Tokens |-> [a \in Accounts |-> 0]]
    /\ balance = [t \in Tokens |-> 0]
    /\ permit2 = FALSE
    /\ trustedRelayer \in Relayers

-----------------------------------------------------------------------------
(* EscrowVault.                                                            *)

\* Mutant: a second payment takes the slot of the first.
OpenEscrowOverwrites(id, payer, token, amount, deadline) ==
    /\ escrows' = [escrows EXCEPT ![id] = [status |-> "Pending", payer |-> payer, token |-> token,
                                           amount |-> amount, deadline |-> deadline]]
    /\ balance' = [balance EXCEPT ![token] = @ + amount]

\* _openNativeEscrow() and _openTokenEscrow(); the value has arrived.
OpenEscrow(id, payer, token, amount, deadline) ==
    /\ escrows[id].status = "None"
    /\ escrows' = [escrows EXCEPT ![id] = [status |-> "Pending", payer |-> payer, token |-> token,
                                           amount |-> amount, deadline |-> deadline]]
    /\ balance' = [balance EXCEPT ![token] = @ + amount]

Credit(token, to, amount) == credit' = [credit EXCEPT ![token][to] = @ + amount]

ReleaseEscrow(id, to) ==
    /\ escrows[id].status = "Pending"
    /\ escrows' = [escrows EXCEPT ![id].status = "Released"]
    /\ Credit(escrows[id].token, to, escrows[id].amount)

\* Mutant: a refund leaves the escrow pending.
RefundEscrowStaysPending(id) ==
    /\ escrows[id].status = "Pending"
    /\ now > escrows[id].deadline
    /\ Credit(escrows[id].token, escrows[id].payer, escrows[id].amount)
    /\ UNCHANGED escrows

\* Mutant: a refund is due at the deadline already.
RefundEscrowAtDeadline(id) ==
    /\ escrows[id].status = "Pending"
    /\ now >= escrows[id].deadline
    /\ escrows' = [escrows EXCEPT ![id].status = "Refunded"]
    /\ Credit(escrows[id].token, escrows[id].payer, escrows[id].amount)

\* Mutant: a refund goes to the sender the id names, not to who paid.
RefundEscrowToSender(id) ==
    /\ escrows[id].status = "Pending"
    /\ now > escrows[id].deadline
    /\ escrows' = [escrows EXCEPT ![id].status = "Refunded"]
    /\ Credit(escrows[id].token, id.sender, escrows[id].amount)

RefundEscrow(id) ==
    /\ escrows[id].status = "Pending"
    /\ now > escrows[id].deadline
    /\ escrows' = [escrows EXCEPT ![id].status = "Refunded"]
    /\ Credit(escrows[id].token, escrows[id].payer, escrows[id].amount)

\* withdraw() for the native token, withdrawToken() for the other.
Withdraw(account, token) ==
    /\ credit[token][account] # 0
    /\ balance[token] >= credit[token][account]
    /\ credit' = [credit EXCEPT ![token][account] = 0]
    /\ balance' = [balance EXCEPT ![token] = @ - credit[token][account]]
    /\ UNCHANGED <<now, intentState, escrows, admin>>

-----------------------------------------------------------------------------
(* BosphorEscrowAdapter.                                                   *)

\* Mutant: the payment is not checked against the fee.
SubmitIntentUnpaid(user, blob, deadline, value, fee) ==
    LET id == [sender |-> user, nonce |-> nonces[user], blob |-> blob, deadline |-> deadline]
    IN  /\ nonces[user] < MaxNonce
        /\ now <= deadline
        /\ id \notin intents
        /\ OpenEscrow(id, user, "native", value - fee, deadline)
        /\ nonces' = [nonces EXCEPT ![user] = @ + 1]
        /\ intents' = intents \union {id}
        /\ UNCHANGED <<now, executed, proven, credit, admin>>

\* submitIntent() and _escrowAndSend(): the fee goes to the endpoint at once.
SubmitIntent(user, blob, deadline, value, fee) ==
    LET id == [sender |-> user, nonce |-> nonces[user], blob |-> blob, deadline |-> deadline]
    IN  /\ nonces[user] < MaxNonce
        /\ now <= deadline
        /\ id \notin intents
        /\ value >= fee
        /\ OpenEscrow(id, user, "native", value - fee, deadline)
        /\ nonces' = [nonces EXCEPT ![user] = @ + 1]
        /\ intents' = intents \union {id}
        /\ UNCHANGED <<now, executed, proven, credit, admin>>

MarkExecuted(id) ==
    /\ id \in intents
    /\ id \notin executed
    /\ executed' = executed \union {id}

\* _lzReceive() of a type 1 message: both effects or, when either reverts, none.
LzReceive(id, blob) ==
    /\ blob = id.blob
    /\ MarkExecuted(id)
    /\ ReleaseEscrow(id, trustedRelayer)
    /\ proven' = proven \union {id}
    /\ UNCHANGED <<now, nonces, intents, balance, admin>>

\* Mutant: the owner's confirmation releases the escrow as a proof does.
ConfirmExecutionReleases(id) ==
    /\ MarkExecuted(id)
    /\ ReleaseEscrow(id, trustedRelayer)
    /\ UNCHANGED <<now, nonces, intents, proven, balance, admin>>

\* Owner only; moves no value.
ConfirmExecution(id) ==
    /\ MarkExecuted(id)
    /\ UNCHANGED <<now, nonces, intents, proven, ledgers, admin>>

\* Permit2 pulls the permitted amount from the caller for this intent id only.
DepositUsdcWithPermit2(user, id, deadline, amount) ==
    /\ permit2
    /\ OpenEscrow(id, user, "usdc", amount, deadline)
    /\ UNCHANGED <<now, intentState, credit, admin>>

Refund(id) ==
    /\ RefundEscrow(id)
    /\ UNCHANGED <<now, intentState, balance, admin>>

SetPermit2(on) ==
    /\ permit2' = on
    /\ UNCHANGED <<now, intentState, ledgers, trustedRelayer>>

SetRelayer(relayer) ==
    /\ trustedRelayer' = relayer
    /\ UNCHANGED <<now, intentState, ledgers, permit2>>

NextBlock ==
    /\ now < MaxTime
    /\ now' = now + 1
    /\ UNCHANGED <<intentState, ledgers, admin>>

-----------------------------------------------------------------------------

IdNext(id) ==
    \/ \E blob \in Blobs : LzReceive(id, blob)
    \/ ConfirmExecution(id)
    \/ Refund(id)
    \/ \E user \in Users, deadline \in Deadlines, amount \in Payments :
           DepositUsdcWithPermit2(user, id, deadline, amount)

Next ==
    \/ \E user \in Users, blob \in Blobs, deadline \in Deadlines, value \in Payments, fee \in Fees :
           SubmitIntent(user, blob, deadline, value, fee)
    \/ \E id \in Ids : IdNext(id)
    \/ \E account \in Accounts, token \in Tokens : Withdraw(account, token)
    \/ \E on \in BOOLEAN : SetPermit2(on)
    \/ \E relayer \in Relayers : SetRelayer(relayer)
    \/ NextBlock

Spec == Init /\ [][Next]_vars

-----------------------------------------------------------------------------
(* Safety.                                                                 *)

\* What the contract owes of a token: pending escrows and credits not withdrawn.
Owed(token) ==
    LET pending == {id \in Ids : escrows[id].status = "Pending" /\ escrows[id].token = token}
    IN  MapThenSumSet(LAMBDA id : escrows[id].amount, pending)
        + MapThenSumSet(LAMBDA a : credit[token][a], Accounts)

\* Conservation: the contract holds exactly what it owes, in each token, so no
\* release, refund or withdrawal can be paid twice or with another payer's money.
Solvent == \A token \in Tokens : balance[token] = Owed(token)

\* An escrow is released exactly for the intents a proof packet has executed.  An
\* owner confirmation never moves it, and a proof that arrives after a refund
\* leaves no trace.
ReleasedMeansProven == \A id \in Ids : escrows[id].status = "Released" <=> id \in proven

\* An escrow is refunded only after its own deadline, that of the deposit.
RefundedAfterDeadline ==
    \A id \in Ids : escrows[id].status = "Refunded" => now > escrows[id].deadline

\* One escrow slot per intent id: a submitted intent is paid in native value by its
\* sender, and a deposit through Permit2 can only ever be refunded to its payer.
SlotBelongsToSubmission ==
    \A id \in Ids :
        /\ id \in intents => escrows[id].status # "None" /\ escrows[id].token = "native"
                             /\ escrows[id].payer = id.sender /\ escrows[id].deadline = id.deadline
        /\ escrows[id].token = "usdc" => escrows[id].status # "Released"

\* Credit grows only for the payer of an escrow past its deadline, or for the relayer
\* trusted at the time, by the escrow's amount; it shrinks only to zero.
CreditsAreEarned ==
    [][\A token \in Tokens, a \in Accounts :
         credit'[token][a] # credit[token][a] =>
           \/ credit'[token][a] = 0
           \/ \E id \in Ids :
                /\ escrows[id].status = "Pending" /\ escrows[id].token = token
                /\ credit'[token][a] = credit[token][a] + escrows[id].amount
                /\ \/ escrows'[id].status = "Refunded" /\ a = escrows[id].payer
                   \/ escrows'[id].status = "Released" /\ a = trustedRelayer]_vars
=============================================================================
