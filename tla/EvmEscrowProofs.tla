---------------------------- MODULE EvmEscrowProofs ----------------------------
(***************************************************************************)
(* Theorems about EvmEscrow, for every set of users, relayers, blobs,      *)
(* deadlines, payments and fees, any number of submissions and any clock.  *)
(***************************************************************************)
EXTENDS EvmEscrow, FiniteSetTheorems, TLAPS

\* The inductive invariant.  The parts need each other: a proof releases a native
\* escrow only because the slot of a submitted intent is native, and a refund
\* spares the proven intents only because their escrow is no longer pending.
EscrowInv ==
    /\ TypeOK
    /\ ReleasedMeansProven
    /\ RefundedAfterDeadline
    /\ SlotBelongsToSubmission

\* Neither a submission nor an execution is ever taken back.
LEMMA NothingUndone == [Next]_vars => intents \subseteq intents' /\ executed \subseteq executed'
<1> SUFFICES ASSUME [Next]_vars PROVE intents \subseteq intents' /\ executed \subseteq executed'
  OBVIOUS
<1>1. ASSUME NEW user \in Users, NEW blob \in Blobs, NEW deadline \in Deadlines,
             NEW value \in Payments, NEW fee \in Fees,
             SubmitIntent(user, blob, deadline, value, fee)
      PROVE  intents \subseteq intents' /\ executed \subseteq executed'
  BY <1>1 DEF SubmitIntent
<1>2. ASSUME NEW id \in Ids, IdNext(id)
      PROVE  intents \subseteq intents' /\ executed \subseteq executed'
  BY <1>2 DEF IdNext, LzReceive, ConfirmExecution, MarkExecuted, Refund, DepositUsdcWithPermit2,
              intentState
<1>3. ASSUME NEW account \in Accounts, NEW token \in Tokens, Withdraw(account, token)
      PROVE  intents \subseteq intents' /\ executed \subseteq executed'
  BY <1>3 DEF Withdraw, intentState
<1>4. CASE \/ \E on \in BOOLEAN : SetPermit2(on)
           \/ \E relayer \in Relayers : SetRelayer(relayer)
           \/ NextBlock
  BY <1>4 DEF SetPermit2, SetRelayer, NextBlock, intentState
<1>5. CASE UNCHANGED vars
  BY <1>5 DEF vars, intentState
<1> QED BY <1>1, <1>2, <1>3, <1>4, <1>5 DEF Next

-----------------------------------------------------------------------------
(* Sums over finite sets.                                                  *)

\* Induction over the subsets of a finite set.
LEMMA SubsetInduction ==
    ASSUME NEW S, IsFiniteSet(S), NEW P,
           \A T \in SUBSET S : (\A x \in T : T \ {x} \in P) => T \in P
    PROVE  SUBSET S \subseteq P
<1> DEFINE bad == (SUBSET S) \ P
<1>1. SUFFICES ASSUME bad # {} PROVE FALSE
  OBVIOUS
<1>2. PICK T \in bad : \A U \in bad : ~(<<U, T>> \in StrictSubsetOrdering(S))
  <2>1. IsWellFoundedOn(StrictSubsetOrdering(S), SUBSET S)
    BY FS_StrictSubsetOrderingWellFounded, FS_FiniteSubsetsOfFinite
  <2>2. bad \subseteq SUBSET S
    OBVIOUS
  <2> QED BY <1>1, <2>1, <2>2, WFMin
<1>3. ASSUME NEW x \in T PROVE T \ {x} \in P
  <2> DEFINE U == T \ {x}
  <2>1. U \in SUBSET S /\ T \in SUBSET S /\ U \subseteq T /\ U # T
    OBVIOUS
  <2>2. <<U, T>> \in StrictSubsetOrdering(S)
    BY <2>1 DEF StrictSubsetOrdering
  <2>3. U \notin bad
    BY <1>2, <2>2
  <2> QED BY <2>1, <2>3
<1> QED BY <1>2, <1>3

\* Induction over the natural numbers.
LEMMA NatInduct ==
    ASSUME NEW P, 0 \in P, \A n \in Nat : n \in P => n + 1 \in P
    PROVE  Nat \subseteq P
<1> DEFINE bad == Nat \ P
<1>1. SUFFICES ASSUME bad # {} PROVE FALSE
  OBVIOUS
<1>2. PICK n \in bad : \A m \in bad : ~(<<m, n>> \in OpToRel(<, Nat))
  <2>1. bad \subseteq Nat
    OBVIOUS
  <2> QED BY <1>1, <2>1, NatLessThanWellFounded, WFMin, Zenon
<1>3. n \in Nat /\ n # 0 /\ n - 1 \in Nat /\ n = (n - 1) + 1
  OBVIOUS
<1>4. n - 1 \notin P
  BY <1>3
<1>5. <<n - 1, n>> \in OpToRel(<, Nat)
  <2> DEFINE k == n - 1
  <2>1. k \in Nat /\ n \in Nat /\ k < n
    BY <1>3
  <2> HIDE DEF k
  <2>2. <<k, n>> \in {p \in Nat \X Nat : p[1] < p[2]}
    BY <2>1
  <2>3. OpToRel(<, Nat) = {p \in Nat \X Nat : p[1] < p[2]}
    BY Zenon DEF OpToRel
  <2>4. <<k, n>> \in OpToRel(<, Nat)
    BY <2>2, <2>3, Zenon
  <2> QED BY <2>4 DEF k
<1> QED BY <1>2, <1>3, <1>4, <1>5

\* g is the function that MapThenSumSet computes for f and the subsets of S.
IsSum(f, S, g) ==
    g = [s \in SUBSET S |-> IF s = {} THEN 0
                            ELSE LET x == CHOOSE x \in s : TRUE IN f[x] + g[s \ {x}]]

SumOver(f, S) == (CHOOSE g : IsSum(f, S, g))[S]

LEMMA SumExists ==
    ASSUME NEW f, NEW S, IsFiniteSet(S)
    PROVE  \E g : IsSum(f, S, g)
<1> DEFINE D(n) == {s \in SUBSET S : Cardinality(s) <= n}
           Body(g, s) == IF s = {} THEN 0 ELSE LET x == CHOOSE x \in s : TRUE IN f[x] + g[s \ {x}]
           P == {n \in Nat : \E g : g = [s \in D(n) |-> Body(g, s)]}
<1>1. \A s \in SUBSET S :
        IsFiniteSet(s) /\ Cardinality(s) \in Nat /\ (Cardinality(s) = 0 <=> s = {})
  BY FS_Subset, FS_CardinalityType, FS_EmptySet
<1>2. 0 \in P
  <2> DEFINE g == [s \in D(0) |-> 0]
  <2>1. \A s \in D(0) : s = {}
    BY <1>1
  <2>2. [s \in D(0) |-> Body(g, s)] = [s \in D(0) |-> 0]
    BY <2>1, Zenon
  <2>3. g = [s \in D(0) |-> Body(g, s)]
    BY <2>2, Zenon
  <2> QED BY <2>3
<1>3. ASSUME NEW n \in Nat, n \in P PROVE n + 1 \in P
  <2>1. PICK g : g = [s \in D(n) |-> Body(g, s)]
    BY <1>3, Zenon
  <2> DEFINE m == n + 1
             h == [s \in D(m) |-> Body(g, s)]
  <2>2. \A s \in D(n) : s \in D(m)
    BY <1>1
  <2>3. ASSUME NEW s \in D(m), s # {}
        PROVE  LET x == CHOOSE x \in s : TRUE IN h[s \ {x}] = g[s \ {x}]
    <3> DEFINE x == CHOOSE x \in s : TRUE
    <3>1. x \in s
      BY <2>3
    <3>2. IsFiniteSet(s) /\ Cardinality(s) <= n + 1 /\ Cardinality(s) \in Nat
      BY <1>1
    <3>3. Cardinality(s \ {x}) = Cardinality(s) - 1
      BY <3>1, <3>2, FS_RemoveElement
    <3>4. s \ {x} \in D(n)
      BY <3>2, <3>3
    <3> DEFINE u == s \ {x}
    <3>5. g[u] = Body(g, u)
      BY <2>1, <3>4, Zenon
    <3>6. h[u] = Body(g, u)
      BY <2>2, <3>4, Zenon
    <3> QED BY <3>5, <3>6, Zenon
  <2>4. \A s \in D(m) : Body(h, s) = Body(g, s)
    <3> SUFFICES ASSUME NEW s \in D(m) PROVE Body(h, s) = Body(g, s)
      BY Zenon
    <3>1. CASE s = {}
      BY <3>1, Zenon
    <3>2. CASE s # {}
      <4>1. LET x == CHOOSE x \in s : TRUE IN h[s \ {x}] = g[s \ {x}]
        BY <2>3, <3>2, Zenon
      <4> HIDE DEF h, D, m
      <4> QED BY <3>2, <4>1, Zenon
    <3> QED BY <3>1, <3>2, Zenon
  <2>5. h = [s \in D(m) |-> Body(h, s)]
    <3> HIDE DEF D, m, Body
    <3> QED BY <2>4, Zenon
  <2>6. m \in Nat
    OBVIOUS
  <2> HIDE DEF h, m, Body, D
  <2>7. m \in P
    BY <2>5, <2>6, Zenon
  <2> QED BY <2>7 DEF m
<1>4. Nat \subseteq P
  <2> HIDE DEF P
  <2> QED BY <1>2, <1>3, NatInduct
<1>5. PICK n \in Nat : n = Cardinality(S)
  BY FS_CardinalityType
<1>6. n \in P
  BY <1>4, <1>5
<1>7. D(n) = SUBSET S
  BY <1>5, FS_Subset
<1>8. PICK g : g = [s \in D(n) |-> Body(g, s)]
  BY <1>6, Zenon
<1>9. g = [s \in SUBSET S |-> Body(g, s)]
  BY <1>7, <1>8, Zenon
<1> QED BY <1>9, Zenon DEF IsSum

LEMMA SumUnfold ==
    ASSUME NEW f, NEW S, NEW g, IsSum(f, S, g), NEW T \in SUBSET S
    PROVE  /\ T = {} => g[T] = 0
           /\ T # {} => \E c \in T : c = (CHOOSE x \in T : TRUE) /\ g[T] = f[c] + g[T \ {c}]
<1>1. CASE T = {}
  BY <1>1, Zenon DEF IsSum
<1>2. CASE T # {}
  <2>1. PICK c : c = CHOOSE x \in T : TRUE
    BY Zenon
  <2>2. c \in T
    BY <1>2, <2>1, Zenon
  <2>3. g[T] = f[c] + g[T \ {c}]
    BY <1>2, <2>1, Zenon DEF IsSum
  <2> QED BY <1>2, <2>1, <2>2, <2>3, Zenon
<1> QED BY <1>1, <1>2, Zenon

LEMMA SumPull ==
    ASSUME NEW f, NEW S, IsFiniteSet(S), \A x \in S : f[x] \in Int, NEW g, IsSum(f, S, g),
           NEW R \in SUBSET S
    PROVE  g[R] \in Int /\ \A x \in R : g[R] = f[x] + g[R \ {x}]
<1>1. \A T \in SUBSET S : g[T] \in Int
  <2> DEFINE P == {T \in SUBSET S : g[T] \in Int}
  <2>1. ASSUME NEW T \in SUBSET S, \A x \in T : T \ {x} \in P PROVE T \in P
    <3>1. CASE T = {}
      BY <3>1, SumUnfold
    <3>2. CASE T # {}
      <4>1. PICK c \in T : g[T] = f[c] + g[T \ {c}]
        BY <3>2, SumUnfold
      <4>2. f[c] \in Int /\ g[T \ {c}] \in Int
        BY <2>1
      <4> QED BY <4>1, <4>2
    <3> QED BY <3>1, <3>2
  <2>2. SUBSET S \subseteq P
    <3> HIDE DEF P
    <3> QED BY <2>1, SubsetInduction
  <2> QED BY <2>2
<1> DEFINE P == {T \in SUBSET S : \A x \in T : g[T] = f[x] + g[T \ {x}]}
<1>2. ASSUME NEW T \in SUBSET S, \A x \in T : T \ {x} \in P PROVE T \in P
  <2>1. SUFFICES ASSUME NEW x \in T PROVE g[T] = f[x] + g[T \ {x}]
    OBVIOUS
  <2>2. PICK c \in T : g[T] = f[c] + g[T \ {c}]
    BY SumUnfold
  <2>3. CASE x = c
    BY <2>2, <2>3
  <2>4. CASE x # c
    <3>1. PICK U \in SUBSET S : U = (T \ {x}) \ {c} /\ U = (T \ {c}) \ {x}
      OBVIOUS
    <3>2. g[T \ {c}] = f[x] + g[U]
      BY <1>2, <2>4, <3>1
    <3>3. g[T \ {x}] = f[c] + g[U]
      BY <1>2, <2>4, <3>1
    <3>4. g[U] \in Int /\ f[c] \in Int /\ f[x] \in Int
      BY <1>1
    <3> QED BY <2>2, <3>2, <3>3, <3>4
  <2> QED BY <2>3, <2>4
<1>3. SUBSET S \subseteq P
  <2> HIDE DEF P
  <2> QED BY <1>2, SubsetInduction
<1> QED BY <1>1, <1>3

\* What is summed over a set depends on the function's values there only.
LEMMA SumLocal ==
    ASSUME NEW f, NEW S, NEW g, IsSum(f, S, g), NEW e, NEW R, NEW h, IsSum(e, R, h),
           NEW T \in SUBSET S, IsFiniteSet(T), T \in SUBSET R, \A x \in T : f[x] = e[x]
    PROVE  g[T] = h[T]
<1> DEFINE P == {U \in SUBSET T : g[U] = h[U]}
<1>1. ASSUME NEW U \in SUBSET T, \A x \in U : U \ {x} \in P PROVE U \in P
  <2>0. U \in SUBSET S /\ U \in SUBSET R
    OBVIOUS
  <2>1. CASE U = {}
    BY <2>0, <2>1, SumUnfold
  <2>2. CASE U # {}
    <3>1. PICK c \in U : c = (CHOOSE x \in U : TRUE) /\ g[U] = f[c] + g[U \ {c}]
      BY <2>0, <2>2, SumUnfold
    <3>2. PICK d \in U : d = (CHOOSE x \in U : TRUE) /\ h[U] = e[d] + h[U \ {d}]
      BY <2>0, <2>2, SumUnfold
    <3>3. c = d /\ f[c] = e[c] /\ g[U \ {c}] = h[U \ {c}]
      BY <1>1, <3>1, <3>2
    <3>4. g[U] = h[U]
      BY <3>1, <3>2, <3>3, Zenon
    <3> QED BY <3>4
  <2> QED BY <2>1, <2>2
<1>2. SUBSET T \subseteq P
  <2> HIDE DEF P
  <2> QED BY <1>1, SubsetInduction
<1> QED BY <1>2

LEMMA SumOverIs ==
    ASSUME NEW f, NEW S, IsFiniteSet(S)
    PROVE  \E g : IsSum(f, S, g) /\ SumOver(f, S) = g[S]
<1>1. IsSum(f, S, CHOOSE g : IsSum(f, S, g))
  BY SumExists, Zenon
<1> QED BY <1>1, Zenon DEF SumOver

\* The sum over a set is an integer, nothing for the empty set, and loses the value of
\* an element with that element.
LEMMA SumElement ==
    ASSUME NEW f, NEW S, IsFiniteSet(S), \A x \in S : f[x] \in Int
    PROVE  /\ SumOver(f, S) \in Int
           /\ S = {} => SumOver(f, S) = 0
           /\ \A x \in S : SumOver(f, S) = f[x] + SumOver(f, S \ {x})
<1>1. PICK g : IsSum(f, S, g) /\ SumOver(f, S) = g[S]
  BY SumOverIs, Zenon
<1>2. S \in SUBSET S
  OBVIOUS
<1>3. SumOver(f, S) \in Int /\ \A x \in S : SumOver(f, S) = f[x] + g[S \ {x}]
  <2>1. g[S] \in Int /\ \A x \in S : g[S] = f[x] + g[S \ {x}]
    BY <1>1, <1>2, SumPull
  <2> QED BY <1>1, <2>1, Zenon
<1>4. S = {} => SumOver(f, S) = 0
  BY <1>1, <1>2, SumUnfold
<1>5. ASSUME NEW x \in S PROVE g[S \ {x}] = SumOver(f, S \ {x})
  <2>1. PICK R : R = S \ {x}
    BY Zenon
  <2>2. IsFiniteSet(R) /\ R \in SUBSET S /\ R \in SUBSET R
    BY <2>1, FS_Subset
  <2>3. PICK h : IsSum(f, R, h) /\ SumOver(f, R) = h[R]
    BY <2>2, SumOverIs, Zenon
  <2>4. g[R] = h[R]
    BY <1>1, <2>2, <2>3, SumLocal
  <2> QED BY <2>1, <2>3, <2>4
<1> QED BY <1>3, <1>4, <1>5

\* Two functions that agree on a set have the same sum over it.
LEMMA SumSame ==
    ASSUME NEW S, IsFiniteSet(S), NEW f, NEW e, \A x \in S : f[x] = e[x]
    PROVE  SumOver(f, S) = SumOver(e, S)
<1>1. PICK g : IsSum(f, S, g) /\ SumOver(f, S) = g[S]
  BY SumOverIs, Zenon
<1>2. PICK h : IsSum(e, S, h) /\ SumOver(e, S) = h[S]
  BY SumOverIs, Zenon
<1>3. S \in SUBSET S
  OBVIOUS
<1>4. g[S] = h[S]
  BY <1>1, <1>2, <1>3, SumLocal
<1> QED BY <1>1, <1>2, <1>4

\* A sum of zeros is zero.
LEMMA SumZero ==
    ASSUME NEW S, IsFiniteSet(S), NEW f, \A x \in S : f[x] = 0
    PROVE  SumOver(f, S) = 0
<1>1. PICK g : IsSum(f, S, g) /\ SumOver(f, S) = g[S]
  BY SumOverIs, Zenon
<1> DEFINE P == {T \in SUBSET S : g[T] = 0}
<1>2. ASSUME NEW T \in SUBSET S, \A x \in T : T \ {x} \in P PROVE T \in P
  <2>1. CASE T = {}
    BY <1>1, <2>1, SumUnfold
  <2>2. CASE T # {}
    <3>1. PICK c \in T : g[T] = f[c] + g[T \ {c}]
      BY <1>1, <2>2, SumUnfold
    <3>2. f[c] = 0 /\ g[T \ {c}] = 0
      BY <1>2
    <3> QED BY <3>1, <3>2
  <2> QED BY <2>1, <2>2
<1>3. SUBSET S \subseteq P
  <2> HIDE DEF P
  <2> QED BY <1>2, SubsetInduction
<1> QED BY <1>1, <1>3

\* One more element adds its value.
LEMMA SumAdd ==
    ASSUME NEW f, NEW S, IsFiniteSet(S), NEW x, x \notin S,
           \A y \in S \union {x} : f[y] \in Int
    PROVE  SumOver(f, S \union {x}) = SumOver(f, S) + f[x] /\ SumOver(f, S) \in Int
<1>1. PICK T : T = S \union {x}
  BY Zenon
<1>2. IsFiniteSet(T) /\ (\A y \in T : f[y] \in Int) /\ x \in T /\ T \ {x} = S /\ f[x] \in Int
  BY <1>1, FS_AddElement
<1>3. SumOver(f, T) \in Int /\ SumOver(f, T) = f[x] + SumOver(f, S)
  BY <1>2, SumElement
<1>4. SumOver(f, S) \in Int
  BY SumElement
<1> QED BY <1>1, <1>2, <1>3, <1>4

\* A changed value changes the sum by as much.
LEMMA SumChange ==
    ASSUME NEW S, IsFiniteSet(S), NEW f, NEW e, \A y \in S : f[y] \in Int /\ e[y] \in Int,
           NEW x \in S, \A y \in S \ {x} : e[y] = f[y]
    PROVE  SumOver(e, S) = SumOver(f, S) - f[x] + e[x]
<1>1. PICK R : R = S \ {x}
  BY Zenon
<1>2. IsFiniteSet(R) /\ x \notin R /\ S = R \union {x}
  BY <1>1, FS_Subset
<1>3. \A y \in R : f[y] \in Int /\ e[y] = f[y]
  BY <1>1
<1>4. SumOver(e, R) = SumOver(f, R) /\ SumOver(f, R) \in Int
  BY <1>2, <1>3, SumSame, SumElement
<1>5. SumOver(f, S) = f[x] + SumOver(f, R)
  BY <1>1, SumElement
<1>6. SumOver(e, S) = e[x] + SumOver(e, R)
  BY <1>1, SumElement
<1> QED BY <1>4, <1>5, <1>6

\* Every function that IsSum describes gives that sum.
LEMMA SumIs ==
    ASSUME NEW f, NEW S, IsFiniteSet(S), NEW g, IsSum(f, S, g)
    PROVE  g[S] = SumOver(f, S)
<1>1. PICK h : IsSum(f, S, h) /\ SumOver(f, S) = h[S]
  BY SumOverIs, Zenon
<1>2. S \in SUBSET S /\ \A x \in S : f[x] = f[x]
  OBVIOUS
<1>3. g[S] = h[S]
  BY <1>1, <1>2, SumLocal
<1> QED BY <1>1, <1>3

-----------------------------------------------------------------------------
(* The transitions of EscrowVault.                                         *)

\* A pull-payment credit keeps the ledgers well typed.
LEMMA CreditType ==
    ASSUME TypeOK, NEW token \in Tokens, NEW to \in Accounts, NEW amount \in Nat,
           Credit(token, to, amount)
    PROVE  credit' \in [Tokens -> [Accounts -> Nat]]
<1>1. credit[token] \in [Accounts -> Nat]
  BY DEF TypeOK
<1>2. [credit[token] EXCEPT ![to] = @ + amount] \in [Accounts -> Nat]
  BY <1>1
<1> QED BY <1>2 DEF TypeOK, Credit

\* A credit changes one entry of one ledger, by the amount.
LEMMA CreditEffect ==
    ASSUME TypeOK, NEW token \in Tokens, NEW to \in Accounts, NEW amount \in Nat,
           Credit(token, to, amount),
           NEW t \in Tokens, NEW a \in Accounts, credit'[t][a] # credit[t][a]
    PROVE  t = token /\ a = to /\ credit'[t][a] = credit[t][a] + amount
<1>1. credit[token] \in [Accounts -> Nat]
  BY DEF TypeOK
<1>2. credit' = [credit EXCEPT ![token] = [credit[token] EXCEPT ![to] = @ + amount]]
  BY DEF Credit
<1>3. t = token
  BY <1>2 DEF TypeOK
<1>4. credit'[t] = [credit[token] EXCEPT ![to] = @ + amount]
  BY <1>2, <1>3 DEF TypeOK
<1> QED BY <1>1, <1>3, <1>4

\* An escrow has the fields of its type.
LEMMA EscrowParts ==
    ASSUME TypeOK, NEW id \in Ids
    PROVE  /\ escrows[id] \in Escrow
           /\ escrows[id].payer \in Accounts
           /\ escrows[id].token \in Tokens
           /\ escrows[id].amount \in Nat
           /\ escrows[id].deadline \in Nat
  BY DEF TypeOK, Escrow

\* Opening a slot keeps the table and the holdings well typed.
LEMMA OpenEscrowType ==
    ASSUME TypeOK, NEW id \in Ids, NEW payer \in Users, NEW token \in Tokens,
           NEW amount \in Nat, NEW deadline \in Nat,
           OpenEscrow(id, payer, token, amount, deadline)
    PROVE  escrows' \in [Ids -> Escrow] /\ balance' \in [Tokens -> Int]
<1>1. [status |-> "Pending", payer |-> payer, token |-> token, amount |-> amount,
       deadline |-> deadline] \in Escrow
  BY DEF Escrow, Accounts
<1> QED BY <1>1 DEF TypeOK, OpenEscrow

\* So does settling one.
LEMMA SettleType ==
    ASSUME TypeOK, NEW id \in Ids, NEW status \in {"Released", "Refunded"},
           escrows' = [escrows EXCEPT ![id].status = status]
    PROVE  escrows' \in [Ids -> Escrow]
<1>1. [escrows[id] EXCEPT !.status = status] \in Escrow
  BY EscrowParts DEF Escrow
<1> QED BY <1>1 DEF TypeOK

\* The id a submission derives is an intent id.
LEMMA SubmittedId ==
    ASSUME EscrowAssumption, TypeOK, NEW user \in Users, NEW blob \in Blobs,
           NEW deadline \in Deadlines, nonces[user] < MaxNonce
    PROVE  [sender |-> user, nonce |-> nonces[user], blob |-> blob, deadline |-> deadline] \in Ids
<1>1. nonces[user] \in 0 .. MaxNonce - 1
  BY DEF TypeOK, EscrowAssumption
<1> QED BY <1>1 DEF Ids

-----------------------------------------------------------------------------
(* Type correctness.                                                       *)

LEMMA TypeInit == EscrowAssumption /\ Init => TypeOK
<1> SUFFICES ASSUME EscrowAssumption, Init PROVE TypeOK
  OBVIOUS
<1>1. \A id \in Ids : NoEscrow(id) \in Escrow
  BY DEF Ids, NoEscrow, Escrow, Accounts, Tokens
<1>2. escrows \in [Ids -> Escrow]
  BY <1>1 DEF Init
<1>3. credit \in [Tokens -> [Accounts -> Nat]]
  BY DEF Init
<1>4. now \in 0 .. MaxTime /\ nonces \in [Users -> 0 .. MaxNonce]
  BY DEF Init, EscrowAssumption
<1>5. intents \subseteq Ids /\ executed \subseteq Ids /\ proven \subseteq Ids
  BY DEF Init
<1>6. balance \in [Tokens -> Int]
  BY DEF Init
<1>7. permit2 \in BOOLEAN /\ trustedRelayer \in Relayers
  BY Zenon DEF Init
<1> QED BY <1>2, <1>3, <1>4, <1>5, <1>6, <1>7 DEF TypeOK

LEMMA TypeStep == EscrowAssumption /\ TypeOK /\ [Next]_vars => TypeOK'
<1> SUFFICES ASSUME EscrowAssumption, TypeOK, [Next]_vars PROVE TypeOK'
  OBVIOUS
<1>1. ASSUME NEW user \in Users, NEW blob \in Blobs, NEW deadline \in Deadlines,
             NEW value \in Payments, NEW fee \in Fees,
             SubmitIntent(user, blob, deadline, value, fee)
      PROVE  TypeOK'
  <2> DEFINE id == [sender |-> user, nonce |-> nonces[user], blob |-> blob,
                    deadline |-> deadline]
  <2>1. id \in Ids
    BY <1>1, SubmittedId DEF SubmitIntent
  <2>2. value - fee \in Nat /\ deadline \in Nat /\ "native" \in Tokens
    BY <1>1 DEF SubmitIntent, EscrowAssumption, Tokens
  <2>3. escrows' \in [Ids -> Escrow] /\ balance' \in [Tokens -> Int]
    <3> HIDE DEF id
    <3> OpenEscrow(id, user, "native", value - fee, deadline)
      BY <1>1 DEF SubmitIntent, id
    <3> QED BY <2>1, <2>2, OpenEscrowType
  <2>4. nonces' \in [Users -> 0 .. MaxNonce]
    BY <1>1 DEF SubmitIntent, TypeOK, EscrowAssumption
  <2>5. intents' \subseteq Ids
    BY <1>1, <2>1 DEF SubmitIntent, TypeOK
  <2> QED BY <1>1, <2>3, <2>4, <2>5 DEF SubmitIntent, TypeOK, admin
<1>2. ASSUME NEW id \in Ids, NEW blob \in Blobs, LzReceive(id, blob)
      PROVE  TypeOK'
  <2>1. trustedRelayer \in Accounts
    BY DEF TypeOK, Accounts
  <2>2. escrows' \in [Ids -> Escrow]
    BY <1>2, SettleType DEF LzReceive, ReleaseEscrow
  <2>3. credit' \in [Tokens -> [Accounts -> Nat]]
    BY <1>2, <2>1, EscrowParts, CreditType DEF LzReceive, ReleaseEscrow
  <2> QED BY <1>2, <2>2, <2>3 DEF LzReceive, MarkExecuted, TypeOK, admin
<1>3. ASSUME NEW id \in Ids, ConfirmExecution(id)
      PROVE  TypeOK'
  BY <1>3 DEF ConfirmExecution, MarkExecuted, TypeOK, ledgers, admin
<1>4. ASSUME NEW id \in Ids, Refund(id)
      PROVE  TypeOK'
  <2>1. escrows' \in [Ids -> Escrow]
    BY <1>4, SettleType DEF Refund, RefundEscrow
  <2>2. credit' \in [Tokens -> [Accounts -> Nat]]
    BY <1>4, EscrowParts, CreditType DEF Refund, RefundEscrow
  <2> QED BY <1>4, <2>1, <2>2 DEF Refund, TypeOK, intentState, admin
<1>5. ASSUME NEW id \in Ids, NEW user \in Users, NEW deadline \in Deadlines,
             NEW amount \in Payments, DepositUsdcWithPermit2(user, id, deadline, amount)
      PROVE  TypeOK'
  <2>1. amount \in Nat /\ deadline \in Nat /\ "usdc" \in Tokens
    BY DEF EscrowAssumption, Tokens
  <2>2. escrows' \in [Ids -> Escrow] /\ balance' \in [Tokens -> Int]
    BY <1>5, <2>1, OpenEscrowType DEF DepositUsdcWithPermit2
  <2> QED BY <1>5, <2>2 DEF DepositUsdcWithPermit2, TypeOK, intentState, admin
<1>6. ASSUME NEW account \in Accounts, NEW token \in Tokens, Withdraw(account, token)
      PROVE  TypeOK'
  <2>1. [credit[token] EXCEPT ![account] = 0] \in [Accounts -> Nat]
    BY DEF TypeOK
  <2>2. credit' \in [Tokens -> [Accounts -> Nat]]
    BY <1>6, <2>1 DEF Withdraw, TypeOK
  <2>3. balance' \in [Tokens -> Int]
    BY <1>6 DEF Withdraw, TypeOK
  <2> QED BY <1>6, <2>2, <2>3 DEF Withdraw, TypeOK, intentState, admin
<1>7. CASE \E on \in BOOLEAN : SetPermit2(on)
  BY <1>7 DEF SetPermit2, TypeOK, intentState, ledgers
<1>8. CASE \E relayer \in Relayers : SetRelayer(relayer)
  BY <1>8 DEF SetRelayer, TypeOK, intentState, ledgers
<1>9. CASE NextBlock
  BY <1>9 DEF NextBlock, TypeOK, EscrowAssumption, intentState, ledgers, admin
<1>10. CASE UNCHANGED vars
  BY <1>10 DEF vars, TypeOK, intentState, ledgers, admin
<1> QED BY <1>1, <1>2, <1>3, <1>4, <1>5, <1>6, <1>7, <1>8, <1>9, <1>10 DEF Next, IdNext

\* Type correctness, and with it: no escrow, credit or nonce leaves its range.
THEOREM TypeCorrect == Spec => []TypeOK
<1>1. Init => TypeOK
  BY EscrowAssumption, TypeInit
<1>2. TypeOK /\ [Next]_vars => TypeOK'
  BY EscrowAssumption, TypeStep
<1> QED BY <1>1, <1>2, PTL DEF Spec

-----------------------------------------------------------------------------
(* The inductive invariant.                                                *)

LEMMA EscrowInit == Init => EscrowInv
<1> SUFFICES ASSUME Init PROVE EscrowInv
  OBVIOUS
<1>1. TypeOK
  BY EscrowAssumption, TypeInit
<1>2. \A id \in Ids : escrows[id].status = "None" /\ escrows[id].token = "native"
  BY DEF Init, NoEscrow
<1> QED
  BY <1>1, <1>2 DEF Init, EscrowInv, ReleasedMeansProven, RefundedAfterDeadline,
                    SlotBelongsToSubmission

\* A step that leaves the slots, the intents and the proofs alone keeps the invariant,
\* whatever it does to the clock's future, the credits and the configuration.
LEMMA Aside ==
    ASSUME EscrowInv, TypeOK', now' >= now, UNCHANGED <<escrows, intents, proven>>
    PROVE  EscrowInv'
<1>1. \A id \in Ids : now > escrows[id].deadline => now' > escrows'[id].deadline
  <2> SUFFICES ASSUME NEW id \in Ids, now > escrows[id].deadline
               PROVE  now' > escrows'[id].deadline
    OBVIOUS
  <2>1. now \in Int /\ now' \in Int /\ escrows[id].deadline \in Int
    BY EscrowParts DEF EscrowInv, TypeOK
  <2> QED BY <2>1
<1> QED
  BY <1>1 DEF EscrowInv, ReleasedMeansProven, RefundedAfterDeadline, SlotBelongsToSubmission

\* A new slot is pending, and its id was neither proven nor, unless this very step
\* submits it, an intent.
LEMMA OpenEscrowKeeps ==
    ASSUME EscrowInv, TypeOK', NEW id \in Ids, NEW payer \in Users, NEW token \in Tokens,
           NEW amount \in Nat, NEW deadline \in Nat,
           OpenEscrow(id, payer, token, amount, deadline), UNCHANGED <<now, proven>>,
           \/ intents' = intents
           \/ /\ intents' = intents \union {id}
              /\ token = "native" /\ payer = id.sender /\ deadline = id.deadline
    PROVE  EscrowInv'
<1>1. escrows[id].status = "None"
  BY DEF OpenEscrow
<1>2. id \notin proven /\ id \notin intents
  BY <1>1 DEF EscrowInv, ReleasedMeansProven, SlotBelongsToSubmission
<1>3. /\ escrows'[id].status = "Pending" /\ escrows'[id].token = token
      /\ escrows'[id].payer = payer /\ escrows'[id].deadline = deadline
  BY DEF OpenEscrow, EscrowInv, TypeOK
<1>4. \A other \in Ids : other # id => escrows'[other] = escrows[other]
  BY DEF OpenEscrow, EscrowInv, TypeOK
<1>5. ReleasedMeansProven'
  BY <1>2, <1>3, <1>4 DEF EscrowInv, ReleasedMeansProven
<1>6. RefundedAfterDeadline'
  BY <1>3, <1>4 DEF EscrowInv, RefundedAfterDeadline
<1>7. SlotBelongsToSubmission'
  BY <1>2, <1>3, <1>4 DEF EscrowInv, SlotBelongsToSubmission
<1> QED BY <1>5, <1>6, <1>7 DEF EscrowInv

LEMMA EscrowStep == EscrowInv /\ [Next]_vars => EscrowInv'
<1> SUFFICES ASSUME EscrowInv, [Next]_vars PROVE EscrowInv'
  OBVIOUS
<1>0. TypeOK'
  BY EscrowAssumption, TypeStep DEF EscrowInv
<1>n. now \in Int
  BY DEF EscrowInv, TypeOK
<1>1. ASSUME NEW user \in Users, NEW blob \in Blobs, NEW deadline \in Deadlines,
             NEW value \in Payments, NEW fee \in Fees,
             SubmitIntent(user, blob, deadline, value, fee)
      PROVE  EscrowInv'
  <2> DEFINE id == [sender |-> user, nonce |-> nonces[user], blob |-> blob,
                    deadline |-> deadline]
  <2>1. id \in Ids
    BY <1>1, EscrowAssumption, SubmittedId DEF SubmitIntent, EscrowInv
  <2>2. value - fee \in Nat /\ deadline \in Nat /\ "native" \in Tokens
    BY <1>1, EscrowAssumption DEF SubmitIntent, EscrowAssumption, Tokens
  <2>3. user = id.sender /\ deadline = id.deadline
    OBVIOUS
  <2>4. /\ OpenEscrow(id, user, "native", value - fee, deadline)
        /\ UNCHANGED <<now, proven>> /\ intents' = intents \union {id}
    BY <1>1 DEF SubmitIntent
  <2> HIDE DEF id
  <2> QED BY <1>0, <2>1, <2>2, <2>3, <2>4, OpenEscrowKeeps
<1>2. ASSUME NEW id \in Ids, NEW blob \in Blobs, LzReceive(id, blob)
      PROVE  EscrowInv'
  <2>1. id \in intents /\ escrows[id].status = "Pending" /\ escrows[id].token = "native"
    BY <1>2 DEF LzReceive, MarkExecuted, ReleaseEscrow, EscrowInv, SlotBelongsToSubmission
  <2>2. escrows' = [escrows EXCEPT ![id].status = "Released"]
    BY <1>2 DEF LzReceive, ReleaseEscrow
  <2>3. /\ escrows'[id].status = "Released" /\ escrows'[id].token = "native"
        /\ escrows'[id].payer = escrows[id].payer
        /\ escrows'[id].deadline = escrows[id].deadline
    BY <2>1, <2>2, EscrowParts DEF EscrowInv, TypeOK, Escrow
  <2>4. \A other \in Ids : other # id => escrows'[other] = escrows[other]
    BY <2>2 DEF EscrowInv, TypeOK
  <2>5. UNCHANGED <<now, intents>> /\ proven' = proven \union {id}
    BY <1>2 DEF LzReceive
  <2>6. ReleasedMeansProven'
    BY <2>3, <2>4, <2>5 DEF EscrowInv, ReleasedMeansProven
  <2>7. RefundedAfterDeadline'
    BY <2>3, <2>4, <2>5 DEF EscrowInv, RefundedAfterDeadline
  <2>8. SlotBelongsToSubmission'
    BY <2>1, <2>3, <2>4, <2>5 DEF EscrowInv, SlotBelongsToSubmission
  <2> QED BY <1>0, <2>6, <2>7, <2>8 DEF EscrowInv
<1>3. ASSUME NEW id \in Ids, ConfirmExecution(id)
      PROVE  EscrowInv'
  BY <1>0, <1>3, <1>n, Aside DEF ConfirmExecution, ledgers
<1>4. ASSUME NEW id \in Ids, Refund(id)
      PROVE  EscrowInv'
  <2>1. escrows[id].status = "Pending" /\ now > escrows[id].deadline
    BY <1>4 DEF Refund, RefundEscrow
  <2>2. escrows' = [escrows EXCEPT ![id].status = "Refunded"]
    BY <1>4 DEF Refund, RefundEscrow
  <2>3. /\ escrows'[id].status = "Refunded" /\ escrows'[id].token = escrows[id].token
        /\ escrows'[id].payer = escrows[id].payer
        /\ escrows'[id].deadline = escrows[id].deadline
    BY <2>1, <2>2, EscrowParts DEF EscrowInv, TypeOK, Escrow
  <2>4. \A other \in Ids : other # id => escrows'[other] = escrows[other]
    BY <2>2 DEF EscrowInv, TypeOK
  <2>5. UNCHANGED <<now, intents, proven>>
    BY <1>4 DEF Refund, intentState
  <2>6. ReleasedMeansProven'
    BY <2>1, <2>3, <2>4, <2>5 DEF EscrowInv, ReleasedMeansProven
  <2>7. RefundedAfterDeadline'
    BY <2>1, <2>3, <2>4, <2>5 DEF EscrowInv, RefundedAfterDeadline
  <2>8. SlotBelongsToSubmission'
    BY <2>3, <2>4, <2>5 DEF EscrowInv, SlotBelongsToSubmission
  <2> QED BY <1>0, <2>6, <2>7, <2>8 DEF EscrowInv
<1>5. ASSUME NEW id \in Ids, NEW user \in Users, NEW deadline \in Deadlines,
             NEW amount \in Payments, DepositUsdcWithPermit2(user, id, deadline, amount)
      PROVE  EscrowInv'
  <2>1. amount \in Nat /\ deadline \in Nat /\ "usdc" \in Tokens
    BY EscrowAssumption DEF EscrowAssumption, Tokens
  <2> QED
    BY <1>0, <1>5, <2>1, OpenEscrowKeeps DEF DepositUsdcWithPermit2, intentState
<1>6. CASE \E account \in Accounts, token \in Tokens : Withdraw(account, token)
  BY <1>0, <1>6, <1>n, Aside DEF Withdraw, intentState
<1>7. CASE \E on \in BOOLEAN : SetPermit2(on)
  BY <1>0, <1>7, <1>n, Aside DEF SetPermit2, intentState, ledgers
<1>8. CASE \E relayer \in Relayers : SetRelayer(relayer)
  BY <1>0, <1>8, <1>n, Aside DEF SetRelayer, intentState, ledgers
<1>9. CASE NextBlock
  BY <1>0, <1>9, <1>n, Aside DEF NextBlock, intentState, ledgers
<1>10. CASE UNCHANGED vars
  BY <1>0, <1>10, <1>n, Aside DEF vars, intentState, ledgers
<1> QED BY <1>1, <1>2, <1>3, <1>4, <1>5, <1>6, <1>7, <1>8, <1>9, <1>10 DEF Next, IdNext

LEMMA EscrowInvariant == Spec => []EscrowInv
  BY EscrowInit, EscrowStep, PTL DEF Spec

-----------------------------------------------------------------------------
(* What the contract owes.                                                 *)

\* What Owed() computes from an escrow table and the credits.
OwedBy(E, C, token) ==
    LET pending == {id \in Ids : E[id].status = "Pending" /\ E[id].token = token}
    IN  MapThenSumSet(LAMBDA id : E[id].amount, pending)
        + MapThenSumSet(LAMBDA a : C[token][a], Accounts)

Pending(E, token) == {id \in Ids : E[id].status = "Pending" /\ E[id].token = token}
Amounts(E) == [id \in Ids |-> E[id].amount]
Held(E, token) == SumOver(Amounts(E), Pending(E, token))

\* F is E with a new escrow of n in token k, and with a settled escrow of n in token k; D
\* is C with the credit of one account in token k raised by d.
Opened(E, F, id, k, n) ==
    /\ E \in [Ids -> Escrow] /\ id \in Ids /\ E[id].status = "None"
    /\ \E e \in Escrow : /\ e.status = "Pending" /\ e.token = k /\ e.amount = n
                         /\ F = [E EXCEPT ![id] = e]
Settled(E, F, id, k, n) ==
    /\ E \in [Ids -> Escrow] /\ id \in Ids /\ E[id].status = "Pending"
    /\ E[id].token = k /\ E[id].amount = n
    /\ \E status \in {"Released", "Refunded"} : F = [E EXCEPT ![id].status = status]
Raised(C, D, k, a, d) ==
    /\ C \in [Tokens -> [Accounts -> Nat]] /\ k \in Tokens /\ a \in Accounts /\ d \in Int
    /\ \E v \in Nat : v = C[k][a] + d /\ D = [C EXCEPT ![k][a] = v]

\* There are finitely many intent ids and accounts.
LEMMA FiniteIds ==
    ASSUME EscrowAssumption, FinitenessAssumption
    PROVE  IsFiniteSet(Ids) /\ IsFiniteSet(Accounts)
<1> DEFINE Nonces == 0 .. MaxNonce - 1
           Quads == (Users \X Nonces) \X (Blobs \X Deadlines)
           quad == [id \in Ids |-> <<<<id.sender, id.nonce>>, <<id.blob, id.deadline>>>>]
<1>1. IsFiniteSet(Nonces)
  BY FS_Interval DEF EscrowAssumption
<1>2. IsFiniteSet(Quads)
  <2>1. IsFiniteSet(Users \X Nonces)
    BY <1>1, FS_Product DEF FinitenessAssumption
  <2>2. IsFiniteSet(Blobs \X Deadlines)
    BY FS_Product DEF FinitenessAssumption
  <2> QED BY <2>1, <2>2, FS_Product
<1>3. quad \in [Ids -> Quads]
  BY DEF Ids
<1>4. ASSUME NEW x \in Ids, NEW y \in Ids, quad[x] = quad[y] PROVE x = y
  <2>1. /\ x.sender = y.sender /\ x.nonce = y.nonce /\ x.blob = y.blob
        /\ x.deadline = y.deadline
    BY <1>4
  <2> QED BY <2>1 DEF Ids
<1>5. quad \in Injection(Ids, Quads)
  <2> HIDE DEF quad, Quads
  <2>1. DOMAIN quad = Ids
    BY <1>3
  <2> QED BY <1>3, <1>4, <2>1 DEF Injection, IsInjective
<1>6. IsFiniteSet(Ids)
  <2> HIDE DEF quad, Quads
  <2> QED BY <1>2, <1>5, FS_Injection
<1>7. IsFiniteSet(Accounts)
  BY FS_Union DEF Accounts, FinitenessAssumption
<1> QED BY <1>6, <1>7

\* What MapThenSumSet computes is the sum over the set: it unfolds to the function IsSum
\* describes, and there is only one.
LEMMA OwedSums ==
    ASSUME NEW E, NEW C, NEW token, IsFiniteSet(Ids), IsFiniteSet(Accounts)
    PROVE  OwedBy(E, C, token) = Held(E, token) + SumOver(C[token], Accounts)
<1> DEFINE P == {id \in Ids : E[id].status = "Pending" /\ E[id].token = token}
           Iter(g) == g = [s \in SUBSET P |->
                             IF s = {} THEN 0
                             ELSE LET x == CHOOSE x \in s : TRUE IN E[x].amount + g[s \ {x}]]
<1>1. MapThenSumSet(LAMBDA id : E[id].amount, P) = (CHOOSE g : Iter(g))[P]
  BY Zenon DEF MapThenSumSet, MapThenFoldSet
<1>2. MapThenSumSet(LAMBDA a : C[token][a], Accounts) = SumOver(C[token], Accounts)
  BY Zenon DEF MapThenSumSet, MapThenFoldSet, IsSum, SumOver
<1>3. IsFiniteSet(P)
  BY FS_Subset
<1>4. ASSUME NEW g PROVE Iter(g) <=> IsSum(Amounts(E), P, g)
  <2> DEFINE x(s) == CHOOSE x \in s : TRUE
  <2>1. ASSUME NEW s \in SUBSET P, s # {} PROVE Amounts(E)[x(s)] = E[x(s)].amount
    <3>1. PICK y : y = x(s)
      BY Zenon
    <3>2. y \in s
      BY <2>1, <3>1, Zenon
    <3>3. y \in Ids
      BY <3>2
    <3> QED BY <3>1, <3>3, Zenon DEF Amounts
  <2>2. [s \in SUBSET P |-> IF s = {} THEN 0 ELSE E[x(s)].amount + g[s \ {x(s)}]]
        = [s \in SUBSET P |-> IF s = {} THEN 0 ELSE Amounts(E)[x(s)] + g[s \ {x(s)}]]
    <3> SUFFICES ASSUME NEW s \in SUBSET P
                 PROVE  (IF s = {} THEN 0 ELSE E[x(s)].amount + g[s \ {x(s)}])
                        = (IF s = {} THEN 0 ELSE Amounts(E)[x(s)] + g[s \ {x(s)}])
      BY Zenon
    <3>1. CASE s = {}
      BY <3>1, Zenon
    <3>2. CASE s # {}
      <4>1. Amounts(E)[x(s)] = E[x(s)].amount
        BY <2>1, <3>2
      <4> QED BY <4>1, Zenon
    <3> QED BY <3>1, <3>2
  <2> QED BY <2>2, Zenon DEF IsSum
<1>5. PICK f : f = CHOOSE g : Iter(g)
  BY Zenon
<1>6. \E g : Iter(g)
  <2>1. PICK g : IsSum(Amounts(E), P, g)
    BY <1>3, SumExists
  <2> HIDE DEF P, Iter
  <2> QED BY <1>4, <2>1, Zenon
<1>7. Iter(f)
  BY <1>5, <1>6, Zenon
<1>8. IsSum(Amounts(E), P, f)
  BY <1>4, <1>7, Zenon
<1>9. f[P] = SumOver(Amounts(E), P)
  BY <1>3, <1>8, SumIs
<1>10. P = Pending(E, token)
  BY Zenon DEF Pending
<1> HIDE DEF P, Iter
<1>11. OwedBy(E, C, token) = f[P] + SumOver(C[token], Accounts)
  BY <1>1, <1>2, <1>5, Zenon DEF OwedBy, P
<1> QED BY <1>9, <1>10, <1>11 DEF Held

\* What is held for a token is an integer.
LEMMA HeldInt ==
    ASSUME IsFiniteSet(Ids), NEW E \in [Ids -> Escrow], NEW token
    PROVE  /\ Held(E, token) \in Int
           /\ IsFiniteSet(Pending(E, token)) /\ Pending(E, token) \subseteq Ids
           /\ \A id \in Ids : Amounts(E)[id] = E[id].amount /\ Amounts(E)[id] \in Int
<1>1. IsFiniteSet(Pending(E, token)) /\ Pending(E, token) \subseteq Ids
  BY FS_Subset DEF Pending
<1>2. \A id \in Ids : Amounts(E)[id] = E[id].amount /\ Amounts(E)[id] \in Int
  BY DEF Amounts, Escrow
<1>3. \A id \in Pending(E, token) : Amounts(E)[id] \in Int
  BY <1>1, <1>2
<1>4. Held(E, token) \in Int
  BY <1>1, <1>3, SumElement DEF Held
<1> QED BY <1>1, <1>2, <1>4

\* A new escrow adds its amount to what is held for its token.
LEMMA HeldOpen ==
    ASSUME IsFiniteSet(Ids), NEW E, NEW F, NEW id, NEW k, NEW n, Opened(E, F, id, k, n), NEW token
    PROVE  Held(F, token) = Held(E, token) + (IF token = k THEN n ELSE 0)
<1>0. PICK e \in Escrow : /\ e.status = "Pending" /\ e.token = k /\ e.amount = n
                         /\ F = [E EXCEPT ![id] = e]
  BY DEF Opened
<1>t. E \in [Ids -> Escrow] /\ id \in Ids /\ E[id].status = "None"
  BY DEF Opened
<1>1. F \in [Ids -> Escrow] /\ F[id] = e /\ \A x \in Ids \ {id} : F[x] = E[x]
  BY <1>0, <1>t
<1> DEFINE P == Pending(E, token)
<1>2. /\ IsFiniteSet(P) /\ P \subseteq Ids /\ id \notin P
      /\ \A x \in Ids : Amounts(F)[x] = F[x].amount /\ Amounts(F)[x] \in Int
      /\ \A x \in Ids : Amounts(E)[x] = E[x].amount
      /\ Held(E, token) \in Int
  <2>1. id \notin P
    BY <1>t DEF Pending
  <2>2. \A x \in Ids : Amounts(F)[x] = F[x].amount /\ Amounts(F)[x] \in Int
    BY <1>1, HeldInt
  <2>3. /\ IsFiniteSet(P) /\ P \subseteq Ids /\ Held(E, token) \in Int
        /\ \A x \in Ids : Amounts(E)[x] = E[x].amount
    BY <1>t, HeldInt
  <2> QED BY <2>1, <2>2, <2>3
<1>3. \A x \in P : Amounts(F)[x] = Amounts(E)[x]
  BY <1>1, <1>2
<1>4. SumOver(Amounts(F), P) = Held(E, token)
  <2>1. SumOver(Amounts(F), P) = SumOver(Amounts(E), P)
    <3> HIDE DEF P
    <3> QED BY <1>2, <1>3, SumSame
  <2> QED BY <2>1 DEF Held
<1>5. CASE token = k
  <2>1. Pending(F, token) = P \union {id}
    BY <1>0, <1>1, <1>t, <1>5 DEF Pending
  <2>2. SumOver(Amounts(F), P \union {id}) = SumOver(Amounts(F), P) + Amounts(F)[id]
    <3>1. PICK A : A = Amounts(F)
      BY Zenon
    <3> HIDE DEF P
    <3>2. IsFiniteSet(P) /\ id \notin P /\ \A y \in P \union {id} : A[y] \in Int
      BY <1>2, <1>t, <3>1
    <3>3. SumOver(A, P \union {id}) = SumOver(A, P) + A[id]
      BY <3>2, SumAdd
    <3> QED BY <3>1, <3>3
  <2> QED BY <1>0, <1>1, <1>2, <1>4, <1>5, <1>t, <2>1, <2>2 DEF Held
<1>6. CASE token # k
  <2>1. Pending(F, token) = P
    BY <1>0, <1>1, <1>t, <1>6 DEF Pending
  <2> QED BY <1>2, <1>4, <1>6, <2>1 DEF Held
<1> QED BY <1>5, <1>6

\* A settled escrow takes its amount out of what is held for its token.
LEMMA HeldSettle ==
    ASSUME IsFiniteSet(Ids), NEW E, NEW F, NEW id, NEW k, NEW n, Settled(E, F, id, k, n), NEW token
    PROVE  Held(F, token) = Held(E, token) - (IF token = k THEN n ELSE 0)
<1>0. PICK status \in {"Released", "Refunded"} : F = [E EXCEPT ![id].status = status]
  BY DEF Settled
<1>t. /\ E \in [Ids -> Escrow] /\ id \in Ids /\ E[id].status = "Pending"
      /\ E[id].token = k /\ E[id].amount = n
  BY DEF Settled
<1>1. /\ F \in [Ids -> Escrow] /\ F[id].status = status
      /\ \A x \in Ids \ {id} : F[x] = E[x]
      /\ \A x \in Ids : F[x].amount = E[x].amount
  BY <1>0, <1>t DEF Escrow
<1> DEFINE P == Pending(F, token)
<1>2. /\ IsFiniteSet(P) /\ P \subseteq Ids /\ id \notin P /\ Held(F, token) \in Int
      /\ \A x \in Ids : Amounts(F)[x] = F[x].amount
      /\ \A x \in Ids : Amounts(E)[x] = E[x].amount /\ Amounts(E)[x] \in Int
      /\ Held(E, token) \in Int
  <2>1. id \notin P
    BY <1>0, <1>1, <1>t DEF Pending
  <2>2. /\ IsFiniteSet(P) /\ P \subseteq Ids /\ Held(F, token) \in Int
        /\ \A x \in Ids : Amounts(F)[x] = F[x].amount
    BY <1>1, HeldInt
  <2>3. /\ \A x \in Ids : Amounts(E)[x] = E[x].amount /\ Amounts(E)[x] \in Int
        /\ Held(E, token) \in Int
    BY <1>t, HeldInt
  <2> QED BY <2>1, <2>2, <2>3
<1>3. \A x \in P : Amounts(F)[x] = Amounts(E)[x]
  BY <1>1, <1>2
<1>4. SumOver(Amounts(E), P) = Held(F, token)
  <2>1. SumOver(Amounts(F), P) = SumOver(Amounts(E), P)
    <3> HIDE DEF P
    <3> QED BY <1>2, <1>3, SumSame
  <2> QED BY <2>1 DEF Held
<1>5. CASE token = k
  <2>1. Pending(E, token) = P \union {id}
    BY <1>0, <1>1, <1>t, <1>5 DEF Pending
  <2>2. SumOver(Amounts(E), P \union {id}) = SumOver(Amounts(E), P) + Amounts(E)[id]
    <3>1. PICK A : A = Amounts(E)
      BY Zenon
    <3> HIDE DEF P
    <3>2. IsFiniteSet(P) /\ id \notin P /\ \A y \in P \union {id} : A[y] \in Int
      BY <1>2, <1>t, <3>1
    <3>3. SumOver(A, P \union {id}) = SumOver(A, P) + A[id]
      BY <3>2, SumAdd
    <3> QED BY <3>1, <3>3
  <2>3. Held(E, token) = SumOver(Amounts(E), P \union {id})
    BY <2>1 DEF Held
  <2>4. Amounts(E)[id] = E[id].amount /\ E[id].amount \in Int
    BY <1>2, <1>t
  <2> QED BY <1>2, <1>4, <1>5, <1>t, <2>2, <2>3, <2>4
<1>6. CASE token # k
  <2>1. Pending(E, token) = P
    BY <1>0, <1>1, <1>t, <1>6 DEF Pending
  <2> QED BY <1>2, <1>4, <1>6, <2>1 DEF Held
<1> QED BY <1>5, <1>6

\* A changed credit changes what is owed to the accounts by as much.
LEMMA CreditChange ==
    ASSUME IsFiniteSet(Accounts), NEW C, NEW D, NEW k, NEW a, NEW d, Raised(C, D, k, a, d),
           NEW token \in Tokens
    PROVE  /\ SumOver(C[token], Accounts) \in Int
           /\ SumOver(D[token], Accounts)
              = SumOver(C[token], Accounts) + (IF token = k THEN d ELSE 0)
<1>0. PICK v \in Nat : v = C[k][a] + d /\ D = [C EXCEPT ![k][a] = v]
  BY DEF Raised
<1>t. C \in [Tokens -> [Accounts -> Nat]] /\ k \in Tokens /\ a \in Accounts /\ d \in Int
  BY DEF Raised
<1>1. PICK c : c = C[token]
  BY Zenon
<1>2. \A x \in Accounts : c[x] \in Int
  BY <1>1, <1>t
<1>3. SumOver(c, Accounts) \in Int
  BY <1>2, SumElement
<1>4. CASE token = k
  <2>1. PICK b : b = D[token]
    BY Zenon
  <2>2. /\ \A x \in Accounts : c[x] \in Int /\ b[x] \in Int
        /\ b[a] = c[a] + d /\ \A x \in Accounts \ {a} : b[x] = c[x]
    BY <1>0, <1>1, <1>4, <1>t, <2>1
  <2>3. SumOver(b, Accounts) = SumOver(c, Accounts) - c[a] + b[a]
    BY <1>t, <2>2, SumChange
  <2> QED BY <1>1, <1>3, <1>4, <1>t, <2>1, <2>2, <2>3
<1>5. CASE token # k
  <2>1. D[token] = c
    BY <1>0, <1>1, <1>5, <1>t
  <2> QED BY <1>1, <1>3, <1>5, <2>1
<1> QED BY <1>4, <1>5

\* What the contract owes, before and after a step.
LEMMA OwedIs ==
    ASSUME IsFiniteSet(Ids), IsFiniteSet(Accounts), NEW token
    PROVE  /\ Owed(token) = Held(escrows, token) + SumOver(credit[token], Accounts)
           /\ Owed(token)' = Held(escrows', token) + SumOver(credit'[token], Accounts)
<1>1. Owed(token) = OwedBy(escrows, credit, token)
  BY Zenon DEF Owed, OwedBy
<1>2. Owed(token)' = OwedBy(escrows', credit', token)
  BY Zenon DEF Owed, OwedBy, MapThenSumSet, MapThenFoldSet
<1> QED BY <1>1, <1>2, OwedSums

\* A payment that opens an escrow is owed from then on.
LEMMA OpenBalances ==
    ASSUME IsFiniteSet(Ids), IsFiniteSet(Accounts), TypeOK, NEW id \in Ids, NEW payer \in Users,
           NEW k \in Tokens, NEW amount \in Nat, NEW deadline \in Nat,
           OpenEscrow(id, payer, k, amount, deadline), UNCHANGED credit,
           NEW token \in Tokens, balance[token] = Owed(token)
    PROVE  balance'[token] = Owed(token)'
<1>1. Opened(escrows, escrows', id, k, amount)
  <2> DEFINE e == [status |-> "Pending", payer |-> payer, token |-> k, amount |-> amount,
                   deadline |-> deadline]
  <2>1. e \in Escrow /\ e.status = "Pending" /\ e.token = k /\ e.amount = amount
    BY DEF Escrow, Accounts
  <2>2. escrows' = [escrows EXCEPT ![id] = e] /\ escrows[id].status = "None"
    BY DEF OpenEscrow
  <2> HIDE DEF e
  <2> QED BY <2>1, <2>2 DEF Opened, TypeOK
<1>2. Held(escrows', token) = Held(escrows, token) + (IF token = k THEN amount ELSE 0)
  BY <1>1, HeldOpen
<1>3. balance'[token] = balance[token] + (IF token = k THEN amount ELSE 0)
  BY DEF OpenEscrow, TypeOK
<1>4. Held(escrows, token) \in Int /\ SumOver(credit[token], Accounts) \in Int
  <2>1. Held(escrows, token) \in Int
    BY HeldInt DEF TypeOK
  <2>2. \A a \in Accounts : credit[token][a] \in Int
    BY DEF TypeOK
  <2> QED BY <2>1, <2>2, SumElement
<1>5. SumOver(credit'[token], Accounts) = SumOver(credit[token], Accounts)
  OBVIOUS
<1> QED BY <1>2, <1>3, <1>4, <1>5, OwedIs

\* A settled escrow is owed to the account that it is credited to.
LEMMA SettleBalances ==
    ASSUME IsFiniteSet(Ids), IsFiniteSet(Accounts), TypeOK, NEW id \in Ids,
           escrows[id].status = "Pending", NEW status \in {"Released", "Refunded"},
           escrows' = [escrows EXCEPT ![id].status = status], NEW to \in Accounts,
           Credit(escrows[id].token, to, escrows[id].amount), UNCHANGED balance,
           NEW token \in Tokens, balance[token] = Owed(token)
    PROVE  balance'[token] = Owed(token)'
<1>1. PICK k \in Tokens : k = escrows[id].token
  BY EscrowParts
<1>2. PICK n \in Nat : n = escrows[id].amount
  BY EscrowParts
<1>3. Held(escrows', token) = Held(escrows, token) - (IF token = k THEN n ELSE 0)
  <2>1. Settled(escrows, escrows', id, k, n)
    BY <1>1, <1>2 DEF Settled, TypeOK
  <2> QED BY <2>1, HeldSettle
<1>4. /\ SumOver(credit[token], Accounts) \in Int
      /\ SumOver(credit'[token], Accounts)
         = SumOver(credit[token], Accounts) + (IF token = k THEN n ELSE 0)
  <2>1. Raised(credit, credit', k, to, n)
    <3>1. PICK v \in Nat : v = credit[k][to] + n
      BY DEF TypeOK
    <3>2. credit' = [credit EXCEPT ![k][to] = v]
      BY <1>1, <1>2, <3>1 DEF Credit
    <3>3. credit \in [Tokens -> [Accounts -> Nat]] /\ n \in Int
      BY DEF TypeOK
    <3> QED BY <3>1, <3>2, <3>3, Zenon DEF Raised
  <2> QED BY <2>1, CreditChange
<1>5. Held(escrows, token) \in Int
  BY HeldInt DEF TypeOK
<1>6. balance'[token] = balance[token]
  OBVIOUS
<1>7. balance[token] \in Int
  BY DEF TypeOK
<1>8. /\ Owed(token) = Held(escrows, token) + SumOver(credit[token], Accounts)
      /\ Owed(token)' = Held(escrows', token) + SumOver(credit'[token], Accounts)
  BY OwedIs
<1> QED BY <1>3, <1>4, <1>5, <1>6, <1>7, <1>8

\* A withdrawal pays what it clears.
LEMMA WithdrawBalances ==
    ASSUME IsFiniteSet(Ids), IsFiniteSet(Accounts), TypeOK, NEW account \in Accounts,
           NEW k \in Tokens, Withdraw(account, k),
           NEW token \in Tokens, balance[token] = Owed(token)
    PROVE  balance'[token] = Owed(token)'
<1>1. PICK n \in Nat : n = credit[k][account]
  BY DEF TypeOK
<1>2. /\ SumOver(credit[token], Accounts) \in Int
      /\ SumOver(credit'[token], Accounts)
         = SumOver(credit[token], Accounts) + (IF token = k THEN 0 - n ELSE 0)
  <2>1. 0 = credit[k][account] + (0 - n) /\ 0 - n \in Int
    BY <1>1
  <2>2. PICK d \in Int : d = 0 - n
    BY <2>1
  <2>3. credit' = [credit EXCEPT ![k][account] = 0] /\ credit \in [Tokens -> [Accounts -> Nat]]
    BY DEF Withdraw, TypeOK
  <2>4. Raised(credit, credit', k, account, d)
    BY <2>1, <2>2, <2>3 DEF Raised
  <2> QED BY <2>2, <2>4, CreditChange
<1>3. balance'[token] = balance[token] - (IF token = k THEN n ELSE 0)
  BY <1>1 DEF Withdraw, TypeOK
<1>4. Held(escrows, token) \in Int /\ escrows' = escrows
  BY HeldInt DEF TypeOK, Withdraw
<1> QED BY <1>2, <1>3, <1>4, OwedIs

LEMMA SolventInit == EscrowAssumption /\ FinitenessAssumption /\ Init => Solvent
<1> SUFFICES ASSUME EscrowAssumption, FinitenessAssumption, Init, NEW token \in Tokens
             PROVE  balance[token] = Owed(token)
  BY DEF Solvent
<1>1. IsFiniteSet(Ids) /\ IsFiniteSet(Accounts)
  BY FiniteIds
<1>2. Held(escrows, token) = 0
  <2>1. Pending(escrows, token) = {}
    BY DEF Init, NoEscrow, Pending
  <2>2. \A x \in {} : Amounts(escrows)[x] = 0
    OBVIOUS
  <2> QED BY <2>1, <2>2, FS_EmptySet, SumZero DEF Held
<1>3. SumOver(credit[token], Accounts) = 0
  <2>1. \A a \in Accounts : credit[token][a] = 0
    BY DEF Init
  <2> QED BY <1>1, <2>1, SumZero
<1>4. balance[token] = 0
  BY DEF Init
<1> QED BY <1>1, <1>2, <1>3, <1>4, OwedIs

LEMMA SolventStep ==
    EscrowAssumption /\ FinitenessAssumption /\ TypeOK /\ Solvent /\ [Next]_vars => Solvent'
<1> SUFFICES ASSUME EscrowAssumption, FinitenessAssumption, TypeOK, Solvent, [Next]_vars,
                    NEW token \in Tokens
             PROVE  balance'[token] = Owed(token)'
  BY DEF Solvent
<1>0. IsFiniteSet(Ids) /\ IsFiniteSet(Accounts) /\ balance[token] = Owed(token)
  BY FiniteIds DEF Solvent
<1>1. ASSUME NEW user \in Users, NEW blob \in Blobs, NEW deadline \in Deadlines,
             NEW value \in Payments, NEW fee \in Fees,
             SubmitIntent(user, blob, deadline, value, fee)
      PROVE  balance'[token] = Owed(token)'
  <2> DEFINE id == [sender |-> user, nonce |-> nonces[user], blob |-> blob,
                    deadline |-> deadline]
  <2>1. id \in Ids
    BY <1>1, SubmittedId DEF SubmitIntent
  <2>2. value - fee \in Nat /\ deadline \in Nat /\ "native" \in Tokens
    BY <1>1 DEF SubmitIntent, EscrowAssumption, Tokens
  <2>3. OpenEscrow(id, user, "native", value - fee, deadline) /\ UNCHANGED credit
    BY <1>1 DEF SubmitIntent
  <2> HIDE DEF id
  <2> QED BY <1>0, <2>1, <2>2, <2>3, OpenBalances
<1>2. ASSUME NEW id \in Ids, NEW blob \in Blobs, LzReceive(id, blob)
      PROVE  balance'[token] = Owed(token)'
  <2>1. trustedRelayer \in Accounts
    BY DEF TypeOK, Accounts
  <2>2. /\ escrows[id].status = "Pending"
        /\ escrows' = [escrows EXCEPT ![id].status = "Released"]
        /\ Credit(escrows[id].token, trustedRelayer, escrows[id].amount) /\ UNCHANGED balance
    BY <1>2 DEF LzReceive, ReleaseEscrow
  <2> QED BY <1>0, <2>1, <2>2, SettleBalances
<1>3. ASSUME NEW id \in Ids, Refund(id)
      PROVE  balance'[token] = Owed(token)'
  <2>1. escrows[id].payer \in Accounts
    BY EscrowParts
  <2>2. /\ escrows[id].status = "Pending"
        /\ escrows' = [escrows EXCEPT ![id].status = "Refunded"]
        /\ Credit(escrows[id].token, escrows[id].payer, escrows[id].amount) /\ UNCHANGED balance
    BY <1>3 DEF Refund, RefundEscrow
  <2> QED BY <1>0, <2>1, <2>2, SettleBalances
<1>4. ASSUME NEW id \in Ids, NEW user \in Users, NEW deadline \in Deadlines,
             NEW amount \in Payments, DepositUsdcWithPermit2(user, id, deadline, amount)
      PROVE  balance'[token] = Owed(token)'
  <2>1. amount \in Nat /\ deadline \in Nat /\ "usdc" \in Tokens
    BY DEF EscrowAssumption, Tokens
  <2>2. OpenEscrow(id, user, "usdc", amount, deadline) /\ UNCHANGED credit
    BY <1>4 DEF DepositUsdcWithPermit2
  <2> QED BY <1>0, <2>1, <2>2, OpenBalances
<1>5. ASSUME NEW account \in Accounts, NEW k \in Tokens, Withdraw(account, k)
      PROVE  balance'[token] = Owed(token)'
  BY <1>0, <1>5, WithdrawBalances
<1>6. ASSUME UNCHANGED ledgers PROVE balance'[token] = Owed(token)'
  BY <1>0, <1>6, OwedIs DEF ledgers
<1>7. ASSUME NEW id \in Ids, IdNext(id) PROVE balance'[token] = Owed(token)'
  BY <1>2, <1>3, <1>4, <1>6, <1>7 DEF IdNext, ConfirmExecution
<1>8. CASE (\E on \in BOOLEAN : SetPermit2(on)) \/ (\E relayer \in Relayers : SetRelayer(relayer))
           \/ NextBlock \/ UNCHANGED vars
  BY <1>6, <1>8 DEF SetPermit2, SetRelayer, NextBlock, vars
<1> QED BY <1>1, <1>5, <1>7, <1>8 DEF Next

-----------------------------------------------------------------------------
(* What the escrow promises.                                               *)

\* An escrow is released exactly for the intents a proof packet has executed: the
\* owner's confirmExecution never moves value, and no proof moves a refunded one.
THEOREM ReleaseNeedsProof == Spec => []ReleasedMeansProven
<1>1. EscrowInv => ReleasedMeansProven
  BY DEF EscrowInv
<1> QED BY <1>1, EscrowInvariant, PTL

\* An escrow is refunded only after its deadline, however the clock advances.
THEOREM RefundNeedsDeadline == Spec => []RefundedAfterDeadline
<1>1. EscrowInv => RefundedAfterDeadline
  BY DEF EscrowInv
<1> QED BY <1>1, EscrowInvariant, PTL

\* The slot of a submitted intent is the native payment of its sender, and a USDC
\* deposit is never released.
THEOREM OneSlotPerIntent == Spec => []SlotBelongsToSubmission
<1>1. EscrowInv => SlotBelongsToSubmission
  BY DEF EscrowInv
<1> QED BY <1>1, EscrowInvariant, PTL

\* Credit grows only for the payer of a refunded escrow or for the relayer trusted
\* when the proof arrived, by that escrow's amount, and shrinks only to zero.
THEOREM OnlyEarnedCredit == Spec => CreditsAreEarned
<1> DEFINE Earned(token, a) ==
             \/ credit'[token][a] = 0
             \/ \E id \in Ids :
                  /\ escrows[id].status = "Pending" /\ escrows[id].token = token
                  /\ credit'[token][a] = credit[token][a] + escrows[id].amount
                  /\ \/ escrows'[id].status = "Refunded" /\ a = escrows[id].payer
                     \/ escrows'[id].status = "Released" /\ a = trustedRelayer
           Paid == \A token \in Tokens, a \in Accounts :
                     credit'[token][a] # credit[token][a] => Earned(token, a)
<1>1. TypeOK /\ [Next]_vars => [Paid]_vars
  <2> SUFFICES ASSUME TypeOK, Next, NEW token \in Tokens, NEW a \in Accounts,
                      credit'[token][a] # credit[token][a]
               PROVE  Earned(token, a)
    OBVIOUS
  <2>1. ASSUME NEW id \in Ids, NEW blob \in Blobs, LzReceive(id, blob)
        PROVE  Earned(token, a)
    <3>1. trustedRelayer \in Accounts
      BY DEF TypeOK, Accounts
    <3>2. /\ escrows[id].status = "Pending"
          /\ escrows' = [escrows EXCEPT ![id].status = "Released"]
          /\ Credit(escrows[id].token, trustedRelayer, escrows[id].amount)
      BY <2>1 DEF LzReceive, ReleaseEscrow
    <3>3. escrows'[id].status = "Released"
      BY <3>2, EscrowParts DEF TypeOK, Escrow
    <3>4. /\ token = escrows[id].token /\ a = trustedRelayer
          /\ credit'[token][a] = credit[token][a] + escrows[id].amount
      BY <3>1, <3>2, EscrowParts, CreditEffect
    <3> QED BY <3>2, <3>3, <3>4
  <2>2. ASSUME NEW id \in Ids, Refund(id)
        PROVE  Earned(token, a)
    <3>2. /\ escrows[id].status = "Pending"
          /\ escrows' = [escrows EXCEPT ![id].status = "Refunded"]
          /\ Credit(escrows[id].token, escrows[id].payer, escrows[id].amount)
      BY <2>2 DEF Refund, RefundEscrow
    <3>3. escrows'[id].status = "Refunded"
      BY <3>2, EscrowParts DEF TypeOK, Escrow
    <3>4. /\ token = escrows[id].token /\ a = escrows[id].payer
          /\ credit'[token][a] = credit[token][a] + escrows[id].amount
      BY <3>2, EscrowParts, CreditEffect
    <3> QED BY <3>2, <3>3, <3>4
  <2>3. ASSUME NEW account \in Accounts, NEW t \in Tokens, Withdraw(account, t)
        PROVE  Earned(token, a)
    <3>1. credit' = [credit EXCEPT ![t] = [credit[t] EXCEPT ![account] = 0]]
      BY <2>3 DEF Withdraw
    <3>2. token = t
      BY <3>1 DEF TypeOK
    <3>3. credit'[token] = [credit[token] EXCEPT ![account] = 0]
      BY <3>1, <3>2 DEF TypeOK
    <3>4. credit[token] \in [Accounts -> Nat]
      BY DEF TypeOK
    <3> QED BY <3>3, <3>4
  <2>4. ASSUME UNCHANGED credit
        PROVE  FALSE
    BY <2>4
  <2>5. ASSUME NEW id \in Ids, IdNext(id)
        PROVE  Earned(token, a)
    BY <2>1, <2>2, <2>4, <2>5 DEF IdNext, ConfirmExecution, DepositUsdcWithPermit2, ledgers
  <2>6. ASSUME NEW user \in Users, NEW blob \in Blobs, NEW deadline \in Deadlines,
               NEW value \in Payments, NEW fee \in Fees,
               SubmitIntent(user, blob, deadline, value, fee)
        PROVE  FALSE
    BY <2>4, <2>6 DEF SubmitIntent
  <2>7. (\E on \in BOOLEAN : SetPermit2(on)) => UNCHANGED credit
    BY DEF SetPermit2, ledgers
  <2>8. (\E relayer \in Relayers : SetRelayer(relayer)) => UNCHANGED credit
    BY DEF SetRelayer, ledgers
  <2>9. NextBlock => UNCHANGED credit
    BY DEF NextBlock, ledgers
  <2> HIDE DEF Earned
  <2> QED BY <2>3, <2>4, <2>5, <2>6, <2>7, <2>8, <2>9 DEF Next
<1>2. []TypeOK /\ [][Next]_vars => [][Paid]_vars
  BY <1>1, PTL
<1>3. Spec => [][Paid]_vars
  BY <1>2, TypeCorrect, PTL DEF Spec
<1> QED BY <1>3 DEF CreditsAreEarned

\* Conservation: at every moment the contract holds of each token exactly what it owes,
\* so openEscrow, release, refund and withdraw never pay twice or with another's money.
THEOREM ContractIsSolvent == Spec => []Solvent
<1>1. Init => TypeOK /\ Solvent
  BY EscrowAssumption, FinitenessAssumption, TypeInit, SolventInit
<1>2. TypeOK /\ Solvent /\ [Next]_vars => TypeOK' /\ Solvent'
  BY EscrowAssumption, FinitenessAssumption, TypeStep, SolventStep
<1> QED BY <1>1, <1>2, PTL DEF Spec
=============================================================================
