--------------------------- MODULE TreasuryProofs ---------------------------
(***************************************************************************)
(* The sums of the treasury: the proof of OutflowCounted, that what        *)
(* DailySubmittedOutflow adds up is never less than what was sent with an  *)
(* amount that it can read, and of the case in which the daily limit holds *)
(* for what is sent.                                                       *)
(*                                                                         *)
(* LedgerProofs gives each broadcast that was spent a row of its own.      *)
(* That larger sets of larger summands have larger sums is proved here by  *)
(* induction over the subsets of a finite set, in the form the provers     *)
(* can use: a set of counterexamples has a smallest one.                   *)
(***************************************************************************)
EXTENDS LedgerProofs, FiniteSetTheorems

-----------------------------------------------------------------------------
(***************************************************************************)
(* Sums over finite sets.                                                  *)
(***************************************************************************)

\* The element of S that MapThenSumSet takes first.
One(S) == CHOOSE x \in S : TRUE

\* g adds up f over every subset of S, the way MapThenSumSet does.
Adds(g, f, S) ==
    g = [s \in SUBSET S |-> IF s = {} THEN 0 ELSE f[One(s)] + g[s \ {One(s)}]]

LEMMA OneIn == ASSUME NEW S, S # {} PROVE One(S) \in S
  BY DEF One

LEMMA AddsAt ==
    ASSUME NEW f, NEW S, NEW g, Adds(g, f, S), NEW A \in SUBSET S
    PROVE  g[A] = IF A = {} THEN 0 ELSE f[One(A)] + g[A \ {One(A)}]
<1> DEFINE e(s) == IF s = {} THEN 0 ELSE f[One(s)] + g[s \ {One(s)}]
<1>1. g = [s \in SUBSET S |-> e(s)]
  BY DEF Adds
<1> HIDE DEF e
<1>2. g[A] = e(A)
  BY <1>1
<1> QED BY <1>2 DEF e

LEMMA AddsNothing ==
    ASSUME NEW f, NEW S, NEW g, Adds(g, f, S)
    PROVE  g[{}] = 0
<1>1. {} \in SUBSET S
  OBVIOUS
<1> QED BY <1>1, AddsAt

LEMMA AddsOne ==
    ASSUME NEW f, NEW S, NEW g, Adds(g, f, S), NEW A \in SUBSET S, A # {}
    PROVE  \E x \in A : g[A] = f[x] + g[A \ {x}]
<1>1. g[A] = f[One(A)] + g[A \ {One(A)}]
  BY AddsAt
<1> QED BY <1>1, OneIn

\* The induction over subsets of a finite set, as a least counterexample.
LEMMA SmallestSubset ==
    ASSUME NEW S, IsFiniteSet(S), NEW T, T \subseteq SUBSET S, T # {}
    PROVE  \E A \in T : \A B \in T : B \subseteq A => B = A
<1>1. IsWellFoundedOn(StrictSubsetOrdering(S), FiniteSubsetsOf(S))
  BY FS_StrictSubsetOrderingWellFounded
<1>2. T \subseteq FiniteSubsetsOf(S)
  BY FS_FiniteSubsetsOfFinite
<1>3. PICK A \in T : \A B \in T : ~(<<B, A>> \in StrictSubsetOrdering(S))
  BY <1>1, <1>2, WFMin
<1>4. ASSUME NEW B \in T, B \subseteq A, B # A PROVE FALSE
  <2>1. <<B, A>> \in (SUBSET S) \X (SUBSET S)
    BY <1>4
  <2>2. <<B, A>> \in StrictSubsetOrdering(S)
    BY <1>4, <2>1 DEF StrictSubsetOrdering
  <2> QED BY <1>3, <2>2
<1> QED BY <1>4

\* Two such functions agree where both are defined.
LEMMA AddsAgree ==
    ASSUME NEW f, NEW C, IsFiniteSet(C), NEW D, NEW g, NEW h, Adds(g, f, C), Adds(h, f, D),
           NEW E, E \subseteq C, E \subseteq D
    PROVE  g[E] = h[E]
<1> DEFINE Bad == {A \in SUBSET (C \cap D) : g[A] # h[A]}
<1> SUFFICES ASSUME Bad # {} PROVE FALSE
  <2>1. ASSUME Bad = {} PROVE g[E] = h[E]
    <3>1. E \in SUBSET (C \cap D)
      OBVIOUS
    <3> QED BY <2>1, <3>1
  <2> QED BY <2>1
<1>1. Bad \subseteq SUBSET C
  OBVIOUS
<1>2. PICK A \in Bad : \A B \in Bad : B \subseteq A => B = A
  <2> HIDE DEF Bad
  <2> QED BY <1>1, SmallestSubset
<1>3. A \in SUBSET C /\ A \in SUBSET D
  OBVIOUS
<1>4. A # {}
  <2>1. g[{}] = 0 /\ h[{}] = 0
    BY AddsNothing
  <2> QED BY <2>1
<1>5. A \ {One(A)} \notin Bad
  BY <1>2, <1>4, OneIn
<1>6. g[A \ {One(A)}] = h[A \ {One(A)}]
  BY <1>3, <1>5
<1> QED BY <1>3, <1>4, <1>6, AddsAt

\* One exists for every finite set.
LEMMA AddsExists ==
    ASSUME NEW S, IsFiniteSet(S), NEW f
    PROVE  \E g : Adds(g, f, S)
<1> DEFINE Bad == {A \in SUBSET S : ~\E g : Adds(g, f, A)}
<1> SUFFICES ASSUME Bad # {} PROVE FALSE
  <2>1. S \in SUBSET S
    OBVIOUS
  <2> QED BY <2>1
<1>1. PICK A \in Bad : \A B \in Bad : B \subseteq A => B = A
  <2>1. Bad \subseteq SUBSET S
    OBVIOUS
  <2> HIDE DEF Bad
  <2> QED BY <2>1, SmallestSubset
<1> DEFINE G(C) == CHOOSE g : Adds(g, f, C)
           e(C) == IF C = {} THEN 0 ELSE f[One(C)] + G(C \ {One(C)})[C \ {One(C)}]
           new == [C \in SUBSET A |-> e(C)]
<1>2. ASSUME NEW C \in SUBSET A, C # A PROVE Adds(G(C), f, C)
  <2>1. C \notin Bad /\ C \in SUBSET S
    BY <1>1, <1>2
  <2> QED BY <2>1
<1>3. ASSUME NEW C \in SUBSET A, C # A PROVE new[C] = G(C)[C]
  <2>1. CASE C = {}
    BY <1>2, <1>3, <2>1, AddsAt
  <2>2. CASE C # {}
    <3>1. C \ {One(C)} # A /\ C \ {One(C)} \in SUBSET C /\ C \ {One(C)} \in SUBSET A
      BY <1>3, <2>2, OneIn
    <3>2. Adds(G(C), f, C) /\ Adds(G(C \ {One(C)}), f, C \ {One(C)})
      BY <1>2, <1>3, <3>1
    <3>3. IsFiniteSet(C)
      BY <1>1, FS_Subset
    <3> HIDE DEF G
    <3>4. G(C)[C \ {One(C)}] = G(C \ {One(C)})[C \ {One(C)}]
      BY <3>1, <3>2, <3>3, AddsAgree
    <3>5. G(C)[C] = f[One(C)] + G(C)[C \ {One(C)}]
      BY <2>2, <3>2, AddsAt
    <3> QED BY <2>2, <3>4, <3>5
  <2> QED BY <2>1, <2>2
<1>4. ASSUME NEW C \in SUBSET A
      PROVE  new[C] = IF C = {} THEN 0 ELSE f[One(C)] + new[C \ {One(C)}]
  <2>1. CASE C # {}
    <3>1. C \ {One(C)} \in SUBSET A /\ C \ {One(C)} # A
      BY <2>1, OneIn
    <3>2. new[C \ {One(C)}] = G(C \ {One(C)})[C \ {One(C)}]
      BY <1>3, <3>1
    <3>3. new[C] = e(C)
      OBVIOUS
    <3> HIDE DEF new, G
    <3> QED BY <2>1, <3>2, <3>3
  <2> QED BY <2>1
<1>5. new = [C \in SUBSET A |-> new[C]]
  OBVIOUS
<1> HIDE DEF new
<1>6. Adds(new, f, A)
  BY <1>4, <1>5 DEF Adds
<1> QED BY <1>1, <1>6

LEMMA AddsNat ==
    ASSUME NEW S, IsFiniteSet(S), NEW f \in [S -> Nat], NEW g, Adds(g, f, S)
    PROVE  \A A \in SUBSET S : g[A] \in Nat
<1> DEFINE Bad == {A \in SUBSET S : g[A] \notin Nat}
<1> SUFFICES ASSUME Bad # {} PROVE FALSE
  OBVIOUS
<1>1. PICK A \in Bad : \A B \in Bad : B \subseteq A => B = A
  <2>1. Bad \subseteq SUBSET S
    OBVIOUS
  <2> HIDE DEF Bad
  <2> QED BY <2>1, SmallestSubset
<1>2. A \in SUBSET S /\ A # {}
  <2>1. A \in SUBSET S /\ g[A] \notin Nat
    OBVIOUS
  <2>2. A = {} => g[A] = 0
    BY AddsNothing
  <2> QED BY <2>1, <2>2
<1>3. One(A) \in A /\ f[One(A)] \in Nat
  BY <1>2, OneIn
<1>4. g[A \ {One(A)}] \in Nat
  BY <1>1, <1>2, <1>3
<1> QED BY <1>2, <1>3, <1>4, AddsAt

\* The order in which the elements are taken does not matter.
LEMMA AddsAny ==
    ASSUME NEW S, IsFiniteSet(S), NEW f \in [S -> Nat], NEW g, Adds(g, f, S),
           NEW A0 \in SUBSET S, NEW x0 \in A0
    PROVE  g[A0] = f[x0] + g[A0 \ {x0}]
<1> DEFINE Bad == {A \in SUBSET S : \E x \in A : g[A] # f[x] + g[A \ {x}]}
<1> SUFFICES ASSUME Bad # {} PROVE FALSE
  OBVIOUS
<1>1. PICK A \in Bad : \A B \in Bad : B \subseteq A => B = A
  <2>1. Bad \subseteq SUBSET S
    OBVIOUS
  <2> HIDE DEF Bad
  <2> QED BY <2>1, SmallestSubset
<1>2. A \in SUBSET S
  OBVIOUS
<1>3. PICK x \in A : g[A] # f[x] + g[A \ {x}]
  OBVIOUS
<1>4. PICK y \in A : g[A] = f[y] + g[A \ {y}]
  <2>1. A # {}
    BY <1>3
  <2> QED BY <1>2, <2>1, AddsOne
<1>5. x # y
  BY <1>3, <1>4
<1>6. A \ {x} \notin Bad /\ A \ {y} \notin Bad
  BY <1>1
<1>7. A \ {x} \in SUBSET S /\ A \ {y} \in SUBSET S
  BY <1>2
<1>8. PICK B \in SUBSET S : B = (A \ {x}) \ {y} /\ B = (A \ {y}) \ {x}
  BY <1>2
<1>9. g[A \ {y}] = f[x] + g[B]
  BY <1>5, <1>6, <1>7, <1>8
<1>10. g[A \ {x}] = f[y] + g[B]
  BY <1>5, <1>6, <1>7, <1>8
<1>11. g[B] \in Nat /\ f[x] \in Nat /\ f[y] \in Nat
  BY <1>2, AddsNat
<1> HIDE DEF Bad
<1> QED BY <1>3, <1>4, <1>9, <1>10, <1>11

\* More and larger summands have a larger sum.
LEMMA AddsMore ==
    ASSUME NEW S, IsFiniteSet(S), NEW f \in [S -> Nat], NEW g, Adds(g, f, S),
           NEW T, IsFiniteSet(T), NEW k \in [T -> Nat], NEW h, Adds(h, k, T),
           NEW r \in [S -> T],
           \A s, u \in S : r[s] = r[u] => s = u,
           \A s \in S : f[s] <= k[r[s]]
    PROVE  g[S] <= h[T]
<1> DEFINE Bad == {A \in SUBSET S :
                     \E U \in SUBSET T : (\A s \in A : r[s] \in U) /\ ~(g[A] <= h[U])}
<1> SUFFICES ASSUME Bad # {} PROVE FALSE
  <2>1. ASSUME ~(g[S] <= h[T]) PROVE S \in Bad
    BY <2>1
  <2> QED BY <2>1
<1>1. PICK A \in Bad : \A B \in Bad : B \subseteq A => B = A
  <2>1. Bad \subseteq SUBSET S
    OBVIOUS
  <2> HIDE DEF Bad
  <2> QED BY <2>1, SmallestSubset
<1>2. PICK U \in SUBSET T : (\A s \in A : r[s] \in U) /\ ~(g[A] <= h[U])
  OBVIOUS
<1>3. A \in SUBSET S /\ g[A] \in Nat /\ h[U] \in Nat
  BY AddsNat
<1>4. CASE A = {}
  <2>1. g[A] = 0
    BY <1>4, AddsNothing
  <2> QED BY <1>2, <1>3, <2>1
<1>5. CASE A # {}
  <2>1. PICK a \in A : TRUE
    BY <1>5
  <2>2. g[A] = f[a] + g[A \ {a}]
    BY <1>3, <2>1, AddsAny
  <2>3. r[a] \in U /\ h[U] = k[r[a]] + h[U \ {r[a]}]
    BY <1>2, AddsAny
  <2>4. A \ {a} \notin Bad /\ A \ {a} \in SUBSET S /\ U \ {r[a]} \in SUBSET T
    BY <1>1, <1>3, <2>1
  <2>5. \A s \in A \ {a} : r[s] \in U \ {r[a]}
    BY <1>2, <1>3
  <2>6. g[A \ {a}] <= h[U \ {r[a]}]
    BY <2>4, <2>5
  <2>7. /\ g[A \ {a}] \in Nat /\ h[U \ {r[a]}] \in Nat
        /\ f[a] \in Nat /\ k[r[a]] \in Nat /\ f[a] <= k[r[a]]
    BY <1>3, <2>3, <2>4, AddsNat
  <2> QED BY <1>2, <2>2, <2>3, <2>6, <2>7
<1> QED BY <1>4, <1>5

\* What DailySubmittedOutflow and OutflowCounted compute is such a sum.
LEMMA SpentSum ==
    ASSUME NEW S, IsFiniteSet(S)
    PROVE  \E g : /\ Adds(g, [s \in S |-> Req[s.req].amount], S)
                  /\ MapThenSumSet(LAMBDA s : Req[s.req].amount, S) = g[S]
<1> DEFINE f == [s \in S |-> Req[s.req].amount]
           F(g) == g = [s \in SUBSET S |->
                         IF s = {} THEN 0
                         ELSE Req[One(s).req].amount + g[s \ {One(s)}]]
<1>1. ASSUME NEW s \in SUBSET S, s # {} PROVE f[One(s)] = Req[One(s).req].amount
  BY <1>1, OneIn
<1>2. \A g : Adds(g, f, S) <=> F(g)
  BY <1>1 DEF Adds
<1>3. MapThenSumSet(LAMBDA s : Req[s.req].amount, S) = (CHOOSE g : F(g))[S]
  BY DEF MapThenSumSet, MapThenFoldSet, One
<1>4. \E g : F(g)
  BY <1>2, AddsExists
<1> HIDE DEF F
<1>5. F(CHOOSE g : F(g))
  BY <1>4
<1> QED BY <1>2, <1>3, <1>5
\* What the amounts of some rows of a ledger add up to.
RowSum(rows, S) == MapThenSumSet(LAMBDA j : rows[j].amount, S)

LEMMA OutflowSum ==
    ASSUME NEW rows, NEW S, IsFiniteSet(S)
    PROVE  \E g : /\ Adds(g, [j \in S |-> rows[j].amount], S)
                  /\ RowSum(rows, S) = g[S]
<1> DEFINE f == [j \in S |-> rows[j].amount]
           F(g) == g = [s \in SUBSET S |->
                         IF s = {} THEN 0
                         ELSE rows[One(s)].amount + g[s \ {One(s)}]]
<1>1. ASSUME NEW s \in SUBSET S, s # {} PROVE f[One(s)] = rows[One(s)].amount
  BY <1>1, OneIn
<1>2. \A g : Adds(g, f, S) <=> F(g)
  BY <1>1 DEF Adds
<1>3. RowSum(rows, S) = (CHOOSE g : F(g))[S]
  BY DEF RowSum, MapThenSumSet, MapThenFoldSet, One
<1>4. \E g : F(g)
  BY <1>2, AddsExists
<1> HIDE DEF F
<1>5. F(CHOOSE g : F(g))
  BY <1>4
<1> QED BY <1>2, <1>3, <1>5

-----------------------------------------------------------------------------
(***************************************************************************)
(* The outflow of a day.                                                   *)
(***************************************************************************)

\* The account nonces are bounded and no two broadcasts share one.
LEMMA AcceptedFinite ==
    ASSUME TypeOK, NoncesApart
    PROVE  IsFiniteSet(accepted)
<1> DEFINE n == [s \in accepted |-> s.nonce]
<1>1. IsFiniteSet(Nonces)
  BY FS_Interval, StoreAssumption DEF Nonces
<1>2. \A s \in accepted : s.nonce \in Nonces
  BY DEF TypeOK, Broadcast
<1>3. n \in [accepted -> Nonces]
  BY <1>2
<1>4. \A s, u \in accepted : n[s] = n[u] => s = u
  BY DEF NoncesApart
<1> HIDE DEF n
<1>5. n \in Injection(accepted, Nonces)
  BY <1>3, <1>4 DEF Injection, IsInjective
<1> QED BY <1>1, <1>5, FS_Injection

LEMMA OutflowRowsFinite ==
    ASSUME TypeOK, NEW t, NEW w
    PROVE  IsFiniteSet(OutflowRows(t, w)) /\ OutflowRows(t, w) \subseteq DOMAIN transactions
<1>1. OutflowRows(t, w) \subseteq DOMAIN transactions
  BY DEF OutflowRows, PostgresOutflowRows, MemoryOutflowRows
<1>2. DOMAIN transactions = 1..Len(transactions) /\ Len(transactions) \in Nat
  BY DEF TypeOK, StoreTypeOK
<1>3. IsFiniteSet(DOMAIN transactions)
  BY <1>2, FS_Interval
<1> QED BY <1>1, <1>3, FS_Subset

LEMMA DailySum ==
    ASSUME NEW t, NEW w
    PROVE  DailySubmittedOutflow(t, w) = RowSum(transactions, OutflowRows(t, w))
  BY DEF DailySubmittedOutflow, OutflowRows, RowSum

LEMMA DailySumNext ==
    ASSUME NEW t, NEW w
    PROVE  DailySubmittedOutflow(t, w)' = RowSum(transactions', OutflowRows(t, w)')
<1>1. DailySubmittedOutflow(t, w) = RowSum(transactions, OutflowRows(t, w))
  BY DailySum
<1>2. (DailySubmittedOutflow(t, w) = RowSum(transactions, OutflowRows(t, w)))'
  BY <1>1, PTL
<1> QED BY <1>2

\* On one network, and while no statement of the store fails, the outflow of
\* the day that the treasury policy reads for a spelling of a token is at least
\* the sum of what was sent and acknowledged under it with amounts without
\* blanks, however the handlers and the monitors interleave
\* (CreateSignerTransaction, ON CONFLICT, DailySubmittedOutflow).
THEOREM OutflowIsCounted == ASSUME OneNetwork PROVE Spec => []OutflowCounted
<1>1. TypeOK /\ SpendingInv /\ SpendingCounted => OutflowCounted
  <2> SUFFICES ASSUME TypeOK, SpendingInv, SpendingCounted, StoreSurvives, Reliable,
                      day = 0, NEW t \in Tokens, NEW w \in Networks
               PROVE  MapThenSumSet(LAMBDA s : Req[s.req].amount, SpentOf(t, w))
                        <= DailySubmittedOutflow(t, w)
    BY DEF OutflowCounted, Reliable
  <2> DEFINE S == SpentOf(t, w)
             T == OutflowRows(t, w)
             f == [s \in S |-> Req[s.req].amount]
             k == [j \in T |-> transactions[j].amount]
  <2>1. PICK rowOf \in [S -> T] :
          /\ \A s, u \in S : rowOf[s] = rowOf[u] => s = u
          /\ \A s \in S : Req[s.req].amount <= transactions[rowOf[s]].amount
    BY DEF SpendingCounted
  <2>2. IsFiniteSet(S)
    <3>1. NoncesApart
      BY DEF SpendingInv
    <3>2. S \subseteq accepted
      BY DEF SpentOf
    <3> QED BY <3>1, <3>2, AcceptedFinite, FS_Subset
  <2>3. IsFiniteSet(T) /\ T \subseteq DOMAIN transactions
    BY OutflowRowsFinite
  <2>4. f \in [S -> Nat]
    <3>1. \A s \in S : s.req \in Requests
      BY DEF SpentOf, TypeOK, Broadcast
    <3> QED BY <3>1, RequestFacts
  <2>5. k \in [T -> Nat]
    <3>1. \A j \in T : Row(j) \in SignerTransaction
      BY <2>3, RowType
    <3> QED BY <3>1 DEF Row, SignerTransaction
  <2>6. PICK g : /\ Adds(g, f, S)
                 /\ MapThenSumSet(LAMBDA s : Req[s.req].amount, S) = g[S]
    BY <2>2, SpentSum
  <2>7. PICK h : /\ Adds(h, k, T)
                 /\ RowSum(transactions, T) = h[T]
    BY <2>3, OutflowSum
  <2>8. \A s \in S : f[s] <= k[rowOf[s]]
    BY <2>1
  <2>9. DailySubmittedOutflow(t, w) = h[T]
    BY <2>7, DailySum
  <2> HIDE DEF S, T, f, k
  <2>10. g[S] <= h[T]
    BY <2>1, <2>2, <2>3, <2>4, <2>5, <2>6, <2>7, <2>8, AddsMore
  <2> QED BY <2>6, <2>9, <2>10 DEF S
<1> QED BY <1>1, TypeCorrect, SpendingInductive, SpendingIsCounted, PTL

-----------------------------------------------------------------------------
(***************************************************************************)
(* The daily limit.  OutflowWithinLimit, which is about what was sent,     *)
(* fails when the handlers of two requests both read the outflow before    *)
(* either records its transaction; through settlements, which do not ask   *)
(* the treasury; when an amount is sent with blanks around it or a token   *)
(* in another spelling; and when a fault, a disconnect or a crash loses    *)
(* the acknowledgement or the row.  Nothing else breaks it.  What the      *)
(* ledger counts stays within the limit through the failures, too.         *)
(***************************************************************************)
NoSettlements == \A r \in Requests : Req[r].kind # "settlement"

NoBlanks == \A r \in Requests : ~Req[r].blank

\* Every request spells a contract the same way.
OneSpelling ==
    \A r, q \in Requests :
        ContractOf[Req[r].token] = ContractOf[Req[q].token] => Req[r].token = Req[q].token

SameTreasury(r, q) == Req[r].token = Req[q].token /\ Network(r) = Network(q)

OneAtATime ==
    \A r, q \in Requests :
        pc[r] \in Executing /\ pc[q] \in Executing /\ SameTreasury(r, q) => r = q

\* The steps between the policy check and the row of the transaction.
Paying == Executing \ {"validate", "release", "save"}

LedgerWithinLimit ==
    \A t \in Tokens, w \in Networks : DailySubmittedOutflow(t, w) <= DailyLimit

\* The room that Validate saw is still there when the row is written.
TreasuryInv ==
    StoreSurvives /\ DailyLimit > 0 =>
        /\ \A j \in DOMAIN transactions : transactions[j].day <= day
        /\ LedgerWithinLimit
        /\ \A r \in Requests : pc[r] \in Paying =>
             DailySubmittedOutflow(Req[r].token, Network(r)) + Req[r].amount
                 <= DailyLimit

\* Fewer rows of the same amounts have a smaller sum.
LEMMA SumFewer ==
    ASSUME NEW old, NEW S, IsFiniteSet(S), \A j \in S : old[j].amount \in Nat,
           NEW new, NEW T, T \subseteq S, \A j \in T : new[j].amount = old[j].amount
    PROVE  RowSum(new, T) <= RowSum(old, S)
<1> DEFINE f == [j \in T |-> new[j].amount]
           k == [j \in S |-> old[j].amount]
           r == [j \in T |-> j]
<1>1. IsFiniteSet(T)
  BY FS_Subset
<1>2. PICK g : Adds(g, f, T) /\ RowSum(new, T) = g[T]
  BY <1>1, OutflowSum
<1>3. PICK h : Adds(h, k, S) /\ RowSum(old, S) = h[S]
  BY OutflowSum
<1>4. f \in [T -> Nat] /\ k \in [S -> Nat] /\ r \in [T -> S]
  OBVIOUS
<1>5. \A s, u \in T : r[s] = r[u] => s = u
  OBVIOUS
<1>6. \A s \in T : f[s] <= k[r[s]]
  OBVIOUS
<1> HIDE DEF f, k, r
<1>7. g[T] <= h[S]
  BY <1>1, <1>2, <1>3, <1>4, <1>5, <1>6, AddsMore
<1> QED BY <1>2, <1>3, <1>7

LEMMA SumNat ==
    ASSUME NEW rows, NEW S, IsFiniteSet(S), \A j \in S : rows[j].amount \in Nat
    PROVE  RowSum(rows, S) \in Nat
<1> DEFINE f == [j \in S |-> rows[j].amount]
<1>1. PICK g : Adds(g, f, S) /\ RowSum(rows, S) = g[S]
  BY OutflowSum
<1>2. f \in [S -> Nat]
  OBVIOUS
<1> HIDE DEF f
<1>3. S \in SUBSET S
  OBVIOUS
<1>4. g[S] \in Nat
  BY <1>1, <1>2, <1>3, AddsNat
<1> QED BY <1>1, <1>4

LEMMA SumEmpty == ASSUME NEW rows PROVE RowSum(rows, {}) = 0
<1>1. IsFiniteSet({})
  BY FS_EmptySet
<1>2. PICK g : Adds(g, [j \in {} |-> rows[j].amount], {}) /\ RowSum(rows, {}) = g[{}]
  BY <1>1, OutflowSum
<1> QED BY <1>2, AddsNothing

\* A row adds its amount.
LEMMA SumOneMore ==
    ASSUME NEW rows, NEW S, IsFiniteSet(S), \A j \in S : rows[j].amount \in Nat,
           NEW x \in S
    PROVE  RowSum(rows, S) = rows[x].amount + RowSum(rows, S \ {x})
<1> DEFINE R == S \ {x}
           f == [j \in S |-> rows[j].amount]
           k == [j \in R |-> rows[j].amount]
<1>1. IsFiniteSet(R) /\ R \in SUBSET S /\ S \in SUBSET S
  BY FS_Subset
<1>2. PICK g : Adds(g, f, S) /\ RowSum(rows, S) = g[S]
  BY OutflowSum
<1>3. PICK h : Adds(h, k, R) /\ RowSum(rows, R) = h[R]
  BY <1>1, OutflowSum
<1>4. Adds(h, f, R)
  <2>1. \A s \in SUBSET R : s # {} => k[One(s)] = f[One(s)]
    BY <1>1, OneIn
  <2> HIDE DEF k, f
  <2> QED BY <1>3, <2>1 DEF Adds
<1>5. f \in [S -> Nat] /\ f[x] = rows[x].amount
  OBVIOUS
<1> HIDE DEF f, k
<1>6. g[R] = h[R]
  <2> HIDE DEF R
  <2>1. R \subseteq S
    BY <1>1
  <2>2. \A E : E \subseteq S /\ E \subseteq R => g[E] = h[E]
    BY <1>2, <1>4, AddsAgree
  <2> QED BY <2>1, <2>2
<1>7. g[S] = f[x] + g[R]
  BY <1>1, <1>2, <1>5, AddsAny
<1> QED BY <1>2, <1>3, <1>5, <1>6, <1>7

LEMMA OutflowNat ==
    ASSUME TypeOK, NEW t, NEW w
    PROVE  DailySubmittedOutflow(t, w) \in Nat
<1> DEFINE T == OutflowRows(t, w)
<1>1. IsFiniteSet(T) /\ T \subseteq DOMAIN transactions
  BY OutflowRowsFinite
<1>2. \A j \in T : transactions[j].amount \in Nat
  BY <1>1, RowType DEF Row, SignerTransaction
<1> HIDE DEF T
<1>3. RowSum(transactions, T) \in Nat
  BY <1>1, <1>2, SumNat
<1> QED BY <1>3, DailySum DEF T

LEMMA OutflowNatNext ==
    ASSUME NEW t, NEW w
    PROVE  TypeOK' => DailySubmittedOutflow(t, w)' \in Nat
<1>1. TypeOK => DailySubmittedOutflow(t, w) \in Nat
  BY OutflowNat
<1>2. (TypeOK => DailySubmittedOutflow(t, w) \in Nat)'
  BY <1>1, PTL
<1> QED BY <1>2

\* What a step finds in the ledger and counts now was counted before: no row
\* changes its amount or its day, and none is revived.
LEMMA CountedBefore ==
    ASSUME TypeOK, NonceInv, ChainInv, LedgerInv, [Next]_vars, StoreSurvives',
           OneNetwork, \A j \in DOMAIN transactions : transactions[j].day <= day,
           NEW t, NEW w, NEW j \in DOMAIN transactions, j \in OutflowRows(t, w)'
    PROVE  j \in OutflowRows(t, w) /\ transactions'[j].amount = transactions[j].amount
<1>1. RowStays(j)
  BY RowsStay
<1>2. transactions[j] \in SignerTransaction
  BY RowType DEF Row
<1>3. /\ transactions'[j].token = t /\ transactions'[j].network = w
      /\ transactions'[j].status \in {"submitted", "confirmed"}
      /\ transactions'[j].reads
      /\ StoreKind = "postgres" => transactions'[j].day = day'
  BY DEF OutflowRows, PostgresOutflowRows, MemoryOutflowRows, CountsAsOutflow
<1>4. transactions[j].status \in {"submitted", "confirmed"}
  BY <1>3, FinalStep
<1>5. StoreKind = "postgres" => transactions[j].day = day
  <2>1. day \in Nat /\ day' \in Nat /\ transactions[j].day \in Nat
    BY <1>2, NextType, StoreAssumption DEF TypeOK, StoreTypeOK, SignerTransaction
  <2>2. day <= day' /\ transactions[j].day <= day
    BY <2>1, DayGrows
  <2> QED BY <1>1, <1>3, <2>1, <2>2 DEF RowStays, Row
<1> QED BY <1>1, <1>3, <1>4, <1>5
        DEF RowStays, Row, OutflowRows, PostgresOutflowRows, MemoryOutflowRows,
            CountsAsOutflow

\* Only Record and RecordFailed create a row.
LEMMA NewRow ==
    ASSUME TypeOK, NonceInv, ChainInv, LedgerInv, [Next]_vars, StoreSurvives',
           OneNetwork, NEW j \in DOMAIN transactions', j \notin DOMAIN transactions
    PROVE  \E r \in Requests, status \in {"submitted", "failed"} :
             /\ Record(r) \/ RecordFailed(r)
             /\ transactions' = Append(transactions, Item(r, status))
             /\ status = "submitted" => pc[r] = "record"
<1>1. StoreSurvives
  BY SurvivedBefore
<1>2. RowsReserved
  BY <1>1 DEF LedgerInv
<1>3. transactions' # transactions
  OBVIOUS
<1>4. ASSUME NEW i \in Instances, Monitor(i) PROVE FALSE
  <2>1. transactions' = transactions \/ \E h : Marks(h)
    BY <1>4, CheckMarks DEF Monitor, MonitorList, MonitorHangs, storeVars
  <2> QED BY <1>3, <2>1 DEF Marks
<1>5. PICK r \in Requests : Arrive(r) \/ Step(r)
  BY <1>1, <1>3, <1>4, LedgerOther DEF Next
<1>6. Record(r) \/ RecordFailed(r)
  BY <1>1, <1>3, <1>5, HandlerLedgerQuiet, AttemptLedgerQuiet DEF Step, LedgerQuiet
<1> QED BY <1>2, <1>3, <1>6, RecordInserts

\* A request is allowed to pay by Validate.
LEMMA PayingFrom ==
    ASSUME TypeOK, [Next]_vars, NEW r \in Requests, pc'[r] \in Paying
    PROVE  pc[r] \in Paying \/ (Validate(r) /\ Permitted(r))
<1> USE DEF Goto, Reply, FailAttempt, Paying, Executing
<1>1. ASSUME NEW q \in Requests, Arrive(q) PROVE pc[r] \in Paying
  BY <1>1
  DEF Arrive, RefuseEarly, ClaimNothing, LookupResult, MemoryClaimResult, TypeOK
<1>2. ASSUME NEW q \in Requests, Attempt(q) PROVE pc[r] \in Paying
  <2>1. CASE q # r
    BY <1>2, <2>1, AttemptFrame
  <2>2. CASE q = r
    BY <1>2, <2>2
    DEF Attempt, Dial, Reserve, Build, SignFailed, Send, MarkSubmitted, Record,
        MarkFailed, RecordFailed
  <2> QED BY <2>1, <2>2
<1>3. ASSUME NEW q \in Requests, Validate(q)
      PROVE  pc[r] \in Paying \/ (Validate(r) /\ Permitted(r))
  BY <1>3 DEF Validate, TypeOK
<1>4. ASSUME NEW q \in Requests, ClaimLock(q) \/ Release(q) \/ Save(q)
      PROVE  pc[r] \in Paying
  BY <1>4 DEF ClaimLock, Release, Save, TypeOK
<1>5. ASSUME NEW i \in Instances, Crash(i) PROVE pc[r] \in Paying
  BY <1>5 DEF Crash
<1>6. ASSUME pc' = pc PROVE pc[r] \in Paying
  BY <1>6
<1> QED BY <1>1, <1>2, <1>3, <1>4, <1>5, <1>6
        DEF Next, Step, Disconnect, Monitor, MonitorList, MonitorCheck, MonitorHangs, Mine,
            Midnight, vars

\* The outflow of a token grows only by the row of a request for it, and by
\* the amount of that request.
LEMMA OutflowStep ==
    ASSUME TypeOK, NonceInv, ChainInv, LedgerInv, [Next]_vars, StoreSurvives',
           OneNetwork, NoSettlements,
           \A j \in DOMAIN transactions : transactions[j].day <= day,
           NEW t, NEW w
    PROVE  \/ DailySubmittedOutflow(t, w)' <= DailySubmittedOutflow(t, w)
           \/ \E r \in Requests :
                /\ Record(r)
                /\ Req[r].token = t /\ Network(r) = w
                /\ DailySubmittedOutflow(t, w)'
                     <= DailySubmittedOutflow(t, w) + Req[r].amount
<1> DEFINE S == OutflowRows(t, w)
           T == OutflowRows(t, w)'
<1>1. IsFiniteSet(S) /\ S \subseteq DOMAIN transactions
  BY OutflowRowsFinite
<1>2. \A j \in S : transactions[j].amount \in Nat
  BY <1>1, RowType DEF Row, SignerTransaction
<1>3. T \subseteq DOMAIN transactions'
  BY DEF OutflowRows, PostgresOutflowRows, MemoryOutflowRows
<1>4. \A j \in DOMAIN transactions :
        j \in T => j \in S /\ transactions'[j].amount = transactions[j].amount
  BY CountedBefore
<1>5. /\ DailySubmittedOutflow(t, w) = RowSum(transactions, S)
      /\ DailySubmittedOutflow(t, w)' = RowSum(transactions', T)
  BY DailySum, DailySumNext
<1>6. CASE T \subseteq DOMAIN transactions
  <2> HIDE DEF S, T
  <2>1. T \subseteq S /\ \A j \in T : transactions'[j].amount = transactions[j].amount
    BY <1>4, <1>6
  <2>2. RowSum(transactions', T) <= RowSum(transactions, S)
    BY <1>1, <1>2, <2>1, SumFewer
  <2> QED BY <1>5, <2>2
<1>7. ASSUME NEW j \in T, j \notin DOMAIN transactions
      PROVE  \E r \in Requests :
                /\ Record(r)
                /\ Req[r].token = t /\ Network(r) = w
                /\ DailySubmittedOutflow(t, w)'
                     <= DailySubmittedOutflow(t, w) + Req[r].amount
  <2>1. PICK r \in Requests, status \in {"submitted", "failed"} :
             /\ Record(r) \/ RecordFailed(r)
             /\ transactions' = Append(transactions, Item(r, status))
             /\ status = "submitted" => pc[r] = "record"
    BY <1>3, <1>7, NewRow
  <2>2. /\ DOMAIN transactions' = DOMAIN transactions \cup {Len(transactions) + 1}
        /\ transactions'[Len(transactions) + 1] = Item(r, status)
    BY <2>1, AppendFacts
  <2>3. j = Len(transactions) + 1 /\ transactions'[j] = Item(r, status)
    BY <1>3, <1>7, <2>2
  <2>4. Item(r, status) = LedgerItem(r, status, Req[r].amount)
    BY RequestFacts DEF NoSettlements, Item, TransferItem, ContractCallItem
  <2>5. CountsAsOutflow(transactions'[j], t, w)
    BY <1>7 DEF OutflowRows, PostgresOutflowRows, MemoryOutflowRows
  <2>6. /\ status = "submitted" /\ Req[r].token = t /\ Network(r) = w
        /\ transactions'[j].amount = Req[r].amount
    BY <2>3, <2>4, <2>5 DEF CountsAsOutflow, LedgerItem
  <2>7. Record(r)
    BY <2>1, <2>6 DEF RecordFailed
  <2> HIDE DEF S, T
  <2>8. T \ {j} \subseteq S
        /\ \A i \in T \ {j} : transactions'[i].amount = transactions[i].amount
    BY <1>3, <1>4, <2>2, <2>3
  <2>9. IsFiniteSet(T) /\ \A i \in T : transactions'[i].amount \in Nat
    <3>1. IsFiniteSet(S \cup {j}) /\ T \subseteq S \cup {j}
      BY <1>1, <2>8, FS_AddElement
    <3>2. Req[r].amount \in Nat
      BY RequestFacts
    <3> QED BY <1>2, <2>6, <2>8, <3>1, <3>2, FS_Subset
  <2>10. RowSum(transactions', T \ {j}) <= RowSum(transactions, S)
    BY <1>1, <1>2, <2>8, SumFewer
  <2>11. RowSum(transactions', T) = Req[r].amount + RowSum(transactions', T \ {j})
    BY <1>7, <2>6, <2>9, SumOneMore
  <2>12. /\ RowSum(transactions, S) \in Nat /\ RowSum(transactions', T \ {j}) \in Nat
         /\ Req[r].amount \in Nat
    <3>1. IsFiniteSet(T \ {j}) /\ \A i \in T \ {j} : transactions'[i].amount \in Nat
      BY <2>9, FS_Subset
    <3> QED BY <1>1, <1>2, <3>1, SumNat, RequestFacts
  <2>13. DailySubmittedOutflow(t, w)' <= DailySubmittedOutflow(t, w) + Req[r].amount
    BY <1>5, <2>10, <2>11, <2>12
  <2> QED BY <2>6, <2>7, <2>13
<1> QED BY <1>6, <1>7

\* Rows are dated when they are made.
LEMMA RowsDated ==
    ASSUME TypeOK, NonceInv, ChainInv, LedgerInv, [Next]_vars, StoreSurvives',
           OneNetwork, \A j \in DOMAIN transactions : transactions[j].day <= day,
           NEW j \in DOMAIN transactions'
    PROVE  transactions'[j].day <= day'
<1>1. day \in Nat /\ day' \in Nat
  BY NextType, StoreAssumption DEF TypeOK, StoreTypeOK
<1>2. day <= day'
  BY <1>1, DayGrows
<1>3. CASE j \in DOMAIN transactions
  <2>1. transactions[j].day \in Nat
    BY <1>3, RowType DEF Row, SignerTransaction
  <2>2. transactions'[j].day = transactions[j].day
    BY <1>3, RowsStay DEF RowStays, Row
  <2> QED BY <1>1, <1>2, <1>3, <2>1, <2>2
<1>4. CASE j \notin DOMAIN transactions
  <2>1. PICK r \in Requests, status \in {"submitted", "failed"} :
          transactions' = Append(transactions, Item(r, status))
    BY <1>4, NewRow
  <2>2. transactions'[j] = Item(r, status)
    BY <1>4, <2>1, AppendFacts
  <2>3. Item(r, status).day = day
    BY RequestFacts
    DEF Item, TransferItem, ContractCallItem, SettlementItem, LedgerItem
  <2> QED BY <1>1, <1>2, <2>2, <2>3
<1> QED BY <1>3, <1>4

\* Validate lets a request on whose amount fits.
LEMMA ValidateRoom ==
    ASSUME TypeOK, LedgerWithinLimit, DailyLimit > 0, NoSettlements,
           NEW r \in Requests, Permitted(r)
    PROVE  DailySubmittedOutflow(Req[r].token, Network(r)) + Req[r].amount <= DailyLimit
<1> DEFINE out == DailySubmittedOutflow(Req[r].token, Network(r))
<1>1. /\ Req[r].amount \in Nat /\ Req[r].token \in Tokens /\ Network(r) \in Networks
      /\ Req[r].kind \in {"transfer", "contractCall"}
  BY RequestFacts DEF NoSettlements
<1>2. out \in Nat /\ out <= DailyLimit
  BY <1>1, OutflowNat DEF LedgerWithinLimit
<1>3. WithinTreasury(r) => out + Req[r].amount <= DailyLimit
  BY DEF WithinTreasury
<1>4. WithinTreasury(r) \/ Req[r].amount = 0
  <2>1. Permitted(r) <=> IF Req[r].kind = "transfer" THEN TransferPermitted(r)
                         ELSE ContractCallPermitted(r)
    BY <1>1 DEF Permitted
  <2> QED BY <1>1, <2>1 DEF TransferPermitted, ContractCallPermitted
<1> HIDE DEF out
<1>5. out + Req[r].amount <= DailyLimit
  BY <1>1, <1>2, <1>3, <1>4
<1> QED BY <1>5 DEF out

LEMMA TreasuryStep ==
    ASSUME TypeOK, NonceInv, ChainInv, LedgerInv, TreasuryInv, OneAtATime, [Next]_vars,
           OneNetwork, NoSettlements
    PROVE  TreasuryInv'
<1> SUFFICES ASSUME StoreSurvives', DailyLimit > 0
             PROVE  /\ \A j \in DOMAIN transactions' : transactions'[j].day <= day'
                    /\ LedgerWithinLimit'
                    /\ \A r \in Requests : pc'[r] \in Paying =>
                         DailySubmittedOutflow(Req[r].token, Network(r))' + Req[r].amount
                             <= DailyLimit
  BY DEF TreasuryInv, Network
<1> DEFINE Out(t, w) == DailySubmittedOutflow(t, w)
           Next1(t, w) == DailySubmittedOutflow(t, w)'
<1>1. /\ \A j \in DOMAIN transactions : transactions[j].day <= day
      /\ LedgerWithinLimit
      /\ \A r \in Requests : pc[r] \in Paying =>
           Out(Req[r].token, Network(r)) + Req[r].amount <= DailyLimit
  BY SurvivedBefore DEF TreasuryInv
<1>2. \A j \in DOMAIN transactions' : transactions'[j].day <= day'
  BY <1>1, RowsDated
<1>3. \A t, w : Out(t, w) \in Nat /\ Next1(t, w) \in Nat
  <2>1. \A t, w : DailySubmittedOutflow(t, w) \in Nat
    BY OutflowNat
  <2>2. \A t, w : DailySubmittedOutflow(t, w)' \in Nat
    BY NextType, OutflowNatNext
  <2> QED BY <2>1, <2>2
<1>4. ASSUME NEW t, NEW w
      PROVE  \/ Next1(t, w) <= Out(t, w)
             \/ \E r \in Requests :
                  /\ Record(r)
                  /\ Req[r].token = t /\ Network(r) = w
                  /\ Next1(t, w) <= Out(t, w) + Req[r].amount
  BY <1>1, OutflowStep
<1>5. DailyLimit \in Nat /\ \A r \in Requests : Req[r].amount \in Nat
  BY RequestFacts, PipelineAssumption
<1>6. \A t \in Tokens, w \in Networks : Out(t, w) <= DailyLimit
  BY <1>1 DEF LedgerWithinLimit
<1>7. ASSUME NEW r \in Requests, pc'[r] \in Paying
      PROVE  /\ Out(Req[r].token, Network(r)) + Req[r].amount <= DailyLimit
             /\ pc[r] \in Paying \/ Validate(r)
  BY <1>1, <1>7, PayingFrom, ValidateRoom
<1>8. ASSUME NEW r \in Requests, Record(r)
      PROVE  /\ pc[r] \in Paying /\ pc'[r] \notin Paying
             /\ \A q \in Requests \ {r} : pc'[q] = pc[q]
  BY <1>8 DEF Record, Goto, TypeOK, Paying, Executing
<1>9. LedgerWithinLimit'
  <2> SUFFICES ASSUME NEW t \in Tokens, NEW w \in Networks
               PROVE  Next1(t, w) <= DailyLimit
    BY DEF LedgerWithinLimit
  <2> HIDE DEF Out, Next1
  <2> QED BY <1>1, <1>3, <1>4, <1>5, <1>6, <1>8
<1>10. ASSUME NEW r \in Requests, pc'[r] \in Paying
       PROVE  Next1(Req[r].token, Network(r)) + Req[r].amount <= DailyLimit
  <2>1. ASSUME NEW q \in Requests, Record(q), Req[q].token = Req[r].token,
               Network(q) = Network(r)
        PROVE  FALSE
    <3>1. q # r /\ pc[r] = pc'[r] /\ pc[q] \in Executing /\ pc[r] \in Executing
      BY <1>8, <1>10, <2>1 DEF Paying
    <3> QED BY <2>1, <3>1 DEF OneAtATime, SameTreasury
  <2>2. Next1(Req[r].token, Network(r)) <= Out(Req[r].token, Network(r))
    <3> HIDE DEF Out, Next1
    <3> QED BY <1>4, <2>1
  <2>3. Out(Req[r].token, Network(r)) + Req[r].amount <= DailyLimit
    BY <1>7, <1>10
  <2> HIDE DEF Out, Next1
  <2> QED BY <1>3, <1>5, <2>2, <2>3
<1> QED BY <1>2, <1>9, <1>10

-----------------------------------------------------------------------------
(***************************************************************************)
(* From the ledger back to what was sent.                                  *)
(***************************************************************************)

\* Only a crash loses a request.
NoneLost == crashes = 0 => \A r \in Requests : pc[r] # "lost"

LEMMA NoneLostStep ==
    ASSUME TypeOK, NoneLost, [Next]_vars
    PROVE  NoneLost'
<1> USE DEF Goto, Reply, FailAttempt
<1>1. crashes \in Nat
  BY PipelineAssumption DEF TypeOK
<1>2. ASSUME NEW r \in Requests, Arrive(r) PROVE NoneLost'
  BY <1>2 DEF Arrive, RefuseEarly, ClaimNothing, LookupResult, MemoryClaimResult,
              TypeOK, NoneLost
<1>3. ASSUME NEW r \in Requests, Attempt(r) PROVE NoneLost'
  <2>1. crashes' = crashes /\ \A q \in Requests \ {r} : pc'[q] = pc[q]
    BY <1>3, AttemptFrame
    DEF Attempt, Dial, Reserve, Build, SignFailed, Send, MarkSubmitted, Record,
        MarkFailed, RecordFailed
  <2>2. pc'[r] # "lost"
    BY <1>3
    DEF Attempt, Dial, Reserve, Build, SignFailed, Send, MarkSubmitted, Record,
        MarkFailed, RecordFailed, TypeOK
  <2> QED BY <2>1, <2>2 DEF NoneLost
<1>4. ASSUME NEW r \in Requests, Step(r), ~Attempt(r) PROVE NoneLost'
  BY <1>4 DEF Step, ClaimLock, Validate, Release, Save, TypeOK, NoneLost
<1>5. ASSUME NEW i \in Instances, Crash(i) PROVE NoneLost'
  BY <1>1, <1>5 DEF Crash, NoneLost
<1>6. ASSUME UNCHANGED <<pc, crashes>> PROVE NoneLost'
  BY <1>6 DEF NoneLost
<1> QED BY <1>2, <1>3, <1>4, <1>5, <1>6
        DEF Next, Disconnect, Monitor, MonitorList, MonitorCheck, MonitorHangs, Mine,
            Midnight, vars

\* What the requests of some broadcasts pay.
PaidSum(S) == MapThenSumSet(LAMBDA s : Req[s.req].amount, S)

LEMMA CountedSums ==
    ASSUME OutflowCounted, StoreSurvives, faults + cancels = 0, day = 0
    PROVE  \A t \in Tokens, w \in Networks :
             PaidSum(SpentOf(t, w)) <= DailySubmittedOutflow(t, w)
  BY DEF OutflowCounted, PaidSum

\* It is a sum of rows, one for each broadcast.
LEMMA PaidRows ==
    ASSUME NEW A, NEW S, S \subseteq A, IsFiniteSet(S)
    PROVE  PaidSum(S) = RowSum([s \in A |-> Req[s.req]], S)
<1> DEFINE rows == [s \in A |-> Req[s.req]]
           f == [s \in S |-> Req[s.req].amount]
<1>1. PICK g : Adds(g, f, S) /\ PaidSum(S) = g[S]
  BY SpentSum DEF PaidSum
<1>2. PICK h : Adds(h, [s \in S |-> rows[s].amount], S) /\ RowSum(rows, S) = h[S]
  BY OutflowSum
<1>3. [s \in S |-> rows[s].amount] = f
  OBVIOUS
<1>4. Adds(h, f, S)
  BY <1>2, <1>3
<1> HIDE DEF f, rows
<1>5. S \subseteq S
  OBVIOUS
<1>6. g[S] = h[S]
  BY <1>1, <1>4, <1>5, AddsAgree
<1> QED BY <1>1, <1>2, <1>6 DEF rows

LEMMA PaidFewer ==
    ASSUME TypeOK, NEW S, NEW P, S \subseteq P, P \subseteq accepted, IsFiniteSet(P)
    PROVE  PaidSum(S) <= PaidSum(P) /\ PaidSum(S) \in Nat /\ PaidSum(P) \in Nat
<1> DEFINE rows == [s \in accepted |-> Req[s.req]]
<1>1. \A s \in accepted : rows[s].amount \in Nat
  BY RequestFacts DEF TypeOK, Broadcast
<1>2. IsFiniteSet(S)
  BY FS_Subset
<1>3. PaidSum(S) = RowSum(rows, S) /\ PaidSum(P) = RowSum(rows, P)
  BY <1>2, PaidRows
<1> HIDE DEF rows
<1>4. RowSum(rows, S) <= RowSum(rows, P)
  BY <1>1, SumFewer
<1>5. RowSum(rows, S) \in Nat /\ RowSum(rows, P) \in Nat
  BY <1>1, <1>2, SumNat
<1> QED BY <1>3, <1>4, <1>5

LEMMA PaidOneMore ==
    ASSUME TypeOK, NEW S, S \subseteq accepted, IsFiniteSet(S), NEW x \in S
    PROVE  PaidSum(S) = Req[x.req].amount + PaidSum(S \ {x})
<1> DEFINE rows == [s \in accepted |-> Req[s.req]]
<1>1. /\ \A s \in S : rows[s].amount \in Nat
      /\ rows[x].amount = Req[x.req].amount
  BY RequestFacts DEF TypeOK, Broadcast
<1>2. IsFiniteSet(S \ {x})
  BY FS_Subset
<1>3. PaidSum(S) = RowSum(rows, S) /\ PaidSum(S \ {x}) = RowSum(rows, S \ {x})
  BY <1>2, PaidRows
<1> HIDE DEF rows
<1> QED BY <1>1, <1>3, SumOneMore

\* All that was sent of a contract is counted, but for the broadcast of the one
\* request that has not written its row yet; and for that one there is room.
LEMMA SentWithinLimit ==
    ASSUME TypeOK, SpendingInv, OutflowCounted, HonestInv, NoneLost, TreasuryInv,
           OneAtATime, Undisturbed, DailyLimit > 0, day = 0,
           OneNetwork, NoBlanks, OneSpelling,
           NEW t \in Tokens, NEW w \in Networks
    PROVE  PaidSum(SentOf(t, w)) <= DailyLimit
<1> DEFINE S == SentOf(t, w)
<1>1. faults = 0 /\ cancels = 0 /\ crashes = 0
  BY PipelineAssumption DEF TypeOK, Undisturbed
<1>2. StoreSurvives /\ Reliable
  BY <1>1 DEF StoreSurvives, Reliable
<1>3. NoncesApart /\ \A s \in accepted : Underway(s)
  BY <1>2 DEF SpendingInv
<1>4. /\ LedgerWithinLimit
      /\ \A r \in Requests : pc[r] \in Paying =>
           DailySubmittedOutflow(Req[r].token, Network(r)) + Req[r].amount <= DailyLimit
  BY <1>2 DEF TreasuryInv
<1>5. S \subseteq accepted /\ IsFiniteSet(S)
  BY <1>3, AcceptedFinite, FS_Subset DEF SentOf
<1>6. ASSUME NEW s \in S
      PROVE  /\ s.req \in Requests /\ s.acked /\ s.nonce \notin reverted
             /\ Network(s.req) = w /\ ContractOf[Req[s.req].token] = ContractOf[t]
             /\ pc[s.req] \in {"markSubmitted", "record", "save", "done"}
             /\ pc[s.req] \in Sent => nonce[s.req] = s.nonce
  <2>1. /\ s \in accepted /\ s.req \in Requests /\ s.nonce \notin reverted
        /\ Network(s.req) = w /\ ContractOf[Req[s.req].token] = ContractOf[t]
    BY <1>6 DEF SentOf, TypeOK, Broadcast
  <2>2. s.acked
    BY <1>1, <2>1 DEF HonestInv
  <2>3. /\ pc[s.req] \in Sent \cup {"done", "lost"}
        /\ pc[s.req] \in Sent => nonce[s.req] = s.nonce
    BY <1>3, <2>1, <2>2 DEF Underway
  <2>4. pc[s.req] # "lost"
    BY <1>1, <2>1 DEF NoneLost
  <2> QED BY <2>1, <2>2, <2>3, <2>4 DEF Sent
<1>7. CASE S = {}
  <2>1. PaidSum(S) = RowSum([s \in {} |-> Req[s.req]], {})
    BY <1>5, <1>7, PaidRows
  <2>2. PaidSum(S) = 0 /\ DailyLimit \in Nat
    BY <2>1, SumEmpty, PipelineAssumption
  <2> QED BY <2>2
<1>8. ASSUME NEW s0 \in S PROVE PaidSum(S) <= DailyLimit
  <2> DEFINE u == Req[s0.req].token
             P == SpentOf(u, w)
             out == DailySubmittedOutflow(u, w)
             rest == {s \in S : pc[s.req] \in {"save", "done"}}
  <2>1. u \in Tokens /\ \A s \in S : Req[s.req].token = u
    BY <1>6, RequestFacts DEF OneSpelling
  <2>2. rest \subseteq P /\ P \subseteq accepted /\ IsFiniteSet(P)
    <3>1. rest \subseteq P
      BY <1>5, <1>6, <2>1 DEF SpentOf, NoBlanks
    <3>2. P \subseteq accepted
      BY DEF SpentOf
    <3> QED BY <1>3, <3>1, <3>2, AcceptedFinite, FS_Subset
  <2>3. PaidSum(P) <= out
    BY <1>1, <1>2, <2>1, CountedSums
  <2>4. out \in Nat /\ out <= DailyLimit /\ DailyLimit \in Nat
    BY <1>4, <2>1, OutflowNat, PipelineAssumption DEF LedgerWithinLimit
  <2> HIDE DEF S, P, out, rest
  <2>5. PaidSum(rest) <= PaidSum(P) /\ PaidSum(rest) \in Nat /\ PaidSum(P) \in Nat
    BY <2>2, PaidFewer
  <2>6. CASE rest = S
    BY <2>3, <2>4, <2>5, <2>6
  <2>7. CASE rest # S
    <3>1. PICK x \in S : pc[x.req] \in {"markSubmitted", "record"}
      BY <1>6, <2>7 DEF rest
    <3>2. ASSUME NEW y \in S, pc[y.req] \in {"markSubmitted", "record"} PROVE y = x
      <4>1. pc[x.req] \in Executing /\ pc[y.req] \in Executing
        BY <3>1, <3>2 DEF Executing
      <4>2. SameTreasury(x.req, y.req)
        BY <1>6, <2>1 DEF SameTreasury
      <4>3. x.req = y.req
        BY <1>6, <4>1, <4>2 DEF OneAtATime
      <4>4. x.nonce = y.nonce
        BY <1>6, <3>1, <3>2, <4>3 DEF Sent
      <4> QED BY <1>3, <1>5, <4>4 DEF NoncesApart
    <3>3. S \ {x} = rest
      BY <1>6, <3>1, <3>2 DEF rest
    <3>4. PaidSum(S) = Req[x.req].amount + PaidSum(rest)
      BY <1>5, <3>3, PaidOneMore
    <3>5. out + Req[x.req].amount <= DailyLimit /\ Req[x.req].amount \in Nat
      BY <1>4, <1>6, <2>1, <3>1, RequestFacts DEF Paying, Executing, out
    <3> QED BY <2>3, <2>4, <2>5, <3>4, <3>5
  <2> QED BY <2>6, <2>7
<1> QED BY <1>7, <1>8

\* What is sent of a token contract on a day stays within
\* TREASURY_MAX_DAILY_OUTFLOW when the requests for it are executed one at a
\* time, none is a settlement, their amounts come without blanks, they spell
\* the contract one way, and no fault, disconnect or crash has happened: the
\* monitors, the nodes that lag, the reverts and the requests for other tokens
\* that run alongside do not break the limit (validateTreasuryPolicy,
\* DailySubmittedOutflow).
THEOREM SerialOutflowWithinLimit ==
    ASSUME OneNetwork, NoSettlements, NoBlanks, OneSpelling
    PROVE  Spec /\ []OneAtATime => [](Undisturbed => OutflowWithinLimit)
<1>1. Init => TreasuryInv
  <2> SUFFICES ASSUME Init, DailyLimit > 0 PROVE TreasuryInv
    BY DEF TreasuryInv
  <2>1. transactions = <<>> /\ \A r \in Requests : pc[r] = "new"
    BY DEF Init, StoreInit
  <2>2. ASSUME NEW t, NEW w PROVE DailySubmittedOutflow(t, w) = 0
    <3>1. OutflowRows(t, w) = {}
      BY <2>1 DEF OutflowRows, PostgresOutflowRows, MemoryOutflowRows
    <3>2. RowSum(transactions, {}) = 0
      BY SumEmpty
    <3> QED BY <3>1, <3>2, DailySum
  <2> QED BY <2>1, <2>2, PipelineAssumption
          DEF TreasuryInv, LedgerWithinLimit, Paying, Executing
<1>2. TypeOK /\ NonceInv /\ ChainInv /\ LedgerInv /\ TreasuryInv /\ OneAtATime
        /\ [Next]_vars => TreasuryInv'
  BY TreasuryStep
<1>3. Init => NoneLost /\ HonestInv
  BY DEF Init, NoneLost, HonestInv
<1>4. TypeOK /\ SpendingInv /\ OutflowCounted /\ HonestInv /\ NoneLost /\ TreasuryInv
        /\ OneAtATime => (Undisturbed => OutflowWithinLimit)
  <2> SUFFICES ASSUME TypeOK, SpendingInv, OutflowCounted, HonestInv, NoneLost,
                      TreasuryInv, OneAtATime, Undisturbed, DailyLimit > 0, day = 0,
                      NEW t \in Tokens, NEW w \in Networks
               PROVE  PaidSum(SentOf(t, w)) <= DailyLimit
    BY DEF OutflowWithinLimit, PaidSum
  <2> QED BY SentWithinLimit
<1> QED BY <1>1, <1>2, <1>3, <1>4, HonestStep, NoneLostStep, TypeCorrect,
           NonceInductive, ChainInductive, LedgerInductive, SpendingInductive,
           OutflowIsCounted, PTL DEF Spec
=============================================================================
