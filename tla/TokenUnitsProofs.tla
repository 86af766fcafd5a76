--------------------------- MODULE TokenUnitsProofs ---------------------------
(***************************************************************************)
(* The laws of token totals that the budget's proofs rest on: a total over *)
(* a finite set of requests is a natural number, depends on nothing but    *)
(* the amounts of those requests, grows with them, and splits over         *)
(* disjoint sets.                                                          *)
(***************************************************************************)
EXTENDS TokenUnits, Integers, FiniteSetTheorems, TLAPS

\* A total over finitely many requests is a natural number.
LEMMA TokensType ==
  ASSUME NEW S, IsFiniteSet(S), NEW amount, \A r \in S : amount[r] \in Nat
  PROVE  /\ IsFiniteSet(Units(S, amount))
         /\ Tokens(S, amount) \in Nat
<1> DEFINE Row(r) == {r} \X (1..amount[r])
           AllRows == {Row(r) : r \in S}
           f == [r \in S |-> Row(r)]
<1>1. \A r \in S : IsFiniteSet(Row(r))
  <2> TAKE r \in S
  <2>1. IsFiniteSet({r})
    BY FS_Singleton
  <2>2. IsFiniteSet(1..amount[r])
    BY FS_Interval
  <2> QED
    BY <2>1, <2>2, FS_Product
<1>2. f \in Surjection(S, AllRows)
  BY DEF Surjection
<1>3. IsFiniteSet(AllRows)
  BY <1>2, FS_Surjection
<1>4. \A T \in AllRows : IsFiniteSet(T)
  BY <1>1
<1>5. IsFiniteSet(UNION AllRows)
  BY <1>3, <1>4, FS_UNION
<1> QED
  BY <1>5, FS_CardinalityType DEF Units, Tokens

\* The tokens of S are the pairs of a request of S and an index.
LEMMA UnitsMember ==
  ASSUME NEW S, NEW amount, NEW u
  PROVE  u \in Units(S, amount) <=> \E r \in S : u \in {r} \X (1..amount[r])
BY DEF Units

\* Nothing has no tokens.
LEMMA TokensEmpty == \A amount : Tokens({}, amount) = 0
<1> TAKE amount
<1>1. Units({}, amount) = {}
  BY DEF Units
<1> QED
  BY <1>1, FS_EmptySet DEF Tokens

\* The total of one request is its amount.
LEMMA TokensOne ==
  ASSUME NEW r, NEW amount, amount[r] \in Nat
  PROVE  Tokens({r}, amount) = amount[r]
<1>1. Units({r}, amount) = {r} \X (1..amount[r])
  BY DEF Units
<1>2. IsFiniteSet({r}) /\ Cardinality({r}) = 1
  BY FS_Singleton
<1>3. IsFiniteSet(1..amount[r]) /\ Cardinality(1..amount[r]) = amount[r]
  BY FS_Interval
<1>4. Cardinality({r} \X (1..amount[r])) = Cardinality({r}) * Cardinality(1..amount[r])
  BY <1>2, <1>3, FS_Product
<1>5. Cardinality({r} \X (1..amount[r])) = amount[r]
  <2> DEFINE n == amount[r]
  <2>1. Cardinality({r} \X (1..amount[r])) = 1 * n
    BY <1>2, <1>3, <1>4
  <2>2. n \in Nat => 1 * n = n
    OBVIOUS
  <2> QED
    BY <2>1, <2>2
<1> QED
  BY <1>1, <1>5 DEF Tokens

\* A total depends only on the amounts of the requests it ranges over.
LEMMA TokensSame ==
  ASSUME NEW S, NEW a, NEW b, \A r \in S : a[r] = b[r]
  PROVE  Tokens(S, a) = Tokens(S, b)
<1>1. Units(S, a) = Units(S, b)
  BY DEF Units
<1> QED
  BY <1>1 DEF Tokens

\* A total grows with the amounts.
LEMMA TokensMonotone ==
  ASSUME NEW S, IsFiniteSet(S), NEW a, NEW b,
         \A r \in S : a[r] \in Nat /\ b[r] \in Nat /\ a[r] <= b[r]
  PROVE  Tokens(S, a) <= Tokens(S, b)
<1>1. Units(S, a) \subseteq Units(S, b)
  <2> SUFFICES ASSUME NEW u \in Units(S, a)
               PROVE  u \in Units(S, b)
    OBVIOUS
  <2>1. PICK r \in S : u \in {r} \X (1..a[r])
    BY UnitsMember
  <2>2. u \in {r} \X (1..b[r])
    BY <2>1
  <2> QED
    BY <2>2, UnitsMember
<1>2. IsFiniteSet(Units(S, b))
  BY TokensType
<1> QED
  BY <1>1, <1>2, FS_Subset DEF Tokens

\* A total splits over disjoint sets of requests.
LEMMA TokensDisjoint ==
  ASSUME NEW S, IsFiniteSet(S), NEW T, IsFiniteSet(T), S \cap T = {},
         NEW amount, \A r \in S \cup T : amount[r] \in Nat
  PROVE  Tokens(S \cup T, amount) = Tokens(S, amount) + Tokens(T, amount)
<1>1. /\ IsFiniteSet(Units(S, amount)) /\ Cardinality(Units(S, amount)) \in Nat
      /\ IsFiniteSet(Units(T, amount)) /\ Cardinality(Units(T, amount)) \in Nat
  BY TokensType DEF Tokens
<1>2. Units(S \cup T, amount) = Units(S, amount) \cup Units(T, amount)
  BY DEF Units
<1>3. Units(S, amount) \cap Units(T, amount) = {}
  <2> SUFFICES ASSUME NEW u, u \in Units(S, amount), u \in Units(T, amount)
               PROVE  FALSE
    OBVIOUS
  <2>1. PICK r \in S : u \in {r} \X (1..amount[r])
    BY UnitsMember
  <2>2. PICK q \in T : u \in {q} \X (1..amount[q])
    BY UnitsMember
  <2> QED
    BY <2>1, <2>2
<1>4. Cardinality({}) = 0
  BY FS_EmptySet
<1>5. Cardinality(Units(S, amount) \cup Units(T, amount)) =
        Cardinality(Units(S, amount)) + Cardinality(Units(T, amount))
          - Cardinality(Units(S, amount) \cap Units(T, amount))
  BY <1>1, FS_Union
<1>6. Cardinality(Units(S \cup T, amount)) =
        Cardinality(Units(S, amount)) + Cardinality(Units(T, amount)) - 0
  BY <1>2, <1>3, <1>4, <1>5, Zenon
<1>7. Cardinality(Units(S \cup T, amount)) =
        Cardinality(Units(S, amount)) + Cardinality(Units(T, amount))
  BY <1>1, <1>6
<1> QED
  BY <1>7 DEF Tokens

\* The total of requests that have no tokens is zero.
LEMMA TokensZero ==
  ASSUME NEW S, NEW amount, \A r \in S : amount[r] = 0
  PROVE  Tokens(S, amount) = 0
<1>1. Units(S, amount) = {}
  <2> SUFFICES ASSUME NEW u \in Units(S, amount)
               PROVE  FALSE
    OBVIOUS
  <2>1. PICK r \in S : u \in {r} \X (1..amount[r])
    BY UnitsMember
  <2> QED
    BY <2>1
<1> QED
  BY <1>1, FS_EmptySet DEF Tokens
=============================================================================
