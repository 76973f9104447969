-------------------------- MODULE BsmNamesProofs --------------------------
(***************************************************************************)
(* Proofs about the identifier codes of obtain_name(), for every size of   *)
(* the alphabet: the codes repeat with period Letters^3, and below that    *)
(* period no two traces share a code.                                      *)
(***************************************************************************)
EXTENDS BsmNames, Integers, TLAPS

\* The number of traces after which the codes repeat.
Period == Letters * Letters * Letters

-----------------------------------------------------------------------------
(* Lemmas on integer division by a positive divisor.                       *)

\* The remainder is in 0..b-1 and is what the quotient leaves.
LEMMA DivMod ==
    ASSUME NEW x \in Int, NEW b \in Nat \ {0}
    PROVE  /\ x % b \in 0..b-1
           /\ x % b = x - b * (x \div b)
BY SMT

\* Quotient and remainder are the only ones that satisfy x = b * k + r.
LEMMA DivUnique ==
    ASSUME NEW x \in Int, NEW b \in Nat \ {0}, NEW k \in Int,
           NEW r \in 0..b-1, x = b * k + r
    PROVE  x \div b = k /\ x % b = r
BY SMT

\* Adding a multiple of b adds to the quotient and keeps the remainder.
LEMMA DivShift ==
    ASSUME NEW a \in Int, NEW b \in Nat \ {0}, NEW q \in Int
    PROVE  /\ (a + b * q) \div b = a \div b + q
           /\ (a + b * q) % b = a % b
<1> DEFINE d == a \div b
           r == a % b
<1>1. r \in 0..b-1 /\ r = a - b * d
  BY DivMod
<1>2. d \in Int
  OBVIOUS
<1>3. a + b * q = b * (d + q) + r
  BY <1>1, <1>2
<1>4. a + b * q \in Int /\ d + q \in Int
  BY <1>2
<1>5. QED
  BY <1>1, <1>3, <1>4, DivUnique, Zenon

\* A number below b * c has a quotient by b below c.
LEMMA DivBound ==
    ASSUME NEW b \in Nat \ {0}, NEW c \in Nat \ {0}, NEW x \in 0..b * c - 1
    PROVE  x \div b \in 0..c-1
<1> DEFINE d == x \div b
<1>1. x % b \in 0..b-1 /\ x % b = x - b * d
  BY DivMod
<1>2. d \in Int
  OBVIOUS
<1>3. d >= 0
  <2> SUFFICES ASSUME d < 0 PROVE FALSE
    BY <1>2
  <2>1. b * d <= -b
    BY <1>2
  <2>2. QED
    BY <1>1, <2>1
<1>4. d < c
  <2> SUFFICES ASSUME d >= c PROVE FALSE
    BY <1>2
  <2>1. b * d >= b * c
    BY <1>2
  <2>2. QED
    BY <1>1, <2>1
<1>5. QED
  BY <1>2, <1>3, <1>4

\* A digit is its own remainder.
LEMMA ModSmall ==
    ASSUME NEW b \in Nat \ {0}, NEW x \in 0..b-1
    PROVE  x % b = x
<1>1. x = b * 0 + x /\ x \in Int /\ 0 \in Int
  OBVIOUS
<1>2. QED
  BY <1>1, DivUnique, Zenon
-----------------------------------------------------------------------------
(* What obtain_name() computes.                                           *)

\* obtain_name() gives trace n + Letters^3 the code of trace n: char3 and
\* char2 recompute char5 and char4, so only three digits of
\* bsm_name_index reach the code (the 17577th trace of a design takes the
\* code of the first).
THEOREM NameWrap ==
    ASSUME Letters \in Nat \ {0}, NEW n \in Nat
    PROVE  ObtainName(n + Period) = ObtainName(n)
<1> DEFINE L == Letters
           q1 == Quot(n)
           q2 == Quot(q1)
<1>1. n \in Int /\ q1 \in Int /\ q2 \in Int /\ L \in Int /\ L * L \in Int /\ 1 \in Int
  BY DEF Quot
<1>2. n + Period = n + L * (L * L)
  BY DEF Period
<1>3. Quot(n + Period) = q1 + L * L /\ (n + Period) % L = n % L
  <2>1. (n + L * (L * L)) \div L = n \div L + L * L
        /\ (n + L * (L * L)) % L = n % L
    BY <1>1, DivShift, Zenon
  <2>2. QED
    BY <1>2, <2>1 DEF Quot
<1>4. Quot(q1 + L * L) = q2 + L /\ (q1 + L * L) % L = q1 % L
  <2>1. (q1 + L * L) \div L = q1 \div L + L /\ (q1 + L * L) % L = q1 % L
    BY <1>1, DivShift, Zenon
  <2>2. QED
    BY <2>1 DEF Quot
<1>5. (q2 + L) % L = q2 % L
  <2>1. (q2 + L * 1) % L = q2 % L
    BY <1>1, DivShift, Zenon
  <2>2. QED
    BY <1>1, <2>1
<1>6. QED
  BY <1>3, <1>4, <1>5 DEF ObtainName
\* Below Letters^3 an index is the number its three digits spell.
LEMMA Digits ==
    ASSUME Letters \in Nat \ {0}, NEW n \in 0..Period-1
    PROVE  /\ Quot(Quot(n)) \in 0..Letters-1
           /\ n = Letters * (Letters * Quot(Quot(n)) + (Quot(n) % Letters))
                  + (n % Letters)
<1> DEFINE L == Letters
           q1 == Quot(n)
           q2 == Quot(q1)
<1>1. L * L \in Nat \ {0} /\ n \in 0..L * (L * L) - 1
  BY DEF Period
<1>2. q1 \in 0..L * L - 1
  BY <1>1, DivBound, Zenon DEF Quot
<1>3. q2 \in 0..L - 1
  BY <1>2, DivBound, Zenon DEF Quot
<1>4. n \in Int /\ q1 \in Int
  BY <1>1, <1>2
<1>5. n % L = n - L * q1 /\ q1 % L = q1 - L * q2
  BY <1>4, DivMod, Zenon DEF Quot
<1>6. L * q2 + (q1 % L) = q1
  BY <1>3, <1>4, <1>5
<1>7. L * (L * q2 + (q1 % L)) = L * q1
  BY <1>4, <1>6
<1>8. QED
  BY <1>3, <1>4, <1>5, <1>7

\* Below Letters^3 traces, obtain_name() never gives two traces one code.
THEOREM NamesDistinct ==
    ASSUME Letters \in Nat \ {0}, NEW m \in 0..Period-1,
           NEW n \in 0..Period-1, ObtainName(m) = ObtainName(n)
    PROVE  m = n
<1> DEFINE L == Letters
<1>1. /\ Quot(Quot(m)) % L = Quot(Quot(n)) % L
      /\ Quot(m) % L = Quot(n) % L
      /\ m % L = n % L
  BY DEF ObtainName
<1>2. Quot(Quot(m)) = Quot(Quot(n))
  BY <1>1, Digits, ModSmall
<1>3. m = L * (L * Quot(Quot(m)) + (Quot(m) % L)) + (m % L)
  BY Digits, Zenon
<1>4. n = L * (L * Quot(Quot(n)) + (Quot(n) % L)) + (n % L)
  BY Digits, Zenon
<1>5. QED
  BY <1>1, <1>2, <1>3, <1>4
-----------------------------------------------------------------------------
(* The codes the trace calls hand out.                                    *)

\* The inductive invariant: trace i (from 1) has the code of index i - 1.
NamesInv ==
    /\ bsmNameIndex \in Nat
    /\ names = [i \in 1..bsmNameIndex |-> ObtainName(i - 1)]

\* The constructor starts with no traces and index 0.
LEMMA InitNamesInv == Init => NamesInv
BY DEF Init, NamesInv

\* A trace call appends the code of the current index and increments it.
LEMMA NextNamesInv == NamesInv /\ [AddTrace]_vars => NamesInv'
<1> SUFFICES ASSUME NamesInv, [AddTrace]_vars PROVE NamesInv'
  OBVIOUS
<1>1. CASE AddTrace
  BY <1>1 DEF AddTrace, NamesInv
<1>2. CASE UNCHANGED vars
  BY <1>2 DEF vars, NamesInv
<1>3. QED
  BY <1>1, <1>2

\* As long as no more than Letters^3 traces have been added (17576 in the
\* code), every traced variable has a code of its own.
THEOREM NamesUniqueBeforeWrap ==
    ASSUME Letters \in Nat \ {0}
    PROVE  Spec => [](bsmNameIndex <= Period => NamesUnique)
<1>1. NamesInv => (bsmNameIndex <= Period => NamesUnique)
  <2> SUFFICES ASSUME NamesInv, bsmNameIndex <= Period,
                      NEW i \in 1..Len(names), NEW j \in 1..Len(names), i # j
               PROVE  names[i] # names[j]
    BY DEF NamesUnique
  <2>1. Len(names) = bsmNameIndex
    BY DEF NamesInv
  <2>2. names[i] = ObtainName(i - 1) /\ names[j] = ObtainName(j - 1)
    BY <2>1 DEF NamesInv
  <2>3. i - 1 \in 0..Period-1 /\ j - 1 \in 0..Period-1 /\ i - 1 # j - 1
    BY <2>1 DEF Period
  <2>4. ObtainName(i - 1) # ObtainName(j - 1)
    BY <2>3, NamesDistinct, Zenon
  <2>5. QED
    BY <2>2, <2>4
<1>2. QED
  BY InitNamesInv, NextNamesInv, <1>1, PTL DEF Spec
=============================================================================
