---------------------------- MODULE Forms_proofs ----------------------------
(***************************************************************************)
(* What the portal makes of what is typed, picked and reported, for every  *)
(* text, every number of digits and every configuration: Amounts and       *)
(* Selection.  What a recursive function computes is shown by least        *)
(* counterexample: of the arguments for which a claim fails there would be *)
(* a smallest one.                                                         *)
(***************************************************************************)
EXTENDS MCPortalProcess, FiniteSetTheorems, SequenceTheorems,
        WellFoundedInduction, TLAPS

-----------------------------------------------------------------------------
(* Least elements, and what follows from them about recursive functions.   *)

LEMMA Least ==
  ASSUME NEW U \in SUBSET Nat, U # {}
  PROVE  \E x \in U : \A y \in U : x <= y
  <1>1. PICK R : R = OpToRel(<, Nat) /\ R = {ss \in Nat \X Nat : ss[1] < ss[2]}
    BY Zenon DEF OpToRel
  <1>2. IsWellFoundedOn(R, Nat)
    BY <1>1, NatLessThanWellFounded, Zenon
  <1>3. PICK x \in U : \A y \in U : <<y, x>> \notin R
    BY <1>2, WFMin, Zenon
  <1>4. R = {ss \in Nat \X Nat : ss[1] < ss[2]}
    BY <1>1, Zenon
  <1>5. ASSUME NEW y \in U, y < x PROVE FALSE
    BY <1>3, <1>4, <1>5
  <1>. QED BY <1>5

\* Functions that agree at the next argument if they agree at this one.
Agreeing(f, g, N) ==
  f[0] = g[0] /\ \A n \in 1 .. N : f[n - 1] = g[n - 1] => f[n] = g[n]

LEMMA Agree ==
  ASSUME NEW N \in Nat, NEW f, NEW g, Agreeing(f, g, N)
  PROVE  \A n \in 0 .. N : f[n] = g[n]
  <1>. DEFINE U == {n \in 0 .. N : f[n] # g[n]}
  <1>. SUFFICES ASSUME U # {} PROVE FALSE
    OBVIOUS
  <1>1. PICK x \in U : \A y \in U : x <= y
    <2>1. U \in SUBSET Nat
      OBVIOUS
    <2>. QED BY <2>1, Least
  <1>2. x \in 1 .. N
    BY <1>1 DEF Agreeing
  <1>3. x - 1 \notin U
    BY <1>1, <1>2
  <1>. QED BY <1>1, <1>2, <1>3 DEF Agreeing

\* f is given by a recursion over 0 .. N, of which before is the argument that
\* the value at an argument depends on.
Decreasing(before, N) == before \in [1 .. N -> Nat] /\ \A n \in 1 .. N : before[n] < n
Recurring(f, N, V, base, step, before) ==
  /\ f \in [0 .. N -> V] /\ f[0] = base
  /\ \A n \in 1 .. N : f[n] = step[<<n, f[before[n]]>>]

\* A recursion whose argument decreases defines a function.
LEMMA Recursion ==
  ASSUME NEW N \in Nat, NEW V, NEW base \in V, NEW step \in [(1 .. N) \X V -> V],
         NEW before, Decreasing(before, N)
  PROVE  \E f : Recurring(f, N, V, base, step, before)
  <1>. DEFINE Defines(f, k) ==
                /\ f \in [0 .. k -> V] /\ f[0] = base
                /\ \A n \in 1 .. k : f[n] = step[<<n, f[before[n]]>>]
              U == {k \in 0 .. N : ~ \E f : Defines(f, k)}
  <1>0. before \in [1 .. N -> Nat] /\ \A n \in 1 .. N : before[n] < n
    BY DEF Decreasing
  <1>1. 0 \notin U
    <2>1. Defines([n \in {0} |-> base], 0)
      OBVIOUS
    <2>. HIDE DEF Defines
    <2>. QED BY <2>1
  <1>2. ASSUME NEW k \in 0 .. N, k \in U, \A y \in U : k <= y PROVE FALSE
    <2>0. k \in 1 .. N /\ k - 1 \in 0 .. N
      <3>. HIDE DEF U
      <3>1. k # 0
        BY <1>1, <1>2
      <3>. QED BY <3>1
    <2>1. k \in 1 .. N /\ k - 1 \in 0 .. N /\ k - 1 \notin U
      <3>. HIDE DEF U
      <3>. QED BY <1>2, <2>0
    <2>2. PICK f : Defines(f, k - 1)
      BY <2>1
    <2>3. before[k] \in 0 .. k - 1
      BY <2>1, <1>0
    <2>4. step[<<k, f[before[k]]>>] \in V
      BY <2>1, <2>2, <2>3
    <2>. DEFINE g == [n \in 0 .. k |-> IF n < k THEN f[n] ELSE step[<<k, f[before[k]]>>]]
    <2>5. g \in [0 .. k -> V] /\ g[0] = base
      BY <2>1, <2>2, <2>4
    <2>6. ASSUME NEW n \in 1 .. k PROVE g[n] = step[<<n, g[before[n]]>>]
      <3>1. before[n] \in 0 .. n - 1 /\ before[n] \in 0 .. k - 1
        BY <2>1, <1>0
      <3>2. \A m \in 0 .. k - 1 : g[m] = f[m]
        BY <2>1
      <3>3. g[before[n]] = f[before[n]]
        BY <3>1, <3>2
      <3>4. CASE n = k
        <4>1. g[k] = step[<<k, f[before[k]]>>]
          BY <2>1
        <4>. QED BY <3>3, <3>4, <4>1
      <3>5. CASE n \in 1 .. k - 1
        <4>1. g[n] = f[n]
          BY <3>2, <3>5
        <4>. QED BY <2>2, <3>3, <3>5, <4>1
      <3>. QED BY <3>4, <3>5, <2>1
    <2>7. Defines(g, k)
      BY <2>5, <2>6
    <2>. QED BY <2>7, <1>2
  <1>3. U = {}
    <2>1. U \in SUBSET Nat /\ \A k \in U : k \in 0 .. N
      OBVIOUS
    <2>. HIDE DEF U
    <2>2. ASSUME U # {} PROVE FALSE
      <3>1. PICK k \in U : \A y \in U : k <= y
        BY <2>1, <2>2, Least
      <3>. QED BY <1>2, <2>1, <3>1
    <2>. QED BY <2>2
  <1>. HIDE DEF Defines
  <1>4. N \in 0 .. N
    OBVIOUS
  <1>5. \E f : Defines(f, N)
    BY <1>3, <1>4
  <1>. QED BY <1>5 DEF Defines, Recurring

-----------------------------------------------------------------------------
(* Reading digits (Amounts).                                               *)

\* The prefixes of a text that Number reads, the empty one first, and those
\* that the reference reads, which passes over the dot.
Reads(n, s) ==
  /\ n \in [0 .. Len(s) -> Nat] /\ n[0] = 0
  /\ \A i \in 1 .. Len(s) : n[i] = 10 * n[i - 1] + s[i]
ReadsFigure(n, s) ==
  /\ n \in [0 .. Len(s) -> Nat] /\ n[0] = 0
  /\ \A i \in 1 .. Len(s) : n[i] = IF s[i] = Dot THEN n[i - 1] ELSE 10 * n[i - 1] + s[i]

LEMMA OneBefore ==
  ASSUME NEW N \in Nat PROVE Decreasing([i \in 1 .. N |-> i - 1], N)
  BY DEF Decreasing

LEMMA NumberIs ==
  ASSUME NEW s \in Seq(Nat)
  PROVE  \E n : Reads(n, s) /\ Number(s) = n[Len(s)]
  <1>. DEFINE N == Len(s)
              before == [i \in 1 .. N |-> i - 1]
              step == [x \in (1 .. N) \X Nat |-> 10 * x[2] + s[x[1]]]
              Is(n) == n = [i \in 0 .. N |-> IF i = 0 THEN 0 ELSE 10 * n[i - 1] + s[i]]
              read == CHOOSE n : Is(n)
  <1>1. PICK f : Recurring(f, N, Nat, 0, step, before)
    <2>1. N \in Nat /\ 0 \in Nat /\ step \in [(1 .. N) \X Nat -> Nat]
      OBVIOUS
    <2>2. Decreasing(before, N)
      BY OneBefore
    <2>. HIDE DEF N, before, step
    <2>. QED BY <2>1, <2>2, Recursion
  <1>2. Reads(f, s)
    <2>1. f \in [0 .. N -> Nat] /\ f[0] = 0
      BY <1>1 DEF Recurring
    <2>2. ASSUME NEW i \in 1 .. N PROVE f[i] = 10 * f[i - 1] + s[i]
      <3>1. f[i] = step[<<i, f[before[i]]>>]
        <4>. HIDE DEF N, step, before
        <4>. QED BY <1>1 DEF Recurring
      <3>4. before[i] = i - 1
        OBVIOUS
      <3>5. i - 1 \in 0 .. N
        OBVIOUS
      <3>2. <<i, f[i - 1]>> \in (1 .. N) \X Nat
        <4>. HIDE DEF N, step, before
        <4>. QED BY <2>1, <3>5
      <3>3. step[<<i, f[i - 1]>>] = 10 * f[i - 1] + s[i]
        BY <3>2
      <3>. QED BY <3>1, <3>3, <3>4
    <2>. QED BY <2>1, <2>2 DEF Reads
  <1>3. Is(f)
    BY <1>2 DEF Reads
  <1>4. Is(read)
    BY <1>3
  <1>5. Agreeing(f, read, N)
    <2>. HIDE DEF read
    <2>1. f[0] = read[0]
      BY <1>2, <1>4 DEF Reads
    <2>2. ASSUME NEW i \in 1 .. N, f[i - 1] = read[i - 1] PROVE f[i] = read[i]
      <3>1. i \in 0 .. N /\ i # 0
        OBVIOUS
      <3>2. read[i] = 10 * read[i - 1] + s[i]
        BY <1>4, <3>1
      <3>. QED BY <1>2, <2>2, <3>2 DEF Reads
    <2>. QED BY <2>1, <2>2 DEF Agreeing
  <1>6. f[N] = read[N]
    <2>. HIDE DEF read
    <2>1. N \in Nat
      OBVIOUS
    <2>2. \A n \in 0 .. N : f[n] = read[n]
      <3>. HIDE DEF N, before, step, Is
      <3>. QED BY <1>5, <2>1, Agree
    <2>. QED BY <2>1, <2>2
  <1>7. Number(s) = read[N]
    BY DEF Number
  <1>. QED BY <1>2, <1>6, <1>7

LEMMA FigureIs ==
  ASSUME NEW s \in Seq(Nat)
  PROVE  \E n : ReadsFigure(n, s) /\ Figure(s) = n[Len(s)]
  <1>. DEFINE N == Len(s)
              before == [i \in 1 .. N |-> i - 1]
              step == [x \in (1 .. N) \X Nat |-> IF s[x[1]] = Dot THEN x[2] ELSE 10 * x[2] + s[x[1]]]
              Is(n) == n = [i \in 0 .. N |-> IF i = 0 THEN 0 ELSE IF s[i] = Dot THEN n[i - 1] ELSE 10 * n[i - 1] + s[i]]
              read == CHOOSE n : Is(n)
  <1>1. PICK f : Recurring(f, N, Nat, 0, step, before)
    <2>1. N \in Nat /\ 0 \in Nat /\ step \in [(1 .. N) \X Nat -> Nat]
      OBVIOUS
    <2>2. Decreasing(before, N)
      BY OneBefore
    <2>. HIDE DEF N, before, step
    <2>. QED BY <2>1, <2>2, Recursion
  <1>2. ReadsFigure(f, s)
    <2>1. f \in [0 .. N -> Nat] /\ f[0] = 0
      BY <1>1 DEF Recurring
    <2>2. ASSUME NEW i \in 1 .. N PROVE f[i] = IF s[i] = Dot THEN f[i - 1] ELSE 10 * f[i - 1] + s[i]
      <3>1. f[i] = step[<<i, f[before[i]]>>]
        <4>. HIDE DEF N, step, before
        <4>. QED BY <1>1 DEF Recurring
      <3>4. before[i] = i - 1
        OBVIOUS
      <3>5. i - 1 \in 0 .. N
        OBVIOUS
      <3>2. <<i, f[i - 1]>> \in (1 .. N) \X Nat
        <4>. HIDE DEF N, step, before
        <4>. QED BY <2>1, <3>5
      <3>3. step[<<i, f[i - 1]>>] = IF s[i] = Dot THEN f[i - 1] ELSE 10 * f[i - 1] + s[i]
        BY <3>2
      <3>. QED BY <3>1, <3>3, <3>4
    <2>. QED BY <2>1, <2>2 DEF ReadsFigure
  <1>3. Is(f)
    BY <1>2 DEF ReadsFigure
  <1>4. Is(read)
    BY <1>3
  <1>5. Agreeing(f, read, N)
    <2>. HIDE DEF read
    <2>1. f[0] = read[0]
      BY <1>2, <1>4 DEF ReadsFigure
    <2>2. ASSUME NEW i \in 1 .. N, f[i - 1] = read[i - 1] PROVE f[i] = read[i]
      <3>1. i \in 0 .. N /\ i # 0
        OBVIOUS
      <3>2. read[i] = IF s[i] = Dot THEN read[i - 1] ELSE 10 * read[i - 1] + s[i]
        BY <1>4, <3>1
      <3>. QED BY <1>2, <2>2, <3>2 DEF ReadsFigure
    <2>. QED BY <2>1, <2>2 DEF Agreeing
  <1>6. f[N] = read[N]
    <2>. HIDE DEF read
    <2>1. N \in Nat
      OBVIOUS
    <2>2. \A n \in 0 .. N : f[n] = read[n]
      <3>. HIDE DEF N, before, step, Is
      <3>. QED BY <1>5, <2>1, Agree
    <2>. QED BY <2>1, <2>2
  <1>7. Figure(s) = read[N]
    BY DEF Figure
  <1>. QED BY <1>2, <1>6, <1>7

\* One digit more.
LEMMA NumberGrows ==
  ASSUME NEW s \in Seq(Nat), NEW t \in Seq(Nat), Len(t) = Len(s) + 1,
         \A i \in 1 .. Len(s) : t[i] = s[i]
  PROVE  Number(t) = 10 * Number(s) + t[Len(t)]
  <1>1. PICK f : Reads(f, s) /\ Number(s) = f[Len(s)]
    BY NumberIs
  <1>2. PICK g : Reads(g, t) /\ Number(t) = g[Len(t)]
    BY NumberIs
  <1>3. Agreeing(f, g, Len(s))
    BY <1>1, <1>2 DEF Agreeing, Reads
  <1>4. f[Len(s)] = g[Len(s)]
    BY <1>3, Agree
  <1>5. g[Len(t)] = 10 * g[Len(t) - 1] + t[Len(t)]
    <2>1. Len(t) \in 1 .. Len(t)
      OBVIOUS
    <2>. QED BY <1>2, <2>1 DEF Reads
  <1>. QED BY <1>1, <1>2, <1>4, <1>5

LEMMA NumberShort ==
  ASSUME NEW s \in Seq(Nat)
  PROVE  /\ Number(s) \in Nat
         /\ Len(s) = 0 => Number(s) = 0
         /\ Len(s) = 1 => Number(s) = s[1]
         /\ Len(s) = 2 => Number(s) = 10 * s[1] + s[2]
  <1>1. PICK f : Reads(f, s) /\ Number(s) = f[Len(s)]
    BY NumberIs
  <1>2. Number(s) \in Nat
    BY <1>1 DEF Reads
  <1>3. f[0] = 0
    BY <1>1 DEF Reads
  <1>4. Len(s) >= 1 => f[1] = 10 * f[0] + s[1]
    BY <1>1 DEF Reads
  <1>5. Len(s) >= 2 => f[2] = 10 * f[1] + s[2]
    BY <1>1 DEF Reads
  <1>6. (Len(s) >= 1 => s[1] \in Nat) /\ (Len(s) >= 2 => s[2] \in Nat)
    OBVIOUS
  <1>8. Len(s) = 0 => Number(s) = 0
    BY <1>1, <1>3
  <1>9. Len(s) = 1 => Number(s) = s[1]
    <2>1. SUFFICES ASSUME Len(s) = 1 PROVE f[1] = s[1]
      BY <1>1
    <2>2. f[1] = 10 * 0 + s[1] /\ s[1] \in Nat
      BY <1>3, <1>4, <1>6, <2>1
    <2>. QED BY <2>2
  <1>10. Len(s) = 2 => Number(s) = 10 * s[1] + s[2]
    <2>1. SUFFICES ASSUME Len(s) = 2 PROVE f[2] = 10 * s[1] + s[2]
      BY <1>1
    <2>2. f[1] = 10 * 0 + s[1] /\ s[1] \in Nat
      BY <1>3, <1>4, <1>6, <2>1
    <2>3. f[2] = 10 * f[1] + s[2] /\ s[2] \in Nat
      BY <1>5, <1>6, <2>1
    <2>. QED BY <2>2, <2>3
  <1>. QED BY <1>2, <1>8, <1>9, <1>10

-----------------------------------------------------------------------------
(* A plain figure and its dot (Amounts).                                   *)

LEMMA DotIs ==
  ASSUME NEW s \in Seq(Nat), Plain(s)
  PROVE  /\ dot(s) \in 1 .. Len(s) + 1
         /\ dot(s) <= Len(s) => s[dot(s)] = Dot
         /\ \A i \in 1 .. Len(s) : i # dot(s) => s[i] \in Digits /\ s[i] # Dot
  <1>. DEFINE Parts(p) == /\ p <= Len(s) => s[p] = Dot
                          /\ \A j \in 1 .. p - 1 : s[j] # Dot
  <1>1. \E p \in 1 .. Len(s) + 1 : Parts(p)
    <2>1. CASE \E p \in 1 .. Len(s) : s[p] = Dot
      <3>1. PICK p \in 1 .. Len(s) : s[p] = Dot
        BY <2>1
      <3>2. \A j \in 1 .. p - 1 : s[j] # Dot
        BY <3>1 DEF Plain
      <3>. QED BY <3>1, <3>2
    <2>2. CASE \A p \in 1 .. Len(s) : s[p] # Dot
      <3>1. Parts(Len(s) + 1)
        BY <2>2
      <3>. QED BY <3>1
    <2>. QED BY <2>1, <2>2
  <1>2. dot(s) \in 1 .. Len(s) + 1 /\ Parts(dot(s))
    BY <1>1 DEF dot
  <1>3. ASSUME NEW i \in 1 .. Len(s), i # dot(s) PROVE s[i] # Dot
    BY <1>2, <1>3 DEF Plain
  <1>. QED BY <1>2, <1>3 DEF Plain, Digits, Dot

LEMMA WholeIs ==
  ASSUME NEW s \in Seq(Nat), Plain(s)
  PROVE  /\ Whole(s) \in Seq(Nat) /\ Len(Whole(s)) = dot(s) - 1
         /\ \A i \in 1 .. dot(s) - 1 : Whole(s)[i] = s[i]
  <1>1. \A i \in 1 .. dot(s) - 1 : s[i] \in Nat
    BY DotIs
  <1>. QED BY <1>1, DotIs, SubSeqProperties DEF Whole

LEMMA FracIs ==
  ASSUME NEW s \in Seq(Nat), Plain(s)
  PROVE  /\ Frac(s) \in Seq(Nat)
         /\ Len(Frac(s)) = IF dot(s) <= Len(s) THEN Len(s) - dot(s) ELSE 0
         /\ \A i \in 1 .. Len(s) - dot(s) : Frac(s)[i] = s[dot(s) + i]
         /\ Len(Frac(s)) = Places(s)
  <1>1. PICK p \in Nat, n \in Nat :
          /\ p = dot(s) /\ n = Len(s) /\ p \in 1 .. n + 1 /\ DOMAIN s = 1 .. n
          /\ p <= n => s[p] = Dot
          /\ \A i \in 1 .. n : s[i] \in Nat /\ (i # p => s[i] # Dot)
    BY DotIs
  <1>2. Frac(s) = SubSeq(s, p + 1, n)
    BY <1>1 DEF Frac
  <1>3. \A i \in p + 1 .. n : s[i] \in Nat
    BY <1>1
  <1>4. /\ Frac(s) \in Seq(Nat)
        /\ Len(Frac(s)) = IF p + 1 <= n THEN n - (p + 1) + 1 ELSE 0
        /\ \A i \in 1 .. n - (p + 1) + 1 : Frac(s)[i] = s[p + 1 + i - 1]
    <2>1. p + 1 \in Int /\ n \in Int
      BY <1>1
    <2>. QED BY <1>2, <1>3, <2>1, SubSeqProperties
  <1>5. \A i \in 1 .. n - p : Frac(s)[i] = s[p + i]
    <2>1. ASSUME NEW i \in 1 .. n - p PROVE Frac(s)[i] = s[p + i]
      <3>1. i \in 1 .. n - (p + 1) + 1 /\ p + 1 + i - 1 = p + i
        BY <1>1
      <3>. QED BY <1>4, <3>1
    <2>. QED BY <2>1
  <1>6. {j \in DOMAIN s : \E i \in DOMAIN s : s[i] = Dot /\ i < j} = p + 1 .. n
    <2>1. ASSUME NEW j \in 1 .. n, NEW i \in 1 .. n, s[i] = Dot, i < j PROVE j \in p + 1 .. n
      BY <1>1, <2>1
    <2>2. ASSUME NEW j \in p + 1 .. n PROVE j \in 1 .. n /\ p \in 1 .. n /\ s[p] = Dot /\ p < j
      BY <1>1, <2>2
    <2>. QED BY <1>1, <2>1, <2>2
  <1>7. Places(s) = IF p + 1 > n THEN 0 ELSE n - (p + 1) + 1
    <2>1. p + 1 \in Int /\ n \in Int
      BY <1>1
    <2>2. Cardinality(p + 1 .. n) = IF p + 1 > n THEN 0 ELSE n - (p + 1) + 1
      BY <2>1, FS_Interval
    <2>. QED BY <1>6, <2>2, Zenon DEF Places
  <1>. QED BY <1>1, <1>4, <1>5, <1>7

\* What is before and what is after the dot make up the figure.
LEMMA FigureParts ==
  ASSUME NEW s \in Seq(Nat), Plain(s), Len(Frac(s)) <= 2
  PROVE  /\ Figure(s) \in Nat /\ Number(Whole(s)) \in Nat /\ Number(Frac(s)) \in Nat
         /\ Figure(s) = Number(Whole(s)) * 10 ^ Places(s) + Number(Frac(s))
  <1>1. PICK f : ReadsFigure(f, s) /\ Figure(s) = f[Len(s)]
    BY FigureIs
  <1>2. PICK p \in Nat, n \in Nat, L \in Nat, q \in Seq(Nat) :
          /\ p = dot(s) /\ n = Len(s) /\ q = Frac(s) /\ L = Len(q) /\ L = Places(s)
          /\ p \in 1 .. n + 1 /\ L = (IF p <= n THEN n - p ELSE 0) /\ L <= 2
          /\ \A i \in 1 .. n - p : q[i] = s[p + i]
          /\ p <= n => s[p] = Dot
          /\ \A i \in 1 .. n : s[i] \in Nat /\ (i # p => s[i] # Dot)
    <2>1. dot(s) \in Nat /\ Len(s) \in Nat /\ Len(Frac(s)) \in Nat /\ Frac(s) \in Seq(Nat)
      BY DotIs, FracIs
    <2>2. \A i \in 1 .. Len(s) : s[i] \in Nat
      OBVIOUS
    <2>. QED BY <2>1, <2>2, DotIs, FracIs
  <1>3. f[p - 1] = Number(Whole(s)) /\ f[p - 1] \in Nat /\ f[n] \in Nat
    <2>1. PICK w : Reads(w, Whole(s)) /\ Number(Whole(s)) = w[Len(Whole(s))]
      BY NumberIs, WholeIs
    <2>2. Agreeing(f, w, p - 1)
      <3>1. f[0] = w[0]
        BY <1>1, <2>1 DEF Reads, ReadsFigure
      <3>2. ASSUME NEW i \in 1 .. p - 1, f[i - 1] = w[i - 1] PROVE f[i] = w[i]
        <4>1. i \in 1 .. n /\ s[i] # Dot
          BY <1>2
        <4>2. f[i] = 10 * f[i - 1] + s[i]
          BY <1>1, <1>2, <4>1 DEF ReadsFigure
        <4>3. i \in 1 .. Len(Whole(s)) /\ Whole(s)[i] = s[i]
          BY <1>2, WholeIs
        <4>4. w[i] = 10 * w[i - 1] + Whole(s)[i]
          BY <2>1, <4>3 DEF Reads
        <4>. QED BY <3>2, <4>2, <4>3, <4>4
      <3>. QED BY <3>1, <3>2 DEF Agreeing
    <2>3. p - 1 \in Nat
      BY <1>2
    <2>4. f[p - 1] = w[p - 1]
      BY <2>2, <2>3, Agree
    <2>5. p - 1 \in 0 .. n /\ n \in 0 .. n
      BY <1>2
    <2>. QED BY <1>1, <1>2, <2>1, <2>4, <2>5, WholeIs DEF ReadsFigure
  <1>4. p <= n => f[p] = f[p - 1]
    BY <1>1, <1>2 DEF ReadsFigure
  <1>5. ASSUME NEW i \in {1, 2}, i <= L
        PROVE  f[p + i] = 10 * f[p + i - 1] + q[i] /\ q[i] \in Nat
    <2>1. p + i \in 1 .. n /\ i \in 1 .. n - p /\ p + i # p
      <3>1. p \in Nat /\ n \in Nat /\ p >= 1 /\ p <= n + 1
        BY <1>2
      <3>2. i <= n - p /\ i \in Nat /\ i >= 1
        BY <1>2, <1>5, <3>1
      <3>. QED BY <3>1, <3>2
    <2>2. ASSUME NEW k \in 1 .. n, k # p PROVE f[k] = 10 * f[k - 1] + s[k] /\ s[k] \in Nat
      <3>1. s[k] # Dot /\ s[k] \in Nat /\ k \in 1 .. Len(s)
        BY <1>2, <2>2
      <3>. QED BY <1>1, <3>1 DEF ReadsFigure
    <2>3. q[i] = s[p + i]
      BY <1>2, <2>1
    <2>. QED BY <2>1, <2>2, <2>3
  <1>6. 10 ^ 0 = 1 /\ 10 ^ 1 = 10 /\ 10 ^ 2 = 100
    OBVIOUS
  <1>7. /\ L = 0 => Number(q) = 0
        /\ L = 1 => Number(q) = q[1]
        /\ L = 2 => Number(q) = 10 * q[1] + q[2]
        /\ Number(q) \in Nat
    BY <1>2, NumberShort
  <1>8. f[n] = f[p - 1] * 10 ^ L + Number(q)
    <2>1. CASE L = 0
      <3>1. f[n] = f[p - 1]
        BY <1>2, <1>4, <2>1
      <3>. QED BY <1>3, <1>6, <1>7, <2>1, <3>1
    <2>2. CASE L = 1
      <3>1. n = p + 1 /\ p <= n
        BY <1>2, <2>2
      <3>2. f[p + 1] = 10 * f[p + 1 - 1] + q[1] /\ q[1] \in Nat /\ p + 1 - 1 = p
        BY <1>5, <2>2
      <3>. QED BY <1>3, <1>4, <1>6, <1>7, <2>2, <3>1, <3>2
    <2>3. CASE L = 2
      <3>1. n = p + 2 /\ p <= n
        BY <1>2, <2>3
      <3>2. f[p + 1] = 10 * f[p + 1 - 1] + q[1] /\ q[1] \in Nat /\ p + 1 - 1 = p
        BY <1>5, <2>3
      <3>3. f[p + 2] = 10 * f[p + 2 - 1] + q[2] /\ q[2] \in Nat /\ p + 2 - 1 = p + 1
        BY <1>5, <2>3
      <3>4. f[p] = f[p - 1] /\ f[p + 1] = 10 * f[p - 1] + q[1]
        BY <1>4, <3>1, <3>2
      <3>5. f[n] = 10 * (10 * f[p - 1] + q[1]) + q[2]
        BY <3>1, <3>3, <3>4
      <3>6. 10 ^ L = 100 /\ Number(q) = 10 * q[1] + q[2]
        BY <1>6, <1>7, <2>3
      <3>7. PICK x \in Nat, a \in Nat, b \in Nat : x = f[p - 1] /\ a = q[1] /\ b = q[2]
        BY <1>3, <3>2, <3>3
      <3>8. f[n] = x * 100 + (10 * a + b)
        <4>1. f[n] = 10 * (10 * x + a) + b
          BY <3>5, <3>7, Zenon
        <4>2. 10 * (10 * x + a) + b = x * 100 + (10 * a + b)
          OBVIOUS
        <4>. QED BY <4>1, <4>2, Zenon
      <3>. QED BY <3>6, <3>7, <3>8
    <2>. QED BY <1>2, <2>1, <2>2, <2>3
  <1>. QED BY <1>1, <1>2, <1>3, <1>7, <1>8

LEMMA PaddedIs ==
  ASSUME NEW q \in Seq(Nat), Len(q) <= 2
  PROVE  /\ Number(Padded(q)) \in Nat
         /\ Number(Padded(q)) * 10 ^ Len(q) = 100 * Number(q)
  <1>1. <<0, 0>> \in Seq(Nat) /\ Len(<<0, 0>>) = 2
    OBVIOUS
  <1>2. PICK r \in Seq(Nat) :
          /\ r = q \o <<0, 0>> /\ Len(r) = Len(q) + 2
          /\ \A i \in 1 .. Len(q) + 2 : r[i] = IF i <= Len(q) THEN q[i] ELSE 0
    <2>1. <<0, 0>>[1] = 0 /\ <<0, 0>>[2] = 0
      OBVIOUS
    <2>2. /\ q \o <<0, 0>> \in Seq(Nat) /\ Len(q \o <<0, 0>>) = Len(q) + 2
          /\ \A i \in 1 .. Len(q) + 2 :
               (q \o <<0, 0>>)[i] = IF i <= Len(q) THEN q[i] ELSE <<0, 0>>[i - Len(q)]
      BY <1>1, ConcatProperties
    <2>3. \A i \in 1 .. Len(q) + 2 : ~(i <= Len(q)) => i - Len(q) = 1 \/ i - Len(q) = 2
      OBVIOUS
    <2>. QED BY <2>1, <2>2, <2>3
  <1>3. \A i \in 1 .. 2 : r[i] \in Nat
    BY <1>2
  <1>4. /\ Padded(q) \in Seq(Nat) /\ Len(Padded(q)) = 2
        /\ Padded(q)[1] = r[1] /\ Padded(q)[2] = r[2]
    BY <1>2, <1>3, SubSeqProperties DEF Padded
  <1>5. Number(Padded(q)) = 10 * r[1] + r[2] /\ Number(Padded(q)) \in Nat
    BY <1>4, NumberShort
  <1>6. 10 ^ 0 = 1 /\ 10 ^ 1 = 10 /\ 10 ^ 2 = 100
    OBVIOUS
  <1>7. /\ Len(q) = 0 => Number(q) = 0
        /\ Len(q) = 1 => Number(q) = q[1]
        /\ Len(q) = 2 => Number(q) = 10 * q[1] + q[2]
    BY NumberShort
  <1>8. CASE Len(q) = 0
    <2>1. r[1] = 0 /\ r[2] = 0
      BY <1>2, <1>8
    <2>. QED BY <1>5, <1>6, <1>7, <1>8, <2>1
  <1>9. CASE Len(q) = 1
    <2>1. r[1] = q[1] /\ r[2] = 0 /\ q[1] \in Nat
      BY <1>2, <1>9
    <2>. QED BY <1>5, <1>6, <1>7, <1>9, <2>1
  <1>10. CASE Len(q) = 2
    <2>1. r[1] = q[1] /\ r[2] = q[2] /\ q[1] \in Nat /\ q[2] \in Nat
      BY <1>2, <1>10
    <2>2. 10 ^ Len(q) = 100 /\ Number(q) = 10 * q[1] + q[2]
      BY <1>6, <1>7, <1>10
    <2>3. Number(Padded(q)) = Number(q)
      BY <1>5, <2>1, <2>2
    <2>4. \A x \in Nat : x * 100 = 100 * x
      OBVIOUS
    <2>. QED BY <1>5, <2>2, <2>3, <2>4
  <1>11. Len(q) = 0 \/ Len(q) = 1 \/ Len(q) = 2
    <2>1. Len(q) \in Nat
      OBVIOUS
    <2>2. \A n \in Nat : n <= 2 => n = 0 \/ n = 1 \/ n = 2
      OBVIOUS
    <2>. QED BY <2>1, <2>2, Zenon
  <1>. QED BY <1>8, <1>9, <1>10, <1>11

\* The cents of a plain figure with two decimal places at most.
Cents(s) == 100 * Number(Whole(s)) + Number(Padded(Frac(s)))

LEMMA CentsExact ==
  ASSUME NEW s \in Seq(Nat), Plain(s), Len(Frac(s)) <= 2
  PROVE  /\ Cents(s) \in Nat /\ Denotes(s, Cents(s))
         /\ (100 * Figure(s)) \div 10 ^ Places(s) = Cents(s)
  <1>1. PICK w \in Nat, q \in Nat, pad \in Nat, L \in 0 .. 2 :
          /\ w = Number(Whole(s)) /\ q = Number(Frac(s)) /\ pad = Number(Padded(Frac(s)))
          /\ L = Places(s) /\ pad * 10 ^ L = 100 * q
          /\ Figure(s) = w * 10 ^ L + q /\ Cents(s) = 100 * w + pad
    <2>1. Len(Frac(s)) = Places(s) /\ Places(s) \in 0 .. 2
      BY FracIs
    <2>. QED BY <2>1, FracIs, PaddedIs, FigureParts DEF Cents
  <1>. DEFINE T == 10 ^ L
  <1>2. T \in {1, 10, 100}
    <2>1. 10 ^ 0 = 1 /\ 10 ^ 1 = 10 /\ 10 ^ 2 = 100
      OBVIOUS
    <2>2. L = 0 \/ L = 1 \/ L = 2
      OBVIOUS
    <2>. QED BY <2>1, <2>2
  <1>. HIDE DEF T
  <1>3. pad * T = 100 * q /\ Figure(s) = w * T + q
    BY <1>1 DEF T
  <1>4. 100 * (w * T + q) = (100 * w + pad) * T
    BY <1>2, <1>3
  <1>5. ((100 * w + pad) * T) \div T = 100 * w + pad
    BY <1>2
  <1>6. 100 * Figure(s) = Cents(s) * T /\ (100 * Figure(s)) \div T = Cents(s)
    BY <1>1, <1>3, <1>4, <1>5
  <1>7. T = 10 ^ Places(s)
    BY <1>1 DEF T
  <1>8. Cents(s) \in Nat
    <2>1. 100 * w + pad \in Nat
      OBVIOUS
    <2>. QED BY <1>1, <2>1, Zenon
  <1>. QED BY <1>6, <1>7, <1>8 DEF Denotes

\* The greatest element of a set of indices.
LEMMA Greatest ==
  ASSUME NEW N \in Nat, NEW U \in SUBSET (1 .. N), U # {}
  PROVE  \E x \in U : \A y \in U : y <= x
  <1>. DEFINE D == {N - u : u \in U}
  <1>1. PICK d \in D : \A e \in D : d <= e
    <2>1. \A u \in U : N - u \in Nat
      OBVIOUS
    <2>2. D \in SUBSET Nat /\ D # {}
      BY <2>1
    <2>. HIDE DEF D
    <2>. QED BY <2>2, Least
  <1>2. PICK x \in U : d = N - x
    BY <1>1
  <1>3. ASSUME NEW y \in U PROVE y <= x
    <2>1. N - x <= N - y
      BY <1>1, <1>2
    <2>. QED BY <2>1
  <1>. QED BY <1>3

\* What blanks leave is a stretch of the text that begins and ends with none.
LEMMA TrimmedIs ==
  ASSUME NEW s \in Seq(Nat)
  PROVE  /\ Trimmed(s) \in Seq(Nat)
         /\ (s # <<>> /\ \A i \in 1 .. Len(s) : s[i] # Space) => Trimmed(s) = s
  <1>. DEFINE ink == {i \in DOMAIN s : s[i] # Space}
              a == CHOOSE i \in ink : \A j \in ink : i <= j
              b == CHOOSE i \in ink : \A j \in ink : j <= i
  <1>1. ink \in SUBSET (1 .. Len(s)) /\ ink \in SUBSET Nat /\ Len(s) \in Nat
    OBVIOUS
  <1>2. CASE ink = {}
    <2>1. Trimmed(s) = <<>>
      BY <1>2 DEF Trimmed
    <2>2. s # <<>> => 1 \in 1 .. Len(s)
      OBVIOUS
    <2>3. (\A i \in 1 .. Len(s) : s[i] # Space) => s = <<>>
      BY <1>2, <2>2
    <2>. QED BY <2>1, <2>3
  <1>3. CASE ink # {}
    <2>. HIDE DEF ink
    <2>1. a \in ink /\ \A j \in ink : a <= j
      BY <1>1, <1>3, Least
    <2>2. b \in ink /\ \A j \in ink : j <= b
      BY <1>1, <1>3, Greatest
    <2>3. Trimmed(s) = SubSeq(s, a, b)
      BY <1>3, Zenon DEF Trimmed, ink
    <2>. HIDE DEF a, b
    <2>4. \A i \in a .. b : s[i] \in Nat
      BY <1>1, <2>1, <2>2
    <2>5. Trimmed(s) \in Seq(Nat)
      BY <1>1, <2>1, <2>2, <2>3, <2>4, SubSeqProperties
    <2>6. ASSUME s # <<>>, \A i \in 1 .. Len(s) : s[i] # Space
          PROVE  Trimmed(s) = s
      <3>1. 1 \in ink /\ Len(s) \in ink
        BY <2>6 DEF ink
      <3>2. a = 1 /\ b = Len(s)
        BY <1>1, <2>1, <2>2, <3>1
      <3>. QED BY <2>3, <3>2, SubSeqFull
    <2>. QED BY <2>5, <2>6
  <1>. QED BY <1>2, <1>3

-----------------------------------------------------------------------------
(* Writing digits (Amounts).                                               *)

\* What cents_to_dollars writes before the dot.
Writes(f, c) ==
  /\ f \in [0 .. c -> Seq(Digits)]
  /\ \A n \in 0 .. c : f[n] = IF n < 10 THEN <<n>> ELSE Append(f[n \div 10], n % 10)

LEMMA Tenths ==
  ASSUME NEW n \in Nat
  PROVE  /\ n \div 10 \in Nat /\ n % 10 \in Digits /\ n = 10 * (n \div 10) + (n % 10)
         /\ n >= 1 => n \div 10 < n
  <1>1. n \div 10 \in Nat
    OBVIOUS
  <1>2. n % 10 \in 0 .. 9
    OBVIOUS
  <1>3. n = 10 * (n \div 10) + (n % 10)
    OBVIOUS
  <1>4. n >= 1 => n \div 10 < n
    OBVIOUS
  <1>. QED BY <1>1, <1>2, <1>3, <1>4, Zenon DEF Digits

LEMMA NumeralIs ==
  ASSUME NEW c \in Nat
  PROVE  \E f : /\ Writes(f, c)
                /\ cents_to_dollars(c) =
                     f[c \div 100] \o <<Dot>> \o <<(c % 100) \div 10, (c % 100) % 10>>
  <1>. DEFINE before == [n \in 1 .. c |-> n \div 10]
              step == [x \in (1 .. c) \X Seq(Digits) |->
                         IF x[1] < 10 THEN <<x[1]>> ELSE Append(x[2], x[1] % 10)]
              Is(f) == f = [n \in 0 .. c |-> IF n < 10 THEN <<n>>
                                             ELSE Append(f[n \div 10], n % 10)]
              written == CHOOSE f : Is(f)
  <1>1. PICK f : Recurring(f, c, Seq(Digits), <<0>>, step, before)
    <2>1. <<0>> \in Seq(Digits)
      BY DEF Digits
    <2>2. step \in [(1 .. c) \X Seq(Digits) -> Seq(Digits)]
      <3>1. ASSUME NEW n \in 1 .. c, NEW t \in Seq(Digits)
            PROVE  (IF n < 10 THEN <<n>> ELSE Append(t, n % 10)) \in Seq(Digits)
        <4>1. n % 10 \in Digits
          BY Tenths
        <4>2. n < 10 => n \in Digits
          BY DEF Digits
        <4>. HIDE DEF Digits
        <4>. QED BY <4>1, <4>2
      <3>. QED BY <3>1
    <2>3. Decreasing(before, c)
      BY Tenths DEF Decreasing
    <2>. HIDE DEF before, step
    <2>. QED BY <2>1, <2>2, <2>3, Recursion
  <1>2. Writes(f, c)
    <2>1. f \in [0 .. c -> Seq(Digits)] /\ f[0] = <<0>>
      BY <1>1 DEF Recurring
    <2>2. ASSUME NEW n \in 1 .. c
          PROVE  f[n] = IF n < 10 THEN <<n>> ELSE Append(f[n \div 10], n % 10)
      <3>1. f[n] = step[<<n, f[before[n]]>>]
        <4>. HIDE DEF step, before
        <4>. QED BY <1>1 DEF Recurring
      <3>2. before[n] = n \div 10 /\ n \div 10 \in 0 .. c
        BY Tenths
      <3>3. <<n, f[n \div 10]>> \in (1 .. c) \X Seq(Digits)
        <4>. HIDE DEF step, before
        <4>. QED BY <2>1, <3>2
      <3>4. step[<<n, f[n \div 10]>>] = IF n < 10 THEN <<n>> ELSE Append(f[n \div 10], n % 10)
        BY <3>3
      <3>. QED BY <3>1, <3>2, <3>4
    <2>3. ASSUME NEW n \in 0 .. c
          PROVE  f[n] = IF n < 10 THEN <<n>> ELSE Append(f[n \div 10], n % 10)
      <3>1. CASE n = 0
        BY <2>1, <3>1
      <3>2. CASE n \in 1 .. c
        BY <2>2, <3>2
      <3>. QED BY <3>1, <3>2
    <2>. QED BY <2>1, <2>3 DEF Writes
  <1>3. Is(f)
    BY <1>2 DEF Writes
  <1>4. Is(written)
    BY <1>3
  <1>5. cents_to_dollars(c) =
          written[c \div 100] \o <<Dot>> \o <<(c % 100) \div 10, (c % 100) % 10>>
    BY Zenon DEF cents_to_dollars
  <1>. HIDE DEF written
  <1>6. ASSUME NEW n \in 0 .. c
        PROVE  /\ f[n] = IF n < 10 THEN <<n>> ELSE Append(f[n \div 10], n % 10)
               /\ written[n] = IF n < 10 THEN <<n>> ELSE Append(written[n \div 10], n % 10)
    BY <1>3, <1>4
  <1>7. \A n \in 0 .. c : f[n] = written[n]
    <2>. DEFINE U == {n \in 0 .. c : f[n] # written[n]}
    <2>. SUFFICES ASSUME U # {} PROVE FALSE
      OBVIOUS
    <2>1. PICK n \in U : \A m \in U : n <= m
      <3>1. U \in SUBSET Nat
        OBVIOUS
      <3>. HIDE DEF U
      <3>. QED BY <3>1, Least
    <2>2. n \in 0 .. c /\ ~(n < 10)
      <3>1. n \in 0 .. c /\ f[n] # written[n]
        BY <2>1
      <3>2. ASSUME n < 10 PROVE f[n] = <<n>> /\ written[n] = <<n>>
        BY <1>6, <3>1, <3>2
      <3>. QED BY <3>1, <3>2
    <2>3. n \div 10 \in 0 .. c /\ n \div 10 < n
      BY <2>2, Tenths
    <2>4. n \div 10 \notin U
      BY <2>1, <2>2, <2>3
    <2>. QED BY <1>6, <2>1, <2>2, <2>3, <2>4
  <1>8. c \div 100 \in 0 .. c
    OBVIOUS
  <1>. QED BY <1>2, <1>5, <1>7, <1>8

\* A number is read as it was written.
LEMMA WrittenIsRead ==
  ASSUME NEW c \in Nat, NEW f, Writes(f, c), NEW n \in 0 .. c
  PROVE  Number(f[n]) = n /\ Len(f[n]) >= 1
  <1>0. Digits \subseteq Nat
    BY DEF Digits
  <1>1. \A m \in 0 .. c : f[m] \in Seq(Digits) /\ f[m] \in Seq(Nat)
    BY <1>0, SeqMonotonic DEF Writes
  <1>. DEFINE U == {m \in 0 .. c : ~(Number(f[m]) = m /\ Len(f[m]) >= 1)}
  <1>. SUFFICES ASSUME U # {} PROVE FALSE
    OBVIOUS
  <1>2. PICK m \in U : \A k \in U : m <= k
    <2>1. U \in SUBSET Nat
      OBVIOUS
    <2>. HIDE DEF U
    <2>. QED BY <2>1, Least
  <1>3. m \in 0 .. c /\ f[m] = IF m < 10 THEN <<m>> ELSE Append(f[m \div 10], m % 10)
    BY <1>2 DEF Writes
  <1>4. CASE m < 10
    <2>1. f[m] = <<m>> /\ <<m>> \in Seq(Nat) /\ Len(<<m>>) = 1 /\ <<m>>[1] = m
      BY <1>3, <1>4
    <2>2. PICK s \in Seq(Nat) : s = f[m] /\ Len(s) = 1 /\ s[1] = m
      BY <2>1
    <2>3. Number(s) = m
      BY <2>2, NumberShort
    <2>. QED BY <1>2, <2>2, <2>3
  <1>5. CASE ~(m < 10)
    <2>1. m \div 10 \in 0 .. c /\ m \div 10 < m
      BY <1>3, <1>5, Tenths
    <2>2. m \div 10 \notin U
      BY <1>2, <1>3, <2>1
    <2>3. Number(f[m \div 10]) = m \div 10
      BY <2>1, <2>2
    <2>4. PICK s \in Seq(Nat), t \in Seq(Nat) :
            s = f[m \div 10] /\ t = f[m] /\ t = Append(s, m % 10)
      BY <1>1, <1>3, <1>5, <2>1
    <2>5. Len(t) = Len(s) + 1 /\ (\A i \in 1 .. Len(s) : t[i] = s[i]) /\ t[Len(t)] = m % 10
      BY <2>4
    <2>6. Number(t) = 10 * Number(s) + t[Len(t)]
      BY <2>5, NumberGrows
    <2>7. Number(t) = m /\ Len(t) >= 1
      BY <1>3, <2>3, <2>4, <2>5, <2>6, Tenths
    <2>. QED BY <1>2, <2>4, <2>7
  <1>. QED BY <1>4, <1>5

\* What is shown of an amount is a plain figure that is worth the amount.
LEMMA ShownIsRead ==
  ASSUME NEW c \in Nat
  PROVE  \E t \in Seq(Nat) :
           /\ t = cents_to_dollars(c) /\ Trimmed(t) = t
           /\ Plain(t) /\ Len(Frac(t)) = 2 /\ Cents(t) = c
  <1>1. PICK f : /\ Writes(f, c)
                 /\ cents_to_dollars(c) =
                      f[c \div 100] \o <<Dot>> \o <<(c % 100) \div 10, (c % 100) % 10>>
    BY NumeralIs
  <1>2. c \div 100 \in 0 .. c /\ c % 100 \in 0 .. 99 /\ c = 100 * (c \div 100) + (c % 100)
    OBVIOUS
  <1>3. PICK d \in Digits, e \in Digits :
          d = (c % 100) \div 10 /\ e = (c % 100) % 10 /\ c % 100 = 10 * d + e
    <2>1. c % 100 \in Nat /\ c % 100 <= 99
      BY <1>2
    <2>2. \A k \in Nat : k <= 99 => k \div 10 \in Digits
      BY DEF Digits
    <2>. QED BY <2>1, <2>2, Tenths
  <1>4. Digits \subseteq Nat /\ Dot \in Nat /\ Dot \notin Digits
    BY DEF Digits, Dot
  <1>5. PICK w \in Seq(Digits) :
          w = f[c \div 100] /\ w \in Seq(Nat) /\ Number(w) = c \div 100 /\ Len(w) >= 1
    <2>1. f[c \div 100] \in Seq(Digits)
      BY <1>1, <1>2 DEF Writes
    <2>2. f[c \div 100] \in Seq(Nat)
      BY <1>4, <2>1, SeqMonotonic
    <2>3. Number(f[c \div 100]) = c \div 100 /\ Len(f[c \div 100]) >= 1
      BY <1>1, <1>2, WrittenIsRead, Zenon
    <2>. QED BY <2>1, <2>2, <2>3, Zenon
  <1>6. PICK n \in Nat : n = Len(w) /\ n >= 1
    BY <1>5
  <1>7. PICK t \in Seq(Nat) :
          /\ t = cents_to_dollars(c) /\ Len(t) = n + 3
          /\ \A i \in 1 .. n : t[i] = w[i]
          /\ t[n + 1] = Dot /\ t[n + 2] = d /\ t[n + 3] = e
    <2>1. PICK u \in Seq(Nat) : /\ u = w \o <<Dot>> /\ Len(u) = n + 1
                                /\ (\A i \in 1 .. n : u[i] = w[i]) /\ u[n + 1] = Dot
      <3>1. <<Dot>> \in Seq(Nat) /\ Len(<<Dot>>) = 1 /\ <<Dot>>[1] = Dot
        BY <1>4
      <3>2. /\ w \o <<Dot>> \in Seq(Nat) /\ Len(w \o <<Dot>>) = n + 1
            /\ \A i \in 1 .. n + 1 : (w \o <<Dot>>)[i] = IF i <= n THEN w[i] ELSE <<Dot>>[i - n]
        BY <1>5, <1>6, <3>1, ConcatProperties
      <3>3. (w \o <<Dot>>)[n + 1] = Dot
        BY <3>1, <3>2
      <3>4. \A i \in 1 .. n : (w \o <<Dot>>)[i] = w[i]
        BY <3>2
      <3>. QED BY <3>2, <3>3, <3>4, Zenon
    <2>2. PICK v \in Seq(Nat) : v = <<d, e>> /\ Len(v) = 2 /\ v[1] = d /\ v[2] = e
      <3>1. d \in Nat /\ e \in Nat
        BY <1>4
      <3>2. <<d, e>> \in Seq(Nat)
        BY <3>1
      <3>3. Len(<<d, e>>) = 2 /\ <<d, e>>[1] = d /\ <<d, e>>[2] = e
        OBVIOUS
      <3>. QED BY <3>2, <3>3, Zenon
    <2>3. /\ u \o v \in Seq(Nat) /\ Len(u \o v) = n + 3
          /\ \A i \in 1 .. n + 3 : (u \o v)[i] = IF i <= n + 1 THEN u[i] ELSE v[i - (n + 1)]
      BY <2>1, <2>2, ConcatProperties
    <2>4. (u \o v)[n + 1] = Dot /\ (u \o v)[n + 2] = d /\ (u \o v)[n + 3] = e
      <3>1. n + 1 \in 1 .. n + 3 /\ n + 2 \in 1 .. n + 3 /\ n + 3 \in 1 .. n + 3
        OBVIOUS
      <3>3. (u \o v)[n + 1] = u[n + 1]
        BY <2>3, <3>1
      <3>4. \A i \in 1 .. n + 3 : ~(i <= n + 1) => (u \o v)[i] = v[i - (n + 1)]
        BY <2>3, Zenon
      <3>5. ASSUME NEW m \in 1 .. 2, NEW i \in Nat, i = n + 1 + m PROVE (u \o v)[i] = v[m]
        <4>1. i \in 1 .. n + 3 /\ ~(i <= n + 1) /\ i - (n + 1) = m
          BY <3>5
        <4>. QED BY <3>4, <4>1
      <3>6. (u \o v)[n + 2] = v[1]
        <4>1. 1 \in 1 .. 2 /\ n + 2 \in Nat /\ n + 2 = n + 1 + 1
          OBVIOUS
        <4>. QED BY <4>1, <3>5, Zenon
      <3>7. (u \o v)[n + 3] = v[2]
        <4>1. 2 \in 1 .. 2 /\ n + 3 \in Nat /\ n + 3 = n + 1 + 2
          OBVIOUS
        <4>. QED BY <4>1, <3>5, Zenon
      <3>. QED BY <2>1, <2>2, <3>3, <3>6, <3>7, Zenon
    <2>5. u \o v = cents_to_dollars(c)
      BY <1>1, <1>3, <1>5, <2>1, <2>2
    <2>6. \A i \in 1 .. n : (u \o v)[i] = w[i]
      BY <2>1, <2>3
    <2>. QED BY <2>3, <2>4, <2>5, <2>6
  <1>8. \A i \in 1 .. n + 3 : i # n + 1 => t[i] \in Digits
    <2>1. \A i \in 1 .. n : t[i] \in Digits
      BY <1>6, <1>7
    <2>2. \A i \in 1 .. n + 3 : i \in 1 .. n \/ i = n + 1 \/ i = n + 2 \/ i = n + 3
      OBVIOUS
    <2>. QED BY <1>7, <2>1, <2>2
  <1>9. DOMAIN t = 1 .. n + 3 /\ n + 1 \in 1 .. n + 3
    BY <1>7
  <1>10. Plain(t)
    <2>1. \A i \in DOMAIN t : t[i] \in Digits \cup {Dot}
      BY <1>7, <1>8, <1>9
    <2>2. \A i \in DOMAIN t : t[i] = Dot => i = n + 1
      BY <1>4, <1>8, <1>9
    <2>3. 1 \in DOMAIN t /\ t[1] \in Digits
      BY <1>6, <1>8, <1>9
    <2>. QED BY <2>1, <2>2, <2>3 DEF Plain
  <1>11. Trimmed(t) = t
    <2>1. \A i \in 1 .. Len(t) : t[i] # Space
      <3>1. Dot # Space /\ Space \notin Digits
        BY DEF Digits, Dot, Space
      <3>2. \A i \in 1 .. n + 3 : t[i] \in Digits \/ t[i] = Dot
        BY <1>7, <1>8
      <3>. QED BY <1>7, <3>1, <3>2
    <2>2. t # <<>>
      BY <1>7
    <2>. QED BY <2>1, <2>2, TrimmedIs
  <1>12. dot(t) = n + 1
    BY <1>7, <1>9, <1>10, DotIs
  <1>13. Whole(t) = w
    <2>1. PICK x \in Seq(Nat) : x = Whole(t) /\ Len(x) = n /\ \A i \in 1 .. n : x[i] = t[i]
      BY <1>6, <1>10, <1>12, WholeIs
    <2>2. Len(x) = Len(w) /\ \A i \in 1 .. Len(x) : x[i] = w[i]
      BY <1>6, <1>7, <2>1
    <2>. QED BY <1>5, <2>1, <2>2, SeqEqual
  <1>14. PICK q \in Seq(Nat) : q = Frac(t) /\ Len(q) = 2 /\ q[1] = d /\ q[2] = e
    <2>1. Frac(t) \in Seq(Nat) /\ Len(Frac(t)) = 2
      <3>1. n + 1 <= Len(t) /\ Len(t) - (n + 1) = 2
        BY <1>7
      <3>. QED BY <1>10, <1>12, <3>1, FracIs
    <2>2. \A i \in 1 .. 2 : Frac(t)[i] = t[n + 1 + i]
      <3>1. Len(t) - (n + 1) = 2
        BY <1>7
      <3>. QED BY <1>10, <1>12, <3>1, FracIs
    <2>3. Frac(t)[1] = t[n + 2] /\ Frac(t)[2] = t[n + 3]
      BY <2>2
    <2>. QED BY <1>7, <2>1, <2>3
  <1>15. Number(q) = 10 * d + e /\ Number(Padded(q)) = Number(q)
    <2>1. Number(q) = 10 * d + e /\ Number(q) \in Nat
      BY <1>14, NumberShort
    <2>2. 10 ^ Len(q) = 100
      BY <1>14
    <2>3. Number(Padded(q)) \in Nat /\ Number(Padded(q)) * 100 = 100 * Number(q)
      <3>1. Number(Padded(q)) \in Nat /\ Number(Padded(q)) * 10 ^ Len(q) = 100 * Number(q)
        <4>1. Len(q) <= 2
          BY <1>14
        <4>. QED BY <4>1, PaddedIs
      <3>. QED BY <2>2, <3>1, Zenon
    <2>. QED BY <2>1, <2>3
  <1>16. Cents(t) = c
    BY <1>2, <1>3, <1>5, <1>13, <1>14, <1>15 DEF Cents
  <1>. QED BY <1>7, <1>10, <1>11, <1>14, <1>16

-----------------------------------------------------------------------------
\* What is typed is a text of the given characters.
LEMMA TextIs == AmountSpec => [](text \in Seq(Nat))
  <1>1. AmountInit => text \in Seq(Typed)
    BY DEF AmountInit
  <1>2. text \in Seq(Typed) /\ [AmountNext]_amountVars => (text \in Seq(Typed))'
    BY DEF AmountNext, Type, Spend, amountVars
  <1>3. text \in Seq(Typed) => text \in Seq(Nat)
    BY AmountsAssumption, SeqMonotonic
  <1>. QED BY <1>1, <1>2, <1>3, PTL DEF AmountSpec

\* dollars_to_cents, in terms of what its parts have been shown to be.
LEMMA TakenIs ==
  ASSUME NEW typed
  PROVE  dollars_to_cents(typed) =
           IF Plain(Trimmed(typed)) /\ Len(Frac(Trimmed(typed))) <= 2
              /\ Takes(Cents(Trimmed(typed)))
           THEN Cents(Trimmed(typed)) ELSE Refused
  BY Zenon DEF dollars_to_cents, Cents

\* money.py, "never rounds money": whatever is typed, it is taken only for
\* exactly what it says, and every plain figure that the gateway takes is
\* taken; what is shown of the cents is worth the same.
THEOREM MoneyIsExact == AmountSpec => []AmountExact
  <1>1. ASSUME NEW x \in Seq(Nat), text = x PROVE AmountExact
    <2>1. PICK s \in Seq(Nat) : s = Trimmed(x)
      BY TrimmedIs
    <2>2. PICK cents : cents = dollars_to_cents(x)
      OBVIOUS
    <2>3. cents = IF Plain(s) /\ Len(Frac(s)) <= 2 /\ Takes(Cents(s)) THEN Cents(s) ELSE Refused
      BY <2>1, <2>2, TakenIs
    <2>4. ASSUME cents # Refused
          PROVE  /\ Takes(cents) /\ Plain(s) /\ Denotes(s, cents)
                 /\ dollars_to_cents(cents_to_dollars(cents)) = cents
      <3>1. cents = Cents(s) /\ Plain(s) /\ Len(Frac(s)) <= 2 /\ Takes(cents)
        BY <2>3, <2>4
      <3>2. cents \in Nat /\ Denotes(s, cents)
        BY <3>1, CentsExact
      <3>3. PICK t \in Seq(Nat) :
              /\ t = cents_to_dollars(cents) /\ Trimmed(t) = t
              /\ Plain(t) /\ Len(Frac(t)) = 2 /\ Cents(t) = cents
        BY <3>2, ShownIsRead
      <3>4. dollars_to_cents(t) = cents
        <4>1. Plain(Trimmed(t)) /\ Len(Frac(Trimmed(t))) = 2 /\ Cents(Trimmed(t)) = cents
          BY <3>3, Zenon
        <4>2. Len(Frac(Trimmed(t))) <= 2
          BY <4>1
        <4>. QED BY <3>1, <4>1, <4>2, TakenIs, Zenon
      <3>. QED BY <3>1, <3>2, <3>3, <3>4
    <2>5. ASSUME cents = Refused, Plain(s), ~(Places(s) > 2)
          PROVE  ~Takes((100 * Figure(s)) \div 10 ^ Places(s))
      <3>1. Len(Frac(s)) <= 2
        BY <2>5, FracIs
      <3>2. (100 * Figure(s)) \div 10 ^ Places(s) = Cents(s) /\ Cents(s) # Refused
        BY <2>5, <3>1, CentsExact DEF Refused
      <3>. QED BY <2>3, <2>5, <3>1, <3>2
    <2>. QED BY <1>1, <2>1, <2>2, <2>4, <2>5 DEF AmountExact
  <1>2. text \in Seq(Nat) => AmountExact
    BY <1>1
  <1>. QED BY <1>2, TextIs, PTL

\* Of a figure that does not begin with a zero, printf '%d' reads the dollars.
LEMMA DollarsAreRead ==
  ASSUME NEW s \in Seq(Nat), Plain(s), s # <<>> => s[1] # 0
  PROVE  printf_d(Whole(s)) = Number(Whole(s))
  <1>1. PICK w \in Seq(Nat) :
          w = Whole(s) /\ Len(w) = dot(s) - 1 /\ \A i \in 1 .. dot(s) - 1 : w[i] = s[i]
    BY WholeIs
  <1>2. ASSUME w # <<>> PROVE Head(w) # 0
    <2>1. Len(w) >= 1 /\ Head(w) = w[1]
      BY <1>2
    <2>2. w[1] = s[1] /\ 1 <= Len(s)
      BY <1>1, <2>1, DotIs
    <2>. QED BY <2>1, <2>2
  <1>. QED BY <1>1, <1>2, Zenon DEF printf_d

\* common.sh: what the script sends is what was typed, as long as the text
\* does not begin with a zero.  The zero is all that ScriptExact fails for.
THEOREM ScriptIsExactButForZero ==
  AmountSpec => []((text # <<>> => text[1] # 0) => ScriptExact)
  <1>1. ASSUME NEW s \in Seq(Nat), text = s, s # <<>> => s[1] # 0 PROVE ScriptExact
    <2>1. SUFFICES ASSUME script_dollars_to_cents(s) # Refused
                   PROVE  Denotes(s, script_dollars_to_cents(s))
      BY <1>1 DEF ScriptExact
    <2>2. Plain(s) /\ Len(Frac(s)) <= 2
      BY <2>1, Zenon DEF script_dollars_to_cents
    <2>3. printf_d(Whole(s)) = Number(Whole(s))
      BY <1>1, <2>2, DollarsAreRead
    <2>4. script_dollars_to_cents(s) = Cents(s)
      BY <2>1, <2>3, Zenon DEF script_dollars_to_cents, Cents
    <2>. QED BY <2>2, <2>4, CentsExact
  <1>2. text \in Seq(Nat) => ((text # <<>> => text[1] # 0) => ScriptExact)
    BY <1>1
  <1>. QED BY <1>2, TextIs, PTL

\* common.sh and money.py: a text without blanks and without a zero at its
\* beginning is the same cents to both tools, or refused by both.
THEOREM ScriptAgreesWithPortal ==
  AmountSpec => []((\A i \in DOMAIN text : text[i] # Space /\ (i = 1 => text[i] # 0))
                     => script_dollars_to_cents(text) = dollars_to_cents(text))
  <1>1. ASSUME NEW s \in Seq(Nat), text = s,
               \A i \in DOMAIN s : s[i] # Space /\ (i = 1 => s[i] # 0)
        PROVE  script_dollars_to_cents(s) = dollars_to_cents(s)
    <2>1. s # <<>> => Trimmed(s) = s /\ s[1] # 0
      BY <1>1, TrimmedIs
    <2>2. CASE Plain(s)
      <3>1. s # <<>>
        BY <2>2 DEF Plain
      <3>2. script_dollars_to_cents(s) =
              IF Plain(s) /\ Len(Frac(s)) <= 2 /\ Takes(Cents(s)) THEN Cents(s) ELSE Refused
        BY <2>1, <2>2, DollarsAreRead, Zenon DEF script_dollars_to_cents, Cents
      <3>. QED BY <2>1, <3>1, <3>2, TakenIs, Zenon
    <2>3. CASE ~Plain(s)
      <3>1. script_dollars_to_cents(s) = Refused
        BY <2>3, Zenon DEF script_dollars_to_cents
      <3>2. Trimmed(s) = s
        <4>1. CASE s = <<>>
          BY <4>1 DEF Trimmed
        <4>. QED BY <2>1, <4>1
      <3>3. dollars_to_cents(s) = Refused
        BY <2>3, <3>2, TakenIs, Zenon
      <3>. QED BY <3>1, <3>3
    <2>. QED BY <2>2, <2>3
  <1>2. text \in Seq(Nat) =>
          ((\A i \in DOMAIN text : text[i] # Space /\ (i = 1 => text[i] # 0))
             => script_dollars_to_cents(text) = dollars_to_cents(text))
    BY <1>1
  <1>. QED BY <1>2, TextIs, PTL

-----------------------------------------------------------------------------
(* Rounding, and what is shown (Amounts).                                  *)

LEMMA Division ==
  ASSUME NEW m \in Nat, m > 0, NEW a \in Nat, NEW b \in Nat
  PROVE  /\ a \div m \in Nat
         /\ a <= b => a \div m <= b \div m
         /\ \A q, r \in Nat : r < m => (q * m + r) \div m = q
  <1>1. \A n \in Nat : /\ n \div m \in Nat /\ n % m \in Nat /\ n % m < m
                      /\ n = m * (n \div m) + (n % m)
    OBVIOUS
  <1>2. ASSUME a <= b PROVE a \div m <= b \div m
    <2>1. PICK x \in Nat, r \in Nat : x = a \div m /\ r < m /\ a = m * x + r
      BY <1>1
    <2>2. PICK y \in Nat, s \in Nat : y = b \div m /\ s < m /\ b = m * y + s
      BY <1>1
    <2>3. ASSUME x >= y + 1 PROVE FALSE
      <3>1. m * x >= m * (y + 1) /\ m * (y + 1) = m * y + m
        BY <2>3
      <3>. QED BY <1>2, <2>1, <2>2, <3>1
    <2>. QED BY <2>1, <2>2, <2>3
  <1>3. ASSUME NEW q \in Nat, NEW r \in Nat, r < m PROVE (q * m + r) \div m = q
    <2>1. PICK n \in Nat : n = q * m + r
      OBVIOUS
    <2>2. PICK x \in Nat, s \in Nat : x = n \div m /\ s < m /\ n = m * x + s
      BY <1>1
    <2>3. ASSUME x >= q + 1 PROVE FALSE
      <3>1. m * x >= m * (q + 1) /\ m * (q + 1) = q * m + m
        BY <2>3
      <3>. QED BY <1>3, <2>1, <2>2, <3>1
    <2>4. ASSUME q >= x + 1 PROVE FALSE
      <3>1. m * q >= m * (x + 1) /\ m * (x + 1) = m * x + m /\ m * q = q * m
        BY <2>4
      <3>. QED BY <1>3, <2>1, <2>2, <3>1
    <2>. QED BY <2>1, <2>2, <2>3, <2>4
  <1>. QED BY <1>1, <1>2, <1>3

\* Who spends more is at no smaller percentage; who has reached the cap is at
\* a hundred percent, and nobody who has not is beyond.
Percent(spend, cap) == HalfUp(1000 * spend, 2 * cap)

LEMMA Percentage ==
  ASSUME NEW spend \in Nat, NEW cap \in Nat, cap > 0
  PROVE  /\ Percent(spend, cap) \in Nat
         /\ Percent(spend, cap) <= Percent(spend + 1, cap)
         /\ spend >= 2 * cap => Percent(spend, cap) >= 1000
         /\ spend <= 2 * cap => Percent(spend, cap) <= 1000
  <1>. DEFINE m == 4 * cap
              up(s) == 2000 * s + 2 * cap
  <1>1. \A s \in Nat : Percent(s, cap) = up(s) \div m
    BY DEF Percent, HalfUp
  <1>2. m \in Nat /\ m > 0 /\ \A s \in Nat : up(s) \in Nat
    OBVIOUS
  <1>3. up(2 * cap) = 1000 * m + 2 * cap /\ 2 * cap < m
    OBVIOUS
  <1>4. (1000 * m + 2 * cap) \div m = 1000
    <2>1. 1000 \in Nat /\ 2 * cap \in Nat
      OBVIOUS
    <2>. HIDE DEF m
    <2>. QED BY <1>2, <1>3, <2>1, Division
  <1>5. up(spend) <= up(spend + 1)
    OBVIOUS
  <1>6. (spend >= 2 * cap => up(spend) >= up(2 * cap)) /\ (spend <= 2 * cap => up(spend) <= up(2 * cap))
    OBVIOUS
  <1>7. 2 * cap \in Nat /\ spend + 1 \in Nat
    OBVIOUS
  <1>. HIDE DEF m, up
  <1>8. up(spend) \div m \in Nat /\ up(spend) \div m <= up(spend + 1) \div m
    BY <1>2, <1>5, <1>7, Division
  <1>9. spend >= 2 * cap => up(spend) \div m >= 1000
    BY <1>2, <1>3, <1>4, <1>6, <1>7, <1>8, Division
  <1>10. spend <= 2 * cap => up(spend) \div m <= 1000
    BY <1>2, <1>3, <1>4, <1>6, <1>7, <1>8, Division
  <1>. QED BY <1>1, <1>7, <1>8, <1>9, <1>10

UsageOK == usage \in [spend : Nat \cup {NoAmount, Empty, Garbage},
                      cap : Nat \cup {NoAmount, Garbage}]

LEMMA UsageIs == AmountSpec => []UsageOK
  <1>1. ASSUME AmountInit PROVE UsageOK
    <2>1. PICK S \in {0, NoAmount, Empty, Garbage}, K \in Caps \cup {NoAmount, Garbage} :
            usage = [spend |-> S, cap |-> K]
      BY <1>1 DEF AmountInit
    <2>2. S \in Nat \cup {NoAmount, Empty, Garbage} /\ K \in Nat \cup {NoAmount, Garbage}
      BY AmountsAssumption
    <2>. QED BY <2>1, <2>2 DEF UsageOK
  <1>2. ASSUME UsageOK, [AmountNext]_amountVars PROVE UsageOK'
    <2>1. CASE usage' = usage
      BY <1>2, <2>1 DEF UsageOK
    <2>2. CASE Spend
      <3>1. usage.spend \in Nat /\ usage' = [usage EXCEPT !.spend = usage.spend + 1]
        BY <2>2, AmountsAssumption DEF Spend
      <3>. QED BY <1>2, <3>1 DEF UsageOK
    <2>. QED BY <1>2, <2>1, <2>2 DEF AmountNext, Type, amountVars
  <1>. QED BY <1>1, <1>2, PTL DEF AmountSpec

\* What is shown of whole cents.
LEMMA CentsShown ==
  ASSUME NEW h \in Nat, NEW c \in Nat
  PROVE  /\ cents_str_to_display(h) \in Nat
         /\ cents_str_to_display(h) <= cents_str_to_display(h + 1)
         /\ cents_str_to_display(Halves(c)) = c
         /\ h >= 2 * c => cents_str_to_display(h) >= c
         /\ h <= 2 * c => cents_str_to_display(h) <= c
  BY DEF cents_str_to_display, Halves, HalfUp

LEMMA BarShown ==
  ASSUME NEW x \in Nat, NEW y \in Nat, x <= y
  PROVE  /\ width(x) <= width(y)
         /\ x >= 1000 => width(x) = 100
  BY DEF width, HalfUp

rankOf == [none |-> 0, ok |-> 1, warn |-> 2, danger |-> 3]
LEMMA ClassShown ==
  ASSUME NEW x \in Nat, NEW y \in Nat, x <= y
  PROVE  /\ rankOf[cls(x)] <= rankOf[cls(y)]
         /\ x >= 1000 => cls(x) = "danger"
  <1>1. /\ rankOf["ok"] = 1 /\ rankOf["warn"] = 2 /\ rankOf["danger"] = 3
    BY DEF rankOf
  <1>. HIDE DEF rankOf
  <1>. QED BY <1>1 DEF cls

\* The pages, for a spend that is a number.
Bar(x) == [sort |-> x, width |-> width(x), cls |-> cls(x),
           display |-> IF x > 9990 THEN 9991 ELSE x]

LEMMA RowIs ==
  ASSUME NEW S \in Nat, NEW K \in Nat \cup {NoAmount, Garbage},
         NEW u, u = [spend |-> S, cap |-> K]
  PROVE  /\ build_usage_rows(u).spend = cents_str_to_display(S)
         /\ build_usage_rows(u).cap = cents_str_to_display(Halves(K))
         /\ K \in Nat /\ K > 0 => build_usage_rows(u).percent = Bar(Percent(S, K))
         /\ ~(K \in Nat /\ K > 0) => build_usage_rows(u).percent = NoPercent
  <1>1. u.spend = S /\ u.cap = K /\ Reported(u) = S
    BY DEF Reported, NoAmount
  <1>2. S # Empty /\ ~(S < 0)
    BY DEF Empty
  <1>3. build_usage_rows(u).percent =
          IF K = NoAmount THEN NoPercent ELSE percent_used(S, K)
    BY <1>1, <1>2 DEF build_usage_rows
  <1>4. CASE K \in Nat /\ K > 0
    <2>1. K # NoAmount /\ ~(K <= 0)
      BY <1>4 DEF NoAmount
    <2>. QED BY <1>1, <1>2, <1>3, <1>4, <2>1
       DEF build_usage_rows, percent_used, Bar, Percent
  <1>5. CASE ~(K \in Nat /\ K > 0)
    <2>1. K = NoAmount \/ K <= 0
      BY <1>5 DEF Garbage
    <2>2. build_usage_rows(u).percent = NoPercent
      BY <1>3, <2>1 DEF percent_used
    <2>. QED BY <1>1, <1>5, <2>2 DEF build_usage_rows
  <1>. QED BY <1>4, <1>5

\* views/me.py, views/admin.py: no row understates a user's spend, at the cap or
\* anywhere, and the two pages agree.
THEOREM UsageIsHonest == AmountSpec => []UsageHonest
  <1>1. ASSUME UsageOK PROVE UsageHonest
    <2>1. PICK S \in Nat \cup {NoAmount, Empty, Garbage}, K \in Nat \cup {NoAmount, Garbage} :
            usage = [spend |-> S, cap |-> K]
      BY <1>1 DEF UsageOK
    <2>2. usage.spend = S /\ usage.cap = K
      BY <2>1
    <2>. DEFINE shown == build_usage_rows(usage)
                next == [usage EXCEPT !.spend = usage.spend + 1]
                more == build_usage_rows(next)
    <2>3. usage.spend # Empty => build_user_rows(usage) = shown
      BY Zenon DEF build_user_rows, build_usage_rows
    <2>4. ASSUME S >= 0
          PROVE  /\ shown.spend <= more.spend
                 /\ shown.percent.sort <= more.percent.sort
                 /\ shown.percent.display <= more.percent.display
                 /\ shown.percent.width <= more.percent.width
                 /\ rankOf[shown.percent.cls] <= rankOf[more.percent.cls]
                 /\ K > 0 =>
                      IF S >= 2 * K
                      THEN shown.percent.sort >= 1000 /\ shown.percent.width = 100
                           /\ shown.percent.cls = "danger" /\ shown.spend >= shown.cap
                      ELSE shown.percent.sort <= 1000 /\ shown.spend <= shown.cap
      <3>1. S \in Nat /\ S + 1 \in Nat
        BY <2>4 DEF NoAmount, Empty, Garbage
      <3>2. next = [spend |-> S + 1, cap |-> K]
        BY <2>1, <2>2
      <3>3. shown.spend = cents_str_to_display(S) /\ more.spend = cents_str_to_display(S + 1)
            /\ shown.cap = cents_str_to_display(Halves(K))
        BY <2>1, <3>1, <3>2, RowIs
      <3>4. CASE K \in Nat /\ K > 0
        <4>0. /\ Percent(S, K) \in Nat /\ Percent(S, K) <= Percent(S + 1, K)
              /\ S >= 2 * K => Percent(S, K) >= 1000
              /\ S <= 2 * K => Percent(S, K) <= 1000
              /\ Percent(S + 1, K) \in Nat
          <5>. HIDE DEF shown, more, next
          <5>1. /\ Percent(S, K) \in Nat /\ Percent(S, K) <= Percent(S + 1, K)
                /\ S >= 2 * K => Percent(S, K) >= 1000
                /\ S <= 2 * K => Percent(S, K) <= 1000
            BY <3>1, <3>4, Percentage
          <5>2. Percent(S + 1, K) \in Nat
            BY <3>1, <3>4, Percentage
          <5>. QED BY <5>1, <5>2
        <4>1. PICK x \in Nat, y \in Nat :
                /\ x = Percent(S, K) /\ y = Percent(S + 1, K) /\ x <= y
                /\ S >= 2 * K => x >= 1000
                /\ S <= 2 * K => x <= 1000
          BY <4>0, Zenon
        <4>2. shown.percent = [sort |-> x, width |-> width(x), cls |-> cls(x),
                               display |-> IF x > 9990 THEN 9991 ELSE x]
          BY <2>1, <3>1, <3>4, <4>1, RowIs DEF Bar
        <4>3. more.percent = [sort |-> y, width |-> width(y), cls |-> cls(y),
                              display |-> IF y > 9990 THEN 9991 ELSE y]
          BY <3>1, <3>2, <3>4, <4>1, RowIs DEF Bar
        <4>. HIDE DEF shown, more
        <4>4. (IF x > 9990 THEN 9991 ELSE x) <= (IF y > 9990 THEN 9991 ELSE y)
          BY <4>1
        <4>5. shown.spend <= more.spend
          BY <3>1, <3>3, CentsShown
        <4>6. S >= 2 * K => shown.spend >= shown.cap
          BY <3>1, <3>3, <3>4, CentsShown
        <4>7. S <= 2 * K => shown.spend <= shown.cap
          BY <3>1, <3>3, <3>4, CentsShown
        <4>8. width(x) <= width(y) /\ rankOf[cls(x)] <= rankOf[cls(y)]
              /\ (x >= 1000 => width(x) = 100 /\ cls(x) = "danger")
          BY <4>1, BarShown, ClassShown
        <4>. HIDE DEF rankOf
        <4>9. S >= 2 * K \/ S <= 2 * K
          BY <3>1, <3>4
        <4>. QED BY <4>1, <4>2, <4>3, <4>4, <4>5, <4>6, <4>7, <4>8, <4>9
      <3>5. CASE ~(K \in Nat /\ K > 0)
        <4>1. shown.percent = NoPercent /\ more.percent = NoPercent /\ ~(K > 0)
          <5>1. ~(K > 0)
            BY <3>5 DEF NoAmount, Garbage
          <5>2. shown.percent = NoPercent
            BY <2>1, <3>1, <3>5, RowIs
          <5>3. more.percent = NoPercent
            BY <3>1, <3>2, <3>5, RowIs
          <5>. QED BY <5>1, <5>2, <5>3
        <4>2. shown.spend <= more.spend
          BY <3>1, <3>3, CentsShown
        <4>. HIDE DEF shown, more
        <4>. QED BY <4>1, <4>2 DEF NoPercent, rankOf, NoAmount
      <3>. QED BY <3>4, <3>5
    <2>. HIDE DEF shown, next
    <2>. QED BY <2>2, <2>3, <2>4, Zenon DEF UsageHonest, shown, next, more, rankOf
  <1>. QED BY <1>1, UsageIs, PTL

-----------------------------------------------------------------------------
(* What may be picked, and what is accepted.                               *)

LEMMA EntriesAre == SelectionSpec => [](entries \in Seq(Entries))
  <1>1. SelectionInit => entries \in Seq(Entries)
    BY DEF SelectionInit
  <1>2. entries \in Seq(Entries) /\ [SelectionNext]_entries => (entries \in Seq(Entries))'
    BY DEF SelectionNext, Configure
  <1>. QED BY <1>1, <1>2, PTL DEF SelectionSpec

\* The operator listed the team for the cost center.
Listed(cc, team) == \E i \in DOMAIN entries :
                      entries[i].cc = cc /\ team \in ToSet(entries[i].teams)

\* Of a configuration the portal boots with: every entry is a cost center's only
\* one, is clean and has a team.
LEMMA BootedIs ==
  ASSUME entries \in Seq(Entries), Boots(entries)
  PROVE  /\ entries # <<>>
         /\ \A i \in DOMAIN entries : ToSet(entries[i].teams) # {}
         /\ \A i \in DOMAIN entries :
              entries[i].cc \in Tokens /\ ToSet(entries[i].teams) \subseteq Tokens
         /\ \A i, j \in DOMAIN entries : entries[i].cc = entries[j].cc => i = j
  <1>1. ASSUME NEW i \in DOMAIN entries
        PROVE  /\ entries[i].cc \in Tokens /\ ToSet(entries[i].teams) \subseteq Tokens
               /\ entries[i].teams # <<>>
    BY DEF Boots, Malformed, Unclean, ToSet
  <1>2. ASSUME NEW i \in DOMAIN entries PROVE ToSet(entries[i].teams) # {}
    <2>1. entries[i] \in Entries
      BY <1>2
    <2>2. PICK m \in 0 .. MaxTeams : entries[i].teams \in [1 .. m -> Tokens \cup Odd]
      BY <2>1, SelectionAssumption DEF Entries, BoundedSeq, SeqOf
    <2>3. m # 0
      BY <1>1, <2>2
    <2>4. 1 \in DOMAIN entries[i].teams
      BY <2>2, <2>3, SelectionAssumption
    <2>. QED BY <2>4 DEF ToSet
  <1>3. \A i, j \in DOMAIN entries : entries[i].cc = entries[j].cc => i = j
    BY DEF Boots, TwiceIn
  <1>. QED BY <1>1, <1>2, <1>3 DEF Boots

\* parse_cost_center_teams keeps every entry as it is.
LEMMA ParsedIs ==
  ASSUME entries \in Seq(Entries), Boots(entries)
  PROVE  /\ cost_centers = {entries[i].cc : i \in DOMAIN entries}
         /\ \A i \in DOMAIN entries : teams_of(entries[i].cc) = ToSet(entries[i].teams)
  <1>. DEFINE P == parse_cost_center_teams(entries)
              D == {e.cc : e \in ToSet(entries)}
              latest(cc, i) == /\ entries[i].cc = cc
                               /\ \A j \in DOMAIN entries : entries[j].cc = cc => j <= i
              last(cc) == CHOOSE i \in DOMAIN entries : latest(cc, i)
  <1>1. P = [cc \in D |-> entries[last(cc)].teams]
    BY Zenon DEF parse_cost_center_teams
  <1>2. D = {entries[i].cc : i \in DOMAIN entries}
    BY DEF ToSet
  <1>3. ASSUME NEW i \in DOMAIN entries PROVE last(entries[i].cc) = i
    <2>1. \A k \in DOMAIN entries : latest(entries[i].cc, k) => k = i
      BY <1>3, BootedIs
    <2>2. i \in Nat
      BY <1>3
    <2>3. latest(entries[i].cc, i)
      BY <1>3, <2>2, BootedIs
    <2>. HIDE DEF latest
    <2>. QED BY <2>1, <2>3, Zenon
  <1>. HIDE DEF last, latest
  <1>4. DOMAIN P = D
    BY <1>1
  <1>5. ASSUME NEW i \in DOMAIN entries PROVE P[entries[i].cc] = entries[i].teams
    <2>1. entries[i].cc \in D
      BY <1>2
    <2>. QED BY <1>1, <1>3, <2>1
  <1>. HIDE DEF P, D
  <1>6. cost_centers = D
    BY <1>4 DEF cost_centers, P
  <1>7. \A i \in DOMAIN entries : teams_of(entries[i].cc) = ToSet(entries[i].teams)
    BY <1>5 DEF teams_of, P
  <1>. QED BY <1>2, <1>6, <1>7

\* The second stage offers a cost center's teams, and the checks accept them.
LEMMA OfferedIs ==
  ASSUME entries \in Seq(Entries), Boots(entries), NEW cc, NEW team
  PROVE  /\ validate_cost_center(cc) <=> \E i \in DOMAIN entries : entries[i].cc = cc
         /\ validate_cost_center(cc) => (team \in teams_of(cc) <=> Listed(cc, team))
         /\ validate_selection(team, cc) <=> Listed(cc, team)
         /\ Listed(cc, team) => validate_cost_center(cc) /\ cc # Absent
                                /\ cc \in Tokens /\ team \in Tokens
  <1>1. validate_cost_center(cc) <=> \E i \in DOMAIN entries : entries[i].cc = cc
    BY ParsedIs, BootedIs DEF validate_cost_center
  <1>2. Listed(cc, team) => validate_cost_center(cc) /\ cc # Absent
                            /\ cc \in Tokens /\ team \in Tokens
    BY <1>1, BootedIs, SelectionAssumption DEF Listed
  <1>3. ASSUME validate_cost_center(cc) PROVE team \in teams_of(cc) <=> Listed(cc, team)
    <2>1. PICK i \in DOMAIN entries : entries[i].cc = cc
      BY <1>1, <1>3
    <2>2. teams_of(cc) = ToSet(entries[i].teams)
      BY <2>1, ParsedIs
    <2>3. \A j \in DOMAIN entries : entries[j].cc = cc => j = i
      BY <2>1, BootedIs
    <2>. QED BY <2>1, <2>2, <2>3 DEF Listed
  <1>4. validate_selection(team, cc) <=> Listed(cc, team)
    BY <1>2, <1>3, SelectionAssumption DEF validate_selection
  <1>. QED BY <1>1, <1>2, <1>3, <1>4

\* views/downloads.py: the form offers what a request may carry and what the
\* operator listed, and every refusal leads to a form with a way on.
THEOREM OfferIsAccepted == SelectionSpec => []OfferedIsAccepted
  <1>1. ASSUME entries \in Seq(Entries) PROVE OfferedIsAccepted
    <2>. SUFFICES ASSUME Boots(entries) PROVE OfferedIsAccepted
      BY DEF OfferedIsAccepted
    <2>. DEFINE asked == Tokens \cup Odd \cup {Absent}
                sent == PLATFORMS \cup Odd \cup {Absent}
                served(cc, team, p) == download_selection(team, cc, p).status = 200
                stage2(cc) == download_page(cc, Absent)
                answer(cc, team, p) == download_selection(team, cc, p)
                shown(cc, team, p) == answer(cc, team, p).form
                pick(cc, team, p) == IF shown(cc, team, p).cost_center = Absent
                                     THEN shown(cc, team, p).cost_centers
                                     ELSE {shown(cc, team, p).cost_center}
    <2>1. \A cc, team, p : served(cc, team, p) <=>
                             validate_selection(team, cc) /\ validate_platform(p)
      BY DEF download_selection
    <2>2. \A cc, team : \A p \in PLATFORMS : served(cc, team, p) <=> Listed(cc, team)
      BY <1>1, <2>1, OfferedIs DEF validate_platform
    <2>3. ASSUME NEW cc \in asked, NEW team \in asked
          PROVE  /\ served(cc, team, "linux") <=>
                      cc # Absent /\ stage2(cc).status = 200 /\ team \in stage2(cc).form.teams
                 /\ served(cc, team, "linux") <=>
                      \E e \in ToSet(entries) : e.cc = cc /\ team \in ToSet(e.teams)
                 /\ served(cc, team, "linux") => {cc, team} \subseteq Tokens
      <3>1. served(cc, team, "linux") <=> Listed(cc, team)
        BY <2>2 DEF PLATFORMS
      <3>2. cc # Absent => (stage2(cc).status = 200 <=> validate_cost_center(cc))
        BY DEF download_page
      <3>3. cc # Absent /\ validate_cost_center(cc) => stage2(cc).form.teams = teams_of(cc)
        BY DEF download_page, _render_form
      <3>4. Listed(cc, team) <=> cc # Absent /\ validate_cost_center(cc) /\ team \in teams_of(cc)
        BY <1>1, OfferedIs
      <3>5. Listed(cc, team) <=>
              \E e \in ToSet(entries) : e.cc = cc /\ team \in ToSet(e.teams)
        BY DEF Listed, ToSet
      <3>6. Listed(cc, team) => cc \in Tokens /\ team \in Tokens
        BY <1>1, OfferedIs
      <3>. HIDE DEF served, stage2
      <3>. QED BY <3>1, <3>2, <3>3, <3>4, <3>5, <3>6
    <2>4. ASSUME NEW cc \in asked, NEW team \in asked, NEW p \in sent,
                 answer(cc, team, p).status = 400
          PROVE  \E c \in pick(cc, team, p), t \in asked :
                   served(c, t, shown(cc, team, p).platform)
      <3>1. shown(cc, team, p) =
              _render_form(IF validate_cost_center(cc) THEN cc ELSE Absent, p)
        BY <2>4 DEF download_selection
      <3>2. /\ shown(cc, team, p).cost_centers = cost_centers
            /\ shown(cc, team, p).platform = Platform(p)
            /\ shown(cc, team, p).cost_center =
                 IF validate_cost_center(cc) THEN cc ELSE Absent
        BY <3>1 DEF _render_form
      <3>3. Platform(p) \in PLATFORMS
        BY DEF Platform, PLATFORMS
      <3>4. PICK i \in DOMAIN entries : entries[i].cc \in pick(cc, team, p)
        <4>1. CASE validate_cost_center(cc)
          <5>1. cc # Absent
            BY <4>1, SelectionAssumption DEF validate_cost_center
          <5>2. pick(cc, team, p) = {cc}
            BY <3>2, <4>1, <5>1
          <5>3. \E i \in DOMAIN entries : entries[i].cc = cc
            BY <1>1, <4>1, OfferedIs
          <5>. QED BY <5>2, <5>3
        <4>2. CASE ~validate_cost_center(cc)
          <5>1. pick(cc, team, p) = cost_centers
            BY <3>2, <4>2
          <5>2. 1 \in DOMAIN entries
            BY <1>1, BootedIs
          <5>. QED BY <1>1, <5>1, <5>2, ParsedIs
        <4>. QED BY <4>1, <4>2
      <3>5. PICK t : t \in ToSet(entries[i].teams)
        BY <1>1, BootedIs
      <3>6. t \in Tokens /\ Listed(entries[i].cc, t)
        BY <1>1, <3>5, BootedIs DEF Listed
      <3>7. served(entries[i].cc, t, Platform(p))
        BY <2>2, <3>3, <3>6
      <3>. HIDE DEF served, pick, shown
      <3>. QED BY <3>2, <3>4, <3>6, <3>7
    <2>. QED BY <2>3, <2>4, Zenon DEF OfferedIsAccepted
  <1>. QED BY <1>1, EntriesAre, PTL

-----------------------------------------------------------------------------
(* The specification that MCPortalProcess.tla checks, which takes the      *)
(* parts one at a time, is one of each part.  They share the clock: a tick *)
(* of the certificate page's is one of the key cache's because no thread   *)
(* is then verifying a token, and the other way round any tick will do.    *)

NoLogins == serving # "logins" => call = [t \in Threads |-> NoCall]

LEMMA NoLoginsElsewhere == Spec => []NoLogins
  <1>1. Init => NoLogins
    BY DEF Init, KeyInit, NoLogins
  <1>2. NoLogins /\ [Logins \/ Fingerprints \/ Releases \/ Typing \/ Usage \/ Selections]_vars
          => NoLogins'
    BY DEF NoLogins, Logins, Fingerprints, Releases, Typing, Usage, Selections, Only,
           vars, keyVars
  <1>. QED BY <1>1, <1>2, PTL DEF Spec

\* gunicorn.conf.py: the worker process whose answers are checked does in each of
\* its parts only what that part is specified to do, the shared clock included.
THEOREM ProcessKeepsItsParts ==
  Spec => KeySpec /\ FpSpec /\ DownloadSpec /\ AmountSpec /\ SelectionSpec
  <1>. DEFINE Step == Logins \/ Fingerprints \/ Releases \/ Typing \/ Usage \/ Selections
  <1>1. Init => KeyInit /\ FpInit /\ DownloadInit /\ AmountInit /\ SelectionInit
    BY DEF Init
  <1>2. NoLogins /\ [Step]_vars => [KeyNext]_keyVars
    <2>. SUFFICES ASSUME NoLogins, [Step]_vars PROVE [KeyNext]_keyVars
      OBVIOUS
    <2>1. CASE Logins
      BY <2>1 DEF Logins
    <2>2. CASE Fingerprints
      <3>1. CASE FpTick
        <4>1. \A t \in Threads : ~InJwks(t)
          BY <2>2 DEF NoLogins, Fingerprints, Only, NoCall, InJwks
        <4>. QED BY <2>2, <3>1, <4>1 DEF Fingerprints, FpTick, KeyNext, Okta, Tick
      <3>2. CASE ~FpTick
        BY <2>2, <3>2 DEF Fingerprints, FpNext, Change, get_fingerprint, Cached, FetchLeaf,
             SetCache, Answer, keyVars, oktaVars
      <3>. QED BY <3>1, <3>2
    <2>3. CASE Releases \/ Typing \/ Usage \/ Selections \/ UNCHANGED vars
      BY <2>3 DEF Releases, Typing, Usage, Selections, vars
    <2>. QED BY <2>1, <2>2, <2>3
  <1>3. [Step]_vars => [FpNext]_fpVars
    <2>1. CASE Logins
      <3>1. CASE Tick
        BY <2>1, <3>1 DEF Logins, Tick, FpNext, FpTick, fingerprintVars
      <3>2. CASE ~Tick
        <4>1. now' = now
          BY <2>1, <3>2 DEF Logins, KeyNext, Okta, Publish, Retire, KeyStep, jwks, FetchKeys,
               SetJwks, SetFetchedAt, Check, Return, verify_id_token, oktaVars
        <4>. QED BY <2>1, <4>1 DEF Logins, fingerprintVars, fpVars
      <3>. QED BY <3>1, <3>2
    <2>2. CASE Fingerprints
      BY <2>2 DEF Fingerprints
    <2>3. CASE Releases \/ Typing \/ Usage \/ Selections \/ UNCHANGED vars
      BY <2>3 DEF Releases, Typing, Usage, Selections, vars, keyVars, oktaVars,
           fingerprintVars, fpVars
    <2>. QED BY <2>1, <2>2, <2>3
  <1>4. [Step]_vars => [DownloadNext]_downloadVars
    BY DEF Logins, Fingerprints, Releases, Typing, Usage, Selections, vars
  <1>5. [Step]_vars => [AmountNext]_amountVars
    BY DEF Logins, Fingerprints, Releases, Typing, Usage, Selections, vars, AmountNext
  <1>6. [Step]_vars => [SelectionNext]_entries
    BY DEF Logins, Fingerprints, Releases, Typing, Usage, Selections, vars
  <1>. QED BY <1>1, <1>2, <1>3, <1>4, <1>5, <1>6, NoLoginsElsewhere, PTL
       DEF Spec, KeySpec, FpSpec, DownloadSpec, AmountSpec, SelectionSpec

\* What is shown of the parts' amounts and forms holds of that process.
THEOREM ProcessIsHonest ==
  Spec => [](AmountExact /\ UsageHonest /\ OfferedIsAccepted)
  BY ProcessKeepsItsParts, MoneyIsExact, UsageIsHonest, OfferIsAccepted, PTL

=============================================================================
