----------------------------- MODULE WrapArith -----------------------------
(***************************************************************************)
(* Arithmetic of two's-complement wrapping, over abstract powers of two:   *)
(* residues, congruences and the hi20/lo12 split of an absolute address.  *)
(* The residue x % M is wrapped in Mod so that the lemmas can be           *)
(* instantiated by matching: the provers do not match on the built-in %.   *)
(***************************************************************************)
EXTENDS Integers, TLAPS

\* x mod M, what `as uW` keeps of x for M = 2^W
Mod(u, M) == u % M

\* SExt(x, M, H): x mod M read as a signed number of half-range H
SignedMod(u, M, H) == IF Mod(u, M) >= H THEN Mod(u, M) - M ELSE Mod(u, M)

\* a residue lies in 0..N-1, and t is a multiple of N plus its residue
LEMMA ModRange ==
    ASSUME NEW N \in Nat \ {0}, NEW t \in Int
    PROVE  /\ Mod(t, N) \in 0..(N - 1) /\ t \div N \in Int
           /\ t = N * (t \div N) + Mod(t, N)
BY SMT DEF Mod

\* the residue of P a + y, for y in 0..P-1, is y
LEMMA ModIs ==
    ASSUME NEW P \in Nat \ {0}, NEW x \in Int, NEW a \in Int, NEW y \in 0..(P - 1),
           x = P * a + y
    PROVE  Mod(x, P) = y
<1>1. /\ Mod(x, P) \in 0..(P - 1) /\ x \div P \in Int
      /\ x = P * (x \div P) + Mod(x, P)
  BY ModRange
<1>. DEFINE d == a - (x \div P)
<1>2. P * d = Mod(x, P) - y /\ d \in Int BY <1>1, SMT
<1>3. d = 0
  <2>1. CASE d >= 1
    <3>1. P * d >= P BY <1>2, <2>1, SMT
    <3>. QED BY <1>1, <1>2, <3>1, SMT
  <2>2. CASE d <= -1
    <3>1. P * d <= -P BY <1>2, <2>2, SMT
    <3>. QED BY <1>1, <1>2, <3>1, SMT
  <2>. QED BY <1>2, <2>1, <2>2, SMT
<1>4. P * d = 0 BY <1>3, SMT
<1>5. Mod(x, P) \in Int BY <1>1
<1>. QED BY <1>2, <1>4, <1>5, SMT

\* the low bits of a wider word: t mod N, for N = P R, read mod P
LEMMA ModModM ==
    ASSUME NEW P \in Nat \ {0}, NEW R \in Nat \ {0}, NEW N \in Nat \ {0}, NEW t \in Int,
           N = P * R
    PROVE  Mod(Mod(t, N), P) = Mod(t, P)
<1>1. /\ Mod(t, N) \in 0..(N - 1) /\ t \div N \in Int
      /\ t = N * (t \div N) + Mod(t, N)
  BY ModRange
<1>2. /\ Mod(t, P) \in 0..(P - 1) /\ t \div P \in Int
      /\ t = P * (t \div P) + Mod(t, P)
  BY ModRange
<1>3. /\ Mod(t, N) = P * ((t \div P) - R * (t \div N)) + Mod(t, P)
      /\ (t \div P) - R * (t \div N) \in Int
  <2>1. PICK qa \in Int : qa = t \div N BY <1>1
  <2>2. PICK qb \in Int : qb = t \div P BY <1>2
  <2>3. PICK ma \in Int : ma = Mod(t, N) BY <1>1
  <2>4. PICK mb \in Int : mb = Mod(t, P) BY <1>2
  <2>5. t = N * qa + ma /\ t = P * qb + mb BY <1>1, <1>2, <2>1, <2>2, <2>3, <2>4
  <2>6. ma = P * (qb - R * qa) + mb /\ qb - R * qa \in Int BY <2>5, SMTT(20)
  <2>. QED BY <2>1, <2>2, <2>3, <2>4, <2>6
<1>. QED BY <1>1, <1>2, <1>3, ModIs

\* a multiple of M vanishes: (u + M c) mod M = u mod M
LEMMA MulCong ==
    ASSUME NEW M \in Nat \ {0}, NEW u \in Int, NEW c \in Int
    PROVE  Mod(u + M * c, M) = Mod(u, M)
<1>1. /\ Mod(u, M) \in 0..(M - 1) /\ u \div M \in Int
      /\ u = M * (u \div M) + Mod(u, M)
  BY ModRange
<1>2. /\ u + M * c = M * ((u \div M) + c) + Mod(u, M)
      /\ (u \div M) + c \in Int /\ u + M * c \in Int
  BY <1>1, SMT
<1>. QED BY <1>1, <1>2, ModIs

\* equal residues differ by a multiple of M
LEMMA CongWitness ==
    ASSUME NEW M \in Nat \ {0}, NEW u \in Int, NEW v \in Int, Mod(u, M) = Mod(v, M)
    PROVE  /\ (u \div M) - (v \div M) \in Int
           /\ u = v + M * ((u \div M) - (v \div M))
<1>0a. u = M * (u \div M) + Mod(u, M) /\ u \div M \in Int /\ Mod(u, M) \in 0..(M - 1)
  BY ModRange
<1>0b. v = M * (v \div M) + Mod(v, M) /\ v \div M \in Int BY ModRange
<1>1. /\ u = M * (u \div M) + Mod(u, M) /\ u \div M \in Int
      /\ v = M * (v \div M) + Mod(v, M) /\ v \div M \in Int
      /\ Mod(u, M) \in Int
  BY <1>0a, <1>0b
<1>2. PICK qu \in Int : qu = u \div M BY <1>1
<1>3. PICK qv \in Int : qv = v \div M BY <1>1
<1>4. PICK m \in Int : m = Mod(u, M) BY <1>1
<1>5. u = M * qu + m /\ v = M * qv + m BY <1>1, <1>2, <1>3, <1>4
<1>6. u = v + M * (qu - qv) /\ qu - qv \in Int BY <1>5, SMTT(20)
<1>. QED BY <1>2, <1>3, <1>6

\* adding the same w keeps a congruence
LEMMA AddConst ==
    ASSUME NEW M \in Nat \ {0}, NEW u \in Int, NEW v \in Int, NEW w \in Int,
           Mod(u, M) = Mod(v, M)
    PROVE  Mod(u + w, M) = Mod(v + w, M)
<1>1. /\ (u \div M) - (v \div M) \in Int
      /\ u = v + M * ((u \div M) - (v \div M))
  BY CongWitness
<1>2. /\ u + w = (v + w) + M * ((u \div M) - (v \div M)) /\ v + w \in Int
  BY <1>1, SMT
<1>3. Mod((v + w) + M * ((u \div M) - (v \div M)), M) = Mod(v + w, M)
  BY <1>1, <1>2, MulCong
<1>. QED BY <1>2, <1>3

\* congruent sums: mod M, u + w is v + z when u is v and w is z
LEMMA AddCong ==
    ASSUME NEW M \in Nat \ {0}, NEW u \in Int, NEW w \in Int,
           NEW v \in Int, NEW z \in Int,
           Mod(u, M) = Mod(v, M), Mod(w, M) = Mod(z, M)
    PROVE  Mod(u + w, M) = Mod(v + z, M)
<1>1. Mod(u + w, M) = Mod(v + w, M) BY AddConst
<1>2. Mod(w + v, M) = Mod(z + v, M) BY AddConst
<1>3. w + v = v + w /\ z + v = v + z BY SMT
<1>. QED BY <1>1, <1>2, <1>3

(***************************************************************************)
(* The absolute hi20/lo12 split.  Lo part P = 2B, hi part Q, 32 bits       *)
(* M = P Q, 64 bits X = M R.  The hi20 is the u64 (x + B) mod X shifted    *)
(* right by log P and cut to Q; the lo12 is computed on an a equal to x    *)
(* mod M, with s1 equal to a + B mod M and d equal to a minus s1 rounded   *)
(* down to a multiple of P, mod M (what the i32 operations give, wrapping  *)
(* or not); e is the hi20 shifted back, read mod M.  Then the hi20 and the *)
(* lo12 read as signed add up to x mod M.                                  *)
(***************************************************************************)
\* the lo part P = 2B, 32 bits M = P Q and 64 bits X = M R
Dims(B, Q, R, P, M, X) == P = 2 * B /\ M = P * Q /\ X = M * R

\* what the hi20 and the lo12 handlers compute, mod M
SplitHyps(B, Q, P, M, X, x, a, s1, d, e) ==
    /\ Mod(a, M) = Mod(x, M)
    /\ Mod(s1, M) = Mod(a + B, M)
    /\ Mod(d, M) = Mod(a - (s1 \div P) * P, M)
    /\ Mod(e, M) = Mod(Mod(Mod(x + B, X) \div P, Q) * P, M)

\* the lemmas above as opaque facts, to be instantiated one step at a time
RangeFact(N, t) ==
    /\ Mod(t, N) \in 0..(N - 1) /\ t \div N \in Int
    /\ t = N * (t \div N) + Mod(t, N)
ModIsFact(P, x, a, y) == x = P * a + y => Mod(x, P) = y
ModModFact(P, R, N, t) == N = P * R => Mod(Mod(t, N), P) = Mod(t, P)
MulFact(M, u, c) == Mod(u + M * c, M) = Mod(u, M)
CongFact(M, u, v) ==
    Mod(u, M) = Mod(v, M) => /\ (u \div M) - (v \div M) \in Int
                             /\ u = v + M * ((u \div M) - (v \div M))
AddConstFact(M, u, v, w) == Mod(u, M) = Mod(v, M) => Mod(u + w, M) = Mod(v + w, M)

LEMMA RangeAll == \A N \in Nat \ {0}, t \in Int : RangeFact(N, t)
BY ModRange DEF RangeFact
LEMMA ModIsAll ==
    \A P \in Nat \ {0} : \A x, a \in Int : \A y \in 0..(P - 1) : ModIsFact(P, x, a, y)
BY ModIs DEF ModIsFact
LEMMA ModModAll == \A P, R, N \in Nat \ {0}, t \in Int : ModModFact(P, R, N, t)
BY ModModM DEF ModModFact
LEMMA MulAll == \A M \in Nat \ {0}, u, c \in Int : MulFact(M, u, c)
BY MulCong DEF MulFact
LEMMA CongAll == \A M \in Nat \ {0}, u, v \in Int : CongFact(M, u, v)
BY CongWitness DEF CongFact
LEMMA AddConstAll == \A M \in Nat \ {0}, u, v, w \in Int : AddConstFact(M, u, v, w)
BY AddConst DEF AddConstFact

\* the hi20 and the lo12 of an absolute address, read as signed and added
\* mod 2^32, give the address back
\* the split, as a fact about its eleven quantities
AbsSplitFact(B, Q, R, P, M, X, x, av, s1, d, e) ==
    Dims(B, Q, R, P, M, X) /\ SplitHyps(B, Q, P, M, X, x, av, s1, d, e)
      => Mod(e + SignedMod(Mod(d, P), P, B), M) = Mod(x, M)

LEMMA AbsSplitArith ==
    \A B, Q, R, P, M, X \in Nat \ {0} : \A x, av, s1, d, e \in Int :
      AbsSplitFact(B, Q, R, P, M, X, x, av, s1, d, e)
<1>. SUFFICES ASSUME NEW B \in Nat \ {0}, NEW Q \in Nat \ {0}, NEW R \in Nat \ {0},
                    NEW P \in Nat \ {0}, NEW M \in Nat \ {0}, NEW X \in Nat \ {0},
                    NEW x \in Int, NEW av \in Int, NEW s1 \in Int, NEW d \in Int,
                    NEW e \in Int
             PROVE  AbsSplitFact(B, Q, R, P, M, X, x, av, s1, d, e)
  OBVIOUS
<1>. USE DEF AbsSplitFact
<1>. HAVE Dims(B, Q, R, P, M, X) /\ SplitHyps(B, Q, P, M, X, x, av, s1, d, e)
<1>0b. P = 2 * B BY DEF Dims
<1>0m. M = P * Q BY DEF Dims
<1>0x. X = M * R BY DEF Dims
<1>h1. Mod(av, M) = Mod(x, M) BY DEF SplitHyps
<1>h2. Mod(s1, M) = Mod(av + B, M) BY DEF SplitHyps
<1>h3. Mod(d, M) = Mod(av - (s1 \div P) * P, M) BY DEF SplitHyps
<1>h4. Mod(e, M) = Mod(Mod(Mod(x + B, X) \div P, Q) * P, M) BY DEF SplitHyps
<1>1. /\ B \in Int /\ B < P /\ x + B \in Int /\ av + B \in Int
  BY <1>0b, SMT
<1>1n. Q * R \in Nat \ {0} /\ X = P * (Q * R) BY <1>0m, <1>0x, SMT
<1>2a. RangeFact(P, x + B) BY <1>1, RangeAll
<1>2b. RangeFact(X, x + B) BY <1>1, RangeAll
<1>2. PICK r \in 0..(P - 1) : r = Mod(x + B, P) BY <1>2a DEF RangeFact
<1>3. PICK y \in 0..(X - 1) : y = Mod(x + B, X) BY <1>2b DEF RangeFact
<1>4. /\ r \in Int /\ y \in Int /\ r - B \in Int /\ -r \in Int /\ (x + B) - r \in Int
  BY <1>1, <1>2, <1>3, SMT
<1>5. Mod(av + B, M) = Mod(x + B, M)
  <2>1. AddConstFact(M, av, x, B) BY <1>1, AddConstAll
  <2>. QED BY <1>h1, <2>1 DEF AddConstFact
<1>6. Mod(s1, P) = r
  <2>1. ModModFact(P, Q, M, s1) BY ModModAll
  <2>2. ModModFact(P, Q, M, av + B) BY <1>1, ModModAll
  <2>3. ModModFact(P, Q, M, x + B) BY <1>1, ModModAll
  <2>. QED BY <1>0m, <1>h2, <1>5, <1>2, <2>1, <2>2, <2>3 DEF ModModFact
<1>7. Mod(d, M) = Mod(r - B, M)
  <2>1. CongFact(M, s1, av + B) BY <1>1, CongAll
  <2>2. RangeFact(P, s1) BY RangeAll
  <2>3. PICK c \in Int : s1 = (av + B) + M * c BY <1>h2, <2>1 DEF CongFact
  <2>4. PICK qs \in Int : qs = s1 \div P /\ s1 = P * qs + r BY <1>6, <2>2 DEF RangeFact
  <2>5. av - qs * P = (r - B) + M * (-c) /\ -c \in Int
    BY <1>1, <1>4, <2>3, <2>4, SMTT(20)
  <2>6. MulFact(M, r - B, -c) BY <1>4, <2>5, MulAll
  <2>. QED BY <1>h3, <2>4, <2>5, <2>6 DEF MulFact
<1>8. Mod(d, P) = Mod(r - B, P)
  <2>1. ModModFact(P, Q, M, d) BY ModModAll
  <2>2. ModModFact(P, Q, M, r - B) BY <1>4, ModModAll
  <2>. QED BY <1>0m, <1>7, <2>1, <2>2 DEF ModModFact
<1>9. SignedMod(Mod(d, P), P, B) = r - B
  <2>1. CASE r >= B
    <3>1. /\ r - B \in 0..(P - 1) /\ r - B = P * 0 + (r - B) /\ r - B < B
          /\ 0 \in Int
      BY <1>0b, <1>1, <1>2, <2>1, SMT
    <3>2. ModIsFact(P, r - B, 0, r - B) BY <1>4, <3>1, ModIsAll
    <3>. QED BY <1>8, <3>1, <3>2 DEF SignedMod, ModIsFact
  <2>2. CASE r < B
    <3>1. /\ (r - B) + P \in 0..(P - 1) /\ r - B = P * (-1) + ((r - B) + P)
          /\ (r - B) + P = P * 0 + ((r - B) + P)
          /\ (r - B) + P >= B /\ ((r - B) + P) - P = r - B
          /\ (r - B) + P \in Int /\ -1 \in Int /\ 0 \in Int
      BY <1>0b, <1>1, <1>2, <2>2, SMT
    <3>2. ModIsFact(P, r - B, -1, (r - B) + P) BY <1>4, <3>1, ModIsAll
    <3>3. ModIsFact(P, (r - B) + P, 0, (r - B) + P) BY <3>1, ModIsAll
    <3>. QED BY <1>8, <3>1, <3>2, <3>3 DEF SignedMod, ModIsFact
  <2>. QED BY <1>1, <1>4, <2>1, <2>2, SMT
<1>10. Mod(y, P) = r /\ Mod(y, M) = Mod(x + B, M)
  <2>1. ModModFact(P, Q * R, X, x + B) BY <1>1, <1>1n, ModModAll
  <2>2. ModModFact(M, R, X, x + B) BY <1>1, ModModAll
  <2>. QED BY <1>0x, <1>1n, <1>2, <1>3, <2>1, <2>2 DEF ModModFact
<1>11. Mod(e, M) = Mod(y - r, M)
  <2>1. RangeFact(P, y) BY <1>4, RangeAll
  <2>2. PICK t \in Int : t = y \div P /\ y = P * t + r BY <1>10, <2>1 DEF RangeFact
  <2>3. RangeFact(Q, t) BY RangeAll
  <2>4. PICK q \in Int : q = t \div Q /\ t = Q * q + Mod(t, Q) BY <2>3 DEF RangeFact
  <2>5. PICK h \in Int : h = Mod(t, Q) BY <2>3 DEF RangeFact
  <2>6. h * P = (y - r) + M * (-q) /\ -q \in Int /\ y - r \in Int
    <3>1. y = P * t + r /\ t = Q * q + h BY <2>2, <2>4, <2>5
    <3>2. P * t = M * q + P * h BY <1>0m, <3>1, SMT
    <3>. QED BY <1>4, <3>1, <3>2, SMT
  <2>7. MulFact(M, y - r, -q) BY <2>6, MulAll
  <2>. QED BY <1>h4, <1>3, <2>2, <2>5, <2>6, <2>7 DEF MulFact
<1>12. Mod(y - r, M) = Mod((x + B) - r, M)
  <2>1. AddConstFact(M, y, x + B, -r) BY <1>1, <1>4, AddConstAll
  <2>2. y + (-r) = y - r /\ (x + B) + (-r) = (x + B) - r BY <1>1, <1>4, SMT
  <2>. QED BY <1>10, <2>1, <2>2 DEF AddConstFact
<1>13. Mod(e + (r - B), M) = Mod(((x + B) - r) + (r - B), M)
  <2>1. AddConstFact(M, e, (x + B) - r, r - B) BY <1>1, <1>4, AddConstAll
  <2>. QED BY <1>11, <1>12, <2>1 DEF AddConstFact
<1>14. ((x + B) - r) + (r - B) = x BY <1>1, <1>4, SMT
<1>. QED BY <1>9, <1>13, <1>14

====
