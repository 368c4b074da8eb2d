-------------------------- MODULE MiddlewareProofs ---------------------------
(***************************************************************************)
(* Executions through every chain of middleware that the operations of     *)
(* middleware.go can build, for any number of executions, jobs and steps.  *)
(***************************************************************************)
EXTENDS Middleware, SequenceTheorems, FiniteSetTheorems, TLAPS

-----------------------------------------------------------------------------
(* The chain, and the program that then makes of it.                        *)

NoTwice(c) == \A i, m \in 1..Len(c) : c[i] = c[m] => i = m

\* An execution that is at place p of the program of chain c is inside middleware k.
Between(c, p, k) == \E q \in 1..Len(c) : c[q] = k /\ q < p /\ p <= 2 * Len(c) + 2 - q

\* A program enters the chain in its order, and leaves it in the reverse order.
LEMMA ThenShape ==
    ASSUME NEW c \in Seq(Kinds)
    PROVE  /\ Len(c) \in Nat /\ Len(Then(c)) = 2 * Len(c) + 1
           /\ \A i \in 1..(2 * Len(c) + 1) :
                 \/ i \in 1..Len(c) /\ Then(c)[i] = Enters(c[i])
                 \/ i = Len(c) + 1 /\ Then(c)[i] = Handler
                 \/ /\ i \in (Len(c) + 2)..(2 * Len(c) + 1)
                    /\ Then(c)[i] = Leaves(c[2 * Len(c) + 2 - i])
<1> DEFINE n == Len(c)
<1>1. n \in Nat /\ 2 * n + 1 \in Nat
  OBVIOUS
<1>2. \A i \in 1..(2 * n + 1) : Then(c)[i] = CASE i <= n -> Enters(c[i])
                                              [] i = n + 1 -> Handler
                                              [] OTHER -> Leaves(c[2 * n + 2 - i])
  BY DEF Then
<1>3. Len(Then(c)) = 2 * n + 1
  BY <1>1 DEF Then
<1>4. ASSUME NEW i \in 1..(2 * n + 1)
      PROVE  \/ i \in 1..n /\ Then(c)[i] = Enters(c[i])
             \/ i = n + 1 /\ Then(c)[i] = Handler
             \/ i \in (n + 2)..(2 * n + 1) /\ Then(c)[i] = Leaves(c[2 * n + 2 - i])
  <2>1. CASE i <= n
    BY <1>1, <1>2, <2>1
  <2>2. CASE i = n + 1
    BY <1>1, <1>2, <2>2
  <2>3. CASE i > n + 1
    BY <1>1, <1>2, <2>3
  <2> QED
    BY <1>1, <2>1, <2>2, <2>3
<1> QED
  BY <1>1, <1>3, <1>4

\* The three kinds of steps are told apart by what they are, and two by whom they concern.
LEMMA Distinct ==
    /\ \A k, m : Enters(k) # Leaves(m) /\ Enters(k) # Handler /\ Leaves(k) # Handler
    /\ \A k, m : (Enters(k) = Enters(m) \/ Leaves(k) = Leaves(m)) => k = m
    /\ \A k : Enters(k).op = "enter" /\ Enters(k).mw = k
    /\ \A k : Leaves(k).op = "leave" /\ Leaves(k).mw = k
    /\ Handler.op = "handler"
BY DEF Enters, Leaves, Handler

\* Inside, in terms of the place of the middleware in the chain.
LEMMA InsideIsBetween ==
    ASSUME NEW c \in Seq(Kinds), NoTwice(c), NEW p \in 0..(2 * Len(c) + 2), NEW k
    PROVE  /\ \E i \in 1..(p - 1) : Then(c)[i] = Enters(k)
           /\ \A i \in 1..(p - 1) : Then(c)[i] # Leaves(k)
           <=> Between(c, p, k)
<1> DEFINE n == Len(c)
           P == Then(c)
<1>1. /\ n \in Nat
      /\ \A i \in 1..(2 * n + 1) :
            \/ i \in 1..n /\ P[i] = Enters(c[i])
            \/ i = n + 1 /\ P[i] = Handler
            \/ i \in (n + 2)..(2 * n + 1) /\ P[i] = Leaves(c[2 * n + 2 - i])
  BY ThenShape
<1>0. p \in 0..(2 * n + 2)
  OBVIOUS
<1> HIDE DEF n, P
<1>2. 1..(p - 1) \subseteq 1..(2 * n + 1)
  BY <1>0, <1>1
<1>3. ASSUME \E i \in 1..(p - 1) : P[i] = Enters(k), \A i \in 1..(p - 1) : P[i] # Leaves(k)
      PROVE  \E q \in 1..n : c[q] = k /\ q < p /\ p <= 2 * n + 2 - q
  <2>1. PICK q \in 1..(p - 1) : P[q] = Enters(k)
    BY <1>3
  <2>2. q \in 1..n /\ c[q] = k
    BY <1>1, <1>2, <2>1, Distinct
  <2>3. ASSUME p > 2 * n + 2 - q PROVE FALSE
    <3>1. 2 * n + 2 - q \in 1..(p - 1) /\ 2 * n + 2 - q \in 1..(2 * n + 1)
          /\ 2 * n + 2 - q \notin 1..n /\ 2 * n + 2 - q # n + 1
          /\ 2 * n + 2 - (2 * n + 2 - q) = q
      BY <1>0, <1>1, <2>2, <2>3
    <3>2. P[2 * n + 2 - q] = Leaves(c[q])
      BY <1>1, <3>1
    <3> QED
      BY <1>3, <2>2, <3>1, <3>2
  <2> QED
    BY <1>0, <1>1, <2>2, <2>3
<1>4. ASSUME NEW q \in 1..n, c[q] = k, q < p, p <= 2 * n + 2 - q
      PROVE  (\E i \in 1..(p - 1) : P[i] = Enters(k)) /\ (\A i \in 1..(p - 1) : P[i] # Leaves(k))
  <2>1. q \in 1..(p - 1) /\ q \in 1..(2 * n + 1) /\ q # n + 1 /\ q \notin (n + 2)..(2 * n + 1)
    BY <1>0, <1>1, <1>4
  <2>2. P[q] = Enters(k)
    BY <1>1, <1>4, <2>1
  <2>3. ASSUME NEW i \in 1..(p - 1), P[i] = Leaves(k) PROVE FALSE
    <3>1. i \in (n + 2)..(2 * n + 1) /\ c[2 * n + 2 - i] = k
      BY <1>1, <1>2, <2>3, Distinct
    <3>2. 2 * n + 2 - i \in 1..n
      BY <1>1, <3>1
    <3>3. 2 * n + 2 - i = q
      BY <1>4, <3>1, <3>2 DEF NoTwice, n
    <3> QED
      BY <1>0, <1>1, <1>4, <3>1, <3>3
  <2> QED
    BY <2>1, <2>2, <2>3
<1> QED
  BY <1>3, <1>4 DEF Between, n, P

\* What one step of the program does to it.
LEMMA BetweenStep ==
    ASSUME NEW c \in Seq(Kinds), NoTwice(c), NEW p \in 1..(2 * Len(c) + 1), NEW k
    PROVE  /\ Then(c)[p] = Enters(k) => ~Between(c, p, k) /\ Between(c, p + 1, k)
           /\ Then(c)[p] = Leaves(k) => Between(c, p, k) /\ ~Between(c, p + 1, k)
           /\ Then(c)[p] \notin {Enters(k), Leaves(k)} => (Between(c, p + 1, k) <=> Between(c, p, k))
<1> DEFINE n == Len(c)
           P == Then(c)
<1>1. /\ n \in Nat
      /\ \A i \in 1..(2 * n + 1) :
            \/ i \in 1..n /\ P[i] = Enters(c[i])
            \/ i = n + 1 /\ P[i] = Handler
            \/ i \in (n + 2)..(2 * n + 1) /\ P[i] = Leaves(c[2 * n + 2 - i])
  BY ThenShape
<1>0. p \in 1..(2 * n + 1)
  OBVIOUS
<1>2. \A x : Between(c, x, k) <=> \E q \in 1..n : c[q] = k /\ q < x /\ x <= 2 * n + 2 - q
  BY DEF Between
<1>n. \A q, r \in 1..n : c[q] = c[r] => q = r
  BY DEF NoTwice
<1> HIDE DEF n, P
<1>3. ASSUME P[p] = Enters(k) PROVE ~Between(c, p, k) /\ Between(c, p + 1, k)
  <2>1. p \in 1..n /\ c[p] = k
    BY <1>0, <1>1, <1>3, Distinct
  <2>2. \A q \in 1..n : c[q] = k => q = p
    BY <1>n, <2>1
  <2>3. p < p + 1 /\ p + 1 <= 2 * n + 2 - p /\ ~(p < p)
    BY <1>1, <2>1
  <2> QED
    BY <1>2, <2>1, <2>2, <2>3
<1>4. ASSUME P[p] = Leaves(k) PROVE Between(c, p, k) /\ ~Between(c, p + 1, k)
  <2> DEFINE q == 2 * n + 2 - p
  <2>1. q \in 1..n /\ c[q] = k
    <3>1. p \in (n + 2)..(2 * n + 1) /\ Leaves(c[q]) = Leaves(k)
      BY <1>0, <1>1, <1>4, Distinct
    <3> QED
      BY <1>1, <3>1, Distinct
  <2>2. q < p /\ p <= 2 * n + 2 - q /\ ~(p + 1 <= 2 * n + 2 - q)
    BY <1>0, <1>1, <2>1
  <2>3. \A r \in 1..n : c[r] = k => r = q
    BY <1>n, <2>1
  <2> QED
    BY <1>2, <2>1, <2>2, <2>3
<1>5. ASSUME P[p] \notin {Enters(k), Leaves(k)} PROVE Between(c, p + 1, k) <=> Between(c, p, k)
  <2>1. ASSUME NEW q \in 1..n, c[q] = k PROVE q # p /\ p # 2 * n + 2 - q
    <3>1. q # p
      <4>1. q = p => p \in 1..n /\ p # n + 1 /\ p \notin (n + 2)..(2 * n + 1)
        BY <1>1
      <4> QED
        BY <1>0, <1>1, <1>5, <2>1, <4>1
    <3>2. ASSUME p = 2 * n + 2 - q PROVE FALSE
      <4>1. p \notin 1..n /\ p # n + 1 /\ 2 * n + 2 - p = q
        BY <1>0, <1>1, <3>2
      <4> QED
        BY <1>0, <1>1, <1>5, <2>1, <4>1
    <3> QED
      BY <3>1, <3>2
  <2>2. \A q \in 1..n : c[q] = k => (q < p + 1 <=> q < p) /\ (p + 1 <= 2 * n + 2 - q <=> p <= 2 * n + 2 - q)
    BY <1>0, <1>1, <2>1
  <2> QED
    BY <1>2, <2>2
<1> QED
  BY <1>3, <1>4, <1>5 DEF P

\* Before the program begins, and at its first step, an execution is inside nothing.
LEMMA OutsideAtFirst ==
    ASSUME NEW c \in Seq(Kinds), NEW k
    PROVE  ~Between(c, 0, k) /\ ~Between(c, 1, k)
BY DEF Between

-----------------------------------------------------------------------------
(* The operations on the chain (middleware.go, Add to Remove).              *)

LEMMA RemoveKeeps ==
    ASSUME NEW c \in Seq(Kinds), NoTwice(c), NEW i \in 1..Len(c)
    PROVE  RemoveAt(c, i) \in Seq(Kinds) /\ NoTwice(RemoveAt(c, i))
<1> DEFINE a == SubSeq(c, 1, i - 1)
           b == SubSeq(c, i + 1, Len(c))
           r == a \o b
<1>1. /\ a \in Seq(Kinds) /\ Len(a) = i - 1 /\ \A m \in 1..(i - 1) : a[m] = c[m]
      /\ b \in Seq(Kinds) /\ Len(b) = Len(c) - i /\ \A m \in 1..(Len(c) - i) : b[m] = c[i + m]
      /\ Len(c) \in Nat
  OBVIOUS
<1>2. /\ r \in Seq(Kinds) /\ Len(r) = Len(c) - 1
      /\ \A m \in 1..Len(r) : r[m] = IF m < i THEN c[m] ELSE c[m + 1]
  <2> HIDE DEF a, b
  <2>1. /\ r \in Seq(Kinds) /\ Len(r) = Len(a) + Len(b)
        /\ \A m \in 1..(Len(a) + Len(b)) : r[m] = IF m <= Len(a) THEN a[m] ELSE b[m - Len(a)]
    BY <1>1, ConcatProperties
  <2> HIDE DEF r
  <2>2. Len(r) = Len(c) - 1
    BY <1>1, <2>1
  <2>3. ASSUME NEW m \in 1..Len(r) PROVE r[m] = IF m < i THEN c[m] ELSE c[m + 1]
    <3>1. CASE m < i
      BY <1>1, <2>1, <2>2, <3>1
    <3>2. CASE ~(m < i)
      <4>1. m - (i - 1) \in 1..(Len(c) - i) /\ i + (m - (i - 1)) = m + 1
        BY <1>1, <2>2, <3>2
      <4> QED
        BY <1>1, <2>1, <2>2, <3>2, <4>1
    <3> QED
      BY <3>1, <3>2
  <2> QED
    BY <2>1, <2>2, <2>3
<1> HIDE DEF r
<1>3. NoTwice(r)
  <2> SUFFICES ASSUME NEW x \in 1..Len(r), NEW y \in 1..Len(r), r[x] = r[y] PROVE x = y
    BY DEF NoTwice
  <2> DEFINE X == IF x < i THEN x ELSE x + 1
             Y == IF y < i THEN y ELSE y + 1
  <2>1. X \in 1..Len(c) /\ Y \in 1..Len(c) /\ c[X] = c[Y]
    BY <1>1, <1>2
  <2>2. X = Y
    BY <2>1 DEF NoTwice
  <2> QED
    BY <1>1, <2>2
<1> QED
  BY <1>2, <1>3 DEF RemoveAt, r

LEMMA InsertKeeps ==
    ASSUME NEW c \in Seq(Kinds), NoTwice(c), NEW i \in 1..(Len(c) + 1), NEW k \in Kinds,
           \A m \in 1..Len(c) : c[m] # k
    PROVE  InsertAt(c, i, k) \in Seq(Kinds) /\ NoTwice(InsertAt(c, i, k))
<1> DEFINE a == SubSeq(c, 1, i - 1)
           b == SubSeq(c, i, Len(c))
           r == a \o <<k>> \o b
<1>1. /\ a \in Seq(Kinds) /\ Len(a) = i - 1 /\ \A m \in 1..(i - 1) : a[m] = c[m]
      /\ b \in Seq(Kinds) /\ Len(b) = Len(c) + 1 - i
      /\ \A m \in 1..(Len(c) + 1 - i) : b[m] = c[i + m - 1]
      /\ Len(c) \in Nat
  OBVIOUS
<1>2. /\ r \in Seq(Kinds) /\ Len(r) = Len(c) + 1
      /\ \A m \in 1..Len(r) : r[m] = IF m < i THEN c[m] ELSE IF m = i THEN k ELSE c[m - 1]
  <2> HIDE DEF a, b
  <2> DEFINE o == <<k>>
             d == a \o o
  <2>0. o \in Seq(Kinds) /\ Len(o) = 1 /\ o[1] = k
    OBVIOUS
  <2>1. /\ d \in Seq(Kinds) /\ Len(d) = Len(a) + 1
        /\ \A m \in 1..(Len(a) + 1) : d[m] = IF m <= Len(a) THEN a[m] ELSE o[m - Len(a)]
    <3> HIDE DEF o
    <3>1. /\ a \o o \in Seq(Kinds) /\ Len(a \o o) = Len(a) + Len(o)
          /\ \A m \in 1..(Len(a) + Len(o)) :
                (a \o o)[m] = IF m <= Len(a) THEN a[m] ELSE o[m - Len(a)]
      BY <1>1, <2>0, ConcatProperties
    <3> QED
      BY <2>0, <3>1
  <2>2. Len(d) = i /\ d[i] = k /\ \A m \in 1..(i - 1) : d[m] = c[m]
    <3> HIDE DEF d, o
    <3>1. Len(a) = i - 1 /\ i - Len(a) = 1 /\ i \in 1..(Len(a) + 1)
      BY <1>1
    <3>2. Len(d) = i
      BY <2>1, <3>1
    <3>3. d[i] = o[1]
      BY <2>1, <3>1
    <3>4. ASSUME NEW m \in 1..(i - 1) PROVE d[m] = c[m]
      <4>1. m \in 1..(Len(a) + 1) /\ m <= Len(a)
        BY <3>1
      <4>2. d[m] = a[m]
        BY <2>1, <4>1
      <4>3. a[m] = c[m]
        BY <1>1
      <4> QED
        BY <4>2, <4>3
    <3> QED
      BY <2>0, <3>2, <3>3, <3>4
  <2>3. /\ r \in Seq(Kinds) /\ Len(r) = Len(d) + Len(b)
        /\ \A m \in 1..(Len(d) + Len(b)) : r[m] = IF m <= Len(d) THEN d[m] ELSE b[m - Len(d)]
    <3>1. r = d \o b
      OBVIOUS
    <3> HIDE DEF r, d, o
    <3> QED
      BY <1>1, <2>1, <3>1, ConcatProperties
  <2> HIDE DEF r, d, o
  <2>4. Len(r) = Len(c) + 1
    BY <1>1, <2>2, <2>3
  <2>5. ASSUME NEW m \in 1..Len(r) PROVE r[m] = IF m < i THEN c[m] ELSE IF m = i THEN k ELSE c[m - 1]
    <3>1. CASE m <= i
      BY <1>1, <2>2, <2>3, <2>4, <3>1
    <3>2. CASE m > i
      <4>1. m - i \in 1..(Len(c) + 1 - i) /\ i + (m - i) - 1 = m - 1
        BY <1>1, <2>4, <3>2
      <4>2. r[m] = b[m - i]
        BY <1>1, <2>2, <2>3, <3>2
      <4>3. b[m - i] = c[i + (m - i) - 1]
        BY <1>1, <4>1
      <4> QED
        BY <3>2, <4>1, <4>2, <4>3
    <3> QED
      BY <3>1, <3>2
  <2> QED
    BY <2>3, <2>4, <2>5
<1> HIDE DEF r
<1>3. NoTwice(r)
  <2> SUFFICES ASSUME NEW x \in 1..Len(r), NEW y \in 1..Len(r), r[x] = r[y] PROVE x = y
    BY DEF NoTwice
  <2> DEFINE X == IF x < i THEN x ELSE x - 1
             Y == IF y < i THEN y ELSE y - 1
  <2>1. (x # i => X \in 1..Len(c) /\ r[x] = c[X]) /\ (y # i => Y \in 1..Len(c) /\ r[y] = c[Y])
    BY <1>1, <1>2
  <2>2. (x = i => r[x] = k) /\ (y = i => r[y] = k)
    BY <1>2
  <2>3. CASE x = i \/ y = i
    BY <2>1, <2>2, <2>3
  <2>4. CASE x # i /\ y # i
    <3>1. X = Y
      BY <2>1, <2>4 DEF NoTwice
    <3> QED
      BY <1>1, <2>4, <3>1
  <2> QED
    BY <2>3, <2>4
<1> QED
  BY <1>2, <1>3 DEF InsertAt, r

LEMMA EditsKeep ==
    ASSUME chain \in Seq(Kinds), NoTwice(chain), NEW k \in Kinds, NEW c \in Edits(k)
    PROVE  c \in Seq(Kinds) /\ NoTwice(c)
<1>0. /\ Len(chain) \in Nat /\ DOMAIN chain = 1..Len(chain)
      /\ \A x : x \in Range(chain) <=> \E i \in 1..Len(chain) : chain[i] = x
  BY DEF Range
<1>1. \A x \in Range(chain) : Position(x) \in 1..Len(chain)
  BY <1>0 DEF Position
<1>2. CASE k \in Range(chain)
  BY <1>1, <1>2, RemoveKeeps DEF Edits
<1>3. CASE k \notin Range(chain)
  <2>0. \A m \in 1..Len(chain) : chain[m] # k
    BY <1>0, <1>3
  <2>1. CASE c = Append(chain, k)
    BY <1>0, <2>0, <2>1 DEF NoTwice
  <2>2. CASE c = <<k>> \o chain
    <3>1. c \in Seq(Kinds) /\ Len(c) = Len(chain) + 1 /\ c[1] = k
          /\ \A m \in 1..Len(c) : m # 1 => c[m] = chain[m - 1] /\ m - 1 \in 1..Len(chain)
      BY <1>0, <2>2
    <3> QED
      BY <1>0, <2>0, <3>1 DEF NoTwice
  <2>3. ASSUME NEW x \in Range(chain),
               c = InsertAt(chain, Position(x), k) \/ c = InsertAt(chain, Position(x) + 1, k)
        PROVE  c \in Seq(Kinds) /\ NoTwice(c)
    <3>1. Position(x) \in 1..(Len(chain) + 1) /\ Position(x) + 1 \in 1..(Len(chain) + 1)
      BY <1>0, <1>1
    <3> QED
      BY <2>0, <2>3, <3>1, InsertKeeps
  <2> QED
    BY <1>3, <2>1, <2>2, <2>3 DEF Edits
<1> QED
  BY <1>2, <1>3

-----------------------------------------------------------------------------
(* The invariant.                                                           *)

\* Nothing runs before the worker serves; an execution has a job once it has begun, and
\* its handler has done nothing before the chain is entered.
PlaceInv ==
    /\ NoTwice(chain)
    /\ \A e \in Executions :
          /\ ip[e] <= 2 * Len(chain) + 2
          /\ ~serving => ip[e] = 0
          /\ (ip[e] = 0) <=> (job[e] = None)
          /\ ip[e] <= Len(chain) => pc[e] = "find" /\ result[e] = "none"

IInv == TypeOK /\ PlaceInv

\* The steps of job j before step n are in work.
Done(work, j, n) == \A i \in Steps : i < n => <<j, i>> \in work

\* A checkpoint is taken of a processed step, and the loop never gets ahead of the work.
WorkInv ==
    /\ \A j \in Jobs : ckpt[j] # None => Done(processed, j, ckpt[j] + 1)
    /\ \A e \in Executions : ip[e] # 0 =>
          /\ pc[e] = "process" => Done(processed, job[e], step[e])
          /\ pc[e] = "save" => Done(processed, job[e], step[e] + 1)
          /\ pc[e] = "clear" \/ result[e] = "nil" => Done(processed, job[e], LastStep + 1)

\* Executions under way.
Active(e) == ip[e] \in 1..(2 * Len(chain) + 1)

\* Who runs at the same time has met.
MetInv == \A e, f \in Executions : Active(e) /\ Active(f) /\ e # f => e \in met[f]

\* Who is in the trace has left the handler, and a handler that is to be recorded has
\* returned.
TraceInv ==
    /\ TraceTellsResults
    /\ \A i \in 1..Len(entries) : ip[entries[i].of] > Len(chain) + 1
    /\ \A e \in Executions :
          pc[e] = "record" /\ ip[e] = Len(chain) + 1 => result[e] \in {"nil", "error"}

\* A panic begins in the handler and does not get past Recovery.
PanicInv ==
    \A e \in Executions : result[e] = "panic" =>
        /\ ip[e] > Len(chain) + 1
        /\ \A q \in 1..Len(chain) : chain[q] = "recovery" => ip[e] <= 2 * Len(chain) + 2 - q

\* The executions inside the observer.
Observed == {e \in Executions : Inside(e, "observer")}

ReportInv ==
    /\ EveryStartIsReported
    /\ IsFiniteSet(Observed)
    /\ ~serving => jobStarted = 0 /\ jobEnded = 0

-----------------------------------------------------------------------------
(* Where an execution is.                                                   *)

LEMMA WhereAt ==
    ASSUME TypeOK, NEW e \in Executions
    PROVE  /\ Len(chain) \in Nat /\ ip[e] \in Nat
           /\ Running(e) <=> Active(e)
           /\ Running(e) /\ At(e).op = "enter" =>
                 ip[e] \in 1..Len(chain) /\ At(e) = Enters(chain[ip[e]])
           /\ Running(e) /\ At(e).op = "leave" =>
                 /\ ip[e] \in (Len(chain) + 2)..(2 * Len(chain) + 1)
                 /\ At(e) = Leaves(chain[2 * Len(chain) + 2 - ip[e]])
           /\ Running(e) /\ At(e) = Handler => ip[e] = Len(chain) + 1
<1>1. chain \in Seq(Kinds) /\ ip[e] \in Nat
  BY DEF TypeOK
<1>2. /\ Len(chain) \in Nat /\ Len(Program) = 2 * Len(chain) + 1
      /\ \A i \in 1..(2 * Len(chain) + 1) :
            \/ i \in 1..Len(chain) /\ Program[i] = Enters(chain[i])
            \/ i = Len(chain) + 1 /\ Program[i] = Handler
            \/ /\ i \in (Len(chain) + 2)..(2 * Len(chain) + 1)
               /\ Program[i] = Leaves(chain[2 * Len(chain) + 2 - i])
  BY <1>1, ThenShape DEF Program
<1>3. Running(e) <=> Active(e)
  BY <1>2 DEF Running, Active
<1> QED
  BY <1>1, <1>2, <1>3, Distinct DEF Running, At

\* An execution moves alone, by at most one place.
StepOf(e) ==
    /\ Active(e)
    /\ UNCHANGED <<chain, serving, job, met>>
    /\ ip'[e] \in {ip[e], ip[e] + 1}
    /\ ip[e] <= Len(chain) => pc'[e] = pc[e] /\ result'[e] = result[e]
    /\ \A f \in Executions \ {e} :
          ip'[f] = ip[f] /\ pc'[f] = pc[f] /\ result'[f] = result[f] /\ step'[f] = step[f]

LEMMA StepsAreOfOne ==
    ASSUME TypeOK, NEW e \in Executions, Enter(e) \/ HandlerStep(e) \/ Leave(e)
    PROVE  StepOf(e)
<1>1. Active(e)
  BY WhereAt DEF Enter, HandlerStep, Leave, In, FromContext, Restore, Process, Save, Clear,
                 Fails, Panics, RecordCall
<1>w. Len(chain) \in Nat /\ ip[e] \in Nat
  BY WhereAt
<1>2. CASE Enter(e)
  BY <1>1, <1>2 DEF TypeOK, StepOf, Enter, Advance, setupVars, handlerVars
<1>6. CASE Leave(e)
  <2>1. ~(ip[e] <= Len(chain))
    BY <1>6, WhereAt DEF Leave
  <2> QED
    BY <1>1, <1>6, <2>1 DEF TypeOK, StepOf, Leave, Advance, setupVars, handlerVars
<1>h. HandlerStep(e) => ~(ip[e] <= Len(chain))
  BY <1>w, WhereAt DEF HandlerStep, In, FromContext, Restore, Process, Save, Clear,
                 Fails, Panics, RecordCall
<1>3. CASE FromContext(e) \/ Restore(e) \/ Process(e) \/ Save(e)
  <2>1. ~(ip[e] <= Len(chain))
    BY <1>h, <1>3 DEF HandlerStep
  <2> QED
    BY <1>1, <1>3, <2>1 DEF TypeOK, StepOf, FromContext, Restore, Process, Save, Go, setupVars
<1>4. CASE Clear(e) \/ Fails(e) \/ Panics(e)
  <2>1. ~(ip[e] <= Len(chain))
    BY <1>h, <1>4 DEF HandlerStep
  <2> QED
    BY <1>1, <1>4, <2>1 DEF TypeOK, StepOf, Clear, Fails, Panics, Returns, Go, Advance, setupVars, handlerVars
<1>5. CASE RecordCall(e)
  <2>1. ~(ip[e] <= Len(chain))
    BY <1>h, <1>5 DEF HandlerStep
  <2> QED
    BY <1>1, <1>5, <2>1 DEF TypeOK, StepOf, RecordCall, Go, Advance, setupVars, handlerVars
<1> QED
  BY <1>2, <1>3, <1>4, <1>5, <1>6 DEF HandlerStep

\* The job of an execution that runs.
LEMMA HasJob ==
    ASSUME IInv, NEW e \in Executions, Active(e)
    PROVE  job[e] \in Jobs /\ ip[e] \in Nat /\ ip[e] # 0
<1>1. ip[e] \in Nat /\ ip[e] # 0 /\ job[e] \in Jobs \cup {None}
  BY WhereAt DEF IInv, TypeOK, Active
<1> QED
  BY <1>1 DEF IInv, PlaceInv

-----------------------------------------------------------------------------
(* Types and places.                                                        *)

LEMMA IInvInit == Init => IInv
<1> SUFFICES ASSUME Init PROVE IInv
  OBVIOUS
<1>1. 0 \in Steps
  BY MiddlewareAssumption DEF Steps
<1>s. serving \in BOOLEAN
  BY DEF Init
<1>2. TypeOK
  BY <1>1, <1>s DEF Init, TypeOK, HandlerPC
<1>3. PlaceInv
  BY DEF Init, PlaceInv, NoTwice
<1> QED
  BY <1>2, <1>3 DEF IInv

LEMMA TypeOKStep ==
    ASSUME IInv, NEW e \in Executions, Enter(e) \/ HandlerStep(e) \/ Leave(e)
    PROVE  TypeOK'
<1>1. job[e] \in Jobs /\ StepOf(e) /\ ip[e] \in Nat /\ TypeOK
  BY HasJob, StepsAreOfOne DEF IInv, StepOf
<1>0. LastStep \in Nat /\ 0 \in Steps
  BY MiddlewareAssumption DEF Steps
<1>2. CASE Enter(e) \/ Leave(e)
  <2>1. /\ registry' \subseteq Jobs /\ jobStarted' \in Nat /\ jobEnded' \in Nat
        /\ ip' \in [Executions -> Nat]
        /\ result' \in [Executions -> {"none", "nil", "error", "panic"}]
    <3>1. CASE Enter(e)
      BY <1>1, <3>1 DEF TypeOK, Enter, Advance
    <3>2. CASE Leave(e)
      <4>1. Recovered(At(e).mw, result[e]) \in {"none", "nil", "error", "panic"}
        BY <1>1 DEF TypeOK, Recovered
      <4> QED
        BY <1>1, <3>2, <4>1 DEF TypeOK, Leave, Advance
    <3> QED
      BY <1>2, <3>1, <3>2
  <2>2. UNCHANGED <<setupVars, job, handlerVars, ckpt, entries, cleared, met, processed>>
    BY <1>2 DEF Enter, Leave
  <2> QED
    BY <1>1, <2>1, <2>2 DEF TypeOK, setupVars, handlerVars
<1>3. CASE FromContext(e) \/ Process(e)
  <2>1. /\ pc' \in [Executions -> HandlerPC]
        /\ dc' \in [Executions -> {"store", "noop"}]
        /\ processed' \subseteq Jobs \X Steps
    <3>1. CASE FromContext(e)
      BY <1>1, <3>1 DEF TypeOK, FromContext, Go, HandlerPC
    <3>2. CASE Process(e)
      <4>1. step[e] \in Steps
        BY <1>1 DEF TypeOK
      <4>2. <<job[e], step[e]>> \in Jobs \X Steps
        BY <1>1, <4>1
      <4> QED
        BY <1>1, <3>2, <4>2 DEF TypeOK, Process, Go, HandlerPC
    <3> QED
      BY <1>3, <3>1, <3>2
  <2>2. UNCHANGED <<setupVars, job, ip, result, step, sharedVars, met>>
    BY <1>3 DEF FromContext, Process
  <2> QED
    BY <1>1, <2>1, <2>2 DEF TypeOK, setupVars, sharedVars
<1>4. CASE Restore(e)
  <2>1. /\ pc' \in [Executions -> HandlerPC] /\ step' \in [Executions -> Steps]
    BY <1>0, <1>1, <1>4 DEF TypeOK, Restore, Go, HandlerPC
  <2>2. UNCHANGED <<setupVars, job, ip, result, dc, sharedVars, met, processed>>
    BY <1>4 DEF Restore
  <2> QED
    BY <1>1, <2>1, <2>2 DEF TypeOK, setupVars, sharedVars
<1>5. CASE Save(e) \/ Clear(e)
  <2>1. step[e] \in Steps /\ (step[e] < LastStep => step[e] + 1 \in Steps)
    BY <1>0, <1>1 DEF TypeOK, Steps
  <2>2. /\ pc' \in [Executions -> HandlerPC] /\ step' \in [Executions -> Steps]
        /\ ckpt' \in [Jobs -> Steps \cup {None}]
        /\ result' \in [Executions -> {"none", "nil", "error", "panic"}]
    <3>1. CASE Save(e)
      BY <1>1, <2>1, <3>1 DEF TypeOK, Save, Go, HandlerPC
    <3>2. CASE Clear(e)
      BY <1>1, <3>2 DEF TypeOK, Clear, Returns, Go, HandlerPC
    <3> QED
      BY <1>5, <3>1, <3>2
  <2>3. UNCHANGED <<setupVars, job, ip, dc, registry, jobStarted, jobEnded, entries, cleared, met, processed>>
    BY <1>5 DEF Save, Clear
  <2> QED
    BY <1>1, <2>2, <2>3 DEF TypeOK, setupVars
<1>6. CASE Fails(e) \/ Panics(e)
  <2>1. /\ pc' \in [Executions -> HandlerPC] /\ ip' \in [Executions -> Nat]
        /\ result' \in [Executions -> {"none", "nil", "error", "panic"}]
    <3>1. CASE Fails(e)
      BY <1>1, <3>1 DEF TypeOK, Fails, Returns, Go, HandlerPC
    <3>2. CASE Panics(e)
      BY <1>1, <3>2 DEF TypeOK, Panics, Advance, handlerVars
    <3> QED
      BY <1>6, <3>1, <3>2
  <2>2. UNCHANGED <<setupVars, job, dc, step, sharedVars, met, processed>>
    BY <1>6 DEF Fails, Panics, handlerVars
  <2> QED
    BY <1>1, <2>1, <2>2 DEF TypeOK, setupVars, sharedVars
<1>7. CASE RecordCall(e)
  <2> DEFINE Entry == [of : Executions, error : BOOLEAN]
  <2>1. entries \in Seq(Entry)
    BY <1>1 DEF TypeOK
  <2>2. entries' \in Seq(Entry)
    <3>1. [of |-> e, error |-> result[e] = "error"] \in Entry
      OBVIOUS
    <3> QED
      BY <1>7, <2>1, <3>1 DEF RecordCall
  <2>3. ip' \in [Executions -> Nat]
    BY <1>1, <1>7 DEF TypeOK, RecordCall, Advance
  <2>4. UNCHANGED <<setupVars, job, result, handlerVars, registry, ckpt, jobStarted, jobEnded, cleared, met, processed>>
    BY <1>7 DEF RecordCall
  <2> QED
    BY <1>1, <2>2, <2>3, <2>4 DEF TypeOK, setupVars, handlerVars
<1> QED
  BY <1>2, <1>3, <1>4, <1>5, <1>6, <1>7 DEF HandlerStep

LEMMA PlaceStep ==
    ASSUME IInv, NEW e \in Executions, Enter(e) \/ HandlerStep(e) \/ Leave(e)
    PROVE  PlaceInv'
<1>1. StepOf(e) /\ Len(chain) \in Nat /\ ip[e] \in 1..(2 * Len(chain) + 1)
  BY StepsAreOfOne, WhereAt DEF IInv, StepOf, Active
<1>2. ip'[e] # 0 /\ ip'[e] <= 2 * Len(chain) + 2 /\ ip[e] # 0
  BY <1>1 DEF StepOf
<1> QED
  BY <1>1, <1>2 DEF IInv, PlaceInv, StepOf

LEMMA UseInv ==
    ASSUME IInv, NEW k \in Kinds, Use(k)
    PROVE  IInv'
<1>1. chain' \in Seq(Kinds) /\ NoTwice(chain')
  BY EditsKeep DEF IInv, TypeOK, PlaceInv, Use
<1>2. UNCHANGED <<serving, job, ip, result, handlerVars, sharedVars, met, processed>>
  BY DEF Use
<1>3. TypeOK'
  BY <1>1, <1>2 DEF IInv, TypeOK, handlerVars, sharedVars
<1>4. \A e \in Executions : ip'[e] = 0 /\ Len(chain') \in Nat
  BY <1>1, <1>2 DEF IInv, PlaceInv, Use
<1>5. PlaceInv'
  BY <1>1, <1>2, <1>4 DEF IInv, PlaceInv, handlerVars
<1> QED
  BY <1>3, <1>5 DEF IInv

LEMMA BeginInv ==
    ASSUME IInv, NEW e \in Executions, NEW j \in Jobs, Begin(e, j)
    PROVE  IInv'
<1>1. /\ job' = [job EXCEPT ![e] = j] /\ ip' = [ip EXCEPT ![e] = 1]
      /\ UNCHANGED <<setupVars, result, handlerVars, sharedVars, processed>>
  BY DEF Begin
<1>2. met' \in [Executions -> SUBSET Executions]
  BY DEF IInv, TypeOK, Begin
<1>3. TypeOK'
  BY <1>1, <1>2 DEF IInv, TypeOK, setupVars, handlerVars, sharedVars
<1>4. j # None /\ Len(chain) \in Nat
  BY MiddlewareAssumption DEF IInv, TypeOK
<1>5. PlaceInv'
  BY <1>1, <1>4 DEF IInv, TypeOK, PlaceInv, Begin, setupVars, handlerVars
<1> QED
  BY <1>3, <1>5 DEF IInv

\* Who is in the trace is an execution.
LEMMA TracedAre ==
    ASSUME TypeOK
    PROVE  /\ Traced \subseteq Executions
           /\ Len(entries) \in Nat
           /\ \A i \in 1..Len(entries) : entries[i].of \in Executions
<1> DEFINE Entry == [of : Executions, error : BOOLEAN]
<1>1. entries \in Seq(Entry)
  BY DEF TypeOK
<1>2. \A x \in Entry : x.of \in Executions
  OBVIOUS
<1> HIDE DEF Entry
<1>3. Len(entries) \in Nat /\ \A i \in 1..Len(entries) : entries[i] \in Entry
  BY <1>1
<1> QED
  BY <1>2, <1>3 DEF Traced

\* The steps that leave the executions alone.
LEMMA QuietInv ==
    ASSUME IInv, Serve \/ Reset \/ (\E j \in Jobs : Expire(j)) \/ UNCHANGED vars
    PROVE  IInv'
<1>1. /\ UNCHANGED <<chain, job, ip, result, handlerVars, registry, jobStarted, jobEnded, met, processed>>
      /\ serving' = serving \/ serving' = TRUE
  BY DEF Serve, Reset, Expire, vars, setupVars, sharedVars
<1>s. serving \in BOOLEAN
  BY DEF IInv, TypeOK
<1>t. serving' \in BOOLEAN /\ (~serving' => ~serving)
  <2>1. CASE serving' = serving
    BY <1>s, <2>1, Zenon
  <2>2. CASE serving' = TRUE
    BY <2>2
  <2> QED
    BY <1>1, <2>1, <2>2, Zenon
<1>2. entries' \in Seq([of : Executions, error : BOOLEAN])
  <2>1. entries' = entries \/ entries' = <<>>
    BY DEF Serve, Reset, Expire, vars, sharedVars
  <2>2. entries \in Seq([of : Executions, error : BOOLEAN])
    BY DEF IInv, TypeOK
  <2>3. CASE entries' = entries
    BY <2>2, <2>3, Zenon
  <2>4. CASE entries' = <<>>
    BY <2>4
  <2> QED
    BY <2>1, <2>3, <2>4, Zenon
<1>3. ckpt' \in [Jobs -> Steps \cup {None}]
  BY DEF IInv, TypeOK, Serve, Reset, Expire, vars, sharedVars
<1>c. cleared' \subseteq Executions
  <2>1. cleared \subseteq Executions /\ Traced \subseteq Executions
    BY TracedAre DEF IInv, TypeOK
  <2>2. cleared' = cleared \/ cleared' = cleared \cup Traced
    BY DEF Serve, Reset, Expire, vars, sharedVars
  <2> QED
    BY <2>1, <2>2
<1>4. TypeOK'
  BY <1>1, <1>t, <1>2, <1>3, <1>c DEF IInv, TypeOK, handlerVars
<1>5. PlaceInv'
  BY <1>1, <1>t DEF IInv, PlaceInv, handlerVars
<1> QED
  BY <1>4, <1>5 DEF IInv

LEMMA IInvNext ==
    ASSUME IInv, [Next]_vars
    PROVE  IInv'
BY UseInv, BeginInv, QuietInv, TypeOKStep, PlaceStep DEF Next, IInv

\* Whoever has begun has a job and a place in the wrapped handler, and the chain has no
\* middleware twice, whatever its operations made of it.
THEOREM MiddlewareInvariant == Spec => []IInv
BY IInvInit, IInvNext, PTL DEF Spec

\* Registry, checkpoints and trace keep their types, and the step of the loop never
\* leaves the handler's steps (middleware/durable/durable.go, recorder/).
THEOREM MiddlewareTypes == Spec => []TypeOK
<1>1. IInv => TypeOK
  BY DEF IInv
<1> QED
  BY <1>1, MiddlewareInvariant, PTL

-----------------------------------------------------------------------------
(* Checkpoints.                                                             *)

LEMMA DoneGrows ==
    ASSUME NEW work, NEW more, work \subseteq more, NEW j, NEW n, Done(work, j, n)
    PROVE  Done(more, j, n)
BY DEF Done

LEMMA WorkInvInit == Init => WorkInv
BY DEF Init, WorkInv

\* A step of execution e that leaves checkpoints alone.
LEMMA WorkStable ==
    ASSUME IInv, WorkInv, NEW e \in Executions, StepOf(e),
           ckpt' = ckpt, processed \subseteq processed',
           pc'[e] = "process" => Done(processed', job[e], step'[e]),
           pc'[e] = "save" => Done(processed', job[e], step'[e] + 1),
           pc'[e] = "clear" \/ result'[e] = "nil" => Done(processed', job[e], LastStep + 1)
    PROVE  WorkInv'
<1>1. \A j \in Jobs : ckpt'[j] # None => Done(processed', j, ckpt'[j] + 1)
  BY DoneGrows DEF WorkInv
<1>2. ASSUME NEW f \in Executions, ip'[f] # 0
      PROVE  /\ pc'[f] = "process" => Done(processed', job'[f], step'[f])
             /\ pc'[f] = "save" => Done(processed', job'[f], step'[f] + 1)
             /\ pc'[f] = "clear" \/ result'[f] = "nil" => Done(processed', job'[f], LastStep + 1)
  <2>1. CASE f = e
    BY <2>1 DEF StepOf
  <2>2. CASE f # e
    BY <1>2, <2>2, DoneGrows DEF StepOf, WorkInv
  <2> QED
    BY <2>1, <2>2
<1> QED
  BY <1>1, <1>2 DEF WorkInv

LEMMA WorkStep ==
    ASSUME IInv, WorkInv, NEW e \in Executions, Enter(e) \/ HandlerStep(e) \/ Leave(e)
    PROVE  WorkInv'
<1>1. /\ StepOf(e) /\ TypeOK /\ job[e] \in Jobs /\ ip[e] # 0
  BY StepsAreOfOne, HasJob DEF IInv, StepOf
<1>2. /\ pc[e] = "process" => Done(processed, job[e], step[e])
      /\ pc[e] = "save" => Done(processed, job[e], step[e] + 1)
      /\ pc[e] = "clear" \/ result[e] = "nil" => Done(processed, job[e], LastStep + 1)
  BY <1>1 DEF WorkInv
<1>3. step[e] \in Nat /\ step[e] \in 0..LastStep /\ LastStep \in Nat
  BY <1>1, MiddlewareAssumption DEF TypeOK, Steps
<1>4. CASE Enter(e) \/ Leave(e)
  <2>1. /\ UNCHANGED <<handlerVars, ckpt, processed>>
        /\ result'[e] = "nil" => result[e] = "nil"
    BY <1>1, <1>4 DEF TypeOK, Enter, Leave, Recovered
  <2> QED
    BY <1>1, <1>2, <2>1, WorkStable DEF handlerVars
<1>5. CASE FromContext(e) \/ RecordCall(e)
  <2>1. /\ UNCHANGED <<ckpt, processed, result>>
        /\ pc'[e] = "restore" \/ (pc' = pc /\ step' = step)
    BY <1>1, <1>5 DEF TypeOK, FromContext, RecordCall, Go, sharedVars, handlerVars
  <2> QED
    BY <1>1, <1>2, <2>1, WorkStable
<1>6. CASE Fails(e) \/ Panics(e)
  <2>1. /\ UNCHANGED <<ckpt, processed, step>> /\ result'[e] \in {"error", "panic"}
        /\ pc'[e] = "record" \/ pc' = pc
    BY <1>1, <1>6 DEF TypeOK, Fails, Panics, Returns, Go, sharedVars, handlerVars
  <2> QED
    BY <1>1, <1>2, <2>1, WorkStable
<1>7. CASE Restore(e)
  <2>1. /\ UNCHANGED <<ckpt, processed, result>> /\ pc'[e] = "process"
        /\ step'[e] = 0 \/ (ckpt[job[e]] # None /\ step'[e] = ckpt[job[e]])
    BY <1>1, <1>7 DEF TypeOK, Restore, Go, sharedVars
  <2>2. Done(processed', job[e], step'[e])
    <3>1. CASE step'[e] = 0
      BY <1>3, <3>1 DEF Done, Steps
    <3>2. CASE ckpt[job[e]] # None /\ step'[e] = ckpt[job[e]]
      <4>1. Done(processed, job[e], ckpt[job[e]] + 1) /\ ckpt[job[e]] \in Nat
        BY <1>1, <1>3, <3>2 DEF WorkInv, TypeOK, Steps
      <4>2. \A i \in Steps : i < ckpt[job[e]] => i < ckpt[job[e]] + 1
        BY <4>1, <1>3 DEF Steps
      <4> QED
        BY <2>1, <3>2, <4>1, <4>2 DEF Done
    <3> QED
      BY <2>1, <3>1, <3>2
  <2> QED
    BY <1>1, <1>2, <2>1, <2>2, WorkStable
<1>8. CASE Process(e)
  <2>1. /\ UNCHANGED <<ckpt, step, result>> /\ pc'[e] = "save" /\ pc[e] = "process"
        /\ processed' = processed \cup {<<job[e], step[e]>>}
    BY <1>1, <1>8 DEF TypeOK, Process, In, Go, sharedVars
  <2>2. \A i \in Steps : i < step[e] + 1 => i < step[e] \/ i = step[e]
    BY <1>3 DEF Steps
  <2>3. Done(processed', job[e], step'[e] + 1)
    BY <1>2, <2>1, <2>2 DEF Done
  <2> QED
    BY <1>1, <1>2, <2>1, <2>3, WorkStable, DoneGrows
<1>9. CASE Save(e)
  <2>0. Done(processed, job[e], step[e] + 1)
    BY <1>2, <1>9 DEF Save, In
  <2>1. /\ UNCHANGED <<processed, result>>
        /\ ckpt' = ckpt \/ ckpt' = [ckpt EXCEPT ![job[e]] = step[e]]
        /\ \/ step[e] < LastStep /\ step'[e] = step[e] + 1 /\ pc'[e] = "process"
           \/ step[e] = LastStep /\ pc'[e] = "clear"
    BY <1>1, <1>3, <1>9 DEF TypeOK, Save, Go
  <2>2. ASSUME NEW j \in Jobs, ckpt'[j] # None PROVE Done(processed, j, ckpt'[j] + 1)
    BY <1>1, <2>0, <2>1, <2>2 DEF WorkInv, TypeOK
  <2>3. ASSUME NEW f \in Executions, ip'[f] # 0
        PROVE  /\ pc'[f] = "process" => Done(processed, job[f], step'[f])
               /\ pc'[f] = "save" => Done(processed, job[f], step'[f] + 1)
               /\ pc'[f] = "clear" \/ result'[f] = "nil" => Done(processed, job[f], LastStep + 1)
    <3>1. CASE f = e
      BY <1>2, <2>0, <2>1, <3>1
    <3>2. CASE f # e
      BY <1>1, <2>1, <2>3, <3>2 DEF StepOf, WorkInv
    <3> QED
      BY <3>1, <3>2
  <2>4. job' = job
    BY <1>1 DEF StepOf
  <2> QED
    BY <2>1, <2>2, <2>3, <2>4 DEF WorkInv
<1>10. CASE Clear(e)
  <2>0. Done(processed, job[e], LastStep + 1)
    BY <1>2, <1>10 DEF Clear, In
  <2>1. /\ UNCHANGED <<processed, step>> /\ result'[e] = "nil" /\ pc'[e] = "record"
        /\ ckpt' = ckpt \/ ckpt' = [ckpt EXCEPT ![job[e]] = None]
    BY <1>1, <1>10 DEF TypeOK, Clear, Returns, Go
  <2>2. ASSUME NEW j \in Jobs, ckpt'[j] # None PROVE Done(processed, j, ckpt'[j] + 1)
    BY <1>1, <2>1, <2>2 DEF WorkInv, TypeOK
  <2>3. ASSUME NEW f \in Executions, ip'[f] # 0
        PROVE  /\ pc'[f] = "process" => Done(processed, job[f], step'[f])
               /\ pc'[f] = "save" => Done(processed, job[f], step'[f] + 1)
               /\ pc'[f] = "clear" \/ result'[f] = "nil" => Done(processed, job[f], LastStep + 1)
    <3>1. CASE f = e
      BY <2>0, <2>1, <3>1
    <3>2. CASE f # e
      BY <1>1, <2>1, <2>3, <3>2 DEF StepOf, WorkInv
    <3> QED
      BY <3>1, <3>2
  <2>4. job' = job
    BY <1>1 DEF StepOf
  <2> QED
    BY <2>1, <2>2, <2>3, <2>4 DEF WorkInv
<1> QED
  BY <1>4, <1>5, <1>6, <1>7, <1>8, <1>9, <1>10 DEF HandlerStep

LEMMA WorkInvNext ==
    ASSUME IInv, WorkInv, [Next]_vars
    PROVE  WorkInv'
<1>1. ASSUME NEW e \in Executions, NEW j \in Jobs, Begin(e, j) PROVE WorkInv'
  <2>1. /\ UNCHANGED <<result, pc, step, ckpt, processed>>
        /\ pc[e] = "find" /\ result[e] = "none"
        /\ \A f \in Executions \ {e} : job'[f] = job[f] /\ ip'[f] = ip[f]
    BY <1>1 DEF IInv, TypeOK, PlaceInv, Begin, handlerVars, sharedVars
  <2> QED
    BY <2>1 DEF WorkInv
<1>2. CASE (\E k \in Kinds : Use(k)) \/ Serve \/ Reset \/ UNCHANGED vars
  <2>1. UNCHANGED <<job, ip, result, pc, step, ckpt, processed>>
    BY <1>2 DEF Use, Serve, Reset, vars, handlerVars, sharedVars
  <2> QED
    BY <2>1 DEF WorkInv
<1>3. ASSUME NEW j \in Jobs, Expire(j) PROVE WorkInv'
  <2>1. /\ UNCHANGED <<job, ip, result, pc, step, processed>>
        /\ \A i \in Jobs : ckpt'[i] = None \/ ckpt'[i] = ckpt[i]
    BY <1>3 DEF Expire, handlerVars, IInv, TypeOK
  <2> QED
    BY <2>1 DEF WorkInv
<1> QED
  BY <1>1, <1>2, <1>3, WorkStep DEF Next

\* A handler that returned nil leaves no step undone, whichever checkpoints of its own, of
\* earlier or of concurrent deliveries it restored, lost, overwrote or cleared
\* (middleware/durable/durable.go, Restore, Save and Clear).
THEOREM NothingIsLeftUndone == Spec => []NoStepIsSkipped
<1>1. IInv /\ WorkInv => NoStepIsSkipped
  <2> SUFFICES ASSUME IInv, WorkInv, NEW e \in Executions, result[e] = "nil", NEW k \in Steps
               PROVE  <<job[e], k>> \in processed
    BY DEF NoStepIsSkipped
  <2>1. ip[e] # 0
    BY DEF IInv, PlaceInv
  <2>2. Done(processed, job[e], LastStep + 1)
    BY <2>1 DEF WorkInv
  <2>3. k < LastStep + 1
    BY MiddlewareAssumption DEF Steps
  <2> QED
    BY <2>2, <2>3 DEF Done
<1> QED
  BY <1>1, MiddlewareInvariant, WorkInvInit, WorkInvNext, PTL DEF Spec

-----------------------------------------------------------------------------
(* Who runs at the same time.                                               *)

LEMMA MetInvNext ==
    ASSUME IInv, MetInv, [Next]_vars
    PROVE  MetInv'
<1>1. ASSUME NEW e \in Executions, Enter(e) \/ HandlerStep(e) \/ Leave(e) PROVE MetInv'
  <2>1. StepOf(e)
    BY <1>1, StepsAreOfOne DEF IInv
  <2>2. \A f \in Executions : Active(f)' => Active(f)
    BY <2>1 DEF StepOf, Active
  <2> QED
    BY <2>1, <2>2 DEF MetInv, StepOf
<1>2. ASSUME NEW e \in Executions, NEW j \in Jobs, Begin(e, j) PROVE MetInv'
  <2>1. /\ \A f \in Executions \ {e} : Active(f)' <=> Active(f)
        /\ \A f \in Executions : Running(f) <=> Active(f)
    BY <1>2, WhereAt DEF IInv, TypeOK, Begin, Active, setupVars
  <2>2. /\ met'[e] = {f \in Executions \ {e} : Active(f)}
        /\ \A f \in Executions \ {e} : /\ Active(f) => met'[f] = met[f] \cup {e}
                                       /\ ~Active(f) => met'[f] = met[f]
    BY <1>2, <2>1 DEF Begin
  <2> SUFFICES ASSUME NEW x \in Executions, NEW y \in Executions, Active(x)', Active(y)', x # y
               PROVE  x \in met'[y]
    BY DEF MetInv
  <2>3. CASE y = e
    BY <2>1, <2>2, <2>3
  <2>4. CASE x = e
    BY <2>1, <2>2, <2>4
  <2>5. CASE x # e /\ y # e
    <3>1. x \in met[y]
      BY <2>1, <2>5 DEF MetInv
    <3> QED
      BY <2>1, <2>2, <2>5, <3>1
  <2> QED
    BY <2>3, <2>4, <2>5
<1>3. ASSUME NEW k \in Kinds, Use(k) PROVE MetInv'
  <2>1. \A e \in Executions : ip'[e] = 0
    BY <1>3 DEF Use, IInv, PlaceInv
  <2> QED
    BY <2>1 DEF MetInv, Active
<1>4. CASE Serve \/ Reset \/ (\E j \in Jobs : Expire(j)) \/ UNCHANGED vars
  <2>1. UNCHANGED <<chain, ip, met>>
    BY <1>4 DEF Serve, Reset, Expire, vars, setupVars
  <2> QED
    BY <2>1 DEF MetInv, Active
<1> QED
  BY <1>1, <1>2, <1>3, <1>4 DEF Next

-----------------------------------------------------------------------------
(* The trace.                                                               *)

\* Who has left the handler goes on, with its result.
LEMMA TraceStable ==
    ASSUME IInv, TraceInv, UNCHANGED <<entries, cleared, chain>>,
           \A f \in Executions :
              /\ ip[f] > Len(chain) + 1 =>
                    /\ ip'[f] > Len(chain) + 1
                    /\ result[f] \in {"nil", "error"} => result'[f] = result[f]
              /\ pc'[f] = "record" /\ ip'[f] = Len(chain) + 1 => result'[f] \in {"nil", "error"}
              /\ result'[f] = "nil" /\ ip'[f] > Len(chain) + 1 =>
                    result[f] = "nil" /\ ip[f] > Len(chain) + 1
    PROVE  TraceInv'
<1>1. \A i \in 1..Len(entries) : entries[i].of \in Executions
  BY TracedAre DEF IInv
<1>2. \A i \in 1..Len(entries) :
         /\ ip[entries[i].of] > Len(chain) + 1
         /\ result[entries[i].of] = IF entries[i].error THEN "error" ELSE "nil"
  BY DEF TraceInv, TraceTellsResults
<1>3. \A i \in 1..Len(entries) :
         /\ ip'[entries[i].of] > Len(chain) + 1
         /\ result'[entries[i].of] = IF entries[i].error THEN "error" ELSE "nil"
  BY <1>1, <1>2
<1>4. /\ \A i, m \in 1..Len(entries) : entries[i].of = entries[m].of => i = m
      /\ Traced' = Traced
      /\ \A e \in Executions : result[e] = "nil" /\ ip[e] > Len(chain) + 1 => e \in Traced \cup cleared
  BY DEF TraceInv, TraceTellsResults, Traced
<1> QED
  BY <1>3, <1>4 DEF TraceInv, TraceTellsResults

LEMMA RecordTrace ==
    ASSUME IInv, TraceInv, NEW e \in Executions, RecordCall(e)
    PROVE  TraceInv'
<1>1. /\ StepOf(e) /\ ip[e] = Len(chain) + 1 /\ Len(chain) \in Nat
      /\ pc[e] = "record" /\ ip'[e] = ip[e] + 1 /\ ip[e] \in Nat
  BY StepsAreOfOne, WhereAt DEF IInv, TypeOK, HandlerStep, RecordCall, In, Advance
<1> DEFINE new == [of |-> e, error |-> result[e] = "error"]
           n == Len(entries)
<1>2. /\ entries' = Append(entries, new) /\ UNCHANGED <<chain, result, pc, cleared>>
      /\ \A f \in Executions \ {e} : ip'[f] = ip[f]
  BY <1>1 DEF RecordCall, StepOf, setupVars, handlerVars
<1>3. entries \in Seq([of : Executions, error : BOOLEAN]) /\ n \in Nat
  BY TracedAre DEF IInv, TypeOK
<1>4. /\ Len(entries') = n + 1 /\ entries'[n + 1] = new
      /\ \A i \in 1..n : entries'[i] = entries[i]
  BY <1>2, <1>3
<1>5. new.of = e /\ (new.error <=> result[e] = "error") /\ result[e] \in {"nil", "error"}
  BY <1>1 DEF TraceInv
<1> HIDE DEF new
<1>6. \A i \in 1..n : entries[i].of \in Executions \ {e} /\ ip[entries[i].of] > Len(chain) + 1
  BY <1>1, TracedAre DEF IInv, TraceInv
<1>7. \A i \in 1..Len(entries') : i \in 1..n \/ i = n + 1
  BY <1>3, <1>4
<1>8. \A i \in 1..Len(entries') :
         /\ ip'[entries'[i].of] > Len(chain) + 1
         /\ result[entries'[i].of] = IF entries'[i].error THEN "error" ELSE "nil"
  <2>1. \A i \in 1..n : result[entries[i].of] = IF entries[i].error THEN "error" ELSE "nil"
    BY DEF TraceInv, TraceTellsResults
  <2> QED
    BY <1>1, <1>2, <1>4, <1>5, <1>6, <1>7, <2>1
<1>9. \A i, m \in 1..Len(entries') : entries'[i].of = entries'[m].of => i = m
  <2>1. \A i, m \in 1..n : entries[i].of = entries[m].of => i = m
    BY DEF TraceInv, TraceTellsResults
  <2> QED
    BY <1>4, <1>5, <1>6, <1>7, <2>1
<1>10. Traced' = Traced \cup {e}
  <2>1. 1..Len(entries') = 1..n \cup {n + 1}
    BY <1>3, <1>4
  <2> QED
    BY <1>4, <1>5, <2>1 DEF Traced
<1>11. ASSUME NEW f \in Executions
       PROVE  /\ result'[f] = "nil" /\ ip'[f] > Len(chain') + 1 => f \in Traced' \cup cleared'
              /\ pc'[f] = "record" /\ ip'[f] = Len(chain') + 1 => result'[f] \in {"nil", "error"}
  <2>1. CASE f = e
    BY <1>1, <1>2, <1>10, <2>1
  <2>2. CASE f # e
    BY <1>2, <1>10, <2>2 DEF TraceInv, TraceTellsResults
  <2> QED
    BY <2>1, <2>2
<1> QED
  BY <1>2, <1>8, <1>9, <1>11 DEF TraceInv, TraceTellsResults

LEMMA TraceInvNext ==
    ASSUME IInv, TraceInv, [Next]_vars
    PROVE  TraceInv'
<1>n. Len(chain) \in Nat /\ \A e \in Executions : ip[e] \in Nat
  BY DEF IInv, TypeOK
<1>1. ASSUME NEW e \in Executions, Enter(e) PROVE TraceInv'
  <2>1. /\ StepOf(e) /\ ip[e] <= Len(chain) /\ UNCHANGED <<entries, cleared, chain, result, pc>>
    <3>0. StepOf(e)
      BY <1>1, StepsAreOfOne DEF IInv
    <3>1. ip[e] <= Len(chain)
      BY <1>1, WhereAt DEF IInv, Enter
    <3>2. UNCHANGED <<entries, cleared, chain, result, pc>>
      BY <1>1 DEF Enter, setupVars, handlerVars
    <3> QED
      BY <3>0, <3>1, <3>2
  <2>2. pc[e] = "find" /\ ip'[e] <= Len(chain) + 1
    BY <1>n, <2>1 DEF IInv, PlaceInv, StepOf
  <2> QED
    BY <1>n, <2>1, <2>2, TraceStable DEF TraceInv, StepOf
<1>2. ASSUME NEW e \in Executions, Leave(e) PROVE TraceInv'
  <2>1. /\ StepOf(e) /\ ip[e] > Len(chain) + 1 /\ UNCHANGED <<entries, cleared, chain, pc>>
        /\ ip'[e] = ip[e] + 1 /\ result'[e] = Recovered(At(e).mw, result[e])
    <3>0. StepOf(e)
      BY <1>2, StepsAreOfOne DEF IInv
    <3>1. ip[e] > Len(chain) + 1
      BY <1>n, <1>2, WhereAt DEF IInv, Leave
    <3>2. UNCHANGED <<entries, cleared, chain, pc>>
      BY <1>2 DEF Leave, setupVars, handlerVars
    <3>3. ip'[e] = ip[e] + 1 /\ result'[e] = Recovered(At(e).mw, result[e])
      BY <1>2 DEF IInv, TypeOK, Leave, Advance
    <3> QED
      BY <3>0, <3>1, <3>2, <3>3
  <2>2. /\ result[e] \in {"nil", "error"} => result'[e] = result[e]
        /\ result'[e] = "nil" => result[e] = "nil"
    BY <2>1 DEF Recovered
  <2> QED
    BY <1>n, <2>1, <2>2, TraceStable DEF TraceInv, StepOf
<1>3. ASSUME NEW e \in Executions, HandlerStep(e), ~RecordCall(e) PROVE TraceInv'
  <2>1. /\ StepOf(e) /\ ip[e] = Len(chain) + 1
    BY <1>3, StepsAreOfOne, WhereAt DEF IInv, HandlerStep, In, FromContext, Restore, Process,
                                        Save, Clear, Fails, Panics
  <2>2. UNCHANGED <<entries, cleared, chain>>
    BY <1>3 DEF HandlerStep, FromContext, Restore, Process, Save, Clear, Fails, Panics,
                sharedVars, setupVars
  <2>3. CASE FromContext(e) \/ Restore(e) \/ Process(e) \/ Save(e)
    <3>1. pc'[e] # "record" /\ ip' = ip
      BY <2>3 DEF IInv, TypeOK, FromContext, Restore, Process, Save, Go
    <3> QED
      BY <1>n, <2>1, <2>2, <3>1, TraceStable DEF TraceInv, StepOf
  <2>4. CASE Clear(e) \/ Fails(e)
    <3>1. result'[e] \in {"nil", "error"} /\ ip' = ip
      BY <2>4 DEF IInv, TypeOK, Clear, Fails, Returns
    <3> QED
      BY <1>n, <2>1, <2>2, <3>1, TraceStable DEF TraceInv, StepOf
  <2>5. CASE Panics(e)
    <3>1. result'[e] = "panic" /\ ip'[e] = ip[e] + 1
      BY <2>5 DEF IInv, TypeOK, Panics, Advance
    <3> QED
      BY <1>n, <2>1, <2>2, <3>1, TraceStable DEF TraceInv, StepOf
  <2> QED
    BY <1>3, <2>3, <2>4, <2>5 DEF HandlerStep
<1>4. ASSUME NEW e \in Executions, NEW j \in Jobs, Begin(e, j) PROVE TraceInv'
  <2>1. /\ UNCHANGED <<entries, cleared, chain, result, pc>>
        /\ ip[e] = 0 /\ ip'[e] = 1 /\ pc[e] = "find" /\ result[e] = "none"
        /\ \A f \in Executions \ {e} : ip'[f] = ip[f]
    BY <1>n, <1>4 DEF Begin, IInv, TypeOK, PlaceInv, setupVars, handlerVars, sharedVars
  <2> QED
    BY <1>n, <2>1, TraceStable DEF TraceInv
<1>5. ASSUME NEW k \in Kinds, Use(k) PROVE TraceInv'
  <2>1. /\ UNCHANGED <<entries, cleared, ip, result, pc>>
        /\ \A e \in Executions : ip[e] = 0 /\ pc[e] = "find" /\ result[e] = "none"
    BY <1>n, <1>5 DEF Use, IInv, PlaceInv, handlerVars, sharedVars
  <2>2. 1..Len(entries) = {}
    BY <1>n, <2>1, TracedAre DEF IInv, TraceInv
  <2> QED
    BY <2>1, <2>2 DEF TraceInv, TraceTellsResults
<1>6. CASE Reset
  <2>1. /\ entries' = <<>> /\ cleared' = cleared \cup Traced /\ UNCHANGED <<chain, ip, result, pc>>
    BY <1>6 DEF Reset, setupVars, handlerVars
  <2> QED
    BY <2>1 DEF TraceInv, TraceTellsResults
<1>7. CASE Serve \/ (\E j \in Jobs : Expire(j)) \/ UNCHANGED vars
  <2>1. UNCHANGED <<chain, ip, result, pc, entries, cleared>>
    BY <1>7 DEF Serve, Expire, vars, setupVars, handlerVars, sharedVars
  <2> QED
    BY <2>1, TraceStable DEF TraceInv
<1> QED
  BY <1>1, <1>2, <1>3, <1>4, <1>5, <1>6, <1>7, RecordTrace DEF Next

\* Until Reset the trace has what every handler returned, once, and under the result that
\* the chain gives to the worker; for any chain and any number of executions that fail,
\* panic and overtake one another (recorder/middleware.go, recordExecution).
THEOREM TraceIsTrue == Spec => []TraceTellsResults
<1>1. Init => TraceInv
  BY DEF Init, TraceInv, TraceTellsResults
<1>2. TraceInv => TraceTellsResults
  BY DEF TraceInv
<1> QED
  BY <1>1, <1>2, MiddlewareInvariant, TraceInvNext, PTL DEF Spec

-----------------------------------------------------------------------------
(* Who is inside which middleware.                                          *)

LEMMA InsideNow ==
    ASSUME IInv, NEW e \in Executions, NEW k
    PROVE  Inside(e, k) <=> Between(chain, ip[e], k)
<1>1. chain \in Seq(Kinds) /\ NoTwice(chain) /\ ip[e] \in 0..(2 * Len(chain) + 2)
  BY WhereAt DEF IInv, TypeOK, PlaceInv
<1> QED
  BY <1>1, InsideIsBetween DEF Inside, Program

LEMMA InsideAfter ==
    ASSUME IInv', NEW e \in Executions, NEW k
    PROVE  Inside(e, k)' <=> Between(chain', ip'[e], k)
<1>1. chain' \in Seq(Kinds) /\ NoTwice(chain') /\ ip'[e] \in Nat /\ ip'[e] <= 2 * Len(chain') + 2
  BY DEF IInv, TypeOK, PlaceInv, NoTwice
<1>2. Len(chain') \in Nat
  BY <1>1
<1>3. ip'[e] \in 0..(2 * Len(chain') + 2)
  BY <1>1, <1>2
<1> QED
  BY <1>1, <1>3, InsideIsBetween DEF Inside, Program

\* Before the program begins, and at its first step.
LEMMA OutsideIdle ==
    ASSUME IInv, NEW e \in Executions, ip[e] = 0, NEW k
    PROVE  ~Inside(e, k)
BY InsideNow, OutsideAtFirst DEF IInv, TypeOK

\* Who is inside a middleware is under way.
LEMMA InsideIsActive ==
    ASSUME IInv, NEW e \in Executions, NEW k, Inside(e, k)
    PROVE  Active(e)
<1>1. PICK q \in 1..Len(chain) : q < ip[e] /\ ip[e] <= 2 * Len(chain) + 2 - q
  BY InsideNow DEF Between
<1> QED
  BY <1>1, WhereAt DEF Active, IInv

\* A step of an execution takes it into the middleware it enters and out of the one it
\* leaves, and moves nobody else.
LEMMA InsideMoves ==
    ASSUME IInv, IInv', NEW e \in Executions, StepOf(e), NEW k
    PROVE  /\ \A f \in Executions \ {e} : Inside(f, k)' <=> Inside(f, k)
           /\ ip'[e] = ip[e] => (Inside(e, k)' <=> Inside(e, k))
           /\ ip'[e] = ip[e] + 1 =>
                 /\ At(e) = Enters(k) => ~Inside(e, k) /\ Inside(e, k)'
                 /\ At(e) = Leaves(k) => Inside(e, k) /\ ~Inside(e, k)'
                 /\ At(e) \notin {Enters(k), Leaves(k)} => (Inside(e, k)' <=> Inside(e, k))
<1>1. /\ chain' = chain /\ \A f \in Executions \ {e} : ip'[f] = ip[f]
      /\ ip[e] \in 1..(2 * Len(chain) + 1)
  BY DEF StepOf, Active
<1>2. \A f \in Executions : /\ Inside(f, k) <=> Between(chain, ip[f], k)
                            /\ Inside(f, k)' <=> Between(chain, ip'[f], k)
  BY <1>1, InsideNow, InsideAfter
<1>3. chain \in Seq(Kinds) /\ NoTwice(chain) /\ At(e) = Then(chain)[ip[e]]
  BY DEF IInv, TypeOK, PlaceInv, At, Program
<1>4. /\ At(e) = Enters(k) => ~Between(chain, ip[e], k) /\ Between(chain, ip[e] + 1, k)
      /\ At(e) = Leaves(k) => Between(chain, ip[e], k) /\ ~Between(chain, ip[e] + 1, k)
      /\ At(e) \notin {Enters(k), Leaves(k)} =>
            (Between(chain, ip[e] + 1, k) <=> Between(chain, ip[e], k))
  BY <1>1, <1>3, BetweenStep
<1> QED
  BY <1>1, <1>2, <1>4

\* The same, by the action that is taken.
LEMMA InsideByAction ==
    ASSUME IInv, IInv', NEW e \in Executions, Enter(e) \/ HandlerStep(e) \/ Leave(e), NEW k
    PROVE  /\ \A f \in Executions \ {e} : Inside(f, k)' <=> Inside(f, k)
           /\ Enter(e) /\ At(e).mw = k => ~Inside(e, k) /\ Inside(e, k)'
           /\ Leave(e) /\ At(e).mw = k => Inside(e, k) /\ ~Inside(e, k)'
           /\ HandlerStep(e) \/ At(e).mw # k => (Inside(e, k)' <=> Inside(e, k))
<1>1. StepOf(e)
  BY StepsAreOfOne DEF IInv
<1>2. ip[e] \in Nat /\ (Enter(e) \/ Leave(e) => ip'[e] = ip[e] + 1)
  BY WhereAt DEF IInv, TypeOK, Enter, Leave, Advance
<1>3. /\ Enter(e) => At(e) = Enters(At(e).mw)
      /\ Leave(e) => At(e) = Leaves(At(e).mw)
      /\ HandlerStep(e) => At(e) = Handler
  <2>1. Enter(e) => At(e) = Enters(At(e).mw)
    BY WhereAt, Distinct DEF IInv, Enter
  <2>2. Leave(e) => At(e) = Leaves(At(e).mw)
    BY WhereAt, Distinct DEF IInv, Leave
  <2>3. HandlerStep(e) => At(e) = Handler
    BY DEF HandlerStep, In, FromContext, Restore, Process, Save, Clear,
           Fails, Panics, RecordCall
  <2> QED
    BY <2>1, <2>2, <2>3
<1>4. ip'[e] \in {ip[e], ip[e] + 1}
  BY <1>1 DEF StepOf
<1>5. CASE Enter(e)
  <2>1. At(e) # Leaves(k) /\ (At(e).mw # k => At(e) # Enters(k))
    BY <1>3, <1>5, Distinct
  <2>2. ~HandlerStep(e) /\ ~Leave(e)
    BY <1>3, <1>5, Distinct
  <2> QED
    BY <1>1, <1>2, <1>3, <1>5, <2>1, <2>2, InsideMoves
<1>6. CASE Leave(e)
  <2>1. At(e) # Enters(k) /\ (At(e).mw # k => At(e) # Leaves(k))
    BY <1>3, <1>6, Distinct
  <2>2. ~HandlerStep(e) /\ ~Enter(e)
    BY <1>3, <1>6, Distinct
  <2> QED
    BY <1>1, <1>2, <1>3, <1>6, <2>1, <2>2, InsideMoves
<1>7. CASE HandlerStep(e)
  <2>1. At(e) \notin {Enters(k), Leaves(k)}
    BY <1>3, <1>7, Distinct
  <2>2. ~Enter(e) /\ ~Leave(e)
    BY <1>3, <1>7, Distinct
  <2> QED
    BY <1>1, <1>4, <1>7, <2>1, <2>2, InsideMoves
<1> QED
  BY <1>5, <1>6, <1>7

\* The steps that move nobody through the program.
LEMMA InsideStays ==
    ASSUME IInv, IInv', NEW k,
           \/ Serve \/ Reset \/ (\E j \in Jobs : Expire(j)) \/ UNCHANGED vars
           \/ (\E m \in Kinds : Use(m))
           \/ (\E e \in Executions, j \in Jobs : Begin(e, j))
    PROVE  \A f \in Executions : Inside(f, k)' <=> Inside(f, k)
<1>1. CASE Serve \/ Reset \/ (\E j \in Jobs : Expire(j)) \/ UNCHANGED vars
  <2>1. UNCHANGED <<chain, ip>>
    BY <1>1 DEF Serve, Reset, Expire, vars, setupVars
  <2> QED
    BY <2>1, InsideNow, InsideAfter
<1>2. ASSUME NEW m \in Kinds, Use(m) PROVE \A f \in Executions : Inside(f, k)' <=> Inside(f, k)
  <2>1. \A f \in Executions : ip[f] = 0 /\ ip'[f] = 0
    BY <1>2 DEF Use, IInv, PlaceInv
  <2>2. chain \in Seq(Kinds) /\ chain' \in Seq(Kinds)
    BY DEF IInv, TypeOK
  <2> QED
    BY <2>1, <2>2, InsideNow, InsideAfter, OutsideAtFirst
<1>3. ASSUME NEW e \in Executions, NEW j \in Jobs, Begin(e, j)
      PROVE  \A f \in Executions : Inside(f, k)' <=> Inside(f, k)
  <2>1. /\ ip[e] = 0 /\ ip'[e] = 1 /\ chain' = chain
        /\ \A f \in Executions \ {e} : ip'[f] = ip[f]
    BY <1>3 DEF Begin, IInv, TypeOK, setupVars
  <2>2. chain \in Seq(Kinds)
    BY DEF IInv, TypeOK
  <2> QED
    BY <2>1, <2>2, InsideNow, InsideAfter, OutsideAtFirst
<1> QED
  BY <1>1, <1>2, <1>3

-----------------------------------------------------------------------------
(* The registry.                                                            *)

\* A job whose deliveries have met stays one.
LEMMA AloneBefore ==
    ASSUME IInv, NEW e \in Executions, NEW i \in Jobs, Begin(e, i), NEW j \in Jobs, Alone(j)'
    PROVE  Alone(j)
<1>1. /\ job[e] = None
      /\ \A f \in Executions \ {e} : job'[f] = job[f] /\ met[f] \subseteq met'[f]
  BY DEF Begin, IInv, TypeOK, PlaceInv
<1>2. job[e] # j
  BY <1>1, MiddlewareAssumption
<1> QED
  BY <1>1, <1>2 DEF Alone

LEMMA RegistryStep ==
    ASSUME IInv, IInv', MetInv, RegistryFollowsExecution,
           NEW e \in Executions, Enter(e) \/ HandlerStep(e) \/ Leave(e)
    PROVE  RegistryFollowsExecution'
<1>1. StepOf(e) /\ UNCHANGED <<job, met>>
  BY StepsAreOfOne DEF IInv, StepOf
<1> SUFFICES ASSUME NEW j \in Jobs, Alone(j)
             PROVE  j \in registry' <=> \E f \in Executions : job[f] = j /\ Inside(f, "durable")'
  BY <1>1 DEF RegistryFollowsExecution, Alone
<1>2. j \in registry <=> \E f \in Executions : job[f] = j /\ Inside(f, "durable")
  BY DEF RegistryFollowsExecution
<1>3. \A f \in Executions \ {e} : Inside(f, "durable")' <=> Inside(f, "durable")
  BY InsideByAction
<1>4. CASE HandlerStep(e) \/ At(e).mw # "durable"
  <2>1. Inside(e, "durable")' <=> Inside(e, "durable")
    BY <1>4, InsideByAction
  <2>2. registry' = registry
    BY <1>4 DEF HandlerStep, Enter, Leave, FromContext, Restore, Process, Save, Clear, Fails,
                Panics, RecordCall, sharedVars
  <2> QED
    BY <1>2, <1>3, <2>1, <2>2
<1>5. CASE Enter(e) /\ At(e).mw = "durable"
  <2>1. Inside(e, "durable")' /\ ~Inside(e, "durable")
    BY <1>5, InsideByAction
  <2>2. registry' = registry \cup {job[e]}
    BY <1>5 DEF Enter
  <2> QED
    BY <1>2, <1>3, <2>1, <2>2
<1>6. CASE Leave(e) /\ At(e).mw = "durable"
  <2>1. ~Inside(e, "durable")' /\ Inside(e, "durable")
    BY <1>6, InsideByAction
  <2>2. registry' = registry \ {job[e]}
    BY <1>6 DEF Leave
  <2>3. CASE j # job[e]
    BY <1>2, <1>3, <2>1, <2>2, <2>3
  <2>4. CASE j = job[e]
    \* Another delivery of the job inside would have met this one.
    <3>1. ASSUME NEW f \in Executions, f # e, job[f] = j, Inside(f, "durable") PROVE FALSE
      <4>1. Active(f) /\ Active(e)
        BY <1>1, <3>1, InsideIsActive DEF StepOf
      <4>2. e \in met[f]
        BY <3>1, <4>1 DEF MetInv
      <4> QED
        BY <2>4, <3>1, <4>2 DEF Alone
    <3> QED
      BY <1>3, <2>1, <2>2, <2>4, <3>1
  <2> QED
    BY <2>3, <2>4
<1> QED
  BY <1>4, <1>5, <1>6

LEMMA RegistryNext ==
    ASSUME IInv, MetInv, RegistryFollowsExecution, [Next]_vars
    PROVE  RegistryFollowsExecution'
<1>0. IInv'
  BY IInvNext
<1>1. ASSUME NEW e \in Executions, Enter(e) \/ HandlerStep(e) \/ Leave(e)
      PROVE  RegistryFollowsExecution'
  BY <1>0, <1>1, RegistryStep
<1>2. CASE \/ Serve \/ Reset \/ (\E j \in Jobs : Expire(j)) \/ UNCHANGED vars
           \/ \E m \in Kinds : Use(m)
  <2>1. UNCHANGED <<registry, job, met>>
    BY <1>2 DEF Serve, Reset, Expire, Use, vars, sharedVars
  <2>2. \A f \in Executions : Inside(f, "durable")' <=> Inside(f, "durable")
    BY <1>0, <1>2, InsideStays
  <2> QED
    BY <2>1, <2>2 DEF RegistryFollowsExecution, Alone
<1>3. ASSUME NEW e \in Executions, NEW i \in Jobs, Begin(e, i) PROVE RegistryFollowsExecution'
  <2>1. \A f \in Executions : Inside(f, "durable")' <=> Inside(f, "durable")
    BY <1>0, <1>3, InsideStays
  <2>2. registry' = registry /\ \A f \in Executions \ {e} : job'[f] = job[f]
    BY <1>3 DEF Begin, sharedVars, IInv, TypeOK
  <2>3. ~Inside(e, "durable")
    BY <1>3, OutsideIdle DEF Begin
  <2> SUFFICES ASSUME NEW j \in Jobs, Alone(j)'
               PROVE  j \in registry' <=> \E f \in Executions : job'[f] = j /\ Inside(f, "durable")'
    BY DEF RegistryFollowsExecution
  <2>4. Alone(j)
    BY <1>3, AloneBefore
  <2> QED
    BY <2>1, <2>2, <2>3, <2>4 DEF RegistryFollowsExecution
<1> QED
  BY <1>1, <1>2, <1>3 DEF Next

\* Whatever the chain around it, and however the handler ends, a job delivered once at a
\* time is in the registry exactly while it is inside the durable middleware
\* (middleware/durable/durable.go, Middleware and FromContext).
THEOREM RegistryIsExact == Spec => []RegistryFollowsExecution
<1>1. Init => MetInv /\ RegistryFollowsExecution
  <2> SUFFICES ASSUME Init PROVE MetInv /\ RegistryFollowsExecution
    OBVIOUS
  <2>1. IInv
    BY IInvInit
  <2>2. \A e \in Executions : ~Inside(e, "durable")
    BY <2>1, OutsideIdle DEF Init
  <2> QED
    BY <2>2 DEF Init, MetInv, Active, RegistryFollowsExecution
<1> QED
  BY <1>1, MiddlewareInvariant, MetInvNext, RegistryNext, PTL DEF Spec

-----------------------------------------------------------------------------
(* The reports.                                                             *)

LEMMA PanicInvNext ==
    ASSUME IInv, PanicInv, [Next]_vars
    PROVE  PanicInv'
<1>n. Len(chain) \in Nat /\ \A e \in Executions : ip[e] \in Nat
  BY DEF IInv, TypeOK
<1>1. ASSUME NEW e \in Executions, Enter(e) \/ HandlerStep(e) \/ Leave(e) PROVE PanicInv'
  <2>1. StepOf(e)
    BY <1>1, StepsAreOfOne DEF IInv
  <2> SUFFICES ASSUME NEW f \in Executions, result'[f] = "panic"
               PROVE  /\ ip'[f] > Len(chain) + 1
                      /\ \A q \in 1..Len(chain) :
                            chain[q] = "recovery" => ip'[f] <= 2 * Len(chain) + 2 - q
    BY <2>1 DEF PanicInv, StepOf
  <2>2. CASE f # e
    BY <2>1, <2>2 DEF PanicInv, StepOf
  <2>3. CASE f = e /\ Enter(e)
    <3>1. ip[e] <= Len(chain) /\ result' = result
      BY <2>3, WhereAt DEF IInv, Enter
    <3> QED
      BY <2>3, <3>1 DEF IInv, PlaceInv
  <2>4. CASE f = e /\ HandlerStep(e)
    <3>1. ip[e] = Len(chain) + 1
      BY <2>4, WhereAt DEF IInv, HandlerStep, In, FromContext, Restore, Process, Save, Clear,
                           Fails, Panics, RecordCall
    <3>2. result[e] # "panic"
      BY <1>n, <3>1 DEF PanicInv
    <3>3. ip'[e] = ip[e] + 1
      BY <2>4, <3>2 DEF IInv, TypeOK, HandlerStep, FromContext, Restore, Process, Save, Clear,
                        Fails, Panics, RecordCall, Returns, Advance
    <3> QED
      BY <1>n, <2>4, <3>1, <3>3
  <2>5. CASE f = e /\ Leave(e)
    <3>1. /\ ip[e] \in (Len(chain) + 2)..(2 * Len(chain) + 1)
          /\ At(e).mw = chain[2 * Len(chain) + 2 - ip[e]]
      BY <2>5, WhereAt, Distinct DEF IInv, Leave
    <3>2. /\ ip'[e] = ip[e] + 1 /\ result'[e] = Recovered(At(e).mw, result[e])
      BY <2>5 DEF IInv, TypeOK, Leave, Advance
    <3>3. result[e] = "panic" /\ chain[2 * Len(chain) + 2 - ip[e]] # "recovery"
      BY <2>5, <3>1, <3>2 DEF Recovered
    <3>4. ASSUME NEW q \in 1..Len(chain), chain[q] = "recovery"
          PROVE  ip'[e] <= 2 * Len(chain) + 2 - q
      <4>1. ip[e] <= 2 * Len(chain) + 2 - q
        BY <3>3, <3>4 DEF PanicInv
      <4>2. 2 * Len(chain) + 2 - ip[e] # q
        BY <3>3, <3>4
      <4> QED
        BY <1>n, <3>2, <4>1, <4>2
    <3> QED
      BY <1>n, <2>5, <3>1, <3>2, <3>4
  <2> QED
    BY <1>1, <2>2, <2>3, <2>4, <2>5
<1>2. ASSUME NEW e \in Executions, NEW j \in Jobs, Begin(e, j) PROVE PanicInv'
  <2>1. /\ UNCHANGED <<result, chain>> /\ result[e] = "none"
        /\ \A f \in Executions \ {e} : ip'[f] = ip[f]
    BY <1>2, <1>n DEF Begin, IInv, TypeOK, PlaceInv, setupVars
  <2> QED
    BY <2>1 DEF PanicInv
<1>3. ASSUME NEW k \in Kinds, Use(k) PROVE PanicInv'
  <2>1. \A e \in Executions : result'[e] = "none"
    BY <1>3, <1>n DEF Use, IInv, PlaceInv
  <2> QED
    BY <2>1 DEF PanicInv
<1>4. CASE Serve \/ Reset \/ (\E j \in Jobs : Expire(j)) \/ UNCHANGED vars
  <2>1. UNCHANGED <<chain, ip, result>>
    BY <1>4 DEF Serve, Reset, Expire, vars, setupVars
  <2> QED
    BY <2>1 DEF PanicInv
<1> QED
  BY <1>1, <1>2, <1>3, <1>4 DEF Next

\* Behind a Recovery, no panic reaches the observer.
LEMMA ShieldHolds ==
    ASSUME IInv, PanicInv, ObserverIsShielded, NEW e \in Executions, Leave(e),
           At(e).mw = "observer"
    PROVE  result[e] # "panic"
<1>1. /\ ip[e] \in (Len(chain) + 2)..(2 * Len(chain) + 1) /\ Len(chain) \in Nat
      /\ At(e).mw = chain[2 * Len(chain) + 2 - ip[e]]
  BY WhereAt, Distinct DEF IInv, Leave
<1>2. PICK i \in 1..Len(chain) : i = 2 * Len(chain) + 2 - ip[e]
  BY <1>1
<1>3. PICK q \in (i + 1)..Len(chain) : chain[q] = "recovery"
  BY <1>1, <1>2 DEF ObserverIsShielded
<1>4. q \in 1..Len(chain) /\ ~(ip[e] <= 2 * Len(chain) + 2 - q)
  BY <1>1, <1>2, <1>3
<1> QED
  BY <1>3, <1>4 DEF PanicInv

LEMMA ReportStep ==
    ASSUME IInv, IInv', PanicInv, ReportInv,
           NEW e \in Executions, Enter(e) \/ HandlerStep(e) \/ Leave(e)
    PROVE  ReportInv'
<1>1. StepOf(e) /\ UNCHANGED <<chain, serving>>
  BY StepsAreOfOne DEF IInv, StepOf
<1>2. serving
  BY <1>1, HasJob DEF IInv, PlaceInv, StepOf
<1>3. /\ IsFiniteSet(Observed) /\ Cardinality(Observed) \in Nat /\ jobStarted \in Nat /\ jobEnded \in Nat
      /\ ObserverIsShielded => jobStarted = jobEnded + Cardinality(Observed)
  BY FS_CardinalityType DEF ReportInv, EveryStartIsReported, Observed, IInv, TypeOK
<1>4. ObserverIsShielded' <=> ObserverIsShielded
  BY <1>1 DEF ObserverIsShielded
<1> SUFFICES /\ IsFiniteSet(Observed')
             /\ ObserverIsShielded => jobStarted' = jobEnded' + Cardinality(Observed')
  BY <1>1, <1>2, <1>4 DEF ReportInv, EveryStartIsReported, Observed
<1>5. \A f \in Executions \ {e} : Inside(f, "observer")' <=> Inside(f, "observer")
  BY InsideByAction
<1>6. CASE HandlerStep(e) \/ At(e).mw # "observer"
  <2>1. Inside(e, "observer")' <=> Inside(e, "observer")
    BY <1>6, InsideByAction
  <2>2. Observed' = Observed
    BY <1>5, <2>1 DEF Observed
  <2>3. UNCHANGED <<jobStarted, jobEnded>>
    BY <1>6 DEF HandlerStep, Enter, Leave, FromContext, Restore, Process, Save, Clear, Fails,
                Panics, RecordCall, sharedVars, Starts, Reports
  <2> QED
    BY <1>3, <2>2, <2>3
<1>7. CASE Enter(e) /\ At(e).mw = "observer"
  <2>1. Inside(e, "observer")' /\ ~Inside(e, "observer")
    BY <1>7, InsideByAction
  <2>2. Observed' = Observed \cup {e} /\ e \notin Observed
    BY <1>5, <2>1 DEF Observed
  <2>3. jobStarted' = jobStarted + 1 /\ jobEnded' = jobEnded
    BY <1>7 DEF Enter, Starts
  <2>4. IsFiniteSet(Observed') /\ Cardinality(Observed') = Cardinality(Observed) + 1
    BY <1>3, <2>2, FS_AddElement
  <2> QED
    BY <1>3, <2>3, <2>4
<1>8. CASE Leave(e) /\ At(e).mw = "observer"
  <2>1. ~Inside(e, "observer")' /\ Inside(e, "observer")
    BY <1>8, InsideByAction
  <2>2. Observed' = Observed \ {e} /\ e \in Observed
    BY <1>5, <2>1 DEF Observed
  <2>3. /\ jobStarted' = jobStarted
        /\ ObserverIsShielded => jobEnded' = jobEnded + 1
    BY <1>8, ShieldHolds DEF Leave, Reports
  <2>4. IsFiniteSet(Observed') /\ Cardinality(Observed') = Cardinality(Observed) - 1
    BY <1>3, <2>2, FS_RemoveElement
  <2> QED
    BY <1>3, <2>3, <2>4
<1> QED
  BY <1>6, <1>7, <1>8

LEMMA ReportInvNext ==
    ASSUME IInv, PanicInv, ReportInv, [Next]_vars
    PROVE  ReportInv'
<1>0. IInv'
  BY IInvNext
<1>1. ASSUME NEW e \in Executions, Enter(e) \/ HandlerStep(e) \/ Leave(e) PROVE ReportInv'
  BY <1>0, <1>1, ReportStep
<1>2. CASE \/ Serve \/ Reset \/ (\E j \in Jobs : Expire(j)) \/ UNCHANGED vars
           \/ \E e \in Executions, j \in Jobs : Begin(e, j)
  <2>1. UNCHANGED <<chain, jobStarted, jobEnded>> /\ (~serving' => ~serving)
    BY <1>2 DEF Serve, Reset, Expire, Begin, vars, setupVars, sharedVars
  <2>2. Observed' = Observed
    BY <1>0, <1>2, InsideStays DEF Observed
  <2> QED
    BY <2>1, <2>2 DEF ReportInv, EveryStartIsReported, ObserverIsShielded, Observed
<1>3. ASSUME NEW k \in Kinds, Use(k) PROVE ReportInv'
  <2>1. /\ UNCHANGED <<jobStarted, jobEnded>> /\ ~serving
        /\ \A e \in Executions : ip[e] = 0
    BY <1>3 DEF Use, sharedVars, IInv, PlaceInv
  <2>2. \A e \in Executions : ~Inside(e, "observer")
    BY <2>1, OutsideIdle
  <2>3. Observed' = {}
    BY <1>0, <1>3, <2>2, InsideStays DEF Observed
  <2>4. jobStarted = 0 /\ jobEnded = 0
    BY <2>1 DEF ReportInv
  <2> QED
    BY <2>1, <2>3, <2>4, FS_EmptySet DEF ReportInv, EveryStartIsReported, Observed
<1> QED
  BY <1>1, <1>2, <1>3 DEF Next

\* With a Recovery somewhere inside the observer, every start it reports gets its end,
\* whatever else is in the chain and however many executions panic at the same time
\* (middleware/logging.go, metrics.go and recovery.go).
THEOREM StartsAreReported == Spec => []EveryStartIsReported
<1>1. Init => PanicInv /\ ReportInv
  <2> SUFFICES ASSUME Init PROVE PanicInv /\ ReportInv
    OBVIOUS
  <2>1. \A e \in Executions : ~Inside(e, "observer")
    BY IInvInit, OutsideIdle DEF Init
  <2>2. Observed = {}
    BY <2>1 DEF Observed
  <2>3. PanicInv
    BY DEF Init, PanicInv
  <2>4. IsFiniteSet(Observed) /\ Cardinality(Observed) = 0
    BY <2>2, FS_EmptySet
  <2>5. EveryStartIsReported
    BY <2>4 DEF Init, EveryStartIsReported, Observed
  <2> QED
    BY <2>3, <2>4, <2>5 DEF Init, ReportInv
<1>2. ReportInv => EveryStartIsReported
  BY DEF ReportInv
<1> QED
  BY <1>1, <1>2, MiddlewareInvariant, PanicInvNext, ReportInvNext, PTL DEF Spec
=============================================================================
