--------------------------- MODULE MailDataProofs ----------------------------
(***************************************************************************)
(* Proofs about what Mail computes from data, for data of any length: the   *)
(* reports it writes and reads, the delays between attempts, the SPF and    *)
(* DMARC records of a domain.  Each computation is a loop, modelled by a    *)
(* recursive function; the lemmas on recursion say when such a function is  *)
(* the one its equation describes, and carry the inductions over the data.  *)
(***************************************************************************)
EXTENDS MailProofs

-----------------------------------------------------------------------------
(* Recursion: what a function defined step by step computes. *)

(* Induction, over a set of naturals instead of a predicate. *)
LEMMA NatSetInduction ==
  ASSUME NEW T \in SUBSET Nat, 0 \in T, \A n \in T : n + 1 \in T
  PROVE  T = Nat
  <1> DEFINE X == Nat \ T
             id == [n \in X |-> n]
  <1> SUFFICES ASSUME X # {} PROVE FALSE
    OBVIOUS
  <1>1. id \in [X -> Nat]
    OBVIOUS
  <1>2. PICK x \in X : \A y \in X : id[x] <= id[y]
    BY <1>1, LeastValue
  <1>3. x # 0 /\ x \in Nat /\ x - 1 \in Nat
    OBVIOUS
  <1>4. x - 1 \notin X
    BY <1>2, <1>3
  <1>5. (x - 1) + 1 \in T
    BY <1>3, <1>4
  <1> QED
    BY <1>3, <1>5

Iterated(f, first, step) ==
  f[0] = first /\ \A n \in Nat : f[n + 1] = step[<<n, f[n]>>]

(* What iterating a step from a first value gives: a sequence of values      *)
(* exists, so a function defined by that recursion satisfies its equation.   *)
LEMMA Iterates ==
  ASSUME NEW S, NEW first \in S, NEW step \in [Nat \X S -> S]
  PROVE  \E f \in [Nat -> S] : Iterated(f, first, step)
  <1> DEFINE Chain(f, n) == f \in [0..n -> S] /\ f[0] = first /\ \A i \in 0..(n - 1) : f[i + 1] = step[<<i, f[i]>>]
             T == {n \in Nat : \E f : Chain(f, n)}
  <1>1. 0 \in T
    <2>1. Chain([i \in 0..0 |-> first], 0)
      OBVIOUS
    <2> QED
      BY <2>1
  <1>2. ASSUME NEW n \in T PROVE n + 1 \in T
    <2>1. n \in Nat /\ n + 1 \in Nat
      OBVIOUS
    <2>2. PICK f : Chain(f, n)
      OBVIOUS
    <2> DEFINE g == [i \in 0..(n + 1) |-> IF i = n + 1 THEN step[<<n, f[n]>>] ELSE f[i]]
    <2>3. f[n] \in S /\ step[<<n, f[n]>>] \in S
      BY <2>1, <2>2
    <2>4. g \in [0..(n + 1) -> S]
      BY <2>1, <2>2, <2>3
    <2>5. g[0] = first
      BY <2>1, <2>2
    <2>6. ASSUME NEW i \in 0..((n + 1) - 1) PROVE g[i + 1] = step[<<i, g[i]>>]
      <3>1. i \in 0..n /\ g[i] = f[i]
        BY <2>1
      <3>2. CASE i = n
        <4>1. g[n + 1] = step[<<n, f[n]>>]
          BY <2>1
        <4>2. g[n] = f[n]
          BY <2>1
        <4> HIDE DEF g
        <4> QED
          BY <4>1, <4>2, <3>2
      <3>3. CASE i # n
        <4>1. i \in 0..(n - 1) /\ g[i + 1] = f[i + 1]
          BY <3>1, <3>3, <2>1
        <4> QED
          BY <4>1, <3>1, <2>2
      <3> QED
        BY <3>2, <3>3
    <2>7. Chain(g, n + 1)
      BY <2>4, <2>5, <2>6
    <2> QED
      BY <2>1, <2>7
  <1>3. T = Nat
    <2> HIDE DEF T
    <2>1. T \in SUBSET Nat
      BY DEF T
    <2> QED
      BY <1>1, <1>2, <2>1, NatSetInduction
  <1>4. ASSUME NEW n \in Nat, NEW m \in Nat, n <= m, NEW f, NEW g, Chain(f, n), Chain(g, m)
        PROVE  f[n] = g[n]
    <2> DEFINE Same == {k \in Nat : k <= n => f[k] = g[k]}
    <2>1. 0 \in Same
      BY <1>4
    <2>2. ASSUME NEW k \in Same PROVE k + 1 \in Same
      <3> SUFFICES ASSUME k + 1 <= n PROVE f[k + 1] = g[k + 1]
        BY <2>2
      <3>1. k \in 0..(n - 1) /\ k \in 0..(m - 1) /\ f[k] = g[k]
        BY <1>4
      <3> QED
        BY <3>1, <1>4
    <2>3. Same = Nat
      <3> HIDE DEF Same
      <3>1. Same \in SUBSET Nat
        BY DEF Same
      <3> QED
        BY <2>1, <2>2, <3>1, NatSetInduction
    <2>4. n \in Same
      BY <2>3
    <2> QED
      BY <2>4
  <1> DEFINE c(n) == CHOOSE f : Chain(f, n)
             h == [n \in Nat |-> c(n)[n]]
  <1>5. ASSUME NEW n \in Nat PROVE Chain(c(n), n)
    <2>1. \E f : Chain(f, n)
      BY <1>3
    <2> HIDE DEF Chain
    <2> QED
      BY <2>1
  <1> HIDE DEF c
  <1>6. h \in [Nat -> S]
    <2>1. \A n \in Nat : c(n)[n] \in S
      BY <1>5
    <2> QED
      BY <2>1
  <1>7. h[0] = first
    BY <1>5
  <1>8. ASSUME NEW n \in Nat PROVE h[n + 1] = step[<<n, h[n]>>]
    <2>1. n + 1 \in Nat /\ n <= n + 1 /\ n \in 0..((n + 1) - 1)
      OBVIOUS
    <2>2. Chain(c(n), n) /\ Chain(c(n + 1), n + 1)
      BY <1>5, <2>1
    <2>3. c(n)[n] = c(n + 1)[n]
      <3> HIDE DEF Chain
      <3> QED
        BY <2>1, <2>2, <1>4
    <2>4. c(n + 1)[n + 1] = step[<<n, c(n + 1)[n]>>]
      BY <2>1, <2>2
    <2> QED
      BY <2>1, <2>3, <2>4
  <1> QED
    BY <1>6, <1>7, <1>8 DEF Iterated

(* A function that starts with first and goes on by step. *)
Follows(k, n, first, step) ==
  /\ k = [i \in 0..n |-> k[i]] /\ k[0] = first
  /\ \A i \in 1..n : k[i] = step[<<i, k[i - 1]>>]

(* Such a function exists, and its values are the values step gives. *)
LEMMA RecursionExists ==
  ASSUME NEW S, NEW first \in S, NEW n \in Nat, NEW step \in [(1..n) \X S -> S]
  PROVE  \E k : Follows(k, n, first, step)
  <1> DEFINE on == [x \in Nat \X S |-> IF x[1] < n THEN step[<<x[1] + 1, x[2]>>] ELSE x[2]]
  <1>1. on \in [Nat \X S -> S]
    <2>1. ASSUME NEW i \in Nat, NEW s \in S, i < n PROVE step[<<i + 1, s>>] \in S
      <3>1. i + 1 \in 1..n
        BY <2>1
      <3> QED
        BY <3>1
    <2> QED
      BY <2>1
  <1>2. PICK h \in [Nat -> S] : Iterated(h, first, on)
    <2> HIDE DEF on
    <2> QED
      BY <1>1, Iterates
  <1> DEFINE k == [i \in 0..n |-> h[i]]
  <1>3. ASSUME NEW i \in 1..n PROVE k[i] = step[<<i, k[i - 1]>>]
    <2>1. i - 1 \in Nat /\ (i - 1) + 1 = i /\ i - 1 < n /\ i - 1 \in 0..n /\ i \in 0..n
      OBVIOUS
    <2>2. h[i] = on[<<i - 1, h[i - 1]>>]
      <3> HIDE DEF on
      <3> QED
        BY <1>2, <2>1 DEF Iterated
    <2>3. on[<<i - 1, h[i - 1]>>] = step[<<i, h[i - 1]>>]
      BY <1>2, <2>1
    <2> QED
      BY <2>1, <2>2, <2>3
  <1>4. k[0] = first
    BY <1>2 DEF Iterated
  <1> QED
    BY <1>3, <1>4 DEF Follows

LEMMA RecursionTyped ==
  ASSUME NEW S, NEW first \in S, NEW n \in Nat, NEW step \in [(1..n) \X S -> S],
         NEW k, Follows(k, n, first, step)
  PROVE  k \in [0..n -> S]
  <1> DEFINE Typed == {i \in Nat : i <= n => k[i] \in S}
  <1>1. 0 \in Typed
    BY DEF Follows
  <1>2. ASSUME NEW i \in Typed PROVE i + 1 \in Typed
    <2> SUFFICES ASSUME i + 1 <= n PROVE k[i + 1] \in S
      BY <1>2
    <2>1. i + 1 \in 1..n /\ (i + 1) - 1 = i /\ k[i] \in S
      BY <1>2
    <2>2. k[i + 1] = step[<<i + 1, k[i]>>]
      BY <2>1 DEF Follows
    <2> QED
      BY <2>1, <2>2
  <1>3. Typed = Nat
    <2> HIDE DEF Typed
    <2>1. Typed \in SUBSET Nat
      BY DEF Typed
    <2> QED
      BY <1>1, <1>2, <2>1, NatSetInduction
  <1>4. \A i \in 0..n : k[i] \in S
    <2> SUFFICES ASSUME NEW i \in 0..n PROVE k[i] \in S
      OBVIOUS
    <2>1. i \in Nat /\ i <= n
      OBVIOUS
    <2> QED
      BY <2>1, <1>3
  <1> QED
    BY <1>4 DEF Follows

-----------------------------------------------------------------------------
(* Feedback: what a report is read as, and what suppresses an address.      *)

LEMMA SeqElement ==
  ASSUME NEW X, NEW s \in Seq(X), NEW i \in 1..Len(s)
  PROVE  s[i] \in X
  OBVIOUS

(* A sequence cut at maxMIMEParts is one of the same elements. *)
LEMMA BoundedPrefix ==
  ASSUME N!FeedbackAssumption, NEW G, NEW s \in Seq(G)
  PROVE  /\ N!Bounded(s) \in Seq(G) /\ Len(N!Bounded(s)) \in Nat
         /\ Len(N!Bounded(s)) <= Len(s) /\ Len(N!Bounded(s)) <= maxMIMEParts
         /\ Len(N!Bounded(s)) = IF Len(s) < maxMIMEParts THEN Len(s) ELSE maxMIMEParts
         /\ \A i \in 1..Len(N!Bounded(s)) : i \in 1..Len(s) /\ N!Bounded(s)[i] = s[i]
  <1> DEFINE n == IF Len(s) < maxMIMEParts THEN Len(s) ELSE maxMIMEParts
  <1>1. Len(s) \in Nat /\ maxMIMEParts \in Nat
    BY DEF N!FeedbackAssumption
  <1>2. n \in Nat /\ n <= Len(s) /\ n <= maxMIMEParts
    BY <1>1
  <1>3. N!Bounded(s) = SubSeq(s, 1, n)
    BY DEF N!Bounded
  <1>0. n = IF Len(s) < maxMIMEParts THEN Len(s) ELSE maxMIMEParts
    OBVIOUS
  <1> HIDE DEF n
  <1>4. \A i \in 1..n : i \in 1..Len(s) /\ s[i] \in G
    BY <1>1, <1>2
  <1>5. SubSeq(s, 1, n) = [i \in 1..n |-> s[i]]
    BY <1>1, <1>2
  <1>6. SubSeq(s, 1, n) \in Seq(G) /\ Len(SubSeq(s, 1, n)) = n
    BY <1>2, <1>4, <1>5
  <1> QED
    BY <1>0, <1>2, <1>3, <1>4, <1>5, <1>6

(* The parts of a report, read one after the other. *)
PartsRead(out, report) ==
  /\ out[0] = <<>>
  /\ \A i \in 1..Len(N!Bounded(report)) :
       out[i] = IF report[i].type = "delivery-status"
                THEN out[i - 1] \o N!parseDeliveryStatus(report[i]) ELSE out[i - 1]

LEMMA ParseReads ==
  ASSUME N!FeedbackAssumption, NEW G, NEW T, NEW report \in Seq([type : T, groups : Seq(G)])
  PROVE  \E out \in [0..Len(N!Bounded(report)) -> Seq(G)] :
           /\ PartsRead(out, report)
           /\ N!ParseDSN(report) = out[Len(N!Bounded(report))]
  <1> DEFINE n == Len(N!Bounded(report))
             S == Seq(G)
             first == <<>>
             Read(i, s) == IF report[i].type = "delivery-status"
                           THEN s \o N!parseDeliveryStatus(report[i]) ELSE s
             step == [x \in (1..n) \X S |-> Read(x[1], x[2])]
             Good(f) == f = [i \in 0..n |->
                               IF i = 0 THEN <<>>
                               ELSE IF report[i].type = "delivery-status"
                                    THEN f[i - 1] \o N!parseDeliveryStatus(report[i])
                               ELSE f[i - 1]]
  <1>1. n \in Nat /\ n <= Len(report) /\ Len(report) \in Nat
    BY BoundedPrefix
  <1>2. ASSUME NEW i \in 1..n PROVE N!parseDeliveryStatus(report[i]) \in Seq(G)
    <2>0. i \in 1..Len(report)
      BY <1>1
    <2>1. report[i] \in [type : T, groups : Seq(G)]
      BY <2>0, SeqElement
    <2>2. report[i].groups \in Seq(G)
      BY <2>1
    <2> QED
      BY <2>2, BoundedPrefix DEF N!parseDeliveryStatus
  <1> HIDE DEF n
  <1>3. step \in [(1..n) \X S -> S]
    <2>1. ASSUME NEW i \in 1..n, NEW s \in S PROVE Read(i, s) \in S
      <3>1. N!parseDeliveryStatus(report[i]) \in Seq(G)
        BY <1>2
      <3>2. s \o N!parseDeliveryStatus(report[i]) \in Seq(G)
        BY <3>1
      <3> QED
        BY <3>2
    <2> HIDE DEF Read
    <2> QED
      BY <2>1
  <1>4. first \in S
    OBVIOUS
  <1>5. ASSUME NEW i \in 1..n, NEW s \in S PROVE step[<<i, s>>] = Read(i, s)
    <2> HIDE DEF Read
    <2> QED
      OBVIOUS
  <1>6. \E k : Follows(k, n, first, step)
    <2> HIDE DEF step, S, first
    <2> QED
      BY <1>1, <1>3, <1>4, RecursionExists
  <1>7. \E f : Good(f)
    <2>1. PICK k : Follows(k, n, first, step)
      BY <1>6
    <2>2. k \in [0..n -> S]
      <3> HIDE DEF step, S, first
      <3> QED
        BY <1>1, <1>3, <1>4, <2>1, RecursionTyped
    <2>3. ASSUME NEW i \in 1..n PROVE k[i] = Read(i, k[i - 1])
      <3>1. i - 1 \in 0..n /\ k[i - 1] \in S
        BY <1>1, <2>2
      <3> HIDE DEF Read, step
      <3> QED
        BY <3>1, <1>5, <2>1 DEF Follows
    <2>4. k = [i \in 0..n |-> k[i]] /\ k[0] = <<>>
      BY <2>1 DEF Follows
    <2>5. \A i \in 0..n : i # 0 => i \in 1..n
      BY <1>1
    <2>6. Good(k)
      BY <2>3, <2>4, <2>5
    <2> QED
      BY <2>6
  <1> DEFINE out == CHOOSE f : Good(f)
  <1>8. Good(out)
    <2> HIDE DEF Good
    <2> QED
      BY <1>7
  <1>9. N!ParseDSN(report) = out[n]
    BY DEF N!ParseDSN, n
  <1> HIDE DEF out
  <1>10. PICK k : k = out
    OBVIOUS
  <1>11. Good(k)
    <2> HIDE DEF Good
    <2> QED
      BY <1>8, <1>10
  <1>12. k = [i \in 0..n |-> k[i]]
    BY <1>11
  <1>13. k[0] = <<>>
    BY <1>1, <1>11
  <1>14. ASSUME NEW i \in 1..n PROVE k[i] = Read(i, k[i - 1])
    <2>1. i \in 0..n /\ i # 0
      BY <1>1
    <2> QED
      BY <1>11, <2>1
  <1> HIDE DEF Good
  <1> DEFINE Typed == {i \in Nat : i <= n => k[i] \in S}
  <1>15. Typed = Nat
    <2>1. 0 \in Typed
      BY <1>13, <1>4
    <2>2. ASSUME NEW i \in Typed PROVE i + 1 \in Typed
      <3> SUFFICES ASSUME i + 1 <= n PROVE k[i + 1] \in S
        BY <2>2
      <3>1. i + 1 \in 1..n /\ (i + 1) - 1 = i /\ k[i] \in S
        BY <1>1, <2>2
      <3>2. k[i + 1] = Read(i + 1, k[i])
        <4> HIDE DEF Read
        <4> QED
          BY <1>14, <3>1
      <3>3. N!parseDeliveryStatus(report[i + 1]) \in Seq(G)
        BY <1>2, <3>1
      <3>4. k[i] \o N!parseDeliveryStatus(report[i + 1]) \in Seq(G)
        BY <3>1, <3>3
      <3> QED
        BY <3>1, <3>2, <3>4
    <2> HIDE DEF Typed
    <2>3. Typed \in SUBSET Nat
      BY DEF Typed
    <2> QED
      BY <2>1, <2>2, <2>3, NatSetInduction
  <1>16. \A i \in 0..n : k[i] \in S
    <2> SUFFICES ASSUME NEW i \in 0..n PROVE k[i] \in S
      OBVIOUS
    <2>1. i \in Typed /\ i <= n
      BY <1>15
    <2> QED
      BY <2>1
  <1>17. k \in [0..n -> S]
    BY <1>12, <1>16
  <1>18. N!ParseDSN(report) = k[n]
    BY <1>9, <1>10
  <1>19. PartsRead(k, report)
    BY <1>13, <1>14 DEF n, PartsRead
  <1> QED
    BY <1>17, <1>18, <1>19 DEF n

(* The items of a request are what the groups of its report are read as. *)
LEMMA ItemsRead ==
  ASSUME NEW G, NEW groups \in Seq(G), NEW X, \A g \in G : N!FromDSN(g) \in X
  PROVE  N!ItemsOf(groups) \in Seq(X)
  <1> DEFINE n == Len(groups)
             S == Seq(X)
             first == <<>>
             Read(i, s) == IF N!HasRecipient(groups[i])
                           THEN Append(s, N!FromDSN(groups[i])) ELSE s
             step == [x \in (1..n) \X S |-> Read(x[1], x[2])]
             Good(f) == f = [i \in 0..n |->
                               IF i = 0 THEN <<>>
                               ELSE IF N!HasRecipient(groups[i])
                                    THEN Append(f[i - 1], N!FromDSN(groups[i]))
                               ELSE f[i - 1]]
  <1>1. n \in Nat
    OBVIOUS
  <1>2. ASSUME NEW i \in 1..n PROVE N!FromDSN(groups[i]) \in X
    OBVIOUS
  <1> HIDE DEF n
  <1>3. step \in [(1..n) \X S -> S]
    <2>1. ASSUME NEW i \in 1..n, NEW s \in S PROVE Read(i, s) \in S
      <3>1. N!FromDSN(groups[i]) \in X
        BY <1>2
      <3>2. Append(s, N!FromDSN(groups[i])) \in Seq(X)
        BY <3>1
      <3> QED
        BY <3>2
    <2> HIDE DEF Read
    <2> QED
      BY <2>1
  <1>4. first \in S
    OBVIOUS
  <1>5. ASSUME NEW i \in 1..n, NEW s \in S PROVE step[<<i, s>>] = Read(i, s)
    <2> HIDE DEF Read
    <2> QED
      OBVIOUS
  <1>6. \E f : Good(f)
    <2>1. PICK k : Follows(k, n, first, step)
      <3> HIDE DEF step, S, first
      <3> QED
        BY <1>1, <1>3, <1>4, RecursionExists
    <2>2. k \in [0..n -> S]
      <3> HIDE DEF step, S, first
      <3> QED
        BY <1>1, <1>3, <1>4, <2>1, RecursionTyped
    <2>3. ASSUME NEW i \in 1..n PROVE k[i] = Read(i, k[i - 1])
      <3>1. i - 1 \in 0..n /\ k[i - 1] \in S
        BY <1>1, <2>2
      <3> HIDE DEF Read, step
      <3> QED
        BY <3>1, <1>5, <2>1 DEF Follows
    <2>4. k = [i \in 0..n |-> k[i]] /\ k[0] = <<>>
      BY <2>1 DEF Follows
    <2>5. \A i \in 0..n : i # 0 => i \in 1..n
      BY <1>1
    <2>6. Good(k)
      BY <2>3, <2>4, <2>5
    <2> QED
      BY <2>6
  <1> DEFINE items == CHOOSE f : Good(f)
  <1>7. Good(items)
    <2> HIDE DEF Good
    <2> QED
      BY <1>6
  <1>8. N!ItemsOf(groups) = items[n]
    BY DEF N!ItemsOf, n
  <1> HIDE DEF items
  <1>9. PICK k : k = items
    OBVIOUS
  <1>10. Good(k)
    <2> HIDE DEF Good
    <2> QED
      BY <1>7, <1>9
  <1>11. k[0] = <<>>
    BY <1>1, <1>10
  <1>12. ASSUME NEW i \in 1..n PROVE k[i] = Read(i, k[i - 1])
    <2>1. i \in 0..n /\ i # 0
      BY <1>1
    <2> QED
      BY <1>10, <2>1
  <1> HIDE DEF Good
  <1> DEFINE Typed == {i \in Nat : i <= n => k[i] \in S}
  <1>13. Typed = Nat
    <2>1. 0 \in Typed
      BY <1>11, <1>4
    <2>2. ASSUME NEW i \in Typed PROVE i + 1 \in Typed
      <3> SUFFICES ASSUME i + 1 <= n PROVE k[i + 1] \in S
        BY <2>2
      <3>1. i + 1 \in 1..n /\ (i + 1) - 1 = i /\ k[i] \in S
        BY <1>1, <2>2
      <3>2. k[i + 1] = Read(i + 1, k[i])
        <4> HIDE DEF Read
        <4> QED
          BY <1>12, <3>1
      <3>3. N!FromDSN(groups[i + 1]) \in X
        BY <1>2, <3>1
      <3>4. Append(k[i], N!FromDSN(groups[i + 1])) \in Seq(X)
        BY <3>1, <3>3
      <3> QED
        BY <3>1, <3>2, <3>4
    <2> HIDE DEF Typed
    <2>3. Typed \in SUBSET Nat
      BY DEF Typed
    <2> QED
      BY <2>1, <2>2, <2>3, NatSetInduction
  <1>14. n \in Typed
    BY <1>1, <1>13
  <1> QED
    BY <1>1, <1>8, <1>9, <1>14

(* A report of MailX has two parts, the second with one group for each      *)
(* recipient.                                                              *)
OwnGroup(f, b) ==
  [action |-> "failed", to |-> N!Written("bare", b),
   status |-> IF f.to \in {N!NoOne, b} THEN f.status ELSE N!NoStatus]

LEMMA OwnReports ==
  ASSUME N!FeedbackAssumption, NEW f
  PROVE  N!Generate(f, N!Envelope) =
           <<N!Part("text", <<>>),
             N!Part("delivery-status", [i \in 1..Len(Recipients) |-> OwnGroup(f, Recipients[i])])>>
  <1>1. DOMAIN Recipients = 1..Len(Recipients) /\ Recipients # <<>> /\ Len(Recipients) \in Nat
    BY DEF N!FeedbackAssumption
  <1>2. Len(Recipients) # 0
    BY <1>1 DEF N!FeedbackAssumption
  <1>3. DOMAIN N!Envelope = 1..Len(Recipients) /\ N!Envelope # <<>>
    BY <1>1, <1>2 DEF N!Envelope
  <1>4. \A i \in 1..Len(Recipients) : N!Envelope[i] = N!Written("path", Recipients[i])
    BY <1>1 DEF N!Envelope
  <1> DEFINE statuses == N!RecipientStatuses(f, N!Envelope)
  <1>5. /\ DOMAIN statuses = 1..Len(Recipients)
        /\ \A i \in 1..Len(Recipients) :
             statuses[i] = N!recipientStatusFor(f, N!Written("path", Recipients[i]))
    BY <1>3, <1>4 DEF N!RecipientStatuses
  <1>6. ASSUME NEW b
        PROVE  LET s == N!recipientStatusFor(f, N!Written("path", b))
               IN [s EXCEPT !.to = N!stripAngleBrackets(@)] = OwnGroup(f, b)
    BY DEF N!recipientStatusFor, N!Written, N!stripAngleBrackets, OwnGroup
  <1> HIDE DEF statuses
  <1>7. N!writeDeliveryStatusPart(statuses) =
          N!Part("delivery-status", [i \in 1..Len(Recipients) |-> OwnGroup(f, Recipients[i])])
    BY <1>5, <1>6 DEF N!writeDeliveryStatusPart
  <1> QED
    BY <1>3, <1>7 DEF N!Generate, statuses

(* What is read in it is the groups of its recipients. *)
LEMMA OwnReportsRead ==
  ASSUME N!FeedbackAssumption, NEW f
  PROVE  LET gs == [i \in 1..Len(Recipients) |-> OwnGroup(f, Recipients[i])]
         IN /\ gs \in Seq({OwnGroup(f, b) : b \in N!Mailboxes}) /\ Len(gs) = Len(Recipients)
            /\ N!ParseDSN(N!Generate(f, N!Envelope)) = N!Bounded(gs)
  <1> DEFINE gs == [i \in 1..Len(Recipients) |-> OwnGroup(f, Recipients[i])]
             G == {OwnGroup(f, b) : b \in N!Mailboxes}
             T == {"text", "delivery-status"}
             report == <<N!Part("text", <<>>), N!Part("delivery-status", gs)>>
  <1>1. gs \in Seq(G) /\ Len(gs) = Len(Recipients)
    <2>1. Len(Recipients) \in Nat /\ \A i \in 1..Len(Recipients) : Recipients[i] \in N!Mailboxes
      BY DEF N!FeedbackAssumption
    <2>2. \A i \in 1..Len(Recipients) : OwnGroup(f, Recipients[i]) \in G
      BY <2>1
    <2> HIDE DEF G
    <2> QED
      BY <2>1, <2>2
  <1> HIDE DEF gs, G
  <1>2. N!Part("text", <<>>) \in [type : T, groups : Seq(G)]
    BY DEF N!Part
  <1>3. N!Part("delivery-status", gs) \in [type : T, groups : Seq(G)]
    BY <1>1 DEF N!Part
  <1>4. report \in Seq([type : T, groups : Seq(G)]) /\ Len(report) = 2
    <2> DEFINE Parts == [type : T, groups : Seq(G)]
    <2>1. N!Part("text", <<>>) \in Parts /\ N!Part("delivery-status", gs) \in Parts
      BY <1>2, <1>3
    <2>2. report \in Seq(Parts) /\ Len(report) = 2
      <3> HIDE DEF Parts
      <3> QED
        BY <2>1
    <2> QED
      BY <2>2
  <1>5. report[1].type = "text" /\ report[2].type = "delivery-status" /\ report[2].groups = gs
    BY DEF N!Part
  <1> HIDE DEF report
  <1>6. Len(N!Bounded(report)) = 2
    <2>1. maxMIMEParts \in Nat /\ maxMIMEParts >= 2
      BY DEF N!FeedbackAssumption
    <2>2. Len(N!Bounded(report)) = IF Len(report) < maxMIMEParts THEN Len(report) ELSE maxMIMEParts
      BY <1>4, BoundedPrefix
    <2> QED
      BY <1>4, <2>1, <2>2
  <1>7. PICK out \in [0..Len(N!Bounded(report)) -> Seq(G)] :
           /\ PartsRead(out, report)
           /\ N!ParseDSN(report) = out[Len(N!Bounded(report))]
    BY <1>4, ParseReads
  <1>8. out[0] = <<>> /\ out[1] = out[0] /\ out[2] = out[1] \o N!parseDeliveryStatus(report[2])
    <2>1. 1 \in 1..Len(N!Bounded(report)) /\ 2 \in 1..Len(N!Bounded(report))
      BY <1>6
    <2>2. PartsRead(out, report)
      BY <1>7
    <2>3. out[1] = IF report[1].type = "delivery-status"
                   THEN out[1 - 1] \o N!parseDeliveryStatus(report[1]) ELSE out[1 - 1]
      BY <2>1, <2>2 DEF PartsRead
    <2>4. out[2] = IF report[2].type = "delivery-status"
                   THEN out[2 - 1] \o N!parseDeliveryStatus(report[2]) ELSE out[2 - 1]
      BY <2>1, <2>2 DEF PartsRead
    <2>5. out[0] = <<>>
      BY <2>2 DEF PartsRead
    <2>6. 1 - 1 = 0 /\ 2 - 1 = 1
      OBVIOUS
    <2> QED
      BY <2>3, <2>4, <2>5, <2>6, <1>5
  <1>9. N!parseDeliveryStatus(report[2]) = N!Bounded(gs)
    BY <1>5 DEF N!parseDeliveryStatus
  <1>10. N!Bounded(gs) \in Seq(G)
    BY <1>1, BoundedPrefix
  <1>11. out[2] = N!Bounded(gs)
    BY <1>8, <1>9, <1>10
  <1>12. N!Generate(f, N!Envelope) = report
    BY OwnReports DEF report, gs
  <1> QED
    BY <1>1, <1>6, <1>7, <1>11, <1>12 DEF gs, G

(* ReportsReadBack, whatever the recipients are. *)
LEMMA OwnReportsReadBack ==
  ASSUME N!FeedbackAssumption
  PROVE  N!ReportsReadBack
  <1> SUFFICES ASSUME NEW a \in N!Attempts, NEW f \in N!Classify(a, "failed"), N!Eligible(f)
               PROVE  LET groups == N!ParseDSN(N!Generate(f, N!Envelope))
                      IN /\ [i \in DOMAIN groups |-> N!Normalize(groups[i].to)] = N!Bounded(Recipients)
                         /\ f.to # N!NoOne => \A i \in DOMAIN groups :
                              N!ClassifyDSN(groups[i]) = "bounce_permanent" => N!Normalize(groups[i].to) = f.to
    BY Zenon DEF N!ReportsReadBack
  <1> DEFINE gs == [i \in 1..Len(Recipients) |-> OwnGroup(f, Recipients[i])]
             G == {OwnGroup(f, b) : b \in N!Mailboxes}
             n == Len(N!Bounded(Recipients))
  <1>1. gs \in Seq(G) /\ Len(gs) = Len(Recipients) /\ N!ParseDSN(N!Generate(f, N!Envelope)) = N!Bounded(gs)
    BY OwnReportsRead
  <1>2. /\ N!Bounded(Recipients) \in Seq(N!Mailboxes) /\ n \in Nat
        /\ \A i \in 1..n : i \in 1..Len(Recipients) /\ N!Bounded(Recipients)[i] = Recipients[i]
        /\ n = IF Len(Recipients) < maxMIMEParts THEN Len(Recipients) ELSE maxMIMEParts
    <2>1. Recipients \in Seq(N!Mailboxes)
      BY DEF N!FeedbackAssumption
    <2> QED
      BY <2>1, BoundedPrefix
  <1>3. /\ N!Bounded(gs) \in Seq(G)
        /\ Len(N!Bounded(gs)) = IF Len(gs) < maxMIMEParts THEN Len(gs) ELSE maxMIMEParts
        /\ \A i \in 1..Len(N!Bounded(gs)) : N!Bounded(gs)[i] = gs[i]
    <2> HIDE DEF gs, G
    <2> QED
      BY <1>1, BoundedPrefix
  <1>4. Len(N!Bounded(gs)) = n
    <2> HIDE DEF gs, n
    <2> QED
      BY <1>1, <1>2, <1>3
  <1>5. PICK groups : groups = N!Bounded(gs)
    OBVIOUS
  <1>6. DOMAIN groups = 1..n
    <2> HIDE DEF gs, n, G
    <2> QED
      BY <1>3, <1>4, <1>5
  <1>7. ASSUME NEW i \in 1..n PROVE groups[i] = OwnGroup(f, Recipients[i])
    <2>1. groups[i] = gs[i]
      <3> HIDE DEF gs, n
      <3> QED
        BY <1>3, <1>4, <1>5
    <2>2. i \in 1..Len(Recipients)
      BY <1>2
    <2>3. gs[i] = OwnGroup(f, Recipients[i])
      <3> HIDE DEF n
      <3> QED
        BY <2>2
    <2> QED
      BY <2>1, <2>3
  <1>8. ASSUME NEW b PROVE N!Normalize(OwnGroup(f, b).to) = b
    BY DEF OwnGroup, N!Normalize, N!Written
  <1>9. ASSUME NEW b, f.to # N!NoOne, N!ClassifyDSN(OwnGroup(f, b)) = "bounce_permanent"
        PROVE  b = f.to
    <2> SUFFICES ASSUME f.to # b PROVE FALSE
      OBVIOUS
    <2>1. OwnGroup(f, b).status = <<>>
      BY <1>9 DEF OwnGroup, N!NoStatus
    <2>2. ~N!IsPermanent(OwnGroup(f, b).status)
      BY <2>1 DEF N!IsPermanent, N!ParseEnhancedStatus
    <2> QED
      BY <2>2, <1>9 DEF N!ClassifyDSN
  <1>10. [i \in DOMAIN groups |-> N!Normalize(groups[i].to)] = N!Bounded(Recipients)
    <2>1. \A i \in 1..n : N!Normalize(groups[i].to) = Recipients[i]
      BY <1>7, <1>8
    <2>2. N!Bounded(Recipients) = [i \in 1..n |-> Recipients[i]]
      <3>1. DOMAIN N!Bounded(Recipients) = 1..n
        BY <1>2
      <3>2. N!Bounded(Recipients) = [i \in DOMAIN N!Bounded(Recipients) |-> N!Bounded(Recipients)[i]]
        BY <1>2
      <3> HIDE DEF n
      <3> QED
        BY <3>1, <3>2, <1>2
    <2> HIDE DEF n
    <2> QED
      BY <1>6, <2>1, <2>2
  <1>11. f.to # N!NoOne => \A i \in DOMAIN groups :
           N!ClassifyDSN(groups[i]) = "bounce_permanent" => N!Normalize(groups[i].to) = f.to
    <2> HIDE DEF n
    <2> QED
      BY <1>6, <1>7, <1>8, <1>9
  <1> HIDE DEF gs
  <1> QED
    BY <1>1, <1>5, <1>10, <1>11

(* What a request can have left to process. *)
Failures == UNION {N!Classify(a, "failed") : a \in N!Attempts}
ReportGroups == Foreign \cup {OwnGroup(f, b) : f \in Failures, b \in N!Mailboxes}
FeedbackItems ==
  {N!FromDSN(g) : g \in ReportGroups}
    \cup {N!FromComplaint(N!Written(form, b)) : form \in {"bare", "named"}, b \in N!Mailboxes}

LEMMA ReportsGiveItems ==
  ASSUME N!FeedbackAssumption, NEW r \in N!Reports
  PROVE  N!ItemsOf(N!ParseDSN(r)) \in Seq(FeedbackItems)
  <1>1. \A g \in ReportGroups : N!FromDSN(g) \in FeedbackItems
    BY DEF FeedbackItems
  <1>2. N!ParseDSN(r) \in Seq(ReportGroups)
    <2>1. CASE r \in N!Own
      <3>1. PICK f \in Failures : r = N!Generate(f, N!Envelope)
        BY <2>1 DEF N!Own, Failures
      <3> DEFINE gs == [i \in 1..Len(Recipients) |-> OwnGroup(f, Recipients[i])]
                 G == {OwnGroup(f, b) : b \in N!Mailboxes}
      <3>2. gs \in Seq(G) /\ N!ParseDSN(r) = N!Bounded(gs)
        BY <3>1, OwnReportsRead
      <3>3. G \subseteq ReportGroups
        BY DEF ReportGroups
      <3> HIDE DEF gs, G
      <3>4. N!Bounded(gs) \in Seq(G)
        BY <3>2, BoundedPrefix
      <3> QED
        BY <3>2, <3>3, <3>4
    <2>2. CASE r \notin N!Own
      <3>1. PICK gs \in {<<g>> : g \in Foreign} \cup Foreign \X Foreign : r = <<N!Part("delivery-status", gs)>>
        BY <2>2 DEF N!Reports
      <3>2. Foreign \subseteq ReportGroups
        BY DEF ReportGroups
      <3>3. gs \in Seq(ReportGroups)
        <4>1. CASE gs \in Foreign \X Foreign
          <5>1. PICK g \in Foreign, h \in Foreign : gs = <<g, h>>
            BY <4>1
          <5>2. g \in ReportGroups /\ h \in ReportGroups
            BY <3>2
          <5>3. <<g, h>> \in Seq(ReportGroups)
            BY <5>2
          <5> QED
            BY <5>1, <5>3
        <4>2. CASE gs \notin Foreign \X Foreign
          <5>1. PICK g \in Foreign : gs = <<g>>
            BY <4>2, <3>1
          <5>2. g \in ReportGroups
            BY <3>2
          <5>3. <<g>> \in Seq(ReportGroups)
            BY <5>2
          <5> QED
            BY <5>1, <5>3
        <4> QED
          BY <4>1, <4>2
      <3> DEFINE Parts == [type : {"delivery-status"}, groups : Seq(ReportGroups)]
      <3>4. N!Part("delivery-status", gs) \in Parts
        BY <3>3 DEF N!Part
      <3>5. r \in Seq(Parts)
        <4> HIDE DEF Parts
        <4> QED
          BY <3>1, <3>4
      <3>6. PICK out \in [0..Len(N!Bounded(r)) -> Seq(ReportGroups)] :
               /\ PartsRead(out, r) /\ N!ParseDSN(r) = out[Len(N!Bounded(r))]
        BY <3>5, ParseReads
      <3>7. Len(N!Bounded(r)) \in 0..Len(N!Bounded(r))
        <4>1. Len(N!Bounded(r)) \in Nat
          <5> HIDE DEF Parts
          <5> QED
            BY <3>5, BoundedPrefix
        <4> QED
          BY <4>1
      <3> QED
        BY <3>6, <3>7
    <2> QED
      BY <2>1, <2>2
  <1> QED
    BY <1>1, <1>2, ItemsRead

(* A complaint has no status. *)
LEMMA ComplaintHasNoStatus ==
  ASSUME NEW x \in FeedbackItems, x.kind = "complaint"
  PROVE  x.status = N!NoStatus
  <1>1. ASSUME NEW g, x = N!FromDSN(g) PROVE FALSE
    <2>1. x.kind = N!ClassifyDSN(g)
      BY <1>1 DEF N!FromDSN
    <2>2. N!ClassifyDSN(g) \in {"bounce_permanent", "bounce_temporary", "bounce_unknown"}
      BY DEF N!ClassifyDSN
    <2> QED
      BY <2>1, <2>2
  <1>2. PICK form, b : x = N!FromComplaint(N!Written(form, b))
    BY <1>1 DEF FeedbackItems
  <1> QED
    BY <1>2 DEF N!FromComplaint

-----------------------------------------------------------------------------

RowsOf(X, b) == {r \in X : r[1] = b}

(* The feedback invariant: what is on the list was proven, an event has its *)
(* row, and a request holds only items its report can be read as.           *)
FeedbackTypes ==
  /\ fstat \in [N!Mailboxes -> {"none", "bounced", "complained"}]
  /\ supp \in [N!Mailboxes -> {"none", "manual", "hard_bounce", "complaint"}]
  /\ events \in [N!Mailboxes -> Seq({"bounced", "complained"})]
  /\ IsFiniteSet(nRows) /\ nReq = [p \in Procs |-> nReq[p]]
HoldsItems(r) == \E raw : \E items \in Seq(FeedbackItems) : r = [raw |-> raw, items |-> items]
SuppressedByProof(b) ==
  /\ supp[b] = "hard_bounce" => N!HardProof(b, proof)
  /\ supp[b] = "complaint" => <<b, "complaint", N!NoStatus>> \in proof
EventsHaveRows(b) == Len(events[b]) <= Cardinality(RowsOf(nRows, b))
FeedbackInv ==
  /\ FeedbackTypes
  /\ \A p \in Procs : HoldsItems(nReq[p])
  /\ \A b \in N!Mailboxes : SuppressedByProof(b)
  /\ \A b \in N!Mailboxes : EventsHaveRows(b)

LEMMA FeedbackCardinality ==
  ASSUME NEW X PROVE N!Cardinality(X) = Cardinality(X)
  BY DEF N!Cardinality, Cardinality

LEMMA FeedbackInvSuffices ==
  ASSUME N!FeedbackAssumption, FeedbackInv
  PROVE  N!TypeOK /\ N!ReportsReadBack /\ N!SuppressionNeedsProof
  <1>1. N!TypeOK
    BY DEF FeedbackInv, FeedbackTypes, N!TypeOK
  <1>2. N!ReportsReadBack
    BY OwnReportsReadBack
  <1>3. N!SuppressionNeedsProof
    <2> SUFFICES ASSUME NEW b \in N!Mailboxes
                 PROVE  /\ supp[b] = "hard_bounce" => N!HardProof(b, proof)
                        /\ supp[b] = "complaint" => <<b, "complaint", N!NoStatus>> \in proof
                        /\ Len(events[b]) <= N!Cardinality({r \in nRows : r[1] = b})
      BY Zenon DEF N!SuppressionNeedsProof
    <2>1. Len(events[b]) <= Cardinality({r \in nRows : r[1] = b})
      BY DEF FeedbackInv, EventsHaveRows, RowsOf
    <2>2. N!Cardinality({r \in nRows : r[1] = b}) = Cardinality({r \in nRows : r[1] = b})
      BY FeedbackCardinality
    <2> QED
      BY <2>1, <2>2 DEF FeedbackInv, SuppressedByProof
  <1> QED
    BY <1>1, <1>2, <1>3

LEMMA IdleHoldsItems ==
  HoldsItems(N!Idle)
  <1>1. <<>> \in Seq(FeedbackItems)
    OBVIOUS
  <1> QED
    BY <1>1, Zenon DEF N!Idle, HoldsItems

LEMMA FeedbackInitInv ==
  ASSUME N!Init PROVE FeedbackInv
  <1>1. FeedbackTypes
    BY FS_EmptySet DEF N!Init, FeedbackTypes
  <1>2. ASSUME NEW p \in Procs PROVE HoldsItems(nReq[p])
    <2>1. nReq[p] = N!Idle
      BY DEF N!Init
    <2> QED
      BY <2>1, IdleHoldsItems
  <1>3. ASSUME NEW b \in N!Mailboxes PROVE SuppressedByProof(b) /\ EventsHaveRows(b)
    <2>1. RowsOf(nRows, b) = {}
      BY DEF N!Init, RowsOf
    <2>2. events[b] = <<>> /\ supp[b] = "none"
      BY DEF N!Init
    <2>3. Len(events[b]) = 0 /\ Cardinality(RowsOf(nRows, b)) = 0
      BY <2>1, <2>2, FS_EmptySet
    <2> QED
      BY <2>2, <2>3 DEF SuppressedByProof, EventsHaveRows
  <1> QED
    BY <1>1, <1>2, <1>3 DEF FeedbackInv

(* A report that comes in changes no row: its items are kept for later. *)
LEMMA FeedbackIngest ==
  ASSUME N!FeedbackAssumption, FeedbackInv, NEW q \in Procs,
         NEW raw, NEW items \in Seq(FeedbackItems), N!resolveMessageID(q, raw, items),
         UNCHANGED <<fstat, nRows, supp, events, proof>>
  PROVE  FeedbackInv'
  <1>1. nReq' = [nReq EXCEPT ![q] = [raw |-> raw, items |-> items]]
    BY DEF N!resolveMessageID
  <1>2. FeedbackTypes'
    BY <1>1 DEF FeedbackInv, FeedbackTypes
  <1>3. ASSUME NEW p \in Procs PROVE HoldsItems(nReq'[p])
    <2>1. HoldsItems([raw |-> raw, items |-> items])
      BY Zenon DEF HoldsItems
    <2>2. nReq'[p] = IF p = q THEN [raw |-> raw, items |-> items] ELSE nReq[p]
      BY <1>1 DEF FeedbackInv, FeedbackTypes
    <2> QED
      BY <2>1, <2>2 DEF FeedbackInv
  <1>4. ASSUME NEW b \in N!Mailboxes PROVE SuppressedByProof(b)' /\ EventsHaveRows(b)'
    BY DEF FeedbackInv, SuppressedByProof, EventsHaveRows
  <1> QED
    BY <1>2, <1>3, <1>4 DEF FeedbackInv

(* The operator's own suppressions say nothing of reports. *)
LEMMA FeedbackListed ==
  ASSUME FeedbackInv, NEW q \in N!Mailboxes, NEW reason \in {"none", "manual"},
         \/ supp' = [supp EXCEPT ![q] = reason]
         \/ supp' = supp,
         UNCHANGED <<fstat, nRows, events, nReq, proof>>
  PROVE  FeedbackInv'
  <1>1. FeedbackTypes'
    BY DEF FeedbackInv, FeedbackTypes
  <1>2. ASSUME NEW p \in Procs PROVE HoldsItems(nReq'[p])
    BY DEF FeedbackInv
  <1>3. ASSUME NEW b \in N!Mailboxes PROVE SuppressedByProof(b)'
    <2>1. supp'[b] = supp[b] \/ supp'[b] \in {"none", "manual"}
      BY DEF FeedbackInv, FeedbackTypes
    <2>2. CASE supp'[b] = supp[b]
      BY <2>2 DEF FeedbackInv, SuppressedByProof
    <2>3. CASE supp'[b] \in {"none", "manual"}
      BY <2>3 DEF SuppressedByProof
    <2> QED
      BY <2>1, <2>2, <2>3
  <1>4. ASSUME NEW b \in N!Mailboxes PROVE EventsHaveRows(b)'
    BY DEF FeedbackInv, EventsHaveRows
  <1> QED
    BY <1>1, <1>2, <1>3, <1>4 DEF FeedbackInv

(* The request after one of its items. *)
LEMMA FeedbackItemDone ==
  ASSUME FeedbackInv, NEW q \in Procs, nReq[q].items # <<>>,
         nReq' = [nReq EXCEPT ![q] = IF Len(@.items) = 1 THEN N!Idle
                                      ELSE [raw |-> @.raw, items |-> Tail(@.items)]]
  PROVE  /\ Head(nReq[q].items) \in FeedbackItems
         /\ nReq' = [p \in Procs |-> nReq'[p]]
         /\ \A p \in Procs : HoldsItems(nReq'[p])
  <1>1. PICK raw : \E items \in Seq(FeedbackItems) : nReq[q] = [raw |-> raw, items |-> items]
    BY DEF FeedbackInv, HoldsItems
  <1>2. PICK items \in Seq(FeedbackItems) : nReq[q] = [raw |-> raw, items |-> items]
    BY <1>1
  <1>3. nReq[q].items = items /\ items # <<>>
    BY <1>2
  <1>4. Head(items) \in FeedbackItems /\ Tail(items) \in Seq(FeedbackItems)
    BY <1>3
  <1>5. nReq = [p \in Procs |-> nReq[p]]
    BY DEF FeedbackInv, FeedbackTypes
  <1>6. nReq'[q] = IF Len(items) = 1 THEN N!Idle ELSE [raw |-> raw, items |-> Tail(items)]
    <2>1. nReq[q].raw = raw
      BY <1>2
    <2>2. nReq'[q] = IF Len(nReq[q].items) = 1 THEN N!Idle
                     ELSE [raw |-> nReq[q].raw, items |-> Tail(nReq[q].items)]
      BY <1>5
    <2> QED
      BY <2>1, <2>2, <1>3
  <1>7. ASSUME NEW p \in Procs PROVE HoldsItems(nReq'[p])
    <2>1. CASE p = q
      <3>1. HoldsItems([raw |-> raw, items |-> Tail(items)])
        BY <1>4, Zenon DEF HoldsItems
      <3> QED
        BY <2>1, <3>1, <1>6, IdleHoldsItems
    <2>2. CASE p # q
      <3>1. nReq'[p] = nReq[p]
        BY <2>2, <1>5
      <3> QED
        BY <3>1 DEF FeedbackInv
    <2> QED
      BY <2>1, <2>2
  <1>8. nReq' = [p \in Procs |-> nReq'[p]]
    BY <1>5
  <1> QED
    BY <1>3, <1>4, <1>7, <1>8

(* A row more of one address. *)
RowAddedTo(X, Y, b) ==
  /\ IsFiniteSet(Y) /\ Cardinality(RowsOf(X, b)) \in Nat
  /\ Cardinality(RowsOf(Y, b)) = Cardinality(RowsOf(X, b)) + 1
  /\ \A c : c # b => RowsOf(Y, c) = RowsOf(X, c)

LEMMA FeedbackRowAdded ==
  ASSUME NEW X, IsFiniteSet(X), NEW b, NEW raw, <<b, raw>> \notin X,
         NEW Y, Y = X \cup {<<b, raw>>}
  PROVE  RowAddedTo(X, Y, b)
  <1>1. IsFiniteSet(RowsOf(X, b))
    <2>1. RowsOf(X, b) \subseteq X
      BY DEF RowsOf
    <2> QED
      BY <2>1, FS_Subset
  <1>2. RowsOf(X \cup {<<b, raw>>}, b) = RowsOf(X, b) \cup {<<b, raw>>} /\ <<b, raw>> \notin RowsOf(X, b)
    BY DEF RowsOf
  <1>3. Cardinality(RowsOf(X, b)) \in Nat
    BY <1>1, FS_CardinalityType
  <1>4. Cardinality(RowsOf(X, b) \cup {<<b, raw>>}) = Cardinality(RowsOf(X, b)) + 1
    BY <1>1, <1>2, FS_AddElement
  <1>5. IsFiniteSet(X \cup {<<b, raw>>})
    BY FS_AddElement
  <1>6. ASSUME NEW c, c # b PROVE RowsOf(X \cup {<<b, raw>>}, c) = RowsOf(X, c)
    BY <1>6 DEF RowsOf
  <1> QED
    BY <1>2, <1>3, <1>4, <1>5, <1>6 DEF RowAddedTo

(* One item in its transaction. *)
LEMMA FeedbackProcessed ==
  ASSUME FeedbackInv, NEW q \in Procs, N!ProcessFeedback(q)
  PROVE  FeedbackInv'
  <1>1. PICK f : f = Head(nReq[q].items)
    OBVIOUS
  <1>2. PICK b : b = N!Normalize(f.to)
    OBVIOUS
  <1>3. PICK raw : raw = nReq[q].raw
    OBVIOUS
  <1> DEFINE fresh == b \in N!Mailboxes /\ <<b, raw>> \notin nRows
             moves == fresh /\ N!Transitions(b, f)
             why == IF f.kind = "complaint" THEN "complaint" ELSE "hard_bounce"
  <1>4. /\ nReq[q].items # <<>>
        /\ nReq' = [nReq EXCEPT ![q] = IF Len(@.items) = 1 THEN N!Idle
                                      ELSE [raw |-> @.raw, items |-> Tail(@.items)]]
    BY DEF N!ProcessFeedback
  <1>5. /\ nRows' = IF fresh THEN nRows \cup {<<b, raw>>} ELSE nRows
        /\ fstat' = IF moves THEN [fstat EXCEPT ![b] = N!Target(f)] ELSE fstat
        /\ supp' = IF moves /\ N!ShouldSuppress(f) /\ supp[b] = "none"
                   THEN [supp EXCEPT ![b] = why] ELSE supp
        /\ events' = IF moves THEN [events EXCEPT ![b] = Append(@, N!Target(f))] ELSE events
        /\ proof' = IF fresh THEN proof \cup {<<b, f.kind, f.status>>} ELSE proof
    BY <1>1, <1>2, <1>3 DEF N!ProcessFeedback
  <1>6. f \in FeedbackItems /\ nReq' = [p \in Procs |-> nReq'[p]] /\ \A p \in Procs : HoldsItems(nReq'[p])
    BY <1>1, <1>4, FeedbackItemDone
  <1>7. N!Target(f) \in {"bounced", "complained"}
    BY DEF N!Target
  <1>8. FeedbackTypes
    BY DEF FeedbackInv
  <1> HIDE DEF why
  <1>9. CASE ~fresh
    <2>1. nRows' = nRows /\ fstat' = fstat /\ supp' = supp /\ events' = events /\ proof' = proof
      BY <1>5, <1>9
    <2>2. FeedbackTypes'
      BY <1>6, <1>8, <2>1 DEF FeedbackTypes
    <2>3. ASSUME NEW c \in N!Mailboxes PROVE SuppressedByProof(c)' /\ EventsHaveRows(c)'
      BY <2>1 DEF FeedbackInv, SuppressedByProof, EventsHaveRows
    <2> QED
      BY <1>6, <2>2, <2>3 DEF FeedbackInv
  <1>10. CASE fresh
    <2>1. b \in N!Mailboxes /\ <<b, raw>> \notin nRows /\ nRows' = nRows \cup {<<b, raw>>}
      BY <1>5, <1>10
    <2>2. proof' = proof \cup {<<b, f.kind, f.status>>}
      BY <1>5, <1>10
    <2>3. /\ IsFiniteSet(nRows') /\ Cardinality(RowsOf(nRows, b)) \in Nat
          /\ Cardinality(RowsOf(nRows', b)) = Cardinality(RowsOf(nRows, b)) + 1
          /\ \A c : c # b => RowsOf(nRows', c) = RowsOf(nRows, c)
      <3>1. IsFiniteSet(nRows)
        BY <1>8 DEF FeedbackTypes
      <3>2. PICK X, Y : X = nRows /\ Y = nRows'
        OBVIOUS
      <3>3. Y = X \cup {<<b, raw>>} /\ IsFiniteSet(X) /\ <<b, raw>> \notin X
        BY <2>1, <3>1, <3>2
      <3>4. RowAddedTo(X, Y, b)
        BY <3>3, FeedbackRowAdded
      <3> QED
        BY <3>2, <3>4 DEF RowAddedTo
    <2>4. fstat' = fstat \/ fstat' = [fstat EXCEPT ![b] = N!Target(f)]
      BY <1>5
    <2>5. \/ supp' = supp
          \/ N!Transitions(b, f) /\ N!ShouldSuppress(f) /\ supp' = [supp EXCEPT ![b] = why]
      BY <1>5
    <2>6. events' = events \/ events' = [events EXCEPT ![b] = Append(@, N!Target(f))]
      BY <1>5
    <2> HIDE DEF fresh, moves
    <2>7. fstat' \in [N!Mailboxes -> {"none", "bounced", "complained"}]
      BY <1>7, <1>8, <2>4 DEF FeedbackTypes
    <2>8. supp' \in [N!Mailboxes -> {"none", "manual", "hard_bounce", "complaint"}]
      <3>1. why \in {"hard_bounce", "complaint"}
        BY DEF why
      <3> QED
        BY <3>1, <1>8, <2>5 DEF FeedbackTypes
    <2>9. events[b] \in Seq({"bounced", "complained"})
      BY <1>8, <2>1 DEF FeedbackTypes
    <2>10. Append(events[b], N!Target(f)) \in Seq({"bounced", "complained"})
      BY <1>7, <2>9
    <2>11. events' \in [N!Mailboxes -> Seq({"bounced", "complained"})]
      <3> DEFINE Kinds == Seq({"bounced", "complained"})
      <3>1. events \in [N!Mailboxes -> Kinds] /\ Append(events[b], N!Target(f)) \in Kinds
        BY <1>8, <2>10 DEF FeedbackTypes
      <3> HIDE DEF Kinds
      <3>2. events' \in [N!Mailboxes -> Kinds]
        BY <2>6, <3>1
      <3> QED
        BY <3>2 DEF Kinds
    <2>12. FeedbackTypes'
      BY <1>6, <2>3, <2>7, <2>8, <2>11 DEF FeedbackTypes
    <2>13. ASSUME NEW c \in N!Mailboxes PROVE SuppressedByProof(c)'
      <3>1. SuppressedByProof(c)
        BY DEF FeedbackInv
      <3>2. proof \subseteq proof'
        BY <2>2
      <3>3. CASE supp'[c] = supp[c]
        BY <3>1, <3>2, <3>3 DEF SuppressedByProof, N!HardProof
      <3>4. CASE supp'[c] # supp[c]
        <4>1. c = b /\ N!ShouldSuppress(f) /\ supp'[c] = why
          BY <1>8, <2>1, <2>5, <3>4 DEF FeedbackTypes
        <4>2. <<b, f.kind, f.status>> \in proof'
          BY <2>2
        <4>3. CASE f.kind = "complaint"
          <5>1. f.status = N!NoStatus
            BY <1>6, <4>3, ComplaintHasNoStatus
          <5>2. why = "complaint"
            BY <4>3 DEF why
          <5> QED
            BY <4>1, <4>2, <4>3, <5>1, <5>2 DEF SuppressedByProof
        <4>4. CASE f.kind # "complaint"
          <5>1. f.kind = "bounce_permanent" /\ f.status \in {<<5, 1, 1>>, <<5, 1, 6>>}
            BY <4>1, <4>4 DEF N!ShouldSuppress, N!QualifiesAsyncHardBounce, N!hardBounceEnhancedStatuses
          <5>2. why = "hard_bounce"
            BY <4>4 DEF why
          <5>3. <<b, "bounce_permanent", f.status>> \in proof'
            BY <4>2, <5>1
          <5>4. PICK facts : facts = proof'
            OBVIOUS
          <5>5. N!HardProof(b, facts)
            BY <5>1, <5>3, <5>4, Zenon DEF N!HardProof
          <5>6. N!HardProof(b, proof')
            BY <5>4, <5>5
          <5> QED
            BY <4>1, <5>2, <5>6 DEF SuppressedByProof
        <4> QED
          BY <4>3, <4>4
      <3> QED
        BY <3>3, <3>4
    <2>14. ASSUME NEW c \in N!Mailboxes PROVE EventsHaveRows(c)'
      <3>1. Len(events[c]) <= Cardinality(RowsOf(nRows, c)) /\ Len(events[c]) \in Nat
        BY <1>8 DEF FeedbackInv, EventsHaveRows, FeedbackTypes
      <3>2. CASE c # b
        <4>1. events'[c] = events[c]
          BY <1>8, <2>6, <3>2 DEF FeedbackTypes
        <4> QED
          BY <2>3, <3>1, <3>2, <4>1 DEF EventsHaveRows
      <3>3. CASE c = b
        <4>1. Len(Append(events[b], N!Target(f))) = Len(events[b]) + 1
          BY <1>7, <2>9
        <4>2. events'[b] = events[b] \/ events'[b] = Append(events[b], N!Target(f))
          BY <1>8, <2>1, <2>6 DEF FeedbackTypes
        <4>3. Len(events'[b]) <= Len(events[b]) + 1
          BY <3>1, <3>3, <4>1, <4>2
        <4>4. Len(events'[b]) \in Nat
          BY <2>1, <2>11
        <4> QED
          BY <2>3, <3>1, <3>3, <4>3, <4>4 DEF EventsHaveRows
      <3> QED
        BY <3>2, <3>3
    <2> QED
      BY <1>6, <2>12, <2>13, <2>14 DEF FeedbackInv
  <1> QED
    BY <1>9, <1>10

LEMMA FeedbackStep ==
  ASSUME N!FeedbackAssumption, FeedbackInv, [N!Next]_N!vars
  PROVE  FeedbackInv'
  <1>1. CASE N!handleCreate
    <2>1. PICK b \in N!Mailboxes : N!CreateSuppression(b, "manual")
      BY <1>1 DEF N!handleCreate
    <2>2. supp' = supp \/ supp' = [supp EXCEPT ![b] = "manual"]
      BY <2>1 DEF N!CreateSuppression
    <2>3. UNCHANGED <<fstat, nRows, events, nReq, proof>>
      BY <1>1 DEF N!handleCreate
    <2> QED
      BY <2>2, <2>3, FeedbackListed
  <1>2. CASE N!handleDelete
    <2>1. PICK b \in N!Mailboxes : supp' = [supp EXCEPT ![b] = "none"]
      BY <1>2 DEF N!handleDelete
    <2>2. UNCHANGED <<fstat, nRows, events, nReq, proof>>
      BY <1>2 DEF N!handleDelete
    <2> QED
      BY <2>1, <2>2, FeedbackListed
  <1>3. ASSUME NEW q \in Procs, N!handleIngest(q) PROVE FeedbackInv'
    <2>1. UNCHANGED <<fstat, nRows, supp, events, proof>>
      BY <1>3 DEF N!handleIngest
    <2>2. CASE \E r \in N!Reports : N!resolveMessageID(q, <<r, 0>>, N!ItemsOf(N!ParseDSN(r)))
      <3>1. PICK r \in N!Reports : N!resolveMessageID(q, <<r, 0>>, N!ItemsOf(N!ParseDSN(r)))
        BY <2>2
      <3>2. N!ItemsOf(N!ParseDSN(r)) \in Seq(FeedbackItems)
        BY ReportsGiveItems
      <3> QED
        BY <2>1, <3>1, <3>2, FeedbackIngest
    <2>3. CASE ~\E r \in N!Reports : N!resolveMessageID(q, <<r, 0>>, N!ItemsOf(N!ParseDSN(r)))
      <3>1. PICK b \in N!Mailboxes, form \in {"bare", "named"}, at \in {0, nMade + 1} :
              N!resolveMessageID(q, <<<<N!Part("complaint", <<N!Written(form, b)>>)>>, at>>,
                                 <<N!FromComplaint(N!Written(form, b))>>)
        BY <1>3, <2>3 DEF N!handleIngest
      <3>2. N!FromComplaint(N!Written(form, b)) \in FeedbackItems
        BY DEF FeedbackItems
      <3>3. <<N!FromComplaint(N!Written(form, b))>> \in Seq(FeedbackItems)
        BY <3>2
      <3> QED
        BY <2>1, <3>1, <3>3, FeedbackIngest
    <2> QED
      BY <2>2, <2>3
  <1>4. ASSUME NEW q \in Procs, N!ProcessFeedback(q) PROVE FeedbackInv'
    BY <1>4, FeedbackProcessed
  <1>5. ASSUME NEW q \in Procs, N!IngestFails(q) PROVE FeedbackInv'
    <2>1. N!resolveMessageID(q, <<>>, <<>>)
      BY <1>5 DEF N!IngestFails, N!resolveMessageID, N!Idle
    <2>2. UNCHANGED <<fstat, nRows, supp, events, proof>>
      BY <1>5 DEF N!IngestFails
    <2>3. <<>> \in Seq(FeedbackItems)
      OBVIOUS
    <2> QED
      BY <2>1, <2>2, <2>3, FeedbackIngest
  <1>6. CASE UNCHANGED N!vars
    BY <1>6 DEF N!vars, FeedbackInv, FeedbackTypes, SuppressedByProof, EventsHaveRows
  <1> QED
    BY <1>1, <1>2, <1>3, <1>4, <1>5, <1>6 DEF N!Next

LEMMA FeedbackAlone ==
  N!FeedbackAssumption /\ N!Spec => [](N!TypeOK /\ N!ReportsReadBack /\ N!SuppressionNeedsProof)
  <1> SUFFICES ASSUME N!FeedbackAssumption PROVE N!Spec => [](N!TypeOK /\ N!ReportsReadBack /\ N!SuppressionNeedsProof)
    OBVIOUS
  <1>1. N!Init => FeedbackInv
    BY FeedbackInitInv
  <1>2. FeedbackInv /\ [N!Next]_N!vars => FeedbackInv'
    BY FeedbackStep
  <1>3. FeedbackInv => N!TypeOK /\ N!ReportsReadBack /\ N!SuppressionNeedsProof
    BY FeedbackInvSuffices
  <1> QED
    BY <1>1, <1>2, <1>3, PTL DEF N!Spec

-----------------------------------------------------------------------------
(* Backoff: the delay is the documented formula and jitter keeps to its      *)
(* percentage.                                                             *)

(* A value in the range of a duration is not changed. *)
LEMMA WrapKeeps ==
  ASSUME Z!BackoffAssumption, NEW n \in Z!Duration
  PROVE  Z!Wrap(n) = n
  <1>1. PICK h \in Nat : h = Half /\ h > 0
    BY DEF Z!BackoffAssumption
  <1>2. n \in Int /\ -h <= n /\ n < h
    BY <1>1 DEF Z!Duration
  <1> DEFINE w == 2 * h
             q == n \div w
             m == n % w
  <1>3. w \in Nat /\ w > 0
    BY <1>1
  <1> HIDE DEF w
  <1>4. q \in Int /\ m \in Int /\ 0 <= m /\ m < w /\ n = w * q + m
    BY <1>2, <1>3
  <1> HIDE DEF q, m
  <1>5. PICK t \in Int : t = w * q
    BY <1>3, <1>4
  <1>6. q > 0 => t >= w
    BY <1>3, <1>4, <1>5
  <1>7. q < -1 => t <= -w - w
    BY <1>3, <1>4, <1>5
  <1>8. q = 0 => t = 0
    BY <1>3, <1>5
  <1>9. q = -1 => t = -w
    BY <1>3, <1>5
  <1>10. q = 0 \/ q = -1
    BY <1>1, <1>2, <1>3, <1>4, <1>5, <1>6, <1>7 DEF w
  <1>11. IF m >= h THEN m - w = n ELSE m = n
    BY <1>1, <1>2, <1>3, <1>4, <1>5, <1>8, <1>9, <1>10 DEF w
  <1>12. Z!Wrap(n) = IF m >= h THEN m - w ELSE m
    BY <1>1 DEF Z!Wrap, m, w
  <1> QED
    BY <1>11, <1>12

(* The formula, one doubling after the other. *)
Doublings(g, b, n) == g[0] = b /\ \A i \in 1..n : g[i] = g[i - 1] * 2

LEMMA PowerRead ==
  ASSUME NEW p, p.base \in Int, NEW n \in Nat \ {0}
  PROVE  \E g \in [0..(n - 1) -> Int] : Doublings(g, p.base, n - 1) /\ Z!Power(p, n) = g[n - 1]
  <1> DEFINE m == n - 1
             first == p.base
             step == [x \in (1..m) \X Int |-> x[2] * 2]
             Good(f) == f = [k \in 0..m |-> IF k = 0 THEN p.base ELSE f[k - 1] * 2]
  <1>1. m \in Nat
    OBVIOUS
  <1> HIDE DEF m
  <1>2. step \in [(1..m) \X Int -> Int]
    OBVIOUS
  <1>3. ASSUME NEW i \in 1..m, NEW s \in Int PROVE step[<<i, s>>] = s * 2
    OBVIOUS
  <1>4. \E f : Good(f)
    <2>1. PICK k : Follows(k, m, first, step)
      <3> HIDE DEF step
      <3> QED
        BY <1>1, <1>2, RecursionExists
    <2>2. k \in [0..m -> Int]
      <3> HIDE DEF step
      <3> QED
        BY <1>1, <1>2, <2>1, RecursionTyped
    <2>3. ASSUME NEW i \in 1..m PROVE k[i] = k[i - 1] * 2
      <3>1. i - 1 \in 0..m /\ k[i - 1] \in Int
        BY <1>1, <2>2
      <3> HIDE DEF step
      <3> QED
        BY <3>1, <1>3, <2>1 DEF Follows
    <2>4. k = [i \in 0..m |-> k[i]] /\ k[0] = p.base
      BY <2>1 DEF Follows
    <2>5. \A i \in 0..m : i # 0 => i \in 1..m
      BY <1>1
    <2>6. Good(k)
      BY <2>3, <2>4, <2>5
    <2> QED
      BY <2>6
  <1> DEFINE f == CHOOSE f : Good(f)
  <1>5. Good(f)
    <2> HIDE DEF Good
    <2> QED
      BY <1>4
  <1>6. Z!Power(p, n) = f[m]
    BY DEF Z!Power, m
  <1> HIDE DEF f
  <1>7. PICK g : g = f
    OBVIOUS
  <1>8. Good(g)
    <2> HIDE DEF Good
    <2> QED
      BY <1>5, <1>7
  <1>9. g = [i \in 0..m |-> g[i]] /\ g[0] = p.base
    BY <1>1, <1>8
  <1>10. ASSUME NEW i \in 1..m PROVE g[i] = g[i - 1] * 2
    <2>1. i \in 0..m /\ i # 0
      BY <1>1
    <2> QED
      BY <1>8, <2>1
  <1> HIDE DEF Good
  <1> DEFINE Typed == {i \in Nat : i <= m => g[i] \in Int}
  <1>11. Typed = Nat
    <2>1. 0 \in Typed
      BY <1>9
    <2>2. ASSUME NEW i \in Typed PROVE i + 1 \in Typed
      <3> SUFFICES ASSUME i + 1 <= m PROVE g[i + 1] \in Int
        BY <2>2
      <3>1. i + 1 \in 1..m /\ (i + 1) - 1 = i /\ g[i] \in Int
        BY <1>1, <2>2
      <3> QED
        BY <1>10, <3>1
    <2> HIDE DEF Typed
    <2>3. Typed \in SUBSET Nat
      BY DEF Typed
    <2> QED
      BY <2>1, <2>2, <2>3, NatSetInduction
  <1>12. \A i \in 0..m : g[i] \in Int
    <2> SUFFICES ASSUME NEW i \in 0..m PROVE g[i] \in Int
      OBVIOUS
    <2>1. i \in Typed /\ i <= m
      BY <1>11
    <2> QED
      BY <2>1
  <1>13. g \in [0..m -> Int]
    BY <1>9, <1>12
  <1>14. Doublings(g, p.base, m) /\ Z!Power(p, n) = g[m]
    BY <1>6, <1>7, <1>9, <1>10 DEF Doublings
  <1> QED
    BY <1>13, <1>14 DEF m

(* The loop of Delay. *)
CappedDoublings(g, p, n) ==
  /\ g[0] = p.base
  /\ \A i \in 1..n : g[i] = IF g[i - 1] > p.max \div 2 THEN p.max ELSE Z!Wrap(g[i - 1] * 2)

LEMMA DoubledRead ==
  ASSUME Z!BackoffAssumption, NEW p, p.base \in Int, p.max \in Int, NEW n \in Nat \ {0}
  PROVE  \E g : CappedDoublings(g, p, n - 1) /\ Z!Doubled(p, n) = g[n - 1]
  <1> DEFINE m == n - 1
             first == p.base
             Read(d) == IF d > p.max \div 2 THEN p.max ELSE Z!Wrap(d * 2)
             step == [x \in (1..m) \X Int |-> Read(x[2])]
             Good(f) == f = [k \in 0..m |-> IF k = 0 THEN p.base
                               ELSE IF f[k - 1] > p.max \div 2 THEN p.max ELSE Z!Wrap(f[k - 1] * 2)]
  <1>1. m \in Nat
    OBVIOUS
  <1> HIDE DEF m
  <1>2. step \in [(1..m) \X Int -> Int]
    <2>1. ASSUME NEW d \in Int PROVE Read(d) \in Int
      <3>1. PICK h \in Nat : h = Half /\ h > 0
        BY DEF Z!BackoffAssumption
      <3>2. (d * 2) % (2 * h) \in Int
        BY <3>1
      <3>3. Z!Wrap(d * 2) \in Int
        BY <3>1, <3>2 DEF Z!Wrap
      <3> QED
        BY <3>3
    <2> HIDE DEF Read
    <2> QED
      BY <2>1
  <1>3. ASSUME NEW i \in 1..m, NEW s \in Int PROVE step[<<i, s>>] = Read(s)
    <2> HIDE DEF Read
    <2> QED
      OBVIOUS
  <1>4. \E f : Good(f)
    <2>1. PICK k : Follows(k, m, first, step)
      <3> HIDE DEF step
      <3> QED
        BY <1>1, <1>2, RecursionExists
    <2>2. k \in [0..m -> Int]
      <3> HIDE DEF step
      <3> QED
        BY <1>1, <1>2, <2>1, RecursionTyped
    <2>3. ASSUME NEW i \in 1..m PROVE k[i] = Read(k[i - 1])
      <3>1. i - 1 \in 0..m /\ k[i - 1] \in Int
        BY <1>1, <2>2
      <3> HIDE DEF step, Read
      <3> QED
        BY <3>1, <1>3, <2>1 DEF Follows
    <2>4. k = [i \in 0..m |-> k[i]] /\ k[0] = p.base
      BY <2>1 DEF Follows
    <2>5. \A i \in 0..m : i # 0 => i \in 1..m
      BY <1>1
    <2>6. Good(k)
      BY <2>3, <2>4, <2>5
    <2> QED
      BY <2>6
  <1> DEFINE f == CHOOSE f : Good(f)
  <1>5. Good(f)
    <2> HIDE DEF Good
    <2> QED
      BY <1>4
  <1>6. Z!Doubled(p, n) = f[m]
    BY DEF Z!Doubled, m
  <1> HIDE DEF f
  <1>7. PICK g : g = f
    OBVIOUS
  <1>8. Good(g)
    <2> HIDE DEF Good
    <2> QED
      BY <1>5, <1>7
  <1>9. g[0] = p.base
    BY <1>1, <1>8
  <1>10. ASSUME NEW i \in 1..m PROVE g[i] = Read(g[i - 1])
    <2>1. i \in 0..m /\ i # 0
      BY <1>1
    <2> QED
      BY <1>8, <2>1
  <1>11. CappedDoublings(g, p, m) /\ Z!Doubled(p, n) = g[m]
    BY <1>6, <1>7, <1>9, <1>10 DEF CappedDoublings
  <1> QED
    BY <1>11 DEF m

(* The loop gives the formula, capped: it stops before it would wrap. *)
LEMMA DelayValue ==
  ASSUME Z!BackoffAssumption, NEW p \in Policies, NEW n \in Nat \ {0},
         p.schedule = <<>>, p.base > 0, p.max > 0
  PROVE  /\ Z!Delay(p, n) = Z!Min2(Z!Power(p, n), p.max)
         /\ Z!Delay(p, n) \in Nat /\ Z!Delay(p, n) > 0 /\ Z!Delay(p, n) <= p.max
  <1>1. PICK b \in Int : b = p.base /\ b > 0
    BY DEF Z!BackoffAssumption, Z!Duration
  <1>2. PICK c \in Int : c = p.max /\ c > 0
    BY DEF Z!BackoffAssumption, Z!Duration
  <1>3. Half \in Nat /\ c < Half
    BY <1>2 DEF Z!BackoffAssumption, Z!Duration
  <1> DEFINE m == n - 1
  <1>4. m \in Nat
    OBVIOUS
  <1>5. PICK g \in [0..m -> Int] : Doublings(g, b, m) /\ Z!Power(p, n) = g[m]
    BY <1>1, PowerRead
  <1> HIDE DEF m
  <1>6. \A i \in 0..m : g[i] \in Int
    BY <1>5
  <1>7. \A i \in 1..m : g[i] = g[i - 1] * 2
    BY <1>5 DEF Doublings
  <1>8. g[0] = b
    BY <1>5 DEF Doublings
  <1> DEFINE AtLeast == {k \in Nat : k <= m => g[k] >= b}
  <1>9. AtLeast = Nat
    <2>1. 0 \in AtLeast
      BY <1>1, <1>8
    <2>2. ASSUME NEW k \in AtLeast PROVE k + 1 \in AtLeast
      <3> SUFFICES ASSUME k + 1 <= m PROVE g[k + 1] >= b
        BY <2>2
      <3>1. k + 1 \in 1..m /\ (k + 1) - 1 = k /\ k \in 0..m /\ g[k] >= b
        BY <1>4, <2>2
      <3>2. g[k + 1] = g[k] * 2 /\ g[k] \in Int
        BY <1>6, <1>7, <3>1
      <3> QED
        BY <1>1, <3>1, <3>2
    <2> HIDE DEF AtLeast
    <2>3. AtLeast \in SUBSET Nat
      BY DEF AtLeast
    <2> QED
      BY <2>1, <2>2, <2>3, NatSetInduction
  <1>10. g[m] >= b /\ g[m] \in Int
    <2>1. m \in AtLeast
      BY <1>4, <1>9
    <2> QED
      BY <1>4, <1>6, <2>1
  <1>11. CASE b >= c
    <2>1. Z!Delay(p, n) = c
      BY <1>1, <1>2, <1>11 DEF Z!Delay
    <2>2. Z!Min2(g[m], c) = c
      BY <1>1, <1>2, <1>10, <1>11 DEF Z!Min2
    <2> QED
      BY <1>2, <1>5, <2>1, <2>2
  <1>12. CASE b < c
    <2>1. PICK f : CappedDoublings(f, p, m) /\ Z!Doubled(p, n) = f[m]
      BY <1>1, <1>2, DoubledRead DEF m
    <2>2. f[0] = b
      BY <1>1, <2>1 DEF CappedDoublings
    <2>3. \A i \in 1..m : f[i] = IF f[i - 1] > c \div 2 THEN c ELSE Z!Wrap(f[i - 1] * 2)
      BY <1>2, <2>1 DEF CappedDoublings
    <2> DEFINE Least(x) == IF x < c THEN x ELSE c
               Same == {k \in Nat : k <= m => f[k] = Least(g[k])}
    <2>4. Same = Nat
      <3>1. 0 \in Same
        BY <1>12, <1>8, <2>2
      <3>2. ASSUME NEW k \in Same PROVE k + 1 \in Same
        <4> SUFFICES ASSUME k + 1 <= m PROVE f[k + 1] = Least(g[k + 1])
          BY <3>2
        <4>1. k + 1 \in 1..m /\ (k + 1) - 1 = k /\ k \in 0..m /\ k \in Nat /\ k <= m
          BY <1>4, <3>2
        <4>2. PICK x \in Int : x = g[k]
          BY <1>6, <4>1
        <4>3. x > 0
          <5>1. k \in AtLeast
            BY <1>9, <4>1
          <5>2. g[k] >= b
            BY <4>1, <5>1
          <5> QED
            BY <1>1, <4>2, <5>2
        <4>4. g[k + 1] = x * 2
          BY <1>7, <4>1, <4>2
        <4>5. f[k] = Least(x)
          BY <4>1, <4>2, <3>2
        <4>6. f[k + 1] = IF Least(x) > c \div 2 THEN c ELSE Z!Wrap(Least(x) * 2)
          BY <2>3, <4>1, <4>5
        <4>7. CASE Least(x) > c \div 2
          <5>1. x * 2 >= c
            BY <1>2, <4>2, <4>7
          <5> QED
            BY <1>2, <4>2, <4>4, <4>6, <4>7, <5>1
        <4>8. CASE ~(Least(x) > c \div 2)
          <5>1. Least(x) = x /\ x * 2 <= c
            BY <1>2, <4>2, <4>8
          <5>2. x * 2 \in Z!Duration
            BY <1>2, <1>3, <4>2, <4>3, <5>1 DEF Z!Duration
          <5>3. Z!Wrap(x * 2) = x * 2
            BY <5>2, WrapKeeps
          <5>4. f[k + 1] = x * 2
            BY <4>6, <4>8, <5>1, <5>3
          <5> QED
            BY <1>2, <4>2, <4>4, <5>1, <5>4
        <4> QED
          BY <4>7, <4>8
      <3> HIDE DEF Same
      <3>3. Same \in SUBSET Nat
        BY DEF Same
      <3> QED
        BY <3>1, <3>2, <3>3, NatSetInduction
    <2>5. f[m] = Least(g[m])
      <3>1. m \in Same
        BY <1>4, <2>4
      <3> QED
        BY <1>4, <3>1
    <2>6. Z!Delay(p, n) = Z!Doubled(p, n)
      BY <1>1, <1>2, <1>12 DEF Z!Delay
    <2>7. Z!Min2(g[m], c) = Least(g[m])
      BY DEF Z!Min2
    <2>8. Least(g[m]) \in Nat /\ Least(g[m]) > 0 /\ Least(g[m]) <= c
      BY <1>1, <1>2, <1>10
    <2> HIDE DEF Least
    <2> QED
      BY <1>2, <1>5, <2>1, <2>5, <2>6, <2>7, <2>8
  <1> QED
    BY <1>1, <1>2, <1>11, <1>12

(* Jitter takes less than the percentage either way, and what it multiplies  *)
(* does not wrap.                                                          *)
LEMMA Quotients ==
  ASSUME NEW a \in Int, NEW k \in Nat, a <= 1000 * k, -(1000 * k) <= a
  PROVE  /\ Z!Quotient(a, 1000) \in Int
         /\ Z!Quotient(a, 1000) <= k /\ -k <= Z!Quotient(a, 1000)
  <1>1. CASE a >= 0
    BY <1>1 DEF Z!Quotient
  <1>2. CASE a < 0
    BY <1>2 DEF Z!Quotient
  <1> QED
    BY <1>1, <1>2

LEMMA JitterValue ==
  ASSUME Z!BackoffAssumption, NEW p \in Policies, p.max > 0, p.jitter > 0,
         NEW d \in Nat, d > 0, d <= p.max, NEW u \in Draws
  PROVE  LET o == Z!Jitter(p, d, u)
             pct == Z!Min2(p.jitter, 50)
         IN /\ o \in Int /\ o >= Second
            /\ p.max >= Second => o <= p.max
            /\ o > Second => 100 * o >= (100 - pct) * d /\ 100 * o <= (100 + pct) * d
  <1>1. PICK c \in Int : c = p.max /\ c > 0 /\ d <= c /\ 500 * c < Half
    BY DEF Z!BackoffAssumption, Z!Duration
  <1>2. Half \in Nat /\ Second \in Nat /\ p.jitter \in Int
    BY DEF Z!BackoffAssumption
  <1>3. u \in Int /\ -1000 <= u /\ u <= 1000
    BY DEF Z!BackoffAssumption
  <1>4. PICK j \in Nat : j = Z!Min2(p.jitter, 50) /\ 0 < j /\ j <= 50
    BY <1>2 DEF Z!Min2
  <1>5. PICK q \in Nat : q = d \div 100 /\ 100 * q <= d
    OBVIOUS
  <1>6. PICK k \in Nat : k = q * j
    BY <1>4, <1>5
  <1>7. k <= 50 * q
    BY <1>4, <1>5, <1>6
  <1>8. PICK v \in Int : v = k * u
    BY <1>3, <1>6
  <1>9. v <= 1000 * k
    BY <1>3, <1>6, <1>8
  <1>10. -(1000 * k) <= v
    BY <1>3, <1>6, <1>8
  <1>11. 1000 * k <= 500 * c
    BY <1>1, <1>5, <1>7
  <1>12. Z!Wrap(v) = v
    <2>1. v \in Z!Duration
      BY <1>1, <1>2, <1>9, <1>10, <1>11 DEF Z!Duration
    <2> QED
      BY <2>1, WrapKeeps
  <1>13. PICK x \in Int : x = Z!Quotient(v, 1000) /\ x <= k /\ -k <= x
    <2>1. /\ Z!Quotient(v, 1000) \in Int
          /\ Z!Quotient(v, 1000) <= k /\ -k <= Z!Quotient(v, 1000)
      BY <1>9, <1>10, Quotients
    <2> QED
      BY <2>1
  <1>14. 2 * k <= d
    BY <1>5, <1>7
  <1>15. Z!Wrap(d + x) = d + x
    <2>1. d + x \in Z!Duration
      BY <1>1, <1>2, <1>13, <1>14 DEF Z!Duration
    <2> QED
      BY <2>1, WrapKeeps
  <1> DEFINE spread == d + x
             capped == IF c > 0 /\ spread > c THEN c ELSE spread
             o == IF capped < Second THEN Second ELSE capped
  <1>16. Z!Jitter(p, d, u) = o
    <2>1. (d \div 100) * Z!Min2(p.jitter, 50) * u = v
      BY <1>4, <1>5, <1>6, <1>8
    <2>2. ~(p.jitter <= 0 \/ d <= 0)
      BY <1>2
    <2> QED
      BY <1>1, <1>12, <1>13, <1>15, <2>1, <2>2 DEF Z!Jitter
  <1>17. o \in Int /\ o >= Second /\ (c >= Second => o <= c)
    BY <1>1, <1>2, <1>13
  <1>18. PICK e \in Nat : e = j * d
    BY <1>4
  <1>19. 100 * k <= e
    <2>1. PICK w \in Nat : w = 100 * q /\ w <= d
      BY <1>5
    <2>2. j * w <= j * d
      BY <2>1, <1>4
    <2>3. j * w = 100 * k
      BY <2>1, <1>4, <1>5, <1>6
    <2> QED
      BY <2>2, <2>3, <1>18
  <1>20. (100 - j) * d = 100 * d - e /\ (100 + j) * d = 100 * d + e
    BY <1>4, <1>18
  <1>21. o > Second => 100 * o >= 100 * d - e /\ 100 * o <= 100 * d + e
    BY <1>1, <1>2, <1>13, <1>18, <1>19
  <1> HIDE DEF o
  <1> QED
    BY <1>1, <1>4, <1>16, <1>17, <1>20, <1>21

(* Without jitter the delay is taken as it is. *)
LEMMA NoJitter ==
  ASSUME NEW p, p.jitter <= 0, NEW d, NEW u
  PROVE  Z!Jitter(p, d, u) = d
  BY DEF Z!Jitter

-----------------------------------------------------------------------------

LEMMA BackoffInit ==
  ASSUME Z!BackoffAssumption, Z!Init
  PROVE  Z!TypeOK /\ Z!DelayIsExact
  BY DEF Z!BackoffAssumption, Z!Init, Z!TypeOK, Z!DelayIsExact

LEMMA BackoffStep ==
  ASSUME Z!BackoffAssumption, Z!TypeOK, Z!DelayIsExact, [Z!Next]_Z!vars
  PROVE  (Z!TypeOK /\ Z!DelayIsExact)'
  <1>1. CASE UNCHANGED Z!vars
    BY <1>1 DEF Z!vars, Z!TypeOK, Z!DelayIsExact
  <1>2. CASE Z!NextSchedule
    <2>0. PICK p, n : p = policy /\ n = attempt + 1
      OBVIOUS
    <2>1. /\ p = policy /\ p = policy' /\ n = attempt + 1 /\ n = attempt'
          /\ delay' = Z!Delay(p, n) /\ \E u \in Draws : zOut' = Z!Jitter(p, Z!Delay(p, n), u)
      BY <1>2, <2>0 DEF Z!NextSchedule
    <2>5. PICK u \in Draws : zOut' = Z!Jitter(p, Z!Delay(p, n), u)
      BY <2>1
    <2>2. p \in Policies /\ n \in Nat \ {0} /\ n \in 0..MaxAttempts
      BY <1>2, <2>1 DEF Z!TypeOK, Z!NextSchedule, Z!BackoffAssumption
    <2>3. Z!TypeOK'
      BY <2>1, <2>2 DEF Z!TypeOK
    <2>4. Z!DelayIsExact'
      <3> SUFFICES ASSUME p.schedule = <<>>, p.base > 0, p.max > 0
                   PROVE  /\ delay' = Z!Min2(Z!Power(p, n), p.max)
                          /\ p.max >= Second => zOut' <= p.max
                          /\ p.jitter > 0 =>
                               /\ zOut' >= Second
                               /\ zOut' > Second =>
                                    /\ 100 * zOut' >= (100 - Z!Min2(p.jitter, 50)) * delay'
                                    /\ 100 * zOut' <= (100 + Z!Min2(p.jitter, 50)) * delay'
        BY <2>1, Zenon DEF Z!DelayIsExact
      <3>1. PICK d : d = Z!Delay(p, n)
        OBVIOUS
      <3>2. d = Z!Min2(Z!Power(p, n), p.max) /\ d \in Nat /\ d > 0 /\ d <= p.max
        BY <2>2, <3>1, DelayValue
      <3>3. zOut' = Z!Jitter(p, d, u) /\ delay' = d
        BY <2>1, <2>5, <3>1
      <3>4. CASE p.jitter > 0
        BY <2>2, <3>2, <3>3, <3>4, JitterValue
      <3>5. CASE ~(p.jitter > 0)
        <4>1. p.jitter <= 0
          BY <2>2, <3>5 DEF Z!BackoffAssumption
        <4> QED
          BY <3>2, <3>3, <3>5, <4>1, NoJitter
      <3> QED
        BY <3>4, <3>5
    <2> QED
      BY <2>3, <2>4
  <1> QED
    BY <1>1, <1>2 DEF Z!Next

LEMMA BackoffAlone ==
  Z!BackoffAssumption /\ Z!Spec => [](Z!TypeOK /\ Z!DelayIsExact)
  <1> SUFFICES ASSUME Z!BackoffAssumption PROVE Z!Spec => [](Z!TypeOK /\ Z!DelayIsExact)
    OBVIOUS
  <1>1. Z!Init => Z!TypeOK /\ Z!DelayIsExact
    BY BackoffInit
  <1>2. (Z!TypeOK /\ Z!DelayIsExact) /\ [Z!Next]_Z!vars => (Z!TypeOK /\ Z!DelayIsExact)'
    BY BackoffStep
  <1> QED
    BY <1>1, <1>2, PTL DEF Z!Spec

-----------------------------------------------------------------------------
(* SPF advice.                                                              *)

(* Terms that are mechanisms of MailX: they parse, pass, and end nothing.    *)
Additions(m) ==
  \A i \in 1..Len(m) : /\ m[i].ok = TRUE /\ m[i].long = FALSE /\ m[i].q = "+"
                      /\ m[i].name \in {"ip", "include"}

(* They supply what the terms ts lack of the sending addresses. *)
Supplies(m, ts) ==
  \A k \in 1..Len(IPs) :
    E!Covers(ts, IPs[k]) # "Authorized" => \E i \in 1..Len(m) : m[i] = E!Mechanism(IPs[k])

(* What Parse accepts besides the lengths. *)
GoodTerms(ts) ==
  /\ \A i \in DOMAIN ts : ~ts[i].long /\ ts[i].ok
  /\ ~\E i, j \in DOMAIN ts :
        i # j /\ ts[i].name \in E!Modifiers /\ ts[i].name = ts[j].name

(* The include of a relay whose name is not too long. *)
Short == E!Include(FALSE)

(* What they give a server that has addresses, or an include of some length. *)
Meets(way, ts) ==
  IF way = "relay" THEN E!Includes(ts, Short)
  ELSE \A k \in 1..Len(IPs) : E!Covers(ts, IPs[k]) = "Authorized"

LEMMA MechanismTyped ==
  ASSUME E!SpfAssumption, NEW k \in 1..Len(IPs)
  PROVE  /\ E!Mechanism(IPs[k]) \in E!Terms /\ E!Mechanism(IPs[k]).ok = TRUE
         /\ E!Mechanism(IPs[k]).long = FALSE
         /\ E!Mechanism(IPs[k]).q = "+" /\ E!Mechanism(IPs[k]).name = "ip"
         /\ IPs[k] \in E!Mechanism(IPs[k]).arg
  <1>1. IPs[k] \in Nat
    BY DEF E!SpfAssumption
  <1>2. {IPs[k]} \in SUBSET Nat
    BY <1>1
  <1>4. E!Mechanism(IPs[k]) \in E!Terms
    BY <1>2 DEF E!Mechanism, E!Terms
  <1> QED
    BY <1>4 DEF E!Mechanism

LEMMA IncludeTyped ==
  ASSUME NEW long \in BOOLEAN
  PROVE  E!Include(long) \in E!Terms /\ <<E!Include(long)>> \in Seq(E!Terms)
  <1>1. {0} \in SUBSET Nat
    OBVIOUS
  <1>2. E!Include(long) \in E!Terms
    BY <1>1 DEF E!Include, E!Terms
  <1> QED
    BY <1>2

LEMMA AllTyped == E!All("~") \in E!Terms /\ <<E!All("~")>> \in Seq(E!Terms)
  <1>1. {} \in SUBSET Nat
    OBVIOUS
  <1>2. E!All("~") \in E!Terms
    BY <1>1 DEF E!All, E!Terms
  <1> QED
    BY <1>2

(* The terms of two sequences one behind the other. *)
LEMMA BehindEachOther ==
  ASSUME NEW X, NEW s \in Seq(X), NEW t \in Seq(X)
  PROVE  /\ s \o t \in Seq(X) /\ Len(s \o t) = Len(s) + Len(t) /\ Len(s) \in Nat /\ Len(t) \in Nat
         /\ DOMAIN (s \o t) = 1..(Len(s) + Len(t)) /\ DOMAIN s = 1..Len(s) /\ DOMAIN t = 1..Len(t)
         /\ \A i \in 1..Len(s) : (s \o t)[i] = s[i]
         /\ \A i \in 1..Len(t) : (s \o t)[Len(s) + i] = t[i]
  OBVIOUS

(* t is s with the element x of X at i. *)
Replaced(t, s, i, x, X) ==
  /\ t \in Seq(X) /\ DOMAIN t = DOMAIN s /\ t[i] = x
  /\ \A j \in DOMAIN s : j # i => t[j] = s[j]

LEMMA ElementReplaced ==
  ASSUME NEW X, NEW s \in Seq(X), NEW i \in DOMAIN s, NEW x \in X
  PROVE  Replaced([s EXCEPT ![i] = x], s, i, x, X)
  <1> DEFINE t == [s EXCEPT ![i] = x]
  <1>1. s \in [1..Len(s) -> X] /\ Len(s) \in Nat /\ i \in 1..Len(s)
    OBVIOUS
  <1>2. t \in [1..Len(s) -> X]
    BY <1>1
  <1>3. \A j \in 1..Len(s) : t[j] \in X
    BY <1>2
  <1>4. t = [j \in 1..Len(s) |-> t[j]]
    BY <1>2
  <1>5. t \in Seq(X)
    BY <1>1, <1>3, <1>4
  <1> QED
    BY <1>1, <1>5 DEF Replaced

LEMMA LeastOf ==
  ASSUME NEW S \in SUBSET Nat, S # {}
  PROVE  \E x \in S : \A y \in S : x <= y
  <1> DEFINE id == [n \in S |-> n]
  <1>1. id \in [S -> Nat]
    OBVIOUS
  <1>2. PICK x \in S : \A y \in S : id[x] <= id[y]
    BY <1>1, LeastValue
  <1> QED
    BY <1>2

(* Mechanisms put in front of a record that lacks them authorize every       *)
(* address, whatever the record denies: the first match decides.            *)
LEMMA FrontAuthorizes ==
  ASSUME E!SpfAssumption, NEW m \in Seq(E!Terms), NEW ts \in Seq(E!Terms),
         Additions(m), Supplies(m, ts), NEW k \in 1..Len(IPs)
  PROVE  E!Covers(m \o ts, IPs[k]) = "Authorized"
  <1> DEFINE n == Len(m)
             l == Len(ts)
             both == m \o ts
             ip == IPs[k]
             hits == E!Hits(both, ip)
  <1>1. /\ n \in Nat /\ l \in Nat /\ DOMAIN both = 1..(n + l) /\ DOMAIN ts = 1..l
        /\ \A i \in 1..n : both[i] = m[i]
        /\ \A i \in 1..l : both[n + i] = ts[i]
    BY BehindEachOther
  <1>2. Supplies(m, ts) /\ Additions(m)
    OBVIOUS
  <1>3. \A i \in 1..n : both[i].name # "all" /\ both[i].q = "+"
    BY <1>1 DEF Additions
  <1> HIDE DEF n, l, both, ip
  <1>4. \A i \in 1..n : i \in E!Reached(both)
    BY <1>1, <1>3 DEF E!Reached
  <1>5. hits \in SUBSET Nat
    BY <1>1 DEF E!Hits, E!Reached
  <1>6. ASSUME NEW x \in hits, \A y \in hits : x <= y, both[x].q = "+"
        PROVE  E!Covers(both, ip) = "Authorized"
    BY <1>6 DEF E!Covers
  <1>7. CASE \E i \in 1..n : i \in hits
    <2>1. PICK i \in 1..n : i \in hits
      BY <1>7
    <2> HIDE DEF hits
    <2>2. PICK x \in hits : \A y \in hits : x <= y
      BY <1>5, <2>1, LeastOf
    <2>3. x \in Nat /\ x <= i
      BY <1>5, <2>1, <2>2
    <2>4. x \in 1..n
      <3>1. x \in 1..(n + l)
        BY <1>1, <2>2 DEF hits, E!Hits, E!Reached
      <3> QED
        BY <1>1, <2>1, <2>3, <3>1
    <2> QED
      BY <1>3, <1>6, <2>2, <2>4 DEF both, ip
  <1>8. CASE ~\E i \in 1..n : i \in hits
    <2>1. E!Covers(ts, ip) = "Authorized"
      <3>1. SUFFICES ASSUME E!Covers(ts, ip) # "Authorized" PROVE FALSE
        OBVIOUS
      <3>2. PICK i \in 1..n : m[i] = E!Mechanism(ip)
        BY <1>2, <3>1 DEF Supplies, n, ip
      <3>3. both[i].name = "ip" /\ ip \in both[i].arg
        BY <1>1, <3>2, MechanismTyped DEF ip
      <3>4. i \in hits
        BY <1>4, <3>2, <3>3 DEF E!Hits
      <3> QED
        BY <1>8, <3>4
    <2>2. PICK h \in E!Hits(ts, ip) : ts[h].q = "+" /\ \A j \in E!Hits(ts, ip) : h <= j
      BY <2>1 DEF E!Covers
    <2>3. h \in 1..l /\ (\A j \in 1..h : ts[j].name # "all") /\ ts[h].name = "ip" /\ ip \in ts[h].arg
      BY <1>1, <2>2 DEF E!Hits, E!Reached
    <2>4. n + h \in hits
      <3>1. ASSUME NEW j \in 1..(n + h) PROVE both[j].name # "all"
        <4>1. CASE j <= n
          BY <1>1, <1>3, <4>1
        <4>2. CASE j > n
          <5>1. j - n \in 1..h /\ j - n \in 1..l /\ n + (j - n) = j
            BY <1>1, <2>3, <4>2
          <5>2. both[j] = ts[j - n]
            BY <1>1, <5>1
          <5> QED
            BY <2>3, <5>1, <5>2
        <4> QED
          BY <1>1, <2>3, <4>1, <4>2
      <3>2. n + h \in DOMAIN both /\ both[n + h] = ts[h]
        BY <1>1, <2>3
      <3> QED
        BY <2>3, <3>1, <3>2 DEF E!Hits, E!Reached
    <2>5. ASSUME NEW y \in hits PROVE n + h <= y
      <3>1. y \in 1..(n + l) /\ (\A j \in 1..y : both[j].name # "all") /\ both[y].name = "ip" /\ ip \in both[y].arg
        BY <1>1, <2>5 DEF E!Hits, E!Reached
      <3>2. y > n
        BY <1>1, <1>8, <2>5, <3>1
      <3>3. y - n \in 1..l /\ n + (y - n) = y
        BY <1>1, <3>1, <3>2
      <3>4. both[y] = ts[y - n]
        BY <1>1, <3>3
      <3>5. ASSUME NEW j \in 1..(y - n) PROVE ts[j].name # "all"
        <4>1. j \in 1..l /\ n + j \in 1..y
          BY <1>1, <3>1, <3>3
        <4>2. both[n + j] = ts[j]
          BY <1>1, <4>1
        <4> QED
          BY <3>1, <4>1, <4>2
      <3>6. y - n \in E!Hits(ts, ip)
        BY <1>1, <3>1, <3>3, <3>4, <3>5 DEF E!Hits, E!Reached
      <3>7. h <= y - n
        BY <2>2, <3>6
      <3> QED
        BY <1>1, <2>3, <3>1, <3>7
    <2>6. both[n + h].q = "+"
      BY <1>1, <2>2, <2>3
    <2> HIDE DEF hits
    <2> QED
      BY <1>6, <2>4, <2>5, <2>6 DEF both, ip
  <1> QED
    BY <1>7, <1>8

LEMMA FrontIncludes ==
  ASSUME NEW ts \in Seq(E!Terms)
  PROVE  E!Includes(<<Short>> \o ts, Short)
  <1> DEFINE both == <<Short>> \o ts
  <1>1. Short \in E!Terms /\ <<Short>> \in Seq(E!Terms)
    BY IncludeTyped DEF Short
  <1>2. 1 \in DOMAIN both /\ both[1] = Short
    BY <1>1, BehindEachOther
  <1>3. \A j \in 1..1 : j = 1
    OBVIOUS
  <1> HIDE DEF both
  <1>4. 1 \in E!Reached(both)
    BY <1>2, <1>3 DEF E!Reached, E!Include, Short
  <1> QED
    BY <1>2, <1>4 DEF E!Includes, both

(* They add nothing that Parse refuses. *)
LEMMA FrontParses ==
  ASSUME NEW m \in Seq(E!Terms), NEW ts \in Seq(E!Terms), Additions(m), GoodTerms(ts)
  PROVE  GoodTerms(m \o ts)
  <1> DEFINE n == Len(m)
             l == Len(ts)
             both == m \o ts
  <1>1. /\ n \in Nat /\ l \in Nat /\ DOMAIN both = 1..(n + l) /\ DOMAIN ts = 1..l
        /\ \A i \in 1..n : both[i] = m[i]
        /\ \A i \in 1..l : both[n + i] = ts[i]
    BY BehindEachOther
  <1>2. \A i \in 1..n : ~both[i].long /\ both[i].ok /\ both[i].name \notin E!Modifiers
    BY <1>1 DEF Additions, E!Modifiers
  <1> HIDE DEF n, l, both
  <1>3. ASSUME NEW i \in DOMAIN both, ~(i \in 1..n)
        PROVE  i - n \in 1..l /\ both[i] = ts[i - n]
    <2>1. i - n \in 1..l /\ n + (i - n) = i
      BY <1>1, <1>3
    <2> QED
      BY <1>1, <2>1
  <1>4. ASSUME NEW i \in DOMAIN both PROVE ~both[i].long /\ both[i].ok
    BY <1>1, <1>2, <1>3 DEF GoodTerms
  <1>5. ASSUME NEW i \in DOMAIN both, NEW j \in DOMAIN both, i # j,
               both[i].name \in E!Modifiers, both[i].name = both[j].name
        PROVE  FALSE
    <2>1. ~(i \in 1..n) /\ ~(j \in 1..n)
      BY <1>2, <1>5
    <2>2. i - n \in 1..l /\ j - n \in 1..l /\ i - n # j - n
      BY <1>1, <1>3, <1>5, <2>1
    <2> QED
      BY <1>1, <1>3, <1>5, <2>1, <2>2 DEF GoodTerms
  <1> QED
    BY <1>4, <1>5 DEF GoodTerms, both

(* What the loop of assess has gathered after k addresses. *)
Gathered(m, ts, k) ==
  /\ m \in Seq(E!Terms) /\ Additions(m)
  /\ \A j \in 1..k :
       E!Covers(ts, IPs[j]) # "Authorized" => \E i \in 1..Len(m) : m[i] = E!Mechanism(IPs[j])
  /\ (\A j \in 1..k : E!Covers(ts, IPs[j]) = "Authorized") => m = <<>>

LEMMA GatherOne ==
  ASSUME E!SpfAssumption, NEW ts, NEW k \in 1..Len(IPs), NEW m, Gathered(m, ts, k - 1),
         NEW g, g = IF E!Covers(ts, IPs[k]) = "Authorized" THEN m ELSE Append(m, E!Mechanism(IPs[k]))
  PROVE  Gathered(g, ts, k)
  <1> DEFINE t == E!Mechanism(IPs[k])
  <1>1. t \in E!Terms /\ t.ok = TRUE /\ t.long = FALSE /\ t.q = "+" /\ t.name = "ip"
    BY MechanismTyped
  <1>2. m \in Seq(E!Terms) /\ Len(m) \in Nat
    BY DEF Gathered
  <1>3. k \in Nat /\ k >= 1 /\ \A j \in 1..k : j = k \/ j \in 1..(k - 1)
    BY DEF E!SpfAssumption
  <1>4. CASE E!Covers(ts, IPs[k]) = "Authorized"
    <2>1. g = m
      BY <1>4
    <2>2. \A j \in 1..(k - 1) : j \in 1..k
      BY <1>3
    <2> QED
      BY <1>3, <1>4, <2>1, <2>2 DEF Gathered
  <1>5. CASE E!Covers(ts, IPs[k]) # "Authorized"
    <2> HIDE DEF t
    <2>1. g = Append(m, t)
      BY <1>5 DEF t
    <2>2. /\ g \in Seq(E!Terms) /\ Len(g) = Len(m) + 1 /\ g[Len(m) + 1] = t
          /\ \A i \in 1..Len(m) : g[i] = m[i]
      BY <1>1, <1>2, <2>1
    <2>3. \A i \in 1..Len(g) : i = Len(m) + 1 \/ i \in 1..Len(m)
      BY <1>2, <2>2
    <2>4. Additions(g)
      BY <1>1, <2>2, <2>3 DEF Additions, Gathered
    <2>5. Len(m) + 1 \in 1..Len(g) /\ \A i \in 1..Len(m) : i \in 1..Len(g)
      BY <1>2, <2>2
    <2>6. ASSUME NEW j \in 1..k, E!Covers(ts, IPs[j]) # "Authorized"
          PROVE  \E i \in 1..Len(g) : g[i] = E!Mechanism(IPs[j])
      <3>1. CASE j = k
        BY <2>2, <2>5, <3>1 DEF t
      <3>2. CASE j \in 1..(k - 1)
        <4>1. PICK i \in 1..Len(m) : m[i] = E!Mechanism(IPs[j])
          BY <2>6, <3>2 DEF Gathered
        <4> QED
          BY <2>2, <2>5, <4>1
      <3> QED
        BY <1>3, <3>1, <3>2
    <2>7. k \in 1..k
      BY <1>3
    <2> QED
      BY <1>5, <2>2, <2>4, <2>6, <2>7 DEF Gathered
  <1> QED
    BY <1>4, <1>5

LEMMA AssessGathers ==
  ASSUME E!SpfAssumption, ~E!Relayed, NEW ts
  PROVE  Gathered(E!assess(ts), ts, Len(IPs))
  <1> DEFINE n == Len(IPs)
             S == Seq(E!Terms)
             first == <<>>
             Read(i, s) == IF E!Covers(ts, IPs[i]) = "Authorized" THEN s ELSE Append(s, E!Mechanism(IPs[i]))
             step == [x \in (1..n) \X S |-> Read(x[1], x[2])]
             Good(f) == f = [k \in 0..n |->
                               IF k = 0 THEN <<>>
                               ELSE IF E!Covers(ts, IPs[k]) = "Authorized" THEN f[k - 1]
                               ELSE Append(f[k - 1], E!Mechanism(IPs[k]))]
  <1>1. n \in Nat
    BY DEF E!SpfAssumption
  <1>2. ASSUME NEW i \in 1..n PROVE E!Mechanism(IPs[i]) \in E!Terms
    BY MechanismTyped
  <1> HIDE DEF n
  <1>3. step \in [(1..n) \X S -> S]
    <2>1. ASSUME NEW i \in 1..n, NEW s \in S PROVE Read(i, s) \in S
      <3>1. Append(s, E!Mechanism(IPs[i])) \in Seq(E!Terms)
        BY <1>2
      <3> QED
        BY <3>1
    <2> HIDE DEF Read
    <2> QED
      BY <2>1
  <1>4. first \in S
    OBVIOUS
  <1>5. ASSUME NEW i \in 1..n, NEW s \in S PROVE step[<<i, s>>] = Read(i, s)
    <2> HIDE DEF Read
    <2> QED
      OBVIOUS
  <1>6. \E f : Good(f)
    <2>1. PICK k : Follows(k, n, first, step)
      <3> HIDE DEF step, S, first
      <3> QED
        BY <1>1, <1>3, <1>4, RecursionExists
    <2>2. k \in [0..n -> S]
      <3> HIDE DEF step, S, first
      <3> QED
        BY <1>1, <1>3, <1>4, <2>1, RecursionTyped
    <2>3. ASSUME NEW i \in 1..n PROVE k[i] = Read(i, k[i - 1])
      <3>1. i - 1 \in 0..n /\ k[i - 1] \in S
        BY <1>1, <2>2
      <3> HIDE DEF Read, step
      <3> QED
        BY <3>1, <1>5, <2>1 DEF Follows
    <2>4. k = [i \in 0..n |-> k[i]] /\ k[0] = <<>>
      BY <2>1 DEF Follows
    <2>5. \A i \in 0..n : i # 0 => i \in 1..n
      BY <1>1
    <2>6. Good(k)
      BY <2>3, <2>4, <2>5
    <2> QED
      BY <2>6
  <1> DEFINE missing == CHOOSE f : Good(f)
  <1>7. Good(missing)
    <2> HIDE DEF Good
    <2> QED
      BY <1>6
  <1>8. E!assess(ts) = missing[n]
    BY DEF E!assess, n
  <1> HIDE DEF missing
  <1>9. PICK f : f = missing
    OBVIOUS
  <1>10. Good(f)
    <2> HIDE DEF Good
    <2> QED
      BY <1>7, <1>9
  <1>11. f[0] = <<>>
    BY <1>1, <1>10
  <1>12. ASSUME NEW i \in 1..n PROVE f[i] = Read(i, f[i - 1])
    <2>1. i \in 0..n /\ i # 0
      BY <1>1
    <2> QED
      BY <1>10, <2>1
  <1> HIDE DEF Good
  <1> DEFINE Done == {i \in Nat : i <= n => Gathered(f[i], ts, i)}
  <1>13. Done = Nat
    <2>1. 0 \in Done
      <3>1. Len(<<>>) = 0 /\ <<>> \in Seq(E!Terms) /\ \A i \in 1..0 : FALSE
        OBVIOUS
      <3>2. Additions(<<>>)
        BY <3>1 DEF Additions
      <3>3. Gathered(<<>>, ts, 0)
        BY <3>1, <3>2 DEF Gathered
      <3> QED
        BY <1>11, <3>3
    <2>2. ASSUME NEW i \in Done PROVE i + 1 \in Done
      <3> SUFFICES ASSUME i + 1 <= n PROVE Gathered(f[i + 1], ts, i + 1)
        BY <2>2
      <3>1. i + 1 \in 1..n /\ (i + 1) - 1 = i /\ Gathered(f[i], ts, i)
        BY <1>1, <2>2
      <3>2. f[i + 1] = Read(i + 1, f[i])
        <4> HIDE DEF Read
        <4> QED
          BY <1>12, <3>1
      <3> QED
        BY <3>1, <3>2, GatherOne DEF n
    <2> HIDE DEF Done
    <2>3. Done \in SUBSET Nat
      BY DEF Done
    <2> QED
      BY <2>1, <2>2, <2>3, NatSetInduction
  <1>14. n \in Done
    BY <1>1, <1>13
  <1> QED
    BY <1>1, <1>8, <1>9, <1>14 DEF n

-----------------------------------------------------------------------------

(* Records with one SPF record, whose terms the sender's mail passes, or     *)
(* which Parse finds too many.                                             *)
SoleAt(recs, i) == i \in DOMAIN recs /\ recs[i].spf /\ \A j \in DOMAIN recs : recs[j].spf => j = i

Passes(recs, i, way) ==
  /\ Len(recs) <= MaxTXTRecords /\ SoleAt(recs, i) /\ way \in {"direct", "relay"}
  /\ Len(recs[i].terms) <= MaxRecordBytes /\ Len(recs[i].terms) <= MaxTerms
  /\ GoodTerms(recs[i].terms) /\ Meets(way, recs[i].terms)

LEMMA ParseAccepts ==
  ASSUME NEW r, Len(r.terms) <= MaxRecordBytes, Len(r.terms) <= MaxTerms, GoodTerms(r.terms),
         Len(r.terms) \in Nat, MaxTerms \in Nat, MaxRecordBytes \in Nat
  PROVE  E!Parse(r).ok = TRUE /\ E!Parse(r).terms = r.terms
  <1>1. ~(Len(r.terms) > MaxRecordBytes) /\ ~(Len(r.terms) > MaxTerms)
    OBVIOUS
  <1>2. E!Parse(r) = [ok |-> TRUE, reason |-> "", terms |-> r.terms]
    BY <1>1 DEF E!Parse, GoodTerms, E!parseTerm
  <1>3. ASSUME NEW ts, NEW v, v = [ok |-> TRUE, reason |-> "", terms |-> ts] PROVE v.ok = TRUE /\ v.terms = ts
    BY <1>3
  <1> QED
    BY <1>2, <1>3

LEMMA ParseAccepted ==
  ASSUME NEW r, E!Parse(r).ok, Len(r.terms) \in Nat, MaxTerms \in Nat, MaxRecordBytes \in Nat
  PROVE  GoodTerms(r.terms) /\ E!Parse(r).terms = r.terms
  BY DEF E!Parse, GoodTerms, E!parseTerm

LEMMA AssessMeets ==
  ASSUME E!SpfAssumption, eMode \in {"direct", "relay"}, NEW ts, Meets(eMode, ts)
  PROVE  E!assess(ts) = <<>>
  <1>1. CASE eMode = "relay"
    <2>1. E!Relayed /\ E!RelayInclude = Short
      BY <1>1 DEF E!Relayed, E!RelayInclude, Short
    <2> QED
      BY <1>1, <2>1 DEF Meets, E!assess
  <1>2. CASE eMode = "direct"
    <2>1. ~E!Relayed
      BY <1>2 DEF E!Relayed
    <2> QED
      BY <1>2, <2>1, AssessGathers DEF Meets, Gathered
  <1> QED
    BY <1>1, <1>2

(* The status of such records. *)
PassingIsVerified ==
  E!SpfAssumption /\ (\E i \in DOMAIN eRecords : Passes(eRecords, i, eMode) /\ Len(eRecords[i].terms) \in Nat)
       /\ Len(eRecords) \in Nat
    => E!Analyze.status = "verified"

LEMMA PassingVerifies == PassingIsVerified
  <1> SUFFICES ASSUME E!SpfAssumption, NEW i \in DOMAIN eRecords, Passes(eRecords, i, eMode),
                      Len(eRecords[i].terms) \in Nat, Len(eRecords) \in Nat
               PROVE  E!Analyze.status = "verified"
    BY DEF PassingIsVerified
  <1>1. E!Published = {i}
    BY DEF Passes, SoleAt, E!Published, E!IsSPF
  <1>2. (CHOOSE j \in E!Published : TRUE) = i
    BY <1>1
  <1>3. E!Parse(eRecords[i]).ok = TRUE /\ E!Parse(eRecords[i]).terms = eRecords[i].terms
    BY ParseAccepts DEF Passes, E!SpfAssumption
  <1>4. E!assess(eRecords[i].terms) = <<>>
    BY AssessMeets DEF Passes
  <1>7. ~(Len(eRecords) > MaxTXTRecords) /\ Len(eRecords) <= MaxTXTRecords
    BY DEF Passes, E!SpfAssumption
  <1>5. E!Analyze = E!Assessed(eRecords[i].terms)
    BY <1>1, <1>2, <1>3, <1>7 DEF E!Analyze
  <1>6. E!Assessed(eRecords[i].terms).status = "verified"
    BY <1>4 DEF E!Assessed, E!Result
  <1> QED
    BY <1>5, <1>6

RecordSet == [spf: BOOLEAN, terms: Seq(E!Terms)]

SpfTypes ==
  /\ eMode \in E!Modes /\ eRecords \in Seq(RecordSet)
  /\ edits \in 0..MaxEdits /\ followed \in BOOLEAN

(* The advice to create a record is the one of a server that is ready. *)
CreatesOwn ==
  eRes.expected.action = "create" =>
    E!Ready /\ eRes.expected.value = E!Mechanisms \o <<E!All("~")>>

SpfInv == SpfTypes /\ CreatesOwn /\ E!AdviceVerifies

LEMMA SpfInit == ASSUME E!SpfAssumption PROVE E!Init => SpfInv
  <1> SUFFICES ASSUME E!Init PROVE SpfInv
    OBVIOUS
  <1>1. <<>> \in Seq(RecordSet)
    OBVIOUS
  <1>2. SpfTypes
    <2>1. 0 \in 0..MaxEdits
      BY DEF E!SpfAssumption
    <2>2. edits \in 0..MaxEdits /\ eRecords \in Seq(RecordSet)
      BY <1>1, <2>1 DEF E!Init
    <2>3. followed \in BOOLEAN
      BY Zenon DEF E!Init
    <2> QED
      BY <2>2, <2>3 DEF E!Init, SpfTypes
  <1>3. CreatesOwn
    BY DEF E!Init, CreatesOwn, E!NoAdvice
  <1>4. E!AdviceVerifies
    BY DEF E!Init, E!AdviceVerifies
  <1> QED
    BY <1>2, <1>3, <1>4 DEF SpfInv

LEMMA InFront ==
  ASSUME E!SpfAssumption, NEW m \in Seq(E!Terms), NEW ts \in Seq(E!Terms), GoodTerms(ts), Additions(m),
         NEW way, way = "relay" => m = <<Short>>, way # "relay" => Supplies(m, ts)
  PROVE  GoodTerms(m \o ts) /\ Meets(way, m \o ts) /\ m \o ts \in Seq(E!Terms)
  <1>1. GoodTerms(m \o ts)
    BY FrontParses
  <1>2. CASE way = "relay"
    <2>1. E!Includes(<<Short>> \o ts, Short) /\ m = <<Short>>
      BY <1>2, FrontIncludes
    <2>2. E!Includes(m \o ts, Short)
      BY <2>1, Zenon
    <2> QED
      BY <1>1, <1>2, <2>2 DEF Meets
  <1>3. CASE way # "relay"
    <2>1. \A k \in 1..Len(IPs) : E!Covers(m \o ts, IPs[k]) = "Authorized"
      BY <1>3, FrontAuthorizes
    <2> QED
      BY <1>1, <1>3, <2>1 DEF Meets
  <1> QED
    BY <1>2, <1>3

(* The mechanisms of the server supply whatever a record lacks. *)
LEMMA OwnMechanisms ==
  ASSUME E!SpfAssumption
  PROVE  /\ E!Mechanisms \in Seq(E!Terms) /\ (eMode # "relay_long" => Additions(E!Mechanisms))
         /\ eMode = "relay" => E!Mechanisms = <<Short>>
         /\ ~E!Relayed => \A ts : Supplies(E!Mechanisms, ts)
         /\ Len(E!Mechanisms) + 1 <= MaxTerms /\ Len(E!Mechanisms) + 1 <= MaxRecordBytes
         /\ Len(E!Mechanisms) \in Nat
  <1> DEFINE n == Len(IPs)
  <1>1. n \in Nat /\ n >= 1 /\ DOMAIN IPs = 1..n /\ n + 1 <= MaxTerms /\ n + 1 <= MaxRecordBytes
        /\ MaxTerms \in Nat /\ MaxRecordBytes \in Nat
    BY DEF E!SpfAssumption
  <1>2. CASE E!Relayed
    <2> DEFINE long == eMode = "relay_long"
    <2>1. E!Mechanisms = <<E!Include(long)>> /\ Len(E!Mechanisms) = 1
      BY <1>2 DEF E!Mechanisms, E!RelayInclude
    <2>2. Additions(<<Short>>)
      BY DEF Additions, E!Include, Short
    <2>3. long \in BOOLEAN /\ (eMode # "relay_long" => long = FALSE)
      OBVIOUS
    <2> HIDE DEF long
    <2>4. <<E!Include(long)>> \in Seq(E!Terms)
      BY <2>3, IncludeTyped
    <2>5. E!Mechanisms \in Seq(E!Terms)
      BY <2>1, <2>4, Zenon
    <2>6. ASSUME eMode # "relay_long" PROVE E!Mechanisms = <<Short>>
      BY <2>1, <2>3, <2>6, Zenon DEF Short
    <2>7. eMode # "relay_long" => Additions(E!Mechanisms)
      BY <2>2, <2>6, Zenon
    <2>8. eMode = "relay" => E!Mechanisms = <<Short>>
      BY <2>6
    <2>9. Len(E!Mechanisms) = 1
      BY <2>1, Zenon
    <2> HIDE DEF n
    <2> QED
      BY <1>1, <1>2, <2>5, <2>7, <2>8, <2>9
  <1>3. CASE ~E!Relayed
    <2> DEFINE own == [i \in 1..n |-> E!Mechanism(IPs[i])]
    <2>1. E!Mechanisms = own
      BY <1>1, <1>3 DEF E!Mechanisms
    <2>6. eMode # "relay"
      BY <1>3 DEF E!Relayed
    <2>2. \A k \in 1..n : E!Mechanism(IPs[k]) \in E!Terms /\ E!Mechanism(IPs[k]).ok = TRUE
                          /\ E!Mechanism(IPs[k]).long = FALSE
                          /\ E!Mechanism(IPs[k]).q = "+" /\ E!Mechanism(IPs[k]).name = "ip"
      BY MechanismTyped
    <2> HIDE DEF n
    <2>3. own \in Seq(E!Terms) /\ Len(own) = n
      BY <1>1, <2>2
    <2>4. Additions(own)
      BY <2>2, <2>3 DEF Additions
    <2>5. \A ts : Supplies(own, ts)
      BY <2>3 DEF Supplies, n
    <2> QED
      BY <1>1, <1>3, <2>1, <2>3, <2>4, <2>5, <2>6
  <1> QED
    BY <1>2, <1>3

(* The result of an assessment and the advice in it. *)
LEMMA AssessedAdvice ==
  ASSUME NEW ts
  PROVE  LET missing == E!assess(ts)
             value == E!Assessed(ts).expected.value
         IN /\ E!Assessed(ts).expected.action # "create"
            /\ E!Assessed(ts).expected.action = "update_existing" =>
                 missing # <<>> /\ value = missing \o ts /\ ~(Len(value) > MaxRecordBytes)
  <1> DEFINE missing == E!assess(ts)
             from == IF missing = <<>> THEN E!Result("verified", "", [action |-> "none", value |-> ts])
                     ELSE E!Mismatch(ts, missing)
  <1>1. E!Assessed(ts) = [from EXCEPT !.warnings = E!warnings(ts)]
    BY DEF E!Assessed
  <1>2. CASE missing = <<>>
    <2>1. from = [status |-> "verified", reason |-> "", expected |-> [action |-> "none", value |-> ts], warnings |-> {}]
      BY <1>2 DEF E!Result
    <2> HIDE DEF missing, from
    <2>2. E!Assessed(ts).expected = [action |-> "none", value |-> ts]
      BY <1>1, <2>1
    <2> QED
      BY <2>2 DEF missing
  <1>3. CASE missing # <<>> /\ Len(missing \o ts) > MaxRecordBytes
    <2>1. PICK w : w = "merged_record_too_long"
      OBVIOUS
    <2>2. from = [status |-> "mismatch", reason |-> w, expected |-> [action |-> "fix_record", value |-> <<>>], warnings |-> {}]
      BY <1>3, <2>1 DEF E!Result, E!Mismatch, E!Merge, E!NoAdvice
    <2> HIDE DEF missing, from
    <2>3. E!Assessed(ts).expected = [action |-> "fix_record", value |-> <<>>]
      BY <1>1, <2>2
    <2> QED
      BY <2>3 DEF missing
  <1>4. CASE missing # <<>> /\ ~(Len(missing \o ts) > MaxRecordBytes)
    <2>1. \E w : from = [status |-> "mismatch", reason |-> w, expected |-> [action |-> "update_existing", value |-> missing \o ts], warnings |-> {}]
      BY <1>4 DEF E!Result, E!Mismatch, E!Merge
    <2> HIDE DEF missing, from
    <2>2. PICK w : from = [status |-> "mismatch", reason |-> w, expected |-> [action |-> "update_existing", value |-> missing \o ts], warnings |-> {}]
      BY <2>1
    <2>3. E!Assessed(ts).expected = [action |-> "update_existing", value |-> missing \o ts]
      BY <1>1, <2>2
    <2> QED
      BY <1>4, <2>3 DEF missing
  <1> QED
    BY <1>2, <1>3, <1>4

LEMMA AnalyzeCases ==
  ASSUME Len(eRecords) \in Nat, E!SpfAssumption
  PROVE
  \/ E!Published = {} /\ E!Analyze = E!notConfigured
  \/ E!Analyze.expected.action \notin {"create", "update_existing"}
  \/ \E i \in E!Published : /\ \A j \in E!Published : j = i
                            /\ E!Parse(eRecords[i]).ok /\ E!Analyze = E!Assessed(E!Parse(eRecords[i]).terms)
  <1>4. CASE Len(eRecords) > MaxTXTRecords
    <2>1. E!Analyze = E!Result("invalid", "too_many_txt_records", E!NoAdvice("fix_record"))
      BY <1>4 DEF E!Analyze, E!SpfAssumption
    <2> QED
      BY <2>1 DEF E!Result, E!NoAdvice
  <1>5. ~(Len(eRecords) > MaxTXTRecords) <=> Len(eRecords) <= MaxTXTRecords
    BY DEF E!SpfAssumption
  <1>1. CASE Len(eRecords) <= MaxTXTRecords /\ E!Published = {}
    BY <1>1, <1>5 DEF E!Analyze
  <1>2. CASE Len(eRecords) <= MaxTXTRecords /\ \E i, j \in E!Published : i # j
    <2>1. E!Analyze = E!Result("conflict", "multiple_spf_records", E!NoAdvice("merge_records"))
      BY <1>2, <1>5 DEF E!Analyze
    <2> QED
      BY <2>1 DEF E!Result, E!NoAdvice
  <1>3. CASE Len(eRecords) <= MaxTXTRecords /\ E!Published # {} /\ ~\E i, j \in E!Published : i # j
    <2>1. PICK i \in E!Published : E!Published = {i}
      BY <1>3
    <2>2. (CHOOSE j \in E!Published : TRUE) = i
      BY <2>1
    <2>3. E!Analyze = IF E!Parse(eRecords[i]).ok THEN E!Assessed(E!Parse(eRecords[i]).terms)
                      ELSE E!Result("invalid", E!Parse(eRecords[i]).reason, E!NoAdvice("fix_record"))
      BY <1>3, <1>5, <2>2 DEF E!Analyze
    <2>4. CASE E!Parse(eRecords[i]).ok
      BY <2>1, <2>3, <2>4
    <2>5. CASE ~E!Parse(eRecords[i]).ok
      <3>1. PICK why : why = E!Parse(eRecords[i]).reason
        OBVIOUS
      <3>2. E!Analyze = [status |-> "invalid", reason |-> why,
                         expected |-> [action |-> "fix_record", value |-> <<>>], warnings |-> {}]
        BY <2>3, <2>5, <3>1 DEF E!Result, E!NoAdvice
      <3> QED
        BY <3>2
    <2> QED
      BY <2>4, <2>5
  <1> QED
    BY <1>1, <1>2, <1>3, <1>4, <1>5

LEMMA PassingVerifiesNext == PassingIsVerified'
  BY PassingVerifies, PTL

(* A record that passes, once it is the only one. *)
LEMMA PublishedVerifies ==
  ASSUME E!SpfAssumption, eMode' = eMode, NEW v \in Seq(E!Terms), Len(v) <= MaxRecordBytes,
         GoodTerms(v), Meets(eMode, v), eMode \in {"direct", "relay"}, Len(eRecords') \in Nat,
         NEW i \in DOMAIN eRecords', SoleAt(eRecords', i), eRecords'[i] = [spf |-> TRUE, terms |-> v]
  PROVE  E!AdviceVerifies'
  <1>1. Passes(eRecords', i, eMode') /\ Len(eRecords'[i].terms) \in Nat => E!Analyze'.status = "verified"
    BY PassingVerifiesNext DEF PassingIsVerified
  <1>2. eRecords'[i].terms = v /\ eRecords'[i].spf /\ Len(v) \in Nat /\ MaxTerms \in Nat
    BY DEF E!SpfAssumption
  <1>3. CASE Len(v) <= MaxTerms /\ Len(eRecords') <= MaxTXTRecords
    <2>1. Passes(eRecords', i, eMode')
      BY <1>2, <1>3 DEF Passes
    <2>2. E!Analyze'.status = "verified"
      BY <1>1, <1>2, <2>1
    <2> QED
      BY <2>2 DEF E!AdviceVerifies
  <1>4. CASE Len(v) > MaxTerms
    BY <1>2, <1>4 DEF E!AdviceVerifies, E!IsSPF
  <1>5. CASE Len(eRecords') > MaxTXTRecords
    BY <1>5 DEF E!AdviceVerifies
  <1> QED
    BY <1>2, <1>3, <1>4, <1>5 DEF E!SpfAssumption

LEMMA SpfCreates ==
  ASSUME E!SpfAssumption, SpfInv, eMode' = eMode, eRes.expected.action = "create", E!Published = {},
         eRecords' = Append(eRecords, [spf |-> TRUE, terms |-> eRes.expected.value])
  PROVE  eRecords' \in Seq(RecordSet) /\ E!AdviceVerifies'
  <1> DEFINE own == E!Mechanisms
             last == <<E!All("~")>>
             v == own \o last
             n == Len(eRecords)
  <1>1. eRes.expected.value = v /\ E!Ready
    BY DEF SpfInv, CreatesOwn
  <1>2. last \in Seq(E!Terms) /\ Len(last) = 1 /\ GoodTerms(last)
    <2>1. last \in Seq(E!Terms) /\ Len(last) = 1 /\ last[1] = E!All("~") /\ DOMAIN last = {1}
      BY AllTyped
    <2> HIDE DEF last
    <2>2. GoodTerms(last)
      BY <2>1 DEF GoodTerms, E!All
    <2> QED
      BY <2>1, <2>2
  <1>3. /\ own \in Seq(E!Terms) /\ (eMode # "relay_long" => Additions(own))
        /\ (eMode = "relay" => own = <<Short>>)
        /\ (~E!Relayed => Supplies(own, last))
        /\ Len(own) \in Nat /\ Len(own) + 1 <= MaxRecordBytes
    BY OwnMechanisms
  <1> HIDE DEF own, last
  <1>12. v \in Seq(E!Terms)
    BY <1>2, <1>3
  <1>4. eMode # "relay_long" => eMode \in {"direct", "relay"} /\ GoodTerms(v) /\ Meets(eMode, v)
    <2> SUFFICES ASSUME eMode # "relay_long"
                 PROVE  eMode \in {"direct", "relay"} /\ GoodTerms(v) /\ Meets(eMode, v)
      OBVIOUS
    <2>1. eMode \in {"direct", "relay"} /\ (eMode # "relay" => ~E!Relayed)
      BY <1>1 DEF E!Ready, E!Relayed
    <2> QED
      BY <1>2, <1>3, <2>1, InFront
  <1>5. Len(v) <= MaxRecordBytes
    <2>1. Len(v) = Len(own) + Len(last)
      BY <1>2, <1>3, BehindEachOther
    <2> QED
      BY <1>2, <1>3, <2>1
  <1> HIDE DEF v
  <1>6. eRecords \in Seq(RecordSet) /\ n \in Nat /\ DOMAIN eRecords = 1..n
    BY DEF SpfInv, SpfTypes
  <1> DEFINE new == [spf |-> TRUE, terms |-> v]
  <1>7. new \in RecordSet /\ new.spf
    BY <1>12 DEF RecordSet
  <1>8. eRecords' = Append(eRecords, new)
    BY <1>1
  <1> HIDE DEF new
  <1>9. /\ eRecords' \in Seq(RecordSet) /\ DOMAIN eRecords' = 1..(n + 1) /\ eRecords'[n + 1] = new
        /\ \A j \in 1..n : eRecords'[j] = eRecords[j]
    BY <1>6, <1>7, <1>8
  <1>10. \A j \in 1..n : ~eRecords'[j].spf
    BY <1>6, <1>9 DEF E!Published, E!IsSPF
  <1>11. n + 1 \in DOMAIN eRecords' /\ SoleAt(eRecords', n + 1)
    <2>1. \A j \in 1..(n + 1) : j = n + 1 \/ j \in 1..n
      BY <1>6
    <2>2. n + 1 \in 1..(n + 1)
      BY <1>6
    <2> QED
      BY <1>7, <1>9, <1>10, <2>1, <2>2 DEF SoleAt
  <1>13. CASE eMode = "relay_long"
    BY <1>9, <1>13 DEF E!AdviceVerifies
  <1>14. CASE eMode # "relay_long"
    <2>1. Len(eRecords') \in Nat
      BY <1>9
    <2> QED
      BY <1>4, <1>5, <1>9, <1>11, <1>12, <1>14, <2>1, PublishedVerifies DEF new
  <1> QED
    BY <1>13, <1>14

LEMMA SpfUpdates ==
  ASSUME E!SpfAssumption, SpfInv, eMode' = eMode, eRes.expected.action = "update_existing", eRes = E!Analyze,
         NEW i \in E!Published,
         eRecords' = [eRecords EXCEPT ![i] = [spf |-> TRUE, terms |-> eRes.expected.value]]
  PROVE  eRecords' \in Seq(RecordSet) /\ E!AdviceVerifies'
  <1> DEFINE v == eRes.expected.value
  <1>1. eRecords \in Seq(RecordSet) /\ i \in DOMAIN eRecords /\ eRecords[i].spf
    BY DEF SpfInv, SpfTypes, E!Published, E!IsSPF
  <1> DEFINE ts == eRecords[i].terms
             missing == E!assess(ts)
  <1>2. ts \in Seq(E!Terms) /\ Len(ts) \in Nat /\ MaxTerms \in Nat /\ MaxRecordBytes \in Nat
    <2>1. eRecords[i] \in RecordSet
      BY <1>1
    <2>2. ts \in Seq(E!Terms)
      BY <2>1 DEF RecordSet
    <2> QED
      BY <2>2 DEF E!SpfAssumption
  <1>3. /\ \A j \in E!Published : j = i
        /\ E!Parse(eRecords[i]).ok /\ E!Analyze = E!Assessed(E!Parse(eRecords[i]).terms)
    <2>1. E!Published # {} /\ E!Analyze.expected.action = "update_existing" /\ Len(eRecords) \in Nat
      BY <1>1
    <2>2. PICK k \in E!Published : /\ \A j \in E!Published : j = k
              /\ E!Parse(eRecords[k]).ok /\ E!Analyze = E!Assessed(E!Parse(eRecords[k]).terms)
      BY <2>1, AnalyzeCases
    <2>3. k = i
      BY <2>2
    <2> QED
      BY <2>2, <2>3
  <1>4. GoodTerms(ts) /\ E!Parse(eRecords[i]).terms = ts
    BY <1>2, <1>3, ParseAccepted
  <1>5. eRes = E!Assessed(ts)
    BY <1>3, <1>4
  <1>6. missing # <<>> /\ v = missing \o ts /\ ~(Len(v) > MaxRecordBytes)
    BY <1>5, AssessedAdvice
  <1>7. missing \in Seq(E!Terms) /\ (eMode # "relay_long" => Additions(missing))
        /\ (eMode = "relay" => missing = <<Short>>) /\ (~E!Relayed => Supplies(missing, ts))
    <2>1. CASE E!Relayed
      <3>1. missing = E!Mechanisms
        BY <1>6, <2>1 DEF E!assess
      <3> QED
        BY <2>1, <3>1, OwnMechanisms
    <2>2. CASE ~E!Relayed
      <3>1. eMode # "relay"
        BY <2>2 DEF E!Relayed
      <3> QED
        BY <2>2, <3>1, AssessGathers DEF Gathered, Supplies
    <2> QED
      BY <2>1, <2>2
  <1> HIDE DEF missing, ts, v
  <1>14. v \in Seq(E!Terms)
    BY <1>2, <1>6, <1>7
  <1>8. eMode \in {"direct", "relay"} => GoodTerms(v) /\ Meets(eMode, v)
    <2> SUFFICES ASSUME eMode \in {"direct", "relay"} PROVE GoodTerms(v) /\ Meets(eMode, v)
      OBVIOUS
    <2>1. eMode # "relay_long" /\ (eMode # "relay" => ~E!Relayed)
      BY DEF E!Relayed
    <2> QED
      BY <1>2, <1>4, <1>6, <1>7, <2>1, InFront
  <1>9. Len(v) <= MaxRecordBytes
    BY <1>2, <1>6, <1>14
  <1> DEFINE new == [spf |-> TRUE, terms |-> v]
  <1>10. new \in RecordSet /\ new.spf
    BY <1>14 DEF RecordSet
  <1>11. eRecords' = [eRecords EXCEPT ![i] = new]
    BY DEF v
  <1> HIDE DEF new
  <1>12. /\ eRecords' \in Seq(RecordSet) /\ DOMAIN eRecords' = DOMAIN eRecords /\ eRecords'[i] = new
         /\ \A j \in DOMAIN eRecords : j # i => eRecords'[j] = eRecords[j]
    <2>1. Replaced([eRecords EXCEPT ![i] = new], eRecords, i, new, RecordSet)
      BY <1>1, <1>10, ElementReplaced
    <2> QED
      BY <1>11, <2>1 DEF Replaced
  <1>13. i \in DOMAIN eRecords' /\ SoleAt(eRecords', i)
    BY <1>1, <1>3, <1>10, <1>12 DEF SoleAt, E!Published, E!IsSPF
  <1>15. CASE eMode \in {"direct", "relay"}
    <2>1. Len(eRecords') \in Nat
      BY <1>12
    <2> QED
      BY <1>8, <1>9, <1>12, <1>13, <1>14, <1>15, <2>1, PublishedVerifies DEF new
  <1>16. CASE eMode \notin {"direct", "relay"}
    <2>1. E!AdviceVerifies'
      BY <1>16 DEF E!AdviceVerifies, E!Ready
    <2> QED
      BY <1>12, <2>1
  <1> QED
    BY <1>15, <1>16

LEMMA SpfStep ==
  ASSUME E!SpfAssumption, SpfInv, [E!Next]_E!vars
  PROVE  SpfInv'
  <1>1. CASE UNCHANGED <<eMode, eRecords, followed, edits>> /\ (eRes' = eRes \/ E!Describe \/ E!Verify)
    <2>1. SpfTypes'
      BY <1>1 DEF SpfInv, SpfTypes
    <2>2. E!AdviceVerifies'
      <3>1. E!Analyze' = E!Analyze
        BY <1>1 DEF E!Analyze, E!Published, E!notConfigured, E!createExpected, E!Mechanisms, E!Assessed, E!Mismatch,
                    E!assess, E!warnings, E!Relayed, E!RelayInclude
      <3> QED
        BY <1>1, <3>1 DEF SpfInv, E!AdviceVerifies, E!Ready
    <2>3. CreatesOwn'
      <3> DEFINE own == E!Mechanisms \o <<E!All("~")>>
      <3>1. E!Mechanisms' = E!Mechanisms
        BY <1>1 DEF E!Mechanisms, E!Relayed, E!RelayInclude
      <3>2. SUFFICES ASSUME eRes'.expected.action = "create"
                     PROVE  E!Ready /\ eRes'.expected.value = own
        BY <1>1, <3>1 DEF CreatesOwn, E!Ready
      <3>3. E!createExpected = [action |-> "create", value |-> own]
        BY DEF E!createExpected
      <3>4. CASE eRes' = eRes
        BY <3>2, <3>4 DEF SpfInv, CreatesOwn
      <3>5. CASE eRes' = E!unchecked
        <4>1. CASE E!Ready
          <5>1. eRes'.expected = E!createExpected
            BY <3>5, <4>1 DEF E!unchecked, E!Result
          <5> QED
            BY <3>3, <4>1, <5>1
        <4>2. CASE ~E!Ready
          <5>1. \E a \in {"follow_relay_provider", "declare_sending_ips"} :
                  eRes'.expected = [action |-> a, value |-> <<>>]
            BY <3>5, <4>2 DEF E!unchecked, E!Result, E!unknownExpected, E!NoAdvice
          <5> QED
            BY <3>2, <5>1
        <4> QED
          BY <4>1, <4>2
      <3>6. CASE E!Ready /\ eRes' = E!Analyze
        <4>1. CASE E!Analyze = E!notConfigured
          <5>1. eRes'.expected = E!createExpected
            BY <3>6, <4>1 DEF E!notConfigured, E!Result
          <5> QED
            BY <3>3, <3>6, <5>1
        <4>2. CASE E!Analyze # E!notConfigured
          <5>2. Len(eRecords) \in Nat
            BY DEF SpfInv, SpfTypes
          <5>1. PICK i \in E!Published : E!Analyze = E!Assessed(E!Parse(eRecords[i]).terms)
            BY <3>2, <3>6, <4>2, <5>2, AnalyzeCases
          <5> QED
            BY <3>2, <3>6, <5>1, AssessedAdvice
        <4> QED
          BY <4>1, <4>2
      <3>7. CASE eRes' = E!Result("temporary_error", "dns_error", E!NoAdvice("none"))
        <4>1. eRes'.expected.action = "none"
          BY <3>7 DEF E!Result, E!NoAdvice
        <4> QED
          BY <3>2, <4>1
      <3> QED
        BY <1>1, <3>4, <3>5, <3>6, <3>7 DEF E!Describe, E!Verify
    <2> QED
      BY <2>1, <2>2, <2>3 DEF SpfInv
  <1>2. CASE E!Edit
    <2>1. eMode' = eMode /\ eRes' = eRes /\ followed' = FALSE /\ edits < MaxEdits /\ edits' = edits + 1
      BY <1>2 DEF E!Edit
    <2>2. edits' \in 0..MaxEdits
      BY <2>1 DEF SpfInv, SpfTypes, E!SpfAssumption
    <2>3. eRecords' \in Seq(RecordSet)
      <3>1. eRecords \in Seq(RecordSet)
        BY DEF SpfInv, SpfTypes
      <3>2. ASSUME NEW t \in Tokens, NEW i \in DOMAIN eRecords
            PROVE  [spf |-> eRecords[i].spf, terms |-> Append(eRecords[i].terms, t)] \in RecordSet
        <4>1. eRecords[i] \in RecordSet /\ t \in E!Terms
          BY <3>1 DEF E!SpfAssumption
        <4>2. eRecords[i].spf \in BOOLEAN /\ eRecords[i].terms \in Seq(E!Terms)
          BY <4>1 DEF RecordSet
        <4>3. Append(eRecords[i].terms, t) \in Seq(E!Terms)
          BY <4>1, <4>2
        <4> QED
          BY <4>2, <4>3 DEF RecordSet
      <3>3. ASSUME NEW spf \in BOOLEAN PROVE [spf |-> spf, terms |-> <<>>] \in RecordSet
        BY DEF RecordSet
      <3> HIDE DEF RecordSet
      <3>4. CASE \E t \in Tokens, i \in DOMAIN eRecords :
                   eRecords' = [eRecords EXCEPT ![i] = [spf |-> eRecords[i].spf, terms |-> Append(eRecords[i].terms, t)]]
        <4>1. PICK t \in Tokens, i \in DOMAIN eRecords :
                   eRecords' = [eRecords EXCEPT ![i] = [spf |-> eRecords[i].spf, terms |-> Append(eRecords[i].terms, t)]]
          BY <3>4
        <4> DEFINE r == [spf |-> eRecords[i].spf, terms |-> Append(eRecords[i].terms, t)]
        <4>2. r \in RecordSet /\ eRecords' = [eRecords EXCEPT ![i] = r]
          BY <3>2, <4>1
        <4> HIDE DEF r
        <4>3. Replaced([eRecords EXCEPT ![i] = r], eRecords, i, r, RecordSet)
          BY <3>1, <4>2, ElementReplaced
        <4> QED
          BY <4>2, <4>3 DEF Replaced
      <3>5. CASE \E spf \in BOOLEAN : eRecords' = Append(eRecords, [spf |-> spf, terms |-> <<>>])
        BY <3>1, <3>3, <3>5
      <3> QED
        BY <1>2, <3>4, <3>5 DEF E!Edit
    <2>4. SpfTypes'
      <3>1. followed' \in BOOLEAN
        BY <2>1, Zenon
      <3> QED
        BY <2>1, <2>2, <2>3, <3>1 DEF SpfInv, SpfTypes
    <2>5. CreatesOwn'
      BY <2>1 DEF SpfInv, CreatesOwn, E!Mechanisms, E!Ready, E!Relayed, E!RelayInclude
    <2>6. E!AdviceVerifies'
      BY <2>1 DEF E!AdviceVerifies
    <2> QED
      BY <2>4, <2>5, <2>6 DEF SpfInv
  <1>3. CASE E!Follow
    <2>1. eMode' = eMode /\ eRes' = eRes /\ followed' = TRUE /\ edits' = edits
      BY <1>3 DEF E!Follow
    <2>2. eRecords' \in Seq(RecordSet) /\ E!AdviceVerifies'
      BY <1>3, <2>1, SpfCreates, SpfUpdates DEF E!Follow
    <2>3. SpfTypes'
      BY <2>1, <2>2 DEF SpfInv, SpfTypes
    <2>4. CreatesOwn'
      BY <2>1 DEF SpfInv, CreatesOwn, E!Mechanisms, E!Ready, E!Relayed, E!RelayInclude
    <2> QED
      BY <2>2, <2>3, <2>4 DEF SpfInv
  <1>4. CASE UNCHANGED E!vars
    BY <1>1, <1>4 DEF E!vars
  <1>5. CASE E!Describe \/ E!Verify
    BY <1>1, <1>5 DEF E!Describe, E!Verify
  <1> QED
    BY <1>2, <1>3, <1>4, <1>5 DEF E!Next

LEMMA SpfAlone ==
  E!SpfAssumption /\ E!Spec => [](E!TypeOK /\ E!AdviceVerifies)
  <1> SUFFICES ASSUME E!SpfAssumption PROVE E!Spec => [](E!TypeOK /\ E!AdviceVerifies)
    OBVIOUS
  <1>1. E!Init => SpfInv
    BY SpfInit
  <1>2. SpfInv /\ [E!Next]_E!vars => SpfInv'
    BY SpfStep
  <1>3. SpfInv => E!TypeOK /\ E!AdviceVerifies
    BY DEF SpfInv, SpfTypes, E!TypeOK, E!Ready
  <1> QED
    BY <1>1, <1>2, <1>3, PTL DEF E!Spec

-----------------------------------------------------------------------------
(* DMARC: what a record means.                                              *)

(* What Parse holds while it reads tags. *)
Readings ==
  [p: {"unset"} \cup M!toPolicy, sp: {"unset"} \cup M!toPolicy, adkim: {"r", "s"}, psd: {"y", "n", "u"},
   rua: {<<>>} \cup {M!reportURIs(t.val) : t \in Tags},
   ruf: {0} \cup {Len(M!reportURIs(t.val)) : t \in Tags},
   warnings: SUBSET {"deprecated_tag"}, seen: SUBSET M!knownTags,
   err: {"nil", "duplicate_tag", "bad_value"}]

(* Two readings that are equal, or that both refuse the record. *)
Alike(x, y) == x = y \/ (x.err # "nil" /\ y.err # "nil")

LEMMA RecordIsReading == M!Record \in Readings
  <1>1. {} \in SUBSET {"deprecated_tag"} /\ {} \in SUBSET M!knownTags
    OBVIOUS
  <1> QED
    BY <1>1 DEF M!Record, Readings

(* What Take makes of a good tag. *)
Taken(rec, tag) ==
  [p |-> IF tag.name = "p" THEN tag.val ELSE rec.p, sp |-> IF tag.name = "sp" THEN tag.val ELSE rec.sp,
   adkim |-> IF tag.name = "adkim" THEN tag.val ELSE rec.adkim,
   psd |-> IF tag.name = "psd" THEN tag.val ELSE rec.psd,
   rua |-> IF tag.name = "rua" THEN M!reportURIs(tag.val) ELSE rec.rua,
   ruf |-> IF tag.name = "ruf" THEN Len(M!reportURIs(tag.val)) ELSE rec.ruf,
   warnings |-> rec.warnings \cup (IF tag.name \in {"pct", "rf", "ri"} THEN {"deprecated_tag"} ELSE {}),
   seen |-> rec.seen \cup {tag.name}, err |-> "nil"]

Refused(rec, e) == [rec EXCEPT !.err = e]

LEMMA TagCases ==
  ASSUME NEW rec, NEW tag
  PROVE  M!ParseTag(rec, tag) =
           IF rec.err # "nil" \/ tag.name \notin M!knownTags THEN rec
           ELSE IF tag.name \in rec.seen THEN Refused(rec, "duplicate_tag")
           ELSE IF M!BadValue(tag) THEN Refused(rec, "bad_value")
           ELSE Taken(rec, tag)
  BY DEF M!ParseTag, M!Take, Taken, Refused

HasTaken(v, rec, tag) ==
  /\ v.p = IF tag.name = "p" THEN tag.val ELSE rec.p
  /\ v.sp = IF tag.name = "sp" THEN tag.val ELSE rec.sp
  /\ v.adkim = IF tag.name = "adkim" THEN tag.val ELSE rec.adkim
  /\ v.psd = IF tag.name = "psd" THEN tag.val ELSE rec.psd
  /\ v.rua = IF tag.name = "rua" THEN M!reportURIs(tag.val) ELSE rec.rua
  /\ v.ruf = IF tag.name = "ruf" THEN Len(M!reportURIs(tag.val)) ELSE rec.ruf
  /\ v.warnings = rec.warnings \cup (IF tag.name \in {"pct", "rf", "ri"} THEN {"deprecated_tag"} ELSE {})
  /\ v.seen = rec.seen \cup {tag.name} /\ v.err = "nil"

LEMMA TakenFields ==
  ASSUME NEW rec, NEW tag, NEW v, v = Taken(rec, tag)
  PROVE  HasTaken(v, rec, tag)
  BY DEF Taken, HasTaken

LEMMA TagIsRead ==
  ASSUME NEW rec \in Readings, NEW tag \in Tags
  PROVE  M!ParseTag(rec, tag) \in Readings
  <1>1. Refused(rec, "duplicate_tag") \in Readings /\ Refused(rec, "bad_value") \in Readings
    BY DEF Refused, Readings
  <1>2. ASSUME tag.name \in M!knownTags, ~M!BadValue(tag) PROVE Taken(rec, tag) \in Readings
    <2>1. rec.warnings \in SUBSET {"deprecated_tag"} /\ rec.seen \in SUBSET M!knownTags
      BY DEF Readings
    <2>2. rec.warnings \cup (IF tag.name \in {"pct", "rf", "ri"} THEN {"deprecated_tag"} ELSE {}) \in SUBSET {"deprecated_tag"}
      BY <2>1
    <2>3. rec.seen \cup {tag.name} \in SUBSET M!knownTags
      BY <1>2, <2>1
    <2>4. /\ (IF tag.name = "p" THEN tag.val ELSE rec.p) \in {"unset"} \cup M!toPolicy
          /\ (IF tag.name = "sp" THEN tag.val ELSE rec.sp) \in {"unset"} \cup M!toPolicy
          /\ (IF tag.name = "adkim" THEN tag.val ELSE rec.adkim) \in {"r", "s"}
          /\ (IF tag.name = "psd" THEN tag.val ELSE rec.psd) \in {"y", "n", "u"}
      BY <1>2 DEF M!BadValue, Readings
    <2>5. /\ (IF tag.name = "rua" THEN M!reportURIs(tag.val) ELSE rec.rua)
                 \in {<<>>} \cup {M!reportURIs(t.val) : t \in Tags}
          /\ (IF tag.name = "ruf" THEN Len(M!reportURIs(tag.val)) ELSE rec.ruf)
                 \in {0} \cup {Len(M!reportURIs(t.val)) : t \in Tags}
      BY DEF Readings
    <2> QED
      BY <2>2, <2>3, <2>4, <2>5 DEF Taken, Readings
  <1> QED
    BY <1>1, <1>2, TagCases

(* Read one behind the other, two tags may change places. *)
LEMMA TagsCommute ==
  ASSUME NEW rec \in Readings, NEW a \in Tags, NEW b \in Tags
  PROVE  Alike(M!ParseTag(M!ParseTag(rec, a), b), M!ParseTag(M!ParseTag(rec, b), a))
  <1> DEFINE ra == M!ParseTag(rec, a)
             rb == M!ParseTag(rec, b)
  <1>1. CASE rec.err # "nil"
    <2>1. ra = rec /\ rb = rec
      BY <1>1, TagCases
    <2> QED
      BY <2>1, <1>1, TagCases DEF Alike
  <1>2. CASE a.name \notin M!knownTags
    <2>1. ra = rec
      BY <1>2, TagCases
    <2>2. M!ParseTag(rb, a) = rb
      BY <1>2, TagCases
    <2> QED
      BY <2>1, <2>2 DEF Alike
  <1>3. CASE b.name \notin M!knownTags
    <2>1. rb = rec
      BY <1>3, TagCases
    <2>2. M!ParseTag(ra, b) = ra
      BY <1>3, TagCases
    <2> QED
      BY <2>1, <2>2 DEF Alike
  <1>4. CASE rec.err = "nil" /\ a.name \in M!knownTags /\ b.name \in M!knownTags
    <2> DEFINE Stops(r, t) == t.name \in r.seen \/ M!BadValue(t)
    <2>1. ASSUME NEW r \in Readings, NEW t \in Tags, t.name \in M!knownTags, r.err = "nil"
          PROVE  M!ParseTag(r, t).err = "nil" <=> ~Stops(r, t)
      <3>1. Refused(r, "duplicate_tag").err = "duplicate_tag" /\ Refused(r, "bad_value").err = "bad_value"
        BY DEF Refused, Readings
      <3>2. Taken(r, t).err = "nil"
        BY DEF Taken
      <3> QED
        BY <2>1, <3>1, <3>2, TagCases
    <2>2. ASSUME NEW r \in Readings, NEW t \in Tags, r.err # "nil" PROVE M!ParseTag(r, t).err # "nil"
      BY <2>2, TagCases
    <2>3. ra \in Readings /\ rb \in Readings
      BY TagIsRead
    <2>4. CASE Stops(rec, a)
      <3>1. ra.err # "nil" /\ M!ParseTag(ra, b).err # "nil"
        BY <1>4, <2>1, <2>2, <2>3, <2>4
      <3>2. CASE rb.err # "nil"
        BY <3>1, <3>2, <2>2, <2>3 DEF Alike
      <3>3. CASE rb.err = "nil"
        <4>1. rb = Taken(rec, b)
          <5>1. ~Stops(rec, b)
            BY <1>4, <2>1, <3>3
          <5> QED
            BY <1>4, <5>1, TagCases
        <4>2. rb.seen = rec.seen \cup {b.name}
          <5>1. HasTaken(rb, rec, b)
            BY <4>1, TakenFields
          <5> QED
            BY <5>1 DEF HasTaken
        <4>3. Stops(rb, a)
          BY <4>2, <2>4
        <4>4. M!ParseTag(rb, a).err # "nil"
          BY <4>3, <1>4, <2>1, <2>3, <3>3
        <4> QED
          BY <3>1, <4>4 DEF Alike
      <3> QED
        BY <3>2, <3>3
    <2>5. CASE ~Stops(rec, a) /\ Stops(rec, b)
      <3>1. rb.err # "nil" /\ M!ParseTag(rb, a).err # "nil"
        BY <1>4, <2>1, <2>2, <2>3, <2>5
      <3>2. ra = Taken(rec, a) /\ ra.err = "nil"
        BY <1>4, <2>1, <2>5, TagCases
      <3>3. ra.seen = rec.seen \cup {a.name}
        <4>1. HasTaken(ra, rec, a)
          BY <3>2, TakenFields
        <4> QED
          BY <4>1 DEF HasTaken
      <3>4. Stops(ra, b)
        BY <3>3, <2>5
      <3>5. M!ParseTag(ra, b).err # "nil"
        BY <3>4, <1>4, <2>1, <2>3, <3>2
      <3> QED
        BY <3>1, <3>5 DEF Alike
    <2>6. CASE ~Stops(rec, a) /\ ~Stops(rec, b)
      <3>1. ra = Taken(rec, a) /\ ra.err = "nil" /\ rb = Taken(rec, b) /\ rb.err = "nil"
        BY <1>4, <2>1, <2>6, TagCases
      <3>2. ra.seen = rec.seen \cup {a.name} /\ rb.seen = rec.seen \cup {b.name}
        <4>1. HasTaken(ra, rec, a) /\ HasTaken(rb, rec, b)
          BY <3>1, TakenFields
        <4> QED
          BY <4>1 DEF HasTaken
      <3>3. CASE a.name = b.name
        <4>1. Stops(ra, b) /\ Stops(rb, a)
          BY <3>2, <3>3
        <4>2. M!ParseTag(ra, b).err # "nil" /\ M!ParseTag(rb, a).err # "nil"
          BY <4>1, <1>4, <2>1, <2>3, <3>1
        <4> QED
          BY <4>2 DEF Alike
      <3>4. CASE a.name # b.name
        <4>1. ~Stops(ra, b) /\ ~Stops(rb, a)
          BY <3>2, <3>4, <2>6
        <4>2. M!ParseTag(ra, b) = Taken(ra, b) /\ M!ParseTag(rb, a) = Taken(rb, a)
          BY <4>1, <1>4, <3>1, TagCases
        <4>3. ASSUME NEW x, NEW y, x = Taken(rec, a), y = Taken(rec, b) PROVE Taken(x, b) = Taken(y, a)
          <5>6. HasTaken(x, rec, a) /\ HasTaken(y, rec, b)
            BY <4>3, TakenFields
          <5>1. /\ (IF b.name = "p" THEN b.val ELSE x.p) = (IF a.name = "p" THEN a.val ELSE y.p)
                /\ (IF b.name = "sp" THEN b.val ELSE x.sp) = (IF a.name = "sp" THEN a.val ELSE y.sp)
                /\ (IF b.name = "adkim" THEN b.val ELSE x.adkim) = (IF a.name = "adkim" THEN a.val ELSE y.adkim)
                /\ (IF b.name = "psd" THEN b.val ELSE x.psd) = (IF a.name = "psd" THEN a.val ELSE y.psd)
            BY <3>4, <5>6 DEF HasTaken
          <5>2. (IF b.name = "rua" THEN M!reportURIs(b.val) ELSE x.rua)
                  = (IF a.name = "rua" THEN M!reportURIs(a.val) ELSE y.rua)
            BY <3>4, <5>6 DEF HasTaken
          <5>3. (IF b.name = "ruf" THEN Len(M!reportURIs(b.val)) ELSE x.ruf)
                  = (IF a.name = "ruf" THEN Len(M!reportURIs(a.val)) ELSE y.ruf)
            BY <3>4, <5>6 DEF HasTaken
          <5>4. x.warnings \cup (IF b.name \in {"pct", "rf", "ri"} THEN {"deprecated_tag"} ELSE {})
                  = y.warnings \cup (IF a.name \in {"pct", "rf", "ri"} THEN {"deprecated_tag"} ELSE {})
            BY <5>6 DEF HasTaken
          <5>5. x.seen \cup {b.name} = y.seen \cup {a.name}
            BY <5>6 DEF HasTaken
          <5> QED
            BY <5>1, <5>2, <5>3, <5>4, <5>5, Zenon DEF Taken
        <4> QED
          BY <3>1, <4>2, <4>3 DEF Alike
      <3> QED
        BY <3>3, <3>4
    <2> QED
      BY <2>4, <2>5, <2>6
  <1> QED
    BY <1>1, <1>2, <1>3, <1>4

LEMMA AlikeStays ==
  ASSUME NEW x, NEW y, Alike(x, y), NEW tag
  PROVE  Alike(M!ParseTag(x, tag), M!ParseTag(y, tag))
  BY TagCases DEF Alike

(* The readings of the tags of t, one behind the other. *)
Reads(f, t) ==
  /\ f[0] = M!Record /\ \A i \in 0..Len(t) : f[i] \in Readings
  /\ \A i \in 1..Len(t) : f[i] = M!ParseTag(f[i - 1], t[i])

LEMMA ParseReadsTags ==
  ASSUME NEW t \in Seq(Tags)
  PROVE  \E f : /\ Reads(f, t)
                /\ M!ParseTags(t) = IF M!Readable(t) THEN f[Len(t)]
                                    ELSE [M!Record EXCEPT !.err = "unreadable"]
  <1> DEFINE n == Len(t)
             S == Readings
             first == M!Record
             step == [x \in (1..n) \X S |-> M!ParseTag(x[2], t[x[1]])]
             Good(f) == f = [k \in 0..n |-> IF k = 0 THEN M!Record ELSE M!ParseTag(f[k - 1], t[k])]
  <1>1. n \in Nat /\ \A i \in 1..n : t[i] \in Tags
    OBVIOUS
  <1> HIDE DEF n
  <1>2. ASSUME NEW i \in 1..n, NEW r \in S PROVE M!ParseTag(r, t[i]) \in S
    BY <1>1, TagIsRead
  <1>3. step \in [(1..n) \X S -> S]
    <2> HIDE DEF S
    <2> QED
      BY <1>2
  <1>4. first \in S
    BY RecordIsReading
  <1>5. ASSUME NEW i \in 1..n, NEW r \in S PROVE step[<<i, r>>] = M!ParseTag(r, t[i])
    <2> HIDE DEF S
    <2> QED
      OBVIOUS
  <1>6. ASSUME NEW k, Follows(k, n, first, step)
        PROVE  k \in [0..n -> S] /\ k[0] = first /\ \A i \in 1..n : k[i] = M!ParseTag(k[i - 1], t[i])
    <2>1. k \in [0..n -> S]
      <3> HIDE DEF step, S, first
      <3> QED
        BY <1>1, <1>3, <1>4, <1>6, RecursionTyped
    <2>2. ASSUME NEW i \in 1..n PROVE k[i] = M!ParseTag(k[i - 1], t[i])
      <3>1. i - 1 \in 0..n /\ k[i - 1] \in S
        BY <1>1, <2>1
      <3> HIDE DEF step, S
      <3> QED
        BY <3>1, <1>5, <1>6 DEF Follows
    <2>3. k[0] = first
      BY <1>6 DEF Follows
    <2> QED
      BY <2>1, <2>2, <2>3
  <1>7. \E f : Good(f)
    <2>1. PICK k : Follows(k, n, first, step)
      <3> HIDE DEF step, S, first
      <3> QED
        BY <1>1, <1>3, <1>4, RecursionExists
    <2>2. k = [i \in 0..n |-> k[i]]
      BY <2>1 DEF Follows
    <2>3. \A i \in 0..n : i # 0 => i \in 1..n
      BY <1>1
    <2>4. k[0] = M!Record /\ \A i \in 1..n : k[i] = M!ParseTag(k[i - 1], t[i])
      BY <1>6, <2>1
    <2>5. Good(k)
      BY <2>2, <2>3, <2>4
    <2> QED
      BY <2>5
  <1> DEFINE rec == CHOOSE f : Good(f)
  <1>8. Good(rec)
    <2> HIDE DEF Good
    <2> QED
      BY <1>7
  <1>9. M!ParseTags(t) = IF M!Readable(t) THEN rec[n] ELSE [M!Record EXCEPT !.err = "unreadable"]
    BY DEF M!ParseTags, n
  <1> HIDE DEF rec
  <1>10. PICK f : f = rec
    OBVIOUS
  <1>11. Good(f)
    <2> HIDE DEF Good
    <2> QED
      BY <1>8, <1>10
  <1>12. f = [i \in 0..n |-> f[i]] /\ f[0] = M!Record
    BY <1>1, <1>11
  <1>13. ASSUME NEW i \in 1..n PROVE f[i] = M!ParseTag(f[i - 1], t[i])
    <2>1. i \in 0..n /\ i # 0
      BY <1>1
    <2> QED
      BY <1>11, <2>1
  <1> HIDE DEF Good
  <1> DEFINE Typed == {i \in Nat : i <= n => f[i] \in S}
  <1>14. Typed = Nat
    <2>1. 0 \in Typed
      BY <1>4, <1>12
    <2>2. ASSUME NEW i \in Typed PROVE i + 1 \in Typed
      <3> SUFFICES ASSUME i + 1 <= n PROVE f[i + 1] \in S
        BY <2>2
      <3>1. i + 1 \in 1..n /\ (i + 1) - 1 = i /\ f[i] \in S
        BY <1>1, <2>2
      <3>2. f[i + 1] = M!ParseTag(f[i], t[i + 1])
        BY <1>13, <3>1
      <3> HIDE DEF S
      <3> QED
        BY <1>2, <3>1, <3>2
    <2> HIDE DEF Typed
    <2>3. Typed \in SUBSET Nat
      BY DEF Typed
    <2> QED
      BY <2>1, <2>2, <2>3, NatSetInduction
  <1>15. \A i \in 0..n : f[i] \in Readings
    <2> SUFFICES ASSUME NEW i \in 0..n PROVE f[i] \in Readings
      OBVIOUS
    <2>1. i \in Nat /\ i <= n
      BY <1>1
    <2> QED
      BY <2>1, <1>14
  <1>16. Reads(f, t)
    BY <1>12, <1>13, <1>15 DEF Reads, n
  <1> QED
    BY <1>9, <1>10, <1>16 DEF n

(* A record that parses keeps psd=y, psd=n or psd=u. *)
LEMMA ParsedPsd ==
  ASSUME NEW t \in Seq(Tags), M!Parse(t).err = "nil"
  PROVE  M!Readable(t) /\ M!ParseTags(t) \in Readings /\ M!Parse(t).psd = M!ParseTags(t).psd
         /\ M!ParseTags(t).err = "nil"
  <1> DEFINE bad == [M!Record EXCEPT !.err = "unreadable"]
  <1>1. PICK f : /\ Reads(f, t)
                 /\ M!ParseTags(t) = IF M!Readable(t) THEN f[Len(t)] ELSE bad
    BY ParseReadsTags
  <1>2. bad.err = "unreadable"
    BY DEF M!Record
  <1> HIDE DEF bad
  <1>3. M!ParseTags(t).err = "nil"
    <2> SUFFICES ASSUME M!ParseTags(t).err # "nil" PROVE FALSE
      OBVIOUS
    <2>1. M!Parse(t) = M!ParseTags(t)
      BY DEF M!Parse
    <2> QED
      BY <2>1
  <1>4. M!Readable(t)
    BY <1>1, <1>2, <1>3
  <1>5. M!ParseTags(t) \in Readings
    <2>1. Len(t) \in Nat
      OBVIOUS
    <2>2. Len(t) \in 0..Len(t)
      BY <2>1
    <2> QED
      BY <1>1, <1>4, <2>2 DEF Reads
  <1>6. M!Parse(t).psd = M!ParseTags(t).psd
    <2>1. ASSUME NEW v \in Readings, v = M!ParseTags(t), v.err = "nil" PROVE M!Parse(t).psd = v.psd
      <3>1. [v EXCEPT !.err = "missing_policy"].psd = v.psd
        BY DEF Readings
      <3>2. [v EXCEPT !.p = "none", !.warnings = v.warnings \cup {"policy_defaulted_from_rua"}].psd = v.psd
        BY DEF Readings
      <3> QED
        BY <2>1, <3>1, <3>2 DEF M!Parse
    <2> QED
      BY <1>3, <1>5, <2>1
  <1> QED
    BY <1>3, <1>4, <1>5, <1>6

(* The reading f of the first k tags of t has seen the one psd tag there is  *)
(* among them, or none.                                                   *)
PsdSeen(f, t, k) ==
  f[k].err = "nil" =>
    \/ /\ f[k].psd = "u" /\ "psd" \notin f[k].seen
       /\ \A j \in 1..k : t[j].name # "psd"
    \/ /\ "psd" \in f[k].seen
       /\ \E i \in 1..k : /\ t[i].name = "psd" /\ t[i].val = f[k].psd
                          /\ \A j \in 1..k : t[j].name = "psd" => j = i

LEMMA PsdSeenStep ==
  ASSUME NEW t \in Seq(Tags), NEW f, Reads(f, t), NEW k \in Nat, k + 1 <= Len(t), PsdSeen(f, t, k)
  PROVE  PsdSeen(f, t, k + 1)
  <1> DEFINE r == f[k]
             s == f[k + 1]
             tag == t[k + 1]
  <1> SUFFICES ASSUME s.err = "nil" PROVE PsdSeen(f, t, k + 1)
    BY DEF PsdSeen
  <1>1. /\ k + 1 \in 1..Len(t) /\ (k + 1) - 1 = k /\ k \in 0..Len(t) /\ k + 1 \in 0..Len(t)
        /\ \A j \in 1..(k + 1) : j = k + 1 \/ j \in 1..k
        /\ \A j \in 1..k : j \in 1..(k + 1) /\ j # k + 1
    <2>1. Len(t) \in Nat
      OBVIOUS
    <2> QED
      BY <2>1
  <1>2. s = M!ParseTag(r, tag) /\ r \in Readings /\ tag \in Tags
    <2>1. tag \in Tags
      BY <1>1
    <2> QED
      BY <1>1, <2>1 DEF Reads
  <1>3. ASSUME NEW e \in {"duplicate_tag", "bad_value"} PROVE s # Refused(r, e)
    <2>1. Refused(r, e).err = e /\ e # "nil"
      BY <1>2 DEF Refused, Readings
    <2> QED
      BY <2>1
  <1>4. r.err = "nil"
    <2>1. CASE r.err # "nil"
      BY <1>2, <2>1, TagCases
    <2> QED
      BY <2>1
  <1>5. CASE s = r /\ tag.name \notin M!knownTags
    <2>1. tag.name # "psd"
      BY <1>5 DEF M!knownTags
    <2> QED
      BY <1>1, <1>4, <1>5, <2>1 DEF PsdSeen
  <1>6. CASE s = Taken(r, tag) /\ tag.name \notin r.seen
    <2>1. HasTaken(s, r, tag)
      BY <1>6, TakenFields
    <2>2. s.psd = (IF tag.name = "psd" THEN tag.val ELSE r.psd) /\ s.seen = r.seen \cup {tag.name}
      BY <2>1 DEF HasTaken
    <2>3. CASE tag.name = "psd"
      <3>1. "psd" \notin r.seen
        BY <1>6, <2>3
      <3>2. \A j \in 1..k : t[j].name # "psd"
        BY <1>4, <3>1 DEF PsdSeen
      <3>3. k + 1 \in 1..(k + 1)
        OBVIOUS
      <3>4. "psd" \in s.seen /\ t[k + 1].val = s.psd /\ t[k + 1].name = "psd"
        BY <2>2, <2>3
      <3>5. \A j \in 1..(k + 1) : t[j].name = "psd" => j = k + 1
        BY <1>1, <3>2
      <3> QED
        BY <3>3, <3>4, <3>5 DEF PsdSeen
    <2>4. CASE tag.name # "psd"
      <3>1. s.psd = r.psd /\ ("psd" \in s.seen <=> "psd" \in r.seen)
        BY <2>2, <2>4
      <3>2. CASE "psd" \in r.seen
        <4>1. PICK i \in 1..k : t[i].name = "psd" /\ t[i].val = r.psd
                                /\ \A j \in 1..k : t[j].name = "psd" => j = i
          BY <1>4, <3>2 DEF PsdSeen
        <4>2. i \in 1..(k + 1) /\ \A j \in 1..(k + 1) : t[j].name = "psd" => j = i
          BY <1>1, <2>4, <4>1
        <4> QED
          BY <3>1, <3>2, <4>1, <4>2 DEF PsdSeen
      <3>3. CASE "psd" \notin r.seen
        <4>1. r.psd = "u" /\ \A j \in 1..k : t[j].name # "psd"
          BY <1>4, <3>3 DEF PsdSeen
        <4>2. \A j \in 1..(k + 1) : t[j].name # "psd"
          BY <1>1, <2>4, <4>1
        <4> QED
          BY <3>1, <3>3, <4>1, <4>2 DEF PsdSeen
      <3> QED
        BY <3>2, <3>3
    <2> QED
      BY <2>3, <2>4
  <1> QED
    BY <1>2, <1>3, <1>4, <1>5, <1>6, TagCases

(* The psd tag read from a record that parses is the one scanPSD reads. *)
LEMMA PsdIsScanned ==
  ASSUME NEW t \in Seq(Tags), M!Parse(t).err = "nil"
  PROVE  M!Parse(t).psd = M!scanPSD(t)
  <1>1. M!Readable(t) /\ M!ParseTags(t) \in Readings /\ M!Parse(t).psd = M!ParseTags(t).psd
        /\ M!ParseTags(t).err = "nil"
    BY ParsedPsd
  <1>2. PICK f : Reads(f, t) /\ M!ParseTags(t) = f[Len(t)]
    BY <1>1, ParseReadsTags
  <1> DEFINE n == Len(t)
             Done == {k \in Nat : k <= n => PsdSeen(f, t, k)}
  <1>3. n \in Nat /\ DOMAIN t = 1..n
    OBVIOUS
  <1>4. Done = Nat
    <2>1. 0 \in Done
      <3>1. f[0].psd = "u" /\ f[0].seen = {} /\ \A j \in 1..0 : FALSE
        BY <1>2 DEF Reads, M!Record
      <3> QED
        BY <3>1 DEF PsdSeen
    <2>2. ASSUME NEW k \in Done PROVE k + 1 \in Done
      BY <1>2, <2>2, PsdSeenStep
    <2> HIDE DEF Done
    <2>3. Done \in SUBSET Nat
      BY DEF Done
    <2> QED
      BY <2>1, <2>2, <2>3, NatSetInduction
  <1>5. PsdSeen(f, t, n)
    BY <1>3, <1>4
  <1> DEFINE at == {i \in DOMAIN t : t[i].name = "psd"}
             first == t[M!First(at)].val
  <1>6. M!scanPSD(t) = IF at # {} /\ first \in {"y", "n"} THEN first ELSE "u"
    BY DEF M!scanPSD
  <1>7. f[n].psd \in {"y", "n", "u"}
    BY <1>1, <1>2 DEF Readings
  <1>8. CASE \A j \in 1..n : t[j].name # "psd"
    <2>1. at = {}
      BY <1>3, <1>8
    <2>2. f[n].psd = "u"
      BY <1>1, <1>2, <1>5, <1>8 DEF PsdSeen
    <2> QED
      BY <1>1, <1>2, <1>6, <2>1, <2>2
  <1>9. ASSUME NEW i \in 1..n, t[i].name = "psd", t[i].val = f[n].psd,
               \A j \in 1..n : t[j].name = "psd" => j = i
        PROVE  M!Parse(t).psd = M!scanPSD(t)
    <2>1. at = {i}
      BY <1>3, <1>9
    <2>2. M!First(at) = i
      BY <1>3, <2>1 DEF M!First
    <2> QED
      BY <1>1, <1>2, <1>6, <1>7, <1>9, <2>1, <2>2
  <1> QED
    BY <1>1, <1>2, <1>5, <1>8, <1>9 DEF PsdSeen

(* u is t with the tags at i and behind it exchanged. *)
Swapped(u, t, i) ==
  /\ u \in Seq(Tags) /\ Len(u) = Len(t) /\ u[i] = t[i + 1] /\ u[i + 1] = t[i]
  /\ \A j \in 1..Len(t) : j # i /\ j # i + 1 => u[j] = t[j]

LEMMA TagsSwapped ==
  ASSUME NEW t \in Seq(Tags), NEW i \in 2..(Len(t) - 1)
  PROVE  Swapped([t EXCEPT ![i] = t[i + 1], ![i + 1] = t[i]], t, i)
  <1> DEFINE u == [t EXCEPT ![i] = t[i + 1], ![i + 1] = t[i]]
             n == Len(t)
  <1>1. n \in Nat /\ t \in [1..n -> Tags]
    OBVIOUS
  <1>2. i \in 1..n /\ i + 1 \in 1..n /\ i # i + 1
    BY <1>1
  <1> HIDE DEF n
  <1>3. u \in [1..n -> Tags] /\ u[i] = t[i + 1] /\ u[i + 1] = t[i]
        /\ \A j \in 1..n : j # i /\ j # i + 1 => u[j] = t[j]
    BY <1>1, <1>2
  <1> HIDE DEF u
  <1>4. u \in Seq(Tags) /\ Len(u) = n
    BY <1>1, <1>3
  <1> QED
    BY <1>3, <1>4 DEF Swapped, n, u

LEMMA SwapReadsAlike ==
  ASSUME NEW t \in Seq(Tags), NEW i \in 2..(Len(t) - 1), NEW u, Swapped(u, t, i),
         NEW f, Reads(f, t), NEW g, Reads(g, u)
  PROVE  Alike(f[Len(t)], g[Len(t)])
  <1> DEFINE n == Len(t)
  <1>1. n \in Nat /\ \A j \in 1..n : t[j] \in Tags
    OBVIOUS
  <1>2. /\ u \in Seq(Tags) /\ Len(u) = n /\ u[i] = t[i + 1] /\ u[i + 1] = t[i]
        /\ \A j \in 1..n : j # i /\ j # i + 1 => u[j] = t[j]
    BY DEF Swapped
  <1>3. /\ f[0] = M!Record /\ \A j \in 0..n : f[j] \in Readings
        /\ \A j \in 1..n : f[j] = M!ParseTag(f[j - 1], t[j])
    BY DEF Reads
  <1>4. /\ g[0] = M!Record /\ \A j \in 0..n : g[j] \in Readings
        /\ \A j \in 1..n : g[j] = M!ParseTag(g[j - 1], u[j])
    BY <1>2 DEF Reads
  <1>5. i \in Nat /\ i >= 2 /\ i + 1 <= n
    BY <1>1
  <1> HIDE DEF n
  <1> DEFINE Prefix == {k \in Nat : k <= i - 1 => f[k] = g[k]}
  <1>6. Prefix = Nat
    <2>1. 0 \in Prefix
      BY <1>3, <1>4
    <2>2. ASSUME NEW k \in Prefix PROVE k + 1 \in Prefix
      <3> SUFFICES ASSUME k + 1 <= i - 1 PROVE f[k + 1] = g[k + 1]
        BY <2>2
      <3>1. /\ k \in Nat /\ k + 1 \in 1..n /\ k + 1 # i /\ k + 1 # i + 1 /\ (k + 1) - 1 = k /\ f[k] = g[k]
        BY <1>1, <1>5, <2>2
      <3>2. u[k + 1] = t[k + 1]
        BY <1>2, <3>1
      <3>3. f[k + 1] = M!ParseTag(f[k], t[k + 1]) /\ g[k + 1] = M!ParseTag(g[k], u[k + 1])
        BY <1>3, <1>4, <3>1
      <3> QED
        BY <3>1, <3>2, <3>3
    <2> HIDE DEF Prefix
    <2>3. Prefix \in SUBSET Nat
      BY DEF Prefix
    <2> QED
      BY <2>1, <2>2, <2>3, NatSetInduction
  <1> DEFINE Suffix == {k \in Nat : i + 1 + k <= n => Alike(f[i + 1 + k], g[i + 1 + k])}
  <1>7. Suffix = Nat
    <2>1. 0 \in Suffix
      <3>1. i - 1 \in Nat /\ i - 1 \in 0..n /\ i \in 1..n /\ i + 1 \in 1..n /\ (i + 1) - 1 = i
            /\ i + 1 + 0 = i + 1
        BY <1>1, <1>5
      <3>2. f[i - 1] = g[i - 1] /\ f[i - 1] \in Readings
        BY <1>3, <1>6, <3>1
      <3>3. f[i] = M!ParseTag(f[i - 1], t[i]) /\ g[i] = M!ParseTag(f[i - 1], t[i + 1])
        BY <1>2, <1>3, <1>4, <3>1, <3>2
      <3>4. f[i + 1] = M!ParseTag(f[i], t[i + 1]) /\ g[i + 1] = M!ParseTag(g[i], t[i])
        BY <1>2, <1>3, <1>4, <3>1
      <3>5. t[i] \in Tags /\ t[i + 1] \in Tags
        BY <1>1, <3>1
      <3>6. Alike(f[i + 1], g[i + 1])
        BY <3>2, <3>3, <3>4, <3>5, TagsCommute
      <3> QED
        BY <3>1, <3>6
    <2>2. ASSUME NEW k \in Suffix PROVE k + 1 \in Suffix
      <3> DEFINE m == i + 1 + k
      <3> SUFFICES ASSUME i + 1 + (k + 1) <= n PROVE Alike(f[i + 1 + (k + 1)], g[i + 1 + (k + 1)])
        BY <2>2
      <3>1. /\ k \in Nat /\ m \in Nat /\ i + 1 + (k + 1) = m + 1 /\ m + 1 \in 1..n /\ m + 1 # i /\ m + 1 # i + 1
            /\ (m + 1) - 1 = m /\ Alike(f[m], g[m])
        BY <1>1, <1>5, <2>2
      <3> HIDE DEF m
      <3>2. f[m + 1] = M!ParseTag(f[m], t[m + 1]) /\ g[m + 1] = M!ParseTag(g[m], t[m + 1])
        BY <1>2, <1>3, <1>4, <3>1
      <3>3. Alike(f[m + 1], g[m + 1])
        BY <3>1, <3>2, AlikeStays
      <3> QED
        BY <3>1, <3>3
    <2> HIDE DEF Suffix
    <2>3. Suffix \in SUBSET Nat
      BY DEF Suffix
    <2> QED
      BY <2>1, <2>2, <2>3, NatSetInduction
  <1>8. n - (i + 1) \in Nat /\ i + 1 + (n - (i + 1)) = n
    BY <1>1, <1>5
  <1>9. n - (i + 1) \in Suffix
    BY <1>7, <1>8
  <1> QED
    BY <1>1, <1>8, <1>9 DEF n

(* Exchanging two tags behind the version leaves the meaning. *)
LEMMA SwapKeepsMeaning ==
  ASSUME NEW t \in Seq(Tags), NEW i \in 2..(Len(t) - 1)
  PROVE  M!Meaning([t EXCEPT ![i] = t[i + 1], ![i + 1] = t[i]]) = M!Meaning(t)
  <1>1. PICK u : u = [t EXCEPT ![i] = t[i + 1], ![i + 1] = t[i]] /\ Swapped(u, t, i)
    BY TagsSwapped
  <1> SUFFICES M!Meaning(u) = M!Meaning(t)
    BY <1>1
  <1>2. u \in Seq(Tags) /\ Len(u) = Len(t) /\ Len(t) \in Nat /\ i >= 2 /\ Len(t) >= 1
    BY <1>1 DEF Swapped
  <1>3. u[1] = t[1]
    <2>1. 1 \in 1..Len(t) /\ 1 # i /\ 1 # i + 1
      BY <1>2
    <2> QED
      BY <1>1, <2>1 DEF Swapped
  <1>4. M!Readable(u) <=> M!Readable(t)
    <2>1. u # <<>> /\ t # <<>>
      BY <1>2
    <2>2. M!IsDMARC(u) <=> M!IsDMARC(t)
      BY <1>3, <2>1 DEF M!IsDMARC
    <2> QED
      BY <1>2, <2>2 DEF M!Readable
  <1> DEFINE bad == [M!Record EXCEPT !.err = "unreadable"]
  <1>5. PICK f : Reads(f, t) /\ M!ParseTags(t) = IF M!Readable(t) THEN f[Len(t)] ELSE bad
    BY ParseReadsTags
  <1>6. PICK g : Reads(g, u) /\ M!ParseTags(u) = IF M!Readable(u) THEN g[Len(u)] ELSE bad
    BY <1>2, ParseReadsTags
  <1>7. Alike(f[Len(t)], g[Len(t)])
    BY <1>1, <1>5, <1>6, SwapReadsAlike
  <1>8. Alike(M!ParseTags(t), M!ParseTags(u))
    BY <1>2, <1>4, <1>5, <1>6, <1>7 DEF Alike
  <1>9. ASSUME M!ParseTags(t) = M!ParseTags(u) PROVE M!Meaning(u) = M!Meaning(t)
    BY <1>9 DEF M!Meaning, M!Parse
  <1>10. ASSUME M!ParseTags(t).err # "nil", M!ParseTags(u).err # "nil" PROVE M!Meaning(u) = M!Meaning(t)
    <2>1. M!Parse(t) = M!ParseTags(t) /\ M!Parse(u) = M!ParseTags(u)
      BY <1>10 DEF M!Parse
    <2> QED
      BY <1>10, <2>1 DEF M!Meaning
  <1> QED
    BY <1>8, <1>9, <1>10 DEF Alike

LEMMA OrderIsFree == ASSUME mTxt \in Seq(Tags) PROVE M!OrderOfTagsIsFree
  <1>1. ASSUME NEW i \in 2..(Len(mTxt) - 1)
        PROVE  M!Meaning([mTxt EXCEPT ![i] = mTxt[i + 1], ![i + 1] = mTxt[i]]) = M!Meaning(mTxt)
    BY SwapKeepsMeaning
  <1>2. M!Parse(mTxt).err = "nil" => M!Parse(mTxt).psd = M!scanPSD(mTxt)
    BY PsdIsScanned
  <1> QED
    BY <1>1, <1>2 DEF M!OrderOfTagsIsFree

-----------------------------------------------------------------------------
(* DMARC: the tree walk.                                                    *)

(* How many names a walk from d asks, and which. *)
Count(d) == IF d >= 8 THEN 8 ELSE d
TreeNames(d) == {n \in 1..d : n = d \/ n <= 7}

(* What the name n is found to be in the zone z. *)
FoundIn(z, n) == M!classify(n, z[n])
Classes == {M!classify(n, a) : n \in Nat, a \in SUBSET Seq(Tags)}

(* An entry that does not end a walk. *)
Passed(e) == ~(e.kind = "record" /\ e.psd # "u")

(* The names ns are the ones a walk from d asks behind the first m. *)
Ahead(ns, d, m) ==
  ns \in Seq(Nat) /\ Len(ns) = Count(d) - m /\ \A i \in 1..Len(ns) : ns[i] = M!target(d, m + i)

(* A walk from d has found es, and is to ask ns. *)
Walked(z, d, ns, es) ==
  /\ es \in Seq(Classes) /\ Len(es) <= Count(d)
  /\ \A i \in 1..Len(es) : M!target(d, i) \in DOMAIN z /\ es[i] = FoundIn(z, M!target(d, i))
  /\ \A i \in 1..(Len(es) - 1) : Passed(es[i])
  /\ \/ Ahead(ns, d, Len(es)) /\ (Len(es) > 0 => Passed(es[Len(es)]))
     \/ ns = <<>> /\ Len(es) > 0 /\ ~Passed(es[Len(es)])

(* The walk from d ends at the name stop, or, if that is 0, asks all. *)
Complete(z, d, stop) ==
  /\ stop \in TreeNames(d) \cup {0}
  /\ stop # 0 => stop \in DOMAIN z /\ ~Passed(FoundIn(z, stop))
  /\ \A n \in TreeNames(d) : n > stop => n \in DOMAIN z /\ Passed(FoundIn(z, n))

(* The organizational domain of d, by where its walk ends. *)
IsOrg(z, d, stop, org) ==
  \/ stop # 0 /\ org = IF FoundIn(z, stop).psd = "n" \/ stop = d THEN stop ELSE stop + 1
  \/ stop = 0 /\ org = d /\ \A n \in TreeNames(d) : FoundIn(z, n).kind # "record"
  \/ /\ stop = 0 /\ org \in TreeNames(d) /\ FoundIn(z, org).kind = "record"
     /\ \A n \in TreeNames(d) : n < org => FoundIn(z, n).kind # "record"

Settled(z, d, org) ==
  \E stop \in Nat : /\ Complete(z, d, stop) /\ IsOrg(z, d, stop, org)
                    /\ \A n \in DOMAIN z \cap TreeNames(d) : n >= stop

LEMMA TargetNames ==
  ASSUME NEW d \in Nat \ {0}, NEW i \in 1..Count(d)
  PROVE  /\ M!target(d, i) \in TreeNames(d) /\ M!target(d, i) \in Nat
         /\ \A j \in 1..Count(d) : i < j => M!target(d, j) < M!target(d, i)
         /\ M!target(d, 1) = d
  BY DEF Count, TreeNames, M!target

LEMMA NamesAreTargets ==
  ASSUME NEW d \in Nat \ {0}, NEW n \in TreeNames(d)
  PROVE  \E i \in 1..Count(d) : M!target(d, i) = n
  <1>1. CASE n = d
    BY <1>1 DEF Count, TreeNames, M!target
  <1>2. CASE n # d /\ d >= 8
    <2>1. 9 - n \in 1..Count(d) /\ M!target(d, 9 - n) = n
      BY <1>2 DEF Count, TreeNames, M!target
    <2> QED
      BY <2>1
  <1>3. CASE n # d /\ d < 8
    <2>1. d + 1 - n \in 1..Count(d) /\ M!target(d, d + 1 - n) = n
      BY <1>3 DEF Count, TreeNames, M!target
    <2> QED
      BY <2>1
  <1> QED
    BY <1>1, <1>2, <1>3

LEMMA WalkStarts ==
  ASSUME NEW d \in Nat \ {0}
  PROVE  /\ Ahead(M!targets(d), d, 0) /\ Count(d) \in 1..8
         /\ \A n : (\E i \in DOMAIN M!targets(d) : M!targets(d)[i] = n) => n \in TreeNames(d)
  <1>1. Count(d) \in 1..8
    BY DEF Count
  <1>2. M!targets(d) = [i \in 1..Count(d) |-> M!target(d, i)]
    BY DEF M!targets, Count
  <1>3. \A i \in 1..Count(d) : M!target(d, i) \in Nat /\ M!target(d, i) \in TreeNames(d)
    BY TargetNames
  <1>4. M!targets(d) \in [1..Count(d) -> Nat]
    BY <1>2, <1>3
  <1>5. M!targets(d) \in Seq(Nat) /\ Len(M!targets(d)) = Count(d) /\ DOMAIN M!targets(d) = 1..Count(d)
    BY <1>1, <1>4
  <1>6. \A i \in 1..Count(d) : M!targets(d)[i] = M!target(d, 0 + i)
    BY <1>1, <1>2
  <1>7. Ahead(M!targets(d), d, 0)
    BY <1>1, <1>5, <1>6 DEF Ahead
  <1> QED
    BY <1>1, <1>2, <1>3, <1>5, <1>7

LEMMA Classified ==
  ASSUME NEW n, NEW a \in SUBSET Seq(Tags)
  PROVE  /\ M!classify(n, a).name = n /\ M!classify(n, a).psd \in {"y", "n", "u"}
  <1> DEFINE cands == {t \in a : M!IsDMARC(t)}
             t == CHOOSE x \in cands : TRUE
             rec == M!Parse(t)
             psd == IF rec.err = "nil" THEN rec.psd ELSE M!scanPSD(t)
  <1>1. ASSUME NEW v, v = M!NoEntry(n) PROVE v.name = n /\ v.psd = "u"
    BY <1>1 DEF M!NoEntry
  <1>2. ASSUME NEW v, v = [M!NoEntry(n) EXCEPT !.kind = "multiple"] PROVE v.name = n /\ v.psd = "u"
    BY <1>2 DEF M!NoEntry
  <1>3. ASSUME NEW v, v = [name |-> n, kind |-> "record", rec |-> rec, psd |-> psd]
        PROVE  v.name = n /\ v.psd = psd
    <2> HIDE DEF rec, psd
    <2> QED
      BY <1>3
  <1>4. cands # {} => psd \in {"y", "n", "u"}
    <2> SUFFICES ASSUME cands # {} PROVE psd \in {"y", "n", "u"}
      OBVIOUS
    <2>1. t \in Seq(Tags)
      OBVIOUS
    <2> HIDE DEF t
    <2>2. rec.err = "nil" => rec.psd \in {"y", "n", "u"}
      <3> SUFFICES ASSUME rec.err = "nil" PROVE rec.psd \in {"y", "n", "u"}
        OBVIOUS
      <3>1. M!ParseTags(t) \in Readings /\ rec.psd = M!ParseTags(t).psd
        BY <2>1, ParsedPsd
      <3> QED
        BY <3>1 DEF Readings
    <2>3. M!scanPSD(t) \in {"y", "n", "u"}
      BY DEF M!scanPSD
    <2> QED
      BY <2>2, <2>3
  <1> DEFINE many == [M!Record EXCEPT !.err = "too_many_txt_records"]
  <1>6. ASSUME NEW v, v = [name |-> n, kind |-> "record", psd |-> "u", rec |-> many]
        PROVE  v.name = n /\ v.psd = "u"
    <2> HIDE DEF many
    <2> QED
      BY <1>6
  <1>5. \/ M!classify(n, a) = [name |-> n, kind |-> "record", psd |-> "u", rec |-> many]
        \/ M!classify(n, a) = M!NoEntry(n)
        \/ M!classify(n, a) = [M!NoEntry(n) EXCEPT !.kind = "multiple"]
        \/ cands # {} /\ M!classify(n, a) = [name |-> n, kind |-> "record", rec |-> rec, psd |-> psd]
    BY DEF M!classify
  <1> HIDE DEF psd, rec, t, cands, many
  <1> QED
    BY <1>1, <1>2, <1>3, <1>4, <1>5, <1>6

LEMMA EntriesOf ==
  ASSUME NEW z, NEW d \in Nat \ {0}, NEW ns, NEW es, Walked(z, d, ns, es),
         \A n \in DOMAIN z : z[n] \in SUBSET Seq(Tags)
  PROVE  /\ Len(es) \in Nat /\ DOMAIN es = 1..Len(es) /\ Len(es) <= Count(d) /\ Count(d) \in 1..8
         /\ \A i \in 1..Len(es) : /\ i \in 1..Count(d) /\ M!target(d, i) \in DOMAIN z
                                  /\ es[i] = FoundIn(z, M!target(d, i))
                                  /\ es[i].name = M!target(d, i) /\ es[i].psd \in {"y", "n", "u"}
         /\ \A i \in 1..Len(es) : i # Len(es) => Passed(es[i])
  <1>1. es \in Seq(Classes) /\ Len(es) <= Count(d)
    BY DEF Walked
  <1>2. Len(es) \in Nat /\ DOMAIN es = 1..Len(es)
    BY <1>1
  <1>3. Count(d) \in 1..8
    BY WalkStarts
  <1>4. ASSUME NEW i \in 1..Len(es)
        PROVE  /\ i \in 1..Count(d) /\ M!target(d, i) \in DOMAIN z /\ es[i] = FoundIn(z, M!target(d, i))
               /\ es[i].name = M!target(d, i) /\ es[i].psd \in {"y", "n", "u"}
    <2>1. i \in 1..Count(d)
      BY <1>1, <1>2, <1>3
    <2>2. M!target(d, i) \in DOMAIN z /\ es[i] = FoundIn(z, M!target(d, i))
      BY DEF Walked
    <2>3. es[i].name = M!target(d, i) /\ es[i].psd \in {"y", "n", "u"}
      BY <2>2, Classified DEF FoundIn
    <2> QED
      BY <2>1, <2>2, <2>3
  <1>5. ASSUME NEW i \in 1..Len(es), i # Len(es) PROVE Passed(es[i])
    <2>1. ASSUME NEW k \in Nat, i \in 1..k, i # k PROVE i \in 1..(k - 1)
      BY <2>1
    <2>2. i \in 1..(Len(es) - 1)
      BY <1>2, <1>5, <2>1
    <2> QED
      BY <2>2 DEF Walked
  <1> QED
    BY <1>1, <1>2, <1>3, <1>4, <1>5

(* A walk that a marked record ends. *)
LEMMA StoppedWalk ==
  ASSUME NEW z, NEW d \in Nat \ {0}, NEW ns, NEW es, Walked(z, d, ns, es), Len(es) > 0,
         \A n \in DOMAIN z : z[n] \in SUBSET Seq(Tags), ~Passed(es[Len(es)])
  PROVE  /\ Complete(z, d, M!target(d, Len(es)))
         /\ IsOrg(z, d, M!target(d, Len(es)), M!resolve(d, es))
  <1> DEFINE m == Len(es)
             stop == M!target(d, m)
             e == es[m]
  <1>1. /\ m \in 1..Count(d) /\ m \in 1..m /\ DOMAIN es = 1..m /\ Count(d) \in 1..8
        /\ e = FoundIn(z, stop) /\ e.name = stop /\ stop \in DOMAIN z /\ e.psd \in {"y", "n", "u"}
    BY EntriesOf
  <1>2. \A i \in 1..m : i \in 1..Count(d) /\ M!target(d, i) \in DOMAIN z /\ es[i] = FoundIn(z, M!target(d, i))
                        /\ (i # m => Passed(es[i])) /\ es[i].psd \in {"y", "n", "u"}
    BY EntriesOf
  <1>3. stop \in TreeNames(d) /\ stop \in Nat \ {0} /\ stop <= d
    <2>1. stop \in TreeNames(d)
      BY <1>1, TargetNames
    <2> QED
      BY <2>1 DEF TreeNames
  <1> HIDE DEF m, stop
  <1>4. e.kind = "record" /\ e.psd \in {"y", "n"}
    BY <1>1 DEF Passed, m
  <1>5. Complete(z, d, stop)
    <2>1. ASSUME NEW n \in TreeNames(d), n > stop PROVE n \in DOMAIN z /\ Passed(FoundIn(z, n))
      <3>1. PICK i \in 1..Count(d) : M!target(d, i) = n
        BY NamesAreTargets
      <3>2. i < m
        <4>1. CASE m < i
          <5>1. n < stop
            BY <1>1, <3>1, <4>1, TargetNames DEF stop
          <5> QED
            BY <1>3, <2>1, <5>1 DEF TreeNames
        <4>2. CASE m = i
          BY <3>1, <4>2, <1>3, <2>1 DEF stop
        <4> QED
          BY <1>1, <4>1, <4>2
      <3>3. i \in 1..m /\ i # m
        BY <1>1, <3>2
      <3> QED
        BY <1>2, <3>1, <3>3
    <2>2. ~Passed(FoundIn(z, stop))
      BY <1>1 DEF m
    <2> QED
      BY <1>1, <1>3, <2>1, <2>2 DEF Complete
  <1> DEFINE marked == {i \in M!Records(es) : es[i].psd = "n" \/ (es[i].psd = "y" /\ es[i].name # d)}
  <1>6. m \in M!Records(es) /\ \A i \in M!Records(es) : i \in 1..m /\ (i # m => es[i].psd = "u")
    BY <1>1, <1>2, <1>4 DEF M!Records, Passed
  <1>7. M!First({m}) = m
    BY <1>1 DEF M!First
  <1>8. CASE e.psd = "n" \/ stop # d
    <2>1. marked = {m}
      BY <1>1, <1>4, <1>6, <1>8
    <2>2. M!resolve(d, es) = IF e.psd = "n" THEN e.name ELSE M!oneLabelBelow(d, e.name)
      BY <1>7, <2>1 DEF M!resolve
    <2>3. e.psd # "n" => M!oneLabelBelow(d, stop) = stop + 1
      BY <1>3, <1>8 DEF M!oneLabelBelow
    <2>4. M!resolve(d, es) = IF e.psd = "n" \/ stop = d THEN stop ELSE stop + 1
      BY <1>1, <1>8, <2>2, <2>3
    <2> QED
      BY <1>1, <1>3, <1>5, <2>4 DEF IsOrg, stop, m
  <1>9. CASE e.psd # "n" /\ stop = d
    <2>1. m = 1
      <3>1. CASE m # 1
        <4>1. 1 \in 1..Count(d) /\ 1 < m
          BY <1>1, <3>1
        <4>2. M!target(d, m) < M!target(d, 1) /\ M!target(d, 1) = d
          BY <1>1, <4>1, TargetNames
        <4> QED
          BY <1>3, <1>9, <4>2 DEF stop
      <3> QED
        BY <3>1
    <2>2. marked = {} /\ M!Records(es) = {m}
      <3>1. \A i \in M!Records(es) : i = m
        BY <1>6, <2>1
      <3> QED
        BY <1>1, <1>6, <1>9, <3>1
    <2>3. M!Final({m}) = m
      BY <1>1 DEF M!Final
    <2>4. M!resolve(d, es) = stop
      BY <1>1, <2>2, <2>3 DEF M!resolve
    <2> QED
      BY <1>3, <1>5, <1>9, <2>4 DEF IsOrg, stop, m
  <1> QED
    BY <1>8, <1>9

(* The greatest member of a set of positions. *)
LEMMA FinalIs ==
  ASSUME NEW m \in Nat, NEW S \in SUBSET (1..m), S # {}
  PROVE  M!Final(S) \in S /\ \A j \in S : j <= M!Final(S)
  <1> DEFINE Back == {m - i : i \in S}
  <1>0. \A i \in S : i \in Nat /\ m - i \in Nat
    OBVIOUS
  <1>1. Back \in SUBSET Nat /\ Back # {}
    BY <1>0
  <1>2. PICK b \in Back : \A c \in Back : b <= c
    <2> HIDE DEF Back
    <2> QED
      BY <1>1, LeastOf
  <1>3. PICK i \in S : b = m - i
    BY <1>2
  <1>4. \A j \in S : j <= i
    <2> SUFFICES ASSUME NEW j \in S PROVE j <= i
      OBVIOUS
    <2>1. m - i <= m - j
      BY <1>2, <1>3
    <2> QED
      BY <1>0, <2>1
  <1>5. \E x \in S : \A j \in S : j <= x
    BY <1>4
  <1> QED
    BY <1>5 DEF M!Final

(* A walk that no marked record ends. *)
LEMMA FullWalk ==
  ASSUME NEW z, NEW d \in Nat \ {0}, NEW ns, NEW es, Walked(z, d, ns, es), Len(es) = Count(d),
         \A n \in DOMAIN z : z[n] \in SUBSET Seq(Tags), Passed(es[Len(es)])
  PROVE  Complete(z, d, 0) /\ IsOrg(z, d, 0, M!resolve(d, es))
  <1> DEFINE m == Len(es)
  <1>1. /\ m \in Nat /\ m = Count(d) /\ DOMAIN es = 1..m
        /\ \A i \in 1..m : /\ i \in 1..Count(d) /\ M!target(d, i) \in DOMAIN z /\ es[i] = FoundIn(z, M!target(d, i))
                           /\ es[i].name = M!target(d, i) /\ es[i].psd \in {"y", "n", "u"}
    BY EntriesOf
  <1>2. \A i \in 1..m : Passed(es[i])
    BY EntriesOf
  <1> HIDE DEF m
  <1>3. \A n \in TreeNames(d) : \E i \in 1..m : M!target(d, i) = n
    BY <1>1, NamesAreTargets
  <1>4. Complete(z, d, 0)
    BY <1>1, <1>2, <1>3 DEF Complete
  <1> DEFINE marked == {i \in M!Records(es) : es[i].psd = "n" \/ (es[i].psd = "y" /\ es[i].name # d)}
             recs == M!Records(es)
  <1>5. recs \in SUBSET (1..m) /\ \A i \in 1..m : i \in recs <=> FoundIn(z, M!target(d, i)).kind = "record"
    BY <1>1 DEF M!Records
  <1>6. marked = {}
    BY <1>1, <1>2 DEF M!Records, Passed
  <1>7. CASE recs = {}
    <2>1. M!resolve(d, es) = d
      BY <1>6, <1>7 DEF M!resolve
    <2>2. \A n \in TreeNames(d) : FoundIn(z, n).kind # "record"
      BY <1>3, <1>5, <1>7
    <2> QED
      BY <1>4, <2>1, <2>2 DEF IsOrg
  <1>8. CASE recs # {}
    <2> DEFINE r == M!Final(recs)
    <2>1. r \in recs /\ \A j \in recs : j <= r
      <3> HIDE DEF recs
      <3> QED
        BY <1>1, <1>5, <1>8, FinalIs
    <2>2. M!resolve(d, es) = es[r].name
      BY <1>6, <1>8 DEF M!resolve
    <2> HIDE DEF r, recs
    <2>3. r \in 1..m /\ M!resolve(d, es) = M!target(d, r) /\ FoundIn(z, M!target(d, r)).kind = "record"
      BY <1>1, <1>5, <2>1, <2>2
    <2>4. M!target(d, r) \in TreeNames(d)
      BY <1>1, <2>3, TargetNames
    <2>5. ASSUME NEW n \in TreeNames(d), n < M!target(d, r) PROVE FoundIn(z, n).kind # "record"
      <3>1. PICK i \in 1..m : M!target(d, i) = n
        BY <1>3
      <3>2. ~(i < r)
        <4> SUFFICES ASSUME i < r PROVE FALSE
          OBVIOUS
        <4>1. M!target(d, r) < M!target(d, i)
          BY <1>1, <2>3, <3>1, TargetNames
        <4> QED
          BY <2>4, <2>5, <3>1, <4>1 DEF TreeNames
      <3>3. i # r
        BY <2>4, <2>5, <3>1 DEF TreeNames
      <3>4. ~(i <= r)
        BY <1>1, <2>3, <3>1, <3>2, <3>3
      <3> QED
        BY <1>5, <2>1, <3>1, <3>4
    <2> QED
      BY <1>4, <2>3, <2>4, <2>5 DEF IsOrg
  <1> QED
    BY <1>7, <1>8

(* The walk is over: it ended at stop, and asked no name above that. *)
LEMMA WalkSettles ==
  ASSUME NEW z, NEW d \in Nat \ {0}, NEW es, Walked(z, d, <<>>, es),
         \A n \in DOMAIN z : z[n] \in SUBSET Seq(Tags)
  PROVE  \E stop \in Nat : /\ Complete(z, d, stop) /\ IsOrg(z, d, stop, M!resolve(d, es))
                           /\ \A i \in 1..Len(es) : M!target(d, i) >= stop
  <1>1. /\ Len(es) \in Nat /\ Len(es) <= Count(d) /\ Count(d) \in 1..8
        /\ \A i \in 1..Len(es) : i \in 1..Count(d)
    BY EntriesOf
  <1>2. \A i \in 1..Len(es) : M!target(d, i) \in Nat
    BY <1>1, TargetNames
  <1>3. CASE Ahead(<<>>, d, Len(es)) /\ (Len(es) > 0 => Passed(es[Len(es)]))
    <2>1. Len(es) = Count(d)
      BY <1>1, <1>3 DEF Ahead
    <2>3. Passed(es[Len(es)])
      <3>1. Len(es) > 0
        BY <1>1, <2>1
      <3> QED
        BY <1>3, <3>1
    <2>2. Complete(z, d, 0) /\ IsOrg(z, d, 0, M!resolve(d, es))
      BY <2>1, <2>3, FullWalk
    <2> QED
      BY <1>2, <2>2
  <1>4. CASE Len(es) > 0 /\ ~Passed(es[Len(es)])
    <2> DEFINE m == Len(es)
               stop == M!target(d, m)
    <2>1. Complete(z, d, stop) /\ IsOrg(z, d, stop, M!resolve(d, es))
      BY <1>4, StoppedWalk
    <2>2. m \in 1..m /\ m \in Nat
      BY <1>1, <1>4
    <2>3. ASSUME NEW i \in 1..m PROVE M!target(d, i) >= stop
      <3>1. i \in 1..Count(d) /\ m \in 1..Count(d) /\ M!target(d, i) \in Nat
        BY <1>1, <1>2, <2>2
      <3>2. i = m \/ i < m
        BY <2>2
      <3>3. i < m => stop < M!target(d, i)
        BY <3>1, TargetNames
      <3>4. stop \in Nat
        BY <1>2, <2>2
      <3> HIDE DEF stop, m
      <3>5. i = m => stop = M!target(d, i)
        BY DEF stop
      <3> QED
        BY <3>1, <3>2, <3>3, <3>4, <3>5
    <2>4. stop \in Nat
      BY <1>2, <2>2
    <2> HIDE DEF stop
    <2> QED
      BY <2>1, <2>3, <2>4
  <1> QED
    BY <1>3, <1>4 DEF Walked

(* y knows all that z knows. *)
Knows(y, z) == \A n \in DOMAIN z : n \in DOMAIN y /\ y[n] = z[n]

LEMMA KnownStays ==
  ASSUME NEW z, NEW y, Knows(y, z), NEW n \in DOMAIN z
  PROVE  n \in DOMAIN y /\ FoundIn(y, n) = FoundIn(z, n)
  BY DEF Knows, FoundIn

LEMMA CompleteStays ==
  ASSUME NEW z, NEW y, Knows(y, z), NEW d, NEW stop, Complete(z, d, stop), NEW org, IsOrg(z, d, stop, org), stop \in Nat
  PROVE  Complete(y, d, stop) /\ IsOrg(y, d, stop, org)
  <1>1. \A n \in DOMAIN z : n \in DOMAIN y /\ FoundIn(y, n) = FoundIn(z, n)
    BY KnownStays
  <1>2. Complete(y, d, stop)
    BY <1>1 DEF Complete
  <1>3. stop # 0 => FoundIn(y, stop) = FoundIn(z, stop)
    BY <1>1 DEF Complete
  <1>4. stop = 0 => \A n \in TreeNames(d) : FoundIn(y, n) = FoundIn(z, n)
    <2> SUFFICES ASSUME stop = 0, NEW n \in TreeNames(d) PROVE FoundIn(y, n) = FoundIn(z, n)
      OBVIOUS
    <2>1. n > 0
      BY DEF TreeNames
    <2> QED
      BY <1>1, <2>1 DEF Complete
  <1>5. IsOrg(y, d, stop, org)
    BY <1>3, <1>4 DEF IsOrg
  <1> QED
    BY <1>2, <1>5

(* A name between the domain s and its organizational domain, which walks    *)
(* on its own, ends at the same organizational domain.                      *)
LEMMA SameOrganization ==
  ASSUME NEW z, NEW s \in Nat \ {0}, NEW org, NEW stop \in Nat, Complete(z, s, stop), IsOrg(z, s, stop, org),
         NEW id \in Nat \ {0}, id \in TreeNames(s) \cup {org}, id >= org, id # s,
         NEW stop2 \in Nat, NEW org2, Complete(z, id, stop2), IsOrg(z, id, stop2, org2)
  PROVE  org2 = org
  <1>1. stop # 0 => ~Passed(FoundIn(z, stop)) /\ stop \in 1..s /\ (stop = s \/ stop <= 7)
    BY DEF Complete, TreeNames
  <1>2. stop2 # 0 => ~Passed(FoundIn(z, stop2)) /\ stop2 \in 1..id
    BY DEF Complete, TreeNames
  <1>3. \A n \in TreeNames(s) : n > stop => Passed(FoundIn(z, n))
    BY DEF Complete
  <1>4. \A n \in TreeNames(id) : n > stop2 => Passed(FoundIn(z, n))
    BY DEF Complete
  <1>5. CASE stop = 0
    <2>1. org # s
      <3>1. CASE org = s
        <4>1. id \in TreeNames(s)
          BY <3>1
        <4> QED
          BY <3>1, <4>1 DEF TreeNames
      <3> QED
        BY <3>1
    <2>2. /\ org \in TreeNames(s) /\ FoundIn(z, org).kind = "record"
          /\ \A n \in TreeNames(s) : n < org => FoundIn(z, n).kind # "record"
      BY <1>5, <2>1 DEF IsOrg
    <2>3. id \in TreeNames(s) /\ id < s /\ id <= 7 /\ org \in Nat /\ org >= 1
      BY <2>2 DEF TreeNames
    <2>4. \A n : n \in TreeNames(id) <=> n \in 1..id
      BY <2>3 DEF TreeNames
    <2>5. \A n \in 1..id : n \in TreeNames(s) /\ n > 0 /\ n \in Nat
      BY <2>3 DEF TreeNames
    <2>6. stop2 = 0
      BY <1>2, <1>3, <1>5, <2>5
    <2>7. org \in 1..id
      BY <2>3
    <2>8. /\ org2 \in 1..id /\ FoundIn(z, org2).kind = "record"
          /\ \A n \in 1..id : n < org2 => FoundIn(z, n).kind # "record"
      BY <2>2, <2>4, <2>6, <2>7 DEF IsOrg
    <2>9. ~(org < org2) /\ ~(org2 < org)
      BY <2>2, <2>5, <2>7, <2>8
    <2> QED
      BY <2>3, <2>8, <2>9
  <1>6. CASE stop # 0 /\ FoundIn(z, stop).psd = "n"
    <2>1. org = stop
      BY <1>6 DEF IsOrg
    <2>2. id < s /\ id <= 7 /\ stop \in 1..id
      BY <1>1, <1>6, <2>1 DEF TreeNames
    <2>3. \A n \in 1..id : n \in TreeNames(s) /\ n \in TreeNames(id)
      BY <2>2 DEF TreeNames
    <2>4. ~(stop > stop2)
      BY <1>1, <1>4, <1>6, <2>2, <2>3
    <2>5. stop2 # 0
      BY <1>1, <1>6, <2>4
    <2>6. ~(stop2 > stop)
      BY <1>2, <1>3, <2>3, <2>5
    <2>7. stop2 = stop
      BY <2>4, <2>6
    <2> QED
      BY <1>6, <2>1, <2>7 DEF IsOrg
  <1>7. CASE stop # 0 /\ FoundIn(z, stop).psd # "n"
    <2>1. stop # s
      <3>1. CASE stop = s
        <4>1. org = s
          BY <1>7, <3>1 DEF IsOrg
        <4> QED
          BY <4>1 DEF TreeNames
      <3> QED
        BY <3>1
    <2>2. org = stop + 1 /\ stop < s /\ stop <= 7 /\ stop \in 1..id /\ stop # id
      <3>1. org = stop + 1
        BY <1>7, <2>1 DEF IsOrg
      <3> QED
        BY <1>1, <1>7, <2>1, <3>1
    <2>3. id <= 8 /\ id <= s /\ (id = 8 => id = org)
      BY <2>2 DEF TreeNames
    <2>4. \A n \in 1..id : n \in TreeNames(id) /\ (n \in TreeNames(s) \/ n = 8)
      BY <2>3 DEF TreeNames
    <2>5. ~(stop > stop2)
      BY <1>1, <1>4, <1>7, <2>2, <2>4
    <2>6. stop2 # 0
      BY <1>1, <1>7, <2>5
    <2>7. CASE stop2 = stop
      BY <1>7, <2>2, <2>7 DEF IsOrg
    <2>8. CASE stop2 # stop
      <3>1. stop2 > stop /\ stop2 \in 1..id
        BY <1>2, <2>5, <2>6, <2>8
      <3>2. stop2 = 8
        BY <1>2, <1>3, <2>4, <2>6, <3>1
      <3>3. id = 8 /\ org = 8
        BY <2>3, <3>1, <3>2
      <3> QED
        BY <2>6, <3>2, <3>3 DEF IsOrg
    <2> QED
      BY <2>7, <2>8
  <1> QED
    BY <1>5, <1>6, <1>7

(* Above the organizational domain only a public suffix publishes. *)
LEMMA SettledRecords ==
  ASSUME NEW z, NEW s \in Nat \ {0}, NEW org, Settled(z, s, org),
         \A n \in DOMAIN z : z[n] \in SUBSET Seq(Tags),
         NEW n \in DOMAIN z, n # s, n \in TreeNames(s), FoundIn(z, n).kind = "record"
  PROVE  IF n < org THEN FoundIn(z, n).psd = "y" /\ n = org - 1 ELSE FoundIn(z, n).psd # "y"
  <1>1. PICK stop \in Nat : /\ Complete(z, s, stop) /\ IsOrg(z, s, stop, org)
                            /\ \A x \in DOMAIN z \cap TreeNames(s) : x >= stop
    BY DEF Settled
  <1>2. n \in 1..s /\ n >= stop /\ n < s
    BY <1>1 DEF TreeNames
  <1>3. n > stop => Passed(FoundIn(z, n))
    BY <1>1 DEF Complete
  <1>4. n > stop => FoundIn(z, n).psd = "u"
    BY <1>3 DEF Passed
  <1>5. CASE stop = 0
    <2>1. FoundIn(z, n).psd = "u"
      BY <1>2, <1>4, <1>5
    <2>2. ~(n < org)
      BY <1>1, <1>2, <1>5 DEF IsOrg
    <2> QED
      BY <2>1, <2>2
  <1>6. CASE stop # 0
    <2>1. stop # s /\ stop \in Nat
      BY <1>2
    <2>2. org = IF FoundIn(z, stop).psd = "n" THEN stop ELSE stop + 1
      BY <1>1, <1>6, <2>1 DEF IsOrg
    <2>3. ~Passed(FoundIn(z, stop)) /\ stop \in DOMAIN z
      BY <1>1, <1>6 DEF Complete
    <2>4. FoundIn(z, stop).psd \in {"y", "n"}
      <3>1. FoundIn(z, stop).psd \in {"y", "n", "u"}
        BY <2>3, Classified DEF FoundIn
      <3> QED
        BY <2>3, <3>1 DEF Passed
    <2>5. CASE n = stop
      BY <2>2, <2>4, <2>5
    <2>6. CASE n > stop
      <3>1. ~(n < org)
        BY <1>2, <2>2, <2>6
      <3> QED
        BY <1>4, <2>6, <3>1
    <2> QED
      BY <1>2, <2>5, <2>6
  <1> QED
    BY <1>5, <1>6

(* The walk from d asked the next name of ns, and found e. *)
WentOn(y, d, ns, es, rest, e) ==
  /\ Walked(y, d, rest, Append(es, e)) /\ Len(es) + 1 \in 1..Count(d)
  /\ Head(ns) = M!target(d, Len(es) + 1) /\ \A i \in 1..Len(es) : Passed(es[i])

LEMMA LookupWalks ==
  ASSUME NEW z, NEW y, Knows(y, z), NEW d \in Nat \ {0}, NEW ns, NEW es, Walked(z, d, ns, es), ns # <<>>,
         \A n \in DOMAIN z : z[n] \in SUBSET Seq(Tags),
         Head(ns) \in DOMAIN y, y[Head(ns)] \in SUBSET Seq(Tags),
         NEW e, e = M!classify(Head(ns), y[Head(ns)]), NEW rest, rest = IF Passed(e) THEN Tail(ns) ELSE <<>>
  PROVE  WentOn(y, d, ns, es, rest, e)
  <1> DEFINE m == Len(es)
             n == Head(ns)
             fs == Append(es, e)
  <1>1. Ahead(ns, d, m) /\ (m > 0 => Passed(es[m]))
    BY DEF Walked
  <1>2. es \in Seq(Classes) /\ m \in Nat /\ Count(d) \in 1..8 /\ m <= Count(d)
    BY EntriesOf DEF Walked
  <1>3. /\ ns \in Seq(Nat) /\ Len(ns) = Count(d) - m /\ \A i \in 1..Len(ns) : ns[i] = M!target(d, m + i)
    BY <1>1 DEF Ahead
  <1>4. Len(ns) \in Nat /\ Len(ns) > 0 /\ n = ns[1] /\ 1 \in 1..Len(ns)
    BY <1>3
  <1>5. n = M!target(d, m + 1) /\ n \in Nat /\ m + 1 \in 1..Count(d)
    <2>1. m + 1 \in 1..Count(d)
      BY <1>2, <1>3, <1>4
    <2> QED
      BY <2>1, <1>3, <1>4, TargetNames
  <1>6. e \in Classes /\ e = FoundIn(y, M!target(d, m + 1))
    BY <1>5 DEF Classes, FoundIn
  <1>7. fs \in Seq(Classes) /\ Len(fs) = m + 1 /\ fs[m + 1] = e /\ \A i \in 1..m : fs[i] = es[i]
    BY <1>2, <1>6
  <1>8. \A i \in 1..m : Passed(es[i])
    <2>1. \A i \in 1..m : i # m => Passed(es[i])
      BY EntriesOf
    <2> QED
      BY <1>1, <1>2, <2>1
  <1>9. ASSUME NEW i \in 1..(m + 1)
        PROVE  M!target(d, i) \in DOMAIN y /\ fs[i] = FoundIn(y, M!target(d, i))
    <2>1. CASE i = m + 1
      BY <1>5, <1>6, <1>7, <2>1
    <2>2. CASE i # m + 1
      <3>1. i \in 1..m
        BY <1>2, <2>2
      <3>2. M!target(d, i) \in DOMAIN z /\ es[i] = FoundIn(z, M!target(d, i))
        BY <3>1, EntriesOf
      <3>3. M!target(d, i) \in DOMAIN y /\ FoundIn(y, M!target(d, i)) = FoundIn(z, M!target(d, i))
        BY <3>2, KnownStays
      <3> QED
        BY <1>7, <3>1, <3>2, <3>3
    <2> QED
      BY <2>1, <2>2
  <1>10. \A i \in 1..((m + 1) - 1) : Passed(fs[i])
    <2>1. (m + 1) - 1 = m
      BY <1>2
    <2> QED
      BY <1>7, <1>8, <2>1
  <1>11. \/ Ahead(rest, d, m + 1) /\ (m + 1 > 0 => Passed(fs[m + 1]))
         \/ rest = <<>> /\ m + 1 > 0 /\ ~Passed(fs[m + 1])
    <2>1. CASE Passed(e)
      <3>1. rest = Tail(ns)
        BY <2>1
      <3>2. rest \in Seq(Nat) /\ Len(rest) = Len(ns) - 1 /\ \A i \in 1..(Len(ns) - 1) : rest[i] = ns[i + 1]
        BY <1>3, <1>4, <3>1
      <3>3. Len(rest) = Count(d) - (m + 1)
        <4>1. ASSUME NEW c \in 1..8, NEW k \in Nat, NEW r, NEW l, l = c - k, r = l - 1 PROVE r = c - (k + 1)
          BY <4>1
        <4> QED
          BY <1>2, <1>3, <3>2, <4>1
      <3>4. ASSUME NEW i \in 1..Len(rest) PROVE rest[i] = M!target(d, (m + 1) + i)
        <4>1. i \in 1..(Len(ns) - 1) /\ i + 1 \in 1..Len(ns) /\ (m + 1) + i = m + (i + 1)
          BY <1>2, <1>4, <3>2
        <4> QED
          BY <1>3, <3>2, <4>1
      <3> QED
        BY <1>7, <2>1, <3>2, <3>3, <3>4 DEF Ahead
    <2>2. CASE ~Passed(e)
      BY <1>2, <1>7, <2>2
    <2> QED
      BY <2>1, <2>2
  <1>12. Walked(y, d, rest, fs)
    <2>1. m + 1 <= Count(d)
      BY <1>2, <1>5
    <2> HIDE DEF m, fs
    <2> QED
      BY <1>7, <1>9, <1>10, <1>11, <2>1 DEF Walked
  <1> QED
    BY <1>5, <1>8, <1>12 DEF WentOn

(* The walk of a name below the organizational domain asks no name above     *)
(* the one where the walk of the domain s ended.                           *)
LEMMA IdentityAsksBelow ==
  ASSUME NEW z, NEW s \in Nat \ {0}, NEW org, NEW stop \in Nat, Complete(z, s, stop), IsOrg(z, s, stop, org),
         NEW id \in Nat \ {0}, id \in TreeNames(s) \cup {org}, id >= org, id # s,
         NEW k \in 1..Count(id),
         \A i \in 1..(k - 1) : Passed(FoundIn(z, M!target(id, i)))
  PROVE  M!target(id, k) >= stop
  <1>1. M!target(id, k) \in TreeNames(id) /\ M!target(id, k) \in Nat
    BY TargetNames
  <1> SUFFICES ASSUME M!target(id, k) < stop PROVE FALSE
    BY <1>1
  <1>2. stop # 0 /\ stop \in 1..s /\ (stop = s \/ stop <= 7) /\ ~Passed(FoundIn(z, stop))
    BY <1>1 DEF Complete, TreeNames
  <1>3. org = IF FoundIn(z, stop).psd = "n" \/ stop = s THEN stop ELSE stop + 1
    BY <1>2 DEF IsOrg
  <1>4. id >= stop /\ id <= s /\ id <= 8
    <2>1. org \in Nat /\ org >= stop /\ org <= stop + 1 /\ org <= s
      BY <1>2, <1>3
    <2>2. stop # s
      BY <2>1 DEF TreeNames
    <2>3. stop <= 7 /\ org <= 8
      BY <1>2, <2>1, <2>2
    <2>4. id \in TreeNames(s) => id <= 7 /\ id <= s
      BY DEF TreeNames
    <2> QED
      BY <2>1, <2>3, <2>4
  <1>5. stop \in TreeNames(id)
    BY <1>2, <1>4 DEF TreeNames
  <1>6. PICK i \in 1..Count(id) : M!target(id, i) = stop
    BY <1>5, NamesAreTargets
  <1>7. Count(id) \in Nat
    BY WalkStarts
  <1>8. i < k
    <2>1. ~(k < i)
      <3> SUFFICES ASSUME k < i PROVE FALSE
        OBVIOUS
      <3>1. M!target(id, i) < M!target(id, k)
        BY TargetNames
      <3> QED
        BY <1>1, <1>6, <3>1
    <2>2. i # k
      BY <1>1, <1>6
    <2> QED
      BY <1>7, <2>1, <2>2
  <1>9. i \in 1..(k - 1)
    BY <1>7, <1>8
  <1> QED
    BY <1>2, <1>6, <1>9

LEMMA OrgTyped ==
  ASSUME NEW z, NEW d \in Nat \ {0}, NEW org, NEW stop \in Nat, Complete(z, d, stop), IsOrg(z, d, stop, org)
  PROVE  org \in Nat \ {0}
  BY DEF Complete, IsOrg, TreeNames

(* The inductive invariant of the walk: what was found so far is what the    *)
(* zone holds, the first walk asked only its own names, and when it is over  *)
(* the zone settles the organizational domain.                             *)
ZoneTyped == \A n \in DOMAIN zone : zone[n] \in SUBSET Seq(Tags)
FirstWalk ==
  /\ DOMAIN walks = {} /\ Walked(zone, start, names, entries)
  /\ \A n \in DOMAIN zone : \E i \in 1..Len(entries) : M!target(start, i) = n
SecondWalk ==
  /\ DOMAIN walks = {start} /\ Settled(zone, start, walks[start])
  /\ identity # start /\ identity \in TreeNames(start) \cup {walks[start]} /\ identity >= walks[start]
  /\ Walked(zone, identity, names, entries)
WalksOver ==
  /\ names = <<>> /\ entries = <<>> /\ DOMAIN walks \subseteq {start, identity}
  /\ start \in DOMAIN walks => Settled(zone, start, walks[start])
  /\ {start, identity} \subseteq DOMAIN walks => walks[identity] = walks[start]
DmarcInv ==
  /\ mTxt \in Seq(Tags) /\ mPc \in {"idle", "walk", "walkid", "assess", "done"} /\ ZoneTyped
  /\ mPc = "idle" => names = <<>> /\ entries = <<>> /\ DOMAIN zone = {} /\ DOMAIN walks = {}
  /\ mPc # "idle" => start \in Nat \ {0} /\ identity \in Nat \ {0}
  /\ mPc = "walk" => FirstWalk
  /\ mPc = "walkid" => SecondWalk
  /\ mPc \in {"assess", "done"} => WalksOver

LEMMA WalkIsShort ==
  ASSUME NEW z, NEW d \in Nat \ {0}, NEW ns, NEW es, Walked(z, d, ns, es)
  PROVE  Len(ns) + Len(es) <= 8
  <1>1. es \in Seq(Classes) /\ Len(es) <= Count(d) /\ Count(d) \in 1..8
    BY WalkStarts DEF Walked
  <1>2. Len(es) \in Nat
    BY <1>1
  <1>3. CASE Ahead(ns, d, Len(es))
    <2>1. Len(ns) = Count(d) - Len(es)
      BY <1>3 DEF Ahead
    <2>2. ASSUME NEW c \in 1..8, NEW k \in Nat, NEW l, l = c - k PROVE l + k <= 8
      BY <2>2
    <2> QED
      BY <1>1, <1>2, <2>1, <2>2
  <1>4. CASE ns = <<>>
    <2>1. Len(ns) = 0
      BY <1>4
    <2> QED
      BY <1>1, <1>2, <2>1
  <1> QED
    BY <1>3, <1>4 DEF Walked

LEMMA DmarcInvIsFound == DmarcInv => M!PolicyIsFound
  <1> SUFFICES ASSUME DmarcInv PROVE M!PolicyIsFound
    OBVIOUS
  <1>1. M!OrderOfTagsIsFree
    BY OrderIsFree DEF DmarcInv
  <1>2. Len(names) + Len(entries) <= 8
    <2>1. CASE mPc \in {"idle", "assess", "done"}
      <3>1. names = <<>> /\ entries = <<>>
        BY <2>1 DEF DmarcInv, WalksOver
      <3> QED
        BY <3>1
    <2>2. CASE mPc = "walk"
      BY <2>2, WalkIsShort DEF DmarcInv, FirstWalk
    <2>3. CASE mPc = "walkid"
      BY <2>3, WalkIsShort DEF DmarcInv, SecondWalk
    <2> QED
      BY <2>1, <2>2, <2>3 DEF DmarcInv
  <1>3. DOMAIN walks \subseteq {start, identity}
    BY DEF DmarcInv, FirstWalk, SecondWalk, WalksOver
  <1>4. start \in DOMAIN walks => Settled(zone, start, walks[start]) /\ start \in Nat \ {0}
    BY DEF DmarcInv, FirstWalk, SecondWalk, WalksOver
  <1>5. ASSUME NEW d \in DOMAIN walks \cap {start}, NEW n \in DOMAIN zone \ {d},
               \E i \in DOMAIN M!targets(d) : M!targets(d)[i] = n, M!Found(n).kind = "record"
        PROVE  IF n < walks[d] THEN M!Found(n).psd = "y" /\ n = walks[d] - 1 ELSE M!Found(n).psd # "y"
    <2>1. d = start /\ Settled(zone, start, walks[start]) /\ start \in Nat \ {0}
      BY <1>4
    <2>2. n \in TreeNames(start)
      BY <1>5, <2>1, WalkStarts
    <2>3. M!Found(n) = FoundIn(zone, n)
      BY DEF M!Found, FoundIn
    <2> QED
      BY <1>5, <2>1, <2>2, <2>3, SettledRecords DEF DmarcInv, ZoneTyped
  <1>6. ASSUME {start, identity} \subseteq DOMAIN walks
        PROVE  M!Aligned(start, identity, "r", walks) = "aligned"
    <2>1. CASE start = identity
      BY <2>1 DEF M!Aligned
    <2>2. CASE start # identity
      <3>1. walks[identity] = walks[start]
        BY <1>6, <2>2 DEF DmarcInv, FirstWalk, SecondWalk, WalksOver
      <3> QED
        BY <1>6, <2>2, <3>1 DEF M!Aligned
    <2> QED
      BY <2>1, <2>2
  <1>7. M!OrgIsTheOrganization
    BY <1>5, <1>6 DEF M!OrgIsTheOrganization
  <1>8. M!TypeOK
    BY <1>2, <1>3 DEF M!TypeOK, DmarcInv
  <1> QED
    BY <1>1, <1>7, <1>8 DEF M!PolicyIsFound

LEMMA DmarcInit == M!Init => DmarcInv
  <1> SUFFICES ASSUME M!Init PROVE DmarcInv
    OBVIOUS
  <1>1. mTxt \in Seq(Tags)
    BY DEF M!Init
  <1>2. DOMAIN zone = {} /\ DOMAIN walks = {}
    BY DEF M!Init
  <1> QED
    BY <1>1, <1>2 DEF M!Init, DmarcInv, ZoneTyped

LEMMA VerifyWalks ==
  ASSUME M!DmarcAssumption, DmarcInv, M!Verify
  PROVE  DmarcInv'
  <1>1. PICK d \in Labels : start' = d /\ identity' = d /\ names' = M!targets(d)
    BY DEF M!Verify
  <1>2. d \in Nat \ {0}
    BY DEF M!DmarcAssumption
  <1>3. /\ mPc = "idle" /\ mPc' = "walk" /\ entries = <<>> /\ DOMAIN zone = {} /\ DOMAIN walks = {}
        /\ mTxt \in Seq(Tags) /\ UNCHANGED <<mTxt, zone, entries, walks>>
    BY DEF M!Verify, DmarcInv
  <1>4. Walked(zone', start', names', entries')
    <2>1. /\ entries' = <<>> /\ Len(entries') = 0 /\ entries' \in Seq(Classes)
          /\ \A i \in 1..0 : FALSE
          /\ \A i \in 1..(0 - 1) : FALSE
      BY <1>3
    <2>2. Ahead(names', start', 0) /\ 0 <= Count(start')
      BY <1>1, <1>2, WalkStarts
    <2> QED
      BY <2>1, <2>2 DEF Walked
  <1>5. FirstWalk'
    BY <1>3, <1>4 DEF FirstWalk
  <1>6. ZoneTyped'
    BY <1>3 DEF ZoneTyped
  <1> QED
    BY <1>1, <1>2, <1>3, <1>5, <1>6 DEF DmarcInv

LEMMA LookupKnows ==
  ASSUME M!DmarcAssumption, DmarcInv, M!Lookup
  PROVE  /\ names # <<>> /\ Knows(zone', zone) /\ ZoneTyped /\ ZoneTyped'
         /\ Head(names) \in DOMAIN zone' /\ DOMAIN zone' = DOMAIN zone \cup {Head(names)}
         /\ entries' = Append(entries, M!classify(Head(names), zone'[Head(names)]))
         /\ names' = IF Passed(M!classify(Head(names), zone'[Head(names)])) THEN Tail(names) ELSE <<>>
  <1> DEFINE n == Head(names)
  <1>1. PICK a \in M!MayAnswer(n) :
          LET e == M!classify(n, a) IN
          /\ zone' = [x \in DOMAIN zone \cup {n} |-> IF x = n THEN a ELSE zone[x]]
          /\ entries' = Append(entries, e)
          /\ names' = IF e.kind = "record" /\ e.psd # "u" THEN <<>> ELSE Tail(names)
    BY DEF M!Lookup
  <1>2. names # <<>> /\ ZoneTyped
    BY DEF M!Lookup, DmarcInv
  <1>3. a \in SUBSET Seq(Tags) /\ (n \in DOMAIN zone => a = zone[n])
    BY <1>2 DEF M!MayAnswer, M!DmarcAssumption, ZoneTyped
  <1>4. DOMAIN zone' = DOMAIN zone \cup {n} /\ zone'[n] = a
        /\ \A x \in DOMAIN zone : x # n => zone'[x] = zone[x]
    BY <1>1
  <1>5. Knows(zone', zone)
    BY <1>3, <1>4 DEF Knows
  <1>6. ZoneTyped'
    BY <1>2, <1>3, <1>4 DEF ZoneTyped
  <1>7. entries' = Append(entries, M!classify(n, zone'[n]))
        /\ names' = IF Passed(M!classify(n, zone'[n])) THEN Tail(names) ELSE <<>>
    BY <1>1, <1>4 DEF Passed
  <1> QED
    BY <1>2, <1>4, <1>5, <1>6, <1>7

LEMMA LookupStep ==
  ASSUME M!DmarcAssumption, DmarcInv, M!Lookup
  PROVE  DmarcInv'
  <1> DEFINE n == Head(names)
             e == M!classify(n, zone'[n])
  <1>1. /\ names # <<>> /\ Knows(zone', zone) /\ ZoneTyped /\ ZoneTyped'
        /\ n \in DOMAIN zone' /\ DOMAIN zone' = DOMAIN zone \cup {n}
        /\ entries' = Append(entries, e) /\ names' = IF Passed(e) THEN Tail(names) ELSE <<>>
    BY LookupKnows
  <1>2. mPc \in {"walk", "walkid"} /\ UNCHANGED <<mTxt, mPc, start, walks, identity>>
    BY DEF M!Lookup
  <1>3. start \in Nat \ {0} /\ identity \in Nat \ {0} /\ mTxt \in Seq(Tags)
    BY <1>2 DEF DmarcInv
  <1>4. ASSUME NEW d \in Nat \ {0}, Walked(zone, d, names, entries)
        PROVE  /\ Walked(zone', d, names', entries') /\ Len(entries) + 1 \in 1..Count(d)
               /\ n = M!target(d, Len(entries) + 1) /\ \A i \in 1..Len(entries) : Passed(entries[i])
    <2>1. zone'[n] \in SUBSET Seq(Tags)
      BY <1>1 DEF ZoneTyped
    <2>2. \A x \in DOMAIN zone : zone[x] \in SUBSET Seq(Tags)
      BY <1>1 DEF ZoneTyped
    <2>3. PICK f : f = e
      OBVIOUS
    <2>4. PICK rest : rest = IF Passed(f) THEN Tail(names) ELSE <<>>
      OBVIOUS
    <2>5. WentOn(zone', d, names, entries, rest, f)
      BY <1>1, <1>4, <2>1, <2>2, <2>3, <2>4, LookupWalks
    <2> QED
      BY <1>1, <2>3, <2>4, <2>5 DEF WentOn
  <1>5. CASE mPc = "walk"
    <2>1. FirstWalk
      BY <1>5 DEF DmarcInv
    <2>6. Walked(zone, start, names, entries)
      BY <2>1 DEF FirstWalk
    <2>7. Walked(zone', start, names', entries') /\ n = M!target(start, Len(entries) + 1)
      BY <1>3, <1>4, <2>6
    <2>2. /\ Walked(zone', start, names', entries') /\ n = M!target(start, Len(entries) + 1)
          /\ entries \in Seq(Classes)
      BY <2>6, <2>7 DEF Walked
    <2>3. Len(entries) \in Nat /\ Len(entries') = Len(entries) + 1
      BY <1>1, <2>2
    <2>4. ASSUME NEW x \in DOMAIN zone' PROVE \E i \in 1..Len(entries') : M!target(start, i) = x
      <3>1. CASE x = n
        <4>1. Len(entries) + 1 \in 1..Len(entries')
          BY <2>3
        <4> QED
          BY <2>2, <3>1, <4>1
      <3>2. CASE x \in DOMAIN zone
        <4>1. PICK i \in 1..Len(entries) : M!target(start, i) = x
          BY <2>1, <3>2 DEF FirstWalk
        <4>2. i \in 1..Len(entries')
          BY <2>3
        <4> QED
          BY <4>1, <4>2
      <3> QED
        BY <1>1, <3>1, <3>2
    <2>5. FirstWalk'
      BY <1>2, <2>1, <2>2, <2>4 DEF FirstWalk
    <2> QED
      BY <1>1, <1>2, <1>3, <1>5, <2>5 DEF DmarcInv
  <1>6. CASE mPc = "walkid"
    <2>1. SecondWalk
      BY <1>6 DEF DmarcInv
    <2>2. Walked(zone, identity, names, entries) /\ Settled(zone, start, walks[start])
      BY <2>1 DEF SecondWalk
    <2>3. /\ Walked(zone', identity, names', entries') /\ Len(entries) + 1 \in 1..Count(identity)
          /\ n = M!target(identity, Len(entries) + 1) /\ \A i \in 1..Len(entries) : Passed(entries[i])
      BY <1>3, <1>4, <2>2
    <2>4. PICK stop \in Nat : /\ Complete(zone, start, stop) /\ IsOrg(zone, start, stop, walks[start])
                              /\ \A x \in DOMAIN zone \cap TreeNames(start) : x >= stop
      BY <2>2 DEF Settled
    <2>5. n >= stop
      <3> DEFINE k == Len(entries) + 1
      <3>1. Len(entries) \in Nat /\ k - 1 = Len(entries)
        <4>1. entries \in Seq(Classes)
          BY <2>2 DEF Walked
        <4> QED
          BY <4>1
      <3>2. \A i \in 1..(k - 1) : Passed(FoundIn(zone, M!target(identity, i)))
        BY <2>2, <2>3, <3>1 DEF Walked
      <3> HIDE DEF k
      <3>3. k \in 1..Count(identity) /\ n = M!target(identity, k)
        BY <2>3 DEF k
      <3>4. identity \in TreeNames(start) \cup {walks[start]} /\ identity >= walks[start] /\ identity # start
        BY <2>1 DEF SecondWalk
      <3> QED
        BY <1>3, <2>4, <3>2, <3>3, <3>4, IdentityAsksBelow
    <2>6. Complete(zone', start, stop) /\ IsOrg(zone', start, stop, walks[start])
      BY <1>1, <2>4, CompleteStays
    <2>7. \A x \in DOMAIN zone' \cap TreeNames(start) : x >= stop
      BY <1>1, <2>4, <2>5
    <2>8. Settled(zone', start, walks[start])
      BY <2>6, <2>7 DEF Settled
    <2>9. SecondWalk'
      BY <1>2, <2>1, <2>3, <2>8 DEF SecondWalk
    <2> QED
      BY <1>1, <1>2, <1>3, <1>6, <2>9 DEF DmarcInv
  <1> QED
    BY <1>2, <1>5, <1>6

LEMMA WalkEndsStep ==
  ASSUME DmarcInv, M!WalkEnds
  PROVE  DmarcInv'
  <1> DEFINE org == M!resolve(start, entries)
  <1>1. /\ mPc = "walk" /\ names = <<>> /\ FirstWalk /\ ZoneTyped /\ start \in Nat \ {0} /\ mTxt \in Seq(Tags)
    BY DEF M!WalkEnds, DmarcInv
  <1>2. PICK id \in {n \in DOMAIN zone \cup {org} : n >= org} :
          /\ identity' = id /\ mPc' = (IF id = start THEN "assess" ELSE "walkid")
          /\ names' = IF id = start THEN <<>> ELSE M!targets(id)
    BY DEF M!WalkEnds
  <1>3. /\ walks' = [n \in {start} |-> org] /\ entries' = <<>> /\ UNCHANGED <<mTxt, zone, start>>
    BY DEF M!WalkEnds
  <1>4. DOMAIN walks' = {start} /\ walks'[start] = org
    BY <1>3
  <1>5. Walked(zone, start, <<>>, entries)
    BY <1>1 DEF FirstWalk
  <1>6. PICK stop \in Nat : /\ Complete(zone, start, stop) /\ IsOrg(zone, start, stop, org)
                            /\ \A i \in 1..Len(entries) : M!target(start, i) >= stop
    BY <1>1, <1>5, WalkSettles DEF ZoneTyped
  <1>7. org \in Nat \ {0}
    BY <1>1, <1>6, OrgTyped
  <1>8. ASSUME NEW n \in DOMAIN zone PROVE n >= stop /\ n \in TreeNames(start) /\ n \in Nat \ {0}
    <2>1. PICK i \in 1..Len(entries) : M!target(start, i) = n
      BY <1>1 DEF FirstWalk
    <2>2. i \in 1..Count(start)
      BY <1>1, <1>5, EntriesOf DEF ZoneTyped
    <2>3. n \in TreeNames(start)
      BY <1>1, <2>1, <2>2, TargetNames
    <2> QED
      BY <1>6, <2>1, <2>3 DEF TreeNames
  <1> HIDE DEF org
  <1>9. Settled(zone', start', walks'[start'])
    <2>1. Settled(zone, start, org)
      BY <1>6, <1>8 DEF Settled
    <2> QED
      BY <1>3, <1>4, <2>1
  <1>10. id \in Nat \ {0} /\ id \in TreeNames(start) \cup {org} /\ id >= org
    BY <1>2, <1>7, <1>8
  <1>11. ZoneTyped'
    BY <1>1, <1>3 DEF ZoneTyped
  <1>12. CASE id = start
    <2>1. names' = <<>> /\ mPc' = "assess" /\ identity' = start
      BY <1>2, <1>12
    <2>2. WalksOver'
      BY <1>3, <1>4, <1>9, <2>1 DEF WalksOver
    <2> QED
      BY <1>1, <1>3, <1>11, <2>1, <2>2 DEF DmarcInv
  <1>13. CASE id # start
    <2>1. names' = M!targets(id) /\ mPc' = "walkid" /\ identity' = id
      BY <1>2, <1>13
    <2>2. Walked(zone', identity', names', entries')
      <3>1. /\ entries' = <<>> /\ Len(entries') = 0 /\ entries' \in Seq(Classes)
            /\ \A i \in 1..0 : FALSE
            /\ \A i \in 1..(0 - 1) : FALSE
        BY <1>3
      <3>2. Ahead(names', identity', 0) /\ 0 <= Count(identity')
        BY <1>10, <2>1, WalkStarts
      <3> QED
        BY <3>1, <3>2 DEF Walked
    <2>3. SecondWalk'
      BY <1>3, <1>4, <1>9, <1>10, <1>13, <2>1, <2>2 DEF SecondWalk
    <2> QED
      BY <1>1, <1>3, <1>10, <1>11, <2>1, <2>3 DEF DmarcInv
  <1> QED
    BY <1>12, <1>13

LEMMA IdentityWalkEndsStep ==
  ASSUME DmarcInv, M!IdentityWalkEnds
  PROVE  DmarcInv'
  <1> DEFINE org2 == M!resolve(identity, entries)
  <1>1. /\ mPc = "walkid" /\ names = <<>> /\ SecondWalk /\ ZoneTyped /\ start \in Nat \ {0}
        /\ identity \in Nat \ {0} /\ mTxt \in Seq(Tags)
    BY DEF M!IdentityWalkEnds, DmarcInv
  <1>2. /\ walks' = [n \in {start, identity} |-> IF n = start THEN walks[n] ELSE org2]
        /\ mPc' = "assess" /\ entries' = <<>> /\ UNCHANGED <<mTxt, zone, start, names, identity>>
    BY DEF M!IdentityWalkEnds
  <1>3. /\ Walked(zone, identity, <<>>, entries) /\ Settled(zone, start, walks[start]) /\ identity # start
        /\ identity \in TreeNames(start) \cup {walks[start]} /\ identity >= walks[start]
    BY <1>1 DEF SecondWalk
  <1>4. PICK stop \in Nat : Complete(zone, start, stop) /\ IsOrg(zone, start, stop, walks[start])
    BY <1>3 DEF Settled
  <1>5. PICK stop2 \in Nat : Complete(zone, identity, stop2) /\ IsOrg(zone, identity, stop2, org2)
    BY <1>1, <1>3, WalkSettles DEF ZoneTyped
  <1> HIDE DEF org2
  <1>6. org2 = walks[start]
    BY <1>1, <1>3, <1>4, <1>5, SameOrganization
  <1>7. DOMAIN walks' = {start, identity} /\ walks'[start] = walks[start] /\ walks'[identity] = walks[start]
    BY <1>2, <1>3, <1>6
  <1>8. WalksOver'
    BY <1>1, <1>2, <1>3, <1>7 DEF WalksOver
  <1>9. ZoneTyped'
    BY <1>1, <1>2 DEF ZoneTyped
  <1> QED
    BY <1>1, <1>2, <1>8, <1>9 DEF DmarcInv

LEMMA DmarcStep ==
  ASSUME M!DmarcAssumption
  PROVE  DmarcInv /\ [M!Next]_M!vars => DmarcInv'
  <1> SUFFICES ASSUME DmarcInv, [M!Next]_M!vars PROVE DmarcInv'
    OBVIOUS
  <1>1. CASE M!AddTag
    <2>1. PICK t \in Tags : mTxt' = Append(mTxt, t)
      BY <1>1 DEF M!AddTag
    <2>2. mTxt' \in Seq(Tags)
      BY <2>1 DEF DmarcInv
    <2>3. mPc = "idle" /\ UNCHANGED <<zone, mPc, names, entries, walks>>
      BY <1>1 DEF M!AddTag
    <2> QED
      BY <2>2, <2>3 DEF DmarcInv, ZoneTyped
  <1>2. CASE M!Verify
    BY <1>2, VerifyWalks
  <1>3. CASE M!Lookup
    BY <1>3, LookupStep
  <1>4. CASE M!LookupFails
    <2>1. /\ mPc \in {"walk", "walkid"} /\ names' = <<>> /\ entries' = <<>> /\ mPc' = "assess"
          /\ UNCHANGED <<mTxt, zone, start, walks, identity>>
      BY <1>4 DEF M!LookupFails
    <2>2. WalksOver'
      BY <2>1 DEF DmarcInv, FirstWalk, SecondWalk, WalksOver
    <2> QED
      BY <2>1, <2>2 DEF DmarcInv, ZoneTyped
  <1>5. CASE M!WalkEnds
    BY <1>5, WalkEndsStep
  <1>6. CASE M!IdentityWalkEnds
    BY <1>6, IdentityWalkEndsStep
  <1>7. CASE M!Assess
    <2>1. mPc = "assess" /\ mPc' = "done" /\ UNCHANGED <<mTxt, zone, start, names, entries, walks, identity>>
      BY <1>7 DEF M!Assess
    <2> QED
      BY <2>1 DEF DmarcInv, ZoneTyped, WalksOver
  <1>8. CASE UNCHANGED M!vars
    <2>1. UNCHANGED <<mTxt, mPc, zone, start, names, entries, walks, identity>>
      BY <1>8 DEF M!vars
    <2> QED
      BY <2>1 DEF DmarcInv, ZoneTyped, FirstWalk, SecondWalk, WalksOver
  <1> QED
    BY <1>1, <1>2, <1>3, <1>4, <1>5, <1>6, <1>7, <1>8 DEF M!Next

LEMMA DmarcAlone ==
  M!DmarcAssumption /\ M!Spec => []M!PolicyIsFound
  <1> SUFFICES ASSUME M!DmarcAssumption PROVE M!Spec => []M!PolicyIsFound
    OBVIOUS
  <1>1. M!Init => DmarcInv
    BY DmarcInit
  <1>2. DmarcInv /\ [M!Next]_M!vars => DmarcInv'
    BY DmarcStep
  <1>3. DmarcInv => M!PolicyIsFound
    BY DmarcInvIsFound
  <1> QED
    BY <1>1, <1>2, <1>3, PTL DEF M!Spec

-----------------------------------------------------------------------------
(* Message bytes over DATA. *)


(* The sequence k of what has been joined so far. *)
Joined(k, S, s) ==
  /\ k \in [0..Len(s) -> Seq(S)] /\ k[0] = <<>>
  /\ \A i \in 1..Len(s) : k[i] = k[i - 1] \o s[i]

LEMMA EmptyJoins ==
  ASSUME NEW S, NEW t \in Seq(S) PROVE <<>> \o t = t /\ t \o <<>> = t
  OBVIOUS

(* FlattenSeq joins its sequences one after the other. *)
LEMMA Flattens ==
  ASSUME NEW S, NEW s \in Seq(Seq(S))
  PROVE  \E k : Joined(k, S, s) /\ D!FlattenSeq(s) = k[Len(s)]
  <1> DEFINE n == Len(s)
             first == <<>>
             step == [x \in (1..n) \X Seq(S) |-> x[2] \o s[x[1]]]
             Good(f) == f = [i \in 1..n |-> IF i = 1 THEN s[i] ELSE f[i - 1] \o s[i]]
  <1>1. n \in Nat /\ \A i \in 1..n : s[i] \in Seq(S)
    OBVIOUS
  <1>2. first \in Seq(S)
    OBVIOUS
  <1>3. step \in [(1..n) \X Seq(S) -> Seq(S)]
    BY <1>1
  <1>4. ASSUME NEW i \in 1..n, NEW t \in Seq(S) PROVE step[<<i, t>>] = t \o s[i]
    OBVIOUS
  <1>5. \E f : Good(f)
    <2>1. PICK k : Follows(k, n, first, step)
      <3> HIDE DEF step, n, first
      <3> QED
        BY <1>1, <1>2, <1>3, RecursionExists
    <2>2. k \in [0..n -> Seq(S)]
      <3> HIDE DEF step, n, first
      <3> QED
        BY <1>1, <1>2, <1>3, <2>1, RecursionTyped
    <2>3. ASSUME NEW i \in 1..n PROVE k[i] = k[i - 1] \o s[i]
      <3>0. i - 1 \in 0..n
        BY <1>1
      <3>1. k[i - 1] \in Seq(S)
        <4> HIDE DEF n
        <4> QED
          BY <3>0, <2>2
      <3> HIDE DEF step, n
      <3> QED
        BY <3>1, <1>4, <2>1 DEF Follows
    <2>4. n >= 1 => k[1] = s[1]
      <3> SUFFICES ASSUME n >= 1 PROVE k[1] = s[1]
        OBVIOUS
      <3>1. 1 \in 1..n
        BY <1>1
      <3>2. k[1] = k[1 - 1] \o s[1]
        BY <3>1, <2>3
      <3>3. k[0] = <<>> /\ s[1] \in Seq(S)
        BY <3>1, <2>1, <1>1 DEF Follows
      <3>4. 1 - 1 = 0 /\ <<>> \o s[1] = s[1]
        BY <3>3, EmptyJoins
      <3>5. k[1 - 1] = <<>>
        BY <3>3, <3>4
      <3> QED
        BY <3>2, <3>4, <3>5
    <2> DEFINE f == [i \in 1..n |-> k[i]]
    <2>5. ASSUME NEW i \in 1..n PROVE f[i] = IF i = 1 THEN s[i] ELSE f[i - 1] \o s[i]
      <3>1. CASE i = 1
        BY <3>1, <2>4, <1>1
      <3>2. CASE i # 1
        <4>1. i - 1 \in 1..n
          BY <3>2, <1>1
        <4> QED
          BY <4>1, <3>2, <2>3
      <3> QED
        BY <3>1, <3>2
    <2>6. Good(f)
      BY <2>5
    <2> QED
      BY <2>6
  <1> DEFINE f == CHOOSE f : Good(f)
  <1>6. Good(f)
    <2> HIDE DEF Good
    <2> QED
      BY <1>5
  <1>7. D!FlattenSeq(s) = IF n = 0 THEN s ELSE f[n]
    BY DEF D!FlattenSeq
  <1> HIDE DEF f
  <1> DEFINE k == [i \in 0..n |-> IF i = 0 THEN <<>> ELSE f[i]]
  <1>8. ASSUME NEW i \in 1..n PROVE f[i] = IF i = 1 THEN s[i] ELSE f[i - 1] \o s[i]
    BY <1>6
  <1>9. ASSUME NEW i \in 1..n PROVE k[i] = k[i - 1] \o s[i]
    <2>1. CASE i = 1
      <3>0. 1 \in 1..n /\ 1 \in 0..n /\ 0 \in 0..n
        BY <2>1, <1>1
      <3>1. k[1] = s[1] /\ k[0] = <<>> /\ s[1] \in Seq(S)
        <4> HIDE DEF n
        <4>1. f[1] = s[1]
          BY <3>0, <1>8
        <4>2. k[1] = f[1] /\ k[0] = <<>>
          BY <3>0
        <4> HIDE DEF k
        <4> QED
          BY <3>0, <4>1, <4>2, <1>1
      <3>2. <<>> \o s[1] = s[1]
        BY <3>1, EmptyJoins
      <3>3. i - 1 = 0
        BY <2>1
      <3> HIDE DEF k
      <3> QED
        BY <3>1, <3>2, <3>3, <2>1
    <2>2. CASE i # 1
      <3>1. i - 1 \in 1..n /\ i \in 0..n /\ i - 1 \in 0..n
        BY <2>2, <1>1
      <3>2. k[i] = f[i] /\ k[i - 1] = f[i - 1]
        BY <3>1, <2>2
      <3>3. f[i] = f[i - 1] \o s[i]
        BY <2>2, <1>8
      <3> HIDE DEF k
      <3> QED
        BY <3>2, <3>3
    <2> QED
      BY <2>1, <2>2
  <1>10. Follows(k, n, first, step)
    <2> DEFINE T == {i \in Nat : i <= n => k[i] \in Seq(S)}
    <2>1. 0 \in T
      BY <1>1
    <2>2. ASSUME NEW i \in T PROVE i + 1 \in T
      <3> SUFFICES ASSUME i + 1 <= n PROVE k[i + 1] \in Seq(S)
        BY <2>2
      <3>1. i + 1 \in 1..n /\ (i + 1) - 1 = i /\ k[i] \in Seq(S)
        BY <2>2, <1>1
      <3>2. k[i + 1] = k[i] \o s[i + 1] /\ s[i + 1] \in Seq(S)
        <4> HIDE DEF k
        <4> QED
          BY <3>1, <1>9, <1>1
      <3> HIDE DEF k
      <3> QED
        BY <3>1, <3>2
    <2>3. T = Nat
      <3> HIDE DEF T
      <3>1. T \in SUBSET Nat
        BY DEF T
      <3> QED
        BY <2>1, <2>2, <3>1, NatSetInduction
    <2>4. ASSUME NEW i \in 1..n PROVE k[i] = step[<<i, k[i - 1]>>]
      <3>1. i - 1 \in Nat /\ i - 1 <= n
        BY <1>1
      <3>2. k[i - 1] \in Seq(S)
        BY <3>1, <2>3
      <3> HIDE DEF k, step
      <3> QED
        BY <3>2, <1>4, <1>9
    <2>5. k = [i \in 0..n |-> k[i]] /\ k[0] = first
      BY <1>1
    <2> HIDE DEF k, step, first
    <2> QED
      BY <2>4, <2>5 DEF Follows
  <1>11. k \in [0..n -> Seq(S)]
    <2> HIDE DEF step, n, first, k
    <2> QED
      BY <1>1, <1>2, <1>3, <1>10, RecursionTyped
  <1>12. k[0] = <<>>
    BY <1>1
  <1>13. D!FlattenSeq(s) = k[n]
    <2>1. CASE n = 0
      <3>1. s = <<>>
        BY <2>1
      <3> QED
        BY <2>1, <3>1, <1>7, <1>12
    <2>2. CASE n # 0
      BY <2>2, <1>1, <1>7
    <2> QED
      BY <2>1, <2>2
  <1>14. Joined(k, S, s) /\ D!FlattenSeq(s) = k[Len(s)]
    <2> HIDE DEF k
    <2> QED
      BY <1>9, <1>11, <1>12, <1>13 DEF Joined
  <1> QED
    BY <1>14

(* u is s with t behind it. *)
Behind(u, s, t) ==
  /\ u \in Seq(Bytes) /\ s \in Seq(Bytes) /\ t \in Seq(Bytes)
  /\ Len(u) = Len(s) + Len(t) /\ Len(s) \in Nat /\ Len(t) \in Nat
  /\ \A i \in 1..Len(s) : u[i] = s[i]
  /\ \A i \in 1..Len(t) : u[Len(s) + i] = t[i]

LEMMA JoinIsBehind ==
  ASSUME NEW s \in Seq(Bytes), NEW t \in Seq(Bytes)
  PROVE  Behind(s \o t, s, t)
  BY BehindEachOther DEF Behind

(* Text in which CR and LF come only together. *)
Framed(t) ==
  /\ t \in Seq(Bytes)
  /\ \A i \in 1..Len(t) : t[i] = "r" => i < Len(t) /\ t[i + 1] = "n"
  /\ \A i \in 1..Len(t) : t[i] = "n" => i > 1 /\ t[i - 1] = "r"

(* Whole lines. *)
Clean(t) == Framed(t) /\ (Len(t) > 0 => t[Len(t)] = "n")

LEMMA CRLFParts ==
  ASSUME D!SmtpDataAssumption
  PROVE  D!CRLF \in Seq(Bytes) /\ Len(D!CRLF) = 2 /\ D!CRLF[1] = "r" /\ D!CRLF[2] = "n"
  BY DEF D!CRLF, D!SmtpDataAssumption

LEMMA FramedLine ==
  ASSUME D!SmtpDataAssumption, NEW t, Framed(t)
  PROVE  Clean(t \o D!CRLF)
  <1>1. t \in Seq(Bytes)
    BY DEF Framed
  <1>2. PICK u : u = t \o D!CRLF /\ Behind(u, t, D!CRLF)
    BY <1>1, CRLFParts, JoinIsBehind
  <1>3. PICK n \in Nat : n = Len(t) /\ Len(u) = n + 2 /\ u[n + 1] = "r" /\ u[n + 2] = "n"
    <2>1. Len(t) \in Nat /\ Len(u) = Len(t) + Len(D!CRLF) /\ \A i \in 1..Len(D!CRLF) : u[Len(t) + i] = D!CRLF[i]
      BY <1>2 DEF Behind
    <2>2. PICK c : c = D!CRLF /\ Len(c) = 2 /\ c[1] = "r" /\ c[2] = "n"
      BY CRLFParts
    <2>3. 1 \in 1..Len(c) /\ 2 \in 1..Len(c)
      BY <2>2
    <2>4. u[Len(t) + 1] = "r" /\ u[Len(t) + 2] = "n" /\ Len(u) = Len(t) + 2
      BY <2>1, <2>2, <2>3
    <2> QED
      BY <2>1, <2>4
  <1>4. \A i \in 1..n : u[i] = t[i]
    BY <1>2, <1>3 DEF Behind
  <1>5. ASSUME NEW i \in 1..Len(u), u[i] = "r" PROVE i < Len(u) /\ u[i + 1] = "n"
    <2>1. CASE i \in 1..n
      <3>1. i < n /\ t[i + 1] = "n"
        BY <2>1, <1>3, <1>4, <1>5 DEF Framed
      <3> QED
        BY <3>1, <2>1, <1>3, <1>4
    <2>2. CASE i = n + 1
      BY <2>2, <1>3
    <2>3. CASE i = n + 2
      BY <2>3, <1>3, <1>5
    <2> QED
      BY <2>1, <2>2, <2>3, <1>3
  <1>6. ASSUME NEW i \in 1..Len(u), u[i] = "n" PROVE i > 1 /\ u[i - 1] = "r"
    <2>1. CASE i \in 1..n
      <3>1. i > 1 /\ t[i - 1] = "r"
        BY <2>1, <1>3, <1>4, <1>6 DEF Framed
      <3> QED
        BY <3>1, <2>1, <1>3, <1>4
    <2>2. CASE i = n + 1
      BY <2>2, <1>3, <1>6
    <2>3. CASE i = n + 2
      BY <2>3, <1>3
    <2> QED
      BY <2>1, <2>2, <2>3, <1>3
  <1>7. u \in Seq(Bytes)
    BY <1>2 DEF Behind
  <1> QED
    BY <1>2, <1>3, <1>5, <1>6, <1>7 DEF Clean, Framed

LEMMA FramedByte ==
  ASSUME D!SmtpDataAssumption, NEW t, Framed(t), NEW c \in Bytes \ {"r", "n"}
  PROVE  Framed(t \o <<c>>)
  <1>1. t \in Seq(Bytes) /\ <<c>> \in Seq(Bytes) /\ Len(<<c>>) = 1 /\ <<c>>[1] = c
    BY DEF Framed
  <1>2. PICK u : u = t \o <<c>> /\ Behind(u, t, <<c>>)
    BY <1>1, JoinIsBehind
  <1>3. PICK n \in Nat : n = Len(t) /\ Len(u) = n + 1 /\ u[n + 1] = c
    BY <1>1, <1>2 DEF Behind
  <1>4. \A i \in 1..n : u[i] = t[i]
    BY <1>2, <1>3 DEF Behind
  <1>5. ASSUME NEW i \in 1..Len(u), u[i] = "r" PROVE i < Len(u) /\ u[i + 1] = "n"
    <2>1. i \in 1..n
      BY <1>3, <1>5
    <2>2. i < n /\ t[i + 1] = "n"
      BY <2>1, <1>3, <1>4, <1>5 DEF Framed
    <2> QED
      BY <2>1, <2>2, <1>3, <1>4
  <1>6. ASSUME NEW i \in 1..Len(u), u[i] = "n" PROVE i > 1 /\ u[i - 1] = "r"
    <2>1. i \in 1..n
      BY <1>3, <1>6
    <2>2. i > 1 /\ t[i - 1] = "r"
      BY <2>1, <1>3, <1>4, <1>6 DEF Framed
    <2> QED
      BY <2>1, <2>2, <1>3, <1>4
  <1>7. u \in Seq(Bytes)
    BY <1>2 DEF Behind
  <1> QED
    BY <1>2, <1>5, <1>6, <1>7 DEF Framed

(* What the loop of serializeForDATA writes for the byte at i. *)
PieceOf(raw, i) ==
  CASE raw[i] = "r" -> D!CRLF
    [] raw[i] = "n" -> IF i > 1 /\ raw[i - 1] = "r" THEN <<>> ELSE D!CRLF
    [] OTHER -> <<raw[i]>>

LEMMA PieceCases ==
  ASSUME D!SmtpDataAssumption, NEW raw \in Seq(Bytes), NEW i \in 1..Len(raw)
  PROVE  /\ PieceOf(raw, i) \in Seq(Bytes) /\ raw[i] \in Bytes
         /\ \/ PieceOf(raw, i) = D!CRLF /\ raw[i] = "r"
            \/ PieceOf(raw, i) = D!CRLF /\ raw[i] = "n" /\ ~(i > 1 /\ raw[i - 1] = "r")
            \/ PieceOf(raw, i) = <<>> /\ raw[i] = "n" /\ i > 1 /\ raw[i - 1] = "r"
            \/ PieceOf(raw, i) = <<raw[i]>> /\ raw[i] \notin {"r", "n"}
  <1>1. raw[i] \in Bytes /\ <<raw[i]>> \in Seq(Bytes) /\ <<>> \in Seq(Bytes)
    OBVIOUS
  <1>2. CASE raw[i] = "r"
    BY <1>1, <1>2, CRLFParts DEF PieceOf
  <1>3. CASE raw[i] = "n" /\ i > 1 /\ raw[i - 1] = "r"
    <2>1. PieceOf(raw, i) = <<>>
      BY <1>3 DEF PieceOf
    <2> QED
      BY <2>1, <1>1, <1>3
  <1>4. CASE raw[i] = "n" /\ ~(i > 1 /\ raw[i - 1] = "r")
    <2>1. PieceOf(raw, i) = D!CRLF
      BY <1>4 DEF PieceOf
    <2> QED
      BY <2>1, <1>1, <1>4, CRLFParts
  <1>5. CASE raw[i] \notin {"r", "n"}
    <2>1. PieceOf(raw, i) = <<raw[i]>>
      BY <1>5 DEF PieceOf
    <2> QED
      BY <2>1, <1>1, <1>5
  <1> QED
    BY <1>2, <1>3, <1>4, <1>5

NormalLoop(k, raw) ==
  /\ k \in [0..Len(raw) -> Seq(Bytes)] /\ k[0] = <<>>
  /\ \A i \in 1..Len(raw) : k[i] = k[i - 1] \o PieceOf(raw, i)

LinesClosed(t) == IF t = <<>> \/ D!hasValidCRLF(t) THEN t ELSE t \o D!CRLF

LEMMA NormalRead ==
  ASSUME D!SmtpDataAssumption, NEW raw \in Seq(Bytes)
  PROVE  \E k : NormalLoop(k, raw) /\ D!Normalized(raw) = LinesClosed(k[Len(raw)])
  <1> DEFINE pieces == [i \in 1..Len(raw) |-> PieceOf(raw, i)]
  <1>1. \A i \in 1..Len(raw) : PieceOf(raw, i) \in Seq(Bytes)
    BY PieceCases
  <1>2. pieces \in Seq(Seq(Bytes)) /\ Len(pieces) = Len(raw) /\ DOMAIN raw = 1..Len(raw)
    <2> HIDE DEF PieceOf
    <2>1. Len(raw) \in Nat
      OBVIOUS
    <2> QED
      BY <1>1, <2>1
  <1>3. D!Normalized(raw) = LinesClosed(D!FlattenSeq([i \in DOMAIN raw |-> PieceOf(raw, i)]))
    BY DEF D!Normalized, LinesClosed, PieceOf
  <1>4. D!Normalized(raw) = LinesClosed(D!FlattenSeq(pieces))
    <2> HIDE DEF PieceOf
    <2> QED
      BY <1>2, <1>3
  <1>5. PICK k : Joined(k, Bytes, pieces) /\ D!FlattenSeq(pieces) = k[Len(pieces)]
    <2> HIDE DEF pieces
    <2> QED
      BY <1>2, Flattens
  <1>6. ASSUME NEW i \in 1..Len(raw) PROVE pieces[i] = PieceOf(raw, i)
    OBVIOUS
  <1> HIDE DEF pieces
  <1>7. NormalLoop(k, raw)
    BY <1>2, <1>5, <1>6 DEF NormalLoop, Joined
  <1>8. D!Normalized(raw) = LinesClosed(k[Len(raw)])
    BY <1>2, <1>4, <1>5
  <1> QED
    BY <1>7, <1>8

LEMMA EmptyFramed == Framed(<<>>)
  BY DEF Framed

(* However a text ends its lines, the normalized text is of whole lines. *)
LEMMA NormalizedIsClean ==
  ASSUME D!SmtpDataAssumption, NEW raw \in Seq(Bytes)
  PROVE  Clean(D!Normalized(raw))
  <1>1. PICK k : NormalLoop(k, raw) /\ D!Normalized(raw) = LinesClosed(k[Len(raw)])
    BY NormalRead
  <1>2. PICK n \in Nat : n = Len(raw)
    OBVIOUS
  <1> DEFINE T == {i \in Nat : i <= n => Framed(k[i])}
  <1>3. 0 \in T
    BY <1>1, EmptyFramed DEF NormalLoop
  <1>4. ASSUME NEW i \in T PROVE i + 1 \in T
    <2> SUFFICES ASSUME i + 1 <= n PROVE Framed(k[i + 1])
      BY <1>4
    <2>1. i + 1 \in 1..Len(raw) /\ (i + 1) - 1 = i /\ Framed(k[i]) /\ i \in 0..Len(raw)
      BY <1>2, <1>4
    <2>2. k[i + 1] = k[i] \o PieceOf(raw, i + 1) /\ k[i] \in Seq(Bytes)
      BY <1>1, <2>1 DEF NormalLoop
    <2>3. CASE PieceOf(raw, i + 1) = D!CRLF
      BY <2>1, <2>2, <2>3, FramedLine DEF Clean
    <2>4. CASE PieceOf(raw, i + 1) = <<>>
      BY <2>1, <2>2, <2>4, EmptyJoins
    <2>5. CASE PieceOf(raw, i + 1) = <<raw[i + 1]>> /\ raw[i + 1] \notin {"r", "n"} /\ raw[i + 1] \in Bytes
      BY <2>1, <2>2, <2>5, FramedByte
    <2> QED
      BY <2>1, <2>3, <2>4, <2>5, PieceCases
  <1>5. T = Nat
    <2> HIDE DEF T
    <2>1. T \in SUBSET Nat
      BY DEF T
    <2> QED
      BY <1>3, <1>4, <2>1, NatSetInduction
  <1>6. PICK a : a = k[n] /\ Framed(a)
    BY <1>5
  <1>7. CASE a = <<>>
    <2>1. LinesClosed(a) = a
      BY <1>7 DEF LinesClosed
    <2> QED
      BY <1>1, <1>2, <1>6, <1>7, <2>1 DEF Clean
  <1>8. CASE a # <<>> /\ D!hasValidCRLF(a)
    <2>1. LinesClosed(a) = a /\ a[Len(a)] = "n"
      BY <1>8 DEF LinesClosed, D!hasValidCRLF
    <2> QED
      BY <1>1, <1>2, <1>6, <2>1 DEF Clean
  <1>9. CASE a # <<>> /\ ~D!hasValidCRLF(a)
    <2>1. LinesClosed(a) = a \o D!CRLF
      BY <1>9 DEF LinesClosed
    <2> QED
      BY <1>1, <1>2, <1>6, <2>1, FramedLine
  <1> QED
    BY <1>7, <1>8, <1>9

(* Sequences are equal where they have the same bytes. *)
LEMMA SameBytes ==
  ASSUME NEW s \in Seq(Bytes), NEW t \in Seq(Bytes), Len(s) = Len(t),
         \A i \in 1..Len(s) : s[i] = t[i]
  PROVE  s = t
  OBVIOUS

Prefix(s, n) == SubSeq(s, 1, n)

LEMMA PrefixParts ==
  ASSUME NEW s \in Seq(Bytes), NEW n \in 0..Len(s)
  PROVE  /\ Prefix(s, n) \in Seq(Bytes) /\ Len(Prefix(s, n)) = n
         /\ \A i \in 1..n : Prefix(s, n)[i] = s[i]
  BY DEF Prefix

LEMMA PrefixByte ==
  ASSUME NEW s \in Seq(Bytes), NEW n \in 0..(Len(s) - 1)
  PROVE  Prefix(s, n) \o <<s[n + 1]>> = Prefix(s, n + 1)
  <1>1. n \in 0..Len(s) /\ n + 1 \in 0..Len(s) /\ n + 1 \in 1..Len(s) /\ n \in Nat
    OBVIOUS
  <1>2. s[n + 1] \in Bytes /\ <<s[n + 1]>> \in Seq(Bytes) /\ Len(<<s[n + 1]>>) = 1
    BY <1>1
  <1>3. PICK p : p = Prefix(s, n) /\ p \in Seq(Bytes) /\ Len(p) = n /\ \A i \in 1..n : p[i] = s[i]
    BY <1>1, PrefixParts
  <1>4. PICK q : q = Prefix(s, n + 1) /\ q \in Seq(Bytes) /\ Len(q) = n + 1 /\ \A i \in 1..(n + 1) : q[i] = s[i]
    BY <1>1, PrefixParts
  <1>5. PICK u : u = p \o <<s[n + 1]>> /\ Behind(u, p, <<s[n + 1]>>)
    BY <1>2, <1>3, JoinIsBehind
  <1>6. Len(u) = n + 1 /\ u \in Seq(Bytes) /\ u[n + 1] = s[n + 1] /\ \A i \in 1..n : u[i] = s[i]
    BY <1>2, <1>3, <1>5 DEF Behind
  <1>7. \A i \in 1..Len(u) : u[i] = q[i]
    BY <1>1, <1>4, <1>6
  <1>8. u = q
    BY <1>4, <1>6, <1>7, SameBytes
  <1> QED
    BY <1>3, <1>4, <1>5, <1>8

LEMMA PrefixLine ==
  ASSUME D!SmtpDataAssumption, NEW s \in Seq(Bytes), NEW n \in 0..(Len(s) - 2), s[n + 1] = "r", s[n + 2] = "n"
  PROVE  Prefix(s, n) \o D!CRLF = Prefix(s, n + 2)
  <1>1. n \in 0..Len(s) /\ n + 2 \in 0..Len(s) /\ n \in Nat
    OBVIOUS
  <1>2. PICK c : c = D!CRLF /\ c \in Seq(Bytes) /\ Len(c) = 2 /\ c[1] = "r" /\ c[2] = "n"
    BY CRLFParts
  <1>3. PICK p : p = Prefix(s, n) /\ p \in Seq(Bytes) /\ Len(p) = n /\ \A i \in 1..n : p[i] = s[i]
    BY <1>1, PrefixParts
  <1>4. PICK q : q = Prefix(s, n + 2) /\ q \in Seq(Bytes) /\ Len(q) = n + 2 /\ \A i \in 1..(n + 2) : q[i] = s[i]
    BY <1>1, PrefixParts
  <1>5. PICK u : u = p \o c /\ Behind(u, p, c)
    BY <1>2, <1>3, JoinIsBehind
  <1>6. 1 \in 1..Len(c) /\ 2 \in 1..Len(c)
    BY <1>2
  <1>7. Len(u) = n + 2 /\ u \in Seq(Bytes) /\ u[n + 1] = s[n + 1] /\ u[n + 2] = s[n + 2] /\ \A i \in 1..n : u[i] = s[i]
    BY <1>2, <1>3, <1>5, <1>6 DEF Behind
  <1>8. \A i \in 1..Len(u) : u[i] = q[i]
    BY <1>1, <1>4, <1>7
  <1>9. u = q
    BY <1>4, <1>7, <1>8, SameBytes
  <1> QED
    BY <1>2, <1>3, <1>4, <1>5, <1>9

(* Whole lines are normalized already. *)
LEMMA CleanIsNormal ==
  ASSUME D!SmtpDataAssumption, NEW raw, Clean(raw)
  PROVE  D!Normalized(raw) = raw
  <1>0. raw \in Seq(Bytes) /\ Framed(raw)
    BY DEF Clean, Framed
  <1>1. PICK k : NormalLoop(k, raw) /\ D!Normalized(raw) = LinesClosed(k[Len(raw)])
    BY <1>0, NormalRead
  <1>2. PICK n \in Nat : n = Len(raw)
    BY <1>0
  <1> DEFINE Read(i) == IF i > 0 /\ raw[i] = "r" THEN i + 1 ELSE i
             T == {i \in Nat : i <= n => k[i] = Prefix(raw, Read(i))}
  <1>3. 0 \in T
    <2>1. Prefix(raw, 0) = <<>>
      BY <1>0 DEF Prefix
    <2> QED
      BY <1>1, <2>1 DEF NormalLoop
  <1>4. ASSUME NEW i \in T PROVE i + 1 \in T
    <2> SUFFICES ASSUME i + 1 <= n PROVE k[i + 1] = Prefix(raw, Read(i + 1))
      BY <1>4
    <2>1. i + 1 \in 1..Len(raw) /\ (i + 1) - 1 = i /\ k[i] = Prefix(raw, Read(i)) /\ i \in 0..(n - 1) /\ i \in Nat
      BY <1>2, <1>4
    <2>2. k[i + 1] = k[i] \o PieceOf(raw, i + 1)
      BY <1>1, <2>1 DEF NormalLoop
    <2>3. i > 0 /\ raw[i] = "r" => raw[i + 1] = "n"
      BY <1>0, <1>2, <2>1 DEF Framed
    <2>4. CASE PieceOf(raw, i + 1) = D!CRLF /\ raw[i + 1] = "r"
      <3>1. i + 1 < n /\ raw[i + 2] = "n" /\ i + 1 > 0
        <4>1. i + 1 < Len(raw) /\ raw[(i + 1) + 1] = "n"
          BY <1>0, <2>1, <2>4 DEF Framed
        <4> QED
          BY <4>1, <1>2, <2>1
      <3>2. Read(i) = i /\ Read(i + 1) = i + 2
        BY <2>1, <2>3, <2>4, <3>1
      <3>3. Prefix(raw, i) \o D!CRLF = Prefix(raw, i + 2)
        <4>1. i \in 0..(Len(raw) - 2)
          BY <3>1, <1>2, <2>1
        <4> QED
          BY <4>1, <3>1, <2>4, <1>0, PrefixLine
      <3> QED
        BY <2>1, <2>2, <2>4, <3>2, <3>3
    <2>5. CASE PieceOf(raw, i + 1) = D!CRLF /\ raw[i + 1] = "n" /\ ~(i + 1 > 1 /\ raw[(i + 1) - 1] = "r")
      BY <1>0, <2>1, <2>5 DEF Framed
    <2>6. CASE PieceOf(raw, i + 1) = <<>> /\ raw[i + 1] = "n" /\ i + 1 > 1 /\ raw[(i + 1) - 1] = "r"
      <3>1. Read(i) = i + 1 /\ Read(i + 1) = i + 1
        BY <2>1, <2>6
      <3>2. Prefix(raw, i + 1) \o <<>> = Prefix(raw, i + 1)
        <4>1. i + 1 \in 0..Len(raw)
          BY <2>1, <1>2
        <4>2. Prefix(raw, i + 1) \in Seq(Bytes)
          BY <4>1, <1>0, PrefixParts
        <4> QED
          BY <4>2, EmptyJoins
      <3> QED
        BY <2>1, <2>2, <2>6, <3>1, <3>2
    <2>7. CASE PieceOf(raw, i + 1) = <<raw[i + 1]>> /\ raw[i + 1] \notin {"r", "n"}
      <3>1. Read(i) = i /\ Read(i + 1) = i + 1
        BY <2>1, <2>3, <2>7
      <3>2. Prefix(raw, i) \o <<raw[i + 1]>> = Prefix(raw, i + 1)
        BY <1>0, <1>2, <2>1, PrefixByte
      <3> QED
        BY <2>1, <2>2, <2>7, <3>1, <3>2
    <2> QED
      BY <1>0, <2>1, <2>4, <2>5, <2>6, <2>7, PieceCases
  <1>5. T = Nat
    <2> HIDE DEF T
    <2>1. T \in SUBSET Nat
      BY DEF T
    <2> QED
      BY <1>3, <1>4, <2>1, NatSetInduction
  <1>6. k[n] = Prefix(raw, Read(n))
    BY <1>5
  <1>7. Read(n) = n
    BY <1>0, <1>2 DEF Clean
  <1>8. Prefix(raw, n) = raw
    BY <1>0, <1>2 DEF Prefix
  <1>9. LinesClosed(raw) = raw
    <2>1. CASE n = 0
      BY <2>1, <1>0, <1>2 DEF LinesClosed
    <2>2. CASE n > 0
      <3>1. raw[n] = "n"
        BY <2>2, <1>2 DEF Clean
      <3>2. n > 1 /\ raw[n - 1] = "r"
        BY <3>1, <2>2, <1>0, <1>2 DEF Framed
      <3>3. D!hasValidCRLF(raw)
        BY <3>1, <3>2, <1>2 DEF D!hasValidCRLF
      <3> QED
        BY <3>3 DEF LinesClosed
    <2> QED
      BY <2>1, <2>2
  <1> QED
    BY <1>1, <1>2, <1>6, <1>7, <1>8, <1>9

(* A dot that starts a line. *)
Leads(t, i) == (i = 1 \/ t[i - 1] = "n") /\ t[i] = "."
StuffOf(t, i) == IF Leads(t, i) THEN <<".", ".">> ELSE <<t[i]>>

StuffLoop(k, t) ==
  /\ k \in [0..Len(t) -> Seq(Bytes)] /\ k[0] = <<>>
  /\ \A i \in 1..Len(t) : k[i] = k[i - 1] \o StuffOf(t, i)

LEMMA StuffTyped ==
  ASSUME D!SmtpDataAssumption, NEW t \in Seq(Bytes), NEW i \in 1..Len(t)
  PROVE  StuffOf(t, i) \in Seq(Bytes)
  <1>1. t[i] \in Bytes /\ "." \in Bytes
    BY DEF D!SmtpDataAssumption
  <1>2. <<t[i]>> \in Seq(Bytes) /\ <<".", ".">> \in Seq(Bytes)
    BY <1>1
  <1> QED
    BY <1>2 DEF StuffOf

LEMMA StuffRead ==
  ASSUME D!SmtpDataAssumption, NEW raw, NEW t \in Seq(Bytes), t = D!Normalized(raw)
  PROVE  \E k : StuffLoop(k, t) /\ D!serializeForDATA(raw) = k[Len(t)] \o D!Terminator
  <1> DEFINE pieces == [i \in 1..Len(t) |-> StuffOf(t, i)]
  <1>1. \A i \in 1..Len(t) : StuffOf(t, i) \in Seq(Bytes)
    BY StuffTyped
  <1>2. pieces \in Seq(Seq(Bytes)) /\ Len(pieces) = Len(t) /\ DOMAIN t = 1..Len(t)
    <2>1. Len(t) \in Nat
      OBVIOUS
    <2> QED
      BY <1>1, <2>1
  <1>3. D!serializeForDATA(raw) = D!FlattenSeq([i \in DOMAIN t |-> StuffOf(t, i)]) \o D!Terminator
    BY DEF D!serializeForDATA, StuffOf, Leads
  <1>4. D!serializeForDATA(raw) = D!FlattenSeq(pieces) \o D!Terminator
    BY <1>2, <1>3
  <1>5. PICK k : Joined(k, Bytes, pieces) /\ D!FlattenSeq(pieces) = k[Len(pieces)]
    <2> HIDE DEF pieces
    <2> QED
      BY <1>2, Flattens
  <1>6. ASSUME NEW i \in 1..Len(t) PROVE pieces[i] = StuffOf(t, i)
    OBVIOUS
  <1> HIDE DEF pieces
  <1>7. StuffLoop(k, t)
    BY <1>2, <1>5, <1>6 DEF StuffLoop, Joined
  <1>8. D!serializeForDATA(raw) = k[Len(t)] \o D!Terminator
    BY <1>2, <1>4, <1>5
  <1> QED
    BY <1>7, <1>8

(* Where the bytes of t are in w: the one at i is at at[i], behind its dot   *)
(* if it has one.                                                          *)
Placed(w, t, at, n) ==
  /\ at[0] = 0
  /\ \A i \in 1..n :
       /\ at[i] = at[i - 1] + (IF Leads(t, i) THEN 2 ELSE 1)
       /\ w[at[i]] = t[i] /\ (Leads(t, i) => w[at[i] - 1] = ".")
       /\ at[i] \in 1..Len(w)

LEMMA StuffedPlaces ==
  ASSUME D!SmtpDataAssumption, NEW t \in Seq(Bytes), NEW k, StuffLoop(k, t)
  PROVE  \E at \in [0..Len(t) -> Nat] : Placed(k[Len(t)], t, at, Len(t)) /\ at[Len(t)] = Len(k[Len(t)])
  <1> DEFINE at == [i \in 0..Len(t) |-> Len(k[i])]
  <1>1. PICK n \in Nat : n = Len(t)
    OBVIOUS
  <1>2. \A i \in 0..n : k[i] \in Seq(Bytes) /\ at[i] = Len(k[i]) /\ at[i] \in Nat
    <2> SUFFICES ASSUME NEW i \in 0..n PROVE k[i] \in Seq(Bytes) /\ at[i] = Len(k[i]) /\ at[i] \in Nat
      OBVIOUS
    <2>1. k[i] \in Seq(Bytes)
      BY <1>1 DEF StuffLoop
    <2> QED
      BY <2>1, <1>1
  <1>3. at \in [0..Len(t) -> Nat]
    BY <1>1, <1>2
  <1> HIDE DEF at
  <1> DEFINE T == {j \in Nat : j <= n => Placed(k[j], t, at, j)}
  <1>4. 0 \in T
    <2>1. k[0] = <<>> /\ Len(<<>>) = 0 /\ at[0] = Len(k[0])
      BY <1>1, <1>2 DEF StuffLoop
    <2>2. at[0] = 0
      BY <2>1
    <2> QED
      BY <2>2 DEF Placed
  <1>5. ASSUME NEW j \in T PROVE j + 1 \in T
    <2> SUFFICES ASSUME j + 1 <= n PROVE Placed(k[j + 1], t, at, j + 1)
      BY <1>5
    <2>1. j + 1 \in 1..Len(t) /\ (j + 1) - 1 = j /\ Placed(k[j], t, at, j) /\ j \in Nat /\ j \in 0..n /\ j + 1 \in 0..n
      BY <1>1, <1>5
    <2>2. PICK u : u = k[j + 1] /\ u = k[j] \o StuffOf(t, j + 1) /\ Behind(u, k[j], StuffOf(t, j + 1))
      <3>1. k[j + 1] = k[j] \o StuffOf(t, j + 1)
        BY <2>1 DEF StuffLoop
      <3>2. StuffOf(t, j + 1) \in Seq(Bytes)
        BY <2>1, StuffTyped
      <3> QED
        BY <3>1, <3>2, <2>1, <1>2, JoinIsBehind
    <2>3. at[j] = Len(k[j]) /\ at[j + 1] = Len(u) /\ at[j] \in Nat
      BY <2>1, <2>2, <1>2
    <2>4. \A i \in 1..at[j] : u[i] = k[j][i]
      BY <2>2, <2>3 DEF Behind
    <2>5. /\ at[j + 1] = at[j] + (IF Leads(t, j + 1) THEN 2 ELSE 1)
          /\ u[at[j + 1]] = t[j + 1] /\ (Leads(t, j + 1) => u[at[j + 1] - 1] = ".")
          /\ at[j + 1] \in 1..Len(u)
      <3>1. CASE Leads(t, j + 1)
        <4>1. PICK s : s = StuffOf(t, j + 1) /\ s = <<".", ".">> /\ t[j + 1] = "."
          BY <3>1 DEF StuffOf, Leads
        <4>2. Len(s) = 2 /\ s[1] = "." /\ s[2] = "." /\ 1 \in 1..Len(s) /\ 2 \in 1..Len(s)
          BY <4>1
        <4>3. Len(u) = at[j] + 2 /\ u[at[j] + 1] = "." /\ u[at[j] + 2] = "."
          BY <2>2, <2>3, <4>1, <4>2 DEF Behind
        <4>4. (at[j] + 2) - 1 = at[j] + 1
          BY <2>3
        <4> QED
          BY <3>1, <2>3, <4>1, <4>3, <4>4
      <3>2. CASE ~Leads(t, j + 1)
        <4>1. PICK s : s = StuffOf(t, j + 1) /\ s = <<t[j + 1]>>
          BY <3>2 DEF StuffOf
        <4>2. Len(s) = 1 /\ s[1] = t[j + 1] /\ 1 \in 1..Len(s)
          BY <4>1
        <4>3. Len(u) = at[j] + 1 /\ u[at[j] + 1] = t[j + 1]
          BY <2>2, <2>3, <4>1, <4>2 DEF Behind
        <4> QED
          BY <3>2, <2>3, <4>3
      <3> QED
        BY <3>1, <3>2
    <2>6. ASSUME NEW i \in 1..j
          PROVE  /\ at[i] = at[i - 1] + (IF Leads(t, i) THEN 2 ELSE 1)
                 /\ u[at[i]] = t[i] /\ (Leads(t, i) => u[at[i] - 1] = ".")
                 /\ at[i] \in 1..Len(u)
      <3>1. /\ at[i] = at[i - 1] + (IF Leads(t, i) THEN 2 ELSE 1)
            /\ k[j][at[i]] = t[i] /\ (Leads(t, i) => k[j][at[i] - 1] = ".")
            /\ at[i] \in 1..Len(k[j])
        BY <2>1 DEF Placed
      <3>2. i - 1 \in 0..n /\ at[i - 1] \in Nat
        BY <2>1, <1>1, <1>2
      <3>3. u[at[i]] = k[j][at[i]]
        BY <3>1, <2>3, <2>4
      <3>4. ASSUME Leads(t, i) PROVE u[at[i] - 1] = k[j][at[i] - 1]
        <4>1. PICK a \in Nat, b \in Int, c \in Int : a = at[i - 1] /\ b = at[i] /\ c = at[j] /\ b \in 1..c
          BY <3>1, <3>2, <2>3
        <4>2. b = a + 2
          BY <4>1, <3>1, <3>4
        <4>3. at[i] - 1 \in 1..at[j]
          BY <4>1, <4>2
        <4> QED
          BY <4>3, <2>4
      <3>5. at[i] \in 1..Len(u)
        <4>1. at[i] \in 1..at[j] /\ at[j + 1] = Len(u)
          BY <3>1, <2>3
        <4>2. at[j + 1] = at[j] + 2 \/ at[j + 1] = at[j] + 1
          BY <2>5
        <4>3. ASSUME NEW a, NEW b \in Nat, NEW c, a \in 1..b, c = b + 2 \/ c = b + 1 PROVE a \in 1..c
          BY <4>3
        <4> QED
          BY <4>1, <4>2, <4>3, <2>3
      <3> QED
        BY <3>1, <3>3, <3>4, <3>5
    <2>7. at[0] = 0
      BY <2>1 DEF Placed
    <2>8. Placed(u, t, at, j + 1)
      <3>1. \A i \in 1..(j + 1) : i = j + 1 \/ i \in 1..j
        BY <2>1
      <3> QED
        BY <2>5, <2>6, <2>7, <2>1, <3>1 DEF Placed
    <2> QED
      BY <2>2, <2>8
  <1>6. T = Nat
    <2> HIDE DEF T
    <2>1. T \in SUBSET Nat
      BY DEF T
    <2> QED
      BY <1>4, <1>5, <2>1, NatSetInduction
  <1>7. Placed(k[n], t, at, n) /\ at[n] = Len(k[n])
    BY <1>1, <1>2, <1>6
  <1> QED
    BY <1>1, <1>3, <1>7

LEMMA PlacedStays ==
  ASSUME NEW t, NEW n \in Nat, NEW at \in [0..n -> Nat], NEW s, NEW x, NEW u,
         Placed(s, t, at, n), Behind(u, s, x)
  PROVE  Placed(u, t, at, n)
  <1>1. PICK m \in Nat : m = Len(s) /\ Len(u) >= m /\ Len(u) \in Nat /\ \A i \in 1..m : u[i] = s[i]
    BY DEF Behind
  <1>2. ASSUME NEW i \in 1..n
        PROVE  /\ at[i] = at[i - 1] + (IF Leads(t, i) THEN 2 ELSE 1)
               /\ u[at[i]] = t[i] /\ (Leads(t, i) => u[at[i] - 1] = ".")
               /\ at[i] \in 1..Len(u)
    <2>1. /\ at[i] = at[i - 1] + (IF Leads(t, i) THEN 2 ELSE 1)
          /\ s[at[i]] = t[i] /\ (Leads(t, i) => s[at[i] - 1] = ".")
          /\ at[i] \in 1..m
      BY <1>1 DEF Placed
    <2>2. i - 1 \in 0..n /\ at[i - 1] \in Nat
      OBVIOUS
    <2>3. u[at[i]] = s[at[i]]
      BY <1>1, <2>1
    <2>4. ASSUME Leads(t, i) PROVE u[at[i] - 1] = s[at[i] - 1]
      <3>1. at[i] - 1 \in 1..m
        BY <2>1, <2>2, <2>4
      <3> QED
        BY <3>1, <1>1
    <2>5. at[i] \in 1..Len(u)
      BY <1>1, <2>1
    <2> QED
      BY <2>1, <2>3, <2>4, <2>5
  <1>3. at[0] = 0
    BY DEF Placed
  <1> QED
    BY <1>2, <1>3 DEF Placed

(* w is t, stuffed, with the terminator and the next command behind it. *)
OnWire(w, t, at) ==
  /\ w \in Seq(Bytes) /\ at \in [0..Len(t) -> Nat] /\ Placed(w, t, at, Len(t))
  /\ Len(w) = at[Len(t)] + 6
  /\ w[at[Len(t)] + 1] = "." /\ w[at[Len(t)] + 2] = "r" /\ w[at[Len(t)] + 3] = "n"
  /\ w[at[Len(t)] + 4] = "x" /\ w[at[Len(t)] + 5] = "r" /\ w[at[Len(t)] + 6] = "n"

LEMMA TailParts ==
  ASSUME D!SmtpDataAssumption
  PROVE  /\ D!Terminator \in Seq(Bytes) /\ Len(D!Terminator) = 3
         /\ D!Terminator[1] = "." /\ D!Terminator[2] = "r" /\ D!Terminator[3] = "n"
         /\ D!Pipelined \in Seq(Bytes) /\ Len(D!Pipelined) = 3
         /\ D!Pipelined[1] = "x" /\ D!Pipelined[2] = "r" /\ D!Pipelined[3] = "n"
  BY DEF D!Terminator, D!Pipelined, D!SmtpDataAssumption

LEMMA SentOnWire ==
  ASSUME D!SmtpDataAssumption, NEW raw, NEW t \in Seq(Bytes), t = D!Normalized(raw)
  PROVE  \E at : OnWire(D!serializeForDATA(raw) \o D!Pipelined, t, at)
  <1>1. PICK k : StuffLoop(k, t) /\ D!serializeForDATA(raw) = k[Len(t)] \o D!Terminator
    BY StuffRead
  <1>2. PICK at \in [0..Len(t) -> Nat] : Placed(k[Len(t)], t, at, Len(t)) /\ at[Len(t)] = Len(k[Len(t)])
    BY <1>1, StuffedPlaces
  <1>3. PICK n \in Nat : n = Len(t)
    OBVIOUS
  <1>4. PICK a \in Nat : a = at[n]
    BY <1>2, <1>3
  <1>5. PICK s : s = k[n] /\ s \in Seq(Bytes) /\ Len(s) = a
    BY <1>1, <1>2, <1>3, <1>4 DEF StuffLoop
  <1>6. PICK e : /\ e = D!Terminator /\ e \in Seq(Bytes) /\ Len(e) = 3
                 /\ e[1] = "." /\ e[2] = "r" /\ e[3] = "n"
    BY TailParts
  <1>7. PICK p : /\ p = D!Pipelined /\ p \in Seq(Bytes) /\ Len(p) = 3
                 /\ p[1] = "x" /\ p[2] = "r" /\ p[3] = "n"
    BY TailParts
  <1>8. PICK v : v = s \o e /\ Behind(v, s, e)
    BY <1>5, <1>6, JoinIsBehind
  <1>9. Placed(v, t, at, n)
    <2>1. Placed(s, t, at, n) /\ at \in [0..n -> Nat]
      BY <1>2, <1>3, <1>5
    <2> QED
      BY <2>1, <1>8, PlacedStays
  <1>10. Len(v) = a + 3 /\ v[a + 1] = "." /\ v[a + 2] = "r" /\ v[a + 3] = "n" /\ v \in Seq(Bytes)
    <2>1. 1 \in 1..Len(e) /\ 2 \in 1..Len(e) /\ 3 \in 1..Len(e)
      BY <1>6
    <2> QED
      BY <1>5, <1>6, <1>8, <2>1 DEF Behind
  <1>11. PICK w : w = v \o p /\ Behind(w, v, p)
    BY <1>10, <1>7, JoinIsBehind
  <1>12. Placed(w, t, at, n)
    BY <1>2, <1>3, <1>9, <1>11, PlacedStays
  <1>13. Len(w) = a + 6 /\ w[(a + 3) + 1] = "x" /\ w[(a + 3) + 2] = "r" /\ w[(a + 3) + 3] = "n" /\ w \in Seq(Bytes)
    <2>1. 1 \in 1..Len(p) /\ 2 \in 1..Len(p) /\ 3 \in 1..Len(p)
      BY <1>7
    <2> QED
      BY <1>7, <1>10, <1>11, <2>1 DEF Behind
  <1>14. w[a + 1] = "." /\ w[a + 2] = "r" /\ w[a + 3] = "n"
    <2>1. a + 1 \in 1..Len(v) /\ a + 2 \in 1..Len(v) /\ a + 3 \in 1..Len(v)
      BY <1>10
    <2> QED
      BY <1>10, <1>11, <2>1 DEF Behind
  <1>15. (a + 3) + 1 = a + 4 /\ (a + 3) + 2 = a + 5 /\ (a + 3) + 3 = a + 6
    OBVIOUS
  <1>16. OnWire(w, t, at)
    BY <1>2, <1>3, <1>4, <1>12, <1>13, <1>14, <1>15 DEF OnWire
  <1> QED
    BY <1>1, <1>3, <1>5, <1>6, <1>7, <1>8, <1>11, <1>16

(* The line of t behind p ends at q; on the wire it has dot more bytes. *)
LineOn(w, t, at, p, q, dot) ==
  /\ q \in (p + 2)..Len(t) /\ dot \in {0, 1}
  /\ t[q] = "n" /\ t[q - 1] = "r" /\ \A i \in (p + 1)..(q - 1) : t[i] # "n"
  /\ \A i \in (p + 1)..(q - 2) : t[i] # "r"
  /\ dot = 1 <=> t[p + 1] = "."
  /\ dot = 1 => w[at[p] + 1] = "."
  /\ at[q] = at[p] + dot + (q - p)
  /\ \A j \in 1..(q - p) : w[at[p] + dot + j] = t[p + j]

LEMMA NextLine ==
  ASSUME NEW w, NEW t, NEW at, Clean(t), OnWire(w, t, at), NEW p \in 0..(Len(t) - 1), p = 0 \/ t[p] = "n"
  PROVE  \E q, dot : LineOn(w, t, at, p, q, dot)
  <1>1. PICK n \in Nat : n = Len(t) /\ t \in Seq(Bytes) /\ p \in Nat /\ p < n
    BY DEF Clean, Framed
  <1>2. Framed(t) /\ t[n] = "n"
    BY <1>1 DEF Clean
  <1>3. at \in [0..n -> Nat] /\ Placed(w, t, at, n)
    BY <1>1 DEF OnWire
  <1> DEFINE Ends == {i \in (p + 1)..n : t[i] = "n"}
  <1>4. PICK q \in Ends : \A i \in Ends : q <= i
    <2>1. n \in Ends /\ Ends \in SUBSET Nat
      BY <1>1, <1>2
    <2> HIDE DEF Ends
    <2> QED
      BY <2>1, LeastOf
  <1>5. q \in (p + 1)..n /\ q \in Nat /\ t[q] = "n" /\ \A i \in (p + 1)..(q - 1) : t[i] # "n"
    <2>1. q \in (p + 1)..n /\ q \in Nat /\ t[q] = "n"
      BY <1>1, <1>4
    <2>2. ASSUME NEW i \in (p + 1)..(q - 1) PROVE t[i] # "n"
      <3>1. i \in (p + 1)..n /\ i < q
        BY <1>1, <2>1
      <3> QED
        BY <3>1, <1>4
    <2> QED
      BY <2>1, <2>2
  <1> HIDE DEF Ends
  <1>6. q > 1 /\ t[q - 1] = "r"
    BY <1>1, <1>2, <1>5 DEF Framed
  <1>7. q # p + 1
    BY <1>1, <1>6
  <1>8. q \in (p + 2)..n
    BY <1>1, <1>5, <1>7
  <1>9. ASSUME NEW i \in (p + 1)..(q - 2) PROVE t[i] # "r"
    <2>1. i \in 1..n /\ i + 1 \in (p + 1)..(q - 1)
      BY <1>1, <1>8
    <2> QED
      BY <2>1, <1>1, <1>2, <1>5 DEF Framed
  <1>10. PICK dot \in {0, 1} : dot = 1 <=> t[p + 1] = "."
    <2>1. t[p + 1] = "." => \E d \in {0, 1} : d = 1 <=> t[p + 1] = "."
      OBVIOUS
    <2>2. t[p + 1] # "." => \E d \in {0, 1} : d = 1 <=> t[p + 1] = "."
      OBVIOUS
    <2> QED
      BY <2>1, <2>2
  <1>11. p + 1 \in 1..n /\ (p + 1) - 1 = p /\ at[p] \in Nat
    BY <1>1, <1>3
  <1>12. Leads(t, p + 1) <=> dot = 1
    <2>1. p + 1 = 1 \/ t[(p + 1) - 1] = "n"
      BY <1>1, <1>11
    <2> QED
      BY <2>1, <1>10 DEF Leads
  <1>13. at[p + 1] = at[p] + dot + 1 /\ (dot = 1 => w[at[p] + 1] = ".")
    <2>1. at[p + 1] = at[p] + (IF Leads(t, p + 1) THEN 2 ELSE 1) /\ (Leads(t, p + 1) => w[at[p + 1] - 1] = ".")
      BY <1>3, <1>11 DEF Placed
    <2>2. CASE dot = 1
      <3>1. at[p + 1] = at[p] + 2 /\ w[at[p + 1] - 1] = "."
        BY <2>1, <2>2, <1>12
      <3>2. at[p + 1] - 1 = at[p] + 1 /\ at[p + 1] = at[p] + dot + 1
        BY <3>1, <2>2, <1>11
      <3> QED
        BY <3>1, <3>2
    <2>3. CASE dot = 0
      BY <2>1, <2>3, <1>11, <1>12
    <2> QED
      BY <2>2, <2>3, <1>10
  <1> DEFINE T == {j \in Nat : j \in 1..(q - p) => at[p + j] = at[p] + dot + j}
  <1>14. 0 \in T
    OBVIOUS
  <1>15. ASSUME NEW j \in T PROVE j + 1 \in T
    <2> SUFFICES ASSUME j + 1 \in 1..(q - p) PROVE at[p + (j + 1)] = at[p] + dot + (j + 1)
      BY <1>15
    <2>1. CASE j = 0
      BY <2>1, <1>1, <1>11, <1>13
    <2>2. CASE j # 0
      <3>1. j \in 1..(q - p) /\ p + (j + 1) \in 1..n /\ (p + (j + 1)) - 1 = p + j /\ p + j \in (p + 1)..(q - 1) /\ p + (j + 1) # 1
        BY <2>2, <1>1, <1>5, <1>15
      <3>2. ~Leads(t, p + (j + 1))
        BY <3>1, <1>5 DEF Leads
      <3>3. at[p + (j + 1)] = at[p + j] + 1
        BY <3>1, <3>2, <1>3 DEF Placed
      <3>4. at[p + j] = at[p] + dot + j
        BY <3>1, <1>15
      <3>5. j \in Nat /\ at[p] \in Nat /\ dot \in Nat
        BY <1>10, <1>11
      <3>6. (at[p] + dot + j) + 1 = at[p] + dot + (j + 1)
        BY <3>5
      <3> QED
        BY <3>3, <3>4, <3>6
    <2> QED
      BY <2>1, <2>2
  <1>16. T = Nat
    <2> HIDE DEF T
    <2>1. T \in SUBSET Nat
      BY DEF T
    <2> QED
      BY <1>14, <1>15, <2>1, NatSetInduction
  <1>17. ASSUME NEW j \in 1..(q - p) PROVE at[p + j] = at[p] + dot + j /\ w[at[p] + dot + j] = t[p + j]
    <2>1. j \in Nat /\ p + j \in 1..n
      BY <1>1, <1>5
    <2>2. at[p + j] = at[p] + dot + j
      BY <2>1, <1>16
    <2>3. w[at[p + j]] = t[p + j]
      BY <2>1, <1>3 DEF Placed
    <2> QED
      BY <2>2, <2>3
  <1>18. at[q] = at[p] + dot + (q - p)
    <2>1. q - p \in 1..(q - p) /\ p + (q - p) = q
      BY <1>1, <1>8
    <2> QED
      BY <2>1, <1>17
  <1>19. LineOn(w, t, at, p, q, dot)
    BY <1>1, <1>5, <1>6, <1>8, <1>9, <1>10, <1>13, <1>17, <1>18 DEF LineOn
  <1> QED
    BY <1>19

(* f is the first m bytes of w, up to a line's end or a full buffer. *)
Slice(m, f, w) ==
  /\ m \in 1..Len(w) /\ m <= Buffer /\ f = Prefix(w, m)
  /\ \A i \in 1..(m - 1) : w[i] # "n"
  /\ w[m] = "n" \/ m = Buffer

LEMMA SliceParts ==
  ASSUME D!SmtpDataAssumption, dWire \in Seq(Bytes), D!ReadSlice # <<>>
  PROVE  \E m : Slice(m, D!ReadSlice, dWire)
  <1> DEFINE ends == {i \in 1..Len(dWire) : dWire[i] = "n"}
             least == CHOOSE i \in ends : \A j \in ends : i <= j
             n == IF \E i \in ends : i <= Buffer THEN least ELSE Buffer
  <1>1. D!ReadSlice = IF n <= Len(dWire) THEN SubSeq(dWire, 1, n) ELSE <<>>
    BY DEF D!ReadSlice
  <1>2. Buffer \in Nat /\ Buffer >= 3 /\ Len(dWire) \in Nat
    BY DEF D!SmtpDataAssumption
  <1>3. CASE \E i \in ends : i <= Buffer
    <2>1. PICK e \in ends : e <= Buffer
      BY <1>3
    <2>2. ends \in SUBSET Nat /\ ends # {}
      BY <2>1
    <2>3. PICK x \in ends : \A j \in ends : x <= j
      <3> HIDE DEF ends
      <3> QED
        BY <2>2, LeastOf
    <2>4. least \in ends /\ \A j \in ends : least <= j
      <3> HIDE DEF ends
      <3> QED
        BY <2>3
    <2> HIDE DEF least
    <2>5. PICK m : m = least /\ n = m
      BY <1>3
    <2>6. m \in 1..Len(dWire) /\ dWire[m] = "n" /\ m <= Buffer
      BY <1>2, <2>1, <2>4, <2>5
    <2>7. ASSUME NEW i \in 1..(m - 1) PROVE dWire[i] # "n"
      <3>1. i \in 1..Len(dWire) /\ i < m
        BY <1>2, <2>6
      <3> QED
        BY <3>1, <2>4, <2>5
    <2>8. D!ReadSlice = Prefix(dWire, m)
      BY <1>1, <1>2, <2>5, <2>6 DEF Prefix
    <2>9. Slice(m, D!ReadSlice, dWire)
      BY <2>6, <2>7, <2>8 DEF Slice
    <2> QED
      BY <2>9
  <1>4. CASE ~\E i \in ends : i <= Buffer
    <2>1. n = Buffer
      BY <1>4
    <2>2. Buffer <= Len(dWire) /\ D!ReadSlice = Prefix(dWire, Buffer)
      BY <1>1, <2>1 DEF Prefix
    <2>3. ASSUME NEW i \in 1..(Buffer - 1) PROVE dWire[i] # "n"
      <3>1. i \in 1..Len(dWire) /\ i <= Buffer
        BY <1>2, <2>2
      <3> QED
        BY <3>1, <1>4
    <2>4. Slice(Buffer, D!ReadSlice, dWire)
      BY <1>2, <2>2, <2>3 DEF Slice
    <2> QED
      BY <2>4
  <1> QED
    BY <1>3, <1>4

GotSet == [body : Seq(Bytes), line : Seq(Bytes), size : Nat, oversized : BOOLEAN,
           malformed : BOOLEAN, atLineStart : BOOLEAN, done : BOOLEAN]

(* What one turn of the loop of readData does with the slice f. *)
Outcome(f, full, line) ==
  LET ends == dGot.atLineStart /\ full /\ f = D!Terminator
      refused == dGot.oversized \/ dGot.malformed
      long == Len(line) > dLimit - dGot.size + 1
  IN \/ ends /\ dGot' = [dGot EXCEPT !.done = TRUE]
     \/ ~ends /\ refused /\ dGot' = [dGot EXCEPT !.atLineStart = full]
     \/ /\ ~ends /\ ~refused /\ long
        /\ dGot' = [dGot EXCEPT !.oversized = TRUE, !.line = <<>>, !.atLineStart = full]
     \/ ~ends /\ ~refused /\ ~long /\ ~full /\ dGot' = [dGot EXCEPT !.line = line, !.atLineStart = FALSE]
     \/ ~ends /\ ~refused /\ ~long /\ full /\ dGot' = D!TakeLine(dGot, line)

LEMMA SliceLast ==
  ASSUME NEW w \in Seq(Bytes), NEW m, NEW f, Slice(m, f, w)
  PROVE  f # <<>> /\ D!Last(f) = w[m] /\ Len(f) = m /\ f \in Seq(Bytes)
  <1>1. m \in 0..Len(w) /\ m \in 1..m /\ m \in Nat /\ m # 0
    BY DEF Slice
  <1>2. PICK g : g = f /\ g \in Seq(Bytes) /\ Len(g) = m /\ \A i \in 1..m : g[i] = w[i]
    BY <1>1, PrefixParts DEF Slice
  <1>3. g[Len(g)] = w[m]
    BY <1>1, <1>2
  <1>4. g # <<>>
    BY <1>1, <1>2
  <1> QED
    BY <1>2, <1>3, <1>4 DEF D!Last

LEMMA ReadCases ==
  ASSUME D!SmtpDataAssumption, dWire \in Seq(Bytes), D!readData
  PROVE  \E m, f : /\ Slice(m, f, dWire) /\ Outcome(f, dWire[m] = "n", dGot.line \o f)
                   /\ dWire' = SubSeq(dWire, m + 1, Len(dWire)) /\ ~dGot.done
                   /\ UNCHANGED <<dSent, dWild, dLimit>>
  <1>1. PICK f : f = D!ReadSlice /\ f # <<>>
    BY DEF D!readData
  <1>2. PICK m : Slice(m, f, dWire)
    BY <1>1, SliceParts
  <1>3. D!Last(f) = dWire[m] /\ Len(f) = m
    BY <1>2, SliceLast
  <1>4. /\ ~dGot.done /\ dWire' = SubSeq(dWire, Len(f) + 1, Len(dWire))
        /\ UNCHANGED <<dSent, dWild, dLimit>>
    BY <1>1 DEF D!readData
  <1>5. (f # <<>> /\ D!Last(f) = "n") = (dWire[m] = "n")
    BY <1>1, <1>3
  <1> DEFINE full == dWire[m] = "n"
             line == dGot.line \o f
  <1>6. dGot' = IF dGot.atLineStart /\ full /\ D!isDataTerminator(f) THEN [dGot EXCEPT !.done = TRUE]
                ELSE IF dGot.oversized \/ dGot.malformed THEN [dGot EXCEPT !.atLineStart = full]
                ELSE IF Len(line) > dLimit - dGot.size + 1
                  THEN [dGot EXCEPT !.oversized = TRUE, !.line = <<>>, !.atLineStart = full]
                ELSE IF ~full THEN [dGot EXCEPT !.line = line, !.atLineStart = FALSE]
                ELSE D!TakeLine(dGot, line)
    BY <1>1, <1>5 DEF D!readData
  <1>7. D!isDataTerminator(f) <=> f = D!Terminator
    BY DEF D!isDataTerminator
  <1> HIDE DEF full, line
  <1>8. Outcome(f, full, line)
    BY <1>6, <1>7 DEF Outcome
  <1> QED
    BY <1>2, <1>3, <1>4, <1>8 DEF full, line

Got(g, b, l, z, o, m, a, d) ==
  /\ g \in GotSet /\ g.body = b /\ g.line = l /\ g.size = z /\ g.oversized = o /\ g.malformed = m
  /\ g.atLineStart = a /\ g.done = d

LEMMA GotDone ==
  ASSUME NEW g \in GotSet
  PROVE  Got([g EXCEPT !.done = TRUE], g.body, g.line, g.size, g.oversized, g.malformed, g.atLineStart, TRUE)
  BY DEF Got, GotSet

LEMMA GotSkipped ==
  ASSUME NEW g \in GotSet, NEW a \in BOOLEAN
  PROVE  Got([g EXCEPT !.atLineStart = a], g.body, g.line, g.size, g.oversized, g.malformed, a, g.done)
  BY DEF Got, GotSet

LEMMA GotLong ==
  ASSUME NEW g \in GotSet, NEW a \in BOOLEAN
  PROVE  Got([g EXCEPT !.oversized = TRUE, !.line = <<>>, !.atLineStart = a],
             g.body, <<>>, g.size, TRUE, g.malformed, a, g.done)
  <1>0. <<>> \in Seq(Bytes)
    OBVIOUS
  <1>1. PICK e \in Seq(Bytes) : e = <<>>
    BY <1>0, Zenon
  <1>2. Got([g EXCEPT !.oversized = TRUE, !.line = e, !.atLineStart = a],
            g.body, e, g.size, TRUE, g.malformed, a, g.done)
    BY DEF Got, GotSet
  <1> QED
    BY <1>1, <1>2

LEMMA GotPart ==
  ASSUME NEW g \in GotSet, NEW l \in Seq(Bytes)
  PROVE  Got([g EXCEPT !.line = l, !.atLineStart = FALSE],
             g.body, l, g.size, g.oversized, g.malformed, FALSE, g.done)
  BY DEF Got, GotSet

(* The text of a complete line, without the dot and the CRLF. *)
TextOf(line) == SubSeq(line, IF line[1] = "." THEN 2 ELSE 1, Len(line) - 2)

LEMMA GotLine ==
  ASSUME D!SmtpDataAssumption, NEW g \in GotSet, NEW line, TextOf(line) \in Seq(Bytes), dLimit \in Nat
  PROVE  \/ /\ ~D!WellFramed(line)
            /\ Got(D!TakeLine(g, line), g.body, <<>>, g.size, g.oversized, TRUE, TRUE, g.done)
         \/ /\ D!WellFramed(line) /\ Len(TextOf(line)) + 2 > dLimit - g.size
            /\ Got(D!TakeLine(g, line), g.body, <<>>, g.size, TRUE, g.malformed, TRUE, g.done)
         \/ /\ D!WellFramed(line) /\ ~(Len(TextOf(line)) + 2 > dLimit - g.size)
            /\ Got(D!TakeLine(g, line), g.body \o TextOf(line) \o D!CRLF, <<>>, g.size + Len(TextOf(line)) + 2,
                   g.oversized, g.malformed, TRUE, g.done)
  <1> DEFINE fresh == [g EXCEPT !.line = <<>>, !.atLineStart = TRUE]
  <1>1. Got(fresh, g.body, <<>>, g.size, g.oversized, g.malformed, TRUE, g.done)
    <2>0. <<>> \in Seq(Bytes)
      OBVIOUS
    <2>1. PICK e \in Seq(Bytes) : e = <<>>
      BY <2>0, Zenon
    <2>2. Got([g EXCEPT !.line = e, !.atLineStart = TRUE],
              g.body, e, g.size, g.oversized, g.malformed, TRUE, g.done)
      BY DEF Got, GotSet
    <2> QED
      BY <2>1, <2>2
  <1>2. PICK h : h = fresh /\ h \in GotSet
    BY <1>1 DEF Got
  <1>3. PICK t \in Seq(Bytes) : t = TextOf(line)
    OBVIOUS
  <1>4. D!TakeLine(g, line) =
          IF ~D!WellFramed(line) THEN [h EXCEPT !.malformed = TRUE]
          ELSE IF Len(t) + 2 > dLimit - g.size THEN [h EXCEPT !.oversized = TRUE]
          ELSE [h EXCEPT !.size = g.size + Len(t) + 2, !.body = g.body \o t \o D!CRLF]
    BY <1>2, <1>3 DEF D!TakeLine, TextOf
  <1>5. Got(h, g.body, <<>>, g.size, g.oversized, g.malformed, TRUE, g.done)
    BY <1>1, <1>2
  <1> HIDE DEF fresh
  <1>6. Got([h EXCEPT !.malformed = TRUE], h.body, h.line, h.size, h.oversized, TRUE, h.atLineStart, h.done)
    BY <1>2 DEF Got, GotSet
  <1>7. Got([h EXCEPT !.oversized = TRUE], h.body, h.line, h.size, TRUE, h.malformed, h.atLineStart, h.done)
    BY <1>2 DEF Got, GotSet
  <1>8. ASSUME NEW z \in Nat, NEW b \in Seq(Bytes)
        PROVE  Got([h EXCEPT !.size = z, !.body = b], b, h.line, z, h.oversized, h.malformed, h.atLineStart, h.done)
    BY <1>2 DEF Got, GotSet
  <1>9. g.size + Len(t) + 2 \in Nat /\ g.body \o t \o D!CRLF \in Seq(Bytes)
    <2>1. g.size \in Nat /\ g.body \in Seq(Bytes) /\ Len(t) \in Nat /\ D!CRLF \in Seq(Bytes)
      BY CRLFParts DEF GotSet
    <2> QED
      BY <2>1
  <1>10. CASE ~D!WellFramed(line)
    BY <1>4, <1>5, <1>6, <1>10 DEF Got
  <1>11. CASE D!WellFramed(line) /\ Len(t) + 2 > dLimit - g.size
    <2>1. D!TakeLine(g, line) = [h EXCEPT !.oversized = TRUE]
      BY <1>4, <1>11
    <2>2. Got(D!TakeLine(g, line), g.body, <<>>, g.size, TRUE, g.malformed, TRUE, g.done)
      BY <2>1, <1>5, <1>7 DEF Got
    <2> QED
      BY <2>2, <1>3, <1>11
  <1>12. CASE D!WellFramed(line) /\ ~(Len(t) + 2 > dLimit - g.size)
    <2>1. D!TakeLine(g, line) = [h EXCEPT !.size = g.size + Len(t) + 2, !.body = g.body \o t \o D!CRLF]
      BY <1>4, <1>12
    <2>2. PICK z \in Nat : z = g.size + Len(t) + 2
      BY <1>9
    <2>3. PICK b \in Seq(Bytes) : b = g.body \o t \o D!CRLF
      BY <1>9
    <2>4. D!TakeLine(g, line) = [h EXCEPT !.size = z, !.body = b]
      BY <2>1, <2>2, <2>3
    <2>5. Got(D!TakeLine(g, line), b, <<>>, z, g.oversized, g.malformed, TRUE, g.done)
      <3>1. Got(D!TakeLine(g, line), b, h.line, z, h.oversized, h.malformed, h.atLineStart, h.done)
        BY <2>4, <1>8
      <3>2. h.line = <<>> /\ h.oversized = g.oversized /\ h.malformed = g.malformed /\ h.atLineStart = TRUE /\ h.done = g.done
        BY <1>5 DEF Got
      <3> QED
        BY <3>1, <3>2
    <2> QED
      BY <2>2, <2>3, <2>5, <1>3, <1>12
  <1> QED
    BY <1>3, <1>10, <1>11, <1>12

(* s is w from behind x to y. *)
IsPart(s, w, x, y) ==
  s \in Seq(Bytes) /\ Len(s) = y - x /\ \A i \in 1..(y - x) : s[i] = w[x + i]

LEMMA PartOf ==
  ASSUME NEW w \in Seq(Bytes), NEW x \in Nat, NEW y \in x..Len(w)
  PROVE  IsPart(SubSeq(w, x + 1, y), w, x, y)
  <1>1. Len(w) \in Nat /\ y \in Nat /\ x <= y /\ y <= Len(w)
    OBVIOUS
  <1> QED
    BY <1>1 DEF IsPart

(* What is left of what is left. *)
LEMMA RestOfRest ==
  ASSUME NEW w \in Seq(Bytes), NEW a \in 0..Len(w), NEW v, v = SubSeq(w, a + 1, Len(w)), NEW m \in 0..Len(v)
  PROVE  SubSeq(v, m + 1, Len(v)) = SubSeq(w, (a + m) + 1, Len(w))
  <1>1. PICK z \in Nat : z = Len(w) /\ a \in Nat /\ a <= z
    OBVIOUS
  <1>2. v \in Seq(Bytes) /\ Len(v) = z - a /\ \A i \in 1..(z - a) : v[i] = w[a + i]
    <2>1. z \in a..Len(w)
      BY <1>1
    <2>2. IsPart(v, w, a, z)
      BY <1>1, <2>1, PartOf
    <2> QED
      BY <2>2 DEF IsPart
  <1>3. m \in Nat /\ m <= z - a /\ z - a \in Nat
    BY <1>1, <1>2
  <1>4. PICK s : s = SubSeq(v, m + 1, Len(v)) /\ s \in Seq(Bytes) /\ Len(s) = (z - a) - m /\ \A i \in 1..((z - a) - m) : s[i] = v[m + i]
    <2>1. Len(v) \in m..Len(v)
      BY <1>2, <1>3
    <2>2. IsPart(SubSeq(v, m + 1, Len(v)), v, m, Len(v))
      BY <2>1, <1>2, <1>3, PartOf
    <2> QED
      BY <2>2, <1>2 DEF IsPart
  <1>5. PICK u : u = SubSeq(w, (a + m) + 1, Len(w)) /\ u \in Seq(Bytes) /\ Len(u) = z - (a + m) /\ \A i \in 1..(z - (a + m)) : u[i] = w[(a + m) + i]
    <2>1. z \in (a + m)..Len(w) /\ a + m \in Nat
      BY <1>1, <1>3
    <2>2. IsPart(SubSeq(w, (a + m) + 1, z), w, a + m, z)
      BY <2>1, PartOf
    <2> QED
      BY <2>2, <1>1 DEF IsPart
  <1>6. (z - a) - m = z - (a + m)
    BY <1>1, <1>3
  <1>7. ASSUME NEW i \in 1..Len(s) PROVE s[i] = u[i]
    <2>1. i \in 1..((z - a) - m) /\ i \in 1..(z - (a + m)) /\ m + i \in 1..(z - a) /\ a + (m + i) = (a + m) + i
      BY <1>1, <1>3, <1>4, <1>6
    <2>2. s[i] = v[m + i] /\ u[i] = w[(a + m) + i]
      BY <2>1, <1>4, <1>5
    <2>3. v[m + i] = w[a + (m + i)]
      BY <2>1, <1>2
    <2> QED
      BY <2>1, <2>2, <2>3
  <1>8. s = u
    BY <1>4, <1>5, <1>6, <1>7, SameBytes
  <1> QED
    BY <1>4, <1>5, <1>8

LineShape(w, at, p, q, dot) ==
  /\ w[at[q]] = "n" /\ at[q] \in Nat /\ at[q] > at[p] + 1 /\ q \in Nat /\ dot \in Nat
  /\ \A x \in (at[p] + 1)..(at[q] - 1) : w[x] # "n"

LEMMA LineBytes ==
  ASSUME NEW w, NEW t, NEW at, NEW p \in Nat, NEW q, NEW dot, LineOn(w, t, at, p, q, dot), at[p] \in Nat
  PROVE  LineShape(w, at, p, q, dot)
  <1>1. q \in Nat /\ q >= p + 2 /\ dot \in {0, 1} /\ at[q] = at[p] + dot + (q - p) /\ q - p \in 1..(q - p) /\ p + (q - p) = q
    <2>1. q \in (p + 2)..Len(t) /\ dot \in {0, 1} /\ at[q] = at[p] + dot + (q - p)
      BY DEF LineOn
    <2> QED
      BY <2>1
  <1>2. w[at[p] + dot + (q - p)] = t[p + (q - p)]
    BY <1>1 DEF LineOn
  <1>3. w[at[q]] = "n"
    BY <1>1, <1>2 DEF LineOn
  <1>4. ASSUME NEW x \in (at[p] + 1)..(at[q] - 1) PROVE w[x] # "n"
    <2>1. CASE x = at[p] + 1 /\ dot = 1
      BY <2>1 DEF LineOn
    <2>2. CASE ~(x = at[p] + 1 /\ dot = 1)
      <3>1. PICK j \in 1..((q - p) - 1) : x = at[p] + dot + j
        <4>1. x - (at[p] + dot) \in 1..((q - p) - 1) /\ x = at[p] + dot + (x - (at[p] + dot))
          BY <2>2, <1>1
        <4> QED
          BY <4>1
      <3>2. j \in 1..(q - p) /\ p + j \in (p + 1)..(q - 1)
        BY <1>1
      <3>3. w[x] = t[p + j] /\ t[p + j] # "n"
        BY <3>1, <3>2 DEF LineOn
      <3> QED
        BY <3>3
    <2> QED
      BY <2>1, <2>2
  <1>5. at[q] \in Nat /\ at[q] > at[p] + 1 /\ dot \in Nat
    BY <1>1
  <1> QED
    BY <1>1, <1>3, <1>4, <1>5 DEF LineShape

(* A slice goes up to the end of its line, at most. *)
InLine(w, at, p, q, a, v, m) ==
  /\ m \in Nat \ {0} /\ a + m <= at[q] /\ (v[m] = "n" <=> a + m = at[q]) /\ a + m <= Len(w)
  /\ \A x \in (at[p] + 1)..(a + m) : v[m] # "n" => w[x] # "n"

LEMMA SliceInLine ==
  ASSUME NEW w \in Seq(Bytes), NEW t, NEW at, NEW p \in Nat, NEW q, NEW dot, LineOn(w, t, at, p, q, dot),
         at[p] \in Nat, NEW a \in at[p]..Len(w), \A x \in (at[p] + 1)..a : w[x] # "n",
         NEW v, v = SubSeq(w, a + 1, Len(w)), NEW m, NEW f, Slice(m, f, v)
  PROVE  InLine(w, at, p, q, a, v, m)
  <1>1. PICK z \in Nat : z = Len(w) /\ a \in Nat /\ a <= z /\ a >= at[p]
    OBVIOUS
  <1>2. v \in Seq(Bytes) /\ Len(v) = z - a /\ \A i \in 1..(z - a) : v[i] = w[a + i]
    <2>1. z \in a..Len(w)
      BY <1>1
    <2>2. IsPart(v, w, a, z)
      BY <1>1, <2>1, PartOf
    <2> QED
      BY <2>2 DEF IsPart
  <1>3. m \in 1..(z - a) /\ (\A i \in 1..(m - 1) : v[i] # "n")
    BY <1>2 DEF Slice
  <1>4. m \in Nat \ {0} /\ a + m <= z /\ v[m] = w[a + m]
    BY <1>1, <1>2, <1>3
  <1>5. PICK e \in Nat : e = at[q] /\ w[e] = "n" /\ e > at[p] + 1 /\ \A x \in (at[p] + 1)..(e - 1) : w[x] # "n"
    <2>1. LineShape(w, at, p, q, dot)
      BY LineBytes
    <2> QED
      BY <2>1 DEF LineShape
  <1>6. a < e
    <2> SUFFICES ASSUME ~(a < e) PROVE FALSE
      OBVIOUS
    <2>1. e \in (at[p] + 1)..a
      BY <1>1, <1>5
    <2> QED
      BY <2>1, <1>5
  <1>7. a + m <= e
    <2> SUFFICES ASSUME ~(a + m <= e) PROVE FALSE
      OBVIOUS
    <2>1. e - a \in 1..(m - 1) /\ e - a \in 1..(z - a) /\ a + (e - a) = e
      BY <1>1, <1>4, <1>5, <1>6
    <2>2. v[e - a] = w[e] /\ v[e - a] # "n"
      BY <2>1, <1>2, <1>3
    <2> QED
      BY <2>2, <1>5
  <1>8. v[m] = "n" <=> a + m = e
    <2>1. ASSUME a + m # e PROVE w[a + m] # "n"
      <3>1. a + m \in (at[p] + 1)..(e - 1)
        <4>1. ASSUME NEW b \in Nat PROVE b <= a /\ a + m <= e /\ a + m # e => a + m \in (b + 1)..(e - 1)
          BY <1>1, <1>4
        <4> QED
          BY <4>1, <2>1, <1>1, <1>7
      <3> QED
        BY <3>1, <1>5
    <2> QED
      BY <2>1, <1>4, <1>5
  <1>9. ASSUME NEW x \in (at[p] + 1)..(a + m), v[m] # "n" PROVE w[x] # "n"
    <2>1. x \in (at[p] + 1)..(e - 1)
      BY <1>9, <1>1, <1>4, <1>5, <1>7, <1>8
    <2> QED
      BY <2>1, <1>5
  <1> QED
    BY <1>1, <1>4, <1>5, <1>7, <1>8, <1>9 DEF InLine


(* Text without line ends keeps whole lines behind which it stands. *)
LEMMA FramedText ==
  ASSUME NEW b, Framed(b), NEW t \in Seq(Bytes), \A i \in 1..Len(t) : t[i] # "r" /\ t[i] # "n"
  PROVE  Framed(b \o t)
  <1>1. b \in Seq(Bytes)
    BY DEF Framed
  <1>2. PICK u : u = b \o t /\ Behind(u, b, t)
    BY <1>1, JoinIsBehind
  <1>3. PICK n \in Nat, m \in Nat : n = Len(b) /\ m = Len(t) /\ Len(u) = n + m
    BY <1>2 DEF Behind
  <1>4. (\A i \in 1..n : u[i] = b[i]) /\ (\A i \in 1..m : u[n + i] = t[i])
    BY <1>2, <1>3 DEF Behind
  <1>5. ASSUME NEW i \in 1..Len(u), u[i] = "r" \/ u[i] = "n" PROVE i \in 1..n
    <2>1. i \in 1..n \/ (i - n \in 1..m /\ n + (i - n) = i)
      BY <1>3
    <2>2. ASSUME i - n \in 1..m, n + (i - n) = i PROVE FALSE
      <3>1. u[i] = t[i - n]
        BY <2>2, <1>4
      <3> QED
        BY <3>1, <2>2, <1>3, <1>5
    <2> QED
      BY <2>1, <2>2
  <1>6. ASSUME NEW i \in 1..Len(u), u[i] = "r" PROVE i < Len(u) /\ u[i + 1] = "n"
    <2>1. i \in 1..n
      BY <1>5, <1>6
    <2>2. i < n /\ b[i + 1] = "n"
      BY <2>1, <1>3, <1>4, <1>6 DEF Framed
    <2> QED
      BY <2>1, <2>2, <1>3, <1>4
  <1>7. ASSUME NEW i \in 1..Len(u), u[i] = "n" PROVE i > 1 /\ u[i - 1] = "r"
    <2>1. i \in 1..n
      BY <1>5, <1>7
    <2>2. i > 1 /\ b[i - 1] = "r"
      BY <2>1, <1>3, <1>4, <1>7 DEF Framed
    <2> QED
      BY <2>1, <2>2, <1>3, <1>4
  <1>8. u \in Seq(Bytes)
    BY <1>2 DEF Behind
  <1> QED
    BY <1>2, <1>6, <1>7, <1>8 DEF Framed

(* The text of a line is a part of the line. *)
LEMMA TextParts ==
  ASSUME NEW line \in Seq(Bytes), Len(line) >= 1
  PROVE  \E x \in {0, 1} :
           /\ TextOf(line) \in Seq(Bytes) /\ (x = 1 <=> line[1] = ".")
           /\ \A i \in 1..Len(TextOf(line)) : x + i \in 1..(Len(line) - 2) /\ TextOf(line)[i] = line[x + i]
           /\ x <= Len(line) - 2 => Len(TextOf(line)) = Len(line) - 2 - x
           /\ Len(TextOf(line)) \in Nat
  <1>1. PICK n \in Nat : n = Len(line) /\ n >= 1
    OBVIOUS
  <1>2. PICK x \in {0, 1} : (x = 1 <=> line[1] = ".") /\ TextOf(line) = SubSeq(line, x + 1, n - 2)
    BY <1>1 DEF TextOf
  <1>3. CASE x <= n - 2
    <2>1. n - 2 \in x..Len(line) /\ x \in Nat
      BY <1>1, <1>3
    <2>2. PICK s : s = SubSeq(line, x + 1, n - 2) /\ IsPart(s, line, x, n - 2)
      BY <2>1, PartOf
    <2>3. s \in Seq(Bytes) /\ Len(s) = n - 2 - x /\ \A i \in 1..(n - 2 - x) : s[i] = line[x + i]
      BY <2>2 DEF IsPart
    <2>4. \A i \in 1..(n - 2 - x) : x + i \in 1..(n - 2)
      BY <1>1
    <2>5. n - 2 - x \in Nat
      BY <1>1, <1>3
    <2> QED
      BY <1>1, <1>2, <2>2, <2>3, <2>4, <2>5
  <1>4. CASE ~(x <= n - 2)
    <2>1. SubSeq(line, x + 1, n - 2) = <<>>
      BY <1>1, <1>4
    <2>0. TextOf(line) = <<>>
      BY <2>1, <1>2, Zenon
    <2>2. TextOf(line) \in Seq(Bytes) /\ Len(TextOf(line)) = 0
      BY <2>0
    <2> QED
      BY <1>1, <1>2, <1>4, <2>2
  <1> QED
    BY <1>3, <1>4


(* What readData holds between two slices, whatever arrives. *)
Held(g, l) ==
  /\ g \in GotSet /\ \A i \in 1..Len(g.line) : g.line[i] # "n"
  /\ Clean(g.body) /\ Len(g.body) = g.size /\ g.size <= l

BodyInv ==
  /\ dWire \in Seq(Bytes) /\ dLimit \in Nat /\ dSent \in Seq(Bytes) /\ dWild \in BOOLEAN
  /\ Held(dGot, dLimit)

LEMMA HeldSame ==
  ASSUME NEW g, NEW l, Held(g, l), NEW h, NEW o, NEW m, NEW a, NEW d, Got(h, g.body, g.line, g.size, o, m, a, d)
  PROVE  Held(h, l)
  BY DEF Held, Got

LEMMA HeldFresh ==
  ASSUME NEW g, NEW l, Held(g, l), NEW h, NEW o, NEW m, NEW a, NEW d, Got(h, g.body, <<>>, g.size, o, m, a, d)
  PROVE  Held(h, l)
  <1>1. h.line = <<>> /\ h.body = g.body /\ h.size = g.size /\ h \in GotSet
    BY DEF Got
  <1>2. \A i \in 1..Len(h.line) : h.line[i] # "n"
    BY <1>1
  <1> QED
    BY <1>1, <1>2 DEF Held

(* A line so far and the slice that follows it: its last byte is the slice's. *)
Grown(u, c) ==
  /\ u \in Seq(Bytes) /\ Len(u) \in Nat /\ Len(u) >= 1 /\ u[Len(u)] = c
  /\ \A i \in 1..(Len(u) - 1) : u[i] # "n"

LEMMA LineGrows ==
  ASSUME NEW w \in Seq(Bytes), NEW m, NEW f, Slice(m, f, w), NEW l \in Seq(Bytes),
         \A i \in 1..Len(l) : l[i] # "n"
  PROVE  Grown(l \o f, w[m])
  <1>1. f \in Seq(Bytes) /\ Len(f) = m /\ m \in Nat \ {0} /\ \A i \in 1..m : f[i] = w[i]
    <2>1. m \in 0..Len(w) /\ f = Prefix(w, m) /\ m \in Nat \ {0}
      BY DEF Slice
    <2> QED
      BY <2>1, PrefixParts
  <1>2. PICK u : u = l \o f /\ Behind(u, l, f)
    BY <1>1, JoinIsBehind
  <1>3. PICK n \in Nat : n = Len(l) /\ Len(u) = n + m
    BY <1>1, <1>2 DEF Behind
  <1>4. (\A i \in 1..n : u[i] = l[i]) /\ (\A i \in 1..m : u[n + i] = f[i]) /\ u \in Seq(Bytes)
    BY <1>1, <1>2, <1>3 DEF Behind
  <1>5. ASSUME NEW i \in 1..(Len(u) - 1) PROVE u[i] # "n"
    <2>1. i \in 1..n \/ (i - n \in 1..(m - 1) /\ i - n \in 1..m /\ n + (i - n) = i)
      BY <1>1, <1>3
    <2>2. CASE i \in 1..n
      BY <2>2, <1>3, <1>4
    <2>3. CASE i - n \in 1..(m - 1) /\ i - n \in 1..m /\ n + (i - n) = i
      <3>1. u[i] = w[i - n]
        BY <2>3, <1>1, <1>4
      <3>2. w[i - n] # "n"
        BY <2>3 DEF Slice
      <3> QED
        BY <3>1, <3>2
    <2> QED
      BY <2>1, <2>2, <2>3
  <1>6. m \in 1..m /\ u[Len(u)] = w[m]
    BY <1>1, <1>3, <1>4
  <1>7. Len(u) \in Nat /\ Len(u) >= 1
    BY <1>1, <1>3
  <1> QED
    BY <1>2, <1>4, <1>5, <1>6, <1>7 DEF Grown

(* A complete line adds whole lines to the body. *)
LEMMA HeldLine ==
  ASSUME D!SmtpDataAssumption, NEW g, dLimit \in Nat, Held(g, dLimit), NEW line \in Seq(Bytes), Len(line) >= 1,
         \A i \in 1..(Len(line) - 1) : line[i] # "n"
  PROVE  Held(D!TakeLine(g, line), dLimit)
  <1>1. g \in GotSet /\ Clean(g.body) /\ g.body \in Seq(Bytes) /\ g.size \in Nat /\ Len(g.body) = g.size
    BY DEF Held, GotSet
  <1>2. PICK x \in {0, 1} :
          /\ TextOf(line) \in Seq(Bytes) /\ Len(TextOf(line)) \in Nat
          /\ \A i \in 1..Len(TextOf(line)) : x + i \in 1..(Len(line) - 2) /\ TextOf(line)[i] = line[x + i]
    BY TextParts
  <1>3. PICK s \in Seq(Bytes) : s = TextOf(line) /\ Len(s) \in Nat
    BY <1>2
  <1> DEFINE h == D!TakeLine(g, line)
  <1>4. CASE Got(h, g.body, <<>>, g.size, g.oversized, TRUE, TRUE, g.done)
    BY <1>4, HeldFresh
  <1>5. CASE Got(h, g.body, <<>>, g.size, TRUE, g.malformed, TRUE, g.done)
    BY <1>5, HeldFresh
  <1>6. CASE /\ D!WellFramed(line) /\ ~(Len(s) + 2 > dLimit - g.size)
             /\ Got(h, g.body \o s \o D!CRLF, <<>>, g.size + Len(s) + 2, g.oversized, g.malformed, TRUE, g.done)
    <2>1. ASSUME NEW i \in 1..Len(s) PROVE s[i] # "r" /\ s[i] # "n"
      <3>1. x + i \in 1..(Len(line) - 2) /\ s[i] = line[x + i]
        BY <1>2, <1>3
      <3>2. line[x + i] # "r"
        BY <3>1, <1>6 DEF D!WellFramed
      <3>3. x + i \in 1..(Len(line) - 1)
        BY <3>1
      <3> QED
        BY <3>1, <3>2, <3>3
    <2>2. Framed(g.body)
      BY <1>1 DEF Clean
    <2>3. Framed(g.body \o s)
      BY <2>1, <2>2, FramedText
    <2>4. Clean((g.body \o s) \o D!CRLF)
      BY <2>3, FramedLine
    <2>5. PICK b : b = g.body \o s /\ b \in Seq(Bytes) /\ Len(b) = g.size + Len(s)
      <3>1. Behind(g.body \o s, g.body, s)
        BY <1>1, <1>3, JoinIsBehind
      <3> QED
        BY <3>1, <1>1 DEF Behind
    <2>6. PICK c : c = b \o D!CRLF /\ Len(c) = g.size + Len(s) + 2 /\ Clean(c)
      <3>1. Len(D!CRLF) = 2 /\ D!CRLF \in Seq(Bytes)
        BY CRLFParts
      <3>0. Behind(b \o D!CRLF, b, D!CRLF)
        BY <3>1, <2>5, JoinIsBehind
      <3>2. Len(b \o D!CRLF) = Len(b) + 2
        BY <3>0, <3>1 DEF Behind
      <3> QED
        BY <3>2, <2>4, <2>5, <1>1, <1>3
    <2>7. Got(h, c, <<>>, g.size + Len(s) + 2, g.oversized, g.malformed, TRUE, g.done)
      BY <1>6, <2>5, <2>6
    <2>8. h.line = <<>> /\ h.body = c /\ h.size = g.size + Len(s) + 2 /\ h \in GotSet
      BY <2>7 DEF Got
    <2>9. \A i \in 1..Len(h.line) : h.line[i] # "n"
      BY <2>8
    <2>10. g.size + Len(s) + 2 <= dLimit
      BY <1>1, <1>3, <1>6
    <2> HIDE DEF h
    <2>11. Held(h, dLimit)
      BY <2>6, <2>8, <2>9, <2>10 DEF Held
    <2> QED
      BY <2>11 DEF h
  <1> HIDE DEF h
  <1>7. \/ Got(h, g.body, <<>>, g.size, g.oversized, TRUE, TRUE, g.done)
        \/ Got(h, g.body, <<>>, g.size, TRUE, g.malformed, TRUE, g.done)
        \/ /\ D!WellFramed(line) /\ ~(Len(s) + 2 > dLimit - g.size)
           /\ Got(h, g.body \o s \o D!CRLF, <<>>, g.size + Len(s) + 2, g.oversized, g.malformed, TRUE, g.done)
    BY <1>1, <1>2, <1>3, GotLine DEF h
  <1> QED
    BY <1>4, <1>5, <1>6, <1>7 DEF h


(* Any slice, of any bytes, leaves the body whole lines within the limit. *)
LEMMA BodyStep ==
  ASSUME D!SmtpDataAssumption, BodyInv, D!readData
  PROVE  BodyInv'
  <1> USE DEF BodyInv
  <1>1. PICK m, f : /\ Slice(m, f, dWire) /\ Outcome(f, dWire[m] = "n", dGot.line \o f)
                    /\ dWire' = SubSeq(dWire, m + 1, Len(dWire)) /\ ~dGot.done
                    /\ UNCHANGED <<dSent, dWild, dLimit>>
    BY ReadCases
  <1>2. dWire' \in Seq(Bytes)
    <2>1. m \in Nat /\ Len(dWire) \in m..Len(dWire)
      BY <1>1 DEF Slice
    <2>2. IsPart(dWire', dWire, m, Len(dWire))
      BY <1>1, <2>1, PartOf
    <2> QED
      BY <2>2 DEF IsPart
  <1>3. dGot \in GotSet /\ dGot.line \in Seq(Bytes) /\ (\A i \in 1..Len(dGot.line) : dGot.line[i] # "n")
    BY DEF Held, GotSet
  <1>4. PICK line : line = dGot.line \o f /\ Grown(line, dWire[m])
    BY <1>1, <1>3, LineGrows
  <1>5. PICK full \in BOOLEAN : full <=> dWire[m] = "n"
    OBVIOUS
  <1>6. Held(dGot', dLimit)
    <2>1. CASE dGot' = [dGot EXCEPT !.done = TRUE]
      BY <2>1, <1>3, GotDone, HeldSame
    <2>2. CASE dGot' = [dGot EXCEPT !.atLineStart = full]
      BY <2>2, <1>3, GotSkipped, HeldSame
    <2>3. CASE dGot' = [dGot EXCEPT !.oversized = TRUE, !.line = <<>>, !.atLineStart = full]
      BY <2>3, <1>3, GotLong, HeldFresh
    <2>4. CASE ~full /\ dGot' = [dGot EXCEPT !.line = line, !.atLineStart = FALSE]
      <3>1. Got(dGot', dGot.body, line, dGot.size, dGot.oversized, dGot.malformed, FALSE, dGot.done)
        BY <2>4, <1>3, <1>4, GotPart DEF Grown
      <3>2. ASSUME NEW i \in 1..Len(line) PROVE line[i] # "n"
        <4>0. PICK z \in Nat : z = Len(line)
          BY <1>4 DEF Grown
        <4>1. i \in 1..(z - 1) \/ i = z
          BY <4>0
        <4> QED
          BY <4>0, <4>1, <1>4, <1>5, <2>4 DEF Grown
      <3> QED
        BY <3>1, <3>2 DEF Held, Got
    <2>5. CASE dGot' = D!TakeLine(dGot, line)
      BY <2>5, <1>4, HeldLine DEF Grown
    <2>6. full = (dWire[m] = "n")
      BY <1>5
    <2> QED
      BY <1>1, <1>4, <2>1, <2>2, <2>3, <2>4, <2>5, <2>6 DEF Outcome
  <1> QED
    BY <1>1, <1>2, <1>6


(* readData stands at byte a of the wire, in the line behind text byte p.   *)
Standing(w, t, at, p, a) ==
  /\ p \in 0..Len(t) /\ (p = 0 \/ t[p] = "n") /\ at[p] \in Nat /\ a \in at[p]..Len(w)
  /\ (\A x \in (at[p] + 1)..a : w[x] # "n") /\ (p = Len(t) => a = at[p])

(* What it has read of the text: all the lines before, part of this one. *)
Reading(w, t, at, p, a, v, g, l) ==
  /\ Standing(w, t, at, p, a) /\ v = SubSeq(w, a + 1, Len(w))
  /\ ~g.done /\ ~g.malformed /\ (g.atLineStart <=> a = at[p])
  /\ g.oversized => Len(t) > l
  /\ ~g.oversized => g.line = SubSeq(w, at[p] + 1, a) /\ g.body = Prefix(t, p) /\ g.size = p /\ p <= l

Arrived(t, v, g, l) ==
  /\ g.done /\ ~g.malformed /\ v = D!Pipelined
  /\ g.oversized => Len(t) > l
  /\ ~g.oversized => Len(t) <= l /\ g.body = t

LEMMA WireBounds ==
  ASSUME NEW w, NEW t \in Seq(Bytes), NEW at, OnWire(w, t, at), NEW p \in 0..Len(t)
  PROVE  at[p] \in Nat /\ at[p] <= Len(w) /\ w \in Seq(Bytes) /\ Len(w) \in Nat
  <1>1. w \in Seq(Bytes) /\ at[p] \in Nat /\ Len(w) \in Nat
    <2>1. w \in Seq(Bytes) /\ at \in [0..Len(t) -> Nat]
      BY DEF OnWire
    <2> QED
      BY <2>1
  <1>2. CASE p = 0
    BY <1>1, <1>2 DEF OnWire, Placed
  <1>3. CASE p # 0
    <2>1. p \in 1..Len(t)
      BY <1>3
    <2>2. at[p] \in 1..Len(w)
      BY <2>1 DEF OnWire, Placed
    <2> QED
      BY <1>1, <2>2
  <1> QED
    BY <1>1, <1>2, <1>3

LEMMA Digits ==
  /\ 1 \in 1..3 /\ 2 \in 1..3 /\ 3 \in 1..3 /\ (\A i \in 1..3 : i = 1 \/ i = 2 \/ i = 3)
  /\ 1 \in 1..6 /\ 2 \in 1..6 /\ 3 \in 1..6 /\ 4 \in 1..6 /\ 5 \in 1..6 /\ 6 \in 1..6
  OBVIOUS

(* The slice behind the text is the terminator. *)
Closing(v, m, f) == v[m] = "n" /\ f = D!Terminator /\ SubSeq(v, m + 1, Len(v)) = D!Pipelined

LEMMA LastSlice ==
  ASSUME D!SmtpDataAssumption, NEW w, NEW t \in Seq(Bytes), NEW at, OnWire(w, t, at),
         NEW v, v = SubSeq(w, at[Len(t)] + 1, Len(w)), NEW m, NEW f, Slice(m, f, v)
  PROVE  Closing(v, m, f)
  <1>1. PICK b \in Nat : b = at[Len(t)] /\ w \in Seq(Bytes) /\ Len(w) = b + 6
    <2>1. Len(t) \in 0..Len(t)
      OBVIOUS
    <2> QED
      BY <2>1, WireBounds DEF OnWire
  <1>2. v \in Seq(Bytes) /\ Len(v) = 6 /\ \A i \in 1..6 : v[i] = w[b + i]
    <2>1. b + 6 \in b..Len(w) /\ (b + 6) - b = 6
      BY <1>1
    <2>2. IsPart(v, w, b, b + 6)
      BY <1>1, <2>1, PartOf
    <2> QED
      BY <2>1, <2>2 DEF IsPart
  <1>3. v[1] = "." /\ v[2] = "r" /\ v[3] = "n" /\ v[4] = "x" /\ v[5] = "r" /\ v[6] = "n"
    <2>1. v[1] = w[b + 1] /\ v[2] = w[b + 2] /\ v[3] = w[b + 3] /\ v[4] = w[b + 4] /\ v[5] = w[b + 5] /\ v[6] = w[b + 6]
      BY <1>2, Digits
    <2>2. /\ w[b + 1] = "." /\ w[b + 2] = "r" /\ w[b + 3] = "n"
          /\ w[b + 4] = "x" /\ w[b + 5] = "r" /\ w[b + 6] = "n"
      BY <1>1, Zenon DEF OnWire
    <2> QED
      BY <2>1, <2>2
  <1>4. m = 3
    <2>1. m \in 1..6 /\ m <= Buffer /\ (\A i \in 1..(m - 1) : v[i] # "n") /\ (v[m] = "n" \/ m = Buffer)
      BY <1>2 DEF Slice
    <2>2. Buffer \in Nat /\ Buffer >= 3
      BY DEF D!SmtpDataAssumption
    <2>3. ~(m > 3)
      <3>1. ASSUME m > 3 PROVE 3 \in 1..(m - 1)
        BY <3>1, <2>1
      <3> QED
        BY <3>1, <2>1, <1>3
    <2>4. m # 1 /\ m # 2
      <3>1. ASSUME v[m] # "n" PROVE m >= 3
        BY <3>1, <2>1, <2>2
      <3>2. ASSUME m = 1 PROVE FALSE
        <4>1. v[m] = "."
          BY <3>2, <1>3, Zenon
        <4>2. v[m] # "n"
          BY <4>1
        <4>3. m >= 3
          BY <3>1, <4>2
        <4> QED
          BY <3>2, <4>3
      <3>3. ASSUME m = 2 PROVE FALSE
        <4>1. v[m] = "r"
          BY <3>3, <1>3, Zenon
        <4>2. v[m] # "n"
          BY <4>1
        <4>3. m >= 3
          BY <3>1, <4>2
        <4> QED
          BY <3>3, <4>3
      <3> QED
        BY <3>2, <3>3
    <2> QED
      BY <2>1, <2>3, <2>4
  <1>5. f = D!Terminator
    <2>1. f = Prefix(v, 3) /\ 3 \in 0..Len(v)
      BY <1>2, <1>4 DEF Slice
    <2>2. f \in Seq(Bytes) /\ Len(f) = 3 /\ \A i \in 1..3 : f[i] = v[i]
      BY <2>1, <1>2, PrefixParts
    <2>3. PICK e \in Seq(Bytes) : e = D!Terminator /\ Len(e) = 3 /\ e[1] = "." /\ e[2] = "r" /\ e[3] = "n"
      BY TailParts
    <2>4. f[1] = v[1] /\ f[2] = v[2] /\ f[3] = v[3]
      BY <2>2, Digits
    <2>5. f[1] = e[1] /\ f[2] = e[2] /\ f[3] = e[3]
      BY <2>3, <2>4, <1>3
    <2>6. \A i \in 1..Len(f) : f[i] = e[i]
      BY <2>2, <2>5, Digits
    <2> QED
      BY <2>2, <2>3, <2>6, SameBytes
  <1>6. SubSeq(v, m + 1, Len(v)) = D!Pipelined
    <2>1. 6 \in 3..Len(v) /\ 3 \in Nat
      BY <1>2
    <2>2. PICK u : u = SubSeq(v, 3 + 1, 6) /\ IsPart(u, v, 3, 6)
      BY <2>1, <1>2, PartOf
    <2>3. u \in Seq(Bytes) /\ Len(u) = 3 /\ u[1] = v[4] /\ u[2] = v[5] /\ u[3] = v[6]
      <3>1. 6 - 3 = 3 /\ 3 + 1 = 4 /\ 3 + 2 = 5 /\ 3 + 3 = 6
        OBVIOUS
      <3>2. u \in Seq(Bytes) /\ Len(u) = 3 /\ \A i \in 1..3 : u[i] = v[3 + i]
        BY <2>2, <3>1 DEF IsPart
      <3> QED
        BY <3>1, <3>2, Digits
    <2>4. PICK e \in Seq(Bytes) : e = D!Pipelined /\ Len(e) = 3 /\ e[1] = "x" /\ e[2] = "r" /\ e[3] = "n"
      BY TailParts
    <2>7. u[1] = e[1] /\ u[2] = e[2] /\ u[3] = e[3]
      BY <2>3, <2>4, <1>3
    <2>5. \A i \in 1..Len(u) : u[i] = e[i]
      BY <2>3, <2>7, Digits
    <2>6. u = e
      BY <2>3, <2>4, <2>5, SameBytes
    <2> QED
      BY <2>2, <2>4, <2>6, <1>2, <1>4
  <1> QED
    BY <1>3, <1>4, <1>5, <1>6 DEF Closing

(* With the terminator the whole text has arrived. *)
LEMMA EndArrives ==
  ASSUME D!SmtpDataAssumption, NEW w, NEW t \in Seq(Bytes), NEW at, OnWire(w, t, at), NEW a,
         dGot \in GotSet, dLimit \in Nat, Reading(w, t, at, Len(t), a, dWire, dGot, dLimit),
         NEW m, NEW f, Slice(m, f, dWire), Outcome(f, dWire[m] = "n", dGot.line \o f),
         dWire' = SubSeq(dWire, m + 1, Len(dWire))
  PROVE  Arrived(t, dWire', dGot', dLimit)
  <1>1. a = at[Len(t)] /\ dWire = SubSeq(w, at[Len(t)] + 1, Len(w)) /\ dGot.atLineStart
    BY DEF Reading, Standing
  <1>2. dWire[m] = "n" /\ f = D!Terminator /\ dWire' = D!Pipelined
    <2>1. Closing(dWire, m, f)
      BY <1>1, LastSlice
    <2> QED
      BY <2>1 DEF Closing
  <1>3. dGot' = [dGot EXCEPT !.done = TRUE]
    BY <1>1, <1>2 DEF Outcome
  <1>4. Got(dGot', dGot.body, dGot.line, dGot.size, dGot.oversized, dGot.malformed, dGot.atLineStart, TRUE)
    BY <1>3, GotDone
  <1>5. Prefix(t, Len(t)) = t
    <2>1. Len(t) \in 0..Len(t)
      OBVIOUS
    <2>2. PICK s \in Seq(Bytes) : s = Prefix(t, Len(t)) /\ Len(s) = Len(t) /\ \A i \in 1..Len(t) : s[i] = t[i]
      BY <2>1, PrefixParts
    <2> QED
      BY <2>2, SameBytes
  <1> QED
    BY <1>2, <1>4, <1>5 DEF Arrived, Got, Reading


(* The slice continues the part of the wire read before it. *)
Continues(w, x, a, m, f) == a + m \in a..Len(w) /\ SubSeq(w, x + 1, a) \o f = SubSeq(w, x + 1, a + m)

LEMMA PartJoins ==
  ASSUME NEW w \in Seq(Bytes), NEW x \in Nat, NEW a \in x..Len(w), NEW v, v = SubSeq(w, a + 1, Len(w)),
         NEW m, NEW f, Slice(m, f, v)
  PROVE  Continues(w, x, a, m, f)
  <1>1. PICK z \in Nat : z = Len(w) /\ a \in Nat /\ a <= z /\ x <= a
    OBVIOUS
  <1>2. v \in Seq(Bytes) /\ Len(v) = z - a /\ \A i \in 1..(z - a) : v[i] = w[a + i]
    <2>1. z \in a..Len(w)
      BY <1>1
    <2>2. IsPart(v, w, a, z)
      BY <1>1, <2>1, PartOf
    <2> QED
      BY <2>2 DEF IsPart
  <1>3. m \in 1..(z - a) /\ f = Prefix(v, m)
    BY <1>2 DEF Slice
  <1>4. a + m \in a..Len(w) /\ a + m \in x..Len(w) /\ m \in Nat
    BY <1>1, <1>3
  <1>5. f \in Seq(Bytes) /\ Len(f) = m /\ \A i \in 1..m : f[i] = v[i]
    <2>1. m \in 0..Len(v)
      BY <1>1, <1>2, <1>3
    <2> QED
      BY <2>1, <1>2, <1>3, PrefixParts
  <1>6. PICK s : s = SubSeq(w, x + 1, a) /\ IsPart(s, w, x, a)
    BY PartOf
  <1>7. PICK r : r = SubSeq(w, x + 1, a + m) /\ IsPart(r, w, x, a + m)
    BY <1>4, PartOf
  <1>8. s \in Seq(Bytes) /\ Len(s) = a - x /\ \A i \in 1..(a - x) : s[i] = w[x + i]
    BY <1>6 DEF IsPart
  <1>9. r \in Seq(Bytes) /\ Len(r) = (a + m) - x /\ \A i \in 1..((a + m) - x) : r[i] = w[x + i]
    BY <1>7 DEF IsPart
  <1>10. PICK u : u = s \o f /\ Behind(u, s, f)
    BY <1>5, <1>8, JoinIsBehind
  <1>11. u \in Seq(Bytes) /\ Len(u) = (a - x) + m /\ (\A i \in 1..(a - x) : u[i] = s[i])
         /\ (\A i \in 1..m : u[(a - x) + i] = f[i])
    BY <1>5, <1>8, <1>10 DEF Behind
  <1>12. Len(u) = Len(r)
    BY <1>1, <1>4, <1>9, <1>11
  <1>13. ASSUME NEW i \in 1..Len(u) PROVE u[i] = r[i]
    <2>1. i \in 1..((a + m) - x)
      BY <1>9, <1>12
    <2>2. r[i] = w[x + i]
      BY <2>1, <1>9
    <2>3. CASE i \in 1..(a - x)
      BY <2>2, <2>3, <1>8, <1>11
    <2>4. CASE ~(i \in 1..(a - x))
      <3>1. PICK j \in Nat : j = i - (a - x) /\ j \in 1..m /\ (a - x) + j = i /\ a + j = x + i
        BY <2>1, <2>4, <1>1, <1>4
      <3>2. u[i] = f[j] /\ f[j] = v[j]
        BY <3>1, <1>5, <1>11
      <3>3. j \in 1..(z - a)
        BY <3>1, <1>1, <1>3
      <3>4. v[j] = w[a + j]
        BY <3>3, <1>2
      <3> QED
        BY <2>2, <3>1, <3>2, <3>4
    <2> QED
      BY <2>3, <2>4
  <1>14. u = r
    BY <1>9, <1>11, <1>12, <1>13, SameBytes
  <1> QED
    BY <1>4, <1>6, <1>7, <1>10, <1>14 DEF Continues

SliceOf(f, v, m) == f \in Seq(Bytes) /\ Len(f) = m /\ \A i \in 1..m : f[i] = v[i]

LEMMA SliceBytes ==
  ASSUME NEW v \in Seq(Bytes), NEW m, NEW f, Slice(m, f, v)
  PROVE  SliceOf(f, v, m)
  <1>1. m \in 0..Len(v) /\ f = Prefix(v, m)
    BY DEF Slice
  <1> QED
    BY <1>1, PrefixParts DEF SliceOf

(* A dot-stuffed line is never the terminator. *)
LEMMA LineIsNoEnd ==
  ASSUME D!SmtpDataAssumption, NEW w \in Seq(Bytes), NEW t, NEW at, NEW p \in Nat, NEW q, NEW dot,
         LineOn(w, t, at, p, q, dot), at[p] \in Nat, at[p] <= Len(w), NEW v, v = SubSeq(w, at[p] + 1, Len(w)),
         NEW m, NEW f, Slice(m, f, v), at[p] + m = at[q], f = D!Terminator
  PROVE  FALSE
  <1>1. PICK z \in Nat, b \in Nat : z = Len(w) /\ b = at[p] /\ b <= z
    OBVIOUS
  <1>2. v \in Seq(Bytes) /\ Len(v) = z - b /\ \A i \in 1..(z - b) : v[i] = w[b + i]
    <2>1. z \in b..Len(w)
      BY <1>1
    <2>2. IsPart(v, w, b, z)
      BY <1>1, <2>1, PartOf
    <2> QED
      BY <2>2 DEF IsPart
  <1>3. m \in 1..(z - b) /\ f = Prefix(v, m)
    BY <1>2 DEF Slice
  <1>4. f \in Seq(Bytes) /\ Len(f) = m /\ \A i \in 1..m : f[i] = v[i]
    <2>1. SliceOf(f, v, m)
      BY <1>2, SliceBytes
    <2> QED
      BY <2>1 DEF SliceOf
  <1>5. m = 3 /\ f[1] = "."
    <2>1. PICK e : e = D!Terminator /\ Len(e) = 3 /\ e[1] = "."
      BY TailParts
    <2> QED
      BY <2>1, <1>4
  <1>6. w[b + 1] = "."
    <2>1. 1 \in 1..m /\ 1 \in 1..(z - b)
      BY <1>1, <1>3
    <2>2. f[1] = v[1] /\ v[1] = w[b + 1]
      BY <2>1, <1>2, <1>4
    <2> QED
      BY <2>2, <1>5
  <1>7. /\ q \in (p + 2)..Len(t) /\ dot \in {0, 1} /\ t[q - 1] = "r" /\ (dot = 1 <=> t[p + 1] = ".")
        /\ at[q] = b + dot + (q - p) /\ \A j \in 1..(q - p) : w[b + dot + j] = t[p + j]
    BY <1>1 DEF LineOn
  <1>8. CASE dot = 0
    <2>1. 1 \in 1..(q - p) /\ b + 0 + 1 = b + 1
      BY <1>7
    <2>2. w[b + dot + 1] = t[p + 1]
      BY <2>1, <1>7
    <2>3. t[p + 1] = "."
      BY <2>1, <2>2, <1>6, <1>8
    <2> QED
      BY <2>3, <1>7, <1>8
  <1>9. CASE dot = 1
    <2>1. b + 3 = b + 1 + (q - p)
      BY <1>1, <1>5, <1>7, <1>9
    <2>2. q - 1 = p + 1
      BY <2>1, <1>7
    <2>3. t[p + 1] = "r" /\ t[p + 1] = "."
      BY <2>2, <1>7, <1>9
    <2> QED
      BY <2>3
  <1> QED
    BY <1>7, <1>8, <1>9


(* A whole line of the wire is well framed and gives its line of the text. *)
TakesLine(t, p, q, line) ==
  /\ D!WellFramed(line) /\ TextOf(line) \in Seq(Bytes) /\ Len(TextOf(line)) + 2 = q - p
  /\ Prefix(t, p) \o TextOf(line) \o D!CRLF = Prefix(t, q)

LEMMA WholeLine ==
  ASSUME D!SmtpDataAssumption, NEW w \in Seq(Bytes), NEW t \in Seq(Bytes), NEW at, NEW p \in Nat, NEW q, NEW dot,
         LineOn(w, t, at, p, q, dot), at[p] \in Nat, NEW line, IsPart(line, w, at[p], at[q])
  PROVE  TakesLine(t, p, q, line)
  <1>1. PICK b \in Nat : b = at[p]
    OBVIOUS
  <1>2. /\ q \in (p + 2)..Len(t) /\ q \in Nat /\ dot \in {0, 1} /\ t[q] = "n" /\ t[q - 1] = "r"
        /\ \A i \in (p + 1)..(q - 2) : t[i] # "r"
        /\ dot = 1 <=> t[p + 1] = "."
    BY DEF LineOn
  <1>3. /\ dot = 1 => w[b + 1] = "."
        /\ at[q] = b + dot + (q - p) /\ \A j \in 1..(q - p) : w[b + dot + j] = t[p + j]
    BY <1>1 DEF LineOn
  <1>4. PICK n \in Nat : n = dot + (q - p) /\ at[q] = b + n /\ n >= 2
    BY <1>2, <1>3
  <1>5. line \in Seq(Bytes) /\ Len(line) = n /\ \A i \in 1..n : line[i] = w[b + i]
    <2>1. (b + n) - b = n
      OBVIOUS
    <2>2. IsPart(line, w, b, b + n)
      BY <1>1, <1>4
    <2> QED
      BY <2>1, <2>2 DEF IsPart
  <1>6. ASSUME NEW j \in 1..(q - p) PROVE dot + j \in 1..n /\ line[dot + j] = t[p + j]
    <2>1. dot + j \in 1..n /\ b + (dot + j) = b + dot + j
      BY <1>2, <1>4
    <2>2. line[dot + j] = w[b + (dot + j)]
      BY <2>1, <1>5
    <2> QED
      BY <2>1, <2>2, <1>3
  <1>7. line[n] = "n" /\ line[n - 1] = "r"
    <2>1. q - p \in 1..(q - p) /\ q - p - 1 \in 1..(q - p)
      BY <1>2
    <2>2. dot + (q - p) = n /\ dot + (q - p - 1) = n - 1 /\ p + (q - p) = q /\ p + (q - p - 1) = q - 1
      BY <1>2, <1>4
    <2>3. line[dot + (q - p)] = t[p + (q - p)] /\ line[dot + (q - p - 1)] = t[p + (q - p - 1)]
      BY <2>1, <1>6
    <2> QED
      BY <2>2, <2>3, <1>2
  <1>8. dot = 1 <=> line[1] = "."
    <2>1. 1 \in 1..n /\ 1 \in 1..(q - p) /\ 0 + 1 = 1
      BY <1>2, <1>4
    <2>2. line[1] = w[b + 1]
      BY <2>1, <1>5
    <2>3. line[dot + 1] = t[p + 1]
      BY <2>1, <1>6
    <2>4. CASE dot = 0
      BY <2>1, <2>3, <2>4, <1>2
    <2>5. CASE dot = 1
      BY <2>2, <2>5, <1>3
    <2> QED
      BY <2>4, <2>5, <1>2
  <1>9. ASSUME NEW i \in 1..(n - 2) PROVE line[i] # "r"
    <2>1. CASE i > dot
      <3>1. PICK j : j = i - dot /\ j \in 1..(q - p) /\ dot + j = i /\ p + j \in (p + 1)..(q - 2)
        <4>1. i - dot \in 1..(q - p) /\ dot + (i - dot) = i /\ p + (i - dot) \in (p + 1)..(q - 2)
          BY <2>1, <1>2, <1>4
        <4> QED
          BY <4>1
      <3>2. line[dot + j] = t[p + j]
        BY <3>1, <1>6
      <3> QED
        BY <3>1, <3>2, <1>2
    <2>2. CASE ~(i > dot)
      <3>1. i = 1 /\ dot = 1
        BY <2>2, <1>2
      <3> QED
        BY <3>1, <1>8
    <2> QED
      BY <2>1, <2>2
  <1>10. D!WellFramed(line)
    BY <1>4, <1>5, <1>7, <1>9 DEF D!WellFramed, D!hasValidCRLF
  <1>11. PICK s : s = TextOf(line) /\ s = SubSeq(line, dot + 1, n - 2)
    <2>0. dot = 0 \/ dot = 1
      BY <1>2
    <2>1. (IF line[1] = "." THEN 2 ELSE 1) = dot + 1
      BY <2>0, <1>8
    <2> QED
      BY <2>1, <1>5 DEF TextOf
  <1>12. s \in Seq(Bytes) /\ Len(s) = q - p - 2 /\ \A i \in 1..(q - p - 2) : s[i] = line[dot + i]
    <2>0. dot \in Nat /\ q \in Nat /\ q >= p + 2
      BY <1>2
    <2>1. n - 2 \in dot..Len(line) /\ (n - 2) - dot = q - p - 2 /\ dot \in Nat
      BY <2>0, <1>4, <1>5
    <2>2. IsPart(s, line, dot, n - 2)
      BY <2>1, <1>5, <1>11, PartOf
    <2> QED
      BY <2>1, <2>2 DEF IsPart
  <1>13. \A i \in 1..(q - p - 2) : s[i] = t[p + i]
    <2>1. ASSUME NEW i \in 1..(q - p - 2) PROVE i \in 1..(q - p)
      BY <1>2
    <2> QED
      BY <2>1, <1>6, <1>12
  <1>14. Prefix(t, p) \o s = Prefix(t, q - 2)
    <2>1. p \in 0..Len(t) /\ q - 2 \in 0..Len(t)
      BY <1>2
    <2>2. PICK c : c = Prefix(t, p) /\ c \in Seq(Bytes) /\ Len(c) = p /\ \A i \in 1..p : c[i] = t[i]
      BY <2>1, PrefixParts
    <2>3. PICK d : d = Prefix(t, q - 2) /\ d \in Seq(Bytes) /\ Len(d) = q - 2 /\ \A i \in 1..(q - 2) : d[i] = t[i]
      BY <2>1, PrefixParts
    <2>4. PICK u : u = c \o s /\ Behind(u, c, s)
      BY <2>2, <1>12, JoinIsBehind
    <2>5. u \in Seq(Bytes) /\ Len(u) = p + (q - p - 2) /\ (\A i \in 1..p : u[i] = c[i])
          /\ \A i \in 1..(q - p - 2) : u[p + i] = s[i]
      BY <2>2, <2>4, <1>12 DEF Behind
    <2>6. Len(u) = q - 2
      BY <2>5, <1>2
    <2>7. ASSUME NEW i \in 1..(q - 2) PROVE u[i] = d[i]
      <3>1. CASE i \in 1..p
        BY <3>1, <2>2, <2>3, <2>5
      <3>2. CASE ~(i \in 1..p)
        <4>1. i - p \in 1..(q - p - 2) /\ p + (i - p) = i
          BY <3>2, <1>2
        <4>2. u[p + (i - p)] = s[i - p] /\ s[i - p] = t[p + (i - p)]
          BY <4>1, <2>5, <1>13
        <4> QED
          BY <4>1, <4>2, <2>3
      <3> QED
        BY <3>1, <3>2
    <2>8. u = d
      BY <2>3, <2>5, <2>6, <2>7, SameBytes
    <2> QED
      BY <2>2, <2>3, <2>4, <2>8
  <1>15. Prefix(t, q - 2) \o D!CRLF = Prefix(t, q)
    <2>1. PICK k : k = q - 2 /\ k \in 0..(Len(t) - 2) /\ k + 1 = q - 1 /\ k + 2 = q
      <3>1. q - 2 \in 0..(Len(t) - 2) /\ (q - 2) + 1 = q - 1 /\ (q - 2) + 2 = q
        BY <1>2
      <3> QED
        BY <3>1
    <2>2. Prefix(t, k) \o D!CRLF = Prefix(t, k + 2)
      BY <2>1, <1>2, PrefixLine
    <2> QED
      BY <2>1, <2>2
  <1>16. Len(s) + 2 = q - p
    BY <1>2, <1>12
  <1> QED
    BY <1>10, <1>11, <1>12, <1>14, <1>15, <1>16 DEF TakesLine


(* Where a slice of a line ends: in the line, or at the start of the next. *)
Stands(w, t, at, q, r, a, v, m) ==
  /\ Standing(w, t, at, r, a + m) /\ (v[m] = "n" <=> a + m = at[r]) /\ (v[m] = "n" <=> a + m = at[q])
  /\ a + m <= at[q] /\ m \in Nat

LEMMA SliceStands ==
  ASSUME NEW w, NEW t \in Seq(Bytes), NEW at, OnWire(w, t, at), NEW p, NEW a, Standing(w, t, at, p, a), p # Len(t),
         NEW q, NEW dot, LineOn(w, t, at, p, q, dot), NEW v, v = SubSeq(w, a + 1, Len(w)), NEW m, NEW f, Slice(m, f, v),
         NEW r, r = IF v[m] = "n" THEN q ELSE p
  PROVE  Stands(w, t, at, q, r, a, v, m)
  <1>1. /\ p \in Nat /\ p \in 0..Len(t) /\ (p = 0 \/ t[p] = "n") /\ at[p] \in Nat /\ a \in at[p]..Len(w)
        /\ \A x \in (at[p] + 1)..a : w[x] # "n"
    BY DEF Standing
  <1>2. q \in 0..Len(t) /\ t[q] = "n" /\ q \in Nat /\ q > p
    BY <1>1 DEF LineOn
  <1>3. w \in Seq(Bytes) /\ Len(w) \in Nat /\ at[q] \in Nat /\ at[q] <= Len(w)
    BY <1>2, WireBounds
  <1>4. /\ m \in Nat \ {0} /\ a + m <= at[q] /\ (v[m] = "n" <=> a + m = at[q]) /\ a + m <= Len(w)
        /\ \A x \in (at[p] + 1)..(a + m) : v[m] # "n" => w[x] # "n"
    <2>1. InLine(w, at, p, q, a, v, m)
      BY <1>1, <1>3, SliceInLine
    <2> QED
      BY <2>1 DEF InLine
  <1>5. CASE v[m] = "n"
    <2>1. r = q /\ a + m = at[q]
      BY <1>4, <1>5
    <2>2. \A x \in (at[q] + 1)..at[q] : w[x] # "n"
      BY <1>3
    <2>3. at[q] \in at[q]..Len(w)
      BY <1>3
    <2>4. Standing(w, t, at, q, at[q])
      BY <1>2, <1>3, <2>2, <2>3 DEF Standing
    <2> QED
      BY <2>1, <2>4, <1>4, <1>5 DEF Stands
  <1>6. CASE v[m] # "n"
    <2>1. r = p /\ a + m # at[q]
      BY <1>4, <1>6
    <2>2. PICK b \in Nat : b = at[p] /\ b <= a /\ a \in Nat
      BY <1>1
    <2>3. a + m # b /\ a + m >= b
      BY <2>2, <1>4
    <2>4. a + m \in at[p]..Len(w)
      BY <2>2, <2>3, <1>3, <1>4
    <2>5. \A x \in (at[p] + 1)..(a + m) : w[x] # "n"
      BY <1>4, <1>6
    <2>6. Standing(w, t, at, p, a + m)
      BY <1>1, <2>4, <2>5 DEF Standing
    <2> QED
      BY <2>1, <2>2, <2>3, <2>6, <1>4, <1>6 DEF Stands
  <1> QED
    BY <1>5, <1>6

(* A slice of a line takes the reader on by as much, and no line is the end. *)
LEMMA LineStep ==
  ASSUME D!SmtpDataAssumption, NEW w, NEW t \in Seq(Bytes), NEW at, Clean(t), OnWire(w, t, at), NEW p, NEW a,
         p # Len(t), dGot \in GotSet, dLimit \in Nat, Reading(w, t, at, p, a, dWire, dGot, dLimit),
         NEW m, NEW f, Slice(m, f, dWire), Outcome(f, dWire[m] = "n", dGot.line \o f),
         dWire' = SubSeq(dWire, m + 1, Len(dWire))
  PROVE  \E y, c : Reading(w, t, at, y, c, dWire', dGot', dLimit)
  <1>1. Standing(w, t, at, p, a) /\ dWire = SubSeq(w, a + 1, Len(w)) /\ ~dGot.done /\ ~dGot.malformed
    BY DEF Reading
  <1>2. /\ p \in Nat /\ p \in 0..(Len(t) - 1) /\ (p = 0 \/ t[p] = "n") /\ at[p] \in Nat /\ a \in at[p]..Len(w)
        /\ a \in Nat /\ p \in 0..Len(t)
    BY <1>1 DEF Standing
  <1>3. w \in Seq(Bytes) /\ Len(w) \in Nat /\ at[p] <= Len(w)
    BY <1>2, WireBounds
  <1>4. PICK q, dot : LineOn(w, t, at, p, q, dot)
    BY <1>2, NextLine
  <1>5. q \in Nat /\ q <= Len(t) /\ q > p /\ Len(t) \in Nat /\ dot \in {0, 1} /\ at[q] = at[p] + dot + (q - p)
    BY <1>2, <1>4 DEF LineOn
  <1>6. PICK full \in BOOLEAN : full = (dWire[m] = "n")
    OBVIOUS
  <1>7. PICK r : r = IF dWire[m] = "n" THEN q ELSE p
    OBVIOUS
  <1>8. /\ Standing(w, t, at, r, a + m) /\ (full <=> a + m = at[r]) /\ (full <=> a + m = at[q])
        /\ a + m <= at[q] /\ m \in Nat
    <2>1. Stands(w, t, at, q, r, a, dWire, m)
      BY <1>1, <1>4, <1>7, SliceStands
    <2> QED
      BY <2>1, <1>6 DEF Stands
  <1>9. dWire' = SubSeq(w, (a + m) + 1, Len(w))
    <2>1. a \in 0..Len(w) /\ m \in 0..Len(dWire)
      <3>1. m \in 0..Len(dWire)
        BY <1>8 DEF Slice
      <3>2. a \in 0..Len(w)
        BY <1>2, <1>3
      <3> QED
        BY <3>1, <3>2
    <2> QED
      BY <2>1, <1>1, <1>3, RestOfRest
  <1>10. ~(dGot.atLineStart /\ full /\ f = D!Terminator)
    <2> SUFFICES ASSUME dGot.atLineStart, full, f = D!Terminator PROVE FALSE
      OBVIOUS
    <2>1. a = at[p]
      BY DEF Reading
    <2>2. at[p] + m = at[q] /\ dWire = SubSeq(w, at[p] + 1, Len(w))
      BY <2>1, <1>1, <1>8
    <2> QED
      BY <2>2, <1>2, <1>3, <1>4, LineIsNoEnd
  <1> DEFINE line == dGot.line \o f
             Onward(g) == Reading(w, t, at, r, a + m, dWire', g, dLimit)
  <1>11. ~dGot.oversized =>
           /\ line = SubSeq(w, at[p] + 1, a + m) /\ IsPart(line, w, at[p], a + m)
           /\ dGot.size = p /\ dGot.body = Prefix(t, p) /\ p <= dLimit
    <2> SUFFICES ASSUME ~dGot.oversized
                 PROVE  /\ line = SubSeq(w, at[p] + 1, a + m) /\ IsPart(line, w, at[p], a + m)
                        /\ dGot.size = p /\ dGot.body = Prefix(t, p) /\ p <= dLimit
      OBVIOUS
    <2>1. /\ dGot.line = SubSeq(w, at[p] + 1, a) /\ dGot.size = p /\ dGot.body = Prefix(t, p) /\ p <= dLimit
      BY DEF Reading
    <2>2. a + m \in a..Len(w) /\ SubSeq(w, at[p] + 1, a) \o f = SubSeq(w, at[p] + 1, a + m)
      <3>1. Continues(w, at[p], a, m, f)
        BY <1>1, <1>2, <1>3, PartJoins
      <3> QED
        BY <3>1 DEF Continues
    <2>3. a + m \in at[p]..Len(w)
      BY <2>2, <1>2, <1>3
    <2>4. IsPart(SubSeq(w, at[p] + 1, a + m), w, at[p], a + m)
      BY <2>3, <1>2, <1>3, PartOf
    <2> QED
      BY <2>1, <2>2, <2>4
  <1> HIDE DEF line
  <1>12. CASE dGot.oversized /\ dGot' = [dGot EXCEPT !.atLineStart = full]
    <2>1. Got(dGot', dGot.body, dGot.line, dGot.size, dGot.oversized, dGot.malformed, full, dGot.done)
      BY <1>12, GotSkipped
    <2>2. Len(t) > dLimit
      BY <1>12 DEF Reading
    <2> QED
      BY <2>1, <2>2, <1>1, <1>8, <1>9, <1>12 DEF Reading, Got
  <1>13. CASE /\ ~dGot.oversized /\ Len(line) > dLimit - dGot.size + 1
              /\ dGot' = [dGot EXCEPT !.oversized = TRUE, !.line = <<>>, !.atLineStart = full]
    <2>1. Got(dGot', dGot.body, <<>>, dGot.size, TRUE, dGot.malformed, full, dGot.done)
      BY <1>13, GotLong
    <2>2. Len(line) = (a + m) - at[p] /\ dGot.size = p
      BY <1>11, <1>13 DEF IsPart
    <2>3. PICK b \in Nat : b = at[p]
      BY <1>2
    <2>4. (a + m) - b <= dot + (q - p) /\ (a + m) - b > dLimit - p + 1
      <3>1. (a + m) - b > dLimit - p + 1
        BY <2>2, <2>3, <1>13
      <3>2. a + m <= b + dot + (q - p)
        BY <2>3, <1>5, <1>8
      <3> QED
        BY <3>1, <3>2, <1>2, <1>5, <1>8
    <2>5. Len(t) > dLimit
      BY <2>4, <1>2, <1>5, <1>8
    <2> QED
      BY <2>1, <2>5, <1>1, <1>8, <1>9 DEF Reading, Got
  <1>14. CASE ~dGot.oversized /\ ~full /\ dGot' = [dGot EXCEPT !.line = line, !.atLineStart = FALSE]
    <2>1. line \in Seq(Bytes)
      BY <1>11, <1>14 DEF IsPart
    <2>2. Got(dGot', dGot.body, line, dGot.size, dGot.oversized, dGot.malformed, FALSE, dGot.done)
      BY <2>1, <1>14, GotPart
    <2>3. r = p
      BY <1>6, <1>7, <1>14
    <2> QED
      BY <2>2, <2>3, <1>1, <1>8, <1>9, <1>11, <1>14 DEF Reading, Got
  <1>15. CASE ~dGot.oversized /\ full /\ dGot' = D!TakeLine(dGot, line)
    <2>1. r = q /\ a + m = at[q]
      BY <1>6, <1>7, <1>8, <1>15
    <2>2. IsPart(line, w, at[p], at[q])
      BY <2>1, <1>11, <1>15
    <2>3. TakesLine(t, p, q, line)
      BY <2>2, <1>2, <1>3, <1>4, WholeLine
    <2>4. PICK s \in Seq(Bytes) : /\ s = TextOf(line) /\ Len(s) + 2 = q - p /\ D!WellFramed(line)
                                  /\ dGot.body \o s \o D!CRLF = Prefix(t, q)
      BY <2>3, <1>11, <1>15 DEF TakesLine
    <2>5. CASE /\ Len(s) + 2 > dLimit - dGot.size
               /\ Got(dGot', dGot.body, <<>>, dGot.size, TRUE, dGot.malformed, TRUE, dGot.done)
      <3>1. q - p > dLimit - p
        BY <2>4, <2>5, <1>11, <1>15
      <3>2. Len(t) > dLimit
        BY <3>1, <1>2, <1>5
      <3> QED
        BY <3>2, <2>5, <1>1, <1>8, <1>9, <1>15 DEF Reading, Got
    <2>6. CASE /\ ~(Len(s) + 2 > dLimit - dGot.size)
               /\ Got(dGot', dGot.body \o s \o D!CRLF, <<>>, dGot.size + Len(s) + 2, dGot.oversized,
                      dGot.malformed, TRUE, dGot.done)
      <3>1. ~(q - p > dLimit - p) /\ dGot.size + Len(s) + 2 = q
        <4>1. Len(s) \in Nat
          OBVIOUS
        <4> QED
          BY <4>1, <2>4, <2>6, <1>2, <1>5, <1>11, <1>15
      <3>2. q <= dLimit
        BY <3>1, <1>2, <1>5
      <3>3. SubSeq(w, at[q] + 1, at[q]) = <<>>
        <4>1. at[q] \in Nat
          BY <1>2, <1>5
        <4> QED
          BY <4>1, <1>3
      <3>4. Got(dGot', Prefix(t, q), <<>>, q, dGot.oversized, dGot.malformed, TRUE, dGot.done)
        BY <2>4, <2>6, <3>1
      <3> QED
        BY <2>1, <3>2, <3>3, <3>4, <1>1, <1>8, <1>9, <1>15 DEF Reading, Got
    <2> QED
      BY <2>4, <2>5, <2>6, <1>15, GotLine
  <1> QED
    BY <1>1, <1>6, <1>10, <1>12, <1>13, <1>14, <1>15 DEF Outcome, line


-----------------------------------------------------------------------------

(* What was sent, how it lies on the wire, and where readData is on it. *)
SentInv ==
  ~dWild => \E w, at : /\ OnWire(w, D!Normalized(dSent), at)
                       /\ \/ Arrived(D!Normalized(dSent), dWire, dGot, dLimit)
                          \/ \E p, a : Reading(w, D!Normalized(dSent), at, p, a, dWire, dGot, dLimit)

DataInv == BodyInv /\ SentInv

LEMMA StartParts ==
  Got(D!Start, <<>>, <<>>, 0, FALSE, FALSE, TRUE, FALSE)
  <1>0. <<>> \in Seq(Bytes)
    OBVIOUS
  <1>1. PICK e \in Seq(Bytes) : e = <<>>
    BY <1>0, Zenon
  <1>2. PICK g : g = [body |-> e, line |-> e, size |-> 0, oversized |-> FALSE, malformed |-> FALSE,
                      atLineStart |-> TRUE, done |-> FALSE]
    OBVIOUS
  <1>3. Got(g, e, e, 0, FALSE, FALSE, TRUE, FALSE)
    BY <1>2 DEF Got, GotSet
  <1>4. g = D!Start
    BY <1>1, <1>2, Zenon DEF D!Start
  <1> QED
    BY <1>1, <1>3, <1>4

LEMMA StartHeld ==
  ASSUME NEW l \in Nat PROVE Held(D!Start, l)
  <1>1. /\ D!Start \in GotSet /\ D!Start.line = <<>> /\ D!Start.body = <<>> /\ D!Start.size = 0
    BY StartParts DEF Got
  <1>2. Clean(<<>>)
    BY EmptyFramed DEF Clean
  <1>3. \A i \in 1..Len(D!Start.line) : D!Start.line[i] # "n"
    BY <1>1
  <1>4. Len(D!Start.body) = D!Start.size
    BY <1>1
  <1> QED
    BY <1>1, <1>2, <1>3, <1>4 DEF Held

LEMMA StartReads ==
  ASSUME NEW w, NEW t \in Seq(Bytes), NEW at, OnWire(w, t, at), NEW l \in Nat
  PROVE  Reading(w, t, at, 0, 0, w, D!Start, l)
  <1>1. 0 \in 0..Len(t) /\ Len(t) \in Nat
    OBVIOUS
  <1>2. at[0] = 0 /\ w \in Seq(Bytes) /\ Len(w) \in Nat
    BY DEF OnWire, Placed
  <1>3. Standing(w, t, at, 0, 0)
    BY <1>1, <1>2 DEF Standing
  <1>4. SubSeq(w, 0 + 1, Len(w)) = w
    BY <1>2
  <1>5. SubSeq(w, at[0] + 1, 0) = <<>> /\ Prefix(t, 0) = <<>>
    BY <1>2 DEF Prefix
  <1> QED
    BY <1>2, <1>3, <1>4, <1>5, StartParts DEF Reading, Got

LEMMA DataStarts ==
  ASSUME D!SmtpDataAssumption, D!Init
  PROVE  DataInv
  <1>1. dSent \in Seq(Bytes)
    BY DEF D!Init, D!BoundedSeq, D!SeqOf
  <1>2. dLimit \in Nat /\ dWild \in BOOLEAN /\ dGot = D!Start
    BY DEF D!Init, D!SmtpDataAssumption
  <1>3. Held(dGot, dLimit)
    BY <1>2, StartHeld
  <1>4. CASE dWild
    <2>1. dWire = (dSent \o D!CRLF \o D!Terminator) \o D!Pipelined
      BY <1>4 DEF D!Init
    <2>2. D!CRLF \in Seq(Bytes) /\ D!Terminator \in Seq(Bytes) /\ D!Pipelined \in Seq(Bytes)
      BY CRLFParts, TailParts
    <2>3. dWire \in Seq(Bytes)
      BY <2>1, <2>2, <1>1
    <2> QED
      BY <2>3, <1>1, <1>2, <1>3, <1>4 DEF DataInv, BodyInv, SentInv
  <1>5. CASE ~dWild
    <2>1. dWire = D!serializeForDATA(dSent) \o D!Pipelined
      BY <1>5 DEF D!Init
    <2>2. PICK t : t = D!Normalized(dSent) /\ t \in Seq(Bytes)
      <3>1. Clean(D!Normalized(dSent))
        BY <1>1, NormalizedIsClean
      <3> QED
        BY <3>1 DEF Clean, Framed
    <2>3. PICK at : OnWire(dWire, t, at)
      BY <2>1, <2>2, SentOnWire
    <2>4. Reading(dWire, t, at, 0, 0, dWire, dGot, dLimit)
      BY <2>2, <2>3, <1>2, StartReads
    <2>5. dWire \in Seq(Bytes)
      BY <2>3 DEF OnWire
    <2>6. BodyInv
      BY <2>5, <1>1, <1>2, <1>3 DEF BodyInv
    <2>7. SentInv
      BY <2>2, <2>3, <2>4 DEF SentInv
    <2> QED
      BY <2>6, <2>7 DEF DataInv
  <1> QED
    BY <1>2, <1>4, <1>5

LEMMA DataStep ==
  ASSUME D!SmtpDataAssumption, DataInv, D!readData
  PROVE  DataInv'
  <1>1. BodyInv /\ BodyInv'
    BY BodyStep DEF DataInv
  <1>2. PICK m, f : /\ Slice(m, f, dWire) /\ Outcome(f, dWire[m] = "n", dGot.line \o f)
                    /\ dWire' = SubSeq(dWire, m + 1, Len(dWire)) /\ ~dGot.done
                    /\ UNCHANGED <<dSent, dWild, dLimit>>
    BY <1>1, ReadCases DEF BodyInv
  <1>3. ASSUME ~dWild
        PROVE  \E w, at : /\ OnWire(w, D!Normalized(dSent), at)
                          /\ \/ Arrived(D!Normalized(dSent), dWire', dGot', dLimit)
                             \/ \E p, a : Reading(w, D!Normalized(dSent), at, p, a, dWire', dGot', dLimit)
    <2>1. PICK t : t = D!Normalized(dSent) /\ t \in Seq(Bytes) /\ Clean(t)
      <3>1. Clean(D!Normalized(dSent))
        BY <1>1, NormalizedIsClean DEF BodyInv
      <3> QED
        BY <3>1 DEF Clean, Framed
    <2>2. PICK w, at : /\ OnWire(w, t, at)
                       /\ Arrived(t, dWire, dGot, dLimit) \/ \E p, a : Reading(w, t, at, p, a, dWire, dGot, dLimit)
      BY <2>1, <1>3 DEF DataInv, SentInv
    <2>3. PICK p, a : Reading(w, t, at, p, a, dWire, dGot, dLimit)
      BY <2>2, <1>2 DEF Arrived
    <2>4. dGot \in GotSet /\ dLimit \in Nat
      BY <1>1 DEF BodyInv, Held
    <2>5. CASE p = Len(t)
      BY <2>1, <2>2, <2>3, <2>4, <2>5, <1>2, EndArrives
    <2>6. CASE p # Len(t)
      BY <2>1, <2>2, <2>3, <2>4, <2>6, <1>2, LineStep
    <2> QED
      BY <2>5, <2>6
  <1>4. SentInv'
    BY <1>2, <1>3 DEF SentInv
  <1> QED
    BY <1>1, <1>4 DEF DataInv

LEMMA DataHolds ==
  ASSUME D!SmtpDataAssumption, DataInv
  PROVE  D!DataIsFaithful
  <1>1. ASSUME dGot.done, ~dGot.oversized, ~dGot.malformed
        PROVE  /\ Len(dGot.body) = dGot.size /\ dGot.size <= dLimit
               /\ D!Normalized(dGot.body) = dGot.body
    <2>1. Clean(dGot.body) /\ Len(dGot.body) = dGot.size /\ dGot.size <= dLimit
      BY DEF DataInv, BodyInv, Held
    <2> QED
      BY <2>1, CleanIsNormal
  <1>2. ASSUME dGot.done, ~dWild
        PROVE  /\ dWire = D!Pipelined /\ ~dGot.malformed
               /\ dGot.oversized <=> Len(D!Normalized(dSent)) > dLimit
               /\ ~dGot.oversized => dGot.body = D!Normalized(dSent)
    <2>1. PICK t : t = D!Normalized(dSent) /\ Len(t) \in Nat
      <3>1. Clean(D!Normalized(dSent))
        BY NormalizedIsClean DEF DataInv, BodyInv
      <3> QED
        BY <3>1 DEF Clean, Framed
    <2>2. Arrived(t, dWire, dGot, dLimit)
      BY <2>1, <1>2 DEF DataInv, SentInv, Reading
    <2>3. dGot.oversized \in BOOLEAN /\ dLimit \in Nat
      BY DEF DataInv, BodyInv, Held, GotSet
    <2> QED
      BY <2>1, <2>2, <2>3 DEF Arrived
  <1> QED
    BY <1>1, <1>2 DEF D!DataIsFaithful, D!RoundTrip, D!AcceptedBodyIsClean

LEMMA DataAlone ==
  D!SmtpDataAssumption /\ D!Spec => []D!DataIsFaithful
  <1> SUFFICES ASSUME D!SmtpDataAssumption PROVE D!Spec => []D!DataIsFaithful
    OBVIOUS
  <1>1. D!Init => DataInv
    BY DataStarts
  <1>2. DataInv /\ [D!Next]_D!vars => DataInv'
    <2> SUFFICES ASSUME DataInv, [D!Next]_D!vars PROVE DataInv'
      OBVIOUS
    <2>1. CASE D!readData
      BY <2>1, DataStep
    <2>2. CASE UNCHANGED D!vars
      BY <2>2 DEF D!vars, DataInv, BodyInv, SentInv
    <2> QED
      BY <2>1, <2>2 DEF D!Next
  <1>3. DataInv => D!DataIsFaithful
    BY DataHolds
  <1> QED
    BY <1>1, <1>2, <1>3, PTL DEF D!Spec

-----------------------------------------------------------------------------
(* Signatures in transit. *)



(* e lists the members of X, each once and from the smallest. *)
Lists(e, X) ==
  /\ e \in Seq(Nat) /\ (\A i \in 1..Len(e) : e[i] \in X)
  /\ (\A x \in X : \E i \in 1..Len(e) : e[i] = x)
  /\ (\A i, j \in 1..Len(e) : i < j => e[i] < e[j])

LEMMA ListsNone ==
  ASSUME NEW X, X = {} PROVE Lists(<<>>, X)
  BY DEF Lists

Appended(u, s, c, S) ==
  u \in Seq(S) /\ Len(u) = Len(s) + 1 /\ u[Len(s) + 1] = c /\ \A i \in 1..Len(s) : u[i] = s[i]

LEMMA AppendParts ==
  ASSUME NEW S, NEW s \in Seq(S), NEW c \in S
  PROVE  Appended(Append(s, c), s, c, S)
  BY DEF Appended

LEMMA ListsOneMore ==
  ASSUME NEW e, NEW X \in SUBSET Nat, Lists(e, X), NEW y \in Nat, \A x \in X : x < y
  PROVE  Lists(Append(e, y), X \cup {y})
  <1>1. e \in Seq(Nat)
    BY DEF Lists
  <1>2. PICK n \in Nat : n = Len(e)
    BY <1>1
  <1>3. PICK u : u = Append(e, y) /\ u \in Seq(Nat) /\ Len(u) = n + 1 /\ u[n + 1] = y /\ \A i \in 1..n : u[i] = e[i]
    <2>1. Appended(Append(e, y), e, y, Nat)
      BY <1>1, AppendParts
    <2> QED
      BY <2>1, <1>2 DEF Appended
  <1>4. \A i \in 1..(n + 1) : i \in 1..n \/ i = n + 1
    OBVIOUS
  <1>5. \A i \in 1..n : e[i] \in X /\ e[i] < y /\ e[i] \in Nat /\ i \in 1..(n + 1)
    BY <1>2 DEF Lists
  <1>6. \A i \in 1..(n + 1) : u[i] \in X \cup {y}
    BY <1>3, <1>4, <1>5
  <1>7. ASSUME NEW x \in X \cup {y} PROVE \E i \in 1..(n + 1) : u[i] = x
    <2>1. CASE x = y
      <3>1. n + 1 \in 1..(n + 1)
        OBVIOUS
      <3> QED
        BY <3>1, <2>1, <1>3
    <2>2. CASE x \in X
      <3>1. PICK i \in 1..n : e[i] = x
        BY <2>2, <1>2 DEF Lists
      <3> QED
        BY <3>1, <1>3, <1>5
    <2> QED
      BY <2>1, <2>2
  <1>8. ASSUME NEW i \in 1..(n + 1), NEW j \in 1..(n + 1), i < j PROVE u[i] < u[j]
    <2>1. i \in 1..n
      BY <1>8
    <2>2. CASE j \in 1..n
      BY <2>1, <2>2, <1>2, <1>3, <1>8 DEF Lists
    <2>3. CASE j = n + 1
      BY <2>1, <2>3, <1>3, <1>5
    <2> QED
      BY <2>2, <2>3, <1>4
  <1> QED
    BY <1>3, <1>6, <1>7, <1>8 DEF Lists

(* InOrder lists what it is given. *)
LEMMA InOrderLists ==
  ASSUME NEW n \in Nat, NEW X \in SUBSET (1..n)
  PROVE  Lists(K!InOrder(X, n), X)
  <1> DEFINE S == Seq(Nat)
             first == <<>>
             Read(i, s) == IF i \in X THEN Append(s, i) ELSE s
             step == [x \in (1..n) \X S |-> Read(x[1], x[2])]
             Good(f) == f = [i \in 0..n |-> IF i = 0 THEN <<>> ELSE IF i \in X THEN Append(f[i - 1], i) ELSE f[i - 1]]
  <1>3. step \in [(1..n) \X S -> S]
    <2>1. ASSUME NEW i \in 1..n, NEW s \in S PROVE Read(i, s) \in S
      <3>1. Append(s, i) \in Seq(Nat)
        OBVIOUS
      <3> QED
        BY <3>1
    <2> HIDE DEF Read
    <2> QED
      BY <2>1
  <1>4. first \in S
    OBVIOUS
  <1>5. ASSUME NEW i \in 1..n, NEW s \in S PROVE step[<<i, s>>] = Read(i, s)
    <2> HIDE DEF Read
    <2> QED
      OBVIOUS
  <1>6. \E f : Good(f)
    <2>1. PICK k : Follows(k, n, first, step)
      <3> HIDE DEF step, S, first
      <3> QED
        BY <1>3, <1>4, RecursionExists
    <2>2. k \in [0..n -> S]
      <3> HIDE DEF step, S, first
      <3> QED
        BY <1>3, <1>4, <2>1, RecursionTyped
    <2>3. ASSUME NEW i \in 1..n PROVE k[i] = Read(i, k[i - 1])
      <3>1. i - 1 \in 0..n /\ k[i - 1] \in S
        BY <2>2
      <3> HIDE DEF Read, step
      <3> QED
        BY <3>1, <1>5, <2>1 DEF Follows
    <2>4. k = [i \in 0..n |-> k[i]] /\ k[0] = <<>>
      BY <2>1 DEF Follows
    <2>5. \A i \in 0..n : i # 0 => i \in 1..n
      OBVIOUS
    <2>6. Good(k)
      BY <2>3, <2>4, <2>5
    <2> QED
      BY <2>6
  <1> DEFINE upTo == CHOOSE f : Good(f)
  <1>7. Good(upTo)
    <2> HIDE DEF Good
    <2> QED
      BY <1>6
  <1>8. K!InOrder(X, n) = upTo[n]
    BY DEF K!InOrder
  <1> HIDE DEF upTo
  <1>9. PICK f : f = upTo
    OBVIOUS
  <1>10. Good(f)
    <2> HIDE DEF Good
    <2> QED
      BY <1>7, <1>9
  <1>11. f[0] = <<>>
    BY <1>10
  <1>12. ASSUME NEW i \in 1..n PROVE f[i] = Read(i, f[i - 1])
    <2>1. i \in 0..n /\ i # 0
      OBVIOUS
    <2> QED
      BY <1>10, <2>1
  <1> HIDE DEF Good
  <1> DEFINE Done == {i \in Nat : i <= n => Lists(f[i], X \cap (1..i))}
  <1>13. 0 \in Done
    <2>1. X \cap (1..0) = {}
      OBVIOUS
    <2> QED
      BY <2>1, <1>11, ListsNone
  <1>14. ASSUME NEW i \in Done PROVE i + 1 \in Done
    <2> SUFFICES ASSUME i + 1 <= n PROVE Lists(f[i + 1], X \cap (1..(i + 1)))
      BY <1>14
    <2>1. i \in Nat /\ i + 1 \in 1..n /\ (i + 1) - 1 = i /\ Lists(f[i], X \cap (1..i))
      BY <1>14
    <2>2. f[i + 1] = Read(i + 1, f[i])
      BY <2>1, <1>12
    <2>3. CASE i + 1 \in X
      <3>1. f[i + 1] = Append(f[i], i + 1)
        BY <2>2, <2>3
      <3>2. X \cap (1..(i + 1)) = (X \cap (1..i)) \cup {i + 1}
        BY <2>1, <2>3
      <3>3. \A x \in X \cap (1..i) : x < i + 1
        BY <2>1
      <3>4. Lists(Append(f[i], i + 1), (X \cap (1..i)) \cup {i + 1})
        BY <2>1, <3>3, ListsOneMore
      <3> QED
        BY <3>1, <3>2, <3>4
    <2>4. CASE i + 1 \notin X
      <3>1. X \cap (1..(i + 1)) = X \cap (1..i)
        BY <2>1, <2>4
      <3> QED
        BY <3>1, <2>1, <2>2, <2>4
    <2> QED
      BY <2>3, <2>4
  <1>15. Done = Nat
    <2> HIDE DEF Done
    <2>1. Done \in SUBSET Nat
      BY DEF Done
    <2> QED
      BY <1>13, <1>14, <2>1, NatSetInduction
  <1>16. X \cap (1..n) = X
    OBVIOUS
  <1> QED
    BY <1>8, <1>9, <1>15, <1>16

(* There is only one such list. *)
LEMMA ListsOnce ==
  ASSUME NEW X, NEW e, NEW d, Lists(e, X), Lists(d, X)
  PROVE  e = d
  <1>1. ASSUME NEW a, NEW b, Lists(a, X), Lists(b, X), NEW k \in Nat, k + 1 <= Len(a), \A i \in 1..k : a[i] = b[i], k <= Len(b)
        PROVE  k + 1 <= Len(b) /\ b[k + 1] <= a[k + 1] /\ a[k + 1] \in Nat
    <2>1. PICK n \in Nat, m \in Nat : n = Len(a) /\ m = Len(b) /\ k + 1 \in 1..n /\ k <= m
      BY <1>1 DEF Lists
    <2>2. PICK j \in 1..m : b[j] = a[k + 1]
      BY <1>1, <2>1 DEF Lists
    <2>3. a[k + 1] \in Nat /\ (\A i \in 1..m : b[i] \in Nat) /\ (\A i \in 1..n : a[i] \in Nat)
      <3>1. a \in Seq(Nat) /\ b \in Seq(Nat)
        BY <1>1 DEF Lists
      <3>2. \A i \in 1..Len(a) : a[i] \in Nat
        BY <3>1
      <3>3. \A i \in 1..Len(b) : b[i] \in Nat
        BY <3>1
      <3> QED
        BY <3>2, <3>3, <2>1
    <2>4. ~(j <= k)
      <3> SUFFICES ASSUME j <= k PROVE FALSE
        OBVIOUS
      <3>1. j \in 1..k /\ j \in 1..n /\ j < k + 1
        BY <2>1
      <3>2. a[j] = b[j] /\ a[j] < a[k + 1]
        BY <3>1, <1>1, <2>1 DEF Lists
      <3> QED
        BY <3>1, <3>2, <2>2, <2>3
    <2>5. k + 1 <= j /\ k + 1 \in 1..m
      BY <2>1, <2>4
    <2>6. b[k + 1] <= b[j]
      <3>1. CASE k + 1 = j
        BY <3>1, <2>3
      <3>2. CASE k + 1 < j
        <4>1. b[k + 1] < b[j]
          BY <3>2, <2>1, <2>5, <1>1 DEF Lists
        <4> QED
          BY <4>1, <2>3, <2>5
      <3> QED
        BY <3>1, <3>2, <2>5
    <2> QED
      BY <2>1, <2>2, <2>3, <2>5, <2>6
  <1>2. PICK n \in Nat, m \in Nat : n = Len(e) /\ m = Len(d) /\ e \in Seq(Nat) /\ d \in Seq(Nat)
    BY DEF Lists
  <1> DEFINE T == {k \in Nat : k <= n => k <= m /\ \A i \in 1..k : e[i] = d[i]}
  <1>3. 0 \in T
    BY <1>2
  <1>4. ASSUME NEW k \in T PROVE k + 1 \in T
    <2> SUFFICES ASSUME k + 1 <= n PROVE k + 1 <= m /\ \A i \in 1..(k + 1) : e[i] = d[i]
      BY <1>4
    <2>1. k \in Nat /\ k <= m /\ (\A i \in 1..k : e[i] = d[i]) /\ k <= n
      BY <1>2, <1>4
    <2>2. k + 1 <= m /\ d[k + 1] <= e[k + 1] /\ e[k + 1] \in Nat
      BY <2>1, <1>1, <1>2
    <2>3. e[k + 1] <= d[k + 1] /\ d[k + 1] \in Nat
      BY <2>1, <2>2, <1>1, <1>2
    <2>4. e[k + 1] = d[k + 1]
      BY <2>2, <2>3
    <2>5. \A i \in 1..(k + 1) : i \in 1..k \/ i = k + 1
      BY <2>1
    <2> QED
      BY <2>1, <2>2, <2>4, <2>5
  <1>5. T = Nat
    <2> HIDE DEF T
    <2>1. T \in SUBSET Nat
      BY DEF T
    <2> QED
      BY <1>3, <1>4, <2>1, NatSetInduction
  <1>6. n <= m /\ \A i \in 1..n : e[i] = d[i]
    BY <1>2, <1>5
  <1>7. ~(n < m)
    <2> SUFFICES ASSUME n < m PROVE FALSE
      OBVIOUS
    <2>1. n + 1 <= Len(d) /\ (\A i \in 1..n : d[i] = e[i]) /\ n <= Len(e)
      BY <1>2, <1>6
    <2>2. n + 1 <= Len(e)
      BY <2>1, <1>1, <1>2
    <2> QED
      BY <2>2, <1>2
  <1> QED
    BY <1>2, <1>6, <1>7


(* old step-by-step copy of a list: g takes X to Y and keeps the order. *)
Moves(g, X, Y) ==
  /\ (\A x \in X : g[x] \in Y /\ g[x] \in Nat) /\ (\A y \in Y : \E x \in X : g[x] = y)
  /\ (\A x, z \in X : x < z => g[x] < g[z])

LEMMA ListMoves ==
  ASSUME NEW e, NEW X, NEW Y, NEW g, Lists(e, X), Moves(g, X, Y)
  PROVE  Lists([i \in 1..Len(e) |-> g[e[i]]], Y)
  <1>1. PICK n \in Nat : n = Len(e) /\ e \in Seq(Nat)
    BY DEF Lists
  <1>2. \A i \in 1..n : e[i] \in X
    BY <1>1 DEF Lists
  <1>3. PICK u : u = [i \in 1..n |-> g[e[i]]]
    OBVIOUS
  <1>4. \A i \in 1..n : u[i] = g[e[i]] /\ u[i] \in Y /\ u[i] \in Nat
    BY <1>2, <1>3 DEF Moves
  <1>5. u \in Seq(Nat) /\ Len(u) = n
    BY <1>3, <1>4
  <1>6. ASSUME NEW y \in Y PROVE \E i \in 1..n : u[i] = y
    <2>1. PICK x \in X : g[x] = y
      BY DEF Moves
    <2>2. PICK i \in 1..n : e[i] = x
      BY <1>1 DEF Lists
    <2> QED
      BY <2>1, <2>2, <1>4
  <1>7. ASSUME NEW i \in 1..n, NEW j \in 1..n, i < j PROVE u[i] < u[j]
    <2>1. e[i] < e[j] /\ e[i] \in X /\ e[j] \in X
      BY <1>1, <1>2, <1>7 DEF Lists
    <2> QED
      BY <2>1, <1>4 DEF Moves
  <1> QED
    BY <1>1, <1>3, <1>4, <1>5, <1>6, <1>7 DEF Lists

(* What is kept of a text: the bytes at the listed positions. *)
Keeps(u, s, e) ==
  u = [j \in 1..Len(e) |-> s[e[j]]]

LEMMA KeptParts ==
  ASSUME NEW S, NEW s \in Seq(S), NEW X \in SUBSET (1..Len(s))
  PROVE  /\ \E e : Lists(e, X) /\ Keeps(K!Kept(s, X), s, e)
         /\ K!Kept(s, X) \in Seq(S)
  <1>1. PICK n \in Nat : n = Len(s)
    OBVIOUS
  <1>2. PICK e : e = K!InOrder(X, n) /\ Lists(e, X)
    BY <1>1, InOrderLists
  <1>3. PICK m \in Nat : m = Len(e) /\ e \in Seq(Nat) /\ DOMAIN e = 1..m
    BY <1>2 DEF Lists
  <1>4. K!Kept(s, X) = [j \in 1..m |-> s[e[j]]]
    BY <1>1, <1>2, <1>3 DEF K!Kept
  <1>5. \A j \in 1..m : s[e[j]] \in S
    <2>1. \A j \in 1..m : e[j] \in 1..Len(s)
      BY <1>2, <1>3 DEF Lists
    <2> QED
      BY <2>1
  <1>6. [j \in 1..m |-> s[e[j]]] \in Seq(S)
    BY <1>5
  <1> QED
    BY <1>2, <1>3, <1>4, <1>6 DEF Keeps

(* Whatever is moved without change is kept without change. *)
LEMMA KeptMoves ==
  ASSUME NEW S, NEW s \in Seq(S), NEW t \in Seq(S), NEW X \in SUBSET (1..Len(s)), NEW Y \in SUBSET (1..Len(t)),
         NEW g, Moves(g, X, Y), \A x \in X : t[g[x]] = s[x]
  PROVE  K!Kept(s, X) = K!Kept(t, Y)
  <1>1. PICK e : Lists(e, X) /\ Keeps(K!Kept(s, X), s, e)
    BY KeptParts
  <1>2. PICK d : Lists(d, Y) /\ Keeps(K!Kept(t, Y), t, d)
    BY KeptParts
  <1>3. PICK n \in Nat : n = Len(e) /\ \A i \in 1..n : e[i] \in X
    BY <1>1 DEF Lists
  <1>4. d = [i \in 1..n |-> g[e[i]]]
    <2>1. Lists([i \in 1..n |-> g[e[i]]], Y)
      BY <1>1, <1>3, ListMoves
    <2> QED
      BY <2>1, <1>2, ListsOnce
  <1>5. Len(d) = n /\ \A i \in 1..n : d[i] = g[e[i]]
    <2>1. d \in Seq(Nat)
      BY <1>2 DEF Lists
    <2>2. DOMAIN d = 1..n
      BY <1>4
    <2> QED
      BY <2>1, <2>2, <1>4
  <1>6. \A i \in 1..n : t[d[i]] = s[e[i]]
    BY <1>3, <1>5
  <1> QED
    BY <1>1, <1>2, <1>3, <1>5, <1>6 DEF Keeps


(* old part of a text, and a text behind another. *)
Part(u, s, x, y, S) == u \in Seq(S) /\ Len(u) = y - x /\ \A i \in 1..(y - x) : u[i] = s[x + i]

LEMMA PartIs ==
  ASSUME NEW S, NEW s \in Seq(S), NEW x \in Nat, NEW y \in x..Len(s)
  PROVE  Part(SubSeq(s, x + 1, y), s, x, y, S)
  <1>1. \A i \in 1..(y - x) : (x + 1) + i - 1 = x + i
    OBVIOUS
  <1> QED
    BY <1>1 DEF Part

After(u, s, t, S) ==
  /\ u \in Seq(S) /\ Len(u) = Len(s) + Len(t) /\ (\A i \in 1..Len(s) : u[i] = s[i])
  /\ \A i \in 1..Len(t) : u[Len(s) + i] = t[i]

LEMMA JoinIsAfter ==
  ASSUME NEW S, NEW s \in Seq(S), NEW t \in Seq(S)
  PROVE  After(s \o t, s, t, S)
  BY DEF After

(* old byte more behind position r. *)
Inserted(u, s, r, c) ==
  /\ u \in Seq(Chars) /\ Len(u) = Len(s) + 1 /\ u[r + 1] = c
  /\ (\A i \in 1..r : u[i] = s[i]) /\ (\A i \in (r + 1)..Len(s) : u[i + 1] = s[i])

LEMMA InsertParts ==
  ASSUME NEW s \in Seq(Chars), NEW r \in 0..Len(s), NEW c \in Chars
  PROVE  Inserted(K!Insert(s, r, c), s, r, c)
  <1>1. PICK n \in Nat : n = Len(s) /\ r \in Nat /\ r <= n
    OBVIOUS
  <1>2. PICK x : x = SubSeq(s, 1, r) /\ x \in Seq(Chars) /\ Len(x) = r /\ \A i \in 1..r : x[i] = s[i]
    <2>1. r \in 0..Len(s) /\ 0 \in Nat /\ r - 0 = r /\ 0 + 1 = 1 /\ \A i \in 1..r : 0 + i = i
      BY <1>1
    <2>2. Part(SubSeq(s, 0 + 1, r), s, 0, r, Chars)
      BY <2>1, PartIs
    <2> QED
      BY <2>1, <2>2 DEF Part
  <1>3. PICK z : z = SubSeq(s, r + 1, n) /\ z \in Seq(Chars) /\ Len(z) = n - r /\ \A i \in 1..(n - r) : z[i] = s[r + i]
    <2>1. n \in r..Len(s)
      BY <1>1
    <2>2. Part(SubSeq(s, r + 1, n), s, r, n, Chars)
      BY <2>1, <1>1, PartIs
    <2> QED
      BY <2>2 DEF Part
  <1>4. PICK d : d = <<c>> /\ d \in Seq(Chars) /\ Len(d) = 1 /\ d[1] = c
    <2>0. <<c>> \in Seq(Chars) /\ Len(<<c>>) = 1 /\ <<c>>[1] = c
      OBVIOUS
    <2> QED
      BY <2>0, Zenon
  <1>10. PICK y : y = x \o d /\ After(y, x, d, Chars)
    BY <1>2, <1>4, JoinIsAfter
  <1>11. y \in Seq(Chars) /\ Len(y) = r + 1 /\ y[r + 1] = c /\ \A i \in 1..r : y[i] = x[i]
    <2>1. 1 \in 1..Len(d)
      BY <1>4
    <2> QED
      BY <2>1, <1>2, <1>4, <1>10 DEF After
  <1>12. PICK u : u = y \o z /\ After(u, y, z, Chars)
    BY <1>3, <1>11, JoinIsAfter
  <1>5. /\ u \in Seq(Chars) /\ Len(u) = (r + 1) + (n - r)
        /\ (\A i \in 1..(r + 1) : u[i] = y[i]) /\ \A i \in 1..(n - r) : u[(r + 1) + i] = z[i]
    BY <1>3, <1>11, <1>12 DEF After
  <1>6. u = K!Insert(s, r, c)
    BY <1>1, <1>2, <1>3, <1>4, <1>10, <1>12, Zenon DEF K!Insert
  <1>7. Len(u) = n + 1 /\ r + 1 \in 1..(r + 1) /\ u[r + 1] = c
    BY <1>1, <1>11, <1>5
  <1>8. \A i \in 1..r : u[i] = s[i]
    <2> SUFFICES ASSUME NEW i \in 1..r PROVE u[i] = s[i]
      OBVIOUS
    <2>1. i \in 1..(r + 1)
      BY <1>1
    <2> QED
      BY <2>1, <1>2, <1>11, <1>5
  <1>9. \A i \in (r + 1)..n : u[i + 1] = s[i]
    <2> SUFFICES ASSUME NEW i \in (r + 1)..n PROVE u[i + 1] = s[i]
      OBVIOUS
    <2>1. PICK j : j = i - r /\ j \in 1..(n - r) /\ (r + 1) + j = i + 1 /\ r + j = i
      <3>1. i - r \in 1..(n - r) /\ (r + 1) + (i - r) = i + 1 /\ r + (i - r) = i
        BY <1>1
      <3> QED
        BY <3>1
    <2>2. u[(r + 1) + j] = z[j] /\ z[j] = s[r + j]
      BY <2>1, <1>3, <1>5
    <2> QED
      BY <2>1, <2>2
  <1> QED
    BY <1>1, <1>5, <1>6, <1>7, <1>8, <1>9 DEF Inserted

(* Where the positions go. *)
Shift(r) == [x \in Nat |-> IF x <= r THEN x ELSE x + 1]

LEMMA ShiftMoves ==
  ASSUME NEW n \in Nat, NEW r \in 0..n, NEW X \in SUBSET (1..n), NEW Y \in SUBSET (1..(n + 1)), r + 1 \notin Y,
         \A x \in 1..n : x \in X <=> (IF x <= r THEN x ELSE x + 1) \in Y
  PROVE  Moves(Shift(r), X, Y)
  <1>1. \A x \in 1..n : Shift(r)[x] = (IF x <= r THEN x ELSE x + 1) /\ Shift(r)[x] \in Nat
    BY DEF Shift
  <1>2. \A x \in X : Shift(r)[x] \in Y /\ Shift(r)[x] \in Nat
    BY <1>1
  <1>3. ASSUME NEW y \in Y PROVE \E x \in X : Shift(r)[x] = y
    <2>1. CASE y <= r
      <3>1. y \in 1..n
        BY <2>1
      <3> QED
        BY <3>1, <2>1, <1>1
    <2>2. CASE ~(y <= r)
      <3>1. y - 1 \in 1..n /\ ~(y - 1 <= r) /\ (y - 1) + 1 = y
        BY <2>2
      <3>2. y - 1 \in X
        BY <3>1
      <3> QED
        BY <3>1, <3>2, <1>1
    <2> QED
      BY <2>1, <2>2
  <1>4. ASSUME NEW x \in X, NEW z \in X, x < z PROVE Shift(r)[x] < Shift(r)[z]
    BY <1>1, <1>4
  <1> QED
    BY <1>2, <1>3, <1>4 DEF Moves


-----------------------------------------------------------------------------

(* old text with one more white space beside white space. *)
Spaced(s, t) ==
  /\ s \in Seq(Chars) /\ t \in Seq(Chars)
  /\ \/ t = s
     \/ \E r \in 1..Len(s), c \in K!WSP : Inserted(t, s, r, c) /\ s[r] \in K!WSP

One(c) == IF c \in K!WSP THEN " " ELSE c
Plain(s) == [i \in DOMAIN s |-> One(s[i])]
IsPlain(u, s) == u \in Seq(Chars) /\ Len(u) = Len(s) /\ \A i \in 1..Len(s) : u[i] = One(s[i])

LEMMA PlainParts ==
  ASSUME K!DkimSignAssumption, NEW s \in Seq(Chars)
  PROVE  IsPlain(Plain(s), s)
  <1>1. " " \in Chars
    BY DEF K!DkimSignAssumption
  <1>2. PICK n \in Nat : n = Len(s) /\ DOMAIN s = 1..n
    OBVIOUS
  <1>3. Plain(s) = [i \in 1..n |-> One(s[i])]
    BY <1>2 DEF Plain
  <1>4. \A i \in 1..n : One(s[i]) \in Chars
    <2> SUFFICES ASSUME NEW i \in 1..n PROVE One(s[i]) \in Chars
      OBVIOUS
    <2>1. s[i] \in Chars
      BY <1>2
    <2> QED
      BY <2>1, <1>1 DEF One
  <1>5. Plain(s) \in [1..n -> Chars]
    BY <1>3, <1>4
  <1>6. Plain(s) \in Seq(Chars) /\ Len(Plain(s)) = n
    BY <1>5
  <1> QED
    BY <1>2, <1>3, <1>6 DEF IsPlain

LEMMA BeginsParts ==
  ASSUME NEW s \in Seq(Chars)
  PROVE  /\ K!Begins(s) \in SUBSET (1..Len(s))
         /\ \A i \in 1..Len(s) : i \in K!Begins(s) <=> (s[i] \notin K!WSP \/ i = 1 \/ s[i - 1] \notin K!WSP)
  BY DEF K!Begins

(* collapseWSP does not see it. *)
LEMMA CollapseSpaced ==
  ASSUME K!DkimSignAssumption, NEW s, NEW t, Spaced(s, t)
  PROVE  K!collapseWSP(s) = K!collapseWSP(t)
  <1> SUFFICES ASSUME t # s PROVE K!collapseWSP(s) = K!collapseWSP(t)
    OBVIOUS
  <1>1. s \in Seq(Chars) /\ t \in Seq(Chars)
    BY DEF Spaced
  <1>2. PICK r \in 1..Len(s), c \in K!WSP : Inserted(t, s, r, c) /\ s[r] \in K!WSP
    BY DEF Spaced
  <1>3. PICK n \in Nat : n = Len(s) /\ r \in 1..n /\ r \in 0..n /\ r \in Nat
    BY <1>1
  <1>4. /\ Len(t) = n + 1 /\ t[r + 1] = c /\ (\A i \in 1..r : t[i] = s[i])
        /\ \A i \in (r + 1)..n : t[i + 1] = s[i]
    BY <1>2, <1>3 DEF Inserted
  <1>5. PICK X : X = K!Begins(s) /\ X \in SUBSET (1..n)
    BY <1>1, <1>3, BeginsParts
  <1>6. PICK Y : Y = K!Begins(t) /\ Y \in SUBSET (1..(n + 1))
    BY <1>1, <1>4, BeginsParts
  <1>7. \A i \in 1..n : i \in X <=> (s[i] \notin K!WSP \/ i = 1 \/ s[i - 1] \notin K!WSP)
    BY <1>1, <1>3, <1>5, BeginsParts
  <1>8. \A i \in 1..(n + 1) : i \in Y <=> (t[i] \notin K!WSP \/ i = 1 \/ t[i - 1] \notin K!WSP)
    BY <1>1, <1>4, <1>6, BeginsParts
  <1>9. t[r] = s[r] /\ t[r] \in K!WSP
    BY <1>2, <1>3, <1>4
  <1>10. r + 1 \notin Y
    <2>1. r + 1 \in 1..(n + 1) /\ r + 1 # 1 /\ (r + 1) - 1 = r
      BY <1>3
    <2> QED
      BY <2>1, <1>4, <1>8, <1>9
  <1>11. ASSUME NEW x \in 1..n PROVE x \in X <=> (IF x <= r THEN x ELSE x + 1) \in Y
    <2>1. CASE x <= r
      <3>1. x \in 1..r /\ x \in 1..(n + 1) /\ (x # 1 => x - 1 \in 1..r)
        BY <2>1, <1>3
      <3>2. t[x] = s[x] /\ (x # 1 => t[x - 1] = s[x - 1])
        BY <3>1, <1>4
      <3> QED
        BY <2>1, <3>1, <3>2, <1>7, <1>8
    <2>2. CASE ~(x <= r)
      <3>1. x \in (r + 1)..n /\ x + 1 \in 1..(n + 1) /\ x # 1 /\ x + 1 # 1 /\ (x + 1) - 1 = x
        BY <2>2, <1>3
      <3>2. t[x + 1] = s[x]
        BY <3>1, <1>4
      <3>3. t[x] \in K!WSP <=> s[x - 1] \in K!WSP
        <4>1. CASE x = r + 1
          <5>1. x - 1 = r
            BY <4>1, <1>3
          <5> QED
            BY <4>1, <5>1, <1>2, <1>4
        <4>2. CASE x # r + 1
          <5>1. x - 1 \in (r + 1)..n /\ (x - 1) + 1 = x
            BY <4>2, <3>1, <1>3
          <5>2. t[(x - 1) + 1] = s[x - 1]
            BY <5>1, <1>4
          <5> QED
            BY <5>1, <5>2
        <4> QED
          BY <4>1, <4>2
      <3>4. x \in X <=> (s[x] \notin K!WSP \/ s[x - 1] \notin K!WSP)
        BY <3>1, <1>7
      <3>5. x + 1 \in Y <=> (t[x + 1] \notin K!WSP \/ t[x] \notin K!WSP)
        BY <3>1, <1>8
      <3> QED
        BY <2>2, <3>2, <3>3, <3>4, <3>5
    <2> QED
      BY <2>1, <2>2
  <1>12. Moves(Shift(r), X, Y)
    BY <1>3, <1>5, <1>6, <1>10, <1>11, ShiftMoves
  <1>13. PICK u : u = Plain(s) /\ u \in Seq(Chars) /\ Len(u) = n /\ \A i \in 1..n : u[i] = One(s[i])
    BY <1>1, <1>3, PlainParts DEF IsPlain
  <1>14. PICK v : v = Plain(t) /\ v \in Seq(Chars) /\ Len(v) = n + 1 /\ \A i \in 1..(n + 1) : v[i] = One(t[i])
    BY <1>1, <1>4, PlainParts DEF IsPlain
  <1>15. ASSUME NEW x \in X PROVE v[Shift(r)[x]] = u[x]
    <2>1. x \in 1..n /\ Shift(r)[x] = IF x <= r THEN x ELSE x + 1
      BY <1>5 DEF Shift
    <2>2. CASE x <= r
      <3>1. x \in 1..r /\ x \in 1..(n + 1)
        BY <2>1, <2>2, <1>3
      <3> QED
        BY <2>1, <2>2, <3>1, <1>4, <1>13, <1>14
    <2>3. CASE ~(x <= r)
      <3>1. x \in (r + 1)..n /\ x + 1 \in 1..(n + 1)
        BY <2>1, <2>3, <1>3
      <3>2. t[x + 1] = s[x]
        BY <3>1, <1>4
      <3> QED
        BY <2>1, <2>3, <3>1, <3>2, <1>13, <1>14
    <2> QED
      BY <2>2, <2>3
  <1>16. K!Kept(u, X) = K!Kept(v, Y)
    <2>1. X \in SUBSET (1..Len(u)) /\ Y \in SUBSET (1..Len(v))
      BY <1>5, <1>6, <1>13, <1>14
    <2> QED
      BY <2>1, <1>12, <1>13, <1>14, <1>15, KeptMoves
  <1> QED
    BY <1>5, <1>6, <1>13, <1>14, <1>16 DEF K!collapseWSP, Plain, One


-----------------------------------------------------------------------------
(* Folds: what is left of a value without its line breaks. *)
Letters(v) == {i \in DOMAIN v : v[i] # "n"}
Unfolded(v) == K!Kept(v, Letters(v))

LEMMA LettersParts ==
  ASSUME NEW v \in Seq(Chars)
  PROVE  /\ Letters(v) \in SUBSET (1..Len(v))
         /\ \A i \in 1..Len(v) : i \in Letters(v) <=> v[i] # "n"
  BY DEF Letters

(* old fold more does not show. *)
LEMMA JoinedFold ==
  ASSUME NEW s \in Seq(Chars), NEW r \in 0..Len(s), NEW t, Inserted(t, s, r, "n")
  PROVE  Unfolded(s) = Unfolded(t)
  <1>1. PICK n \in Nat : n = Len(s) /\ r \in 0..n /\ r \in Nat
    OBVIOUS
  <1>2. /\ t \in Seq(Chars) /\ Len(t) = n + 1 /\ t[r + 1] = "n" /\ (\A i \in 1..r : t[i] = s[i])
        /\ \A i \in (r + 1)..n : t[i + 1] = s[i]
    BY <1>1 DEF Inserted
  <1>3. PICK X : X = Letters(s) /\ X \in SUBSET (1..n) /\ \A i \in 1..n : i \in X <=> s[i] # "n"
    BY <1>1, LettersParts
  <1>4. PICK Y : Y = Letters(t) /\ Y \in SUBSET (1..(n + 1)) /\ \A i \in 1..(n + 1) : i \in Y <=> t[i] # "n"
    BY <1>2, LettersParts
  <1>5. r + 1 \notin Y
    BY <1>1, <1>2, <1>4
  <1>6. \A x \in 1..n : t[IF x <= r THEN x ELSE x + 1] = s[x] /\ (IF x <= r THEN x ELSE x + 1) \in 1..(n + 1)
    BY <1>1, <1>2
  <1>7. \A x \in 1..n : x \in X <=> (IF x <= r THEN x ELSE x + 1) \in Y
    BY <1>3, <1>4, <1>6
  <1>8. Moves(Shift(r), X, Y)
    BY <1>1, <1>3, <1>4, <1>5, <1>7, ShiftMoves
  <1>9. \A x \in X : t[Shift(r)[x]] = s[x]
    <2>1. \A x \in X : x \in 1..n /\ Shift(r)[x] = IF x <= r THEN x ELSE x + 1
      BY <1>3 DEF Shift
    <2> QED
      BY <2>1, <1>6
  <1>10. X \in SUBSET (1..Len(s)) /\ Y \in SUBSET (1..Len(t))
    BY <1>1, <1>2, <1>3, <1>4
  <1>11. K!Kept(s, X) = K!Kept(t, Y)
    BY <1>2, <1>8, <1>9, <1>10, KeptMoves
  <1> QED
    BY <1>3, <1>4, <1>11 DEF Unfolded

(* One position more in a list. *)
Between(e, q, y) ==
  [i \in 1..(Len(e) + 1) |-> IF i <= q THEN e[i] ELSE IF i = q + 1 THEN y ELSE e[i - 1] + 1]

LEMMA BetweenLists ==
  ASSUME NEW n \in Nat, NEW r \in 1..n, NEW X \in SUBSET (1..n), NEW Y \in SUBSET (1..(n + 1)),
         r + 1 \in Y, NEW e, Lists(e, X), NEW q \in 1..Len(e), e[q] = r,
         \A x \in 1..n : x \in X <=> (IF x <= r THEN x ELSE x + 1) \in Y
  PROVE  Lists(Between(e, q, r + 1), Y)
  <1>1. PICK m \in Nat : m = Len(e) /\ e \in Seq(Nat) /\ q \in 1..m /\ q \in Nat
    BY DEF Lists
  <1>2. \A i \in 1..m : e[i] \in X /\ e[i] \in 1..n
    BY <1>1 DEF Lists
  <1>3. \A i, j \in 1..m : i < j => e[i] < e[j]
    BY <1>1 DEF Lists
  <1>4. \A i \in 1..m : (i <= q => e[i] <= r) /\ (i > q => e[i] > r)
    <2> SUFFICES ASSUME NEW i \in 1..m PROVE (i <= q => e[i] <= r) /\ (i > q => e[i] > r)
      OBVIOUS
    <2>1. e[i] \in Nat /\ e[q] = r /\ r \in Nat
      BY <1>2
    <2>2. CASE i < q
      BY <2>1, <2>2, <1>1, <1>3
    <2>3. CASE i = q
      BY <2>1, <2>3, <1>1
    <2>4. CASE i > q
      BY <2>1, <2>4, <1>1, <1>3
    <2> QED
      BY <2>2, <2>3, <2>4, <1>1
  <1>5. PICK d : d = Between(e, q, r + 1) /\ DOMAIN d = 1..(m + 1) /\ d = [i \in 1..(m + 1) |-> d[i]]
    <2>1. DOMAIN Between(e, q, r + 1) = 1..(Len(e) + 1) /\ Between(e, q, r + 1) = [i \in 1..(Len(e) + 1) |-> Between(e, q, r + 1)[i]]
      BY DEF Between
    <2>2. DOMAIN Between(e, q, r + 1) = 1..(m + 1) /\ Between(e, q, r + 1) = [i \in 1..(m + 1) |-> Between(e, q, r + 1)[i]]
      BY <2>1, <1>1
    <2> QED
      BY <2>2
  <1>6. \A i \in 1..(m + 1) : d[i] = IF i <= q THEN e[i] ELSE IF i = q + 1 THEN r + 1 ELSE e[i - 1] + 1
    BY <1>1, <1>5 DEF Between
  <1>7. ASSUME NEW i \in 1..(m + 1)
        PROVE  /\ d[i] \in Y /\ d[i] \in Nat /\ (i <= q => d[i] <= r /\ d[i] = e[i] /\ i \in 1..m)
               /\ (i = q + 1 => d[i] = r + 1)
               /\ (i > q + 1 => d[i] > r + 1 /\ d[i] = e[i - 1] + 1 /\ i - 1 \in 1..m /\ i - 1 > q)
    <2>1. CASE i <= q
      <3>1. i \in 1..m /\ d[i] = e[i] /\ ~(i = q + 1) /\ ~(i > q + 1)
        BY <2>1, <1>1, <1>6
      <3>2. e[i] \in X /\ e[i] \in 1..n /\ e[i] <= r
        BY <3>1, <2>1, <1>2, <1>4
      <3> QED
        BY <2>1, <3>1, <3>2
    <2>2. CASE i = q + 1
      BY <2>2, <1>1, <1>6
    <2>3. CASE i > q + 1
      <3>1. i - 1 \in 1..m /\ i - 1 > q /\ d[i] = e[i - 1] + 1 /\ ~(i <= q) /\ ~(i = q + 1)
        BY <2>3, <1>1, <1>6
      <3>2. e[i - 1] \in X /\ e[i - 1] \in 1..n /\ e[i - 1] > r
        BY <3>1, <1>2, <1>4
      <3>3. e[i - 1] + 1 \in Y /\ e[i - 1] + 1 \in Nat /\ e[i - 1] + 1 > r + 1
        BY <3>2
      <3> QED
        BY <2>3, <3>1, <3>3
    <2> QED
      BY <2>1, <2>2, <2>3, <1>1
  <1>8. d \in Seq(Nat) /\ Len(d) = m + 1
    <2>1. \A i \in 1..(m + 1) : d[i] \in Nat
      BY <1>7
    <2>2. d \in [1..(m + 1) -> Nat]
      BY <2>1, <1>5
    <2> QED
      BY <2>2
  <1>9. ASSUME NEW y \in Y PROVE \E i \in 1..(m + 1) : d[i] = y
    <2>1. CASE y <= r
      <3>1. y \in 1..n /\ y \in X
        BY <2>1
      <3>2. PICK i \in 1..m : e[i] = y
        BY <3>1, <1>1 DEF Lists
      <3>3. i <= q
        BY <3>2, <2>1, <1>1, <1>4
      <3>4. i \in 1..(m + 1)
        OBVIOUS
      <3> QED
        BY <3>2, <3>3, <3>4, <1>6
    <2>2. CASE y = r + 1
      BY <2>2, <1>1, <1>6
    <2>3. CASE y > r + 1
      <3>1. y - 1 \in 1..n /\ y - 1 > r /\ (y - 1) + 1 = y
        BY <2>3
      <3>2. y - 1 \in X
        BY <3>1
      <3>3. PICK i \in 1..m : e[i] = y - 1
        BY <3>2, <1>1 DEF Lists
      <3>4. i > q
        BY <3>1, <3>3, <1>1, <1>4
      <3>5. i + 1 \in 1..(m + 1) /\ ~(i + 1 <= q) /\ ~(i + 1 = q + 1) /\ (i + 1) - 1 = i
        BY <3>4, <1>1
      <3>6. d[i + 1] = e[i] + 1
        BY <3>5, <1>6
      <3> QED
        BY <3>1, <3>3, <3>5, <3>6
    <2> QED
      BY <2>1, <2>2, <2>3
  <1>10. ASSUME NEW i \in 1..(m + 1), NEW j \in 1..(m + 1), i < j PROVE d[i] < d[j]
    <2>0. d[i] \in Nat /\ d[j] \in Nat /\ i \in Nat /\ j \in Nat
      BY <1>7
    <2>1. CASE j <= q
      <3>1. i <= q
        BY <2>1, <1>1, <1>10
      <3> QED
        BY <2>1, <3>1, <1>3, <1>7, <1>10
    <2>2. CASE i <= q /\ j > q
      <3>1. d[i] <= r
        BY <2>2, <1>7
      <3>2. j = q + 1 \/ j > q + 1
        BY <2>0, <2>2, <1>1
      <3>3. d[j] >= r + 1
        BY <2>0, <3>2, <1>7
      <3> QED
        BY <3>1, <3>3, <2>0
    <2>3. CASE i = q + 1
      <3>1. j > q + 1
        BY <2>3, <1>1, <1>10
      <3> QED
        BY <2>0, <2>3, <3>1, <1>7
    <2>4. CASE i > q + 1
      <3>1. j > q + 1 /\ i - 1 < j - 1
        BY <2>4, <1>1, <1>10
      <3>2. i - 1 \in 1..m /\ j - 1 \in 1..m /\ d[i] = e[i - 1] + 1 /\ d[j] = e[j - 1] + 1
        BY <3>1, <2>4, <1>7
      <3>3. e[i - 1] < e[j - 1] /\ e[i - 1] \in Nat /\ e[j - 1] \in Nat
        BY <3>1, <3>2, <1>2, <1>3
      <3> QED
        BY <3>2, <3>3
    <2> QED
      BY <2>1, <2>2, <2>3, <2>4, <1>1
  <1> QED
    BY <1>5, <1>7, <1>8, <1>9, <1>10 DEF Lists

(* White space more in a value is white space more in what is left. *)
LEMMA JoinedSpaced ==
  ASSUME K!DkimSignAssumption, NEW s, NEW t, Spaced(s, t)
  PROVE  Spaced(Unfolded(s), Unfolded(t))
  <1>1. s \in Seq(Chars) /\ t \in Seq(Chars)
    BY DEF Spaced
  <1>0. PICK X : X = Letters(s) /\ X \in SUBSET (1..Len(s)) /\ \A i \in 1..Len(s) : i \in X <=> s[i] # "n"
    BY <1>1, LettersParts
  <1>00. PICK Y : Y = Letters(t) /\ Y \in SUBSET (1..Len(t)) /\ \A i \in 1..Len(t) : i \in Y <=> t[i] # "n"
    BY <1>1, LettersParts
  <1>2. Unfolded(s) = K!Kept(s, X) /\ Unfolded(t) = K!Kept(t, Y)
    BY <1>0, <1>00 DEF Unfolded
  <1>3. K!Kept(s, X) \in Seq(Chars) /\ K!Kept(t, Y) \in Seq(Chars)
    BY <1>0, <1>00, <1>1, KeptParts
  <1>4. CASE t = s
    BY <1>2, <1>3, <1>4, <1>0, <1>00 DEF Spaced
  <1>5. CASE t # s
    <2>1. PICK r \in 1..Len(s), c \in K!WSP : Inserted(t, s, r, c) /\ s[r] \in K!WSP
      BY <1>5 DEF Spaced
    <2>2. PICK n \in Nat : n = Len(s) /\ r \in 1..n /\ r \in Nat
      BY <1>1
    <2>3. /\ Len(t) = n + 1 /\ t[r + 1] = c /\ (\A i \in 1..r : t[i] = s[i])
          /\ \A i \in (r + 1)..n : t[i + 1] = s[i]
      BY <2>1, <2>2 DEF Inserted
    <2>4. c # "n" /\ s[r] # "n"
      BY <2>1 DEF K!WSP
    <2>5. r \in X /\ r + 1 \in Y
      BY <1>0, <1>00, <2>2, <2>3, <2>4
    <2>6. \A x \in 1..n : t[IF x <= r THEN x ELSE x + 1] = s[x] /\ (IF x <= r THEN x ELSE x + 1) \in 1..(n + 1)
      BY <2>2, <2>3
    <2>7. \A x \in 1..n : x \in X <=> (IF x <= r THEN x ELSE x + 1) \in Y
      BY <1>0, <1>00, <2>2, <2>3, <2>6
    <2>8. PICK e : Lists(e, X) /\ Keeps(K!Kept(s, X), s, e)
      BY <1>0, <1>1, KeptParts
    <2>9. PICK d : Lists(d, Y) /\ Keeps(K!Kept(t, Y), t, d)
      BY <1>00, <1>1, KeptParts
    <2>10. PICK m \in Nat : m = Len(e) /\ e \in Seq(Nat) /\ \A i \in 1..m : e[i] \in X /\ e[i] \in 1..n
      BY <1>0, <2>2, <2>8 DEF Lists
    <2>11. PICK q \in 1..m : e[q] = r
      BY <2>5, <2>8, <2>10 DEF Lists
    <2>12. d = Between(e, q, r + 1)
      <3>1. X \in SUBSET (1..n) /\ Y \in SUBSET (1..(n + 1))
        BY <1>0, <1>00, <2>2, <2>3
      <3>2. Lists(Between(e, q, r + 1), Y)
        BY <3>1, <2>2, <2>5, <2>7, <2>8, <2>10, <2>11, BetweenLists
      <3> QED
        BY <3>2, <2>9, ListsOnce
    <2>13. Len(d) = m + 1 /\ \A i \in 1..(m + 1) : d[i] = IF i <= q THEN e[i] ELSE IF i = q + 1 THEN r + 1 ELSE e[i - 1] + 1
      <3>1. d \in Seq(Nat)
        BY <2>9 DEF Lists
      <3>2. DOMAIN d = 1..(m + 1)
        BY <2>10, <2>12 DEF Between
      <3> QED
        BY <3>1, <3>2, <2>10, <2>12 DEF Between
    <2>14. PICK u : u = K!Kept(s, X) /\ u \in Seq(Chars) /\ Len(u) = m /\ \A i \in 1..m : u[i] = s[e[i]]
      <3>1. K!Kept(s, X) = [i \in 1..m |-> s[e[i]]]
        BY <2>8, <2>10 DEF Keeps
      <3>2. DOMAIN K!Kept(s, X) = 1..m /\ \A i \in 1..m : K!Kept(s, X)[i] = s[e[i]]
        BY <3>1
      <3> QED
        BY <3>2, <1>3
    <2>15. PICK w : w = K!Kept(t, Y) /\ w \in Seq(Chars) /\ Len(w) = m + 1 /\ \A i \in 1..(m + 1) : w[i] = t[d[i]]
      <3>0. PICK k \in Nat : k = m + 1
        OBVIOUS
      <3>1. K!Kept(t, Y) = [i \in 1..k |-> t[d[i]]]
        BY <3>0, <2>9, <2>13 DEF Keeps
      <3>2. DOMAIN K!Kept(t, Y) = 1..k /\ \A i \in 1..k : K!Kept(t, Y)[i] = t[d[i]]
        BY <3>1
      <3> QED
        BY <3>0, <3>2, <1>3
    <2>16. \A i \in 1..m : (i <= q => e[i] <= r) /\ (i > q => e[i] > r)
      <3> SUFFICES ASSUME NEW i \in 1..m PROVE (i <= q => e[i] <= r) /\ (i > q => e[i] > r)
        OBVIOUS
      <3>1. e[i] \in Nat /\ e[q] = r /\ r \in Nat
        BY <2>2, <2>10, <2>11
      <3>2. \A j \in 1..m : (i < j => e[i] < e[j]) /\ (j < i => e[j] < e[i])
        BY <2>8, <2>10 DEF Lists
      <3>3. CASE i < q
        BY <3>1, <3>2, <3>3
      <3>4. CASE i = q
        BY <3>1, <3>4
      <3>5. CASE i > q
        BY <3>1, <3>2, <3>5
      <3> QED
        BY <3>3, <3>4, <3>5
    <2>17. \A i \in 1..q : w[i] = u[i]
      <3> SUFFICES ASSUME NEW i \in 1..q PROVE w[i] = u[i]
        OBVIOUS
      <3>1. i \in 1..m /\ i \in 1..(m + 1) /\ i <= q
        OBVIOUS
      <3>2. d[i] = e[i] /\ e[i] \in 1..r
        BY <3>1, <2>10, <2>13, <2>16
      <3> QED
        BY <3>1, <3>2, <2>3, <2>14, <2>15
    <2>18. w[q + 1] = c
      <3>1. q + 1 \in 1..(m + 1) /\ ~(q + 1 <= q)
        OBVIOUS
      <3>2. d[q + 1] = r + 1
        BY <3>1, <2>13
      <3> QED
        BY <3>1, <3>2, <2>3, <2>15
    <2>19. \A i \in (q + 1)..m : w[i + 1] = u[i]
      <3> SUFFICES ASSUME NEW i \in (q + 1)..m PROVE w[i + 1] = u[i]
        OBVIOUS
      <3>1. i \in 1..m /\ i + 1 \in 1..(m + 1) /\ i > q /\ ~(i + 1 <= q) /\ ~(i + 1 = q + 1) /\ (i + 1) - 1 = i
        OBVIOUS
      <3>2. d[i + 1] = e[i] + 1 /\ e[i] \in (r + 1)..n
        BY <3>1, <2>2, <2>10, <2>13, <2>16
      <3> QED
        BY <3>1, <3>2, <2>3, <2>14, <2>15
    <2>20. Inserted(w, u, q, c) /\ q \in 1..Len(u) /\ u[q] \in K!WSP
      BY <2>1, <2>11, <2>14, <2>15, <2>17, <2>18, <2>19 DEF Inserted
    <2> QED
      BY <2>20, <1>2, <1>3, <2>14, <2>15 DEF Spaced
  <1> QED
    BY <1>4, <1>5


-----------------------------------------------------------------------------
(* old text without the white space at an end: what is left goes up to p, or  *)
(* begins behind p.                                                         *)
EndsAt(s, p) ==
  /\ p \in 0..Len(s) /\ (p # 0 => s[p] \notin K!WSP) /\ (\A i \in (p + 1)..Len(s) : s[i] \in K!WSP)
StartsAt(s, p) ==
  /\ p \in 0..Len(s) /\ (p # Len(s) => s[p + 1] \notin K!WSP) /\ (\A i \in 1..p : s[i] \in K!WSP)

LEMMA InkParts ==
  ASSUME NEW s \in Seq(Chars)
  PROVE  /\ K!Text(s) \in SUBSET (1..Len(s))
         /\ \A i \in 1..Len(s) : i \in K!Text(s) <=> s[i] \notin K!WSP
  BY DEF K!Text

LEMMA TrimRightIs ==
  ASSUME NEW s \in Seq(Chars)
  PROVE  \E p \in Nat : EndsAt(s, p) /\ Part(K!TrimRight(s), s, 0, p, Chars)
  <1>1. PICK n \in Nat : n = Len(s)
    OBVIOUS
  <1>2. PICK X : X = K!Text(s) /\ X \in SUBSET (1..n) /\ \A i \in 1..n : i \in X <=> s[i] \notin K!WSP
    BY <1>1, InkParts
  <1>3. CASE X = {}
    <2>1. K!TrimRight(s) = <<>>
      BY <1>2, <1>3, Zenon DEF K!TrimRight
    <2>2. PICK u : u = K!TrimRight(s) /\ u \in Seq(Chars) /\ Len(u) = 0
      <3>1. <<>> \in Seq(Chars) /\ Len(<<>>) = 0
        OBVIOUS
      <3> QED
        BY <3>1, <2>1, Zenon
    <2>3. EndsAt(s, 0)
      BY <1>1, <1>2, <1>3 DEF EndsAt
    <2>4. Part(u, s, 0, 0, Chars)
      BY <2>2 DEF Part
    <2> QED
      BY <2>2, <2>3, <2>4
  <1>4. CASE X # {}
    <2>1. PICK f : f = [x \in X |-> n - x] /\ f \in [X -> Nat] /\ \A x \in X : f[x] = n - x
      <3>1. \A x \in X : n - x \in Nat
        BY <1>2
      <3>2. [x \in X |-> n - x] \in [X -> Nat] /\ \A x \in X : [y \in X |-> n - y][x] = n - x
        BY <3>1
      <3> QED
        BY <3>2, Zenon
    <2>2. PICK x \in X : \A y \in X : f[x] <= f[y]
      BY <1>4, <2>1, LeastValue
    <2>3. \A y \in X : y <= x
      BY <1>2, <2>1, <2>2
    <2>4. PICK p : p = (CHOOSE i \in X : \A j \in X : j <= i)
      OBVIOUS
    <2>5. p \in X /\ \A j \in X : j <= p
      BY <2>3, <2>4
    <2>6. p \in 1..n /\ p \in Nat /\ p \in 0..Len(s) /\ 0 + 1 = 1
      BY <1>1, <1>2, <2>5
    <2>7. K!TrimRight(s) = SubSeq(s, 0 + 1, p)
      BY <1>2, <1>4, <2>4, <2>6, Zenon DEF K!TrimRight
    <2>8. Part(SubSeq(s, 0 + 1, p), s, 0, p, Chars)
      BY <2>6, PartIs
    <2>9. EndsAt(s, p)
      <3>1. s[p] \notin K!WSP
        BY <1>2, <2>5, <2>6
      <3>2. ASSUME NEW i \in (p + 1)..n PROVE s[i] \in K!WSP
        <4>1. i \in 1..n /\ ~(i <= p)
          BY <2>6
        <4> QED
          BY <4>1, <1>2, <2>5
      <3> QED
        BY <3>1, <3>2, <1>1, <2>6 DEF EndsAt
    <2> QED
      BY <2>6, <2>7, <2>8, <2>9
  <1> QED
    BY <1>3, <1>4

LEMMA TrimLeftIs ==
  ASSUME NEW s \in Seq(Chars)
  PROVE  \E p \in Nat : StartsAt(s, p) /\ Part(K!TrimLeft(s), s, p, Len(s), Chars)
  <1>1. PICK n \in Nat : n = Len(s)
    OBVIOUS
  <1>2. PICK X : X = K!Text(s) /\ X \in SUBSET (1..n) /\ \A i \in 1..n : i \in X <=> s[i] \notin K!WSP
    BY <1>1, InkParts
  <1>3. CASE X = {}
    <2>1. K!TrimLeft(s) = <<>>
      BY <1>2, <1>3, Zenon DEF K!TrimLeft
    <2>2. PICK u : u = K!TrimLeft(s) /\ u \in Seq(Chars) /\ Len(u) = 0
      <3>1. <<>> \in Seq(Chars) /\ Len(<<>>) = 0
        OBVIOUS
      <3> QED
        BY <3>1, <2>1, Zenon
    <2>3. StartsAt(s, n)
      BY <1>1, <1>2, <1>3 DEF StartsAt
    <2>4. Part(u, s, n, n, Chars)
      <3>1. n - n = 0
        OBVIOUS
      <3> QED
        BY <3>1, <2>2 DEF Part
    <2> QED
      BY <1>1, <2>2, <2>3, <2>4
  <1>4. CASE X # {}
    <2>1. PICK f : f = [x \in X |-> x] /\ f \in [X -> Nat] /\ \A x \in X : f[x] = x
      <3>1. \A x \in X : x \in Nat
        BY <1>2
      <3>2. [x \in X |-> x] \in [X -> Nat] /\ \A x \in X : [y \in X |-> y][x] = x
        BY <3>1
      <3> QED
        BY <3>2, Zenon
    <2>2. PICK x \in X : \A y \in X : f[x] <= f[y]
      BY <1>4, <2>1, LeastValue
    <2>3. \A y \in X : x <= y
      BY <2>1, <2>2
    <2>4. PICK q : q = (CHOOSE i \in X : \A j \in X : i <= j)
      OBVIOUS
    <2>5. q \in X /\ \A j \in X : q <= j
      BY <2>3, <2>4
    <2>50. PICK p \in Nat : p + 1 = q
      <3>1. q - 1 \in Nat /\ (q - 1) + 1 = q
        BY <1>2, <2>5
      <3> QED
        BY <3>1
    <2>6. p + 1 \in 1..n /\ n \in p..Len(s)
      BY <1>1, <1>2, <2>5, <2>50
    <2>7. K!TrimLeft(s) = SubSeq(s, p + 1, n)
      BY <1>1, <1>2, <1>4, <2>4, <2>50, Zenon DEF K!TrimLeft
    <2>8. Part(SubSeq(s, p + 1, n), s, p, n, Chars)
      BY <2>6, PartIs
    <2>9. StartsAt(s, p)
      <3>1. s[p + 1] \notin K!WSP
        BY <1>2, <2>5, <2>50, <2>6
      <3>2. ASSUME NEW i \in 1..p PROVE s[i] \in K!WSP
        <4>1. i \in 1..n /\ ~(p + 1 <= i)
          BY <2>6
        <4> QED
          BY <4>1, <1>2, <2>5, <2>50
      <3> QED
        BY <3>1, <3>2, <1>1, <2>6 DEF StartsAt
    <2> QED
      BY <1>1, <2>7, <2>8, <2>9
  <1> QED
    BY <1>3, <1>4

(* There is one such place. *)
LEMMA EndsOnce ==
  ASSUME NEW s \in Seq(Chars), NEW p, NEW q, EndsAt(s, p), EndsAt(s, q)
  PROVE  p = q
  <1>1. PICK n \in Nat : n = Len(s) /\ p \in 0..n /\ q \in 0..n
    BY DEF EndsAt
  <1>2. ~(p < q)
    <2> SUFFICES ASSUME p < q PROVE FALSE
      OBVIOUS
    <2>1. q # 0 /\ q \in (p + 1)..n
      BY <1>1
    <2> QED
      BY <2>1, <1>1 DEF EndsAt
  <1>3. ~(q < p)
    <2> SUFFICES ASSUME q < p PROVE FALSE
      OBVIOUS
    <2>1. p # 0 /\ p \in (q + 1)..n
      BY <1>1
    <2> QED
      BY <2>1, <1>1 DEF EndsAt
  <1> QED
    BY <1>1, <1>2, <1>3

LEMMA StartsOnce ==
  ASSUME NEW s \in Seq(Chars), NEW p, NEW q, StartsAt(s, p), StartsAt(s, q)
  PROVE  p = q
  <1>1. PICK n \in Nat : n = Len(s) /\ p \in 0..n /\ q \in 0..n
    BY DEF StartsAt
  <1>2. ~(p < q)
    <2> SUFFICES ASSUME p < q PROVE FALSE
      OBVIOUS
    <2>1. p # n /\ p + 1 \in 1..q
      BY <1>1
    <2> QED
      BY <2>1, <1>1 DEF StartsAt
  <1>3. ~(q < p)
    <2> SUFFICES ASSUME q < p PROVE FALSE
      OBVIOUS
    <2>1. q # n /\ q + 1 \in 1..p
      BY <1>1
    <2> QED
      BY <2>1, <1>1 DEF StartsAt
  <1> QED
    BY <1>1, <1>2, <1>3

LEMMA SameParts ==
  ASSUME NEW u \in Seq(Chars), NEW w \in Seq(Chars), NEW n \in Nat, Len(u) = n, Len(w) = n,
         \A i \in 1..n : u[i] = w[i]
  PROVE  u = w
  OBVIOUS

LEMMA TrimRightSpaced ==
  ASSUME NEW s, NEW t, Spaced(s, t)
  PROVE  Spaced(K!TrimRight(s), K!TrimRight(t))
  <1>1. s \in Seq(Chars) /\ t \in Seq(Chars)
    BY DEF Spaced
  <1>2. PICK p \in Nat : EndsAt(s, p) /\ Part(K!TrimRight(s), s, 0, p, Chars)
    BY <1>1, TrimRightIs
  <1>3. PICK q \in Nat : EndsAt(t, q) /\ Part(K!TrimRight(t), t, 0, q, Chars)
    BY <1>1, TrimRightIs
  <1>4. PICK u : u = K!TrimRight(s) /\ u \in Seq(Chars) /\ Len(u) = p /\ \A i \in 1..p : u[i] = s[i]
    BY <1>2 DEF Part
  <1>5. PICK w : w = K!TrimRight(t) /\ w \in Seq(Chars) /\ Len(w) = q /\ \A i \in 1..q : w[i] = t[i]
    BY <1>3 DEF Part
  <1>6. CASE t = s
    BY <1>4, <1>6 DEF Spaced
  <1>7. CASE t # s
    <2>1. PICK r \in 1..Len(s), c \in K!WSP : Inserted(t, s, r, c) /\ s[r] \in K!WSP
      BY <1>7 DEF Spaced
    <2>2. PICK n \in Nat : n = Len(s) /\ r \in 1..n /\ r \in Nat /\ p <= n
      BY <1>1, <1>2 DEF EndsAt
    <2>3. /\ Len(t) = n + 1 /\ t[r + 1] = c /\ (\A i \in 1..r : t[i] = s[i])
          /\ \A i \in (r + 1)..n : t[i + 1] = s[i]
      BY <2>1, <2>2 DEF Inserted
    <2>4. (p # 0 => s[p] \notin K!WSP) /\ (\A i \in (p + 1)..n : s[i] \in K!WSP)
      BY <1>2, <2>2 DEF EndsAt
    <2>5. p # r
      BY <2>1, <2>2, <2>4
    <2>6. CASE p < r
      <3>1. p # 0 => t[p] = s[p]
        BY <2>3, <2>6
      <3>2. ASSUME NEW i \in (p + 1)..(n + 1) PROVE t[i] \in K!WSP
        <4>1. CASE i <= r
          <5>1. i \in 1..r /\ i \in (p + 1)..n
            BY <4>1, <2>2
          <5> QED
            BY <5>1, <2>3, <2>4
        <4>2. CASE i = r + 1
          BY <4>2, <2>1, <2>3
        <4>3. CASE i > r + 1
          <5>1. i - 1 \in (r + 1)..n /\ (i - 1) + 1 = i /\ i - 1 \in (p + 1)..n
            BY <4>3, <2>2, <2>6
          <5> QED
            BY <5>1, <2>3, <2>4
        <4> QED
          BY <4>1, <4>2, <4>3, <2>2
      <3>3. EndsAt(t, p)
        BY <3>1, <3>2, <2>2, <2>3, <2>4 DEF EndsAt
      <3>4. q = p
        BY <3>3, <1>1, <1>3, EndsOnce
      <3>5. \A i \in 1..p : u[i] = w[i]
        <4> SUFFICES ASSUME NEW i \in 1..p PROVE u[i] = w[i]
          OBVIOUS
        <4>1. i \in 1..r
          BY <2>2, <2>6
        <4> QED
          BY <4>1, <3>4, <2>3, <1>4, <1>5
      <3>6. u = w
        BY <3>4, <3>5, <1>4, <1>5, SameParts
      <3> QED
        BY <3>6, <1>4, <1>5 DEF Spaced
    <2>7. CASE p > r
      <3>1. t[p + 1] = s[p]
        BY <2>2, <2>3, <2>7
      <3>2. ASSUME NEW i \in ((p + 1) + 1)..(n + 1) PROVE t[i] \in K!WSP
        <4>1. i - 1 \in (r + 1)..n /\ (i - 1) + 1 = i /\ i - 1 \in (p + 1)..n
          BY <2>2, <2>7
        <4> QED
          BY <4>1, <2>3, <2>4
      <3>3. EndsAt(t, p + 1)
        <4>1. p # 0 /\ p + 1 # 0 /\ p + 1 \in 0..(n + 1)
          BY <2>2, <2>7
        <4> QED
          BY <4>1, <3>1, <3>2, <2>3, <2>4 DEF EndsAt
      <3>4. q = p + 1
        BY <3>3, <1>1, <1>3, EndsOnce
      <3>5. \A i \in 1..r : w[i] = u[i]
        <4> SUFFICES ASSUME NEW i \in 1..r PROVE w[i] = u[i]
          OBVIOUS
        <4>1. i \in 1..p /\ i \in 1..(p + 1)
          BY <2>2, <2>7
        <4> QED
          BY <4>1, <3>4, <2>3, <1>4, <1>5
      <3>6. w[r + 1] = c
        <4>1. r + 1 \in 1..(p + 1)
          BY <2>2, <2>7
        <4> QED
          BY <4>1, <3>4, <2>3, <1>5
      <3>7. \A i \in (r + 1)..p : w[i + 1] = u[i]
        <4> SUFFICES ASSUME NEW i \in (r + 1)..p PROVE w[i + 1] = u[i]
          OBVIOUS
        <4>1. i \in 1..p /\ i + 1 \in 1..(p + 1) /\ i \in (r + 1)..n
          BY <2>2, <2>7
        <4> QED
          BY <4>1, <3>4, <2>3, <1>4, <1>5
      <3>8. r \in 1..p /\ u[r] \in K!WSP
        <4>1. r \in 1..p
          BY <2>2, <2>7
        <4> QED
          BY <4>1, <2>1, <1>4
      <3>9. Inserted(w, u, r, c)
        BY <3>4, <3>5, <3>6, <3>7, <1>4, <1>5 DEF Inserted
      <3> QED
        BY <3>8, <3>9, <2>1, <1>4, <1>5 DEF Spaced
    <2> QED
      BY <2>2, <2>5, <2>6, <2>7
  <1> QED
    BY <1>6, <1>7

LEMMA TrimLeftSpaced ==
  ASSUME NEW s, NEW t, Spaced(s, t)
  PROVE  Spaced(K!TrimLeft(s), K!TrimLeft(t))
  <1>1. s \in Seq(Chars) /\ t \in Seq(Chars)
    BY DEF Spaced
  <1>2. PICK p \in Nat : StartsAt(s, p) /\ Part(K!TrimLeft(s), s, p, Len(s), Chars)
    BY <1>1, TrimLeftIs
  <1>3. PICK q \in Nat : StartsAt(t, q) /\ Part(K!TrimLeft(t), t, q, Len(t), Chars)
    BY <1>1, TrimLeftIs
  <1>40. PICK n \in Nat, m \in Nat : n = Len(s) /\ p <= n /\ m = Len(t) /\ q <= m
    BY <1>1, <1>2, <1>3 DEF StartsAt
  <1>4. PICK u : u = K!TrimLeft(s) /\ u \in Seq(Chars) /\ Len(u) = n - p /\ \A i \in 1..(n - p) : u[i] = s[p + i]
    BY <1>2, <1>40 DEF Part
  <1>5. PICK w : w = K!TrimLeft(t) /\ w \in Seq(Chars) /\ Len(w) = m - q /\ \A i \in 1..(m - q) : w[i] = t[q + i]
    BY <1>3, <1>40 DEF Part
  <1>6. CASE t = s
    BY <1>4, <1>6 DEF Spaced
  <1>7. CASE t # s
    <2>1. PICK r \in 1..Len(s), c \in K!WSP : Inserted(t, s, r, c) /\ s[r] \in K!WSP
      BY <1>7 DEF Spaced
    <2>2. r \in 1..n /\ r \in Nat
      BY <1>40
    <2>3. /\ Len(t) = n + 1 /\ t[r + 1] = c /\ (\A i \in 1..r : t[i] = s[i])
          /\ \A i \in (r + 1)..n : t[i + 1] = s[i]
      BY <2>1, <1>40 DEF Inserted
    <2>4. (p # n => s[p + 1] \notin K!WSP) /\ (\A i \in 1..p : s[i] \in K!WSP)
      BY <1>2, <1>40 DEF StartsAt
    <2>5. m = n + 1
      BY <1>40, <2>3
    <2>6. CASE r <= p
      <3>1. ASSUME NEW i \in 1..(p + 1) PROVE t[i] \in K!WSP
        <4>1. CASE i <= r
          <5>1. i \in 1..r /\ i \in 1..p
            BY <4>1, <2>2, <2>6
          <5> QED
            BY <5>1, <2>3, <2>4
        <4>2. CASE i = r + 1
          BY <4>2, <2>1, <2>3
        <4>3. CASE i > r + 1
          <5>1. i - 1 \in (r + 1)..n /\ (i - 1) + 1 = i /\ i - 1 \in 1..p
            BY <4>3, <2>2, <1>40
          <5> QED
            BY <5>1, <2>3, <2>4
        <4> QED
          BY <4>1, <4>2, <4>3, <2>2
      <3>2. p + 1 # n + 1 => t[(p + 1) + 1] \notin K!WSP
        <4> SUFFICES ASSUME p + 1 # n + 1 PROVE t[(p + 1) + 1] \notin K!WSP
          OBVIOUS
        <4>1. p # n /\ p + 1 \in (r + 1)..n
          BY <1>40, <2>2, <2>6
        <4> QED
          BY <4>1, <2>3, <2>4
      <3>3. StartsAt(t, p + 1)
        BY <3>1, <3>2, <1>40, <2>3 DEF StartsAt
      <3>4. q = p + 1
        BY <3>3, <1>1, <1>3, StartsOnce
      <3>50. m - q = n - p
        BY <3>4, <2>5
      <3>5. \A i \in 1..(n - p) : u[i] = w[i]
        <4> SUFFICES ASSUME NEW i \in 1..(n - p) PROVE u[i] = w[i]
          OBVIOUS
        <4>1. p + i \in (r + 1)..n /\ (p + i) + 1 = q + i /\ i \in 1..(m - q)
          BY <1>40, <2>2, <2>6, <3>4, <3>50
        <4>2. u[i] = s[p + i] /\ w[i] = t[q + i]
          BY <4>1, <1>4, <1>5
        <4> QED
          BY <4>1, <4>2, <2>3
      <3>6. u = w
        <4>0. n - p \in Nat
          BY <1>40
        <4>1. PICK k \in Nat : k = n - p
          BY <4>0
        <4>2. Len(u) = k /\ Len(w) = k
          BY <4>1, <3>50, <1>4, <1>5
        <4>3. \A i \in 1..k : u[i] = w[i]
          BY <4>1, <3>5
        <4> QED
          BY <4>2, <4>3, <1>4, <1>5, SameParts
      <3> QED
        BY <3>6, <1>4, <1>5 DEF Spaced
    <2>7. CASE r > p
      <3>0. p # n /\ r # p + 1 /\ p + 1 < r
        BY <1>40, <2>1, <2>2, <2>4, <2>7
      <3>1. t[p + 1] = s[p + 1]
        BY <2>2, <2>3, <3>0
      <3>2. \A i \in 1..p : t[i] \in K!WSP
        <4> SUFFICES ASSUME NEW i \in 1..p PROVE t[i] \in K!WSP
          OBVIOUS
        <4>1. i \in 1..r
          BY <2>2, <2>7
        <4> QED
          BY <4>1, <2>3, <2>4
      <3>3. StartsAt(t, p)
        BY <3>0, <3>1, <3>2, <1>40, <2>3, <2>4 DEF StartsAt
      <3>4. q = p
        BY <3>3, <1>1, <1>3, StartsOnce
      <3>5. PICK h \in Nat : h = r - p /\ p + h = r /\ h \in 1..(n - p)
        <4>1. r - p \in Nat /\ p + (r - p) = r /\ r - p \in 1..(n - p)
          BY <2>2, <2>7, <1>40
        <4> QED
          BY <4>1
      <3>6. PICK k \in Nat : k = n - p /\ m - q = k + 1
        <4>1. n - p \in Nat /\ m - q = (n - p) + 1
          BY <3>4, <2>5, <1>40
        <4> QED
          BY <4>1
      <3>7. Len(u) = k /\ Len(w) = k + 1 /\ (\A i \in 1..k : u[i] = s[p + i]) /\ (\A i \in 1..(k + 1) : w[i] = t[p + i])
        BY <3>4, <3>6, <1>4, <1>5
      <3>8. \A i \in 1..h : w[i] = u[i]
        <4> SUFFICES ASSUME NEW i \in 1..h PROVE w[i] = u[i]
          OBVIOUS
        <4>1. i \in 1..k /\ i \in 1..(k + 1) /\ p + i \in 1..r
          BY <2>2, <3>5, <3>6
        <4> QED
          BY <4>1, <3>7, <2>3
      <3>9. w[h + 1] = c
        <4>1. h + 1 \in 1..(k + 1) /\ p + (h + 1) = r + 1
          BY <3>5, <3>6
        <4>2. w[h + 1] = t[p + (h + 1)]
          BY <4>1, <3>7
        <4> QED
          BY <4>1, <4>2, <2>3
      <3>10. \A i \in (h + 1)..k : w[i + 1] = u[i]
        <4> SUFFICES ASSUME NEW i \in (h + 1)..k PROVE w[i + 1] = u[i]
          OBVIOUS
        <4>1. i \in 1..k /\ i + 1 \in 1..(k + 1) /\ p + i \in (r + 1)..n /\ p + (i + 1) = (p + i) + 1
          BY <1>40, <2>2, <3>5, <3>6
        <4>2. w[i + 1] = t[p + (i + 1)] /\ u[i] = s[p + i]
          BY <4>1, <3>7
        <4> QED
          BY <4>1, <4>2, <2>3
      <3>11. h \in 1..k /\ u[h] \in K!WSP
        BY <2>1, <3>5, <3>6, <3>7
      <3>12. Inserted(w, u, h, c)
        BY <3>7, <3>8, <3>9, <3>10, <1>5 DEF Inserted
      <3> QED
        BY <3>7, <3>11, <3>12, <2>1, <1>4, <1>5 DEF Spaced
    <2> QED
      BY <2>2, <2>6, <2>7
  <1> QED
    BY <1>6, <1>7

(* White space at the end does not count. *)
LEMMA TrimRightAppend ==
  ASSUME K!DkimSignAssumption, NEW s \in Seq(Chars), NEW c \in K!WSP
  PROVE  K!TrimRight(Append(s, c)) = K!TrimRight(s)
  <1>1. c \in Chars
    BY DEF K!WSP, K!DkimSignAssumption
  <1>2. PICK t : t = Append(s, c) /\ Appended(t, s, c, Chars)
    BY <1>1, AppendParts
  <1>3. PICK n \in Nat : n = Len(s)
    OBVIOUS
  <1>4. t \in Seq(Chars) /\ Len(t) = n + 1 /\ t[n + 1] = c /\ \A i \in 1..n : t[i] = s[i]
    BY <1>2, <1>3 DEF Appended
  <1>5. PICK p \in Nat : EndsAt(s, p) /\ Part(K!TrimRight(s), s, 0, p, Chars)
    BY TrimRightIs
  <1>6. PICK q \in Nat : EndsAt(t, q) /\ Part(K!TrimRight(t), t, 0, q, Chars)
    BY <1>4, TrimRightIs
  <1>7. p <= n /\ (p # 0 => s[p] \notin K!WSP) /\ (\A i \in (p + 1)..n : s[i] \in K!WSP)
    BY <1>3, <1>5 DEF EndsAt
  <1>8. EndsAt(t, p)
    <2>1. p # 0 => t[p] \notin K!WSP
      BY <1>4, <1>7
    <2>2. ASSUME NEW i \in (p + 1)..(n + 1) PROVE t[i] \in K!WSP
      <3>1. CASE i = n + 1
        BY <3>1, <1>4
      <3>2. CASE i # n + 1
        <4>1. i \in (p + 1)..n /\ i \in 1..n
          BY <3>2, <1>7
        <4> QED
          BY <4>1, <1>4, <1>7
      <3> QED
        BY <3>1, <3>2
    <2> QED
      BY <2>1, <2>2, <1>4, <1>7 DEF EndsAt
  <1>9. q = p
    BY <1>4, <1>6, <1>8, EndsOnce
  <1>10. PICK u : u = K!TrimRight(s) /\ u \in Seq(Chars) /\ Len(u) = p /\ \A i \in 1..p : u[i] = s[i]
    BY <1>5 DEF Part
  <1>11. PICK w : w = K!TrimRight(t) /\ w \in Seq(Chars) /\ Len(w) = p /\ \A i \in 1..p : w[i] = t[i]
    BY <1>6, <1>9 DEF Part
  <1>12. \A i \in 1..p : u[i] = w[i]
    <2> SUFFICES ASSUME NEW i \in 1..p PROVE u[i] = w[i]
      OBVIOUS
    <2>1. i \in 1..n
      BY <1>7
    <2> QED
      BY <2>1, <1>4, <1>10, <1>11
  <1>13. u = w
    BY <1>10, <1>11, <1>12, SameParts
  <1> QED
    BY <1>2, <1>10, <1>11, <1>13


-----------------------------------------------------------------------------
(* The canonical form of a value and of a line. *)
Relaxed(v) == K!collapseWSP(K!TrimLeft(K!TrimRight(Unfolded(v))))
OneLine(l) == K!collapseWSP(K!TrimRight(l))

LEMMA CollapseType ==
  ASSUME K!DkimSignAssumption, NEW s \in Seq(Chars)
  PROVE  K!collapseWSP(s) \in Seq(Chars)
  <1>1. PICK u : u = Plain(s) /\ u \in Seq(Chars) /\ Len(u) = Len(s)
    BY PlainParts DEF IsPlain
  <1>2. PICK X : X = K!Begins(s) /\ X \in SUBSET (1..Len(u))
    BY <1>1, BeginsParts
  <1>3. K!Kept(u, X) \in Seq(Chars)
    BY <1>1, <1>2, KeptParts
  <1> QED
    BY <1>1, <1>2, <1>3 DEF K!collapseWSP, Plain, One

LEMMA OneLineType ==
  ASSUME K!DkimSignAssumption, NEW s \in Seq(Chars)
  PROVE  OneLine(s) \in Seq(Chars)
  <1>1. K!TrimRight(s) \in Seq(Chars)
    BY TrimRightIs DEF Part
  <1> QED
    BY <1>1, CollapseType DEF OneLine

LEMMA RelaxedSpaced ==
  ASSUME K!DkimSignAssumption, NEW s, NEW t, Spaced(s, t)
  PROVE  Relaxed(s) = Relaxed(t)
  <1>1. Spaced(Unfolded(s), Unfolded(t))
    BY JoinedSpaced
  <1>2. Spaced(K!TrimRight(Unfolded(s)), K!TrimRight(Unfolded(t)))
    BY <1>1, TrimRightSpaced
  <1>3. Spaced(K!TrimLeft(K!TrimRight(Unfolded(s))), K!TrimLeft(K!TrimRight(Unfolded(t))))
    BY <1>2, TrimLeftSpaced
  <1> QED
    BY <1>3, CollapseSpaced DEF Relaxed

LEMMA SpacesParts ==
  ASSUME NEW s \in Seq(Chars), NEW j \in K!Spaces(s)
  PROVE  j \in 1..Len(s) /\ s[j] \in K!WSP
  BY DEF K!Spaces

LEMMA InsertSpaced ==
  ASSUME K!DkimSignAssumption, NEW s \in Seq(Chars), NEW j \in K!Spaces(s), NEW c \in K!WSP
  PROVE  Spaced(s, K!Insert(s, j, c))
  <1>1. c \in Chars
    BY DEF K!WSP, K!DkimSignAssumption
  <1>2. j \in 1..Len(s) /\ s[j] \in K!WSP /\ j \in 0..Len(s)
    BY SpacesParts
  <1>3. PICK t : t = K!Insert(s, j, c) /\ Inserted(t, s, j, c)
    BY <1>1, <1>2, InsertParts
  <1>4. t \in Seq(Chars)
    BY <1>3 DEF Inserted
  <1>5. Spaced(s, t)
    BY <1>2, <1>3, <1>4 DEF Spaced
  <1> QED
    BY <1>3, <1>5

Blanks == {" ", "t", "n"}
Spread(t, s, j, c) == t = K!Insert(s, j - (IF c = "n" THEN 1 ELSE 0), c)

(* What a relay does to a value leaves its canonical form. *)
LEMMA ValueChange ==
  ASSUME K!DkimSignAssumption, NEW s \in Seq(Chars), NEW j \in K!Spaces(s), NEW c \in Blanks, NEW t,
         Spread(t, s, j, c)
  PROVE  t \in Seq(Chars) /\ Relaxed(t) = Relaxed(s)
  <1>10. j \in 1..Len(s)
    BY SpacesParts
  <1>11. ASSUME NEW n \in Nat, NEW i \in 1..n PROVE i - 0 = i /\ i - 1 \in 0..n
    OBVIOUS
  <1>12. Len(s) \in Nat
    OBVIOUS
  <1>0. j - 0 = j /\ j - 1 \in 0..Len(s)
    BY <1>10, <1>11, <1>12
  <1>1. CASE c # "n"
    <2>1. t = K!Insert(s, j - 0, c)
      BY <1>1, Zenon DEF Spread
    <2>2. c \in K!WSP
      BY <1>1, Zenon DEF K!WSP, Blanks
    <2>3. t = K!Insert(s, j, c) /\ c \in K!WSP
      BY <1>0, <2>1, <2>2
    <2>4. Spaced(s, t)
      BY <2>3, InsertSpaced
    <2>5. Relaxed(s) = Relaxed(t)
      BY <2>4, RelaxedSpaced
    <2> QED
      BY <2>4, <2>5 DEF Spaced
  <1>2. CASE c = "n"
    <2>1. t = K!Insert(s, j - 1, c)
      BY <1>2, Zenon DEF Spread
    <2>2. PICK r : r = j - 1 /\ r \in 0..Len(s)
      BY <1>0, <2>1, Zenon
    <2>3. c \in Chars
      BY <1>2 DEF K!DkimSignAssumption
    <2>4. Inserted(t, s, r, "n")
      BY <1>2, <2>1, <2>2, <2>3, InsertParts
    <2>5. Unfolded(s) = Unfolded(t)
      BY <2>2, <2>4, JoinedFold
    <2> QED
      BY <2>4, <2>5 DEF Inserted, Relaxed
  <1> QED
    BY <1>1, <1>2

(* And to a line. *)
LEMMA LineInsert ==
  ASSUME K!DkimSignAssumption, NEW s \in Seq(Chars), NEW j \in K!Spaces(s), NEW c \in K!WSP, NEW t,
         t = K!Insert(s, j, c)
  PROVE  t \in Seq(Chars) /\ OneLine(t) = OneLine(s)
  <1>1. Spaced(s, t)
    BY InsertSpaced
  <1>2. Spaced(K!TrimRight(s), K!TrimRight(t))
    BY <1>1, TrimRightSpaced
  <1>3. OneLine(s) = OneLine(t)
    BY <1>2, CollapseSpaced DEF OneLine
  <1> QED
    BY <1>1, <1>3 DEF Spaced

LEMMA LineAppend ==
  ASSUME K!DkimSignAssumption, NEW s \in Seq(Chars), NEW c \in K!WSP, NEW t, t = Append(s, c)
  PROVE  t \in Seq(Chars) /\ OneLine(t) = OneLine(s)
  <1>1. c \in Chars
    BY DEF K!WSP, K!DkimSignAssumption
  <1>2. t \in Seq(Chars)
    BY <1>1
  <1>3. K!TrimRight(t) = K!TrimRight(s)
    BY TrimRightAppend
  <1> QED
    BY <1>2, <1>3 DEF OneLine

LEMMA LineEmpty ==
  ASSUME K!DkimSignAssumption, NEW s \in Seq(Chars), Len(s) = 0
  PROVE  Len(OneLine(s)) = 0 /\ OneLine(s) \in Seq(Chars)
  <1>1. PICK p \in Nat : EndsAt(s, p) /\ Part(K!TrimRight(s), s, 0, p, Chars)
    BY TrimRightIs
  <1>2. p = 0
    BY <1>1 DEF EndsAt
  <1>3. PICK t : t = K!TrimRight(s) /\ t \in Seq(Chars) /\ Len(t) = 0
    BY <1>1, <1>2 DEF Part
  <1>4. PICK u : u = Plain(t) /\ u \in Seq(Chars) /\ Len(u) = 0
    BY <1>3, PlainParts DEF IsPlain
  <1>5. PICK X : X = K!Begins(t) /\ X \in SUBSET (1..Len(t)) /\ X \in SUBSET (1..Len(u)) /\ X = {}
    BY <1>3, <1>4, BeginsParts
  <1>6. PICK e : Lists(e, X) /\ Keeps(K!Kept(u, X), u, e)
    BY <1>4, <1>5, KeptParts
  <1>7. e \in Seq(Nat) /\ Len(e) = 0
    <2>1. e \in Seq(Nat) /\ \A i \in 1..Len(e) : e[i] \in X
      BY <1>6 DEF Lists
    <2>2. PICK n \in Nat : n = Len(e)
      BY <2>1
    <2>3. ~(1 \in 1..n)
      BY <2>1, <2>2, <1>5
    <2> QED
      BY <2>1, <2>2, <2>3
  <1>8. PICK w : w = K!Kept(u, X) /\ w \in Seq(Chars) /\ DOMAIN w = 1..0
    <2>1. DOMAIN K!Kept(u, X) = 1..0
      BY <1>6, <1>7 DEF Keeps
    <2> QED
      BY <2>1, <1>4, <1>5, KeptParts
  <1>9. Len(w) = 0
    BY <1>8
  <1>10. OneLine(s) = w
    BY <1>3, <1>4, <1>5, <1>8 DEF OneLine, K!collapseWSP, Plain, One
  <1> QED
    BY <1>8, <1>9, <1>10


-----------------------------------------------------------------------------
(* The canonical body. *)
Lines(b) == [i \in DOMAIN b |-> OneLine(b[i])]
Used(out) == {i \in DOMAIN out : out[i] # <<>>}
LastOf(X) == IF X = {} THEN 0 ELSE CHOOSE i \in X : \A j \in X : j <= i
LastUsed(out) == LastOf(Used(out))

LEMMA LastOfIn ==
  ASSUME NEW n \in Nat, NEW X \in SUBSET (1..n)
  PROVE  LastOf(X) \in 0..n
  <1>1. CASE X = {}
    BY <1>1 DEF LastOf
  <1>2. CASE X # {}
    <2>1. PICK f : f \in [X -> Nat] /\ \A x \in X : f[x] = n - x
      <3>1. \A x \in X : n - x \in Nat
        OBVIOUS
      <3>2. [x \in X |-> n - x] \in [X -> Nat] /\ \A x \in X : [y \in X |-> n - y][x] = n - x
        BY <3>1
      <3> QED
        BY <3>2, Zenon
    <2>2. PICK x \in X : \A y \in X : f[x] <= f[y]
      BY <1>2, <2>1, LeastValue
    <2>3. \A y \in X : y <= x
      <3> SUFFICES ASSUME NEW y \in X PROVE y <= x
        OBVIOUS
      <3>1. n - x <= n - y
        BY <2>1, <2>2
      <3>2. x \in 1..n /\ y \in 1..n
        OBVIOUS
      <3>3. ASSUME NEW i \in 1..n, NEW j \in 1..n, n - i <= n - j PROVE j <= i
        BY <3>3
      <3> QED
        BY <3>1, <3>2, <3>3
    <2>4. LastOf(X) = CHOOSE i \in X : \A j \in X : j <= i
      BY <1>2 DEF LastOf
    <2>5. LastOf(X) \in X
      BY <2>3, <2>4
    <2>6. \A k \in X : k \in 0..n
      OBVIOUS
    <2> QED
      BY <2>5, <2>6, Zenon
  <1> QED
    BY <1>1, <1>2

LEMMA BodyIs ==
  ASSUME NEW b
  PROVE  K!relaxedBody(b) = SubSeq(Lines(b), 1, LastUsed(Lines(b)))
  BY DEF K!relaxedBody, Lines, Used, LastUsed, LastOf, OneLine

LinesOf(out, b) == out \in Seq(Seq(Chars)) /\ Len(out) = Len(b) /\ \A i \in 1..Len(b) : out[i] = OneLine(b[i])

LEMMA LinesParts ==
  ASSUME K!DkimSignAssumption, NEW b \in Seq(Seq(Chars))
  PROVE  LinesOf(Lines(b), b)
  <1>2. PICK n \in Nat : n = Len(b) /\ DOMAIN b = 1..n
    OBVIOUS
  <1>3. Lines(b) = [i \in 1..n |-> OneLine(b[i])]
    BY <1>2 DEF Lines
  <1>4. \A i \in 1..n : OneLine(b[i]) \in Seq(Chars)
    <2> SUFFICES ASSUME NEW i \in 1..n PROVE OneLine(b[i]) \in Seq(Chars)
      OBVIOUS
    <2>1. b[i] \in Seq(Chars)
      BY <1>2
    <2> QED
      BY <2>1, OneLineType
  <1>5. Lines(b) \in [1..n -> Seq(Chars)]
    BY <1>3, <1>4
  <1>6. Lines(b) \in Seq(Seq(Chars)) /\ Len(Lines(b)) = n
    BY <1>5
  <1> QED
    BY <1>2, <1>3, <1>6 DEF LinesOf

(* Lines whose canonical forms stay. *)
LEMMA BodySame ==
  ASSUME K!DkimSignAssumption, NEW b \in Seq(Seq(Chars)), NEW d \in Seq(Seq(Chars)), Len(d) = Len(b),
         \A i \in 1..Len(b) : OneLine(d[i]) = OneLine(b[i])
  PROVE  K!relaxedBody(d) = K!relaxedBody(b)
  <1>1. PICK n \in Nat : n = Len(b) /\ DOMAIN b = 1..n /\ DOMAIN d = 1..n
    OBVIOUS
  <1>2. Lines(b) = [i \in 1..n |-> OneLine(b[i])] /\ Lines(d) = [i \in 1..n |-> OneLine(d[i])]
    BY <1>1 DEF Lines
  <1>3. \A i \in 1..n : OneLine(d[i]) = OneLine(b[i])
    BY <1>1
  <1>4. Lines(b) = Lines(d)
    BY <1>2, <1>3
  <1> QED
    BY <1>4, BodyIs

LEMMA LineChanged ==
  ASSUME K!DkimSignAssumption, NEW b \in Seq(Seq(Chars)), NEW i \in 1..Len(b), NEW l \in Seq(Chars), OneLine(l) = OneLine(b[i])
  PROVE  /\ [b EXCEPT ![i] = l] \in Seq(Seq(Chars)) /\ K!relaxedBody([b EXCEPT ![i] = l]) = K!relaxedBody(b)
  <1>1. PICK n \in Nat : n = Len(b) /\ DOMAIN b = 1..n
    OBVIOUS
  <1>2. PICK d : d = [b EXCEPT ![i] = l]
    OBVIOUS
  <1>3. d \in Seq(Seq(Chars)) /\ Len(d) = n /\ \A j \in 1..n : d[j] = IF j = i THEN l ELSE b[j]
    BY <1>1, <1>2
  <1>4. \A j \in 1..n : OneLine(d[j]) = OneLine(b[j])
    BY <1>3
  <1>5. K!relaxedBody(d) = K!relaxedBody(b)
    BY <1>1, <1>3, <1>4, BodySame
  <1> QED
    BY <1>2, <1>3, <1>5

LEMMA SameSeqs ==
  ASSUME NEW S, NEW u \in Seq(S), NEW w \in Seq(S), NEW n \in Nat, Len(u) = n, Len(w) = n,
         \A i \in 1..n : u[i] = w[i]
  PROVE  u = w
  OBVIOUS

(* An empty line more at the end does not count. *)
LEMMA BodyAppend ==
  ASSUME K!DkimSignAssumption, NEW b \in Seq(Seq(Chars))
  PROVE  Append(b, <<>>) \in Seq(Seq(Chars)) /\ K!relaxedBody(Append(b, <<>>)) = K!relaxedBody(b)
  <1>1. PICK z : z = <<>> /\ z \in Seq(Chars) /\ Len(z) = 0
    <2>1. <<>> \in Seq(Chars) /\ Len(<<>>) = 0
      OBVIOUS
    <2> QED
      BY <2>1, Zenon
  <1>2. PICK d : d = Append(b, z) /\ Appended(d, b, z, Seq(Chars))
    BY <1>1, AppendParts
  <1>3. PICK n \in Nat : n = Len(b)
    OBVIOUS
  <1>4. d \in Seq(Seq(Chars)) /\ Len(d) = n + 1 /\ d[n + 1] = z /\ \A i \in 1..n : d[i] = b[i]
    BY <1>2, <1>3 DEF Appended
  <1>5. PICK u : u = Lines(b) /\ u \in Seq(Seq(Chars)) /\ Len(u) = n /\ DOMAIN u = 1..n /\ \A i \in 1..n : u[i] = OneLine(b[i])
    <2>1. LinesOf(Lines(b), b)
      BY LinesParts
    <2> QED
      BY <2>1, <1>3 DEF LinesOf
  <1>6. PICK w : w = Lines(d) /\ w \in Seq(Seq(Chars)) /\ Len(w) = n + 1 /\ \A i \in 1..(n + 1) : w[i] = OneLine(d[i])
    <2>1. LinesOf(Lines(d), d)
      BY <1>4, LinesParts
    <2> QED
      BY <2>1, <1>4 DEF LinesOf
  <1>7. \A i \in 1..n : w[i] = u[i]
    BY <1>4, <1>5, <1>6
  <1>8. w[n + 1] = z
    <2>1. w[n + 1] = OneLine(z)
      BY <1>4, <1>6
    <2>2. PICK x : x = OneLine(z) /\ x \in Seq(Chars) /\ Len(x) = 0
      BY <1>1, LineEmpty
    <2>3. x = z
      BY <2>2, <1>1, SameParts
    <2> QED
      BY <2>1, <2>2, <2>3
  <1>9. PICK U : U = {i \in 1..n : u[i] # z} /\ U = Used(u)
    <2>1. Used(u) = {i \in DOMAIN u : u[i] # z}
      BY <1>1, Zenon DEF Used
    <2> QED
      BY <2>1, <1>5
  <1>10. Used(w) = U
    <2>1. Used(w) = {i \in DOMAIN w : w[i] # z}
      BY <1>1, Zenon DEF Used
    <2>2. DOMAIN w = 1..(n + 1)
      BY <1>6
    <2>3. \A i \in 1..(n + 1) : i \in 1..n \/ i = n + 1
      OBVIOUS
    <2>4. \A i \in 1..n : i \in 1..(n + 1)
      OBVIOUS
    <2> QED
      BY <2>1, <2>2, <2>3, <2>4, <1>7, <1>8, <1>9
  <1>11. PICK k : k = LastUsed(u) /\ k = LastUsed(w)
    BY <1>9, <1>10 DEF LastUsed
  <1>12. k \in 0..n
    <2>1. U \in SUBSET (1..n)
      BY <1>9
    <2> QED
      BY <2>1, <1>9, <1>11, LastOfIn DEF LastUsed
  <1>13. k \in Nat /\ 0 + 1 = 1 /\ k \in 0..Len(u) /\ k \in 0..Len(w)
    BY <1>5, <1>6, <1>12
  <1>14. PICK x : x = SubSeq(u, 0 + 1, k) /\ Part(x, u, 0, k, Seq(Chars))
    BY <1>5, <1>13, PartIs
  <1>15. PICK y : y = SubSeq(w, 0 + 1, k) /\ Part(y, w, 0, k, Seq(Chars))
    BY <1>6, <1>13, PartIs
  <1>16. x \in Seq(Seq(Chars)) /\ Len(x) = k /\ \A i \in 1..k : x[i] = u[i]
    BY <1>13, <1>14 DEF Part
  <1>17. y \in Seq(Seq(Chars)) /\ Len(y) = k /\ \A i \in 1..k : y[i] = w[i]
    BY <1>13, <1>15 DEF Part
  <1>18. \A i \in 1..k : x[i] = y[i]
    <2> SUFFICES ASSUME NEW i \in 1..k PROVE x[i] = y[i]
      OBVIOUS
    <2>1. i \in 1..n
      BY <1>12
    <2> QED
      BY <2>1, <1>7, <1>16, <1>17
  <1>19. x = y
    BY <1>13, <1>16, <1>17, <1>18, SameSeqs
  <1>20. K!relaxedBody(b) = x /\ K!relaxedBody(d) = y
    BY <1>5, <1>6, <1>11, <1>13, <1>14, <1>15, BodyIs
  <1> QED
    BY <1>1, <1>2, <1>4, <1>19, <1>20, Zenon


-----------------------------------------------------------------------------
(* Counting fields. *)
LEMMA SameCount ==
  ASSUME NEW X, NEW Y, IsFiniteSet(X), NEW f \in [X -> Y],
         \A x, z \in X : f[x] = f[z] => x = z, \A y \in Y : \E x \in X : f[x] = y
  PROVE  IsFiniteSet(Y) /\ Cardinality(Y) = Cardinality(X)
  <1>1. ExistsBijection(X, Y)
    BY DEF ExistsBijection, Bijection, Injection, Surjection, IsInjective
  <1> QED
    BY <1>1, FS_Bijection

From(X, i) == {j \in X : j >= i}

LEMMA FromParts ==
  ASSUME NEW X, NEW i
  PROVE  From(X, i) \in SUBSET X /\ \A j \in X : j \in From(X, i) <=> j >= i
  BY DEF From

(* The field a verifier takes at the nth-th mention of a name. *)
Takes(fields, name, nth, form) ==
  /\ Cardinality(K!Named(fields, name)) >= nth
  /\ \E i \in K!Named(fields, name) :
       Cardinality(From(K!Named(fields, name), i)) = nth /\ K!relaxedHeader(fields[i]) = form
Nth(h, k) == Cardinality({j \in 1..k : h[j] = h[k]})

LEMMA FieldCount == \A X : K!Cardinality(X) = Cardinality(X)
  BY DEF K!Cardinality, Cardinality

LEMMA VerifiesIs ==
  ASSUME NEW s, NEW m
  PROVE  K!Verifies(s, m) <=> /\ s.bh = K!relaxedBody(m.lines)
                              /\ \A k \in DOMAIN s.h : Takes(m.fields, s.h[k], Nth(s.h, k), s.b[k])
  <1> DEFINE NthOf(k) == K!Cardinality({j \in 1..k : s.h[j] = s.h[k]})
             TakesOf(k, nth) ==
               /\ K!Cardinality(K!Named(m.fields, s.h[k])) >= nth
               /\ \E i \in K!Named(m.fields, s.h[k]) :
                    /\ K!Cardinality(From(K!Named(m.fields, s.h[k]), i)) = nth
                    /\ K!relaxedHeader(m.fields[i]) = s.b[k]
  <1>1. K!Verifies(s, m) <=> s.bh = K!relaxedBody(m.lines) /\ \A k \in DOMAIN s.h : TakesOf(k, NthOf(k))
    BY DEF K!Verifies, From
  <1>2. \A k : NthOf(k) = Nth(s.h, k)
    BY FieldCount DEF Nth
  <1>3. \A k, nth : TakesOf(k, nth) <=> Takes(m.fields, s.h[k], nth, s.b[k])
    BY FieldCount DEF Takes
  <1> HIDE DEF NthOf, TakesOf
  <1> QED
    BY <1>1, <1>2, <1>3

LEMMA NamedParts ==
  ASSUME NEW fields \in Seq(K!Fields), NEW name
  PROVE  /\ K!Named(fields, name) \in SUBSET (1..Len(fields)) /\ IsFiniteSet(K!Named(fields, name))
         /\ \A i \in 1..Len(fields) : i \in K!Named(fields, name) <=> fields[i].name = name
  <1>1. PICK n \in Nat : n = Len(fields) /\ DOMAIN fields = 1..n
    OBVIOUS
  <1>2. K!Named(fields, name) = {i \in 1..n : fields[i].name = name}
    BY <1>1 DEF K!Named
  <1>3. IsFiniteSet(1..n)
    BY FS_Interval
  <1>4. K!Named(fields, name) \in SUBSET (1..n)
    BY <1>2
  <1>5. IsFiniteSet(K!Named(fields, name))
    BY <1>3, <1>4, FS_Subset
  <1> QED
    BY <1>1, <1>2, <1>4, <1>5

(* The same fields in the same places, in the same canonical form. *)
LEMMA TakesSame ==
  ASSUME NEW a \in Seq(K!Fields), NEW b \in Seq(K!Fields), Len(b) = Len(a),
         \A i \in 1..Len(a) : b[i].name = a[i].name /\ K!relaxedHeader(b[i]) = K!relaxedHeader(a[i]),
         NEW name, NEW nth, NEW form, Takes(a, name, nth, form)
  PROVE  Takes(b, name, nth, form)
  <1>1. K!Named(a, name) = K!Named(b, name)
    <2>1. K!Named(a, name) \in SUBSET (1..Len(a)) /\ \A i \in 1..Len(a) : i \in K!Named(a, name) <=> a[i].name = name
      BY NamedParts
    <2>2. K!Named(b, name) \in SUBSET (1..Len(a)) /\ \A i \in 1..Len(a) : i \in K!Named(b, name) <=> b[i].name = name
      BY NamedParts
    <2> QED
      BY <2>1, <2>2
  <1>2. \A i \in K!Named(a, name) : i \in 1..Len(a)
    BY NamedParts
  <1> QED
    BY <1>1, <1>2 DEF Takes

OnTop(b, f, a) ==
  b \in Seq(K!Fields) /\ Len(b) = Len(a) + 1 /\ b[1] = f /\ \A i \in 1..Len(a) : b[i + 1] = a[i]

LEMMA OnTopIs ==
  ASSUME NEW a \in Seq(K!Fields), NEW f \in K!Fields
  PROVE  OnTop(<<f>> \o a, f, a)
  <1>1. PICK d : d = <<f>> /\ d \in Seq(K!Fields) /\ Len(d) = 1 /\ d[1] = f
    <2>1. <<f>> \in Seq(K!Fields) /\ Len(<<f>>) = 1 /\ <<f>>[1] = f
      OBVIOUS
    <2> QED
      BY <2>1, Zenon
  <1>2. PICK n \in Nat : n = Len(a)
    OBVIOUS
  <1>3. PICK b : b = d \o a /\ After(b, d, a, K!Fields)
    BY <1>1, JoinIsAfter
  <1>4. b \in Seq(K!Fields) /\ Len(b) = 1 + n /\ (\A i \in 1..1 : b[i] = d[i]) /\ \A i \in 1..n : b[1 + i] = a[i]
    BY <1>1, <1>2, <1>3 DEF After
  <1>5. 1 \in 1..1 /\ 1 + n = n + 1 /\ \A i \in 1..n : 1 + i = i + 1
    OBVIOUS
  <1>6. OnTop(b, f, a)
    BY <1>1, <1>2, <1>4, <1>5 DEF OnTop
  <1> QED
    BY <1>1, <1>3, <1>6, Zenon

(* old field on top is taken by nobody who counts from below. *)
LEMMA TakesAhead ==
  ASSUME NEW a \in Seq(K!Fields), NEW f, NEW b, OnTop(b, f, a),
         NEW name, NEW nth, NEW form, Takes(a, name, nth, form)
  PROVE  Takes(b, name, nth, form)
  <1>1. PICK n \in Nat : n = Len(a)
    OBVIOUS
  <1>2. b \in Seq(K!Fields) /\ Len(b) = n + 1 /\ \A i \in 1..n : b[i + 1] = a[i]
    BY <1>1 DEF OnTop
  <1>3. PICK old : old = K!Named(a, name) /\ old \in SUBSET (1..n) /\ IsFiniteSet(old) /\ \A i \in 1..n : i \in old <=> a[i].name = name
    BY <1>1, NamedParts
  <1>4. PICK new : new = K!Named(b, name) /\ new \in SUBSET (1..(n + 1)) /\ IsFiniteSet(new)
                 /\ \A i \in 1..(n + 1) : i \in new <=> b[i].name = name
    BY <1>2, NamedParts
  <1>5. \A i \in 1..n : i + 1 \in 1..(n + 1) /\ (i \in old <=> i + 1 \in new)
    <2> SUFFICES ASSUME NEW i \in 1..n PROVE i + 1 \in 1..(n + 1) /\ (i \in old <=> i + 1 \in new)
      OBVIOUS
    <2>1. i + 1 \in 1..(n + 1)
      OBVIOUS
    <2>2. b[i + 1] = a[i]
      BY <1>2
    <2>3. i \in old <=> a[i].name = name
      BY <1>3
    <2>4. i + 1 \in new <=> b[i + 1].name = name
      BY <2>1, <1>4
    <2> QED
      BY <2>1, <2>2, <2>3, <2>4
  <1>6. PICK i \in old : Cardinality(From(old, i)) = nth /\ K!relaxedHeader(a[i]) = form
    BY <1>3 DEF Takes
  <1>7. i \in 1..n /\ i + 1 \in new /\ K!relaxedHeader(b[i + 1]) = form
    BY <1>2, <1>3, <1>5, <1>6
  <1>8. PICK X : X = From(old, i) /\ X \in SUBSET old /\ \A j \in old : j \in X <=> j >= i
    BY FromParts, Zenon
  <1>9. PICK Y : Y = From(new, i + 1) /\ Y \in SUBSET new /\ \A j \in new : j \in Y <=> j >= i + 1
    BY FromParts, Zenon
  <1>10. IsFiniteSet(X) /\ IsFiniteSet(Y) /\ Cardinality(Y) <= Cardinality(new)
    BY <1>3, <1>4, <1>8, <1>9, FS_Subset
  <1>11. PICK g : g = [x \in X |-> x + 1] /\ \A x \in X : g[x] = x + 1
    <2>1. \A x \in X : [y \in X |-> y + 1][x] = x + 1
      OBVIOUS
    <2> QED
      BY <2>1, Zenon
  <1>12. \A x \in X : x \in 1..n /\ x \in old /\ x >= i /\ x + 1 \in Y
    <2> SUFFICES ASSUME NEW x \in X PROVE x \in 1..n /\ x \in old /\ x >= i /\ x + 1 \in Y
      OBVIOUS
    <2>1. x \in old /\ x \in 1..n /\ x >= i
      BY <1>3, <1>8
    <2>2. x + 1 \in new /\ x + 1 >= i + 1
      BY <2>1, <1>5, <1>7
    <2> QED
      BY <2>1, <2>2, <1>9
  <1>13. g \in [X -> Y]
    BY <1>11, <1>12
  <1>14. \A x, z \in X : g[x] = g[z] => x = z
    BY <1>11, <1>12
  <1>15. ASSUME NEW y \in Y PROVE \E x \in X : g[x] = y
    <2>1. y \in new /\ y \in 1..(n + 1) /\ y >= i + 1
      BY <1>4, <1>9
    <2>2. y - 1 \in 1..n /\ (y - 1) + 1 = y /\ y - 1 >= i
      BY <2>1, <1>7
    <2>3. y - 1 \in old
      BY <2>1, <2>2, <1>5
    <2>4. y - 1 \in X
      BY <2>2, <2>3, <1>8
    <2> QED
      BY <2>2, <2>4, <1>11
  <1>16. Cardinality(Y) = nth
    <2>1. Cardinality(Y) = Cardinality(X)
      BY <1>10, <1>13, <1>14, <1>15, SameCount
    <2> QED
      BY <2>1, <1>6, <1>8
  <1>17. Cardinality(new) >= nth
    <2>1. Cardinality(new) \in Nat /\ Cardinality(Y) \in Nat
      BY <1>4, <1>10, FS_CardinalityType
    <2> QED
      BY <2>1, <1>10, <1>16
  <1> QED
    BY <1>4, <1>7, <1>9, <1>16, <1>17 DEF Takes


-----------------------------------------------------------------------------
(* One change in transit. *)
LEMMA MailParts ==
  ASSUME NEW m \in K!Mails
  PROVE  m.fields \in Seq(K!Fields) /\ m.lines \in Seq(Seq(Chars))
  BY DEF K!Mails

LEMMA FieldParts ==
  ASSUME NEW f \in K!Fields
  PROVE  f.name \in Names /\ f.value \in Seq(Chars)
  BY DEF K!Fields

IsMail(b, fields, lines) == b \in K!Mails /\ b.fields = fields /\ b.lines = lines

LEMMA NewFields ==
  ASSUME NEW m \in K!Mails, NEW x \in Seq(K!Fields), NEW b, b = [m EXCEPT !.fields = x]
  PROVE  IsMail(b, x, m.lines)
  BY DEF K!Mails, IsMail

LEMMA NewLines ==
  ASSUME NEW m \in K!Mails, NEW x \in Seq(Seq(Chars)), NEW b, b = [m EXCEPT !.lines = x]
  PROVE  IsMail(b, m.fields, x)
  BY DEF K!Mails, IsMail

(* What a verifier looks at: the body's canonical form and the fields. *)
Bears(a, b) ==
  /\ b \in K!Mails
  /\ K!relaxedBody(b.lines) = K!relaxedBody(a.lines)
  /\ \A name, nth, form : Takes(a.fields, name, nth, form) => Takes(b.fields, name, nth, form)

LEMMA BearsVerifies ==
  ASSUME NEW a, NEW b, Bears(a, b), NEW s, K!Verifies(s, a)
  PROVE  K!Verifies(s, b)
  <1>1. s.bh = K!relaxedBody(a.lines) /\ \A k \in DOMAIN s.h : Takes(a.fields, s.h[k], Nth(s.h, k), s.b[k])
    BY VerifiesIs
  <1>2. s.bh = K!relaxedBody(b.lines) /\ \A k \in DOMAIN s.h : Takes(b.fields, s.h[k], Nth(s.h, k), s.b[k])
    BY <1>1 DEF Bears
  <1> QED
    BY <1>2, VerifiesIs

LEMMA BearsTop ==
  ASSUME K!DkimSignAssumption, NEW m \in K!Mails, NEW f \in K!Fields, NEW b, b = [m EXCEPT !.fields = <<f>> \o m.fields]
  PROVE  Bears(m, b)
  <1>1. m.fields \in Seq(K!Fields)
    BY MailParts
  <1>2. PICK x : x = <<f>> \o m.fields /\ OnTop(x, f, m.fields)
    BY <1>1, OnTopIs, Zenon
  <1>3. x \in Seq(K!Fields)
    BY <1>2 DEF OnTop
  <1>4. b = [m EXCEPT !.fields = x]
    BY <1>2, Zenon
  <1>5. b \in K!Mails /\ b.fields = x /\ b.lines = m.lines
    BY <1>3, <1>4, NewFields, Zenon DEF IsMail
  <1>6. \A name, nth, form : Takes(m.fields, name, nth, form) => Takes(x, name, nth, form)
    BY <1>1, <1>2, TakesAhead
  <1> QED
    BY <1>5, <1>6 DEF Bears

HeaderOf(f) == [name |-> f.name, value |-> Relaxed(f.value)]

LEMMA HeaderIs ==
  ASSUME NEW f
  PROVE  K!relaxedHeader(f) = HeaderOf(f)
  BY DEF K!relaxedHeader, HeaderOf, Relaxed, Unfolded, Letters

LEMMA BearsValue ==
  ASSUME K!DkimSignAssumption, NEW m \in K!Mails, NEW i \in DOMAIN m.fields, NEW v \in Seq(Chars),
         Relaxed(v) = Relaxed(m.fields[i].value),
         NEW b, b = [m EXCEPT !.fields = [m.fields EXCEPT ![i] = [m.fields[i] EXCEPT !.value = v]]]
  PROVE  Bears(m, b)
  <1>1. PICK a : a = m.fields /\ a \in Seq(K!Fields)
    BY MailParts
  <1>2. PICK n \in Nat : n = Len(a) /\ DOMAIN a = 1..n /\ i \in 1..n
    BY <1>1
  <1>3. a[i] \in K!Fields
    BY <1>1, <1>2
  <1>4. PICK g : g = [a[i] EXCEPT !.value = v]
    OBVIOUS
  <1>5. g \in K!Fields /\ g.name = a[i].name /\ g.value = v
    BY <1>3, <1>4 DEF K!Fields
  <1>6. PICK x : x = [a EXCEPT ![i] = g]
    OBVIOUS
  <1>7. x \in Seq(K!Fields) /\ Len(x) = n /\ \A j \in 1..n : x[j] = IF j = i THEN g ELSE a[j]
    BY <1>1, <1>2, <1>5, <1>6
  <1>8. b \in K!Mails /\ b.fields = x /\ b.lines = m.lines
    <2>1. b = [m EXCEPT !.fields = x]
      BY <1>1, <1>4, <1>6
    <2> QED
      <3>1. x \in Seq(K!Fields)
        BY <1>7
      <3>2. IsMail(b, x, m.lines)
        BY <2>1, <3>1, NewFields, Zenon
      <3> QED
        BY <3>2, Zenon DEF IsMail
  <1>9. K!relaxedHeader(g) = K!relaxedHeader(a[i])
    <2>1. HeaderOf(g) = HeaderOf(a[i])
      BY <1>1, <1>5 DEF HeaderOf
    <2> QED
      BY <2>1, HeaderIs
  <1>10. \A j \in 1..n : x[j].name = a[j].name /\ K!relaxedHeader(x[j]) = K!relaxedHeader(a[j])
    BY <1>5, <1>7, <1>9
  <1>11. \A name, nth, form : Takes(a, name, nth, form) => Takes(x, name, nth, form)
    BY <1>1, <1>2, <1>7, <1>10, TakesSame
  <1> QED
    BY <1>1, <1>8, <1>11 DEF Bears

LEMMA BearsLine ==
  ASSUME K!DkimSignAssumption, NEW m \in K!Mails, NEW i \in DOMAIN m.lines, NEW l \in Seq(Chars),
         OneLine(l) = OneLine(m.lines[i]),
         NEW b, b = [m EXCEPT !.lines = [m.lines EXCEPT ![i] = l]]
  PROVE  Bears(m, b)
  <1>1. PICK a : a = m.lines /\ a \in Seq(Seq(Chars)) /\ i \in 1..Len(a)
    BY MailParts
  <1>2. PICK x : x = [a EXCEPT ![i] = l] /\ x \in Seq(Seq(Chars)) /\ K!relaxedBody(x) = K!relaxedBody(a)
    BY <1>1, LineChanged
  <1>3. b = [m EXCEPT !.lines = x]
    BY <1>1, <1>2
  <1> QED
    <2>1. b \in K!Mails /\ b.lines = x /\ b.fields = m.fields
      <3>1. x \in Seq(Seq(Chars))
        BY <1>2
      <3>2. IsMail(b, m.fields, x)
        BY <1>3, <3>1, NewLines, Zenon
      <3> QED
        BY <3>2, Zenon DEF IsMail
    <2> QED
      BY <1>1, <1>2, <2>1, Zenon DEF Bears

LEMMA BearsBreak ==
  ASSUME K!DkimSignAssumption, NEW m \in K!Mails, NEW b, b = [m EXCEPT !.lines = Append(m.lines, <<>>)]
  PROVE  Bears(m, b)
  <1>1. m.lines \in Seq(Seq(Chars))
    BY MailParts
  <1>2. PICK x : x = Append(m.lines, <<>>) /\ x \in Seq(Seq(Chars)) /\ K!relaxedBody(x) = K!relaxedBody(m.lines)
    BY <1>1, BodyAppend, Zenon
  <1>3. b = [m EXCEPT !.lines = x]
    BY <1>2, Zenon
  <1> QED
    <2>1. b \in K!Mails /\ b.lines = x /\ b.fields = m.fields
      <3>1. x \in Seq(Seq(Chars))
        BY <1>2
      <3>2. IsMail(b, m.fields, x)
        BY <1>3, <3>1, NewLines, Zenon
      <3> QED
        BY <3>2, Zenon DEF IsMail
    <2> QED
      BY <1>2, <2>1, Zenon DEF Bears

LEMMA RelayBears ==
  ASSUME K!DkimSignAssumption, kMsg \in K!Mails, K!RelayChanges
  PROVE  Bears(kMsg, kMsg')
  <1>1. ASSUME NEW name \in {"received", "subject"},
               kMsg' = [kMsg EXCEPT !.fields = <<[name |-> name, value |-> <<"b">>]>> \o kMsg.fields]
        PROVE  Bears(kMsg, kMsg')
    <2>1. name \in Names /\ "b" \in Chars
      BY DEF K!DkimSignAssumption
    <2>2. <<"b">> \in Seq(Chars)
      BY <2>1
    <2>3. PICK f : f = [name |-> name, value |-> <<"b">>] /\ f \in K!Fields
      <3>1. PICK v \in Seq(Chars) : v = <<"b">>
        BY <2>2, Zenon
      <3>2. [name |-> name, value |-> v] \in K!Fields
        BY <2>1 DEF K!Fields
      <3> QED
        BY <3>1, <3>2, Zenon
    <2>4. kMsg' = [kMsg EXCEPT !.fields = <<f>> \o kMsg.fields]
      BY <1>1, <2>3, Zenon
    <2> QED
      BY <2>3, <2>4, BearsTop
  <1>2. ASSUME NEW i \in DOMAIN kMsg.fields, NEW j \in K!Spaces(kMsg.fields[i].value), NEW c \in Blanks,
               kMsg' = K!WithValue(i, K!Insert(kMsg.fields[i].value, j - (IF c = "n" THEN 1 ELSE 0), c))
        PROVE  Bears(kMsg, kMsg')
    <2>1. PICK s : s = kMsg.fields[i].value /\ s \in Seq(Chars) /\ j \in K!Spaces(s)
      <3>1. kMsg.fields \in Seq(K!Fields)
        BY MailParts
      <3>2. kMsg.fields[i] \in K!Fields
        BY <3>1
      <3> QED
        BY <3>2, FieldParts
    <2>2. PICK t : t = K!Insert(s, j - (IF c = "n" THEN 1 ELSE 0), c)
      OBVIOUS
    <2>3. Spread(t, s, j, c) /\ kMsg' = K!WithValue(i, t)
      BY <1>2, <2>1, <2>2, Zenon DEF Spread
    <2>4. t \in Seq(Chars) /\ Relaxed(t) = Relaxed(s)
      BY <2>1, <2>3, ValueChange
    <2>5. kMsg' = [kMsg EXCEPT !.fields = [kMsg.fields EXCEPT ![i] = [kMsg.fields[i] EXCEPT !.value = t]]]
      BY <2>3 DEF K!WithValue
    <2> QED
      BY <2>1, <2>4, <2>5, BearsValue
  <1>3. ASSUME NEW i \in DOMAIN kMsg.lines, NEW c \in K!WSP, kMsg' = K!WithLine(i, Append(kMsg.lines[i], c))
        PROVE  Bears(kMsg, kMsg')
    <2>1. PICK s : s = kMsg.lines[i] /\ s \in Seq(Chars)
      <3>1. kMsg.lines \in Seq(Seq(Chars))
        BY MailParts
      <3> QED
        BY <3>1
    <2>2. PICK t : t = Append(s, c)
      OBVIOUS
    <2>3. t \in Seq(Chars) /\ OneLine(t) = OneLine(s)
      BY <2>1, <2>2, LineAppend
    <2>4. kMsg' = [kMsg EXCEPT !.lines = [kMsg.lines EXCEPT ![i] = t]]
      BY <1>3, <2>1, <2>2 DEF K!WithLine
    <2> QED
      BY <2>1, <2>3, <2>4, BearsLine
  <1>4. ASSUME NEW i \in DOMAIN kMsg.lines, NEW j \in K!Spaces(kMsg.lines[i]), NEW c \in K!WSP,
               kMsg' = K!WithLine(i, K!Insert(kMsg.lines[i], j, c))
        PROVE  Bears(kMsg, kMsg')
    <2>1. PICK s : s = kMsg.lines[i] /\ s \in Seq(Chars) /\ j \in K!Spaces(s)
      <3>1. kMsg.lines \in Seq(Seq(Chars))
        BY MailParts
      <3> QED
        BY <3>1
    <2>2. PICK t : t = K!Insert(s, j, c)
      OBVIOUS
    <2>3. t \in Seq(Chars) /\ OneLine(t) = OneLine(s)
      BY <2>1, <2>2, LineInsert
    <2>4. kMsg' = [kMsg EXCEPT !.lines = [kMsg.lines EXCEPT ![i] = t]]
      BY <1>4, <2>1, <2>2 DEF K!WithLine
    <2> QED
      BY <2>1, <2>3, <2>4, BearsLine
  <1>5. ASSUME kMsg' = [kMsg EXCEPT !.lines = Append(kMsg.lines, <<>>)]
        PROVE  Bears(kMsg, kMsg')
    BY <1>5, BearsBreak, Zenon
  <1> QED
    BY <1>1, <1>2, <1>3, <1>4, <1>5, Zenon DEF K!RelayChanges, Blanks


-----------------------------------------------------------------------------
(* What is signed: the fields of a name, from below. *)
FromBelow(q, fields, name) ==
  /\ q \in Seq(Nat)
  /\ \A k \in 1..Len(q) : /\ q[k] \in K!Named(fields, name)
                          /\ Cardinality(From(K!Named(fields, name), q[k])) = k
                          /\ Cardinality(K!Named(fields, name)) >= k

LEMMA InstancesBelow ==
  ASSUME NEW fields \in Seq(K!Fields), NEW name
  PROVE  FromBelow(K!Instances(fields, name), fields, name)
  <1>1. PICK n \in Nat : n = Len(fields)
    OBVIOUS
  <1>2. PICK old : old = K!Named(fields, name) /\ old \in SUBSET (1..n) /\ IsFiniteSet(old)
    BY <1>1, NamedParts
  <1>3. PICK d : d = K!InOrder(old, n) /\ Lists(d, old)
    BY <1>1, <1>2, InOrderLists
  <1>4. PICK m \in Nat : m = Len(d) /\ d \in Seq(Nat) /\ DOMAIN d = 1..m
    BY <1>3 DEF Lists
  <1>5. /\ \A i \in 1..m : d[i] \in old /\ d[i] \in Nat
        /\ \A i, j \in 1..m : i < j => d[i] < d[j]
    <2>1. \A i \in 1..m : d[i] \in Nat
      BY <1>4
    <2> QED
      BY <2>1, <1>3, <1>4 DEF Lists
  <1>6. PICK q : q = K!Instances(fields, name) /\ q = [k \in 1..m |-> d[m + 1 - k]]
    <2>1. K!Instances(fields, name) = [k \in 1..m |-> d[m + 1 - k]]
      BY <1>1, <1>2, <1>3, <1>4 DEF K!Instances
    <2> QED
      BY <2>1
  <1>7. \A k \in 1..m : m + 1 - k \in 1..m
    OBVIOUS
  <1>8. \A k \in 1..m : q[k] = d[m + 1 - k] /\ q[k] \in Nat /\ q[k] \in old
    BY <1>5, <1>6, <1>7
  <1>9. q \in Seq(Nat) /\ Len(q) = m
    <2>1. q \in [1..m -> Nat]
      BY <1>6, <1>8
    <2> QED
      BY <2>1
  <1>10. ASSUME NEW k \in 1..m PROVE Cardinality(From(old, q[k])) = k /\ Cardinality(old) >= k
    <2>1. PICK p : p = m + 1 - k /\ p \in 1..m /\ q[k] = d[p]
      BY <1>7, <1>8
    <2>2. PICK X : X = From(old, q[k]) /\ X \in SUBSET old /\ \A j \in old : j \in X <=> j >= q[k]
      BY FromParts, Zenon
    <2>3. IsFiniteSet(p..m) /\ Cardinality(p..m) = k
      <3>1. p \in Int /\ m \in Int /\ p <= m /\ m - p + 1 = k
        BY <2>1
      <3>2. IsFiniteSet(p..m) /\ Cardinality(p..m) = IF p > m THEN 0 ELSE m - p + 1
        BY <3>1, FS_Interval
      <3> QED
        BY <3>1, <3>2
    <2>4. PICK g : g = [i \in p..m |-> d[i]] /\ \A i \in p..m : g[i] = d[i]
      <3>1. \A i \in p..m : [j \in p..m |-> d[j]][i] = d[i]
        OBVIOUS
      <3> QED
        BY <3>1, Zenon
    <2>5. \A i \in p..m : i \in 1..m /\ d[i] \in old /\ d[i] \in Nat /\ d[i] >= d[p]
      <3> SUFFICES ASSUME NEW i \in p..m PROVE i \in 1..m /\ d[i] \in old /\ d[i] \in Nat /\ d[i] >= d[p]
        OBVIOUS
      <3>1. i \in 1..m /\ d[i] \in old /\ d[i] \in Nat /\ d[p] \in Nat
        BY <2>1, <1>5
      <3>2. CASE i = p
        BY <3>1, <3>2
      <3>3. CASE i # p
        <4>1. p < i
          BY <2>1, <3>3
        <4>2. d[p] < d[i]
          BY <4>1, <3>1, <2>1, <1>5
        <4> QED
          BY <3>1, <4>2
      <3> QED
        BY <3>2, <3>3
    <2>6. g \in [p..m -> X]
      <3>1. \A i \in p..m : d[i] \in X
        BY <2>1, <2>2, <2>5
      <3> QED
        BY <3>1, <2>4
    <2>7. \A x, z \in p..m : g[x] = g[z] => x = z
      <3> SUFFICES ASSUME NEW x \in p..m, NEW z \in p..m, g[x] = g[z] PROVE x = z
        OBVIOUS
      <3>1. x \in 1..m /\ z \in 1..m /\ d[x] = d[z] /\ d[x] \in Nat
        BY <2>4, <2>5
      <3>2. ~(x < z)
        BY <3>1, <1>5
      <3>3. ~(z < x)
        BY <3>1, <1>5
      <3> QED
        BY <3>1, <3>2, <3>3
    <2>8. ASSUME NEW y \in X PROVE \E x \in p..m : g[x] = y
      <3>1. y \in old /\ y >= d[p]
        BY <2>1, <2>2
      <3>2. PICK i \in 1..m : d[i] = y
        BY <3>1, <1>3, <1>4 DEF Lists
      <3>3. ~(i < p)
        <4> SUFFICES ASSUME i < p PROVE FALSE
          OBVIOUS
        <4>1. d[i] < d[p] /\ d[i] \in Nat /\ d[p] \in Nat
          BY <2>1, <1>5
        <4> QED
          BY <4>1, <3>1, <3>2
      <3>4. i \in p..m
        BY <2>1, <3>3
      <3> QED
        BY <3>2, <3>4, <2>4
    <2>9. IsFiniteSet(X) /\ Cardinality(X) = k
      BY <2>3, <2>6, <2>7, <2>8, SameCount
    <2>10. Cardinality(X) <= Cardinality(old) /\ Cardinality(old) \in Nat
      BY <1>2, <2>2, FS_Subset, FS_CardinalityType
    <2> QED
      BY <2>2, <2>9, <2>10
  <1> QED
    BY <1>2, <1>6, <1>8, <1>9, <1>10 DEF FromBelow

(* The names in h= and how often each came. *)
LEMMA NthOfFirst ==
  ASSUME NEW h, NEW k \in Nat, NEW name, \A j \in 1..k : h[j] = name
  PROVE  Nth(h, k) = k
  <1>1. CASE k = 0
    <2>1. {j \in 1..k : h[j] = h[k]} = {}
      BY <1>1
    <2> QED
      BY <1>1, <2>1, FS_EmptySet DEF Nth
  <1>2. CASE k # 0
    <2>1. {j \in 1..k : h[j] = h[k]} = 1..k
      <3>1. k \in 1..k
        BY <1>2
      <3> QED
        BY <3>1
    <2>2. Cardinality(1..k) = k
      <3>1. Cardinality(1..k) = IF 1 > k THEN 0 ELSE k - 1 + 1
        BY FS_Interval
      <3> QED
        BY <3>1, <1>2
    <2> QED
      BY <2>1, <2>2 DEF Nth
  <1> QED
    BY <1>1, <1>2

TwoNames(h, a, k, x, y) ==
  x # y /\ (\A j \in 1..a : h[j] = x) /\ (\A j \in (a + 1)..k : h[j] = y)

LEMMA NthOfSecond ==
  ASSUME NEW h, NEW a \in Nat, NEW k \in Nat, k > a, NEW x, NEW y, TwoNames(h, a, k, x, y)
  PROVE  Nth(h, k) = k - a
  <1>0. x # y /\ (\A j \in 1..a : h[j] = x) /\ (\A j \in (a + 1)..k : h[j] = y)
    BY DEF TwoNames
  <1>1. {j \in 1..k : h[j] = h[k]} = (a + 1)..k
    <2>1. k \in (a + 1)..k /\ h[k] = y
      BY <1>0
    <2>2. \A j \in 1..k : j \in 1..a \/ j \in (a + 1)..k
      OBVIOUS
    <2>3. \A j \in (a + 1)..k : j \in 1..k
      OBVIOUS
    <2>4. \A j \in 1..a : j \notin (a + 1)..k
      OBVIOUS
    <2> QED
      BY <1>0, <2>1, <2>2, <2>3, <2>4
  <1>2. Cardinality((a + 1)..k) = k - a
    <2>1. a + 1 \in Int /\ k \in Int /\ ~(a + 1 > k) /\ k - (a + 1) + 1 = k - a
      OBVIOUS
    <2>2. Cardinality((a + 1)..k) = IF a + 1 > k THEN 0 ELSE k - (a + 1) + 1
      BY <2>1, FS_Interval
    <2> QED
      BY <2>1, <2>2
  <1> QED
    BY <1>1, <1>2 DEF Nth

LEMMA SignedVerifies ==
  ASSUME NEW m \in K!Mails
  PROVE  K!Verifies(K!buildSignatureHeader(m, K!selectHeaders(m.fields)), m)
  <1>1. PICK fields : fields = m.fields /\ fields \in Seq(K!Fields)
    BY MailParts
  <1>2. PICK u : u = K!Instances(fields, "from") /\ FromBelow(u, fields, "from")
    BY <1>1, InstancesBelow
  <1>3. PICK w : w = K!Instances(fields, "subject") /\ FromBelow(w, fields, "subject")
    BY <1>1, InstancesBelow
  <1>4. PICK a \in Nat, b \in Nat : a = Len(u) /\ b = Len(w) /\ u \in Seq(Nat) /\ w \in Seq(Nat)
    BY <1>2, <1>3 DEF FromBelow
  <1>5. PICK q : q = u \o w /\ After(q, u, w, Nat)
    BY <1>4, JoinIsAfter
  <1>6. q \in Seq(Nat) /\ Len(q) = a + b /\ (\A i \in 1..a : q[i] = u[i]) /\ \A i \in 1..b : q[a + i] = w[i]
    BY <1>4, <1>5 DEF After
  <1>7. q = K!selectHeaders(m.fields)
    <2>1. K!signedHeaders[1] = "from" /\ K!signedHeaders[2] = "subject"
      BY DEF K!signedHeaders
    <2> QED
      BY <2>1, <1>1, <1>2, <1>3, <1>5, Zenon DEF K!selectHeaders
  <1>8. PICK s : s = K!buildSignatureHeader(m, q) 
    OBVIOUS
  <1>9. PICK n \in Nat : n = a + b /\ DOMAIN q = 1..n
    BY <1>6
  <1>10. s = [h |-> [k \in 1..n |-> fields[q[k]].name], bh |-> K!relaxedBody(m.lines),
              b |-> [k \in 1..n |-> K!relaxedHeader(fields[q[k]])]]
    BY <1>1, <1>8, <1>9 DEF K!buildSignatureHeader
  <1>11. /\ s.bh = K!relaxedBody(m.lines) /\ DOMAIN s.h = 1..n
         /\ \A k \in 1..n : s.h[k] = fields[q[k]].name /\ s.b[k] = K!relaxedHeader(fields[q[k]])
    BY <1>10
  <1>12. ASSUME NEW k \in 1..a
         PROVE  /\ s.h[k] = "from" /\ q[k] \in K!Named(fields, "from") /\ Cardinality(From(K!Named(fields, "from"), q[k])) = k
                /\ Cardinality(K!Named(fields, "from")) >= k
    <2>1. k \in 1..n /\ q[k] = u[k]
      BY <1>6, <1>9
    <2>2. /\ u[k] \in K!Named(fields, "from") /\ Cardinality(From(K!Named(fields, "from"), u[k])) = k
          /\ Cardinality(K!Named(fields, "from")) >= k
      BY <1>2, <1>4 DEF FromBelow
    <2>3. fields[u[k]].name = "from"
      BY <2>2, <1>1, NamedParts
    <2> QED
      BY <2>1, <2>2, <2>3, <1>11
  <1>13. ASSUME NEW k \in (a + 1)..n
         PROVE  /\ s.h[k] = "subject" /\ q[k] \in K!Named(fields, "subject")
                /\ Cardinality(From(K!Named(fields, "subject"), q[k])) = k - a
                /\ Cardinality(K!Named(fields, "subject")) >= k - a
    <2>0. PICK i : i = k - a /\ i \in 1..b /\ a + i = k /\ k \in 1..n
      <3>1. k - a \in 1..b /\ a + (k - a) = k /\ k \in 1..n
        BY <1>9
      <3> QED
        BY <3>1
    <2>1. q[k] = w[i]
      BY <2>0, <1>6
    <2>2. /\ w[i] \in K!Named(fields, "subject") /\ Cardinality(From(K!Named(fields, "subject"), w[i])) = i
          /\ Cardinality(K!Named(fields, "subject")) >= i
      BY <2>0, <1>3, <1>4 DEF FromBelow
    <2>3. fields[w[i]].name = "subject"
      BY <2>2, <1>1, NamedParts
    <2> QED
      BY <2>0, <2>1, <2>2, <2>3, <1>11
  <1>14. ASSUME NEW k \in 1..n PROVE Takes(fields, s.h[k], Nth(s.h, k), s.b[k])
    <2>1. CASE k <= a
      <3>1. k \in 1..a /\ k \in Nat /\ \A j \in 1..k : j \in 1..a
        BY <2>1
      <3>2. \A j \in 1..k : s.h[j] = "from"
        BY <3>1, <1>12
      <3>3. Nth(s.h, k) = k
        BY <3>1, <3>2, NthOfFirst
      <3> QED
        BY <3>1, <3>3, <1>11, <1>12 DEF Takes
    <2>2. CASE k > a
      <3>1. k \in (a + 1)..n /\ k \in Nat /\ \A j \in (a + 1)..k : j \in (a + 1)..n
        BY <2>2
      <3>2. (\A j \in 1..a : s.h[j] = "from") /\ (\A j \in (a + 1)..k : s.h[j] = "subject") /\ "from" # "subject"
        BY <3>1, <1>12, <1>13
      <3>3. Nth(s.h, k) = k - a
        <4>1. PICK h, x, y : h = s.h /\ x = "from" /\ y = "subject"
          OBVIOUS
        <4>2. TwoNames(h, a, k, x, y)
          BY <3>2, <4>1 DEF TwoNames
        <4>3. Nth(h, k) = k - a
          BY <4>2, <3>1, <2>2, NthOfSecond
        <4> QED
          BY <4>1, <4>3
      <3> QED
        BY <3>1, <3>3, <1>11, <1>13 DEF Takes
    <2> QED
      BY <2>1, <2>2
  <1>15. K!Verifies(s, m)
    BY <1>1, <1>11, <1>14, VerifiesIs
  <1> QED
    BY <1>7, <1>8, <1>15

(* Whatever the state of the keyState. *)
LEMMA KeyOutcomes ==
  ASSUME NEW keyState \in K!KeyStates, NEW m
  PROVE  /\ K!SignMessage(keyState, m).sig = {} \/ K!SignMessage(keyState, m).sig = K!Sign(m)
         /\ K!SignMessage(keyState, m).outcome \in {"signed", "unsigned", "refused"}
  <1>1. CASE keyState = "none"
    <2>1. K!SignMessage(keyState, m) = [outcome |-> "unsigned", sig |-> {}]
      BY <1>1 DEF K!SignMessage
    <2> QED
      BY <2>1
  <1>2. CASE keyState \in {"unavailable", "undecryptable", "invalid"}
    <2>1. K!SignMessage(keyState, m) = [outcome |-> "refused", sig |-> {}]
      BY <1>2 DEF K!SignMessage
    <2> QED
      BY <2>1
  <1>3. CASE keyState = "usable" /\ K!Sign(m) = {}
    <2>1. K!SignMessage(keyState, m) = [outcome |-> "refused", sig |-> {}]
      BY <1>3 DEF K!SignMessage
    <2> QED
      BY <2>1
  <1>4. CASE keyState = "usable" /\ K!Sign(m) # {}
    <2>1. K!SignMessage(keyState, m) = [outcome |-> "signed", sig |-> K!Sign(m)]
      BY <1>4 DEF K!SignMessage
    <2> QED
      BY <2>1
  <1> QED
    BY <1>1, <1>2, <1>3, <1>4 DEF K!KeyStates

LEMMA SignatureAlone == K!DkimSignAssumption /\ K!Spec => [](K!TypeOK /\ K!SignatureSurvives)
  <1> SUFFICES ASSUME K!DkimSignAssumption PROVE K!Spec => [](K!TypeOK /\ K!SignatureSurvives)
    OBVIOUS
  <1> DEFINE Inv == kMsg \in K!Mails /\ K!TypeOK /\ K!SignatureSurvives
  <1>1. K!Init => Inv
    <2> SUFFICES ASSUME K!Init PROVE Inv
      OBVIOUS
    <2>1. kMsg \in K!Mails /\ kChanges = 0 /\ MaxChanges \in Nat
      BY DEF K!Init, K!DkimSignAssumption
    <2>2. PICK keyState \in K!KeyStates : kSig = K!SignMessage(keyState, kMsg).sig /\ kOutcome = K!SignMessage(keyState, kMsg).outcome
      BY DEF K!Init
    <2>3. (kSig = {} \/ kSig = K!Sign(kMsg)) /\ kOutcome \in {"signed", "unsigned", "refused"}
      BY <2>2, KeyOutcomes
    <2>4. K!TypeOK
      BY <2>1, <2>3 DEF K!TypeOK
    <2>5. \A s \in K!Sign(kMsg) : s = K!buildSignatureHeader(kMsg, K!selectHeaders(kMsg.fields))
      BY Zenon DEF K!Sign
    <2>6. K!SignatureSurvives
      BY <2>1, <2>3, <2>5, SignedVerifies DEF K!SignatureSurvives
    <2> QED
      BY <2>1, <2>4, <2>6
  <1>2. Inv /\ [K!Next]_K!vars => Inv'
    <2> SUFFICES ASSUME Inv, [K!Next]_K!vars PROVE Inv'
      OBVIOUS
    <2>1. CASE K!RelayChanges
      <3>1. Bears(kMsg, kMsg')
        BY <2>1, RelayBears
      <3>2. kSig' = kSig /\ kOutcome' = kOutcome /\ kChanges < MaxChanges /\ kChanges' = kChanges + 1
        BY <2>1 DEF K!RelayChanges
      <3>3. K!TypeOK'
        <4>1. MaxChanges \in Nat
          BY Zenon DEF K!DkimSignAssumption
        <4>2. kChanges' \in 0..MaxChanges /\ kOutcome' \in {"signed", "unsigned", "refused"}
          BY <3>2, <4>1 DEF K!TypeOK
        <4> QED
          BY <4>2 DEF K!TypeOK
      <3>4. \A s \in kSig : K!Verifies(s, kMsg')
        BY <3>1, BearsVerifies DEF K!SignatureSurvives
      <3>5. K!SignatureSurvives'
        BY <3>2, <3>4 DEF K!SignatureSurvives
      <3> QED
        BY <3>1, <3>3, <3>5 DEF Bears
    <2>2. CASE UNCHANGED K!vars
      BY <2>2 DEF K!vars, K!TypeOK, K!SignatureSurvives
    <2> QED
      BY <2>1, <2>2 DEF K!Next
  <1>3. Inv => K!TypeOK /\ K!SignatureSurvives
    OBVIOUS
  <1> QED
    BY <1>1, <1>2, <1>3, PTL DEF K!Spec

-----------------------------------------------------------------------------
(* The composition.                                                         *)

(* A report MailX wrote reads back as its recipients, however many, blaming  *)
(* only the one refused; an address is suppressed for a bounce or complaint  *)
(* only by a recorded report that qualifies, and a retried or concurrent     *)
(* report adds no event without its row (Generate, ParseDSN,                *)
(* ProcessFeedback).                                                       *)
THEOREM FeedbackStaysSound == Spec => []FeedbackIsSound
  BY MailIsComposed, FeedbackAlone, MailAssumption, PTL DEF MailAssumption, FeedbackIsSound, ReportsReadBack

(* However often a message is retried, its delay is base * 2^(n-1) or the    *)
(* maximum, computed without wrapping, and jitter changes it by no more than *)
(* its percentage and not beyond the maximum or below a second               *)
(* (BackoffPolicy.Delay, Jitter).                                          *)
THEOREM DelaysAreExact == Spec => []DelayIsExact
  BY MailIsComposed, BackoffAlone, MailAssumption, PTL DEF MailAssumption, DelayIsExact

(* Whoever publishes the SPF record MailX advised is verified at the next    *)
(* check, whatever the record before it authorized or denied, unless it has  *)
(* more terms than Parse accepts (Merge, Analyze, createExpected).          *)
THEOREM AdvisedRecordsVerify == Spec => []AdviceVerifies
  BY MailIsComposed, SpfAlone, MailAssumption, PTL DEF MailAssumption, AdviceVerifies

(* All that MailX concludes from DNS holds.  Beside the two results above:   *)
(* the walk for the DMARC policy of a domain with any number of labels finds *)
(* its organization whatever the names publish, a signing domain on the way  *)
(* ends its own walk at the same place, and a DMARC record means the same in *)
(* every order of its tags (treeWalk, resolve, Aligned, Parse, scanPSD).    *)
THEOREM DnsConclusionsAreRight == Spec => []DnsConclusionsHold
  BY MailIsComposed, VerifiedDomainsWereProven, AdvisedRecordsVerify, DmarcAlone, MailAssumption, PTL
  DEF MailAssumption, DnsConclusionsHold

(* Any text sent over DATA arrives as it was, in CRLF form, however the      *)
(* reader's buffer cuts its lines, and is refused only and exactly when it   *)
(* exceeds the size limit; whatever other bytes arrive, a body that is       *)
(* accepted keeps the limit and has only whole lines (serializeForDATA,      *)
(* readData).                                                              *)
THEOREM DataStaysFaithful == Spec => []DataIsFaithful
  BY MailIsComposed, DataAlone, MailAssumption, PTL DEF MailAssumption, DataIsFaithful

(* What MailX signed verifies after any number of changes in transit: folds, *)
(* wider white space in values and lines, blank lines at the end, and fields *)
(* on top, also of a signed name (relaxedHeader, relaxedBody,                *)
(* selectHeaders).                                                         *)
THEOREM SignaturesSurvive == Spec => []SignatureSurvives
  BY MailIsComposed, SignatureAlone, MailAssumption, PTL DEF MailAssumption, SignatureSurvives
=============================================================================
