------------------------------ MODULE Backoff ------------------------------
(***************************************************************************)
(* The delay before the next delivery operation (retry/backoff.go): a        *)
(* schedule, or a base that doubles up to a maximum, spread by jitter.       *)
(* Durations are signed integers of a fixed width, which wrap.              *)
(***************************************************************************)
EXTENDS Integers, Sequences

CONSTANTS
  Half,             \* a duration is at least -Half and below Half, 2^63 in the code
  Second,           \* one second in the unit of a duration
  Policies,         \* BackoffPolicy: [schedule, base, max, jitter]
  Draws,            \* what the hash of a seed gives, -1000..1000 in the code
  MaxAttempts       \* bound

VARIABLES policy, attempt, delay, out

vars == <<policy, attempt, delay, out>>

Duration == (-Half)..(Half - 1)

(* A maximum that jitter works on can be multiplied by it (below 213 days   *)
(* in the code).                                                           *)
BackoffAssumption ==
  /\ Half \in Nat \ {0} /\ Second \in Nat /\ MaxAttempts \in Nat
  /\ Draws \subseteq (-1000)..1000
  /\ \A p \in Policies :
       /\ p.schedule \in Seq(Duration) /\ p.base \in Duration /\ p.max \in Duration
       /\ p.jitter \in Int /\ (p.jitter > 0 => 500 * p.max < Half)

Wrap(n) == LET m == n % (2 * Half) IN IF m >= Half THEN m - 2 * Half ELSE m
Min2(a, b) == IF a < b THEN a ELSE b

(* Mutant: the maximum is checked after doubling. *)
Doubled_Late(p, n) ==
  LET f[k \in 0..(n - 1)] ==
        IF k = 0 THEN p.base
        ELSE LET d == Wrap(f[k - 1] * 2) IN IF d > p.max THEN p.max ELSE d
  IN f[n - 1]

(* The loop of Delay: it stops at the maximum before it doubles. *)
Doubled(p, n) ==
  LET f[k \in 0..(n - 1)] ==
        IF k = 0 THEN p.base
        ELSE LET d == f[k - 1] IN IF d > p.max \div 2 THEN p.max ELSE Wrap(d * 2)
  IN f[n - 1]

(* 0 stands for the error of an invalid policy. *)
Delay(p, n) ==
  CASE p.schedule # <<>> -> LET d == p.schedule[Min2(n, Len(p.schedule))] IN IF d > 0 THEN d ELSE 0
    [] p.schedule = <<>> /\ (p.base <= 0 \/ p.max <= 0) -> 0
    [] p.schedule = <<>> /\ p.base > 0 /\ p.max > 0 /\ p.base >= p.max -> p.max
    [] OTHER -> Doubled(p, n)

Quotient(a, b) == IF a >= 0 THEN a \div b ELSE -((-a) \div b)     \* rounds to zero

(* u comes from a hash of the seed. *)
Jitter(p, d, u) ==
  LET pct == Min2(p.jitter, 50)
      spread == Wrap(d + Quotient(Wrap((d \div 100) * pct * u), 1000))
      capped == IF p.max > 0 /\ spread > p.max THEN p.max ELSE spread
  IN IF p.jitter <= 0 \/ d <= 0 THEN d ELSE IF capped < Second THEN Second ELSE capped

Init == policy \in Policies /\ attempt = 0 /\ delay = 0 /\ out = 0

(* NextSchedule after one more operation. *)
NextSchedule ==
  /\ attempt < MaxAttempts /\ attempt' = attempt + 1
  /\ delay' = Delay(policy, attempt + 1)
  /\ \E u \in Draws : out' = Jitter(policy, Delay(policy, attempt + 1), u)
  /\ UNCHANGED policy

Next == NextSchedule
Spec == Init /\ [][Next]_vars

(* Types. *)
TypeOK == attempt \in 0..MaxAttempts /\ policy \in Policies

(* The formula the documentation of Delay gives: base * 2^(n-1). *)
Power(p, n) ==
  LET f[k \in 0..(n - 1)] == IF k = 0 THEN p.base ELSE f[k - 1] * 2 IN f[n - 1]

(* The delay after n operations is the exact base * 2^(n-1), or the maximum  *)
(* where that is smaller, however long the message is retried: the doubling  *)
(* never wraps.  With jitter it stays within the percentage of that and      *)
(* within the maximum, unless a second is more.                            *)
DelayIsExact ==
  attempt > 0 /\ policy.schedule = <<>> /\ policy.base > 0 /\ policy.max > 0 =>
    /\ delay = Min2(Power(policy, attempt), policy.max)
    /\ policy.max >= Second => out <= policy.max
    /\ policy.jitter > 0 =>
         /\ out >= Second
         /\ out > Second => LET pct == Min2(policy.jitter, 50)
                            IN /\ 100 * out >= (100 - pct) * delay
                               /\ 100 * out <= (100 + pct) * delay
=============================================================================
