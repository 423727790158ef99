------------------------------ MODULE HeapProofs ------------------------------
(***************************************************************************)
(* The two parts that take memory from sbrk().  As long as only multiples  *)
(* of the alignment have been allocated, heap and stack do not overlap     *)
(* unreported, and whatever is allocated, the limit stays within the heap, *)
(* for every size of memory, of the alignment and of the frame.            *)
(* The profiler counts calls as it should for any number of functions,     *)
(* arcs and calls, and its blocks and the program's are apart.             *)
(***************************************************************************)
EXTENDS Stack, Profiler, FiniteSetTheorems, SequenceTheorems, WellFoundedInduction, TLAPS

-----------------------------------------------------------------------------
(* Heap and stack. *)


StackTypeOK ==
  /\ ALT_EXCEPTION_STACK \in BOOLEAN /\ exception \in BOOLEAN
  /\ brk \in Nat /\ sp \in Int
  /\ et \in Nat \cup {NoLimit}
  /\ alt_exception_old_stack_limit \in Nat \cup {NoLimit}

Aligned(bytes) == bytes % Alignment = 0

(* The limit that is kept for the program is never above the end of the    *)
(* heap.  As long as the heap ends at a multiple of the alignment, so that *)
(* rounding its end up changes nothing, the limit is where it ends.        *)
StackInv ==
  /\ StackTypeOK /\ unaligned \in BOOLEAN
  /\ LimitInHeap
  /\ ~unaligned => Aligned(brk) /\ (overflow = "none" => Limit = brk /\ brk <= sp)
-----------------------------------------------------------------------------
(* Quotient and remainder are what they are defined to be, and no other.   *)
LEMMA Division ==
  ASSUME NEW x \in Int, NEW b \in Nat \ {0}
  PROVE  /\ x \div b \in Int /\ x % b \in 0 .. b - 1
         /\ x = b * (x \div b) + (x % b)
OBVIOUS

LEMMA DivisionUnique ==
  ASSUME NEW b \in Nat \ {0}, NEW q \in Int, NEW r \in 0 .. b - 1,
         NEW x \in Int, x = b * q + r
  PROVE  x \div b = q /\ x % b = r
<1> DEFINE p == x \div b
           s == x % b
<1>1. p \in Int /\ s \in 0 .. b - 1 /\ x = b * p + s
  BY Division
<1> HIDE DEF p, s
<1>2. b * (p - q) = r - s /\ p - q \in Int
  BY <1>1
<1> DEFINE e == p - q
<1>3. e \in Int /\ b * e = r - s
  BY <1>2
<1> HIDE DEF e
<1>4. e < 1
  <2>1. e >= 1 => b * e >= b
    BY <1>3, SMTT(30)
  <2> QED BY <1>1, <1>3, <2>1
<1>5. e > -1
  <2>1. e <= -1 => b * e <= -b
    BY <1>3, SMTT(30)
  <2> QED BY <1>1, <1>3, <2>1
<1>6. e = 0
  BY <1>3, <1>4, <1>5
<1>7. p = q /\ r = s
  BY <1>1, <1>3, <1>6 DEF e
<1> QED BY <1>7 DEF p, s

(* A multiple of the alignment is not changed by rounding it up.           *)
LEMMA RoundedUp ==
  ASSUME NEW x \in Nat, NEW n \in Nat \ {0}, x % n = 0
  PROVE  ((x + n - 1) \div n) * n = x
<1> DEFINE q == x \div n
<1>1. q \in Nat /\ x = n * q
  OBVIOUS
<1>2. (x + n - 1) \div n = q
  BY <1>1, SMTT(30)
<1> QED BY <1>1, <1>2

(* Rounding up does not make a number smaller.                             *)
LEMMA NoSmaller ==
  ASSUME NEW x \in Nat, NEW n \in Nat \ {0}
  PROVE  ((x + n - 1) \div n) * n \in Nat /\ ((x + n - 1) \div n) * n >= x
<1> DEFINE y == x + n - 1
           q == y \div n
           r == y % n
<1>1. y \in Nat
  OBVIOUS
<1>2. q \in Int /\ r \in 0 .. n - 1 /\ y = n * q + r
  <2> HIDE DEF y
  <2> QED BY <1>1, Division
<1> HIDE DEF q, r
<1>3. q * n = n * q /\ n * q \in Int
  BY <1>2
<1> DEFINE z == n * q
<1>4. z \in Int /\ x + n - 1 = z + r
  BY <1>2, <1>3
<1> HIDE DEF z
<1>5. z \in Nat /\ z >= x
  BY <1>2, <1>4
<1> QED BY <1>3, <1>5 DEF z, q

(* The sum of two multiples is one.                                        *)
LEMMA SumOfMultiples ==
  ASSUME NEW x \in Nat, NEW y \in Nat, NEW n \in Nat \ {0}, x % n = 0, y % n = 0
  PROVE  (x + y) % n = 0
<1> DEFINE p == x \div n
           q == y \div n
<1>1. p \in Nat /\ x = n * p /\ q \in Nat /\ y = n * q
  OBVIOUS
<1>2. x + y = n * (p + q)
  BY <1>1
<1>3. (n * (p + q)) % n = 0
  BY <1>1, SMTT(30)
<1> QED BY <1>2, <1>3
-----------------------------------------------------------------------------
LEMMA InitStackInv == StackInit => StackInv
<1> USE StackAssumption
<1>1. Aligned(0)
  BY DEF Aligned
<1>2. StackInit => ~exception /\ ~OnOwnStack
  BY Zenon DEF StackInit, OnOwnStack
<1>3. StackInit => Limit = et
  BY <1>2, Zenon DEF Limit
<1>4. StackInit => StackTypeOK
  <2>1. StackInit => ALT_EXCEPTION_STACK \in BOOLEAN /\ exception \in BOOLEAN
    BY Zenon DEF StackInit
  <2>2. StackInit => /\ brk \in Nat /\ sp \in Int /\ et \in Nat
                     /\ alt_exception_old_stack_limit = NoLimit
    BY DEF StackInit
  <2> QED BY <2>1, <2>2, Zenon DEF StackTypeOK
<1>5. StackInit => Aligned(brk)
  BY <1>1, Zenon DEF StackInit
<1>6. StackInit => Limit = brk /\ brk <= sp /\ LimitInHeap
  BY <1>3 DEF StackInit, LimitInHeap
<1>7. StackInit => unaligned \in BOOLEAN
  BY Zenon DEF StackInit
<1> QED BY <1>4, <1>5, <1>6, <1>7, Zenon DEF StackInv

LEMMA NextStackInv == StackInv /\ [StackNext]_stackvars => StackInv'
<1> USE StackAssumption
<1> SUFFICES ASSUME StackInv, [StackNext]_stackvars PROVE StackInv'
  OBVIOUS
<1> USE DEF StackInv, StackTypeOK, Limit, OnOwnStack, LimitInHeap
<1>1. ASSUME NEW pointer \in 0 .. Top, Enter(pointer) PROVE StackInv'
  BY <1>1 DEF Enter
<1>2. ASSUME NEW pointer \in 0 .. Top, Leave(pointer) PROVE StackInv'
  BY <1>2 DEF Leave
<1>3. ASSUME NEW pointer \in 0 .. Top, LeaveException(pointer) PROVE StackInv'
  <2>1. CASE ALT_EXCEPTION_STACK
    BY <1>3, <2>1 DEF LeaveException
  <2>2. CASE ~ALT_EXCEPTION_STACK
    <3>1. sp' \in Int /\ sp' >= sp
      BY <1>3, <2>2 DEF LeaveException
    <3>2. ~OnOwnStack /\ ~OnOwnStack'
      BY <1>3, <2>2, Zenon DEF LeaveException
    <3>3. Limit = et /\ Limit' = et'
      BY <3>2, Zenon
    <3>4. StackTypeOK' /\ Limit' = Limit
      BY <1>3, <2>2, <3>1, <3>3 DEF LeaveException
    <3>5. UNCHANGED <<brk, overflow, unaligned>>
      BY <1>3 DEF LeaveException
    <3>6. Aligned(brk)' = Aligned(brk)
      BY <3>5, Zenon DEF Aligned
    <3> QED BY <3>1, <3>4, <3>5, <3>6
  <2> QED BY <2>1, <2>2
<1>4. ASSUME NEW incr \in Increments, Sbrk(incr) PROVE StackInv'
  <2> DEFINE start == ((brk + Alignment - 1) \div Alignment) * Alignment
  <2>1. start \in Nat /\ start >= brk
    BY NoSmaller
  <2>2. ~unaligned => start = brk
    BY RoundedUp DEF Aligned
  <2>3. incr \in Nat
    OBVIOUS
  <2>4. overflow = "none" /\ UNCHANGED <<ALT_EXCEPTION_STACK, sp, exception>>
    BY <1>4 DEF Sbrk
  <2>5. start + incr > Top =>
          brk' = start /\ UNCHANGED <<et, overflow, alt_exception_old_stack_limit, unaligned>>
    BY <1>4, Zenon DEF Sbrk
  <2>6. ~(start + incr > Top) =>
          /\ brk' = start + incr /\ CheckStack(start, brk')
          /\ unaligned' = (unaligned \/ incr % Alignment # 0)
    BY <1>4, Zenon DEF Sbrk
  <2> HIDE DEF start
  <2>7. CASE start + incr > Top
    <3>1. brk' = start /\ UNCHANGED <<et, overflow, alt_exception_old_stack_limit, unaligned>>
      BY <2>5, <2>7
    <3>2. Limit' = Limit
      BY <2>4, <3>1, Zenon
    <3>3. LimitInHeap' /\ StackTypeOK'
      BY <2>1, <2>4, <3>1, <3>2
    <3>4. ~unaligned => Aligned(brk)' /\ brk' = brk
      BY <2>2, <3>1, Zenon DEF Aligned
    <3> QED BY <2>4, <3>1, <3>2, <3>3, <3>4
  <2>8. CASE ~(start + incr > Top)
    <3>1. /\ brk' = start + incr /\ CheckStack(start, brk')
          /\ unaligned' = (unaligned \/ incr % Alignment # 0)
      BY <2>6, <2>8
    <3>2. StackTypeOK' /\ brk' \in Nat
      BY <2>1, <2>3, <2>4, <3>1 DEF CheckStack
    <3>3. unaligned' \in BOOLEAN
      BY <3>1, Zenon
    <3>4. ~unaligned' => ~unaligned /\ brk' = brk + incr /\ Aligned(brk)'
      <4>1. ~unaligned' => ~unaligned /\ incr % Alignment = 0
        BY <3>1, Zenon
      <4>2. ~unaligned' => brk' = brk + incr /\ brk % Alignment = 0
        BY <2>2, <3>1, <4>1 DEF Aligned
      <4>3. ~unaligned' => brk' % Alignment = 0
        <5> SUFFICES ASSUME ~unaligned' PROVE brk' % Alignment = 0
          OBVIOUS
        <5>1. brk \in Nat /\ brk % Alignment = 0 /\ incr % Alignment = 0 /\ Alignment \in Nat \ {0}
          BY <4>1, <4>2
        <5>2. (brk + incr) % Alignment = 0
          BY <2>3, <5>1, SumOfMultiples
        <5> QED BY <4>2, <5>2
      <4> QED BY <4>1, <4>2, <4>3, Zenon DEF Aligned
    <3>5. CASE OnOwnStack
      <4>1. OnOwnStack' /\ Limit = alt_exception_old_stack_limit
            /\ Limit' = alt_exception_old_stack_limit'
        BY <2>4, <3>5, Zenon
      <4>2. Limit = start => Limit' = brk' /\ overflow' = "exception"
        BY <2>1, <2>3, <2>4, <3>1, <3>5, <4>1 DEF CheckStack
      <4>3. Limit # start => Limit' = Limit
        BY <3>1, <3>5, <4>1, Zenon DEF CheckStack
      <4>4. LimitInHeap'
        BY <2>1, <2>3, <3>1, <3>2, <4>2, <4>3
      <4>5. ~unaligned' => overflow' # "none"
        BY <2>2, <2>4, <3>4, <4>2
      <4> QED BY <3>2, <3>3, <3>4, <4>4, <4>5
    <3>6. CASE ~OnOwnStack
      <4>1. ~OnOwnStack' /\ Limit = et /\ Limit' = et'
        BY <2>4, <3>6, Zenon
      <4>2. et = start => et' = brk' /\ (overflow' = "none" => sp > brk')
        BY <2>1, <2>3, <2>4, <3>1, <3>6 DEF CheckStack
      <4>3. et # start => et' = et
        BY <3>1, <3>6, Zenon DEF CheckStack
      <4>4. LimitInHeap'
        BY <2>1, <2>3, <3>1, <3>2, <4>1, <4>2, <4>3
      <4>5. ~unaligned' => Limit' = brk' /\ (overflow' = "none" => brk' <= sp')
        BY <2>2, <2>4, <3>2, <3>4, <4>1, <4>2
      <4> QED BY <3>2, <3>3, <3>4, <4>4, <4>5
    <3> QED BY <3>5, <3>6
  <2> QED BY <2>7, <2>8
<1>5. CASE EnterException
  BY <1>5 DEF EnterException
<1>6. CASE UNCHANGED stackvars
  BY <1>6 DEF stackvars
<1> QED BY <1>1, <1>2, <1>3, <1>4, <1>5, <1>6 DEF StackNext

(* Until a number of bytes is allocated that is not aligned, the limit of  *)
(* the program's stack is where the heap ends and the stack pointer is     *)
(* above both, unless an overflow is reported, wherever sbrk() was called  *)
(* from; and whatever is allocated the limit is never above the heap       *)
(* (alt_sbrk.c:79, 97-131).                                                *)
THEOREM HeapMeetsNoStackAlways == StackSpec => [](HeapMeetsNoStack /\ LimitInHeap)
<1>1. StackInv => HeapMeetsNoStack /\ LimitInHeap
  <2>1. StackInv => LimitInHeap
    BY Zenon DEF StackInv
  <2>2. StackInv => HeapMeetsNoStack
    BY DEF StackInv, HeapMeetsNoStack
  <2> QED BY <2>1, <2>2
<1> QED BY <1>1, InitStackInv, NextStackInv, PTL DEF StackSpec

-----------------------------------------------------------------------------
(* Numbers, sums and lists. *)

(* What holds of 0 and of each next number up to n holds of all of them.   *)
LEMMA UpTo ==
  ASSUME NEW n \in Nat, NEW S, 0 \in S, \A i \in 0 .. n - 1 : i \in S => i + 1 \in S
  PROVE  \A i \in 0 .. n : i \in S
<1> SUFFICES ASSUME NEW j \in 0 .. n, j \notin S PROVE FALSE
  OBVIOUS
<1> DEFINE Left == {i \in 0 .. n : i \notin S}
<1>1. PICK x \in Left : \A y \in Left : ~(<<y, x>> \in OpToRel(<, Nat))
  <2>1. IsWellFoundedOn(OpToRel(<, Nat), Nat)
    BY NatLessThanWellFounded
  <2>2. Left \subseteq Nat /\ Left # {}
    OBVIOUS
  <2> HIDE DEF Left
  <2> QED BY <2>1, <2>2, WFMin
<1>2. x \in 1 .. n /\ x - 1 \in 0 .. n - 1 /\ x - 1 + 1 = x
  OBVIOUS
<1>3. x - 1 \notin Left
  <2>1. <<x - 1, x>> \in OpToRel(<, Nat)
    BY <1>2 DEF OpToRel
  <2> HIDE DEF Left
  <2> QED BY <1>1, <2>1
<1> QED BY <1>2, <1>3

(* The sums of the first i elements exist and are what they should be.     *)
IsSums(s, c, n) == s = [i \in 0 .. n |-> IF i = 0 THEN 0 ELSE s[i - 1] + c[i]]

LEMMA SumsExist ==
  ASSUME NEW n \in Nat, NEW c \in [1 .. n -> Int]
  PROVE  \A k \in 0 .. n : \E s \in [0 .. k -> Int] : IsSums(s, c, k)
<1> DEFINE S == {k \in 0 .. n : \E s \in [0 .. k -> Int] : IsSums(s, c, k)}
<1>1. 0 \in S
  <2> DEFINE s == [i \in 0 .. 0 |-> 0]
  <2>1. s \in [0 .. 0 -> Int] /\ IsSums(s, c, 0)
    BY DEF IsSums
  <2> QED BY <2>1
<1>2. ASSUME NEW k \in 0 .. n - 1, k \in S PROVE k + 1 \in S
  <2>1. PICK s \in [0 .. k -> Int] : IsSums(s, c, k)
    BY <1>2
  <2> DEFINE t == [i \in 0 .. k + 1 |-> IF i = k + 1 THEN s[k] + c[k + 1] ELSE s[i]]
  <2>2. k + 1 \in 1 .. n /\ c[k + 1] \in Int /\ s[k] \in Int
    OBVIOUS
  <2>3. t \in [0 .. k + 1 -> Int]
    BY <2>2
  <2>4. ASSUME NEW i \in 0 .. k + 1 PROVE t[i] = IF i = 0 THEN 0 ELSE t[i - 1] + c[i]
    <3>1. CASE i = k + 1
      BY <3>1
    <3>2. CASE i # k + 1
      BY <2>1, <3>2 DEF IsSums
    <3> QED BY <3>1, <3>2
  <2>5. IsSums(t, c, k + 1)
    BY <2>3, <2>4 DEF IsSums
  <2> QED BY <2>2, <2>3, <2>5
<1> HIDE DEF S
<1>3. \A k \in 0 .. n : k \in S
  BY <1>1, <1>2, UpTo
<1> QED BY <1>3 DEF S

LEMMA SumsAgree ==
  ASSUME NEW c, NEW k \in Nat, NEW s, IsSums(s, c, k),
         NEW j \in Nat, j <= k, NEW t, IsSums(t, c, j)
  PROVE  s[j] = t[j]
<1> DEFINE S == {i \in 0 .. j : s[i] = t[i]}
<1>1. 0 \in S
  BY DEF IsSums
<1>2. ASSUME NEW i \in 0 .. j - 1, i \in S PROVE i + 1 \in S
  <2>1. s[i + 1] = s[i] + c[i + 1]
    <3>1. i + 1 \in 0 .. k /\ i + 1 # 0 /\ i + 1 - 1 = i
      OBVIOUS
    <3> QED BY <3>1 DEF IsSums
  <2>2. t[i + 1] = t[i] + c[i + 1]
    <3>1. i + 1 \in 0 .. j /\ i + 1 # 0 /\ i + 1 - 1 = i
      OBVIOUS
    <3> QED BY <3>1 DEF IsSums
  <2> QED BY <1>2, <2>1, <2>2
<1> HIDE DEF S
<1>3. \A i \in 0 .. j : i \in S
  BY <1>1, <1>2, UpTo
<1> QED BY <1>3 DEF S

LEMMA SumsAre ==
  ASSUME NEW n \in Nat, NEW c \in [1 .. n -> Int]
  PROVE  /\ SumTo(c, 0) = 0
         /\ \A i \in 0 .. n : SumTo(c, i) \in Int
         /\ \A i \in 0 .. n - 1 : SumTo(c, i + 1) = SumTo(c, i) + c[i + 1]
<1>2. ASSUME NEW k \in 0 .. n
      PROVE  \E s \in [0 .. k -> Int] : IsSums(s, c, k) /\ SumTo(c, k) = s[k]
  <2>1. PICK s \in [0 .. k -> Int] : IsSums(s, c, k)
    BY SumsExist
  <2> DEFINE t == CHOOSE t : IsSums(t, c, k)
  <2>2. IsSums(t, c, k)
    BY <2>1
  <2>3. SumTo(c, k) = t[k]
    BY DEF SumTo, IsSums
  <2> HIDE DEF t
  <2>4. t[k] = s[k]
    BY <2>1, <2>2, SumsAgree
  <2> QED BY <2>1, <2>3, <2>4
<1>3. ASSUME NEW i \in 0 .. n - 1 PROVE SumTo(c, i + 1) = SumTo(c, i) + c[i + 1]
  <2> DEFINE k == i + 1
  <2>1. k \in 0 .. n /\ i \in 0 .. n /\ i \in 0 .. k /\ k \in 0 .. k /\ k # 0 /\ k - 1 = i
        /\ i \in 0 .. i
    OBVIOUS
  <2> HIDE DEF k
  <2>2. PICK s \in [0 .. k -> Int] : IsSums(s, c, k) /\ SumTo(c, k) = s[k]
    BY <1>2, <2>1
  <2>3. PICK t \in [0 .. i -> Int] : IsSums(t, c, i) /\ SumTo(c, i) = t[i]
    BY <1>2, <2>1
  <2>4. s[i] = t[i]
    <3>1. i \in Nat /\ k \in Nat /\ i <= k
      BY <2>1
    <3> QED BY <2>2, <2>3, <3>1, SumsAgree, SMTT(30)
  <2>5. s[k] = s[i] + c[k]
    BY <2>1, <2>2 DEF IsSums
  <2> QED BY <2>2, <2>3, <2>4, <2>5 DEF k
<1>4. SumTo(c, 0) = 0
  <2>0. 0 \in 0 .. n
    OBVIOUS
  <2>1. PICK s \in [0 .. 0 -> Int] : IsSums(s, c, 0) /\ SumTo(c, 0) = s[0]
    BY <1>2, <2>0
  <2> QED BY <2>1 DEF IsSums
<1> QED BY <1>2, <1>3, <1>4

(* A sum follows the change of one of its elements,                        *)
LEMMA SumFollows ==
  ASSUME NEW n \in Nat, NEW c \in [1 .. n -> Int], NEW d \in [1 .. n -> Int],
         NEW k \in 1 .. n, \A i \in 1 .. n : i # k => d[i] = c[i]
  PROVE  SumTo(d, n) = SumTo(c, n) + d[k] - c[k]
<1> DEFINE S == {i \in 0 .. n : SumTo(d, i) = SumTo(c, i) + (IF i < k THEN 0 ELSE d[k] - c[k])}
<1>1. 0 \in S
  <2>1. SumTo(c, 0) = 0 /\ SumTo(d, 0) = 0
    BY SumsAre
  <2>2. 0 \in 0 .. n /\ 0 < k
    OBVIOUS
  <2> QED BY <2>1, <2>2
<1>2. ASSUME NEW i \in 0 .. n - 1, i \in S PROVE i + 1 \in S
  <2> DEFINE x == SumTo(c, i)
             y == SumTo(d, i)
             x1 == SumTo(c, i + 1)
             y1 == SumTo(d, i + 1)
  <2>1. i + 1 \in 1 .. n /\ i \in 0 .. n
    OBVIOUS
  <2>2. /\ x \in Int /\ y \in Int
        /\ x1 = x + c[i + 1] /\ y1 = y + d[i + 1]
    BY <2>1, SumsAre
  <2>3. y = x + (IF i < k THEN 0 ELSE d[k] - c[k])
    BY <1>2
  <2>4. c[i + 1] \in Int /\ d[i + 1] \in Int /\ c[k] \in Int /\ d[k] \in Int
    BY <2>1
  <2> HIDE DEF x, y, x1, y1
  <2>5. y1 = x1 + (IF i + 1 < k THEN 0 ELSE d[k] - c[k])
    <3>1. CASE i + 1 = k
      <4>1. i < k /\ ~(i + 1 < k) /\ c[i + 1] = c[k] /\ d[i + 1] = d[k]
        BY <2>1, <3>1
      <4>2. x1 = x + c[k] /\ y1 = x + d[k]
        BY <2>2, <2>3, <4>1
      <4> QED BY <2>2, <2>4, <4>1, <4>2
    <3>2. CASE i + 1 # k
      <4>1. d[i + 1] = c[i + 1] /\ (i + 1 < k <=> i < k)
        BY <2>1, <3>2
      <4> QED BY <2>2, <2>3, <2>4, <4>1
    <3> QED BY <3>1, <3>2
  <2> QED BY <2>1, <2>5 DEF x1, y1
<1> HIDE DEF S
<1>3. n \in S
  <2>1. \A i \in 0 .. n : i \in S
    BY <1>1, <1>2, UpTo
  <2> QED BY <2>1
<1> DEFINE u == SumTo(c, n)
           v == SumTo(d, n)
<1>4. v = u + (IF n < k THEN 0 ELSE d[k] - c[k]) /\ u \in Int
  BY <1>3, SumsAre DEF S
<1> HIDE DEF u, v
<1>5. v = u + d[k] - c[k]
  BY <1>4
<1> QED BY <1>5 DEF u, v

(* and grows by an element put behind.                                     *)
LEMMA SumGrows ==
  ASSUME NEW n \in Nat, NEW c \in [1 .. n -> Int], NEW d \in [1 .. n + 1 -> Int],
         \A i \in 1 .. n : d[i] = c[i]
  PROVE  SumTo(d, n + 1) = SumTo(c, n) + d[n + 1]
<1> DEFINE S == {i \in 0 .. n : SumTo(d, i) = SumTo(c, i)}
<1>0. n + 1 \in Nat
  OBVIOUS
<1>1. 0 \in S
  BY <1>0, SumsAre
<1>2. ASSUME NEW i \in 0 .. n - 1, i \in S PROVE i + 1 \in S
  <2>1. i + 1 \in 1 .. n /\ i \in 0 .. (n + 1) - 1
    OBVIOUS
  <2>2. SumTo(c, i + 1) = SumTo(c, i) + c[i + 1]
    BY SumsAre
  <2>3. SumTo(d, i + 1) = SumTo(d, i) + d[i + 1]
    BY <1>0, <2>1, SumsAre
  <2> QED BY <1>2, <2>1, <2>2, <2>3
<1> HIDE DEF S
<1>3. \A i \in 0 .. n : i \in S
  BY <1>1, <1>2, UpTo
<1>4. SumTo(d, n) = SumTo(c, n)
  BY <1>3 DEF S
<1>5. n \in 0 .. (n + 1) - 1
  OBVIOUS
<1> QED BY <1>0, <1>4, <1>5, SumsAre

(* A list holds its first record and with each the next, and nothing else. *)
LEMMA ListHolds ==
  ASSUME NEW next, NEW start
  PROVE  LET L == Listed(start, next)
         IN  /\ L \subseteq DOMAIN next
             /\ start # 0 /\ start \in DOMAIN next => start \in L
             /\ \A i \in L : next[i] # 0 /\ next[i] \in DOMAIN next => next[i] \in L
             /\ \A S \in SUBSET DOMAIN next : HoldsList(S, start, next) => L \subseteq S
<1> DEFINE L == Listed(start, next)
<1>1. \A i : i \in L <=> i \in DOMAIN next /\ \A S \in SUBSET DOMAIN next :
                                              HoldsList(S, start, next) => i \in S
  BY DEF Listed
<1> HIDE DEF L
<1>2. start # 0 /\ start \in DOMAIN next => start \in L
  BY <1>1 DEF HoldsList
<1>3. ASSUME NEW i \in L, next[i] # 0, next[i] \in DOMAIN next PROVE next[i] \in L
  <2>1. ASSUME NEW S \in SUBSET DOMAIN next, HoldsList(S, start, next) PROVE next[i] \in S
    BY <1>1, <1>3, <2>1 DEF HoldsList
  <2> QED BY <1>1, <1>3, <2>1
<1>4. L \subseteq DOMAIN next
  BY <1>1
<1>5. \A S \in SUBSET DOMAIN next : HoldsList(S, start, next) => L \subseteq S
  BY <1>1
<1> QED BY <1>2, <1>3, <1>4, <1>5 DEF L

(* It consists of the first record and of the list from the next on.       *)
LEMMA ListFromNext ==
  ASSUME NEW n \in Nat, NEW next \in [1 .. n -> 0 .. n], NEW start \in 1 .. n
  PROVE  Listed(start, next) = {start} \cup Listed(next[start], next)
<1> DEFINE L == Listed(start, next)
           M == Listed(next[start], next)
           T == {start} \cup M
<1>1. /\ DOMAIN next = 1 .. n /\ start # 0 /\ 0 \notin 1 .. n
      /\ \A i \in 1 .. n : next[i] # 0 => next[i] \in 1 .. n
  OBVIOUS
<1>2. /\ L \subseteq 1 .. n /\ start \in L
      /\ \A i \in L : next[i] # 0 => next[i] \in L
      /\ \A S \in SUBSET 1 .. n : HoldsList(S, start, next) => L \subseteq S
  BY <1>1, ListHolds
<1>3. /\ M \subseteq 1 .. n /\ (next[start] # 0 => next[start] \in M)
      /\ \A i \in M : next[i] # 0 => next[i] \in M
      /\ \A S \in SUBSET 1 .. n : HoldsList(S, next[start], next) => M \subseteq S
  BY <1>1, ListHolds
<1> HIDE DEF L, M
<1>4. HoldsList(T, start, next)
  BY <1>3 DEF HoldsList
<1>5. L \subseteq T
  BY <1>2, <1>3, <1>4
<1>6. HoldsList(L, next[start], next)
  BY <1>2 DEF HoldsList
<1>7. M \subseteq L
  BY <1>2, <1>3, <1>6
<1> QED BY <1>2, <1>5, <1>7 DEF L, M

LEMMA EmptyList == ASSUME NEW next PROVE Listed(0, next) = {}
<1>1. HoldsList({}, 0, next) /\ {} \in SUBSET DOMAIN next
  BY DEF HoldsList
<1>2. \A i \in Listed(0, next) : i \in {}
  BY <1>1 DEF Listed
<1> QED BY <1>2

(* A record put before a list changes no other.                            *)
LEMMA ListsKept ==
  ASSUME NEW n \in Nat, NEW next \in [1 .. n -> 0 .. n],
         NEW more \in [1 .. n + 1 -> 0 .. n], \A i \in 1 .. n : more[i] = next[i]
  PROVE  /\ \A start \in 0 .. n : Listed(start, more) = Listed(start, next)
         /\ Listed(n + 1, more) = {n + 1} \cup Listed(more[n + 1], next)
<1>1. ASSUME NEW start \in 0 .. n PROVE Listed(start, more) = Listed(start, next)
  <2> DEFINE L == Listed(start, next)
             M == Listed(start, more)
  <2>1. /\ DOMAIN next = 1 .. n /\ DOMAIN more = 1 .. n + 1 /\ 1 .. n \subseteq 1 .. n + 1
        /\ \A i \in 1 .. n : next[i] # 0 => next[i] \in 1 .. n
        /\ \A i \in 1 .. n + 1 : more[i] # 0 => more[i] \in 1 .. n /\ more[i] \in 1 .. n + 1
        /\ (start # 0 => start \in 1 .. n /\ start \in 1 .. n + 1)
    OBVIOUS
  <2>2. /\ L \subseteq 1 .. n /\ (start # 0 => start \in L)
        /\ \A i \in L : next[i] # 0 => next[i] \in L
        /\ \A S \in SUBSET 1 .. n : HoldsList(S, start, next) => L \subseteq S
    BY <2>1, ListHolds
  <2>3. /\ M \subseteq 1 .. n + 1 /\ (start # 0 => start \in M)
        /\ \A i \in M : more[i] # 0 => more[i] \in M
        /\ \A S \in SUBSET 1 .. n + 1 : HoldsList(S, start, more) => M \subseteq S
    BY <2>1, ListHolds
  <2> HIDE DEF L, M
  <2>4. HoldsList(L, start, more)
    BY <2>1, <2>2 DEF HoldsList
  <2>5. M \subseteq L
    BY <2>1, <2>2, <2>3, <2>4
  <2>6. HoldsList(M, start, next)
    BY <2>1, <2>2, <2>3, <2>5 DEF HoldsList
  <2>7. L \subseteq M
    BY <2>2, <2>5, <2>6
  <2> QED BY <2>5, <2>7 DEF L, M
<1>2. Listed(n + 1, more) = {n + 1} \cup Listed(more[n + 1], next)
  <2> DEFINE k == n + 1
  <2>1. k \in Nat /\ more \in [1 .. k -> 0 .. k] /\ k \in 1 .. k /\ more[k] \in 0 .. n
    OBVIOUS
  <2> HIDE DEF k
  <2>2. Listed(k, more) = {k} \cup Listed(more[k], more)
    BY <2>1, ListFromNext
  <2> QED BY <1>1, <2>1, <2>2 DEF k
<1> QED BY <1>1, <1>2

(* Where each record is put before the one that was put last, all of them  *)
(* make one list.                                                          *)
LEMMA OneList ==
  ASSUME NEW n \in Nat, NEW next, next = [i \in 1 .. n |-> i - 1]
  PROVE  Listed(n, next) = 1 .. n
<1>1. next \in [1 .. n -> 0 .. n] /\ DOMAIN next = 1 .. n
  OBVIOUS
<1>2. Listed(n, next) \subseteq 1 .. n
  BY <1>1, ListHolds
<1>3. CASE n = 0
  BY <1>2, <1>3
<1>4. CASE n # 0
  <2> DEFINE L == Listed(n, next)
             S == {k \in 0 .. n - 1 : n - k \in L}
  <2>1. n \in L /\ \A i \in L : next[i] # 0 => next[i] \in L
    <3>1. n # 0 /\ n \in DOMAIN next /\ \A i \in DOMAIN next : next[i] # 0 => next[i] \in DOMAIN next
      BY <1>1, <1>4
    <3>2. L \subseteq DOMAIN next
      BY <1>1, <1>2
    <3> QED BY <3>1, <3>2, ListHolds
  <2> HIDE DEF L
  <2>2. 0 \in S
    BY <1>4, <2>1
  <2>3. ASSUME NEW k \in 0 .. (n - 1) - 1, k \in S PROVE k + 1 \in S
    <3>1. n - k \in L /\ n - k \in 1 .. n /\ next[n - k] = n - (k + 1) /\ n - (k + 1) # 0
      BY <2>3
    <3> QED BY <2>1, <2>3, <3>1, SMTT(30)
  <2>4. n - 1 \in Nat
    BY <1>4
  <2> HIDE DEF S
  <2>5. \A k \in 0 .. n - 1 : k \in S
    BY <2>2, <2>3, <2>4, UpTo
  <2>6. ASSUME NEW i \in 1 .. n PROVE i \in L
    <3>1. n - i \in 0 .. n - 1 /\ n - (n - i) = i
      OBVIOUS
    <3> QED BY <2>5, <3>1 DEF S
  <2> QED BY <1>2, <2>6 DEF L
<1> QED BY <1>3, <1>4

-----------------------------------------------------------------------------
(* The call graph. *)

FunctionCount == Len(entries)
ArcCount == Len(arcs)
Pc == {a[1] : a \in Arc} \cup {a[2] : a \in Arc} \cup {0}
NextArc == [i \in DOMAIN arcs |-> arcs[i].next]
Counts(a) == [i \in DOMAIN arcs |-> IF i \in Copies(a) THEN arcs[i].count ELSE 0]

McountState ==
  [stage : {"idle", "function", "arc", "store", "record", "clear", "init", "insert"},
   self : Pc, from : Pc, r10 : Nat, r3 : Nat, r2 : Nat]

(* Every function is in the one list, every arc in that of one function.   *)
RecordsInv ==
  /\ entries \in Seq([self_pc : Pc, arc_head : Nat, next : Nat])
  /\ arcs \in Seq([from_pc : Pc, count : Nat, next : Nat])
  /\ head = FunctionCount
  /\ \A e \in DOMAIN entries : entries[e].next = e - 1 /\ entries[e].arc_head \in DOMAIN arcs
  /\ \A i \in DOMAIN arcs : arcs[i].next \in 0 .. ArcCount
  /\ \A d, e \in DOMAIN entries : d # e => ArcsOf(d) \cap ArcsOf(e) = {}

(* Where a call of mcount() is, with the registers r: what it has found.   *)
PlaceOK(r) ==
  r.stage # "idle" =>
    /\ <<r.self, r.from>> \in Arc
    /\ r.r10 \in 0 .. FunctionCount
    /\ r.stage \in {"arc", "store"} => r.r10 # 0 /\ r.r3 \in ArcsOf(r.r10)
    /\ r.stage # "function" /\ r.r10 # 0 => entries[r.r10].self_pc = r.self
    /\ r.stage = "store" => arcs[r.r3].from_pc = r.from

(* What it has passed, unless an interrupt has added to the lists.         *)
WalkOK(r) ==
  "walk" \notin cut =>
    /\ r.stage = "function" =>
         \A e \in DOMAIN entries : e > r.r10 => entries[e].self_pc # r.self
    /\ r.stage = "arc" =>
         \A i \in ArcsOf(r.r10) : i \notin Listed(r.r3, NextArc) => arcs[i].from_pc # r.from
    /\ r.stage \in {"record", "clear", "init", "insert"} =>
         IF r.r10 = 0 THEN \A e \in DOMAIN entries : entries[e].self_pc # r.self
         ELSE \A i \in ArcsOf(r.r10) : arcs[i].from_pc # r.from

UniqueInv ==
  "walk" \notin cut =>
    /\ \A d, e \in DOMAIN entries : entries[d].self_pc = entries[e].self_pc => d = e
    /\ \A e \in DOMAIN entries : \A i, j \in ArcsOf(e) :
         arcs[i].from_pc = arcs[j].from_pc => i = j

CutInv ==
  m["interrupt"].stage # "idle" /\ m["program"].stage # "idle" =>
    (IF m["program"].stage = "store" THEN "store" ELSE "walk") \in cut

(* The counter that a call of p has loaded: what it stores over calls of   *)
(* interrupt handlers is never less than the program's own calls.          *)
StoreOK(p, r) ==
  r.stage = "store" =>
    LET a == <<r.self, r.from>>
    IN  /\ r.r2 <= arcs[r.r3].count + 1
        /\ calls["program"][a] <= Total(a) - arcs[r.r3].count + r.r2 - 1
        /\ p = "interrupt" \/ "store" \notin cut => r.r2 = arcs[r.r3].count + 1

AccountInv ==
  \A a \in Arc :
    LET all == calls["program"][a] + calls["interrupt"][a]
    IN  /\ calls["program"][a] <= Total(a) /\ Total(a) <= all
        /\ "store" \notin cut => Total(a) = all

GraphInv ==
  /\ m \in [Caller -> McountState]
  /\ calls \in [Caller -> [Arc -> Nat]]
  /\ RecordsInv /\ UniqueInv /\ CutInv /\ AccountInv
  /\ \A p \in Caller : PlaceOK(m[p]) /\ WalkOK(m[p]) /\ StoreOK(p, m[p])

LEMMA InitGraphInv == ProfilerInit => GraphInv
<1> SUFFICES ASSUME ProfilerInit PROVE GraphInv
  OBVIOUS
<1>1. /\ m = [p \in Caller |-> Idle] /\ calls = [p \in Caller |-> [a \in Arc |-> 0]]
      /\ head = 0 /\ entries = <<>> /\ arcs = <<>> /\ cut = {}
  BY DEF ProfilerInit
<1>2. m \in [Caller -> McountState] /\ \A p \in Caller : m[p].stage = "idle"
  BY <1>1 DEF McountState, Idle, Pc
<1>3. RecordsInv
  BY <1>1 DEF RecordsInv, FunctionCount
<1>4. UniqueInv /\ CutInv
  BY <1>1, <1>2 DEF UniqueInv, CutInv, Caller
<1>5. \A p \in Caller : PlaceOK(m[p]) /\ WalkOK(m[p]) /\ StoreOK(p, m[p])
  BY <1>2 DEF PlaceOK, WalkOK, StoreOK
<1>6. AccountInv
  <2> SUFFICES ASSUME NEW a \in Arc PROVE Total(a) = 0
    BY <1>1 DEF AccountInv, Caller
  <2>1. Total(a) = SumTo(Counts(a), 0)
    BY <1>1 DEF Total, Counts
  <2>2. Counts(a) \in [1 .. 0 -> Int]
    BY <1>1 DEF Counts
  <2> QED BY <2>1, <2>2, SumsAre
<1> QED BY <1>1, <1>2, <1>3, <1>4, <1>5, <1>6 DEF GraphInv

(* What follows from it about copies and totals.                           *)
LEMMA RecordsAre ==
  ASSUME RecordsInv
  PROVE  /\ FunctionCount \in Nat /\ DOMAIN entries = 1 .. FunctionCount
         /\ ArcCount \in Nat /\ DOMAIN arcs = 1 .. ArcCount
         /\ NextArc \in [1 .. ArcCount -> 0 .. ArcCount]
         /\ FunctionRecords = DOMAIN entries
         /\ \A e \in DOMAIN entries : ArcsOf(e) \subseteq 1 .. ArcCount
         /\ \A a \in Arc : Total(a) = SumTo(Counts(a), ArcCount)
         /\ \A a \in Arc : Counts(a) \in [1 .. ArcCount -> Int] /\ Total(a) \in Int
<1>1. /\ FunctionCount \in Nat /\ DOMAIN entries = 1 .. FunctionCount
      /\ ArcCount \in Nat /\ DOMAIN arcs = 1 .. ArcCount
  BY DEF RecordsInv, FunctionCount, ArcCount
<1>2. NextArc \in [1 .. ArcCount -> 0 .. ArcCount]
  BY <1>1 DEF RecordsInv, NextArc
<1>3. FunctionRecords = DOMAIN entries
  <2> DEFINE next == [i \in DOMAIN entries |-> entries[i].next]
             n == FunctionCount
  <2>1. n \in Nat /\ next = [i \in 1 .. n |-> i - 1] /\ head = n /\ DOMAIN entries = 1 .. n
    BY <1>1 DEF RecordsInv
  <2>2. FunctionRecords = Listed(head, next)
    BY DEF FunctionRecords
  <2> HIDE DEF n, next
  <2> QED BY <2>1, <2>2, OneList
<1>4. \A e \in DOMAIN entries : ArcsOf(e) \subseteq 1 .. ArcCount
  BY <1>1 DEF ArcsOf, Listed
<1>5. ASSUME NEW a \in Arc
      PROVE  /\ Total(a) = SumTo(Counts(a), ArcCount)
             /\ Counts(a) \in [1 .. ArcCount -> Int] /\ Total(a) \in Int
  <2>4. \A i \in 1 .. ArcCount : arcs[i].count \in Nat
    <3> DEFINE R == [from_pc : Pc, count : Nat, next : Nat]
    <3>1. arcs \in Seq(R) /\ \A r \in R : r.count \in Nat
      BY DEF RecordsInv
    <3> HIDE DEF R
    <3>2. \A i \in 1 .. ArcCount : arcs[i] \in R
      BY <1>1, <3>1
    <3> QED BY <3>1, <3>2
  <2>1. Counts(a) \in [1 .. ArcCount -> Int]
    BY <1>1, <2>4 DEF Counts
  <2>2. Total(a) = SumTo(Counts(a), ArcCount)
    BY DEF Total, Counts, ArcCount
  <2>3. ArcCount \in 0 .. ArcCount
    BY <1>1
  <2> QED BY <1>1, <2>1, <2>2, <2>3, SumsAre
<1> QED BY <1>1, <1>2, <1>3, <1>4, <1>5

TotalsAre ==
  /\ FunctionRecords = DOMAIN entries
  /\ \A a \in Arc : /\ Total(a) = SumTo(Counts(a), ArcCount)
                    /\ Counts(a) \in [1 .. ArcCount -> Int] /\ Total(a) \in Int

LEMMA TotalsThen == RecordsInv' => TotalsAre'
<1>1. RecordsInv => TotalsAre
  BY RecordsAre DEF TotalsAre
<1> QED BY <1>1, PTL

(* A record is a copy of the arc of the function in whose list it is.      *)
LEMMA CopiesAre ==
  ASSUME RecordsInv, NEW e \in DOMAIN entries, NEW i \in ArcsOf(e), NEW a \in Arc
  PROVE  i \in Copies(a) <=> a = <<entries[e].self_pc, arcs[i].from_pc>>
<1>1. FunctionRecords = DOMAIN entries
  BY RecordsAre
<1>2. i \in Copies(a) <=> \E d \in DOMAIN entries :
                            entries[d].self_pc = a[1] /\ i \in ArcsOf(d) /\ arcs[i].from_pc = a[2]
  BY <1>1 DEF Copies
<1>3. \A d \in DOMAIN entries : i \in ArcsOf(d) => d = e
  BY DEF RecordsInv
<1>4. a = <<a[1], a[2]>>
  BY ProfilerAssumption
<1> QED BY <1>2, <1>3, <1>4

(* While nothing is stored in the records, they and the lists stay.        *)
LEMMA SameLists ==
  ASSUME UNCHANGED <<head, entries, arcs>>
  PROVE  /\ FunctionCount' = FunctionCount /\ ArcCount' = ArcCount /\ NextArc' = NextArc
         /\ \A e : ArcsOf(e)' = ArcsOf(e)
         /\ \A start : Listed(start, NextArc)' = Listed(start, NextArc)
         /\ \A a : Copies(a)' = Copies(a) /\ Total(a)' = Total(a)
<1>1. FunctionCount' = FunctionCount /\ ArcCount' = ArcCount /\ NextArc' = NextArc
  BY DEF FunctionCount, ArcCount, NextArc
<1>2. \A e : ArcsOf(e)' = ArcsOf(e)
  BY DEF ArcsOf
<1>3. FunctionRecords' = FunctionRecords
  BY DEF FunctionRecords
<1>4. ASSUME NEW a PROVE Copies(a)' = Copies(a)
  BY <1>2, <1>3 DEF Copies
<1>5. ASSUME NEW a PROVE Total(a)' = Total(a)
  BY <1>4 DEF Total
<1> QED BY <1>1, <1>2, <1>4, <1>5

LEMMA WalkStep ==
  ASSUME GraphInv, NEW p \in Caller, NEW r \in McountState,
         m' = [m EXCEPT ![p] = r], UNCHANGED <<head, entries, arcs, calls>>,
         cut \subseteq cut', CutInv', PlaceOK(r), WalkOK(r), StoreOK(p, r)
  PROVE  GraphInv'
<1>1. /\ FunctionCount' = FunctionCount /\ ArcCount' = ArcCount /\ NextArc' = NextArc
      /\ \A e : ArcsOf(e)' = ArcsOf(e)
      /\ \A start : Listed(start, NextArc)' = Listed(start, NextArc)
      /\ \A a : Copies(a)' = Copies(a) /\ Total(a)' = Total(a)
  BY SameLists
<1>2. m' \in [Caller -> McountState] /\ \A q \in Caller : m'[q] = IF q = p THEN r ELSE m[q]
  BY DEF GraphInv
<1>3. calls' \in [Caller -> [Arc -> Nat]]
  BY DEF GraphInv
<1>4. RecordsInv'
  BY <1>1 DEF GraphInv, RecordsInv
<1>5. UniqueInv'
  BY <1>1 DEF GraphInv, UniqueInv
<1>6. AccountInv'
  BY <1>1 DEF GraphInv, AccountInv
<1>7. ASSUME NEW q \in Caller PROVE PlaceOK(m[q])' /\ WalkOK(m[q])' /\ StoreOK(q, m[q])'
  <2>1. PlaceOK(m'[q]) /\ WalkOK(m'[q]) /\ StoreOK(q, m'[q])
    BY <1>2 DEF GraphInv
  <2>2. PlaceOK(m[q])'
    BY <1>1, <2>1 DEF PlaceOK
  <2>3. WalkOK(m[q])'
    BY <1>1, <2>1 DEF WalkOK
  <2>4. StoreOK(q, m[q])'
    BY <1>1, <2>1 DEF StoreOK
  <2> QED BY <2>2, <2>3, <2>4
<1> QED BY <1>2, <1>3, <1>4, <1>5, <1>6, <1>7 DEF GraphInv

(* A call that is idle or at its start, or that goes on, keeps the note of *)
(* what an interrupt has met.                                              *)
LEMMA CutStays ==
  ASSUME GraphInv, NEW p \in Caller, Running(p), m[p].stage # "idle", NEW r \in McountState,
         m' = [m EXCEPT ![p] = r], UNCHANGED cut
  PROVE  CutInv'
<1>1. \A q \in Caller : m'[q] = IF q = p THEN r ELSE m[q]
  BY DEF GraphInv
<1>2. CASE p = "program"
  <2>1. m["interrupt"].stage = "idle" /\ m'["interrupt"] = m["interrupt"]
    BY <1>1, <1>2 DEF Running, Caller
  <2> QED BY <2>1 DEF CutInv
<1>3. CASE p = "interrupt"
  <2>1. m'["program"] = m["program"]
    BY <1>1, <1>3 DEF Caller
  <2>2. m["program"].stage # "idle" =>
          (IF m["program"].stage = "store" THEN "store" ELSE "walk") \in cut
    BY <1>3 DEF GraphInv, CutInv
  <2> QED BY <2>1, <2>2 DEF CutInv
<1> QED BY <1>2, <1>3 DEF Caller

(* What the invariant says of one call, and of the records it is at.       *)
LEMMA CallIs ==
  ASSUME GraphInv, NEW p \in Caller
  PROVE  /\ m[p] \in McountState
         /\ m[p].stage # "idle" => <<m[p].self, m[p].from>> \in Arc
         /\ PlaceOK(m[p]) /\ WalkOK(m[p]) /\ StoreOK(p, m[p])
         /\ RecordsInv
         /\ \A e \in DOMAIN entries :
              /\ ArcsOf(e) = Listed(entries[e].arc_head, NextArc)
              /\ entries[e].arc_head \in ArcsOf(e)
              /\ \A i \in ArcsOf(e) :
                   /\ i \in 1 .. ArcCount /\ arcs[i].next \in 0 .. ArcCount
                   /\ arcs[i].next # 0 => arcs[i].next \in ArcsOf(e)
                   /\ arcs[i].count \in Nat
<1>1. m[p] \in McountState /\ PlaceOK(m[p]) /\ WalkOK(m[p]) /\ StoreOK(p, m[p]) /\ RecordsInv
  BY DEF GraphInv
<1>2. ASSUME NEW e \in DOMAIN entries
      PROVE  /\ ArcsOf(e) = Listed(entries[e].arc_head, NextArc)
             /\ entries[e].arc_head \in ArcsOf(e)
             /\ \A i \in ArcsOf(e) :
                  /\ i \in 1 .. ArcCount /\ arcs[i].next \in 0 .. ArcCount
                  /\ arcs[i].next # 0 => arcs[i].next \in ArcsOf(e)
                  /\ arcs[i].count \in Nat
  <2> DEFINE L == ArcsOf(e)
             start == entries[e].arc_head
  <2>1. L = Listed(start, NextArc)
    BY DEF ArcsOf, NextArc
  <2>2. /\ DOMAIN NextArc = 1 .. ArcCount /\ DOMAIN arcs = 1 .. ArcCount /\ ArcCount \in Nat
        /\ \A i \in 1 .. ArcCount : NextArc[i] = arcs[i].next /\ NextArc[i] \in 0 .. ArcCount
    BY <1>1, RecordsAre DEF NextArc
  <2>3. start \in 1 .. ArcCount
    BY <1>1, <2>2 DEF RecordsInv
  <2> HIDE DEF L, start
  <2>4. /\ L \subseteq 1 .. ArcCount /\ start \in L
        /\ \A i \in L : NextArc[i] # 0 /\ NextArc[i] \in 1 .. ArcCount => NextArc[i] \in L
    <3>1. start # 0
      BY <2>3
    <3> QED BY <2>1, <2>2, <2>3, <3>1, ListHolds
  <2>5. \A i \in 1 .. ArcCount : arcs[i].count \in Nat
    <3> DEFINE R == [from_pc : Pc, count : Nat, next : Nat]
    <3>1. arcs \in Seq(R) /\ \A r \in R : r.count \in Nat
      BY <1>1 DEF RecordsInv
    <3> HIDE DEF R
    <3>2. \A i \in 1 .. ArcCount : arcs[i] \in R
      BY <2>2, <3>1
    <3> QED BY <3>1, <3>2
  <2>6. \A i \in L : /\ i \in 1 .. ArcCount /\ arcs[i].next \in 0 .. ArcCount
                     /\ arcs[i].next # 0 => arcs[i].next \in L
                     /\ arcs[i].count \in Nat
    BY <2>2, <2>4, <2>5
  <2> QED BY <2>1, <2>4, <2>6 DEF L, start
<1> QED BY <1>1, <1>2 DEF PlaceOK

LEMMA CallGraph ==
  ASSUME GraphInv, NEW p \in Caller, NEW a \in Arc, mcount(p, a)
  PROVE  GraphInv'
<1> DEFINE r == [Idle EXCEPT !.stage = "function", !.self = a[1], !.from = a[2], !.r10 = head]
<1>1. /\ m' = [m EXCEPT ![p] = r] /\ UNCHANGED <<head, entries, arcs, calls>>
      /\ Running(p) /\ m[p].stage = "idle"
      /\ cut' = IF p = "program" \/ m["program"].stage = "idle" THEN cut
                ELSE cut \cup {IF m["program"].stage = "store" THEN "store" ELSE "walk"}
                         \cup ({m["program"].stage} \cap {"clear"})
  BY DEF mcount
<1>2. head = FunctionCount /\ head \in Nat
  BY CallIs, RecordsAre DEF RecordsInv
<1>3. /\ r.stage = "function" /\ r.self = a[1] /\ r.from = a[2] /\ r.r10 = head
      /\ r \in McountState
  BY <1>2 DEF Idle, McountState, Pc
<1> HIDE DEF r
<1>4. <<r.self, r.from>> \in Arc
  BY <1>3, ProfilerAssumption
<1>5. PlaceOK(r)
  BY <1>2, <1>3, <1>4 DEF PlaceOK
<1>6. WalkOK(r)
  <2>1. DOMAIN entries = 1 .. head
    BY <1>2, CallIs, RecordsAre
  <2> QED BY <1>2, <1>3, <2>1 DEF WalkOK
<1>7. StoreOK(p, r)
  BY <1>3 DEF StoreOK
<1>8. CutInv'
  <2>1. \A q \in Caller : m'[q] = IF q = p THEN r ELSE m[q]
    BY <1>1 DEF GraphInv
  <2>2. CASE p = "program"
    BY <1>1, <2>1, <2>2 DEF Running, Caller, CutInv
  <2>3. CASE p = "interrupt"
    <3>1. m'["program"] = m["program"]
      BY <2>1, <2>3 DEF Caller
    <3> QED BY <1>1, <2>3, <3>1 DEF CutInv
  <2> QED BY <2>2, <2>3 DEF Caller
<1>9. cut \subseteq cut'
  BY <1>1
<1> QED BY <1>1, <1>3, <1>5, <1>6, <1>7, <1>8, <1>9, WalkStep

LEMMA FindFunctionGraph ==
  ASSUME GraphInv, NEW p \in Caller, FindFunction(p)
  PROVE  GraphInv'
<1> DEFINE s == m[p]
           n == s.r10
<1>1. /\ s.stage = "function" /\ s \in McountState /\ <<s.self, s.from>> \in Arc
      /\ Running(p) /\ UNCHANGED <<head, entries, arcs, calls, cut>>
      /\ PlaceOK(s) /\ WalkOK(s)
  BY CallIs DEF FindFunction
<1>2. /\ FunctionCount \in Nat /\ DOMAIN entries = 1 .. FunctionCount
      /\ n \in 0 .. FunctionCount
      /\ "walk" \notin cut => \A e \in DOMAIN entries : e > n => entries[e].self_pc # s.self
  BY <1>1, CallIs, RecordsAre DEF PlaceOK, WalkOK
<1>3. CASE n = 0
  <2> DEFINE r == [s EXCEPT !.stage = "record"]
  <2>1. m' = [m EXCEPT ![p] = r]
    BY <1>3 DEF FindFunction
  <2>2. r \in McountState /\ r.stage = "record" /\ r.r10 = 0 /\ r.self = s.self /\ r.from = s.from
    BY <1>1, <1>3 DEF McountState
  <2> HIDE DEF r
  <2>3. PlaceOK(r) /\ StoreOK(p, r)
    BY <1>1, <1>2, <2>2 DEF PlaceOK, StoreOK
  <2>4. WalkOK(r)
    BY <1>2, <1>3, <2>2 DEF WalkOK
  <2>5. CutInv'
    BY <1>1, <2>1, <2>2, CutStays
  <2> QED BY <1>1, <2>1, <2>2, <2>3, <2>4, <2>5, WalkStep
<1>4. CASE n # 0 /\ entries[n].self_pc = s.self
  <2> DEFINE r == [s EXCEPT !.stage = "arc", !.r3 = entries[n].arc_head]
  <2>1. m' = [m EXCEPT ![p] = r]
    BY <1>4 DEF FindFunction
  <2>2. n \in DOMAIN entries
    BY <1>2, <1>4
  <2>3. /\ ArcsOf(n) = Listed(entries[n].arc_head, NextArc) /\ entries[n].arc_head \in ArcsOf(n)
        /\ entries[n].arc_head \in 1 .. ArcCount /\ ArcCount \in Nat
    BY <2>2, CallIs, RecordsAre
  <2>4. /\ r \in McountState /\ r.stage = "arc" /\ r.r10 = n /\ r.r3 = entries[n].arc_head
        /\ r.self = s.self /\ r.from = s.from
    <3>1. entries[n].arc_head \in Nat
      BY <2>3
    <3> HIDE DEF s
    <3> QED BY <1>1, <3>1 DEF McountState
  <2> HIDE DEF r
  <2>5. PlaceOK(r) /\ StoreOK(p, r)
    BY <1>1, <1>2, <1>4, <2>3, <2>4 DEF PlaceOK, StoreOK
  <2>6. WalkOK(r)
    BY <2>3, <2>4 DEF WalkOK
  <2>7. CutInv'
    BY <1>1, <2>1, <2>4, CutStays
  <2> QED BY <1>1, <2>1, <2>4, <2>5, <2>6, <2>7, WalkStep
<1>5. CASE n # 0 /\ entries[n].self_pc # s.self
  <2> DEFINE r == [s EXCEPT !.r10 = entries[n].next]
  <2>1. m' = [m EXCEPT ![p] = r]
    BY <1>5 DEF FindFunction
  <2>2. n \in DOMAIN entries
    BY <1>2, <1>5
  <2>3. entries[n].next = n - 1 /\ n - 1 \in 0 .. FunctionCount
    <3>1. entries[n].next = n - 1
      BY <2>2, CallIs DEF RecordsInv
    <3> HIDE DEF s
    <3> QED BY <1>2, <1>5, <3>1
  <2>4. /\ r \in McountState /\ r.stage = "function" /\ r.r10 = n - 1
        /\ r.self = s.self /\ r.from = s.from
    BY <1>1, <2>3 DEF McountState
  <2> HIDE DEF r
  <2>5. PlaceOK(r) /\ StoreOK(p, r)
    BY <1>1, <2>3, <2>4 DEF PlaceOK, StoreOK
  <2>6. WalkOK(r)
    <3>1. \A e \in DOMAIN entries : e > n - 1 => e > n \/ e = n
      BY <1>2
    <3> QED BY <1>2, <1>5, <2>4, <3>1 DEF WalkOK
  <2>7. CutInv'
    BY <1>1, <2>1, <2>4, CutStays
  <2> QED BY <1>1, <2>1, <2>4, <2>5, <2>6, <2>7, WalkStep
<1> QED BY <1>3, <1>4, <1>5

LEMMA FindArcGraph ==
  ASSUME GraphInv, NEW p \in Caller, FindArc(p)
  PROVE  GraphInv'
<1> DEFINE s == m[p]
           i == s.r3
           n == s.r10
           a == <<s.self, s.from>>
<1>1. /\ s.stage = "arc" /\ s \in McountState /\ a \in Arc
      /\ Running(p) /\ UNCHANGED <<head, entries, arcs, calls, cut>>
      /\ PlaceOK(s) /\ WalkOK(s)
  BY CallIs DEF FindArc
<1>2. /\ n \in DOMAIN entries /\ n # 0 /\ i \in ArcsOf(n)
      /\ n \in 0 .. FunctionCount /\ entries[n].self_pc = s.self
  <2>1. n \in 0 .. FunctionCount /\ n # 0 /\ i \in ArcsOf(n) /\ entries[n].self_pc = s.self
    BY <1>1 DEF PlaceOK
  <2>2. FunctionCount \in Nat /\ DOMAIN entries = 1 .. FunctionCount
    BY CallIs, RecordsAre
  <2> QED BY <2>1, <2>2
<1>3. /\ i \in 1 .. ArcCount /\ arcs[i].next \in 0 .. ArcCount /\ ArcCount \in Nat
      /\ arcs[i].next # 0 => arcs[i].next \in ArcsOf(n)
      /\ arcs[i].count \in Nat
  BY <1>2, CallIs, RecordsAre
<1>4. \A j : j \in Listed(i, NextArc) => j = i \/ j \in Listed(arcs[i].next, NextArc)
  <2>1. NextArc \in [1 .. ArcCount -> 0 .. ArcCount] /\ NextArc[i] = arcs[i].next
    BY <1>3, CallIs, RecordsAre DEF NextArc
  <2>2. Listed(i, NextArc) = {i} \cup Listed(NextArc[i], NextArc)
    BY <1>3, <2>1, ListFromNext
  <2> QED BY <2>1, <2>2
<1>5. "walk" \notin cut =>
         \A j \in ArcsOf(n) : j \notin Listed(i, NextArc) => arcs[j].from_pc # s.from
  BY <1>1 DEF WalkOK
<1>6. CASE arcs[i].from_pc = s.from
  <2> DEFINE r == [s EXCEPT !.stage = "store", !.r2 = arcs[i].count + 1]
  <2>1. m' = [m EXCEPT ![p] = r]
    BY <1>6 DEF FindArc
  <2>2. /\ r \in McountState /\ r.stage = "store" /\ r.r2 = arcs[i].count + 1
        /\ r.r10 = n /\ r.r3 = i /\ r.self = s.self /\ r.from = s.from
    <3>1. arcs[i].count + 1 \in Nat
      BY <1>3
    <3> QED BY <1>1, <3>1 DEF McountState
  <2> HIDE DEF r
  <2>3. PlaceOK(r)
    BY <1>1, <1>2, <1>6, <2>2 DEF PlaceOK
  <2>4. WalkOK(r)
    BY <2>2 DEF WalkOK
  <2>5. StoreOK(p, r)
    <3>1. Total(a) \in Int /\ calls["program"][a] <= Total(a) /\ calls["program"][a] \in Nat
      BY <1>1, CallIs, RecordsAre DEF GraphInv, AccountInv, Caller
    <3>2. calls["program"][a] <= Total(a) - arcs[i].count + r.r2 - 1
      BY <1>3, <2>2, <3>1
    <3>3. r.r2 <= arcs[i].count + 1
      BY <1>3, <2>2
    <3> QED BY <2>2, <3>2, <3>3 DEF StoreOK
  <2>6. CutInv'
    BY <1>1, <2>1, <2>2, CutStays
  <2> QED BY <1>1, <2>1, <2>2, <2>3, <2>4, <2>5, <2>6, WalkStep
<1>7. CASE arcs[i].from_pc # s.from /\ arcs[i].next # 0
  <2> DEFINE r == [s EXCEPT !.r3 = arcs[i].next]
  <2>1. m' = [m EXCEPT ![p] = r]
    BY <1>7 DEF FindArc
  <2>2. /\ r \in McountState /\ r.stage = "arc" /\ r.r10 = n /\ r.r3 = arcs[i].next
        /\ r.self = s.self /\ r.from = s.from
    <3>1. arcs[i].next \in Nat
      BY <1>3
    <3> QED BY <1>1, <3>1 DEF McountState
  <2> HIDE DEF r
  <2>3. PlaceOK(r) /\ StoreOK(p, r)
    BY <1>1, <1>2, <1>3, <1>7, <2>2 DEF PlaceOK, StoreOK
  <2>4. WalkOK(r)
    BY <1>4, <1>5, <1>7, <2>2 DEF WalkOK
  <2>5. CutInv'
    BY <1>1, <2>1, <2>2, CutStays
  <2> QED BY <1>1, <2>1, <2>2, <2>3, <2>4, <2>5, WalkStep
<1>8. CASE arcs[i].from_pc # s.from /\ arcs[i].next = 0
  <2> DEFINE r == [s EXCEPT !.stage = "record"]
  <2>1. m' = [m EXCEPT ![p] = r]
    BY <1>8 DEF FindArc
  <2>2. r \in McountState /\ r.stage = "record" /\ r.r10 = n /\ r.self = s.self /\ r.from = s.from
    BY <1>1 DEF McountState
  <2> HIDE DEF r
  <2>3. PlaceOK(r) /\ StoreOK(p, r)
    BY <1>1, <1>2, <2>2 DEF PlaceOK, StoreOK
  <2>4. WalkOK(r)
    <3>1. Listed(arcs[i].next, NextArc) = {}
      BY <1>8, EmptyList
    <3> QED BY <1>2, <1>4, <1>5, <1>8, <2>2, <3>1 DEF WalkOK
  <2>5. CutInv'
    BY <1>1, <2>1, <2>2, CutStays
  <2> QED BY <1>1, <2>1, <2>2, <2>3, <2>4, <2>5, WalkStep
<1> QED BY <1>6, <1>7, <1>8

(* On the way to the record, a call keeps what it has found.               *)
LEMMA RecordingGraph ==
  ASSUME GraphInv, NEW p \in Caller, Running(p), m[p].stage \in {"record", "clear", "init"},
         NEW stage \in {"clear", "init", "insert"}, m' = [m EXCEPT ![p].stage = stage],
         UNCHANGED <<head, entries, arcs, calls, cut>>
  PROVE  GraphInv'
<1> DEFINE s == m[p]
           r == [s EXCEPT !.stage = stage]
<1>1. /\ s.stage \in {"record", "clear", "init"} /\ s \in McountState /\ PlaceOK(s) /\ WalkOK(s)
      /\ m' = [m EXCEPT ![p] = r] /\ s.stage # "idle"
  BY CallIs
<1>2. /\ r \in McountState /\ r.stage \in {"clear", "init", "insert"} /\ r.r10 = s.r10
      /\ r.self = s.self /\ r.from = s.from
  BY <1>1 DEF McountState
<1> HIDE DEF r
<1>3. PlaceOK(r) /\ StoreOK(p, r)
  BY <1>1, <1>2 DEF PlaceOK, StoreOK
<1>4. WalkOK(r)
  BY <1>1, <1>2 DEF WalkOK
<1>5. CutInv'
  BY <1>1, <1>2, CutStays
<1> QED BY <1>1, <1>2, <1>3, <1>4, <1>5, WalkStep

(* Storing a counter changes the total of its arc, and nothing else.       *)
LEMMA CountStored ==
  ASSUME RecordsInv, NEW i \in DOMAIN arcs, NEW c \in Nat,
         arcs' = [arcs EXCEPT ![i].count = c], UNCHANGED <<head, entries>>
  PROVE  /\ RecordsInv'
         /\ FunctionCount' = FunctionCount /\ ArcCount' = ArcCount /\ NextArc' = NextArc
         /\ \A e : ArcsOf(e)' = ArcsOf(e)
         /\ \A start : Listed(start, NextArc)' = Listed(start, NextArc)
         /\ \A j \in DOMAIN arcs : arcs'[j].from_pc = arcs[j].from_pc
         /\ \A j \in DOMAIN arcs : arcs'[j].count = IF j = i THEN c ELSE arcs[j].count
         /\ DOMAIN arcs' = DOMAIN arcs
         /\ \A a \in Arc :
              Total(a)' = IF i \in Copies(a) THEN Total(a) + c - arcs[i].count ELSE Total(a)
<1> DEFINE R == [from_pc : Pc, count : Nat, next : Nat]
<1>1. /\ arcs \in Seq(R) /\ ArcCount \in Nat /\ DOMAIN arcs = 1 .. ArcCount
      /\ NextArc \in [1 .. ArcCount -> 0 .. ArcCount]
  BY RecordsAre DEF RecordsInv
<1>2. /\ \A j \in 1 .. ArcCount : arcs[j] \in R
      /\ \A j \in 1 .. ArcCount : arcs'[j] = IF j = i THEN [arcs[i] EXCEPT !.count = c] ELSE arcs[j]
      /\ DOMAIN arcs' = DOMAIN arcs
  <2> HIDE DEF R
  <2> QED BY <1>1
<1>3. \A j \in 1 .. ArcCount :
        /\ arcs'[j] \in R /\ arcs'[j].from_pc = arcs[j].from_pc /\ arcs'[j].next = arcs[j].next
        /\ arcs'[j].count = IF j = i THEN c ELSE arcs[j].count
        /\ arcs[j].count \in Nat
  BY <1>1, <1>2
<1>4. arcs' \in Seq(R) /\ ArcCount' = ArcCount
  <2> DEFINE r == [arcs[i] EXCEPT !.count = c]
  <2>1. arcs' = [arcs EXCEPT ![i] = r]
    OBVIOUS
  <2>2. r \in R
    BY <1>1, <1>2
  <2>3. i \in 1 .. Len(arcs)
    BY <1>1 DEF ArcCount
  <2> HIDE DEF R, r
  <2>4. arcs' \in Seq(R) /\ Len(arcs') = Len(arcs)
    BY <1>1, <2>1, <2>2, <2>3, ExceptSeq
  <2> QED BY <2>4 DEF ArcCount
<1>5. NextArc' = NextArc
  BY <1>1, <1>2, <1>3 DEF NextArc
<1>6. \A e : ArcsOf(e)' = ArcsOf(e)
  <2>1. \A e : ArcsOf(e) = Listed(entries[e].arc_head, NextArc)
    BY DEF ArcsOf, NextArc
  <2>2. \A e : ArcsOf(e)' = Listed(entries[e].arc_head, NextArc')
    BY DEF ArcsOf, NextArc
  <2> QED BY <1>5, <2>1, <2>2
<1>7. RecordsInv'
  <2>1. \A j \in DOMAIN arcs' : arcs'[j].next \in 0 .. ArcCount'
    BY <1>1, <1>2, <1>3, <1>4 DEF RecordsInv
  <2> HIDE DEF R
  <2>2. arcs' \in Seq(R)
    BY <1>4
  <2> QED BY <1>2, <1>4, <1>6, <2>1, <2>2 DEF RecordsInv, FunctionCount, R
<1>8. FunctionRecords' = FunctionRecords
  BY DEF FunctionRecords
<1>9. ASSUME NEW a PROVE Copies(a)' = Copies(a)
  <2>1. \A e \in FunctionRecords : ArcsOf(e) \subseteq 1 .. ArcCount
    BY RecordsAre
  <2>2. Copies(a) = UNION {{j \in ArcsOf(e) : arcs[j].from_pc = a[2]} :
                          e \in {e \in FunctionRecords : entries[e].self_pc = a[1]}}
    BY DEF Copies
  <2>3. Copies(a)' = UNION {{j \in ArcsOf(e) : arcs'[j].from_pc = a[2]} :
                           e \in {e \in FunctionRecords : entries[e].self_pc = a[1]}}
    BY <1>6, <1>8 DEF Copies
  <2>4. \A j : j \in Copies(a) <=> j \in Copies(a)'
    BY <1>3, <2>1, <2>2, <2>3
  <2> QED BY <2>4
<1>10. ASSUME NEW a \in Arc
       PROVE  Total(a)' = IF i \in Copies(a) THEN Total(a) + c - arcs[i].count ELSE Total(a)
  <2> DEFINE d == Counts(a)
             f == Counts(a)'
             N == ArcCount
  <2>1. /\ N \in Nat /\ d \in [1 .. N -> Int] /\ f \in [1 .. N -> Int]
        /\ Total(a) = SumTo(d, N) /\ Total(a)' = SumTo(f, N)
    <3>1. Counts(a)' \in [1 .. ArcCount' -> Int] /\ Total(a)' = SumTo(Counts(a)', ArcCount')
      BY <1>7, TotalsThen DEF TotalsAre
    <3> QED BY <1>1, <1>4, <3>1, RecordsAre
  <2>2. \A j \in 1 .. N : /\ d[j] = IF j \in Copies(a) THEN arcs[j].count ELSE 0
                          /\ f[j] = IF j \in Copies(a) THEN arcs'[j].count ELSE 0
    BY <1>1, <1>2, <1>9 DEF Counts
  <2> HIDE DEF d, f, N
  <2>3. i \in 1 .. N /\ \A j \in 1 .. N : j # i => f[j] = d[j]
    BY <1>1, <1>3, <2>2 DEF N
  <2>4. SumTo(f, N) = SumTo(d, N) + f[i] - d[i]
    BY <2>1, <2>3, SumFollows
  <2>5. SumTo(d, N) \in Int
    BY <2>1, SumsAre
  <2> QED BY <1>3, <2>1, <2>2, <2>3, <2>4, <2>5 DEF N
<1> QED BY <1>1, <1>2, <1>3, <1>4, <1>5, <1>6, <1>7, <1>10 DEF FunctionCount

(* Counting a call in the record that it has found.                        *)
LEMMA FoundArcGraph ==
  ASSUME GraphInv, NEW p \in Caller, FoundArc(p)
  PROVE  GraphInv'
<1> DEFINE s == m[p]
           i == s.r3
           n == s.r10
           b == <<s.self, s.from>>
           other == IF p = "program" THEN "interrupt" ELSE "program"
           T == Total(b)
           P == calls["program"][b]
           I == calls["interrupt"][b]
           k == arcs[i].count
<1>1. /\ s.stage = "store" /\ s \in McountState /\ b \in Arc
      /\ Running(p) /\ UNCHANGED <<head, entries, cut>>
      /\ PlaceOK(s) /\ StoreOK(p, s) /\ RecordsInv
      /\ arcs' = [arcs EXCEPT ![i].count = s.r2]
      /\ m' = [m EXCEPT ![p] = Idle] /\ calls' = [calls EXCEPT ![p][b] = @ + 1]
  BY CallIs DEF FoundArc, Count
<1>2. /\ n \in DOMAIN entries /\ i \in ArcsOf(n) /\ i \in DOMAIN arcs /\ k \in Nat
      /\ entries[n].self_pc = s.self /\ arcs[i].from_pc = s.from
  <2>1. /\ n \in 0 .. FunctionCount /\ n # 0 /\ i \in ArcsOf(n) /\ entries[n].self_pc = s.self
        /\ arcs[i].from_pc = s.from
    BY <1>1 DEF PlaceOK
  <2>2. /\ FunctionCount \in Nat /\ DOMAIN entries = 1 .. FunctionCount
        /\ DOMAIN arcs = 1 .. ArcCount
    BY CallIs, RecordsAre
  <2>3. n \in DOMAIN entries
    BY <2>1, <2>2
  <2>4. i \in 1 .. ArcCount /\ arcs[i].count \in Nat
    BY <2>1, <2>3, CallIs
  <2> QED BY <2>1, <2>2, <2>3, <2>4
<1>3. s.r2 \in Nat
  BY <1>1 DEF McountState
<1>4. /\ RecordsInv'
      /\ FunctionCount' = FunctionCount /\ ArcCount' = ArcCount /\ NextArc' = NextArc
      /\ \A e : ArcsOf(e)' = ArcsOf(e)
      /\ \A start : Listed(start, NextArc)' = Listed(start, NextArc)
      /\ \A j \in DOMAIN arcs : arcs'[j].from_pc = arcs[j].from_pc
      /\ \A j \in DOMAIN arcs : arcs'[j].count = IF j = i THEN s.r2 ELSE arcs[j].count
      /\ DOMAIN arcs' = DOMAIN arcs
      /\ \A a \in Arc :
           Total(a)' = IF i \in Copies(a) THEN Total(a) + s.r2 - k ELSE Total(a)
  BY <1>1, <1>2, <1>3, CountStored
<1>5. \A a \in Arc : i \in Copies(a) <=> a = b
  BY <1>1, <1>2, CopiesAre
<1>6. /\ calls' \in [Caller -> [Arc -> Nat]] /\ calls \in [Caller -> [Arc -> Nat]]
      /\ \A q \in Caller : \A a \in Arc :
           calls'[q][a] = IF q = p /\ a = b THEN calls[q][a] + 1 ELSE calls[q][a]
  <2>1. calls \in [Caller -> [Arc -> Nat]]
    BY DEF GraphInv
  <2> HIDE DEF b
  <2> QED BY <1>1, <2>1
<1>7. \A a \in Arc : Total(a) \in Int /\ Total(a)' = IF a = b THEN Total(a) + s.r2 - k ELSE Total(a)
  BY <1>1, <1>4, <1>5, RecordsAre
<1>8. /\ P <= T /\ T <= P + I /\ ("store" \notin cut => T = P + I)
      /\ s.r2 <= k + 1 /\ P <= T - k + s.r2 - 1
      /\ (p = "interrupt" \/ "store" \notin cut => s.r2 = k + 1)
      /\ P \in Nat /\ I \in Nat /\ T \in Int
  <2>1. P <= T /\ T <= P + I /\ ("store" \notin cut => T = P + I)
    BY <1>1 DEF GraphInv, AccountInv
  <2>2. /\ s.r2 <= k + 1 /\ P <= T - k + s.r2 - 1
        /\ (p = "interrupt" \/ "store" \notin cut => s.r2 = k + 1)
    BY <1>1 DEF StoreOK
  <2>3. P \in Nat /\ I \in Nat /\ T \in Int
    BY <1>1, <1>6, <1>7 DEF Caller
  <2> QED BY <2>1, <2>2, <2>3
<1>9. AccountInv'
  <2> SUFFICES ASSUME NEW a \in Arc
               PROVE  LET all == calls'["program"][a] + calls'["interrupt"][a]
                      IN  /\ calls'["program"][a] <= Total(a)' /\ Total(a)' <= all
                          /\ "store" \notin cut => Total(a)' = all
    BY <1>1 DEF AccountInv
  <2>1. CASE a # b
    <3>1. /\ Total(a)' = Total(a)
          /\ \A q \in Caller : calls'[q][a] = calls[q][a]
      BY <1>6, <1>7, <2>1
    <3> QED BY <3>1 DEF GraphInv, AccountInv, Caller
  <2>2. CASE a = b
    <3>1. /\ Total(a)' = T + s.r2 - k
          /\ p = "program" => calls'["program"][a] = P + 1 /\ calls'["interrupt"][a] = I
          /\ p = "interrupt" => calls'["program"][a] = P /\ calls'["interrupt"][a] = I + 1
      BY <1>1, <1>6, <1>7, <2>2 DEF Caller
    <3>2. p = "program" \/ p = "interrupt"
      BY DEF Caller
    <3> HIDE DEF T, P, I, k, s, b
    <3> QED BY <1>2, <1>3, <1>8, <3>1, <3>2
  <2> QED BY <2>1, <2>2
<1>10. UniqueInv'
  <2>1. \A e \in DOMAIN entries : ArcsOf(e) \subseteq DOMAIN arcs
    BY <1>1, RecordsAre
  <2>2. UniqueInv
    BY DEF GraphInv
  <2> QED BY <1>1, <1>4, <2>1, <2>2 DEF UniqueInv
<1>11. /\ m' \in [Caller -> McountState]
       /\ m'[p].stage = "idle" /\ \A q \in Caller : q # p => m'[q] = m[q]
  <2>1. Idle \in McountState /\ Idle.stage = "idle"
    BY DEF Idle, McountState, Pc
  <2>2. m \in [Caller -> McountState]
    BY DEF GraphInv
  <2> QED BY <1>1, <2>1, <2>2
<1>12. CutInv'
  BY <1>11 DEF CutInv, Caller
<1>13. ASSUME NEW q \in Caller PROVE PlaceOK(m[q])' /\ WalkOK(m[q])' /\ StoreOK(q, m[q])'
  <2>1. CASE m'[q].stage = "idle"
    BY <2>1 DEF PlaceOK, WalkOK, StoreOK
  <2>2. CASE m'[q].stage # "idle"
    <3> DEFINE t == m[q]
               j == t.r3
               c == <<t.self, t.from>>
    <3>1. q # p /\ m'[q] = t /\ t.stage # "idle"
      BY <1>11, <2>2
    <3>2. p = "interrupt" /\ q = "program"
      BY <1>1, <3>1 DEF Running, Caller
    <3>3. /\ PlaceOK(t) /\ WalkOK(t) /\ StoreOK(q, t) /\ c \in Arc /\ t \in McountState
          /\ t.r10 \in 0 .. FunctionCount
          /\ \A e \in DOMAIN entries : ArcsOf(e) \subseteq DOMAIN arcs
          /\ DOMAIN entries = 1 .. FunctionCount /\ FunctionCount \in Nat
      BY <1>1, <3>1, CallIs, RecordsAre DEF PlaceOK
    <3>4. t.stage \in {"arc", "store"} =>
            t.r10 \in DOMAIN entries /\ j \in ArcsOf(t.r10) /\ j \in DOMAIN arcs
      <4>1. t.stage \in {"arc", "store"} => t.r10 # 0 /\ j \in ArcsOf(t.r10)
        BY <3>3 DEF PlaceOK
      <4> QED BY <3>3, <4>1
    <3>5. PlaceOK(m[q])'
      BY <1>1, <1>4, <3>1, <3>3, <3>4 DEF PlaceOK
    <3>6. WalkOK(m[q])'
      <4>1. t.r10 # 0 => t.r10 \in DOMAIN entries
        BY <3>3
      <4>2. WalkOK(t) /\ \A e \in DOMAIN entries : \A h \in ArcsOf(e) : arcs'[h].from_pc = arcs[h].from_pc
        BY <1>4, <3>3
      <4>3. t.stage = "arc" => t.r10 \in DOMAIN entries
        BY <3>4
      <4> HIDE DEF t
      <4> QED BY <1>1, <1>4, <3>1, <4>1, <4>2, <4>3 DEF WalkOK
    <3>7. StoreOK(q, m[q])'
      <4>1. SUFFICES ASSUME t.stage = "store"
                     PROVE  /\ t.r2 <= arcs'[j].count + 1
                            /\ calls'["program"][c] <= Total(c)' - arcs'[j].count + t.r2 - 1
                            /\ q = "interrupt" \/ "store" \notin cut => t.r2 = arcs'[j].count + 1
        BY <1>1, <3>1 DEF StoreOK
      <4>2. "store" \in cut
        BY <1>1, <3>2, <4>1 DEF GraphInv, CutInv
      <4>3. /\ t.r2 <= arcs[j].count + 1
            /\ calls["program"][c] <= Total(c) - arcs[j].count + t.r2 - 1
        BY <3>3, <4>1 DEF StoreOK
      <4>4. j = i => c = b
        <5>1. /\ t.r10 \in DOMAIN entries /\ j \in ArcsOf(t.r10) /\ entries[t.r10].self_pc = t.self
              /\ arcs[j].from_pc = t.from
          BY <3>3, <3>4, <4>1 DEF PlaceOK
        <5>2. j \in Copies(c)
          BY <1>1, <3>3, <5>1, CopiesAre
        <5> QED BY <1>5, <3>3, <5>2
      <4>5. calls'["program"][c] = calls["program"][c] /\ calls["program"][c] \in Nat
        BY <1>6, <3>2, <3>3 DEF Caller
      <4>6. s.r2 = k + 1
        BY <1>8, <3>2
      <4>7. Total(c) \in Int /\ Total(c)' = IF c = b THEN Total(c) + 1 ELSE Total(c)
        <5> DEFINE x == Total(c)
                   y == Total(c)'
        <5>1. x \in Int /\ y = IF c = b THEN x + s.r2 - k ELSE x
          BY <1>7, <3>1, <3>3
        <5> HIDE DEF x, y, k, s, b
        <5>2. y = IF c = b THEN x + 1 ELSE x
          BY <1>2, <4>6, <5>1
        <5> QED BY <5>1, <5>2 DEF x, y
      <4>8. arcs'[j].count = IF j = i THEN arcs[j].count + 1 ELSE arcs[j].count
        BY <1>4, <3>4, <4>1, <4>6
      <4>9. arcs[j].count \in Nat /\ t.r2 \in Nat
        BY <3>3, <3>4, <4>1, CallIs DEF McountState
      <4> DEFINE x == Total(c)
                 y == Total(c)'
                 u == calls["program"][c]
                 v == arcs[j].count
                 z == arcs'[j].count
      <4> HIDE DEF x, y, u, v, z
      <4>10. t.r2 <= z + 1 /\ u <= y - z + t.r2 - 1
        BY <4>3, <4>4, <4>5, <4>7, <4>8, <4>9 DEF x, y, u, v, z
      <4> QED BY <3>2, <4>2, <4>5, <4>10 DEF y, u, z
    <3> QED BY <3>5, <3>6, <3>7
  <2> QED BY <2>1, <2>2
<1> QED BY <1>4, <1>6, <1>9, <1>10, <1>11, <1>12, <1>13 DEF GraphInv

(* A new arc is put into the list of the function e, one that was there or *)
(* a new one at the head of the list of functions.                         *)
FunctionRecord == [self_pc : Pc, arc_head : Nat, next : Nat]
ArcRecord == [from_pc : Pc, count : Nat, next : Nat]

Entered(e, self, first) ==
  /\ entries' \in Seq(FunctionRecord) /\ head' = FunctionCount'
  /\ DOMAIN entries' = DOMAIN entries \cup {e}
  /\ \A d \in DOMAIN entries' : entries'[d].next = d - 1
  /\ \A d \in DOMAIN entries : entries'[d].self_pc = entries[d].self_pc
  /\ \A d \in DOMAIN entries : d # e => entries'[d].arc_head = entries[d].arc_head
  /\ entries'[e].self_pc = self /\ entries'[e].arc_head = ArcCount + 1
  /\ first = IF e \in DOMAIN entries THEN entries[e].arc_head ELSE 0

LEMMA KnownEntered ==
  ASSUME RecordsInv, NEW e \in DOMAIN entries, NEW self, self = entries[e].self_pc,
         entries' = [entries EXCEPT ![e].arc_head = ArcCount + 1], UNCHANGED head
  PROVE  Entered(e, self, entries[e].arc_head)
<1> DEFINE r == [entries[e] EXCEPT !.arc_head = ArcCount + 1]
<1>1. /\ entries \in Seq(FunctionRecord) /\ e \in 1 .. Len(entries) /\ ArcCount + 1 \in Nat
      /\ DOMAIN entries = 1 .. Len(entries)
  <2>1. DOMAIN entries = 1 .. Len(entries) /\ ArcCount \in Nat
    BY RecordsAre DEF FunctionCount
  <2>2. entries \in Seq(FunctionRecord)
    BY DEF RecordsInv, FunctionRecord
  <2> QED BY <2>1, <2>2
<1>2. entries[e] \in FunctionRecord
  <2> HIDE DEF FunctionRecord
  <2> QED BY <1>1
<1>3. /\ r \in FunctionRecord /\ r.self_pc = self /\ r.next = entries[e].next
      /\ r.arc_head = ArcCount + 1
  BY <1>1, <1>2 DEF FunctionRecord
<1>4. entries' = [entries EXCEPT ![e] = r]
  OBVIOUS
<1> HIDE DEF r
<1>5. entries' \in Seq(FunctionRecord) /\ Len(entries') = Len(entries)
  BY <1>1, <1>3, <1>4, ExceptSeq
<1>6. DOMAIN entries' = DOMAIN entries /\ \A d \in DOMAIN entries : entries'[d] = IF d = e THEN r ELSE entries[d]
  BY <1>4
<1>7. FunctionCount' = FunctionCount /\ head = FunctionCount
  BY <1>5 DEF FunctionCount, RecordsInv
<1>8. \A d \in DOMAIN entries : entries[d].next = d - 1
  BY DEF RecordsInv
<1> QED BY <1>3, <1>5, <1>6, <1>7, <1>8 DEF Entered

LEMMA UnknownEntered ==
  ASSUME RecordsInv, NEW self \in Pc,
         entries' = Append(entries, [self_pc |-> self, arc_head |-> ArcCount + 1, next |-> head]),
         head' = FunctionCount + 1
  PROVE  Entered(FunctionCount + 1, self, 0)
<1> DEFINE r == [self_pc |-> self, arc_head |-> ArcCount + 1, next |-> head]
           e == FunctionCount + 1
<1>1. /\ entries \in Seq(FunctionRecord) /\ ArcCount + 1 \in Nat /\ head = FunctionCount
      /\ FunctionCount \in Nat /\ DOMAIN entries = 1 .. FunctionCount
  <2>1. FunctionCount \in Nat /\ DOMAIN entries = 1 .. FunctionCount /\ ArcCount \in Nat
    BY RecordsAre
  <2>2. entries \in Seq(FunctionRecord) /\ head = FunctionCount
    BY DEF RecordsInv, FunctionRecord
  <2> QED BY <2>1, <2>2
<1>2. /\ r \in FunctionRecord /\ r.self_pc = self /\ r.next = FunctionCount
      /\ r.arc_head = ArcCount + 1
  BY <1>1 DEF FunctionRecord
<1>3. entries' = Append(entries, r)
  OBVIOUS
<1> HIDE DEF r
<1>4. /\ entries' \in Seq(FunctionRecord) /\ Len(entries') = Len(entries) + 1
      /\ \A d \in 1 .. Len(entries) : entries'[d] = entries[d]
      /\ entries'[Len(entries) + 1] = r
  BY <1>1, <1>2, <1>3, AppendProperties
<1>5. /\ FunctionCount' = FunctionCount + 1 /\ DOMAIN entries' = 1 .. FunctionCount + 1
      /\ \A d \in 1 .. FunctionCount : entries'[d] = entries[d]
      /\ entries'[e] = r
  BY <1>4 DEF FunctionCount
<1>6. DOMAIN entries' = DOMAIN entries \cup {e} /\ e \notin DOMAIN entries
  BY <1>1, <1>5
<1>7. \A d \in DOMAIN entries' : entries'[d].next = d - 1
  <2>1. \A d \in DOMAIN entries : entries[d].next = d - 1
    BY DEF RecordsInv
  <2>2. r.next = e - 1
    BY <1>1, <1>2
  <2> QED BY <1>1, <1>5, <1>6, <2>1, <2>2
<1> QED BY <1>1, <1>2, <1>4, <1>5, <1>6, <1>7 DEF Entered

LEMMA ArcEntered ==
  ASSUME RecordsInv, NEW e, NEW self, NEW from \in Pc, NEW first,
         Entered(e, self, first),
         arcs' = Append(arcs, [from_pc |-> from, count |-> 1, next |-> first])
  PROVE  /\ RecordsInv'
         /\ ArcCount' = ArcCount + 1 /\ DOMAIN arcs' = 1 .. ArcCount + 1
         /\ \A i \in 1 .. ArcCount : arcs'[i] = arcs[i]
         /\ arcs'[ArcCount + 1].from_pc = from /\ arcs'[ArcCount + 1].count = 1
         /\ \A d : ArcsOf(d)' \subseteq 1 .. ArcCount + 1
         /\ \A d \in DOMAIN entries : d # e => ArcsOf(d)' = ArcsOf(d)
         /\ ArcsOf(e)' = {ArcCount + 1} \cup (IF e \in DOMAIN entries THEN ArcsOf(e) ELSE {})
         /\ \A start \in 0 .. ArcCount : Listed(start, NextArc)' = Listed(start, NextArc)
<1> DEFINE r == [from_pc |-> from, count |-> 1, next |-> first]
           N == ArcCount
<1>1. /\ arcs \in Seq(ArcRecord) /\ N \in Nat /\ DOMAIN arcs = 1 .. N /\ N = Len(arcs)
      /\ NextArc \in [1 .. N -> 0 .. N]
      /\ \A d \in DOMAIN entries : entries[d].arc_head \in 1 .. N
      /\ \A d \in DOMAIN entries : ArcsOf(d) \subseteq 1 .. N
  BY RecordsAre DEF RecordsInv, ArcRecord, ArcCount
<1>2. first \in 0 .. N
  BY <1>1 DEF Entered
<1>3. r \in ArcRecord /\ r.next = first /\ r.from_pc = from /\ r.count = 1
  BY <1>1, <1>2 DEF ArcRecord
<1>4. arcs' = Append(arcs, r)
  OBVIOUS
<1> HIDE DEF r
<1>5. /\ arcs' \in Seq(ArcRecord) /\ Len(arcs') = N + 1
      /\ \A i \in 1 .. N : arcs'[i] = arcs[i]
      /\ arcs'[N + 1] = r
  BY <1>1, <1>3, <1>4, AppendProperties
<1>6. ArcCount' = N + 1 /\ DOMAIN arcs' = 1 .. N + 1
  BY <1>1, <1>5 DEF ArcCount
<1> HIDE DEF N
<1>7. /\ NextArc' \in [1 .. N + 1 -> 0 .. N] /\ \A i \in 1 .. N : NextArc'[i] = NextArc[i]
      /\ NextArc'[N + 1] = first /\ DOMAIN NextArc' = 1 .. N + 1
  <2>1. NextArc' = [i \in 1 .. N + 1 |-> arcs'[i].next]
    BY <1>6 DEF NextArc
  <2>2. \A i \in 1 .. N : arcs'[i].next = NextArc[i] /\ NextArc[i] \in 0 .. N
    BY <1>1, <1>5 DEF NextArc
  <2>3. arcs'[N + 1].next = first
    BY <1>3, <1>5
  <2>4. \A i \in 1 .. N + 1 : i \in 1 .. N \/ i = N + 1
    BY <1>1
  <2>5. N + 1 \in 1 .. N + 1 /\ 1 .. N \subseteq 1 .. N + 1
    BY <1>1
  <2> QED BY <1>2, <2>1, <2>2, <2>3, <2>4, <2>5
<1>8. /\ \A start \in 0 .. N : Listed(start, NextArc') = Listed(start, NextArc)
      /\ Listed(N + 1, NextArc') = {N + 1} \cup Listed(first, NextArc)
  <2> DEFINE old == NextArc
             new == NextArc'
  <2>1. /\ N \in Nat /\ old \in [1 .. N -> 0 .. N] /\ new \in [1 .. N + 1 -> 0 .. N]
        /\ \A i \in 1 .. N : new[i] = old[i]
    BY <1>1, <1>7
  <2> HIDE DEF old, new
  <2>2. /\ \A start \in 0 .. N : Listed(start, new) = Listed(start, old)
        /\ Listed(N + 1, new) = {N + 1} \cup Listed(new[N + 1], old)
    BY <2>1, ListsKept
  <2> QED BY <1>7, <2>2 DEF old, new
<1>9. /\ \A d : ArcsOf(d) = Listed(entries[d].arc_head, NextArc)
      /\ \A d : ArcsOf(d)' = Listed(entries'[d].arc_head, NextArc')
  BY DEF ArcsOf, NextArc
<1>10. \A d : ArcsOf(d)' \subseteq 1 .. N + 1
  BY <1>7, <1>9 DEF Listed
<1>11. \A d \in DOMAIN entries : d # e => ArcsOf(d)' = ArcsOf(d)
  <2>1. \A d \in DOMAIN entries : d # e => entries'[d].arc_head = entries[d].arc_head
    BY DEF Entered
  <2>2. 1 .. N \subseteq 0 .. N
    BY <1>1
  <2> QED BY <1>1, <1>8, <1>9, <2>1, <2>2
<1>12. ArcsOf(e)' = {N + 1} \cup (IF e \in DOMAIN entries THEN ArcsOf(e) ELSE {})
  <2>1. ArcsOf(e)' = {N + 1} \cup Listed(first, NextArc)
    BY <1>8, <1>9 DEF Entered, N
  <2>2. first = IF e \in DOMAIN entries THEN entries[e].arc_head ELSE 0
    BY DEF Entered
  <2>3. Listed(0, NextArc) = {}
    BY EmptyList
  <2> QED BY <1>9, <2>1, <2>2, <2>3
<1>13. RecordsInv'
  <2>1. \A d \in DOMAIN entries' : entries'[d].next = d - 1 /\ entries'[d].arc_head \in DOMAIN arcs'
    <3>1. N + 1 \in 1 .. N + 1 /\ 1 .. N \subseteq 1 .. N + 1
      BY <1>1
    <3> QED BY <1>1, <1>6, <3>1 DEF Entered, N
  <2>2. \A i \in DOMAIN arcs' : arcs'[i].next \in 0 .. ArcCount'
    <3>1. \A i \in DOMAIN arcs' : arcs'[i].next = NextArc'[i]
      BY DEF NextArc
    <3>2. 0 .. N \subseteq 0 .. N + 1
      BY <1>1
    <3> QED BY <1>6, <1>7, <3>1, <3>2
  <2>3. \A c, d \in DOMAIN entries' : c # d => ArcsOf(c)' \cap ArcsOf(d)' = {}
    <3>1. \A c \in DOMAIN entries' : c = e \/ c \in DOMAIN entries
      BY DEF Entered
    <3>2. \A c, d \in DOMAIN entries : c # d => ArcsOf(c) \cap ArcsOf(d) = {}
      BY DEF RecordsInv
    <3>3. N + 1 \notin 1 .. N
      BY <1>1
    <3>4. ASSUME NEW c \in DOMAIN entries, c # e PROVE ArcsOf(c)' \cap ArcsOf(e)' = {}
      <4>1. ArcsOf(c)' = ArcsOf(c) /\ ArcsOf(c) \subseteq 1 .. N
        BY <1>1, <1>11, <3>4
      <4> QED BY <1>12, <3>2, <3>3, <3>4, <4>1
    <3>5. \A c \in DOMAIN entries : c # e => ArcsOf(e)' \cap ArcsOf(c)' = {}
      BY <3>4
    <3> QED BY <1>11, <3>1, <3>2, <3>4, <3>5
  <2>4. entries' \in Seq([self_pc : Pc, arc_head : Nat, next : Nat]) /\ head' = FunctionCount'
    BY DEF Entered, FunctionRecord
  <2>5. arcs' \in Seq([from_pc : Pc, count : Nat, next : Nat])
    BY <1>5 DEF ArcRecord
  <2> QED BY <2>1, <2>2, <2>3, <2>4, <2>5 DEF RecordsInv
<1>14. \A start \in 0 .. N : Listed(start, NextArc)' = Listed(start, NextArc)
  BY <1>8
<1> QED BY <1>3, <1>5, <1>6, <1>10, <1>11, <1>12, <1>13, <1>14 DEF N

LEMMA ArcCounted ==
  ASSUME RecordsInv, NEW e, NEW self \in Pc, NEW from \in Pc, NEW first,
         Entered(e, self, first), e \in DOMAIN entries => entries[e].self_pc = self,
         arcs' = Append(arcs, [from_pc |-> from, count |-> 1, next |-> first]),
         NEW a \in Arc
  PROVE  Total(a)' = IF a = <<self, from>> THEN Total(a) + 1 ELSE Total(a)
<1> DEFINE N == ArcCount
           d == Counts(a)
           f == Counts(a)'
<1>1. /\ RecordsInv' /\ ArcCount' = N + 1 /\ DOMAIN arcs' = 1 .. N + 1
      /\ \A i \in 1 .. N : arcs'[i] = arcs[i]
      /\ arcs'[N + 1].from_pc = from /\ arcs'[N + 1].count = 1
      /\ \A c \in DOMAIN entries : c # e => ArcsOf(c)' = ArcsOf(c)
      /\ ArcsOf(e)' = {N + 1} \cup (IF e \in DOMAIN entries THEN ArcsOf(e) ELSE {})
  BY ArcEntered
<1>2. /\ N \in Nat /\ DOMAIN arcs = 1 .. N
      /\ FunctionRecords = DOMAIN entries
      /\ \A c \in DOMAIN entries : ArcsOf(c) \subseteq 1 .. N
      /\ Total(a) = SumTo(d, N) /\ d \in [1 .. N -> Int]
  BY RecordsAre
<1>3. /\ FunctionRecords' = DOMAIN entries'
      /\ Total(a)' = SumTo(f, N + 1) /\ f \in [1 .. N + 1 -> Int]
  BY <1>1, TotalsThen DEF TotalsAre
<1>4. /\ DOMAIN entries' = DOMAIN entries \cup {e} /\ entries'[e].self_pc = self
      /\ \A c \in DOMAIN entries : entries'[c].self_pc = entries[c].self_pc
  BY DEF Entered
<1>5. N + 1 \notin 1 .. N /\ N + 1 \in 1 .. N + 1 /\ 1 .. N \subseteq 1 .. N + 1
  BY <1>2
<1>6. Copies(a) = UNION {{j \in ArcsOf(c) : arcs[j].from_pc = a[2]} :
                         c \in {c \in DOMAIN entries : entries[c].self_pc = a[1]}}
  BY <1>2 DEF Copies
<1> DEFINE Of == [c \in DOMAIN entries' |-> ArcsOf(c)']
<1>7. \A c \in DOMAIN entries' : Of[c] = ArcsOf(c)'
  OBVIOUS
<1>8. \A i : i \in Copies(a)' <=> \E c \in DOMAIN entries' :
        entries'[c].self_pc = a[1] /\ i \in Of[c] /\ arcs'[i].from_pc = a[2]
  <2> DEFINE E == entries'
             A == arcs'
             K == Copies(a)'
  <2>1. K = UNION {{j \in Of[c] : A[j].from_pc = a[2]} :
                   c \in {c \in DOMAIN E : E[c].self_pc = a[1]}}
    BY <1>3 DEF Copies
  <2> HIDE DEF E, A, K, Of
  <2>2. \A i : i \in K <=> \E c \in DOMAIN E :
          E[c].self_pc = a[1] /\ i \in Of[c] /\ A[i].from_pc = a[2]
    BY <2>1
  <2> QED BY <2>2 DEF E, A, K
<1> HIDE DEF Of
<1>9. ASSUME NEW i \in 1 .. N PROVE i \in Copies(a)' <=> i \in Copies(a)
  <2>1. arcs'[i] = arcs[i] /\ i # N + 1
    BY <1>1, <1>5
  <2>2. \A c \in DOMAIN entries : i \in ArcsOf(c)' <=> i \in ArcsOf(c)
    BY <1>1, <2>1
  <2>3. e \notin DOMAIN entries => i \notin ArcsOf(e)'
    BY <1>1, <2>1
  <2>4. i \in Copies(a) <=> \E c \in DOMAIN entries :
           entries[c].self_pc = a[1] /\ i \in ArcsOf(c) /\ arcs[i].from_pc = a[2]
    BY <1>6
  <2>5. i \in Copies(a)' <=> \E c \in DOMAIN entries' :
           entries'[c].self_pc = a[1] /\ i \in Of[c] /\ arcs'[i].from_pc = a[2]
    BY <1>8
  <2> QED BY <1>4, <1>7, <2>1, <2>2, <2>3, <2>4, <2>5
<1>10. N + 1 \in Copies(a)' <=> a = <<self, from>>
  <2>1. N + 1 \in Copies(a)' <=> \E c \in DOMAIN entries' :
           entries'[c].self_pc = a[1] /\ N + 1 \in Of[c] /\ arcs'[N + 1].from_pc = a[2]
    BY <1>8
  <2>2. \A c \in DOMAIN entries' : N + 1 \in Of[c] <=> c = e
    BY <1>1, <1>2, <1>4, <1>5, <1>7
  <2>3. N + 1 \in Copies(a)' <=> self = a[1] /\ from = a[2]
    BY <1>1, <1>4, <2>1, <2>2
  <2>4. a = <<a[1], a[2]>>
    BY ProfilerAssumption
  <2> QED BY <2>3, <2>4
<1>11. \A i \in 1 .. N : f[i] = d[i]
  BY <1>1, <1>2, <1>5, <1>9 DEF Counts
<1>12. f[N + 1] = IF a = <<self, from>> THEN 1 ELSE 0
  BY <1>1, <1>5, <1>10 DEF Counts
<1> DEFINE sum == SumTo(d, N)
           more == SumTo(f, N + 1)
<1>13. sum \in Int /\ more = sum + f[N + 1]
  <2> HIDE DEF d, f, N
  <2>1. sum \in Int
    BY <1>2, SumsAre
  <2>2. more = sum + f[N + 1]
    BY <1>2, <1>3, <1>11, SumGrows
  <2> QED BY <2>1, <2>2
<1> HIDE DEF sum, more, d, f, N
<1>14. more = IF a = <<self, from>> THEN sum + 1 ELSE sum
  BY <1>12, <1>13
<1> QED BY <1>2, <1>3, <1>14 DEF sum, more

(* Recording a call in a new record.                                       *)
LEMMA RecordGraph ==
  ASSUME GraphInv, NEW p \in Caller, mcount_record(p)
  PROVE  GraphInv'
<1> DEFINE s == m[p]
           b == <<s.self, s.from>>
           known == s.r10 # 0
           N == ArcCount
<1> PICK e : e = IF known THEN s.r10 ELSE FunctionCount + 1
  OBVIOUS
<1> DEFINE first == IF known THEN entries[e].arc_head ELSE 0
<1>1. /\ s.stage = "insert" /\ s \in McountState /\ b \in Arc
      /\ Running(p) /\ UNCHANGED cut /\ PlaceOK(s) /\ WalkOK(s) /\ RecordsInv
      /\ m' = [m EXCEPT ![p] = Idle] /\ calls' = [calls EXCEPT ![p][b] = @ + 1]
  BY CallIs DEF mcount_record, Count
<1>2. /\ FunctionCount \in Nat /\ DOMAIN entries = 1 .. FunctionCount
      /\ N \in Nat /\ DOMAIN arcs = 1 .. N
      /\ \A c \in DOMAIN entries : ArcsOf(c) \subseteq 1 .. N
      /\ s.r10 \in 0 .. FunctionCount /\ s.self \in Pc /\ s.from \in Pc
      /\ known => e \in DOMAIN entries /\ entries[e].self_pc = s.self
      /\ ~known => e \notin DOMAIN entries
  <2>1. /\ FunctionCount \in Nat /\ DOMAIN entries = 1 .. FunctionCount
        /\ N \in Nat /\ DOMAIN arcs = 1 .. N
        /\ \A c \in DOMAIN entries : ArcsOf(c) \subseteq 1 .. N
    BY <1>1, RecordsAre
  <2>2. /\ s.r10 \in 0 .. FunctionCount /\ s.self \in Pc /\ s.from \in Pc
        /\ known => entries[s.r10].self_pc = s.self
    BY <1>1 DEF PlaceOK, McountState
  <2> HIDE DEF s
  <2> QED BY <2>1, <2>2
<1>3. arcs' = Append(arcs, [from_pc |-> s.from, count |-> 1, next |-> first])
  BY DEF mcount_record
<1>4. Entered(e, s.self, first)
  <2>1. CASE known
    <3>1. entries' = [entries EXCEPT ![e].arc_head = ArcCount + 1] /\ UNCHANGED head
      BY <2>1 DEF mcount_record, ArcCount
    <3>2. e \in DOMAIN entries /\ s.self = entries[e].self_pc /\ first = entries[e].arc_head
      BY <1>2, <2>1
    <3> HIDE DEF first, s
    <3> QED BY <1>1, <3>1, <3>2, KnownEntered
  <2>2. CASE ~known
    <3>1. /\ entries' = Append(entries, [self_pc |-> s.self, arc_head |-> ArcCount + 1,
                                         next |-> head])
          /\ head' = FunctionCount + 1 /\ first = 0 /\ e = FunctionCount + 1
      BY <2>2 DEF mcount_record, ArcCount, FunctionCount
    <3> HIDE DEF first, s
    <3> QED BY <1>1, <1>2, <3>1, UnknownEntered
  <2> QED BY <2>1, <2>2
<1>5. /\ RecordsInv' /\ ArcCount' = N + 1 /\ DOMAIN arcs' = 1 .. N + 1
      /\ \A i \in 1 .. N : arcs'[i] = arcs[i]
      /\ arcs'[N + 1].from_pc = s.from /\ arcs'[N + 1].count = 1
      /\ \A c \in DOMAIN entries : c # e => ArcsOf(c)' = ArcsOf(c)
      /\ ArcsOf(e)' = {N + 1} \cup (IF e \in DOMAIN entries THEN ArcsOf(e) ELSE {})
  <2> HIDE DEF s, first
  <2> QED BY <1>1, <1>2, <1>3, <1>4, ArcEntered
<1>6. \A a \in Arc : Total(a)' = IF a = b THEN Total(a) + 1 ELSE Total(a)
  <2>1. e \in DOMAIN entries => entries[e].self_pc = s.self
    BY <1>2
  <2>2. ASSUME NEW a \in Arc
        PROVE  Total(a)' = IF a = <<s.self, s.from>> THEN Total(a) + 1 ELSE Total(a)
    <3>1. RecordsInv /\ s.self \in Pc /\ s.from \in Pc
      BY <1>1, <1>2
    <3> HIDE DEF s, first
    <3> QED BY <1>3, <1>4, <2>1, <3>1, ArcCounted
  <2> QED BY <2>2
<1>7. /\ DOMAIN entries' = DOMAIN entries \cup {e} /\ entries'[e].self_pc = s.self
      /\ \A c \in DOMAIN entries : entries'[c].self_pc = entries[c].self_pc
      /\ e \in DOMAIN entries' /\ DOMAIN entries \subseteq DOMAIN entries'
  BY <1>4 DEF Entered
<1>8. \A c \in DOMAIN entries : ArcsOf(c) \subseteq ArcsOf(c)'
  BY <1>5
<1>9. /\ calls' \in [Caller -> [Arc -> Nat]] /\ calls \in [Caller -> [Arc -> Nat]]
      /\ \A q \in Caller : \A a \in Arc :
           calls'[q][a] = IF q = p /\ a = b THEN calls[q][a] + 1 ELSE calls[q][a]
  <2>1. calls \in [Caller -> [Arc -> Nat]]
    BY DEF GraphInv
  <2> HIDE DEF b
  <2> QED BY <1>1, <2>1
<1>10. AccountInv'
  <2> SUFFICES ASSUME NEW a \in Arc
               PROVE  LET all == calls'["program"][a] + calls'["interrupt"][a]
                      IN  /\ calls'["program"][a] <= Total(a)' /\ Total(a)' <= all
                          /\ "store" \notin cut => Total(a)' = all
    BY <1>1 DEF AccountInv
  <2> DEFINE T == Total(a)
             U == Total(a)'
             P == calls["program"][a]
             I == calls["interrupt"][a]
             Q == calls'["program"][a]
             J == calls'["interrupt"][a]
  <2>1. /\ P <= T /\ T <= P + I /\ ("store" \notin cut => T = P + I)
        /\ P \in Nat /\ I \in Nat /\ T \in Int
    BY <1>1, <1>9, RecordsAre DEF GraphInv, AccountInv, Caller
  <2>2. U = IF a = b THEN T + 1 ELSE T
    BY <1>6
  <2>3. /\ Q = IF p = "program" /\ a = b THEN P + 1 ELSE P
        /\ J = IF p = "interrupt" /\ a = b THEN I + 1 ELSE I
    BY <1>9 DEF Caller
  <2>4. p = "program" \/ p = "interrupt"
    BY DEF Caller
  <2> HIDE DEF T, U, P, I, Q, J, b
  <2>5. Q <= U /\ U <= Q + J /\ ("store" \notin cut => U = Q + J)
    <3>1. CASE a # b
      <4>1. U = T /\ Q = P /\ J = I
        BY <2>2, <2>3, <3>1
      <4> QED BY <2>1, <4>1
    <3>2. CASE a = b
      <4>1. U = T + 1 /\ ((Q = P + 1 /\ J = I) \/ (Q = P /\ J = I + 1))
        <5>1. CASE p = "program"
          BY <2>2, <2>3, <3>2, <5>1
        <5>2. CASE p = "interrupt"
          BY <2>2, <2>3, <3>2, <5>2
        <5> QED BY <2>4, <5>1, <5>2
      <4> QED BY <2>1, <4>1
    <3> QED BY <3>1, <3>2
  <2> QED BY <2>5 DEF U, Q, J
<1>11. UniqueInv'
  <2> SUFFICES ASSUME "walk" \notin cut
               PROVE  /\ \A c, d \in DOMAIN entries' : entries'[c].self_pc = entries'[d].self_pc => c = d
                      /\ \A c \in DOMAIN entries' : \A i, j \in ArcsOf(c)' :
                           arcs'[i].from_pc = arcs'[j].from_pc => i = j
    BY <1>1 DEF UniqueInv
  <2>1. /\ \A c, d \in DOMAIN entries : entries[c].self_pc = entries[d].self_pc => c = d
        /\ \A c \in DOMAIN entries : \A i, j \in ArcsOf(c) :
             arcs[i].from_pc = arcs[j].from_pc => i = j
    BY DEF GraphInv, UniqueInv
  <2>2. IF s.r10 = 0 THEN \A c \in DOMAIN entries : entries[c].self_pc # s.self
        ELSE \A i \in ArcsOf(s.r10) : arcs[i].from_pc # s.from
    BY <1>1 DEF WalkOK
  <2>3. e \notin DOMAIN entries => \A c \in DOMAIN entries : entries[c].self_pc # s.self
    BY <1>2, <2>2
  <2>4. e \in DOMAIN entries => \A i \in ArcsOf(e) : arcs[i].from_pc # s.from
    BY <1>2, <2>2
  <2> HIDE DEF s
  <2>5. \A c, d \in DOMAIN entries' : entries'[c].self_pc = entries'[d].self_pc => c = d
    BY <1>7, <2>1, <2>3
  <2>6. ASSUME NEW c \in DOMAIN entries, c # e, NEW i \in ArcsOf(c)', NEW j \in ArcsOf(c)',
               arcs'[i].from_pc = arcs'[j].from_pc
        PROVE  i = j
    <3>1. i \in ArcsOf(c) /\ j \in ArcsOf(c) /\ ArcsOf(c) \subseteq 1 .. N
      BY <1>2, <1>5, <2>6
    <3>2. arcs'[i] = arcs[i] /\ arcs'[j] = arcs[j]
      BY <1>5, <3>1
    <3> QED BY <2>1, <2>6, <3>1, <3>2
  <2>7. ASSUME NEW i \in ArcsOf(e)', NEW j \in ArcsOf(e)', arcs'[i].from_pc = arcs'[j].from_pc
        PROVE  i = j
    <3> DEFINE old == IF e \in DOMAIN entries THEN ArcsOf(e) ELSE {}
    <3>1. \A k \in old : k \in 1 .. N /\ arcs'[k] = arcs[k] /\ arcs[k].from_pc # s.from
      BY <1>2, <1>5, <2>4
    <3>2. \A k \in ArcsOf(e)' : k = N + 1 \/ k \in old
      BY <1>5
    <3>3. CASE i \in old /\ j \in old
      BY <2>1, <2>7, <3>1, <3>3
    <3>4. CASE ~(i \in old /\ j \in old)
      BY <1>5, <2>7, <3>1, <3>2, <3>4
    <3> QED BY <3>3, <3>4
  <2>8. \A c \in DOMAIN entries' : c = e \/ (c \in DOMAIN entries /\ c # e)
    BY <1>7
  <2> QED BY <2>5, <2>6, <2>7, <2>8
<1>12. /\ m' \in [Caller -> McountState]
       /\ m'[p].stage = "idle" /\ \A q \in Caller : q # p => m'[q] = m[q]
  <2>1. Idle \in McountState /\ Idle.stage = "idle"
    BY DEF Idle, McountState, Pc
  <2>2. m \in [Caller -> McountState]
    BY DEF GraphInv
  <2> QED BY <1>1, <2>1, <2>2
<1>13. CutInv'
  BY <1>12 DEF CutInv, Caller
<1>14. ASSUME NEW q \in Caller PROVE PlaceOK(m[q])' /\ WalkOK(m[q])' /\ StoreOK(q, m[q])'
  <2>1. CASE m'[q].stage = "idle"
    BY <2>1 DEF PlaceOK, WalkOK, StoreOK
  <2>2. CASE m'[q].stage # "idle"
    <3> DEFINE t == m[q]
               j == t.r3
               c == <<t.self, t.from>>
    <3>1. q # p /\ m'[q] = t /\ t.stage # "idle"
      BY <1>12, <2>2
    <3>2. p = "interrupt" /\ q = "program"
      BY <1>1, <3>1 DEF Running, Caller
    <3>3. /\ PlaceOK(t) /\ StoreOK(q, t) /\ c \in Arc /\ t \in McountState
          /\ t.r10 \in 0 .. FunctionCount
      BY <1>1, <3>1, CallIs DEF PlaceOK
    <3>4. (IF t.stage = "store" THEN "store" ELSE "walk") \in cut
      BY <1>1, <3>1, <3>2 DEF GraphInv, CutInv
    <3>5. t.r10 # 0 => t.r10 \in DOMAIN entries
      BY <1>2, <3>3
    <3>6. t.stage \in {"arc", "store"} => t.r10 # 0 /\ j \in ArcsOf(t.r10) /\ j \in 1 .. N
      <4>1. t.stage \in {"arc", "store"} => t.r10 # 0 /\ j \in ArcsOf(t.r10)
        BY <3>3 DEF PlaceOK
      <4> QED BY <1>2, <3>5, <4>1
    <3>7. PlaceOK(m[q])'
      <4>1. t.r10 \in 0 .. FunctionCount'
        <5>1. FunctionCount' \in Nat /\ DOMAIN entries' = 1 .. FunctionCount'
          <6>1. entries' \in Seq(FunctionRecord)
            BY <1>4 DEF Entered
          <6> QED BY <6>1 DEF FunctionCount
        <5>2. t.r10 # 0 => t.r10 \in DOMAIN entries'
          BY <1>7, <3>5
        <5> QED BY <3>3, <5>1, <5>2
      <4>2. t.stage \in {"arc", "store"} => t.r10 # 0 /\ j \in ArcsOf(t.r10)'
        BY <1>8, <3>1, <3>5, <3>6
      <4>3. t.stage # "function" /\ t.r10 # 0 => entries'[t.r10].self_pc = t.self
        BY <1>7, <3>1, <3>3, <3>5 DEF PlaceOK
      <4>4. t.stage = "store" => arcs'[j].from_pc = t.from
        BY <1>5, <3>1, <3>3, <3>6 DEF PlaceOK
      <4> QED BY <3>1, <3>3, <4>1, <4>2, <4>3, <4>4 DEF PlaceOK
    <3>8. WalkOK(m[q])'
      <4>1. t.stage = "store" \/ "walk" \in cut
        BY <3>4
      <4> QED BY <1>1, <3>1, <4>1 DEF WalkOK
    <3>9. StoreOK(q, m[q])'
      <4>1. SUFFICES ASSUME t.stage = "store"
                     PROVE  /\ t.r2 <= arcs'[j].count + 1
                            /\ calls'["program"][c] <= Total(c)' - arcs'[j].count + t.r2 - 1
                            /\ q = "interrupt" \/ "store" \notin cut => t.r2 = arcs'[j].count + 1
        BY <1>1, <3>1 DEF StoreOK
      <4>2. "store" \in cut
        BY <3>4, <4>1
      <4>3. /\ t.r2 <= arcs[j].count + 1
            /\ calls["program"][c] <= Total(c) - arcs[j].count + t.r2 - 1
        BY <3>3, <4>1 DEF StoreOK
      <4>4. arcs'[j] = arcs[j] /\ calls'["program"][c] = calls["program"][c]
        BY <1>5, <1>9, <3>2, <3>3, <3>6, <4>1 DEF Caller
      <4>5. arcs[j].count \in Nat /\ t.r2 \in Nat /\ calls["program"][c] \in Nat
        <5>1. arcs[j].count \in Nat
          BY <3>5, <3>6, <4>1, CallIs
        <5> QED BY <1>9, <3>3, <5>1 DEF McountState, Caller
      <4> DEFINE x == Total(c)
                 y == Total(c)'
                 u == calls["program"][c]
                 v == arcs[j].count
      <4>6. x \in Int /\ (y = x + 1 \/ y = x)
        <5>1. x \in Int
          BY <1>1, <3>3, RecordsAre
        <5>2. y = IF c = b THEN x + 1 ELSE x
          BY <1>6, <3>1, <3>3
        <5> QED BY <5>1, <5>2
      <4> HIDE DEF x, y, u, v
      <4>7. u <= y - v + t.r2 - 1
        BY <4>3, <4>5, <4>6 DEF x, u, v
      <4> QED BY <3>2, <4>2, <4>3, <4>4, <4>7 DEF y, u, v
    <3> QED BY <3>7, <3>8, <3>9
  <2> QED BY <2>1, <2>2
<1> QED BY <1>5, <1>9, <1>10, <1>11, <1>12, <1>13, <1>14 DEF GraphInv

(* Nothing of the graph moves while the program or the clock does.         *)
LEMMA StillGraph ==
  ASSUME GraphInv, UNCHANGED <<head, entries, arcs, m, calls, cut>>
  PROVE  GraphInv'
<1> DEFINE p == "program"
           r == m[p]
<1>1. p \in Caller /\ m \in [Caller -> McountState] /\ CutInv
  BY DEF Caller, GraphInv
<1>2. m' = [m EXCEPT ![p] = r] /\ r \in McountState
  BY <1>1
<1>3. CutInv'
  BY <1>1 DEF CutInv
<1>4. PlaceOK(r) /\ WalkOK(r) /\ StoreOK(p, r)
  BY <1>1 DEF GraphInv
<1> HIDE DEF p, r
<1> QED BY <1>1, <1>2, <1>3, <1>4, WalkStep

LEMMA NextGraphInv ==
  (wild \/ GraphInv) /\ [ProfilerNext]_profilervars => wild' \/ GraphInv'
<1> SUFFICES ASSUME wild \/ GraphInv, [ProfilerNext]_profilervars PROVE wild' \/ GraphInv'
  OBVIOUS
<1>1. CASE UNCHANGED profilervars
  <2>1. UNCHANGED <<head, entries, arcs, m, calls, cut, wild>>
    BY <1>1 DEF profilervars, heapvars
  <2> QED BY <2>1, StillGraph
<1>2. CASE ProfilerNext
  <2>1. GraphInv
    BY <1>2 DEF ProfilerNext, Malloc, StartClock, mcount, FindFunction, FindArc, FoundArc,
                TryInit, ClearNeedInit, nios2_pcsample_init, mcount_record, nios2_pcsample, Running
  <2>2. CASE Malloc
    BY <2>1, <2>2, StillGraph DEF Malloc
  <2>3. CASE StartClock
    BY <2>1, <2>3, StillGraph DEF StartClock
  <2>4. ASSUME NEW p \in Caller, NEW a \in Arc, mcount(p, a) PROVE GraphInv'
    BY <2>1, <2>4, CallGraph
  <2>5. ASSUME NEW p \in Caller, FindFunction(p) PROVE GraphInv'
    BY <2>1, <2>5, FindFunctionGraph
  <2>6. ASSUME NEW p \in Caller, FindArc(p) PROVE GraphInv'
    BY <2>1, <2>6, FindArcGraph
  <2>7. ASSUME NEW p \in Caller, FoundArc(p) PROVE GraphInv'
    BY <2>1, <2>7, FoundArcGraph
  <2>8. ASSUME NEW p \in Caller, TryInit(p) PROVE GraphInv'
    <3> DEFINE stage == IF pcsample_need_init THEN "clear" ELSE "insert"
    <3>1. /\ m' = [m EXCEPT ![p].stage = stage] /\ stage \in {"clear", "init", "insert"}
          /\ Running(p) /\ m[p].stage \in {"record", "clear", "init"}
          /\ UNCHANGED <<head, entries, arcs, calls, cut>>
      BY <2>8 DEF TryInit
    <3> HIDE DEF stage
    <3> QED BY <2>1, <3>1, RecordingGraph
  <2>12. ASSUME NEW p \in Caller, ClearNeedInit(p) PROVE GraphInv'
    <3>1. /\ m' = [m EXCEPT ![p].stage = "init"]
          /\ Running(p) /\ m[p].stage \in {"record", "clear", "init"}
          /\ UNCHANGED <<head, entries, arcs, calls, cut>>
      BY <2>12 DEF ClearNeedInit
    <3> QED BY <2>1, <3>1, RecordingGraph
  <2>9. ASSUME NEW p \in Caller, nios2_pcsample_init(p) PROVE GraphInv'
    <3>1. /\ m' = [m EXCEPT ![p].stage = "insert"]
          /\ Running(p) /\ m[p].stage \in {"record", "clear", "init"}
          /\ UNCHANGED <<head, entries, arcs, calls, cut>>
      BY <2>9 DEF nios2_pcsample_init
    <3> QED BY <2>1, <3>1, RecordingGraph
  <2>10. ASSUME NEW p \in Caller, mcount_record(p) PROVE GraphInv'
    BY <2>1, <2>10, RecordGraph
  <2>11. ASSUME NEW offset, nios2_pcsample(offset) PROVE GraphInv'
    BY <2>1, <2>11, StillGraph DEF nios2_pcsample
  <2> QED BY <1>2, <2>2, <2>3, <2>4, <2>5, <2>6, <2>7, <2>8, <2>9, <2>10, <2>11, <2>12
    DEF ProfilerNext
<1> QED BY <1>1, <1>2

LEMMA GraphCounts == wild \/ GraphInv => CallsCounted
<1> SUFFICES ASSUME GraphInv, NEW a \in Arc, "walk" \notin cut PROVE Cardinality(Copies(a)) <= 1
  BY DEF CallsCounted, GraphInv, AccountInv
<1>1. FunctionRecords = DOMAIN entries
  BY RecordsAre DEF GraphInv
<1>2. ASSUME NEW i \in Copies(a), NEW j \in Copies(a) PROVE i = j
  <2>1. PICK c \in DOMAIN entries : entries[c].self_pc = a[1] /\ i \in ArcsOf(c) /\ arcs[i].from_pc = a[2]
    BY <1>1 DEF Copies
  <2>2. PICK d \in DOMAIN entries : entries[d].self_pc = a[1] /\ j \in ArcsOf(d) /\ arcs[j].from_pc = a[2]
    BY <1>1 DEF Copies
  <2>3. UniqueInv
    BY DEF GraphInv
  <2>4. c = d
    BY <2>1, <2>2, <2>3 DEF UniqueInv
  <2> QED BY <2>1, <2>2, <2>3, <2>4 DEF UniqueInv
<1>3. CASE Copies(a) = {}
  BY <1>3, FS_EmptySet
<1>4. CASE Copies(a) # {}
  <2>1. PICK i : i \in Copies(a)
    BY <1>4
  <2>2. Copies(a) = {i}
    BY <1>2, <2>1
  <2>3. Cardinality({i}) = 1
    BY FS_Singleton
  <2> QED BY <2>2, <2>3
<1> QED BY <1>3, <1>4

-----------------------------------------------------------------------------
(* The sampler.  The program may go on from a test that a handler has made *)
(* untrue since; a handler does not, for it is not interrupted.            *)
SamplerInv ==
  /\ pcsample_need_init \in BOOLEAN /\ started \in Nat
  /\ SamplerStarts
  /\ started > 0 => clock_runs
  /\ \A p \in Caller : m[p].stage = "init" => ~pcsample_need_init
  /\ m["program"].stage \in {"clear", "init"} =>
       started = 0 \/ (started = 1 /\ "clear" \in cut)
  /\ m["program"].stage = "clear" =>
       "clear" \in cut \/ (pcsample_need_init /\ m["interrupt"].stage = "idle")
  /\ m["interrupt"].stage \in {"clear", "init"} =>
       started = 0 /\ m["program"].stage # "init"
  /\ m["interrupt"].stage = "clear" => pcsample_need_init

LEMMA InitSamplerInv == ProfilerInit => SamplerInv
BY DEF ProfilerInit, SamplerInv, SamplerStarts, Caller, Idle

LEMMA NextSamplerInv ==
  ASSUME wild \/ GraphInv, SamplerInv, [ProfilerNext]_profilervars
  PROVE  SamplerInv'
<1> USE DEF SamplerInv, SamplerStarts, Caller
<1>1. CASE UNCHANGED profilervars
  BY <1>1 DEF profilervars, samplevars
<1>2. CASE ProfilerNext
  <2>1. m \in [Caller -> McountState]
    BY <1>2 DEF ProfilerNext, Malloc, StartClock, mcount, FindFunction, FindArc, FoundArc,
                TryInit, ClearNeedInit, nios2_pcsample_init, mcount_record, nios2_pcsample, Running, GraphInv
  <2>2. \A r \in McountState : \A stage : [r EXCEPT !.stage = stage].stage = stage
    BY DEF McountState
  <2>3. CASE Malloc \/ StartClock \/ \E offset \in 0 .. text - 1 : nios2_pcsample(offset)
    BY <2>3 DEF Malloc, StartClock, nios2_pcsample, samplevars
  <2>4. ASSUME NEW p \in Caller, NEW a \in Arc, mcount(p, a) PROVE SamplerInv'
    <3>1. m'[p].stage = "function" /\ \A q \in Caller : q # p => m'[q] = m[q]
      BY <2>1, <2>4 DEF mcount, Idle
    <3>2. m[p].stage = "idle" /\ UNCHANGED samplevars
      BY <2>4 DEF mcount
    <3>3. cut \subseteq cut' /\ ("clear" \in cut' => "clear" \in cut \/ m["program"].stage = "clear")
      BY <2>4 DEF mcount
    <3>4. p = "interrupt" /\ m["program"].stage = "clear" => "clear" \in cut'
      BY <2>4 DEF mcount
    <3> QED BY <3>1, <3>2, <3>3, <3>4 DEF samplevars
  <2>5. ASSUME NEW p \in Caller, FindFunction(p) PROVE SamplerInv'
    <3>1. m[p] \in McountState
      BY <2>1
    <3>2. /\ m'[p].stage \in {"function", "arc", "record"}
          /\ \A q \in Caller : q # p => m'[q] = m[q]
      BY <2>1, <2>5, <3>1 DEF FindFunction, McountState
    <3>3. m[p].stage = "function" /\ UNCHANGED <<samplevars, cut>>
      BY <2>5 DEF FindFunction
    <3> QED BY <3>2, <3>3 DEF samplevars
  <2>6. ASSUME NEW p \in Caller, FindArc(p) PROVE SamplerInv'
    <3>1. m[p] \in McountState
      BY <2>1
    <3>2. /\ m'[p].stage \in {"store", "arc", "record"}
          /\ \A q \in Caller : q # p => m'[q] = m[q]
      BY <2>1, <2>6, <3>1 DEF FindArc, McountState
    <3>3. m[p].stage = "arc" /\ UNCHANGED <<samplevars, cut>>
      BY <2>6 DEF FindArc
    <3> QED BY <3>2, <3>3 DEF samplevars
  <2>7. ASSUME NEW p \in Caller, FoundArc(p) \/ mcount_record(p) PROVE SamplerInv'
    <3>1. m'[p].stage = "idle" /\ \A q \in Caller : q # p => m'[q] = m[q]
      BY <2>1, <2>7 DEF FoundArc, mcount_record, Count, Idle
    <3>2. m[p].stage \in {"store", "insert"} /\ UNCHANGED <<samplevars, cut>>
      BY <2>7 DEF FoundArc, mcount_record
    <3> QED BY <3>1, <3>2 DEF samplevars
  <2>8. ASSUME NEW p \in Caller, TryInit(p) PROVE SamplerInv'
    <3>1. /\ m'[p].stage = IF pcsample_need_init THEN "clear" ELSE "insert"
          /\ \A q \in Caller : q # p => m'[q] = m[q]
      BY <2>1, <2>2, <2>8 DEF TryInit
    <3>2. /\ m[p].stage = "record" /\ UNCHANGED <<pcsample_need_init, started, clock_runs, cut>>
          /\ p = "program" => m["interrupt"].stage = "idle"
      BY <2>8 DEF TryInit, samplevars, Running
    <3>3. CASE pcsample_need_init
      BY <3>1, <3>2, <3>3
    <3>4. CASE ~pcsample_need_init
      BY <3>1, <3>2, <3>4
    <3> QED BY <3>3, <3>4
  <2>10. ASSUME NEW p \in Caller, ClearNeedInit(p) PROVE SamplerInv'
    <3>1. m'[p].stage = "init" /\ \A q \in Caller : q # p => m'[q] = m[q]
      BY <2>1, <2>2, <2>10 DEF ClearNeedInit
    <3>2. /\ m[p].stage = "clear" /\ pcsample_need_init' = FALSE
          /\ UNCHANGED <<started, clock_runs, cut>>
          /\ p = "program" => m["interrupt"].stage = "idle"
      BY <2>10 DEF ClearNeedInit, Running
    <3>3. CASE p = "program"
      BY <3>1, <3>2, <3>3
    <3>4. CASE p = "interrupt"
      BY <3>1, <3>2, <3>4
    <3> QED BY <3>3, <3>4
  <2>9. ASSUME NEW p \in Caller, nios2_pcsample_init(p) PROVE SamplerInv'
    <3>1. /\ m'[p].stage = "insert"
          /\ \A q \in Caller : q # p => m'[q] = m[q]
      BY <2>1, <2>2, <2>9 DEF nios2_pcsample_init
    <3>2. /\ m[p].stage = "init" /\ UNCHANGED <<clock_runs, cut>>
          /\ p = "program" => m["interrupt"].stage = "idle"
      BY <2>9 DEF nios2_pcsample_init, Running
    <3>3. CASE ~clock_runs
      <4>1. pcsample_need_init' = TRUE /\ UNCHANGED started
        BY <2>9, <3>3 DEF nios2_pcsample_init
      <4>2. started = 0
        BY <3>2, <3>3
      <4> QED BY <3>1, <3>2, <4>1, <4>2
    <3>4. CASE clock_runs
      <4>1. pcsample_need_init' = FALSE /\ started' = started + 1
        BY <2>9, <3>4 DEF nios2_pcsample_init
      <4>2. \A q \in Caller : m'[q].stage # "init"
        BY <3>1, <3>2
      <4>3. started = 0 \/ (started = 1 /\ "clear" \in cut)
        BY <3>2
      <4>4. m'["interrupt"].stage # "clear"
        BY <3>1, <3>2
      <4>5. m'["program"].stage = "clear" => "clear" \in cut /\ started = 0
        BY <3>1, <3>2
      <4>6. started' \in {1, 2} /\ (started' = 2 => "clear" \in cut') /\ cut' = cut
        BY <3>2, <4>1, <4>3
      <4>7. m'["program"].stage = "clear" => started' = 1 /\ "clear" \in cut'
        BY <4>1, <4>5, <4>6
      <4>8. clock_runs'
        BY <3>2, <3>4
      <4>9. SamplerStarts'
        <5>1. started' # 0 /\ started' <= 2 /\ ~pcsample_need_init'
          BY <4>1, <4>6
        <5> QED BY <4>6, <5>1, Zenon
      <4>10. started' \in Nat /\ pcsample_need_init' \in BOOLEAN
        <5>1. started' \in Nat
          BY <4>6
        <5>2. pcsample_need_init' \in BOOLEAN
          BY <4>1, Zenon
        <5> QED BY <5>1, <5>2
      <4>11. m'["interrupt"].stage \notin {"clear", "init"} /\ m'["program"].stage # "init"
        BY <4>2, <4>4
      <4> QED BY <4>1, <4>2, <4>6, <4>7, <4>8, <4>9, <4>10, <4>11
    <3> QED BY <3>3, <3>4
  <2> QED BY <1>2, <2>3, <2>4, <2>5, <2>6, <2>7, <2>8, <2>9, <2>10 DEF ProfilerNext
<1> QED BY <1>1, <1>2

-----------------------------------------------------------------------------
(* The heap.  Rounding up gives the next multiple.                         *)
LEMMA RoundsUp ==
  ASSUME NEW x \in Nat
  PROVE  RoundUp(x) \in Nat /\ x <= RoundUp(x) /\ RoundUp(x) % Align = 0
<1> DEFINE n == Align
           y == x + n - 1
           q == y \div n
           r == y % n
<1>1. n \in Nat \ {0}
  BY ProfilerAssumption
<1>2. y \in Nat /\ q \in Int /\ r \in 0 .. n - 1 /\ y = n * q + r
  <2>1. y \in Nat
    BY <1>1
  <2> HIDE DEF y, n
  <2> QED BY <1>1, <2>1, Division
<1>3. RoundUp(x) = q * n
  BY DEF RoundUp
<1> HIDE DEF q, r
<1>4. q * n = n * q /\ n * q \in Int
  BY <1>1, <1>2
<1> DEFINE z == n * q
<1>5. z \in Nat /\ x <= z
  <2> HIDE DEF z, n
  <2>1. z \in Int /\ x + n - 1 = z + r
    BY <1>2, <1>4 DEF z
  <2> QED BY <1>1, <1>2, <2>1
<1>6. z % n = 0
  <2> DEFINE none == 0
  <2>1. z = n * q + none /\ none \in 0 .. n - 1
    BY <1>1, <1>4
  <2> HIDE DEF z, n, none
  <2>2. z \div n = q /\ z % n = none
    BY <1>1, <1>2, <1>5, <2>1, DivisionUnique
  <2> QED BY <2>2 DEF none
<1> QED BY <1>3, <1>4, <1>5, <1>6

Apart ==
  \A i \in DOMAIN blocks :
    /\ blocks[i][1] % Align = 0
    /\ blocks[i][1] + blocks[i][2] <= heap_end /\ blocks[i][1] + blocks[i][2] <= HeapLimit
    /\ \A j \in DOMAIN blocks : i < j => blocks[i][1] + blocks[i][2] <= blocks[j][1]

BlocksInv == heap_end \in Nat /\ blocks \in Seq(Nat \X Nat) /\ Apart

LEMMA SbrkKeepsApart ==
  ASSUME BlocksInv, NEW bytes \in Nat, alt_sbrk(bytes)
  PROVE  BlocksInv'
<1> DEFINE start == RoundUp(heap_end)
           N == Len(blocks)
           b == <<start, bytes>>
<1>1. start \in Nat /\ heap_end <= start /\ start % Align = 0
  BY RoundsUp DEF BlocksInv
<1>2. /\ blocks \in Seq(Nat \X Nat) /\ N \in Nat /\ DOMAIN blocks = 1 .. N /\ heap_end \in Nat
      /\ HeapLimit \in Nat
      /\ \A i \in 1 .. N : blocks[i][1] \in Nat /\ blocks[i][2] \in Nat
  <2>1. blocks \in Seq(Nat \X Nat)
    BY DEF BlocksInv
  <2>2. \A i \in 1 .. Len(blocks) : blocks[i] \in Nat \X Nat
    BY <2>1
  <2> QED BY <2>1, <2>2, ProfilerAssumption DEF BlocksInv
<1> HIDE DEF N
<1>3. \A i \in 1 .. N :
        /\ blocks[i][1] % Align = 0
        /\ blocks[i][1] + blocks[i][2] <= heap_end
        /\ blocks[i][1] + blocks[i][2] <= HeapLimit
        /\ \A j \in 1 .. N : i < j => blocks[i][1] + blocks[i][2] <= blocks[j][1]
  BY <1>2 DEF BlocksInv, Apart
<1>4. \A i \in 1 .. N : blocks[i][1] + blocks[i][2] <= start
  <2> HIDE DEF start
  <2>1. ASSUME NEW i \in 1 .. N PROVE blocks[i][1] + blocks[i][2] <= start
    <3> DEFINE x == blocks[i][1] + blocks[i][2]
    <3>1. x \in Nat /\ x <= heap_end
      <4>1. blocks[i][1] \in Nat /\ blocks[i][2] \in Nat
        BY <1>2
      <4>2. x <= heap_end
        BY <1>3
      <4> QED BY <4>1, <4>2
    <3> HIDE DEF x
    <3>2. x <= start
      BY <1>1, <1>2, <3>1
    <3> QED BY <3>2 DEF x
  <2> QED BY <2>1
<1>5. CASE ~Fits(bytes)
  <2>1. heap_end' = start /\ blocks' = blocks
    BY <1>5 DEF alt_sbrk
  <2> HIDE DEF start
  <2> QED BY <1>1, <1>2, <1>3, <1>4, <2>1 DEF BlocksInv, Apart
<1>6. CASE Fits(bytes)
  <2>1. heap_end' = start + bytes /\ blocks' = Append(blocks, b)
    BY <1>6 DEF alt_sbrk
  <2>2. start + bytes <= HeapLimit
    BY <1>6 DEF Fits
  <2> HIDE DEF start
  <2>3. b \in Nat \X Nat /\ b[1] = start /\ b[2] = bytes
    BY <1>1
  <2> HIDE DEF b
  <2>4. /\ blocks' \in Seq(Nat \X Nat) /\ DOMAIN blocks' = 1 .. N + 1
        /\ \A i \in 1 .. N : blocks'[i] = blocks[i]
        /\ blocks'[N + 1] = b
    BY <1>2, <2>1, <2>3, AppendProperties
  <2>5. ASSUME NEW i \in 1 .. N + 1
        PROVE  /\ blocks'[i][1] % Align = 0
               /\ blocks'[i][1] + blocks'[i][2] <= start + bytes
               /\ blocks'[i][1] + blocks'[i][2] <= HeapLimit
               /\ \A j \in 1 .. N + 1 : i < j => blocks'[i][1] + blocks'[i][2] <= blocks'[j][1]
    <3>1. CASE i = N + 1
      <4>1. \A j \in 1 .. N + 1 : ~(i < j)
        BY <1>2, <3>1
      <4> QED BY <1>1, <2>2, <2>3, <2>4, <3>1, <4>1
    <3>2. CASE i \in 1 .. N
      <4>1. \A j \in 1 .. N + 1 : j \in 1 .. N \/ j = N + 1
        BY <1>2
      <4>2. blocks'[i] = blocks[i]
        BY <2>4, <3>2
      <4>3. \A j \in 1 .. N + 1 : i < j => blocks[i][1] + blocks[i][2] <= blocks'[j][1]
        BY <1>3, <1>4, <2>3, <2>4, <3>2, <4>1
      <4> DEFINE x == blocks[i][1] + blocks[i][2]
      <4>4. x \in Nat /\ x <= start /\ x <= HeapLimit
        BY <1>2, <1>3, <1>4, <3>2
      <4> HIDE DEF x
      <4>5. x <= start + bytes
        BY <1>1, <4>4
      <4> QED BY <1>3, <3>2, <4>2, <4>3, <4>4, <4>5 DEF x
    <3> QED BY <1>2, <3>1, <3>2
  <2>6. Apart'
    BY <2>1, <2>4, <2>5 DEF Apart
  <2>7. heap_end' \in Nat
    BY <1>1, <2>1
  <2> QED BY <2>4, <2>6, <2>7 DEF BlocksInv
<1> QED BY <1>5, <1>6

(* The histogram has a bucket for each that the text fills.                *)
HistogramInv ==
  /\ text \in TextBytes
  /\ started > 0 => s_pcsamples = text \div BucketBytes
  /\ stray \in BOOLEAN /\ (stray => text % BucketBytes # 0)

LEMMA StrayOnlyInLast ==
  ASSUME NEW t \in Nat, NEW n \in Nat \ {0}, NEW offset \in 0 .. t - 1,
         offset \div n >= t \div n
  PROVE  t % n # 0
<1> DEFINE q == t \div n
           o == offset \div n
           r == offset % n
<1>1. q \in Int /\ t = n * q + (t % n)
  BY Division
<1>2. o \in Int /\ r \in 0 .. n - 1 /\ offset = n * o + r
  BY Division
<1> DEFINE d == o - q
<1>3. d \in Nat
  BY <1>1, <1>2
<1> HIDE DEF q, o, r
<1>4. o = q + d
  BY <1>1, <1>2 DEF d
<1> HIDE DEF d
<1>5. n * o = n * q + n * d /\ n * d \in Nat /\ n * q \in Int
  BY <1>1, <1>3, <1>4
<1> DEFINE x == n * q
           y == n * o
           z == n * d
<1>6. offset = y + r /\ y = x + z /\ z \in Nat /\ x \in Int /\ t = x + (t % n)
  BY <1>1, <1>2, <1>5
<1> HIDE DEF x, y, z
<1>7. SUFFICES ASSUME t % n = 0 PROVE FALSE
  OBVIOUS
<1> QED BY <1>2, <1>6, <1>7

LEMMA InitHeapInv == ProfilerInit => BlocksInv /\ HistogramInv
<1> SUFFICES ASSUME ProfilerInit PROVE BlocksInv /\ HistogramInv
  OBVIOUS
<1>1. BlocksInv
  BY DEF ProfilerInit, BlocksInv, Apart
<1>2. HistogramInv
  <2>1. text \in TextBytes /\ started = 0 /\ stray = FALSE
    BY DEF ProfilerInit
  <2>2. ~(started > 0)
    BY <2>1
  <2> QED BY <2>1, <2>2, Zenon DEF HistogramInv
<1> QED BY <1>1, <1>2

LEMMA NextHeapInv ==
  ASSUME SamplerInv, BlocksInv, HistogramInv, [ProfilerNext]_profilervars
  PROVE  BlocksInv' /\ HistogramInv'
<1>1. /\ {HeapLimit, Slab, Block, BucketBytes} \subseteq Nat \ {0} /\ text \in Nat
      /\ text \div BucketBytes \in Nat /\ started \in Nat
  <2>1. {HeapLimit, Slab, Block, BucketBytes} \subseteq Nat \ {0} /\ text \in Nat
    BY ProfilerAssumption DEF HistogramInv
  <2>2. text \div BucketBytes \in Nat
    BY <2>1
  <2> QED BY <2>1, <2>2 DEF SamplerInv
<1>2. UNCHANGED <<heap_end, blocks>> => BlocksInv'
  BY DEF BlocksInv, Apart
<1>3. UNCHANGED <<text, started, s_pcsamples, stray>> => HistogramInv'
  BY DEF HistogramInv
<1>4. CASE UNCHANGED profilervars
  BY <1>2, <1>3, <1>4 DEF profilervars, heapvars, samplevars
<1>5. CASE Malloc
  BY <1>1, <1>3, <1>5, SbrkKeepsApart DEF Malloc, samplevars
<1>6. CASE StartClock
  BY <1>2, <1>3, <1>6 DEF StartClock, heapvars
<1>7. ASSUME NEW p \in Caller,
             (\E a \in Arc : mcount(p, a)) \/ FindFunction(p) \/ FindArc(p) \/ FoundArc(p)
               \/ TryInit(p) \/ ClearNeedInit(p)
      PROVE  BlocksInv' /\ HistogramInv'
  <2>1. UNCHANGED <<heap_end, blocks, text, started, s_pcsamples, stray>>
    BY <1>7 DEF mcount, FindFunction, FindArc, FoundArc, TryInit, ClearNeedInit, heapvars,
                samplevars
  <2> QED BY <1>2, <1>3, <2>1
<1>8. ASSUME NEW p \in Caller, nios2_pcsample_init(p) PROVE BlocksInv' /\ HistogramInv'
  <2> DEFINE size == text \div BucketBytes
  <2>1. UNCHANGED <<text, stray>>
    BY <1>8 DEF nios2_pcsample_init
  <2>2. CASE ~clock_runs
    <3>1. UNCHANGED <<heap_end, blocks, started, s_pcsamples>>
      BY <1>8, <2>2 DEF nios2_pcsample_init, heapvars
    <3> QED BY <1>2, <1>3, <2>1, <3>1
  <2>3. CASE clock_runs
    <3>1. alt_sbrk(2 * size) /\ s_pcsamples' = size
      BY <1>8, <2>3 DEF nios2_pcsample_init
    <3>2. 2 * size \in Nat
      <4>1. size \in Nat
        BY <1>1
      <4> HIDE DEF size
      <4> QED BY <4>1
    <3>3. BlocksInv'
      BY <3>1, <3>2, SbrkKeepsApart
    <3> QED BY <2>1, <3>1, <3>3 DEF HistogramInv
  <2> QED BY <2>2, <2>3
<1>9. ASSUME NEW p \in Caller, mcount_record(p) PROVE BlocksInv' /\ HistogramInv'
  <2>1. UNCHANGED <<text, started, s_pcsamples, stray>>
    BY <1>9 DEF mcount_record, samplevars
  <2>2. UNCHANGED <<heap_end, blocks>> \/ alt_sbrk(Slab)
    BY <1>9 DEF mcount_record, Allocate
  <2> QED BY <1>1, <1>2, <1>3, <2>1, <2>2, SbrkKeepsApart
<1>10. ASSUME NEW offset \in 0 .. text - 1, nios2_pcsample(offset)
       PROVE  BlocksInv' /\ HistogramInv'
  <2>1. /\ started > 0 /\ UNCHANGED <<heap_end, blocks, text, started, s_pcsamples>>
        /\ stray' = (stray \/ offset \div BucketBytes >= s_pcsamples)
    BY <1>10 DEF nios2_pcsample, heapvars
  <2>2. s_pcsamples = text \div BucketBytes
    BY <2>1 DEF HistogramInv
  <2>3. offset \div BucketBytes >= text \div BucketBytes => text % BucketBytes # 0
    BY <1>1, StrayOnlyInLast
  <2>4. stray' \in BOOLEAN /\ (stray' => text % BucketBytes # 0)
    BY <2>1, <2>2, <2>3 DEF HistogramInv
  <2> QED BY <1>2, <2>1, <2>4 DEF HistogramInv
<1> QED BY <1>4, <1>5, <1>6, <1>7, <1>8, <1>9, <1>10 DEF ProfilerNext

-----------------------------------------------------------------------------
(* The invariant of the profiler.                                          *)
ProfilerInv == (wild \/ GraphInv) /\ SamplerInv /\ BlocksInv /\ HistogramInv

LEMMA InitProfilerInv == ProfilerInit => ProfilerInv
BY InitGraphInv, InitSamplerInv, InitHeapInv DEF ProfilerInv

LEMMA NextProfilerInv == ProfilerInv /\ [ProfilerNext]_profilervars => ProfilerInv'
BY NextGraphInv, NextSamplerInv, NextHeapInv DEF ProfilerInv

LEMMA ProfilerInvHolds == ProfilerInv => CallsCounted /\ SamplerStarts /\ HeapBlocksApart
<1> SUFFICES ASSUME ProfilerInv PROVE CallsCounted /\ SamplerStarts /\ HeapBlocksApart
  OBVIOUS
<1>1. CallsCounted
  BY GraphCounts DEF ProfilerInv
<1>2. SamplerStarts
  BY DEF ProfilerInv, SamplerInv
<1>3. HeapBlocksApart
  BY DEF ProfilerInv, BlocksInv, Apart, HistogramInv, HeapBlocksApart
<1> QED BY <1>1, <1>2, <1>3

=============================================================================
