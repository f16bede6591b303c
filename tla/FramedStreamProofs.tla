------------------------- MODULE FramedStreamProofs -------------------------
(***************************************************************************)
(* For messages and streams of any length and any number of faults: what   *)
(* arrives whole is delivered, nothing else is, and a parser in step is    *)
(* ready for the next message.  First the facts these rest on: recursion   *)
(* over the natural numbers, the checksum, the format and the parser.      *)
(***************************************************************************)
EXTENDS FramedStream, SequenceTheorems, WellFoundedInduction, TLAPS

-----------------------------------------------------------------------------
(* Induction over the natural numbers, as a fact about sets.               *)
LEMMA Induction ==
  ASSUME NEW T \in SUBSET Nat, 0 \in T, \A n \in T : n + 1 \in T
  PROVE  T = Nat
<1> DEFINE Less == OpToRel(<, Nat)
           Rest == Nat \ T
<1> SUFFICES ASSUME Rest # {} PROVE FALSE
  OBVIOUS
<1>1. \A m, n \in Nat : m < n => <<m, n>> \in Less
  BY DEF OpToRel
<1>2. IsWellFoundedOn(Less, Nat)
  BY NatLessThanWellFounded
<1> HIDE DEF Less
<1>3. PICK n \in Rest : \A m \in Rest : <<m, n>> \notin Less
  BY <1>2, WFMin
<1>4. n # 0 /\ n - 1 \in Nat /\ n - 1 < n
  OBVIOUS
<1>5. n - 1 \in T
  BY <1>1, <1>3, <1>4
<1> QED BY <1>4, <1>5

(* A function can be defined by its value at 0 and the value at n that      *)
(* follows from the value at n - 1.                                        *)
Equations(S, base, N, next) ==
  base \in S /\ N \in Nat /\ next \in [1..N -> [S -> S]]

Solves(f, S, base, N, next) ==
  /\ f \in [0..N -> S]
  /\ f[0] = base
  /\ \A n \in 1..N : f[n] = next[n][f[n - 1]]

LEMMA Recursion ==
  ASSUME NEW S, NEW base, NEW N, NEW next, Equations(S, base, N, next)
  PROVE  \E f : Solves(f, S, base, N, next)
<1>0. base \in S /\ N \in Nat /\ next \in [1..N -> [S -> S]]
  BY DEF Equations
<1> DEFINE Computes(f, M) == f[0] = base /\ \A n \in 1..M : f[n] = next[n][f[n - 1]]
           T == {M \in Nat : M <= N => \E f \in [0..M -> S] : Computes(f, M)}
<1>1. 0 \in T
  <2>1. Computes([n \in 0..0 |-> base], 0)
    BY <1>0
  <2>2. [n \in 0..0 |-> base] \in [0..0 -> S]
    BY <1>0
  <2> QED BY <2>1, <2>2
<1>2. ASSUME NEW M \in T PROVE M + 1 \in T
  <2> HIDE DEF Computes
  <2> SUFFICES ASSUME M + 1 <= N PROVE \E f \in [0..(M + 1) -> S] : Computes(f, M + 1)
    OBVIOUS
  <2> M \in Nat /\ M <= N
    BY <1>0
  <2> USE DEF Computes
  <2> PICK g \in [0..M -> S] : Computes(g, M)
    OBVIOUS
  <2> DEFINE f == [n \in 0..(M + 1) |-> IF n <= M THEN g[n] ELSE next[n][g[M]]]
  <2>1. f \in [0..(M + 1) -> S]
    BY <1>0
  <2>2. ASSUME NEW n \in 1..(M + 1)
        PROVE  f[n] = next[n][f[n - 1]]
    <3>1. CASE n <= M
      <4> n \in 1..M /\ n - 1 \in 0..(M + 1) /\ n - 1 <= M BY <3>1
      <4> f[n] = g[n] /\ f[n - 1] = g[n - 1] BY <3>1
      <4> QED OBVIOUS
    <3>2. CASE ~(n <= M)
      <4> n = M + 1 /\ n - 1 = M BY <3>2
      <4> QED BY <3>2
    <3> QED BY <3>1, <3>2
  <2>3. f[0] = base
    OBVIOUS
  <2> HIDE DEF f
  <2>4. Computes(f, M + 1)
    BY <2>2, <2>3
  <2> QED BY <2>1, <2>4
<1>3. N \in T
  <2> T \in SUBSET Nat OBVIOUS
  <2> HIDE DEF T
  <2> T = Nat BY <1>1, <1>2, Induction
  <2> QED BY <1>0
<1> QED BY <1>0, <1>3 DEF Solves

-----------------------------------------------------------------------------
(* The checksum.                                                           *)
Residue  == 0..254
Residues == Residue \X Residue

NextSums(last, b) ==
  LET s1 == (last[1] + b) % 255 IN <<s1, (last[2] + s1) % 255>>

LEMMA NextSumsTypes == \A last \in Residues, b \in Byte : NextSums(last, b) \in Residues
<1> SUFFICES ASSUME NEW last \in Residues, NEW b \in Byte
             PROVE  NextSums(last, b) \in Residues
  OBVIOUS
<1> DEFINE x == last[1]
           y == last[2]
           s1 == (x + b) % 255
<1> x \in 0..254 /\ y \in 0..254
  BY DEF Residues, Residue
<1> HIDE DEF x, y
<1>1. s1 \in 0..254
  BY DEF Byte
<1>2. (y + s1) % 255 \in 0..254
  <2> HIDE DEF s1
  <2> QED BY <1>1
<1>3. NextSums(last, b) = <<s1, (y + s1) % 255>>
  BY DEF NextSums, x, y
<1> QED BY <1>1, <1>2, <1>3 DEF Residues, Residue

SumAt(f, bytes, n) == IF n = 0 THEN <<0, 0>> ELSE NextSums(f[n - 1], bytes[n])

AreSums(f, bytes) == f = [n \in 0..Len(bytes) |-> SumAt(f, bytes, n)]

LEMMA SumsExist ==
  ASSUME NEW bytes \in Seq(Byte)
  PROVE  \E f \in [0..Len(bytes) -> Residues] : AreSums(f, bytes)
<1> DEFINE next == [n \in 1..Len(bytes) |-> [last \in Residues |-> NextSums(last, bytes[n])]]
           N == Len(bytes)
           zero == <<0, 0>>
<1>1. N \in Nat /\ zero \in Residues /\ \A n \in 1..N : bytes[n] \in Byte
  BY DEF Residues, Residue
<1>2. next \in [1..N -> [Residues -> Residues]]
  BY <1>1, NextSumsTypes
<1>3. PICK f : Solves(f, Residues, zero, N, next)
  <2> HIDE DEF next, N, zero
  <2> QED BY <1>1, <1>2, Recursion DEF Equations
<1> USE <1>3 DEF Solves
<1>4. ASSUME NEW n \in 0..N PROVE f[n] = SumAt(f, bytes, n)
  <2>1. CASE n = 0
    BY <2>1, <1>3 DEF SumAt
  <2>2. CASE n # 0
    <3> n \in 1..N /\ n - 1 \in 0..N
      BY <1>1, <2>2
    <3> f[n - 1] \in Residues
      OBVIOUS
    <3> f[n] = next[n][f[n - 1]]
      BY <1>3
    <3> f[n] = NextSums(f[n - 1], bytes[n])
      OBVIOUS
    <3> QED BY <2>2 DEF SumAt
  <2> QED BY <2>1, <2>2
<1>5. f = [n \in 0..N |-> f[n]]
  OBVIOUS
<1> QED BY <1>4, <1>5 DEF AreSums

LEMMA SumsUnique ==
  ASSUME NEW bytes \in Seq(Byte), NEW f, NEW g, AreSums(f, bytes), AreSums(g, bytes)
  PROVE  f = g
<1> DEFINE N == Len(bytes)
           T == {n \in Nat : n <= N => g[n] = f[n]}
<1>1. N \in Nat
  OBVIOUS
<1>2. /\ f = [n \in 0..N |-> SumAt(f, bytes, n)]
      /\ g = [n \in 0..N |-> SumAt(g, bytes, n)]
  BY DEF AreSums
<1>3. \A n \in 0..N : f[n] = SumAt(f, bytes, n) /\ g[n] = SumAt(g, bytes, n)
  BY <1>2
<1> HIDE DEF N
<1>4. 0 \in T
  BY <1>1, <1>3 DEF SumAt
<1>5. ASSUME NEW n \in T PROVE n + 1 \in T
  <2> SUFFICES ASSUME n + 1 <= N PROVE g[n + 1] = f[n + 1]
    OBVIOUS
  <2> n + 1 \in 0..N /\ n + 1 # 0 /\ (n + 1) - 1 = n /\ g[n] = f[n]
    BY <1>1
  <2> QED BY <1>3 DEF SumAt
<1>6. T = Nat
  <2> T \in SUBSET Nat OBVIOUS
  <2> HIDE DEF T
  <2> QED BY <1>4, <1>5, Induction
<1>7. \A n \in 0..N : g[n] = f[n]
  BY <1>1, <1>6
<1>8. DOMAIN f = 0..N /\ DOMAIN g = 0..N
  BY <1>2
<1>9. f = [n \in 0..N |-> f[n]] /\ g = [n \in 0..N |-> g[n]]
  BY <1>2, <1>3, <1>8
<1> QED BY <1>7, <1>9

LEMMA SumsOf ==
  ASSUME NEW bytes \in Seq(Byte)
  PROVE  LET sums == FletcherSums(bytes) IN
         /\ sums \in [0..Len(bytes) -> Residues]
         /\ sums[0] = <<0, 0>>
         /\ \A n \in 1..Len(bytes) : sums[n] = NextSums(sums[n - 1], bytes[n])
<1>1. FletcherSums(bytes) = CHOOSE g : AreSums(g, bytes)
  BY DEF FletcherSums, NextSums, SumAt, AreSums
<1>2. PICK f \in [0..Len(bytes) -> Residues] : AreSums(f, bytes)
  BY SumsExist
<1>3. FletcherSums(bytes) = f
  BY <1>1, <1>2, SumsUnique
<1>4. ASSUME NEW n \in 0..Len(bytes) PROVE f[n] = SumAt(f, bytes, n)
  BY <1>2 DEF AreSums
<1>5. \A n \in 1..Len(bytes) : f[n] = NextSums(f[n - 1], bytes[n])
  BY <1>4 DEF SumAt
<1>6. f[0] = <<0, 0>>
  BY <1>4 DEF SumAt
<1> QED BY <1>2, <1>3, <1>5, <1>6

(* A checksum is two bytes, and zero without content.                      *)
LEMMA ChecksumTypes ==
  /\ \A bytes \in Seq(Byte) : Fletcher16(bytes) \in Byte \X Byte
  /\ Fletcher16(<<>>) = <<0, 0>>
<1>1. ASSUME NEW bytes \in Seq(Byte) PROVE Fletcher16(bytes) \in Residues
  BY SumsOf DEF Fletcher16
<1>2. Residues \subseteq Byte \X Byte
  BY DEF Residues, Residue, Byte
<1>3. <<>> \in Seq(Byte) /\ Len(<<>>) = 0
  OBVIOUS
<1> QED BY <1>1, <1>2, <1>3, SumsOf DEF Fletcher16

LEMMA SumsDiffer ==
  /\ \A x \in Residue, a, b \in Byte : a % 255 # b % 255 => (x + a) % 255 # (x + b) % 255
  /\ \A x, y \in Residue, b \in Byte : x # y => (x + b) % 255 # (y + b) % 255
<1>1. ASSUME NEW n \in 0..509 PROVE n % 255 = IF n < 255 THEN n ELSE n - 255
  BY SMT
<1>2. ASSUME NEW x \in Residue, NEW a \in Byte, NEW b \in Byte, a % 255 # b % 255
      PROVE  (x + a) % 255 # (x + b) % 255
  <2>1. x + a \in 0..509 /\ x + b \in 0..509 /\ a \in 0..509 /\ b \in 0..509
    BY DEF Byte, Residue
  <2>2. a % 255 = (IF a < 255 THEN a ELSE a - 255) /\ b % 255 = IF b < 255 THEN b ELSE b - 255
    BY <1>1, <2>1
  <2>3. /\ (x + a) % 255 = IF x + a < 255 THEN x + a ELSE (x + a) - 255
        /\ (x + b) % 255 = IF x + b < 255 THEN x + b ELSE (x + b) - 255
    BY <1>1, <2>1
  <2> QED BY <1>2, <2>2, <2>3, SMT DEF Byte, Residue
<1>3. ASSUME NEW x \in Residue, NEW y \in Residue, NEW b \in Byte, x # y
      PROVE  (x + b) % 255 # (y + b) % 255
  <2>1. x + b \in 0..509 /\ y + b \in 0..509
    BY DEF Byte, Residue
  <2>2. /\ (x + b) % 255 = IF x + b < 255 THEN x + b ELSE (x + b) - 255
        /\ (y + b) % 255 = IF y + b < 255 THEN y + b ELSE (y + b) - 255
    BY <1>1, <2>1
  <2> QED BY <1>3, <2>2, SMT DEF Byte, Residue
<1> QED BY <1>2, <1>3

(* A changed byte shows in the checksum, unless 0 and 255 are exchanged.   *)
LEMMA ChecksumDetects ==
  ASSUME NEW bytes \in Seq(Byte), NEW i \in 1..Len(bytes), NEW b \in Byte,
         bytes[i] % 255 # b % 255
  PROVE  Fletcher16([bytes EXCEPT ![i] = b]) # Fletcher16(bytes)
<1> DEFINE changed == [bytes EXCEPT ![i] = b]
           N == Len(bytes)
           s == FletcherSums(bytes)
           t == FletcherSums(changed)
           T == {n \in Nat : n <= N => /\ n < i => t[n] = s[n]
                                       /\ n >= i => t[n][1] # s[n][1]}
<1>1. /\ changed \in Seq(Byte) /\ Len(changed) = N /\ N \in Nat
      /\ \A n \in 1..N : bytes[n] \in Byte /\ changed[n] = IF n = i THEN b ELSE bytes[n]
  OBVIOUS
<1> HIDE DEF changed
<1>2. /\ s \in [0..N -> Residues] /\ s[0] = <<0, 0>>
      /\ \A n \in 1..N : s[n] = NextSums(s[n - 1], bytes[n])
  BY SumsOf
<1>3. /\ t \in [0..N -> Residues] /\ t[0] = <<0, 0>>
      /\ \A n \in 1..N : t[n] = NextSums(t[n - 1], changed[n])
  BY <1>1, SumsOf
<1> HIDE DEF s, t
<1>4. 0 \in T
  <2> ~(0 >= i)
    OBVIOUS
  <2> QED BY <1>2, <1>3
<1>5. ASSUME NEW n \in T PROVE n + 1 \in T
  <2> SUFFICES ASSUME n + 1 <= N
               PROVE  /\ n + 1 < i => t[n + 1] = s[n + 1]
                      /\ n + 1 >= i => t[n + 1][1] # s[n + 1][1]
    OBVIOUS
  <2>1. n \in Nat /\ n <= N /\ n \in 0..N /\ n + 1 \in 1..N /\ (n + 1) - 1 = n
    BY <1>1
  <2>2. /\ s[n + 1] = NextSums(s[n], bytes[n + 1])
        /\ t[n + 1] = NextSums(t[n], changed[n + 1])
    BY <1>2, <1>3, <2>1
  <2>3. s[n][1] \in Residue /\ t[n][1] \in Residue
    <3> s[n] \in Residues /\ t[n] \in Residues
      BY <1>2, <1>3, <2>1
    <3> QED BY DEF Residues
  <2>4. /\ s[n + 1][1] = (s[n][1] + bytes[n + 1]) % 255
        /\ t[n + 1][1] = (t[n][1] + changed[n + 1]) % 255
    BY <2>2 DEF NextSums
  <2>5. CASE n + 1 < i
    <3> changed[n + 1] = bytes[n + 1] /\ t[n] = s[n] /\ ~(n + 1 >= i)
      BY <1>1, <2>1, <2>5
    <3> QED BY <2>2
  <2>6. CASE n + 1 = i
    <3> changed[n + 1] = b /\ t[n] = s[n] /\ bytes[n + 1] \in Byte
      BY <1>1, <2>1, <2>6
    <3> bytes[n + 1] % 255 # b % 255
      BY <2>6
    <3> HIDE DEF s, t
    <3> (s[n][1] + bytes[n + 1]) % 255 # (s[n][1] + b) % 255
      BY <2>3, SumsDiffer
    <3> t[n + 1][1] # s[n + 1][1]
      BY <2>4
    <3> QED BY <2>6
  <2>7. CASE n + 1 > i
    <3> changed[n + 1] = bytes[n + 1] /\ t[n][1] # s[n][1] /\ bytes[n + 1] \in Byte
      BY <1>1, <2>1, <2>7
    <3> (s[n][1] + bytes[n + 1]) % 255 # (t[n][1] + bytes[n + 1]) % 255
      BY <2>3, SumsDiffer
    <3> t[n + 1][1] # s[n + 1][1]
      BY <2>4
    <3> QED BY <2>1, <2>7
  <2> QED BY <2>1, <2>5, <2>6, <2>7
<1>6. T = Nat
  <2> T \in SUBSET Nat OBVIOUS
  <2> HIDE DEF T
  <2> QED BY <1>4, <1>5, Induction
<1>7. t[N][1] # s[N][1]
  BY <1>1, <1>6
<1> QED BY <1>1, <1>7 DEF Fletcher16, s, t, changed

-----------------------------------------------------------------------------
(* The format.                                                             *)
LEMMA Int32Types ==
  \A n \in Nat : /\ Int32Bytes(n) \in Seq(Byte) /\ Len(Int32Bytes(n)) = 4
                 /\ \A i \in 1..4 : Int32Bytes(n)[i] \in Byte
<1> SUFFICES ASSUME NEW n \in Nat
             PROVE  /\ Int32Bytes(n) \in Seq(Byte) /\ Len(Int32Bytes(n)) = 4
                    /\ \A i \in 1..4 : Int32Bytes(n)[i] \in Byte
  OBVIOUS
<1>1. /\ n % 256 \in Byte /\ (n \div 256) % 256 \in Byte
      /\ (n \div 65536) % 256 \in Byte /\ (n \div 16777216) % 256 \in Byte
  BY DEF Byte
<1>2. Int32Bytes(n) \in Seq(Byte) /\ Len(Int32Bytes(n)) = 4
  BY <1>1 DEF Int32Bytes
<1> QED BY <1>2

LEMMA Int32Injective ==
  ASSUME NEW m \in Nat, NEW n \in Nat, m <= MaxLength, n <= MaxLength,
         Int32Bytes(m) = Int32Bytes(n)
  PROVE  m = n
<1>1. /\ m % 256 = n % 256 /\ (m \div 256) % 256 = (n \div 256) % 256
      /\ (m \div 65536) % 256 = (n \div 65536) % 256
      /\ (m \div 16777216) % 256 = (n \div 16777216) % 256
  BY SMT DEF Int32Bytes
<1> QED BY <1>1, SMT DEF MaxLength

(* w is a message of m's type, parameter and content type, with a content   *)
(* that may be damaged and a checksum that may be another one's.           *)
Frame(w, m, packed, sum) ==
  /\ w \in Seq(Byte)
  /\ packed \in Seq(Byte)
  /\ Len(packed) <= MaxLength
  /\ Len(w) = Len(packed) + 14
  /\ w[1] = 190 /\ w[2] = 239 /\ w[3] = m.type /\ w[8] = m.contentType
  /\ \A i \in 1..4 : w[3 + i] = Int32Bytes(m.parameter)[i]
  /\ \A i \in 1..4 : w[8 + i] = Int32Bytes(Len(packed))[i]
  /\ \A i \in 1..Len(packed) : w[12 + i] = packed[i]
  /\ <<w[Len(packed) + 13], w[Len(packed) + 14]>> = sum

IsJoined(c, a, b) == a \in Seq(Byte) /\ b \in Seq(Byte) /\ c = a \o b

LEMMA Joined ==
  ASSUME NEW a, NEW b, NEW c, IsJoined(c, a, b)
  PROVE  /\ c \in Seq(Byte) /\ Len(c) = Len(a) + Len(b)
         /\ \A i \in 1..Len(a) : c[i] = a[i]
         /\ \A i \in 1..Len(b) : c[Len(a) + i] = b[i]
  BY DEF IsJoined

LEMMA Compressed ==
  ASSUME NEW content \in Seq(Byte)
  PROVE  /\ CompressBuffer(content) \in Seq(Byte)
         /\ DecompressBuffer(CompressBuffer(content)) = content
         /\ CompressBuffer(content) = <<>> <=> content = <<>>
<1>1. CASE content = <<>>
  BY <1>1 DEF CompressBuffer, DecompressBuffer
<1>2. CASE content # <<>>
  <2>1. <<31>> \in Seq(Byte) /\ Len(<<31>>) = 1
    BY DEF Byte
  <2> DEFINE z == <<31>> \o content
  <2>2. /\ z \in Seq(Byte) /\ Len(z) = 1 + Len(content)
        /\ \A k \in 1..(1 + Len(content)) : z[k] = IF k <= 1 THEN <<31>>[k] ELSE content[k - 1]
    <3> DEFINE a == <<31>>
    <3> HIDE DEF a
    <3>1. a \in Seq(Byte) /\ Len(a) = 1
      BY <2>1 DEF a
    <3>2. /\ a \o content \in Seq(Byte) /\ Len(a \o content) = Len(a) + Len(content)
          /\ \A k \in 1..(Len(a) + Len(content)) :
               (a \o content)[k] = IF k <= Len(a) THEN a[k] ELSE content[k - Len(a)]
      BY <3>1, ConcatProperties
    <3> QED BY <3>1, <3>2 DEF a
  <2> HIDE DEF z
  <2>3. Len(content) \in Nat
    OBVIOUS
  <2>4. z # <<>>
    BY <2>2, <2>3
  <2>5. /\ Tail(z) \in Seq(Byte) /\ Len(Tail(z)) = Len(z) - 1
        /\ \A k \in 1..Len(Tail(z)) : Tail(z)[k] = z[k + 1]
    BY <2>2, <2>4, HeadTailProperties
  <2>6. \A k \in 1..Len(content) : Tail(z)[k] = content[k]
    BY <2>2, <2>3, <2>5
  <2>7. Tail(z) = content
    BY <2>2, <2>3, <2>5, <2>6, SeqEqual
  <2> QED BY <1>2, <2>2, <2>4, <2>7 DEF CompressBuffer, DecompressBuffer, z
<1> QED BY <1>1, <1>2

LEMMA DecompressTypes == \A packed \in Seq(Byte) : DecompressBuffer(packed) \in Seq(Byte)
  BY DEF DecompressBuffer

(* What CreateBuffer makes.                                                *)
LEMMA BufferFrame ==
  ASSUME NEW m \in Sendable
  PROVE  LET packed == CompressBuffer(m.content) IN
         Frame(CreateBuffer(m), m, packed, Fletcher16(packed))
<1> DEFINE packed == CompressBuffer(m.content)
           p == Int32Bytes(m.parameter)
           l == Int32Bytes(Len(packed))
           sum == Fletcher16(packed)
           t == <<m.type>>
           u == <<m.contentType>>
           a == Magic \o t
           b == a \o p
           c == b \o u
           head == c \o l
           w == head \o packed
           v == w \o sum
           L == Len(packed)
<1>1. /\ m.type \in Byte /\ m.contentType \in Byte /\ m.parameter \in Nat
      /\ m.content \in Seq(Byte) /\ L <= MaxLength
  BY DEF Sendable, ServerMessages
<1>2. packed \in Seq(Byte) /\ L \in Nat
  BY <1>1, Compressed
<1>3. /\ p \in Seq(Byte) /\ Len(p) = 4
      /\ l \in Seq(Byte) /\ Len(l) = 4
  BY <1>1, <1>2, Int32Types
<1>4. sum \in Seq(Byte) /\ Len(sum) = 2 /\ sum = <<sum[1], sum[2]>>
  <2> sum \in Byte \X Byte
    BY <1>2, ChecksumTypes
  <2> PICK x \in Byte, y \in Byte : sum = <<x, y>>
    OBVIOUS
  <2> HIDE DEF sum
  <2> QED OBVIOUS
<1>5. CreateBuffer(m) = v
  BY DEF CreateBuffer
<1>6. /\ Magic \in Seq(Byte) /\ Len(Magic) = 2 /\ Magic[1] = 190 /\ Magic[2] = 239
      /\ t \in Seq(Byte) /\ Len(t) = 1 /\ t[1] = m.type
      /\ u \in Seq(Byte) /\ Len(u) = 1 /\ u[1] = m.contentType
  BY <1>1 DEF Magic, Byte
<1> HIDE DEF t, u, p, l, sum, packed
<1>7. /\ a \in Seq(Byte) /\ Len(a) = 3 /\ a[1] = 190 /\ a[2] = 239 /\ a[3] = m.type
  <2> IsJoined(a, Magic, t)
    BY <1>6 DEF IsJoined
  <2> HIDE DEF a
  <2> /\ a \in Seq(Byte) /\ Len(a) = Len(Magic) + Len(t)
      /\ \A i \in 1..Len(Magic) : a[i] = Magic[i]
      /\ \A i \in 1..Len(t) : a[Len(Magic) + i] = t[i]
    BY Joined
  <2> a[1] = Magic[1] /\ a[2] = Magic[2] /\ a[2 + 1] = t[1]
    BY <1>6
  <2> QED BY <1>6
<1> HIDE DEF a
<1>8. /\ b \in Seq(Byte) /\ Len(b) = 7
      /\ \A i \in 1..3 : b[i] = a[i]
      /\ \A i \in 1..4 : b[3 + i] = p[i]
  <2> IsJoined(b, a, p)
    BY <1>3, <1>7 DEF IsJoined
  <2> HIDE DEF b
  <2> /\ b \in Seq(Byte) /\ Len(b) = Len(a) + Len(p)
      /\ \A i \in 1..Len(a) : b[i] = a[i]
      /\ \A i \in 1..Len(p) : b[Len(a) + i] = p[i]
    BY Joined
  <2> QED BY <1>3, <1>7
<1> HIDE DEF b
<1>9. /\ c \in Seq(Byte) /\ Len(c) = 8
      /\ \A i \in 1..7 : c[i] = b[i]
      /\ \A i \in 1..1 : c[7 + i] = u[i]
  <2> IsJoined(c, b, u)
    BY <1>6, <1>8 DEF IsJoined
  <2> HIDE DEF c
  <2> /\ c \in Seq(Byte) /\ Len(c) = Len(b) + Len(u)
      /\ \A i \in 1..Len(b) : c[i] = b[i]
      /\ \A i \in 1..Len(u) : c[Len(b) + i] = u[i]
    BY Joined
  <2> QED BY <1>6, <1>8
<1> HIDE DEF c
<1>10. /\ head \in Seq(Byte) /\ Len(head) = 12
       /\ \A i \in 1..8 : head[i] = c[i]
       /\ \A i \in 1..4 : head[8 + i] = l[i]
  <2> IsJoined(head, c, l)
    BY <1>3, <1>9 DEF IsJoined
  <2> HIDE DEF head
  <2> /\ head \in Seq(Byte) /\ Len(head) = Len(c) + Len(l)
      /\ \A i \in 1..Len(c) : head[i] = c[i]
      /\ \A i \in 1..Len(l) : head[Len(c) + i] = l[i]
    BY Joined
  <2> QED BY <1>3, <1>9
<1> HIDE DEF head
<1>11. /\ w \in Seq(Byte) /\ Len(w) = 12 + L
       /\ \A i \in 1..12 : w[i] = head[i]
       /\ \A i \in 1..L : w[12 + i] = packed[i]
  <2> IsJoined(w, head, packed)
    BY <1>2, <1>10 DEF IsJoined
  <2> HIDE DEF w
  <2> /\ w \in Seq(Byte) /\ Len(w) = Len(head) + Len(packed)
      /\ \A i \in 1..Len(head) : w[i] = head[i]
      /\ \A i \in 1..Len(packed) : w[Len(head) + i] = packed[i]
    BY Joined
  <2> QED BY <1>2, <1>10
<1> HIDE DEF w
<1>12. /\ v \in Seq(Byte) /\ Len(v) = (12 + L) + 2
       /\ \A i \in 1..(12 + L) : v[i] = w[i]
       /\ \A i \in 1..2 : v[(12 + L) + i] = sum[i]
  <2> IsJoined(v, w, sum)
    BY <1>2, <1>4, <1>11 DEF IsJoined
  <2> HIDE DEF v
  <2> /\ v \in Seq(Byte) /\ Len(v) = Len(w) + Len(sum)
      /\ \A i \in 1..Len(w) : v[i] = w[i]
      /\ \A i \in 1..Len(sum) : v[Len(w) + i] = sum[i]
    BY Joined
  <2> QED BY <1>2, <1>4, <1>11
<1> HIDE DEF v
<1>13. /\ \A i \in 1..12 : v[i] = head[i]
       /\ \A i \in 1..L : v[12 + i] = packed[i]
       /\ v[L + 13] = sum[1] /\ v[L + 14] = sum[2]
  <2> v[(12 + L) + 1] = sum[1] /\ v[(12 + L) + 2] = sum[2]
    BY <1>12
  <2> (12 + L) + 1 = L + 13 /\ (12 + L) + 2 = L + 14
    BY <1>2
  <2> QED BY <1>2, <1>11, <1>12
<1>14. /\ \A i \in 1..7 : v[i] = b[i]
       /\ v[8] = m.contentType
       /\ \A i \in 1..4 : v[8 + i] = l[i]
  <2> c[7 + 1] = u[1]
    BY <1>9
  <2> QED BY <1>6, <1>9, <1>10, <1>13
<1>15. /\ v[1] = 190 /\ v[2] = 239 /\ v[3] = m.type
       /\ \A i \in 1..4 : v[3 + i] = p[i]
  BY <1>7, <1>8, <1>14
<1>16. Frame(v, m, packed, sum)
  <2> Len(v) = L + 14
    BY <1>2, <1>12
  <2> QED BY <1>1, <1>2, <1>4, <1>12, <1>13, <1>14, <1>15 DEF Frame, p, l
<1> QED BY <1>5, <1>16 DEF packed, sum

(* A damaged content does not belong to its checksum.                      *)
Damages(w, i, b) == i \in 13..(Len(w) - 2) /\ b \in Byte /\ w[i] % 255 # b % 255

LEMMA DamagedFrame ==
  ASSUME NEW w, NEW m, NEW packed, Frame(w, m, packed, Fletcher16(packed)),
         NEW i, NEW b, Damages(w, i, b)
  PROVE  \E damaged, sum : /\ Frame([w EXCEPT ![i] = b], m, damaged, sum)
                           /\ Fletcher16(damaged) # sum
                           /\ Len(damaged) = Len(packed)
                           /\ \A k \in 1..(i - 13) : damaged[k] = packed[k]
<1> DEFINE damaged == [packed EXCEPT ![i - 12] = b]
           sum == Fletcher16(packed)
           v == [w EXCEPT ![i] = b]
           L == Len(packed)
<1>0. b \in Byte
  BY DEF Damages
<1>1. /\ w \in Seq(Byte) /\ packed \in Seq(Byte) /\ L \in Nat /\ Len(w) = L + 14
      /\ i \in 13..(L + 12) /\ i - 12 \in 1..L /\ w[i] = packed[i - 12]
  <2>1. w \in Seq(Byte) /\ packed \in Seq(Byte) /\ L \in Nat /\ Len(w) = L + 14
    BY DEF Frame
  <2>2. i \in 13..(L + 12) /\ i - 12 \in 1..L
    BY <2>1 DEF Damages
  <2>3. w[12 + (i - 12)] = packed[i - 12]
    BY <2>2 DEF Frame
  <2>4. 12 + (i - 12) = i
    BY <2>2
  <2> QED BY <2>1, <2>2, <2>3, <2>4
<1>2. /\ damaged \in Seq(Byte) /\ Len(damaged) = L
      /\ \A k \in 1..L : damaged[k] = IF k = i - 12 THEN b ELSE packed[k]
  BY <1>1, <1>0
<1>3. /\ v \in Seq(Byte) /\ Len(v) = L + 14
      /\ \A k \in 1..(L + 14) : v[k] = IF k = i THEN b ELSE w[k]
  BY <1>1, <1>0
<1>4. Fletcher16(damaged) # sum
  <2> packed[i - 12] % 255 # b % 255
    BY <1>1 DEF Damages
  <2> QED BY <1>1, <1>0, ChecksumDetects
<1> HIDE DEF damaged, v, sum
<1>5. \A k \in 1..12 : v[k] = w[k]
  BY <1>1, <1>3
<1>6. v[L + 13] = w[L + 13] /\ v[L + 14] = w[L + 14]
  BY <1>1, <1>3
<1>7. \A k \in 1..L : v[12 + k] = damaged[k]
  <2> TAKE k \in 1..L
  <2> w[12 + k] = packed[k] /\ 12 + k \in 1..(L + 14) /\ (12 + k = i <=> k = i - 12)
    BY <1>1 DEF Frame
  <2> QED BY <1>2, <1>3
<1>8. Frame(v, m, damaged, sum)
  <2> L <= MaxLength /\ <<w[L + 13], w[L + 14]>> = sum
    BY DEF Frame, sum
  <2> /\ w[1] = 190 /\ w[2] = 239 /\ w[3] = m.type /\ w[8] = m.contentType
      /\ \A k \in 1..4 : w[3 + k] = Int32Bytes(m.parameter)[k] /\ w[8 + k] = Int32Bytes(L)[k]
    BY DEF Frame
  <2> QED BY <1>2, <1>3, <1>5, <1>6, <1>7 DEF Frame
<1>9. \A k \in 1..(i - 13) : damaged[k] = packed[k]
  BY <1>1, <1>2
<1> QED BY <1>2, <1>4, <1>8, <1>9 DEF v

-----------------------------------------------------------------------------
(* Reading.                                                                *)
Between(p) == p.state = "Init" /\ p.expected = <<0, 0>>

(* In which state the parser is after n bytes of a message whose content    *)
(* has L, and which bytes it has collected.                                *)
Stage(n, L) ==
  IF n = 1 THEN "Header" ELSE IF n = 2 THEN "Type" ELSE IF n <= 6 THEN "Parameter"
  ELSE IF n = 7 THEN "ContentType" ELSE IF n <= 11 THEN "Length"
  ELSE IF n <= L + 11 THEN "Content" ELSE "Checksum"

Collected(m, packed, sum, n) ==
  IF n <= 3 THEN <<>> ELSE IF n <= 6 THEN SubSeq(Int32Bytes(m.parameter), 1, n - 3)
  ELSE IF n <= 8 THEN <<>> ELSE IF n <= 11 THEN SubSeq(Int32Bytes(Len(packed)), 1, n - 8)
  ELSE IF n = 12 THEN <<>> ELSE IF n <= Len(packed) + 11 THEN SubSeq(packed, 1, n - 12)
  ELSE IF n = Len(packed) + 12 THEN <<>> ELSE <<sum[1]>>

(* The fields of the parser hold what n bytes of that message say.         *)
Holds(p, m, packed, n) ==
  /\ n >= 3 => p.type = m.type
  /\ n >= 7 => p.parameter = Int32Bytes(m.parameter)
  /\ n >= 8 => p.contentType = m.contentType
  /\ n >= 12 => p.length = Int32Bytes(Len(packed))
  /\ n >= Len(packed) + 12 => p.packed = packed
  /\ p.expected = IF n >= Len(packed) + 12 THEN Fletcher16(packed) ELSE <<0, 0>>

(* The parser has read n bytes of that message.                            *)
Reads(p, m, packed, sum, n) ==
  IF n = 0 THEN Between(p)
  ELSE /\ p.state = Stage(n, Len(packed))
       /\ p.inner = Collected(m, packed, sum, n)
       /\ Holds(p, m, packed, n)

LEMMA Collecting ==
  ASSUME NEW seq \in Seq(Byte), NEW k \in 0..(Len(seq) - 1)
  PROVE  /\ Append(SubSeq(seq, 1, k), seq[k + 1]) = SubSeq(seq, 1, k + 1)
         /\ SubSeq(seq, 1, k) \in Seq(Byte) /\ Len(SubSeq(seq, 1, k)) = k
         /\ SubSeq(seq, 1, 0) = <<>>
         /\ SubSeq(seq, 1, Len(seq)) = seq
<1>1. /\ Len(seq) \in Nat /\ k \in Nat /\ k + 1 \in 1..Len(seq) /\ 1 \in 1..Len(seq) /\ (k + 1) - 1 = k
      /\ k + 1 \in 1..(k + 1) /\ seq[k + 1] \in Byte
  OBVIOUS
<1>2. SubSeq(seq, 1, k) \in Seq(Byte) /\ Len(SubSeq(seq, 1, k)) = k
  OBVIOUS
<1>3. SubSeq(seq, 1, k + 1) \in Seq(Byte) /\ Len(SubSeq(seq, 1, k + 1)) = k + 1
  OBVIOUS
<1>4. \A i \in 1..(k + 1) : Append(SubSeq(seq, 1, k), seq[k + 1])[i] = SubSeq(seq, 1, k + 1)[i]
  OBVIOUS
<1>5. /\ Append(SubSeq(seq, 1, k), seq[k + 1]) \in Seq(Byte)
      /\ Len(Append(SubSeq(seq, 1, k), seq[k + 1])) = k + 1
  BY <1>1, <1>2
<1>6. Append(SubSeq(seq, 1, k), seq[k + 1]) = SubSeq(seq, 1, k + 1)
  <2> DEFINE a == Append(SubSeq(seq, 1, k), seq[k + 1])
             b == SubSeq(seq, 1, k + 1)
  <2>1. a \in Seq(Byte) /\ b \in Seq(Byte) /\ Len(a) = Len(b) /\ \A i \in 1..Len(a) : a[i] = b[i]
    BY <1>3, <1>4, <1>5
  <2> HIDE DEF a, b
  <2>2. a = b
    BY <2>1, SeqEqual
  <2> QED BY <2>2 DEF a, b
<1>7. SubSeq(seq, 1, 0) = <<>>
  OBVIOUS
<1>8. SubSeq(seq, 1, Len(seq)) = seq
  BY SubSeqFull
<1> QED BY <1>2, <1>6, <1>7, <1>8

LEMMA Int32Of ==
  ASSUME NEW n \in Nat
  PROVE  /\ Int32Bytes(n) \in Seq(Byte) /\ Len(Int32Bytes(n)) = 4
         /\ \A k \in 0..3 : Append(SubSeq(Int32Bytes(n), 1, k), Int32Bytes(n)[k + 1])
                              = SubSeq(Int32Bytes(n), 1, k + 1)
         /\ \A k \in 0..3 : Len(SubSeq(Int32Bytes(n), 1, k)) = k
         /\ SubSeq(Int32Bytes(n), 1, 0) = <<>>
         /\ SubSeq(Int32Bytes(n), 1, 4) = Int32Bytes(n)
<1> DEFINE s == Int32Bytes(n)
<1>1. s \in Seq(Byte) /\ Len(s) = 4
  BY Int32Types
<1> HIDE DEF s
<1>2. ASSUME NEW k \in 0..3
      PROVE  /\ Append(SubSeq(s, 1, k), s[k + 1]) = SubSeq(s, 1, k + 1)
             /\ Len(SubSeq(s, 1, k)) = k
             /\ SubSeq(s, 1, 0) = <<>>
             /\ SubSeq(s, 1, Len(s)) = s
  <2> k \in 0..(Len(s) - 1)
    BY <1>1
  <2> QED BY <1>1, Collecting
<1>3. SubSeq(s, 1, 0) = <<>> /\ SubSeq(s, 1, 4) = s
  <2> 0 \in 0..3
    OBVIOUS
  <2> QED BY <1>1, <1>2
<1> QED BY <1>1, <1>2, <1>3 DEF s

(* A step of the parser that raises nothing, field by field.               *)
LEMMA SilentStep ==
  ASSUME NEW u
  PROVE  Silent(u).parser = u /\ Silent(u).raised = <<>> /\ Silent(u).inside = <<>>
  BY DEF Silent

LEMMA ParserFields ==
  ASSUME NEW p \in Parsers
  PROVE  /\ DOMAIN p = {"state", "inner", "type", "parameter", "contentType", "length", "packed", "expected"}
         /\ p.inner \in Seq(Byte)
  BY DEF Parsers

(* One byte of a message before its last brings the parser one byte        *)
(* further, and nothing is raised.                                         *)
LEMMA Followed ==
  ASSUME NEW w, NEW m, m.parameter \in Nat, NEW packed, NEW sum, Frame(w, m, packed, sum),
         NEW p \in Parsers, NEW n \in Nat, n <= Len(packed) + 12,
         Reads(p, m, packed, sum, n)
  PROVE  LET step == FeedByte(p, w[n + 1]) IN
         /\ step.raised = <<>> /\ step.inside = <<>>
         /\ Reads(step.parser, m, packed, sum, n + 1)
<1> DEFINE L == Len(packed)
           b == w[n + 1]
           step == FeedByte(p, b)
<1>1. L \in Nat /\ packed \in Seq(Byte) /\ L <= MaxLength
  BY DEF Frame
<1>2. CASE n = 0
  <2>1. b = 190 /\ p.state = "Init" /\ p.expected = <<0, 0>>
    BY <1>2 DEF Frame, Reads, Between
  <2> DEFINE u == [p EXCEPT !.inner = <<>>, !.state = "Header"]
  <2>2. step = Silent(u)
    BY <2>1 DEF FeedByte, OnInit, Magic
  <2>3. u.state = "Header" /\ u.inner = <<>> /\ u.expected = <<0, 0>>
    BY <2>1, ParserFields
  <2> HIDE DEF u, step
  <2>4. Reads(u, m, packed, sum, n + 1)
    BY <1>1, <1>2, <2>3 DEF Reads, Stage, Collected, Holds
  <2> QED BY <2>2, <2>4, SilentStep DEF step
<1>3. CASE n = 1
  <2>1. b = 239 /\ p.state = "Header" /\ p.expected = <<0, 0>> /\ p.inner = <<>>
    BY <1>1, <1>3 DEF Frame, Reads, Stage, Collected, Holds
  <2> DEFINE u == [p EXCEPT !.state = "Type"]
  <2>2. step = Silent(u)
    BY <2>1 DEF FeedByte, OnHeader, Magic
  <2>3. u.state = "Type" /\ u.inner = <<>> /\ u.expected = <<0, 0>>
    BY <2>1, ParserFields
  <2> HIDE DEF u, step
  <2>4. Reads(u, m, packed, sum, n + 1)
    BY <1>1, <1>3, <2>3 DEF Reads, Stage, Collected, Holds
  <2> QED BY <2>2, <2>4, SilentStep DEF step
<1>4. CASE n = 2
  <2>1. b = m.type /\ p.state = "Type" /\ p.expected = <<0, 0>> /\ p.inner = <<>>
    BY <1>1, <1>4 DEF Frame, Reads, Stage, Collected, Holds
  <2> DEFINE u == [p EXCEPT !.type = b, !.state = "Parameter"]
  <2>2. step = Silent(u)
    BY <2>1 DEF FeedByte, OnType
  <2>3. u.state = "Parameter" /\ u.inner = <<>> /\ u.expected = <<0, 0>> /\ u.type = m.type
    BY <2>1, ParserFields
  <2> HIDE DEF u, step
  <2>4. Reads(u, m, packed, sum, n + 1)
    BY <1>1, <1>4, <2>3 DEF Reads, Stage, Collected, Holds
  <2> QED BY <2>2, <2>4, SilentStep DEF step
<1>5. CASE n \in 3..6
  <2> DEFINE k == n - 3
             q == Int32Bytes(m.parameter)
             bytes == Append(p.inner, b)
  <2>1. k \in 0..3 /\ n = 3 + k /\ n + 1 = 3 + (k + 1) /\ k + 1 \in 1..4 /\ n < L + 12
    BY <1>1, <1>5
  <2>2. p.state = "Parameter" /\ p.expected = <<0, 0>> /\ p.type = m.type
    BY <1>1, <1>5, <2>1 DEF Reads, Stage, Holds
  <2>3. b = q[k + 1]
    <3>1. \A i \in 1..4 : w[3 + i] = q[i]
      BY DEF Frame
    <3> HIDE DEF q, k
    <3> QED BY <2>1, <3>1
  <2>4. p.inner = SubSeq(q, 1, k)
    <3>1. CASE k = 0
      <4>1. p.inner = <<>>
        BY <1>1, <2>1, <3>1 DEF Reads, Collected
      <4>2. SubSeq(q, 1, 0) = <<>>
        BY Int32Of
      <4> QED BY <3>1, <4>1, <4>2
    <3>2. CASE k # 0
      <4>1. p.inner = Collected(m, packed, sum, n)
        BY <2>1, <3>2 DEF Reads
      <4>2. Collected(m, packed, sum, n) = SubSeq(q, 1, k)
        BY <1>1, <2>1, <3>2 DEF Collected
      <4> QED BY <4>1, <4>2
    <3> QED BY <3>1, <3>2
  <2>5. /\ bytes = SubSeq(q, 1, k + 1) /\ Len(bytes) = k + 1 /\ SubSeq(q, 1, 4) = q
    <3>1. /\ Append(SubSeq(q, 1, k), q[k + 1]) = SubSeq(q, 1, k + 1)
          /\ Len(SubSeq(q, 1, k)) = k /\ SubSeq(q, 1, 4) = q
      BY <2>1, Int32Of
    <3>2. Len(bytes) = Len(p.inner) + 1
      BY ParserFields
    <3> HIDE DEF q, k, bytes
    <3>3. bytes = Append(p.inner, b)
      BY DEF bytes
    <3> QED BY <2>3, <2>4, <3>1, <3>2, <3>3
  <2>6. CASE k = 3
    <3> DEFINE u == [p EXCEPT !.inner = <<>>, !.parameter = bytes, !.state = "ContentType"]
    <3>1. step = Silent(u)
      <4> HIDE DEF bytes
      <4> QED BY <2>2, <2>5, <2>6 DEF FeedByte, OnParameter, bytes
    <3>2. bytes = q
      BY <2>5, <2>6
    <3>3. /\ u.state = "ContentType" /\ u.inner = <<>> /\ u.expected = <<0, 0>> /\ u.type = m.type
          /\ u.parameter = q
      <4> HIDE DEF bytes, q
      <4> QED BY <2>2, <3>2, ParserFields
    <3> HIDE DEF u, step
    <3>4. Reads(u, m, packed, sum, n + 1)
      BY <1>1, <2>1, <2>6, <3>3 DEF Reads, Stage, Collected, Holds
    <3> QED BY <3>1, <3>4, SilentStep DEF step
  <2>7. CASE k # 3
    <3> DEFINE u == [p EXCEPT !.inner = bytes]
    <3>1. step = Silent(u)
      <4>1. Len(bytes) # 4
        BY <2>1, <2>5, <2>7
      <4> QED BY <2>2, <4>1 DEF FeedByte, OnParameter
    <3>2. u.state = "Parameter" /\ u.inner = bytes /\ u.expected = <<0, 0>> /\ u.type = m.type
      <4> HIDE DEF bytes
      <4> QED BY <2>2, ParserFields
    <3>3. bytes = Collected(m, packed, sum, n + 1)
      BY <1>1, <2>1, <2>5, <2>7 DEF Collected
    <3> HIDE DEF u, step, bytes
    <3>4. Reads(u, m, packed, sum, n + 1)
      BY <1>1, <2>1, <2>7, <3>2, <3>3 DEF Reads, Stage, Holds
    <3> QED BY <3>1, <3>4, SilentStep DEF step
  <2> QED BY <2>6, <2>7
<1>6. CASE n = 7
  <2>1. /\ b = m.contentType /\ p.state = "ContentType" /\ p.expected = <<0, 0>> /\ p.inner = <<>>
        /\ p.type = m.type /\ p.parameter = Int32Bytes(m.parameter)
    BY <1>1, <1>6 DEF Frame, Reads, Stage, Collected, Holds
  <2> DEFINE u == [p EXCEPT !.contentType = b, !.state = "Length"]
  <2>2. step = Silent(u)
    BY <2>1 DEF FeedByte, OnContentType
  <2>3. /\ u.state = "Length" /\ u.inner = <<>> /\ u.expected = <<0, 0>> /\ u.type = m.type
        /\ u.parameter = Int32Bytes(m.parameter) /\ u.contentType = m.contentType
    BY <2>1, ParserFields
  <2> HIDE DEF u, step
  <2>4. Reads(u, m, packed, sum, n + 1)
    BY <1>1, <1>6, <2>3 DEF Reads, Stage, Collected, Holds
  <2> QED BY <2>2, <2>4, SilentStep DEF step
<1>7. CASE n \in 8..11
  <2> DEFINE k == n - 8
             q == Int32Bytes(L)
             bytes == Append(p.inner, b)
             Same(u) == /\ u.expected = <<0, 0>> /\ u.type = m.type
                        /\ u.parameter = Int32Bytes(m.parameter) /\ u.contentType = m.contentType
  <2>1. k \in 0..3 /\ n = 8 + k /\ n + 1 = 8 + (k + 1) /\ k + 1 \in 1..4 /\ n < L + 12
    BY <1>1, <1>7
  <2>2. p.state = "Length" /\ Same(p)
    BY <1>1, <1>7, <2>1 DEF Reads, Stage, Holds
  <2>3. b = q[k + 1]
    <3>1. \A i \in 1..4 : w[8 + i] = q[i]
      BY DEF Frame
    <3> HIDE DEF q, k
    <3> QED BY <2>1, <3>1
  <2>4. p.inner = SubSeq(q, 1, k)
    <3>1. CASE k = 0
      <4>1. p.inner = <<>>
        BY <1>1, <2>1, <3>1 DEF Reads, Collected
      <4>2. SubSeq(q, 1, 0) = <<>>
        BY <1>1, Int32Of
      <4> QED BY <3>1, <4>1, <4>2
    <3>2. CASE k # 0
      <4>1. p.inner = Collected(m, packed, sum, n)
        BY <2>1, <3>2 DEF Reads
      <4>2. Collected(m, packed, sum, n) = SubSeq(q, 1, k)
        BY <1>1, <2>1, <3>2 DEF Collected
      <4> QED BY <4>1, <4>2
    <3> QED BY <3>1, <3>2
  <2>5. /\ bytes = SubSeq(q, 1, k + 1) /\ Len(bytes) = k + 1 /\ SubSeq(q, 1, 4) = q
    <3>1. /\ Append(SubSeq(q, 1, k), q[k + 1]) = SubSeq(q, 1, k + 1)
          /\ Len(SubSeq(q, 1, k)) = k /\ SubSeq(q, 1, 4) = q
      BY <1>1, <2>1, Int32Of
    <3>2. Len(bytes) = Len(p.inner) + 1
      BY ParserFields
    <3> HIDE DEF q, k, bytes
    <3>3. bytes = Append(p.inner, b)
      BY DEF bytes
    <3> QED BY <2>3, <2>4, <3>1, <3>2, <3>3
  <2>6. CASE k = 3 /\ L = 0
    <3> DEFINE u == [p EXCEPT !.inner = <<>>, !.length = bytes, !.packed = <<>>, !.state = "Checksum"]
    <3>1. bytes = q
      BY <2>5, <2>6
    <3>2. step = Silent(u)
      <4> HIDE DEF bytes
      <4> QED BY <2>2, <2>5, <2>6, <3>1 DEF FeedByte, OnLength, bytes
    <3>3. packed = <<>>
      BY <1>1, <2>6
    <3>4. Fletcher16(packed) = <<0, 0>>
      BY <3>3, ChecksumTypes
    <3>5. u.state = "Checksum" /\ u.inner = <<>> /\ u.length = q /\ u.packed = packed /\ Same(u)
      <4> HIDE DEF bytes, q
      <4> QED BY <2>2, <3>1, <3>3, ParserFields
    <3> HIDE DEF u, step
    <3>6. Reads(u, m, packed, sum, n + 1)
      BY <1>1, <2>1, <2>6, <3>4, <3>5 DEF Reads, Stage, Collected, Holds
    <3> QED BY <3>2, <3>6, SilentStep DEF step
  <2>7. CASE k = 3 /\ L # 0
    <3> DEFINE u == [p EXCEPT !.inner = <<>>, !.length = bytes, !.state = "Content"]
    <3>1. bytes = q /\ q # Int32Bytes(0)
      <4>1. q # Int32Bytes(0)
        BY <1>1, <2>7, Int32Injective, SMT DEF MaxLength
      <4> QED BY <2>5, <2>7, <4>1
    <3>2. step = Silent(u)
      <4>1. Len(bytes) = 4 /\ bytes # Int32Bytes(0)
        BY <2>5, <2>7, <3>1
      <4> QED BY <2>2, <4>1 DEF FeedByte, OnLength
    <3>3. u.state = "Content" /\ u.inner = <<>> /\ u.length = q /\ Same(u)
      <4> HIDE DEF bytes, q
      <4> QED BY <2>2, <3>1, ParserFields
    <3> HIDE DEF u, step
    <3>4. Reads(u, m, packed, sum, n + 1)
      BY <1>1, <2>1, <2>7, <3>3 DEF Reads, Stage, Collected, Holds
    <3> QED BY <3>2, <3>4, SilentStep DEF step
  <2>8. CASE k # 3
    <3> DEFINE u == [p EXCEPT !.inner = bytes]
    <3>1. step = Silent(u)
      <4>1. Len(bytes) # 4
        BY <2>1, <2>5, <2>8
      <4> QED BY <2>2, <4>1 DEF FeedByte, OnLength
    <3>2. u.state = "Length" /\ u.inner = bytes /\ Same(u)
      <4> HIDE DEF bytes
      <4> QED BY <2>2, ParserFields
    <3>3. bytes = Collected(m, packed, sum, n + 1)
      BY <1>1, <2>1, <2>5, <2>8 DEF Collected
    <3> HIDE DEF u, step, bytes
    <3>4. Reads(u, m, packed, sum, n + 1)
      BY <1>1, <2>1, <2>8, <3>2, <3>3 DEF Reads, Stage, Holds
    <3> QED BY <3>1, <3>4, SilentStep DEF step
  <2> QED BY <2>6, <2>7, <2>8
<1>8. CASE n \in 12..(L + 11)
  <2> DEFINE k == n - 12
             bytes == Append(p.inner, b)
             Same(u) == /\ u.type = m.type /\ u.length = Int32Bytes(L)
                        /\ u.parameter = Int32Bytes(m.parameter) /\ u.contentType = m.contentType
  <2>1. k \in 0..(L - 1) /\ n = 12 + k /\ n + 1 = 12 + (k + 1) /\ k + 1 \in 1..L /\ k \in Nat
    BY <1>1, <1>8
  <2>2. p.state = "Content" /\ p.expected = <<0, 0>> /\ Same(p)
    BY <1>1, <1>8, <2>1 DEF Reads, Stage, Holds
  <2>3. b = packed[k + 1]
    <3>1. \A i \in 1..L : w[12 + i] = packed[i]
      BY DEF Frame
    <3> HIDE DEF k, L
    <3> QED BY <2>1, <3>1
  <2>4. /\ Append(SubSeq(packed, 1, k), packed[k + 1]) = SubSeq(packed, 1, k + 1)
        /\ Len(SubSeq(packed, 1, k)) = k
        /\ SubSeq(packed, 1, 0) = <<>> /\ SubSeq(packed, 1, L) = packed
    BY <1>1, <2>1, Collecting
  <2>5. p.inner = SubSeq(packed, 1, k)
    <3>1. CASE k = 0
      <4>1. p.inner = <<>>
        BY <1>1, <2>1, <3>1 DEF Reads, Collected
      <4> QED BY <3>1, <4>1, <2>4
    <3>2. CASE k # 0
      <4>1. p.inner = Collected(m, packed, sum, n)
        BY <2>1, <3>2 DEF Reads
      <4>2. Collected(m, packed, sum, n) = SubSeq(packed, 1, k)
        BY <1>1, <2>1, <3>2 DEF Collected
      <4> QED BY <4>1, <4>2
    <3> QED BY <3>1, <3>2
  <2>6. bytes = SubSeq(packed, 1, k + 1) /\ Len(bytes) = k + 1
    <3>1. Len(bytes) = Len(p.inner) + 1
      BY ParserFields
    <3> HIDE DEF k, bytes
    <3>2. bytes = Append(p.inner, b)
      BY DEF bytes
    <3> QED BY <2>3, <2>4, <2>5, <3>1, <3>2
  <2>7. CASE k + 1 = L
    <3> DEFINE u == [p EXCEPT !.inner = <<>>, !.packed = bytes, !.expected = Fletcher16(bytes),
                              !.state = "Checksum"]
    <3>1. bytes = packed
      BY <2>4, <2>6, <2>7
    <3>2. step = Silent(u)
      <4> HIDE DEF bytes
      <4> QED BY <2>2, <2>6, <2>7 DEF FeedByte, OnContent, bytes
    <3>3. /\ u.state = "Checksum" /\ u.inner = <<>> /\ u.packed = packed
          /\ u.expected = Fletcher16(packed) /\ Same(u)
      <4> HIDE DEF bytes
      <4> QED BY <2>2, <3>1, ParserFields
    <3> HIDE DEF u, step
    <3>4. Reads(u, m, packed, sum, n + 1)
      BY <1>1, <2>1, <2>7, <3>3 DEF Reads, Stage, Collected, Holds
    <3> QED BY <3>2, <3>4, SilentStep DEF step
  <2>8. CASE k + 1 # L
    <3> DEFINE u == [p EXCEPT !.inner = bytes]
    <3>1. Int32Bytes(Len(bytes)) # Int32Bytes(L)
      <4> HIDE DEF k, L
      <4>1. Len(bytes) \in Nat /\ Len(bytes) <= MaxLength /\ L \in Nat /\ Len(bytes) # L
        BY <1>1, <2>1, <2>6, <2>8, SMT DEF MaxLength
      <4> QED BY <1>1, <4>1, Int32Injective
    <3>2. step = Silent(u)
      BY <2>2, <3>1 DEF FeedByte, OnContent
    <3>3. u.state = "Content" /\ u.inner = bytes /\ u.expected = <<0, 0>> /\ Same(u)
      <4> HIDE DEF bytes
      <4> QED BY <2>2, ParserFields
    <3>4. bytes = Collected(m, packed, sum, n + 1)
      BY <1>1, <2>1, <2>6, <2>8 DEF Collected
    <3> HIDE DEF u, step, bytes
    <3>5. Reads(u, m, packed, sum, n + 1)
      BY <1>1, <2>1, <2>8, <3>3, <3>4 DEF Reads, Stage, Holds
    <3> QED BY <3>2, <3>5, SilentStep DEF step
  <2> QED BY <2>7, <2>8
<1>9. CASE n = L + 12
  <2>1. p.state = "Checksum" /\ p.inner = <<>> /\ Holds(p, m, packed, n)
    BY <1>1, <1>9 DEF Reads, Stage, Collected
  <2>2. b = sum[1]
    BY <1>1, <1>9 DEF Frame
  <2> DEFINE u == [p EXCEPT !.inner = <<b>>]
  <2>3. step = Silent(u)
    BY <2>1 DEF FeedByte, OnChecksum
  <2>4. /\ u.state = p.state /\ u.inner = <<sum[1]>> /\ u.type = p.type /\ u.parameter = p.parameter
        /\ u.contentType = p.contentType /\ u.length = p.length /\ u.packed = p.packed
        /\ u.expected = p.expected
    <3> HIDE DEF b
    <3> QED BY <2>2, ParserFields
  <2> HIDE DEF u, step
  <2>5. Reads(u, m, packed, sum, n + 1)
    BY <1>1, <1>9, <2>1, <2>4 DEF Reads, Stage, Collected, Holds
  <2> QED BY <2>3, <2>5, SilentStep DEF step
<1>10. n = 0 \/ n = 1 \/ n = 2 \/ n \in 3..6 \/ n = 7 \/ n \in 8..11 \/ n \in 12..(L + 11) \/ n = L + 12
  BY <1>1
<1> QED BY <1>2, <1>3, <1>4, <1>5, <1>6, <1>7, <1>8, <1>9, <1>10

(* The last byte completes it: dropped, fed again or raised.               *)
LEMMA Completed ==
  ASSUME NEW w, NEW m, NEW packed, NEW sum, Frame(w, m, packed, sum),
         NEW p \in Parsers, Reads(p, m, packed, sum, Len(packed) + 13)
  PROVE  LET step == FeedByte(p, w[Len(packed) + 14])
             content == DecompressBuffer(packed)
         IN /\ Between(step.parser)
            /\ step.raised =
                 IF sum = Fletcher16(packed) /\ m.contentType # Multipart
                 THEN <<[type |-> m.type, parameter |-> Int32Bytes(m.parameter),
                         contentType |-> m.contentType, content |-> content]>>
                 ELSE <<>>
            /\ step.inside =
                 IF sum = Fletcher16(packed) /\ m.contentType = Multipart THEN content ELSE <<>>
<1> DEFINE L == Len(packed)
           b == w[L + 14]
           step == FeedByte(p, b)
           fresh == Silent(ResetParserState([p EXCEPT !.inner = <<>>]))
<1>1. /\ L \in Nat /\ packed \in Seq(Byte)
      /\ DOMAIN p = {"state", "inner", "type", "parameter", "contentType", "length", "packed", "expected"}
      /\ sum = <<sum[1], sum[2]>> /\ b = sum[2]
  BY DEF Frame, Parsers
<1>2. /\ p.state = "Checksum" /\ p.inner = <<sum[1]>> /\ p.expected = Fletcher16(packed)
      /\ p.type = m.type /\ p.parameter = Int32Bytes(m.parameter) /\ p.contentType = m.contentType
      /\ p.packed = packed
  BY <1>1 DEF Reads, Stage, Collected, Holds
<1>3. Append(p.inner, b) = sum /\ Len(Append(p.inner, b)) = 2
  BY <1>1, <1>2
<1>4. Between(fresh.parser) /\ fresh.raised = <<>> /\ fresh.inside = <<>>
  BY <1>1 DEF Silent, ResetParserState, Between
<1>5. step = IF sum # Fletcher16(packed) THEN fresh
             ELSE IF m.contentType = Multipart
             THEN [fresh EXCEPT !.inside = DecompressBuffer(packed)]
             ELSE [fresh EXCEPT !.raised = <<Parsed(p)>>]
  BY <1>2, <1>3 DEF FeedByte, OnChecksum
<1>6. DOMAIN fresh = {"parser", "raised", "inside"}
  BY DEF Silent
<1>7. Parsed(p) = [type |-> m.type, parameter |-> Int32Bytes(m.parameter),
                   contentType |-> m.contentType, content |-> DecompressBuffer(packed)]
  BY <1>2 DEF Parsed
<1> HIDE DEF fresh, step
<1>8. CASE sum # Fletcher16(packed)
  BY <1>4, <1>5, <1>8 DEF step
<1>9. CASE sum = Fletcher16(packed) /\ m.contentType = Multipart
  BY <1>4, <1>5, <1>6, <1>9 DEF step
<1>10. CASE sum = Fletcher16(packed) /\ m.contentType # Multipart
  BY <1>4, <1>5, <1>6, <1>7, <1>10 DEF step
<1> QED BY <1>8, <1>9, <1>10

(* A byte leaves a parser a parser, and what it raises are messages.       *)
Raised == [type : Byte, parameter : Seq(Byte), contentType : Byte, content : Seq(Byte)]

LEMMA FeedTypes ==
  ASSUME NEW p \in Parsers, NEW b \in Byte
  PROVE  LET step == FeedByte(p, b) IN
         /\ step.parser \in Parsers
         /\ step.raised \in Seq(Raised)
         /\ step.inside \in Seq(Byte)
<1> DEFINE bytes == Append(p.inner, b)
           Fine(step) == /\ step.parser \in Parsers
                         /\ step.raised \in Seq(Raised)
                         /\ step.inside \in Seq(Byte)
<1>1. bytes \in Seq(Byte) /\ <<>> \in Seq(Byte) /\ <<>> \in Seq(Raised)
  BY ParserFields
<1>2. ASSUME NEW u \in Parsers PROVE Fine(Silent(u))
  BY <1>1, SilentStep
<1>3. Fletcher16(bytes) \in Byte \X Byte
  BY <1>1, ChecksumTypes
<1>4. \A s \in ParserStates : [p EXCEPT !.state = s] \in Parsers
  BY DEF Parsers
<1>5. {"Init", "Header", "Type", "Parameter", "ContentType", "Length", "Content", "Checksum"}
        \subseteq ParserStates
  BY DEF ParserStates
<1>6. <<0, 0>> \in Byte \X Byte
  BY DEF Byte
<1>7. ASSUME NEW u \in Parsers PROVE ResetParserState(u) \in Parsers
  BY <1>5, <1>6 DEF ResetParserState, Parsers
<1>8. [p EXCEPT !.inner = <<>>] \in Parsers /\ [p EXCEPT !.inner = bytes] \in Parsers
  <2> HIDE DEF bytes
  <2> QED BY <1>1 DEF Parsers
<1> HIDE DEF bytes, Fine
<1>9. CASE p.state = "Init"
  <2> OnInit(p, b) \in Parsers
    BY <1>1, <1>5 DEF OnInit, Parsers
  <2> QED BY <1>2, <1>9 DEF FeedByte, Fine
<1>10. CASE p.state = "Header"
  <2> OnHeader(p, b) \in Parsers
    BY <1>4, <1>5, <1>7 DEF OnHeader
  <2> QED BY <1>2, <1>10 DEF FeedByte, Fine
<1>11. CASE p.state = "Type"
  <2> OnType(p, b) \in Parsers
    BY <1>5 DEF OnType, Parsers
  <2> QED BY <1>2, <1>11 DEF FeedByte, Fine
<1>12. CASE p.state = "Parameter"
  <2>1. [p EXCEPT !.inner = <<>>, !.parameter = bytes, !.state = "ContentType"] \in Parsers
    BY <1>1, <1>5 DEF Parsers
  <2>2. OnParameter(p, b) \in Parsers
    BY <2>1, <1>8 DEF OnParameter, bytes
  <2> QED BY <1>2, <1>12, <2>2 DEF FeedByte, Fine
<1>13. CASE p.state = "ContentType"
  <2> OnContentType(p, b) \in Parsers
    BY <1>5 DEF OnContentType, Parsers
  <2> QED BY <1>2, <1>13 DEF FeedByte, Fine
<1>14. CASE p.state = "Length"
  <2>1. [p EXCEPT !.inner = <<>>, !.length = bytes, !.packed = <<>>, !.state = "Checksum"] \in Parsers
    BY <1>1, <1>5 DEF Parsers
  <2>2. [p EXCEPT !.inner = <<>>, !.length = bytes, !.state = "Content"] \in Parsers
    BY <1>1, <1>5 DEF Parsers
  <2>3. OnLength(p, b) \in Parsers
    BY <2>1, <2>2, <1>8 DEF OnLength, bytes
  <2> QED BY <1>2, <1>14, <2>3 DEF FeedByte, Fine
<1>15. CASE p.state = "Content"
  <2>1. [p EXCEPT !.inner = <<>>, !.packed = bytes, !.expected = Fletcher16(bytes),
                  !.state = "Checksum"] \in Parsers
    <3> DEFINE sum == Fletcher16(bytes)
    <3>1. sum \in Byte \X Byte
      BY <1>3
    <3> HIDE DEF sum
    <3>2. [p EXCEPT !.inner = <<>>, !.packed = bytes, !.expected = sum, !.state = "Checksum"] \in Parsers
      BY <1>1, <1>5, <3>1 DEF Parsers
    <3> QED BY <3>2 DEF sum
  <2>2. OnContent(p, b) \in Parsers
    BY <2>1, <1>8 DEF OnContent, bytes
  <2> QED BY <1>2, <1>15, <2>2 DEF FeedByte, Fine
<1>16. CASE p.state = "Checksum"
  <2> DEFINE fresh == Silent(ResetParserState([p EXCEPT !.inner = <<>>]))
             content == DecompressBuffer(p.packed)
  <2>1. Fine(fresh)
    BY <1>2, <1>7, <1>8
  <2>2. content \in Seq(Byte) /\ Parsed(p) \in Raised
    BY DecompressTypes DEF Parsed, Raised, Parsers
  <2>3. <<Parsed(p)>> \in Seq(Raised)
    BY <2>2
  <2>4. DOMAIN fresh = {"parser", "raised", "inside"}
    BY DEF Silent
  <2> HIDE DEF fresh, content
  <2>5. Fine([fresh EXCEPT !.inside = content]) /\ Fine([fresh EXCEPT !.raised = <<Parsed(p)>>])
    BY <2>1, <2>2, <2>3, <2>4 DEF Fine
  <2>6. Fine(Silent([p EXCEPT !.inner = bytes]))
    BY <1>2, <1>8
  <2>7. Fine(OnChecksum(p, b))
    BY <2>1, <2>5, <2>6 DEF OnChecksum, fresh, content, bytes
  <2> QED BY <1>16, <2>7 DEF FeedByte, Fine
<1>17. p.state \in ParserStates
  BY DEF Parsers
<1> QED BY <1>9, <1>10, <1>11, <1>12, <1>13, <1>14, <1>15, <1>16, <1>17 DEF ParserStates, Fine

-----------------------------------------------------------------------------
(* Where the parts of a multipart end in its content.                      *)
IsFlattened(f, seqs) ==
  f = [i \in 1..Len(seqs) |-> IF i = 1 THEN seqs[i] ELSE f[i - 1] \o seqs[i]]

(* grown[j] are the first j sequences, one after another.                  *)
Grows(grown, seqs) ==
  /\ grown \in [0..Len(seqs) -> Seq(Byte)]
  /\ grown[0] = <<>>
  /\ \A j \in 1..Len(seqs) : IsJoined(grown[j], grown[j - 1], seqs[j])

LEMMA Growing ==
  ASSUME NEW seqs \in Seq(Seq(Byte))
  PROVE  \E grown : Grows(grown, seqs)
<1> DEFINE N == Len(seqs)
           S == Seq(Byte)
           next == [n \in 1..N |-> [s \in S |-> s \o seqs[n]]]
           empty == <<>>
<1>1. N \in Nat /\ empty \in S /\ \A n \in 1..N : seqs[n] \in S
  OBVIOUS
<1>2. \A s, t \in S : s \o t \in S
  OBVIOUS
<1>3. Equations(S, empty, N, next)
  <2> HIDE DEF S, N, empty
  <2>1. next \in [1..N -> [S -> S]]
    BY <1>1, <1>2
  <2> QED BY <1>1, <2>1 DEF Equations
<1>4. PICK f : Solves(f, S, empty, N, next)
  <2> HIDE DEF S, N, empty, next
  <2> QED BY <1>3, Recursion
<1>5. f \in [0..N -> S] /\ f[0] = empty /\ \A n \in 1..N : f[n] = next[n][f[n - 1]]
  BY <1>4 DEF Solves
<1>6. ASSUME NEW j \in 1..N PROVE IsJoined(f[j], f[j - 1], seqs[j])
  <2>1. j - 1 \in 0..N /\ j \in 1..N
    BY <1>1
  <2>2. f[j - 1] \in S /\ seqs[j] \in S
    BY <1>1, <1>5, <2>1
  <2>3. f[j] = f[j - 1] \o seqs[j]
    BY <1>5, <2>2
  <2> QED BY <2>2, <2>3 DEF IsJoined
<1> QED BY <1>5, <1>6 DEF Grows

LEMMA Flattened ==
  ASSUME NEW seqs \in Seq(Seq(Byte)), NEW grown, Grows(grown, seqs)
  PROVE  FlattenSeq(seqs) = grown[Len(seqs)]
<1> DEFINE N == Len(seqs)
<1>1. N \in Nat /\ \A n \in 1..N : seqs[n] \in Seq(Byte)
  OBVIOUS
<1>2. CASE N = 0
  BY <1>2 DEF FlattenSeq, Grows
<1>3. CASE N # 0
  <2> DEFINE g == [i \in 1..N |-> grown[i]]
  <2>1. ASSUME NEW i \in 1..N
        PROVE  g[i] = IF i = 1 THEN seqs[i] ELSE g[i - 1] \o seqs[i]
    <3>1. i - 1 \in 0..N /\ IsJoined(grown[i], grown[i - 1], seqs[i])
      BY <1>1 DEF Grows
    <3>2. grown[i] = grown[i - 1] \o seqs[i]
      BY <3>1 DEF IsJoined
    <3>3. CASE i = 1
      <4>1. grown[i - 1] = <<>>
        BY <3>3 DEF Grows
      <4>2. seqs[i] \in Seq(Byte)
        BY <1>1
      <4> QED BY <3>2, <3>3, <4>1, <4>2, ConcatEmptySeq
    <3>4. CASE i # 1
      <4> i - 1 \in 1..N
        BY <1>1, <3>4
      <4> QED BY <3>2, <3>4
    <3> QED BY <3>3, <3>4
  <2>2. g = [i \in 1..N |-> IF i = 1 THEN seqs[i] ELSE g[i - 1] \o seqs[i]]
    <3> DEFINE h == [i \in 1..N |-> IF i = 1 THEN seqs[i] ELSE g[i - 1] \o seqs[i]]
    <3>1. \A i \in 1..N : g[i] = h[i]
      BY <2>1
    <3>2. g = [i \in 1..N |-> g[i]] /\ h = [i \in 1..N |-> h[i]]
      OBVIOUS
    <3> HIDE DEF g, h
    <3>3. g = h
      BY <3>1, <3>2
    <3> QED BY <3>3 DEF h
  <2>3. IsFlattened(g, seqs)
    <3> HIDE DEF g
    <3> QED BY <2>2 DEF IsFlattened
  <2>4. ASSUME NEW f, IsFlattened(f, seqs) PROVE f = g
    <3> DEFINE T == {n \in Nat : n \in 1..N => f[n] = g[n]}
    <3>1. \A n \in 1..N : f[n] = IF n = 1 THEN seqs[n] ELSE f[n - 1] \o seqs[n]
      BY <2>4 DEF IsFlattened
    <3>2. 0 \in T
      OBVIOUS
    <3>3. ASSUME NEW n \in T PROVE n + 1 \in T
      <4> SUFFICES ASSUME n + 1 \in 1..N PROVE f[n + 1] = g[n + 1]
        OBVIOUS
      <4> HIDE DEF g, N
      <4>1. CASE n = 0
        BY <2>1, <3>1, <4>1
      <4>2. CASE n # 0
        <5>1. n \in 1..N /\ n + 1 # 1 /\ (n + 1) - 1 = n
          BY <1>1, <4>2
        <5>2. f[n] = g[n]
          BY <5>1
        <5>3. f[n + 1] = f[n] \o seqs[n + 1] /\ g[n + 1] = g[n] \o seqs[n + 1]
          BY <2>1, <3>1, <5>1
        <5> QED BY <5>2, <5>3
      <4> QED BY <4>1, <4>2
    <3>4. T = Nat
      <4> T \in SUBSET Nat OBVIOUS
      <4> HIDE DEF T
      <4> QED BY <3>2, <3>3, Induction
    <3>5. \A n \in 1..N : f[n] = g[n]
      <4> HIDE DEF g, N
      <4>1. \A n \in Nat : n \in 1..N => f[n] = g[n]
        BY <3>4
      <4> QED BY <1>1, <4>1
    <3> HIDE DEF g
    <3>6. f = [n \in 1..N |-> f[n]] /\ g = [n \in 1..N |-> g[n]]
      BY <2>3, <2>4 DEF IsFlattened
    <3> QED BY <3>5, <3>6
  <2>5. FlattenSeq(seqs) = (CHOOSE f : IsFlattened(f, seqs))[N]
    BY <1>3 DEF FlattenSeq, IsFlattened
  <2>6. (CHOOSE f : IsFlattened(f, seqs)) = g
    <3> HIDE DEF g
    <3> QED BY <2>3, <2>4
  <2>7. FlattenSeq(seqs) = g[N]
    <3> HIDE DEF g
    <3> QED BY <2>5, <2>6
  <2>8. N \in 1..N
    BY <1>1, <1>3
  <2> QED BY <2>7, <2>8
<1> QED BY <1>2, <1>3

(* Part j of a content is what lies between cut[j - 1] and cut[j].         *)
IsCut(cut, parts) ==
  LET content == PartsBuffer(parts) IN
  /\ cut \in [0..Len(parts) -> Nat]
  /\ content \in Seq(Byte)
  /\ cut[0] = 0 /\ cut[Len(parts)] = Len(content)
  /\ \A j \in 1..Len(parts) :
       /\ cut[j] = cut[j - 1] + Len(CreateBuffer(parts[j]))
       /\ cut[j] <= Len(content)
       /\ \A i \in 1..Len(CreateBuffer(parts[j])) :
            content[cut[j - 1] + i] = CreateBuffer(parts[j])[i]

LEMMA BufferTypes ==
  ASSUME NEW m \in Sendable
  PROVE  /\ CreateBuffer(m) \in Seq(Byte)
         /\ Len(CreateBuffer(m)) = Len(CompressBuffer(m.content)) + 14
         /\ Len(CompressBuffer(m.content)) \in Nat
         /\ Len(CreateBuffer(m)) >= 14
<1>1. CreateBuffer(m) \in Seq(Byte) /\ Len(CreateBuffer(m)) = Len(CompressBuffer(m.content)) + 14
  BY BufferFrame DEF Frame
<1>2. Len(CompressBuffer(m.content)) \in Nat
  <2>1. CompressBuffer(m.content) \in Seq(Byte)
    BY Compressed DEF Sendable, ServerMessages
  <2> QED BY <2>1
<1> QED BY <1>1, <1>2

LEMMA PartsCut ==
  ASSUME NEW parts \in Seq(Sendable)
  PROVE  \E cut : IsCut(cut, parts)
<1> DEFINE N == Len(parts)
           seqs == [i \in DOMAIN parts |-> CreateBuffer(parts[i])]
<1>1. N \in Nat /\ DOMAIN parts = 1..N /\ \A j \in 1..N : parts[j] \in Sendable
  OBVIOUS
<1>2. \A j \in 1..N : seqs[j] = CreateBuffer(parts[j]) /\ seqs[j] \in Seq(Byte)
  BY <1>1, BufferTypes
<1>3. seqs \in Seq(Seq(Byte)) /\ Len(seqs) = N
  BY <1>1, <1>2
<1> HIDE DEF seqs
<1>4. PICK g : Grows(g, seqs)
  BY <1>3, Growing
<1> DEFINE content == g[N]
<1>5. PartsBuffer(parts) = content
  BY <1>3, <1>4, Flattened DEF PartsBuffer, seqs
<1>6. /\ g \in [0..N -> Seq(Byte)] /\ g[0] = <<>>
      /\ \A j \in 1..N : IsJoined(g[j], g[j - 1], seqs[j])
  BY <1>3, <1>4 DEF Grows
<1>7. ASSUME NEW j \in 1..N
      PROVE  /\ j - 1 \in 0..N /\ j \in 0..N /\ g[j - 1] \in Seq(Byte) /\ g[j] \in Seq(Byte)
             /\ Len(g[j]) = Len(g[j - 1]) + Len(seqs[j])
             /\ \A i \in 1..Len(g[j - 1]) : g[j][i] = g[j - 1][i]
             /\ \A i \in 1..Len(seqs[j]) : g[j][Len(g[j - 1]) + i] = seqs[j][i]
  <2>1. j - 1 \in 0..N /\ j \in 0..N
    BY <1>1
  <2>2. g[j - 1] \in Seq(Byte) /\ g[j] \in Seq(Byte)
    BY <1>6, <2>1
  <2>3. IsJoined(g[j], g[j - 1], seqs[j])
    BY <1>6
  <2>4. /\ Len(g[j]) = Len(g[j - 1]) + Len(seqs[j])
        /\ \A i \in 1..Len(g[j - 1]) : g[j][i] = g[j - 1][i]
        /\ \A i \in 1..Len(seqs[j]) : g[j][Len(g[j - 1]) + i] = seqs[j][i]
    <3> DEFINE a == g[j - 1]
               b == seqs[j]
               c == g[j]
    <3> IsJoined(c, a, b)
      BY <2>3
    <3> HIDE DEF a, b, c
    <3>1. /\ Len(c) = Len(a) + Len(b)
          /\ \A i \in 1..Len(a) : c[i] = a[i]
          /\ \A i \in 1..Len(b) : c[Len(a) + i] = b[i]
      BY Joined
    <3> QED BY <3>1 DEF a, b, c
  <2> QED BY <2>1, <2>2, <2>4
<1>8. ASSUME NEW j \in 0..N
      PROVE  Len(g[j]) <= Len(content) /\ \A i \in 1..Len(g[j]) : content[i] = g[j][i]
  <2> DEFINE Begins(n) == Len(g[j]) <= Len(g[n]) /\ \A i \in 1..Len(g[j]) : g[n][i] = g[j][i]
             T == {n \in Nat : j <= n /\ n <= N => Begins(n)}
  <2>0. \A n \in 0..N : g[n] \in Seq(Byte) /\ Len(g[n]) \in Nat
    BY <1>6
  <2>1. Begins(j)
    BY <2>0
  <2>2. 0 \in T
    BY <2>1
  <2>3. ASSUME NEW n \in T PROVE n + 1 \in T
    <3> SUFFICES ASSUME j <= n + 1, n + 1 <= N PROVE Begins(n + 1)
      BY DEF T
    <3>1. CASE j = n + 1
      <4> HIDE DEF Begins
      <4> QED BY <2>1, <3>1
    <3>2. CASE j # n + 1
      <4>1. j <= n /\ n <= N /\ n + 1 \in 1..N /\ (n + 1) - 1 = n /\ n \in 0..N /\ n + 1 \in 0..N
        BY <1>1, <3>2
      <4>2. Begins(n)
        <5> HIDE DEF Begins
        <5> QED BY <4>1
      <4>3. /\ Len(g[n + 1]) = Len(g[n]) + Len(seqs[n + 1])
            /\ \A i \in 1..Len(g[n]) : g[n + 1][i] = g[n][i]
        <5> DEFINE x == n + 1
        <5> HIDE DEF x
        <5>1. x \in 1..N /\ x - 1 = n
          BY <4>1 DEF x
        <5>2. /\ Len(g[x]) = Len(g[x - 1]) + Len(seqs[x])
              /\ \A i \in 1..Len(g[x - 1]) : g[x][i] = g[x - 1][i]
          BY <1>7, <5>1
        <5> QED BY <5>1, <5>2 DEF x
      <4>4. seqs[n + 1] \in Seq(Byte)
        BY <1>2, <4>1
      <4>5. Len(seqs[n + 1]) \in Nat /\ Len(g[n]) \in Nat /\ Len(g[j]) \in Nat
        BY <2>0, <4>1, <4>4
      <4>6. Len(g[j]) <= Len(g[n + 1])
        <5> DEFINE x == Len(g[j])
                   y == Len(g[n])
                   z == Len(seqs[n + 1])
        <5>1. x \in Nat /\ y \in Nat /\ z \in Nat /\ x <= y /\ Len(g[n + 1]) = y + z
          BY <4>2, <4>3, <4>5
        <5> HIDE DEF x, y, z
        <5>2. x <= Len(g[n + 1])
          BY <5>1
        <5> QED BY <5>2 DEF x
      <4>7. ASSUME NEW i \in 1..Len(g[j]) PROVE g[n + 1][i] = g[j][i]
        <5> i \in 1..Len(g[n])
          BY <4>2, <4>5
        <5> QED BY <4>2, <4>3
      <4> QED BY <4>6, <4>7
    <3> QED BY <3>1, <3>2
  <2>4. T = Nat
    <3> T \in SUBSET Nat OBVIOUS
    <3> HIDE DEF T
    <3> QED BY <2>2, <2>3, Induction
  <2>5. Begins(N)
    <3> HIDE DEF Begins
    <3> QED BY <1>1, <2>4
  <2> QED BY <2>5
<1> DEFINE cut == [j \in 0..N |-> Len(g[j])]
<1>9. /\ cut \in [0..N -> Nat] /\ content \in Seq(Byte)
      /\ cut[0] = 0 /\ cut[N] = Len(content)
  BY <1>1, <1>6
<1>10. ASSUME NEW j \in 1..N
       PROVE  /\ cut[j] = cut[j - 1] + Len(seqs[j])
              /\ cut[j] <= Len(content)
              /\ \A i \in 1..Len(seqs[j]) : content[cut[j - 1] + i] = seqs[j][i]
  <2>1. cut[j] = Len(g[j]) /\ cut[j - 1] = Len(g[j - 1])
    BY <1>7
  <2>2. cut[j] = cut[j - 1] + Len(seqs[j]) /\ cut[j] <= Len(content)
    BY <1>7, <1>8, <2>1
  <2>3. ASSUME NEW i \in 1..Len(seqs[j]) PROVE content[cut[j - 1] + i] = seqs[j][i]
    <3>1. seqs[j] \in Seq(Byte) /\ g[j - 1] \in Seq(Byte)
      BY <1>2, <1>7
    <3>2. Len(g[j - 1]) + i \in 1..Len(g[j])
      <4> Len(seqs[j]) \in Nat /\ Len(g[j - 1]) \in Nat
        BY <3>1
      <4> Len(g[j]) = Len(g[j - 1]) + Len(seqs[j])
        BY <1>7
      <4> DEFINE x == Len(g[j - 1])
                 y == Len(seqs[j])
                 z == Len(g[j])
      <4>1. x \in Nat /\ y \in Nat /\ i \in 1..y /\ z = x + y
        OBVIOUS
      <4> HIDE DEF x, y, z
      <4>2. x + i \in 1..z
        BY <4>1
      <4> QED BY <4>2 DEF x, z
    <3>3. content[Len(g[j - 1]) + i] = g[j][Len(g[j - 1]) + i]
      <4> DEFINE x == Len(g[j - 1]) + i
      <4> HIDE DEF x, content
      <4>1. x \in 1..Len(g[j]) /\ j \in 0..N
        BY <1>7, <3>2 DEF x
      <4>2. content[x] = g[j][x]
        BY <1>8, <4>1
      <4> QED BY <4>2 DEF x
    <3> QED BY <1>7, <2>1, <3>3
  <2> QED BY <2>2, <2>3
<1> HIDE DEF cut, content
<1>11. IsCut(cut, parts)
  BY <1>2, <1>5, <1>9, <1>10 DEF IsCut
<1> QED BY <1>11

Cut(parts) == CHOOSE cut : IsCut(cut, parts)

LEMMA CutOf == \A parts \in Seq(Sendable) : IsCut(Cut(parts), parts)
  BY PartsCut DEF Cut

-----------------------------------------------------------------------------
(* The inductive invariant.                                                *)
Coming == sent[current]

Typed ==
  /\ shared \in BOOLEAN /\ intact \in BOOLEAN /\ synced \in BOOLEAN
  /\ parser \in Parsers
  /\ delivered \in [1..StreamLength -> Seq(Deliveries)]
  /\ sent \in [1..StreamLength -> Bodies]
  /\ current \in 1..(StreamLength + 1)
  /\ wire \in Seq(Byte)
  /\ wire # <<>> <=> current <= StreamLength
  /\ received \in 0..Len(wire)
  /\ inside \in Seq(Byte)
  /\ arrived \subseteq 1..StreamLength
  /\ faults \in 0..MaxFaults

(* A message whose bytes have all been fed is not there any more, unless    *)
(* its content still is fed.                                               *)
Unfinished == IF inside = <<>> THEN wire # <<>> => received < Len(wire) ELSE received > 0

(* The bytes are those of the message, or have a content that does not     *)
(* belong to the checksum.                                                 *)
Carries(packed, sum) ==
  /\ Frame(wire, Coming, packed, sum)
  /\ IF intact THEN packed = CompressBuffer(Coming.content) /\ sum = Fletcher16(packed)
     ELSE sum # Fletcher16(packed)

(* A parser in step holds what it has read of the message.                 *)
Outside ==
  (wire # <<>> /\ inside = <<>> /\ (synced \/ received = 0)) =>
     \E packed, sum : /\ Carries(packed, sum)
                      /\ synced => Reads(parser, Coming, packed, sum, received)

(* p has read n bytes of the j-th part of the message and rest is what is   *)
(* left of the content.                                                    *)
InPart(p, rest, j, n) ==
  LET parts  == Parts[Coming]
      packed == CompressBuffer(parts[j].content)
      from   == Cut(parts)[j - 1] + n
  IN /\ n < Len(CreateBuffer(parts[j]))
     /\ Len(rest) = Len(PartsBuffer(parts)) - from
     /\ \A i \in 1..Len(rest) : rest[i] = PartsBuffer(parts)[from + i]
     /\ Reads(p, parts[j], packed, Fletcher16(packed), n)

(* A parser in step that is fed the content of a multipart holds what it   *)
(* has read of the next part; the ones before have been delivered.         *)
Within ==
  (synced /\ inside # <<>>) =>
     /\ intact /\ received = Len(wire) /\ Coming.contentType = Multipart
     /\ \E j \in 1..Len(Parts[Coming]), n \in Nat :
          InPart(parser, inside, j, n) /\ Len(delivered[current]) = j - 1

Ready == (synced /\ received = 0) => Between(parser)

Exact(deliveries, given) ==
  \A i \in DOMAIN deliveries : i \in DOMAIN given /\ deliveries[i].message = given[i]

(* What has been delivered while this and later messages came in.          *)
Told ==
  /\ \A k \in 1..StreamLength : (k > current \/ (k = current /\ received = 0)) => delivered[k] = <<>>
  /\ (synced /\ current <= StreamLength) => Exact(delivered[current], Gives(current))
  /\ (synced /\ current <= StreamLength /\ inside = <<>>) => delivered[current] = <<>>
  /\ arrived \subseteq 1..(current - 1)

Inv ==
  /\ Typed
  /\ Unfinished
  /\ Outside
  /\ Within
  /\ Ready
  /\ Told
  /\ NothingInvented
  /\ WholeDelivered

LEMMA BodyFacts ==
  ASSUME NEW m \in Bodies
  PROVE  /\ m \in Sendable /\ m.parameter \in Nat /\ m.content \in Seq(Byte)
         /\ Encoded[m] = CreateBuffer(m)
         /\ Parts[m] \in Seq(Sendable)
         /\ Given[m] = [i \in DOMAIN Parts[m] |-> Shown(Parts[m][i])]
         /\ m.contentType = Multipart =>
              /\ m.content = PartsBuffer(Parts[m])
              /\ \A i \in 1..Len(Parts[m]) : Parts[m][i].contentType # Multipart
         /\ m.contentType # Multipart => Parts[m] = <<m>>
<1>1. m \in Sendable /\ Parts[m] \in Seq(Sendable)
  BY FramedStreamAssumption
<1>2. m.parameter \in Nat /\ m.content \in Seq(Byte)
  BY <1>1 DEF Sendable, ServerMessages
<1>3. /\ m.contentType = Multipart =>
           /\ m.content = PartsBuffer(Parts[m])
           /\ \A i \in DOMAIN Parts[m] : Parts[m][i].contentType # Multipart
      /\ m.contentType # Multipart => Parts[m] = <<m>>
  BY FramedStreamAssumption
<1>4. DOMAIN Parts[m] = 1..Len(Parts[m])
  BY <1>1
<1> QED BY <1>1, <1>2, <1>3, <1>4 DEF Encoded, Given

LEMMA ShownMessage ==
  ASSUME NEW m \in Sendable
  PROVE  LET packed == CompressBuffer(m.content) IN
         Shown(m) = [type |-> m.type, parameter |-> Int32Bytes(m.parameter),
                     contentType |-> m.contentType, content |-> DecompressBuffer(packed)]
<1>1. /\ m = [type |-> m.type, parameter |-> m.parameter, contentType |-> m.contentType,
              content |-> m.content]
      /\ m.content \in Seq(Byte)
  BY DEF Sendable, ServerMessages
<1>2. DecompressBuffer(CompressBuffer(m.content)) = m.content
  BY <1>1, Compressed
<1> DEFINE q == Int32Bytes(m.parameter)
<1>3. Shown(m) = [m EXCEPT !.parameter = q]
  BY DEF Shown
<1> HIDE DEF q
<1>4. [m EXCEPT !.parameter = q] = [type |-> m.type, parameter |-> q, contentType |-> m.contentType,
                                    content |-> m.content]
  BY <1>1
<1> QED BY <1>2, <1>3, <1>4 DEF q

(* What a byte does that a parser in step is fed: u is the parser then, n   *)
(* of the message's bytes are read, rest is left of a content.  What is    *)
(* raised is what comes next.                                              *)
Due(raised) ==
  \A i \in 1..Len(raised) : /\ Len(delivered[current]) + i \in DOMAIN Gives(current)
                            /\ raised[i] = Gives(current)[Len(delivered[current]) + i]

Completes(u, raised, n, rest) ==
  /\ n = Len(wire) /\ rest = <<>> /\ Between(u)
  /\ intact => Len(delivered[current]) + Len(raised) = Len(Gives(current))

Continues(u, raised, n, rest) ==
  /\ n < Len(wire) /\ rest = <<>> /\ raised = <<>> /\ inside = <<>>
  /\ \E packed, sum : Carries(packed, sum) /\ Reads(u, Coming, packed, sum, n)

Enters(u, raised, n, rest) ==
  /\ n = Len(wire) /\ rest # <<>> /\ intact /\ Coming.contentType = Multipart
  /\ raised # <<>> => Len(inside) > 1
  /\ \E j \in 1..Len(Parts[Coming]), i \in Nat :
       InPart(u, rest, j, i) /\ Len(delivered[current]) + Len(raised) = j - 1

Outcome(u, raised, n, rest) ==
  /\ Due(raised)
  /\ n \in 1..Len(wire)
  /\ \/ Completes(u, raised, n, rest)
     \/ Continues(u, raised, n, rest)
     \/ Enters(u, raised, n, rest)

LEMMA MiddleByte ==
  ASSUME Inv, wire # <<>>, synced, inside = <<>>, received + 1 < Len(wire)
  PROVE  LET step == FeedByte(parser, NextByte) IN
         step.inside = <<>> /\ Outcome(step.parser, step.raised, received + 1, <<>>)
<1> DEFINE step == FeedByte(parser, NextByte)
<1>1. PICK packed, sum : Carries(packed, sum) /\ Reads(parser, Coming, packed, sum, received)
  BY DEF Inv, Outside
<1>2. Frame(wire, Coming, packed, sum)
  BY <1>1 DEF Carries
<1>3. Coming \in Bodies /\ parser \in Parsers /\ received \in Nat /\ wire \in Seq(Byte)
  BY FramedStreamAssumption DEF Inv, Typed, Coming
<1>4. Coming.parameter \in Nat
  BY <1>3, BodyFacts
<1>5. received <= Len(packed) + 12
  <2> Len(wire) = Len(packed) + 14 /\ Len(packed) \in Nat
    BY <1>2 DEF Frame
  <2> QED BY <1>3
<1>6. NextByte = wire[received + 1]
  BY DEF NextByte
<1>7. step.raised = <<>> /\ step.inside = <<>> /\ Reads(step.parser, Coming, packed, sum, received + 1)
  BY <1>1, <1>2, <1>3, <1>4, <1>5, <1>6, Followed
<1> HIDE DEF step
<1>8. received + 1 \in 1..Len(wire)
  BY <1>3
<1>9. Outcome(step.parser, step.raised, received + 1, <<>>)
  <2>1. Continues(step.parser, step.raised, received + 1, <<>>)
    BY <1>1, <1>7 DEF Continues
  <2>2. Due(step.raised)
    BY <1>7 DEF Due
  <2> QED BY <1>8, <2>1, <2>2 DEF Outcome
<1> QED BY <1>7, <1>9 DEF step

LEMMA LastByte ==
  ASSUME Inv, wire # <<>>, synced, inside = <<>>, received + 1 = Len(wire)
  PROVE  LET step == FeedByte(parser, NextByte) IN
         Outcome(step.parser, step.raised, received + 1, step.inside)
<1> DEFINE step == FeedByte(parser, NextByte)
           m == Coming
<1>1. PICK packed, sum : Carries(packed, sum) /\ Reads(parser, m, packed, sum, received)
  BY DEF Inv, Outside
<1>2. Frame(wire, m, packed, sum)
  BY <1>1 DEF Carries
<1>3. /\ m \in Bodies /\ parser \in Parsers /\ received \in Nat /\ wire \in Seq(Byte)
      /\ current \in 1..StreamLength /\ m = sent[current]
  BY FramedStreamAssumption DEF Inv, Typed, Coming
<1>4. received = Len(packed) + 13 /\ received + 1 = Len(packed) + 14
  <2> Len(wire) = Len(packed) + 14 /\ Len(packed) \in Nat
    BY <1>2 DEF Frame
  <2> QED BY <1>3
<1>5. NextByte = wire[Len(packed) + 14]
  BY <1>4 DEF NextByte
<1> DEFINE content == DecompressBuffer(packed)
           whole == sum = Fletcher16(packed)
           shown == [type |-> m.type, parameter |-> Int32Bytes(m.parameter),
                     contentType |-> m.contentType, content |-> content]
<1>6. /\ Between(step.parser)
      /\ step.raised = IF whole /\ m.contentType # Multipart THEN <<shown>> ELSE <<>>
      /\ step.inside = IF whole /\ m.contentType = Multipart THEN content ELSE <<>>
  <2>1. Reads(parser, m, packed, sum, Len(packed) + 13)
    BY <1>1, <1>4
  <2> HIDE DEF m
  <2> QED BY <1>2, <1>3, <1>5, <2>1, Completed
<1>7. /\ received + 1 \in 1..Len(wire)
      /\ delivered[current] = <<>> /\ Len(delivered[current]) = 0
  BY <1>3 DEF Inv, Told
<1>8. whole <=> intact
  BY <1>1 DEF Carries
<1>9. intact => /\ packed = CompressBuffer(m.content)
                /\ content = m.content /\ shown = Shown(m)
  <2> SUFFICES ASSUME intact PROVE packed = CompressBuffer(m.content) /\ content = m.content /\ shown = Shown(m)
    OBVIOUS
  <2>1. packed = CompressBuffer(m.content)
    BY <1>1 DEF Carries
  <2>2. m \in Sendable /\ m.content \in Seq(Byte)
    BY <1>3, BodyFacts
  <2> HIDE DEF m
  <2>3. content = m.content
    BY <2>1, <2>2, Compressed
  <2>4. shown = Shown(m)
    BY <2>1, <2>2, ShownMessage
  <2> QED BY <2>1, <2>3, <2>4
<1>10. Gives(current) = [i \in DOMAIN Parts[m] |-> Shown(Parts[m][i])]
  BY <1>3, BodyFacts DEF Gives
<1> HIDE DEF step, content, whole, shown
<1>11. CASE ~intact
  <2>1. step.raised = <<>> /\ step.inside = <<>>
    BY <1>6, <1>8, <1>11
  <2>2. Completes(step.parser, step.raised, received + 1, step.inside)
    BY <1>6, <1>11, <2>1 DEF Completes
  <2>3. Due(step.raised)
    BY <2>1 DEF Due
  <2> QED BY <1>7, <2>2, <2>3 DEF Outcome, step
<1>12. CASE intact /\ m.contentType # Multipart
  <2>1. Parts[m] = <<m>>
    BY <1>3, <1>12, BodyFacts
  <2>2. Gives(current) = <<Shown(m)>>
    <3> HIDE DEF m
    <3> QED BY <1>10, <2>1
  <2>3. step.raised = <<Shown(m)>> /\ step.inside = <<>>
    BY <1>6, <1>8, <1>9, <1>12
  <2> DEFINE x == Shown(m)
  <2>4. Gives(current) = <<x>> /\ step.raised = <<x>>
    BY <2>2, <2>3
  <2> HIDE DEF x
  <2>5. /\ Len(step.raised) = 1 /\ Len(Gives(current)) = 1
        /\ \A i \in 1..Len(step.raised) : i \in DOMAIN Gives(current) /\ step.raised[i] = Gives(current)[i]
    BY <2>4
  <2>6. /\ \A i \in 1..Len(step.raised) :
             /\ Len(delivered[current]) + i \in DOMAIN Gives(current)
             /\ step.raised[i] = Gives(current)[Len(delivered[current]) + i]
        /\ Len(delivered[current]) + Len(step.raised) = Len(Gives(current))
    BY <1>7, <2>5
  <2>7. Completes(step.parser, step.raised, received + 1, step.inside)
    BY <1>6, <2>3, <2>6 DEF Completes
  <2>8. Due(step.raised)
    BY <2>6 DEF Due
  <2> QED BY <1>7, <2>7, <2>8 DEF Outcome, step
<1>13. CASE intact /\ m.contentType = Multipart
  <2>1. step.raised = <<>> /\ step.inside = m.content
    BY <1>6, <1>8, <1>9, <1>13
  <2>2. /\ m.content = PartsBuffer(Parts[m]) /\ Parts[m] \in Seq(Sendable)
    BY <1>3, <1>13, BodyFacts
  <2> DEFINE parts == Parts[m]
             cut == Cut(parts)
  <2>3. IsCut(cut, parts)
    BY <2>2, CutOf
  <2>4. /\ Len(parts) \in Nat /\ cut \in [0..Len(parts) -> Nat] /\ cut[0] = 0
        /\ cut[Len(parts)] = Len(m.content) /\ m.content \in Seq(Byte)
        /\ \A j \in 1..Len(parts) : cut[j] = cut[j - 1] + Len(CreateBuffer(parts[j])) /\ cut[j] <= Len(m.content)
    BY <2>2, <2>3 DEF IsCut
  <2>5. DOMAIN Gives(current) = 1..Len(parts) /\ Len(Gives(current)) = Len(parts)
    <3> HIDE DEF m
    <3> QED BY <1>10, <2>2
  <2>6. CASE Len(parts) = 0
    <3>1. m.content = <<>>
      BY <2>4, <2>6
    <3>2. Len(step.raised) = 0
      BY <2>1
    <3>3. Len(delivered[current]) + Len(step.raised) = Len(Gives(current))
      BY <1>7, <2>5, <2>6, <3>2
    <3>4. Completes(step.parser, step.raised, received + 1, step.inside)
      BY <1>6, <2>1, <3>1, <3>3 DEF Completes
    <3>5. Due(step.raised)
      BY <3>2 DEF Due
    <3> QED BY <1>7, <3>4, <3>5 DEF Outcome, step
  <2>7. CASE Len(parts) # 0
    <3>1. 1 \in 1..Len(parts) /\ parts[1] \in Sendable
      BY <2>2, <2>4, <2>7
    <3>2. Len(CreateBuffer(parts[1])) >= 14 /\ Len(CreateBuffer(parts[1])) \in Nat
      BY <3>1, BufferTypes
    <3>3. Len(m.content) >= 14
      <4>1. cut[1] = cut[0] + Len(CreateBuffer(parts[1])) /\ cut[1] <= Len(m.content)
        BY <2>4, <3>1
      <4> QED BY <2>4, <3>2, <4>1
    <3>4. m.content # <<>>
      BY <2>4, <3>3
    <3>5. InPart(step.parser, m.content, 1, 0)
      <4>1. Reads(step.parser, parts[1], CompressBuffer(parts[1].content),
                  Fletcher16(CompressBuffer(parts[1].content)), 0)
        BY <1>6 DEF Reads
      <4>2. Cut(parts)[1 - 1] + 0 = 0
        BY <2>4
      <4>3. /\ Len(m.content) = Len(PartsBuffer(parts)) - 0
            /\ \A i \in 1..Len(m.content) : m.content[i] = PartsBuffer(parts)[0 + i]
        BY <2>2, <2>4
      <4> QED BY <3>2, <4>1, <4>2, <4>3 DEF InPart
    <3>6. \E j \in 1..Len(Parts[Coming]), i \in Nat :
             InPart(step.parser, m.content, j, i) /\ Len(delivered[current]) + Len(step.raised) = j - 1
      <4> Len(delivered[current]) + Len(step.raised) = 1 - 1
        BY <1>7, <2>1
      <4> QED BY <3>1, <3>5
    <3> HIDE DEF parts
    <3>7. Enters(step.parser, step.raised, received + 1, step.inside)
      BY <1>13, <2>1, <3>4, <3>6 DEF Enters
    <3>8. Due(step.raised)
      BY <2>1 DEF Due
    <3> QED BY <1>7, <3>7, <3>8 DEF Outcome, step
  <2> QED BY <2>6, <2>7
<1> QED BY <1>11, <1>12, <1>13 DEF step

LEMMA InsideByte ==
  ASSUME Inv, synced, inside # <<>>
  PROVE  LET step == FeedByte(parser, NextByte) IN
         step.inside = <<>> /\ Outcome(step.parser, step.raised, received, Tail(inside))
<1> DEFINE step == FeedByte(parser, NextByte)
           m == Coming
           parts == Parts[m]
           cut == Cut(parts)
           content == PartsBuffer(parts)
           N == Len(parts)
<1>1. /\ intact /\ received = Len(wire) /\ m.contentType = Multipart /\ received # 0
  BY DEF Inv, Within, Unfinished
<1>2. PICK j \in 1..N, n \in Nat : InPart(parser, inside, j, n) /\ Len(delivered[current]) = j - 1
  BY DEF Inv, Within
<1>3. /\ m \in Bodies /\ parser \in Parsers /\ inside \in Seq(Byte)
      /\ current \in 1..StreamLength /\ m = sent[current] /\ received \in 1..Len(wire)
  <2>1. wire \in Seq(Byte) /\ received \in 0..Len(wire)
    BY DEF Inv, Typed
  <2>2. wire # <<>> /\ received \in 1..Len(wire)
    BY <1>1, <2>1
  <2> QED BY <2>1, <2>2, FramedStreamAssumption DEF Inv, Typed, Coming
<1>4. /\ parts \in Seq(Sendable) /\ N \in Nat
      /\ parts[j].contentType # Multipart /\ parts[j] \in Sendable
      /\ Gives(current) = [i \in DOMAIN parts |-> Shown(parts[i])]
  <2> DEFINE mm == m
  <2>0. mm \in Bodies /\ mm.contentType = Multipart /\ sent[current] = mm
    BY <1>1, <1>3
  <2> HIDE DEF mm
  <2>1. /\ Parts[mm] \in Seq(Sendable)
        /\ \A i \in 1..Len(Parts[mm]) : Parts[mm][i].contentType # Multipart
        /\ Given[mm] = [i \in DOMAIN Parts[mm] |-> Shown(Parts[mm][i])]
    BY <2>0, BodyFacts
  <2>2. parts = Parts[mm]
    BY DEF mm
  <2> HIDE DEF parts
  <2>3. /\ parts \in Seq(Sendable) /\ N \in Nat /\ parts[j].contentType # Multipart
        /\ parts[j] \in Sendable
    BY <2>1, <2>2
  <2> QED BY <2>0, <2>1, <2>2, <2>3 DEF Gives
<1>5. DOMAIN Gives(current) = 1..N /\ Len(Gives(current)) = N /\ Gives(current)[j] = Shown(parts[j])
  <2> HIDE DEF m
  <2> QED BY <1>4
<1> DEFINE part == parts[j]
           w == CreateBuffer(part)
           packed == CompressBuffer(part.content)
           sum == Fletcher16(packed)
           from == cut[j - 1] + n
<1>6. IsCut(cut, parts)
  BY <1>4, CutOf
<1>7. /\ cut \in [0..N -> Nat] /\ content \in Seq(Byte) /\ cut[N] = Len(content)
      /\ \A k \in 1..N : /\ cut[k] = cut[k - 1] + Len(CreateBuffer(parts[k]))
                         /\ cut[k] <= Len(content)
      /\ \A i \in 1..Len(w) : content[cut[j - 1] + i] = w[i]
  BY <1>6 DEF IsCut
<1>8. /\ n < Len(w) /\ Len(inside) = Len(content) - from
      /\ \A i \in 1..Len(inside) : inside[i] = content[from + i]
      /\ Reads(parser, part, packed, sum, n)
  BY <1>2 DEF InPart
<1>9. /\ Frame(w, part, packed, sum) /\ part.parameter \in Nat /\ Len(w) = Len(packed) + 14
      /\ Len(packed) \in Nat /\ Len(w) \in Nat
  <2>1. part \in Sendable
    BY <1>4
  <2> HIDE DEF part
  <2> QED BY <2>1, BufferFrame, BufferTypes DEF Sendable, ServerMessages
<1>10. /\ cut[j - 1] \in Nat /\ from \in Nat /\ Len(content) \in Nat /\ Len(inside) \in Nat
       /\ cut[j] = cut[j - 1] + Len(w) /\ cut[j] <= Len(content)
  <2>1. j - 1 \in 0..N
    BY <1>4
  <2>2. cut[j - 1] \in Nat /\ cut[j] = cut[j - 1] + Len(w) /\ cut[j] <= Len(content)
    <3> HIDE DEF cut, content
    <3> QED BY <1>7, <2>1
  <2>3. Len(content) \in Nat /\ Len(inside) \in Nat
    <3> HIDE DEF content
    <3> QED BY <1>3, <1>7
  <2>4. from \in Nat
    <3> HIDE DEF cut
    <3> QED BY <2>2
  <2> QED BY <2>2, <2>3, <2>4
<1>11. NextByte = w[n + 1] /\ n + 1 \in 1..Len(w)
  <2>1. n + 1 \in 1..Len(w)
    BY <1>8, <1>9
  <2>2. NextByte = inside[1] /\ 1 \in 1..Len(inside)
    BY <1>3 DEF NextByte
  <2>3. inside[1] = content[from + 1]
    BY <1>8, <2>2
  <2>4. content[cut[j - 1] + (n + 1)] = w[n + 1]
    BY <1>7, <2>1
  <2>5. cut[j - 1] + (n + 1) = from + 1
    <3> HIDE DEF cut, content
    <3> QED BY <1>10
  <2> QED BY <2>1, <2>2, <2>3, <2>4, <2>5
<1> DEFINE rest == Tail(inside)
<1>12. /\ rest \in Seq(Byte) /\ Len(rest) = Len(inside) - 1
       /\ \A i \in 1..Len(rest) : rest[i] = inside[i + 1]
       /\ (rest = <<>> <=> Len(inside) = 1)
  <2>1. /\ rest \in Seq(Byte) /\ Len(rest) = Len(inside) - 1
        /\ \A i \in 1..Len(rest) : rest[i] = inside[i + 1]
    BY <1>3, HeadTailProperties
  <2> HIDE DEF rest
  <2>2. rest = <<>> <=> Len(rest) = 0
    BY <2>1
  <2> QED BY <1>10, <2>1, <2>2
<1>13. \A i \in 1..Len(rest) : rest[i] = content[(from + 1) + i]
  <2> SUFFICES ASSUME NEW i \in 1..Len(rest) PROVE rest[i] = content[(from + 1) + i]
    OBVIOUS
  <2>1. rest[i] = inside[i + 1] /\ i + 1 \in 1..Len(inside)
    BY <1>10, <1>12
  <2>2. inside[i + 1] = content[from + (i + 1)]
    BY <1>8, <2>1
  <2>3. from + (i + 1) = (from + 1) + i
    <3>1. from \in Nat /\ i \in Nat
      BY <1>10, <1>12
    <3> HIDE DEF from
    <3> QED BY <3>1
  <2> QED BY <2>1, <2>2, <2>3
<1> HIDE DEF step, rest
<1>14. CASE n + 1 < Len(w)
  <2>1. /\ step.raised = <<>> /\ step.inside = <<>>
        /\ Reads(step.parser, part, packed, sum, n + 1)
    <3> n <= Len(packed) + 12
      BY <1>9, <1>14
    <3> HIDE DEF part, packed, sum, w, from
    <3> QED BY <1>3, <1>8, <1>9, <1>11, Followed DEF step
  <2>2. Len(inside) > 1 /\ rest # <<>>
    <3> DEFINE start == cut[j - 1]
               size == Len(w)
               whole == Len(content)
               left == Len(inside)
    <3>1. start \in Nat /\ size \in Nat /\ whole \in Nat /\ left \in Nat
      BY <1>9, <1>10
    <3>2. start + size <= whole
      <4> HIDE DEF w, content, cut
      <4> QED BY <1>10
    <3>3. left = whole - (start + n)
      BY <1>8
    <3>4. n + 1 < size
      BY <1>14
    <3> HIDE DEF start, size, whole, left
    <3>5. left > 1
      BY <3>1, <3>2, <3>3, <3>4
    <3> QED BY <1>12, <3>5 DEF left
  <2>3. InPart(step.parser, rest, j, n + 1)
    <3>1. cut[j - 1] + (n + 1) = from + 1 /\ Len(rest) = Len(content) - (from + 1)
      <4> HIDE DEF content, cut
      <4> QED BY <1>8, <1>10, <1>12
    <3> QED BY <1>13, <1>14, <2>1, <3>1 DEF InPart
  <2>4. Enters(step.parser, step.raised, received, rest)
    <3>1. Len(step.raised) = 0 /\ Len(delivered[current]) + 0 = j - 1 /\ n + 1 \in Nat
      BY <1>2, <2>1
    <3>2. \E l \in 1..Len(Parts[Coming]), i \in Nat :
             InPart(step.parser, rest, l, i) /\ Len(delivered[current]) + Len(step.raised) = l - 1
      BY <2>3, <3>1
    <3> QED BY <1>1, <2>1, <2>2, <3>2 DEF Enters
  <2>5. Due(step.raised)
    BY <2>1 DEF Due
  <2> QED BY <1>3, <2>1, <2>4, <2>5 DEF Outcome, step, rest
<1>15. CASE ~(n + 1 < Len(w))
  <2>1. n + 1 = Len(w) /\ n = Len(packed) + 13 /\ n + 1 = Len(packed) + 14 /\ cut[j] = from + 1
    <3>1. n + 1 = Len(w)
      <4> HIDE DEF w
      <4> QED BY <1>8, <1>9, <1>15
    <3> DEFINE x == cut[j - 1]
    <3>2. x \in Nat /\ cut[j] = x + Len(w) /\ from = x + n
      BY <1>10
    <3> HIDE DEF w, cut, from, x, packed
    <3> QED BY <1>9, <3>1, <3>2
  <2>2. /\ Between(step.parser) /\ step.inside = <<>> /\ step.raised = <<Shown(part)>>
    <3>1. part \in Sendable /\ part.contentType # Multipart
      BY <1>4
    <3>2. Reads(parser, part, packed, sum, Len(packed) + 13) /\ NextByte = w[Len(packed) + 14]
      BY <1>8, <1>11, <2>1
    <3>3. /\ Between(step.parser) /\ step.inside = <<>>
          /\ step.raised = <<[type |-> part.type, parameter |-> Int32Bytes(part.parameter),
                              contentType |-> part.contentType, content |-> DecompressBuffer(packed)]>>
      <4> HIDE DEF part, packed, w
      <4> QED BY <1>3, <1>9, <3>1, <3>2, Completed DEF step
    <3>4. Shown(part) = [type |-> part.type, parameter |-> Int32Bytes(part.parameter),
                         contentType |-> part.contentType, content |-> DecompressBuffer(packed)]
      <4> HIDE DEF part
      <4> QED BY <3>1, ShownMessage
    <3> QED BY <3>3, <3>4
  <2>3. Due(step.raised) /\ Len(delivered[current]) + Len(step.raised) = j
    <3> DEFINE x == Shown(part)
    <3>1. step.raised = <<x>> /\ Gives(current)[j] = x
      BY <1>5, <2>2
    <3> HIDE DEF x
    <3>2. Len(step.raised) = 1 /\ step.raised[1] = Gives(current)[j]
      BY <3>1
    <3>3. Len(delivered[current]) + 1 = j /\ j \in DOMAIN Gives(current)
      BY <1>2, <1>5
    <3> QED BY <3>2, <3>3 DEF Due
  <2>4. CASE rest = <<>>
    <3>1. Len(content) = cut[j]
      <4>1. Len(inside) = 1
        BY <1>12, <2>4
      <4>2. Len(content) \in Nat /\ from \in Nat /\ cut[j] = from + 1 /\ Len(inside) = Len(content) - from
        BY <1>8, <1>10, <2>1
      <4> DEFINE x == Len(content)
                 y == cut[j]
                 z == Len(inside)
      <4>3. z = 1 /\ x \in Nat /\ from \in Nat /\ y = from + 1 /\ z = x - from
        BY <4>1, <4>2
      <4> HIDE DEF x, y, z, from
      <4>4. x = y
        BY <4>3
      <4> QED BY <4>4 DEF x, y
    <3>2. j = N
      <4> SUFFICES ASSUME j # N PROVE FALSE
        OBVIOUS
      <4>1. j + 1 \in 1..N /\ (j + 1) - 1 = j
        BY <1>4
      <4>2. cut[j + 1] = cut[(j + 1) - 1] + Len(CreateBuffer(parts[j + 1])) /\ cut[j + 1] <= Len(content)
        BY <1>7, <4>1
      <4>3. Len(CreateBuffer(parts[j + 1])) >= 14 /\ Len(CreateBuffer(parts[j + 1])) \in Nat
        <5> parts[j + 1] \in Sendable
          BY <1>4, <4>1
        <5> QED BY BufferTypes
      <4> HIDE DEF cut, content
      <4> QED BY <1>10, <3>1, <4>1, <4>2, <4>3
    <3>3. Completes(step.parser, step.raised, received, rest)
      BY <1>1, <1>5, <2>2, <2>3, <2>4, <3>2 DEF Completes
    <3> QED BY <1>3, <2>2, <2>3, <3>3 DEF Outcome, step, rest
  <2>5. CASE rest # <<>>
    <3>1. Len(inside) > 1 /\ cut[j] < Len(content)
      <4> HIDE DEF cut, content
      <4> QED BY <1>8, <1>10, <1>12, <2>1, <2>5
    <3>2. j + 1 \in 1..N
      <4> j # N
        BY <1>7, <3>1
      <4> QED BY <1>4
    <3>3. Len(CreateBuffer(parts[j + 1])) >= 14 /\ Len(CreateBuffer(parts[j + 1])) \in Nat
      <4> parts[j + 1] \in Sendable
        BY <1>4, <3>2
      <4> QED BY BufferTypes
    <3>4. InPart(step.parser, rest, j + 1, 0)
      <4>1. (j + 1) - 1 = j /\ cut[j] + 0 = from + 1 /\ Len(rest) = Len(content) - (from + 1)
        <5> HIDE DEF cut, content
        <5> QED BY <1>8, <1>10, <1>12, <2>1
      <4>2. Reads(step.parser, parts[j + 1], CompressBuffer(parts[j + 1].content),
                  Fletcher16(CompressBuffer(parts[j + 1].content)), 0)
        BY <2>2 DEF Reads
      <4> HIDE DEF from
      <4> QED BY <1>13, <3>3, <4>1, <4>2 DEF InPart
    <3>5. Enters(step.parser, step.raised, received, rest)
      <4>1. Len(delivered[current]) + Len(step.raised) = (j + 1) - 1
        <5> j = (j + 1) - 1
          BY <1>4
        <5> QED BY <2>3
      <4>2. \E l \in 1..Len(Parts[Coming]), i \in Nat :
               InPart(step.parser, rest, l, i) /\ Len(delivered[current]) + Len(step.raised) = l - 1
        BY <3>2, <3>4, <4>1
      <4> QED BY <1>1, <2>5, <3>1, <4>2 DEF Enters
    <3> QED BY <1>3, <2>2, <2>3, <3>5 DEF Outcome, step, rest
  <2> QED BY <2>4, <2>5
<1> QED BY <1>14, <1>15

(* The next message begins.                                                *)
LEMMA Begins ==
  ASSUME Inv, wire # <<>>, NextMessage, sent' = sent
  PROVE  /\ current \in 1..StreamLength /\ current' = current + 1
         /\ current' \in 1..(StreamLength + 1)
         /\ wire' \in Seq(Byte) /\ (wire' # <<>> <=> current' <= StreamLength)
         /\ received' = 0 /\ inside' = <<>> /\ intact' = TRUE
         /\ wire' # <<>> => \E packed, sum : Carries(packed, sum)'
<1>1. /\ current' = current + 1 /\ wire' = Wire(current + 1)
      /\ received' = 0 /\ inside' = <<>> /\ intact' = TRUE
  BY DEF NextMessage
<1>2. /\ StreamLength \in Nat /\ current \in 1..StreamLength /\ sent \in [1..StreamLength -> Bodies]
      /\ current' \in 1..(StreamLength + 1)
  BY <1>1, FramedStreamAssumption DEF Inv, Typed
<1>3. CASE current' <= StreamLength
  <2> DEFINE m == sent[current']
             packed == CompressBuffer(m.content)
             sum == Fletcher16(packed)
  <2>1. current + 1 \in DOMAIN sent /\ m \in Bodies /\ current' = current + 1
    BY <1>1, <1>2, <1>3
  <2>2. wire' = Encoded[m]
    BY <1>1, <2>1 DEF Wire
  <2>3. m \in Sendable /\ Encoded[m] = CreateBuffer(m)
    <3> HIDE DEF m
    <3> QED BY <2>1, BodyFacts
  <2>4. Frame(wire', m, packed, sum) /\ wire' \in Seq(Byte) /\ Len(wire') >= 14
    <3> HIDE DEF m
    <3> QED BY <2>2, <2>3, BufferFrame, BufferTypes
  <2>5. wire' # <<>>
    BY <2>4
  <2>6. PICK P, S : P = packed /\ S = sum
    OBVIOUS
  <2>7. Carries(P, S)'
    BY <1>1, <2>4, <2>6 DEF Carries, Coming
  <2>8. \E P1, S1 : Carries(P1, S1)'
    BY <2>7
  <2> HIDE DEF m, packed, sum
  <2> QED BY <1>1, <1>2, <1>3, <2>4, <2>5, <2>8
<1>4. CASE ~(current' <= StreamLength)
  <2>1. current + 1 \notin DOMAIN sent
    BY <1>1, <1>2, <1>4
  <2>2. wire' = <<>>
    BY <1>1, <2>1 DEF Wire
  <2>3. wire' \in Seq(Byte) /\ (wire' # <<>> <=> current' <= StreamLength)
    BY <1>4, <2>2
  <2>4. wire' # <<>> => \E packed, sum : Carries(packed, sum)'
    BY <2>2
  <2> QED BY <1>1, <1>2, <2>3, <2>4
<1> QED BY <1>3, <1>4

LEMMA Moved ==
  ASSUME Inv, wire # <<>>, NextMessage, sent' = sent,
         synced' => Between(parser'),
         \A k \in 1..StreamLength : k > current => delivered'[k] = delivered[k],
         arrived' \subseteq arrived \cup {current}
  PROVE  Unfinished' /\ Outside' /\ Within' /\ Ready' /\ Told'
<1>1. /\ current \in 1..StreamLength /\ current' = current + 1
      /\ current' \in 1..(StreamLength + 1)
      /\ wire' \in Seq(Byte)
      /\ received' = 0 /\ inside' = <<>> /\ intact' = TRUE
      /\ wire' # <<>> => \E packed, sum : Carries(packed, sum)'
  BY Begins
<1>2. StreamLength \in Nat
  BY FramedStreamAssumption
<1>3. Unfinished'
  <2>1. wire' # <<>> => 0 < Len(wire')
    BY <1>1
  <2> QED BY <1>1, <2>1 DEF Unfinished
<1>4. Ready'
  BY DEF Ready
<1>5. Within'
  BY <1>1 DEF Within
<1>6. Outside'
  <2> SUFFICES ASSUME wire' # <<>>
               PROVE  \E packed, sum : /\ Carries(packed, sum)'
                                       /\ synced' => Reads(parser, Coming, packed, sum, received)'
    BY DEF Outside
  <2>1. PICK packed, sum : Carries(packed, sum)'
    BY <1>1
  <2>2. synced' => Reads(parser, Coming, packed, sum, received)'
    BY <1>1 DEF Reads
  <2> QED BY <2>1, <2>2
<1>7. Told'
  <2>1. \A k \in 1..StreamLength : k > current => delivered'[k] = <<>>
    BY DEF Inv, Told
  <2>2. \A k \in 1..StreamLength : k > current' \/ k = current' => k > current
    BY <1>1
  <2>3. current' <= StreamLength => delivered'[current'] = <<>>
    BY <1>1, <1>2, <2>1
  <2>4. arrived' \subseteq 1..(current' - 1)
    <3>1. arrived \subseteq 1..(current - 1)
      BY DEF Inv, Told
    <3> QED BY <1>1, <3>1
  <2>5. current' <= StreamLength => Exact(delivered'[current'], Gives(current)')
    BY <2>3 DEF Exact
  <2> QED BY <2>1, <2>2, <2>3, <2>4, <2>5 DEF Told
<1> QED BY <1>3, <1>4, <1>5, <1>6, <1>7

(* What is delivered, when it is what comes next.                          *)
LEMMA Telling ==
  ASSUME Inv, wire # <<>>, NEW raised \in Seq(Raised), Raise(raised), sent' = sent,
         synced => Due(raised)
  PROVE  /\ delivered' \in [1..StreamLength -> Seq(Deliveries)]
         /\ \A k \in 1..StreamLength : k # current => delivered'[k] = delivered[k]
         /\ Len(delivered'[current]) = Len(delivered[current]) + Len(raised)
         /\ raised = <<>> => delivered'[current] = delivered[current]
         /\ synced => Exact(delivered'[current], Gives(current))
         /\ \A k \in arrived : Messages(delivered'[k]) = Gives(k)
         /\ (synced /\ Len(delivered'[current]) = Len(Gives(current)))
               => Messages(delivered'[current]) = Gives(current)
         /\ NothingInvented'
<1> DEFINE now == delivered[current]
           new == [i \in DOMAIN raised |-> [message |-> raised[i], inStep |-> synced]]
           then == delivered'[current]
           given == Gives(current)
<1>1. /\ StreamLength \in Nat /\ current \in 1..StreamLength /\ sent \in [1..StreamLength -> Bodies]
      /\ delivered \in [1..StreamLength -> Seq(Deliveries)] /\ synced \in BOOLEAN
      /\ arrived \subseteq 1..StreamLength
  BY FramedStreamAssumption DEF Inv, Typed
<1>2. /\ new \in Seq(Deliveries) /\ Len(new) = Len(raised)
      /\ \A i \in 1..Len(raised) : new[i] = [message |-> raised[i], inStep |-> synced]
  <2>1. \A i \in 1..Len(raised) : [message |-> raised[i], inStep |-> synced] \in Deliveries
    <3>1. \A i \in 1..Len(raised) : raised[i] \in Raised
      OBVIOUS
    <3> QED BY <1>1, <3>1 DEF Raised, Deliveries
  <2> HIDE DEF now, then, given
  <2> QED BY <2>1
<1>3. delivered' = [delivered EXCEPT ![current] = now \o new]
  BY DEF Raise
<1> HIDE DEF new
<1>4. then = now \o new /\ \A k \in 1..StreamLength : k # current => delivered'[k] = delivered[k]
  BY <1>1, <1>3
<1>5. /\ now \in Seq(Deliveries) /\ then \in Seq(Deliveries)
      /\ Len(then) = Len(now) + Len(raised)
      /\ \A i \in 1..Len(now) : then[i] = now[i]
      /\ \A i \in 1..Len(raised) : then[Len(now) + i] = new[i]
  <2>1. now \in Seq(Deliveries)
    BY <1>1
  <2>2. then = now \o new
    BY <1>4
  <2> HIDE DEF now, then
  <2>3. /\ then \in Seq(Deliveries) /\ Len(then) = Len(now) + Len(new)
        /\ \A i \in 1..Len(now) + Len(new) : then[i] = IF i <= Len(now) THEN now[i] ELSE new[i - Len(now)]
    <3>1. /\ now \o new \in Seq(Deliveries) /\ Len(now \o new) = Len(now) + Len(new)
          /\ \A i \in 1..Len(now) + Len(new) :
               (now \o new)[i] = IF i <= Len(now) THEN now[i] ELSE new[i - Len(now)]
      <4> new \in Seq(Deliveries)
        BY <1>2
      <4> QED BY <2>1, ConcatProperties
    <3> QED BY <2>2, <3>1, Zenon
  <2>4. Len(now) \in Nat /\ Len(new) \in Nat
    BY <1>2, <2>1
  <2> DEFINE x == Len(now)
             y == Len(new)
  <2>5. /\ x \in Nat /\ y \in Nat
        /\ \A i \in 1..(x + y) : then[i] = IF i <= x THEN now[i] ELSE new[i - x]
    BY <2>3, <2>4
  <2> HIDE DEF x, y
  <2>6. (\A i \in 1..x : then[i] = now[i]) /\ \A i \in 1..y : then[x + i] = new[i]
    BY <2>5
  <2> QED BY <1>2, <2>1, <2>3, <2>6 DEF x, y
<1>6. delivered' \in [1..StreamLength -> Seq(Deliveries)]
  <2>1. now \o new \in Seq(Deliveries)
    BY <1>4, <1>5
  <2> HIDE DEF now
  <2> QED BY <1>1, <1>3, <2>1
<1>7. raised = <<>> => then = now
  <2> SUFFICES ASSUME raised = <<>> PROVE then = now
    OBVIOUS
  <2>1. Len(raised) = 0
    OBVIOUS
  <2> HIDE DEF now, then
  <2>2. Len(then) = Len(now) /\ \A i \in 1..Len(then) : then[i] = now[i]
    BY <1>5, <2>1
  <2> QED BY <1>5, <2>2, SeqEqual
<1>8. Len(now) \in Nat /\ Len(raised) \in Nat /\ DOMAIN then = 1..(Len(now) + Len(raised)) /\ DOMAIN now = 1..Len(now)
  <2> HIDE DEF now, then
  <2> QED BY <1>5
<1>9. \A i \in DOMAIN then : i \in 1..Len(now) \/ (i - Len(now) \in 1..Len(raised) /\ i = Len(now) + (i - Len(now)))
  <2> DEFINE x == Len(now)
             y == Len(raised)
  <2>1. x \in Nat /\ y \in Nat /\ DOMAIN then = 1..(x + y)
    BY <1>8
  <2> HIDE DEF x, y, then
  <2>2. \A i \in DOMAIN then : i \in 1..x \/ (i - x \in 1..y /\ i = x + (i - x))
    BY <2>1
  <2> QED BY <2>2 DEF x, y
<1>10. synced => Exact(then, given)
  <2> SUFFICES ASSUME synced PROVE Exact(then, given)
    OBVIOUS
  <2>1. Exact(now, given)
    BY <1>1 DEF Inv, Told
  <2>2. Due(raised)
    OBVIOUS
  <2>3. ASSUME NEW i \in DOMAIN then PROVE i \in DOMAIN given /\ then[i].message = given[i]
    <3>1. CASE i \in 1..Len(now)
      <4> then[i] = now[i] /\ i \in DOMAIN now
        BY <1>5, <1>8, <3>1
      <4> HIDE DEF now, then, given
      <4> QED BY <2>1 DEF Exact
    <3>2. CASE i - Len(now) \in 1..Len(raised) /\ i = Len(now) + (i - Len(now))
      <4> DEFINE l == i - Len(now)
      <4>1. l \in 1..Len(raised) /\ i = Len(now) + l
        BY <3>2
      <4> HIDE DEF l
      <4>2. then[i] = new[l] /\ new[l] = [message |-> raised[l], inStep |-> synced]
        BY <1>2, <1>5, <4>1
      <4>3. i \in DOMAIN given /\ raised[l] = given[i]
        BY <2>2, <4>1 DEF Due
      <4> QED BY <4>2, <4>3
    <3> QED BY <1>9, <3>1, <3>2
  <2> HIDE DEF then, given
  <2> QED BY <2>3 DEF Exact
<1>11. \A k \in arrived : Messages(delivered'[k]) = Gives(k)
  <2> SUFFICES ASSUME NEW k \in arrived PROVE Messages(delivered'[k]) = Gives(k)
    OBVIOUS
  <2>1. k \in 1..StreamLength /\ k # current
    BY <1>1 DEF Inv, Told
  <2>2. delivered'[k] = delivered[k]
    BY <1>4, <2>1
  <2> QED BY <2>2 DEF Inv, WholeDelivered
<1>12. (synced /\ Len(then) = Len(given)) => Messages(then) = given
  <2> SUFFICES ASSUME synced, Len(then) = Len(given) PROVE Messages(then) = given
    OBVIOUS
  <2>1. /\ given = [i \in DOMAIN Parts[sent[current]] |-> Shown(Parts[sent[current]][i])]
        /\ Parts[sent[current]] \in Seq(Sendable)
    <3>1. sent[current] \in Bodies
      BY <1>1
    <3> QED BY <3>1, BodyFacts DEF Gives
  <2>2. DOMAIN given = 1..Len(given) /\ given = [i \in 1..Len(given) |-> given[i]]
    <3> DEFINE parts == Parts[sent[current]]
    <3> HIDE DEF parts, given
    <3> QED BY <2>1 DEF parts
  <2>3. DOMAIN then = 1..Len(then)
    <3> HIDE DEF then
    <3> QED BY <1>5
  <2>4. \A i \in DOMAIN then : then[i].message = given[i]
    BY <1>10 DEF Exact
  <2> HIDE DEF then, given
  <2> QED BY <2>2, <2>3, <2>4 DEF Messages
<1>13. NothingInvented'
  <2> SUFFICES ASSUME NEW k \in 1..StreamLength, NEW i \in DOMAIN delivered'[k], delivered'[k][i].inStep
               PROVE  i \in DOMAIN Gives(k)' /\ delivered'[k][i].message = Gives(k)'[i]
    BY DEF NothingInvented
  <2>1. Gives(k)' = Gives(k)
    BY DEF Gives
  <2>2. CASE k # current
    <3> delivered'[k] = delivered[k]
      BY <1>4, <2>2
    <3> QED BY <2>1 DEF Inv, NothingInvented
  <2>3. CASE k = current
    <3>0. i \in DOMAIN then /\ then[i].inStep
      BY <2>3
    <3>1. CASE synced
      <4> i \in DOMAIN given /\ then[i].message = given[i]
        BY <1>10, <3>0, <3>1 DEF Exact
      <4> QED BY <2>1, <2>3
    <3>2. CASE ~synced
      <4>1. CASE i \in 1..Len(now)
        <5>1. then[i] = now[i] /\ i \in DOMAIN now
          BY <1>5, <1>8, <4>1
        <5>2. now[i].inStep
          BY <3>0, <5>1
        <5>3. i \in DOMAIN given /\ now[i].message = given[i]
          BY <1>1, <5>1, <5>2 DEF Inv, NothingInvented
        <5> QED BY <2>1, <2>3, <5>1, <5>3
      <4>2. CASE i - Len(now) \in 1..Len(raised) /\ i = Len(now) + (i - Len(now))
        <5> DEFINE l == i - Len(now)
        <5>1. l \in 1..Len(raised) /\ i = Len(now) + l
          BY <4>2
        <5> HIDE DEF l
        <5>2. then[i] = new[l] /\ new[l] = [message |-> raised[l], inStep |-> synced]
          BY <1>2, <1>5, <5>1
        <5>3. then[i].inStep = synced
          BY <5>2
        <5> QED BY <3>0, <3>2, <5>3
      <4> QED BY <1>9, <3>0, <4>1, <4>2
    <3> QED BY <3>1, <3>2
  <2> QED BY <2>2, <2>3
<1> QED BY <1>4, <1>5, <1>6, <1>7, <1>10, <1>11, <1>12, <1>13

LEMMA Kept ==
  ASSUME Inv, delivered' = delivered, sent' = sent, arrived' = arrived
  PROVE  NothingInvented' /\ WholeDelivered'
<1>1. \A k : Gives(k)' = Gives(k)
  BY DEF Gives
<1>2. NothingInvented'
  <2> SUFFICES ASSUME NEW k \in 1..StreamLength, NEW i \in DOMAIN delivered[k], delivered[k][i].inStep
               PROVE  i \in DOMAIN Gives(k)' /\ delivered[k][i].message = Gives(k)'[i]
    BY DEF NothingInvented
  <2> QED BY <1>1 DEF Inv, NothingInvented
<1>3. WholeDelivered'
  <2> SUFFICES ASSUME NEW k \in arrived PROVE Messages(delivered[k]) = Gives(k)'
    BY DEF WholeDelivered
  <2> QED BY <1>1 DEF Inv, WholeDelivered
<1> QED BY <1>2, <1>3

(* The byte that is fed.                                                   *)
LEMMA ByteFed ==
  ASSUME Inv, wire # <<>>
  PROVE  LET step == FeedByte(parser, NextByte)
             n    == IF inside = <<>> THEN received + 1 ELSE received
             rest == IF inside = <<>> THEN step.inside ELSE step.inside \o Tail(inside)
         IN /\ step.parser \in Parsers /\ step.raised \in Seq(Raised)
            /\ n \in 1..Len(wire) /\ rest \in Seq(Byte)
            /\ synced => Outcome(step.parser, step.raised, n, rest)
<1> DEFINE step == FeedByte(parser, NextByte)
<1>1. /\ wire \in Seq(Byte) /\ received \in 0..Len(wire) /\ inside \in Seq(Byte) /\ parser \in Parsers
  BY DEF Inv, Typed
<1>2. IF inside = <<>> THEN received + 1 \in 1..Len(wire) ELSE received \in 1..Len(wire)
  BY <1>1 DEF Inv, Unfinished
<1>3. NextByte \in Byte
  BY <1>1, <1>2 DEF NextByte
<1>4. step.parser \in Parsers /\ step.raised \in Seq(Raised) /\ step.inside \in Seq(Byte)
  BY <1>1, <1>3, FeedTypes
<1> HIDE DEF step
<1>5. CASE inside = <<>>
  <2>1. synced => Outcome(step.parser, step.raised, received + 1, step.inside)
    <3>1. CASE synced /\ received + 1 < Len(wire)
      BY <1>5, <3>1, MiddleByte DEF step
    <3>2. CASE synced /\ received + 1 = Len(wire)
      BY <1>5, <3>2, LastByte DEF step
    <3>3. received + 1 < Len(wire) \/ received + 1 = Len(wire)
      BY <1>1, <1>2, <1>5
    <3> QED BY <3>1, <3>2, <3>3
  <2> QED BY <1>2, <1>4, <1>5, <2>1 DEF step
<1>6. CASE inside # <<>>
  <2>1. Tail(inside) \in Seq(Byte)
    BY <1>1, <1>6
  <2>2. step.inside \o Tail(inside) \in Seq(Byte)
    BY <1>4, <2>1
  <2>3. synced => Outcome(step.parser, step.raised, received, step.inside \o Tail(inside))
    <3> SUFFICES ASSUME synced PROVE Outcome(step.parser, step.raised, received, step.inside \o Tail(inside))
      OBVIOUS
    <3>1. step.inside = <<>> /\ Outcome(step.parser, step.raised, received, Tail(inside))
      BY <1>6, InsideByte DEF step
    <3>2. <<>> \o Tail(inside) = Tail(inside)
      BY <2>1
    <3> QED BY <3>1, <3>2
  <2> QED BY <1>2, <1>4, <1>6, <2>2, <2>3 DEF step
<1> QED BY <1>5, <1>6

LEMMA FeedNextKeeps ==
  ASSUME Inv, FeedNext
  PROVE  Inv'
<1> DEFINE step == FeedByte(parser, NextByte)
           u == step.parser
           raised == step.raised
           n == IF inside = <<>> THEN received + 1 ELSE received
           rest == IF inside = <<>> THEN step.inside ELSE step.inside \o Tail(inside)
<1>1. /\ wire # <<>> /\ parser' = u /\ Raise(raised) /\ FedUpTo(n, rest, intact)
      /\ shared' = shared /\ sent' = sent /\ synced' = synced /\ faults' = faults
      /\ arrived' = IF current' # current /\ intact /\ synced
                    THEN arrived \cup {current} ELSE arrived
  BY DEF FeedNext
<1>2. /\ u \in Parsers /\ raised \in Seq(Raised) /\ n \in 1..Len(wire) /\ rest \in Seq(Byte)
      /\ synced => Outcome(u, raised, n, rest)
  BY <1>1, ByteFed
<1> HIDE DEF step, u, raised, n, rest
<1>3. synced => Due(raised)
  BY <1>2 DEF Outcome
<1>4. /\ delivered' \in [1..StreamLength -> Seq(Deliveries)]
      /\ \A k \in 1..StreamLength : k # current => delivered'[k] = delivered[k]
      /\ Len(delivered'[current]) = Len(delivered[current]) + Len(raised)
      /\ raised = <<>> => delivered'[current] = delivered[current]
      /\ synced => Exact(delivered'[current], Gives(current))
      /\ \A k \in arrived : Messages(delivered'[k]) = Gives(k)
      /\ (synced /\ Len(delivered'[current]) = Len(Gives(current)))
            => Messages(delivered'[current]) = Gives(current)
      /\ NothingInvented'
  BY <1>1, <1>2, <1>3, Telling
<1>5. \A k : Gives(k)' = Gives(k)
  BY <1>1 DEF Gives
<1>6. /\ StreamLength \in Nat /\ current \in 1..StreamLength /\ Typed /\ wire \in Seq(Byte)
      /\ Len(wire) \in Nat
  BY <1>1, FramedStreamAssumption DEF Inv, Typed
<1>7. CASE n = Len(wire) /\ rest = <<>>
  <2>1. NextMessage
    BY <1>1, <1>7 DEF FedUpTo
  <2>2. /\ current' = current + 1
        /\ current' \in 1..(StreamLength + 1)
        /\ wire' \in Seq(Byte) /\ (wire' # <<>> <=> current' <= StreamLength)
        /\ received' = 0 /\ inside' = <<>> /\ intact' = TRUE
    BY <1>1, <2>1, Begins
  <2>3. synced => Completes(u, raised, n, rest)
    BY <1>2, <1>6, <1>7 DEF Outcome, Continues, Enters
  <2>4. synced' => Between(parser')
    BY <1>1, <2>3 DEF Completes
  <2>5. Unfinished' /\ Outside' /\ Within' /\ Ready' /\ Told'
    <3>1. \A k \in 1..StreamLength : k > current => delivered'[k] = delivered[k]
      BY <1>4, <1>6
    <3>2. arrived' \subseteq arrived \cup {current}
      BY <1>1
    <3> QED BY <1>1, <2>1, <2>4, <3>1, <3>2, Moved
  <2>6. WholeDelivered'
    <3> SUFFICES ASSUME NEW k \in arrived' PROVE Messages(delivered'[k]) = Gives(k)'
      BY DEF WholeDelivered
    <3>1. CASE k \in arrived
      BY <1>4, <1>5, <3>1
    <3>2. CASE k \notin arrived
      <4>1. k = current /\ intact /\ synced
        BY <1>1, <3>2
      <4>2. Len(delivered'[current]) = Len(Gives(current))
        BY <1>4, <2>3, <4>1 DEF Completes
      <4> QED BY <1>4, <1>5, <4>1, <4>2
    <3> QED BY <3>1, <3>2
  <2>7. Typed'
    <3>1. arrived' \subseteq 1..StreamLength /\ 0 \in 0..Len(wire')
      BY <1>1, <1>6, <2>2 DEF Typed
    <3>2. /\ shared' \in BOOLEAN /\ synced' \in BOOLEAN /\ faults' \in 0..MaxFaults
          /\ sent' \in [1..StreamLength -> Bodies] /\ parser' \in Parsers
      BY <1>1, <1>2, <1>6 DEF Typed
    <3>3. received' \in 0..Len(wire') /\ inside' \in Seq(Byte) /\ intact' \in BOOLEAN
      BY <2>2, <3>1
    <3> QED BY <1>4, <2>2, <3>1, <3>2, <3>3 DEF Typed
  <2> QED BY <1>4, <2>5, <2>6, <2>7 DEF Inv
<1>8. CASE ~(n = Len(wire) /\ rest = <<>>)
  <2>1. /\ received' = n /\ inside' = rest /\ intact' = intact
        /\ current' = current /\ wire' = wire
    BY <1>1, <1>8 DEF FedUpTo
  <2>2. arrived' = arrived
    BY <1>1, <2>1
  <2>3. Coming' = Coming
    BY <1>1, <2>1 DEF Coming
  <2>4. synced => Continues(u, raised, n, rest) \/ Enters(u, raised, n, rest)
    BY <1>2, <1>8 DEF Outcome, Completes
  <2>5. Typed'
    BY <1>1, <1>2, <1>4, <1>6, <2>1, <2>2 DEF Typed
  <2>6. Unfinished'
    <3>1. rest = <<>> => n < Len(wire)
      BY <1>2, <1>6, <1>8
    <3>2. n > 0
      BY <1>2, <1>6
    <3> QED BY <2>1, <3>1, <3>2 DEF Unfinished
  <2>7. Outside'
    <3> SUFFICES ASSUME inside' = <<>>, synced' \/ received' = 0
                 PROVE  \E packed, sum : /\ Carries(packed, sum)'
                                         /\ synced' => Reads(parser, Coming, packed, sum, received)'
      BY DEF Outside
    <3>1. synced /\ rest = <<>>
      BY <1>1, <1>2, <1>6, <2>1
    <3>2. Continues(u, raised, n, rest)
      BY <2>4, <3>1 DEF Enters
    <3>3. PICK packed, sum : Carries(packed, sum) /\ Reads(u, Coming, packed, sum, n)
      BY <3>2 DEF Continues
    <3>4. Carries(packed, sum)'
      BY <2>1, <2>3, <3>3 DEF Carries
    <3>5. Reads(parser, Coming, packed, sum, received)'
      BY <1>1, <2>1, <2>3, <3>3
    <3> QED BY <3>4, <3>5
  <2>8. Within'
    <3> SUFFICES ASSUME synced', inside' # <<>>
                 PROVE  /\ intact' /\ received' = Len(wire') /\ Coming'.contentType = Multipart
                        /\ \E j \in 1..Len(Parts[Coming']), i \in Nat :
                             InPart(parser, inside, j, i)' /\ Len(delivered'[current']) = j - 1
      BY DEF Within
    <3>1. Enters(u, raised, n, rest)
      BY <1>1, <2>1, <2>4 DEF Continues
    <3>2. PICK j \in 1..Len(Parts[Coming]), i \in Nat :
             InPart(u, rest, j, i) /\ Len(delivered[current]) + Len(raised) = j - 1
      BY <3>1 DEF Enters
    <3>3. InPart(parser, inside, j, i)'
      BY <1>1, <2>1, <2>3, <3>2 DEF InPart
    <3>4. Len(delivered'[current']) = j - 1
      BY <1>4, <2>1, <3>2
    <3>5. intact /\ n = Len(wire) /\ Coming.contentType = Multipart
      BY <3>1 DEF Enters
    <3> QED BY <2>1, <2>3, <3>3, <3>4, <3>5
  <2>9. Ready'
    BY <1>2, <1>6, <2>1 DEF Ready
  <2>10. Told'
    <3>1. n # 0
      BY <1>2, <1>6
    <3>2. \A k \in 1..StreamLength : k > current' => delivered'[k] = <<>>
      <4> SUFFICES ASSUME NEW k \in 1..StreamLength, k > current PROVE delivered'[k] = <<>>
        BY <2>1
      <4>1. delivered'[k] = delivered[k]
        BY <1>4, <1>6
      <4> QED BY <4>1 DEF Inv, Told
    <3>3. synced' => Exact(delivered'[current'], Gives(current)')
      <4>1. Gives(current)' = Gives(current)
        BY <1>1, <2>1 DEF Gives
      <4> QED BY <1>1, <1>4, <2>1, <4>1
    <3>4. (synced' /\ inside' = <<>>) => delivered'[current'] = <<>>
      <4> SUFFICES ASSUME synced, rest = <<>> PROVE delivered'[current] = <<>>
        BY <1>1, <2>1
      <4>1. raised = <<>> /\ inside = <<>>
        BY <2>4 DEF Continues, Enters
      <4> QED BY <1>4, <1>6, <4>1 DEF Inv, Told
    <3>5. arrived' \subseteq 1..(current' - 1)
      BY <2>1, <2>2 DEF Inv, Told
    <3> QED BY <2>1, <3>1, <3>2, <3>3, <3>4, <3>5 DEF Told
  <2>11. WholeDelivered'
    BY <1>4, <1>5, <2>2 DEF WholeDelivered
  <2> QED BY <1>4, <2>5, <2>6, <2>7, <2>8, <2>9, <2>10, <2>11 DEF Inv
<1> QED BY <1>7, <1>8

LEMMA HandlerThrowsKeeps ==
  ASSUME Inv, HandlerThrows
  PROVE  Inv'
<1> DEFINE step == FeedByte(parser, NextByte)
           raised == step.raised
           n == IF inside = <<>> THEN received + 1 ELSE received
           rest == IF inside = <<>> THEN step.inside ELSE step.inside \o Tail(inside)
<1>1. /\ wire # <<>> /\ raised # <<>> /\ parser' = [parser EXCEPT !.inner = <<>>]
      /\ Raise(raised) /\ NextMessage /\ faults < MaxFaults
      /\ shared' = shared /\ sent' = sent /\ synced' = FALSE /\ faults' = faults + 1
      /\ arrived' = IF intact /\ synced /\ Len(inside) <= 1
                    THEN arrived \cup {current} ELSE arrived
  BY DEF HandlerThrows
<1>2. /\ raised \in Seq(Raised)
      /\ synced => Outcome(step.parser, raised, n, rest)
  BY <1>1, ByteFed
<1> HIDE DEF step, raised, n, rest
<1>3. synced => Due(raised)
  BY <1>2 DEF Outcome
<1>4. /\ delivered' \in [1..StreamLength -> Seq(Deliveries)]
      /\ \A k \in 1..StreamLength : k # current => delivered'[k] = delivered[k]
      /\ Len(delivered'[current]) = Len(delivered[current]) + Len(raised)
      /\ \A k \in arrived : Messages(delivered'[k]) = Gives(k)
      /\ (synced /\ Len(delivered'[current]) = Len(Gives(current)))
            => Messages(delivered'[current]) = Gives(current)
      /\ NothingInvented'
  BY <1>1, <1>2, <1>3, Telling
<1>5. \A k : Gives(k)' = Gives(k)
  BY <1>1 DEF Gives
<1>6. /\ StreamLength \in Nat /\ current \in 1..StreamLength /\ Typed /\ inside \in Seq(Byte)
      /\ MaxFaults \in Nat
  BY <1>1, FramedStreamAssumption DEF Inv, Typed
<1>7. /\ current' = current + 1
      /\ current' \in 1..(StreamLength + 1)
      /\ wire' \in Seq(Byte) /\ (wire' # <<>> <=> current' <= StreamLength)
      /\ received' = 0 /\ inside' = <<>> /\ intact' = TRUE
  BY <1>1, Begins
<1>8. Unfinished' /\ Outside' /\ Within' /\ Ready' /\ Told'
  <2>1. \A k \in 1..StreamLength : k > current => delivered'[k] = delivered[k]
    BY <1>4, <1>6
  <2>2. arrived' \subseteq arrived \cup {current}
    BY <1>1
  <2> QED BY <1>1, <2>1, <2>2, Moved
<1>9. WholeDelivered'
  <2> SUFFICES ASSUME NEW k \in arrived' PROVE Messages(delivered'[k]) = Gives(k)'
    BY DEF WholeDelivered
  <2>1. CASE k \in arrived
    BY <1>4, <1>5, <2>1
  <2>2. CASE k \notin arrived
    <3>1. k = current /\ intact /\ synced /\ Len(inside) <= 1
      BY <1>1, <2>2
    <3>2. ~(Len(inside) > 1)
      <4> Len(inside) \in Nat
        BY <1>6
      <4> QED BY <3>1
    <3>3. Completes(step.parser, raised, n, rest)
      BY <1>1, <1>2, <3>1, <3>2 DEF Outcome, Continues, Enters
    <3>4. Len(delivered'[current]) = Len(Gives(current))
      BY <1>4, <3>1, <3>3 DEF Completes
    <3> QED BY <1>4, <1>5, <3>1, <3>4
  <2> QED BY <2>1, <2>2
<1>10. Typed'
  <2>1. arrived' \subseteq 1..StreamLength /\ 0 \in 0..Len(wire')
    BY <1>1, <1>6, <1>7 DEF Typed
  <2>2. parser' \in Parsers
    <3> parser \in Parsers /\ <<>> \in Seq(Byte)
      BY <1>6 DEF Typed
    <3> QED BY <1>1 DEF Parsers
  <2>3. /\ shared' \in BOOLEAN /\ synced' \in BOOLEAN /\ faults' \in 0..MaxFaults
        /\ sent' \in [1..StreamLength -> Bodies]
    <3> shared \in BOOLEAN /\ faults \in 0..MaxFaults /\ sent \in [1..StreamLength -> Bodies]
      BY <1>6 DEF Typed
    <3> faults' \in 0..MaxFaults
      BY <1>1, <1>6
    <3> QED BY <1>1
  <2>4. received' \in 0..Len(wire') /\ inside' \in Seq(Byte) /\ intact' \in BOOLEAN
    BY <1>7, <2>1
  <2> QED BY <1>4, <1>7, <2>1, <2>2, <2>3, <2>4 DEF Typed
<1> QED BY <1>4, <1>8, <1>9, <1>10 DEF Inv

LEMMA ResetTypes ==
  ASSUME NEW p \in Parsers
  PROVE  ResetParserState(p) \in Parsers /\ Between(ResetParserState(p))
<1>1. "Init" \in ParserStates /\ <<0, 0>> \in Byte \X Byte
  BY DEF ParserStates, Byte
<1> QED BY <1>1 DEF ResetParserState, Parsers, Between

LEMMA PauseKeeps ==
  ASSUME Inv, Pause
  PROVE  Inv'
<1>1. /\ received = 0 /\ wire # <<>> /\ parser' = ResetParserState(parser) /\ synced' = TRUE
      /\ UNCHANGED <<shared, delivered, sent, current, wire, received, inside, intact, arrived, faults>>
  BY DEF Pause
<1>2. parser' \in Parsers /\ Between(parser')
  BY <1>1, ResetTypes DEF Inv, Typed
<1>3. inside = <<>> /\ current \in 1..StreamLength /\ Coming' = Coming
  BY <1>1, FramedStreamAssumption DEF Inv, Unfinished, Typed, Coming
<1>4. Typed'
  BY <1>1, <1>2 DEF Inv, Typed
<1>5. Unfinished'
  BY <1>1 DEF Inv, Unfinished
<1>6. Outside'
  <2>1. PICK packed, sum : Carries(packed, sum)
    BY <1>1, <1>3 DEF Inv, Outside
  <2>2. Carries(packed, sum)'
    BY <1>1, <1>3, <2>1 DEF Carries
  <2>3. Reads(parser, Coming, packed, sum, received)'
    BY <1>1, <1>2 DEF Reads
  <2> QED BY <2>2, <2>3 DEF Outside
<1>7. Within'
  BY <1>1, <1>3 DEF Within
<1>8. Ready'
  BY <1>2 DEF Ready
<1>9. Told'
  <2>1. delivered[current] = <<>>
    BY <1>1, <1>3 DEF Inv, Told
  <2>2. Exact(delivered[current], Gives(current))'
    BY <1>1, <2>1 DEF Exact
  <2> QED BY <1>1, <2>1, <2>2 DEF Inv, Told
<1>10. NothingInvented' /\ WholeDelivered'
  BY <1>1, Kept
<1> QED BY <1>4, <1>5, <1>6, <1>7, <1>8, <1>9, <1>10 DEF Inv

LEMMA PauseInsideKeeps ==
  ASSUME Inv, PauseInside
  PROVE  Inv'
<1>1. /\ received > 0 /\ inside = <<>> /\ parser' = ResetParserState(parser) /\ synced' = FALSE
      /\ intact' = FALSE /\ faults < MaxFaults /\ faults' = faults + 1
      /\ UNCHANGED <<shared, delivered, sent, current, wire, received, inside, arrived>>
  BY DEF PauseInside
<1>2. parser' \in Parsers
  BY <1>1, ResetTypes DEF Inv, Typed
<1>3. Typed'
  <2>1. faults' \in 0..MaxFaults
    <3> faults \in 0..MaxFaults /\ MaxFaults \in Nat
      BY FramedStreamAssumption DEF Inv, Typed
    <3> QED BY <1>1
  <2> QED BY <1>1, <1>2, <2>1 DEF Inv, Typed
<1>4. Unfinished'
  BY <1>1 DEF Inv, Unfinished
<1>5. received # 0
  BY <1>1
<1>6. Outside' /\ Within' /\ Ready'
  BY <1>1, <1>5 DEF Outside, Within, Ready
<1>7. Told'
  BY <1>1 DEF Inv, Told
<1>8. NothingInvented' /\ WholeDelivered'
  BY <1>1, Kept
<1> QED BY <1>3, <1>4, <1>6, <1>7, <1>8 DEF Inv

LEMMA BreakKeeps ==
  ASSUME Inv, Break
  PROVE  Inv'
<1>1. /\ received > 0 /\ NextMessage /\ parser' = ResetParserState(parser) /\ synced' = TRUE
      /\ faults < MaxFaults /\ faults' = faults + 1
      /\ UNCHANGED <<shared, delivered, sent, arrived>>
  BY DEF Break
<1>2. parser' \in Parsers /\ Between(parser') /\ wire # <<>>
  <2>1. parser' \in Parsers /\ Between(parser')
    BY <1>1, ResetTypes DEF Inv, Typed
  <2>2. wire # <<>>
    BY <1>1 DEF Inv, Typed
  <2> QED BY <2>1, <2>2
<1>3. /\ current' \in 1..(StreamLength + 1)
      /\ wire' \in Seq(Byte) /\ (wire' # <<>> <=> current' <= StreamLength)
      /\ received' = 0 /\ inside' = <<>> /\ intact' = TRUE
  BY <1>1, <1>2, Begins
<1>4. Unfinished' /\ Outside' /\ Within' /\ Ready' /\ Told'
  BY <1>1, <1>2, Moved
<1>5. Typed'
  <2>1. /\ shared' \in BOOLEAN /\ synced' \in BOOLEAN /\ faults' \in 0..MaxFaults
        /\ sent' \in [1..StreamLength -> Bodies] /\ arrived' \subseteq 1..StreamLength
        /\ delivered' \in [1..StreamLength -> Seq(Deliveries)]
    BY <1>1, FramedStreamAssumption DEF Inv, Typed
  <2>2. received' \in 0..Len(wire') /\ inside' \in Seq(Byte) /\ intact' \in BOOLEAN
    BY <1>3
  <2> QED BY <1>2, <1>3, <2>1, <2>2 DEF Typed
<1>6. NothingInvented' /\ WholeDelivered'
  BY <1>1, Kept
<1> QED BY <1>4, <1>5, <1>6 DEF Inv

LEMMA DecompressFailsKeeps ==
  ASSUME Inv, DecompressFails
  PROVE  Inv'
<1>1. /\ wire # <<>> /\ NextMessage /\ synced' = ~shared
      /\ parser' = IF shared THEN [parser EXCEPT !.inner = <<>>] ELSE ResetParserState(parser)
      /\ UNCHANGED <<shared, delivered, sent, arrived, faults>>
  BY DEF DecompressFails
<1>2. parser' \in Parsers /\ (synced' => Between(parser'))
  <2>1. shared \in BOOLEAN /\ parser \in Parsers /\ <<>> \in Seq(Byte)
    BY DEF Inv, Typed
  <2>2. CASE shared
    BY <1>1, <2>1, <2>2 DEF Parsers
  <2>3. CASE ~shared
    BY <1>1, <2>1, <2>3, ResetTypes
  <2> QED BY <2>2, <2>3
<1>3. /\ current' \in 1..(StreamLength + 1)
      /\ wire' \in Seq(Byte) /\ (wire' # <<>> <=> current' <= StreamLength)
      /\ received' = 0 /\ inside' = <<>> /\ intact' = TRUE
  BY <1>1, Begins
<1>4. Unfinished' /\ Outside' /\ Within' /\ Ready' /\ Told'
  BY <1>1, <1>2, Moved
<1>5. Typed'
  <2>1. /\ shared' \in BOOLEAN /\ synced' \in BOOLEAN /\ faults' \in 0..MaxFaults
        /\ sent' \in [1..StreamLength -> Bodies] /\ arrived' \subseteq 1..StreamLength
        /\ delivered' \in [1..StreamLength -> Seq(Deliveries)]
    BY <1>1, FramedStreamAssumption DEF Inv, Typed
  <2>2. received' \in 0..Len(wire') /\ inside' \in Seq(Byte) /\ intact' \in BOOLEAN
    BY <1>3
  <2> QED BY <1>2, <1>3, <2>1, <2>2 DEF Typed
<1>6. NothingInvented' /\ WholeDelivered'
  BY <1>1, Kept
<1> QED BY <1>4, <1>5, <1>6 DEF Inv

(* What has been read of a message is what has been read of it damaged     *)
(* further on.                                                             *)
LEMMA DamagedReads ==
  ASSUME NEW m, NEW packed \in Seq(Byte), NEW damaged \in Seq(Byte), NEW sum, NEW other,
         Len(damaged) = Len(packed), NEW i \in 13..(Len(packed) + 12),
         \A k \in 1..(i - 13) : damaged[k] = packed[k],
         NEW p, NEW n \in 0..(i - 1), Reads(p, m, packed, sum, n)
  PROVE  Reads(p, m, damaged, other, n)
<1> DEFINE L == Len(packed)
<1>1. L \in Nat /\ n \in Nat /\ n <= L + 11
  OBVIOUS
<1>2. CASE n = 0
  BY <1>2 DEF Reads
<1>3. CASE n # 0
  <2>1. p.state = Stage(n, L) /\ p.inner = Collected(m, packed, sum, n) /\ Holds(p, m, packed, n)
    BY <1>3 DEF Reads
  <2>2. Holds(p, m, damaged, n)
    BY <1>1, <2>1 DEF Holds
  <2>3. Collected(m, damaged, other, n) = Collected(m, packed, sum, n)
    <3>1. CASE n <= 12
      BY <1>1, <3>1 DEF Collected
    <3>2. CASE n > 12
      <4> DEFINE k == n - 12
                 a == SubSeq(packed, 1, k)
                 c == SubSeq(damaged, 1, k)
      <4>1. k \in Nat /\ k <= L /\ k <= i - 13 /\ 1 <= k
        BY <1>1, <3>2
      <4>2. a \in Seq(Byte) /\ c \in Seq(Byte) /\ Len(a) = k /\ Len(c) = k
        <5> HIDE DEF k
        <5> QED BY <4>1
      <4>3. \A l \in 1..k : a[l] = packed[l] /\ c[l] = damaged[l]
        <5> HIDE DEF k
        <5> QED BY <4>1
      <4>4. \A l \in 1..k : l \in 1..(i - 13)
        BY <4>1
      <4> HIDE DEF k, a, c
      <4>5. a = c
        BY <4>2, <4>3, <4>4, SeqEqual
      <4>6. Collected(m, packed, sum, n) = a /\ Collected(m, damaged, other, n) = c
        BY <1>1, <3>2 DEF Collected, a, c, k
      <4> QED BY <4>5, <4>6
    <3> QED BY <1>1, <3>1, <3>2
  <2> QED BY <1>3, <2>1, <2>2, <2>3 DEF Reads
<1> QED BY <1>2, <1>3

LEMMA DamageByteKeeps ==
  ASSUME Inv, NEW i \in DOMAIN wire, NEW b \in Damage, DamageByte(i, b)
  PROVE  Inv'
<1>1. /\ i \in (received + 1)..(Len(wire) - 2) /\ i > 12 /\ wire[i] % 255 # b % 255
      /\ intact /\ wire' = [wire EXCEPT ![i] = b] /\ intact' = FALSE
      /\ faults < MaxFaults /\ faults' = faults + 1
      /\ UNCHANGED <<shared, parser, delivered, sent, current, received, inside, synced, arrived>>
  BY DEF DamageByte
<1>2. /\ wire \in Seq(Byte) /\ b \in Byte /\ received \in 0..Len(wire) /\ MaxFaults \in Nat
      /\ faults \in 0..MaxFaults /\ current \in 1..(StreamLength + 1)
      /\ (wire # <<>> <=> current <= StreamLength)
  BY FramedStreamAssumption DEF Inv, Typed
<1>3. wire' \in Seq(Byte) /\ Len(wire') = Len(wire) /\ wire # <<>> /\ wire' # <<>>
  BY <1>1, <1>2
<1>4. Typed'
  <2>1. faults' \in 0..MaxFaults
    BY <1>1, <1>2
  <2> QED BY <1>1, <1>2, <1>3, <2>1 DEF Inv, Typed
<1>5. Unfinished'
  BY <1>1, <1>3 DEF Inv, Unfinished
<1>6. Coming' = Coming
  BY <1>1 DEF Coming
<1>7. Outside'
  <2> SUFFICES ASSUME inside = <<>>, synced \/ received = 0
               PROVE  \E packed, sum : /\ Carries(packed, sum)'
                                       /\ synced => Reads(parser, Coming, packed, sum, received)
    BY <1>1, <1>6 DEF Outside
  <2>1. PICK packed, sum : /\ Carries(packed, sum)
                           /\ synced => Reads(parser, Coming, packed, sum, received)
    BY <1>3 DEF Inv, Outside
  <2>2. Frame(wire, Coming, packed, Fletcher16(packed)) /\ sum = Fletcher16(packed)
    BY <1>1, <2>1 DEF Carries
  <2>3. packed \in Seq(Byte) /\ Len(wire) = Len(packed) + 14
    BY <2>2 DEF Frame
  <2>4. i \in 13..(Len(wire) - 2) /\ i \in 13..(Len(packed) + 12) /\ received \in 0..(i - 1)
    BY <1>1, <1>2, <2>3
  <2>5. PICK damaged, other : /\ Frame([wire EXCEPT ![i] = b], Coming, damaged, other)
                              /\ Fletcher16(damaged) # other
                              /\ Len(damaged) = Len(packed)
                              /\ \A k \in 1..(i - 13) : damaged[k] = packed[k]
    <3> Damages(wire, i, b)
      BY <1>1, <1>2, <2>4 DEF Damages
    <3> QED BY <2>2, DamagedFrame
  <2>6. Carries(damaged, other)'
    BY <1>1, <1>6, <2>5 DEF Carries
  <2>7. damaged \in Seq(Byte)
    BY <2>5 DEF Frame
  <2>8. synced => Reads(parser, Coming, damaged, other, received)
    BY <2>1, <2>3, <2>4, <2>5, <2>7, DamagedReads
  <2> QED BY <2>6, <2>8
<1>8. Within'
  <2>1. synced => inside = <<>>
    <3> SUFFICES ASSUME synced, inside # <<>> PROVE FALSE
      OBVIOUS
    <3>1. received = Len(wire)
      BY DEF Inv, Within
    <3> QED BY <1>1, <1>2, <3>1
  <2> QED BY <1>1, <2>1 DEF Within
<1>9. Ready'
  BY <1>1 DEF Inv, Ready
<1>10. Told'
  BY <1>1 DEF Inv, Told, Gives
<1>11. NothingInvented' /\ WholeDelivered'
  BY <1>1, Kept
<1> QED BY <1>4, <1>5, <1>7, <1>8, <1>9, <1>10, <1>11 DEF Inv

LEMMA CollideKeeps ==
  ASSUME Inv, Collide
  PROVE  Inv'
<1>1. /\ wire # <<>> /\ parser' \in Torn /\ synced' = FALSE /\ faults < MaxFaults /\ faults' = faults + 1
      /\ UNCHANGED <<shared, delivered, sent, arrived>>
      /\ IF inside = <<>>
         THEN \E n \in (received + 1)..Len(wire) : FedUpTo(n, <<>>, FALSE)
         ELSE \E n \in 1..Len(inside) : FedUpTo(received, SubSeq(inside, n + 1, Len(inside)), FALSE)
  BY DEF Collide
<1>2. parser' \in Parsers
  <2>1. \A n \in Nat : Int32Bytes(n) \in Seq(Byte)
    BY Int32Types
  <2>2. Int32Bytes(1) \in Seq(Byte)
    BY <2>1
  <2>3. <<1, 0>> \in Seq(Byte) /\ <<1, 1>> \in Byte \X Byte /\ <<>> \in Seq(Byte) /\ <<0, 0>> \in Byte \X Byte
        /\ 0 \in Byte /\ "Init" \in ParserStates
    BY DEF Byte, ParserStates
  <2>4. NewParser \in Parsers
    BY <2>3 DEF NewParser, Parsers
  <2> DEFINE c == <<1, 0>>
             e == <<1, 1>>
             l == Int32Bytes(1)
  <2>5. c \in Seq(Byte) /\ e \in Byte \X Byte /\ l \in Seq(Byte)
    BY <2>2, <2>3
  <2>6. PICK st \in ParserStates :
           parser' = [NewParser EXCEPT !.state = st, !.inner = c, !.length = l, !.expected = e]
    BY <1>1 DEF Torn
  <2> HIDE DEF c, e, l
  <2> QED BY <2>4, <2>5, <2>6 DEF Parsers
<1>3. /\ wire \in Seq(Byte) /\ received \in 0..Len(wire) /\ MaxFaults \in Nat
      /\ faults \in 0..MaxFaults /\ current \in 1..StreamLength /\ inside \in Seq(Byte)
      /\ shared \in BOOLEAN /\ sent \in [1..StreamLength -> Bodies] /\ arrived \subseteq 1..StreamLength
      /\ delivered \in [1..StreamLength -> Seq(Deliveries)]
  BY <1>1, FramedStreamAssumption DEF Inv, Typed
<1>4. PICK n \in 1..Len(wire), rest \in Seq(Byte) : FedUpTo(n, rest, FALSE)
  <2>1. CASE inside = <<>>
    <3>1. PICK n \in (received + 1)..Len(wire) : FedUpTo(n, <<>>, FALSE)
      BY <1>1, <2>1
    <3>2. n \in 1..Len(wire) /\ <<>> \in Seq(Byte)
      BY <1>3
    <3> QED BY <3>1, <3>2
  <2>2. CASE inside # <<>>
    <3>1. PICK n \in 1..Len(inside) : FedUpTo(received, SubSeq(inside, n + 1, Len(inside)), FALSE)
      BY <1>1, <2>2
    <3>2. SubSeq(inside, n + 1, Len(inside)) \in Seq(Byte)
      BY <1>3
    <3>3. received \in 1..Len(wire)
      BY <1>3, <2>2 DEF Inv, Unfinished
    <3> QED BY <3>1, <3>2, <3>3
  <2> QED BY <2>1, <2>2
<1>5. NothingInvented' /\ WholeDelivered'
  BY <1>1, Kept
<1>6. faults' \in 0..MaxFaults
  BY <1>1, <1>3
<1>7. CASE n = Len(wire) /\ rest = <<>>
  <2>1. NextMessage
    BY <1>4, <1>7 DEF FedUpTo
  <2>2. /\ current' \in 1..(StreamLength + 1)
        /\ wire' \in Seq(Byte) /\ (wire' # <<>> <=> current' <= StreamLength)
        /\ received' = 0 /\ inside' = <<>> /\ intact' = TRUE
    BY <1>1, <2>1, Begins
  <2>3. Unfinished' /\ Outside' /\ Within' /\ Ready' /\ Told'
    BY <1>1, <2>1, Moved
  <2>4. Typed'
    <3>1. received' \in 0..Len(wire') /\ inside' \in Seq(Byte) /\ intact' \in BOOLEAN
      BY <2>2
    <3> QED BY <1>1, <1>2, <1>3, <1>6, <2>2, <3>1 DEF Typed
  <2> QED BY <1>5, <2>3, <2>4 DEF Inv
<1>8. CASE ~(n = Len(wire) /\ rest = <<>>)
  <2>1. received' = n /\ inside' = rest /\ intact' = FALSE /\ current' = current /\ wire' = wire
    BY <1>4, <1>8 DEF FedUpTo
  <2>2. n # 0 /\ n > 0 /\ n \in 0..Len(wire) /\ (rest = <<>> => n < Len(wire))
    BY <1>3, <1>8
  <2>3. Typed'
    <3>1. current' \in 1..(StreamLength + 1) /\ (wire' # <<>> <=> current' <= StreamLength)
      BY <1>1, <2>1 DEF Inv, Typed
    <3> QED BY <1>1, <1>2, <1>3, <1>6, <2>1, <2>2, <3>1 DEF Typed
  <2>4. Unfinished'
    BY <2>1, <2>2 DEF Unfinished
  <2>5. Outside' /\ Within' /\ Ready'
    BY <1>1, <2>1, <2>2 DEF Outside, Within, Ready
  <2>6. Told'
    BY <1>1, <2>1, <2>2 DEF Inv, Told
  <2> QED BY <1>5, <2>3, <2>4, <2>5, <2>6 DEF Inv
<1> QED BY <1>7, <1>8

LEMMA InitEstablishes ==
  ASSUME Init
  PROVE  Inv
<1>1. /\ shared \in BOOLEAN /\ parser = NewParser /\ delivered = [i \in 1..StreamLength |-> <<>>]
      /\ sent \in [1..StreamLength -> Bodies] /\ current = 1 /\ wire = Wire(1) /\ received = 0
      /\ inside = <<>> /\ intact = TRUE /\ synced = TRUE /\ arrived = {} /\ faults = 0
  BY DEF Init
<1>2. StreamLength \in Nat /\ MaxFaults \in Nat
  BY FramedStreamAssumption
<1>3. /\ wire \in Seq(Byte) /\ (wire # <<>> <=> current <= StreamLength)
      /\ wire # <<>> => 0 < Len(wire) /\ \E packed, sum : Carries(packed, sum)
  <2>1. CASE StreamLength = 0
    <3> wire = <<>>
      BY <1>1, <2>1 DEF Wire
    <3> QED BY <1>1, <2>1
  <2>2. CASE StreamLength # 0
    <3> DEFINE m == Coming
               packed == CompressBuffer(m.content)
               sum == Fletcher16(packed)
    <3>1. m \in Bodies /\ wire = Encoded[m] /\ current <= StreamLength
      <4> 1 \in DOMAIN sent
        BY <1>1, <1>2, <2>2
      <4> QED BY <1>1, <1>2, <2>2 DEF Wire, Coming
    <3>2. m \in Sendable /\ Encoded[m] = CreateBuffer(m)
      <4> HIDE DEF m
      <4> QED BY <3>1, BodyFacts
    <3>3. Frame(wire, m, packed, sum) /\ wire \in Seq(Byte) /\ Len(wire) >= 14
      <4> HIDE DEF m
      <4> QED BY <3>1, <3>2, BufferFrame, BufferTypes
    <3>4. Carries(packed, sum)
      BY <1>1, <3>3 DEF Carries
    <3>5. wire # <<>> /\ 0 < Len(wire)
      BY <3>3
    <3> HIDE DEF packed, sum
    <3> QED BY <3>1, <3>3, <3>4, <3>5
  <2> QED BY <2>1, <2>2
<1>4. NewParser \in Parsers /\ Between(NewParser)
  <2> <<>> \in Seq(Byte) /\ 0 \in Byte /\ <<0, 0>> \in Byte \X Byte /\ "Init" \in ParserStates
    BY DEF Byte, ParserStates
  <2> QED BY DEF NewParser, Parsers, Between
<1>5. Typed
  <2>1. /\ delivered \in [1..StreamLength -> Seq(Deliveries)] /\ 0 \in 0..MaxFaults
        /\ current \in 1..(StreamLength + 1) /\ 0 \in 0..Len(wire) /\ <<>> \in Seq(Byte)
    BY <1>1, <1>2, <1>3
  <2> QED BY <1>1, <1>3, <1>4, <2>1 DEF Typed
<1>6. Unfinished
  BY <1>1, <1>3 DEF Unfinished
<1>7. Outside
  BY <1>1, <1>3, <1>4 DEF Outside, Reads
<1>8. Within /\ Ready
  BY <1>1, <1>4 DEF Within, Ready
<1>9. Told
  BY <1>1 DEF Told, Exact
<1>10. NothingInvented /\ WholeDelivered
  BY <1>1 DEF NothingInvented, WholeDelivered
<1> QED BY <1>5, <1>6, <1>7, <1>8, <1>9, <1>10 DEF Inv

LEMMA NextKeeps ==
  ASSUME Inv, [Next]_vars
  PROVE  Inv'
<1>1. CASE FeedNext
  BY <1>1, FeedNextKeeps
<1>2. CASE Pause
  BY <1>2, PauseKeeps
<1>3. CASE PauseInside
  BY <1>3, PauseInsideKeeps
<1>4. CASE Break
  BY <1>4, BreakKeeps
<1>5. CASE \E i \in DOMAIN wire, b \in Damage : DamageByte(i, b)
  BY <1>5, DamageByteKeeps
<1>6. CASE Collide
  BY <1>6, CollideKeeps
<1>7. CASE HandlerThrows
  BY <1>7, HandlerThrowsKeeps
<1>9. CASE DecompressFails
  BY <1>9, DecompressFailsKeeps
<1>8. CASE UNCHANGED vars
  <2>1. /\ UNCHANGED <<shared, parser, delivered, sent, current, wire, received>>
        /\ UNCHANGED <<inside, intact, synced, arrived, faults>>
    BY <1>8 DEF vars
  <2>2. Typed' /\ Unfinished' /\ Ready' /\ Told'
    BY <2>1 DEF Inv, Typed, Unfinished, Ready, Told, Gives
  <2>3. Coming' = Coming
    BY <2>1 DEF Coming
  <2>4. Outside' /\ Within'
    BY <2>1, <2>3 DEF Inv, Outside, Carries, Within, InPart
  <2>5. NothingInvented' /\ WholeDelivered'
    BY <2>1, Kept
  <2> QED BY <2>2, <2>4, <2>5 DEF Inv
<1> QED BY <1>1, <1>2, <1>3, <1>4, <1>5, <1>6, <1>7, <1>8, <1>9 DEF Next

LEMMA Invariant == Spec => []Inv
<1> QED BY InitEstablishes, NextKeeps, PTL DEF Spec

(* A parser in step never holds a whole field.                             *)
LEMMA ReadsFits ==
  ASSUME NEW w, NEW m, m.parameter \in Nat, NEW packed, NEW sum, Frame(w, m, packed, sum),
         NEW n \in Nat, n <= Len(packed) + 13, Reads(parser, m, packed, sum, n)
  PROVE  InnerFits
<1> DEFINE L == Len(packed)
<1>1. L \in Nat /\ L <= MaxLength /\ packed \in Seq(Byte)
  BY DEF Frame
<1>2. CASE n = 0
  BY <1>2 DEF Reads, Between, InnerFits
<1>3. CASE n # 0
  <2>1. /\ parser.state = Stage(n, L) /\ parser.inner = Collected(m, packed, sum, n)
        /\ Holds(parser, m, packed, n)
    BY <1>3 DEF Reads
  <2>2. CASE n <= 2 \/ n = 7
    <3> parser.state \in {"Header", "Type", "ContentType"} /\ parser.inner = <<>>
      BY <1>1, <1>3, <2>1, <2>2 DEF Stage, Collected
    <3> QED BY DEF InnerFits
  <2>3. CASE n \in 3..6
    <3>1. parser.state = "Parameter"
      BY <2>1, <2>3 DEF Stage
    <3>2. CASE n = 3
      <4> parser.inner = <<>>
        BY <2>1, <3>2 DEF Collected
      <4> QED BY <3>1 DEF InnerFits
    <3>3. CASE n # 3
      <4> DEFINE k == n - 3
      <4>1. k \in 0..3
        BY <2>3
      <4>2. parser.inner = SubSeq(Int32Bytes(m.parameter), 1, k)
        BY <2>1, <2>3, <3>3 DEF Collected
      <4> HIDE DEF k
      <4>3. Len(parser.inner) < 4
        BY <4>1, <4>2, Int32Of
      <4> QED BY <3>1, <4>3 DEF InnerFits
    <3> QED BY <3>2, <3>3
  <2>4. CASE n \in 8..11
    <3>1. parser.state = "Length"
      BY <1>1, <2>1, <2>4 DEF Stage
    <3>2. CASE n = 8
      <4> parser.inner = <<>>
        BY <2>1, <3>2 DEF Collected
      <4> QED BY <3>1 DEF InnerFits
    <3>3. CASE n # 8
      <4> DEFINE k == n - 8
      <4>1. k \in 0..3
        BY <2>4
      <4>2. parser.inner = SubSeq(Int32Bytes(L), 1, k)
        BY <2>1, <2>4, <3>3 DEF Collected
      <4> HIDE DEF k
      <4>3. Len(parser.inner) < 4
        BY <1>1, <4>1, <4>2, Int32Of
      <4> QED BY <3>1, <4>3 DEF InnerFits
    <3> QED BY <3>2, <3>3
  <2>5. CASE n \in 12..(L + 11)
    <3>1. parser.state = "Content" /\ parser.length = Int32Bytes(L) /\ L # 0
      BY <1>1, <2>1, <2>5 DEF Stage, Holds
    <3>2. Int32Bytes(L) # Int32Bytes(0)
      BY <1>1, <3>1, Int32Injective, SMT DEF MaxLength
    <3> QED BY <3>1, <3>2 DEF InnerFits
  <2>6. CASE n \in (L + 12)..(L + 13) /\ n >= 12
    <3>1. parser.state = "Checksum"
      BY <1>1, <2>1, <2>6 DEF Stage
    <3>2. parser.inner = <<>> \/ parser.inner = <<sum[1]>>
      BY <1>1, <2>1, <2>6 DEF Collected
    <3>3. Len(<<>>) < 2 /\ Len(<<sum[1]>>) < 2
      OBVIOUS
    <3>4. Len(parser.inner) < 2
      BY <3>2, <3>3, Zenon
    <3> QED BY <3>1, <3>4 DEF InnerFits
  <2>7. n <= 2 \/ n = 7 \/ n \in 3..6 \/ n \in 8..11 \/ n \in 12..(L + 11) \/ (n \in (L + 12)..(L + 13) /\ n >= 12)
    BY <1>1
  <2> QED BY <2>2, <2>3, <2>4, <2>5, <2>6, <2>7
<1> QED BY <1>2, <1>3

LEMMA Fits ==
  ASSUME Inv, synced
  PROVE  InnerFits
<1>1. /\ wire \in Seq(Byte) /\ received \in 0..Len(wire)
      /\ (wire # <<>> <=> current <= StreamLength)
      /\ sent \in [1..StreamLength -> Bodies] /\ current \in 1..(StreamLength + 1)
      /\ StreamLength \in Nat /\ Len(wire) \in Nat
  BY FramedStreamAssumption DEF Inv, Typed
<1>2. CASE wire = <<>>
  <2> received = 0
    BY <1>1, <1>2
  <2> QED BY DEF Inv, Ready, Between, InnerFits
<1>3. CASE wire # <<>>
  <2>1. Coming \in Bodies
    BY <1>1, <1>3 DEF Coming
  <2>2. CASE inside = <<>>
    <3>1. received < Len(wire)
      BY <1>3, <2>2 DEF Inv, Unfinished
    <3>2. PICK packed, sum : Carries(packed, sum) /\ Reads(parser, Coming, packed, sum, received)
      BY <1>3, <2>2 DEF Inv, Outside
    <3>3. Frame(wire, Coming, packed, sum)
      BY <3>2 DEF Carries
    <3>4. received \in Nat /\ received <= Len(packed) + 13
      <4> Len(wire) = Len(packed) + 14 /\ Len(packed) \in Nat
        BY <3>3 DEF Frame
      <4> QED BY <1>1, <3>1
    <3>5. Coming.parameter \in Nat
      BY <2>1, BodyFacts
    <3> QED BY <3>2, <3>3, <3>4, <3>5, ReadsFits
  <2>3. CASE inside # <<>>
    <3>1. PICK j \in 1..Len(Parts[Coming]), n \in Nat : InPart(parser, inside, j, n)
      BY <2>3 DEF Inv, Within
    <3> DEFINE part == Parts[Coming][j]
               packed == CompressBuffer(part.content)
               sum == Fletcher16(packed)
               w == CreateBuffer(part)
    <3>2. n < Len(w) /\ Reads(parser, part, packed, sum, n)
      BY <3>1 DEF InPart
    <3>3. part \in Sendable
      <4> Parts[Coming] \in Seq(Sendable)
        BY <2>1, BodyFacts
      <4> QED OBVIOUS
    <3> HIDE DEF part
    <3>4. /\ Frame(w, part, packed, sum) /\ part.parameter \in Nat /\ Len(w) = Len(packed) + 14
          /\ Len(packed) \in Nat
      BY <3>3, BufferFrame, BufferTypes DEF Sendable, ServerMessages
    <3> HIDE DEF w, packed, sum
    <3>5. n <= Len(packed) + 13
      BY <3>2, <3>4
    <3> QED BY <3>2, <3>4, <3>5, ReadsFits
  <2> QED BY <2>2, <2>3
<1> QED BY <1>2, <1>3

-----------------------------------------------------------------------------
(* The variables take only the values TypeOK allows, and InnerBuffer of a   *)
(* parser in step never holds a whole field.                               *)
THEOREM StreamTyped == Spec => []TypeOK
<1>1. Inv => TypeOK
  <2> SUFFICES ASSUME Inv PROVE TypeOK
    OBVIOUS
  <2>1. synced => InnerFits
    BY Fits
  <2> QED BY <2>1 DEF Inv, Typed, TypeOK
<1> QED BY <1>1, Invariant, PTL

(* Whatever is sent, however it is split, broken off or damaged, and        *)
(* whatever two connections of the hub do to each other: a message that     *)
(* arrives whole at a parser in step is delivered, with nothing else.       *)
THEOREM StreamDelivers == Spec => []WholeDelivered
<1>1. Inv => WholeDelivered
  BY DEF Inv
<1> QED BY <1>1, Invariant, PTL

(* What a parser in step delivers are the messages sent, or the first parts *)
(* of one: damage is always found.                                         *)
THEOREM StreamInventsNothing == Spec => []NothingInvented
<1>1. Inv => NothingInvented
  BY DEF Inv
<1> QED BY <1>1, Invariant, PTL

(* After every message a parser in step waits for the next.                *)
THEOREM StreamReadyBetween == Spec => []ReadyBetween
<1>1. Inv => ReadyBetween
  BY DEF Inv, Ready, Between, ReadyBetween
<1> QED BY <1>1, Invariant, PTL
=============================================================================
