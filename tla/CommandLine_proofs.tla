------------------------- MODULE CommandLine_proofs -------------------------
(***************************************************************************)
(* The invariants of CommandLine, for every length of the buffers and      *)
(* every set of repeats.                                                   *)
(***************************************************************************)
EXTENDS CommandLine, SequenceTheorems, TLAPS

-----------------------------------------------------------------------------
(* Types: the line, and the program with its results.                      *)
LineType ==
    /\ c0 \in {"prompt", "next", "global", "mode", "after", "compile", "run", "post", "return"}
    /\ hiz \in BOOLEAN /\ first \in BOOLEAN /\ program \in BOOLEAN
    /\ failed \in BOOLEAN /\ status \in BOOLEAN
    /\ delimiter \in Delimiters /\ ran \in [delimiter : Delimiters, failed : BOOLEAN]
    /\ outer \in Seq([delimiter : Delimiters, abort : BOOLEAN]) /\ Len(outer) <= 1

Results1(n) == [item : 1..n, error : {"none", "bus", "full"}]

SyntaxType ==
    /\ out \in Seq(Item) /\ Len(out) <= MaxItems /\ generated \in 0..MaxLength-1
    /\ pos \in 1..Len(out) + 1
    /\ in \in Seq(Results1(Len(out)))

(* The count of the compiler, item by item: the results that the first i   *)
(* items of a program need.  It is what the compiler has in generated as   *)
(* long as no repeat is long enough to wrap that around.                   *)
CountsOf(f, items) ==
    /\ f \in [0..Len(items) -> Nat] /\ f[0] = 0
    /\ \A i \in 1..Len(items) : f[i] = f[i-1] + Needs(items[i])
    /\ \A i, j \in 0..Len(items) : i <= j => f[i] <= f[j]

NoWrap == \A i \in 1..Len(out) : Needs(out[i]) < MaxLength

Counts(f) == CountsOf(f, out) /\ f[Len(out)] = generated

CountInv ==
    /\ c0 \in {"compile", "run"} /\ NoWrap => \E f : Counts(f)
    /\ c0 = "compile" => in = <<>> /\ pos = 1

(* What has run has no more results than the compiler has counted for it.  *)
RunInv ==
    c0 = "run" /\ Counted =>
        /\ \A f : Counts(f) => Len(in) <= f[pos - 1]
        /\ ReadsCountTheirOwn =>
              /\ \A i \in 1..Len(in) : in[i].error # "full"
              /\ pos > 1 => /\ in # <<>>
                            /\ Last(in).item = pos - 1 \/ (Last(in).error = "bus" /\ Ran)

SyntaxInv == SyntaxType /\ CountInv /\ RunInv

(* The last command and what is known of its outcome.                      *)
ChainInv ==
    /\ c0 = "next" => Honoured
    /\ c0 \in {"global", "mode", "after"} => ran.delimiter = delimiter
    /\ c0 = "after" => ran.failed = failed

-----------------------------------------------------------------------------
LEMMA Constants ==
    /\ MaxItems \in Nat /\ MaxLength \in Nat /\ 0 < MaxItems /\ MaxItems < MaxLength
    /\ Word \in Nat \ {0} /\ 2 * MaxLength <= Word
    /\ \A item \in Item : item.repeat \in Nat /\ Needs(item) \in Nat
    /\ [command |-> "write", repeat |-> 1] \in Item
    /\ Needs([command |-> "write", repeat |-> 1]) = 1
<1>1. /\ MaxItems \in Nat /\ MaxLength \in Nat /\ 0 < MaxItems /\ MaxItems < MaxLength
      /\ Word \in Nat /\ 2 * MaxLength <= Word /\ Repeats \subseteq 0..Word-1 /\ 1 \in Repeats
  BY SyntaxAssumption
<1>2. Word \in Nat \ {0} /\ \A n \in Repeats : n \in Nat
  BY <1>1
<1>3. /\ \A item \in Item : item.repeat \in Repeats
      /\ [command |-> "write", repeat |-> 1] \in Item
  BY <1>1 DEF Item
<1> QED  BY <1>1, <1>2, <1>3 DEF Needs

(* Sums below the width are sums.                                          *)
LEMMA PlusIsSum ==
    ASSUME NEW a \in Nat, NEW b \in Nat
    PROVE  Plus(a, b) \in Nat /\ (a < MaxLength /\ b < MaxLength => Plus(a, b) = a + b)
<1> DEFINE c == a + b
<1>1. Word \in Nat \ {0} /\ MaxLength \in Nat /\ 2 * MaxLength <= Word /\ c \in Nat
  BY Constants
<1>2. a < MaxLength /\ b < MaxLength => c < Word
  BY <1>1
<1> HIDE DEF c
<1>3. c % Word \in Nat /\ (c < Word => c % Word = c)
  BY <1>1
<1> QED  BY <1>2, <1>3 DEF Plus, c

LEMMA EmptyIsCounted ==
    ASSUME Clear
    PROVE  SyntaxType' /\ (\E f : Counts(f))' /\ RunInv'
<1>1. SyntaxType'
  BY Constants, EmptySeq DEF Clear, SyntaxType
<1>2. Counts([i \in 0..0 |-> 0])'
  BY DEF Clear, Counts
<1>3. RunInv'
  BY <1>1, Constants DEF Clear, RunInv, Counts
<1> QED  BY <1>1, <1>2, <1>3

(* The counts of two programs, one behind the other.                       *)
Joined(f, n, g, k) == [i \in 0..n+k |-> IF i <= n THEN f[i] ELSE f[n] + g[i-n]]

LEMMA CountsAreJoined ==
    ASSUME NEW s \in Seq(Item), NEW t \in Seq(Item), NEW f, NEW g,
           CountsOf(f, s), CountsOf(g, t)
    PROVE  /\ CountsOf(Joined(f, Len(s), g, Len(t)), s \o t)
           /\ Joined(f, Len(s), g, Len(t))[Len(s) + Len(t)] = f[Len(s)] + g[Len(t)]
<1> DEFINE n == Len(s)  k == Len(t)  h == Joined(f, n, g, k)  st == s \o t
<1>1. n \in Nat /\ k \in Nat
  OBVIOUS
<1>2. /\ Len(st) = n + k
      /\ \A i \in 1..n : st[i] = s[i]
      /\ \A i \in 1..k : st[n + i] = t[i]
  BY <1>1, ConcatProperties
<1>3. /\ f \in [0..n -> Nat] /\ f[0] = 0 /\ \A i \in 1..n : f[i] = f[i-1] + Needs(s[i])
      /\ \A i, j \in 0..n : i <= j => f[i] <= f[j]
  BY DEF CountsOf
<1>4. /\ g \in [0..k -> Nat] /\ g[0] = 0 /\ \A i \in 1..k : g[i] = g[i-1] + Needs(t[i])
      /\ \A i, j \in 0..k : i <= j => g[i] <= g[j]
  BY DEF CountsOf
<1>15. \A i \in 1..k : t[i] \in Item
  OBVIOUS
<1> HIDE DEF n, k, st
<1>5. /\ \A i \in 0..n : f[i] \in Nat
      /\ \A i \in 0..k : g[i] \in Nat
  BY <1>3, <1>4
<1>6. \A i \in 0..n+k : i > n => i - n \in 1..k /\ i = n + (i - n)
  BY <1>1
<1>7. h \in [0..n+k -> Nat]
  <2>1. ASSUME NEW i \in 0..n+k PROVE (IF i <= n THEN f[i] ELSE f[n] + g[i-n]) \in Nat
    <3>1. CASE i <= n
      BY <1>1, <1>5, <3>1
    <3>2. CASE i > n
      <4>1. f[n] \in Nat /\ g[i-n] \in Nat
        BY <1>1, <1>5, <1>6, <3>2
      <4> QED  BY <1>1, <3>2, <4>1
    <3> QED  BY <1>1, <3>1, <3>2
  <2> QED  BY <2>1 DEF Joined
<1>8. ASSUME NEW i \in 0..n PROVE h[i] = f[i]
  <2>1. i \in 0..n+k /\ i <= n
    BY <1>1
  <2> QED  BY <2>1 DEF Joined
<1>9. ASSUME NEW i \in 1..k PROVE h[n + i] = f[n] + g[i]
  <2>1. n + i \in 0..n+k /\ ~(n + i <= n) /\ (n + i) - n = i
    BY <1>1
  <2> QED  BY <2>1 DEF Joined
<1> HIDE DEF h
<1>10. f[n] \in Nat /\ h[n] = f[n]
  BY <1>1, <1>5, <1>8
<1>11. ASSUME NEW i \in 1..n+k PROVE h[i] = h[i-1] + Needs(st[i])
  <2>1. CASE i <= n
    <3>1. i \in 1..n /\ i \in 0..n /\ i-1 \in 0..n
      BY <1>1, <2>1
    <3> QED  BY <1>2, <1>3, <1>8, <3>1
  <2>2. CASE i > n
    <3>1. PICK b \in 1..k : i = n + b
      BY <1>1, <1>6, <2>2
    <3>2. h[i] = f[n] + g[b] /\ g[b] = g[b-1] + Needs(st[i])
      BY <1>2, <1>4, <1>9, <3>1
    <3>3. Needs(st[i]) \in Nat /\ g[b-1] \in Nat
      <4>1. st[i] = t[b] /\ t[b] \in Item
        BY <1>2, <1>15, <3>1
      <4>2. b - 1 \in 0..k
        BY <1>1, <3>1
      <4> QED  BY <1>5, <4>1, <4>2, Constants
    <3>4. h[i-1] = f[n] + g[b-1]
      <4>1. CASE b = 1
        <5>1. i - 1 = n /\ b - 1 = 0
          BY <1>1, <3>1, <4>1
        <5> QED  BY <1>4, <1>10, <5>1
      <4>2. CASE b > 1
        <5>1. i - 1 = n + (b - 1) /\ b - 1 \in 1..k
          BY <1>1, <3>1, <4>2
        <5> QED  BY <1>9, <5>1
      <4> QED  BY <4>1, <4>2
    <3> QED  BY <1>1, <1>10, <3>2, <3>3, <3>4
  <2> QED  BY <1>1, <2>1, <2>2
<1>12. ASSUME NEW i \in 0..n+k, NEW j \in 0..n+k, i <= j PROVE h[i] <= h[j]
  <2>1. CASE j <= n
    <3>1. i \in 0..n /\ j \in 0..n
      BY <1>1, <1>12, <2>1
    <3> QED  BY <1>3, <1>8, <1>12, <3>1
  <2>2. CASE i <= n /\ j > n
    <3>1. PICK b \in 1..k : j = n + b
      BY <1>1, <1>6, <2>2
    <3>2. i \in 0..n /\ n \in 0..n /\ i <= n
      BY <1>1, <2>2
    <3>3. h[i] = f[i] /\ f[i] <= f[n] /\ f[i] \in Nat
      BY <1>3, <1>5, <1>8, <3>2
    <3>4. h[j] = f[n] + g[b] /\ g[b] \in Nat
      BY <1>5, <1>9, <3>1
    <3> QED  BY <1>10, <3>3, <3>4
  <2>3. CASE i > n
    <3>1. PICK a \in 1..k : i = n + a
      BY <1>1, <1>6, <2>3
    <3>2. PICK b \in 1..k : j = n + b
      BY <1>1, <1>6, <1>12, <2>3
    <3>3. a <= b
      BY <1>1, <1>12, <3>1, <3>2
    <3>4. h[i] = f[n] + g[a] /\ h[j] = f[n] + g[b]
      BY <1>9, <3>1, <3>2
    <3>5. g[a] <= g[b] /\ g[a] \in Nat /\ g[b] \in Nat
      BY <1>1, <1>4, <1>5, <3>3
    <3> QED  BY <1>10, <3>4, <3>5
  <2> QED  BY <1>1, <2>1, <2>2, <2>3
<1>13. h[0] = 0 /\ h[n + k] = f[n] + g[k]
  <2>1. CASE k = 0
    BY <1>1, <1>3, <1>4, <1>8, <1>10, <2>1
  <2>2. CASE k > 0
    BY <1>1, <1>3, <1>8, <1>9, <2>2
  <2> QED  BY <1>1, <2>1, <2>2
<1>14. CountsOf(h, st)
  BY <1>2, <1>7, <1>11, <1>12, <1>13 DEF CountsOf
<1> QED  BY <1>13, <1>14 DEF h, n, k, st

(* Compiling an item counts what it needs.                                 *)
LEMMA ItemIsCounted ==
    ASSUME SyntaxInv, c0 = "compile", CompileItem
    PROVE  SyntaxType' /\ (NoWrap => \E f : Counts(f))' /\ in' = <<>> /\ pos' = 1
<1> USE Constants
<1>1. PICK item \in Item :
         /\ Len(out) < MaxItems /\ Fits(Needs(item))
         /\ out' = Append(out, item)
         /\ generated' = Plus(generated, Needs(item))
         /\ UNCHANGED <<pos, in>>
  BY DEF CompileItem
<1>2. in' = <<>> /\ pos' = 1
  BY <1>1 DEF SyntaxInv, CountInv
<1>3. /\ out' \in Seq(Item) /\ Len(out') = Len(out) + 1 /\ out'[Len(out) + 1] = item
      /\ \A i \in 1..Len(out) : out'[i] = out[i]
  BY <1>1, AppendProperties DEF SyntaxInv, SyntaxType
<1>4. generated' \in 0..MaxLength-1
  <2>1. generated \in Nat /\ Needs(item) \in Nat
    BY DEF SyntaxInv, SyntaxType
  <2>2. Plus(generated, Needs(item)) \in Nat
    BY <2>1, PlusIsSum
  <2> QED  BY <1>1, <2>2 DEF Fits
<1>5. SyntaxType'
  BY <1>1, <1>2, <1>3, <1>4, EmptySeq DEF SyntaxInv, SyntaxType
<1> SUFFICES ASSUME NoWrap' PROVE (\E f : Counts(f))'
  BY <1>2, <1>5
<1>11. NoWrap /\ generated' = generated + Needs(item)
  <2>1. generated \in Nat /\ generated < MaxLength /\ Needs(item) \in Nat /\ Len(out) \in Nat
    BY DEF SyntaxInv, SyntaxType
  <2>2. NoWrap /\ Needs(item) < MaxLength
    <3>1. \A i \in 1..Len(out) + 1 : Needs(out'[i]) < MaxLength
      BY <1>3 DEF NoWrap
    <3> QED  BY <1>3, <2>1, <3>1 DEF NoWrap
  <2> QED  BY <1>1, <2>1, <2>2, PlusIsSum
<1>6. PICK f : Counts(f)
  BY <1>11 DEF SyntaxInv, CountInv
<1> DEFINE g == [i \in 0..1 |-> IF i = 0 THEN 0 ELSE Needs(item)]
<1>7. <<item>> \in Seq(Item) /\ Len(<<item>>) = 1 /\ CountsOf(g, <<item>>)
  BY DEF CountsOf
<1>8. out' = out \o <<item>> /\ Len(out') = Len(out) + 1
  BY <1>1, <1>3, AppendIsConcat DEF SyntaxInv, SyntaxType
<1>9. /\ CountsOf(Joined(f, Len(out), g, 1), out')
      /\ Joined(f, Len(out), g, 1)[Len(out')] = generated'
  <2> DEFINE one == <<item>>
  <2>1. one \in Seq(Item) /\ Len(one) = 1 /\ CountsOf(g, one) /\ g[1] = Needs(item)
    BY <1>7
  <2>2. out \in Seq(Item) /\ CountsOf(f, out) /\ f[Len(out)] = generated /\ out' = out \o one
    BY <1>6, <1>8 DEF Counts, SyntaxInv, SyntaxType
  <2> HIDE DEF one, g
  <2>3. /\ CountsOf(Joined(f, Len(out), g, Len(one)), out \o one)
        /\ Joined(f, Len(out), g, Len(one))[Len(out) + Len(one)] = f[Len(out)] + g[Len(one)]
    BY <2>1, <2>2, CountsAreJoined
  <2> QED  BY <1>8, <1>11, <2>1, <2>2, <2>3
<1>10. \E h : Counts(h)'
  BY <1>9 DEF Counts
<1> QED  BY <1>10

(* So does compiling a string, one for each character.                     *)
LEMMA StringIsCounted ==
    ASSUME SyntaxInv, c0 = "compile", CompileString
    PROVE  SyntaxType' /\ (NoWrap => \E f : Counts(f))' /\ in' = <<>> /\ pos' = 1
<1> USE Constants
<1> DEFINE char == [command |-> "write", repeat |-> 1]
<1>1. PICK n \in 2..MaxItems - Len(out) :
         /\ Len(out) + n < MaxLength /\ Fits(n)
         /\ out' = out \o [i \in 1..n |-> char]
         /\ generated' = Plus(generated, n)
         /\ UNCHANGED <<pos, in>>
  BY DEF CompileString
<1>2. in' = <<>> /\ pos' = 1
  BY <1>1 DEF SyntaxInv, CountInv
<1>7. Len(out) \in Nat /\ n \in Nat
  BY DEF SyntaxInv, SyntaxType
<1> DEFINE string == [i \in 1..n |-> char]
<1>0. string \in Seq(Item) /\ Len(string) = n
  BY <1>7
<1>3. /\ out' \in Seq(Item) /\ Len(out') = Len(out) + n
      /\ \A i \in 1..Len(out) : out'[i] = out[i]
      /\ \A i \in 1..Len(out') : i > Len(out) => out'[i] = char
  BY <1>0, <1>1, <1>7, ConcatProperties DEF SyntaxInv, SyntaxType
<1>11. generated \in Nat /\ generated < MaxLength /\ n < MaxLength
  BY <1>1, <1>7 DEF SyntaxInv, SyntaxType
<1>12. generated' = generated + n /\ generated' \in 0..MaxLength-1
  BY <1>1, <1>7, <1>11, PlusIsSum DEF Fits
<1>4. generated' \in 0..MaxLength-1
  BY <1>12
<1>5. SyntaxType'
  BY <1>1, <1>2, <1>3, <1>4, EmptySeq DEF SyntaxInv, SyntaxType
<1> SUFFICES ASSUME NoWrap' PROVE (\E f : Counts(f))'
  BY <1>2, <1>5
<1>13. NoWrap
  <2>1. \A i \in 1..Len(out) : i \in 1..Len(out')
    BY <1>3, <1>7
  <2> QED  BY <1>3, <2>1 DEF NoWrap
<1>6. PICK f : Counts(f)
  BY <1>13 DEF SyntaxInv, CountInv
<1> DEFINE g == [i \in 0..n |-> i]
<1>8. CountsOf(g, string)
  BY <1>0, <1>7 DEF CountsOf
<1>9. /\ CountsOf(Joined(f, Len(out), g, n), out')
      /\ Joined(f, Len(out), g, n)[Len(out')] = generated'
  <2>1. g[n] = n
    BY <1>7
  <2>2. out \in Seq(Item) /\ CountsOf(f, out) /\ f[Len(out)] = generated /\ out' = out \o string
    BY <1>1, <1>6 DEF Counts, SyntaxInv, SyntaxType
  <2> HIDE DEF string, g
  <2>3. /\ CountsOf(Joined(f, Len(out), g, Len(string)), out \o string)
        /\ Joined(f, Len(out), g, Len(string))[Len(out) + Len(string)]
             = f[Len(out)] + g[Len(string)]
    BY <1>0, <1>8, <2>2, CountsAreJoined
  <2> QED  BY <1>0, <1>3, <1>12, <2>1, <2>2, <2>3
<1>10. \E h : Counts(h)'
  BY <1>9 DEF Counts
<1> QED  BY <1>10

(* Running an item of a counted program: its handler has room for all its  *)
(* results, since the compiler counted them, and they take no more of the  *)
(* buffer than it counted.                                                 *)
LEMMA ItemHasRoom ==
    ASSUME SyntaxType, Counted, NEW f, Counts(f), Len(in) <= f[pos - 1], pos <= Len(out)
    PROVE  /\ ReadsCountTheirOwn => ~Refused(out[pos])
           /\ pos \in 1..Len(out) /\ out[pos] \in Item
           /\ ResultsOf(out[pos]) \in Nat \ {0}
           /\ Len(in) + 1 <= f[pos]
           /\ Len(in) + ResultsOf(out[pos]) <= f[pos] /\ f[pos] < MaxLength
<1> DEFINE item == out[pos]  n == Len(out)
<1>1. n \in Nat /\ pos \in 1..n /\ pos - 1 \in 0..n /\ item \in Item /\ out[1] \in Item
  BY DEF SyntaxType
<1>2. item.repeat \in Nat /\ item.repeat > 0 /\ out[1].repeat \in Nat
  BY <1>1, Constants DEF Counted
<1>3. ReadsCountTheirOwn /\ item.command = "read" => out[1].repeat <= item.repeat
  BY <1>1 DEF ReadsCountTheirOwn
<1>4. /\ f[pos] = f[pos - 1] + Needs(item) /\ f[pos] <= f[n] /\ f[n] = generated
      /\ f[pos] \in Nat /\ f[pos - 1] \in Nat
  <2>1. pos \in 0..n /\ n \in 0..n /\ pos <= n
    BY <1>1
  <2> QED  BY <1>1, <2>1 DEF Counts, CountsOf
<1>5. generated \in Nat /\ generated < MaxLength /\ MaxLength \in Nat /\ Len(in) \in Nat
  BY Constants DEF SyntaxType
<1>6. Needs(item) \in Nat /\ Needs(item) = IF item.command = "wait" THEN 1 ELSE item.repeat
  BY <1>2 DEF Needs
<1>7. ResultsOf(item) = IF item.command \in {"write", "read"} THEN item.repeat ELSE 1
  BY <1>2 DEF ResultsOf
<1> HIDE DEF item, n
<1>8. ResultsOf(item) \in Nat \ {0} /\ ResultsOf(item) <= Needs(item)
  BY <1>2, <1>6, <1>7
<1>10. Len(in) + Needs(item) <= f[pos] /\ f[pos] < MaxLength
  BY <1>4, <1>5, <1>6
<1>11. Len(in) + ResultsOf(item) <= f[pos]
  BY <1>4, <1>5, <1>6, <1>8, <1>10
<1>13. Needs(item) > 0 /\ Len(in) + 1 <= f[pos]
  BY <1>2, <1>4, <1>5, <1>6, <1>10
<1>12. ASSUME ReadsCountTheirOwn PROVE ~Refused(item)
  <2>1. item.command \in {"write", "read"} => Needs(item) = item.repeat
    BY <1>6
  <2>4. Len(in) < MaxLength
    BY <1>4, <1>5, <1>6, <1>10
  <2>2. ASSUME item.command = "write" PROVE Plus(Len(in), item.repeat) < MaxLength
    <3>1. item.repeat < MaxLength /\ Len(in) + item.repeat < MaxLength
      BY <1>2, <1>4, <1>5, <1>10, <2>1, <2>2
    <3> QED  BY <1>2, <1>5, <2>4, <3>1, PlusIsSum
  <2>3. ASSUME item.command = "read" PROVE Plus(Len(in), out[1].repeat) < MaxLength
    <3>1. out[1].repeat < MaxLength /\ Len(in) + out[1].repeat < MaxLength
      BY <1>2, <1>3, <1>4, <1>5, <1>10, <1>12, <2>1, <2>3
    <3> QED  BY <1>2, <1>5, <2>4, <3>1, PlusIsSum
  <2>5. Plus(Len(in), item.repeat) \in Nat /\ Plus(Len(in), out[1].repeat) \in Nat
    BY <1>2, <1>5, PlusIsSum
  <2> QED  BY <1>5, <2>2, <2>3, <2>5 DEF Refused
<1> QED  BY <1>1, <1>8, <1>10, <1>11, <1>12, <1>13 DEF item, n

(* The results of an item, and all results with them.                      *)
LEMMA ResultsAreTyped ==
    ASSUME SyntaxType, pos <= Len(out), NEW failing
    PROVE  LET R == Results(out[pos], failing) IN
           /\ R \in Seq(Results1(Len(out))) /\ Len(R) \in Nat \ {0}
           /\ \A i \in 1..Len(R) : R[i].item = pos
           /\ Refused(out[pos]) => Len(R) = 1
           /\ ~Refused(out[pos]) => /\ Len(R) = ResultsOf(out[pos])
                                   /\ \A i \in 1..Len(R) : R[i].error \in {"none", "bus"}
<1> DEFINE R == Results(out[pos], failing)  n == Len(out)
           r(i) == [item |-> pos, error |-> IF i \in failing THEN "bus" ELSE "none"]
<1>1. n \in Nat /\ pos \in 1..n /\ out[pos] \in Item
  BY DEF SyntaxType
<1>2. ResultsOf(out[pos]) \in Nat \ {0}
  BY <1>1, Constants DEF ResultsOf
<1> HIDE DEF n
<1>3. \A i : r(i) \in Results1(n) /\ r(i).item = pos /\ r(i).error \in {"none", "bus"}
  BY <1>1 DEF Results1
<1>4. CASE Refused(out[pos])
  <2>1. R = <<[item |-> pos, error |-> "full"]>>
    BY <1>4 DEF Results
  <2>2. [item |-> pos, error |-> "full"] \in Results1(n)
    BY <1>1 DEF Results1
  <2> QED  BY <1>4, <2>1, <2>2 DEF n
<1>5. CASE ~Refused(out[pos])
  <2> DEFINE m == ResultsOf(out[pos])
  <2>1. R = [i \in 1..m |-> r(i)]
    BY <1>5 DEF Results
  <2> HIDE DEF m, r
  <2>2. m \in Nat \ {0}
    BY <1>2 DEF m
  <2> HIDE DEF R
  <2>3. R \in Seq(Results1(n)) /\ Len(R) = m /\ \A i \in 1..m : R[i] = r(i)
    BY <1>3, <2>1, <2>2
  <2> QED  BY <1>3, <1>5, <2>2, <2>3 DEF R, m, n
<1> QED  BY <1>4, <1>5

LEMMA ItemRuns ==
    ASSUME SyntaxInv, c0 = "run", RunItem, c0' = c0
    PROVE  SyntaxInv'
<1> DEFINE n == Len(out)
<1>1. PICK failing : LET all == in \o Results(out[pos], failing) IN
           \/ /\ Len(all) > MaxLength
              /\ in' = all /\ pos' = pos
           \/ /\ Len(all) = MaxLength
              /\ in' = Front(all) /\ pos' = n + 1
           \/ /\ Len(all) < MaxLength
              /\ in' = all
              /\ pos' = IF Last(all).error # "none" THEN n + 1 ELSE NextItem
  BY DEF RunItem
<1> DEFINE R == Results(out[pos], failing)  all == in \o R
<1>2. SyntaxType /\ pos <= n /\ out' = out /\ generated' = generated
  BY DEF RunItem, SyntaxInv
<1>3. n \in Nat /\ pos \in 1..n /\ MaxLength \in Nat
  BY <1>2, Constants DEF SyntaxType
<1>4. /\ R \in Seq(Results1(n)) /\ Len(R) \in Nat \ {0}
      /\ \A i \in 1..Len(R) : R[i].item = pos
      /\ Refused(out[pos]) => Len(R) = 1
      /\ ~Refused(out[pos]) => /\ Len(R) = ResultsOf(out[pos])
                              /\ \A i \in 1..Len(R) : R[i].error \in {"none", "bus"}
  BY <1>2, ResultsAreTyped
<1>5. in \in Seq(Results1(n)) /\ Len(in) \in Nat
  BY <1>2 DEF SyntaxType
<1>6. \/ Len(all) > MaxLength /\ in' = all /\ pos' = pos
      \/ Len(all) = MaxLength /\ in' = SubSeq(all, 1, Len(all) - 1) /\ pos' = n + 1
      \/ /\ Len(all) < MaxLength /\ in' = all
         /\ pos' = IF all[Len(all)].error # "none" THEN n + 1 ELSE pos + 1
  BY <1>1 DEF Front, Last, NextItem
<1> HIDE DEF R, n
<1>7. /\ all \in Seq(Results1(n)) /\ Len(all) = Len(in) + Len(R)
      /\ \A i \in 1..Len(in) : all[i] = in[i]
      /\ \A i \in 1..Len(R) : all[Len(in) + i] = R[i]
  BY <1>4, <1>5, ConcatProperties
<1> HIDE DEF all
<1>8. Len(all) \in Nat \ {0} /\ all[Len(all)] = R[Len(R)] /\ Len(R) \in 1..Len(R)
  BY <1>4, <1>5, <1>7
<1>9. SyntaxType'
  <2>1. SubSeq(all, 1, Len(all) - 1) \in Seq(Results1(n))
    BY <1>7, <1>8, SubSeqProperties
  <2>2. in' \in Seq(Results1(n))
    BY <1>6, <1>7, <2>1
  <2>3. pos' \in 1..n + 1
    BY <1>3, <1>6
  <2> QED  BY <1>2, <2>2, <2>3 DEF SyntaxType, n
<1>10. CountInv'
  BY <1>2 DEF SyntaxInv, CountInv, Counts, NoWrap
<1>11. RunInv'
  <2>1. SUFFICES ASSUME Counted
                 PROVE  /\ \A f : Counts(f) => Len(in') <= f[pos' - 1]
                        /\ ReadsCountTheirOwn =>
                              /\ \A i \in 1..Len(in') : in'[i].error # "full"
                              /\ pos' > 1 => /\ in' # <<>>
                                             /\ \/ Last(in').item = pos' - 1
                                                \/ Last(in').error = "bus" /\ Ran'
    BY <1>2 DEF RunInv, Counted, Counts, ReadsCountTheirOwn
  <2>2. \A f : Counts(f) => Len(in) <= f[pos - 1]
    BY <2>1 DEF SyntaxInv, RunInv
  <2>3. ASSUME NEW f, Counts(f)
        PROVE  /\ ReadsCountTheirOwn => ~Refused(out[pos])
               /\ ResultsOf(out[pos]) \in Nat \ {0} /\ Len(in) + 1 <= f[pos]
               /\ Len(in) + ResultsOf(out[pos]) <= f[pos] /\ f[pos] < MaxLength
               /\ f[pos] <= f[n] /\ f[pos] \in Nat /\ f[n] \in Nat
    <3>1. f[pos] <= f[n] /\ f[pos] \in Nat /\ f[n] \in Nat
      <4>1. pos \in 0..n /\ n \in 0..n /\ pos <= n
        BY <1>3
      <4> QED  BY <2>3, <4>1 DEF Counts, CountsOf, n
    <3> QED  BY <1>2, <2>1, <2>2, <2>3, <3>1, ItemHasRoom DEF n
  <2>4. PICK f0 : Counts(f0)
    BY <2>1 DEF SyntaxInv, CountInv, NoWrap, Counted
  <2>11. ASSUME NEW f, Counts(f) PROVE Len(all) <= f[pos] /\ Len(all) < MaxLength
    <3>1. Len(R) = 1 \/ Len(R) = ResultsOf(out[pos])
      BY <1>4
    <3>2. Len(all) <= f[pos]
      BY <1>7, <2>3, <2>11, <3>1
    <3> QED  BY <1>3, <1>8, <2>3, <2>11, <3>2
  <2>6. in' = all /\ pos' = IF all[Len(all)].error # "none" THEN n + 1 ELSE pos + 1
    BY <1>3, <1>6, <1>8, <2>4, <2>11
  <2>7. ASSUME NEW f, Counts(f) PROVE Len(in') <= f[pos' - 1]
    <3>1. pos' - 1 = n \/ pos' - 1 = pos
      BY <1>3, <2>6
    <3> QED  BY <1>8, <2>3, <2>6, <2>7, <2>11, <3>1
  <2>12. SUFFICES ASSUME ReadsCountTheirOwn
                  PROVE  /\ \A i \in 1..Len(in') : in'[i].error # "full"
                         /\ in' # <<>>
                         /\ Last(in').item = pos' - 1 \/ (Last(in').error = "bus" /\ Ran')
    BY <2>7
  <2>5. ~Refused(out[pos])
    BY <2>3, <2>4, <2>12
  <2>8. ASSUME NEW i \in 1..Len(in') PROVE in'[i].error # "full"
    <3>1. CASE i <= Len(in)
      <4>1. i \in 1..Len(in)
        BY <1>5, <3>1
      <4> QED  BY <1>7, <2>1, <2>6, <2>12, <4>1 DEF SyntaxInv, RunInv
    <3>2. CASE i > Len(in)
      <4>1. i - Len(in) \in 1..Len(R) /\ i = Len(in) + (i - Len(in))
        BY <1>4, <1>5, <1>7, <2>6, <3>2
      <4> QED  BY <1>4, <1>7, <2>5, <2>6, <4>1
    <3> QED  BY <1>5, <1>8, <2>6, <3>1, <3>2
  <2>9. in' # <<>> /\ Last(in') = R[Len(R)]
    BY <1>7, <1>8, <2>6 DEF Last
  <2>10. Last(in').item = pos' - 1 \/ (Last(in').error = "bus" /\ Ran')
    <3>1. CASE R[Len(R)].error = "none"
      BY <1>3, <1>4, <1>8, <2>6, <2>9, <3>1
    <3>2. CASE R[Len(R)].error = "bus"
      BY <1>2, <1>8, <2>6, <2>9, <3>2 DEF Ran, n
    <3> QED  BY <1>4, <1>8, <2>5, <3>1, <3>2
  <2> QED  BY <2>8, <2>9, <2>10
<1> QED  BY <1>9, <1>10, <1>11 DEF SyntaxInv

-----------------------------------------------------------------------------
(* The steps.                                                              *)
LEMMA SyntaxSteps ==
    ASSUME SyntaxInv, [Next]_vars
    PROVE  SyntaxInv'
<1>1. ASSUME UNCHANGED syntax_io, c0' \notin {"compile", "run"}
      PROVE  SyntaxInv'
  <2>1. SyntaxType'
    BY <1>1 DEF SyntaxInv, SyntaxType, syntax_io
  <2> QED  BY <1>1, <2>1 DEF SyntaxInv, CountInv, RunInv
<1>2. ASSUME Clear
      PROVE  SyntaxInv'
  <2>1. in' = <<>> /\ pos' = 1
    BY <1>2 DEF Clear
  <2> QED  BY <1>2, <2>1, EmptyIsCounted DEF SyntaxInv, CountInv
<1>3. CASE FindSyntax \/ CompileError \/ PostProcess \/ Restart
  BY <1>2, <1>3 DEF FindSyntax, CompileError, PostProcess, Post, Restart
<1>4. CASE Compile
  <2>1. c0 = "compile" /\ c0' = "compile"
    BY <1>4 DEF Compile
  <2>2. SyntaxType' /\ (NoWrap => \E f : Counts(f))' /\ in' = <<>> /\ pos' = 1
    BY <1>4, <2>1, ItemIsCounted, StringIsCounted DEF Compile
  <2> QED  BY <2>1, <2>2 DEF SyntaxInv, CountInv, RunInv
<1>5. CASE Compiled
  <2>1. c0 = "compile" /\ c0' = "run" /\ in = <<>> /\ pos = 1 /\ UNCHANGED syntax_io
    BY <1>5 DEF Compiled, SyntaxInv, CountInv
  <2>2. SyntaxType' /\ CountInv'
    BY <2>1 DEF SyntaxInv, SyntaxType, CountInv, Counts, NoWrap, syntax_io
  <2>3. RunInv'
    <3>1. in' = <<>> /\ pos' = 1 /\ Len(in') = 0
      BY <2>1 DEF syntax_io
    <3>2. ASSUME NEW f, Counts(f)' PROVE Len(in') <= f[pos' - 1]
      <4>1. f[0] = 0 /\ pos' - 1 = 0
        BY <3>1, <3>2 DEF Counts, CountsOf
      <4> QED  BY <3>1, <4>1
    <3> QED  BY <3>1, <3>2 DEF RunInv
  <2> QED  BY <2>2, <2>3 DEF SyntaxInv
<1>6. CASE Run
  BY <1>6, ItemRuns DEF Run
<1>7. CASE UNCHANGED vars
  BY <1>7
     DEF vars, syntax_io, SyntaxInv, SyntaxType, CountInv, RunInv, Counts, NoWrap, Counted,
         ReadsCountTheirOwn, Ran
<1>8. ASSUME NEW kind \in Kinds, Refuse(kind) \/ FindGlobal(kind)
      PROVE  SyntaxInv'
  BY <1>1, <1>8 DEF Refuse, FindGlobal, Begin, Return
<1>9. CASE TypeLine \/ EndOfLine \/ Skip \/ FindMode \/ After
  BY <1>1, <1>9 DEF TypeLine, EndOfLine, Skip, Find, FindMode, Begin, After, Return
<1>10. CASE RunGlobal \/ RunMode \/ RunScript
  BY <1>1, <1>10 DEF RunGlobal, RunMode, RunScript, Done
<1>11. CASE NextScriptLine \/ EndOfScript \/ RunEnds \/ Prompt
  BY <1>1, <1>11 DEF NextScriptLine, EndOfScript, RunEnds, Prompt
<1> QED  BY <1>3, <1>4, <1>5, <1>6, <1>7, <1>8, <1>9, <1>10, <1>11 DEF Next

LEMMA NobodyIsTyped ==
    /\ Nobody \in [delimiter : Delimiters, failed : BOOLEAN]
    /\ Nobody.delimiter = ";"
  BY DEF Nobody, Delimiters

LEMMA LineSteps ==
    ASSUME LineType, [Next]_vars
    PROVE  LineType'
<1> USE DEF LineType
<1>1. CASE UNCHANGED vars
  BY <1>1 DEF vars, buffer, calls
<1>2. ASSUME NEW kind \in Kinds, Refuse(kind) PROVE LineType'
  BY <1>2 DEF Refuse, Find, Return
<1>3. ASSUME NEW kind \in Kinds, FindGlobal(kind) PROVE LineType'
  BY <1>3 DEF FindGlobal, Find, Begin
<1>4. CASE FindMode
  BY <1>4 DEF FindMode, Find, Begin
<1>5. CASE FindSyntax
  BY <1>5 DEF FindSyntax, Find, Nobody, Delimiters
<1>6. CASE TypeLine \/ NextScriptLine \/ Prompt
  <2>1. ran' = Nobody /\ first' = TRUE /\ program' = TRUE /\ delimiter' = "end"
    BY <1>6 DEF TypeLine, NextScriptLine, Prompt, Entered
  <2>2. /\ c0' \in {"next", "prompt"} /\ UNCHANGED <<hiz, outer>>
        /\ failed' \in BOOLEAN /\ status' \in BOOLEAN
    BY <1>6 DEF TypeLine, NextScriptLine, Prompt, calls
  <2> QED  BY <2>1, <2>2, NobodyIsTyped DEF Delimiters
<1>7. CASE EndOfLine \/ Skip \/ After
  BY <1>7 DEF EndOfLine, Skip, Find, After, Return, buffer, calls
<1>8. CASE RunGlobal \/ RunMode
  BY <1>8 DEF RunGlobal, RunMode, Done, MayPrompt
<1>9. CASE RunScript
  <2>1. PICK abort \in BOOLEAN : outer' = <<[delimiter |-> delimiter, abort |-> abort]>>
    BY <1>9 DEF RunScript
  <2>2. outer' \in Seq([delimiter : Delimiters, abort : BOOLEAN]) /\ Len(outer') <= 1
    BY <2>1
  <2> QED  BY <1>9, <2>2 DEF RunScript, Entered, Nobody, Delimiters
<1>10. CASE EndOfScript
  <2>1. outer[1] \in [delimiter : Delimiters, abort : BOOLEAN]
    <3>1. outer # <<>> /\ outer \in Seq([delimiter : Delimiters, abort : BOOLEAN])
      BY <1>10 DEF EndOfScript
    <3>2. 1 \in 1..Len(outer)
      <4>1. Len(outer) \in Nat /\ Len(outer) # 0
        BY <3>1, EmptySeq
      <4> QED  BY <4>1
    <3> QED  BY <3>1, <3>2, ElementOfSeq
  <2>2. failed' \in BOOLEAN /\ ran' \in [delimiter : Delimiters, failed : BOOLEAN]
    BY <1>10, <2>1 DEF EndOfScript
  <2>3. outer' \in Seq([delimiter : Delimiters, abort : BOOLEAN]) /\ Len(outer') <= 1
    BY <1>10 DEF EndOfScript
  <2> QED  BY <1>10, <2>1, <2>2, <2>3 DEF EndOfScript, OwnDelimiter
<1>11. CASE Compile \/ Compiled \/ Run \/ RunEnds
  BY <1>11 DEF Compile, Compiled, Run, RunEnds, buffer, calls
<1>12. CASE CompileError \/ PostProcess
  BY <1>12 DEF CompileError, PostProcess, Return, buffer
<1>13. CASE Restart
  <2>1. outer' \in Seq([delimiter : Delimiters, abort : BOOLEAN]) /\ Len(outer') <= 1
    BY <1>13, EmptySeq DEF Restart
  <2>2. ran' = Nobody /\ delimiter' \in Delimiters /\ first' = TRUE /\ program' = TRUE
    BY <1>13 DEF Restart, Entered, Delimiters
  <2> QED  BY <1>13, <2>1, <2>2, NobodyIsTyped DEF Restart
<1> QED
  BY <1>1, <1>2, <1>3, <1>4, <1>5, <1>6, <1>7, <1>8, <1>9, <1>10, <1>11, <1>12, <1>13 DEF Next

LEMMA ChainSteps ==
    ASSUME LineType, ChainInv, [Next]_vars
    PROVE  /\ ChainInv'
           /\ c0 = "next" /\ c0' \in {"global", "mode", "compile"} => Honoured
<1> USE DEF ChainInv, Honoured
<1>1. CASE UNCHANGED vars
  BY <1>1 DEF vars, buffer, calls
<1>2. ASSUME NEW kind \in Kinds, Refuse(kind) PROVE ChainInv'
  BY <1>2 DEF Refuse, Return
<1>3. ASSUME NEW kind \in Kinds, FindGlobal(kind) PROVE ChainInv'
  BY <1>3 DEF FindGlobal, Begin
<1>4. CASE FindMode
  BY <1>4 DEF FindMode, Begin
<1>5. CASE TypeLine \/ NextScriptLine \/ Prompt \/ RunScript
  <2>1. ran' = Nobody /\ c0' \in {"next", "prompt"}
    BY <1>5 DEF TypeLine, NextScriptLine, Prompt, RunScript, Entered
  <2> QED  BY <2>1, NobodyIsTyped
<1>6. CASE EndOfLine \/ Skip
  BY <1>6 DEF EndOfLine, Skip, Find, Return, calls
<1>7. CASE After
  BY <1>7 DEF After, GoesOn, Return, buffer, LineType
<1>8. CASE RunGlobal \/ RunMode
  BY <1>8 DEF RunGlobal, RunMode, Done, MayPrompt, LineType
<1>9. CASE EndOfScript
  BY <1>9 DEF EndOfScript, OwnDelimiter, LineType
<1>10. CASE FindSyntax \/ Compile \/ Compiled \/ Run \/ RunEnds
  BY <1>10 DEF FindSyntax, Compile, Compiled, Run, RunEnds, buffer, calls
<1>11. CASE CompileError \/ PostProcess \/ Restart
  BY <1>11 DEF CompileError, PostProcess, Restart, Return
<1> QED  BY <1>1, <1>2, <1>3, <1>4, <1>5, <1>6, <1>7, <1>8, <1>9, <1>10, <1>11 DEF Next

-----------------------------------------------------------------------------
IInv == LineType /\ SyntaxInv /\ ChainInv

LEMMA Initial == Init => IInv
<1> SUFFICES ASSUME Init PROVE IInv
  OBVIOUS
<1>1. LineType
  <2>1. outer \in Seq([delimiter : Delimiters, abort : BOOLEAN]) /\ Len(outer) <= 1
    BY EmptySeq DEF Init
  <2> QED  BY <2>1, NobodyIsTyped DEF Init, LineType, Delimiters
<1>2. SyntaxInv
  BY Constants, EmptySeq DEF Init, Empty, SyntaxInv, SyntaxType, CountInv, RunInv
<1>3. ChainInv
  BY DEF Init, ChainInv
<1> QED  BY <1>1, <1>2, <1>3 DEF IInv

THEOREM InvariantHolds == Spec => []IInv
<1>1. IInv /\ [Next]_vars => IInv'
  BY SyntaxSteps, LineSteps, ChainSteps DEF IInv
<1> QED  BY Initial, <1>1, PTL DEF Spec

(* Programs stay within the limit of their buffer, whatever is typed and   *)
(* whichever repeats there are, the count of the compiler below the limit  *)
(* even where it has wrapped, and every result belongs to an item of the   *)
(* program.  How many results there are is ProgramsHaveRoom.               *)
THEOREM TypeCorrect == Spec => []TypeOK
<1>1. IInv => TypeOK
  <2> SUFFICES ASSUME IInv PROVE TypeOK
    OBVIOUS
  <2>1. ASSUME NEW i \in 1..Len(in)
        PROVE  in[i].item \in 1..Len(out) /\ in[i].error \in {"none", "bus", "full"}
    <3>1. in[i] \in Results1(Len(out))
      BY DEF IInv, SyntaxInv, SyntaxType
    <3> QED  BY <3>1 DEF Results1
  <2> QED  BY <2>1 DEF IInv, LineType, SyntaxInv, SyntaxType, TypeOK
<1> QED  BY <1>1, InvariantHolds, PTL

(* For every size of the result buffer, every width of the counts and      *)
(* every set of repeats: of the repeats that Counted lets pass, the        *)
(* compiler's count is an upper bound of the results that the handlers     *)
(* make, and none is written past the buffer.  If reads are tested with a  *)
(* repeat of theirs, the program runs to its end, or to an error of the    *)
(* bus.                                                                    *)
THEOREM ProgramsHaveRoom == Spec => []AcceptedProgramsRun
<1>1. IInv => AcceptedProgramsRun
  <2> SUFFICES ASSUME IInv, c0 = "run", Counted
               PROVE  /\ Len(in) < MaxLength
                      /\ ReadsCountTheirOwn =>
                            /\ \A i \in 1..Len(in) : in[i].error # "full"
                            /\ Ran /\ out # <<>> =>
                                 /\ in # <<>>
                                 /\ Last(in).item = Len(out) \/ Last(in).error = "bus"
    BY DEF AcceptedProgramsRun
  <2>1. PICK f : Counts(f)
    BY DEF IInv, SyntaxInv, CountInv, NoWrap, Counted
  <2>2. /\ Len(in) <= f[pos - 1]
        /\ ReadsCountTheirOwn =>
              /\ \A i \in 1..Len(in) : in[i].error # "full"
              /\ pos > 1 => /\ in # <<>>
                            /\ Last(in).item = pos - 1 \/ (Last(in).error = "bus" /\ Ran)
    BY <2>1 DEF IInv, SyntaxInv, RunInv
  <2>3. Len(out) \in Nat /\ Len(in) \in Nat /\ pos \in 1..Len(out) + 1
    BY DEF IInv, SyntaxInv, SyntaxType
  <2>4. Len(in) < MaxLength
    <3>1. pos - 1 \in 0..Len(out) /\ Len(out) \in 0..Len(out) /\ pos - 1 <= Len(out)
      BY <2>3
    <3>2. f[pos - 1] <= f[Len(out)] /\ f[Len(out)] = generated /\ f[pos - 1] \in Nat
      BY <2>1, <3>1 DEF Counts, CountsOf
    <3>3. generated \in Nat /\ generated < MaxLength /\ MaxLength \in Nat
      BY Constants DEF IInv, SyntaxInv, SyntaxType
    <3> QED  BY <2>2, <2>3, <3>2, <3>3
  <2>5. Ran /\ out # <<>> => pos > 1 /\ pos - 1 = Len(out)
    <3>1. out # <<>> => Len(out) > 0
      BY <2>3, EmptySeq DEF IInv, SyntaxInv, SyntaxType
    <3> QED  BY <2>3, <3>1 DEF Ran
  <2> QED  BY <2>2, <2>4, <2>5
<1> QED  BY <1>1, InvariantHolds, PTL

(* In every chain, through scripts and syntax, a command is begun only     *)
(* when the outcome of the one before it is what their delimiter demands.  *)
THEOREM ChainsAreHonoured == Spec => ChainIsHonoured
<1>1. IInv /\ [Next]_vars =>
        [c0 = "next" /\ c0' \in {"global", "mode", "compile"} => Honoured]_vars
  BY ChainSteps DEF IInv
<1> QED  BY <1>1, InvariantHolds, PTL DEF Spec, ChainIsHonoured

=============================================================================
