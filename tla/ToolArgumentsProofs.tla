-------------------------- MODULE ToolArgumentsProofs --------------------------
(***************************************************************************)
(* Proofs about the arguments at the router's two boundaries, for every    *)
(* document, value, amount of work, depth limit and number of errors.      *)
(*                                                                         *)
(* schema_supported and validate call themselves one level deeper, up to   *)
(* MaxDepth, and Conforms and Identity on parts of their value.  That the  *)
(* constants for them are what their code computes is a hypothesis of the  *)
(* theorems: ExamineRecurs, ValidateRecurs, ConformsRecurs (only of the    *)
(* documents in which no subschema comes back to its own value) and        *)
(* IdentityRecurs.  The recursions end, so operators that satisfy these    *)
(* equations exist, and TLC computes with them.                            *)
(*                                                                         *)
(* The argument.  What schema_supported visits is closed under going to a  *)
(* child, and so is what it remembers as supported (SoundExamine, from the *)
(* depth limit up): an admitted document has a set of subschemas, and of   *)
(* subschemas at depths, in which validate stays (Within).  There every    *)
(* call of validate decides its job (SoundValidate, from the depth limit   *)
(* up): no error means that the value conforms, an error other than a      *)
(* limit that it does not, and every memo is as good as a call (Clean).    *)
(* The trail of a job (Trail) shows that in a document without such a      *)
(* return the same subschema is never met twice above the same value.      *)
(***************************************************************************)
EXTENDS ToolArguments, FiniteSetTheorems, WellFoundedInduction, TLAPS

-----------------------------------------------------------------------------
(* Induction.                                                              *)

LEMMA NatSetInduction ==
  ASSUME NEW S \in SUBSET Nat, 0 \in S, \A n \in S : n + 1 \in S
  PROVE  S = Nat
<1> SUFFICES ASSUME Nat \ S # {} PROVE FALSE
  OBVIOUS
<1> DEFINE R == {ss \in Nat \X Nat : ss[1] < ss[2]}
<1>1. IsWellFoundedOn(R, Nat)
  BY NatLessThanWellFounded, Zenon DEF OpToRel
<1> HIDE DEF R
<1>2. PICK x \in Nat \ S : \A y \in Nat \ S : ~(<<y, x>> \in R)
  BY <1>1, WFMin
<1>3. \A y \in Nat \ S : ~(y < x)
  BY <1>2 DEF R
<1>4. x # 0 /\ x \in Nat
  OBVIOUS
<1>5. x - 1 \in Nat /\ x - 1 < x
  BY <1>4
<1>6. x - 1 \in S
  BY <1>3, <1>5
<1>7. x \in S
  BY <1>4, <1>6
<1> QED
  BY <1>2, <1>7

LEMMA LoopInduction ==
  ASSUME NEW n \in Nat, NEW S, 0 \in S, \A i \in 1..n : i - 1 \in S => i \in S
  PROVE  0..n \subseteq S
<1> DEFINE T == {k \in Nat : k <= n => k \in S}
<1>1. T \in SUBSET Nat /\ 0 \in T
  OBVIOUS
<1>2. \A k \in T : k + 1 \in T
  OBVIOUS
<1>3. T = Nat
  <2> HIDE DEF T
  <2> QED BY <1>1, <1>2, NatSetInduction
<1> QED
  BY <1>3

(* From a limit down to 0.                                                 *)
LEMMA DepthInduction ==
  ASSUME NEW N \in Nat, NEW S,
         \A d \in Nat : d >= N => d \in S,
         \A d \in Nat : d < N /\ d + 1 \in S => d \in S
  PROVE  Nat \subseteq S
<1> DEFINE T == {k \in Nat : \A d \in Nat : d + k >= N => d \in S}
<1>1. T \in SUBSET Nat /\ 0 \in T
  OBVIOUS
<1>2. \A k \in T : k + 1 \in T
  <2> SUFFICES ASSUME NEW k \in T, NEW d \in Nat, d + (k + 1) >= N PROVE d \in S
    OBVIOUS
  <2>1. d + 1 \in S
    OBVIOUS
  <2> QED
    BY <2>1
<1>3. T = Nat
  <2> HIDE DEF T
  <2> QED BY <1>1, <1>2, NatSetInduction
<1> QED
  BY <1>3

-----------------------------------------------------------------------------
(* The loops.                                                              *)

LEMMA VisitAllRuns ==
  ASSUME NEW d, NEW jobs, Len(jobs) \in Nat, NEW seen, NEW depth, NEW st, NEW stops
  PROVE  \E f : /\ f[0] = [st |-> st, results |-> << >>, halted |-> FALSE]
                /\ \A i \in 1..Len(jobs) :
                       f[i] = Visit(d, jobs[i], seen, depth, f[i - 1], stops)
                /\ VisitAll(d, jobs, seen, depth, st, stops) = f[Len(jobs)]
<1> DEFINE start == [st |-> st, results |-> << >>, halted |-> FALSE]
           Runs(f, k) ==
               f = [i \in 0..k |-> IF i = 0 THEN start
                                   ELSE Visit(d, jobs[i], seen, depth, f[i - 1], stops)]
           T == {k \in Nat : \E f : Runs(f, k)}
           f == CHOOSE f : Runs(f, Len(jobs))
<1>1. T = Nat
  <2> HIDE DEF start
  <2>1. T \in SUBSET Nat
    OBVIOUS
  <2>2. 0 \in T
    <3>1. Runs([i \in 0..0 |-> start], 0)
      OBVIOUS
    <3> QED BY <3>1
  <2>3. ASSUME NEW k \in T PROVE k + 1 \in T
    <3>0. k \in Nat
      OBVIOUS
    <3>1. PICK g : Runs(g, k)
      OBVIOUS
    <3> DEFINE h == [i \in 0..(k + 1) |->
                       IF i = k + 1 THEN Visit(d, jobs[k + 1], seen, depth, g[k], stops) ELSE g[i]]
    <3>2. Runs(h, k + 1)
      BY <3>0, <3>1
    <3> HIDE DEF Runs, h
    <3>3. \E g2 : Runs(g2, k + 1)
      BY <3>2
    <3> QED BY <3>0, <3>3
  <2> QED
    <3> HIDE DEF T
    <3> QED BY <2>1, <2>2, <2>3, NatSetInduction
<1>2. Runs(f, Len(jobs))
  <2>1. \E g : Runs(g, Len(jobs))
    BY <1>1
  <2> QED BY <2>1
<1>3. VisitAll(d, jobs, seen, depth, st, stops) = f[Len(jobs)]
  BY DEF VisitAll
<1>4. f[0] = start /\ \A i \in 1..Len(jobs) : f[i] = Visit(d, jobs[i], seen, depth, f[i - 1], stops)
  <2> HIDE DEF f, start
  <2> QED BY <1>2
<1> QED
  BY <1>3, <1>4

LEMMA ExamineAllRuns ==
  ASSUME NEW d, NEW children, Len(children) \in Nat, NEW active, NEW depth, NEW st
  PROVE  \E f : /\ f[0] = st
                /\ \A i \in 1..Len(children) :
                       f[i] = ExamineChild(d, children[i], active, depth, f[i - 1])
                /\ ExamineAll(d, children, active, depth, st) = f[Len(children)]
<1> DEFINE Runs(f, k) ==
               f = [i \in 0..k |-> IF i = 0 THEN st
                                   ELSE ExamineChild(d, children[i], active, depth, f[i - 1])]
           T == {k \in Nat : \E f : Runs(f, k)}
           f == CHOOSE f : Runs(f, Len(children))
<1>1. T = Nat
  <2>1. T \in SUBSET Nat
    OBVIOUS
  <2>2. 0 \in T
    <3>1. Runs([i \in 0..0 |-> st], 0)
      OBVIOUS
    <3> QED BY <3>1
  <2>3. ASSUME NEW k \in T PROVE k + 1 \in T
    <3>0. k \in Nat
      OBVIOUS
    <3>1. PICK g : Runs(g, k)
      OBVIOUS
    <3> DEFINE h == [i \in 0..(k + 1) |->
                       IF i = k + 1 THEN ExamineChild(d, children[k + 1], active, depth, g[k])
                       ELSE g[i]]
    <3>2. Runs(h, k + 1)
      BY <3>0, <3>1
    <3> HIDE DEF Runs, h
    <3>3. \E g2 : Runs(g2, k + 1)
      BY <3>2
    <3> QED BY <3>0, <3>3
  <2> QED
    <3> HIDE DEF T
    <3> QED BY <2>1, <2>2, <2>3, NatSetInduction
<1>2. Runs(f, Len(children))
  <2>1. \E g : Runs(g, Len(children))
    BY <1>1
  <2> QED BY <2>1
<1>3. ExamineAll(d, children, active, depth, st) = f[Len(children)]
  BY DEF ExamineAll
<1>4. f[0] = st /\ \A i \in 1..Len(children) :
                       f[i] = ExamineChild(d, children[i], active, depth, f[i - 1])
  <2> HIDE DEF f
  <2> QED BY <1>2
<1> QED
  BY <1>3, <1>4

LEMMA AppendToSet ==
  ASSUME NEW F, NEW seq \in Seq(F), NEW x \in F
  PROVE  ToSet(Append(seq, x)) = ToSet(seq) \cup {x}
<1>1. /\ Len(Append(seq, x)) = Len(seq) + 1 /\ Len(seq) \in Nat
      /\ \A i \in 1..Len(seq) : Append(seq, x)[i] = seq[i]
      /\ Append(seq, x)[Len(seq) + 1] = x
      /\ DOMAIN seq = 1..Len(seq) /\ DOMAIN Append(seq, x) = 1..(Len(seq) + 1)
  OBVIOUS
<1>2. ASSUME NEW y PROVE y \in ToSet(Append(seq, x)) <=> y \in ToSet(seq) \cup {x}
  BY <1>1 DEF ToSet
<1> QED
  BY <1>2

(* WithKeys keeps exactly the fields with one of the keys.                 *)
LEMMA WithKeysIs ==
  ASSUME NEW F, NEW fields \in Seq(F), NEW keys
  PROVE  /\ WithKeys(fields, keys) \in Seq(F)
         /\ \A x : x \in ToSet(WithKeys(fields, keys)) <=> x \in ToSet(fields) /\ x.key \in keys
<1> DEFINE Chosen(before, i) == IF fields[i].key \in keys THEN Append(before, fields[i]) ELSE before
           Runs(f, k) ==
               f = [i \in 0..k |-> IF i = 0 THEN << >> ELSE Chosen(f[i - 1], i)]
           T == {k \in Nat : \E f : Runs(f, k)}
           n == Len(fields)
           f == CHOOSE f : Runs(f, n)
<1>1. T = Nat
  <2> HIDE DEF Chosen
  <2>1. T \in SUBSET Nat
    OBVIOUS
  <2>2. 0 \in T
    <3>1. Runs([i \in 0..0 |-> << >>], 0)
      OBVIOUS
    <3> QED BY <3>1
  <2>3. ASSUME NEW k \in T PROVE k + 1 \in T
    <3>0. k \in Nat
      OBVIOUS
    <3>1. PICK g : Runs(g, k)
      OBVIOUS
    <3> DEFINE h == [i \in 0..(k + 1) |-> IF i = k + 1 THEN Chosen(g[k], k + 1) ELSE g[i]]
    <3>2. Runs(h, k + 1)
      BY <3>0, <3>1
    <3> HIDE DEF Runs, h
    <3>3. \E g2 : Runs(g2, k + 1)
      BY <3>2
    <3> QED BY <3>0, <3>3
  <2> QED
    <3> HIDE DEF T
    <3> QED BY <2>1, <2>2, <2>3, NatSetInduction
<1>2. Runs(f, n)
  <2>1. \E g : Runs(g, n)
    BY <1>1
  <2> QED BY <2>1
<1>3. WithKeys(fields, keys) = f[n]
  BY DEF WithKeys
<1>4. f[0] = << >> /\ \A i \in 1..n : f[i] = Chosen(f[i - 1], i)
  <2> HIDE DEF f, Chosen
  <2> QED BY <1>2
<1> HIDE DEF f
<1> DEFINE S == {i \in 0..n :
                   /\ f[i] \in Seq(F)
                   /\ \A x : x \in ToSet(f[i]) <=>
                                 \E j \in 1..i : x = fields[j] /\ x.key \in keys}
<1>5. 0..n \subseteq S
  <2>1. 0 \in S
    <3>1. f[0] = << >> /\ f[0] \in Seq(F) /\ ToSet(f[0]) = {}
      BY <1>4 DEF ToSet
    <3>2. 0 \in 0..n /\ \A x : ~ \E j \in 1..0 : x = fields[j] /\ x.key \in keys
      OBVIOUS
    <3> QED BY <3>1, <3>2
  <2>2. ASSUME NEW i \in 1..n, i - 1 \in S PROVE i \in S
    <3>0. /\ f[i - 1] \in Seq(F)
          /\ \A x : x \in ToSet(f[i - 1]) <=>
                        \E j \in 1..(i - 1) : x = fields[j] /\ x.key \in keys
          /\ f[i] = Chosen(f[i - 1], i) /\ i \in 0..n /\ fields[i] \in F
      BY <1>4, <2>2
    <3>1. CASE fields[i].key \in keys
      <4>1. f[i] = Append(f[i - 1], fields[i]) /\ f[i] \in Seq(F)
        BY <3>0, <3>1
      <4>2. ToSet(f[i]) = ToSet(f[i - 1]) \cup {fields[i]}
        <5>1. f[i - 1] \in Seq(F) /\ fields[i] \in F
          BY <3>0
        <5> QED BY ONLY <4>1, <5>1, AppendToSet
      <4>3. \A x : (\E j \in 1..i : x = fields[j] /\ x.key \in keys) <=>
                    \/ \E j \in 1..(i - 1) : x = fields[j] /\ x.key \in keys
                    \/ x = fields[i]
        BY <3>1
      <4> QED BY <4>1, <4>2, <4>3, <3>0
    <3>2. CASE fields[i].key \notin keys
      <4>1. \A x : (\E j \in 1..i : x = fields[j] /\ x.key \in keys) <=>
                    \E j \in 1..(i - 1) : x = fields[j] /\ x.key \in keys
        BY <3>2
      <4>2. f[i] = f[i - 1]
        BY <3>0, <3>2
      <4> QED BY <4>1, <4>2, <3>0
    <3> QED BY <3>1, <3>2
  <2> HIDE DEF S
  <2>3. n \in Nat
    OBVIOUS
  <2> QED BY <2>1, <2>2, <2>3, LoopInduction
<1>6. n \in S
  <2> HIDE DEF S
  <2> QED BY <1>5
<1>7. \A x : x \in ToSet(fields) <=> \E j \in 1..n : x = fields[j]
  BY DEF ToSet
<1> QED
  BY <1>3, <1>6, <1>7

-----------------------------------------------------------------------------
(* Sequences.                                                              *)

LEMMA ConcatToSet ==
  ASSUME NEW F, NEW a \in Seq(F), NEW b \in Seq(F)
  PROVE  a \o b \in Seq(F) /\ ToSet(a \o b) = ToSet(a) \cup ToSet(b)
<1>1. /\ a \o b \in Seq(F)
      /\ Len(a) \in Nat /\ Len(b) \in Nat /\ Len(a \o b) = Len(a) + Len(b)
      /\ \A i \in 1..Len(a) : (a \o b)[i] = a[i]
      /\ \A i \in 1..Len(b) : (a \o b)[Len(a) + i] = b[i]
      /\ DOMAIN a = 1..Len(a) /\ DOMAIN b = 1..Len(b) /\ DOMAIN (a \o b) = 1..Len(a \o b)
  OBVIOUS
<1>2. ASSUME NEW x \in ToSet(a \o b) PROVE x \in ToSet(a) \cup ToSet(b)
  <2>1. PICK i \in 1..(Len(a) + Len(b)) : x = (a \o b)[i]
    BY <1>1 DEF ToSet
  <2>2. CASE i \in 1..Len(a)
    BY <2>1, <2>2, <1>1 DEF ToSet
  <2>3. CASE i - Len(a) \in 1..Len(b)
    <3>1. (a \o b)[Len(a) + (i - Len(a))] = b[i - Len(a)]
      BY <2>3, <1>1
    <3>2. Len(a) + (i - Len(a)) = i
      BY <1>1
    <3> QED BY <2>1, <2>3, <3>1, <3>2, <1>1 DEF ToSet
  <2> QED BY <2>1, <2>2, <2>3, <1>1
<1>3. ASSUME NEW x \in ToSet(a) PROVE x \in ToSet(a \o b)
  <2>1. PICK i \in 1..Len(a) : x = a[i]
    BY <1>1 DEF ToSet
  <2>2. i \in DOMAIN (a \o b) /\ x = (a \o b)[i]
    BY <2>1, <1>1
  <2> QED BY <2>2 DEF ToSet
<1>4. ASSUME NEW x \in ToSet(b) PROVE x \in ToSet(a \o b)
  <2>1. PICK i \in 1..Len(b) : x = b[i]
    BY <1>1 DEF ToSet
  <2>2. Len(a) + i \in DOMAIN (a \o b) /\ x = (a \o b)[Len(a) + i]
    BY <2>1, <1>1
  <2> QED BY <2>2 DEF ToSet
<1> QED
  BY <1>1, <1>2, <1>3, <1>4

(* InSomeOrder lists each element once.                                    *)
LEMMA InSomeOrderIs ==
  ASSUME NEW S, IsFiniteSet(S)
  PROVE  /\ InSomeOrder(S) \in Seq(S)
         /\ ToSet(InSomeOrder(S)) = S
         /\ \A i, j \in DOMAIN InSomeOrder(S) : InSomeOrder(S)[i] = InSomeOrder(S)[j] => i = j
<1> DEFINE Pick(s) == CHOOSE x \in s : TRUE
           Small(n) == {s \in SUBSET S : Cardinality(s) <= n}
           Runs(f, D) == f = [s \in D |-> IF s = {} THEN << >>
                                          ELSE Append(f[s \ {Pick(s)}], Pick(s))]
           T == {n \in Nat : \E f : Runs(f, Small(n))}
           iter == CHOOSE f : Runs(f, SUBSET S)
<1>1. \A s \in SUBSET S : Cardinality(s) \in Nat /\ Cardinality(s) <= Cardinality(S)
  BY FS_Subset, FS_CardinalityType
<1>2. \A s \in SUBSET S : s # {} => /\ Pick(s) \in s /\ s \ {Pick(s)} \in SUBSET S
                                    /\ Cardinality(s \ {Pick(s)}) = Cardinality(s) - 1
                                    /\ Cardinality(s) # 0
  <2> SUFFICES ASSUME NEW s \in SUBSET S, s # {}
               PROVE  /\ Pick(s) \in s /\ s \ {Pick(s)} \in SUBSET S
                      /\ Cardinality(s \ {Pick(s)}) = Cardinality(s) - 1
                      /\ Cardinality(s) # 0
    OBVIOUS
  <2>1. IsFiniteSet(s)
    BY FS_Subset
  <2>2. Pick(s) \in s
    OBVIOUS
  <2>3. Cardinality(s \ {Pick(s)}) = Cardinality(s) - 1
    BY <2>1, <2>2, FS_RemoveElement
  <2>4. Cardinality(s) # 0
    BY <2>1, FS_EmptySet
  <2> QED BY <2>2, <2>3, <2>4
<1>3. \A s \in Small(0) : s = {}
  <2> SUFFICES ASSUME NEW s \in SUBSET S, Cardinality(s) <= 0 PROVE s = {}
    OBVIOUS
  <2>1. IsFiniteSet(s)
    BY FS_Subset
  <2>2. Cardinality(s) = 0
    BY <1>1
  <2> QED BY <2>1, <2>2, FS_EmptySet
<1> HIDE DEF Pick
<1>4. T = Nat
  <2>1. T \in SUBSET Nat
    OBVIOUS
  <2>2. 0 \in T
    <3>2. Runs([s \in Small(0) |-> << >>], Small(0))
      BY <1>3
    <3> HIDE DEF Runs, Small
    <3>3. \E f : Runs(f, Small(0))
      BY <3>2
    <3> QED BY <3>3
  <2>3. ASSUME NEW k \in T PROVE k + 1 \in T
    <3>0. k \in Nat
      OBVIOUS
    <3>1. PICK g : Runs(g, Small(k))
      OBVIOUS
    <3> DEFINE h == [s \in Small(k + 1) |->
                       IF s = {} THEN << >> ELSE Append(g[s \ {Pick(s)}], Pick(s))]
    <3>2. \A s \in Small(k) : s \in Small(k + 1) /\ h[s] = g[s]
      <4> SUFFICES ASSUME NEW s \in Small(k) PROVE s \in Small(k + 1) /\ h[s] = g[s]
        OBVIOUS
      <4>1. s \in Small(k + 1)
        BY <3>0, <1>1
      <4> HIDE DEF Small
      <4> QED BY <4>1, <3>1
    <3>3. \A s \in Small(k + 1) : s # {} => s \ {Pick(s)} \in Small(k)
      BY <3>0, <1>1, <1>2
    <3>4. Runs(h, Small(k + 1))
      <4> HIDE DEF Small
      <4> QED BY <3>2, <3>3
    <3> HIDE DEF Runs, Small, h
    <3>5. \E f : Runs(f, Small(k + 1))
      BY <3>4
    <3> QED BY <3>0, <3>5
  <2> HIDE DEF T
  <2> QED BY <2>1, <2>2, <2>3, NatSetInduction
<1>5. Runs(iter, SUBSET S)
  <2>1. Small(Cardinality(S)) = SUBSET S /\ Cardinality(S) \in Nat
    BY <1>1
  <2>2. Cardinality(S) \in T
    BY <1>4, <2>1
  <2> HIDE DEF Runs
  <2>3. \E f : Runs(f, SUBSET S)
    BY <2>1, <2>2
  <2> QED BY <2>3
<1>6. InSomeOrder(S) = iter[S]
  BY DEF InSomeOrder, FoldSet, MapThenFoldSet, Pick
<1> HIDE DEF iter
<1> DEFINE Lists(s) == /\ iter[s] \in Seq(S) /\ ToSet(iter[s]) = s
                       /\ \A i, j \in DOMAIN iter[s] : iter[s][i] = iter[s][j] => i = j
           U == {n \in Nat : \A s \in Small(n) : Lists(s)}
<1>7. \A s \in SUBSET S : s # {} => iter[s] = Append(iter[s \ {Pick(s)}], Pick(s))
  BY <1>5
<1>8. U = Nat
  <2>1. U \in SUBSET Nat
    OBVIOUS
  <2>2. Lists({})
    <3>1. iter[{}] = << >>
      BY <1>5
    <3> QED BY <3>1 DEF ToSet
  <2>3. 0 \in U
    <3> HIDE DEF Lists
    <3> QED BY <1>3, <2>2
  <2>4. ASSUME NEW k \in U PROVE k + 1 \in U
    <3>0. k \in Nat /\ \A s \in Small(k) : Lists(s)
      OBVIOUS
    <3> SUFFICES ASSUME NEW s \in Small(k + 1), s # {} PROVE Lists(s)
      <4> HIDE DEF Lists, Small
      <4> QED BY <2>2, <3>0
    <3> DEFINE x == Pick(s)
               rest == iter[s \ {x}]
    <3>1. x \in s /\ x \in S /\ s \ {x} \in Small(k)
      BY <1>1, <1>2, <3>0
    <3>2. Lists(s \ {x})
      <4> HIDE DEF Lists, Small, x
      <4> QED BY <3>0, <3>1
    <3>3. rest \in Seq(S) /\ x \in S /\ ToSet(rest) = s \ {x} /\ iter[s] = Append(rest, x)
      BY <3>1, <3>2, <1>7
    <3>4. \A i, j \in DOMAIN rest : rest[i] = rest[j] => i = j
      BY <3>2
    <3> HIDE DEF rest, x
    <3>5. iter[s] \in Seq(S) /\ ToSet(iter[s]) = s
      <4>1. ToSet(Append(rest, x)) = ToSet(rest) \cup {x} /\ Append(rest, x) \in Seq(S)
        BY ONLY <3>3, AppendToSet
      <4>2. (s \ {x}) \cup {x} = s
        BY ONLY <3>1
      <4>3. ToSet(Append(rest, x)) = s
        BY ONLY <4>1, <4>2, <3>3
      <4> QED BY ONLY <4>1, <4>3, <3>3
    <3>6. /\ Len(rest) \in Nat /\ DOMAIN rest = 1..Len(rest)
          /\ DOMAIN Append(rest, x) = 1..(Len(rest) + 1)
          /\ \A i \in 1..Len(rest) : Append(rest, x)[i] = rest[i] /\ rest[i] # x
          /\ Append(rest, x)[Len(rest) + 1] = x
      <4>1. rest \in Seq(S) /\ x \in S
        BY <3>3
      <4>2. \A i \in DOMAIN rest : rest[i] \in s \ {x}
        <5>1. \A i \in DOMAIN rest : rest[i] \in ToSet(rest)
          BY ONLY DEF ToSet
        <5> QED BY ONLY <5>1, <3>3
      <4> QED BY ONLY <4>1, <4>2
    <3>7. \A i, j \in DOMAIN iter[s] : iter[s][i] = iter[s][j] => i = j
      BY <3>3, <3>4, <3>6
    <3> QED BY <3>5, <3>7
  <2> HIDE DEF U
  <2> QED BY <2>1, <2>3, <2>4, NatSetInduction
<1>9. Lists(S)
  <2> HIDE DEF Lists
  <2>1. S \in Small(Cardinality(S)) /\ Cardinality(S) \in U
    BY <1>1, <1>8
  <2> QED BY <2>1
<1> QED
  BY <1>6, <1>9

LEMMA WithIs ==
  ASSUME NEW memo, NEW key, NEW v
  PROVE  /\ DOMAIN With(memo, key, v) = {key} \cup DOMAIN memo
         /\ With(memo, key, v)[key] = v
         /\ \A x \in DOMAIN memo : x # key => With(memo, key, v)[x] = memo[x]
BY DEF With

-----------------------------------------------------------------------------
(* schema_supported.                                                       *)

(* schema_supported is what its code says, which calls it one level down;  *)
(* from MaxDepth on the code calls it no more.                             *)
ExamineRecurs ==
    \A d \in Documents, depth \in Nat : \A s, active, st :
        Examine(d, s, active, depth, st) = ExamineStep(d, s, active, depth, st)

(* The subschemas, each at a depth, remembered as supported.               *)
Trusted(memo) == {k \in DOMAIN memo : memo[k] = TRUE}

(* What the memo says while the subschemas of a set are being examined.    *)
Claims(d, active, memo) ==
    /\ \A k \in DOMAIN memo : memo[k] \in BOOLEAN
    /\ \A s, e : <<s, e>> \in Trusted(memo) =>
           /\ s \in DOMAIN d /\ e \in Nat /\ e < MaxDepth
           /\ \A c \in OnAnyValue(d, s) :
                  /\ c \in active \/ \E e2 : <<c, e2>> \in Trusted(memo)
                  /\ Acyclic(d) => <<c, e + 1>> \in Trusted(memo)

(* Each subschema being examined leads to another, or to the next.         *)
Path(d, active, s) ==
    /\ active \subseteq DOMAIN d
    /\ \A a \in active : \E c \in OnAnyValue(d, a) : c \in active \cup {s}

(* A verdict, what is remembered of others and the work left.              *)
Examined(st) == st = [ok |-> st.ok, memo |-> st.memo, left |-> st.left]

(* What a call that supports a subschema remembers, and forgets nothing of.*)
Vouches(d, s, active, depth, before, out) ==
    /\ Examined(out) /\ out.ok \in BOOLEAN
    /\ out.ok => /\ Claims(d, active, out.memo)
                 /\ Trusted(before.memo) \subseteq Trusted(out.memo)
                 /\ s \in active \/ \E e : <<s, e>> \in Trusted(out.memo)
                 /\ Acyclic(d) => <<s, depth>> \in Trusted(out.memo)

(* What is proved of the calls at a depth, whatever called them.           *)
SoundExamine(d, depth) ==
    \A s, active, st :
        Path(d, active, s) /\ Examined(st) /\ st.ok = TRUE /\ Claims(d, active, st.memo)
        => Vouches(d, s, active, depth, st, Examine(d, s, active, depth, st))

(* A path that comes back to a subschema is a cycle.                       *)
LEMMA NoCycle ==
  ASSUME NEW d, NEW active, NEW s \in active, Path(d, active, s), Acyclic(d)
  PROVE  FALSE
<1>1. \A S \in SUBSET DOMAIN d : S # {} => \E x \in S : OnAnyValue(d, x) \cap S = {}
  BY DEF Acyclic
<1>2. PICK x \in active : OnAnyValue(d, x) \cap active = {}
  BY <1>1 DEF Path
<1> QED
  BY <1>2 DEF Path

LEMMA ChildrenSeq ==
  ASSUME NEW d \in Documents, NEW s \in DOMAIN d
  PROVE  /\ Children(d[s]) \in Seq(Ids)
         /\ ToSet(Children(d[s])) =
                {x \in {d[s].ref, d[s].items, d[s].extra, d[s].names} : x \notin {None, Closed}}
                \cup ToSet(d[s].defs) \cup ToSet(d[s].any) \cup ToSet(d[s].all) \cup ToSet(d[s].one)
                \cup {d[s].props[k] : k \in DOMAIN d[s].props}
<1> DEFINE n == d[s]
<1>0. Subschema(n)
  BY DocumentsAssumption
<1> HIDE DEF n
<1>1. ASSUME NEW x \in Ids \cup {None, Closed}
      PROVE  Present(x) \in Seq(Ids) /\ ToSet(Present(x)) = {y \in {x} : y \notin {None, Closed}}
  BY <1>1 DEF Present, ToSet
<1>2. SubschemasOfProps(n) \in Seq(Ids) /\ ToSet(SubschemasOfProps(n)) = {n.props[k] : k \in DOMAIN n.props}
  <2> DEFINE keys == InSomeOrder(DOMAIN n.props)
  <2>1. keys \in Seq(DOMAIN n.props) /\ ToSet(keys) = DOMAIN n.props
    BY <1>0, InSomeOrderIs DEF Subschema
  <2>2. SubschemasOfProps(n) = [i \in DOMAIN keys |-> n.props[keys[i]]]
    BY DEF SubschemasOfProps
  <2> HIDE DEF keys
  <2>3. \A i \in DOMAIN keys : n.props[keys[i]] \in Ids
    BY <2>1, <1>0 DEF Subschema
  <2>4. SubschemasOfProps(n) \in Seq(Ids)
    BY <2>1, <2>2, <2>3
  <2>5. ToSet(SubschemasOfProps(n)) = {n.props[k] : k \in DOMAIN n.props}
    BY <2>1, <2>2 DEF ToSet
  <2> QED BY <2>4, <2>5
<1>3. n.defs \in Seq(Ids) /\ n.any \in Seq(Ids) /\ n.all \in Seq(Ids) /\ n.one \in Seq(Ids)
  BY <1>0 DEF Subschema
<1>4. \A x \in {n.ref, n.items, n.extra, n.names} : x \in Ids \cup {None, Closed}
  BY <1>0 DEF Subschema
<1> DEFINE p == SubschemasOfProps(n)
           c1 == Present(n.ref) \o n.defs
           c2 == c1 \o p
           c3 == c2 \o n.any
           c4 == c3 \o n.all
           c5 == c4 \o n.one
           c6 == c5 \o Present(n.items)
           c7 == c6 \o Present(n.extra)
           c8 == c7 \o Present(n.names)
<1>5. Children(n) = c8
  BY DEF Children
<1> HIDE DEF p, c1, c2, c3, c4, c5, c6, c7, c8
<1>a. c1 \in Seq(Ids) /\ ToSet(c1) = ToSet(Present(n.ref)) \cup ToSet(n.defs)
  BY <1>1, <1>3, <1>4, ConcatToSet DEF c1
<1>b. c2 \in Seq(Ids) /\ ToSet(c2) = ToSet(c1) \cup ToSet(p)
  BY <1>2, <1>a, ConcatToSet DEF c2, p
<1>c. c3 \in Seq(Ids) /\ ToSet(c3) = ToSet(c2) \cup ToSet(n.any)
  BY <1>3, <1>b, ConcatToSet DEF c3
<1>d. c4 \in Seq(Ids) /\ ToSet(c4) = ToSet(c3) \cup ToSet(n.all)
  BY <1>3, <1>c, ConcatToSet DEF c4
<1>e. c5 \in Seq(Ids) /\ ToSet(c5) = ToSet(c4) \cup ToSet(n.one)
  BY <1>3, <1>d, ConcatToSet DEF c5
<1>f. c6 \in Seq(Ids) /\ ToSet(c6) = ToSet(c5) \cup ToSet(Present(n.items))
  BY <1>1, <1>4, <1>e, ConcatToSet DEF c6
<1>g. c7 \in Seq(Ids) /\ ToSet(c7) = ToSet(c6) \cup ToSet(Present(n.extra))
  BY <1>1, <1>4, <1>f, ConcatToSet DEF c7
<1>h. c8 \in Seq(Ids) /\ ToSet(c8) = ToSet(c7) \cup ToSet(Present(n.names))
  BY <1>1, <1>4, <1>g, ConcatToSet DEF c8
<1>6. \A x \in {n.ref, n.items, n.extra, n.names} :
          ToSet(Present(x)) = {y \in {x} : y \notin {None, Closed}}
  BY <1>1, <1>4
<1>7. ToSet(c8) = {x \in {n.ref, n.items, n.extra, n.names} : x \notin {None, Closed}}
                \cup ToSet(n.defs) \cup ToSet(n.any) \cup ToSet(n.all) \cup ToSet(n.one)
                \cup ToSet(p)
  BY <1>a, <1>b, <1>c, <1>d, <1>e, <1>f, <1>g, <1>h, <1>6
<1> QED
  BY <1>5, <1>7, <1>h, <1>2 DEF n, p

(* A subschema and its children, when its verdict is remembered.           *)
LEMMA ExamineNode ==
  ASSUME ExamineRecurs, NEW d \in Documents, NEW depth \in Nat, depth < MaxDepth,
         SoundExamine(d, depth + 1),
         NEW s, NEW active, NEW st, Path(d, active, s), Examined(st), st.ok = TRUE,
         Claims(d, active, st.memo), s \in DOMAIN d, s \notin active, <<s, depth>> \notin DOMAIN st.memo
  PROVE  Vouches(d, s, active, depth, st,
             LET worked  == [st EXCEPT !.left = @ - 1]
                 visited == ExamineAll(d, Children(d[s]), active \cup {s}, depth + 1, worked)
             IN  [visited EXCEPT !.memo = With(@, <<s, depth>>, visited.ok)])
<1> DEFINE worked   == [st EXCEPT !.left = @ - 1]
           children == Children(d[s])
           below    == active \cup {s}
           lower    == depth + 1
           key      == <<s, depth>>
           visited  == ExamineAll(d, children, below, lower, worked)
           n        == Len(children)
<1>1. children \in Seq(Ids) /\ n \in Nat /\ DOMAIN children = 1..n /\ OnAnyValue(d, s) = ToSet(children)
  BY ChildrenSeq DEF OnAnyValue
<1>2. Examined(worked) /\ worked.ok = TRUE /\ worked.memo = st.memo
  BY DEF Examined
<1>3. \A c \in OnAnyValue(d, s) : Path(d, below, c)
  BY DEF Path
<1>4. Claims(d, below, st.memo)
  BY DEF Claims
<1> HIDE DEF worked, children, n, lower, key
<1>5. PICK f : /\ f[0] = worked
               /\ \A i \in 1..n : f[i] = ExamineChild(d, children[i], below, lower, f[i - 1])
               /\ visited = f[n]
  <2>1. Len(children) \in Nat
    BY <1>1 DEF n
  <2> HIDE DEF below, lower
  <2>2. \E f : /\ f[0] = worked
               /\ \A i \in 1..Len(children) :
                      f[i] = ExamineChild(d, children[i], below, lower, f[i - 1])
               /\ ExamineAll(d, children, below, lower, worked) = f[Len(children)]
    BY ONLY <2>1, ExamineAllRuns
  <2> QED BY ONLY <2>2 DEF n, visited
<1> HIDE DEF visited
<1> DEFINE Loop(i) ==
             /\ Examined(f[i]) /\ f[i].ok \in BOOLEAN
             /\ f[i].ok => /\ Claims(d, below, f[i].memo)
                           /\ Trusted(st.memo) \subseteq Trusted(f[i].memo)
                           /\ \A j \in 1..i :
                                  /\ children[j] \in below \/ \E e : <<children[j], e>> \in Trusted(f[i].memo)
                                  /\ Acyclic(d) => <<children[j], lower>> \in Trusted(f[i].memo)
           S == {i \in 0..n : Loop(i)}
<1>6. 0..n \subseteq S
  <2>1. 0 \in S
    <3>1. Examined(f[0]) /\ f[0].ok = TRUE /\ f[0].memo = st.memo
      BY <1>2, <1>5
    <3>2. Claims(d, below, f[0].memo)
      BY <1>4, <3>1
    <3>3. \A j \in 1..0 : FALSE
      OBVIOUS
    <3>4. Loop(0)
      BY <3>1, <3>2, <3>3
    <3> HIDE DEF Loop
    <3> QED BY <1>1, <3>4
  <2>2. ASSUME NEW i \in 1..n, i - 1 \in S PROVE i \in S
    <3>1. Loop(i - 1) /\ f[i] = ExamineChild(d, children[i], below, lower, f[i - 1])
      BY <1>5, <2>2
    <3>2. children[i] \in OnAnyValue(d, s)
      BY <1>1 DEF ToSet
    <3>3. CASE ~f[i - 1].ok
      <4>1. f[i] = f[i - 1]
        BY <3>1, <3>3 DEF ExamineChild
      <4> QED BY <3>1, <3>3, <4>1
    <3>4. CASE f[i - 1].ok
      <4>1. f[i] = Examine(d, children[i], below, lower, f[i - 1])
        BY <3>1, <3>4 DEF ExamineChild
      <4>2. Path(d, below, children[i]) /\ Examined(f[i - 1]) /\ f[i - 1].ok = TRUE
            /\ Claims(d, below, f[i - 1].memo)
        BY <3>1, <3>2, <3>4, <1>3
      <4>3. Vouches(d, children[i], below, lower, f[i - 1], f[i])
        BY <4>1, <4>2 DEF SoundExamine, lower
      <4>4. ASSUME f[i].ok, NEW j \in 1..i
            PROVE  /\ children[j] \in below \/ \E e : <<children[j], e>> \in Trusted(f[i].memo)
                   /\ Acyclic(d) => <<children[j], lower>> \in Trusted(f[i].memo)
        <5>1. CASE j = i
          BY <4>3, <4>4, <5>1 DEF Vouches
        <5>2. CASE j \in 1..(i - 1)
          <6>1. Trusted(f[i - 1].memo) \subseteq Trusted(f[i].memo)
            BY <4>3, <4>4 DEF Vouches
          <6> QED BY <3>1, <3>4, <5>2, <6>1
        <5>3. j = i \/ j \in 1..(i - 1)
          BY <1>1
        <5> QED BY <5>1, <5>2, <5>3
      <4>5. Loop(i)
        BY <3>1, <3>4, <4>3, <4>4 DEF Vouches
      <4> HIDE DEF Loop
      <4> QED BY <4>5
    <3> QED BY <3>1, <3>3, <3>4
  <2> HIDE DEF S
  <2> QED BY <1>1, <2>1, <2>2, LoopInduction
<1>7. Loop(n)
  <2>1. n \in S
    <3> HIDE DEF S
    <3> QED BY <1>1, <1>6
  <2> HIDE DEF Loop
  <2> QED BY <2>1
<1> DEFINE memo == With(visited.memo, key, visited.ok)
           out  == [visited EXCEPT !.memo = memo]
<1>8. Examined(out) /\ out.ok = visited.ok /\ out.ok \in BOOLEAN /\ out.memo = memo
  BY <1>5, <1>7 DEF Examined
<1>9. ASSUME visited.ok
      PROVE  /\ Claims(d, active, memo) /\ Trusted(st.memo) \subseteq Trusted(memo)
             /\ key \in Trusted(memo)
  <2>1. visited.ok = TRUE /\ Claims(d, below, visited.memo)
        /\ Trusted(st.memo) \subseteq Trusted(visited.memo)
    BY <1>5, <1>7, <1>9
  <2>2. /\ DOMAIN memo = {key} \cup DOMAIN visited.memo
        /\ memo[key] = TRUE
        /\ \A x \in DOMAIN visited.memo : x # key => memo[x] = visited.memo[x]
    <3>1. /\ DOMAIN memo = {key} \cup DOMAIN visited.memo
          /\ memo[key] = visited.ok
          /\ \A x \in DOMAIN visited.memo : x # key => memo[x] = visited.memo[x]
      BY ONLY DEF memo, With
    <3> QED BY ONLY <3>1, <2>1
  <2> HIDE DEF memo
  <2>3. Trusted(memo) = Trusted(visited.memo) \cup {key}
    BY <2>2 DEF Trusted
  <2>4. \A k \in DOMAIN memo : memo[k] \in BOOLEAN
    BY <2>1, <2>2 DEF Claims
  <2>5. ASSUME NEW c \in OnAnyValue(d, s)
        PROVE  /\ c \in active \/ \E e : <<c, e>> \in Trusted(memo)
               /\ Acyclic(d) => <<c, lower>> \in Trusted(memo)
    <3>1. PICK j \in 1..n : c = children[j]
      BY <1>1 DEF ToSet
    <3>2. /\ c \in below \/ \E e : <<c, e>> \in Trusted(memo)
          /\ Acyclic(d) => <<c, lower>> \in Trusted(memo)
      BY <1>5, <1>7, <1>9, <2>3, <3>1
    <3>3. <<s, depth>> \in Trusted(memo)
      BY <2>3 DEF key
    <3> QED BY <3>2, <3>3
  <2>6. ASSUME NEW t, NEW e, <<t, e>> \in Trusted(memo)
        PROVE  /\ t \in DOMAIN d /\ e \in Nat /\ e < MaxDepth
               /\ \A c \in OnAnyValue(d, t) :
                     /\ c \in active \/ \E e2 : <<c, e2>> \in Trusted(memo)
                     /\ Acyclic(d) => <<c, e + 1>> \in Trusted(memo)
    <3>1. CASE <<t, e>> = key
      <4>1. t = s /\ e = depth
        BY <3>1 DEF key
      <4>2. \A c \in OnAnyValue(d, s) :
                  /\ c \in active \/ \E e2 : <<c, e2>> \in Trusted(memo)
                  /\ Acyclic(d) => <<c, lower>> \in Trusted(memo)
        BY <2>5
      <4>3. s \in DOMAIN d /\ depth \in Nat /\ depth < MaxDepth
        OBVIOUS
      <4> QED BY <4>1, <4>2, <4>3 DEF lower
    <3>2. CASE <<t, e>> \in Trusted(visited.memo)
      <4>1. /\ t \in DOMAIN d /\ e \in Nat /\ e < MaxDepth
            /\ \A c \in OnAnyValue(d, t) :
                  /\ c \in below \/ \E e2 : <<c, e2>> \in Trusted(visited.memo)
                  /\ Acyclic(d) => <<c, e + 1>> \in Trusted(visited.memo)
        BY <2>1, <3>2 DEF Claims
      <4>2. Trusted(visited.memo) \subseteq Trusted(memo) /\ <<s, depth>> \in Trusted(memo)
        BY <2>3 DEF key
      <4> HIDE DEF key
      <4> QED BY <4>1, <4>2
    <3> QED BY <2>3, <2>6, <3>1, <3>2
  <2>7. Claims(d, active, memo)
    BY <2>4, <2>6 DEF Claims
  <2> QED BY <2>1, <2>3, <2>7
<1>10. Vouches(d, s, active, depth, st, out)
  <2> HIDE DEF out, memo
  <2> QED BY <1>8, <1>9 DEF Vouches, key
<1> QED
  BY <1>10 DEF worked, visited, children, lower, key

(* schema_supported, from the depth limit up.                              *)
LEMMA ExamineSound ==
  ASSUME ExamineRecurs, NEW d \in Documents
  PROVE  \A depth \in Nat : SoundExamine(d, depth)
<1> DEFINE S == {depth \in Nat : SoundExamine(d, depth)}
<1>0. MaxDepth \in Nat
  BY ValidatorAssumption
<1>1. ASSUME NEW depth \in Nat, depth >= MaxDepth PROVE depth \in S
  <2> SUFFICES ASSUME NEW s, NEW active, NEW st, Examined(st)
               PROVE  Vouches(d, s, active, depth, st, Examine(d, s, active, depth, st))
    BY DEF SoundExamine
  <2>1. Examine(d, s, active, depth, st) = ExamineStep(d, s, active, depth, st)
    BY DEF ExamineRecurs
  <2>2. ExamineStep(d, s, active, depth, st) = [st EXCEPT !.ok = FALSE]
    BY <1>1, <1>0 DEF ExamineStep
  <2> QED BY <2>1, <2>2 DEF Vouches, Examined
<1>2. ASSUME NEW depth \in Nat, depth < MaxDepth, depth + 1 \in S PROVE depth \in S
  <2> SUFFICES ASSUME NEW s, NEW active, NEW st, Path(d, active, s), Examined(st), st.ok = TRUE,
                      Claims(d, active, st.memo)
               PROVE  Vouches(d, s, active, depth, st, Examine(d, s, active, depth, st))
    BY DEF SoundExamine
  <2> DEFINE worked  == [st EXCEPT !.left = @ - 1]
             visited == ExamineAll(d, Children(d[s]), active \cup {s}, depth + 1, worked)
             key     == <<s, depth>>
             out     == Examine(d, s, active, depth, st)
  <2>1. out = IF s \notin DOMAIN d THEN [st EXCEPT !.ok = FALSE]
              ELSE IF s \in active THEN st
              ELSE IF key \in DOMAIN st.memo THEN [st EXCEPT !.ok = st.memo[key]]
              ELSE IF worked.left < 0 THEN [worked EXCEPT !.ok = FALSE]
              ELSE IF ~KeywordsSupported(d, s)
                   THEN [worked EXCEPT !.ok = FALSE, !.memo = With(@, key, FALSE)]
              ELSE [visited EXCEPT !.memo = With(@, key, visited.ok)]
    <3>1. out = ExamineStep(d, s, active, depth, st)
      BY DEF ExamineRecurs
    <3>2. ~(depth >= MaxDepth)
      BY <1>0, <1>2
    <3>3. [worked EXCEPT !.ok = FALSE].memo = worked.memo /\ [worked EXCEPT !.ok = FALSE].ok = FALSE
      BY DEF Examined
    <3>4. [[worked EXCEPT !.ok = FALSE] EXCEPT !.memo = With(@, key, [worked EXCEPT !.ok = FALSE].ok)]
          = [worked EXCEPT !.ok = FALSE, !.memo = With(@, key, FALSE)]
      BY <3>3 DEF Examined
    <3> QED BY <3>1, <3>2, <3>4 DEF ExamineStep, ExamineKey
  <2> HIDE DEF out
  <2>2. CASE s \notin DOMAIN d
    BY <2>1, <2>2 DEF Vouches, Examined, out
  <2>3. CASE s \in DOMAIN d /\ s \in active
    <3>1. out = st
      BY <2>1, <2>3
    <3>2. ~Acyclic(d)
      BY <2>3, NoCycle
    <3> QED BY <3>1, <3>2, <2>3 DEF Vouches, out
  <2>4. CASE s \in DOMAIN d /\ s \notin active /\ key \in DOMAIN st.memo
    <3>1. out = [st EXCEPT !.ok = st.memo[key]]
      BY <2>1, <2>4
    <3>2. st.memo[key] \in BOOLEAN
      BY <2>4 DEF Claims
    <3>3. out.ok = st.memo[key] /\ out.memo = st.memo /\ Examined(out)
      BY <3>1 DEF Examined
    <3>4. out.ok => key \in Trusted(out.memo)
      BY <3>2, <3>3, <2>4 DEF Trusted
    <3> QED BY <3>2, <3>3, <3>4 DEF Vouches, out
  <2>5. CASE s \in DOMAIN d /\ s \notin active /\ key \notin DOMAIN st.memo
             /\ (worked.left < 0 \/ ~KeywordsSupported(d, s))
    BY <2>1, <2>5 DEF Vouches, Examined, out
  <2>6. CASE s \in DOMAIN d /\ s \notin active /\ key \notin DOMAIN st.memo
             /\ ~(worked.left < 0) /\ KeywordsSupported(d, s)
    <3>1. out = [visited EXCEPT !.memo = With(@, key, visited.ok)]
      BY <2>1, <2>6
    <3>2. SoundExamine(d, depth + 1) /\ <<s, depth>> \notin DOMAIN st.memo
      BY <1>2, <2>6
    <3>3. Vouches(d, s, active, depth, st, [visited EXCEPT !.memo = With(@, key, visited.ok)])
      BY <3>2, <2>6, <1>2, ExamineNode
    <3> QED BY <3>1, <3>3 DEF out
  <2> QED BY <2>2, <2>3, <2>4, <2>5, <2>6 DEF out
<1> HIDE DEF S
<1>3. Nat \subseteq S
  BY <1>0, <1>1, <1>2, DepthInduction
<1> QED
  BY <1>3 DEF S

(* The schema objects of an admitted document that the root leads to; and, *)
(* if it does not recur, the depths at which it leads to them.             *)
Within(d, R, P) ==
    /\ Root \in R /\ R \subseteq DOMAIN d
    /\ \A s \in R : OnAnyValue(d, s) \subseteq R
    /\ Acyclic(d) => /\ <<Root, 0>> \in P
                     /\ \A s, e : <<s, e>> \in P =>
                           /\ e \in Nat /\ e < MaxDepth
                           /\ \A c \in OnAnyValue(d, s) : <<c, e + 1>> \in P

LEMMA Admitted ==
  ASSUME ExamineRecurs, NEW d \in Documents
  PROVE  /\ SchemaSupported(d) \in BOOLEAN
         /\ SchemaSupported(d) => \E R, P : Within(d, R, P)
<1> DEFINE st  == [ok |-> TRUE, memo |-> << >>, left |-> MaxExamined]
           out == Examine(d, Root, {}, 0, st)
           P   == Trusted(out.memo)
           R   == {s \in DOMAIN d : \E e : <<s, e>> \in P}
<1>1. Path(d, {}, Root) /\ Examined(st) /\ st.ok = TRUE /\ Claims(d, {}, st.memo)
  BY DEF Path, Examined, Claims, Trusted
<1> HIDE DEF st
<1>2. Vouches(d, Root, {}, 0, st, out)
  BY <1>1, ExamineSound DEF SoundExamine
<1>3. SchemaSupported(d) = out.ok
  BY DEF SchemaSupported, st
<1> HIDE DEF out
<1>4. ASSUME out.ok PROVE Within(d, R, P)
  <2>1. /\ Claims(d, {}, out.memo) /\ \E e : <<Root, e>> \in P
        /\ Acyclic(d) => <<Root, 0>> \in P
    BY <1>2, <1>4 DEF Vouches
  <2>2. \A s, e : <<s, e>> \in P =>
           /\ s \in DOMAIN d /\ e \in Nat /\ e < MaxDepth
           /\ \A c \in OnAnyValue(d, s) :
                  /\ \E e2 : <<c, e2>> \in P
                  /\ Acyclic(d) => <<c, e + 1>> \in P
    BY <2>1 DEF Claims
  <2> HIDE DEF P
  <2> QED BY <2>1, <2>2 DEF Within
<1> QED
  BY <1>2, <1>3, <1>4 DEF Vouches

-----------------------------------------------------------------------------
(* Errors and what they say.                                               *)

(* Lists of errors as the validator keeps them.                            *)
Reasons == {"invalid", "limit"}
Errors  == {errors \in Seq(Reasons) : Len(errors) <= MaxErrors}

(* More errors for something that holds or does not: none means that it    *)
(* holds, and only something that does not is called invalid.              *)
Judges(before, after, holds) ==
    /\ after = << >> => before = << >> /\ holds
    /\ "invalid" \in ToSet(after) => "invalid" \in ToSet(before) \/ ~holds

(* A remembered list of errors is as good as that of a call.               *)
Remembers(d, memo) ==
    \A key \in DOMAIN memo :
        /\ memo[key] \in Errors
        /\ WellFounded(d) => Judges(<< >>, memo[key], Conforms(d, key[1], key[2]))

(* The state of a validation that has met nothing it cannot check.         *)
Clean(d, st) ==
    /\ st = [errors |-> st.errors, memo |-> st.memo, left |-> st.left,
             deep |-> st.deep, broken |-> st.broken]
    /\ st.errors \in Errors
    /\ Remembers(d, st.memo)
    /\ st.broken = FALSE
    /\ st.deep \in BOOLEAN /\ (st.deep => ~Acyclic(d))

LEMMA ReasonOfError == \A names : Error(names) \in Reasons
BY DEF Error, Reasons

LEMMA EmptyErrors == << >> \in Errors /\ "invalid" \notin ToSet(<< >>)
BY ValidatorAssumption DEF Errors, ToSet

LEMMA OneError ==
  ASSUME NEW e \in Reasons
  PROVE  <<e>> \in Errors /\ <<e>> # << >> /\ ToSet(<<e>>) = {e} /\ <<e>> \in Seq(Reasons)
<1>1. <<e>> \in Seq(Reasons) /\ Len(<<e>>) = 1 /\ <<e>> # << >>
  OBVIOUS
<1>2. ToSet(<<e>>) = {e}
  BY DEF ToSet
<1> QED
  BY <1>1, <1>2, ValidatorAssumption DEF Errors

LEMMA MergeIs ==
  ASSUME NEW errors \in Errors, NEW more \in Seq(Reasons)
  PROVE  /\ Merge(errors, more) \in Errors
         /\ Merge(errors, more) = << >> <=> errors = << >> /\ more = << >>
         /\ ToSet(Merge(errors, more)) \subseteq ToSet(errors) \cup ToSet(more)
<1> DEFINE both == errors \o more
           k    == IF Len(both) < MaxErrors THEN Len(both) ELSE MaxErrors
<1>0. MaxErrors \in Nat /\ MaxErrors >= 1
  BY ValidatorAssumption
<1>1. errors \in Seq(Reasons) /\ both \in Seq(Reasons) /\ Len(both) \in Nat
      /\ ToSet(both) = ToSet(errors) \cup ToSet(more)
      /\ Len(both) = Len(errors) + Len(more) /\ Len(errors) \in Nat /\ Len(more) \in Nat
  BY ConcatToSet DEF Errors
<1>2. Merge(errors, more) = SubSeq(both, 1, k)
  BY DEF Merge
<1> HIDE DEF both
<1>3. k \in 0..Len(both) /\ k <= MaxErrors /\ (k = 0 <=> Len(both) = 0)
  BY <1>0, <1>1
<1> HIDE DEF k
<1>4. /\ SubSeq(both, 1, k) \in Seq(Reasons) /\ Len(SubSeq(both, 1, k)) = k
      /\ \A i \in 1..k : SubSeq(both, 1, k)[i] = both[i]
  BY <1>1, <1>3
<1>5. Merge(errors, more) \in Errors
  BY <1>2, <1>3, <1>4 DEF Errors
<1>6. Merge(errors, more) = << >> <=> errors = << >> /\ more = << >>
  <2>1. Merge(errors, more) = << >> <=> k = 0
    <3>1. \A x \in Seq(Reasons) : x = << >> <=> Len(x) = 0
      OBVIOUS
    <3> QED BY ONLY <3>1, <1>2, <1>4
  <2>2. Len(both) = 0 <=> errors = << >> /\ more = << >>
    BY <1>1
  <2> QED BY <1>3, <2>1, <2>2
<1>7. ToSet(SubSeq(both, 1, k)) \subseteq ToSet(both)
  <2>1. DOMAIN SubSeq(both, 1, k) = 1..k /\ DOMAIN both = 1..Len(both)
    BY <1>1, <1>4
  <2> QED BY <2>1, <1>1, <1>3, <1>4 DEF ToSet
<1> QED
  BY <1>1, <1>2, <1>5, <1>6, <1>7

LEMMA AddIs ==
  ASSUME NEW d, NEW st, Clean(d, st), NEW more \in Seq(Reasons)
  PROVE  /\ Clean(d, Add(st, more))
         /\ Add(st, more).errors = << >> <=> st.errors = << >> /\ more = << >>
         /\ "invalid" \in ToSet(Add(st, more).errors) =>
                "invalid" \in ToSet(st.errors) \/ "invalid" \in ToSet(more)
<1>1. /\ Merge(st.errors, more) \in Errors
      /\ Merge(st.errors, more) = << >> <=> st.errors = << >> /\ more = << >>
      /\ ToSet(Merge(st.errors, more)) \subseteq ToSet(st.errors) \cup ToSet(more)
  BY MergeIs DEF Clean
<1>2. /\ Add(st, more) = [errors |-> Merge(st.errors, more), memo |-> st.memo, left |-> st.left,
                          deep |-> st.deep, broken |-> st.broken]
  BY DEF Add, Clean
<1> QED
  BY <1>1, <1>2 DEF Clean

LEMMA SpendIs ==
  ASSUME NEW d, NEW st, Clean(d, st), NEW n
  PROVE  Clean(d, Spend(st, n)) /\ Spend(st, n).errors = st.errors
<1>1. PICK left : Spend(st, n) = [st EXCEPT !.left = left]
  BY DEF Spend
<1>2. Spend(st, n) = [errors |-> st.errors, memo |-> st.memo, left |-> left,
                      deep |-> st.deep, broken |-> st.broken]
  BY <1>1 DEF Clean
<1> QED
  BY <1>2 DEF Clean

LEMMA PutErrors ==
  ASSUME NEW d, NEW st, Clean(d, st), NEW errors \in Errors
  PROVE  Clean(d, [st EXCEPT !.errors = errors]) /\ [st EXCEPT !.errors = errors].errors = errors
<1>1. [st EXCEPT !.errors = errors] = [errors |-> errors, memo |-> st.memo, left |-> st.left,
                                       deep |-> st.deep, broken |-> st.broken]
  BY DEF Clean
<1> QED
  BY <1>1 DEF Clean

-----------------------------------------------------------------------------
(* validate.                                                               *)

(* validate is what its code says, which calls it one level down.          *)
ValidateRecurs ==
    \A d \in Documents, depth \in Nat : \A job, seen, st :
        Validate(d, job, seen, depth, st) = ValidateStep(d, job, seen, depth, st)

(* JSON Schema has one meaning for a document in which no subschema comes  *)
(* back to its own value: each rule speaks of smaller values, or of        *)
(* subschemas further on.                                                  *)
ConformsRecurs ==
    \A d \in Documents \cup {CapabilityTool} :
        WellFounded(d) => \A s \in DOMAIN d, v \in Values :
                              Conforms(d, s, v) <=> ConformsStep(d, s, v)

(* The way down to a subschema on a value: the values above it are no      *)
(* smaller, and a subschema above it on the same value leads to it.        *)
Trail(d, R, seen, s, v) ==
    \A t, w : <<t, w>> \in seen =>
        /\ t \in R /\ w \in Values /\ Size(w) >= Size(v)
        /\ w = v => \E c \in OnSameValue(d, t) : c = s \/ <<c, v>> \in seen

(* A job in an admitted document, at a depth.                              *)
Due(d, R, P, job, seen, depth) ==
    /\ job = Job(job.schema, job.value, job.place)
    /\ job.schema \in R /\ job.value \in Values
    /\ Acyclic(d) => <<job.schema, depth>> \in P
    /\ Trail(d, R, seen, job.schema, job.value)

(* What a call of validate says of its job.                                *)
Decides(d, job, before, out) ==
    /\ Clean(d, out)
    /\ WellFounded(d) => Judges(<< >>, out.errors, Conforms(d, job.schema, job.value))

(* What is proved of the calls at a depth, whatever called them.           *)
SoundValidate(d, R, P, depth) ==
    \A job, seen, st :
        Due(d, R, P, job, seen, depth) /\ Clean(d, st)
        => Decides(d, job, st, Validate(d, job, seen, depth, st))

(* What a loop has done after some of its jobs.                            *)
Progress(d, jobs, st, stops, i, sofar) ==
    /\ Clean(d, sofar.st)
    /\ sofar.halted \in BOOLEAN /\ (sofar.halted => sofar.st.errors # << >>)
    /\ stops = "never" =>
           /\ ~sofar.halted
           /\ sofar.results \in Seq(Errors) /\ Len(sofar.results) = i
    /\ WellFounded(d) =>
           /\ sofar.st.errors = << >> =>
                  st.errors = << >> /\ \A j \in 1..i : Conforms(d, jobs[j].schema, jobs[j].value)
           /\ "invalid" \in ToSet(sofar.st.errors) =>
                  \/ "invalid" \in ToSet(st.errors)
                  \/ \E j \in DOMAIN jobs : ~Conforms(d, jobs[j].schema, jobs[j].value)
           /\ stops = "never" =>
                  \A j \in 1..i : Judges(<< >>, sofar.results[j],
                                         Conforms(d, jobs[j].schema, jobs[j].value))

LEMMA VisitProgress ==
  ASSUME NEW d, NEW R, NEW P, NEW depth \in Nat, SoundValidate(d, R, P, depth + 1),
         NEW jobs, NEW seen, NEW st, NEW stops, NEW i \in Nat \ {0},
         i \in DOMAIN jobs, Due(d, R, P, jobs[i], seen, depth + 1),
         NEW sofar, Progress(d, jobs, st, stops, i - 1, sofar)
  PROVE  Progress(d, jobs, st, stops, i, Visit(d, jobs[i], seen, depth, sofar, stops))
<1> DEFINE job == jobs[i]
           out == Validate(d, job, seen, depth + 1, sofar.st)
           base == [out EXCEPT !.errors = sofar.st.errors]
           all == Add(base, out.errors)
           next == Visit(d, job, seen, depth, sofar, stops)
           Holds(j) == Conforms(d, jobs[j].schema, jobs[j].value)
<1>1. CASE sofar.halted
  <2>1. next = sofar /\ sofar.st.errors # << >> /\ stops # "never"
    BY <1>1 DEF Visit, Progress
  <2> QED BY <2>1 DEF Progress
<1>2. CASE ~sofar.halted
  <2>1. Decides(d, job, sofar.st, out)
    BY DEF SoundValidate, Progress
  <2> HIDE DEF out
  <2>2. Clean(d, out) /\ out.errors \in Errors /\ out.errors \in Seq(Reasons)
    BY <2>1 DEF Decides, Clean, Errors
  <2>3. sofar.st.errors \in Errors
    BY DEF Progress, Clean
  <2>4. Clean(d, base) /\ base.errors = sofar.st.errors
    BY <2>2, <2>3, PutErrors
  <2> HIDE DEF base
  <2>5. /\ Clean(d, all)
        /\ all.errors = << >> <=> sofar.st.errors = << >> /\ out.errors = << >>
        /\ "invalid" \in ToSet(all.errors) =>
               "invalid" \in ToSet(sofar.st.errors) \/ "invalid" \in ToSet(out.errors)
    BY <2>2, <2>4, AddIs
  <2> HIDE DEF all
  <2> DEFINE halted == \/ stops = "own" /\ Mentions(out.errors)
                       \/ stops = "merged" /\ Mentions(all.errors)
  <2>6. next = [st |-> all, results |-> Append(sofar.results, out.errors), halted |-> halted]
    BY <1>2 DEF Visit, out, all, base
  <2>7. next.st = all /\ next.results = Append(sofar.results, out.errors) /\ next.halted = halted
    BY <2>6
  <2> HIDE DEF next
  <2>8. halted \in BOOLEAN /\ (halted => all.errors # << >>) /\ (stops = "never" => ~halted)
    <3>1. \A errors : Mentions(errors) => errors # << >>
      BY DEF Mentions, ToSet
    <3> QED BY <3>1, <2>5
  <2> HIDE DEF halted
  <2>9. ASSUME stops = "never"
        PROVE  /\ ~next.halted /\ next.results \in Seq(Errors) /\ Len(next.results) = i
               /\ next.results[i] = out.errors
               /\ \A j \in 1..(i - 1) : next.results[j] = sofar.results[j]
    <3>1. sofar.results \in Seq(Errors) /\ Len(sofar.results) = i - 1
      BY <2>9 DEF Progress
    <3> QED BY <3>1, <2>2, <2>7, <2>8, <2>9
  <2>10. ASSUME WellFounded(d)
         PROVE  /\ next.st.errors = << >> => st.errors = << >> /\ \A j \in 1..i : Holds(j)
                /\ "invalid" \in ToSet(next.st.errors) =>
                       "invalid" \in ToSet(st.errors) \/ \E j \in DOMAIN jobs : ~Holds(j)
                /\ stops = "never" => \A j \in 1..i : Judges(<< >>, next.results[j], Holds(j))
    <3>1. /\ sofar.st.errors = << >> => st.errors = << >> /\ \A j \in 1..(i - 1) : Holds(j)
          /\ "invalid" \in ToSet(sofar.st.errors) =>
                 "invalid" \in ToSet(st.errors) \/ \E j \in DOMAIN jobs : ~Holds(j)
          /\ stops = "never" => \A j \in 1..(i - 1) : Judges(<< >>, sofar.results[j], Holds(j))
      BY <2>10 DEF Progress
    <3>2. Judges(<< >>, out.errors, Holds(i))
      BY <2>1, <2>10 DEF Decides
    <3>3. /\ out.errors = << >> => Holds(i)
          /\ "invalid" \in ToSet(out.errors) => ~Holds(i)
      BY <3>2, EmptyErrors DEF Judges
    <3>4. \A j \in 1..i : j = i \/ j \in 1..(i - 1)
      OBVIOUS
    <3> HIDE DEF Holds
    <3>5. next.st.errors = << >> => st.errors = << >> /\ \A j \in 1..i : Holds(j)
      BY <3>1, <3>3, <3>4, <2>5, <2>7
    <3>6. "invalid" \in ToSet(next.st.errors) =>
                 "invalid" \in ToSet(st.errors) \/ \E j \in DOMAIN jobs : ~Holds(j)
      BY <3>1, <3>3, <2>5, <2>7
    <3>7. ASSUME stops = "never", NEW j \in 1..i PROVE Judges(<< >>, next.results[j], Holds(j))
      <4>1. CASE j = i
        BY <4>1, <3>2, <3>7, <2>9
      <4>2. CASE j \in 1..(i - 1)
        BY <4>2, <3>1, <3>7, <2>9
      <4> QED BY <4>1, <4>2, <3>4
    <3> QED BY <3>5, <3>6, <3>7
  <2>11. Progress(d, jobs, st, stops, i, next)
    BY <2>5, <2>7, <2>8, <2>9, <2>10 DEF Progress
  <2> QED BY <2>11 DEF next
<1> QED
  BY <1>1, <1>2

(* A loop judges all its jobs; one that never stops keeps their errors.    *)
LEMMA VisitAllSound ==
  ASSUME NEW d, NEW R, NEW P, NEW depth \in Nat, SoundValidate(d, R, P, depth + 1),
         NEW F, NEW jobs \in Seq(F), NEW seen, NEW st, Clean(d, st), NEW stops,
         \A i \in DOMAIN jobs : Due(d, R, P, jobs[i], seen, depth + 1)
  PROVE  Progress(d, jobs, st, stops, Len(jobs), VisitAll(d, jobs, seen, depth, st, stops))
<1> DEFINE start == [st |-> st, results |-> << >>, halted |-> FALSE]
           n == Len(jobs)
<1>1. n \in Nat /\ DOMAIN jobs = 1..n
  OBVIOUS
<1>2. PICK f : /\ f[0] = start
               /\ \A i \in 1..n : f[i] = Visit(d, jobs[i], seen, depth, f[i - 1], stops)
               /\ VisitAll(d, jobs, seen, depth, st, stops) = f[n]
  <2>1. Len(jobs) \in Nat
    OBVIOUS
  <2> QED BY ONLY <2>1, VisitAllRuns
<1> HIDE DEF n
<1> DEFINE S == {i \in 0..n : Progress(d, jobs, st, stops, i, f[i])}
<1>3. 0 \in S
  <2>1. /\ f[0].st = st /\ f[0].results = << >> /\ f[0].halted = FALSE
    BY <1>2
  <2>2. << >> \in Seq(Errors) /\ Len(<< >>) = 0 /\ (\A j \in 1..0 : FALSE) /\ 0 \in 0..n
    BY <1>1
  <2>3. Progress(d, jobs, st, stops, 0, f[0])
    BY ONLY <2>1, <2>2, Clean(d, st) DEF Progress
  <2> QED BY <2>2, <2>3
<1>4. ASSUME NEW i \in 1..n, i - 1 \in S PROVE i \in S
  <2>1. Progress(d, jobs, st, stops, i - 1, f[i - 1]) /\ i \in DOMAIN jobs /\ i \in Nat \ {0}
    BY <1>1, <1>4
  <2>2. Progress(d, jobs, st, stops, i, Visit(d, jobs[i], seen, depth, f[i - 1], stops))
    BY <2>1, VisitProgress
  <2>3. Progress(d, jobs, st, stops, i, f[i])
    BY <1>2, <2>2
  <2> QED BY <1>1, <2>3
<1> HIDE DEF S
<1>5. n \in S
  <2>1. 0..n \subseteq S
    BY <1>1, <1>3, <1>4, LoopInduction
  <2> QED BY <1>1, <2>1
<1> QED
  BY <1>2, <1>5 DEF S, n

LEMMA OnSameValueIs ==
  ASSUME NEW d \in Documents, NEW s \in DOMAIN d
  PROVE  /\ OnSameValue(d, s) = {x \in {d[s].ref} : x # None}
                \cup ToSet(d[s].all) \cup ToSet(d[s].any) \cup ToSet(d[s].one)
         /\ OnSameValue(d, s) \subseteq OnAnyValue(d, s)
<1> DEFINE n == d[s]
           p == Present(n.ref)
           c1 == p \o n.all
           c2 == c1 \o n.any
           c3 == c2 \o n.one
<1>0. Subschema(n) /\ None \notin Ids /\ Closed \notin Ids
  BY DocumentsAssumption
<1>1. OnSameValue(d, s) = ToSet(c3)
  BY DEF OnSameValue
<1>2. p \in Seq(Ids) /\ ToSet(p) = {x \in {n.ref} : x # None} /\ n.ref # Closed
  <2>1. CASE n.ref = None
    BY <2>1, ValidatorAssumption DEF Present, ToSet
  <2>2. CASE n.ref \in Ids
    BY <1>0, <2>2 DEF Present, ToSet
  <2> QED BY <1>0, <2>1, <2>2 DEF Subschema
<1>3. n.any \in Seq(Ids) /\ n.all \in Seq(Ids) /\ n.one \in Seq(Ids)
  BY <1>0 DEF Subschema
<1> HIDE DEF n, p, c1, c2, c3
<1>4. c1 \in Seq(Ids) /\ ToSet(c1) = ToSet(p) \cup ToSet(n.all)
  BY <1>2, <1>3, ConcatToSet DEF c1
<1>5. c2 \in Seq(Ids) /\ ToSet(c2) = ToSet(c1) \cup ToSet(n.any)
  BY <1>3, <1>4, ConcatToSet DEF c2
<1>6. c3 \in Seq(Ids) /\ ToSet(c3) = ToSet(c2) \cup ToSet(n.one)
  BY <1>3, <1>5, ConcatToSet DEF c3
<1>7. OnSameValue(d, s) = {x \in {n.ref} : x # None}
                \cup ToSet(n.all) \cup ToSet(n.any) \cup ToSet(n.one)
  BY <1>1, <1>2, <1>4, <1>5, <1>6
<1>8. \A x \in {n.ref} : x # None => x \notin {None, Closed}
  BY <1>2
<1>9. OnSameValue(d, s) \subseteq OnAnyValue(d, s)
  BY <1>7, <1>8, ChildrenSeq DEF OnAnyValue, n
<1> QED
  BY <1>7, <1>9 DEF n

LEMMA TrailSame ==
  ASSUME NEW d, NEW R, NEW seen, NEW s \in R, NEW v \in Values, Trail(d, R, seen, s, v),
         NEW c \in OnSameValue(d, s)
  PROVE  Trail(d, R, seen \cup {<<s, v>>}, c, v)
<1> SUFFICES ASSUME NEW t, NEW w, <<t, w>> \in seen \cup {<<s, v>>}
             PROVE  /\ t \in R /\ w \in Values /\ Size(w) >= Size(v)
                    /\ w = v => \E x \in OnSameValue(d, t) : x = c \/ <<x, v>> \in seen \cup {<<s, v>>}
  BY DEF Trail
<1>1. CASE <<t, w>> \in seen
  BY <1>1 DEF Trail
<1>2. CASE t = s /\ w = v
  <2>1. Size(v) >= Size(v)
    BY ValuesAssumption
  <2> QED BY <1>2, <2>1
<1> QED
  BY <1>1, <1>2

LEMMA TrailPart ==
  ASSUME NEW d, NEW R, NEW seen, NEW s \in R, NEW v \in Values, Trail(d, R, seen, s, v),
         NEW c, NEW w \in Values, Size(w) < Size(v)
  PROVE  Trail(d, R, seen \cup {<<s, v>>}, c, w)
<1> SUFFICES ASSUME NEW t, NEW x, <<t, x>> \in seen \cup {<<s, v>>}
             PROVE  t \in R /\ x \in Values /\ Size(x) >= Size(w) /\ x # w
  BY DEF Trail
<1>1. t \in R /\ x \in Values /\ Size(x) >= Size(v)
  <2>1. CASE <<t, x>> \in seen
    BY <2>1 DEF Trail
  <2>2. CASE t = s /\ x = v
    BY <2>2, ValuesAssumption
  <2> QED BY <2>1, <2>2
<1>2. Size(x) \in Nat /\ Size(v) \in Nat /\ Size(w) \in Nat
  BY <1>1, ValuesAssumption
<1> QED
  BY <1>1, <1>2

(* The same subschema on the same value, above this one, leads to itself.  *)
LEMMA TrailNoReturn ==
  ASSUME NEW d, NEW R, R \subseteq DOMAIN d, WellFounded(d), NEW seen, NEW s, NEW v,
         Trail(d, R, seen, s, v), <<s, v>> \in seen
  PROVE  FALSE
<1> DEFINE S == {t \in DOMAIN d : <<t, v>> \in seen}
           next == [t \in DOMAIN d |-> OnSameValue(d, t)]
<1>1. S \in SUBSET DOMAIN d /\ s \in S
  BY DEF Trail
<1>2. PICK t \in S : next[t] \cap S = {}
  BY <1>1 DEF WellFounded
<1>3. t \in DOMAIN d /\ <<t, v>> \in seen /\ OnSameValue(d, t) \cap S = {}
  BY <1>2
<1>4. PICK c \in OnSameValue(d, t) : c = s \/ <<c, v>> \in seen
  BY <1>3 DEF Trail
<1>5. <<c, v>> \in seen
  BY <1>4
<1>6. c \in S
  BY <1>5 DEF Trail
<1> QED
  BY <1>3, <1>4, <1>6

-----------------------------------------------------------------------------
(* The keywords on the same value.                                         *)

LEMMA BranchesSound ==
  ASSUME NEW d \in Documents, NEW R, NEW P, Within(d, R, P),
         NEW depth \in Nat, SoundValidate(d, R, P, depth + 1),
         NEW job, NEW seen, Due(d, R, P, job, seen, depth), NEW st, Clean(d, st),
         NEW branches \in Seq(Ids), ToSet(branches) \subseteq OnSameValue(d, job.schema),
         NEW stops
  PROVE  LET v    == job.value
             loop == VisitAll(d, Of(branches, job), seen \cup {<<job.schema, v>>}, depth, st, stops)
         IN  /\ Clean(d, loop.st)
             /\ WellFounded(d) => Judges(st.errors, loop.st.errors,
                                         \A i \in DOMAIN branches : Conforms(d, branches[i], v))
             /\ stops = "never" =>
                    /\ loop.results \in Seq(Errors) /\ Len(loop.results) = Len(branches)
                    /\ WellFounded(d) =>
                           \A i \in DOMAIN branches :
                               Judges(<< >>, loop.results[i], Conforms(d, branches[i], v))
<1> DEFINE s    == job.schema
           v    == job.value
           jobs == Of(branches, job)
           below == seen \cup {<<s, v>>}
           loop == VisitAll(d, jobs, below, depth, st, stops)
           F == {Job(x, v, job.place) : x \in Ids}
<1>1. s \in R /\ v \in Values /\ s \in DOMAIN d /\ job = Job(s, v, job.place)
  BY DEF Due, Within
<1>2. \A i \in DOMAIN branches :
          branches[i] \in Ids /\ [job EXCEPT !.schema = branches[i]] = Job(branches[i], v, job.place)
  BY <1>1 DEF Job
<1>3. jobs = [i \in DOMAIN branches |-> Job(branches[i], v, job.place)]
  BY <1>2 DEF Of
<1>4. jobs \in Seq(F) /\ DOMAIN jobs = DOMAIN branches /\ Len(jobs) = Len(branches)
      /\ DOMAIN branches = 1..Len(branches)
  <2>1. \A i \in DOMAIN branches : Job(branches[i], v, job.place) \in F
    BY <1>2
  <2> HIDE DEF F, jobs
  <2> QED BY <1>3, <2>1
<1> HIDE DEF jobs
<1>5. \A i \in DOMAIN jobs : jobs[i].schema = branches[i] /\ jobs[i].value = v
                             /\ jobs[i] = Job(branches[i], v, job.place)
  BY <1>3, <1>4 DEF Job
<1>6. ASSUME NEW i \in DOMAIN jobs PROVE Due(d, R, P, jobs[i], below, depth + 1)
  <2>1. branches[i] \in OnSameValue(d, s)
    BY <1>4 DEF ToSet
  <2>2. branches[i] \in OnAnyValue(d, s)
    BY <1>1, <2>1, OnSameValueIs
  <2>3. branches[i] \in R /\ (Acyclic(d) => <<branches[i], depth + 1>> \in P)
    BY <1>1, <2>2 DEF Within, Due
  <2>4. Trail(d, R, below, branches[i], v)
    BY <1>1, <2>1, TrailSame DEF Due
  <2>5. jobs[i].place = job.place
    BY <1>5 DEF Job
  <2> HIDE DEF below
  <2> QED BY <1>1, <1>5, <2>3, <2>4, <2>5 DEF Due
<1>7. Progress(d, jobs, st, stops, Len(jobs), loop)
  <2> HIDE DEF F, below
  <2> QED BY <1>4, <1>6, VisitAllSound
<1> HIDE DEF loop, below
<1>8. Clean(d, loop.st)
  BY <1>7 DEF Progress
<1>9. ASSUME stops = "never" PROVE loop.results \in Seq(Errors) /\ Len(loop.results) = Len(branches)
  BY <1>4, <1>7, <1>9 DEF Progress
<1>10. ASSUME WellFounded(d)
       PROVE  /\ Judges(st.errors, loop.st.errors,
                        \A i \in DOMAIN branches : Conforms(d, branches[i], v))
              /\ stops = "never" =>
                    \A i \in DOMAIN branches :
                        Judges(<< >>, loop.results[i], Conforms(d, branches[i], v))
  <2>1. /\ loop.st.errors = << >> =>
               st.errors = << >> /\ \A j \in DOMAIN branches : Conforms(d, branches[j], v)
        /\ "invalid" \in ToSet(loop.st.errors) =>
               \/ "invalid" \in ToSet(st.errors)
               \/ \E j \in DOMAIN branches : ~Conforms(d, branches[j], v)
        /\ stops = "never" =>
               \A j \in DOMAIN branches : Judges(<< >>, loop.results[j], Conforms(d, branches[j], v))
    BY <1>4, <1>5, <1>7, <1>10 DEF Progress
  <2> QED BY <2>1 DEF Judges
<1> QED
  BY <1>8, <1>9, <1>10 DEF loop, below, jobs

LEMMA EachBranchSound ==
  ASSUME NEW d \in Documents, NEW R, NEW P, Within(d, R, P),
         NEW depth \in Nat, SoundValidate(d, R, P, depth + 1),
         NEW job, NEW seen, Due(d, R, P, job, seen, depth), NEW st, Clean(d, st),
         NEW branches \in Seq(Ids), ToSet(branches) \subseteq OnSameValue(d, job.schema)
  PROVE  LET v    == job.value
             loop == VisitAll(d, Of(branches, job), seen \cup {<<job.schema, v>>}, depth, st, "never")
         IN  /\ Clean(d, loop.st)
             /\ loop.results \in Seq(Errors) /\ DOMAIN loop.results = DOMAIN branches
             /\ WellFounded(d) =>
                    \A i \in DOMAIN branches :
                        Judges(<< >>, loop.results[i], Conforms(d, branches[i], v))
<1> DEFINE loop == VisitAll(d, Of(branches, job), seen \cup {<<job.schema, job.value>>}, depth, st, "never")
           never == "never"
<1>1. /\ Clean(d, loop.st)
      /\ never = "never" =>
             /\ loop.results \in Seq(Errors) /\ Len(loop.results) = Len(branches)
             /\ WellFounded(d) =>
                    \A i \in DOMAIN branches :
                        Judges(<< >>, loop.results[i], Conforms(d, branches[i], job.value))
  BY BranchesSound
<1> HIDE DEF loop
<1>2. DOMAIN loop.results = DOMAIN branches
  BY <1>1
<1> QED
  BY <1>1, <1>2 DEF loop

LEMMA SomeReason ==
  ASSUME NEW errors \in Errors, errors # << >>
  PROVE  "invalid" \in ToSet(errors) \/ Mentions(errors)
<1>1. errors \in Seq(Reasons) /\ Len(errors) # 0
  BY DEF Errors
<1>2. 1 \in DOMAIN errors /\ errors[1] \in Reasons
  BY <1>1
<1> QED
  BY <1>2 DEF Mentions, ToSet, Reasons

LEMMA AnyIs ==
  ASSUME NEW job, NEW results \in Seq(Errors)
  PROVE  /\ AnyErrors(job, results) \in Seq(Reasons)
         /\ AnyErrors(job, results) = << >> => \E i \in DOMAIN results : results[i] = << >>
         /\ "invalid" \in ToSet(AnyErrors(job, results)) =>
                \A i \in DOMAIN results : "invalid" \in ToSet(results[i])
<1> DEFINE out == AnyErrors(job, results)
<1>1. \A i \in DOMAIN results : results[i] \in ToSet(results) /\ results[i] \in Errors
  BY DEF ToSet
<1>2. Here(job) \in Reasons /\ "limit" \in Reasons
  BY ReasonOfError DEF Here, Reasons
<1>3. CASE << >> \in ToSet(results)
  <2>1. out = << >>
    BY <1>3 DEF AnyErrors
  <2> QED BY <1>3, <2>1, EmptyErrors DEF ToSet
<1>4. CASE << >> \notin ToSet(results) /\ \E r \in ToSet(results) : Mentions(r)
  <2>1. out = <<"limit">>
    BY <1>4 DEF AnyErrors
  <2>2. out \in Seq(Reasons) /\ out # << >> /\ ToSet(out) = {"limit"}
    BY <1>2, <2>1, OneError
  <2> QED BY <2>2
<1>5. CASE << >> \notin ToSet(results) /\ ~\E r \in ToSet(results) : Mentions(r)
  <2>1. out = <<Here(job)>>
    BY <1>5 DEF AnyErrors
  <2>2. out \in Seq(Reasons) /\ out # << >>
    BY <1>2, <2>1, OneError
  <2>3. \A i \in DOMAIN results : "invalid" \in ToSet(results[i])
    BY <1>1, <1>5, SomeReason
  <2> QED BY <2>2, <2>3
<1> QED
  BY <1>3, <1>4, <1>5

LEMMA OneIs ==
  ASSUME NEW job, NEW results \in Seq(Errors)
  PROVE  /\ OneErrors(job, results) \in Seq(Reasons)
         /\ OneErrors(job, results) = << >> =>
                /\ Cardinality(Passing(results)) = 1
                /\ \A i \in DOMAIN results \ Passing(results) : "invalid" \in ToSet(results[i])
         /\ "invalid" \in ToSet(OneErrors(job, results)) =>
                /\ Cardinality(Passing(results)) # 1
                /\ \A i \in DOMAIN results \ Passing(results) : "invalid" \in ToSet(results[i])
<1> DEFINE out == OneErrors(job, results)
<1>1. \A i \in DOMAIN results : results[i] \in ToSet(results) /\ results[i] \in Errors
  BY DEF ToSet
<1>2. Here(job) \in Reasons /\ "limit" \in Reasons
  BY ReasonOfError DEF Here, Reasons
<1>3. CASE \E r \in ToSet(results) : Mentions(r)
  <2>1. out = <<"limit">>
    BY <1>3 DEF OneErrors
  <2>2. out \in Seq(Reasons) /\ out # << >> /\ ToSet(out) = {"limit"}
    BY <1>2, <2>1, OneError
  <2> QED BY <2>2
<1>4. CASE ~\E r \in ToSet(results) : Mentions(r)
  <2>1. \A i \in DOMAIN results \ Passing(results) : "invalid" \in ToSet(results[i])
    BY <1>1, <1>4, SomeReason DEF Passing
  <2>2. CASE Cardinality(Passing(results)) = 1
    <3>1. out = << >>
      BY <1>4, <2>2 DEF OneErrors
    <3> QED BY <2>1, <2>2, <3>1, EmptyErrors
  <2>3. CASE Cardinality(Passing(results)) # 1
    <3>1. out = <<Here(job)>>
      BY <1>4, <2>3 DEF OneErrors
    <3>2. out \in Seq(Reasons) /\ out # << >>
      BY <1>2, <3>1, OneError
    <3> QED BY <2>1, <2>3, <3>2
  <2> QED BY <2>2, <2>3
<1> QED
  BY <1>3, <1>4

(* The branches that a value matches.                                      *)
MatchingOf(d, branches, v) == {i \in DOMAIN branches : Conforms(d, branches[i], v)}

(* What the keywords on the same value say.                                *)
Composed(d, n, v) ==
    /\ n.ref # None => Conforms(d, n.ref, v)
    /\ \A i \in DOMAIN n.all : Conforms(d, n.all[i], v)
    /\ n.any # << >> => \E i \in DOMAIN n.any : Conforms(d, n.any[i], v)
    /\ n.one # << >> => Cardinality(MatchingOf(d, n.one, v)) = 1

LEMMA CompositionSound ==
  ASSUME NEW d \in Documents, NEW R, NEW P, Within(d, R, P),
         NEW depth \in Nat, SoundValidate(d, R, P, depth + 1),
         NEW job, NEW seen, Due(d, R, P, job, seen, depth), NEW st, Clean(d, st)
  PROVE  LET out == Composition(d, job, seen \cup {<<job.schema, job.value>>}, depth, st)
         IN  /\ Clean(d, out)
             /\ WellFounded(d) =>
                    Judges(st.errors, out.errors, Composed(d, d[job.schema], job.value))
<1> DEFINE s     == job.schema
           v     == job.value
           n     == d[s]
           below == seen \cup {<<s, v>>}
           refs  == Present(n.ref)
           ref   == VisitAll(d, Of(refs, job), below, depth, st, "never").st
           all   == VisitAll(d, Of(n.all, job), below, depth, ref, "merged").st
           anys  == VisitAll(d, Of(n.any, job), below, depth, all, "never")
           anySt == Add([anys.st EXCEPT !.errors = all.errors], AnyErrors(job, anys.results))
           any   == IF n.any = << >> THEN all ELSE anySt
           ones  == VisitAll(d, Of(n.one, job), below, depth, any, "never")
           oneSt == Add([ones.st EXCEPT !.errors = any.errors], OneErrors(job, ones.results))
           out   == IF n.one = << >> THEN any ELSE oneSt
           C(x)  == Conforms(d, x, v)
           RefOK == n.ref # None => C(n.ref)
           AllOK == \A i \in DOMAIN n.all : C(n.all[i])
           AnyOK == n.any # << >> => \E i \in DOMAIN n.any : C(n.any[i])
           OneOK == n.one # << >> => Cardinality(MatchingOf(d, n.one, v)) = 1
<1>0. s \in DOMAIN d /\ Subschema(n)
  BY DocumentsAssumption DEF Due, Within
<1>1. OnSameValue(d, s) = {x \in {n.ref} : x # None} \cup ToSet(n.all) \cup ToSet(n.any) \cup ToSet(n.one)
  BY <1>0, OnSameValueIs
<1>2. n.all \in Seq(Ids) /\ n.any \in Seq(Ids) /\ n.one \in Seq(Ids)
  BY <1>0 DEF Subschema
<1>3. /\ refs \in Seq(Ids) /\ ToSet(refs) \subseteq {x \in {n.ref} : x # None}
      /\ (\A i \in DOMAIN refs : C(refs[i])) <=> RefOK
  <2>1. CASE n.ref = None
    <3>1. refs = << >>
      BY <2>1 DEF Present
    <3> QED BY <2>1, <3>1 DEF ToSet
  <2>2. CASE n.ref \in Ids
    <3>1. refs = <<n.ref>> /\ n.ref # None
      BY <2>2, DocumentsAssumption DEF Present
    <3>2. refs \in Seq(Ids) /\ DOMAIN refs = {1} /\ refs[1] = n.ref
      BY <2>2, <3>1
    <3> QED BY <3>1, <3>2 DEF ToSet
  <2> QED BY <1>0, <2>1, <2>2 DEF Subschema
<1>4. ToSet(refs) \subseteq OnSameValue(d, s) /\ ToSet(n.all) \subseteq OnSameValue(d, s)
      /\ ToSet(n.any) \subseteq OnSameValue(d, s) /\ ToSet(n.one) \subseteq OnSameValue(d, s)
  BY <1>1, <1>3
<1>5. Composition(d, job, below, depth, st) = out
  BY DEF Composition
<1> HIDE DEF n, refs
<1>6. Clean(d, ref) /\ (WellFounded(d) => Judges(st.errors, ref.errors, \A i \in DOMAIN refs : C(refs[i])))
  BY <1>3, <1>4, BranchesSound
<1> HIDE DEF ref
<1>7. Clean(d, all) /\ (WellFounded(d) => Judges(ref.errors, all.errors, AllOK))
  BY <1>2, <1>4, <1>6, BranchesSound
<1> HIDE DEF all
<1>8. Clean(d, any) /\ (WellFounded(d) => Judges(all.errors, any.errors, AnyOK))
  <2>1. CASE n.any = << >>
    BY <1>7, <2>1 DEF Judges
  <2>2. CASE n.any # << >>
    <3>1. /\ Clean(d, anys.st) /\ anys.results \in Seq(Errors) /\ DOMAIN anys.results = DOMAIN n.any
          /\ WellFounded(d) =>
                 \A i \in DOMAIN n.any : Judges(<< >>, anys.results[i], C(n.any[i]))
      <4> DEFINE branches == n.any
      <4>1. branches \in Seq(Ids) /\ ToSet(branches) \subseteq OnSameValue(d, job.schema)
        BY <1>2, <1>4
      <4>2. Clean(d, all)
        BY <1>7
      <4> HIDE DEF branches
      <4>3. LET loop == VisitAll(d, Of(branches, job), seen \cup {<<job.schema, job.value>>},
                                 depth, all, "never")
            IN  /\ Clean(d, loop.st)
                /\ loop.results \in Seq(Errors) /\ DOMAIN loop.results = DOMAIN branches
                /\ WellFounded(d) =>
                       \A i \in DOMAIN branches :
                           Judges(<< >>, loop.results[i], Conforms(d, branches[i], job.value))
        BY <4>1, <4>2, EachBranchSound
      <4> QED BY <4>3 DEF branches
    <3> HIDE DEF anys
    <3> DEFINE base == [anys.st EXCEPT !.errors = all.errors]
               more == AnyErrors(job, anys.results)
    <3>2. Clean(d, base) /\ base.errors = all.errors
      BY <1>7, <3>1, PutErrors DEF Clean
    <3>3. /\ more \in Seq(Reasons)
          /\ more = << >> => \E i \in DOMAIN anys.results : anys.results[i] = << >>
          /\ "invalid" \in ToSet(more) =>
                 \A i \in DOMAIN anys.results : "invalid" \in ToSet(anys.results[i])
      BY <3>1, AnyIs
    <3>4. any = Add(base, more)
      BY <2>2
    <3> HIDE DEF base, more, any
    <3>5. /\ Clean(d, any)
          /\ any.errors = << >> <=> all.errors = << >> /\ more = << >>
          /\ "invalid" \in ToSet(any.errors) =>
                 "invalid" \in ToSet(all.errors) \/ "invalid" \in ToSet(more)
      BY <3>2, <3>3, <3>4, AddIs
    <3>6. 1 \in DOMAIN n.any
      BY <1>2, <2>2
    <3>7. ASSUME WellFounded(d) PROVE Judges(all.errors, any.errors, AnyOK)
      <4>1. \A i \in DOMAIN n.any : /\ anys.results[i] = << >> => C(n.any[i])
                                    /\ "invalid" \in ToSet(anys.results[i]) => ~C(n.any[i])
        BY <3>1, <3>7, EmptyErrors DEF Judges
      <4> QED BY <4>1, <3>1, <3>3, <3>5, <3>6, <2>2 DEF Judges
    <3> QED BY <3>5, <3>7
  <2> QED BY <2>1, <2>2
<1> HIDE DEF any
<1>9. Clean(d, out) /\ (WellFounded(d) => Judges(any.errors, out.errors, OneOK))
  <2>1. CASE n.one = << >>
    BY <1>8, <2>1 DEF Judges
  <2>2. CASE n.one # << >>
    <3>1. /\ Clean(d, ones.st) /\ ones.results \in Seq(Errors) /\ DOMAIN ones.results = DOMAIN n.one
          /\ WellFounded(d) =>
                 \A i \in DOMAIN n.one : Judges(<< >>, ones.results[i], C(n.one[i]))
      <4> DEFINE branches == n.one
      <4>1. branches \in Seq(Ids) /\ ToSet(branches) \subseteq OnSameValue(d, job.schema)
        BY <1>2, <1>4
      <4>2. Clean(d, any)
        BY <1>8
      <4> HIDE DEF branches
      <4>3. LET loop == VisitAll(d, Of(branches, job), seen \cup {<<job.schema, job.value>>},
                                 depth, any, "never")
            IN  /\ Clean(d, loop.st)
                /\ loop.results \in Seq(Errors) /\ DOMAIN loop.results = DOMAIN branches
                /\ WellFounded(d) =>
                       \A i \in DOMAIN branches :
                           Judges(<< >>, loop.results[i], Conforms(d, branches[i], job.value))
        BY <4>1, <4>2, EachBranchSound
      <4> QED BY <4>3 DEF branches
    <3> HIDE DEF ones
    <3> DEFINE base == [ones.st EXCEPT !.errors = any.errors]
               more == OneErrors(job, ones.results)
    <3>2. Clean(d, base) /\ base.errors = any.errors
      BY <1>8, <3>1, PutErrors DEF Clean
    <3>3. /\ more \in Seq(Reasons)
          /\ more = << >> =>
                /\ Cardinality(Passing(ones.results)) = 1
                /\ \A i \in DOMAIN ones.results \ Passing(ones.results) :
                       "invalid" \in ToSet(ones.results[i])
          /\ "invalid" \in ToSet(more) =>
                /\ Cardinality(Passing(ones.results)) # 1
                /\ \A i \in DOMAIN ones.results \ Passing(ones.results) :
                       "invalid" \in ToSet(ones.results[i])
      BY <3>1, OneIs
    <3>4. out = Add(base, more)
      BY <2>2
    <3> HIDE DEF base, more, out
    <3>5. /\ Clean(d, out)
          /\ out.errors = << >> <=> any.errors = << >> /\ more = << >>
          /\ "invalid" \in ToSet(out.errors) =>
                 "invalid" \in ToSet(any.errors) \/ "invalid" \in ToSet(more)
      BY <3>2, <3>3, <3>4, AddIs
    <3>7. ASSUME WellFounded(d) PROVE Judges(any.errors, out.errors, OneOK)
      <4>1. \A i \in DOMAIN n.one : /\ ones.results[i] = << >> => C(n.one[i])
                                    /\ "invalid" \in ToSet(ones.results[i]) => ~C(n.one[i])
        BY <3>1, <3>7, EmptyErrors DEF Judges
      <4>2. ASSUME \A i \in DOMAIN ones.results \ Passing(ones.results) :
                       "invalid" \in ToSet(ones.results[i])
            PROVE  Passing(ones.results) = MatchingOf(d, n.one, v)
        BY <4>1, <4>2, <3>1 DEF Passing, MatchingOf
      <4> QED BY <4>2, <3>3, <3>5, <2>2 DEF Judges
    <3> QED BY <3>5, <3>7
  <2> QED BY <2>1, <2>2
<1> HIDE DEF out
<1>10. ASSUME WellFounded(d) PROVE Judges(st.errors, out.errors, Composed(d, n, v))
  <2>1. Composed(d, n, v) <=> RefOK /\ AllOK /\ AnyOK /\ OneOK
    BY DEF Composed
  <2> HIDE DEF AllOK, AnyOK, OneOK
  <2>2. Judges(st.errors, ref.errors, RefOK)
    BY <1>3, <1>6, <1>10 DEF Judges
  <2> HIDE DEF RefOK
  <2>3. Judges(ref.errors, all.errors, AllOK) /\ Judges(all.errors, any.errors, AnyOK)
        /\ Judges(any.errors, out.errors, OneOK)
    BY <1>7, <1>8, <1>9, <1>10
  <2> QED BY <2>1, <2>2, <2>3 DEF Judges
<1> QED
  BY <1>5, <1>9, <1>10 DEF n
-----------------------------------------------------------------------------
(* The keywords on a value and its parts.                                  *)

LEMMA JudgesBoth ==
  ASSUME NEW a, NEW b, NEW c, NEW p, NEW q, Judges(a, b, p), Judges(b, c, q)
  PROVE  Judges(a, c, p /\ q)
BY DEF Judges

LEMMA AddIfIs ==
  ASSUME NEW d, NEW st, Clean(d, st), NEW wrong \in BOOLEAN, NEW error \in Reasons
  PROVE  Clean(d, AddIf(wrong, st, error)) /\ Judges(st.errors, AddIf(wrong, st, error).errors, ~wrong)
<1>1. CASE wrong
  <2>1. AddIf(wrong, st, error) = Add(st, <<error>>)
    BY <1>1 DEF AddIf
  <2>2. <<error>> \in Seq(Reasons) /\ <<error>> # << >>
    BY OneError
  <2>3. Clean(d, Add(st, <<error>>)) /\ Add(st, <<error>>).errors # << >>
    BY <2>2, AddIs
  <2> QED BY <1>1, <2>1, <2>3 DEF Judges
<1>2. CASE ~wrong
  <2>1. AddIf(wrong, st, error) = st
    BY <1>2 DEF AddIf
  <2> QED BY <1>2, <2>1 DEF Judges
<1> QED
  BY <1>1, <1>2

LEMMA LimitIs ==
  ASSUME NEW d, NEW st, Clean(d, st), NEW before, st.errors = before, NEW p
  PROVE  Clean(d, Add(st, <<"limit">>)) /\ Judges(before, Add(st, <<"limit">>).errors, p)
<1>1. "limit" \in Reasons
  BY DEF Reasons
<1>2. <<"limit">> \in Seq(Reasons) /\ <<"limit">> # << >> /\ ToSet(<<"limit">>) = {"limit"}
  BY <1>1, OneError
<1>3. /\ Clean(d, Add(st, <<"limit">>)) /\ Add(st, <<"limit">>).errors # << >>
      /\ "invalid" \in ToSet(Add(st, <<"limit">>).errors) => "invalid" \in ToSet(st.errors)
  BY <1>2, AddIs
<1> QED
  BY <1>3 DEF Judges

(* What enum and const say.                                                *)
EnumOK(n, v) == n.enum # None => \E e \in ToSet(n.enum) : Identity(e) = Identity(v)

LEMMA EqualitySound ==
  ASSUME NEW d, NEW n, NEW job, NEW st, Clean(d, st)
  PROVE  LET out == Equality(n, job, st)
         IN  Clean(d, out) /\ Judges(st.errors, out.errors, EnumOK(n, job.value))
<1> DEFINE equal  == {i \in DOMAIN n.enum : Identity(n.enum[i]) = Identity(job.value)}
           looked == SubSeq(n.enum, 1, IF equal = {} THEN Len(n.enum) ELSE Min(equal))
           cost   == FoldLeft(LAMBDA c, e : c + Size(e), Size(job.value), looked)
           after  == Spend(st, cost)
           out    == IF n.enum = None       THEN st
                     ELSE IF after.left < 0 THEN Add(after, <<"limit">>)
                     ELSE AddIf(equal = {}, after, Here(job))
<1>1. Equality(n, job, st) = out
  BY DEF Equality
<1>2. (equal = {}) <=> ~\E e \in ToSet(n.enum) : Identity(e) = Identity(job.value)
  BY DEF ToSet
<1> HIDE DEF equal, cost
<1>3. Clean(d, after) /\ after.errors = st.errors
  BY SpendIs
<1>4. Here(job) \in Reasons
  BY ReasonOfError DEF Here
<1> HIDE DEF after
<1>5. CASE n.enum = None
  BY <1>1, <1>5 DEF Judges, EnumOK
<1>6. CASE n.enum # None /\ after.left < 0
  <2>1. out = Add(after, <<"limit">>)
    BY <1>6
  <2> QED BY <1>1, <1>3, <2>1, LimitIs
<1>7. CASE n.enum # None /\ ~(after.left < 0)
  <2>1. out = AddIf(equal = {}, after, Here(job))
    BY <1>7
  <2>2. EnumOK(n, job.value) <=> ~(equal = {})
    BY <1>2, <1>7 DEF EnumOK
  <2>3. Clean(d, out) /\ Judges(after.errors, out.errors, ~(equal = {}))
    <3> DEFINE wrong == equal = {}
    <3>1. wrong \in BOOLEAN
      OBVIOUS
    <3> HIDE DEF wrong
    <3>2. Clean(d, AddIf(wrong, after, Here(job)))
          /\ Judges(after.errors, AddIf(wrong, after, Here(job)).errors, ~wrong)
      BY <1>3, <1>4, <3>1, AddIfIs
    <3> QED BY <2>1, <3>2 DEF wrong
  <2> QED BY <1>1, <1>3, <2>2, <2>3 DEF Judges
<1> QED
  BY <1>5, <1>6, <1>7

LEMMA NoJobs ==
  ASSUME NEW d, NEW seen, NEW depth, NEW st, NEW stops
  PROVE  VisitAll(d, << >>, seen, depth, st, stops).st = st
<1> DEFINE jobs  == << >>
           start == [st |-> st, results |-> << >>, halted |-> FALSE]
<1>0. Len(jobs) = 0
  OBVIOUS
<1>1. Len(jobs) \in Nat
  OBVIOUS
<1> HIDE DEF jobs
<1>2. PICK f : /\ f[0] = start
               /\ \A i \in 1..Len(jobs) : f[i] = Visit(d, jobs[i], seen, depth, f[i - 1], stops)
               /\ VisitAll(d, jobs, seen, depth, st, stops) = f[Len(jobs)]
  BY ONLY <1>1, VisitAllRuns
<1> QED
  BY <1>0, <1>2 DEF jobs

LEMMA PartsSound ==
  ASSUME NEW d \in Documents, NEW R, NEW P, Within(d, R, P),
         NEW depth \in Nat, SoundValidate(d, R, P, depth + 1),
         NEW job, NEW seen, Due(d, R, P, job, seen, depth), NEW st, Clean(d, st),
         NEW k \in Nat, NEW jobs, jobs = [i \in 1..k |-> jobs[i]], NEW stops,
         \A i \in DOMAIN jobs :
             /\ jobs[i] = Job(jobs[i].schema, jobs[i].value, jobs[i].place)
             /\ jobs[i].schema \in OnAnyValue(d, job.schema)
             /\ jobs[i].value \in Values /\ Size(jobs[i].value) < Size(job.value)
  PROVE  LET out == VisitAll(d, jobs, seen \cup {<<job.schema, job.value>>}, depth, st, stops).st
         IN  /\ Clean(d, out)
             /\ WellFounded(d) =>
                    Judges(st.errors, out.errors,
                           \A i \in DOMAIN jobs : Conforms(d, jobs[i].schema, jobs[i].value))
<1> DEFINE below == seen \cup {<<job.schema, job.value>>}
           loop  == VisitAll(d, jobs, below, depth, st, stops)
<1> DEFINE F == {jobs[i] : i \in 1..k}
<1>0. jobs \in Seq(F) /\ Len(jobs) = k /\ DOMAIN jobs = 1..k
  <2>1. \A i \in 1..k : jobs[i] \in F
    OBVIOUS
  <2> HIDE DEF F
  <2> QED BY <2>1
<1>1. ASSUME NEW i \in DOMAIN jobs PROVE Due(d, R, P, jobs[i], below, depth + 1)
  <2>1. job.schema \in R /\ job.value \in Values /\ Trail(d, R, seen, job.schema, job.value)
        /\ (Acyclic(d) => <<job.schema, depth>> \in P)
    BY DEF Due
  <2>2. Trail(d, R, below, jobs[i].schema, jobs[i].value)
    BY <2>1, TrailPart
  <2>3. jobs[i].schema \in R /\ (Acyclic(d) => <<jobs[i].schema, depth + 1>> \in P)
    BY <2>1 DEF Within
  <2> HIDE DEF below
  <2> QED BY <2>2, <2>3 DEF Due
<1>2. Progress(d, jobs, st, stops, Len(jobs), loop)
  <2> HIDE DEF below, F
  <2> QED BY <1>0, <1>1, VisitAllSound
<1> HIDE DEF loop
<1> QED
  BY <1>0, <1>2 DEF Progress, Judges, loop
(* The parts of a value are values, smaller than it.                       *)
LEMMA ArrayIs ==
  ASSUME NEW v \in Values, v.type = "array"
  PROVE  v.items \in Seq(Values) /\ \A i \in DOMAIN v.items : Size(v.items[i]) < Size(v)
<1>1. JsonValue(v) /\ v.type \notin ScalarTypes /\ v.type # "object"
  BY ValuesAssumption DEF ScalarTypes
<1> QED
  BY <1>1 DEF JsonValue, Arrays

LEMMA ObjectIs ==
  ASSUME NEW v \in Values, v.type = "object"
  PROVE  /\ v.fields \in Seq([key : Strings, value : Values])
         /\ \A i, j \in DOMAIN v.fields : v.fields[i].key = v.fields[j].key => i = j
         /\ \A f \in ToSet(v.fields) :
                /\ f.value \in Values /\ Size(f.value) < Size(v)
                /\ Scalar("string", f.key) \in Values /\ Size(Scalar("string", f.key)) < Size(v)
<1>1. JsonValue(v) /\ v.type \notin ScalarTypes /\ v.type # "array"
  BY ValuesAssumption DEF ScalarTypes
<1>2. /\ v.fields \in Seq([key : Strings, value : Values])
      /\ \A i, j \in DOMAIN v.fields : v.fields[i].key = v.fields[j].key => i = j
      /\ \A f \in ToSet(v.fields) :
             Size(f.value) < Size(v) /\ Size(Scalar("string", f.key)) < Size(v)
  BY <1>1 DEF JsonValue, Objects
<1>3. ASSUME NEW k \in Strings PROVE Scalar("string", k) \in Values
  <2>1. PICK w \in Values : w.type = "string" /\ k = w.name
    BY <1>3 DEF Strings
  <2>2. w = Scalar(w.type, w.name)
    BY <2>1, ValuesAssumption DEF JsonValue
  <2> QED BY <2>1, <2>2
<1>4. ASSUME NEW f \in ToSet(v.fields) PROVE f.value \in Values /\ f.key \in Strings
  <2>1. PICK i \in DOMAIN v.fields : f = v.fields[i]
    BY DEF ToSet
  <2> DEFINE S == [key : Strings, value : Values]
  <2>2. v.fields \in Seq(S)
    BY <1>2
  <2> HIDE DEF S
  <2>3. f \in S
    BY <2>1, <2>2
  <2> QED BY <2>3 DEF S
<1> QED
  BY <1>2, <1>3, <1>4

LEMMA ChildIs ==
  ASSUME NEW d \in Documents, NEW s \in DOMAIN d
  PROVE  /\ \A x \in {d[s].items, d[s].extra, d[s].names} : x \notin {None, Closed} => x \in OnAnyValue(d, s)
         /\ \A k \in DOMAIN d[s].props : d[s].props[k] \in OnAnyValue(d, s)
BY ChildrenSeq DEF OnAnyValue

(* What the keywords on arrays say.                                        *)
ArrayOK(d, n, v) ==
    /\ LengthOK(n, v.items)
    /\ n.unique => Distinct(v.items)
    /\ n.items # None => \A i \in DOMAIN v.items : Conforms(d, n.items, v.items[i])

LEMMA ArraySound ==
  ASSUME NEW d \in Documents, NEW R, NEW P, Within(d, R, P),
         NEW depth \in Nat, SoundValidate(d, R, P, depth + 1),
         NEW job, NEW seen, Due(d, R, P, job, seen, depth), NEW st, Clean(d, st),
         job.value.type = "array"
  PROVE  LET out == ArrayErrors(d, job, seen \cup {<<job.schema, job.value>>}, depth, st)
         IN  /\ Clean(d, out)
             /\ WellFounded(d) =>
                    Judges(st.errors, out.errors, ArrayOK(d, d[job.schema], job.value))
<1> DEFINE s      == job.schema
           v      == job.value
           n      == d[s]
           items  == v.items
           below  == seen \cup {<<s, v>>}
           short  == Len(items) < n.fewest
           longer == n.most # None /\ Len(items) > n.most
           same   == ~Distinct(items)
           long   == AddIf(short, st, Here(job))
           sized  == AddIf(longer, long, Here(job))
           after  == Spend(sized, Size(v) - 1)
           unique == IF ~n.unique           THEN sized
                     ELSE IF after.left < 0 THEN Add(after, <<"limit">>)
                     ELSE AddIf(same, after, Here(job))
           jobs   == [i \in DOMAIN items |-> Job(n.items, items[i], Append(job.place, ToString(i)))]
           loop   == VisitAll(d, jobs, below, depth, unique, "own")
           out    == IF n.items = None THEN unique ELSE loop.st
           Unique == n.unique => Distinct(items)
           ItemsOK == n.items # None => \A i \in DOMAIN items : Conforms(d, n.items, items[i])
<1>0. s \in DOMAIN d /\ Subschema(n) /\ s \in R /\ v \in Values
  BY DocumentsAssumption DEF Due, Within
<1>1. items \in Seq(Values) /\ \A i \in DOMAIN items : Size(items[i]) < Size(v)
  BY <1>0, ArrayIs
<1>2. Here(job) \in Reasons
  BY ReasonOfError DEF Here
<1>3. ArrayErrors(d, job, below, depth, st) = out
  BY DEF ArrayErrors
<1>4. LengthOK(n, items) <=> ~short /\ ~longer
  <2>1. n.fewest \in Nat /\ (n.most = None \/ n.most \in Nat) /\ Len(items) \in Nat
    BY <1>0, <1>1 DEF Subschema
  <2> QED BY <2>1 DEF LengthOK
<1>5. short \in BOOLEAN /\ longer \in BOOLEAN /\ same \in BOOLEAN
  BY DEF Distinct
<1> HIDE DEF short, longer, same
<1>6. Clean(d, long) /\ Judges(st.errors, long.errors, ~short)
  BY <1>2, <1>5, AddIfIs
<1> HIDE DEF long
<1>7. Clean(d, sized) /\ Judges(long.errors, sized.errors, ~longer)
  BY <1>2, <1>5, <1>6, AddIfIs
<1> HIDE DEF sized
<1>8. Clean(d, after) /\ after.errors = sized.errors
  BY <1>7, SpendIs
<1> HIDE DEF after
<1>9. Clean(d, unique) /\ Judges(sized.errors, unique.errors, Unique)
  <2>1. CASE ~n.unique
    BY <1>7, <2>1 DEF Judges
  <2>2. CASE n.unique /\ after.left < 0
    <3>1. unique = Add(after, <<"limit">>)
      BY <2>2
    <3> HIDE DEF unique, Unique
    <3> QED BY <1>8, <3>1, LimitIs
  <2>3. CASE n.unique /\ ~(after.left < 0)
    <3>1. unique = AddIf(same, after, Here(job))
      BY <2>3
    <3>2. Unique <=> ~same
      BY <2>3 DEF same
    <3> HIDE DEF unique, Unique
    <3>3. Clean(d, unique) /\ Judges(after.errors, unique.errors, ~same)
      BY <1>2, <1>5, <1>8, <3>1, AddIfIs
    <3> QED BY <1>8, <3>2, <3>3 DEF Judges
  <2> QED BY <2>1, <2>2, <2>3
<1> HIDE DEF unique
<1>10. Clean(d, out) /\ (WellFounded(d) => Judges(unique.errors, out.errors, ItemsOK))
  <2>1. CASE n.items = None
    BY <1>9, <2>1 DEF Judges
  <2>2. CASE n.items # None
    <3>1. n.items \in OnAnyValue(d, s)
      BY <1>0, <2>2, DocumentsAssumption, ChildIs DEF Subschema
    <3>2. DOMAIN items = 1..Len(items) /\ Len(items) \in Nat
      BY <1>1
    <3>3. jobs = [i \in 1..Len(items) |-> jobs[i]] /\ DOMAIN jobs = DOMAIN items
      BY <3>2
    <3>4. \A i \in DOMAIN jobs : jobs[i].schema = n.items /\ jobs[i].value = items[i]
                                 /\ jobs[i] = Job(jobs[i].schema, jobs[i].value, jobs[i].place)
      BY <3>3 DEF Job
    <3> HIDE DEF jobs
    <3>5. \A i \in DOMAIN jobs : items[i] \in Values
      BY <1>1, <3>3
    <3>6. \A i \in DOMAIN jobs :
             /\ jobs[i] = Job(jobs[i].schema, jobs[i].value, jobs[i].place)
             /\ jobs[i].schema \in OnAnyValue(d, job.schema)
             /\ jobs[i].value \in Values /\ Size(jobs[i].value) < Size(job.value)
      BY <1>1, <3>1, <3>3, <3>4, <3>5
    <3>7. Clean(d, loop.st) /\ (WellFounded(d) => Judges(unique.errors, loop.st.errors,
                                     \A i \in DOMAIN jobs : Conforms(d, jobs[i].schema, jobs[i].value)))
      <4> HIDE DEF n, items
      <4> QED BY <1>9, <3>2, <3>3, <3>6, PartsSound
    <3>8. (\A i \in DOMAIN jobs : Conforms(d, jobs[i].schema, jobs[i].value)) <=> ItemsOK
      BY <2>2, <3>3, <3>4
    <3> HIDE DEF loop, ItemsOK
    <3> QED BY <2>2, <3>7, <3>8 DEF Judges
  <2> QED BY <2>1, <2>2
<1> HIDE DEF out
<1>11. ASSUME WellFounded(d) PROVE Judges(st.errors, out.errors, ArrayOK(d, n, v))
  <2>1. ArrayOK(d, n, v) <=> ~short /\ ~longer /\ Unique /\ ItemsOK
    BY <1>4 DEF ArrayOK
  <2> HIDE DEF Unique, ItemsOK
  <2> QED BY <1>6, <1>7, <1>9, <1>10, <1>11, <2>1 DEF Judges
<1> QED
  BY <1>3, <1>10, <1>11

(* What the keywords on objects say, one by one and together.              *)
RequiredOK(n, v) == n.required \subseteq Keys(v)
ClosedOK(n, v)   == n.extra = Closed => \A f \in ToSet(v.fields) : f.key \in DOMAIN n.props
ExtraOK(d, n, v) ==
    n.extra \notin {None, Closed} =>
        \A f \in ToSet(v.fields) : f.key \notin DOMAIN n.props => Conforms(d, n.extra, f.value)
NamesOK(d, n, v) ==
    n.names # None => \A f \in ToSet(v.fields) : Conforms(d, n.names, Scalar("string", f.key))
PropsOK(d, n, v) ==
    \A f \in ToSet(v.fields) : f.key \in DOMAIN n.props => Conforms(d, n.props[f.key], f.value)
ObjectOK(d, n, v) ==
    RequiredOK(n, v) /\ ClosedOK(n, v) /\ ExtraOK(d, n, v) /\ NamesOK(d, n, v) /\ PropsOK(d, n, v)

(* One error for each member of a sequence.                                *)
LEMMA ErrorsFor ==
  ASSUME NEW d, NEW st, Clean(d, st), NEW F, NEW seq \in Seq(F), NEW error,
         error = [i \in DOMAIN seq |-> error[i]], \A i \in DOMAIN seq : error[i] \in Reasons
  PROVE  Clean(d, Add(st, error)) /\ Judges(st.errors, Add(st, error).errors, ToSet(seq) = {})
<1>1. DOMAIN seq = 1..Len(seq) /\ Len(seq) \in Nat
  OBVIOUS
<1>2. error \in Seq(Reasons) /\ Len(error) = Len(seq)
  BY <1>1
<1>3. error = << >> <=> ToSet(seq) = {}
  <2>1. error = << >> <=> Len(seq) = 0
    BY <1>1, <1>2
  <2>2. ToSet(seq) = {} <=> Len(seq) = 0
    <3>1. CASE Len(seq) = 0
      BY <1>1, <3>1 DEF ToSet
    <3>2. CASE Len(seq) # 0
      <4>1. 1 \in DOMAIN seq
        BY <1>1, <3>2
      <4> QED BY <3>2, <4>1 DEF ToSet
    <3> QED BY <3>1, <3>2
  <2> QED BY <2>1, <2>2
<1>4. /\ Clean(d, Add(st, error))
      /\ Add(st, error).errors = << >> <=> st.errors = << >> /\ error = << >>
      /\ "invalid" \in ToSet(Add(st, error).errors) =>
             "invalid" \in ToSet(st.errors) \/ "invalid" \in ToSet(error)
  BY <1>2, AddIs
<1>5. "invalid" \in ToSet(error) => error # << >>
  BY EmptyErrors
<1> QED
  BY <1>3, <1>4, <1>5 DEF Judges

(* The members of a sequence, each given to a job.                         *)
LEMMA FieldsSound ==
  ASSUME NEW d \in Documents, NEW R, NEW P, Within(d, R, P),
         NEW depth \in Nat, SoundValidate(d, R, P, depth + 1),
         NEW job, NEW seen, Due(d, R, P, job, seen, depth), NEW st, Clean(d, st),
         NEW F, NEW fields \in Seq(F), NEW schema, NEW value, NEW stops, NEW jobs,
         jobs = [i \in DOMAIN fields |->
                    Below(job, schema[fields[i]], fields[i], value[fields[i]])],
         \A f \in ToSet(fields) :
             /\ schema[f] \in OnAnyValue(d, job.schema)
             /\ value[f] \in Values /\ Size(value[f]) < Size(job.value)
  PROVE  LET out == VisitAll(d, jobs, seen \cup {<<job.schema, job.value>>}, depth, st, stops).st
         IN  /\ Clean(d, out)
             /\ WellFounded(d) =>
                    Judges(st.errors, out.errors,
                           \A f \in ToSet(fields) : Conforms(d, schema[f], value[f]))
<1> DEFINE k   == Len(fields)
           out == VisitAll(d, jobs, seen \cup {<<job.schema, job.value>>}, depth, st, stops).st
<1>1. DOMAIN fields = 1..k /\ k \in Nat /\ \A i \in 1..k : fields[i] \in ToSet(fields)
  BY DEF ToSet
<1>2. jobs = [i \in 1..k |-> jobs[i]] /\ DOMAIN jobs = 1..k
  BY <1>1
<1>3. \A i \in 1..k : /\ jobs[i].schema = schema[fields[i]] /\ jobs[i].value = value[fields[i]]
                      /\ jobs[i] = Job(jobs[i].schema, jobs[i].value, jobs[i].place)
  BY <1>1 DEF Below, Job
<1> HIDE DEF k
<1>4. \A i \in DOMAIN jobs :
          /\ jobs[i] = Job(jobs[i].schema, jobs[i].value, jobs[i].place)
          /\ jobs[i].schema \in OnAnyValue(d, job.schema)
          /\ jobs[i].value \in Values /\ Size(jobs[i].value) < Size(job.value)
  BY <1>1, <1>2, <1>3
<1>5. Clean(d, out) /\ (WellFounded(d) => Judges(st.errors, out.errors,
                            \A i \in DOMAIN jobs : Conforms(d, jobs[i].schema, jobs[i].value)))
  BY ONLY <1>1, <1>2, <1>4, d \in Documents, Within(d, R, P), depth \in Nat,
          SoundValidate(d, R, P, depth + 1), Due(d, R, P, job, seen, depth), Clean(d, st), PartsSound
<1>6. (\A i \in DOMAIN jobs : Conforms(d, jobs[i].schema, jobs[i].value))
      <=> \A f \in ToSet(fields) : Conforms(d, schema[f], value[f])
  BY ONLY <1>1, <1>2, <1>3 DEF ToSet
<1> HIDE DEF out
<1>7. Clean(d, out) /\ (WellFounded(d) => Judges(st.errors, out.errors,
                            \A f \in ToSet(fields) : Conforms(d, schema[f], value[f])))
  BY <1>5, <1>6
<1> QED
  BY <1>7 DEF out
LEMMA ObjectSound ==
  ASSUME NEW d \in Documents, NEW R, NEW P, Within(d, R, P),
         NEW depth \in Nat, SoundValidate(d, R, P, depth + 1),
         NEW job, NEW seen, Due(d, R, P, job, seen, depth), NEW st, Clean(d, st),
         job.value.type = "object"
  PROVE  LET out == ObjectErrors(d, job, seen \cup {<<job.schema, job.value>>}, depth, st)
         IN  /\ Clean(d, out)
             /\ WellFounded(d) =>
                    Judges(st.errors, out.errors, ObjectOK(d, d[job.schema], job.value))
<1> DEFINE s        == job.schema
           v        == job.value
           n        == d[s]
           fields   == v.fields
           F        == [key : Strings, value : Values]
           below    == seen \cup {<<s, v>>}
           known    == WithKeys(fields, DOMAIN n.props)
           others   == WithKeys(fields, Keys(v) \ DOMAIN n.props)
           ErrorAt(key) == Error(ToSet(job.place) \cup {key})
           missing  == InSomeOrder(n.required \ Keys(v))
           lacking  == [i \in DOMAIN missing |-> ErrorAt(missing[i])]
           absent   == Add(st, lacking)
           strange  == [i \in DOMAIN others |-> ErrorAt(others[i].key)]
           closed   == IF n.extra # Closed THEN absent ELSE Add(absent, strange)
           extras   == IF n.extra \in {None, Closed} THEN << >>
                       ELSE [i \in DOMAIN others |-> Below(job, n.extra, others[i], others[i].value)]
           names    == IF n.names = None THEN << >>
                       ELSE [i \in DOMAIN fields |->
                                Below(job, n.names, fields[i], Scalar("string", fields[i].key))]
           props    == [i \in DOMAIN known |->
                           Below(job, n.props[known[i].key], known[i], known[i].value)]
           Visited(jobs, from) == VisitAll(d, jobs, below, depth, from, "never").st
           extra    == Visited(extras, closed)
           named    == Visited(names, extra)
           out      == Visited(props, named)
<1>0. s \in DOMAIN d /\ Subschema(n) /\ s \in R /\ v \in Values
  BY DocumentsAssumption DEF Due, Within
<1>1. fields \in Seq(F)
      /\ \A f \in ToSet(fields) :
             /\ f.value \in Values /\ Size(f.value) < Size(v)
             /\ Scalar("string", f.key) \in Values /\ Size(Scalar("string", f.key)) < Size(v)
  BY <1>0, ObjectIs
<1>2. ObjectErrors(d, job, below, depth, st) = out
  BY DEF ObjectErrors
<1>3. /\ known \in Seq(F)
      /\ \A f : f \in ToSet(known) <=> f \in ToSet(fields) /\ f.key \in DOMAIN n.props
  <2> HIDE DEF F, fields, n
  <2> QED BY <1>1, WithKeysIs
<1>4. /\ others \in Seq(F)
      /\ \A f : f \in ToSet(others) <=> f \in ToSet(fields) /\ f.key \notin DOMAIN n.props
  <2>1. /\ others \in Seq(F)
        /\ \A f : f \in ToSet(others) <=> f \in ToSet(fields) /\ f.key \in Keys(v) \ DOMAIN n.props
    <3> DEFINE keys == Keys(v) \ DOMAIN n.props
    <3> HIDE DEF F, fields, n, keys
    <3>1. /\ WithKeys(fields, keys) \in Seq(F)
          /\ \A f : f \in ToSet(WithKeys(fields, keys)) <=> f \in ToSet(fields) /\ f.key \in keys
      BY <1>1, WithKeysIs
    <3> QED BY <3>1 DEF keys
  <2>2. \A f \in ToSet(fields) : f.key \in Keys(v)
    BY DEF ToSet, Keys
  <2> HIDE DEF others, fields, n
  <2> QED BY <2>1, <2>2
<1> HIDE DEF F
<1>5. missing \in Seq(n.required \ Keys(v)) /\ ToSet(missing) = n.required \ Keys(v)
  <2>1. IsFiniteSet(n.required \ Keys(v))
    BY <1>0, FS_Subset DEF Subschema
  <2> DEFINE S == n.required \ Keys(v)
  <2> HIDE DEF S, n
  <2>2. InSomeOrder(S) \in Seq(S) /\ ToSet(InSomeOrder(S)) = S
    BY <2>1, InSomeOrderIs DEF S
  <2> QED BY <2>2 DEF S
<1> HIDE DEF known, others, missing
<1>6. Clean(d, absent) /\ Judges(st.errors, absent.errors, RequiredOK(n, v))
  <2>1. lacking = [i \in DOMAIN missing |-> lacking[i]] /\ \A i \in DOMAIN missing : lacking[i] \in Reasons
    BY ReasonOfError
  <2> HIDE DEF lacking
  <2>2. Clean(d, absent) /\ Judges(st.errors, absent.errors, ToSet(missing) = {})
    <3> HIDE DEF n
    <3> QED BY <1>5, <2>1, ErrorsFor
  <2>3. (ToSet(missing) = {}) <=> RequiredOK(n, v)
    BY <1>5 DEF RequiredOK
  <2> HIDE DEF absent
  <2> QED BY <2>2, <2>3 DEF Judges
<1> HIDE DEF absent
<1>7. Clean(d, closed) /\ Judges(absent.errors, closed.errors, ClosedOK(n, v))
  <2>1. CASE n.extra # Closed
    BY <1>6, <2>1 DEF Judges, ClosedOK
  <2>2. CASE n.extra = Closed
    <3>1. strange = [i \in DOMAIN others |-> strange[i]] /\ \A i \in DOMAIN others : strange[i] \in Reasons
      BY ReasonOfError
    <3>2. closed = Add(absent, strange)
      BY <2>2
    <3> HIDE DEF strange, closed
    <3>3. Clean(d, closed) /\ Judges(absent.errors, closed.errors, ToSet(others) = {})
      BY <1>4, <1>6, <3>1, <3>2, ErrorsFor
    <3>4. (ToSet(others) = {}) <=> ClosedOK(n, v)
      BY <1>4, <2>2 DEF ClosedOK
    <3> QED BY <3>3, <3>4 DEF Judges
  <2> QED BY <2>1, <2>2
<1> HIDE DEF closed
<1>8. Clean(d, extra) /\ (WellFounded(d) => Judges(closed.errors, extra.errors, ExtraOK(d, n, v)))
  <2>1. CASE n.extra \in {None, Closed}
    <3>1. extras = << >>
      BY <2>1
    <3> HIDE DEF extras
    <3>2. extra = closed
      BY <3>1, NoJobs
    <3> QED BY <1>7, <2>1, <3>2 DEF Judges, ExtraOK
  <2>2. CASE n.extra \notin {None, Closed}
    <3> DEFINE schema == [f \in ToSet(others) |-> n.extra]
               value  == [f \in ToSet(others) |-> f.value]
    <3>1. n.extra \in OnAnyValue(d, s)
      BY <1>0, <2>2, ChildIs
    <3>2. \A f \in ToSet(others) : schema[f] = n.extra /\ value[f] = f.value /\ f \in ToSet(fields)
      BY <1>4
    <3>3. \A i \in DOMAIN others : others[i] \in ToSet(others)
      BY DEF ToSet
    <3>4. extras = [i \in DOMAIN others |->
                       Below(job, schema[others[i]], others[i], value[others[i]])]
      BY <2>2, <3>2, <3>3
    <3> HIDE DEF schema, value, extras, n, fields
    <3>5. \A f \in ToSet(others) :
              /\ schema[f] \in OnAnyValue(d, job.schema)
              /\ value[f] \in Values /\ Size(value[f]) < Size(job.value)
      BY <1>1, <3>1, <3>2
    <3>6. Clean(d, extra) /\ (WellFounded(d) => Judges(closed.errors, extra.errors,
              \A f \in ToSet(others) : Conforms(d, schema[f], value[f])))
      BY <1>4, <1>7, <3>4, <3>5, FieldsSound
    <3>7. (\A f \in ToSet(others) : Conforms(d, schema[f], value[f])) <=> ExtraOK(d, n, v)
      BY <1>4, <2>2, <3>2 DEF ExtraOK, fields
    <3> HIDE DEF extra
    <3> QED BY <3>6, <3>7 DEF Judges
  <2> QED BY <2>1, <2>2
<1> HIDE DEF extra
<1>9. Clean(d, named) /\ (WellFounded(d) => Judges(extra.errors, named.errors, NamesOK(d, n, v)))
  <2>1. CASE n.names = None
    <3>1. names = << >>
      BY <2>1
    <3> HIDE DEF names
    <3>2. named = extra
      BY <3>1, NoJobs
    <3> QED BY <1>8, <2>1, <3>2 DEF Judges, NamesOK
  <2>2. CASE n.names # None
    <3> DEFINE schema == [f \in ToSet(fields) |-> n.names]
               value  == [f \in ToSet(fields) |-> Scalar("string", f.key)]
    <3>1. n.names \in OnAnyValue(d, s)
      BY <1>0, <2>2, ChildIs, DocumentsAssumption DEF Subschema
    <3>2. \A f \in ToSet(fields) : schema[f] = n.names /\ value[f] = Scalar("string", f.key)
      OBVIOUS
    <3>3. \A i \in DOMAIN fields : fields[i] \in ToSet(fields)
      BY DEF ToSet
    <3>4. names = [i \in DOMAIN fields |->
                      Below(job, schema[fields[i]], fields[i], value[fields[i]])]
      BY <2>2, <3>2, <3>3
    <3> HIDE DEF schema, value, names, n, fields
    <3>5. \A f \in ToSet(fields) :
              /\ schema[f] \in OnAnyValue(d, job.schema)
              /\ value[f] \in Values /\ Size(value[f]) < Size(job.value)
      BY <1>1, <3>1, <3>2
    <3>6. Clean(d, named) /\ (WellFounded(d) => Judges(extra.errors, named.errors,
              \A f \in ToSet(fields) : Conforms(d, schema[f], value[f])))
      BY <1>1, <1>8, <3>4, <3>5, FieldsSound
    <3>7. (\A f \in ToSet(fields) : Conforms(d, schema[f], value[f])) <=> NamesOK(d, n, v)
      BY <2>2, <3>2 DEF NamesOK, fields
    <3> HIDE DEF named
    <3> QED BY <3>6, <3>7 DEF Judges
  <2> QED BY <2>1, <2>2
<1> HIDE DEF named
<1>10. Clean(d, out) /\ (WellFounded(d) => Judges(named.errors, out.errors, PropsOK(d, n, v)))
  <2> DEFINE schema == [f \in ToSet(known) |-> n.props[f.key]]
             value  == [f \in ToSet(known) |-> f.value]
  <2>1. \A f \in ToSet(known) : schema[f] = n.props[f.key] /\ value[f] = f.value
                                /\ f \in ToSet(fields) /\ f.key \in DOMAIN n.props
    BY <1>3
  <2>2. \A f \in ToSet(known) : schema[f] \in OnAnyValue(d, s)
    BY <1>0, <2>1, ChildIs
  <2>3. \A i \in DOMAIN known : known[i] \in ToSet(known)
    BY DEF ToSet
  <2>4. props = [i \in DOMAIN known |->
                    Below(job, schema[known[i]], known[i], value[known[i]])]
    BY <2>1, <2>3
  <2> HIDE DEF schema, value, props, n, fields
  <2>5. \A f \in ToSet(known) :
            /\ schema[f] \in OnAnyValue(d, job.schema)
            /\ value[f] \in Values /\ Size(value[f]) < Size(job.value)
    BY <1>1, <2>1, <2>2
  <2>6. Clean(d, out) /\ (WellFounded(d) => Judges(named.errors, out.errors,
            \A f \in ToSet(known) : Conforms(d, schema[f], value[f])))
    BY <1>3, <1>9, <2>4, <2>5, FieldsSound
  <2>7. (\A f \in ToSet(known) : Conforms(d, schema[f], value[f])) <=> PropsOK(d, n, v)
    BY <1>3, <2>1 DEF PropsOK, fields
  <2> HIDE DEF out
  <2> QED BY <2>6, <2>7 DEF Judges
<1> HIDE DEF out
<1>11. ASSUME WellFounded(d) PROVE Judges(st.errors, out.errors, ObjectOK(d, n, v))
  <2> HIDE DEF n
  <2> QED BY <1>6, <1>7, <1>8, <1>9, <1>10, <1>11 DEF Judges, ObjectOK
<1> QED
  BY <1>2, <1>10, <1>11

-----------------------------------------------------------------------------
(* A job, and the validator.                                               *)

(* What the keywords on scalars, arrays and objects say.                   *)
ValueOK(d, n, v) ==
    /\ ~Unfit(n, v)
    /\ v.type = "array" => ArrayOK(d, n, v)
    /\ v.type = "object" => ObjectOK(d, n, v)

LEMMA ValueErrorsSound ==
  ASSUME NEW d \in Documents, NEW R, NEW P, Within(d, R, P),
         NEW depth \in Nat, SoundValidate(d, R, P, depth + 1),
         NEW job, NEW seen, Due(d, R, P, job, seen, depth), NEW st, Clean(d, st)
  PROVE  LET out == ValueErrors(d, job, seen \cup {<<job.schema, job.value>>}, depth, st)
         IN  /\ Clean(d, out)
             /\ WellFounded(d) =>
                    Judges(st.errors, out.errors, ValueOK(d, d[job.schema], job.value))
<1> DEFINE v     == job.value
           n     == d[job.schema]
           below == seen \cup {<<job.schema, v>>}
           out   == ValueErrors(d, job, below, depth, st)
<1>1. CASE v.type = "object"
  <2>1. out = ObjectErrors(d, job, below, depth, st)
    BY <1>1 DEF ValueErrors
  <2>2. ValueOK(d, n, v) <=> ObjectOK(d, n, v)
    BY <1>1 DEF ValueOK, Unfit
  <2>3. Clean(d, out) /\ (WellFounded(d) => Judges(st.errors, out.errors, ObjectOK(d, n, v)))
    BY <1>1, <2>1, ObjectSound
  <2> HIDE DEF out
  <2>4. Clean(d, out) /\ (WellFounded(d) => Judges(st.errors, out.errors, ValueOK(d, n, v)))
    BY <2>2, <2>3 DEF Judges
  <2> QED BY <2>4 DEF out
<1>2. CASE v.type = "array"
  <2>1. out = ArrayErrors(d, job, below, depth, st)
    BY <1>2 DEF ValueErrors
  <2>2. ValueOK(d, n, v) <=> ArrayOK(d, n, v)
    BY <1>2 DEF ValueOK, Unfit
  <2>3. Clean(d, out) /\ (WellFounded(d) => Judges(st.errors, out.errors, ArrayOK(d, n, v)))
    BY <1>2, <2>1, ArraySound
  <2> HIDE DEF out
  <2>4. Clean(d, out) /\ (WellFounded(d) => Judges(st.errors, out.errors, ValueOK(d, n, v)))
    BY <2>2, <2>3 DEF Judges
  <2> QED BY <2>4 DEF out
<1>3. CASE v.type \notin {"object", "array"}
  <2>1. out = AddIf(Unfit(n, v), st, Here(job))
    BY <1>3 DEF ValueErrors
  <2>2. ValueOK(d, n, v) <=> ~Unfit(n, v)
    BY <1>3 DEF ValueOK
  <2>3. Unfit(n, v) \in BOOLEAN /\ Here(job) \in Reasons
    BY ReasonOfError DEF Unfit, Here
  <2>4. Clean(d, out) /\ Judges(st.errors, out.errors, ~Unfit(n, v))
    BY <2>1, <2>3, AddIfIs
  <2> HIDE DEF out
  <2>5. Clean(d, out) /\ (WellFounded(d) => Judges(st.errors, out.errors, ValueOK(d, n, v)))
    BY <2>2, <2>4 DEF Judges
  <2> QED BY <2>5 DEF out
<1> QED
  BY <1>1, <1>2, <1>3

(* The definition of Conforms, keyword by keyword.                         *)
LEMMA ConformsIs ==
  ASSUME ConformsRecurs, NEW d \in Documents, WellFounded(d), NEW s \in DOMAIN d, NEW v \in Values
  PROVE  Conforms(d, s, v) <=> /\ HasType(d[s], v)
                               /\ Composed(d, d[s], v)
                               /\ EnumOK(d[s], v)
                               /\ ValueOK(d, d[s], v)
<1> DEFINE n == d[s]
           Meets(schema, value) == schema \in {None, Closed} \/ Conforms(d, schema, value)
<1>0. Subschema(n) /\ None \notin Ids /\ Closed \notin Ids /\ None # Closed
  BY DocumentsAssumption, ValidatorAssumption
<1>1. Conforms(d, s, v) <=> ConformsStep(d, s, v)
  BY DEF ConformsRecurs
<1>2. Composed(d, n, v) <=> /\ Meets(n.ref, v)
                            /\ MatchingOf(d, n.all, v) = DOMAIN n.all
                            /\ n.any # << >> => MatchingOf(d, n.any, v) # {}
                            /\ n.one # << >> => Cardinality(MatchingOf(d, n.one, v)) = 1
  BY <1>0 DEF Composed, MatchingOf, Subschema
<1>3. CASE v.type = "array"
  <2>1. ArrayOK(d, n, v) <=> /\ LengthOK(n, v.items)
                             /\ n.unique => Distinct(v.items)
                             /\ \A i \in DOMAIN v.items : Meets(n.items, v.items[i])
    BY <1>0 DEF ArrayOK, Subschema
  <2> HIDE DEF n
  <2> QED BY <1>1, <1>2, <1>3, <2>1 DEF ConformsStep, ValueOK, EnumOK, MatchingOf, n
<1>4. CASE v.type = "object"
  <2>1. ObjectOK(d, n, v) <=>
            /\ n.required \subseteq Keys(v)
            /\ \A f \in ToSet(v.fields) :
                   /\ Meets(n.names, Scalar("string", f.key))
                   /\ IF f.key \in DOMAIN n.props THEN Meets(n.props[f.key], f.value)
                      ELSE n.extra # Closed /\ Meets(n.extra, f.value)
    <3>1. n.names # Closed /\ \A k \in DOMAIN n.props : n.props[k] \notin {None, Closed}
      BY <1>0 DEF Subschema
    <3> HIDE DEF n
    <3> QED BY <1>0, <3>1 DEF ObjectOK, RequiredOK, ClosedOK, ExtraOK, NamesOK, PropsOK
  <2> HIDE DEF n
  <2> QED BY <1>1, <1>2, <1>4, <2>1 DEF ConformsStep, ValueOK, EnumOK, MatchingOf, n
<1>5. CASE v.type \notin {"array", "object"}
  <2> HIDE DEF n
  <2> QED BY <1>1, <1>2, <1>5 DEF ConformsStep, ValueOK, EnumOK, MatchingOf, n
<1> QED
  BY <1>3, <1>4, <1>5
LEMMA ValidateNode ==
  ASSUME ValidateRecurs, ConformsRecurs, NEW d \in Documents, NEW R, NEW P, Within(d, R, P),
         NEW depth \in Nat, depth < MaxDepth => SoundValidate(d, R, P, depth + 1)
  PROVE  SoundValidate(d, R, P, depth)
<1> SUFFICES ASSUME NEW job, NEW seen, NEW st, Due(d, R, P, job, seen, depth), Clean(d, st)
             PROVE  Decides(d, job, st, Validate(d, job, seen, depth, st))
  BY DEF SoundValidate
<1> DEFINE s        == job.schema
           v        == job.value
           n        == d[s]
           key      == <<s, v, job.place>>
           self     == <<s, v>>
           worked   == Spend([st EXCEPT !.errors = << >>], 1)
           below    == seen \cup {self}
           composed == Composition(d, job, below, depth, worked)
           equality == Equality(n, job, composed)
           valued   == ValueErrors(d, job, below, depth, equality)
           mistyped == [composed EXCEPT !.errors = <<Here(job)>>]
           errors   == IF ~HasType(n, v) THEN mistyped ELSE valued
           limited  == [worked EXCEPT !.errors = <<"limit">>]
           toodeep  == [worked EXCEPT !.errors = <<"limit">>, !.deep = TRUE]
           stored   == [worked EXCEPT !.errors = st.memo[key]]
           kept     == [errors EXCEPT !.memo = With(@, key, errors.errors)]
           out      == Validate(d, job, seen, depth, st)
<1> SUFFICES Decides(d, job, st, out)
  OBVIOUS
<1>1. out = ValidateStep(d, job, seen, depth, st)
  BY DEF ValidateRecurs
<1>2. s \in R /\ s \in DOMAIN d /\ v \in Values /\ Trail(d, R, seen, s, v)
      /\ (Acyclic(d) => <<s, depth>> \in P)
  BY DEF Due, Within
<1>3. Clean(d, worked) /\ worked.errors = << >> /\ worked.memo = st.memo
  <2> DEFINE reset == [st EXCEPT !.errors = << >>]
  <2>1. Clean(d, reset) /\ reset.errors = << >>
    BY EmptyErrors, PutErrors
  <2>2. reset.memo = st.memo
    BY DEF Clean
  <2> HIDE DEF reset
  <2>3. Clean(d, Spend(reset, 1)) /\ Spend(reset, 1).errors = << >>
    BY <2>1, SpendIs
  <2>4. Spend(reset, 1).memo = reset.memo
    BY <2>1 DEF Spend, Clean
  <2> QED BY <2>2, <2>3, <2>4 DEF reset
<1>4. "limit" \in Reasons /\ Here(job) \in Reasons
  BY ReasonOfError DEF Here, Reasons
<1>5. out = IF s \notin DOMAIN d      THEN [worked EXCEPT !.broken = TRUE]
            ELSE IF depth >= MaxDepth THEN toodeep
            ELSE IF worked.left < 0   THEN limited
            ELSE IF key \in DOMAIN st.memo THEN stored
            ELSE IF self \in seen     THEN worked
            ELSE kept
  BY <1>1 DEF ValidateStep
<1> HIDE DEF worked, out
<1>6. CASE depth >= MaxDepth
  <2>1. out = toodeep
    BY <1>2, <1>5, <1>6
  <2>2. ~Acyclic(d)
    BY <1>2, <1>6, ValidatorAssumption DEF Within
  <2>3. Clean(d, limited) /\ limited.errors = <<"limit">>
    BY <1>3, <1>4, OneError, PutErrors
  <2>4. toodeep = [limited EXCEPT !.deep = TRUE]
    BY <1>3 DEF Clean
  <2> HIDE DEF limited, toodeep
  <2>5. Clean(d, toodeep) /\ toodeep.errors = <<"limit">>
    BY <2>2, <2>3, <2>4 DEF Clean
  <2>6. <<"limit">> # << >> /\ ToSet(<<"limit">>) = {"limit"}
    BY <1>4, OneError
  <2> QED BY <2>1, <2>5, <2>6 DEF Decides, Judges
<1>7. CASE ~(depth >= MaxDepth) /\ worked.left < 0
  <2>1. out = limited
    BY <1>2, <1>5, <1>7
  <2>2. Clean(d, limited) /\ limited.errors = <<"limit">>
    BY <1>3, <1>4, OneError, PutErrors
  <2> HIDE DEF limited
  <2>3. <<"limit">> # << >> /\ ToSet(<<"limit">>) = {"limit"}
    BY <1>4, OneError
  <2> QED BY <2>1, <2>2, <2>3 DEF Decides, Judges
<1>8. CASE ~(depth >= MaxDepth) /\ ~(worked.left < 0) /\ key \in DOMAIN st.memo
  <2>1. out = stored
    BY <1>2, <1>5, <1>8
  <2>2. st.memo[key] \in Errors /\ (WellFounded(d) => Judges(<< >>, st.memo[key], Conforms(d, s, v)))
    BY <1>8 DEF Clean, Remembers
  <2>3. Clean(d, stored) /\ stored.errors = st.memo[key]
    BY <1>3, <2>2, PutErrors
  <2> HIDE DEF stored
  <2> QED BY <2>1, <2>2, <2>3 DEF Decides
<1>9. CASE ~(depth >= MaxDepth) /\ ~(worked.left < 0) /\ key \notin DOMAIN st.memo /\ self \in seen
  <2>1. out = worked
    BY <1>2, <1>5, <1>9
  <2>2. ~WellFounded(d)
    BY <1>2, <1>9, TrailNoReturn DEF Within
  <2> QED BY <1>3, <2>1, <2>2 DEF Decides
<1>10. CASE ~(depth >= MaxDepth) /\ ~(worked.left < 0) /\ key \notin DOMAIN st.memo /\ self \notin seen
  <2>1. out = kept
    BY <1>2, <1>5, <1>10
  <2>2. SoundValidate(d, R, P, depth + 1)
    BY <1>10, ValidatorAssumption
  <2>3. Clean(d, composed) /\ (WellFounded(d) => Judges(<< >>, composed.errors, Composed(d, n, v)))
    BY <1>3, <2>2, CompositionSound
  <2> HIDE DEF composed
  <2>4. Clean(d, errors) /\ (WellFounded(d) => Judges(<< >>, errors.errors, Conforms(d, s, v)))
    <3>1. CASE ~HasType(n, v)
      <4>1. errors = mistyped
        BY <3>1
      <4>2. Clean(d, mistyped) /\ mistyped.errors = <<Here(job)>>
        BY <1>4, <2>3, OneError, PutErrors
      <4> HIDE DEF errors, mistyped
      <4>3. <<Here(job)>> # << >>
        BY <1>4, OneError
      <4>4. WellFounded(d) => ~Conforms(d, s, v)
        BY <1>2, <3>1, ConformsIs
      <4> QED BY <4>1, <4>2, <4>3, <4>4 DEF Judges
    <3>2. CASE HasType(n, v)
      <4>1. errors = valued
        BY <3>2
      <4>2. Clean(d, equality) /\ Judges(composed.errors, equality.errors, EnumOK(n, v))
        BY <2>3, EqualitySound
      <4> HIDE DEF equality
      <4>3. Clean(d, valued)
            /\ (WellFounded(d) => Judges(equality.errors, valued.errors, ValueOK(d, n, v)))
        BY <2>2, <4>2, ValueErrorsSound
      <4> HIDE DEF valued, errors
      <4>4. WellFounded(d) =>
                (Conforms(d, s, v) <=> Composed(d, n, v) /\ EnumOK(n, v) /\ ValueOK(d, n, v))
        BY <1>2, <3>2, ConformsIs
      <4>5. ASSUME WellFounded(d) PROVE Judges(<< >>, errors.errors, Conforms(d, s, v))
        <5>1. Judges(<< >>, errors.errors, Composed(d, n, v) /\ EnumOK(n, v) /\ ValueOK(d, n, v))
          BY <2>3, <4>1, <4>2, <4>3, <4>5 DEF Judges
        <5> QED BY <4>4, <4>5, <5>1 DEF Judges
      <4> QED BY <4>1, <4>3, <4>5
    <3> QED BY <3>1, <3>2
  <2> HIDE DEF errors
  <2> DEFINE memo == With(errors.memo, key, errors.errors)
  <2>5. kept = [errors |-> errors.errors, memo |-> memo, left |-> errors.left,
                deep |-> errors.deep, broken |-> errors.broken]
    BY <2>4 DEF Clean
  <2>6. Remembers(d, memo)
    <3>1. DOMAIN memo = {key} \cup DOMAIN errors.memo
          /\ \A k \in DOMAIN memo : memo[k] = IF k = key THEN errors.errors ELSE errors.memo[k]
      BY DEF With
    <3>2. key[1] = s /\ key[2] = v
      OBVIOUS
    <3> HIDE DEF memo, key
    <3>3. errors.errors \in Errors /\ Remembers(d, errors.memo)
      BY <2>4 DEF Clean
    <3> QED BY <2>4, <3>1, <3>2, <3>3 DEF Remembers
  <2> HIDE DEF kept, memo
  <2>7. Clean(d, kept) /\ kept.errors = errors.errors
    BY <2>4, <2>5, <2>6 DEF Clean
  <2> QED BY <2>1, <2>4, <2>7 DEF Decides
<1> QED
  BY <1>6, <1>7, <1>8, <1>9, <1>10
LEMMA ValidateSound ==
  ASSUME ValidateRecurs, ConformsRecurs, NEW d \in Documents, NEW R, NEW P, Within(d, R, P)
  PROVE  SoundValidate(d, R, P, 0)
<1> DEFINE S == {depth \in Nat : SoundValidate(d, R, P, depth)}
<1>1. MaxDepth \in Nat
  BY ValidatorAssumption
<1>2. ASSUME NEW depth \in Nat, depth >= MaxDepth PROVE depth \in S
  BY <1>1, <1>2, ValidateNode
<1>3. ASSUME NEW depth \in Nat, depth < MaxDepth, depth + 1 \in S PROVE depth \in S
  BY <1>3, ValidateNode
<1> HIDE DEF S
<1>4. Nat \subseteq S
  BY <1>1, <1>2, <1>3, DepthInduction
<1> QED
  BY <1>4 DEF S

(* What the validator says of the arguments of a call, of a tool whose     *)
(* schema was admitted.                                                    *)
LEMMA ValidateArgumentsSound ==
  ASSUME ExamineRecurs, ValidateRecurs, ConformsRecurs,
         NEW d \in Documents, SchemaSupported(d) = TRUE, NEW v \in Values, NEW budget
  PROVE  LET out == ValidateArguments(d, v, budget)
         IN  /\ Clean(d, out)
             /\ WellFounded(d) => Judges(<< >>, out.errors, Conforms(d, Root, v))
<1> DEFINE job   == Job(Root, v, << >>)
           start == [errors |-> << >>, memo |-> << >>, left |-> budget,
                     deep |-> FALSE, broken |-> FALSE]
<1>1. PICK R, P : Within(d, R, P)
  BY Admitted
<1>2. SoundValidate(d, R, P, 0)
  BY <1>1, ValidateSound
<1>3. job.schema = Root /\ job.value = v /\ job.place = << >>
  BY DEF Job
<1>4. Due(d, R, P, job, {}, 0)
  BY <1>1, <1>3 DEF Due, Trail, Within
<1>5. Clean(d, start)
  BY EmptyErrors DEF Clean, Remembers
<1>6. ValidateArguments(d, v, budget) = Validate(d, job, {}, 0, start)
  BY DEF ValidateArguments
<1> HIDE DEF job, start
<1> QED
  BY <1>2, <1>3, <1>4, <1>5, <1>6 DEF SoundValidate, Decides

-----------------------------------------------------------------------------
(* What is known of the call in progress.                                  *)

CallInv ==
    /\ doc \in Documents
    /\ offered \in {None, SchemaSupported(doc)}
    /\ request = None => accepted = None
    /\ request # None => request \in Values /\ accepted = ValidAction(request)
    /\ Checked =>
           /\ request # None /\ IsCall /\ offered = TRUE
           /\ \E budget \in Budgets :
                  LET out == ValidateArguments(doc, At(request, "arguments"), budget)
                  IN  outcome = [errors |-> out.errors, deep |-> out.deep, broken |-> out.broken]

LEMMA CallInvHolds == Spec => []CallInv
<1>1. Init => CallInv
  BY DEF Init, CallInv, Checked
<1>2. ASSUME CallInv, [Next]_vars PROVE CallInv'
  <2>0. None \notin BOOLEAN
    BY ValidatorAssumption
  <2>1. CASE List
    <3>1. outcome = None
      BY <1>2, <2>0, <2>1 DEF CallInv, List, Checked
    <3> QED BY <1>2, <2>1, <3>1 DEF CallInv, List, Checked
  <2>2. CASE Receive
    <3>1. outcome = None /\ outcome' = None /\ doc' = doc /\ offered' = offered
      BY <1>2, <2>2 DEF CallInv, Receive, Checked
    <3>2. request' \in Values /\ accepted' = ValidAction(request')
      BY <1>2, <2>2, ValuesAssumption DEF CallInv, Receive
    <3>3. request' # None
      BY <3>2, ValuesAssumption
    <3> QED BY <1>2, <3>1, <3>2, <3>3 DEF CallInv, Checked
  <2>3. CASE CheckArguments
    <3>1. request # None /\ IsCall /\ IsCall' /\ UNCHANGED <<doc, offered, request, accepted>>
      BY <1>2, <2>0, <2>3 DEF CallInv, CheckArguments, IsCall
    <3>2. \E budget \in Budgets :
              LET out == ValidateArguments(doc, At(request, "arguments"), budget)
              IN  outcome' = [errors |-> out.errors, deep |-> out.deep, broken |-> out.broken]
      BY <2>3 DEF CheckArguments
    <3>3. offered = TRUE
      BY <2>3 DEF CheckArguments
    <3> QED BY <1>2, <3>1, <3>2, <3>3 DEF CallInv, Checked
  <2>4. CASE Reply
    BY <1>2, <2>4 DEF CallInv, Reply, Checked
  <2>5. CASE UNCHANGED vars
    BY <1>2, <2>5 DEF CallInv, vars, Checked, IsCall
  <2> QED BY <1>2, <2>1, <2>2, <2>3, <2>4, <2>5 DEF Next
<1> QED
  BY <1>1, <1>2, PTL DEF Spec

(* The value at a key of an object.                                        *)
LEMMA AtIs ==
  ASSUME NEW v \in Values, v.type = "object", NEW key \in Keys(v)
  PROVE  /\ At(v, key) \in Values
         /\ \A f \in ToSet(v.fields) : f.key = key => At(v, key) = f.value
         /\ \E f \in ToSet(v.fields) : f.key = key
<1> DEFINE i == CHOOSE i \in DOMAIN v.fields : v.fields[i].key = key
<1>1. i \in DOMAIN v.fields /\ v.fields[i].key = key
  BY DEF Keys
<1>2. At(v, key) = v.fields[i].value
  BY DEF At
<1> HIDE DEF i
<1>3. v.fields[i] \in ToSet(v.fields)
  BY <1>1 DEF ToSet
<1>4. \A j \in DOMAIN v.fields : v.fields[j].key = key => j = i
  BY <1>1, ObjectIs
<1>5. v.fields[i].value \in Values
  BY <1>3, ObjectIs
<1> QED
  BY <1>1, <1>2, <1>3, <1>4, <1>5 DEF ToSet

(* The outcome of a call, by the validator's lemma.                        *)
LEMMA OutcomeSound ==
  ASSUME ExamineRecurs, ValidateRecurs, ConformsRecurs, CallInv, Checked
  PROVE  /\ outcome.errors \in Errors /\ outcome.broken = FALSE
         /\ outcome.deep \in BOOLEAN /\ (outcome.deep => ~Acyclic(doc))
         /\ WellFounded(doc) => Judges(<< >>, outcome.errors, Meant)
<1> DEFINE v == At(request, "arguments")
<1>1. request \in Values /\ ValidAction(request) /\ At(request, "action").name = "call"
  BY DEF CallInv, IsCall
<1>2. v \in Values
  <2>1. "arguments" \in Keys(request) /\ request.type = "object"
    BY <1>1 DEF ValidAction, ShapeOK, ACTION_FIELDS, Fields
  <2> QED BY <1>1, <2>1, AtIs
<1>3. SchemaSupported(doc) = TRUE
  <2>1. offered = TRUE /\ offered \in {None, SchemaSupported(doc)} /\ None \notin BOOLEAN
    BY ValidatorAssumption DEF CallInv
  <2> QED BY <2>1
<1>4. doc \in Documents
  BY DEF CallInv
<1>5. PICK budget \in Budgets :
          LET out == ValidateArguments(doc, v, budget)
          IN  outcome = [errors |-> out.errors, deep |-> out.deep, broken |-> out.broken]
  BY DEF CallInv
<1> DEFINE out == ValidateArguments(doc, v, budget)
<1> HIDE DEF v
<1>6. Clean(doc, out) /\ (WellFounded(doc) => Judges(<< >>, out.errors, Conforms(doc, Root, v)))
  BY <1>2, <1>3, <1>4, ValidateArgumentsSound
<1>7. outcome.errors = out.errors /\ outcome.deep = out.deep /\ outcome.broken = out.broken
  BY <1>5
<1> HIDE DEF out
<1> QED
  BY <1>6, <1>7 DEF Clean, Meant, v

-----------------------------------------------------------------------------
(* Theorems.                                                               *)

(* A validation of arguments reports at most MAX_VALIDATION_ERRORS errors, *)
(* however many levels merge theirs (_record_error, _merge_errors).        *)
THEOREM ArgumentsTypeOK ==
  ASSUME ExamineRecurs, ValidateRecurs, ConformsRecurs
  PROVE  Spec => []TypeOK
<1>1. CallInv => TypeOK
  <2> SUFFICES ASSUME CallInv PROVE TypeOK
    OBVIOUS
  <2>1. offered \in BOOLEAN \cup {None}
    BY Admitted DEF CallInv
  <2>2. accepted \in BOOLEAN \cup {None}
    BY DEF CallInv, ValidAction
  <2>3. ASSUME Checked PROVE Len(outcome.errors) <= MaxErrors
                             /\ ToSet(outcome.errors) \subseteq {"invalid", "limit"}
    BY <2>3, OutcomeSound DEF Errors, Reasons, ToSet
  <2> QED BY <2>1, <2>2, <2>3 DEF TypeOK
<1> QED
  BY <1>1, CallInvHolds, PTL

(* A schema the catalog offers can be validated against: the validator     *)
(* never comes to a subschema that is none, and reaches the depth limit    *)
(* only in a schema that recurs (schema_supported, validate).              *)
THEOREM OfferedSchemasAreCheckable ==
  ASSUME ExamineRecurs, ValidateRecurs, ConformsRecurs
  PROVE  Spec => []AdmittedIsCheckable
<1>1. CallInv => AdmittedIsCheckable
  BY OutcomeSound DEF AdmittedIsCheckable
<1> QED
  BY <1>1, CallInvHolds, PTL

(* Arguments that reach the server match the schema, wherever a limit or   *)
(* the memo cut the validation short (validate).                           *)
THEOREM AcceptedArgumentsConform ==
  ASSUME ExamineRecurs, ValidateRecurs, ConformsRecurs
  PROVE  Spec => []AcceptedConforms
<1>1. CallInv => AcceptedConforms
  BY OutcomeSound DEF AcceptedConforms, Judges
<1> QED
  BY <1>1, CallInvHolds, PTL

(* Arguments that match are refused only for a limit, and every error says *)
(* so (_validate_composition).                                             *)
THEOREM ArgumentsRefusedForCause ==
  ASSUME ExamineRecurs, ValidateRecurs, ConformsRecurs
  PROVE  Spec => []RefusedForCause
<1>1. CallInv => RefusedForCause
  BY OutcomeSound, EmptyErrors DEF RefusedForCause, Judges
<1> QED
  BY <1>1, CallInvHolds, PTL

-----------------------------------------------------------------------------
(* The advertised schema.                                                  *)

(* Canonical form is computed where the theorem needs it: of JSON values,  *)
(* and of the strings the advertised schema names.                         *)
IdentityRecurs ==
    \A v \in Values \cup {Scalar("string", name) : name \in Kinds \cup Actions} :
        Identity(v) = IdentityStep(v)

LEMMA IdentityOfString ==
  ASSUME IdentityRecurs
  PROVE  /\ \A v \in Values : v.type = "string" => v = Scalar("string", v.name) /\ Identity(v) = v
         /\ \A v \in Values, name \in Kinds \cup Actions :
                Identity(Scalar("string", name)) = Identity(v) <=> v = Scalar("string", name)
<1>1. ASSUME NEW v \in Values, v.type = "string" PROVE v = Scalar("string", v.name) /\ Identity(v) = v
  <2>1. v = Scalar(v.type, v.name)
    BY <1>1, ValuesAssumption DEF JsonValue
  <2>2. Identity(v) = IdentityStep(v)
    BY DEF IdentityRecurs
  <2> QED BY <1>1, <2>1, <2>2 DEF IdentityStep
<1>2. ASSUME NEW v \in Values, NEW name \in Kinds \cup Actions
      PROVE  Identity(Scalar("string", name)) = Identity(v) <=> v = Scalar("string", name)
  <2> DEFINE s == Scalar("string", name)
  <2>1. s.type = "string" /\ Identity(s) = IdentityStep(s)
    BY DEF Scalar, IdentityRecurs
  <2>2. Identity(s) = s
    BY <2>1 DEF IdentityStep
  <2>3. v.type # "string" => Identity(v).type # "string"
    <3>1. Identity(v) = IdentityStep(v) /\ JsonValue(v)
      BY ValuesAssumption DEF IdentityRecurs
    <3>2. CASE v.type = "array"
      <4>1. v \in Arrays
        BY <3>1, <3>2 DEF JsonValue, ScalarTypes
      <4> QED BY <3>1, <3>2, <4>1 DEF IdentityStep, Arrays
    <3>3. CASE v.type = "object"
      <4>1. v \in Objects
        BY <3>1, <3>3 DEF JsonValue, ScalarTypes
      <4> QED BY <3>1, <3>3, <4>1 DEF IdentityStep, Objects
    <3>4. CASE v.type \in {"integer", "float", "fraction"}
      BY <3>1, <3>4 DEF IdentityStep, Scalar
    <3>5. CASE v.type \notin {"array", "object", "integer", "float", "fraction"}
      BY <3>1, <3>5 DEF IdentityStep
    <3> QED BY <3>2, <3>3, <3>4, <3>5
  <2> QED BY <1>1, <2>1, <2>2, <2>3
<1> QED
  BY <1>1, <1>2

(* No keyword that applies another subschema to the same value.            *)
Plain(n) == n.ref = None /\ n.all = << >> /\ n.any = << >> /\ n.one = << >>

(* The fields that have a schema in TOOL_ARGUMENT_PROPERTIES.              *)
PropertyNames == {"query", "capability_id", "arguments", "context", "source_context",
                  "target_context", "change_id", "expected_revision", "kinds", "limit"}

LEMMA ToolLookup ==
  /\ CapabilityTool[Root] =
         [Blank EXCEPT !.types = {"object"}, !.one = InSomeOrder({InputOf(a) : a \in Actions})]
  /\ \A a \in Actions :
         /\ InputOf(a) \in ToolIds /\ CapabilityTool[InputOf(a)] = ActionInputSchema(a)
         /\ ConstOf(a) \in ToolIds
         /\ CapabilityTool[ConstOf(a)] = [Blank EXCEPT !.enum = <<Scalar("string", a)>>]
  /\ DOMAIN TOOL_ARGUMENT_PROPERTIES = PropertyNames
  /\ \A name \in PropertyNames :
         /\ PropertyOf(name) \in ToolIds
         /\ CapabilityTool[PropertyOf(name)] = TOOL_ARGUMENT_PROPERTIES[name]
  /\ ItemsOf("kinds") \in ToolIds
  /\ CapabilityTool[ItemsOf("kinds")] =
         [Blank EXCEPT !.enum = InSomeOrder({Scalar("string", k) : k \in Kinds})]
<1>1. DOMAIN TOOL_ARGUMENT_PROPERTIES = PropertyNames
  BY DEF TOOL_ARGUMENT_PROPERTIES, PropertyNames
<1>2. \A id \in {Root} \cup ToolIds : CapabilityTool[id] = ToolSubschema(id)
  BY DEF CapabilityTool
<1>3. Root \notin ToolIds
  BY ToolAssumption
<1>4. ASSUME NEW a \in Actions
      PROVE  InputOf(a) \in ToolIds /\ ConstOf(a) \in ToolIds
  BY DEF ToolIds
<1>5. ASSUME NEW name \in PropertyNames PROVE PropertyOf(name) \in ToolIds
  BY <1>1 DEF ToolIds
<1>6. ItemsOf("kinds") \in ToolIds
  BY DEF ToolIds
<1>7. ASSUME NEW a \in Actions
      PROVE  /\ CapabilityTool[InputOf(a)] = ActionInputSchema(a)
             /\ CapabilityTool[ConstOf(a)] = [Blank EXCEPT !.enum = <<Scalar("string", a)>>]
  <2>1. InputOf(a)[1] = "input" /\ InputOf(a)[2] = a /\ ConstOf(a)[1] = "const" /\ ConstOf(a)[2] = a
    BY DEF InputOf, ConstOf
  <2>2. InputOf(a) # Root /\ ConstOf(a) # Root
    BY <1>3, <1>4
  <2> QED BY <1>2, <1>4, <2>1, <2>2 DEF ToolSubschema
<1>8. ASSUME NEW name \in PropertyNames
      PROVE  CapabilityTool[PropertyOf(name)] = TOOL_ARGUMENT_PROPERTIES[name]
  <2>1. PropertyOf(name)[1] = "property" /\ PropertyOf(name)[2] = name /\ PropertyOf(name) # Root
    BY <1>3, <1>5 DEF PropertyOf
  <2> QED BY <1>2, <1>5, <2>1 DEF ToolSubschema
<1>9. CapabilityTool[ItemsOf("kinds")] =
          [Blank EXCEPT !.enum = InSomeOrder({Scalar("string", k) : k \in Kinds})]
  <2>1. ItemsOf("kinds")[1] = "items" /\ ItemsOf("kinds") # Root
    BY <1>3, <1>6 DEF ItemsOf
  <2> QED BY <1>2, <1>6, <2>1 DEF ToolSubschema
<1>10. CapabilityTool[Root] =
          [Blank EXCEPT !.types = {"object"}, !.one = InSomeOrder({InputOf(a) : a \in Actions})]
  BY <1>2 DEF ToolSubschema
<1> QED
  BY <1>1, <1>4, <1>5, <1>6, <1>7, <1>8, <1>9, <1>10

(* Those of them that are strings without a limit on their length.         *)
StringNames == {"capability_id", "context", "source_context", "target_context", "change_id"}

(* The keywords of a subschema; the others are absent.                     *)
Keyworded(n, types, fits) ==
    /\ Plain(n) /\ n.types = types /\ n.fits = fits
    /\ n.enum = None /\ n.names = None /\ n.most = None

LEMMA BlankIs ==
  /\ Keyworded(Blank, {}, None)
  /\ Blank = [k \in DOMAIN Blank |-> Blank[k]]
  /\ {"types", "fits", "enum"} \subseteq DOMAIN Blank
BY DEF Blank, Keyworded, Plain

LEMMA TypedIs ==
  ASSUME NEW types, NEW fits
  PROVE  Keyworded([Blank EXCEPT !.types = types, !.fits = fits], types, fits)
<1> DEFINE n == [Blank EXCEPT !.types = types, !.fits = fits]
<1>1. /\ n.types = types /\ n.fits = fits
      /\ n.ref = None /\ n.all = << >> /\ n.any = << >> /\ n.one = << >>
      /\ n.enum = None /\ n.names = None /\ n.most = None
  BY DEF Blank
<1> QED
  BY <1>1 DEF Keyworded, Plain

LEMMA PropertyIs ==
  LET n(name) == TOOL_ARGUMENT_PROPERTIES[name]
  IN  /\ Keyworded(n("query"), {"string"}, NonEmpty \ {"long"})
      /\ \A name \in StringNames : Keyworded(n(name), {"string"}, NonEmpty)
      /\ Keyworded(n("arguments"), {"object"}, None)
      /\ n("arguments").required = {} /\ n("arguments").props = << >> /\ n("arguments").extra = None
      /\ Keyworded(n("expected_revision"), {"integer"}, NonNegative)
      /\ Keyworded(n("limit"), {"integer"}, InLimit)
      /\ Keyworded(n("kinds"), {"array"}, None)
      /\ n("kinds").items = ItemsOf("kinds") /\ n("kinds").fewest = 1 /\ n("kinds").unique = TRUE
<1> DEFINE n(name) == TOOL_ARGUMENT_PROPERTIES[name]
<1>1. /\ n("query") = [NonEmptyString EXCEPT !.fits = @ \ {"long"}]
      /\ \A name \in StringNames : n(name) = NonEmptyString
      /\ n("arguments") = [Blank EXCEPT !.types = {"object"}]
      /\ n("expected_revision") = [Blank EXCEPT !.types = {"integer"}, !.fits = NonNegative]
      /\ n("limit") = [Blank EXCEPT !.types = {"integer"}, !.fits = InLimit]
      /\ n("kinds") = [Blank EXCEPT !.types = {"array"}, !.items = ItemsOf("kinds"),
                                    !.fewest = 1, !.unique = TRUE]
  BY DEF TOOL_ARGUMENT_PROPERTIES, StringNames
<1> HIDE DEF n
<1>2. Keyworded(NonEmptyString, {"string"}, NonEmpty)
  BY DEF NonEmptyString, Blank, Keyworded, Plain
<1>3. Keyworded(n("query"), {"string"}, NonEmpty \ {"long"})
  <2> DEFINE names == NonEmpty \ {"long"}
  <2>1. n("query") = [Blank EXCEPT !.types = {"string"}, !.fits = names]
    <3>1. NonEmptyString.fits = NonEmpty
      BY <1>2 DEF Keyworded
    <3>2. n("query") = [NonEmptyString EXCEPT !.fits = names]
      BY <1>1, <3>1
    <3> HIDE DEF names
    <3> QED BY <3>2, BlankIs DEF NonEmptyString
  <2> HIDE DEF names
  <2>2. Keyworded([Blank EXCEPT !.types = {"string"}, !.fits = names], {"string"}, names)
    BY TypedIs
  <2> QED BY <2>1, <2>2 DEF names
<1>4. Keyworded(n("arguments"), {"object"}, None)
      /\ n("arguments").required = {} /\ n("arguments").props = << >> /\ n("arguments").extra = None
  BY <1>1 DEF Blank, Keyworded, Plain
<1>5. Keyworded(n("expected_revision"), {"integer"}, NonNegative)
  <2> DEFINE m == [Blank EXCEPT !.types = {"integer"}, !.fits = NonNegative]
  <2>1. Keyworded(m, {"integer"}, NonNegative)
    BY TypedIs
  <2> QED BY <1>1, <2>1
<1>6. Keyworded(n("limit"), {"integer"}, InLimit)
  <2> DEFINE m == [Blank EXCEPT !.types = {"integer"}, !.fits = InLimit]
  <2>1. Keyworded(m, {"integer"}, InLimit)
    BY TypedIs
  <2> QED BY <1>1, <2>1
<1>7. Keyworded(n("kinds"), {"array"}, None)
      /\ n("kinds").items = ItemsOf("kinds") /\ n("kinds").fewest = 1 /\ n("kinds").unique = TRUE
  BY <1>1 DEF Blank, Keyworded, Plain
<1> QED
  BY <1>1, <1>2, <1>3, <1>4, <1>5, <1>6, <1>7 DEF n

LEMMA InputIs ==
  ASSUME NEW a \in Actions
  PROVE  LET n == ActionInputSchema(a)
         IN  /\ Keyworded(n, {"object"}, None)
             /\ n.required = ACTION_FIELDS[a].required /\ n.extra = Closed
             /\ n.props = [field \in FieldsOf(a) |->
                             IF field = "action" THEN ConstOf(a) ELSE PropertyOf(field)]
<1> DEFINE props    == [field \in FieldsOf(a) |->
                          IF field = "action" THEN ConstOf(a) ELSE PropertyOf(field)]
           required == ACTION_FIELDS[a].required
           n == [Blank EXCEPT !.types = {"object"}, !.required = required,
                              !.extra = Closed, !.props = props]
<1>1. ActionInputSchema(a) = n
  BY DEF ActionInputSchema
<1> HIDE DEF props, required
<1>2. /\ Keyworded(n, {"object"}, None)
      /\ n.required = required /\ n.extra = Closed /\ n.props = props
  BY DEF Blank, Keyworded, Plain
<1> HIDE DEF n
<1> QED
  BY <1>1, <1>2 DEF props, required

LEMMA ToolIsPlain ==
  ASSUME NEW id \in ToolIds
  PROVE  Plain(CapabilityTool[id])
<1>1. CASE id = ItemsOf("kinds")
  BY <1>1, ToolLookup DEF Plain, Blank
<1>2. ASSUME NEW name \in PropertyNames, id = PropertyOf(name) PROVE Plain(CapabilityTool[id])
  <2>1. CapabilityTool[id] = TOOL_ARGUMENT_PROPERTIES[name]
    BY <1>2, ToolLookup
  <2>2. Plain(TOOL_ARGUMENT_PROPERTIES[name])
    BY PropertyIs DEF Keyworded, Plain, PropertyNames, StringNames
  <2> QED BY <2>1, <2>2
<1>3. ASSUME NEW a \in Actions, id = InputOf(a) \/ id = ConstOf(a) PROVE Plain(CapabilityTool[id])
  <2>1. CASE id = InputOf(a)
    BY <2>1, ToolLookup, InputIs DEF Keyworded, Plain
  <2>2. CASE id = ConstOf(a)
    <3>1. CapabilityTool[id] = [Blank EXCEPT !.enum = <<Scalar("string", a)>>]
      BY <2>2, ToolLookup
    <3> QED BY <3>1, BlankIs DEF Keyworded, Plain
  <2> QED BY <1>3, <2>1, <2>2
<1> QED
  BY <1>1, <1>2, <1>3, ToolLookup DEF ToolIds

LEMMA InputsAreFinite == IsFiniteSet({InputOf(a) : a \in Actions})
<1> DEFINE In(a) == InputOf(a)
           A == {In("search"), In("describe"), In("load_skill"), In("call")}
           B == {In("status"), In("context_list"), In("context_current"), In("context_use")}
           C == {In("context_explain"), In("context_move"), In("context_undo"), In("context_share")}
           D == {In("context_unassign")}
<1>1. \A w, x, y, z : IsFiniteSet({w, x, y, z})
  <2> TAKE w, x, y, z
  <2>1. IsFiniteSet({w} \cup {x})
    BY FS_Singleton, FS_AddElement
  <2>2. IsFiniteSet({w} \cup {x} \cup {y})
    BY <2>1, FS_AddElement
  <2>3. IsFiniteSet({w} \cup {x} \cup {y} \cup {z})
    BY <2>2, FS_AddElement
  <2>4. {w} \cup {x} \cup {y} \cup {z} = {w, x, y, z}
    OBVIOUS
  <2> QED BY <2>3, <2>4
<1>2. Actions = {"search", "describe", "load_skill", "call", "status", "context_list",
                 "context_current", "context_use", "context_explain", "context_move",
                 "context_undo", "context_share", "context_unassign"}
  BY DEF Actions, ACTION_FIELDS
<1>3. {InputOf(a) : a \in Actions} = (A \cup B) \cup (C \cup D)
  <2> HIDE DEF In
  <2>1. {In(a) : a \in Actions} = (A \cup B) \cup (C \cup D)
    BY <1>2
  <2> QED BY <2>1 DEF In
<1>4. IsFiniteSet(A) /\ IsFiniteSet(B) /\ IsFiniteSet(C) /\ IsFiniteSet(D)
  BY <1>1, FS_Singleton
<1> HIDE DEF A, B, C, D
<1>5. IsFiniteSet(A \cup B) /\ IsFiniteSet(C \cup D)
  BY <1>4, FS_Union
<1>6. IsFiniteSet((A \cup B) \cup (C \cup D))
  BY <1>5, FS_Union
<1> QED
  BY <1>3, <1>6

LEMMA ToolIsWellFounded == WellFounded(CapabilityTool)
<1> DEFINE next == [s \in DOMAIN CapabilityTool |-> OnSameValue(CapabilityTool, s)]
<1>1. DOMAIN CapabilityTool = {Root} \cup ToolIds /\ Root \notin ToolIds
  BY ToolAssumption DEF CapabilityTool
<1>2. ASSUME NEW id \in ToolIds PROVE next[id] = {}
  <2>1. next[id] = OnSameValue(CapabilityTool, id)
    BY <1>1
  <2>2. Present(None) = << >>
    BY DEF Present
  <2>3. OnSameValue(CapabilityTool, id) = ToSet(<< >> \o << >> \o << >> \o << >>)
    BY <2>2, ToolIsPlain DEF OnSameValue, Plain
  <2>4. << >> \o << >> \o << >> \o << >> = << >>
    OBVIOUS
  <2> QED BY <2>1, <2>3, <2>4 DEF ToSet
<1>3. next[Root] \subseteq ToolIds
  <2> DEFINE inputs == {InputOf(a) : a \in Actions}
             n == CapabilityTool[Root]
  <2>1. IsFiniteSet(inputs)
    BY InputsAreFinite
  <2>2. n.ref = None /\ n.all = << >> /\ n.any = << >> /\ n.one = InSomeOrder(inputs)
    BY ToolLookup DEF Blank
  <2>3. Present(None) = << >>
    BY DEF Present
  <2>4. next[Root] = ToSet(<< >> \o << >> \o << >> \o InSomeOrder(inputs))
    BY <1>1, <2>2, <2>3 DEF OnSameValue
  <2>5. inputs \subseteq ToolIds
    BY ToolLookup
  <2> HIDE DEF inputs
  <2>6. InSomeOrder(inputs) \in Seq(inputs) /\ ToSet(InSomeOrder(inputs)) = inputs
    BY <2>1, InSomeOrderIs
  <2>7. << >> \o << >> \o << >> \o InSomeOrder(inputs) = InSomeOrder(inputs)
    BY <2>6
  <2> QED BY <2>4, <2>5, <2>6, <2>7
<1> HIDE DEF next
<1>4. ASSUME NEW S \in SUBSET DOMAIN CapabilityTool, S # {} PROVE \E s \in S : next[s] \cap S = {}
  <2>1. CASE \E id \in S : id \in ToolIds
    BY <1>2, <2>1
  <2>2. CASE ~\E id \in S : id \in ToolIds
    BY <1>1, <1>3, <1>4, <2>2
  <2> QED BY <2>1, <2>2
<1> QED
  BY <1>4 DEF WellFounded, next
(* What the advertised schema says, one subschema at a time.               *)
LEMMA ToolConforms ==
  ASSUME ConformsRecurs, NEW s \in {Root} \cup ToolIds, NEW v \in Values
  PROVE  Conforms(CapabilityTool, s, v) <=> ConformsStep(CapabilityTool, s, v)
<1>1. DOMAIN CapabilityTool = {Root} \cup ToolIds
  BY DEF CapabilityTool
<1> QED
  BY <1>1, ToolIsWellFounded DEF ConformsRecurs

LEMMA PlainConforms ==
  ASSUME ConformsRecurs, NEW s \in ToolIds, NEW v \in Values
  PROVE  LET n == CapabilityTool[s]
             Meets(schema, value) ==
                 schema \in {None, Closed} \/ Conforms(CapabilityTool, schema, value)
         IN  Conforms(CapabilityTool, s, v) <=>
                 /\ HasType(n, v)
                 /\ EnumOK(n, v)
                 /\ ~Unfit(n, v)
                 /\ v.type = "array" =>
                        /\ LengthOK(n, v.items)
                        /\ n.unique => Distinct(v.items)
                        /\ \A i \in DOMAIN v.items : Meets(n.items, v.items[i])
                 /\ v.type = "object" =>
                        /\ n.required \subseteq Keys(v)
                        /\ \A f \in ToSet(v.fields) :
                               /\ Meets(n.names, Scalar("string", f.key))
                               /\ IF f.key \in DOMAIN n.props THEN Meets(n.props[f.key], f.value)
                                  ELSE n.extra # Closed /\ Meets(n.extra, f.value)
<1> DEFINE n == CapabilityTool[s]
           Meets(schema, value) ==
               schema \in {None, Closed} \/ Conforms(CapabilityTool, schema, value)
           Matching(branches) == {i \in DOMAIN branches : Conforms(CapabilityTool, branches[i], v)}
<1>1. Plain(n)
  BY ToolIsPlain
<1>2. Conforms(CapabilityTool, s, v) <=> ConformsStep(CapabilityTool, s, v)
  BY ToolConforms
<1> HIDE DEF n
<1>3. Meets(n.ref, v) /\ Matching(n.all) = DOMAIN n.all
      /\ (n.any # << >> => Matching(n.any) # {}) /\ (n.one # << >> => Cardinality(Matching(n.one)) = 1)
  BY <1>1 DEF Plain
<1> HIDE DEF Meets
<1>4. ConformsStep(CapabilityTool, s, v) <=>
          /\ HasType(n, v) /\ EnumOK(n, v) /\ ~Unfit(n, v)
          /\ v.type = "array" =>
                 /\ LengthOK(n, v.items)
                 /\ n.unique => Distinct(v.items)
                 /\ \A i \in DOMAIN v.items : Meets(n.items, v.items[i])
          /\ v.type = "object" =>
                 /\ n.required \subseteq Keys(v)
                 /\ \A f \in ToSet(v.fields) :
                        /\ Meets(n.names, Scalar("string", f.key))
                        /\ IF f.key \in DOMAIN n.props THEN Meets(n.props[f.key], f.value)
                           ELSE n.extra # Closed /\ Meets(n.extra, f.value)
  BY <1>3 DEF ConformsStep, EnumOK, Meets, n
<1> QED
  BY <1>2, <1>4 DEF Meets, n

(* A property that takes a scalar.                                         *)
LEMMA ScalarConforms ==
  ASSUME ConformsRecurs, NEW s \in ToolIds, NEW v \in Values, NEW names, None # names
  PROVE  /\ Keyworded(CapabilityTool[s], {"string"}, names) =>
                (Conforms(CapabilityTool, s, v) <=> IsString(v, names))
         /\ Keyworded(CapabilityTool[s], {"integer"}, names) =>
                (Conforms(CapabilityTool, s, v)
                 <=> v.type \in {"integer", "float"} /\ v.name \in names)
<1> DEFINE n == CapabilityTool[s]
<1> HIDE DEF n
<1>1. ASSUME v.type \notin {"array", "object"}, n.enum = None
      PROVE  Conforms(CapabilityTool, s, v) <=> HasType(n, v) /\ ~Unfit(n, v)
  BY <1>1, PlainConforms DEF EnumOK, n
<1>2. ASSUME Keyworded(n, {"string"}, names)
      PROVE  Conforms(CapabilityTool, s, v) <=> IsString(v, names)
  <2>1. HasType(n, v) <=> v.type = "string"
    BY <1>2 DEF Keyworded, HasType, TypesOf
  <2>2. CASE v.type = "string"
    BY <1>1, <1>2, <2>1, <2>2 DEF Keyworded, Unfit, IsString
  <2>3. CASE v.type # "string"
    <3>1. Conforms(CapabilityTool, s, v) => HasType(n, v)
      BY PlainConforms DEF n
    <3> QED BY <2>1, <2>3, <3>1 DEF IsString
  <2> QED BY <2>2, <2>3
<1>3. ASSUME Keyworded(n, {"integer"}, names)
      PROVE  Conforms(CapabilityTool, s, v) <=> v.type \in {"integer", "float"} /\ v.name \in names
  <2>1. HasType(n, v) <=> v.type \in {"integer", "float"}
    BY <1>3 DEF Keyworded, HasType, TypesOf
  <2>2. CASE v.type \in {"integer", "float"}
    BY <1>1, <1>3, <2>1, <2>2 DEF Keyworded, Unfit
  <2>3. CASE v.type \notin {"integer", "float"}
    <3>1. Conforms(CapabilityTool, s, v) => HasType(n, v)
      BY PlainConforms DEF n
    <3> QED BY <2>1, <2>3, <3>1
  <2> QED BY <2>2, <2>3
<1> QED
  BY <1>2, <1>3 DEF n

LEMMA ArgumentsConforms ==
  ASSUME ConformsRecurs, NEW v \in Values
  PROVE  Conforms(CapabilityTool, PropertyOf("arguments"), v) <=> v.type = "object"
<1> DEFINE s == PropertyOf("arguments")
           n == CapabilityTool[s]
<1>1. s \in ToolIds /\ n = TOOL_ARGUMENT_PROPERTIES["arguments"]
  BY ToolLookup DEF PropertyNames
<1>2. /\ Keyworded(n, {"object"}, None)
      /\ n.required = {} /\ n.props = << >> /\ n.extra = None
  BY <1>1, PropertyIs
<1> HIDE DEF n, s
<1>3. HasType(n, v) <=> v.type = "object"
  BY <1>2 DEF Keyworded, HasType, TypesOf
<1>4. Conforms(CapabilityTool, s, v) => HasType(n, v)
  BY <1>1, PlainConforms DEF n
<1>5. ASSUME v.type = "object" PROVE Conforms(CapabilityTool, s, v)
  <2>1. EnumOK(n, v) /\ ~Unfit(n, v) /\ DOMAIN n.props = {} /\ n.extra # Closed
    BY <1>2, ValidatorAssumption DEF Keyworded, EnumOK, Unfit
  <2> QED BY <1>1, <1>2, <1>3, <1>5, <2>1, PlainConforms DEF Keyworded, n
<1> QED
  BY <1>3, <1>4, <1>5 DEF s

LEMMA ConstConforms ==
  ASSUME ConformsRecurs, IdentityRecurs, NEW a \in Actions, NEW v \in Values
  PROVE  Conforms(CapabilityTool, ConstOf(a), v) <=> v = Scalar("string", a)
<1> DEFINE s == ConstOf(a)
           n == CapabilityTool[s]
<1>1. s \in ToolIds /\ n = [Blank EXCEPT !.enum = <<Scalar("string", a)>>]
  BY ToolLookup
<1>2. n.enum # None
  BY <1>1, ToolAssumption DEF ConstOf
<1>3. /\ n.types = {} /\ n.fits = None /\ n.enum = <<Scalar("string", a)>>
      /\ n.fewest = 0 /\ n.most = None /\ n.unique = FALSE /\ n.items = None
      /\ n.props = << >> /\ n.required = {} /\ n.extra = None /\ n.names = None
  BY <1>1 DEF Blank
<1> HIDE DEF n, s
<1>4. EnumOK(n, v) <=> v = Scalar("string", a)
  <2>1. ToSet(n.enum) = {Scalar("string", a)}
    BY <1>3 DEF ToSet
  <2> QED BY <1>1, <1>2, <2>1, IdentityOfString DEF EnumOK
<1>5. Conforms(CapabilityTool, s, v) => EnumOK(n, v)
  BY <1>1, PlainConforms DEF n
<1>6. ASSUME v = Scalar("string", a) PROVE Conforms(CapabilityTool, s, v)
  <2>1. HasType(n, v) /\ ~Unfit(n, v) /\ v.type = "string"
    BY <1>3, <1>6 DEF HasType, Unfit, Scalar
  <2> QED BY <1>1, <1>4, <1>6, <2>1, PlainConforms DEF n
<1> QED
  BY <1>4, <1>5, <1>6 DEF s
LEMMA KindConforms ==
  ASSUME ConformsRecurs, IdentityRecurs, NEW v \in Values
  PROVE  Conforms(CapabilityTool, ItemsOf("kinds"), v) <=> IsString(v, Kinds)
<1> DEFINE s == ItemsOf("kinds")
           n == CapabilityTool[s]
           names == {Scalar("string", k) : k \in Kinds}
           enum == InSomeOrder(names)
<1>1. s \in ToolIds /\ n = [Blank EXCEPT !.enum = enum]
  BY ToolLookup
<1>2. n.enum # None
  BY <1>1, ToolAssumption DEF ItemsOf
<1>3. ToSet(enum) = names
  <2>1. names = {Scalar("string", "mcp_tool")} \cup {Scalar("string", "skill")}
    BY DEF Kinds
  <2>2. IsFiniteSet(names)
    <3> HIDE DEF names
    <3> QED BY <2>1, FS_Singleton, FS_AddElement
  <2> HIDE DEF names
  <2> QED BY <2>2, InSomeOrderIs
<1> HIDE DEF enum
<1>4. /\ n.types = {} /\ n.fits = None /\ n.enum = enum
      /\ n.fewest = 0 /\ n.most = None /\ n.unique = FALSE /\ n.items = None
      /\ n.props = << >> /\ n.required = {} /\ n.extra = None /\ n.names = None
  BY <1>1 DEF Blank
<1> HIDE DEF n, s
<1>5. EnumOK(n, v) <=> IsString(v, Kinds)
  <2>1. EnumOK(n, v) <=> \E k \in Kinds : Identity(Scalar("string", k)) = Identity(v)
    BY <1>2, <1>3, <1>4 DEF EnumOK
  <2>2. EnumOK(n, v) <=> \E k \in Kinds : v = Scalar("string", k)
    BY <2>1, IdentityOfString
  <2>3. (\E k \in Kinds : v = Scalar("string", k)) <=> IsString(v, Kinds)
    BY IdentityOfString DEF IsString, Scalar
  <2> QED BY <2>2, <2>3
<1>6. Conforms(CapabilityTool, s, v) => EnumOK(n, v)
  BY <1>1, PlainConforms DEF n
<1>7. ASSUME IsString(v, Kinds) PROVE Conforms(CapabilityTool, s, v)
  <2>1. HasType(n, v) /\ ~Unfit(n, v) /\ v.type = "string"
    BY <1>4, <1>7 DEF HasType, Unfit, IsString
  <2> QED BY <1>1, <1>5, <1>7, <2>1, PlainConforms DEF n
<1> QED
  BY <1>5, <1>6, <1>7 DEF s

LEMMA KindsConforms ==
  ASSUME ConformsRecurs, IdentityRecurs, NEW v \in Values
  PROVE  Conforms(CapabilityTool, PropertyOf("kinds"), v) <=> KindsOK(v)
<1> DEFINE s == PropertyOf("kinds")
           n == CapabilityTool[s]
           C(x) == Conforms(CapabilityTool, ItemsOf("kinds"), x)
<1>1. s \in ToolIds /\ n = TOOL_ARGUMENT_PROPERTIES["kinds"]
  BY ToolLookup DEF PropertyNames
<1>2. /\ Keyworded(n, {"array"}, None)
      /\ n.items = ItemsOf("kinds") /\ n.fewest = 1 /\ n.unique = TRUE
  BY <1>1, PropertyIs
<1> HIDE DEF n, s
<1>3. HasType(n, v) <=> v.type = "array"
  BY <1>2 DEF Keyworded, HasType, TypesOf
<1>4. EnumOK(n, v) /\ ~Unfit(n, v) /\ n.items \notin {None, Closed}
  BY <1>2, ToolLookup, ToolAssumption DEF Keyworded, EnumOK, Unfit
<1>5. CASE v.type # "array"
  <2>1. Conforms(CapabilityTool, s, v) => HasType(n, v)
    BY <1>1, PlainConforms DEF n
  <2> QED BY <1>3, <1>5, <2>1 DEF KindsOK, s
<1>6. CASE v.type = "array"
  <2>1. v.items \in Seq(Values)
    BY <1>6, ArrayIs
  <2>2. Conforms(CapabilityTool, s, v) <=> /\ LengthOK(n, v.items)
                                           /\ Distinct(v.items)
                                           /\ \A i \in DOMAIN v.items : C(v.items[i])
    <3>1. Conforms(CapabilityTool, s, v) <=>
              /\ LengthOK(n, v.items)
              /\ n.unique => Distinct(v.items)
              /\ \A i \in DOMAIN v.items :
                     n.items \in {None, Closed} \/ Conforms(CapabilityTool, n.items, v.items[i])
      BY <1>1, <1>3, <1>4, <1>6, PlainConforms DEF n
    <3> QED BY <1>2, <1>4, <3>1
  <2>3. LengthOK(n, v.items) <=> v.items # << >>
    <3>1. Len(v.items) \in Nat /\ (Len(v.items) = 0 <=> v.items = << >>)
      BY <2>1
    <3> QED BY <1>2, <3>1 DEF LengthOK, Keyworded
  <2>4. (\A i \in DOMAIN v.items : C(v.items[i])) <=> \A k \in ToSet(v.items) : IsString(k, Kinds)
    <3>1. \A i \in DOMAIN v.items : v.items[i] \in Values
      BY <2>1
    <3>2. \A i \in DOMAIN v.items : C(v.items[i]) <=> IsString(v.items[i], Kinds)
      BY <3>1, KindConforms
    <3> HIDE DEF C
    <3> QED BY <3>2 DEF ToSet
  <2>5. ASSUME \A k \in ToSet(v.items) : IsString(k, Kinds)
        PROVE  {Identity(v.items[i]) : i \in DOMAIN v.items} = ToSet(v.items)
    <3>1. \A i \in DOMAIN v.items : Identity(v.items[i]) = v.items[i]
      <4>1. \A i \in DOMAIN v.items : v.items[i] \in Values /\ v.items[i].type = "string"
        BY <2>1, <2>5 DEF IsString, ToSet
      <4> QED BY <4>1, IdentityOfString
    <3> QED BY <3>1 DEF ToSet
  <2> HIDE DEF C
  <2> QED BY <1>6, <2>2, <2>3, <2>4, <2>5 DEF KindsOK, Distinct, s
<1> QED
  BY <1>5, <1>6

(* A field of a request, but for the action.                               *)
LEMMA FieldConforms ==
  ASSUME ConformsRecurs, IdentityRecurs, NEW field \in PropertyNames, NEW x \in Values
  PROVE  Conforms(CapabilityTool, PropertyOf(field), x) <=>
             \/ FieldOK(field, x)
             \/ field = "expected_revision" /\ x.type = "float" /\ x.name \in NonNegative
<1> DEFINE s == PropertyOf(field)
<1>1. s \in ToolIds /\ CapabilityTool[s] = TOOL_ARGUMENT_PROPERTIES[field]
  BY ToolLookup
<1> HIDE DEF s
<1>2. /\ None # NonEmpty /\ None # NonEmpty \ {"long"} /\ None # NonNegative /\ None # InLimit
  BY ToolAssumption
<1>3. CASE field = "query"
  <2>1. Conforms(CapabilityTool, s, x) <=> IsString(x, NonEmpty \ {"long"})
    BY <1>1, <1>2, <1>3, PropertyIs, ScalarConforms
  <2> QED BY <1>3, <2>1 DEF FieldOK, s
<1>4. CASE field \in StringNames
  <2>1. Conforms(CapabilityTool, s, x) <=> IsString(x, NonEmpty)
    BY <1>1, <1>2, <1>4, PropertyIs, ScalarConforms
  <2>2. FieldOK(field, x) <=> IsString(x, NonEmpty)
    BY <1>4 DEF FieldOK, StringNames
  <2>3. field # "expected_revision"
    BY <1>4 DEF StringNames
  <2> QED BY <2>1, <2>2, <2>3 DEF s
<1>5. CASE field = "arguments"
  BY <1>5, ArgumentsConforms DEF FieldOK
<1>6. CASE field = "kinds"
  BY <1>6, KindsConforms DEF FieldOK
<1>7. CASE field = "limit"
  <2>1. Conforms(CapabilityTool, s, x) <=> x.type \in {"integer", "float"} /\ x.name \in InLimit
    BY <1>1, <1>2, <1>7, PropertyIs, ScalarConforms
  <2> QED BY <1>7, <2>1 DEF FieldOK, LimitOK, s
<1>8. CASE field = "expected_revision"
  <2>1. Conforms(CapabilityTool, s, x) <=> x.type \in {"integer", "float"} /\ x.name \in NonNegative
    BY <1>1, <1>2, <1>8, PropertyIs, ScalarConforms
  <2> QED BY <1>8, <2>1 DEF FieldOK, RevisionOK, s
<1> QED
  BY <1>3, <1>4, <1>5, <1>6, <1>7, <1>8 DEF PropertyNames, StringNames

LEMMA FieldsAre ==
  ASSUME NEW a \in Actions
  PROVE  /\ "action" \in ACTION_FIELDS[a].required
         /\ ACTION_FIELDS[a].required \subseteq FieldsOf(a)
         /\ FieldsOf(a) \subseteq {"action"} \cup PropertyNames
         /\ FieldsOf(a) \subseteq TOOL_ARGUMENT_FIELDS
<1>1. "action" \in ACTION_FIELDS[a].required
  BY DEF Actions, ACTION_FIELDS, Fields
<1>2. /\ ACTION_FIELDS[a].required \subseteq {"action"} \cup PropertyNames
      /\ ACTION_FIELDS[a].optional \subseteq PropertyNames
  BY DEF Actions, ACTION_FIELDS, Fields, PropertyNames
<1> QED
  BY <1>1, <1>2 DEF FieldsOf, TOOL_ARGUMENT_FIELDS
LEMMA InputConforms ==
  ASSUME ConformsRecurs, IdentityRecurs, NEW a \in Actions,
         NEW v \in Values, v.type = "object"
  PROVE  Conforms(CapabilityTool, InputOf(a), v) <=>
             /\ ShapeOK(v, a)
             /\ At(v, "action") = Scalar("string", a)
             /\ \A field \in Keys(v) \ {"action"} :
                    Conforms(CapabilityTool, PropertyOf(field), At(v, field))
<1> DEFINE s == InputOf(a)
           n == CapabilityTool[s]
           C(id, x) == Conforms(CapabilityTool, id, x)
           id(field) == IF field = "action" THEN ConstOf(a) ELSE PropertyOf(field)
<1>1. s \in ToolIds /\ n = ActionInputSchema(a)
  BY ToolLookup
<1>2. /\ Keyworded(n, {"object"}, None)
      /\ n.required = ACTION_FIELDS[a].required /\ n.extra = Closed
      /\ n.props = [field \in FieldsOf(a) |-> id(field)]
  BY <1>1, InputIs
<1>3. \A field \in FieldsOf(a) : id(field) \notin {None, Closed}
  <2>1. \A field \in FieldsOf(a) : id(field) \in ToolIds
    BY ToolLookup, FieldsAre
  <2> HIDE DEF id
  <2> QED BY <2>1, ToolAssumption
<1> HIDE DEF n, s, id
<1>4. HasType(n, v) /\ EnumOK(n, v) /\ ~Unfit(n, v)
  BY <1>2 DEF Keyworded, HasType, TypesOf, EnumOK, Unfit
<1>5. C(s, v) <=> /\ n.required \subseteq Keys(v)
                  /\ \A f \in ToSet(v.fields) : f.key \in FieldsOf(a) /\ C(id(f.key), f.value)
  <2>1. C(s, v) <=> /\ n.required \subseteq Keys(v)
                    /\ \A f \in ToSet(v.fields) :
                           /\ n.names \in {None, Closed} \/ C(n.names, Scalar("string", f.key))
                           /\ IF f.key \in DOMAIN n.props
                              THEN n.props[f.key] \in {None, Closed} \/ C(n.props[f.key], f.value)
                              ELSE n.extra # Closed /\ (n.extra \in {None, Closed} \/ C(n.extra, f.value))
    BY <1>1, <1>4, PlainConforms DEF n
  <2>2. n.names = None /\ n.extra = Closed /\ DOMAIN n.props = FieldsOf(a)
        /\ \A field \in FieldsOf(a) : n.props[field] = id(field)
    BY <1>2 DEF Keyworded
  <2> HIDE DEF C
  <2> QED BY <1>3, <2>1, <2>2
<1>6. \A f \in ToSet(v.fields) : f.key \in Keys(v) /\ At(v, f.key) = f.value
  <2>1. \A f \in ToSet(v.fields) : f.key \in Keys(v)
    BY DEF ToSet, Keys
  <2> QED BY <2>1, AtIs
<1>7. \A key \in Keys(v) : \E f \in ToSet(v.fields) : f.key = key /\ At(v, key) = f.value
  BY AtIs
<1>8. C(s, v) <=> /\ ShapeOK(v, a)
                  /\ \A key \in Keys(v) : C(id(key), At(v, key))
  <2> HIDE DEF C
  <2> QED BY <1>2, <1>5, <1>6, <1>7 DEF ShapeOK
<1>9. ASSUME ShapeOK(v, a)
      PROVE  (\A key \in Keys(v) : C(id(key), At(v, key))) <=>
                 /\ At(v, "action") = Scalar("string", a)
                 /\ \A field \in Keys(v) \ {"action"} : C(PropertyOf(field), At(v, field))
  <2>1. "action" \in Keys(v)
    BY <1>9, FieldsAre DEF ShapeOK
  <2>2. C(ConstOf(a), At(v, "action")) <=> At(v, "action") = Scalar("string", a)
    BY <2>1, AtIs, ConstConforms
  <2> HIDE DEF C
  <2>3. id("action") = ConstOf(a) /\ \A field \in Keys(v) \ {"action"} : id(field) = PropertyOf(field)
    BY DEF id
  <2> QED BY <2>1, <2>2, <2>3
<1> QED
  BY <1>8, <1>9 DEF s

(* Exactly one alternative of the advertised schema: that of the action.   *)
LEMMA RootConforms ==
  ASSUME ConformsRecurs, IdentityRecurs, NEW v \in Values
  PROVE  Conforms(CapabilityTool, Root, v) <=>
             /\ v.type = "object"
             /\ \E a \in Actions : Conforms(CapabilityTool, InputOf(a), v)
<1> DEFINE n == CapabilityTool[Root]
           inputs == {InputOf(a) : a \in Actions}
           one == InSomeOrder(inputs)
           C(id) == Conforms(CapabilityTool, id, v)
           matching == {i \in DOMAIN one : C(one[i])}
<1>1. /\ n.types = {"object"} /\ n.fits = None /\ n.enum = None /\ n.ref = None
      /\ n.all = << >> /\ n.any = << >> /\ n.one = one
      /\ n.props = << >> /\ n.required = {} /\ n.extra = None /\ n.names = None
  BY ToolLookup DEF Blank
<1>2. /\ one \in Seq(inputs) /\ ToSet(one) = inputs
      /\ \A i, j \in DOMAIN one : one[i] = one[j] => i = j
  <2> HIDE DEF inputs
  <2>1. IsFiniteSet(inputs)
    BY InputsAreFinite DEF inputs
  <2> QED BY <2>1, InSomeOrderIs
<1> HIDE DEF one, n
<1>3. C(Root) <=> ConformsStep(CapabilityTool, Root, v)
  BY ToolConforms
<1>4. HasType(n, v) <=> v.type = "object"
  BY <1>1 DEF HasType, TypesOf
<1>5. one # << >>
  <2>1. InputOf("call") \in ToSet(one)
    BY <1>2 DEF Actions, ACTION_FIELDS
  <2> QED BY <2>1 DEF ToSet
<1>6. C(Root) <=> v.type = "object" /\ Cardinality(matching) = 1
  <2>1. C(Root) => v.type = "object" /\ Cardinality(matching) = 1
    <3>1. C(Root) => HasType(n, v) /\ (n.one # << >> =>
              Cardinality({i \in DOMAIN n.one : Conforms(CapabilityTool, n.one[i], v)}) = 1)
      BY <1>3 DEF ConformsStep, n
    <3> QED BY <1>1, <1>4, <1>5, <3>1
  <2>2. ASSUME v.type = "object", Cardinality(matching) = 1 PROVE ConformsStep(CapabilityTool, Root, v)
    <3>1. ~Unfit(n, v) /\ HasType(n, v) /\ n.extra # Closed /\ DOMAIN n.props = {}
      BY <1>1, <1>4, <2>2, ValidatorAssumption DEF Unfit
    <3>2. Cardinality({i \in DOMAIN n.one : Conforms(CapabilityTool, n.one[i], v)}) = 1
      BY <1>1, <2>2
    <3> QED BY <1>1, <2>2, <3>1, <3>2 DEF ConformsStep, n
  <2> QED BY <1>3, <2>1, <2>2
<1>7. \A i, j \in matching : i = j
  <2> SUFFICES ASSUME NEW i \in matching, NEW j \in matching PROVE i = j
    OBVIOUS
  <2>1. i \in DOMAIN one /\ j \in DOMAIN one /\ C(one[i]) /\ C(one[j])
    OBVIOUS
  <2>2. one[i] \in ToSet(one) /\ one[j] \in ToSet(one)
    BY <2>1 DEF ToSet
  <2>3. PICK a \in Actions, b \in Actions : one[i] = InputOf(a) /\ one[j] = InputOf(b)
    BY <1>2, <2>2
  <2> HIDE DEF matching
  <2>4. v.type = "object"
    <3>1. InputOf(a) \in ToolIds /\ C(InputOf(a))
      BY <2>1, <2>3, ToolLookup
    <3>2. HasType(CapabilityTool[InputOf(a)], v)
      BY <3>1, PlainConforms
    <3>3. CapabilityTool[InputOf(a)].types = {"object"}
      BY ToolLookup, InputIs DEF Keyworded
    <3> QED BY <3>2, <3>3 DEF HasType, TypesOf
  <2>5. At(v, "action") = Scalar("string", a) /\ At(v, "action") = Scalar("string", b)
    BY <2>1, <2>3, <2>4, InputConforms
  <2>6. a = b
    BY <2>5 DEF Scalar
  <2> QED BY <1>2, <2>1, <2>3, <2>6
<1>8. Cardinality(matching) = 1 <=> \E i : i \in matching
  <2>1. IsFiniteSet(matching)
    <3>1. DOMAIN one = 1..Len(one) /\ Len(one) \in Nat
      BY <1>2
    <3>2. IsFiniteSet(DOMAIN one)
      BY <3>1, FS_Interval
    <3> QED BY <3>2, FS_Subset
  <2> HIDE DEF matching
  <2>2. Cardinality(matching) = 1 <=> \E i : matching = {i}
    BY <2>1, FS_Singleton
  <2> QED BY <1>7, <2>2
<1>9. (\E i : i \in matching) <=> \E a \in Actions : C(InputOf(a))
  <2>1. \A a \in Actions : \E i \in DOMAIN one : one[i] = InputOf(a)
    BY <1>2 DEF ToSet
  <2>2. \A i \in DOMAIN one : \E a \in Actions : one[i] = InputOf(a)
    BY <1>2 DEF ToSet
  <2> HIDE DEF C
  <2> QED BY <2>1, <2>2
<1> QED
  BY <1>6, <1>8, <1>9

LEMMA RuntimeAgrees ==
  ASSUME ConformsRecurs, IdentityRecurs, NEW v \in Values
  PROVE  ValidAction(v) <=>
             /\ Conforms(CapabilityTool, Root, v)
             /\ ~("expected_revision" \in Keys(v) /\ At(v, "expected_revision").type = "float")
<1> DEFINE C(id, x) == Conforms(CapabilityTool, id, x)
           Fits == \A field \in Keys(v) \ {"action"} : FieldOK(field, At(v, field))
           Conform == \A field \in Keys(v) \ {"action"} : C(PropertyOf(field), At(v, field))
           Float == "expected_revision" \in Keys(v) /\ At(v, "expected_revision").type = "float"
<1>1. CASE v.type # "object"
  BY <1>1, RootConforms DEF ValidAction
<1>2. CASE v.type = "object"
  <2>1. \A key \in Keys(v) : At(v, key) \in Values
    BY <1>2, AtIs
  <2>2. ValidAction(v) <=> \E a \in Actions : /\ ShapeOK(v, a)
                                              /\ At(v, "action") = Scalar("string", a)
                                              /\ Fits
    <3>1. ASSUME ValidAction(v)
          PROVE  \E a \in Actions : ShapeOK(v, a) /\ At(v, "action") = Scalar("string", a) /\ Fits
      <4>1. "action" \in Keys(v) /\ IsString(At(v, "action"), Actions)
        BY <3>1 DEF ValidAction, FieldOK
      <4>2. At(v, "action") = Scalar("string", At(v, "action").name)
        BY <2>1, <4>1, IdentityOfString DEF IsString
      <4> QED BY <3>1, <4>1, <4>2 DEF ValidAction, IsString
    <3>2. ASSUME NEW a \in Actions, ShapeOK(v, a), At(v, "action") = Scalar("string", a), Fits
          PROVE  ValidAction(v)
      <4>1. "action" \in Keys(v) /\ Keys(v) \subseteq TOOL_ARGUMENT_FIELDS
        BY <3>2, FieldsAre DEF ShapeOK
      <4>2. At(v, "action").type = "string" /\ At(v, "action").name = a
        BY <3>2 DEF Scalar
      <4>3. FieldOK("action", At(v, "action"))
        BY <4>2 DEF FieldOK, IsString
      <4> QED BY <1>2, <3>2, <4>1, <4>2, <4>3 DEF ValidAction
    <3> QED BY <3>1, <3>2
  <2>3. C(Root, v) <=> \E a \in Actions : /\ ShapeOK(v, a)
                                          /\ At(v, "action") = Scalar("string", a)
                                          /\ Conform
    <3>1. \A a \in Actions : C(InputOf(a), v) <=> /\ ShapeOK(v, a)
                                                  /\ At(v, "action") = Scalar("string", a)
                                                  /\ Conform
      BY <1>2, InputConforms
    <3>2. C(Root, v) <=> \E a \in Actions : C(InputOf(a), v)
      BY <1>2, RootConforms
    <3> HIDE DEF C, Conform
    <3> QED BY <3>1, <3>2
  <2>4. ASSUME NEW a \in Actions, ShapeOK(v, a) PROVE Fits <=> Conform /\ ~Float
    <3>1. \A field \in Keys(v) \ {"action"} : field \in PropertyNames
      BY <2>4, FieldsAre DEF ShapeOK
    <3>2. ASSUME NEW field \in Keys(v) \ {"action"}
          PROVE  /\ C(PropertyOf(field), At(v, field)) <=>
                        \/ FieldOK(field, At(v, field))
                        \/ /\ field = "expected_revision" /\ At(v, field).type = "float"
                           /\ At(v, field).name \in NonNegative
                 /\ field = "expected_revision" /\ At(v, field).type = "float"
                        => ~FieldOK(field, At(v, field))
      <4>1. At(v, field) \in Values /\ field \in PropertyNames
        BY <2>1, <3>1
      <4>2. field = "expected_revision" /\ At(v, field).type = "float" => ~FieldOK(field, At(v, field))
        BY DEF FieldOK, RevisionOK
      <4> QED BY <4>1, <4>2, FieldConforms
    <3> HIDE DEF C
    <3> QED BY <3>2
  <2> HIDE DEF C, Fits, Conform, Float
  <2>5. ValidAction(v) <=> C(Root, v) /\ ~Float
    BY <2>2, <2>3, <2>4
  <2> QED BY <2>5 DEF C, Float
<1> QED
  BY <1>1, <1>2

(* The runtime accepts exactly what the advertised schema allows, but for  *)
(* an expected_revision written as an integral float (CAPABILITY_TOOL in   *)
(* server.py, validate_action in executor.py).                             *)
THEOREM AdvertisedSchemaIsEnforced ==
  ASSUME ConformsRecurs, IdentityRecurs
  PROVE  Spec => []AdvertisedIsEnforced
<1>1. CallInv => AdvertisedIsEnforced
  BY RuntimeAgrees DEF CallInv, AdvertisedIsEnforced
<1> QED
  BY <1>1, CallInvHolds, PTL
===============================================================================
