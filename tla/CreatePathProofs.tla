-------------------------- MODULE CreatePathProofs --------------------------
(* What holds of CreatePath for every set of characters, every length of   *)
(* identities and every number of edits, proved with TLAPS.                *)
EXTENDS CreatePath, SequenceTheorems, WellFoundedInduction, TLAPS

(* Blanks around a text.  The SMT backend does not take the literals of a  *)
(* blank and of the empty string: what has them is left folded, or Zenon's. *)

LEMMA TrimEmpty == TrimSpace(<<>>) = <<>>
  <1>1. \A c : Trim(<<>>, c) = <<>>
    BY DEF Trim
  <1> QED
    BY <1>1, Zenon DEF TrimSpace

LEMMA TrimOther ==
  ASSUME NEW c, NEW x, x # c PROVE Trim(<<x>>, c) = <<x>>
  <1> DEFINE kept == {i \in DOMAIN <<x>> : <<x>>[i] # c}
  <1>1. kept = {1}
    <2>1. DOMAIN <<x>> = {1} /\ <<x>>[1] = x
      OBVIOUS
    <2> QED
      BY <2>1
  <1>2. Min({1}) = 1 /\ Max({1}) = 1
    <2>1. \E i \in {1} : \A j \in {1} : i <= j
      OBVIOUS
    <2>2. \E i \in {1} : \A j \in {1} : i >= j
      OBVIOUS
    <2>3. Min({1}) \in {1}
      BY <2>1 DEF Min
    <2>4. Max({1}) \in {1}
      BY <2>2 DEF Max
    <2> QED
      BY <2>3, <2>4
  <1>3. Trim(<<x>>, c) = SubSeq(<<x>>, Min(kept), Max(kept))
    BY <1>1 DEF Trim
  <1>4. SubSeq(<<x>>, 1, 1) = <<x>>
    <2>1. <<x>> \in Seq({x}) /\ Len(<<x>>) = 1
      OBVIOUS
    <2> QED
      BY <2>1, SubSeqFull
  <1> HIDE DEF kept
  <1> QED
    BY <1>1, <1>2, <1>3, <1>4

LEMMA TrimLetter ==
  ASSUME NEW x, x # " " PROVE TrimSpace(<<x>>) = <<x>>
  BY TrimOther, Zenon DEF TrimSpace
-----------------------------------------------------------------------------
(* The names.                                                              *)

LEMMA LeastNatural ==
  ASSUME NEW T \in SUBSET Nat, T # {}
  PROVE  \E n \in T : \A m \in T : n <= m
  <1>1. PICK n \in T : \A m \in T : <<m, n>> \notin OpToRel(<, Nat)
    BY NatLessThanWellFounded, WFMin
  <1>2. \A m \in T : ~(m < n)
    BY <1>1 DEF OpToRel
  <1> QED
    BY <1>2

LEMMA Extremes ==
  ASSUME NEW n \in Nat, NEW T \in SUBSET (1..n), T # {}
  PROVE  /\ Min(T) \in T /\ \A i \in T : Min(T) <= i
         /\ Max(T) \in T /\ \A i \in T : i <= Max(T)
  <1>1. \E i \in T : \A j \in T : i <= j
    BY LeastNatural
  <1>2. \E i \in T : \A j \in T : i >= j
    <2> DEFINE mirror == {n - i : i \in T}
    <2>1. mirror \in SUBSET Nat /\ mirror # {}
      <3>1. \A i \in T : n - i \in Nat
        OBVIOUS
      <3> QED
        BY <3>1
    <2>2. PICK m \in mirror : \A k \in mirror : m <= k
      BY <2>1, LeastNatural
    <2>3. PICK i \in T : m = n - i
      OBVIOUS
    <2>4. \A j \in T : n - i <= n - j
      BY <2>2, <2>3
    <2> QED
      BY <2>4
  <1>3. Min(T) \in T /\ \A i \in T : Min(T) <= i
    BY <1>1 DEF Min
  <1>4. Max(T) \in T /\ \A i \in T : Max(T) >= i
    BY <1>2 DEF Max
  <1> QED
    BY <1>3, <1>4

\* What is left of a sequence begins and ends with something else.
LEMMA TrimKeeps ==
  ASSUME NEW S, NEW s \in Seq(S), NEW c
  PROVE  \/ Trim(s, c) = <<>> /\ \A i \in 1..Len(s) : s[i] = c
         \/ \E a \in 1..Len(s), b \in 1..Len(s) :
               /\ a <= b /\ Trim(s, c) = SubSeq(s, a, b)
               /\ s[a] # c /\ s[b] # c
               /\ \A i \in 1..Len(s) : s[i] # c => a <= i /\ i <= b
  <1> DEFINE kept == {i \in DOMAIN s : s[i] # c}
  <1>0. DOMAIN s = 1..Len(s) /\ Len(s) \in Nat
    OBVIOUS
  <1>1. CASE kept = {}
    BY <1>0, <1>1 DEF Trim
  <1>2. CASE kept # {}
    <2>1. Trim(s, c) = SubSeq(s, Min(kept), Max(kept))
      BY <1>2 DEF Trim
    <2>2. kept \in SUBSET (1..Len(s))
      BY <1>0
    <2>3. /\ Min(kept) \in kept /\ \A i \in kept : Min(kept) <= i
          /\ Max(kept) \in kept /\ \A i \in kept : i <= Max(kept)
      BY <1>0, <1>2, <2>2, Extremes
    <2>4. Min(kept) <= Max(kept)
      BY <2>3
    <2>5. \A i \in 1..Len(s) : s[i] # c => Min(kept) <= i /\ i <= Max(kept)
      BY <1>0, <2>3
    <2>6. s[Min(kept)] # c /\ s[Max(kept)] # c
      BY <2>3
    <2>7. Min(kept) \in 1..Len(s) /\ Max(kept) \in 1..Len(s)
      BY <2>2, <2>3
    <2> HIDE DEF kept
    <2> QED
      BY <2>1, <2>4, <2>5, <2>6, <2>7
  <1> QED
    BY <1>1, <1>2

LEMMA TrimNothing ==
  ASSUME NEW S, NEW s \in Seq(S), NEW c, s # <<>>, s[1] # c, s[Len(s)] # c
  PROVE  Trim(s, c) = s
  <1>1. Len(s) \in Nat \ {0}
    OBVIOUS
  <1>2. PICK a \in 1..Len(s), b \in 1..Len(s) :
           /\ Trim(s, c) = SubSeq(s, a, b)
           /\ \A i \in 1..Len(s) : s[i] # c => a <= i /\ i <= b
    BY <1>1, TrimKeeps
  <1>3. a = 1 /\ b = Len(s)
    BY <1>1, <1>2
  <1> QED
    BY <1>2, <1>3, SubSeqFull

LEMMA TrimType ==
  ASSUME NEW S, NEW s \in Seq(S), NEW c
  PROVE  /\ Trim(s, c) \in Seq(S) /\ Len(Trim(s, c)) <= Len(s)
         /\ Trim(s, c) # <<>> => /\ Trim(s, c)[1] # c
                                 /\ Trim(s, c)[Len(Trim(s, c))] # c
  <1>1. CASE Trim(s, c) = <<>>
    BY <1>1
  <1>2. CASE Trim(s, c) # <<>>
    <2>1. PICK a \in 1..Len(s), b \in 1..Len(s) :
             /\ a <= b /\ Trim(s, c) = SubSeq(s, a, b)
             /\ s[a] # c /\ s[b] # c
      BY <1>2, TrimKeeps
    <2>2. \A i \in a..b : s[i] \in S
      BY <2>1
    <2>3. /\ SubSeq(s, a, b) \in Seq(S) /\ Len(SubSeq(s, a, b)) = b - a + 1
          /\ \A i \in 1..(b - a + 1) : SubSeq(s, a, b)[i] = s[a + i - 1]
      BY <2>1, <2>2, SubSeqProperties
    <2>4. SubSeq(s, a, b)[1] = s[a] /\ SubSeq(s, a, b)[b - a + 1] = s[b]
      BY <2>1, <2>3
    <2> QED
      BY <2>1, <2>3, <2>4
  <1> QED
    BY <1>1, <1>2

\* The letters of what sanitize makes of a text, and of a name.
NameLetter == Alphanumeric \cup {"-", "g"}

\* The recursion of Dashed is defined: the least place where it is not would
\* have one before it where it is.
LEMMA DashedType ==
  ASSUME NEW S, NEW in \in Seq(S)
  PROVE  Dashed(in) \in Seq(NameLetter)
  <1> DEFINE T == Seq(NameLetter)
             Step(o, n) == IF in[n] \in Alphanumeric THEN Append(o, in[n])
                           ELSE IF n > 1 /\ in[n - 1] \notin Alphanumeric THEN o
                           ELSE Append(o, "-")
             Fits(g, n) == g = [i \in 0..n |-> IF i = 0 THEN <<>>
                                               ELSE Step(g[i - 1], i)]
             Undefined == {n \in Nat : ~\E g : Fits(g, n)}
             out == CHOOSE g : Fits(g, Len(in))
  <1>1. Dashed(in) = out[Len(in)]
    BY DEF Dashed
  <1>2. <<>> \in T /\ \A o \in T, n \in Nat : Step(o, n) \in T
    <2>1. "-" \in NameLetter /\ Alphanumeric \subseteq NameLetter
      BY DEF NameLetter
    <2> QED
      BY <2>1
  <1>3. Len(in) \in Nat
    OBVIOUS
  <1> HIDE DEF Step, T
  <1>4. Undefined = {}
    <2> SUFFICES ASSUME Undefined # {} PROVE FALSE
      OBVIOUS
    <2>1. PICK n \in Undefined : \A m \in Undefined : n <= m
      BY LeastNatural
    <2>2. n \in Nat /\ n # 0
      <3>1. Fits([i \in 0..0 |-> <<>>], 0)
        OBVIOUS
      <3> QED
        BY <2>1, <3>1
    <2>3. n - 1 \in Nat /\ n - 1 \notin Undefined
      <3>1. n - 1 \in Nat /\ n - 1 < n
        BY <2>2
      <3> HIDE DEF Undefined
      <3> QED
        BY <2>1, <2>2, <3>1
    <2>4. PICK g : Fits(g, n - 1)
      BY <2>3
    <2> DEFINE h == [i \in 0..n |-> IF i = n THEN Step(g[n - 1], n) ELSE g[i]]
    <2>5. \A i \in 0..(n - 1) :
             g[i] = IF i = 0 THEN <<>> ELSE Step(g[i - 1], i)
      BY <2>4
    <2>6. \A i \in 0..n : h[i] = IF i = 0 THEN <<>> ELSE Step(h[i - 1], i)
      BY <2>2, <2>5
    <2>7. Fits(h, n)
      BY <2>6
    <2> QED
      BY <2>1, <2>7
  <1>5. Fits(out, Len(in))
    BY <1>3, <1>4
  <1>6. \A i \in 0..Len(in) :
           out[i] = IF i = 0 THEN <<>> ELSE Step(out[i - 1], i)
    BY <1>5
  <1> HIDE DEF out
  <1> DEFINE Odd == {n \in 0..Len(in) : out[n] \notin T}
  <1>7. Odd = {}
    <2> SUFFICES ASSUME Odd # {} PROVE FALSE
      OBVIOUS
    <2>1. PICK n \in Odd : \A m \in Odd : n <= m
      <3>1. Odd \in SUBSET Nat
        BY <1>3
      <3> HIDE DEF Odd
      <3> QED
        BY <3>1, LeastNatural
    <2>2. n # 0
      BY <1>2, <1>3, <1>6, <2>1
    <2>3. n \in 0..Len(in) /\ n - 1 \in 0..Len(in) /\ n \in Nat
      BY <1>3, <2>1, <2>2
    <2>4. out[n - 1] \in T
      BY <2>1, <2>3
    <2>5. out[n] = Step(out[n - 1], n)
      BY <1>6, <2>2, <2>3
    <2> QED
      BY <1>2, <2>1, <2>3, <2>4, <2>5
  <1> QED
    BY <1>1, <1>3, <1>7 DEF T

LEMMA SanitizeType ==
  ASSUME NEW S, NEW in \in Seq(S)
  PROVE  /\ sanitize(in) \in Seq(NameLetter)
         /\ sanitize(in) # <<>> =>
               /\ sanitize(in)[1] # "-"
               /\ sanitize(in)[Len(sanitize(in))] # "-"
  BY DashedType, TrimType DEF sanitize

LEMMA TakeType ==
  ASSUME NEW S, NEW s \in Seq(S), NEW n \in Nat
  PROVE  /\ Take(s, n) \in Seq(S)
         /\ Len(Take(s, n)) = IF Len(s) < n THEN Len(s) ELSE n
         /\ \A i \in 1..Len(Take(s, n)) : Take(s, n)[i] = s[i]
  <1> DEFINE k == IF Len(s) < n THEN Len(s) ELSE n
  <1>1. k \in Nat /\ k <= Len(s) /\ \A i \in 1..k : s[i] \in S
    OBVIOUS
  <1> HIDE DEF k
  <1>2. /\ SubSeq(s, 1, k) \in Seq(S) /\ Len(SubSeq(s, 1, k)) = k
        /\ \A i \in 1..k : SubSeq(s, 1, k)[i] = s[i]
    <2>1. /\ SubSeq(s, 1, k) \in Seq(S)
          /\ Len(SubSeq(s, 1, k)) = IF 1 <= k THEN k - 1 + 1 ELSE 0
          /\ \A i \in 1..(k - 1 + 1) : SubSeq(s, 1, k)[i] = s[1 + i - 1]
      BY <1>1, SubSeqProperties
    <2> QED
      BY <1>1, <2>1
  <1> QED
    BY <1>2 DEF Take, k

LEMMA ControllerPartType ==
  ASSUME NEW S, NEW c \in Seq(S)
  PROVE  /\ ControllerPart(c) \in Seq(NameLetter)
         /\ Len(ControllerPart(c)) <= ControllerMax
         /\ Len(ControllerPart(c)) = IF Len(sanitize(c)) < ControllerMax
                                     THEN Len(sanitize(c)) ELSE ControllerMax
         /\ sanitize(c) # <<>> =>
               ControllerPart(c) # <<>> /\ ControllerPart(c)[1] # "-"
  <1>1. sanitize(c) \in Seq(NameLetter) /\ ControllerMax \in Nat \ {0}
    BY SanitizeType, LengthsAssumption
  <1>2. /\ ControllerPart(c) \in Seq(NameLetter)
        /\ Len(ControllerPart(c)) = IF Len(sanitize(c)) < ControllerMax
                                    THEN Len(sanitize(c)) ELSE ControllerMax
        /\ \A i \in 1..Len(ControllerPart(c)) :
              ControllerPart(c)[i] = sanitize(c)[i]
    BY <1>1, TakeType DEF ControllerPart
  <1>3. ASSUME sanitize(c) # <<>>
        PROVE  ControllerPart(c) # <<>> /\ ControllerPart(c)[1] # "-"
    <2>1. Len(sanitize(c)) \in Nat \ {0}
      BY <1>1, <1>3, EmptySeq
    <2>2. Len(ControllerPart(c)) \in Nat \ {0}
      BY <1>1, <1>2, <2>1
    <2>3. sanitize(c)[1] # "-"
      BY <1>3, SanitizeType
    <2> QED
      BY <1>2, <2>2, <2>3
  <1>4. Len(ControllerPart(c)) <= ControllerMax
    BY <1>1, <1>2
  <1> QED
    BY <1>2, <1>3, <1>4

LEMMA Joined ==
  ASSUME NEW S, NEW s \in Seq(S), NEW t \in Seq(S)
  PROVE  /\ s \o t \in Seq(S) /\ Len(s \o t) = Len(s) + Len(t)
         /\ \A i \in 1..Len(s) : (s \o t)[i] = s[i]
         /\ \A i \in 1..Len(t) : (s \o t)[Len(s) + i] = t[i]
  OBVIOUS

\* A name before it is trimmed and cut.
Body(c, r) == Prefix \o c \o <<"-">> \o r

LEMMA BodyType ==
  ASSUME NEW c \in Seq(NameLetter), NEW r \in Seq(NameLetter)
  PROVE  /\ Body(c, r) \in Seq(NameLetter)
         /\ Len(Body(c, r)) = 3 + Len(c) + Len(r)
         /\ Body(c, r)[1] = "g" /\ Body(c, r)[2] = "-"
         /\ \A i \in 1..Len(c) : Body(c, r)[2 + i] = c[i]
         /\ Body(c, r)[3 + Len(c)] = "-"
         /\ \A i \in 1..Len(r) : Body(c, r)[3 + Len(c) + i] = r[i]
  <1>1. /\ Prefix \in Seq(NameLetter) /\ Len(Prefix) = 2
        /\ Prefix[1] = "g" /\ Prefix[2] = "-"
    BY DEF Prefix, NameLetter
  <1> DEFINE pc == Prefix \o c
             dash == <<"-">>
             pcd == pc \o dash
  \* A sum of lengths is not worked out where Joined is used: the prover
  \* would no longer recognise it.
  <1>2. /\ pc \in Seq(NameLetter) /\ Len(pc) = Len(Prefix) + Len(c)
        /\ \A i \in 1..Len(Prefix) : pc[i] = Prefix[i]
        /\ \A i \in 1..Len(c) : pc[Len(Prefix) + i] = c[i]
    <2>1. Prefix \in Seq(NameLetter)
      BY <1>1
    <2> QED
      BY <2>1, Joined
  <1>3. dash \in Seq(NameLetter) /\ Len(dash) = 1 /\ dash[1] = "-"
    BY DEF NameLetter
  <1> HIDE DEF pc, dash
  <1>4. /\ pcd \in Seq(NameLetter) /\ Len(pcd) = Len(pc) + Len(dash)
        /\ \A i \in 1..Len(pc) : pcd[i] = pc[i]
        /\ \A i \in 1..Len(dash) : pcd[Len(pc) + i] = dash[i]
    <2>1. pc \in Seq(NameLetter) /\ dash \in Seq(NameLetter)
      BY <1>2, <1>3
    <2> QED
      BY <2>1, Joined
  <1> HIDE DEF pcd
  <1>5. /\ pcd \o r \in Seq(NameLetter) /\ Len(pcd \o r) = Len(pcd) + Len(r)
        /\ \A i \in 1..Len(pcd) : (pcd \o r)[i] = pcd[i]
        /\ \A i \in 1..Len(r) : (pcd \o r)[Len(pcd) + i] = r[i]
    <2>1. pcd \in Seq(NameLetter)
      BY <1>4
    <2> QED
      BY <2>1, Joined
  <1>6. Len(c) \in Nat /\ Len(r) \in Nat
    OBVIOUS
  <1>7. /\ Len(pc) = 2 + Len(c) /\ pc[1] = "g" /\ pc[2] = "-"
        /\ \A i \in 1..Len(c) : pc[2 + i] = c[i]
    BY <1>1, <1>2, <1>6
  <1>8. /\ Len(pcd) = 3 + Len(c) /\ pcd[1] = "g" /\ pcd[2] = "-"
        /\ pcd[3 + Len(c)] = "-" /\ \A i \in 1..Len(c) : pcd[2 + i] = c[i]
    BY <1>3, <1>4, <1>6, <1>7
  <1>9. Body(c, r) = pcd \o r
    BY DEF Body, pcd, pc, dash
  <1> QED
    BY <1>5, <1>6, <1>8, <1>9

Raw(c, r) == Trim(Body(ControllerPart(c), sanitize(r)), "-")

LEMMA RawType ==
  ASSUME NEW S, NEW c \in Seq(S), NEW U, NEW r \in Seq(U)
  PROVE  /\ Raw(c, r) \in Seq(NameLetter) /\ Raw(c, r) # <<>>
         /\ sanitize(r) # <<>> =>
               Raw(c, r) = Body(ControllerPart(c), sanitize(r))
         /\ sanitize(r) = <<>> => Len(Raw(c, r)) < 3 + Len(ControllerPart(c))
  <1> DEFINE cp == ControllerPart(c)
             sr == sanitize(r)
             s == Body(cp, sr)
  <1>1. cp \in Seq(NameLetter) /\ sr \in Seq(NameLetter)
    BY ControllerPartType, SanitizeType
  <1>2. sr # <<>> => sr[Len(sr)] # "-"
    BY SanitizeType
  <1> HIDE DEF cp, sr
  <1>3. /\ s \in Seq(NameLetter) /\ Len(s) = 3 + Len(cp) + Len(sr)
        /\ s[1] = "g" /\ s[3 + Len(cp)] = "-"
        /\ \A i \in 1..Len(sr) : s[3 + Len(cp) + i] = sr[i]
    BY <1>1, BodyType
  <1>4. Len(cp) \in Nat /\ Len(sr) \in Nat /\ "g" # "-"
    BY <1>1
  <1> HIDE DEF s
  <1>5. PICK a \in 1..Len(s), b \in 1..Len(s) :
           /\ a <= b /\ Trim(s, "-") = SubSeq(s, a, b) /\ s[b] # "-"
    <2>1. 1 \in 1..Len(s) /\ s[1] # "-"
      BY <1>3, <1>4
    <2>2. ~\A i \in 1..Len(s) : s[i] = "-"
      BY <2>1
    <2>3. s \in Seq(NameLetter)
      BY <1>3
    <2>4. \/ Trim(s, "-") = <<>> /\ \A i \in 1..Len(s) : s[i] = "-"
          \/ \E a \in 1..Len(s), b \in 1..Len(s) :
               /\ a <= b /\ Trim(s, "-") = SubSeq(s, a, b)
               /\ s[a] # "-" /\ s[b] # "-"
               /\ \A i \in 1..Len(s) : s[i] # "-" => a <= i /\ i <= b
      BY <2>3, TrimKeeps
    <2> QED
      BY <2>2, <2>4
  <1>6. SubSeq(s, a, b) \in Seq(NameLetter) /\ Len(SubSeq(s, a, b)) = b - a + 1
    <2>1. \A i \in a..b : s[i] \in NameLetter
      BY <1>3
    <2> QED
      BY <1>5, <2>1, SubSeqProperties
  <1>7. Raw(c, r) = SubSeq(s, a, b)
    BY <1>5 DEF Raw, s, cp, sr
  <1>8. SubSeq(s, a, b) # <<>>
    BY <1>5, <1>6
  <1>9. ASSUME sr # <<>> PROVE Trim(s, "-") = s
    <2>1. Len(sr) \in 1..Len(sr) /\ s[Len(s)] = sr[Len(sr)]
      <3>1. Len(sr) \in Nat \ {0}
        BY <1>1, <1>9, EmptySeq
      <3> QED
        BY <1>3, <1>4, <3>1
    <2>2. s # <<>> /\ s[1] # "-" /\ s[Len(s)] # "-"
      BY <1>2, <1>3, <1>4, <1>9, <2>1
    <2> QED
      BY <1>3, <2>2, TrimNothing
  <1>10. ASSUME sr = <<>> PROVE Len(SubSeq(s, a, b)) < 3 + Len(cp)
    <2>1. Len(s) = 3 + Len(cp) /\ s[Len(s)] = "-"
      <3>1. Len(sr) = 0
        BY <1>10
      <3> QED
        BY <1>3, <1>4, <3>1
    <2>2. b # Len(s)
      BY <1>5, <2>1
    <2> QED
      BY <1>4, <1>5, <1>6, <2>1, <2>2
  <1> QED
    BY <1>6, <1>7, <1>8, <1>9, <1>10 DEF Raw, s, cp, sr

LEMMA OwnedNameOfRaw ==
  ASSUME NEW c, NEW r
  PROVE  ownedName(c, r) = IF Len(Raw(c, r)) <= NameMax
                           THEN [text |-> Raw(c, r), digest |-> <<>>]
                           ELSE [text |-> Trim(Take(Raw(c, r),
                                                    NameMax - DigestLen - 1), "-")
                                             \o <<"-">>,
                                 digest |-> Raw(c, r)]
  BY DEF ownedName, Raw, Body

\* Cutting a name off makes no two names alike that were not.
LEMMA SameRaw ==
  ASSUME NEW c, NEW r, NEW d, NEW s, ownedName(c, r) = ownedName(d, s),
         Raw(c, r) # <<>>, Raw(d, s) # <<>>
  PROVE  Raw(c, r) = Raw(d, s)
  BY OwnedNameOfRaw

\* A text that begins with g-, a letter and, later, a dash.
LEMMA Plausible ==
  ASSUME NEW name, NEW text \in Seq(NameLetter), name.text = text,
         NEW j \in 4..Len(text), text[1] = "g", text[2] = "-",
         text[3] # "-", text[j] = "-", j < Len(text) \/ name.digest # <<>>
  PROVE  plausibleManagedAppName(name)
  <1> DEFINE remainder == SubSeq(text, 3, Len(text))
             dashes == {i \in DOMAIN remainder : remainder[i] = "-"}
  <1>1. Len(text) \in Nat /\ Len(text) >= 4 /\ \A i \in 1..Len(text) : text[i] \in NameLetter
    OBVIOUS
  <1>2. /\ remainder \in Seq(NameLetter) /\ Len(remainder) = Len(text) - 2
        /\ \A i \in 1..(Len(text) - 2) : remainder[i] = text[i + 2]
    <2>1. \A i \in 3..Len(text) : text[i] \in NameLetter
      BY <1>1
    <2>2. /\ remainder \in Seq(NameLetter)
          /\ Len(remainder) = IF 3 <= Len(text) THEN Len(text) - 3 + 1 ELSE 0
          /\ \A i \in 1..(Len(text) - 3 + 1) : remainder[i] = text[3 + i - 1]
      BY <1>1, <2>1, SubSeqProperties
    <2> HIDE DEF remainder
    <2> QED
      BY <1>1, <2>2
  <1>3. IsPrefix(Prefix, text) /\ Len(Prefix) + 1 = 3
    <2>1. /\ Prefix \in Seq(NameLetter) /\ Len(Prefix) = 2
          /\ Prefix[1] = "g" /\ Prefix[2] = "-"
      BY DEF Prefix, NameLetter
    <2> DEFINE front == SubSeq(text, 1, 2)
    <2>2. /\ front \in Seq(NameLetter) /\ Len(front) = 2
          /\ front[1] = "g" /\ front[2] = "-"
      BY <1>1
    <2> HIDE DEF front
    <2>3. front = Prefix
      <3>1. Len(front) = Len(Prefix) /\ \A i \in 1..Len(front) : front[i] = Prefix[i]
        BY <2>1, <2>2
      <3> QED
        BY <2>1, <2>2, <3>1, SeqEqual
    <2>4. SubSeq(Prefix, 1, Len(Prefix)) = Prefix
      BY <2>1, SubSeqFull
    <2>5. SubSeq(text, 1, Len(Prefix)) = Prefix
      BY <2>1, <2>3 DEF front
    <2> QED
      BY <1>1, <2>1, <2>4, <2>5 DEF IsPrefix
  <1>4. DOMAIN remainder = 1..(Len(text) - 2) /\ Len(text) - 2 \in Nat
    BY <1>1, <1>2
  <1> HIDE DEF remainder
  <1>5. j - 2 \in dashes /\ 1 \notin dashes
    BY <1>1, <1>2, <1>4
  <1>6. Min(dashes) \in dashes /\ Min(dashes) <= j - 2
    <2>1. dashes \in SUBSET (1..(Len(text) - 2)) /\ dashes # {}
      BY <1>4, <1>5
    <2> HIDE DEF dashes
    <2> QED
      BY <1>4, <1>5, <2>1, Extremes
  <1>7. Min(dashes) \in 1..(Len(text) - 2)
    BY <1>4, <1>6
  <1>8. Min(dashes) > 1
    BY <1>5, <1>6, <1>7
  <1>9. Min(dashes) < Len(remainder) \/ name.digest # <<>>
    BY <1>1, <1>2, <1>6, <1>7
  <1>10. dashes # {}
    BY <1>5
  <1> QED
    BY <1>3, <1>8, <1>9, <1>10 DEF plausibleManagedAppName, remainder

\* FindsItsOwn, of one name.
LEMMA Findable ==
  ASSUME NEW S, NEW c \in Seq(S), NEW U, NEW r \in Seq(U),
         sanitize(c) # <<>>, sanitize(r) # <<>>
  PROVE  /\ Length(ownedName(c, r)) <= NameMax
         /\ \/ Last(ownedName(c, r).text) # "-"
            \/ ownedName(c, r).digest # <<>>
         /\ plausibleManagedAppName(ownedName(c, r))
  <1> DEFINE name == ownedName(c, r)
             cp == ControllerPart(c)
             sr == sanitize(r)
             raw == Raw(c, r)
             room == NameMax - DigestLen - 1
             kept == Take(raw, room)
  <1>1. /\ cp \in Seq(NameLetter) /\ cp # <<>> /\ cp[1] # "-"
        /\ Len(cp) <= ControllerMax
        /\ sr \in Seq(NameLetter) /\ sr # <<>>
        /\ sr[1] # "-" /\ sr[Len(sr)] # "-"
    BY ControllerPartType, SanitizeType
  <1>2. raw \in Seq(NameLetter) /\ raw # <<>> /\ raw = Body(cp, sr)
    BY RawType
  <1>3. name = IF Len(raw) <= NameMax
               THEN [text |-> raw, digest |-> <<>>]
               ELSE [text |-> Trim(kept, "-") \o <<"-">>, digest |-> raw]
    BY OwnedNameOfRaw
  <1>4. /\ ControllerMax \in Nat \ {0} /\ DigestLen \in Nat \ {0}
        /\ NameMax >= 2 + ControllerMax + DigestLen + 3
        /\ NameMax \in Int
    BY LengthsAssumption DEF Prefix
  <1> HIDE DEF cp, sr, raw
  <1>5. Len(cp) \in Nat \ {0} /\ Len(sr) \in Nat \ {0} /\ Len(raw) \in Nat
    BY <1>1, <1>2, EmptySeq
  <1>6. /\ Len(raw) = 3 + Len(cp) + Len(sr)
        /\ raw[1] = "g" /\ raw[2] = "-" /\ raw[3] # "-"
        /\ raw[3 + Len(cp)] = "-" /\ raw[4 + Len(cp)] # "-"
        /\ raw[Len(raw)] # "-"
    <2>1. /\ Len(raw) = 3 + Len(cp) + Len(sr)
          /\ raw[1] = "g" /\ raw[2] = "-" /\ raw[3 + Len(cp)] = "-"
          /\ \A i \in 1..Len(cp) : raw[2 + i] = cp[i]
          /\ \A i \in 1..Len(sr) : raw[3 + Len(cp) + i] = sr[i]
      <3>1. cp \in Seq(NameLetter) /\ sr \in Seq(NameLetter)
        BY <1>1
      <3> DEFINE body == Body(cp, sr)
      <3>2. /\ Len(body) = 3 + Len(cp) + Len(sr)
            /\ body[1] = "g" /\ body[2] = "-" /\ body[3 + Len(cp)] = "-"
            /\ \A i \in 1..Len(cp) : body[2 + i] = cp[i]
            /\ \A i \in 1..Len(sr) : body[3 + Len(cp) + i] = sr[i]
        BY <3>1, BodyType
      <3>3. raw = body
        BY <1>2
      <3> HIDE DEF body
      <3> QED
        BY <3>2, <3>3
    <2>2. 1 \in 1..Len(cp) /\ 1 \in 1..Len(sr) /\ Len(sr) \in 1..Len(sr)
      BY <1>5
    <2>3. /\ raw[2 + 1] = cp[1] /\ raw[3 + Len(cp) + 1] = sr[1]
          /\ raw[3 + Len(cp) + Len(sr)] = sr[Len(sr)]
      BY <2>1, <2>2
    <2> QED
      BY <1>1, <1>5, <2>1, <2>3
  <1>7. CASE Len(raw) <= NameMax
    <2>1. name = [text |-> raw, digest |-> <<>>]
      BY <1>3, <1>7
    <2> HIDE DEF name
    <2>2. name.text = raw /\ name.digest = <<>>
      BY <2>1
    <2>3. plausibleManagedAppName(name)
      <3>1. 3 + Len(cp) \in 4..Len(raw) /\ 3 + Len(cp) < Len(raw)
        BY <1>5, <1>6
      <3> QED
        BY <1>2, <1>6, <2>2, <3>1, Plausible
    <2> QED
      BY <1>5, <1>6, <1>7, <2>2, <2>3 DEF Length, Last, name
  <1>8. CASE ~(Len(raw) <= NameMax)
    <2> DEFINE text == Trim(kept, "-") \o <<"-">>
    <2>1. name.text = text /\ name.digest = raw
      BY <1>3, <1>8
    <2>2. /\ room \in Nat /\ room < Len(raw) /\ 4 + Len(cp) <= room
      BY <1>1, <1>4, <1>5, <1>8
    <2>3. /\ kept \in Seq(NameLetter) /\ Len(kept) = room
          /\ \A i \in 1..room : kept[i] = raw[i]
      BY <1>2, <1>5, <2>2, TakeType
    <2> HIDE DEF kept, room
    <2>4. /\ kept[1] = "g" /\ kept[2] = "-" /\ kept[3] # "-"
          /\ kept[3 + Len(cp)] = "-" /\ kept[4 + Len(cp)] # "-"
      BY <1>5, <1>6, <2>2, <2>3
    <2>5. PICK a \in 1..room, b \in 1..room :
             /\ a <= b /\ Trim(kept, "-") = SubSeq(kept, a, b)
             /\ \A i \in 1..room : kept[i] # "-" => a <= i /\ i <= b
      <3>1. ~\A i \in 1..room : kept[i] = "-"
        BY <1>5, <2>2, <2>4
      <3>2. \/ Trim(kept, "-") = <<>> /\ \A i \in 1..Len(kept) : kept[i] = "-"
            \/ \E a \in 1..Len(kept), b \in 1..Len(kept) :
                 /\ a <= b /\ Trim(kept, "-") = SubSeq(kept, a, b)
                 /\ kept[a] # "-" /\ kept[b] # "-"
                 /\ \A i \in 1..Len(kept) : kept[i] # "-" => a <= i /\ i <= b
        <4>1. kept \in Seq(NameLetter)
          BY <2>3
        <4> QED
          BY <4>1, TrimKeeps
      <3> QED
        BY <2>3, <3>1, <3>2
    <2>6. a = 1 /\ 4 + Len(cp) <= b
      BY <1>5, <2>2, <2>4, <2>5
    <2> DEFINE front == SubSeq(kept, 1, b)
    <2>7. /\ front \in Seq(NameLetter) /\ Len(front) = b
          /\ \A i \in 1..b : front[i] = kept[i]
      <3>1. \A i \in 1..b : kept[i] \in NameLetter
        BY <2>3, <2>5
      <3>2. /\ front \in Seq(NameLetter)
            /\ Len(front) = IF 1 <= b THEN b - 1 + 1 ELSE 0
            /\ \A i \in 1..(b - 1 + 1) : front[i] = kept[1 + i - 1]
        BY <2>5, <3>1, SubSeqProperties
      <3> HIDE DEF front
      <3> QED
        BY <2>2, <2>5, <3>2
    <2>8. text = front \o <<"-">>
      BY <2>5, <2>6
    <2> HIDE DEF front, text
    <2>9. /\ text \in Seq(NameLetter) /\ Len(text) = b + 1
          /\ \A i \in 1..b : text[i] = front[i]
      <3>1. <<"-">> \in Seq(NameLetter) /\ Len(<<"-">>) = 1
        BY DEF NameLetter
      <3> DEFINE dash == <<"-">>
      <3> HIDE DEF dash
      <3>2. /\ front \o dash \in Seq(NameLetter)
            /\ Len(front \o dash) = Len(front) + Len(dash)
            /\ \A i \in 1..Len(front) : (front \o dash)[i] = front[i]
        <4>1. front \in Seq(NameLetter) /\ dash \in Seq(NameLetter)
          BY <2>7, <3>1 DEF dash
        <4> QED
          BY <4>1, Joined
      <3>3. text = front \o dash /\ Len(dash) = 1
        BY <2>8, <3>1 DEF dash
      <3> QED
        BY <2>7, <3>2, <3>3
    <2>10. plausibleManagedAppName(name)
      <3>1. /\ text[1] = "g" /\ text[2] = "-" /\ text[3] # "-"
            /\ text[3 + Len(cp)] = "-"
        BY <1>5, <2>2, <2>4, <2>5, <2>6, <2>7, <2>9
      <3>2. 3 + Len(cp) \in 4..Len(text)
        BY <1>5, <2>5, <2>6, <2>9
      <3> HIDE DEF name
      <3> QED
        BY <1>2, <2>1, <2>9, <3>1, <3>2, Plausible
    <2>11. Length(name) <= NameMax
      <3>1. Length(name) = Len(text) + DigestLen
        BY <1>2, <2>1 DEF Length
      <3>2. b <= room
        BY <2>2, <2>5
      <3> HIDE DEF name
      <3> QED
        BY <1>4, <2>2, <2>5, <2>9, <3>1, <3>2 DEF room
    <2> QED
      BY <1>2, <2>1, <2>10, <2>11
  <1> QED
    BY <1>7, <1>8

LEMMA SplitAlike ==
  ASSUME NEW S, NEW a \in Seq(S), NEW b \in Seq(S), NEW x \in Seq(S),
         NEW y \in Seq(S)
  PROVE  Len(a) = Len(b) /\ a \o x = b \o y => a = b /\ x = y
  <1>1. /\ Len(a) \in Nat /\ Len(b) \in Nat /\ Len(x) \in Nat /\ Len(y) \in Nat
    OBVIOUS
  <1>2. /\ Len(a \o x) = Len(a) + Len(x)
        /\ \A i \in 1..Len(a) : (a \o x)[i] = a[i]
        /\ \A i \in 1..Len(x) : (a \o x)[Len(a) + i] = x[i]
    BY Joined
  <1>3. /\ Len(b \o y) = Len(b) + Len(y)
        /\ \A i \in 1..Len(b) : (b \o y)[i] = b[i]
        /\ \A i \in 1..Len(y) : (b \o y)[Len(b) + i] = y[i]
    BY Joined
  <1> SUFFICES ASSUME Len(a) = Len(b), a \o x = b \o y PROVE a = b /\ x = y
    OBVIOUS
  <1>5. Len(x) = Len(y)
    BY <1>1, <1>2, <1>3
  <1>6. a = b
    <2>1. \A i \in 1..Len(a) : a[i] = b[i]
      BY <1>1, <1>2, <1>3
    <2> QED
      BY <1>1, <2>1, SeqEqual
  <1>7. x = y
    <2>1. \A i \in 1..Len(x) : x[i] = y[i]
      BY <1>1, <1>2, <1>3, <1>5
    <2> QED
      BY <1>5, <2>1, SeqEqual
  <1> QED
    BY <1>6, <1>7

LEMMA SameFront ==
  ASSUME NEW S, NEW a \in Seq(S), NEW x \in Seq(S), NEW y \in Seq(S)
  PROVE  a \o x = a \o y => x = y
  <1> DEFINE b == a
  <1>1. b \in Seq(S) /\ a = b
    OBVIOUS
  <1> HIDE DEF b
  <1>2. Len(a) = Len(b) /\ a \o x = b \o y => a = b /\ x = y
    BY <1>1, SplitAlike
  <1> QED
    BY <1>1, <1>2

LEMMA AlikeLong ==
  ASSUME NEW S, NEW a \in Seq(S), NEW b \in Seq(S), NEW x \in Seq(S),
         NEW y \in Seq(S)
  PROVE  /\ a \o x \in Seq(S) /\ b \o y \in Seq(S)
         /\ Len(a) = Len(b) /\ Len(x) = Len(y) => Len(a \o x) = Len(b \o y)
  <1>1. a \o x \in Seq(S) /\ Len(a \o x) = Len(a) + Len(x)
    BY ConcatProperties
  <1>2. b \o y \in Seq(S) /\ Len(b \o y) = Len(b) + Len(y)
    BY ConcatProperties
  <1> QED
    BY <1>1, <1>2

LEMMA Letters ==
  Prefix \in Seq(NameLetter) /\ <<"-">> \in Seq(NameLetter)
  BY DEF Prefix, NameLetter

\* Of two names whose first parts are equally long, both parts are alike.
LEMMA PartsAlike ==
  ASSUME NEW c \in Seq(NameLetter), NEW d \in Seq(NameLetter),
         NEW r \in Seq(NameLetter), NEW s \in Seq(NameLetter)
  PROVE  Len(c) = Len(d) /\ c \o <<"-">> \o r = d \o <<"-">> \o s
            => c = d /\ r = s
  <1> DEFINE dash == <<"-">>
             cd == c \o dash
             dd == d \o dash
  <1> SUFFICES ASSUME Len(c) = Len(d), cd \o r = dd \o s
               PROVE  c = d /\ r = s
    OBVIOUS
  <1>1. dash \in Seq(NameLetter)
    BY Letters
  <1> HIDE DEF dash
  <1>2. /\ cd \in Seq(NameLetter) /\ dd \in Seq(NameLetter)
        /\ Len(cd) = Len(dd)
    BY <1>1, AlikeLong
  <1>3. cd = dd /\ r = s
    <2> HIDE DEF cd, dd
    <2> QED
      BY <1>2, SplitAlike
  <1>4. c = d
    <2>1. c \o dash = d \o dash
      BY <1>3
    <2>2. Len(c) = Len(d) /\ c \o dash = d \o dash => c = d /\ dash = dash
      BY <1>1, SplitAlike
    <2> QED
      BY <2>1, <2>2
  <1> QED
    BY <1>3, <1>4

LEMMA BodiesAlike ==
  ASSUME NEW c \in Seq(NameLetter), NEW d \in Seq(NameLetter),
         NEW r \in Seq(NameLetter), NEW s \in Seq(NameLetter)
  PROVE  Len(c) = Len(d) /\ Body(c, r) = Body(d, s) => c = d /\ r = s
  <1> DEFINE pc == Prefix \o c
             pd == Prefix \o d
  <1> SUFFICES ASSUME Len(c) = Len(d), Body(c, r) = Body(d, s)
               PROVE  c = d /\ r = s
    OBVIOUS
  <1>1. Prefix \in Seq(NameLetter)
    BY Letters
  <1>2. /\ pc \in Seq(NameLetter) /\ pd \in Seq(NameLetter)
        /\ Len(pc) = Len(pd)
    BY <1>1, AlikeLong
  <1>3. pc \o <<"-">> \o r = pd \o <<"-">> \o s
    BY DEF Body
  <1>4. pc = pd /\ r = s
    <2> HIDE DEF pc, pd
    <2> QED
      BY <1>2, <1>3, PartsAlike
  <1>5. c = d
    <2> DEFINE p == Prefix
    <2>1. p \in Seq(NameLetter) /\ p \o c = p \o d
      BY <1>1, <1>4
    <2> HIDE DEF p
    <2>2. p \o c = p \o d => c = d
      BY <2>1, SameFront
    <2> QED
      BY <2>1, <2>2
  <1> QED
    BY <1>4, <1>5

\* Where the controllers' parts are equally long, an app name tells apart
\* all that sanitize does.
LEMMA AppsApart ==
  ASSUME NEW S, NEW c \in Seq(S), NEW d \in Seq(S),
         NEW U, NEW r \in Seq(U), NEW s \in Seq(U),
         sanitize(c) # <<>>, sanitize(r) # <<>>,
         Len(sanitize(d)) = Len(sanitize(c)), ownedName(d, s) = ownedName(c, r)
  PROVE  ControllerPart(d) = ControllerPart(c) /\ sanitize(s) = sanitize(r)
  <1> DEFINE cp == ControllerPart(c)
             dp == ControllerPart(d)
             sr == sanitize(r)
             ss == sanitize(s)
  <1>1. /\ cp \in Seq(NameLetter) /\ dp \in Seq(NameLetter)
        /\ sr \in Seq(NameLetter) /\ ss \in Seq(NameLetter)
    BY ControllerPartType, SanitizeType
  <1>2. Len(cp) = Len(dp)
    BY ControllerPartType
  <1>3. Raw(c, r) = Raw(d, s)
    <2>1. Raw(c, r) # <<>> /\ Raw(d, s) # <<>>
      BY RawType
    <2> QED
      BY <2>1, SameRaw
  <1>4. /\ Raw(c, r) = Body(cp, sr)
        /\ ss # <<>> => Raw(d, s) = Body(dp, ss)
        /\ ss = <<>> => Len(Raw(d, s)) < 3 + Len(dp)
    BY RawType
  <1> HIDE DEF cp, dp, sr, ss
  <1>5. ss # <<>>
    <2>1. Len(Body(cp, sr)) = 3 + Len(cp) + Len(sr)
      BY <1>1, BodyType
    <2>2. Len(cp) \in Nat /\ Len(sr) \in Nat
      BY <1>1
    <2> QED
      BY <1>2, <1>3, <1>4, <2>1, <2>2
  <1>6. Body(cp, sr) = Body(dp, ss)
    BY <1>3, <1>4, <1>5
  <1> QED
    BY <1>1, <1>2, <1>6, BodiesAlike DEF cp, dp, sr, ss

\* The same of the names of guests, which are digested as a whole.
LEMMA GuestsApart ==
  ASSUME NEW S, NEW c \in Seq(S), NEW d \in Seq(S),
         NEW U, NEW r \in Seq(U), NEW s \in Seq(U),
         Len(sanitize(d)) = Len(sanitize(c)),
         ownedGuestName(d, s) = ownedGuestName(c, r)
  PROVE  sanitize(d) = sanitize(c) /\ sanitize(s) = sanitize(r)
  <1> DEFINE sc == sanitize(c)
             sd == sanitize(d)
             sr == sanitize(r)
             ss == sanitize(s)
  <1>1. /\ sc \in Seq(NameLetter) /\ sd \in Seq(NameLetter)
        /\ sr \in Seq(NameLetter) /\ ss \in Seq(NameLetter)
        /\ Len(sc) = Len(sd)
    BY SanitizeType
  <1>2. sc \o <<"-">> \o sr = sd \o <<"-">> \o ss
    <2>1. /\ ownedGuestName(c, r).digest = sc \o <<"-">> \o sr
          /\ ownedGuestName(d, s).digest = sd \o <<"-">> \o ss
      BY DEF ownedGuestName
    <2> QED
      BY <2>1
  <1> HIDE DEF sc, sd, sr, ss
  <1> QED
    BY <1>1, <1>2, PartsAlike DEF sc, sd, sr, ss
-----------------------------------------------------------------------------
(* The configuration and the pool.                                         *)

LEMMA ConfigWorks ==
  ASSUME NEW c \in config, NEW apiKey \in Text, validateConfig(c)
  PROVE  /\ manager(c, apiKey).store \in {"mock", "none", "truenas"}
         /\ c.mode = "truenas" =>
               /\ Connect(c)
               /\ \A v \in TargetVersion :
                     RuntimeCellOperationallyAdmitted(
                         ResolveRuntimeBackend(
                             normalizeTrueNASBackend(c.truenas.backend), v))
  <1>1. CASE c.mode = "mock"
    BY <1>1 DEF manager
  <1>2. CASE c.mode = "truenas"
    <2>0. c.mode # "mock"
      BY <1>2
    <2>1. /\ c.truenas # None
          /\ ~IsBlank(c.truenas.host) /\ ~IsBlank(c.truenas.username)
          /\ normalizeTrueNASBackend(c.truenas.backend) = "apps"
      BY <2>0, Zenon DEF validateConfig
    <2>2. manager(c, apiKey).store \in {"none", "truenas"}
      BY <1>2, <2>1 DEF manager
    <2>3. ASSUME NEW v \in TargetVersion
          PROVE  ResolveRuntimeBackend("apps", v) = "PASS"
      BY DEF ResolveRuntimeBackend, TargetStatus
    <2> QED
      BY <1>2, <2>1, <2>2, <2>3 DEF Connect, RuntimeCellOperationallyAdmitted
  <1>3. c.mode = "mock" \/ c.mode = "truenas"
    BY Zenon DEF validateConfig
  <1> QED
    BY <1>1, <1>2, <1>3

LEMMA PolicyType ==
  ASSUME NEW c \in config, NEW apiKey, validateConfig(c)
  PROVE  manager(c, apiKey).gateway \in BOOLEAN
  <1>1. CASE c.mode = "mock"
    BY <1>1 DEF manager
  <1>2. CASE c.mode = "truenas"
    <2>1. c.truenas # None /\ c.mode # "mock"
      BY <1>2 DEF validateConfig
    <2>2. c.truenas \in trueNASConfig
      BY <2>1, Zenon DEF config
    <2>3. c.truenas.callback_host_gateway \in BOOLEAN
      BY <2>2, Zenon DEF trueNASConfig
    <2> QED
      BY <1>2, <2>1, <2>3 DEF manager
  <1>3. c.mode = "mock" \/ c.mode = "truenas"
    BY DEF validateConfig
  <1> QED
    BY <1>1, <1>2, <1>3

\* GARM's own bootstrap of a validated pool passes the contract.
LEMMA PoolServes ==
  ASSUME NEW c, NEW p \in pool, ValidatePoolInfo(c, p), ~IsBlank(p.image),
         ~IsBlank(p.flavor), NEW name, TrimSpace(name) # <<>>
  PROVE  validateBootstrapContract(WellFormed(p, name))
  <1> DEFINE b == WellFormed(p, name)
  <1>1. b.flavor = "fixed" /\ b.image = "fixed"
    BY DEF ValidatePoolInfo, WellFormed
  <1>2. validateRunnerToolContract(b.tools)
    <2>1. b.tools = <<"elsewhere", "official">>
      BY DEF WellFormed
    <2>2. 2 \in DOMAIN b.tools /\ b.tools[2] = "official"
      BY <2>1
    <2>3. \A j \in 1..(2 - 1) : b.tools[j] = "elsewhere"
      BY <2>1
    <2> QED
      BY <2>2, <2>3 DEF validateRunnerToolContract
  <1>3. TrimSpace(b.poolID) # <<>>
    <2>1. b.poolID = OnePool
      BY DEF WellFormed
    <2>2. "a" # " " /\ <<"a">> # <<>>
      BY Zenon
    <2>3. TrimSpace(OnePool) = OnePool
      BY <2>2, TrimLetter, Zenon DEF OnePool
    <2>4. OnePool # <<>>
      BY <2>2, Zenon DEF OnePool
    <2> QED
      BY <2>1, <2>3, <2>4
  <1>4. validateCreateExtraSpecs(b.extraspecs)
    BY DEF ValidatePoolInfo, WellFormed, validateCreateExtraSpecs
  <1>5. /\ \A url \in {b.repo, b.callback, b.metadata} : requireHTTPS(url)
        /\ ~IsBlank(b.token) /\ b.jit /\ b.unsupported = {}
        /\ b.os = "linux" /\ b.arch = "amd64" /\ TrimSpace(b.name) # <<>>
    BY DEF WellFormed, requireHTTPS, IsBlank, Blank
  <1> QED
    BY <1>1, <1>2, <1>3, <1>4, <1>5 DEF validateBootstrapContract
-----------------------------------------------------------------------------
(* The checks of a Create.                                                 *)

\* What the payload is written from.
SpecType == [controllerID : Seq(Letter), poolID : Seq(Letter),
             callback : Url, metadata : Url, token : Text]

LEMMA StringsType ==
  ASSUME NEW chars, NEW n \in Nat PROVE Strings(chars, n) \subseteq Seq(chars)
  BY DEF Strings

LEMMA ShortSeq ==
  ASSUME NEW S, NEW x \in S, NEW y \in S
  PROVE  <<>> \in Seq(S) /\ <<x>> \in Seq(S) /\ <<x, y>> \in Seq(S)
  OBVIOUS

\* The literals a well-formed bootstrap has.
LEMMA Literals ==
  /\ <<"a">> \in Seq(Letter) /\ OnePool \in Seq(Letter)
  /\ PoolID \subseteq Seq(Letter)
  /\ "https-dns" \in Url /\ "https-other" \in Url /\ "token" \in Text
  <1>1. "a" \in Letter /\ " " \in Letter
    BY Zenon DEF Letter
  <1>2. /\ <<>> \in Seq(Letter) /\ <<"a">> \in Seq(Letter)
        /\ <<" ">> \in Seq(Letter) /\ <<" ", "a">> \in Seq(Letter)
    BY <1>1, ShortSeq, Zenon
  <1>3. OnePool \in Seq(Letter) /\ PoolID \subseteq Seq(Letter)
    BY <1>2, Zenon DEF OnePool, PoolID
  <1>4. "https-dns" \in Url /\ "https-other" \in Url /\ "token" \in Text
    BY Zenon DEF Url, Text
  <1> QED
    BY <1>2, <1>3, <1>4, Zenon

LEMMA RequestType ==
  ASSUME NEW p \in pool, NEW x \in Requests(p), ControllerLen \in Nat
  PROVE  /\ AppSpec(x[1], x[2]) \in SpecType
         /\ x[1] \in ControllerID /\ x[2].name \in RunnerName
  <1> DEFINE Fine(b) == /\ b.name \in RunnerName /\ b.poolID \in Seq(Letter) /\ b.callback \in Url
                        /\ b.metadata \in Url /\ b.token \in Text
  <1>1. ASSUME NEW name \in RunnerName PROVE Fine(WellFormed(p, name))
    BY Literals DEF WellFormed
  <1>2. ASSUME NEW b \in Variants(WellFormed(p, <<"a">>)) PROVE Fine(b)
    <2> DEFINE w == WellFormed(p, <<"a">>)
    <2>1. Fine(w)
      BY <1>1, BoundsAssumption
    <2>2. w = [os |-> w.os, arch |-> w.arch, flavor |-> w.flavor,
               image |-> w.image, tools |-> w.tools, jit |-> w.jit,
               name |-> w.name, poolID |-> w.poolID, repo |-> w.repo,
               callback |-> w.callback, metadata |-> w.metadata,
               token |-> w.token, unsupported |-> w.unsupported,
               extraspecs |-> w.extraspecs]
      BY DEF WellFormed
    <2> HIDE DEF w
    <2>3. ASSUME NEW z
          PROVE  /\ Fine([w EXCEPT !.os = z]) /\ Fine([w EXCEPT !.jit = z])
                 /\ Fine([w EXCEPT !.flavor = z]) /\ Fine([w EXCEPT !.image = z])
                 /\ Fine([w EXCEPT !.arch = z]) /\ Fine([w EXCEPT !.tools = z])
                 /\ Fine([w EXCEPT !.repo = z])
                 /\ Fine([w EXCEPT !.unsupported = z])
                 /\ Fine([w EXCEPT !.extraspecs = z])
      BY <2>1, <2>2
    <2>4. /\ \A id \in PoolID : Fine([w EXCEPT !.poolID = id])
          /\ \A t \in Text : Fine([w EXCEPT !.token = t])
          /\ \A u \in Url \X Url :
                Fine([w EXCEPT !.callback = u[1], !.metadata = u[2]])
      BY <2>1, <2>2, Literals
    <2>5. b \in Variants(w)
      BY DEF w
    <2> HIDE DEF Fine
    <2>6. /\ \A v \in {[w EXCEPT !.os = "windows"], [w EXCEPT !.jit = FALSE],
                      [w EXCEPT !.flavor = "other"],
                      [w EXCEPT !.image = "other"]} : Fine(v)
          /\ \A v \in {[w EXCEPT !.arch = a] : a \in {"arm64", "x64"}} : Fine(v)
          /\ \A v \in {[w EXCEPT !.tools = t] :
                         t \in {<<>>} \cup [1..2 -> Tool]} : Fine(v)
          /\ \A v \in {[w EXCEPT !.repo = u] : u \in Url} : Fine(v)
      BY <2>3, Zenon
    <2>7. \A v \in {[w EXCEPT !.callback = u[1], !.metadata = u[2]] :
                       u \in Url \X Url} : Fine(v)
      BY <2>4
    <2>8. /\ \A v \in {[w EXCEPT !.poolID = id] : id \in PoolID} : Fine(v)
          /\ \A v \in {[w EXCEPT !.token = t] : t \in Text} : Fine(v)
          /\ \A v \in {[w EXCEPT !.unsupported = {z}] :
                   z \in {"ssh-keys", "ca-bundle", "proxy", "user-data"}} : Fine(v)
          /\ \A v \in {[w EXCEPT !.extraspecs = e] : e \in ExtraSpecs} : Fine(v)
      BY <2>3, <2>4, Zenon
    <2> QED
      BY <2>5, <2>6, <2>7, <2>8 DEF Variants
  <1>3. x[1] \in Seq(Letter) /\ x[1] \in ControllerID /\ Fine(x[2])
    <2>1. CASE x \in {<<<<"a">>, b>> : b \in Variants(WellFormed(p, <<"a">>))}
      <3>1. PICK b \in Variants(WellFormed(p, <<"a">>)) : x = <<<<"a">>, b>>
        BY <2>1
      <3>2. x[1] = <<"a">> /\ x[2] = b
        BY <3>1
      <3> QED
        BY <1>2, <3>2, Literals, BoundsAssumption
    <2>2. CASE x \in ControllerID \X {WellFormed(p, n) : n \in RunnerName}
      <3>1. ControllerID \subseteq Seq(Letter)
        <4>1. Character \subseteq Letter
          BY Zenon DEF Letter
        <4>2. Seq(Character) \subseteq Seq(Letter)
          BY <4>1, SeqMonotonic, Zenon
        <4> QED
          BY <4>2, StringsType DEF ControllerID
      <3> QED
        BY <1>1, <2>2, <3>1
    <2> QED
      BY <2>1, <2>2 DEF Requests
  <1> QED
    BY <1>3 DEF AppSpec, SpecType
\* What composeConfig and applyCallbackHostGateway write is no None.
LEMMA PayloadWritten ==
  ASSUME NEW spec \in SpecType
  PROVE  /\ composeConfig(spec) \in Written
         /\ \A entry \in Url :
               applyCallbackHostGateway(composeConfig(spec), entry) \in Written
  <1> DEFINE c == composeConfig(spec)
  <1>1. <<"fixed">> \in Seq(Letter) /\ <<"true">> \in Seq(Letter)
    BY ShortSeq, Zenon DEF Letter
  <1>2. "fixed" \in Url \cup Text \cup {"fixed"}
    BY Zenon
  <1>3. /\ c.readable \in BOOLEAN /\ c.toplevel \in {{}} /\ c.services \in Nat
        /\ c.key \in [Key -> {"fixed"}]
        /\ c.extra_hosts \in Url \cup {None}
    BY DEF composeConfig
  <1>4. c.labels \in [RequiredLabel -> Seq(Letter)]
    BY <1>1 DEF composeConfig, SpecType
  <1>5. c.environment \in [requiredEnvironment -> Url \cup Text \cup {"fixed"}]
    BY <1>2 DEF composeConfig, SpecType
  <1>6. c = [readable |-> c.readable, toplevel |-> c.toplevel,
             services |-> c.services, key |-> c.key, labels |-> c.labels, environment |-> c.environment,
             extra_hosts |-> c.extra_hosts]
    BY DEF composeConfig
  <1> HIDE DEF c
  <1>7. c \in Written
    BY <1>3, <1>4, <1>5, <1>6 DEF Written
  <1>8. ASSUME NEW entry \in Url
        PROVE  applyCallbackHostGateway(c, entry) \in Written
    <2> DEFINE labels == [x \in DOMAIN c.labels \cup {"callback-host-gateway"} |->
                            IF x = "callback-host-gateway" THEN <<"true">>
                            ELSE c.labels[x]]
    <2>1. labels \in [AllowedLabel -> Seq(Letter)]
      BY <1>1, <1>4 DEF AllowedLabel
    <2>2. applyCallbackHostGateway(c, entry)
            = [c EXCEPT !.labels = labels, !.extra_hosts = entry]
      BY <1>6 DEF applyCallbackHostGateway, WithLabel
    <2> HIDE DEF labels
    <2> QED
      BY <1>3, <1>5, <1>6, <2>1, <2>2 DEF Written
  <1> QED
    BY <1>7, <1>8 DEF c

LEMMA HTTPS ==
  ASSUME NEW url, requireHTTPS(url)
  PROVE  url \in Url /\ ~IsBlank(url)
  BY Zenon DEF requireHTTPS, Url, IsBlank, Blank

\* ContractIsEnough, of one Create.
LEMMA InnerChecks ==
  ASSUME NEW p \in pool, NEW x \in Requests(p), ControllerLen \in Nat
  PROVE  /\ Refusal(x[1], x[2]) = "manager" => sanitize(x[2].name) = <<>>
         /\ Refusal(x[1], x[2]) = "gateway" =>
               /\ backend.gateway
               /\ \/ x[2].callback # x[2].metadata
                  \/ x[2].callback \in {"https-ip", "https-port"}
  <1> DEFINE c == x[1]
             b == x[2]
             spec == AppSpec(c, b)
  <1>1. spec \in SpecType
    BY RequestType
  <1>2. spec.callback = b.callback /\ spec.metadata = b.metadata
    BY DEF AppSpec
  <1>3. ASSUME validateBootstrapContract(b)
        PROVE  /\ TrimSpace(b.name) # <<>> /\ TrimSpace(b.poolID) # <<>>
               /\ b.os = "linux" /\ b.arch \in {"amd64", "x64", "x86_64"}
               /\ b.flavor = "fixed" /\ ~IsBlank(b.token)
               /\ requireHTTPS(b.callback) /\ ~IsBlank(b.callback)
               /\ requireHTTPS(b.metadata) /\ ~IsBlank(b.metadata)
    BY <1>3, HTTPS DEF validateBootstrapContract
  <1>4. ASSUME Payload(spec, backend.gateway) = None
        PROVE  /\ backend.gateway
               /\ callbackHostGatewayEntry(b.callback, b.metadata) = None
    <2>1. CASE ~backend.gateway
      BY <1>1, <1>4, <2>1, PayloadWritten, NoneAssumption DEF Payload
    <2>2. CASE /\ backend.gateway
               /\ callbackHostGatewayEntry(b.callback, b.metadata) # None
      <3>1. callbackHostGatewayEntry(b.callback, b.metadata) \in Url
        BY <2>2, Literals DEF callbackHostGatewayEntry
      <3> QED
        BY <1>1, <1>2, <1>4, <2>2, <3>1, PayloadWritten, NoneAssumption
           DEF Payload
    <2> QED
      BY <2>1, <2>2
  <1> HIDE DEF spec
  <1>5. Refusal(c, b) = "manager" => sanitize(b.name) = <<>>
    BY <1>3 DEF Refusal, validateBootstrap
  <1>6. ASSUME Refusal(c, b) = "gateway"
        PROVE  /\ backend.gateway
               /\ \/ b.callback # b.metadata
                  \/ b.callback \in {"https-ip", "https-port"}
    <2>1. validateBootstrapContract(b) /\ Payload(spec, backend.gateway) = None
      BY <1>6 DEF Refusal, spec
    <2>2. callbackHostGatewayEntry(b.callback, b.metadata) = None
      BY <2>1, <1>4
    <2>3. b.callback \notin {"https-dns", "https-other"} \/ b.callback # b.metadata
      BY <2>2, Literals, NoneAssumption DEF callbackHostGatewayEntry
    <2> QED
      BY <1>3, <1>4, <2>1, <2>3 DEF requireHTTPS
  <1> QED
    BY <1>5, <1>6
-----------------------------------------------------------------------------
(* What the store reads back is what it writes.                            *)

\* A payload, written or edited, field by field; and two of its maps.
IsMap(f) == f = [x \in DOMAIN f |-> f[x]]
Fields(readable, toplevel, services, key, labels, environment, extra_hosts) ==
    [readable |-> readable, toplevel |-> toplevel, services |-> services,
     key |-> key, labels |-> labels, environment |-> environment,
     extra_hosts |-> extra_hosts]
Document(p) ==
    /\ p = Fields(p.readable, p.toplevel, p.services, p.key, p.labels,
                  p.environment, p.extra_hosts)
    /\ p.readable \in BOOLEAN
    /\ IsMap(p.key) /\ IsMap(p.labels) /\ IsMap(p.environment)

LEMMA SetField ==
  ASSUME NEW p, Document(p), NEW t, NEW v
  PROVE  /\ [p EXCEPT !.toplevel = t, !.labels = v]
               = Fields(p.readable, t, p.services, p.key, v,
                        p.environment, p.extra_hosts)
         /\ [p EXCEPT !.extra_hosts = v]
               = Fields(p.readable, p.toplevel, p.services, p.key, p.labels,
                        p.environment, v)
  <1>1. p = [readable |-> p.readable, toplevel |-> p.toplevel,
             services |-> p.services, key |-> p.key, labels |-> p.labels,
             environment |-> p.environment, extra_hosts |-> p.extra_hosts]
    BY DEF Document, Fields
  <1> DEFINE u == [p EXCEPT !.toplevel = t]
  <1>a. u = [readable |-> p.readable, toplevel |-> t,
             services |-> p.services, key |-> p.key, labels |-> p.labels,
             environment |-> p.environment, extra_hosts |-> p.extra_hosts]
    BY <1>1
  <1>b. [p EXCEPT !.toplevel = t, !.labels = v] = [u EXCEPT !.labels = v]
    OBVIOUS
  <1> HIDE DEF u
  <1>2. [p EXCEPT !.toplevel = t, !.labels = v]
               = [readable |-> p.readable, toplevel |-> t,
                  services |-> p.services, key |-> p.key, labels |-> v,
                  environment |-> p.environment, extra_hosts |-> p.extra_hosts]
    BY <1>a, <1>b
  <1>3. [p EXCEPT !.extra_hosts = v]
               = [readable |-> p.readable, toplevel |-> p.toplevel,
                  services |-> p.services, key |-> p.key, labels |-> p.labels,
                  environment |-> p.environment, extra_hosts |-> v]
    BY <1>1
  <1> QED
    BY <1>2, <1>3 DEF Fields

\* What Create writes, and any edit of it, is a document.
LEMMA WithoutIsMap == ASSUME NEW f, NEW x PROVE IsMap(Without(f, x))
  BY DEF IsMap, Without

LEMMA WithIsMap == ASSUME NEW f, NEW x, NEW v PROVE IsMap(With(f, x, v))
  <1>1. DOMAIN With(f, x, v) = DOMAIN f \cup {x}
    BY DEF With
  <1>2. \A y \in DOMAIN f \cup {x} :
           With(f, x, v)[y] = IF y = x THEN v ELSE f[y]
    BY DEF With
  <1> QED
    BY <1>1, <1>2 DEF IsMap, With

LEMMA EditsAreMaps ==
  ASSUME NEW f, NEW names, NEW unknown, NEW values,
         NEW g \in Edits(f, names, unknown, values)
  PROVE  IsMap(g)
  BY WithIsMap, WithoutIsMap DEF Edits

LEMMA EditedDocument ==
  ASSUME NEW p, Document(p), NEW q \in Edited(p)
  PROVE  Document(q)
  <1>1. /\ \A r \in BOOLEAN : Document([p EXCEPT !.readable = r])
        /\ \A n : Document([p EXCEPT !.services = n])
        /\ \A t : Document([p EXCEPT !.toplevel = t])
        /\ \A h : Document([p EXCEPT !.extra_hosts = h])
    BY DEF Document, Fields
  <1>2. ASSUME NEW f, IsMap(f)
        PROVE  /\ Document([p EXCEPT !.key = f])
               /\ Document([p EXCEPT !.labels = f])
               /\ Document([p EXCEPT !.environment = f])
    BY <1>2 DEF Document, Fields
  <1> HIDE DEF Document
  <1> DEFINE All(S) == \A d \in S : Document(d)
  <1>3. All({[p EXCEPT !.readable = FALSE], [p EXCEPT !.services = 2],
             [p EXCEPT !.toplevel = {"networks"}]})
    <2>1. /\ Document([p EXCEPT !.readable = FALSE])
          /\ Document([p EXCEPT !.services = 2])
          /\ Document([p EXCEPT !.toplevel = {"networks"}])
      BY <1>1, Zenon
    <2> QED
      BY <2>1, Zenon
  <1>4. All({[p EXCEPT !.extra_hosts = h] :
               h \in {None, "https-dns", "https-other"}})
    BY <1>1, Zenon
  <1>5. All({[p EXCEPT !.key = f] :
               f \in Edits(p.key, Key, "volumes", {"edited"})})
    BY <1>2, EditsAreMaps, Zenon
  <1>6. All({[p EXCEPT !.labels = f] :
               f \in Edits(p.labels, AllowedLabel, "unexpected", LabelEdit)})
    BY <1>2, EditsAreMaps, Zenon
  <1>7. All({[p EXCEPT !.environment = f] :
               f \in Edits(p.environment, requiredEnvironment, "UNEXPECTED",
                           VariableEdit)})
    BY <1>2, EditsAreMaps, Zenon
  <1> QED
    BY <1>3, <1>4, <1>5, <1>6, <1>7, Zenon DEF Edited

LEMMA WrittenDocument ==
  ASSUME NEW spec, NEW enabled, Payload(spec, enabled) # None
  PROVE  Document(Payload(spec, enabled))
  <1> DEFINE c == composeConfig(spec)
  <1>1. Document(c)
    BY DEF composeConfig, Document, Fields, IsMap
  <1>2. ASSUME NEW entry PROVE Document(applyCallbackHostGateway(c, entry))
    <2> DEFINE labels == [x \in DOMAIN c.labels \cup {"callback-host-gateway"} |->
                            IF x = "callback-host-gateway" THEN <<"true">>
                            ELSE c.labels[x]]
    <2> HIDE DEF c
    <2>1. applyCallbackHostGateway(c, entry)
            = [[c EXCEPT !.labels = labels] EXCEPT !.extra_hosts = entry]
      BY DEF applyCallbackHostGateway, WithLabel
    <2>2. IsMap(labels)
      BY DEF IsMap
    <2> HIDE DEF labels
    <2>3. Document([c EXCEPT !.labels = labels])
      BY <1>1, <2>2 DEF Document, Fields
    <2>4. ASSUME NEW w, Document(w)
          PROVE  Document([w EXCEPT !.extra_hosts = entry])
      BY <2>4 DEF Document, Fields
    <2> QED
      BY <2>1, <2>3, <2>4
  <1> QED
    BY <1>1, <1>2 DEF Payload

LEMMA FixedTrims ==
  /\ TrimSpace(<<"fixed">>) = <<"fixed">> /\ TrimSpace(<<"true">>) = <<"true">>
  /\ <<"fixed">> # <<>> /\ <<"true">> # <<>>
  <1>1. "fixed" # " " /\ "true" # " "
    BY Zenon
  <1> QED
    BY <1>1, TrimLetter, Zenon

LEMMA ReadsBack ==
  ASSUME NEW p, Document(p), NEW policy \in BOOLEAN, Accepts(p, policy)
  PROVE  [p EXCEPT !.toplevel = {},
                   !.labels = [l \in DOMAIN @ |-> TrimSpace(@[l])]]
            = Payload(Shown(p), policy)
  <1> DEFINE trimmed == [l \in DOMAIN p.labels |-> TrimSpace(p.labels[l])]
             d == Shown(p)
             c == composeConfig(d)
             gateway == "callback-host-gateway"
  <1>1. /\ p.readable /\ p.services = 1
        /\ Label(p, "managed") = <<"fixed">> /\ Label(p, "schema") = <<"fixed">>
        /\ TrimSpace(Label(p, "profile")) = <<"fixed">>
        /\ TrimSpace(Label(p, "controller-id")) # <<>>
        /\ TrimSpace(Label(p, "pool-id")) # <<>>
        /\ validateFixedRunnerService(p)
        /\ validateCallbackHostGatewayAppConfig(p, policy)
    BY DEF Accepts, decodeApp
  <1>2. p.readable = TRUE
    BY <1>1 DEF Document
  <1>3. p.key = [k \in Key |-> "fixed"]
    BY <1>1 DEF Document, IsMap, validateFixedRunnerService
  <1>4. p.environment = c.environment
    <2>1. /\ DOMAIN p.environment = requiredEnvironment
          /\ \A e \in ToolEnv : p.environment[e] = "fixed"
      BY <1>1 DEF validateFixedRunnerService, EnvironmentFixed
    <2>2. \A e \in requiredEnvironment : p.environment[e] = c.environment[e]
      BY <2>1 DEF composeConfig, Shown, Decoded, requiredEnvironment,
                  BootstrapEnv, ToolEnv
    <2>3. c.environment = [e \in requiredEnvironment |-> c.environment[e]]
      BY DEF composeConfig
    <2>4. p.environment = [e \in DOMAIN p.environment |-> p.environment[e]]
      BY DEF Document, IsMap
    <2> HIDE DEF c
    <2> QED
      BY <2>1, <2>2, <2>3, <2>4
  <1>5. RequiredLabel \subseteq DOMAIN p.labels
    BY <1>1, FixedTrims, TrimEmpty DEF Label, RequiredLabel
  <1>6. /\ DOMAIN p.labels \subseteq RequiredLabel \cup {gateway}
        /\ p.extra_hosts # None <=> gateway \in DOMAIN p.labels
    BY <1>1 DEF validateFixedRunnerService, AllowedLabel
  <1>7. \A l \in RequiredLabel : trimmed[l] = c.labels[l]
    BY <1>1, <1>5, FixedTrims DEF Label, RequiredLabel, composeConfig, Shown, Decoded
  <1>8. c.labels = [l \in RequiredLabel |-> c.labels[l]]
    BY DEF composeConfig
  <1> DEFINE q == [p EXCEPT !.toplevel = {}, !.labels = trimmed]
  <1>9. q = Fields(p.readable, {}, p.services, p.key, trimmed, p.environment,
                   p.extra_hosts)
    BY SetField
  <1>10. c = Fields(p.readable, {}, p.services, p.key, c.labels,
                    p.environment, None)
    <2>1. c = Fields(TRUE, {}, 1, [k \in Key |-> "fixed"], c.labels,
                     c.environment, None)
      BY DEF composeConfig, Fields
    <2> HIDE DEF c
    <2> QED
      BY <1>1, <1>2, <1>3, <1>4, <2>1, Zenon
  <1>11. CASE ~policy
    <2>1. gateway \notin DOMAIN p.labels /\ p.extra_hosts = None
      BY <1>1, <1>11 DEF validateCallbackHostGatewayAppConfig
    <2>2. DOMAIN p.labels = RequiredLabel
      BY <1>5, <1>6, <2>1
    <2>3. trimmed = c.labels
      BY <1>7, <1>8, <2>2
    <2>4. q = c
      BY <1>9, <1>10, <2>1, <2>3
    <2> QED
      BY <1>11, <2>4 DEF Payload
  <1>12. CASE policy
    <2> DEFINE entry == callbackHostGatewayEntry(d.callback, d.metadata)
    <2>1. /\ Label(p, gateway) = <<"true">>
          /\ entry # None /\ p.extra_hosts = entry
      BY <1>1, <1>12 DEF validateCallbackHostGatewayAppConfig, Shown, Decoded
    <2>2. DOMAIN p.labels = RequiredLabel \cup {gateway}
      BY <1>5, <1>6, <2>1, FixedTrims DEF Label
    <2>3. trimmed[gateway] = <<"true">> /\ gateway \notin RequiredLabel
      BY <2>1, <2>2, FixedTrims DEF Label, RequiredLabel
    <2>4. trimmed = [x \in RequiredLabel \cup {gateway} |->
                       IF x = gateway THEN <<"true">> ELSE c.labels[x]]
      BY <1>7, <2>2, <2>3
    <2>5. DOMAIN c.labels = RequiredLabel
      BY DEF composeConfig
    <2>6. q = applyCallbackHostGateway(c, entry)
      <3> HIDE DEF trimmed, c, q
      <3>1. WithLabel(c, gateway, <<"true">>) = [c EXCEPT !.labels = trimmed]
        BY <2>4, <2>5 DEF WithLabel
      <3>2. applyCallbackHostGateway(c, entry)
              = [[c EXCEPT !.labels = trimmed] EXCEPT !.extra_hosts = entry]
        BY <3>1 DEF applyCallbackHostGateway
      <3> DEFINE w == [c EXCEPT !.labels = trimmed]
      <3>3. w = Fields(p.readable, {}, p.services, p.key, trimmed,
                       p.environment, None)
        BY <1>10 DEF Fields
      <3> HIDE DEF w
      <3>4. [w EXCEPT !.extra_hosts = entry]
              = Fields(p.readable, {}, p.services, p.key, trimmed,
                       p.environment, entry)
        BY <3>3 DEF Fields
      <3> QED
        BY <1>9, <2>1, <3>2, <3>4, Zenon DEF w
    <2> QED
      BY <1>12, <2>1, <2>6 DEF Payload
  <1> QED
    BY <1>11, <1>12

\* What is written for an identity and a pool is accepted, and decoded as that
\* of the two without the blanks around them.
LEMMA WritesReadably ==
  ASSUME NEW spec, NEW enabled \in BOOLEAN, Payload(spec, enabled) # None,
         TrimSpace(spec.controllerID) # <<>>, TrimSpace(spec.poolID) # <<>>,
         ~IsBlank(spec.callback), ~IsBlank(spec.metadata), ~IsBlank(spec.token)
  PROVE  /\ Accepts(Payload(spec, enabled), enabled)
         /\ Decoded(Payload(spec, enabled)).controllerID
               = TrimSpace(spec.controllerID)
         /\ Decoded(Payload(spec, enabled)).poolID = TrimSpace(spec.poolID)
  <1> DEFINE p == Payload(spec, enabled)
             c == composeConfig(spec)
             entry == callbackHostGatewayEntry(spec.callback, spec.metadata)
             gateway == "callback-host-gateway"
             labels == [x \in DOMAIN c.labels \cup {gateway} |->
                          IF x = gateway THEN <<"true">> ELSE c.labels[x]]
  <1>1. /\ c.readable = TRUE /\ c.services = 1 /\ c.key = [k \in Key |-> "fixed"]
        /\ DOMAIN c.labels = RequiredLabel /\ c.extra_hosts = None
        /\ DOMAIN c.environment = requiredEnvironment
    BY DEF composeConfig
  <1>2. /\ c.labels["managed"] = <<"fixed">> /\ c.labels["schema"] = <<"fixed">>
        /\ c.labels["profile"] = <<"fixed">>
        /\ c.labels["controller-id"] = spec.controllerID
        /\ c.labels["pool-id"] = spec.poolID
    BY DEF composeConfig, RequiredLabel
  <1>3. /\ c.environment["GARM_CALLBACK_URL"] = spec.callback
        /\ c.environment["GARM_METADATA_URL"] = spec.metadata
        /\ c.environment["GARM_INSTANCE_TOKEN"] = spec.token
        /\ \A e \in ToolEnv : c.environment[e] = "fixed"
    BY DEF composeConfig, requiredEnvironment, BootstrapEnv, ToolEnv
  <1>4. EnvironmentFixed(c.environment)
    BY <1>1, <1>3 DEF EnvironmentFixed, BootstrapEnv
  <1>5. gateway \notin RequiredLabel /\ AllowedLabel = RequiredLabel \cup {gateway}
    BY DEF RequiredLabel, AllowedLabel
  \* Only these fields differ with the policy.
  <1>6. /\ p.readable = TRUE /\ p.services = 1 /\ p.key = c.key
        /\ p.environment = c.environment
        /\ IF enabled THEN /\ p.labels = labels /\ p.extra_hosts = entry
                           /\ entry # None
           ELSE p.labels = c.labels /\ p.extra_hosts = None
    <2>1. CASE ~enabled
      BY <1>1, <2>1 DEF Payload
    <2>2. CASE enabled
      <3>1. entry # None /\ p = applyCallbackHostGateway(c, entry)
        BY <2>2 DEF Payload
      <3>2. applyCallbackHostGateway(c, entry)
              = [[c EXCEPT !.labels = labels] EXCEPT !.extra_hosts = entry]
        BY DEF applyCallbackHostGateway, WithLabel
      <3>3. c = [readable |-> c.readable, toplevel |-> c.toplevel,
                 services |-> c.services, key |-> c.key, labels |-> c.labels,
                 environment |-> c.environment, extra_hosts |-> c.extra_hosts]
        BY DEF composeConfig
      <3> HIDE DEF c, p, entry, labels
      <3> QED
        BY <1>1, <2>2, <3>1, <3>2, <3>3
    <2> QED
      BY <2>1, <2>2
  <1> HIDE DEF c, p, entry
  <1>7. /\ DOMAIN p.labels \subseteq AllowedLabel
        /\ \A l \in RequiredLabel : Label(p, l) = c.labels[l]
        /\ gateway \in DOMAIN p.labels <=> enabled
        /\ Label(p, gateway) = IF enabled THEN <<"true">> ELSE <<>>
    BY <1>1, <1>5, <1>6 DEF Label
  <1>8. {"managed", "schema", "profile", "controller-id", "pool-id"} = RequiredLabel
    BY DEF RequiredLabel
  <1>9. /\ Label(p, "managed") = <<"fixed">> /\ Label(p, "schema") = <<"fixed">>
        /\ Label(p, "profile") = <<"fixed">>
        /\ Label(p, "controller-id") = spec.controllerID
        /\ Label(p, "pool-id") = spec.poolID
    BY <1>2, <1>7, <1>8
  <1>10. validateFixedRunnerService(p)
    BY <1>1, <1>4, <1>6, <1>7 DEF validateFixedRunnerService
  <1>11. decodeApp(p) = "fixed"
    BY <1>6, <1>9, <1>10, FixedTrims DEF decodeApp
  <1>12. validateCallbackHostGatewayAppConfig(p, enabled)
    BY <1>3, <1>6, <1>7 DEF validateCallbackHostGatewayAppConfig, entry
  <1>13. Accepts(p, enabled)
    BY <1>11, <1>12 DEF Accepts
  <1>14. /\ Decoded(p).controllerID = TrimSpace(spec.controllerID)
         /\ Decoded(p).poolID = TrimSpace(spec.poolID)
    BY <1>9 DEF Decoded
  <1> QED
    BY <1>13, <1>14 DEF p
\* ContractIsEnough, of the last check: only blanks make it fail.
LEMMA ReadBackChecks ==
  ASSUME NEW c, NEW b, backend.gateway \in BOOLEAN,
         Refusal(c, b) = "readback"
  PROVE  TrimSpace(c) # c \/ TrimSpace(b.poolID) # b.poolID
  <1> DEFINE spec == AppSpec(c, b)
             payload == Payload(spec, backend.gateway)
  <1>1. /\ TrimSpace(c) # <<>> /\ validateBootstrapContract(b)
        /\ payload # None
        /\ ~verifyOwnership(payload, backend.gateway, c, b.poolID)
    BY DEF Refusal
  <1>2. /\ TrimSpace(b.poolID) # <<>> /\ ~IsBlank(b.token)
        /\ ~IsBlank(b.callback) /\ ~IsBlank(b.metadata)
    BY <1>1, HTTPS DEF validateBootstrapContract
  <1>3. /\ spec.controllerID = c /\ spec.poolID = b.poolID
        /\ spec.callback = b.callback /\ spec.metadata = b.metadata
        /\ spec.token = b.token
    BY DEF AppSpec
  <1> HIDE DEF spec
  <1>4. /\ Accepts(payload, backend.gateway)
        /\ Decoded(payload).controllerID = TrimSpace(c)
        /\ Decoded(payload).poolID = TrimSpace(b.poolID)
    BY <1>1, <1>2, <1>3, WritesReadably
  <1> QED
    BY <1>1, <1>4 DEF verifyOwnership
-----------------------------------------------------------------------------
(* The command.                                                            *)

\* A Create is only made for a pool that ValidatePoolInfo has accepted.
Pooled == stage = "pooled" =>
              valid \in pool /\ \E c : ValidatePoolInfo(c, valid)

\* The payload on the host has the fields that the store writes, whatever
\* they have been edited to.
Documented == Made /\ app.payload # None => Document(app.payload)

\* An app that nobody has edited is what CreateApp wrote for a Create that
\* passed the checks.
Fresh ==
    /\ edits \in Nat
    /\ Made /\ edits = 0 =>
          /\ TrimSpace(by) # <<>> /\ validateBootstrapContract(boot)
          /\ app.payload # None =>
                app.payload = Payload(AppSpec(by, boot), backend.gateway)

\* The gateway policy is one that a configuration can have.
Policed == Made \/ stage \in {"loaded", "pooled"} => backend.gateway \in BOOLEAN

\* What is created, edited or not, keeps the name of an identity that the
\* checks of the inner layers have found letters and digits in.
Named ==
    Made =>
        /\ by \in ControllerID /\ boot.name \in RunnerName
        /\ sanitize(by) # <<>> /\ sanitize(boot.name) # <<>>
        /\ app = [name |-> ownedName(by, boot.name), payload |-> app.payload]

IInv == /\ Pooled /\ Documented /\ Fresh /\ Policed /\ Named
        /\ AcceptedConfigWorks /\ ContractIsEnough /\ ValidatedPoolIsServed

LEMMA InitInv == Init => IInv
  BY DEF Init, IInv, Pooled, Documented, Fresh, Policed, Named, Made, AcceptedConfigWorks,
         ContractIsEnough, ValidatedPoolIsServed

LEMMA LoadKeeps ==
  ASSUME IInv, NEW c \in config, NEW apiKey \in Text, Load(c, apiKey)
  PROVE  IInv'
  <1>1. CASE loadConfig(c) /\ validateConfig(c)
    <2>1. /\ stage' = "loaded" /\ backend' = manager(c, apiKey) /\ cfg' = c
          /\ edits' = edits
      BY <1>1 DEF Load
    <2>3. Policed'
      BY <1>1, <2>1, PolicyType DEF Policed
    <2>2. AcceptedConfigWorks'
      BY <1>1, <2>1, ConfigWorks DEF AcceptedConfigWorks
    <2> QED
      BY <2>1, <2>2, <2>3 DEF IInv, Pooled, Documented, Fresh, Named, Made,
                             ContractIsEnough, ValidatedPoolIsServed
  <1>2. CASE ~(loadConfig(c) /\ validateConfig(c))
    <2>1. stage' = "refused" /\ edits' = edits
      BY <1>2 DEF Load
    <2> QED
      BY <2>1 DEF IInv, Pooled, Documented, Fresh, Policed, Named, Made, AcceptedConfigWorks,
                  ContractIsEnough, ValidatedPoolIsServed
  <1> QED
    BY <1>1, <1>2

LEMMA ValidateKeeps ==
  ASSUME IInv, stage = "loaded", NEW c, NEW p \in pool, ValidatePool(c, p)
  PROVE  IInv'
  <1>1. /\ valid' = p /\ backend' = backend /\ edits' = edits
        /\ stage' = IF ValidatePoolInfo(c, p) THEN "pooled" ELSE "refused"
    BY DEF ValidatePool
  <1>2. Pooled'
    BY <1>1 DEF Pooled
  <1> QED
    BY <1>1, <1>2 DEF IInv, Documented, Fresh, Policed, Named, Made, AcceptedConfigWorks,
                      ContractIsEnough, ValidatedPoolIsServed

LEMMA CreateKeeps ==
  ASSUME IInv, stage = "pooled", NEW x \in Requests(valid),
         CreateInstance(x[1], x[2])
  PROVE  IInv'
  <1> DEFINE refusal == Refusal(x[1], x[2])
             payload == IF backend.store = "mock" THEN None
                        ELSE Payload(AppSpec(x[1], x[2]), backend.gateway)
  <1>1. /\ by' = x[1] /\ boot' = x[2] /\ valid' = valid
        /\ backend' = backend /\ edits' = edits
        /\ stage' = IF refusal = "none" THEN "created" ELSE refusal
        /\ refusal \in {"none", "readback"} =>
              app' = [name |-> ownedName(x[1], x[2].name), payload |-> payload]
    BY DEF CreateInstance
  <1>2. refusal \in {"front end", "contract", "key", "controller", "manager",
                    "gateway", "readback", "none"}
    BY DEF Refusal
  <1>3. valid \in pool /\ \E c : ValidatePoolInfo(c, valid)
    BY DEF IInv, Pooled
  <1>4. ContractIsEnough'
    <2>1. /\ refusal = "manager" => sanitize(x[2].name) = <<>>
          /\ refusal = "gateway" =>
                /\ backend.gateway
                /\ \/ x[2].callback # x[2].metadata
                   \/ x[2].callback \in {"https-ip", "https-port"}
      BY <1>3, BoundsAssumption, InnerChecks
    <2>2. refusal = "readback" => \/ TrimSpace(x[1]) # x[1]
                                  \/ TrimSpace(x[2].poolID) # x[2].poolID
      BY ReadBackChecks DEF IInv, Policed
    <2> HIDE DEF refusal
    <2> QED
      BY <1>1, <2>1, <2>2 DEF ContractIsEnough
  <1>5. ValidatedPoolIsServed'
    <2> SUFFICES ASSUME refusal = "contract", x[2] = WellFormed(valid, x[2].name),
                        TrimSpace(x[2].name) # <<>>, ~IsBlank(valid.image),
                        ~IsBlank(valid.flavor)
                 PROVE  FALSE
      BY <1>1, <1>2 DEF ValidatedPoolIsServed
    <2>1. ~validateBootstrapContract(x[2])
      BY DEF Refusal
    <2> QED
      BY <1>3, <2>1, PoolServes
  <1>6. Documented'
    <2>1. payload # None => Document(payload)
      BY WrittenDocument
    <2> HIDE DEF refusal, payload
    <2>2. Made' => refusal \in {"none", "readback"}
      BY <1>1, <1>2 DEF Made
    <2>3. refusal \in {"none", "readback"} => app'.payload = payload
      <3>1. \A name, doc : app' = [name |-> name, payload |-> doc] =>
                              app'.payload = doc
        OBVIOUS
      <3> QED
        BY <1>1, <3>1, Zenon
    <2> QED
      BY <2>1, <2>2, <2>3 DEF Documented
  <1>7. Fresh'
    <2>1. refusal \in {"none", "readback"} =>
             TrimSpace(x[1]) # <<>> /\ validateBootstrapContract(x[2])
      BY DEF Refusal
    <2>2. payload # None =>
             payload = Payload(AppSpec(x[1], x[2]), backend.gateway)
      OBVIOUS
    <2> HIDE DEF refusal, payload
    <2>3. Made' => refusal \in {"none", "readback"}
      BY <1>1, <1>2 DEF Made
    <2>4. refusal \in {"none", "readback"} => app'.payload = payload
      <3>1. \A name, doc : app' = [name |-> name, payload |-> doc] =>
                              app'.payload = doc
        OBVIOUS
      <3> QED
        BY <1>1, <3>1, Zenon
    <2> QED
      BY <1>1, <2>1, <2>2, <2>3, <2>4 DEF IInv, Fresh
  <1>8. Named'
    <2>1. refusal \in {"none", "readback"} =>
             sanitize(x[1]) # <<>> /\ sanitize(x[2].name) # <<>>
      BY DEF Refusal, NewManager, validateBootstrap
    <2>2. x[1] \in ControllerID /\ x[2].name \in RunnerName
      BY <1>3, BoundsAssumption, RequestType
    <2> HIDE DEF refusal, payload
    <2>3. Made' => refusal \in {"none", "readback"}
      BY <1>1, <1>2 DEF Made
    <2>4. \A name, doc : [name |-> name, payload |-> doc].payload = doc
      OBVIOUS
    <2> QED
      BY <1>1, <2>1, <2>2, <2>3, <2>4 DEF Named
  <1> HIDE DEF refusal
  <1>9. Pooled' /\ AcceptedConfigWorks' /\ Policed'
    BY <1>1, <1>2 DEF IInv, Pooled, AcceptedConfigWorks, Policed, Made
  <1> QED
    BY <1>4, <1>5, <1>6, <1>7, <1>8, <1>9 DEF IInv

LEMMA EditKeeps ==
  ASSUME IInv, EditPayload
  PROVE  IInv'
  <1>1. PICK p \in Edited(app.payload) : app' = [app EXCEPT !.payload = p]
    BY DEF EditPayload
  <1>2. /\ Made /\ app.payload # None
        /\ UNCHANGED <<stage, valid, backend, by, boot>>
        /\ edits' = edits + 1
    BY DEF EditPayload
  <1>3. Document(p)
    BY <1>1, <1>2, EditedDocument DEF IInv, Documented
  <1>4. app'.payload = p \/ app'.payload = app.payload
    BY <1>1
  <1>5. edits \in Nat /\ edits' \in Nat /\ edits' # 0
    BY <1>2 DEF IInv, Fresh
  <1>6. Named'
    <2>1. app = [name |-> ownedName(by, boot.name), payload |-> app.payload]
      BY <1>2 DEF IInv, Named
    <2> DEFINE name == ownedName(by, boot.name)
    <2> HIDE DEF name
    <2>2. app' = [name |-> name, payload |-> p] /\ app'.payload = p
      BY <1>1, <2>1 DEF name
    <2> QED
      BY <1>2, <2>2 DEF IInv, Named, name
  <1> QED
    BY <1>2, <1>3, <1>4, <1>5, <1>6
       DEF IInv, Pooled, Documented, Fresh, Policed, Named, Made, AcceptedConfigWorks,
           ContractIsEnough, ValidatedPoolIsServed

LEMMA Inductive == IInv /\ [Next]_vars => IInv'
  <1> SUFFICES ASSUME IInv, [Next]_vars PROVE IInv'
    OBVIOUS
  <1>1. CASE \E c \in config, apiKey \in Text : Load(c, apiKey)
    BY <1>1, LoadKeeps
  <1>2. CASE stage = "loaded" /\ \E c \in {cfg, None}, p \in pool :
                                  ValidatePool(c, p)
    BY <1>2, ValidateKeeps
  <1>3. CASE /\ stage = "pooled"
             /\ \E x \in Requests(valid) : CreateInstance(x[1], x[2])
    BY <1>3, CreateKeeps
  <1>4. CASE EditPayload
    BY <1>4, EditKeeps
  <1>5. CASE UNCHANGED vars
    BY <1>5 DEF vars, IInv, Pooled, Documented, Fresh, Policed, Named, Made, AcceptedConfigWorks,
                ContractIsEnough, ValidatedPoolIsServed
  <1> QED
    BY <1>1, <1>2, <1>3, <1>4, <1>5 DEF Next

LEMMA Always == Spec => []IInv
  BY InitInv, Inductive, PTL DEF Spec

\* A configuration that validateConfig lets through can be acted on, for
\* every set of targeted versions.
THEOREM ActsOnItsConfig == Spec => []AcceptedConfigWorks
  <1>1. IInv => AcceptedConfigWorks
    BY DEF IInv
  <1> QED
    BY <1>1, Always, PTL

\* What the front end's contract lets through no inner check refuses but for
\* what only the inner layers know, for all identities and their lengths.
THEOREM ContractSuffices == Spec => []ContractIsEnough
  <1>1. IInv => ContractIsEnough
    BY DEF IInv
  <1> QED
    BY <1>1, Always, PTL

\* What ValidatePoolInfo accepts, with image and flavor spelled out, no
\* Create is refused for.
THEOREM ServesItsPools == Spec => []ValidatedPoolIsServed
  <1>1. IInv => ValidatedPoolIsServed
    BY DEF IInv
  <1> QED
    BY <1>1, Always, PTL

\* However often a payload is edited, what the store accepts of it has the one
\* service that CreateApp writes, but for blanks around its labels.
THEOREM AcceptsOnlyFixed == Spec => []AcceptedServiceIsFixed
  <1>1. IInv => AcceptedServiceIsFixed
    BY ReadsBack DEF IInv, Documented, AcceptedServiceIsFixed
  <1> QED
    BY <1>1, Always, PTL

\* What an identity and a pool create, under any policy and over any alphabet,
\* is read back as that of the two without the blanks around them.
THEOREM ReadsBackItsOwn == Spec => []ReadsItsOwn
  <1>1. ASSUME IInv PROVE ReadsItsOwn
    <2> SUFFICES ASSUME Made, edits = 0, app.payload # None
                 PROVE  /\ Accepts(app.payload, backend.gateway)
                        /\ Decoded(app.payload).controllerID = TrimSpace(by)
                        /\ Decoded(app.payload).poolID = TrimSpace(boot.poolID)
      BY DEF ReadsItsOwn
    <2> DEFINE spec == AppSpec(by, boot)
    <2>1. /\ TrimSpace(by) # <<>> /\ validateBootstrapContract(boot)
          /\ app.payload = Payload(spec, backend.gateway)
          /\ backend.gateway \in BOOLEAN
      BY <1>1 DEF IInv, Fresh, Policed
    <2>2. /\ TrimSpace(boot.poolID) # <<>> /\ ~IsBlank(boot.token)
          /\ ~IsBlank(boot.callback) /\ ~IsBlank(boot.metadata)
      BY <2>1, HTTPS DEF validateBootstrapContract
    <2>3. /\ spec.controllerID = by /\ spec.poolID = boot.poolID
          /\ spec.callback = boot.callback /\ spec.metadata = boot.metadata
          /\ spec.token = boot.token
      BY DEF AppSpec
    <2> HIDE DEF spec
    <2> QED
      BY <2>1, <2>2, <2>3, WritesReadably
  <1> QED
    BY <1>1, Always, PTL

\* What identity a Create is made for, however long, and however the payload
\* is edited later: the app's name fits and passes the filter of the listing.
THEOREM NeverOutOfSight == Spec => []FindsItsOwn
  <1>1. ASSUME IInv, Made
        PROVE  /\ Length(app.name) <= NameMax
               /\ Last(app.name.text) # "-" \/ app.name.digest # <<>>
               /\ plausibleManagedAppName(app.name)
    <2>1. /\ by \in ControllerID /\ boot.name \in RunnerName
          /\ sanitize(by) # <<>> /\ sanitize(boot.name) # <<>>
          /\ app.name = ownedName(by, boot.name)
      BY <1>1 DEF IInv, Named
    <2>2. by \in Seq(Character) /\ boot.name \in Seq(RunnerCharacter)
      BY <2>1, BoundsAssumption, StringsType DEF ControllerID, RunnerName
    <2> QED
      BY <2>1, <2>2, Findable
  <1> QED
    BY <1>1, Always, PTL DEF FindsItsOwn

\* Whatever the characters and however long the identities: two names are the
\* same only for controllers of different lengths, or alike as far as the
\* name shows them, and for what sanitize makes of the runner names; digests
\* are taken to differ whenever what is digested does.
THEOREM TellsApart == Spec => []NamesApart
  <1>1. ASSUME IInv PROVE NamesApart
    <2> SUFFICES ASSUME Made PROVE NamesApart
      BY DEF NamesApart
    <2>1. /\ by \in ControllerID /\ boot.name \in RunnerName
          /\ sanitize(by) # <<>> /\ sanitize(boot.name) # <<>>
      BY <1>1 DEF IInv, Named
    <2>2. ControllerID \subseteq Seq(Character)
          /\ RunnerName \subseteq Seq(RunnerCharacter)
      BY BoundsAssumption, StringsType DEF ControllerID, RunnerName
    <2>3. ASSUME NEW d \in ControllerID, NEW s \in RunnerName,
                 Len(sanitize(d)) = Len(sanitize(by))
          PROVE  /\ AppName[d][s] = AppName[by][boot.name] =>
                       /\ ControllerPart(d) = ControllerPart(by)
                       /\ sanitize(s) = sanitize(boot.name)
                 /\ GuestName[d][s] = GuestName[by][boot.name] =>
                       /\ sanitize(d) = sanitize(by)
                       /\ sanitize(s) = sanitize(boot.name)
      <3>1. /\ AppName[d][s] = ownedName(d, s)
            /\ AppName[by][boot.name] = ownedName(by, boot.name)
            /\ GuestName[d][s] = ownedGuestName(d, s)
            /\ GuestName[by][boot.name] = ownedGuestName(by, boot.name)
        BY <2>1 DEF AppName, GuestName
      <3>2. /\ d \in Seq(Character) /\ by \in Seq(Character)
            /\ s \in Seq(RunnerCharacter) /\ boot.name \in Seq(RunnerCharacter)
        BY <2>1, <2>2
      <3> QED
        BY <2>1, <2>3, <3>1, <3>2, AppsApart, GuestsApart
    <2> QED
      BY <2>1, <2>3 DEF NamesApart
  <1> QED
    BY <1>1, Always, PTL
=============================================================================
