--------------------------- MODULE FileOps_proofs ---------------------------
(***************************************************************************)
(* Proofs about FileOps, for all stores, setups, command lines, page sizes *)
(* and bounds: rm removes what it names and all of it, cp copies every     *)
(* file whole and to its place, and the plan of a sync spares its source.  *)
(*                                                                         *)
(* All of it rests on what Paths makes of paths of any length: first the   *)
(* lemmas about those, then the invariant of all commands, then an         *)
(* invariant for each.                                                     *)
(***************************************************************************)
EXTENDS FileOps, FiniteSetTheorems, NatSets_proofs

-----------------------------------------------------------------------------
(* Words and paths.                                                         *)

\* Sequences of pieces: the paths and keys, and what is left of them.
Word == Seq(Piece)

\* A path of names only: what Clean returns.
Proper(path) == IsPath(path) /\ ~BeginsWithSlash(path) /\ ~EndsInSlash(path)

\* One word begins with another when it has its pieces.
LEMMA PrefixIs ==
  ASSUME NEW k \in Word, NEW p \in Word
  PROVE  HasPrefix(k, p) <=> Len(p) <= Len(k) /\ \A i \in 1..Len(p) : k[i] = p[i]
  BY DEF HasPrefix, IsPrefix, Word

\* The slash is a piece of a word, and a word by itself.
LEMMA SlashIs == Slash \in Piece /\ <<Slash>> \in Word /\ << >> \in Word
  BY FileOpsAssumption DEF Word, Piece

\* A path with a slash behind it.
LEMMA AppendIs ==
  ASSUME NEW p \in Word
  PROVE  /\ Append(p, Slash) \in Word /\ Len(Append(p, Slash)) = Len(p) + 1 /\ Len(p) \in Nat
         /\ Append(p, Slash)[Len(p) + 1] = Slash
         /\ \A i \in 1..Len(p) : Append(p, Slash)[i] = p[i]
  BY SlashIs DEF Word

\* ... is inside another when a slash comes next.
LEMMA InsideIs ==
  ASSUME NEW k \in Word, NEW p \in Word
  PROVE  Inside(k, p) <=> \/ p = << >>
                          \/ /\ Len(p) < Len(k) /\ k[Len(p) + 1] = Slash
                             /\ \A i \in 1..Len(p) : k[i] = p[i]
<1> DEFINE q == Append(p, Slash)
<1>1. /\ q \in Word /\ Len(q) = Len(p) + 1 /\ Len(p) \in Nat /\ Len(k) \in Nat
      /\ q[Len(p) + 1] = Slash /\ \A i \in 1..Len(p) : q[i] = p[i]
  BY AppendIs DEF Word
<1> HIDE DEF q
<1>2. HasPrefix(k, q) <=> Len(q) <= Len(k) /\ \A i \in 1..Len(q) : k[i] = q[i]
  BY <1>1, PrefixIs
<1>3. ASSUME Len(p) < Len(k), k[Len(p) + 1] = Slash, \A i \in 1..Len(p) : k[i] = p[i]
      PROVE  HasPrefix(k, q)
  BY <1>1, <1>2, <1>3
<1>4. ASSUME HasPrefix(k, q)
      PROVE  Len(p) < Len(k) /\ k[Len(p) + 1] = Slash /\ \A i \in 1..Len(p) : k[i] = p[i]
  BY <1>1, <1>2, <1>4
<1> QED
  BY <1>3, <1>4 DEF q, Inside

\* Where a slash is.
LEMMA SlashAt ==
  ASSUME NEW p \in Word
  PROVE  /\ BeginsWithSlash(p) <=> p # << >> /\ p[1] = Slash
         /\ EndsInSlash(p) <=> p # << >> /\ p[Len(p)] = Slash
<1>1. HasPrefix(p, <<Slash>>) <=> 1 <= Len(p) /\ p[1] = Slash
  <2> DEFINE q == <<Slash>>
  <2>1. q \in Word /\ Len(q) = 1 /\ q[1] = Slash
    BY SlashIs
  <2> HIDE DEF q
  <2>2. HasPrefix(p, q) <=> Len(q) <= Len(p) /\ \A i \in 1..Len(q) : p[i] = q[i]
    BY <2>1, PrefixIs
  <2>3. HasPrefix(p, q) <=> 1 <= Len(p) /\ p[1] = Slash
    BY <2>1, <2>2
  <2> QED
    BY <2>3 DEF q
<1> QED
  BY <1>1 DEF BeginsWithSlash, EndsInSlash, Last, Word

\* What is left without a prefix.
LEMMA TrimIs ==
  ASSUME NEW k \in Word, NEW p \in Word
  PROVE  /\ TrimPrefix(k, p) \in Word
         /\ HasPrefix(k, p) => /\ Len(TrimPrefix(k, p)) = Len(k) - Len(p)
                               /\ \A i \in 1..Len(k) - Len(p) :
                                     TrimPrefix(k, p)[i] = k[Len(p) + i]
<1>1. CASE ~HasPrefix(k, p)
  BY <1>1 DEF TrimPrefix
<1>2. CASE HasPrefix(k, p)
  <2>1. Len(p) <= Len(k) /\ Len(p) \in Nat /\ Len(k) \in Nat
    BY <1>2, PrefixIs DEF Word
  <2>2. TrimPrefix(k, p) = SubSeq(k, Len(p) + 1, Len(k))
    BY <1>2 DEF TrimPrefix
  <2> QED
    BY <2>1, <2>2 DEF Word
<1> QED
  BY <1>1, <1>2

\* A path below another.
LEMMA JoinIs ==
  ASSUME NEW d \in Word, NEW p \in Word
  PROVE  /\ Join(d, p) \in Word
         /\ d # << >> /\ p # << >> =>
              /\ Len(Join(d, p)) = Len(d) + 1 + Len(p)
              /\ \A i \in 1..Len(d) : Join(d, p)[i] = d[i]
              /\ Join(d, p)[Len(d) + 1] = Slash
              /\ \A i \in 1..Len(p) : Join(d, p)[Len(d) + 1 + i] = p[i]
         /\ d = << >> => Join(d, p) = p
         /\ p = << >> => Join(d, p) = d
<1>1. CASE d # << >> /\ p # << >>
  <2>1. Join(d, p) = d \o <<Slash>> \o p
    BY <1>1 DEF Join
  <2> DEFINE e == d \o <<Slash>>
  <2>2. e \in Word /\ Len(e) = Len(d) + 1 /\ e[Len(d) + 1] = Slash /\ \A i \in 1..Len(d) : e[i] = d[i]
    BY SlashIs DEF Word
  <2>3. Len(d) \in Nat /\ Len(p) \in Nat
    BY DEF Word
  <2> HIDE DEF e
  <2>4. e \o p \in Word /\ Len(e \o p) = Len(e) + Len(p)
        /\ (\A i \in 1..Len(e) : (e \o p)[i] = e[i])
        /\ \A i \in 1..Len(p) : (e \o p)[Len(e) + i] = p[i]
    BY <2>2, <2>3 DEF Word
  <2>5. Join(d, p) = e \o p
    BY <2>1 DEF e
  <2> QED
    BY <1>1, <2>2, <2>3, <2>4, <2>5
<1>2. CASE d = << >> \/ p = << >>
  BY <1>2 DEF Join
<1> QED
  BY <1>1, <1>2

\* Clean takes a slash from either end, and what it leaves of a path is proper.
LEMMA CleanIs ==
  ASSUME NEW w, IsPath(w)
  PROVE  /\ Proper(Clean(w))
         /\ ~BeginsWithSlash(w) /\ ~EndsInSlash(w) => Clean(w) = w
         /\ ~BeginsWithSlash(w) /\ EndsInSlash(w) =>
               /\ Clean(w) # << >> /\ Len(w) = Len(Clean(w)) + 1
               /\ \A i \in 1..Len(Clean(w)) : w[i] = Clean(w)[i]
<1> DEFINE r == TrimPrefix(w, <<Slash>>)
           c == IF EndsInSlash(r) THEN Front(r) ELSE r
<1>1. w \in Word /\ Len(w) \in Nat /\ \A i \in 2..Len(w) : ~(w[i - 1] = Slash /\ w[i] = Slash)
  BY DEF IsPath, Word
<1>2. /\ r \in Word /\ Len(r) \in Nat
      /\ ~BeginsWithSlash(w) => r = w
      /\ BeginsWithSlash(w) => Len(r) = Len(w) - 1 /\ \A i \in 1..Len(w) - 1 : r[i] = w[1 + i]
  <2>1. Len(<<Slash>>) = 1
    OBVIOUS
  <2>2. BeginsWithSlash(w) <=> HasPrefix(w, <<Slash>>)
    BY DEF BeginsWithSlash
  <2>3. ~BeginsWithSlash(w) => r = w
    BY <2>2 DEF TrimPrefix
  <2>4. /\ r \in Word
        /\ HasPrefix(w, <<Slash>>) => /\ Len(r) = Len(w) - Len(<<Slash>>)
                                      /\ \A i \in 1..Len(w) - Len(<<Slash>>) : r[i] = w[Len(<<Slash>>) + i]
    BY <1>1, SlashIs, TrimIs
  <2>5. r \in Word /\ Len(r) \in Nat
    BY <2>4 DEF Word
  <2> QED
    BY <2>1, <2>2, <2>3, <2>4, <2>5
<1> HIDE DEF r
<1>3. IsPath(r) /\ ~BeginsWithSlash(r)
  <2>1. \A i \in 2..Len(r) : ~(r[i - 1] = Slash /\ r[i] = Slash)
    BY <1>1, <1>2
  <2>2. r = << >> \/ r[1] # Slash
    <3>1. BeginsWithSlash(w) <=> w # << >> /\ w[1] = Slash
      BY <1>1, SlashAt
    <3>2. CASE ~BeginsWithSlash(w)
      BY <1>2, <3>1, <3>2
    <3>3. CASE BeginsWithSlash(w) /\ r # << >>
      <4>1. Len(r) >= 1
        BY <1>2, <3>3 DEF Word
      <4>2. 2 \in 2..Len(w) /\ r[1] = w[2]
        BY <1>1, <1>2, <3>3, <4>1
      <4>3. w[2 - 1] = Slash => w[2] # Slash
        BY <1>1, <4>2
      <4> QED
        BY <3>1, <3>3, <4>2, <4>3
    <3> QED
      BY <3>2, <3>3
  <2> QED
    BY <1>2, <2>1, <2>2, SlashAt DEF IsPath, Word
<1>4. EndsInSlash(r) => /\ Front(r) \in Word /\ Len(Front(r)) = Len(r) - 1 /\ Len(r) > 1
                        /\ \A i \in 1..Len(r) - 1 : Front(r)[i] = r[i]
  <2> SUFFICES ASSUME EndsInSlash(r)
               PROVE  /\ Front(r) \in Word /\ Len(Front(r)) = Len(r) - 1 /\ Len(r) > 1
                      /\ \A i \in 1..Len(r) - 1 : Front(r)[i] = r[i]
    OBVIOUS
  <2>1. r # << >> /\ r[Len(r)] = Slash /\ r[1] # Slash
    BY <1>2, <1>3, SlashAt
  <2>2. Len(r) > 1
    BY <1>2, <2>1 DEF Word
  <2> QED
    BY <1>2, <2>2 DEF Front, Word
<1>5. c \in Word /\ Proper(c)
  <2>1. CASE ~EndsInSlash(r)
    BY <1>2, <1>3, <2>1 DEF Proper
  <2>2. CASE EndsInSlash(r)
    <3>1. c = Front(r) /\ r[Len(r)] = Slash /\ r[1] # Slash
      BY <1>2, <1>3, <2>2, SlashAt
    <3>2. r[Len(r) - 1] # Slash
      BY <1>2, <1>3, <1>4, <2>2, <3>1 DEF IsPath
    <3>3. c # << >> /\ c[1] # Slash /\ c[Len(c)] # Slash
      BY <1>2, <1>4, <2>2, <3>1, <3>2
    <3>4. IsPath(c)
      <4>1. c \in Word /\ Len(c) = Len(r) - 1 /\ Len(r) \in Nat
            /\ \A i \in 1..Len(r) - 1 : c[i] = r[i]
        BY <1>2, <1>4, <2>2, <3>1
      <4>2. \A i \in 2..Len(r) : ~(r[i - 1] = Slash /\ r[i] = Slash)
        BY <1>3 DEF IsPath
      <4>3. ASSUME NEW i \in 2..Len(c)
            PROVE  ~(c[i - 1] = Slash /\ c[i] = Slash)
        <5>1. i \in 2..Len(r) /\ i \in 1..Len(r) - 1 /\ i - 1 \in 1..Len(r) - 1
          BY <4>1
        <5> QED
          BY <4>1, <4>2, <5>1
      <4> QED
        BY <4>1, <4>3 DEF IsPath, Word
    <3> QED
      BY <1>4, <2>2, <3>1, <3>3, <3>4, SlashAt DEF Proper
  <2> QED
    BY <2>1, <2>2
<1>6. Clean(w) = c
  BY DEF Clean, r
<1>7. ASSUME ~BeginsWithSlash(w), ~EndsInSlash(w)
      PROVE  c = w
  BY <1>2, <1>7
<1>8. ASSUME ~BeginsWithSlash(w), EndsInSlash(w)
      PROVE  c # << >> /\ Len(w) = Len(c) + 1 /\ \A i \in 1..Len(c) : w[i] = c[i]
  <2>1. r = w /\ c = Front(r)
    BY <1>2, <1>8
  <2>2. Len(c) = Len(r) - 1 /\ Len(r) > 1 /\ \A i \in 1..Len(r) - 1 : c[i] = r[i]
    BY <1>4, <1>8, <2>1
  <2>3. c # << >>
    BY <2>2
  <2> QED
    BY <1>2, <2>1, <2>2, <2>3
<1> HIDE DEF c
<1> QED
  BY <1>5, <1>6, <1>7, <1>8

\* What Clean returns can be cleaned, joined and cut.
LEMMA CleanProper == ASSUME NEW p, Proper(p) PROVE Clean(p) = p
  BY CleanIs DEF Proper

\* A proper path neither begins nor ends with a slash.
LEMMA ProperIs ==
  ASSUME NEW p
  PROVE  Proper(p) <=> IsPath(p) /\ (p = << >> \/ (p[1] # Slash /\ p[Len(p)] # Slash))
<1>1. IsPath(p) => p \in Word
  BY DEF IsPath, Word
<1> QED
  BY <1>1, SlashAt DEF Proper

\* Proper paths are joined to a proper one.
LEMMA JoinProper ==
  ASSUME NEW d, NEW p, Proper(d), Proper(p)
  PROVE  Proper(Join(d, p))
<1>1. d \in Word /\ p \in Word /\ Len(d) \in Nat /\ Len(p) \in Nat
  BY DEF Proper, IsPath, Word
<1>2. CASE d = << >> \/ p = << >>
  BY <1>1, <1>2, JoinIs
<1>3. CASE d # << >> /\ p # << >>
  <2> DEFINE j == Join(d, p)
  <2>1. /\ j \in Word /\ Len(j) = Len(d) + 1 + Len(p)
        /\ \A i \in 1..Len(d) : j[i] = d[i]
        /\ j[Len(d) + 1] = Slash
        /\ \A i \in 1..Len(p) : j[Len(d) + 1 + i] = p[i]
    BY <1>1, <1>3, JoinIs
  <2> HIDE DEF j
  <2>2. Len(d) > 0 /\ Len(p) > 0
    BY <1>1, <1>3 DEF Word
  <2>3. d[1] # Slash /\ d[Len(d)] # Slash /\ p[1] # Slash /\ p[Len(p)] # Slash
    BY <1>3, ProperIs
  <2>4. j # << >> /\ j[1] # Slash /\ j[Len(j)] # Slash
    BY <1>1, <2>1, <2>2, <2>3 DEF Word
  <2>5. ASSUME NEW i \in 2..Len(j), j[i - 1] = Slash, j[i] = Slash
        PROVE  FALSE
    <3>1. CASE i <= Len(d)
      <4>1. d[i - 1] = j[i - 1] /\ d[i] = j[i]
        BY <1>1, <2>1, <3>1
      <4> QED
        BY <1>1, <2>5, <3>1, <4>1 DEF Proper, IsPath
    <3>2. CASE i = Len(d) + 1
      <4>1. j[i - 1] = d[Len(d)]
        BY <1>1, <2>1, <2>2, <3>2
      <4> QED
        BY <2>3, <2>5, <4>1
    <3>3. CASE i = Len(d) + 2
      <4>1. j[i] = p[1]
        BY <1>1, <2>1, <2>2, <3>3
      <4> QED
        BY <2>3, <2>5, <4>1
    <3>4. CASE i > Len(d) + 2
      <4>1. i - Len(d) - 1 \in 2..Len(p)
        BY <1>1, <2>1, <3>4
      <4>2. \A n \in 1..Len(p) : j[Len(d) + 1 + n] = p[n]
        BY <2>1
      <4>3. j[i] = p[i - Len(d) - 1] /\ j[i - 1] = p[(i - Len(d) - 1) - 1]
        BY <1>1, <4>1, <4>2
      <4> QED
        BY <2>5, <4>1, <4>3 DEF Proper, IsPath
    <3> QED
      BY <1>1, <2>1, <3>1, <3>2, <3>3, <3>4
  <2>6. IsPath(j)
    BY <2>1, <2>5 DEF IsPath, Word
  <2>7. Proper(j)
    BY <2>4, <2>6, ProperIs
  <2> QED
    BY <2>7 DEF j
<1> QED
  BY <1>2, <1>3

\* Prefixes of words are ordered.
LEMMA PrefixOrder ==
  /\ \A k \in Word : HasPrefix(k, k) /\ HasPrefix(k, << >>)
  /\ \A k, p, q \in Word : HasPrefix(k, p) /\ HasPrefix(p, q) => HasPrefix(k, q)
  /\ \A k, p \in Word : Inside(k, p) => HasPrefix(k, p)
  /\ \A k \in Word : k # << >> => ~Inside(k, k)
  /\ \A k, p, q \in Word : Inside(k, p) /\ HasPrefix(p, q) /\ p # << >> => HasPrefix(k, q)
<1>0. \A k \in Word : Len(k) \in Nat
  BY DEF Word
<1>1. \A k \in Word : HasPrefix(k, k) /\ HasPrefix(k, << >>)
  BY <1>0, PrefixIs, SlashIs
<1>2. ASSUME NEW k \in Word, NEW p \in Word, NEW q \in Word, HasPrefix(k, p), HasPrefix(p, q)
      PROVE  HasPrefix(k, q)
  <2>1. Len(p) <= Len(k) /\ \A i \in 1..Len(p) : k[i] = p[i]
    BY <1>2, PrefixIs
  <2>2. Len(q) <= Len(p) /\ \A i \in 1..Len(q) : p[i] = q[i]
    BY <1>2, PrefixIs
  <2>3. Len(q) <= Len(k) /\ \A i \in 1..Len(q) : k[i] = q[i]
    BY <1>0, <2>1, <2>2
  <2> QED
    BY <2>3, PrefixIs
<1>3. ASSUME NEW k \in Word, NEW p \in Word, Inside(k, p)
      PROVE  HasPrefix(k, p)
  <2>1. CASE p = << >>
    BY <1>1, <2>1
  <2>2. CASE p # << >>
    BY <1>0, <1>3, <2>2, InsideIs, PrefixIs
  <2> QED
    BY <2>1, <2>2
<1>4. ASSUME NEW k \in Word, k # << >>
      PROVE  ~Inside(k, k)
  BY <1>0, <1>4, InsideIs
<1> QED
  BY <1>1, <1>2, <1>3, <1>4

\* The name in a directory of what is inside it.
NameIn(d, k) == IF d = << >> THEN k ELSE TrimPrefix(k, Append(d, Slash))

\* ... is proper, and joined to the directory it is the path.
LEMMA NameIs ==
  ASSUME NEW d \in Word, NEW k, Proper(d), Proper(k), k # << >>, Inside(k, d)
  PROVE  /\ Proper(NameIn(d, k)) /\ NameIn(d, k) # << >>
         /\ Join(d, NameIn(d, k)) = k
<1>1. k \in Word /\ Len(k) \in Nat /\ Len(d) \in Nat
  BY DEF Proper, IsPath, Word
<1>2. CASE d = << >>
  BY <1>1, <1>2, JoinIs DEF NameIn
<1>3. CASE d # << >>
  <2> DEFINE q == Append(d, Slash)
             n == TrimPrefix(k, q)
  <2>1. q \in Word /\ Len(q) = Len(d) + 1 /\ HasPrefix(k, q)
    <3>1. HasPrefix(k, q)
      BY <1>3 DEF Inside
    <3>2. q \in Word /\ Len(q) = Len(d) + 1
      BY AppendIs
    <3> QED
      BY <3>1, <3>2
  <2> HIDE DEF q
  <2>2. /\ n \in Word /\ Len(n) = Len(k) - Len(d) - 1
        /\ \A i \in 1..Len(k) - Len(q) : n[i] = k[Len(q) + i]
    BY <1>1, <2>1, TrimIs
  <2> HIDE DEF n
  <2>3. Len(d) < Len(k) /\ k[Len(d) + 1] = Slash /\ \A i \in 1..Len(d) : k[i] = d[i]
    BY <1>1, <1>3, InsideIs
  <2>4. k[Len(k)] # Slash /\ \A i \in 2..Len(k) : ~(k[i - 1] = Slash /\ k[i] = Slash)
    BY ProperIs DEF IsPath
  <2>5. Len(n) > 0 /\ n # << >>
    <3>1. Len(k) # Len(d) + 1
      BY <1>1, <2>3, <2>4
    <3> QED
      BY <1>1, <2>2, <2>3, <3>1 DEF Word
  <2>6. \A i \in 1..Len(n) : n[i] = k[Len(d) + 1 + i]
    BY <1>1, <2>1, <2>2
  <2>7. n[1] # Slash /\ n[Len(n)] # Slash
    <3>1. n[1] = k[Len(d) + 2] /\ n[Len(n)] = k[Len(k)]
      BY <1>1, <2>2, <2>5, <2>6
    <3>2. Len(d) + 2 \in 2..Len(k) /\ (Len(d) + 2) - 1 = Len(d) + 1
      BY <1>1, <2>2, <2>5
    <3>3. k[(Len(d) + 2) - 1] = Slash => k[Len(d) + 2] # Slash
      BY <2>4, <3>2
    <3> QED
      BY <2>3, <2>4, <3>1, <3>2, <3>3
  <2>8. IsPath(n)
    <3>1. ASSUME NEW i \in 2..Len(n), n[i - 1] = Slash, n[i] = Slash
          PROVE  FALSE
      <4>1. i \in 1..Len(n) /\ i - 1 \in 1..Len(n)
        BY <1>1, <2>2
      <4>2. n[i] = k[Len(d) + 1 + i] /\ n[i - 1] = k[Len(d) + 1 + (i - 1)]
        BY <2>6, <4>1
      <4>3. Len(d) + 1 + i \in 2..Len(k) /\ Len(d) + 1 + (i - 1) = (Len(d) + 1 + i) - 1
        BY <1>1, <2>2, <4>1
      <4> QED
        BY <2>4, <3>1, <4>2, <4>3
    <3> QED
      BY <2>2, <3>1 DEF IsPath, Word
  <2>9. Proper(n)
    BY <2>5, <2>7, <2>8, ProperIs
  <2>10. Join(d, n) = k
    <3> DEFINE j == Join(d, n)
    <3>1. /\ j \in Word /\ Len(j) = Len(d) + 1 + Len(n)
          /\ \A i \in 1..Len(d) : j[i] = d[i]
          /\ j[Len(d) + 1] = Slash
          /\ \A i \in 1..Len(n) : j[Len(d) + 1 + i] = n[i]
      BY <1>3, <2>2, <2>5, JoinIs
    <3> HIDE DEF j
    <3>2. Len(j) = Len(k)
      BY <1>1, <2>2, <3>1
    <3>3. ASSUME NEW i \in 1..Len(k)
          PROVE  j[i] = k[i]
      <4>1. CASE i <= Len(d) + 1
        BY <1>1, <2>3, <3>1, <4>1
      <4>2. CASE i > Len(d) + 1
        <5>1. i - Len(d) - 1 \in 1..Len(n) /\ Len(d) + 1 + (i - Len(d) - 1) = i
          BY <1>1, <2>2, <4>2
        <5>2. j[Len(d) + 1 + (i - Len(d) - 1)] = n[i - Len(d) - 1]
              /\ n[i - Len(d) - 1] = k[Len(d) + 1 + (i - Len(d) - 1)]
          BY <2>6, <3>1, <5>1
        <5> QED
          BY <5>1, <5>2
      <4> QED
        BY <1>1, <4>1, <4>2
    <3>4. j = k
      BY <1>1, <3>1, <3>2, <3>3 DEF Word
    <3> QED
      BY <3>4 DEF j
  <2>11. NameIn(d, k) = n
    BY <1>3 DEF NameIn, n, q
  <2> QED
    BY <2>5, <2>9, <2>10, <2>11
<1> QED
  BY <1>2, <1>3

\* Below a common directory, paths are related as their names in it are.
LEMMA JoinOrder ==
  ASSUME NEW r \in Word, NEW a \in Word, NEW b \in Word
  PROVE  /\ HasPrefix(Join(r, a), Join(r, b)) <=> HasPrefix(a, b)
         /\ a # << >> => (Inside(Join(r, a), Join(r, b)) <=> Inside(a, b))
         /\ a # << >> => Inside(Join(r, a), r)
         /\ Join(r, a) = Join(r, b) <=> a = b
<1>0. Len(r) \in Nat /\ Len(a) \in Nat /\ Len(b) \in Nat
  BY DEF Word
<1>1. CASE r = << >>
  BY <1>1, JoinIs DEF Inside
<1>2. CASE r # << >>
  <2> DEFINE j == Join(r, a)
             k == Join(r, b)
  <2>1. /\ j \in Word /\ k \in Word /\ Len(j) \in Nat /\ Len(k) \in Nat
        /\ a # << >> => /\ Len(j) = Len(r) + 1 + Len(a) /\ j[Len(r) + 1] = Slash
                        /\ \A i \in 1..Len(r) : j[i] = r[i]
                        /\ \A i \in 1..Len(a) : j[Len(r) + 1 + i] = a[i]
        /\ a = << >> => j = r
        /\ b # << >> => /\ Len(k) = Len(r) + 1 + Len(b) /\ k[Len(r) + 1] = Slash
                        /\ \A i \in 1..Len(r) : k[i] = r[i]
                        /\ \A i \in 1..Len(b) : k[Len(r) + 1 + i] = b[i]
        /\ b = << >> => k = r
    <3>1. j \in Word /\ k \in Word
      BY JoinIs
    <3>2. Len(j) \in Nat /\ Len(k) \in Nat
      BY <3>1 DEF Word
    <3> HIDE DEF j, k
    <3> QED
      BY <1>2, <3>1, <3>2, JoinIs DEF j, k
  <2> HIDE DEF j, k
  <2>2. a # << >> => Inside(j, r)
    BY <1>0, <2>1, InsideIs
  <2>3. CASE b = << >>
    <3>1. HasPrefix(j, k) /\ HasPrefix(a, b) /\ Inside(a, b) /\ (j = k <=> a = b)
      <4>1. HasPrefix(j, k)
        BY <2>1, <2>2, <2>3, PrefixOrder
      <4>2. j = k <=> a = b
        <5>1. a # << >> => Len(j) # Len(k)
          BY <1>0, <2>1, <2>3
        <5> QED
          BY <2>1, <2>3, <5>1
      <4> QED
        BY <2>3, <4>1, <4>2, PrefixOrder DEF Inside
    <3> QED
      BY <2>1, <2>2, <2>3, <3>1 DEF j, k
  <2>4. CASE b # << >> /\ a = << >>
    <3>1. Len(b) > 0 /\ Len(a) = 0
      BY <1>0, <2>4 DEF Word
    <3>2. ~HasPrefix(a, b) /\ ~HasPrefix(j, k) /\ j # k
      BY <1>0, <2>1, <2>4, <3>1, PrefixIs
    <3> QED
      BY <2>4, <3>2 DEF j, k
  <2>5. CASE b # << >> /\ a # << >>
    <3>1. ASSUME NEW n \in Nat, n <= Len(a), n <= Len(b)
          PROVE  (\A i \in 1..Len(r) + 1 + n : j[i] = k[i]) <=> (\A i \in 1..n : a[i] = b[i])
      <4>1. ASSUME \A i \in 1..Len(r) + 1 + n : j[i] = k[i], NEW i \in 1..n
            PROVE  a[i] = b[i]
        <5>1. j[Len(r) + 1 + i] = a[i] /\ k[Len(r) + 1 + i] = b[i]
          BY <1>0, <2>1, <2>5, <3>1
        <5>2. Len(r) + 1 + i \in 1..Len(r) + 1 + n
          BY <1>0
        <5> QED
          BY <4>1, <5>1, <5>2
      <4>2. ASSUME \A i \in 1..n : a[i] = b[i], NEW i \in 1..Len(r) + 1 + n
            PROVE  j[i] = k[i]
        <5>1. CASE i <= Len(r) + 1
          BY <1>0, <2>1, <2>5, <5>1
        <5>2. CASE i > Len(r) + 1
          <6>1. PICK m \in 1..n : i = Len(r) + 1 + m
            <7>1. i - Len(r) - 1 \in 1..n /\ i = Len(r) + 1 + (i - Len(r) - 1)
              BY <1>0, <5>2
            <7> QED
              BY <7>1
          <6>2. j[i] = a[m] /\ k[i] = b[m]
            BY <1>0, <2>1, <2>5, <3>1, <6>1
          <6> QED
            BY <4>2, <6>2
        <5> QED
          BY <1>0, <5>1, <5>2
      <4> QED
        BY <4>1, <4>2
    <3>2. HasPrefix(j, k) <=> HasPrefix(a, b)
      <4>1. Len(k) <= Len(j) <=> Len(b) <= Len(a)
        BY <1>0, <2>1, <2>5
      <4>2. CASE Len(b) <= Len(a)
        <5>1. (\A i \in 1..Len(r) + 1 + Len(b) : j[i] = k[i])
                 <=> (\A i \in 1..Len(b) : a[i] = b[i])
          BY <1>0, <3>1, <4>2
        <5>2. (\A i \in 1..Len(k) : j[i] = k[i]) <=> (\A i \in 1..Len(b) : a[i] = b[i])
          BY <2>1, <2>5, <5>1
        <5> QED
          BY <2>1, <4>1, <4>2, <5>2, PrefixIs
      <4>3. CASE ~(Len(b) <= Len(a))
        BY <2>1, <4>1, <4>3, PrefixIs
      <4> QED
        BY <4>2, <4>3
    <3>3. Inside(j, k) <=> Inside(a, b)
      <4>1. k # << >>
        BY <1>0, <2>1, <2>5 DEF Word
      <4>2. Inside(j, k) <=> HasPrefix(j, k) /\ Len(k) < Len(j) /\ j[Len(k) + 1] = Slash
        BY <1>0, <2>1, <4>1, InsideIs, PrefixIs
      <4>3. Inside(a, b) <=> HasPrefix(a, b) /\ Len(b) < Len(a) /\ a[Len(b) + 1] = Slash
        BY <1>0, <2>5, InsideIs, PrefixIs
      <4>4. Len(k) < Len(j) <=> Len(b) < Len(a)
        BY <1>0, <2>1, <2>5
      <4>5. Len(b) < Len(a) => j[Len(k) + 1] = a[Len(b) + 1]
        <5> SUFFICES ASSUME Len(b) < Len(a) PROVE j[Len(k) + 1] = a[Len(b) + 1]
          OBVIOUS
        <5>1. Len(b) + 1 \in 1..Len(a)
          BY <1>0
        <5>2. Len(k) = Len(r) + 1 + Len(b)
          BY <2>1, <2>5
        <5>3. Len(k) + 1 = Len(r) + 1 + (Len(b) + 1)
          BY <1>0, <5>2
        <5>4. j[Len(r) + 1 + (Len(b) + 1)] = a[Len(b) + 1]
          BY <2>1, <2>5, <5>1
        <5> QED
          BY <5>3, <5>4
      <4> QED
        BY <3>2, <4>2, <4>3, <4>4, <4>5
    <3>4. j = k => a = b
      <4>1. j = k => Len(a) = Len(b)
        BY <1>0, <2>1, <2>5
      <4>2. j = k => \A i \in 1..Len(a) : a[i] = b[i]
        BY <1>0, <2>1, <2>5, <3>1, <4>1
      <4> QED
        BY <4>1, <4>2 DEF Word
    <3>5. a = b => j = k
      BY DEF j, k
    <3> QED
      BY <2>2, <2>5, <3>2, <3>3, <3>4, <3>5 DEF j, k
  <2> QED
    BY <2>3, <2>4, <2>5
<1> QED
  BY <1>1, <1>2

\* The last slash of a path.
LEMMA LastSlashIs ==
  ASSUME NEW p \in Word
  PROVE  /\ LastSlash(p) \in 0..Len(p)
         /\ LastSlash(p) # 0 => p[LastSlash(p)] = Slash
         /\ \A i \in 1..Len(p) : i > LastSlash(p) => p[i] # Slash
<1> DEFINE S == {0} \cup {i \in DOMAIN p : p[i] = Slash}
           U == {n \in Nat : \A i \in S : i <= n}
<1>1. Len(p) \in Nat /\ DOMAIN p = 1..Len(p)
  BY DEF Word
<1>2. S \subseteq 0..Len(p) /\ 0 \in S
  BY <1>1
<1>3. U \subseteq Nat /\ Len(p) \in U
  BY <1>1, <1>2
<1>4. PICK m \in U : \A n \in U : m <= n
  BY <1>3, LeastElement
<1>5. m \in S
  <2> SUFFICES ASSUME m \notin S PROVE FALSE
    OBVIOUS
  <2>1. m # 0 /\ m \in Nat /\ m - 1 \in Nat
    BY <1>2, <1>4
  <2>2. \A i \in S : i <= m - 1
    BY <1>2, <1>4, <2>1
  <2> QED
    BY <1>4, <2>1, <2>2
<1>6. \A i \in S : m >= i
  BY <1>2, <1>4
<1>7. LastSlash(p) \in S /\ \A i \in S : LastSlash(p) >= i
  BY <1>5, <1>6 DEF LastSlash, Max
<1> QED
  BY <1>1, <1>2, <1>7

\* A path is its base name in its directory.
LEMMA DirBase ==
  ASSUME NEW p, Proper(p), p # << >>
  PROVE  /\ Proper(Dir(p)) /\ Proper(Base(p)) /\ Base(p) # << >>
         /\ Join(Dir(p), Base(p)) = p
<1> DEFINE l == LastSlash(p)
           d == Dir(p)
           b == Base(p)
<1>1. /\ p \in Word /\ Len(p) \in Nat /\ Len(p) > 0 /\ p[1] # Slash /\ p[Len(p)] # Slash
      /\ \A i \in 2..Len(p) : ~(p[i - 1] = Slash /\ p[i] = Slash)
  BY ProperIs DEF IsPath, Word
<1>2. /\ l \in 0..Len(p) /\ (l # 0 => p[l] = Slash) /\ \A i \in 1..Len(p) : i > l => p[i] # Slash
  BY <1>1, LastSlashIs
<1>3. l < Len(p) /\ l # 1
  BY <1>1, <1>2
<1>4. /\ b \in Word /\ Len(b) = Len(p) - l /\ \A i \in 1..Len(p) - l : b[i] = p[l + i]
  <2>1. b = SubSeq(p, l + 1, Len(p))
    BY DEF Base
  <2> HIDE DEF l, b
  <2> QED
    BY <1>1, <1>2, <1>3, <2>1 DEF Word
<1>5. /\ d \in Word /\ (l = 0 => d = << >>)
      /\ l # 0 => Len(d) = l - 1 /\ \A i \in 1..l - 1 : d[i] = p[i]
  <2>1. d = SubSeq(p, 1, l - 1)
    BY DEF Dir
  <2> HIDE DEF l, d
  <2>2. CASE l = 0
    <3>1. d = << >>
      BY <1>1, <2>1, <2>2 DEF Word
    <3> QED
      BY <2>2, <3>1, SlashIs
  <2>3. CASE l # 0
    BY <1>1, <1>2, <1>3, <2>1, <2>3 DEF Word
  <2> QED
    BY <2>2, <2>3
<1> HIDE DEF l, d, b
<1>6. Proper(b) /\ b # << >>
  <2>1. \A i \in 1..Len(b) : b[i] # Slash
    <3> TAKE i \in 1..Len(b)
    <3>1. l + i \in 1..Len(p) /\ l + i > l /\ b[i] = p[l + i]
      BY <1>1, <1>2, <1>3, <1>4
    <3> QED
      BY <1>2, <3>1
  <2>2. Len(b) > 0 /\ Len(b) \in Nat
    BY <1>1, <1>2, <1>3, <1>4
  <2>3. b # << >> /\ b[1] # Slash /\ b[Len(b)] # Slash /\ \A i \in 2..Len(b) : b[i] # Slash
    BY <2>1, <2>2
  <2> QED
    BY <1>4, <2>3, ProperIs DEF IsPath, Word
<1>7. Proper(d) /\ Join(d, b) = p
  <2>1. CASE l = 0
    <3>1. b = p
      BY <1>1, <1>4, <2>1 DEF Word
    <3>2. IsPath(d)
      BY <1>5, <2>1 DEF IsPath, Word
    <3> QED
      BY <1>4, <1>5, <2>1, <3>1, <3>2, ProperIs, JoinIs
  <2>2. CASE l # 0
    <3>1. Len(d) > 0 /\ Len(d) \in Nat /\ d # << >>
      BY <1>2, <1>3, <1>5, <2>2
    <3>2. Proper(d)
      <4>1. d[1] # Slash
        BY <1>1, <1>5, <2>2, <3>1
      <4>2. d[Len(d)] # Slash
        <5>1. l \in 2..Len(p) /\ d[Len(d)] = p[l - 1]
          BY <1>2, <1>3, <1>5, <2>2, <3>1
        <5> QED
          BY <1>1, <1>2, <2>2, <5>1
      <4>3. \A i \in 2..Len(d) : ~(d[i - 1] = Slash /\ d[i] = Slash)
        BY <1>1, <1>2, <1>3, <1>5, <2>2
      <4> QED
        BY <1>5, <3>1, <4>1, <4>2, <4>3, ProperIs DEF IsPath, Word
    <3>3. Join(d, b) = p
      <4> DEFINE j == Join(d, b)
      <4>1. /\ j \in Word /\ Len(j) = Len(d) + 1 + Len(b)
            /\ \A i \in 1..Len(d) : j[i] = d[i]
            /\ j[Len(d) + 1] = Slash
            /\ \A i \in 1..Len(b) : j[Len(d) + 1 + i] = b[i]
        BY <1>4, <1>5, <1>6, <3>1, JoinIs
      <4> HIDE DEF j
      <4>2. Len(j) = Len(p) /\ Len(d) = l - 1
        <5>1. Len(j) = Len(d) + 1 + Len(b) /\ Len(d) = l - 1 /\ Len(b) = Len(p) - l
          BY <1>4, <1>5, <2>2, <4>1
        <5> QED
          BY <1>1, <1>2, <5>1
      <4>3. ASSUME NEW i \in 1..Len(p)
            PROVE  j[i] = p[i]
        <5>1. CASE i < l
          <6>1. i \in 1..l - 1 /\ i \in 1..Len(d)
            BY <1>1, <1>2, <1>5, <2>2, <5>1
          <6> QED
            BY <1>5, <2>2, <4>1, <6>1
        <5>2. CASE i = l
          BY <1>2, <2>2, <4>1, <4>2, <5>2
        <5>3. CASE i > l
          <6>1. PICK m \in 1..Len(b) : i = l + m
            <7>1. i - l \in 1..Len(b) /\ i = l + (i - l)
              BY <1>1, <1>2, <1>4, <5>3
            <7> QED
              BY <7>1
          <6>2. j[Len(d) + 1 + m] = b[m] /\ b[m] = p[l + m] /\ Len(d) + 1 + m = l + m
            BY <1>1, <1>2, <1>4, <4>1, <4>2
          <6> QED
            BY <6>1, <6>2
        <5> QED
          BY <1>2, <5>1, <5>2, <5>3
      <4>4. j = p
        BY <1>1, <4>1, <4>2, <4>3 DEF Word
      <4> QED
        BY <4>4 DEF j
    <3> QED
      BY <3>2, <3>3
  <2> QED
    BY <2>1, <2>2
<1> QED
  BY <1>6, <1>7 DEF d, b

\* What is left of a path without a prefix is a path; behind a slash there is no other.
LEMMA TrimPath ==
  ASSUME NEW k, IsPath(k), NEW p \in Word
  PROVE  /\ IsPath(TrimPrefix(k, p))
         /\ ~BeginsWithSlash(k) /\ ~(HasPrefix(k, p) /\ p # << >> /\ ~EndsInSlash(p))
               => ~BeginsWithSlash(TrimPrefix(k, p))
         /\ BeginsWithSlash(k) /\ p = <<Slash>> => ~BeginsWithSlash(TrimPrefix(k, p))
         /\ ~EndsInSlash(k) => ~EndsInSlash(TrimPrefix(k, p))
<1> DEFINE t == TrimPrefix(k, p)
<1>1. /\ k \in Word /\ Len(k) \in Nat /\ Len(p) \in Nat
      /\ \A i \in 2..Len(k) : ~(k[i - 1] = Slash /\ k[i] = Slash)
  BY DEF IsPath, Word
<1>2. CASE ~HasPrefix(k, p)
  <2>1. t = k
    BY <1>2 DEF TrimPrefix
  <2>2. p = <<Slash>> => ~BeginsWithSlash(k)
    BY <1>2 DEF BeginsWithSlash
  <2> QED
    BY <2>1, <2>2
<1>3. CASE HasPrefix(k, p)
  <2>1. /\ t \in Word /\ Len(t) = Len(k) - Len(p) /\ Len(t) \in Nat
        /\ \A i \in 1..Len(k) - Len(p) : t[i] = k[Len(p) + i]
    <3>1. t \in Word /\ Len(t) \in Nat
      BY <1>1, TrimIs DEF Word
    <3> QED
      BY <1>1, <1>3, <3>1, TrimIs
  <2>2. Len(p) <= Len(k) /\ \A i \in 1..Len(p) : k[i] = p[i]
    BY <1>1, <1>3, PrefixIs
  <2> HIDE DEF t
  <2>3. IsPath(t)
    <3>1. ASSUME NEW i \in 2..Len(t), t[i - 1] = Slash, t[i] = Slash
          PROVE  FALSE
      <4>1. i \in 1..Len(k) - Len(p) /\ i - 1 \in 1..Len(k) - Len(p)
        BY <1>1, <2>1
      <4>2. t[i] = k[Len(p) + i] /\ t[i - 1] = k[Len(p) + (i - 1)]
        BY <2>1, <4>1
      <4>3. Len(p) + i \in 2..Len(k) /\ Len(p) + (i - 1) = (Len(p) + i) - 1
        BY <1>1, <2>1, <4>1
      <4> QED
        BY <1>1, <3>1, <4>2, <4>3
    <3> QED
      BY <2>1, <3>1 DEF IsPath, Word
  <2>4. ASSUME EndsInSlash(p)
        PROVE  ~BeginsWithSlash(t)
    <3>1. p # << >> /\ p[Len(p)] = Slash
      BY <2>4, SlashAt
    <3>2. Len(p) > 0
      BY <1>1, <3>1 DEF Word
    <3>3. k[Len(p)] = Slash
      BY <1>1, <2>2, <3>1, <3>2
    <3>4. t # << >> => t[1] # Slash
      <4> SUFFICES ASSUME t # << >> PROVE t[1] # Slash
        OBVIOUS
      <4>1. Len(t) > 0
        BY <2>1 DEF Word
      <4>2. t[1] = k[Len(p) + 1] /\ Len(p) + 1 \in 2..Len(k) /\ (Len(p) + 1) - 1 = Len(p)
        BY <1>1, <2>1, <3>2, <4>1
      <4> QED
        BY <1>1, <3>3, <4>2
    <3> QED
      BY <2>1, <3>4, SlashAt
  <2>5. p = << >> => t = k
    <3> SUFFICES ASSUME p = << >> PROVE t = k
      OBVIOUS
    <3>1. Len(p) = 0
      OBVIOUS
    <3> QED
      BY <1>1, <2>1, <3>1 DEF Word
  <2>6. ~EndsInSlash(k) => ~EndsInSlash(t)
    <3> SUFFICES ASSUME EndsInSlash(t) PROVE EndsInSlash(k)
      OBVIOUS
    <3>1. t # << >> /\ t[Len(t)] = Slash
      BY <2>1, SlashAt
    <3>2. Len(t) > 0
      BY <2>1, <3>1 DEF Word
    <3>3. k[Len(k)] = Slash /\ Len(k) > 0
      <4>1. Len(t) \in 1..Len(k) - Len(p) /\ Len(p) + Len(t) = Len(k)
        BY <1>1, <2>1, <3>2
      <4>2. t[Len(t)] = k[Len(p) + Len(t)]
        BY <2>1, <4>1
      <4> QED
        BY <1>1, <3>1, <3>2, <4>1, <4>2
    <3> QED
      BY <1>1, <3>3, SlashAt
  <2>7. p = <<Slash>> => EndsInSlash(p)
    BY SlashIs, SlashAt
  <2> QED
    BY <1>3, <2>3, <2>4, <2>5, <2>6, <2>7 DEF t
<1> QED
  BY <1>2, <1>3

\* Two paths in a row are a path when no two slashes meet.
LEMMA ConcatPath ==
  ASSUME NEW p, NEW q, IsPath(p), IsPath(q), ~(EndsInSlash(p) /\ BeginsWithSlash(q))
  PROVE  /\ IsPath(p \o q)
         /\ p # << >> => (BeginsWithSlash(p \o q) <=> BeginsWithSlash(p))
         /\ q # << >> => (EndsInSlash(p \o q) <=> EndsInSlash(q))
<1> DEFINE w == p \o q
<1>1. /\ p \in Word /\ q \in Word /\ Len(p) \in Nat /\ Len(q) \in Nat
      /\ p # << >> => Len(p) > 0
      /\ q # << >> => Len(q) > 0
  BY DEF IsPath, Word
<1>2. /\ w \in Word /\ Len(w) = Len(p) + Len(q)
      /\ \A i \in 1..Len(p) : w[i] = p[i]
      /\ \A i \in 1..Len(q) : w[Len(p) + i] = q[i]
  BY <1>1 DEF Word
<1> HIDE DEF w
<1>3. ASSUME NEW i \in 2..Len(w), w[i - 1] = Slash, w[i] = Slash
      PROVE  FALSE
  <2>1. CASE i <= Len(p)
    <3>1. p[i - 1] = Slash /\ p[i] = Slash
      BY <1>1, <1>2, <1>3, <2>1
    <3> QED
      BY <1>1, <2>1, <3>1 DEF IsPath
  <2>2. CASE i = Len(p) + 1
    <3>1. Len(p) > 0 /\ Len(q) > 0 /\ w[i] = q[1] /\ w[i - 1] = p[Len(p)]
      BY <1>1, <1>2, <2>2
    <3>2. EndsInSlash(p) /\ BeginsWithSlash(q)
      BY <1>1, <1>3, <3>1, SlashAt
    <3> QED
      BY <3>2
  <2>3. CASE i > Len(p) + 1
    <3>1. PICK m \in 2..Len(q) : i = Len(p) + m
      <4>1. i - Len(p) \in 2..Len(q) /\ i = Len(p) + (i - Len(p))
        BY <1>1, <1>2, <2>3
      <4> QED
        BY <4>1
    <3>2. m - 1 \in 1..Len(q) /\ i - 1 = Len(p) + (m - 1)
      BY <1>1, <3>1
    <3>3. w[i] = q[m] /\ w[i - 1] = q[m - 1]
      BY <1>1, <1>2, <3>1, <3>2
    <3> QED
      BY <1>3, <3>3 DEF IsPath
  <2> QED
    BY <1>1, <1>2, <2>1, <2>2, <2>3
<1>4. IsPath(w)
  BY <1>2, <1>3 DEF IsPath, Word
<1>5. p # << >> => (BeginsWithSlash(w) <=> BeginsWithSlash(p))
  <2> SUFFICES ASSUME p # << >> PROVE BeginsWithSlash(w) <=> BeginsWithSlash(p)
    OBVIOUS
  <2>1. Len(w) > 0 /\ w[1] = p[1] /\ w # << >>
    BY <1>1, <1>2
  <2> QED
    BY <1>1, <1>2, <2>1, SlashAt
<1>6. q # << >> => (EndsInSlash(w) <=> EndsInSlash(q))
  <2> SUFFICES ASSUME q # << >> PROVE EndsInSlash(w) <=> EndsInSlash(q)
    OBVIOUS
  <2>1. Len(w) > 0 /\ w[Len(w)] = q[Len(q)] /\ w # << >>
    BY <1>1, <1>2
  <2> QED
    BY <1>1, <1>2, <2>1, SlashAt
<1> QED
  BY <1>4, <1>5, <1>6 DEF w

\* At a path, or inside it.
At(k, p) == k = p \/ Inside(k, p)

\* Two paths that something lies at or inside of contain one another.
LEMMA Regions ==
  ASSUME NEW k \in Word, NEW p \in Word, NEW q \in Word, At(k, p), At(k, q)
  PROVE  p = q \/ Inside(p, q) \/ Inside(q, p)
<1>0. Len(k) \in Nat /\ Len(p) \in Nat /\ Len(q) \in Nat
  BY DEF Word
<1>1. CASE p = << >> \/ q = << >>
  BY <1>1 DEF Inside
<1>2. CASE p # << >> /\ q # << >>
  <2>1. /\ \A i \in 1..Len(p) : k[i] = p[i]
        /\ Len(p) <= Len(k) /\ (Len(p) < Len(k) => k[Len(p) + 1] = Slash)
    BY <1>0, <1>2, InsideIs DEF At
  <2>2. /\ \A i \in 1..Len(q) : k[i] = q[i]
        /\ Len(q) <= Len(k) /\ (Len(q) < Len(k) => k[Len(q) + 1] = Slash)
    BY <1>0, <1>2, InsideIs DEF At
  <2>3. CASE Len(p) = Len(q)
    BY <1>0, <2>1, <2>2, <2>3 DEF Word
  <2>4. CASE Len(p) < Len(q)
    <3>1. q[Len(p) + 1] = Slash /\ \A i \in 1..Len(p) : q[i] = p[i]
      BY <1>0, <2>1, <2>2, <2>4
    <3> QED
      BY <1>0, <2>4, <3>1, InsideIs
  <2>5. CASE Len(q) < Len(p)
    <3>1. p[Len(q) + 1] = Slash /\ \A i \in 1..Len(q) : p[i] = q[i]
      BY <1>0, <2>1, <2>2, <2>5
    <3> QED
      BY <1>0, <2>5, <3>1, InsideIs
  <2> QED
    BY <1>0, <2>3, <2>4, <2>5
<1> QED
  BY <1>1, <1>2

\* Inside is transitive, also through a path below another.
LEMMA InsideTrans ==
  /\ \A k, p, q \in Word : Inside(k, p) /\ Inside(p, q) => Inside(k, q)
  /\ \A k, p, q \in Word : Inside(k, Join(p, q)) => Inside(k, p)
<1>0. \A k \in Word : Len(k) \in Nat
  BY DEF Word
<1>1. ASSUME NEW k \in Word, NEW p \in Word, NEW q \in Word, Inside(k, p), Inside(p, q)
      PROVE  Inside(k, q)
  <2>1. CASE q = << >>
    BY <2>1 DEF Inside
  <2>2. CASE q # << >>
    <3>1. Len(q) < Len(p) /\ p[Len(q) + 1] = Slash /\ \A i \in 1..Len(q) : p[i] = q[i]
      BY <1>1, <2>2, InsideIs
    <3>2. p # << >>
      BY <1>0, <3>1
    <3>3. Len(p) < Len(k) /\ \A i \in 1..Len(p) : k[i] = p[i]
      BY <1>1, <3>2, InsideIs
    <3>4. Len(q) < Len(k) /\ k[Len(q) + 1] = Slash /\ \A i \in 1..Len(q) : k[i] = q[i]
      BY <1>0, <3>1, <3>3
    <3> QED
      BY <3>4, InsideIs
  <2> QED
    BY <2>1, <2>2
<1>2. ASSUME NEW k \in Word, NEW p \in Word, NEW q \in Word, Inside(k, Join(p, q))
      PROVE  Inside(k, p)
  <2>1. CASE q = << >>
    BY <1>2, <2>1, JoinIs
  <2>2. CASE q # << >>
    <3>1. Inside(Join(p, q), p) /\ Join(p, q) \in Word
      BY <2>2, JoinOrder, JoinIs
    <3> QED
      BY <1>1, <1>2, <3>1
  <2> QED
    BY <2>1, <2>2
<1> QED
  BY <1>1, <1>2

-----------------------------------------------------------------------------
(* Targets, endpoints and listings.                                         *)

\* An endpoint that stands for a target.
Resolved(ep, target) ==
    /\ ep.store = target.store
    /\ Proper(ep.root) /\ IsPath(ep.prefix) /\ ~BeginsWithSlash(ep.prefix)
    /\ IF ep.store = Disk THEN ~EndsInSlash(ep.prefix) ELSE ep.root = << >>
    /\ Join(ep.root, Clean(ep.prefix)) = Named(target)
    /\ ep.isDir <=> ep.prefix = << >> \/ EndsInSlash(ep.prefix)

\* What objects hold.
Contents == [of : Word, size : Sizes, kept : Sizes]

\* Keys as SetupsAssumption has them.
GoodKey(s, k) == /\ IsPath(k) /\ k # << >> /\ ~BeginsWithSlash(k)
                 /\ s \in Tree => ~EndsInSlash(k)

\* The stores: good keys, and in a tree no file in a file.
StoresOK ==
    /\ DOMAIN objects = Store
    /\ \A s \in Store : \A k \in Keys(s) :
          /\ GoodKey(s, k) /\ objects[s][k] \in Contents
          /\ s \in Tree => \A j \in Keys(s) : ~Inside(j, k)

\* ParseTarget's targets.
Targeted(t) == /\ t.store \in Store /\ IsPath(t.path)
               /\ t.store # Disk => ~BeginsWithSlash(t.path)

\* The empty path is proper: Clean leaves it alone.
LEMMA EmptyIs == Proper(<< >>) /\ Clean(<< >>) = << >>
<1>1. << >> \in Word /\ Len(<< >>) = 0
  BY SlashIs
<1>2. IsPath(<< >>)
  BY <1>1 DEF IsPath, Word
<1>3. Proper(<< >>)
  BY <1>2, ProperIs
<1> QED
  BY <1>3, CleanProper

\* What InBucket leaves of a path.
LEMMA InBucketIs ==
  ASSUME NEW p, IsPath(p), ~BeginsWithSlash(p)
  PROVE  IsPath(InBucket(p)) /\ ~BeginsWithSlash(InBucket(p))
<1> DEFINE q == <<Bucket, Slash>>
<1>1. q \in Word /\ Len(q) = 2 /\ q[2] = Slash
  BY FileOpsAssumption DEF Word, Piece
<1>2. q # << >> /\ EndsInSlash(q)
  BY <1>1, SlashAt
<1>3. IsPath(TrimPrefix(p, q)) /\ ~BeginsWithSlash(TrimPrefix(p, q))
  BY <1>1, <1>2, TrimPath
<1> QED
  BY <1>3, EmptyIs DEF InBucket, Proper

\* ResolveTarget names what the target names.
LEMMA ResolveIs ==
  ASSUME NEW t, Targeted(t), StoresOK, NEW isDest, NEW mustBeDir, Resolve(t, isDest, mustBeDir).ok
  PROVE  Resolved(Resolve(t, isDest, mustBeDir), t)
<1> DEFINE ep == Resolve(t, isDest, mustBeDir)
<1>1. CASE t.store = Disk
  <2> DEFINE p == Clean(t.path)
             dir == Endpoint(Disk, p, << >>, TRUE)
             file == Endpoint(Disk, Dir(p), Base(p), FALSE)
  <2>1. Proper(p) /\ Named(t) = p
    BY <1>1, CleanIs, FileOpsAssumption DEF Targeted, Named
  <2> HIDE DEF p
  <2>2. ep \in {dir, file, Nowhere} /\ (p = << >> => ep = dir)
    BY <1>1, FileOpsAssumption DEF Resolve, OnDisk, IsDirectory, p
  <2>3. ep # Nowhere
    <3>1. ~Nowhere.ok /\ ep.ok
      BY DEF Nowhere
    <3> QED
      BY <3>1
  <2>4. Resolved(dir, t)
    <3>1. p \in Word
      BY <2>1 DEF Proper, IsPath, Word
    <3>2. Join(p, << >>) = p
      BY <3>1, SlashIs, JoinIs
    <3> QED
      BY <1>1, <2>1, <3>2, EmptyIs DEF Resolved, Endpoint, Proper
  <2>5. p # << >> => Resolved(file, t)
    <3> SUFFICES ASSUME p # << >> PROVE Resolved(file, t)
      OBVIOUS
    <3>1. Proper(Dir(p)) /\ Proper(Base(p)) /\ Base(p) # << >> /\ Join(Dir(p), Base(p)) = p
      BY <2>1, DirBase
    <3>2. Clean(Base(p)) = Base(p)
      BY <3>1, CleanProper
    <3> QED
      BY <1>1, <2>1, <3>1, <3>2 DEF Resolved, Endpoint, Proper
  <2> HIDE DEF ep, dir, file
  <2> QED
    BY <2>2, <2>3, <2>4, <2>5 DEF ep
<1>2. CASE t.store # Disk
  <2> DEFINE p == IF t.store \in Tree THEN t.path ELSE InBucket(t.path)
  <2>1. IsPath(p) /\ ~BeginsWithSlash(p)
    BY <1>2, InBucketIs DEF Targeted
  <2>2. Named(t) = Clean(p)
    BY DEF Named
  <2> HIDE DEF p
  <2>3. ep = Endpoint(t.store, << >>, p, p = << >> \/ EndsInSlash(p))
    BY <1>2 DEF Resolve, Remote, p
  <2>4. Clean(p) \in Word
    BY <2>1, CleanIs DEF Proper, IsPath, Word
  <2>5. Join(<< >>, Clean(p)) = Clean(p)
    BY <2>4, SlashIs, JoinIs
  <2> DEFINE new == Endpoint(t.store, << >>, p, p = << >> \/ EndsInSlash(p))
  <2>6. /\ new.store = t.store /\ new.root = << >> /\ new.prefix = p
        /\ new.isDir <=> p = << >> \/ EndsInSlash(p)
    BY DEF Endpoint
  <2> HIDE DEF new, ep
  <2>7. Resolved(new, t)
    BY <1>2, <2>1, <2>2, <2>5, <2>6, EmptyIs DEF Resolved
  <2> QED
    BY <2>3, <2>7 DEF ep, new
<1> QED
  BY <1>1, <1>2

\* Paths are words: for the lemmas above, which speak of those.
LEMMA Words ==
  /\ \A p : IsPath(p) => p \in Word /\ Proper(Clean(p)) /\ Clean(p) \in Word
  /\ \A p : Proper(p) => IsPath(p) /\ p \in Word /\ ~BeginsWithSlash(p) /\ ~EndsInSlash(p)
  BY CleanIs DEF Proper, IsPath, Word

\* A driver makes of a path a key that is one, in a tree without a slash at its end.
LEMMA KeyAtIs ==
  ASSUME NEW ep, NEW t, Resolved(ep, t), NEW p, IsPath(p), ~BeginsWithSlash(p)
  PROVE  /\ IsPath(KeyAt(ep, p)) /\ ~BeginsWithSlash(KeyAt(ep, p))
         /\ ep.store \in Tree => ~EndsInSlash(KeyAt(ep, p))
<1>1. Proper(ep.root) /\ Proper(Clean(p))
  BY Words DEF Resolved
<1>2. Proper(Join(ep.root, Clean(p)))
  BY <1>1, JoinProper
<1> QED
  BY <1>2, Words DEF KeyAt

\* Where a target's own prefix lies: at its name, or at the marker of its directory.
LEMMA PrefixKey ==
  ASSUME NEW ep, NEW t, Resolved(ep, t)
  PROVE  /\ HasPrefix(KeyAt(ep, ep.prefix), Named(t))
         /\ ep.store \in Tree \/ ~ep.isDir => KeyAt(ep, ep.prefix) = Named(t)
         /\ ep.store \notin Tree /\ EndsInSlash(ep.prefix) => Inside(KeyAt(ep, ep.prefix), Named(t))
<1> DEFINE p == ep.prefix
           c == Clean(p)
<1>1. /\ p \in Word /\ IsPath(p) /\ c \in Word /\ Proper(c) /\ ~BeginsWithSlash(p)
      /\ Len(p) \in Nat /\ Len(c) \in Nat
  <2>1. p \in Word /\ IsPath(p) /\ c \in Word /\ Proper(c) /\ ~BeginsWithSlash(p)
    BY Words DEF Resolved
  <2> QED
    BY <2>1 DEF Word
<1>2. /\ ~EndsInSlash(p) => c = p
      /\ EndsInSlash(p) => /\ c # << >> /\ Len(p) = Len(c) + 1
                           /\ \A i \in 1..Len(c) : p[i] = c[i]
  BY <1>1, CleanIs
<1>3. ep.store \in Tree => KeyAt(ep, p) = Named(t)
  BY DEF KeyAt, Resolved
<1>4. ep.store \notin Tree => KeyAt(ep, p) = p /\ Named(t) = c
  <2>1. ep.store \notin Tree => ep.root = << >> /\ KeyAt(ep, p) = p
    BY FileOpsAssumption DEF KeyAt, Resolved
  <2> QED
    BY <1>1, <2>1, SlashIs, JoinIs DEF Resolved
<1>5. Named(t) \in Word
  BY <1>1, JoinIs, Words DEF Resolved
<1>6. HasPrefix(p, c) /\ (EndsInSlash(p) => Inside(p, c))
  <2>1. CASE ~EndsInSlash(p)
    BY <1>1, <1>2, <2>1, PrefixOrder
  <2>2. CASE EndsInSlash(p)
    <3>1. p[Len(p)] = Slash
      BY <1>1, <2>2, SlashAt
    <3>2. Inside(p, c)
      BY <1>1, <1>2, <2>2, <3>1, InsideIs
    <3> QED
      BY <1>1, <3>2, PrefixOrder
  <2> QED
    BY <2>1, <2>2
<1>7. ~ep.isDir => ~EndsInSlash(p)
  BY DEF Resolved
<1> QED
  BY <1>2, <1>3, <1>4, <1>5, <1>6, <1>7, PrefixOrder

\* What List finds: the names of files.
Listed(ep, key) == Proper(key) /\ key # << >> /\ HasPrefix(key, ListPrefix(ep))

\* What List finds lies under a name that begins with the target's; and inside the target,
\* when that is a whole driver or a bucket prefix that ends in a slash.
LEMMA ListedKey ==
  ASSUME NEW ep, NEW t, Resolved(ep, t), NEW key, Listed(ep, key)
  PROVE  /\ Proper(KeyAt(ep, key)) /\ KeyAt(ep, key) # << >>
         /\ KeyAt(ep, key) = Join(ep.root, key)
         /\ HasPrefix(KeyAt(ep, key), Named(t))
         /\ ep.prefix = << >> \/ (ep.store \notin Tree /\ EndsInSlash(ep.prefix))
            => Inside(KeyAt(ep, key), Named(t))
<1> DEFINE r == ep.root
           p == ep.prefix
           c == Clean(p)
<1>1. /\ r \in Word /\ Proper(r) /\ c \in Word /\ Proper(c) /\ p \in Word
      /\ key \in Word /\ Proper(key) /\ key # << >>
      /\ Named(t) = Join(r, c)
  BY Words DEF Resolved, Listed
<1>2. KeyAt(ep, key) = Join(r, key)
  <2>1. CASE ep.store \in Tree
    BY <1>1, <2>1, CleanProper DEF KeyAt
  <2>2. CASE ep.store \notin Tree
    <3>1. r = << >>
      BY <2>2, FileOpsAssumption DEF Resolved
    <3> QED
      BY <1>1, <2>2, <3>1, JoinIs DEF KeyAt
  <2> QED
    BY <2>1, <2>2
<1>3. Proper(Join(r, key)) /\ Join(r, key) # << >> /\ Join(r, key) \in Word /\ Named(t) \in Word
  <2>1. Proper(Join(r, key)) /\ Join(r, key) \in Word /\ Named(t) \in Word
    BY <1>1, JoinProper, JoinIs
  <2>2. Join(r, << >>) = r /\ << >> \in Word
    BY <1>1, JoinIs, SlashIs
  <2>3. Join(r, key) # r
    BY <1>1, <2>2, JoinOrder
  <2>4. Inside(Join(r, key), r)
    BY <1>1, JoinOrder
  <2>5. Join(r, key) # << >>
    <3>1. CASE r = << >>
      BY <2>3, <3>1
    <3>2. CASE r # << >>
      <4>1. Len(r) < Len(Join(r, key)) /\ Len(r) \in Nat
        BY <1>1, <2>1, <2>4, <3>2, InsideIs DEF Word
      <4> QED
        BY <4>1
    <3> QED
      BY <3>1, <3>2
  <2> QED
    BY <2>1, <2>5
<1>4. ASSUME HasPrefix(key, c)
      PROVE  HasPrefix(Join(r, key), Named(t))
  BY <1>1, <1>4, JoinOrder
<1>5. HasPrefix(key, c)
  <2>1. CASE ep.store \in Tree
    BY <2>1 DEF Listed, ListPrefix
  <2>2. CASE ep.store \notin Tree
    <3>1. HasPrefix(key, p)
      BY <2>2 DEF Listed, ListPrefix
    <3>2. HasPrefix(p, c)
      <4>1. p = KeyAt(ep, p) /\ c = Named(t)
        BY <1>1, <2>2, FileOpsAssumption, JoinIs DEF KeyAt, Resolved
      <4> QED
        BY <4>1, PrefixKey
    <3> QED
      BY <1>1, <3>1, <3>2, PrefixOrder
  <2> QED
    BY <2>1, <2>2
<1>6. ASSUME p = << >>
      PROVE  Inside(Join(r, key), Named(t))
  <2>1. Named(t) = r
    BY <1>1, <1>6, EmptyIs, JoinIs
  <2> QED
    BY <1>1, <2>1, JoinOrder
<1>7. ASSUME ep.store \notin Tree, EndsInSlash(p)
      PROVE  Inside(Join(r, key), Named(t))
  <2>1. r = << >> /\ HasPrefix(key, p) /\ Named(t) = c /\ Join(r, key) = key
    BY <1>1, <1>7, FileOpsAssumption, JoinIs DEF Listed, ListPrefix, Resolved
  <2>2. Inside(p, c) /\ p # << >>
    <3>1. KeyAt(ep, p) = p
      BY <1>7 DEF KeyAt
    <3> QED
      BY <1>7, <2>1, <3>1, PrefixKey DEF EndsInSlash
  <2>3. CASE c = << >>
    BY <2>1, <2>3 DEF Inside
  <2>4. CASE c # << >>
    <3>1. /\ Len(c) < Len(p) /\ p[Len(c) + 1] = Slash /\ \A i \in 1..Len(c) : p[i] = c[i]
          /\ Len(c) \in Nat /\ Len(p) \in Nat /\ Len(key) \in Nat
      BY <1>1, <2>2, <2>4, InsideIs DEF Word
    <3>2. Len(p) <= Len(key) /\ \A i \in 1..Len(p) : key[i] = p[i]
      BY <1>1, <2>1, PrefixIs
    <3>3. Inside(key, c)
      BY <1>1, <3>1, <3>2, InsideIs
    <3> QED
      BY <2>1, <3>3
  <2> QED
    BY <2>3, <2>4
<1> QED
  BY <1>2, <1>3, <1>4, <1>5, <1>6, <1>7

\* List finds files that are there, names them from the driver's root, and tells their size.
LEMMA ListingIs ==
  ASSUME NEW ep, NEW t, Resolved(ep, t), ep.store \in Store, StoresOK, NEW e \in Listing(ep)
  PROVE  /\ Listed(ep, e.key) /\ KeyAt(ep, e.key) \in Keys(ep.store)
         /\ e = [key |-> e.key, size |-> objects[ep.store][KeyAt(ep, e.key)].kept]
         /\ e \in [key : Word, size : Sizes]
<1>1. PICK k \in Keys(ep.store) :
         /\ Inside(k, ep.root) /\ ~EndsInSlash(k) /\ HasPrefix(NameIn(ep.root, k), ListPrefix(ep))
         /\ e = [key |-> NameIn(ep.root, k), size |-> objects[ep.store][k].kept]
  BY DEF Listing, NameIn
<1>2. Proper(k) /\ k # << >> /\ objects[ep.store][k] \in Contents
  BY <1>1 DEF StoresOK, GoodKey, Proper
<1>3. ep.root \in Word /\ Proper(ep.root)
  BY Words DEF Resolved
<1>4. e.key = NameIn(ep.root, k) /\ e.size = objects[ep.store][k].kept
  BY <1>1
<1>5. Proper(e.key) /\ e.key # << >> /\ Join(ep.root, e.key) = k
  BY <1>1, <1>2, <1>3, <1>4, NameIs
<1>6. Listed(ep, e.key)
  BY <1>1, <1>4, <1>5 DEF Listed
<1>7. KeyAt(ep, e.key) = k
  BY <1>5, <1>6, ListedKey
<1>8. e.key \in Word /\ e.size \in Sizes
  BY <1>2, <1>4, <1>5, Words DEF Contents
<1> QED
  BY <1>1, <1>4, <1>6, <1>7, <1>8

\* One page holds nothing that is not in the whole listing.
LEMMA PagesAre == ASSUME NEW ep PROVE \A page \in Pages(ep) : page \subseteq Listing(ep)
  BY DEF Pages, kSubset

\* The path of a listed key below a prefix is proper, whatever the prefix is.
LEMMA RelativeIs ==
  ASSUME NEW ep, NEW t, Resolved(ep, t), NEW key, Proper(key)
  PROVE  Proper(Relative(ep, key))
<1> DEFINE u == TrimPrefix(key, Clean(ep.prefix))
<1>1. IsPath(key) /\ ~EndsInSlash(key) /\ Clean(ep.prefix) \in Word
  BY Words DEF Resolved
<1>2. IsPath(u) /\ ~EndsInSlash(u)
  BY <1>1, TrimPath
<1> HIDE DEF u
<1>3. EndsInSlash(<<Slash>>) /\ <<Slash>> \in Word
  BY SlashIs, SlashAt
<1>4. /\ IsPath(TrimPrefix(u, <<Slash>>)) /\ ~EndsInSlash(TrimPrefix(u, <<Slash>>))
      /\ ~BeginsWithSlash(TrimPrefix(u, <<Slash>>))
  BY <1>2, <1>3, TrimPath
<1> QED
  BY <1>4 DEF Relative, Proper, u

\* What is made of it below another prefix is a path.
LEMMA BelowIs ==
  ASSUME NEW ep, NEW t, Resolved(ep, t), NEW rel, Proper(rel)
  PROVE  IsPath(Below(ep, rel)) /\ ~BeginsWithSlash(Below(ep, rel))
<1> DEFINE c == Clean(ep.prefix)
           cs == c \o <<Slash>>
<1>1. Proper(c) /\ IsPath(c) /\ ~EndsInSlash(c) /\ ~BeginsWithSlash(c)
  BY Words DEF Resolved
<1>2. CASE c = << >>
  BY <1>2, Words DEF Below
<1>3. CASE c # << >>
  <2>1. IsPath(<<Slash>>)
    BY SlashIs DEF IsPath, Word
  <2>2. IsPath(cs) /\ ~BeginsWithSlash(cs)
    BY <1>1, <1>3, <2>1, ConcatPath
  <2>3. cs # << >>
    <3>1. Len(cs) = Len(c) + 1 /\ Len(c) \in Nat
      BY <1>1, SlashIs, Words DEF Word
    <3> QED
      BY <3>1
  <2> HIDE DEF cs, c
  <2>4. IsPath(rel) /\ ~BeginsWithSlash(rel)
    BY Words
  <2>5. IsPath(cs \o rel) /\ ~BeginsWithSlash(cs \o rel)
    BY <2>2, <2>3, <2>4, ConcatPath
  <2>6. Below(ep, rel) = cs \o rel
    BY <1>3 DEF Below, cs, c
  <2> QED
    BY <2>5, <2>6
<1> QED
  BY <1>2, <1>3

-----------------------------------------------------------------------------
(* The invariant of all commands.                                           *)

\* Where the command is.  One that is under way, or has succeeded, has resolved its targets.
Going == pc \notin {"begin", "done"} \/ result \in {"ok", "planned"}

\* The steps there are.
Steps == {"begin", "stat", "list", "delete", "last", "open", "write", "plan", "done"}

\* Who is where, and with what.
ControlOK ==
    /\ cmd \in Commands /\ before \in Setups
    /\ pc \in Steps /\ result \in {"none", "ok", "error", "planned"}
    /\ (pc = "done") = (result # "none")
    /\ budget \in [faults : 0..MaxFaults, edits : 0..MaxEdits]
    /\ cmd.op = "rm" => pc \in {"begin", "stat", "list", "delete", "last", "done"}
    /\ cmd.op = "cp" => pc \in {"begin", "stat", "list", "open", "write", "done"}
    /\ cmd.op = "sync" => pc \in {"begin", "list", "plan", "done"}
    /\ Going => Resolved(src, cmd.from)
    /\ Going /\ cmd.op # "rm" => Resolved(dst, cmd.to)
    /\ cmd.op = "rm" /\ pc \notin {"begin", "done"} =>
          ~Flag("dry-run") /\ (Whole(src) <=> pc \in {"list", "delete"})
    /\ cmd.op = "cp" => (pc = "list" => Whole(src)) /\ (pc = "stat" => ~Whole(src))

\* What List found, and what is copied.
Lists == cmd.op = "sync" \/ Whole(src)

\* An entry that is still to be come to.
GoodEntry(e) ==
    /\ e \in [key : Word, size : Sizes]
    /\ IF Lists THEN Listed(src, e.key) ELSE e.key = src.prefix

\* Where there are entries.
EntriesOK ==
    /\ pc \in {"begin", "stat", "list", "last"} => todo = {}
    /\ pc \in {"delete", "open", "write", "plan"} => \A e \in todo : GoodEntry(e)
    /\ pc = "write" => GoodEntry(entry) /\ body \in Contents

\* The inductive invariant of all three commands.
FileInv == StoresOK /\ ControlOK /\ EntriesOK

\* A command line names stores, and the endpoints lie in those it names.
LEMMA CommandIs ==
  ASSUME ControlOK
  PROVE  /\ cmd.op \in {"rm", "cp", "sync"} /\ Targeted(cmd.from) /\ Targeted(cmd.to)
         /\ Going => src.store = cmd.from.store /\ src.store \in Store
         /\ Going /\ cmd.op # "rm" => dst.store = cmd.to.store /\ dst.store \in Store
  BY FileOpsAssumption, PathsAssumption DEF ControlOK, Targeted, Resolved

\* What a store holds with one more object.
LEMMA WithIs ==
  ASSUME StoresOK, NEW s \in Store, NEW k, NEW c, objects' = With(s, k, c)
  PROVE  /\ DOMAIN objects' = Store /\ \A t \in Store : t # s => objects'[t] = objects[t]
         /\ Keys(s)' = Keys(s) \cup {k} /\ objects'[s][k] = c
         /\ \A j \in Keys(s) : j # k => objects'[s][j] = objects[s][j]
<1> DEFINE f == [j \in Keys(s) \cup {k} |-> IF j = k THEN c ELSE objects[s][j]]
<1>1. objects' = [objects EXCEPT ![s] = f]
  BY DEF With
<1>2. DOMAIN f = Keys(s) \cup {k} /\ f[k] = c /\ \A j \in Keys(s) : j # k => f[j] = objects[s][j]
  OBVIOUS
<1> HIDE DEF f
<1>3. DOMAIN objects' = Store /\ objects'[s] = f /\ \A t \in Store : t # s => objects'[t] = objects[t]
  BY <1>1 DEF StoresOK
<1> QED
  BY <1>2, <1>3 DEF Keys

\* ... or without one.
LEMMA WithoutIs ==
  ASSUME StoresOK, NEW s \in Store, NEW k, objects' = Without(s, k)
  PROVE  /\ DOMAIN objects' = Store /\ \A t \in Store : t # s => objects'[t] = objects[t]
         /\ Keys(s)' = Keys(s) \ {k}
         /\ \A j \in Keys(s) : j # k => objects'[s][j] = objects[s][j]
<1> DEFINE f == Restrict(objects[s], Keys(s) \ {k})
<1>1. objects' = [objects EXCEPT ![s] = f]
  BY DEF Without
<1>2. DOMAIN f = Keys(s) \ {k} /\ \A j \in Keys(s) : j # k => f[j] = objects[s][j]
  BY DEF Keys, Restrict
<1> HIDE DEF f
<1>3. DOMAIN objects' = Store /\ objects'[s] = f /\ \A t \in Store : t # s => objects'[t] = objects[t]
  BY <1>1 DEF StoresOK
<1> QED
  BY <1>2, <1>3 DEF Keys

\* No write and no removal leaves a file of a tree in another file.
LEMMA StoreKept ==
  ASSUME StoresOK
  PROVE  /\ UNCHANGED objects => StoresOK'
         /\ \A s \in Store : \A k : objects' = Without(s, k) => StoresOK'
         /\ \A s \in Store : \A k, c :
               objects' = With(s, k, c) /\ GoodKey(s, k) /\ ~Blocked(s, k) /\ c \in Contents
               => StoresOK'
<1>1. UNCHANGED objects => StoresOK'
  BY DEF StoresOK, Keys
<1>2. ASSUME NEW s \in Store, NEW k, objects' = Without(s, k)
      PROVE  StoresOK'
  <2>1. /\ DOMAIN objects' = Store /\ \A t \in Store : t # s => objects'[t] = objects[t]
        /\ Keys(s)' = Keys(s) \ {k}
        /\ \A j \in Keys(s) : j # k => objects'[s][j] = objects[s][j]
    BY <1>2, WithoutIs
  <2>2. \A t \in Store : Keys(t)' \subseteq Keys(t) /\ \A j \in Keys(t)' : objects'[t][j] = objects[t][j]
    BY <2>1 DEF Keys
  <2> QED
    BY <2>1, <2>2 DEF StoresOK
<1>3. ASSUME NEW s \in Store, NEW k, NEW c, objects' = With(s, k, c), GoodKey(s, k),
             ~Blocked(s, k), c \in Contents
      PROVE  StoresOK'
  <2>1. /\ DOMAIN objects' = Store /\ \A t \in Store : t # s => objects'[t] = objects[t]
        /\ Keys(s)' = Keys(s) \cup {k} /\ objects'[s][k] = c
        /\ \A j \in Keys(s) : j # k => objects'[s][j] = objects[s][j]
    BY <1>3, WithIs
  <2>2. ~Inside(k, k)
    BY <1>3, Words, PrefixOrder DEF GoodKey
  <2>3. s \in Tree => \A j \in Keys(s) : ~Inside(j, k) /\ ~Inside(k, j)
    BY <1>3 DEF Blocked, IsDirectory
  <2>4. \A j \in Keys(s)' : GoodKey(s, j) /\ objects'[s][j] \in Contents
    BY <1>3, <2>1 DEF StoresOK
  <2>5. s \in Tree => \A i, j \in Keys(s)' : ~Inside(j, i)
    BY <2>1, <2>2, <2>3 DEF StoresOK
  <2>6. \A t \in Store : t # s => Keys(t)' = Keys(t)
    BY <2>1 DEF Keys
  <2> QED
    BY <2>1, <2>4, <2>5, <2>6 DEF StoresOK
<1> QED
  BY <1>1, <1>2, <1>3

\* What List returns are good entries.
LEMMA PagesGood ==
  ASSUME StoresOK, ControlOK, Going, Lists, NEW page \in Pages(src)
  PROVE  \A e \in page : GoodEntry(e)
<1> TAKE e \in page
<1>1. e \in Listing(src)
  BY PagesAre
<1>2. Resolved(src, cmd.from) /\ src.store \in Store
  BY CommandIs DEF ControlOK
<1> QED
  BY <1>1, <1>2, ListingIs DEF GoodEntry

\* Whether an entry is good depends on the source and the command line only.
LEMMA SameEntries ==
  ASSUME UNCHANGED <<src, cmd>>
  PROVE  \A e : GoodEntry(e)' <=> GoodEntry(e)
  BY DEF GoodEntry, Lists, Whole, Flag

\* A copy is kept under a key.
LEMMA DestinationIs ==
  ASSUME ControlOK, cmd.op = "cp", Going, NEW e, GoodEntry(e)
  PROVE  /\ IsPath(Destination(e.key)) /\ ~BeginsWithSlash(Destination(e.key))
         /\ KeyAt(dst, Destination(e.key)) # << >> =>
               GoodKey(dst.store, KeyAt(dst, Destination(e.key)))
<1>1. Resolved(src, cmd.from) /\ Resolved(dst, cmd.to)
  BY DEF ControlOK
<1>2. IsPath(Destination(e.key)) /\ ~BeginsWithSlash(Destination(e.key))
  <2>1. CASE Whole(src)
    <3>1. Proper(e.key)
      BY <2>1 DEF GoodEntry, Lists, Listed
    <3>2. Proper(Relative(src, e.key))
      BY <1>1, <3>1, RelativeIs
    <3> QED
      BY <1>1, <2>1, <3>2, BelowIs DEF Destination
  <2>2. CASE ~Whole(src) /\ (dst.isDir \/ dst.prefix = << >>)
    <3>1. e.key = src.prefix
      BY <2>2 DEF GoodEntry, Lists
    <3>2. Proper(src.prefix) /\ src.prefix # << >>
      BY <1>1, <2>2 DEF Resolved, Whole, Proper
    <3>3. Proper(Base(e.key))
      BY <3>1, <3>2, DirBase
    <3> QED
      BY <2>2, <3>3, Words DEF Destination
  <2>3. CASE ~Whole(src) /\ ~(dst.isDir \/ dst.prefix = << >>)
    BY <1>1, <2>3 DEF Destination, Resolved
  <2> QED
    BY <2>1, <2>2, <2>3
<1> QED
  BY <1>1, <1>2, KeyAtIs DEF GoodKey

\* No step overdraws the bounds.
LEMMA BudgetKept ==
  ASSUME ControlOK, Works \/ Spend("faults") \/ Spend("edits")
  PROVE  budget' \in [faults : 0..MaxFaults, edits : 0..MaxEdits]
  BY FileOpsAssumption DEF ControlOK, Works, Spend

\* A Delete, whether it fails or not, removes the one key or nothing.
LEMMA DeleteIs ==
  ASSUME NEW path, Deletes(path) \/ DeleteFails(path)
  PROVE  /\ Works \/ Spend("faults")
         /\ objects' = objects \/ objects' = Without(src.store, KeyAt(src, path))
         /\ Deletes(path) => objects' = Without(src.store, KeyAt(src, path))
  BY DEF Deletes, DeleteFails, Fault

\* What may come of a write: what Write stores, or the beginning of that.
Arriving == Stored(dst.store, body, entry.size) \cup {Cut(body, size) : size \in 1..(body.kept - 1)}

\* A write stores, or fails and changes nothing or, in a tree, loses its target.
LEMMA CpWriteIs ==
  ASSUME CpWrite
  PROVE  LET k == KeyAt(dst, Destination(entry.key))
         IN  /\ pc = "write" /\ (Works \/ Spend("faults"))
             /\ UNCHANGED <<src, dst, todo, plan>> /\ broken \subseteq broken'
             /\ \/ /\ Goto("open") \/ Ends("error")
                   /\ ~Blocked(dst.store, k)
                   /\ \E c \in Arriving : /\ objects' = With(dst.store, k, c)
                                          /\ \/ c \in Stored(dst.store, body, entry.size)
                                             \/ c.of = body.of /\ body.of \in broken'
                \/ Ends("error") /\ UNCHANGED objects
                \/ Ends("error") /\ dst.store \in Tree /\ objects' = Without(dst.store, k)
<1> DEFINE path == Destination(entry.key)
           k == KeyAt(dst, path)
           stores(c) == objects' = With(dst.store, k, c)
<1>1. /\ pc = "write" /\ UNCHANGED <<src, dst, todo, plan>>
      /\ \/ /\ ~Refuses(dst, path)
            /\ \/ WriteWorks(k) /\ Works /\ Goto("open") /\ UNCHANGED broken
               \/ BreaksOff(k) /\ Goto("open") /\ broken' = broken \cup {body.of}
               \/ WriteFails(k) /\ Ends("error") /\ UNCHANGED broken
         \/ Works /\ Ends("error") /\ UNCHANGED <<objects, broken>>
  BY DEF CpWrite
<1>2. ~Refuses(dst, path) => ~Blocked(dst.store, k)
  BY DEF Refuses
<1>3. /\ WriteWorks(k) => \E c \in Stored(dst.store, body, entry.size) : stores(c)
      /\ BreaksOff(k) => /\ Spend("faults")
                         /\ \E size \in 1..(body.kept - 1) : stores(Cut(body, size))
      /\ WriteFails(k) => /\ Spend("faults")
                          /\ \/ UNCHANGED objects \/ WriteWorks(k)
                             \/ dst.store \in Tree /\ objects' = Without(dst.store, k)
  BY DEF WriteWorks, BreaksOff, WriteFails, Fault
<1>4. \A size : Cut(body, size).of = body.of
  BY DEF Cut
<1> HIDE DEF k, stores
<1>5. /\ WriteWorks(k) => \E c \in Arriving : stores(c) /\ c \in Stored(dst.store, body, entry.size)
      /\ BreaksOff(k) => \E c \in Arriving : stores(c) /\ c.of = body.of
  BY <1>3, <1>4 DEF Arriving
<1>6. \/ /\ Goto("open") \/ Ends("error")
         /\ ~Blocked(dst.store, k)
         /\ \E c \in Arriving : /\ stores(c)
                                /\ \/ c \in Stored(dst.store, body, entry.size)
                                   \/ c.of = body.of /\ body.of \in broken'
      \/ Ends("error") /\ UNCHANGED objects
      \/ Ends("error") /\ dst.store \in Tree /\ objects' = Without(dst.store, k)
  BY <1>1, <1>2, <1>3, <1>5
<1>7. (Works \/ Spend("faults")) /\ broken \subseteq broken'
  BY <1>1, <1>3
<1> QED
  BY <1>1, <1>6, <1>7 DEF k, stores

-----------------------------------------------------------------------------
(* The steps of rm and cp keep it.                                          *)

\* Files there were at the start, under the keys a setup gives.
LEMMA SetupIs ==
  ASSUME NEW setup \in Setups, NEW s \in Store
  PROVE  \A k \in setup[s] : GoodKey(s, k)
  BY SetupsAssumption DEF GoodKey

\* The invariant holds at the start: SetupsAssumption says what stores may hold.
LEMMA FileInit == Init => FileInv
<1> SUFFICES ASSUME Init PROVE FileInv
  OBVIOUS
<1>1. /\ before \in Setups /\ cmd \in Commands /\ pc = "begin" /\ result = "none" /\ todo = {}
      /\ objects = [s \in Store |-> [k \in before[s] |-> Content(k, 2)]]
      /\ budget = [faults |-> MaxFaults, edits |-> MaxEdits]
  BY DEF Init
<1>2. StoresOK
  <2>1. \A s \in Store : Keys(s) = before[s] /\ \A k \in Keys(s) : objects[s][k] = Content(k, 2)
    BY <1>1 DEF Keys
  <2>2. \A s \in Store : \A k \in Keys(s) : GoodKey(s, k) /\ (s \in Tree => \A j \in Keys(s) : ~Inside(j, k))
    BY <1>1, <2>1, SetupIs, SetupsAssumption
  <2>3. \A k : k \in Word => Content(k, 2) \in Contents
    BY DEF Content, Contents, Sizes
  <2>4. \A s \in Store : \A k \in Keys(s) : k \in Word
    BY <2>2, Words DEF GoodKey
  <2> QED
    BY <1>1, <2>1, <2>2, <2>3, <2>4 DEF StoresOK
<1>3. ControlOK
  BY <1>1, FileOpsAssumption DEF ControlOK, Going, Steps
<1>4. EntriesOK
  BY <1>1 DEF EntriesOK
<1> QED
  BY <1>2, <1>3, <1>4 DEF FileInv

\* The steps of rm keep the invariant.
LEMMA RmKeeps ==
  ASSUME FileInv, Rm, UNCHANGED <<cmd, before>>
  PROVE  FileInv'
<1> USE DEF FileInv
<1>1. \A s \in Store : \A k : objects' = Without(s, k) => StoresOK'
  BY StoreKept
<1>2. UNCHANGED objects => StoresOK'
  BY StoreKept
<1>3. Works => budget' \in [faults : 0..MaxFaults, edits : 0..MaxEdits]
  BY BudgetKept
<1>4. Spend("faults") => budget' \in [faults : 0..MaxFaults, edits : 0..MaxEdits]
  BY BudgetKept
<1>5. cmd.op \in {"rm", "cp", "sync"} /\ Targeted(cmd.from) /\ (Going => src.store \in Store)
  BY CommandIs
<1>6. CASE RmBegin
  <2>1. /\ pc = "begin" /\ cmd.op = "rm" /\ src' = Resolve(cmd.from, FALSE, FALSE)
        /\ UNCHANGED <<objects, dst, todo, entry, body, plan, budget, cmd, before>>
    BY <1>6 DEF RmBegin, Works
  <2>2. StoresOK'
    BY <1>2, <2>1
  <2>3. src'.ok => Resolved(src', cmd.from)
    BY <1>5, <2>1, ResolveIs
  <2>4. ControlOK'
    <3>1. CASE ~src'.ok /\ Ends("error")
      BY <2>1, <3>1 DEF ControlOK, Ends, Going, Steps
    <3>2. CASE src'.ok /\ Flag("dry-run") /\ Ends("ok")
      BY <2>1, <2>3, <3>2 DEF ControlOK, Ends, Going, Steps
    <3>3. CASE src'.ok /\ ~Flag("dry-run")
               /\ Goto(IF Whole(src') THEN "list" ELSE IF Flag("force") THEN "last" ELSE "stat")
      <4>1. /\ result' = "none" /\ pc' \in {"list", "last", "stat"} /\ (Whole(src') <=> pc' = "list")
        BY <2>1, <3>3 DEF ControlOK, Goto
      <4> QED
        BY <2>1, <2>3, <3>3, <4>1 DEF ControlOK, Going, Steps, Whole, Flag
    <3> QED
      BY <1>6, <3>1, <3>2, <3>3 DEF RmBegin
  <2>5. EntriesOK'
    <3>1. todo' = {}
      BY <2>1 DEF EntriesOK
    <3>2. pc' # "write"
      BY <2>1, <2>4 DEF ControlOK
    <3> QED
      BY <3>1, <3>2 DEF EntriesOK
  <2> QED
    BY <2>2, <2>4, <2>5
<1>7. CASE RmStat
  <2>1. /\ pc = "stat" /\ cmd.op = "rm" /\ (Works \/ Spend("faults"))
        /\ UNCHANGED <<objects, src, dst, todo, entry, body, plan, cmd, before>>
        /\ Goto("last") \/ Ends("error")
    BY <1>7 DEF Fault, RmStat, work
  <2>2. ControlOK'
    BY <1>3, <1>4, <2>1 DEF ControlOK, Going, Steps, Goto, Ends, Whole, Flag
  <2>3. EntriesOK'
    BY <2>1 DEF EntriesOK, Goto, Ends
  <2> QED
    BY <1>2, <2>1, <2>2, <2>3
<1>8. CASE RmList
  <2>1. /\ pc = "list" /\ cmd.op = "rm" /\ (Works \/ Spend("faults"))
        /\ UNCHANGED <<objects, src, dst, entry, body, plan, cmd, before>>
        /\ (Goto("delete") /\ todo' \in Pages(src)) \/ Ends("error")
    BY <1>8 DEF Fault, RmList, work
  <2>2. ControlOK'
    BY <1>3, <1>4, <2>1 DEF ControlOK, Going, Steps, Goto, Ends, Whole, Flag
  <2>3. EntriesOK'
    <3>1. CASE Ends("error")
      BY <2>1, <3>1 DEF EntriesOK, Ends
    <3>2. CASE Goto("delete") /\ todo' \in Pages(src)
      <4>1. \A e \in todo' : GoodEntry(e)
        BY <2>1, <3>2, PagesGood DEF ControlOK, Going, Lists
      <4>2. \A e \in todo' : GoodEntry(e)'
        BY <2>1, <4>1, SameEntries
      <4> QED
        BY <3>2, <4>2 DEF EntriesOK, Goto
    <3> QED
      BY <2>1, <3>1, <3>2
  <2> QED
    BY <1>2, <2>1, <2>2, <2>3
<1>9. ASSUME NEW e \in todo, RmDelete(e)
      PROVE  FileInv'
  <2>1. /\ pc = "delete" /\ cmd.op = "rm" /\ (Works \/ Spend("faults"))
        /\ UNCHANGED <<src, dst, entry, body, plan, cmd, before>>
        /\ Goto("delete") \/ Ends("error")
        /\ todo' \subseteq todo
    BY <1>5, <1>9, DeleteIs DEF RmDelete, ControlOK
  <2>2. ControlOK'
    BY <1>3, <1>4, <2>1 DEF ControlOK, Going, Steps, Goto, Ends, Whole, Flag
  <2>3. EntriesOK'
    <3>1. \A f \in todo' : GoodEntry(f)'
      BY <2>1, SameEntries DEF EntriesOK
    <3> QED
      BY <2>1, <3>1 DEF EntriesOK, Goto, Ends
  <2>4. StoresOK'
    <3>1. UNCHANGED objects \/ objects' = Without(src.store, KeyAt(src, e.key))
      BY <1>9, DeleteIs DEF RmDelete
    <3>2. src.store \in Store
      BY <1>5, <2>1 DEF Going
    <3> QED
      BY <1>1, <1>2, <3>1, <3>2
  <2> QED
    BY <2>2, <2>3, <2>4
<1>10. CASE RmLast
  <2>1. /\ pc \in {"last", "delete"} /\ cmd.op = "rm" /\ (Works \/ Spend("faults"))
        /\ UNCHANGED <<src, dst, todo, entry, body, plan, cmd, before>>
        /\ Ends("ok") \/ Ends("error")
    BY <1>5, <1>10, DeleteIs DEF RmLast, ControlOK, work
  <2>2. ControlOK'
    BY <1>3, <1>4, <2>1 DEF ControlOK, Going, Steps, Ends
  <2>3. EntriesOK'
    BY <2>1 DEF EntriesOK, Ends
  <2>4. StoresOK'
    <3>1. UNCHANGED objects \/ objects' = Without(src.store, KeyAt(src, src.prefix))
      BY <1>10, DeleteIs DEF RmLast
    <3>2. src.store \in Store
      BY <1>5, <2>1 DEF Going
    <3> QED
      BY <1>1, <1>2, <3>1, <3>2
  <2> QED
    BY <2>2, <2>3, <2>4
<1> QED
  BY <1>6, <1>7, <1>8, <1>9, <1>10 DEF Rm

\* The steps of cp keep it.
LEMMA CpKeeps ==
  ASSUME FileInv, Cp, UNCHANGED <<cmd, before>>
  PROVE  FileInv'
<1> USE DEF FileInv
<1>2. UNCHANGED objects => StoresOK'
  BY StoreKept
<1>3. Works => budget' \in [faults : 0..MaxFaults, edits : 0..MaxEdits]
  BY BudgetKept
<1>4. Spend("faults") => budget' \in [faults : 0..MaxFaults, edits : 0..MaxEdits]
  BY BudgetKept
<1>5. /\ cmd.op \in {"rm", "cp", "sync"} /\ Targeted(cmd.from) /\ Targeted(cmd.to)
      /\ Going => src.store \in Store
      /\ Going /\ cmd.op # "rm" => dst.store \in Store
  BY CommandIs
<1>6. CASE CpBegin
  <2>1. /\ pc = "begin" /\ cmd.op = "cp" /\ src' = Resolve(cmd.from, FALSE, FALSE)
        /\ UNCHANGED <<objects, todo, entry, body, plan, budget, cmd, before>>
    BY <1>6 DEF CpBegin, Works
  <2>3. src'.ok => Resolved(src', cmd.from)
    BY <1>5, <2>1, ResolveIs
  <2>4. ControlOK'
    <3>1. CASE Ends("error")
      BY <2>1, <3>1 DEF ControlOK, Ends, Going, Steps
    <3>2. CASE src'.ok /\ dst'.ok /\ dst' = Resolve(cmd.to, TRUE, Whole(src'))
               /\ Goto(IF Whole(src') THEN "list" ELSE "stat")
      <4>1. /\ result' = "none" /\ pc' \in {"list", "stat"} /\ (Whole(src') <=> pc' = "list")
        BY <2>1, <3>2 DEF ControlOK, Goto
      <4>2. Resolved(dst', cmd.to)
        BY <1>5, <3>2, ResolveIs
      <4> QED
        BY <2>1, <2>3, <3>2, <4>1, <4>2 DEF ControlOK, Going, Steps, Whole, Flag
    <3> QED
      BY <1>6, <3>1, <3>2 DEF CpBegin
  <2>5. EntriesOK'
    <3>1. todo' = {}
      BY <2>1 DEF EntriesOK
    <3>2. pc' # "write"
      BY <1>6 DEF CpBegin, Ends, Goto
    <3> QED
      BY <3>1, <3>2 DEF EntriesOK
  <2> QED
    BY <1>2, <2>1, <2>4, <2>5
<1>7. CASE CpList
  <2>1. /\ pc = "list" /\ cmd.op = "cp" /\ (Works \/ Spend("faults"))
        /\ UNCHANGED <<objects, src, dst, entry, body, plan, cmd, before>>
        /\ (Goto("open") /\ todo' \in Pages(src)) \/ Ends("error")
    BY <1>7 DEF Fault, CpList, work
  <2>2. ControlOK'
    BY <1>3, <1>4, <2>1 DEF ControlOK, Going, Steps, Goto, Ends
  <2>3. EntriesOK'
    <3>1. CASE Ends("error")
      BY <2>1, <3>1 DEF EntriesOK, Ends
    <3>2. CASE Goto("open") /\ todo' \in Pages(src)
      <4>1. \A e \in todo' : GoodEntry(e)
        BY <2>1, <3>2, PagesGood DEF ControlOK, Going, Lists
      <4>2. \A e \in todo' : GoodEntry(e)'
        BY <2>1, <4>1, SameEntries
      <4> QED
        BY <3>2, <4>2 DEF EntriesOK, Goto
    <3> QED
      BY <2>1, <3>1, <3>2
  <2> QED
    BY <1>2, <2>1, <2>2, <2>3
<1>8. CASE CpStat
  <2>1. /\ pc = "stat" /\ cmd.op = "cp" /\ (Works \/ Spend("faults"))
        /\ UNCHANGED <<objects, src, dst, entry, body, plan, cmd, before>>
        /\ \/ /\ Goto("open") /\ KeyAt(src, src.prefix) \in Keys(src.store)
              /\ todo' = {[key |-> src.prefix,
                           size |-> objects[src.store][KeyAt(src, src.prefix)].kept]}
           \/ Ends("error")
    BY <1>8 DEF Fault, Finds, CpStat, work
  <2>2. ControlOK'
    BY <1>3, <1>4, <2>1 DEF ControlOK, Going, Steps, Goto, Ends
  <2>3. EntriesOK'
    <3>1. CASE Ends("error")
      BY <2>1, <3>1 DEF EntriesOK, Ends
    <3>2. CASE Goto("open") /\ KeyAt(src, src.prefix) \in Keys(src.store)
               /\ todo' = {[key |-> src.prefix,
                            size |-> objects[src.store][KeyAt(src, src.prefix)].kept]}
      <4>1. ~Lists
        BY <2>1 DEF ControlOK, Lists
      <4>2. src.prefix \in Word /\ src.store \in Store
        BY <1>5, <2>1, Words DEF ControlOK, Going, Resolved
      <4>3. objects[src.store][KeyAt(src, src.prefix)].kept \in Sizes
        BY <3>2, <4>2 DEF StoresOK, Contents
      <4>4. \A e \in todo' : GoodEntry(e)
        BY <3>2, <4>1, <4>2, <4>3 DEF GoodEntry
      <4>5. \A e \in todo' : GoodEntry(e)'
        BY <2>1, <4>4, SameEntries
      <4> QED
        BY <3>2, <4>5 DEF EntriesOK, Goto
    <3> QED
      BY <2>1, <3>1, <3>2
  <2> QED
    BY <1>2, <2>1, <2>2, <2>3
<1>9. ASSUME NEW e \in todo, CpOpen(e)
      PROVE  FileInv'
  <2>1. /\ pc = "open" /\ cmd.op = "cp" /\ (Works \/ Spend("faults"))
        /\ UNCHANGED <<objects, src, dst, plan, cmd, before>>
        /\ entry' = e /\ todo' \subseteq todo
        /\ \/ /\ Goto("write") /\ KeyAt(src, e.key) \in Keys(src.store)
              /\ body' = objects[src.store][KeyAt(src, e.key)]
           \/ Ends("error")
    BY <1>5, <1>9 DEF Fault, Finds, CpOpen, ControlOK
  <2>2. ControlOK'
    BY <1>3, <1>4, <2>1 DEF ControlOK, Going, Steps, Goto, Ends
  <2>3. EntriesOK'
    <3>1. GoodEntry(entry)' /\ \A f \in todo' : GoodEntry(f)'
      <4>1. \A f \in todo : GoodEntry(f)'
        BY <2>1, SameEntries DEF EntriesOK
      <4> QED
        BY <1>9, <2>1, <4>1 DEF GoodEntry, Lists, Whole, Flag
    <3>2. pc' = "write" => body' \in Contents
      <4>1. src.store \in Store
        BY <1>5, <2>1 DEF Going
      <4> QED
        BY <2>1, <4>1 DEF StoresOK, Ends
    <3> QED
      BY <2>1, <3>1, <3>2 DEF EntriesOK, Goto, Ends
  <2> QED
    BY <1>2, <2>1, <2>2, <2>3
<1>10. CASE CpWrite
  <2> DEFINE k == KeyAt(dst, Destination(entry.key))
  <2>1. /\ pc = "write" /\ cmd.op = "cp" /\ (Works \/ Spend("faults"))
        /\ UNCHANGED <<src, dst, todo, plan, cmd, before>>
        /\ Goto("open") \/ Ends("error")
        /\ \/ ~Blocked(dst.store, k) /\ \E c \in Arriving : objects' = With(dst.store, k, c)
           \/ UNCHANGED objects
           \/ objects' = Without(dst.store, k)
    BY <1>5, <1>10, CpWriteIs DEF ControlOK
  <2>2. ControlOK'
    BY <1>3, <1>4, <2>1 DEF ControlOK, Going, Steps, Goto, Ends
  <2>3. EntriesOK'
    <3>1. \A f \in todo' : GoodEntry(f)'
      BY <2>1, SameEntries DEF EntriesOK
    <3> QED
      BY <2>1, <3>1 DEF EntriesOK, Goto, Ends
  <2>4. StoresOK'
    <3>1. CASE UNCHANGED objects
      BY <1>2, <3>1
    <3>0. dst.store \in Store
      BY <1>5, <2>1 DEF Going
    <3>3. CASE objects' = Without(dst.store, k)
      BY <3>0, <3>3, StoreKept
    <3>2. ASSUME ~Blocked(dst.store, k), NEW c \in Arriving, objects' = With(dst.store, k, c)
          PROVE  StoresOK'
      <4>2. k # << >>
        BY <3>2 DEF Blocked
      <4>3. GoodKey(dst.store, k)
        BY <2>1, <4>2, DestinationIs DEF EntriesOK, Going
      <4>4. c \in Contents
        <5>1. body \in Contents /\ entry.size \in Sizes
          BY <2>1 DEF EntriesOK, GoodEntry
        <5> QED
          BY <3>2, <5>1 DEF Arriving, Stored, Contents, Cut, Sizes
      <4> HIDE DEF k
      <4> QED
        BY <3>0, <3>2, <4>3, <4>4, StoreKept
    <3> QED
      BY <2>1, <3>1, <3>2, <3>3
  <2> QED
    BY <2>2, <2>3, <2>4
<1>11. CASE CpEnd
  <2>1. /\ pc = "open" /\ cmd.op = "cp" /\ Works /\ Ends("ok")
        /\ UNCHANGED <<objects, src, dst, todo, entry, body, plan, cmd, before>>
    BY <1>5, <1>11 DEF CpEnd, ControlOK, work
  <2>2. ControlOK'
    BY <1>3, <1>4, <2>1 DEF ControlOK, Going, Steps, Ends
  <2>3. EntriesOK'
    BY <2>1 DEF EntriesOK, Ends
  <2> QED
    BY <1>2, <2>1, <2>2, <2>3
<1> QED
  BY <1>6, <1>7, <1>8, <1>9, <1>10, <1>11 DEF Cp

-----------------------------------------------------------------------------
(* The steps of sync and of another client keep it.                         *)

\* So do those of sync ...
LEMMA SyncKeeps ==
  ASSUME FileInv, Sync, UNCHANGED <<cmd, before>>
  PROVE  FileInv'
<1> USE DEF FileInv
<1>2. UNCHANGED objects => StoresOK'
  BY StoreKept
<1>3. Works => budget' \in [faults : 0..MaxFaults, edits : 0..MaxEdits]
  BY BudgetKept
<1>4. Spend("faults") => budget' \in [faults : 0..MaxFaults, edits : 0..MaxEdits]
  BY BudgetKept
<1>5. cmd.op \in {"rm", "cp", "sync"} /\ Targeted(cmd.from) /\ Targeted(cmd.to)
  BY CommandIs
<1>6. CASE SyncBegin
  <2>1. /\ pc = "begin" /\ cmd.op = "sync" /\ src' = Resolve(cmd.from, FALSE, TRUE)
        /\ UNCHANGED <<objects, todo, entry, body, plan, budget, cmd, before>>
        /\ \/ src'.ok /\ dst'.ok /\ dst' = Resolve(cmd.to, TRUE, TRUE) /\ Goto("list")
           \/ Ends("error")
    BY <1>6 DEF SyncBegin, Works
  <2>2. ControlOK'
    <3>1. CASE Ends("error")
      BY <2>1, <3>1 DEF ControlOK, Ends, Going, Steps
    <3>2. CASE src'.ok /\ dst'.ok /\ dst' = Resolve(cmd.to, TRUE, TRUE) /\ Goto("list")
      <4>1. Resolved(src', cmd.from) /\ Resolved(dst', cmd.to)
        BY <1>5, <2>1, <3>2, ResolveIs
      <4> QED
        BY <2>1, <3>2, <4>1 DEF ControlOK, Goto, Going, Steps
    <3> QED
      BY <2>1, <3>1, <3>2
  <2>3. EntriesOK'
    BY <2>1 DEF EntriesOK, Ends, Goto
  <2> QED
    BY <1>2, <2>1, <2>2, <2>3
<1>7. CASE SyncListSrc
  <2>1. /\ pc = "list" /\ cmd.op = "sync" /\ (Works \/ Spend("faults"))
        /\ UNCHANGED <<objects, src, dst, entry, body, plan, cmd, before>>
        /\ (Goto("plan") /\ todo' \in Pages(src)) \/ Ends("error")
    BY <1>7 DEF Fault, SyncListSrc
  <2>2. ControlOK'
    BY <1>3, <1>4, <2>1 DEF ControlOK, Going, Steps, Goto, Ends
  <2>3. EntriesOK'
    <3>1. CASE Ends("error")
      BY <2>1, <3>1 DEF EntriesOK, Ends
    <3>2. CASE Goto("plan") /\ todo' \in Pages(src)
      <4>1. \A e \in todo' : GoodEntry(e)
        BY <2>1, <3>2, PagesGood DEF Going, Lists
      <4>2. \A e \in todo' : GoodEntry(e)'
        BY <2>1, <4>1, SameEntries
      <4> QED
        BY <3>2, <4>2 DEF EntriesOK, Goto
    <3> QED
      BY <2>1, <3>1, <3>2
  <2> QED
    BY <1>2, <2>1, <2>2, <2>3
<1>8. CASE SyncListDst
  <2>1. /\ pc = "plan" /\ cmd.op = "sync" /\ (Works \/ Spend("faults")) /\ Ends("planned")
        /\ UNCHANGED <<objects, src, dst, todo, entry, body, cmd, before>>
    BY <1>5, <1>8 DEF SyncListDst, ControlOK, Works, Fault
  <2>2. ControlOK'
    BY <1>3, <1>4, <2>1 DEF ControlOK, Going, Steps, Ends
  <2>3. EntriesOK'
    BY <2>1 DEF EntriesOK, Ends
  <2> QED
    BY <1>2, <2>1, <2>2, <2>3
<1> QED
  BY <1>6, <1>7, <1>8 DEF Sync

\* ... and the changes of another client, which keeps to the rules of the stores.
LEMMA EditKeeps ==
  ASSUME FileInv, NEW s \in Store, NEW k \in UNION {setup[s] : setup \in Setups}, Edit(s, k),
         UNCHANGED <<cmd, before>>
  PROVE  FileInv'
<1> USE DEF FileInv
<1>1. GoodKey(s, k)
  BY SetupIs
<1>2. StoresOK'
  <2>1. CASE objects' = Without(s, k)
    BY <2>1, StoreKept
  <2>2. ASSUME NEW size \in {1, 3}, objects' = With(s, k, Content(k, size))
        PROVE  StoresOK'
    <3>1. Content(k, size) \in Contents /\ ~Blocked(s, k)
      BY <1>1, Words DEF Content, Contents, Sizes, GoodKey, Edit
    <3> QED
      BY <1>1, <2>2, <3>1, StoreKept
  <2> QED
    BY <2>1, <2>2 DEF Edit
<1>3. budget' \in [faults : 0..MaxFaults, edits : 0..MaxEdits]
  BY BudgetKept DEF Edit
<1>4. UNCHANGED <<pc, src, dst, todo, entry, body, plan, result, cmd, before>>
  BY DEF Edit, work
<1>5. ControlOK'
  BY <1>3, <1>4 DEF ControlOK, Going, Steps, Whole, Flag
<1>6. EntriesOK'
  BY <1>4, SameEntries DEF EntriesOK, GoodEntry, Lists, Whole, Flag
<1> QED
  BY <1>2, <1>5, <1>6

\* Every step keeps the invariant.
LEMMA FileNext == FileInv /\ [Next]_vars => FileInv'
<1> SUFFICES ASSUME FileInv, [Next]_vars PROVE FileInv'
  OBVIOUS
<1>1. CASE UNCHANGED vars
  <2>1. UNCHANGED <<objects, cmd, pc, src, dst, todo, entry, body, plan, result, before, budget>>
    BY <1>1 DEF vars, work
  <2>2. StoresOK' /\ ControlOK'
    BY <2>1 DEF FileInv, StoresOK, Keys, ControlOK, Going, Steps, Whole, Flag
  <2>3. EntriesOK'
    BY <2>1, SameEntries DEF FileInv, EntriesOK, GoodEntry, Lists, Whole, Flag
  <2> QED
    BY <2>2, <2>3 DEF FileInv
<1>2. CASE Next
  <2>1. (Rm /\ UNCHANGED <<cmd, before>>) => FileInv'
    BY RmKeeps
  <2>2. (Cp /\ UNCHANGED <<cmd, before>>) => FileInv'
    BY CpKeeps
  <2>3. (Sync /\ UNCHANGED <<cmd, before>>) => FileInv'
    BY SyncKeeps
  <2>4. \A s \in Store : \A k \in UNION {setup[s] : setup \in Setups} :
           Edit(s, k) /\ UNCHANGED <<cmd, before>> => FileInv'
    BY EditKeeps
  <2> QED
    BY <1>1, <1>2, <2>1, <2>2, <2>3, <2>4 DEF Next, Finished
<1> QED
  BY <1>1, <1>2

\* The invariant holds in every state: ResolveTarget, the listing and the loops of
\* fileops.go:89-278 and sync_cmd.go hand on only good keys of resolved targets.
THEOREM FileInvariant == Spec => []FileInv
<1>1. Init => FileInv
  BY FileInit
<1>2. FileInv /\ [Next]_vars => FileInv'
  BY FileNext
<1> QED
  BY <1>1, <1>2, PTL DEF Spec

\* FileOps is typed, and no tree ever has a file in another file, whatever rm, cp and
\* another client do in between (local.go: Write and Delete refuse a directory's path).
THEOREM TypesAreKept == Spec => []TypeOK
<1>1. FileInv => TypeOK
  <2> SUFFICES ASSUME FileInv PROVE TypeOK
    OBVIOUS
  <2>1. \A s \in Store : \A k \in Keys(s) :
           /\ k # << >> /\ objects[s][k].size \in Sizes /\ objects[s][k].kept \in Sizes
           /\ s \in Tree => \A j \in Keys(s) : ~Inside(j, k)
    BY DEF FileInv, StoresOK, GoodKey, Contents
  <2>2. pc = "write" => entry # NoEntry
    BY DEF FileInv, EntriesOK, GoodEntry, NoEntry, Sizes
  <2> QED
    BY <2>1, <2>2 DEF FileInv, ControlOK, Steps, TypeOK
<1> QED
  BY <1>1, FileInvariant, PTL

\* A step by the command that removes a key is one of rm, and the key is that of the
\* target or of a listed entry; or a write of cp that fails, and the key is its target's.
LEMMA RemovalsAre ==
  ASSUME FileInv, [Next]_vars, ByCommand, NEW s \in Store, NEW k \in Removed(s)
  PROVE  \/ /\ cmd.op = "rm" /\ s = src.store /\ pc \in {"delete", "last"}
            /\ \/ k = KeyAt(src, src.prefix)
               \/ pc = "delete" /\ \E e \in todo : k = KeyAt(src, e.key)
         \/ /\ cmd.op = "cp" /\ pc = "write" /\ result' = "error"
            /\ s = dst.store /\ s \in Tree /\ k = KeyAt(dst, Destination(entry.key))
<1>1. ~UNCHANGED objects
  BY DEF Removed, Keys
<1>2. Next
  BY <1>1 DEF vars
<1>3. StoresOK /\ ControlOK
  BY DEF FileInv
<1>4. ~\E t \in Store : \E j \in UNION {setup[t] : setup \in Setups} : Edit(t, j)
  BY <1>3 DEF ByCommand, Edit, Spend, ControlOK
<1>5. ~Sync
  BY <1>1 DEF Sync, SyncBegin, SyncListSrc, SyncListDst, Fault
<1>6. \A t \in Store : \A j : objects' = Without(t, j) => s = t /\ k = j
  <2> SUFFICES ASSUME NEW t \in Store, NEW j, objects' = Without(t, j) PROVE s = t /\ k = j
    OBVIOUS
  <2>1. /\ \A u \in Store : u # t => objects'[u] = objects[u]
        /\ DOMAIN objects'[t] = Keys(t) \ {j}
    BY <1>3, WithoutIs DEF Keys
  <2>2. s = t
    BY <2>1 DEF Removed, Keys
  <2> QED
    BY <2>1, <2>2 DEF Removed, Keys
<1>7. CASE Rm
  <2>1. (\E e \in todo : RmDelete(e)) \/ RmLast
    BY <1>1, <1>7 DEF Rm, RmBegin, RmStat, RmList, Fault
  <2>2. pc \in {"delete", "last"} /\ cmd.op = "rm" /\ src.store \in Store
    BY <1>3, <2>1, CommandIs DEF RmDelete, RmLast, Going, ControlOK
  <2>3. CASE RmLast
    <3>1. objects' = Without(src.store, KeyAt(src, src.prefix))
      BY <1>1, <2>3, DeleteIs DEF RmLast
    <3> QED
      BY <1>6, <2>2, <3>1
  <2>4. ASSUME NEW e \in todo, RmDelete(e)
        PROVE  pc = "delete" /\ s = src.store /\ k = KeyAt(src, e.key)
    <3>1. objects' = Without(src.store, KeyAt(src, e.key))
      BY <1>1, <2>4, DeleteIs DEF RmDelete
    <3> QED
      BY <1>6, <2>2, <2>4, <3>1 DEF RmDelete
  <2> QED
    BY <2>1, <2>2, <2>3, <2>4
<1>8. CASE Cp
  <2>1. CpWrite
    BY <1>1, <1>8 DEF Cp, CpBegin, CpList, CpStat, CpOpen, CpEnd, Fault
  <2> DEFINE d == KeyAt(dst, Destination(entry.key))
  <2>2. /\ pc = "write"
        /\ \/ \E c : objects' = With(dst.store, d, c)
           \/ Ends("error") /\ dst.store \in Tree /\ objects' = Without(dst.store, d)
    BY <1>1, <2>1, CpWriteIs
  <2> HIDE DEF d
  <2>3. cmd.op = "cp" /\ dst.store \in Store
    BY <1>3, <2>2, CommandIs DEF Going, ControlOK
  <2>4. ASSUME NEW c, objects' = With(dst.store, d, c)
        PROVE  FALSE
    <3>1. \A t \in Store : Keys(t) \subseteq Keys(t)'
      BY <1>3, <2>3, <2>4, WithIs DEF Keys
    <3> QED
      BY <3>1 DEF Removed, Keys
  <2>5. Ends("error") /\ s = dst.store /\ s \in Tree /\ k = d
    BY <1>6, <2>2, <2>3, <2>4
  <2> QED
    BY <2>2, <2>3, <2>5 DEF Ends, d
<1> QED
  BY <1>1, <1>2, <1>4, <1>5, <1>7, <1>8 DEF Next, Finished, vars

\* fileops.go:137-278: whatever is listed and whatever fails, rm removes only names that
\* begin as its target says; and cp only, in a tree, the file it was to replace, when it
\* ends with an error.
THEOREM RemovalsAreNamed == Spec => RemovesAreNamed
<1> DEFINE OfRm(s, k) ==
              /\ s = cmd.from.store /\ ~Flag("dry-run")
              /\ HasPrefix(k, Named(cmd.from))
              /\ ~Whole(src) => k = Named(cmd.from)
              /\ \/ src.prefix = << >>
                 \/ s \notin Tree /\ EndsInSlash(src.prefix)
                 => k = Named(cmd.from) \/ Inside(k, Named(cmd.from))
           OfCp(s, k) ==
              /\ cmd.op = "cp" /\ pc = "write" /\ result' = "error"
              /\ s = cmd.to.store /\ s \in Tree
              /\ k = KeyAt(dst, Destination(entry.key))
           Named1 == ByCommand => \A s \in Store : \A k \in Removed(s) :
                        /\ cmd.op = "rm" => OfRm(s, k)
                        /\ cmd.op # "rm" => OfCp(s, k)
<1>1. ASSUME FileInv, [Next]_vars, ByCommand, NEW s \in Store, NEW k \in Removed(s), cmd.op = "rm"
      PROVE  OfRm(s, k)
  <2>1. /\ s = src.store /\ pc \in {"delete", "last"}
        /\ \/ k = KeyAt(src, src.prefix)
           \/ pc = "delete" /\ \E e \in todo : k = KeyAt(src, e.key)
    BY <1>1, RemovalsAre
  <2>2. /\ Resolved(src, cmd.from) /\ ~Flag("dry-run") /\ s = cmd.from.store
        /\ Whole(src) <=> pc = "delete"
    BY <1>1, <2>1, CommandIs DEF FileInv, ControlOK, Going
  <2>3. CASE k = KeyAt(src, src.prefix)
    <3>1. k \in Keys(s) /\ k # << >>
      BY <1>1 DEF Removed, FileInv, StoresOK, GoodKey
    <3>2. s \notin Tree => k = src.prefix
      BY <2>1, <2>3 DEF KeyAt
    <3>3. /\ HasPrefix(k, Named(cmd.from))
          /\ s \in Tree \/ ~src.isDir => k = Named(cmd.from)
          /\ s \notin Tree /\ EndsInSlash(src.prefix) => Inside(k, Named(cmd.from))
      BY <2>1, <2>2, <2>3, PrefixKey
    <3>4. ~Whole(src) => ~src.isDir
      BY DEF Whole
    <3> QED
      BY <2>1, <2>2, <3>1, <3>2, <3>3, <3>4
  <2>4. ASSUME pc = "delete", NEW e \in todo, k = KeyAt(src, e.key)
        PROVE  /\ HasPrefix(k, Named(cmd.from)) /\ Whole(src)
               /\ \/ src.prefix = << >>
                  \/ s \notin Tree /\ EndsInSlash(src.prefix)
                  => Inside(k, Named(cmd.from))
    <3>1. Listed(src, e.key) /\ Whole(src)
      BY <1>1, <2>2, <2>4 DEF FileInv, EntriesOK, GoodEntry, Lists
    <3> QED
      BY <2>1, <2>2, <2>4, <3>1, ListedKey
  <2> QED
    BY <2>1, <2>2, <2>3, <2>4
<1>2. ASSUME FileInv, [Next]_vars, ByCommand, NEW s \in Store, NEW k \in Removed(s), cmd.op # "rm"
      PROVE  OfCp(s, k)
  <2>1. /\ cmd.op = "cp" /\ pc = "write" /\ result' = "error"
        /\ s = dst.store /\ s \in Tree /\ k = KeyAt(dst, Destination(entry.key))
    BY <1>2, RemovalsAre
  <2>2. dst.store = cmd.to.store
    BY <1>2, <2>1, CommandIs DEF FileInv, Going
  <2> QED
    BY <2>1, <2>2
<1>3. FileInv /\ [Next]_vars => [Named1]_vars
  BY <1>1, <1>2
<1> QED
  BY <1>3, FileInvariant, PTL DEF Spec, RemovesAreNamed

-----------------------------------------------------------------------------
(* rm: its listing.                                                         *)

\* List misses no file in its target.
LEMMA ListingFinds ==
  ASSUME NEW ep, NEW t, Resolved(ep, t), ep.store \in Store, StoresOK,
         NEW k \in Keys(ep.store), ~EndsInSlash(k), Inside(k, Named(t))
  PROVE  /\ \E e \in Listing(ep) : KeyAt(ep, e.key) = k
<1> DEFINE r == ep.root
           p == ep.prefix
           c == Clean(p)
           n == NameIn(r, k)
<1>1. /\ r \in Word /\ Proper(r) /\ c \in Word /\ Proper(c) /\ p \in Word /\ IsPath(p)
      /\ ~BeginsWithSlash(p) /\ Named(t) = Join(r, c)
  BY Words DEF Resolved
<1>2. Proper(k) /\ k # << >> /\ k \in Word
  BY Words DEF StoresOK, GoodKey, Proper
<1>3. Named(t) \in Word
  BY <1>1, JoinIs
<1>4. Inside(k, r)
  BY <1>1, <1>2, InsideTrans
<1>5. Proper(n) /\ n # << >> /\ Join(r, n) = k /\ n \in Word
  BY <1>1, <1>2, <1>4, NameIs, Words
<1>6. HasPrefix(k, Named(t))
  BY <1>2, <1>3, PrefixOrder
<1>7. HasPrefix(n, c)
  <2>1. HasPrefix(Join(r, n), Join(r, c)) <=> HasPrefix(n, c)
    BY <1>1, <1>5, JoinOrder
  <2> QED
    BY <1>1, <1>5, <1>6, <2>1
<1>8. HasPrefix(n, ListPrefix(ep))
  <2>1. CASE ep.store \in Tree
    BY <1>7, <2>1 DEF ListPrefix
  <2>2. CASE ep.store \notin Tree /\ ~EndsInSlash(p)
    BY <1>1, <1>7, <2>2, CleanProper DEF ListPrefix, Proper
  <2>3. CASE ep.store \notin Tree /\ EndsInSlash(p)
    <3>1. r = << >> /\ ListPrefix(ep) = p
      BY <2>3, FileOpsAssumption DEF Resolved, ListPrefix
    <3>2. n = k /\ Named(t) = c
      BY <1>1, <3>1, JoinIs DEF NameIn
    <3>3. /\ c # << >> /\ Len(p) = Len(c) + 1 /\ \A i \in 1..Len(c) : p[i] = c[i]
          /\ Len(c) \in Nat /\ Len(p) \in Nat /\ p[Len(p)] = Slash /\ Len(k) \in Nat
      BY <1>1, <1>2, <2>3, CleanIs, SlashAt DEF Word
    <3>4. Len(c) < Len(k) /\ k[Len(c) + 1] = Slash /\ \A i \in 1..Len(c) : k[i] = c[i]
      BY <1>1, <1>2, <3>2, <3>3, InsideIs
    <3>5. HasPrefix(k, p)
      <4>1. \A i \in 1..Len(p) : i \in 1..Len(c) \/ i = Len(c) + 1
        BY <3>3
      <4>2. \A i \in 1..Len(p) : k[i] = p[i]
        BY <3>3, <3>4, <4>1
      <4> QED
        BY <1>1, <1>2, <3>3, <3>4, <4>2, PrefixIs
    <3> QED
      BY <3>1, <3>2, <3>5
  <2> QED
    BY <2>1, <2>2, <2>3
<1> DEFINE e == [key |-> n, size |-> objects[ep.store][k].kept]
<1>9. e \in Listing(ep)
  BY <1>4, <1>8 DEF Listing, NameIn
<1>10. e.key = n /\ Listed(ep, n)
  BY <1>5, <1>8 DEF Listed
<1>11. KeyAt(ep, n) = k
  BY <1>5, <1>10, ListedKey
<1> QED
  BY <1>9, <1>10, <1>11

\* A bucket whose files under a prefix fit in a page lists them all.
LEMMA OnePageIs ==
  ASSUME NEW ep, NEW t, Resolved(ep, t), ep.store \in Store, StoresOK, before \in Setups,
         edited = {}, Keys(ep.store) \subseteq before[ep.store], OnePage(t)
  PROVE  Pages(ep) = {Listing(ep)}
<1>1. CASE ep.store \in Tree
  BY <1>1 DEF Pages
<1>2. CASE ep.store \notin Tree
  <2> DEFINE S == {k \in Keys(ep.store) : /\ Inside(k, ep.root) /\ ~EndsInSlash(k)
                                          /\ HasPrefix(NameIn(ep.root, k), ListPrefix(ep))}
             f == [k \in S |-> [key |-> NameIn(ep.root, k), size |-> objects[ep.store][k].kept]]
  <2>1. Listing(ep) = {f[k] : k \in S}
    BY DEF Listing, NameIn
  <2>2. f \in Surjection(S, Listing(ep))
    BY <2>1 DEF Surjection
  <2>3. Ever(t.store) = before[t.store] /\ t.store = ep.store
    BY DEF Ever, Resolved
  <2>4. \A k \in S : HasPrefix(k, Named(t))
    <3> TAKE k \in S
    <3>1. /\ ep.root = << >> /\ ListPrefix(ep) = ep.prefix
          /\ KeyAt(ep, ep.prefix) = ep.prefix /\ NameIn(ep.root, k) = k
      BY <1>2, FileOpsAssumption DEF Resolved, ListPrefix, KeyAt, NameIn
    <3>2. HasPrefix(ep.prefix, Named(t)) /\ HasPrefix(k, ep.prefix)
      BY <3>1, PrefixKey
    <3>3. k \in Word /\ ep.prefix \in Word /\ Named(t) \in Word
      BY Words, JoinIs DEF StoresOK, GoodKey, Resolved
    <3> QED
      BY <3>2, <3>3, PrefixOrder
  <2>5. S \subseteq Beginning(t)
    BY <2>3, <2>4 DEF Beginning
  <2>6. IsFiniteSet(Beginning(t))
    <3>1. IsFiniteSet(before[ep.store])
      BY SetupsAssumption
    <3>2. Beginning(t) \in SUBSET before[ep.store]
      BY <2>3 DEF Beginning
    <3> QED
      BY <3>1, <3>2, FS_Subset
  <2>7. Cardinality(Beginning(t)) <= PageSize
    BY <1>2, <2>3 DEF OnePage
  <2> HIDE DEF S, f
  <2>8. IsFiniteSet(S) /\ Cardinality(S) <= Cardinality(Beginning(t))
    <3>1. S \in SUBSET Beginning(t)
      BY <2>5
    <3> QED
      BY <2>6, <3>1, FS_Subset
  <2>9. IsFiniteSet(Listing(ep)) /\ Cardinality(Listing(ep)) <= Cardinality(S)
    BY <2>2, <2>8, FS_Surjection
  <2>10. Cardinality(Listing(ep)) <= PageSize
    <3>1. /\ Cardinality(Listing(ep)) \in Nat /\ Cardinality(S) \in Nat
          /\ Cardinality(Beginning(t)) \in Nat /\ PageSize \in Nat
      BY <2>6, <2>8, <2>9, FS_CardinalityType, FileOpsAssumption
    <3> QED
      BY <2>7, <2>8, <2>9, <3>1
  <2> QED
    BY <2>10 DEF Pages
<1> QED
  BY <1>1, <1>2

-----------------------------------------------------------------------------
(* rm: the invariant.                                                       *)

\* While nobody else writes, rm has a file to come to for each that is left.
RmInv ==
    cmd.op = "rm" /\ edited = {} =>
       /\ \A s \in Store : Keys(s) \subseteq before[s]
       /\ (OnePage(cmd.from) /\ ~Flag("force") /\ pc = "delete") =>
             \A k \in Keys(src.store) :
                ~EndsInSlash(k) /\ Inside(k, Named(cmd.from)) => \E e \in todo : KeyAt(src, e.key) = k
       /\ RmRemoves

\* A step of rm that removes nothing, and does not begin or succeed, keeps the invariant.
LEMMA RmFrame ==
  ASSUME FileInv, RmInv, UNCHANGED <<objects, cmd, src, before, edited>>, cmd.op = "rm", edited = {},
         pc' # "delete", result' # "ok" \/ Flag("dry-run")
  PROVE  RmInv'
<1>1. \A s \in Store : (Keys(s) \subseteq before[s])'
  BY DEF RmInv, Keys
<1>2. RmRemoves'
  BY DEF RmRemoves, Flag
<1> QED
  BY <1>1, <1>2 DEF RmInv

\* So does every other step of rm.
LEMMA RmInvRm ==
  ASSUME FileInv, RmInv, Rm, UNCHANGED <<cmd, before, edited>>
  PROVE  RmInv'
<1> SUFFICES ASSUME cmd.op = "rm", edited = {} PROVE RmInv'
  BY DEF RmInv
<1>1. StoresOK /\ ControlOK /\ EntriesOK /\ \A s \in Store : Keys(s) \subseteq before[s]
  BY DEF FileInv, RmInv
<1>2. /\ Going => /\ Resolved(src, cmd.from) /\ src.store \in Store /\ src.store = cmd.from.store
      /\ before \in Setups
  BY <1>1, CommandIs DEF ControlOK
<1>3. CASE RmBegin
  <2>1. CASE Ends("ok") /\ Flag("dry-run")
    <3>1. RmRemoves'
      BY <2>1 DEF RmRemoves, Flag
    <3> QED
      BY <1>1, <1>3, <2>1, <3>1 DEF RmInv, RmBegin, Ends, Keys
  <2>2. CASE pc' # "delete" /\ result' # "ok"
    <3>1. RmRemoves'
      BY <2>2 DEF RmRemoves
    <3> QED
      BY <1>1, <1>3, <2>2, <3>1 DEF RmInv, RmBegin, Keys
  <2>3. pc = "begin" /\ result = "none"
    BY <1>1, <1>3 DEF RmBegin, ControlOK
  <2> QED
    BY <1>3, <2>1, <2>2, <2>3 DEF RmBegin, Ends, Goto
<1>4. CASE RmStat
  <2>1. UNCHANGED <<objects, src>> /\ pc' # "delete" /\ result' # "ok"
    BY <1>1, <1>4 DEF RmStat, Goto, Ends, work, ControlOK
  <2> QED
    BY <2>1, RmFrame
<1>5. CASE RmList
  <2>1. UNCHANGED <<objects, src>> /\ pc = "list" /\ result = "none"
    BY <1>1, <1>5 DEF Fault, RmList, ControlOK
  <2>2. CASE Ends("error")
    BY <2>1, <2>2, RmFrame DEF Ends
  <2>3. CASE Goto("delete") /\ todo' \in Pages(src)
    <3>1. RmRemoves'
      BY <2>1, <2>3 DEF RmRemoves, Goto
    <3>2. ASSUME OnePage(cmd.from), NEW k \in Keys(src.store), ~EndsInSlash(k), Inside(k, Named(cmd.from))
          PROVE  \E e \in todo' : KeyAt(src, e.key) = k
      <4>1. Resolved(src, cmd.from) /\ src.store \in Store
        BY <1>2, <2>1 DEF Going
      <4>2. todo' = Listing(src)
        BY <1>1, <1>2, <2>3, <3>2, <4>1, OnePageIs
      <4> QED
        BY <1>1, <3>2, <4>1, <4>2, ListingFinds
    <3>3. OnePage(cmd.from)' => OnePage(cmd.from)
      BY DEF OnePage, Beginning, Ever
    <3> QED
      BY <1>1, <2>1, <3>1, <3>2, <3>3 DEF RmInv, Keys
  <2> QED
    BY <1>5, <2>2, <2>3 DEF RmList
<1>6. ASSUME NEW e \in todo, RmDelete(e)
      PROVE  RmInv'
  <2>1. pc = "delete" /\ UNCHANGED src /\ result = "none" /\ src.store \in Store
    BY <1>1, <1>2, <1>6 DEF RmDelete, ControlOK, Going
  <2>2. /\ objects' = objects \/ objects' = Without(src.store, KeyAt(src, e.key))
        /\ todo' = todo \ {e}
        /\ Flag("force") \/ Ends("error") \/ objects' = Without(src.store, KeyAt(src, e.key))
        /\ Goto("delete") \/ Ends("error")
    BY <1>6, DeleteIs DEF RmDelete, Tolerated
  <2>3. \A s \in Store : DOMAIN objects'[s] \subseteq Keys(s)
    BY <1>1, <2>1, <2>2, WithoutIs DEF Keys
  <2>4. RmRemoves'
    BY <2>1, <2>2 DEF RmRemoves, Goto, Ends
  <2>5. ASSUME ~Flag("force"), OnePage(cmd.from), pc' = "delete", NEW k \in DOMAIN objects'[src.store],
               ~EndsInSlash(k), Inside(k, Named(cmd.from))
        PROVE  \E f \in todo' : KeyAt(src, f.key) = k
    <3>1. objects' = Without(src.store, KeyAt(src, e.key))
      BY <2>2, <2>5 DEF Ends
    <3>2. DOMAIN objects'[src.store] = Keys(src.store) \ {KeyAt(src, e.key)}
      BY <1>1, <2>1, <3>1, WithoutIs DEF Keys
    <3>3. PICK f \in todo : KeyAt(src, f.key) = k
      BY <2>1, <2>3, <2>5 DEF RmInv
    <3>4. f # e
      BY <2>5, <3>2, <3>3
    <3> QED
      BY <2>2, <3>3, <3>4
  <2>6. OnePage(cmd.from)' => OnePage(cmd.from)
    BY DEF OnePage, Beginning, Ever
  <2> QED
    BY <1>1, <2>1, <2>3, <2>4, <2>5, <2>6 DEF RmInv, Keys, Flag
<1>7. CASE RmLast
  <2> DEFINE key == KeyAt(src, src.prefix)
  <2>1. /\ pc = "last" \/ (pc = "delete" /\ todo = {})
        /\ UNCHANGED src /\ result = "none" /\ src.store \in Store
    BY <1>1, <1>2, <1>7 DEF RmLast, ControlOK, work, Going
  <2>2. /\ objects' = objects \/ objects' = Without(src.store, key)
        /\ result' = "ok" => objects' = Without(src.store, key) \/ pc = "delete"
        /\ pc' = "done"
    BY <1>7, <2>1, DeleteIs DEF RmLast, Ends
  <2>3. \A s \in Store : DOMAIN objects'[s] \subseteq Keys(s)
    BY <1>1, <2>1, <2>2, WithoutIs DEF Keys
  <2>4. Resolved(src, cmd.from) /\ src.store = cmd.from.store /\ (Whole(src) <=> pc = "delete")
    BY <1>1, <1>2, <2>1 DEF Going, ControlOK
  <2>5. ASSUME result' = "ok", ~Flag("force"), OnePage(cmd.from), NEW k \in DOMAIN objects'[src.store],
               ~EndsInSlash(k)
        PROVE  IF Whole(src) THEN ~Inside(k, Named(cmd.from)) ELSE k # Named(cmd.from)
    <3>1. CASE pc = "delete"
      <4>1. todo = {} /\ k \in Keys(src.store)
        BY <2>1, <2>3, <2>5, <3>1
      <4> QED
        BY <2>4, <2>5, <3>1, <4>1 DEF RmInv
    <3>2. CASE pc = "last"
      <4>1. objects' = Without(src.store, key)
        BY <2>2, <2>5, <3>2
      <4>2. k # key
        BY <1>1, <2>1, <2>5, <4>1, WithoutIs DEF Keys
      <4>3. ~Whole(src) /\ key = Named(cmd.from)
        BY <2>4, <3>2, PrefixKey DEF Whole
      <4> QED
        BY <4>2, <4>3
    <3> QED
      BY <2>1, <3>1, <3>2
  <2>6. OnePage(cmd.from)' => OnePage(cmd.from)
    BY DEF OnePage, Beginning, Ever
  <2>7. RmRemoves'
    BY <2>1, <2>4, <2>5, <2>6 DEF RmRemoves, Keys, Flag, Whole
  <2> QED
    BY <1>1, <2>2, <2>3, <2>7 DEF RmInv, Keys
<1> QED
  BY <1>3, <1>4, <1>5, <1>6, <1>7 DEF Rm

\* Every step keeps the invariant of rm.
LEMMA RmInvNext == FileInv /\ RmInv /\ [Next]_vars => RmInv'
<1> SUFFICES ASSUME FileInv, RmInv, [Next]_vars PROVE RmInv'
  OBVIOUS
<1>1. CASE UNCHANGED vars
  <2>1. UNCHANGED <<objects, cmd, pc, src, todo, result, before, edited>>
    BY <1>1 DEF vars, work
  <2>2. RmRemoves => RmRemoves'
    BY <2>1 DEF RmRemoves, OnePage, Beginning, Ever, Keys, Flag, Whole
  <2> QED
    BY <2>1, <2>2 DEF RmInv, OnePage, Beginning, Ever, Keys, Flag
<1>2. CASE Rm /\ UNCHANGED <<cmd, before, edited>>
  BY <1>2, RmInvRm
<1>3. CASE (Cp \/ Sync) /\ UNCHANGED <<cmd, before, edited>>
  <2>1. cmd.op # "rm"
    BY <1>3 DEF FileInv, ControlOK, Cp, CpBegin, CpList, CpStat, CpOpen, CpWrite, CpEnd,
                Sync, SyncBegin, SyncListSrc, SyncListDst
  <2> QED
    BY <1>3, <2>1 DEF RmInv
<1>4. ASSUME NEW s \in Store, NEW k, Edit(s, k), UNCHANGED <<cmd, before>>
      PROVE  RmInv'
  BY <1>4 DEF Edit, RmInv
<1> QED
  BY <1>1, <1>2, <1>3, <1>4 DEF Next, Finished

\* fileops.go:244-277: an rm that reports success has removed its target, and with its
\* directory all the files in it, for all stores, targets, page sizes and interleavings.
THEOREM FilesAreRemoved == Spec => []RmRemoves
<1>1. Init => RmInv
  BY DEF Init, RmInv, RmRemoves, Keys
<1>2. FileInv /\ RmInv /\ [Next]_vars => RmInv'
  BY RmInvNext
<1>3. RmInv => RmRemoves
  BY DEF RmInv, RmRemoves
<1> QED
  BY <1>1, <1>2, <1>3, FileInvariant, PTL DEF Spec

-----------------------------------------------------------------------------
(* Paths below paths.                                                       *)

\* Below a path below another.
LEMMA JoinAssoc ==
  ASSUME NEW r \in Word, NEW c \in Word, NEW n \in Word, n # << >>
  PROVE  Join(r, Join(c, n)) = Join(Join(r, c), n)
<1>1. CASE r = << >> \/ c = << >>
  BY <1>1, JoinIs
<1>2. CASE r # << >> /\ c # << >>
  <2>1. Join(c, n) = c \o <<Slash>> \o n /\ Join(r, c) = r \o <<Slash>> \o c
    BY <1>2 DEF Join
  <2>2. Join(c, n) # << >> /\ Join(r, c) # << >>
    <3>1. Len(Join(c, n)) = Len(c) + 1 + Len(n) /\ Len(Join(r, c)) = Len(r) + 1 + Len(c)
      BY <1>2, JoinIs
    <3>2. Len(c) \in Nat /\ Len(n) \in Nat /\ Len(r) \in Nat
      BY DEF Word
    <3> QED
      BY <3>1, <3>2
  <2> DEFINE a == Join(r, Join(c, n))
             b == Join(Join(r, c), n)
             m == Join(c, n)
             l == Join(r, c)
  <2>3. Len(c) \in Nat /\ Len(n) \in Nat /\ Len(r) \in Nat /\ m \in Word /\ l \in Word
    <3>1. m \in Word /\ l \in Word
      BY JoinIs
    <3> HIDE DEF m, l
    <3> QED
      BY <3>1 DEF Word
  <2>4. /\ Len(m) = Len(c) + 1 + Len(n) /\ Len(l) = Len(r) + 1 + Len(c)
        /\ (\A i \in 1..Len(c) : m[i] = c[i]) /\ m[Len(c) + 1] = Slash
        /\ \A i \in 1..Len(n) : m[Len(c) + 1 + i] = n[i]
        /\ (\A i \in 1..Len(r) : l[i] = r[i]) /\ l[Len(r) + 1] = Slash
        /\ \A i \in 1..Len(c) : l[Len(r) + 1 + i] = c[i]
    BY <1>2, JoinIs
  <2>5. m # << >> /\ l # << >>
    BY <2>2
  <2>6. a = Join(r, m) /\ b = Join(l, n)
    OBVIOUS
  <2> HIDE DEF m, l, a, b
  <2>7. /\ a \in Word /\ Len(a) = Len(r) + 1 + Len(m)
        /\ (\A i \in 1..Len(r) : a[i] = r[i]) /\ a[Len(r) + 1] = Slash
        /\ \A i \in 1..Len(m) : a[Len(r) + 1 + i] = m[i]
    <3>1. Join(r, m) \in Word
      BY <2>3, JoinIs
    <3>2. /\ Len(Join(r, m)) = Len(r) + 1 + Len(m)
          /\ \A i \in 1..Len(r) : Join(r, m)[i] = r[i]
      BY <1>2, <2>3, <2>5, JoinIs
    <3>3. /\ Join(r, m)[Len(r) + 1] = Slash
          /\ \A i \in 1..Len(m) : Join(r, m)[Len(r) + 1 + i] = m[i]
      BY <1>2, <2>3, <2>5, JoinIs
    <3> QED
      BY <2>6, <3>1, <3>2, <3>3
  <2>8. /\ b \in Word /\ Len(b) = Len(l) + 1 + Len(n)
        /\ (\A i \in 1..Len(l) : b[i] = l[i]) /\ b[Len(l) + 1] = Slash
        /\ \A i \in 1..Len(n) : b[Len(l) + 1 + i] = n[i]
    <3>1. Join(l, n) \in Word
      BY <2>3, JoinIs
    <3>2. /\ Len(Join(l, n)) = Len(l) + 1 + Len(n)
          /\ \A i \in 1..Len(l) : Join(l, n)[i] = l[i]
      BY <2>3, <2>5, JoinIs
    <3>3. /\ Join(l, n)[Len(l) + 1] = Slash
          /\ \A i \in 1..Len(n) : Join(l, n)[Len(l) + 1 + i] = n[i]
      BY <2>3, <2>5, JoinIs
    <3> QED
      BY <2>6, <3>1, <3>2, <3>3
  <2>9. Len(a) = Len(b) /\ Len(a) = Len(r) + 2 + Len(c) + Len(n)
    BY <2>3, <2>4, <2>7, <2>8
  <2>10. ASSUME NEW i \in 1..Len(a)
         PROVE  a[i] = b[i]
    <3>1. CASE i <= Len(r) + 1
      <4>1. i \in 1..Len(l) /\ (i \in 1..Len(r) \/ i = Len(r) + 1)
        <5>1. Len(l) = Len(r) + 1 + Len(c) /\ i \in Nat /\ i > 0
          BY <2>3, <2>4, <2>9
        <5> QED
          BY <2>3, <3>1, <5>1
      <4>2. a[i] = l[i] /\ b[i] = l[i]
        BY <2>4, <2>7, <2>8, <4>1
      <4> QED
        BY <4>2
    <3>2. CASE i > Len(r) + 1 /\ i <= Len(r) + 1 + Len(c)
      <4>1. PICK j \in 1..Len(c) : i = Len(r) + 1 + j
        <5>1. i - Len(r) - 1 \in 1..Len(c) /\ i = Len(r) + 1 + (i - Len(r) - 1)
          BY <2>3, <3>2
        <5> QED
          BY <5>1
      <4>2. j \in 1..Len(m) /\ i \in 1..Len(l)
        BY <2>3, <2>4, <4>1
      <4>3. a[i] = m[j] /\ b[i] = l[i]
        BY <2>7, <2>8, <4>1, <4>2
      <4> QED
        BY <2>4, <4>1, <4>3
    <3>3. CASE i = Len(r) + 2 + Len(c)
      <4>1. Len(c) + 1 \in 1..Len(m) /\ i = Len(r) + 1 + (Len(c) + 1) /\ i = Len(l) + 1
        BY <2>3, <2>4, <3>3
      <4>2. a[Len(r) + 1 + (Len(c) + 1)] = m[Len(c) + 1]
        BY <2>7, <4>1
      <4> QED
        BY <2>4, <2>8, <4>1, <4>2
    <3>4. CASE i > Len(r) + 2 + Len(c)
      <4>1. PICK j \in 1..Len(n) : i = Len(r) + 2 + Len(c) + j
        <5>1. i - Len(r) - 2 - Len(c) \in 1..Len(n) /\ i = Len(r) + 2 + Len(c) + (i - Len(r) - 2 - Len(c))
          BY <2>3, <2>9, <3>4
        <5> QED
          BY <5>1
      <4>2. Len(c) + 1 + j \in 1..Len(m) /\ i = Len(r) + 1 + (Len(c) + 1 + j) /\ i = Len(l) + 1 + j
        BY <2>3, <2>4, <4>1
      <4>3. a[Len(r) + 1 + (Len(c) + 1 + j)] = m[Len(c) + 1 + j]
        BY <2>7, <4>2
      <4>4. m[Len(c) + 1 + j] = n[j] /\ b[Len(l) + 1 + j] = n[j]
        BY <2>4, <2>8
      <4> QED
        BY <4>2, <4>3, <4>4
    <3> QED
      BY <2>3, <3>1, <3>2, <3>3, <3>4
  <2>11. a = b
    BY <2>7, <2>8, <2>9, <2>10 DEF Word
  <2> QED
    BY <2>11 DEF a, b
<1> QED
  BY <1>1, <1>2

\* The base name does not change when a directory is put before a path.
LEMMA BaseJoin ==
  ASSUME NEW r, NEW p, Proper(r), Proper(p), p # << >>
  PROVE  Base(Join(r, p)) = Base(p)
<1>1. /\ r \in Word /\ p \in Word /\ Len(r) \in Nat /\ Len(p) \in Nat /\ Len(p) > 0
      /\ p[Len(p)] # Slash
  BY Words, ProperIs DEF Word
<1>2. CASE r = << >>
  BY <1>1, <1>2, JoinIs
<1>3. CASE r # << >>
  <2> DEFINE j == Join(r, p)
             l == LastSlash(p)
             m == LastSlash(j)
  <2>1. /\ j \in Word /\ Len(j) = Len(r) + 1 + Len(p) /\ j[Len(r) + 1] = Slash
        /\ \A i \in 1..Len(p) : j[Len(r) + 1 + i] = p[i]
    BY <1>1, <1>3, JoinIs
  <2> HIDE DEF j
  <2>2. /\ l \in 0..Len(p) /\ (l # 0 => p[l] = Slash) /\ \A i \in 1..Len(p) : i > l => p[i] # Slash
    BY <1>1, LastSlashIs
  <2>3. /\ m \in 0..Len(j) /\ (m # 0 => j[m] = Slash) /\ \A i \in 1..Len(j) : i > m => j[i] # Slash
    BY <2>1, LastSlashIs
  <2>4. Base(j) = SubSeq(j, m + 1, Len(j)) /\ Base(p) = SubSeq(p, l + 1, Len(p))
    BY DEF Base
  <2> HIDE DEF l, m
  <2>5. m = Len(r) + 1 + l
    <3>1. j[Len(r) + 1 + l] = Slash
      BY <1>1, <2>1, <2>2
    <3>2. ~(Len(r) + 1 + l > m)
      BY <1>1, <2>1, <2>2, <2>3, <3>1
    <3>3. ASSUME m > Len(r) + 1 + l PROVE FALSE
      <4>1. PICK i \in 1..Len(p) : m = Len(r) + 1 + i
        <5>1. m - Len(r) - 1 \in 1..Len(p) /\ m = Len(r) + 1 + (m - Len(r) - 1)
          BY <1>1, <2>1, <2>2, <2>3, <3>3
        <5> QED
          BY <5>1
      <4>2. i > l /\ j[m] = p[i] /\ m # 0
        BY <1>1, <2>1, <2>2, <3>3, <4>1
      <4> QED
        BY <2>2, <2>3, <4>2
    <3> QED
      BY <1>1, <2>2, <2>3, <3>2, <3>3
  <2>6. l < Len(p)
    BY <1>1, <2>2
  <2> DEFINE a == SubSeq(j, m + 1, Len(j))
             b == SubSeq(p, l + 1, Len(p))
  <2>7. a \in Word /\ Len(a) = Len(p) - l /\ \A i \in 1..Len(p) - l : a[i] = j[m + i]
    BY <1>1, <2>1, <2>2, <2>3, <2>5, <2>6 DEF Word
  <2>8. b \in Word /\ Len(b) = Len(p) - l /\ \A i \in 1..Len(p) - l : b[i] = p[l + i]
    BY <1>1, <2>2, <2>6 DEF Word
  <2> HIDE DEF a, b
  <2>9. ASSUME NEW i \in 1..Len(p) - l
        PROVE  a[i] = b[i]
    <3>1. l + i \in 1..Len(p) /\ m + i = Len(r) + 1 + (l + i)
      BY <1>1, <2>2, <2>5
    <3>2. j[Len(r) + 1 + (l + i)] = p[l + i]
      BY <2>1, <3>1
    <3> QED
      BY <2>7, <2>8, <3>1, <3>2
  <2>10. a = b
    BY <2>7, <2>8, <2>9 DEF Word
  <2> QED
    BY <2>4, <2>10 DEF a, b, j
<1> QED
  BY <1>2, <1>3

\* The path below a prefix of what is in it, and of the prefix itself.
LEMMA RelativeOf ==
  ASSUME NEW ep, NEW t, Resolved(ep, t)
  PROVE  /\ \A n : Proper(n) => Relative(ep, Join(Clean(ep.prefix), n)) = n
         /\ Clean(ep.prefix) # << >> => Relative(ep, Clean(ep.prefix)) = << >>
<1> DEFINE c == Clean(ep.prefix)
<1>1. Proper(c) /\ c \in Word /\ Len(c) \in Nat /\ ~BeginsWithSlash(c)
  <2>1. Proper(c) /\ c \in Word
    BY Words DEF Resolved
  <2> QED
    BY <2>1, Words DEF Word
<1>2. \A k : Relative(ep, k) = TrimPrefix(TrimPrefix(k, c), <<Slash>>)
  BY DEF Relative
<1> HIDE DEF c
<1>3. \A k \in Word : ~BeginsWithSlash(k) => TrimPrefix(k, <<Slash>>) = k
  BY DEF TrimPrefix, BeginsWithSlash
<1>4. TrimPrefix(c, c) = << >>
  <2>1. HasPrefix(c, c)
    BY <1>1, PrefixOrder
  <2>2. TrimPrefix(c, c) \in Word /\ Len(TrimPrefix(c, c)) = 0
    <3>1. TrimPrefix(c, c) \in Word /\ Len(TrimPrefix(c, c)) = Len(c) - Len(c)
      BY <1>1, <2>1, TrimIs
    <3> QED
      BY <1>1, <3>1
  <2> QED
    BY <2>2 DEF Word
<1>5. ASSUME NEW n, Proper(n)
      PROVE  Relative(ep, Join(c, n)) = n
  <2>1. n \in Word /\ ~BeginsWithSlash(n) /\ Len(n) \in Nat
    BY <1>5, Words DEF Word
  <2>2. CASE n = << >>
    <3>1. Join(c, n) = c
      BY <1>1, <2>1, <2>2, JoinIs
    <3>2. TrimPrefix(n, <<Slash>>) = n
      BY <1>3, <2>1
    <3> QED
      BY <1>2, <1>4, <2>2, <3>1, <3>2
  <2>3. CASE c = << >>
    <3>1. Join(c, n) = n
      BY <1>1, <2>1, <2>3, JoinIs
    <3>2. TrimPrefix(n, c) = n
      <4>1. HasPrefix(n, c)
        BY <2>1, <2>3, PrefixOrder
      <4>2. /\ TrimPrefix(n, c) \in Word /\ Len(TrimPrefix(n, c)) = Len(n) - Len(c)
            /\ \A i \in 1..Len(n) - Len(c) : TrimPrefix(n, c)[i] = n[Len(c) + i]
        BY <1>1, <2>1, <4>1, TrimIs
      <4>3. Len(c) = 0
        BY <2>3
      <4> DEFINE u == TrimPrefix(n, c)
      <4> HIDE DEF u
      <4>4. u \in Word /\ Len(u) = Len(n) /\ \A i \in 1..Len(n) : u[i] = n[i]
        BY <2>1, <4>2, <4>3 DEF u
      <4>5. u = n
        BY <2>1, <4>4 DEF Word
      <4> QED
        BY <4>5 DEF u
    <3> QED
      BY <1>2, <1>3, <2>1, <3>1, <3>2
  <2>4. CASE n # << >> /\ c # << >>
    <3> DEFINE j == Join(c, n)
               u == TrimPrefix(j, c)
               v == TrimPrefix(u, <<Slash>>)
    <3>1. /\ j \in Word /\ Len(j) = Len(c) + 1 + Len(n) /\ j[Len(c) + 1] = Slash
          /\ \A i \in 1..Len(c) : j[i] = c[i]
          /\ \A i \in 1..Len(n) : j[Len(c) + 1 + i] = n[i]
      BY <1>1, <2>1, <2>4, JoinIs
    <3> HIDE DEF j
    <3>2. HasPrefix(j, c)
      BY <1>1, <2>1, <3>1, PrefixIs
    <3>3. /\ u \in Word /\ Len(u) = 1 + Len(n)
          /\ \A i \in 1..1 + Len(n) : u[i] = j[Len(c) + i]
      <4>1. /\ u \in Word /\ Len(u) = Len(j) - Len(c)
            /\ \A i \in 1..Len(j) - Len(c) : u[i] = j[Len(c) + i]
        BY <1>1, <3>1, <3>2, TrimIs
      <4>2. Len(j) - Len(c) = 1 + Len(n)
        BY <1>1, <2>1, <3>1
      <4> QED
        BY <4>1, <4>2
    <3> HIDE DEF u
    <3>4. HasPrefix(u, <<Slash>>)
      <4>1. u # << >> /\ u[1] = Slash
        BY <1>1, <2>1, <3>1, <3>3
      <4> QED
        BY <3>3, <4>1, SlashAt DEF BeginsWithSlash
    <3>5. v \in Word /\ Len(v) = Len(n) /\ \A i \in 1..Len(n) : v[i] = n[i]
      <4> DEFINE q == <<Slash>>
      <4>1. q \in Word /\ Len(q) = 1
        BY SlashIs
      <4>2. v = TrimPrefix(u, q)
        OBVIOUS
      <4>3. HasPrefix(u, q)
        BY <3>4
      <4> HIDE DEF q, v
      <4>4. v \in Word /\ Len(v) = Len(u) - 1 /\ \A i \in 1..Len(u) - 1 : v[i] = u[1 + i]
        <5>1. /\ TrimPrefix(u, q) \in Word /\ Len(TrimPrefix(u, q)) = Len(u) - Len(q)
              /\ \A i \in 1..Len(u) - Len(q) : TrimPrefix(u, q)[i] = u[Len(q) + i]
          BY <3>3, <4>1, <4>3, TrimIs
        <5> QED
          BY <4>1, <4>2, <5>1
      <4>5. ASSUME NEW i \in 1..Len(n) PROVE v[i] = n[i]
        <5>1. 1 + i \in 1..1 + Len(n) /\ i \in 1..Len(u) - 1 /\ Len(c) + (1 + i) = Len(c) + 1 + i
          BY <1>1, <2>1, <3>3
        <5>2. v[i] = u[1 + i] /\ u[1 + i] = j[Len(c) + (1 + i)] /\ j[Len(c) + 1 + i] = n[i]
          BY <3>1, <3>3, <4>4, <5>1
        <5> QED
          BY <5>1, <5>2
      <4> QED
        BY <2>1, <3>3, <4>4, <4>5
    <3> HIDE DEF v
    <3>6. v = n
      BY <2>1, <3>5 DEF Word
    <3> QED
      BY <1>2, <3>6 DEF v, u, j
  <2> QED
    BY <2>2, <2>3, <2>4
<1>6. TrimPrefix(<< >>, <<Slash>>) = << >>
  <2>1. << >> \in Word /\ ~BeginsWithSlash(<< >>)
    BY SlashIs, EmptyIs, Words
  <2> QED
    BY <1>3, <2>1
<1>7. Relative(ep, c) = << >>
  BY <1>2, <1>4, <1>6
<1> QED
  BY <1>5, <1>7 DEF c

\* Where a relative path leads in a destination: into it, or to the destination itself.
LEMMA BelowOf ==
  ASSUME NEW ep, NEW t, Resolved(ep, t), NEW n, Proper(n)
  PROVE  /\ n # << >> => /\ KeyAt(ep, Below(ep, n)) = Join(Named(t), n)
                         /\ Below(ep, n) = Join(Clean(ep.prefix), n)
         /\ n = << >> => \/ KeyAt(ep, Below(ep, n)) = Named(t)
                         \/ /\ EndsInSlash(KeyAt(ep, Below(ep, n)))
                            /\ Inside(KeyAt(ep, Below(ep, n)), Named(t))
<1> DEFINE r == ep.root
           c == Clean(ep.prefix)
<1>1. /\ Proper(r) /\ r \in Word /\ Proper(c) /\ c \in Word /\ n \in Word /\ Named(t) = Join(r, c)
      /\ ep.store \notin Tree => r = << >>
  BY Words, FileOpsAssumption DEF Resolved
<1>2. CASE n # << >>
  <2>1. Below(ep, n) = Join(c, n)
    BY <1>2 DEF Below, Join
  <2>2. Proper(Join(c, n))
    BY <1>1, JoinProper
  <2>3. KeyAt(ep, Join(c, n)) = Join(r, Join(c, n))
    <3>1. CASE ep.store \in Tree
      BY <2>2, <3>1, CleanProper DEF KeyAt
    <3>2. CASE ep.store \notin Tree
      BY <1>1, <2>2, <3>2, JoinIs, Words DEF KeyAt
    <3> QED
      BY <3>1, <3>2
  <2>4. Join(r, Join(c, n)) = Join(Named(t), n)
    BY <1>1, <1>2, JoinAssoc
  <2> QED
    BY <1>2, <2>1, <2>3, <2>4
<1>3. CASE n = << >> /\ c = << >>
  <2>1. Below(ep, n) = << >> /\ Clean(<< >>) = << >>
    BY <1>3, EmptyIs DEF Below
  <2>2. Named(t) = r /\ Join(r, << >>) = r
    BY <1>1, <1>3, JoinIs
  <2>3. KeyAt(ep, << >>) = r
    BY <1>1, <2>1, <2>2 DEF KeyAt
  <2> QED
    BY <1>3, <2>1, <2>2, <2>3
<1>4. CASE n = << >> /\ c # << >>
  <2> DEFINE b == Append(c, Slash)
  <2>1. Below(ep, n) = b
    <3>1. Below(ep, n) = (c \o <<Slash>>) \o << >>
      BY <1>4 DEF Below
    <3>2. (c \o <<Slash>>) \o << >> = b
      BY <1>1, SlashIs DEF Word
    <3> QED
      BY <3>1, <3>2
  <2>2. /\ b \in Word /\ Len(b) = Len(c) + 1 /\ Len(c) \in Nat /\ b[Len(c) + 1] = Slash
        /\ \A i \in 1..Len(c) : b[i] = c[i]
    BY <1>1, AppendIs
  <2> HIDE DEF b
  <2>3. EndsInSlash(b) /\ Inside(b, c)
    <3>1. b # << >> /\ b[Len(b)] = Slash
      BY <2>2
    <3>2. Len(c) < Len(b)
      BY <2>2
    <3> QED
      BY <1>1, <2>2, <3>1, <3>2, SlashAt, InsideIs
  <2>4. IsPath(b) /\ ~BeginsWithSlash(b)
    BY <1>4, <2>1, BelowIs
  <2>5. Clean(b) = c
    <3>1. /\ Clean(b) # << >> /\ Len(b) = Len(Clean(b)) + 1 /\ Clean(b) \in Word
          /\ \A i \in 1..Len(Clean(b)) : b[i] = Clean(b)[i]
      BY <2>3, <2>4, CleanIs, Words
    <3> DEFINE d == Clean(b)
    <3> HIDE DEF d
    <3>2. d \in Word /\ Len(d) = Len(c) /\ \A i \in 1..Len(c) : d[i] = c[i]
      <4>1. Len(d) \in Nat /\ Len(b) = Len(d) + 1
        BY <3>1 DEF d, Word
      <4> QED
        BY <2>2, <3>1, <4>1 DEF d
    <3>3. d = c
      BY <1>1, <3>2 DEF Word
    <3> QED
      BY <3>3 DEF d
  <2>6. CASE ep.store \in Tree
    BY <1>1, <1>4, <2>1, <2>5, <2>6 DEF KeyAt
  <2>7. CASE ep.store \notin Tree
    <3>1. KeyAt(ep, b) = b /\ Named(t) = c
      BY <1>1, <2>7, JoinIs DEF KeyAt
    <3> QED
      BY <1>4, <2>1, <2>3, <3>1
  <2> QED
    BY <2>6, <2>7
<1> QED
  BY <1>2, <1>3, <1>4

-----------------------------------------------------------------------------
(* cp: where copies go.                                                     *)

\* A recursive cp puts what it lists in its destination, and a file of its source,
\* but nothing else, where that belongs.
LEMMA CopyTo ==
  ASSUME Resolved(src, cmd.from), Resolved(dst, cmd.to), Whole(src),
         NEW key, Listed(src, key), At(KeyAt(src, key), Named(cmd.from))
  PROVE  /\ At(KeyAt(dst, Destination(key)), Named(cmd.to))
         /\ \A j : Proper(j) /\ j # << >> /\ Inside(j, Named(cmd.from)) =>
               (KeyAt(dst, Destination(key)) = Belongs(j) <=> KeyAt(src, key) = j)
<1> DEFINE r == src.root
           c == Clean(src.prefix)
           N == Named(cmd.from)
           M == Named(cmd.to)
           k == KeyAt(src, key)
           rel == Relative(src, key)
           d == KeyAt(dst, Destination(key))
<1>1. /\ Proper(r) /\ r \in Word /\ Proper(c) /\ c \in Word /\ N = Join(r, c) /\ N \in Word
      /\ Proper(N)
  BY Words, JoinProper DEF Resolved
<1>2. M \in Word /\ Proper(M)
  BY Words, JoinProper DEF Resolved
<1>3. /\ k = Join(r, key) /\ Proper(k) /\ k # << >> /\ k \in Word
      /\ Proper(key) /\ key # << >> /\ key \in Word
  BY ListedKey, Words DEF Listed
<1>4. d = KeyAt(dst, Below(dst, rel)) /\ Proper(rel)
  BY <1>3, RelativeIs DEF Destination
<1>5. ASSUME NEW j, Proper(j), j # << >>, Inside(j, N)
      PROVE  /\ Proper(NameIn(N, j)) /\ NameIn(N, j) # << >> /\ NameIn(N, j) \in Word
             /\ j = Join(N, NameIn(N, j)) /\ Belongs(j) = Join(M, NameIn(N, j))
  <2>1. /\ Proper(NameIn(N, j)) /\ NameIn(N, j) # << >> /\ NameIn(N, j) \in Word
        /\ j = Join(N, NameIn(N, j))
    BY <1>1, <1>5, NameIs, Words
  <2>2. TrimPrefix(j, Append(N, Slash)) = NameIn(N, j)
    <3>1. CASE N = << >>
      <4>1. Append(N, Slash) = <<Slash>>
        BY <3>1
      <4>2. ~HasPrefix(j, <<Slash>>)
        BY <1>5, Words DEF BeginsWithSlash
      <4> QED
        BY <3>1, <4>1, <4>2 DEF NameIn, TrimPrefix
    <3>2. CASE N # << >>
      BY <3>2 DEF NameIn
    <3> QED
      BY <3>1, <3>2
  <2> QED
    BY <2>1, <2>2 DEF Belongs
<1>6. CASE Inside(k, N)
  <2> DEFINE n == NameIn(N, k)
  <2>1. Proper(n) /\ n # << >> /\ n \in Word /\ k = Join(N, n)
    BY <1>3, <1>5, <1>6
  <2> HIDE DEF n
  <2>2. key = Join(c, n)
    <3>1. Join(r, Join(c, n)) = Join(N, n) /\ Join(c, n) \in Word
      <4>1. r \in Word /\ c \in Word /\ n \in Word /\ n # << >> /\ N = Join(r, c)
        BY <1>1, <2>1
      <4> HIDE DEF r, c, N
      <4>2. Join(r, Join(c, n)) = Join(Join(r, c), n)
        BY <4>1, JoinAssoc
      <4> QED
        BY <4>1, <4>2, JoinIs
    <3> DEFINE m == Join(c, n)
    <3>0. Join(r, m) = Join(N, n) /\ m \in Word
      BY <3>1
    <3> HIDE DEF m, r, c, N, k
    <3>2. m \in Word /\ Join(r, key) = Join(r, m)
      BY <1>3, <2>1, <3>0
    <3>3. key = m
      BY <1>1, <1>3, <3>2, JoinOrder
    <3> QED
      BY <3>3 DEF m
  <2>3. rel = n
    BY <2>1, <2>2, RelativeOf
  <2>4. d = Join(M, n)
    BY <1>4, <2>1, <2>3, BelowOf
  <2>5. At(d, M)
    BY <1>2, <2>1, <2>4, JoinOrder DEF At
  <2>6. ASSUME NEW j, Proper(j), j # << >>, Inside(j, N)
        PROVE  d = Belongs(j) <=> k = j
    <3>1. /\ NameIn(N, j) \in Word /\ j = Join(N, NameIn(N, j)) /\ Belongs(j) = Join(M, NameIn(N, j))
      BY <1>5, <2>6
    <3>2. Join(M, n) = Join(M, NameIn(N, j)) <=> n = NameIn(N, j)
      BY <1>2, <2>1, <3>1, JoinOrder
    <3>3. Join(N, n) = Join(N, NameIn(N, j)) <=> n = NameIn(N, j)
      BY <1>1, <2>1, <3>1, JoinOrder
    <3> QED
      BY <2>1, <2>4, <3>1, <3>2, <3>3
  <2> QED
    BY <2>5, <2>6
<1>7. CASE k = N
  <2>1. key = c
    <3>1. Join(r, key) = Join(r, c)
      BY <1>1, <1>3, <1>7
    <3>2. r \in Word /\ key \in Word /\ c \in Word
      BY <1>1, <1>3
    <3> HIDE DEF r, c, k, N
    <3> QED
      BY <3>1, <3>2, JoinOrder
  <2>2. rel = << >>
    BY <1>3, <2>1, RelativeOf
  <2>3. d = M \/ (EndsInSlash(d) /\ Inside(d, M))
    BY <1>4, <2>2, BelowOf
  <2>4. At(d, M)
    BY <2>3 DEF At
  <2>5. ASSUME NEW j, Proper(j), j # << >>, Inside(j, N)
        PROVE  d # Belongs(j) /\ k # j
    <3> DEFINE n == NameIn(N, j)
    <3>1. /\ n \in Word /\ Proper(n) /\ n # << >> /\ Belongs(j) = Join(M, n)
      BY <1>5, <2>5
    <3>2. Proper(Join(M, n)) /\ Join(M, n) # M
      <4>1. Join(M, n) # M
        <5>1. Join(M, << >>) = M /\ << >> \in Word
          BY <1>2, SlashIs, JoinIs
        <5> QED
          BY <1>2, <3>1, <5>1, JoinOrder
      <4> QED
        BY <1>2, <3>1, <4>1, JoinProper
    <3>3. d # Belongs(j)
      BY <2>3, <3>1, <3>2, Words
    <3>4. k # j
      BY <1>3, <1>7, <2>5, PrefixOrder
    <3> QED
      BY <3>3, <3>4
  <2> QED
    BY <2>4, <2>5
<1> QED
  BY <1>6, <1>7 DEF At

\* A cp of a single file puts it where that belongs.
LEMMA CopyOne ==
  ASSUME Resolved(src, cmd.from), Resolved(dst, cmd.to), ~Whole(src)
  PROVE  /\ KeyAt(src, src.prefix) = Named(cmd.from)
         /\ ~LosesDirectory => KeyAt(dst, Destination(src.prefix)) = Belongs(Named(cmd.from))
<1> DEFINE p == src.prefix
           N == Named(cmd.from)
           M == Named(cmd.to)
<1>1. ~src.isDir /\ Proper(p) /\ p # << >>
  BY DEF Whole, Resolved, Proper
<1>2. KeyAt(src, p) = N
  BY <1>1, PrefixKey
<1>3. ASSUME ~LosesDirectory, dst.isDir
      PROVE  KeyAt(dst, Destination(p)) = Belongs(N)
  <2>1. dst.store = Disk /\ dst.prefix = << >> /\ Disk \in Tree
    BY <1>3, FileOpsAssumption DEF LosesDirectory, Resolved
  <2>2. Destination(p) = Base(p) /\ Belongs(N) = Join(M, Base(N))
    BY <1>3, <2>1 DEF Destination, Belongs
  <2>3. M = dst.root
    BY <2>1, EmptyIs, JoinIs, Words DEF Resolved
  <2>4. Proper(Base(p)) /\ Clean(Base(p)) = Base(p)
    BY <1>1, DirBase, CleanProper
  <2>5. Base(N) = Base(p)
    <3>1. N = Join(src.root, p) /\ Proper(src.root)
      BY <1>1, CleanProper DEF Resolved
    <3> QED
      BY <1>1, <3>1, BaseJoin
  <2> QED
    BY <2>1, <2>2, <2>3, <2>4, <2>5 DEF KeyAt
<1>4. ASSUME ~dst.isDir
      PROVE  KeyAt(dst, Destination(p)) = Belongs(N)
  <2>1. dst.prefix # << >>
    BY <1>4 DEF Resolved
  <2>2. Destination(p) = dst.prefix /\ Belongs(N) = M
    BY <1>4, <2>1 DEF Destination, Belongs
  <2> QED
    BY <1>4, <2>2, PrefixKey
<1> QED
  BY <1>2, <1>3, <1>4

-----------------------------------------------------------------------------
(* cp: the invariant.                                                       *)

\* A cp that is promised something.
Apart == cmd.op = "cp" /\ ~Overlap(cmd.from, cmd.to) /\ NoSiblings(cmd.from)

\* An object as it was, or as another client has written it.
Pristine(s, k) == /\ objects[s][k].of = k /\ objects[s][k].kept = objects[s][k].size
                  /\ objects[s][k].size = 2 \/ <<s, k>> \in edited

\* Before it lists, a cp has changed nothing.
CpStarts ==
    cmd.op = "cp" /\ pc \in {"begin", "stat", "list"} =>
       \A s \in Store : /\ Keys(s) \subseteq Ever(s) /\ \A k \in Keys(s) : Pristine(s, k)
                        /\ edited = {} => before[s] \subseteq Keys(s)

\* What it has listed is of its source, at the size there was ...
FromSource(e) == /\ At(KeyAt(src, e.key), Named(cmd.from))
                 /\ e.size = 2 \/ <<src.store, KeyAt(src, e.key)>> \in edited

\* ... where nothing changes on its own account while it still reads.
CpReads ==
    Apart /\ pc \in {"open", "write"} =>
       /\ \A e \in todo : FromSource(e)
       /\ todo # {} => \A k \in Keys(src.store) : At(k, Named(cmd.from)) => Pristine(src.store, k)
       /\ pc = "write" => /\ FromSource(entry)
                          /\ body.of = KeyAt(src, entry.key) /\ body.kept = body.size
                          /\ body.size = 2 \/ <<src.store, body.of>> \in edited
       /\ ~Whole(src) => (\A e, f \in todo : e = f) /\ (pc = "write" => todo = {})

\* An object is cut off only when its source was changed or a stream broke off.
CutsAreKnown ==
    Apart => \A s \in Store : \A k \in Keys(s) :
                objects[s][k].kept < objects[s][k].size
                => LET of == objects[s][k].of
                   IN  of \in broken \/ \E t \in Store : <<t, of>> \in edited

\* A file to be copied is still to come, or being copied, or copied.
Wanted(k) == IF Whole(src) THEN Inside(k, Named(cmd.from)) /\ ~EndsInSlash(k) ELSE k = Named(cmd.from)
Pending(k) == \/ \E e \in todo : KeyAt(src, e.key) = k
              \/ pc = "write" /\ KeyAt(src, entry.key) = k
IsCopy(c, k) == c = Content(k, 2) \/ (k \in broken /\ c.of = k)
Copied(k) == /\ Belongs(k) \in Keys(cmd.to.store)
             /\ IsCopy(objects[cmd.to.store][Belongs(k)], k)

\* When every file is promised to be copied.
Promised == Apart /\ edited = {} /\ OnePage(cmd.from) /\ ~LosesDirectory

\* ... and at the end all of them are copied.
CpCopiesAll ==
    /\ pc \in {"open", "write"} /\ Promised =>
          \A k \in before[cmd.from.store] : Wanted(k) => Pending(k) \/ Copied(k)
    /\ result = "ok" /\ Promised =>
          \A k \in before[cmd.from.store] : Wanted(k) => Copied(k)

\* The invariant of cp.
CpInv == CpStarts /\ CpReads /\ CutsAreKnown /\ CpCopiesAll

\* What another client does to the objects.
LEMMA EditIs ==
  ASSUME FileInv, NEW s \in Store, NEW k \in UNION {setup[s] : setup \in Setups}, Edit(s, k)
  PROVE  /\ \A t \in Store : \A j \in DOMAIN objects'[t] :
               \/ j \in Keys(t) /\ objects'[t][j] = objects[t][j]
               \/ /\ t = s /\ j = k /\ objects'[t][j].of = j
                  /\ objects'[t][j].kept = objects'[t][j].size
         /\ edited \subseteq edited' /\ <<s, k>> \in edited'
         /\ UNCHANGED <<pc, src, dst, todo, entry, body, plan, result, broken>>
<1>1. StoresOK
  BY DEF FileInv
<1>2. /\ UNCHANGED <<pc, src, dst, todo, entry, body, plan, result, broken>>
      /\ edited' = edited \cup {<<s, k>>}
  BY DEF Edit, work
<1>3. CASE objects' = Without(s, k)
  BY <1>1, <1>2, <1>3, WithoutIs DEF Keys
<1>4. ASSUME NEW size \in {1, 3}, objects' = With(s, k, Content(k, size))
      PROVE  \A t \in Store : \A j \in DOMAIN objects'[t] :
                \/ j \in Keys(t) /\ objects'[t][j] = objects[t][j]
                \/ /\ t = s /\ j = k /\ objects'[t][j].of = j
                   /\ objects'[t][j].kept = objects'[t][j].size
  <2> DEFINE c == Content(k, size)
  <2>1. c.of = k /\ c.kept = c.size
    BY DEF Content
  <2> HIDE DEF c
  <2>2. /\ \A t \in Store : t # s => objects'[t] = objects[t]
        /\ DOMAIN objects'[s] = Keys(s) \cup {k} /\ objects'[s][k] = c
        /\ \A j \in Keys(s) : j # k => objects'[s][j] = objects[s][j]
    BY <1>1, <1>4, WithIs DEF Keys, c
  <2> QED
    BY <2>1, <2>2 DEF Keys
<1> QED
  BY <1>2, <1>3, <1>4 DEF Edit

\* Another client's changes keep it, for it notes the keys they touch.
LEMMA CpInvEdit ==
  ASSUME FileInv, CpInv, NEW s \in Store, NEW k \in UNION {setup[s] : setup \in Setups}, Edit(s, k),
         UNCHANGED <<cmd, before>>
  PROVE  CpInv'
<1>1. /\ \A t \in Store : \A j \in DOMAIN objects'[t] :
            \/ j \in Keys(t) /\ objects'[t][j] = objects[t][j]
            \/ /\ t = s /\ j = k /\ objects'[t][j].of = j
               /\ objects'[t][j].kept = objects'[t][j].size
      /\ edited \subseteq edited' /\ <<s, k>> \in edited'
      /\ UNCHANGED <<pc, src, dst, todo, entry, body, plan, result, broken>>
  BY EditIs
<1>2. \A t \in Store : Ever(t) \subseteq Ever(t)' /\ k \in Ever(s)'
  BY <1>1 DEF Ever
<1>3. Apart' => Apart
  <2>1. cmd.from.store \in Store
    BY CommandIs DEF FileInv, Targeted
  <2>2. Beginning(cmd.from) \subseteq Beginning(cmd.from)'
    BY <1>2, <2>1 DEF Beginning
  <2> QED
    BY <2>2 DEF Apart, NoSiblings
<1>4. \A t \in Store : \A j \in DOMAIN objects'[t] :
         Pristine(t, j)' <=> \/ /\ objects'[t][j].of = j /\ objects'[t][j].kept = objects'[t][j].size
                                /\ objects'[t][j].size = 2 \/ <<t, j>> \in edited'
  BY DEF Pristine
<1>5. \A t \in Store : \A j \in DOMAIN objects'[t] :
         (j \in Keys(t) => Pristine(t, j)) => Pristine(t, j)'
  BY <1>1, <1>4 DEF Pristine
<1>6. CpStarts'
  <2>1. edited' # {}
    BY <1>1
  <2> SUFFICES ASSUME cmd.op = "cp", pc \in {"begin", "stat", "list"}, NEW t \in Store
               PROVE  DOMAIN objects'[t] \subseteq Ever(t)' /\ \A j \in DOMAIN objects'[t] : Pristine(t, j)'
    BY <1>1, <2>1 DEF CpStarts, Keys
  <2>2. Keys(t) \subseteq Ever(t) /\ \A j \in Keys(t) : Pristine(t, j)
    BY DEF CpInv, CpStarts
  <2> QED
    BY <1>1, <1>2, <1>5, <2>2
<1>7. CpReads'
  <2> SUFFICES ASSUME Apart, pc \in {"open", "write"}
               PROVE  CpReads'
    BY <1>1, <1>3 DEF CpReads
  <2>1. src.store \in Store
    BY CommandIs DEF FileInv, Going
  <2>2. \A e : FromSource(e) => FromSource(e)'
    BY <1>1 DEF FromSource
  <2>3. ASSUME todo # {}, NEW j \in DOMAIN objects'[src.store], At(j, Named(cmd.from))
        PROVE  /\ objects'[src.store][j].of = j
               /\ objects'[src.store][j].kept = objects'[src.store][j].size
               /\ objects'[src.store][j].size = 2 \/ <<src.store, j>> \in edited'
    <3>1. CASE j \in Keys(src.store) /\ objects'[src.store][j] = objects[src.store][j]
      <4>1. Pristine(src.store, j)
        BY <2>3, <3>1 DEF CpInv, CpReads
      <4> QED
        BY <1>1, <3>1, <4>1 DEF Pristine
    <3>2. CASE /\ src.store = s /\ j = k /\ objects'[src.store][j].of = j
               /\ objects'[src.store][j].kept = objects'[src.store][j].size
      BY <1>1, <3>2
    <3> QED
      BY <1>1, <2>1, <2>3, <3>1, <3>2
  <2>4. todo # {} => (\A j \in Keys(src.store) : At(j, Named(cmd.from)) => Pristine(src.store, j))'
    BY <1>1, <2>3 DEF Pristine, Keys
  <2>5. /\ \A e \in todo : FromSource(e)
        /\ pc = "write" => /\ FromSource(entry)
                           /\ body.of = KeyAt(src, entry.key) /\ body.kept = body.size
                           /\ body.size = 2 \/ <<src.store, body.of>> \in edited
        /\ ~Whole(src) => (\A e, f \in todo : e = f) /\ (pc = "write" => todo = {})
    BY DEF CpInv, CpReads
  <2>6. (Whole(src))' <=> Whole(src)
    BY <1>1 DEF Whole, Flag
  <2>8. \A e \in todo : FromSource(e)'
    BY <2>2, <2>5
  <2>9. pc = "write" => (FromSource(entry))'
    BY <1>1, <2>5 DEF FromSource
  <2>10. body.size = 2 \/ <<src.store, body.of>> \in edited =>
            body.size = 2 \/ <<src.store, body.of>> \in edited'
    BY <1>1
  <2> QED
    BY <1>1, <2>4, <2>5, <2>6, <2>8, <2>9, <2>10 DEF CpReads
<1>8. CutsAreKnown'
  <2> SUFFICES ASSUME Apart, NEW t \in Store, NEW j \in DOMAIN objects'[t],
                      objects'[t][j].kept < objects'[t][j].size
               PROVE  \/ objects'[t][j].of \in broken
                      \/ \E u \in Store : <<u, objects'[t][j].of>> \in edited'
    BY <1>1, <1>3 DEF CutsAreKnown, Keys
  <2>1. CASE j \in Keys(t) /\ objects'[t][j] = objects[t][j]
    BY <1>1, <2>1 DEF CpInv, CutsAreKnown
  <2>2. CASE t = s /\ j = k /\ objects'[t][j].of = j
    BY <1>1, <2>2
  <2> QED
    BY <1>1, <2>1, <2>2
<1>9. CpCopiesAll'
  BY <1>1 DEF CpCopiesAll, Promised
<1> QED
  BY <1>6, <1>7, <1>8, <1>9 DEF CpInv

-----------------------------------------------------------------------------
(* cp: the steps that read.                                                 *)

\* What a cp is promised something about stays so while nobody else writes.
LEMMA ApartKept ==
  ASSUME UNCHANGED <<cmd, before, edited>>
  PROVE  /\ Apart' <=> Apart
         /\ OnePage(cmd.from)' <=> OnePage(cmd.from)
         /\ \A s \in Store : Ever(s)' = Ever(s)
  BY DEF Apart, NoSiblings, Beginning, OnePage, Ever

\* Nor are objects cut off while none changes.
LEMMA CutsKept ==
  ASSUME UNCHANGED <<cmd, before, edited, broken, objects>>, CutsAreKnown
  PROVE  CutsAreKnown'
  BY ApartKept DEF CutsAreKnown, Keys

\* What cp lists is of its source, and all of it if nobody disturbs.
LEMMA CpListed ==
  ASSUME FileInv, CpInv, cmd.op = "cp", pc = "list", NEW page \in Pages(src)
  PROVE  /\ Apart => \A e \in page : FromSource(e)
         /\ Promised => \A k \in before[cmd.from.store] : Wanted(k) => \E e \in page : KeyAt(src, e.key) = k
<1>1. /\ Resolved(src, cmd.from) /\ src.store \in Store /\ src.store = cmd.from.store /\ StoresOK
      /\ before \in Setups /\ Whole(src)
  BY CommandIs DEF FileInv, ControlOK, Going
<1>2. /\ Keys(src.store) \subseteq Ever(src.store) /\ \A k \in Keys(src.store) : Pristine(src.store, k)
      /\ edited = {} => before[src.store] \subseteq Keys(src.store)
  BY <1>1 DEF CpInv, CpStarts
<1>3. ASSUME Apart, NEW e \in page
      PROVE  FromSource(e)
  <2>1. e \in Listing(src)
    BY PagesAre
  <2>2. /\ Listed(src, e.key) /\ KeyAt(src, e.key) \in Keys(src.store)
        /\ e.size = objects[src.store][KeyAt(src, e.key)].kept
    <3>1. /\ Listed(src, e.key) /\ KeyAt(src, e.key) \in Keys(src.store)
          /\ e = [key |-> e.key, size |-> objects[src.store][KeyAt(src, e.key)].kept]
      BY <1>1, <2>1, ListingIs
    <3>2. [key |-> e.key, size |-> objects[src.store][KeyAt(src, e.key)].kept].size
              = objects[src.store][KeyAt(src, e.key)].kept
      OBVIOUS
    <3> QED
      BY <3>1, <3>2
  <2>3. HasPrefix(KeyAt(src, e.key), Named(cmd.from))
    BY <1>1, <2>2, ListedKey
  <2>4. KeyAt(src, e.key) \in Beginning(cmd.from)
    BY <1>1, <1>2, <2>2, <2>3 DEF Beginning
  <2>5. At(KeyAt(src, e.key), Named(cmd.from))
    BY <1>3, <2>4 DEF Apart, NoSiblings, At
  <2> QED
    BY <1>2, <2>2, <2>5 DEF FromSource, Pristine
<1>4. ASSUME Promised, NEW k \in before[cmd.from.store], Wanted(k)
      PROVE  \E e \in page : KeyAt(src, e.key) = k
  <2>1. edited = {} /\ OnePage(cmd.from)
    BY <1>4 DEF Promised
  <2>2. Ever(src.store) = before[src.store]
    BY <2>1 DEF Ever
  <2>3. Pages(src) = {Listing(src)}
    BY <1>1, <1>2, <2>1, <2>2, OnePageIs
  <2>4. k \in Keys(src.store) /\ Inside(k, Named(cmd.from)) /\ ~EndsInSlash(k)
    BY <1>1, <1>2, <1>4, <2>1 DEF Wanted
  <2>5. \E e \in Listing(src) : KeyAt(src, e.key) = k
    BY <1>1, <2>4, ListingFinds
  <2> QED
    BY <2>3, <2>5
<1> QED
  BY <1>3, <1>4

\* Listing the source keeps the invariant of cp.
LEMMA CpInvList ==
  ASSUME FileInv, CpInv, CpList, UNCHANGED <<cmd, before, edited, broken>>
  PROVE  CpInv'
<1>1. /\ pc = "list" /\ cmd.op = "cp" /\ UNCHANGED <<objects, src, dst, entry, body>>
      /\ (Goto("open") /\ todo' \in Pages(src)) \/ Ends("error")
      /\ result = "none" /\ Whole(src)
  BY DEF Fault, CpList, FileInv, ControlOK
<1>2. CutsAreKnown'
  BY <1>1, CutsKept DEF CpInv
<1>3. CASE Ends("error")
  BY <1>2, <1>3 DEF Ends, CpInv, CpStarts, CpReads, CpCopiesAll
<1>4. CASE Goto("open") /\ todo' \in Pages(src)
  <2>1. /\ Apart => \A e \in todo' : FromSource(e)
        /\ Promised => \A k \in before[cmd.from.store] : Wanted(k) => \E e \in todo' : KeyAt(src, e.key) = k
    BY <1>1, <1>4, CpListed
  <2>2. src.store \in Store
    BY <1>1, CommandIs DEF FileInv, Going
  <2>3. \A k \in Keys(src.store) : Pristine(src.store, k)
    BY <1>1, <2>2 DEF CpInv, CpStarts
  <2>4. \A k \in Keys(src.store) : (Pristine(src.store, k))'
    BY <1>1, <2>3 DEF Pristine
  <2>5. (\A k \in Keys(src.store) : Pristine(src.store, k))'
    BY <1>1, <2>4 DEF Keys
  <2>6. Apart => \A e \in todo' : FromSource(e)'
    BY <1>1, <2>1 DEF FromSource
  <2>7. Whole(src)' /\ (Promised' => Promised)
    BY <1>1, ApartKept DEF Whole, Flag, Promised, LosesDirectory
  <2>8. CpReads'
    BY <1>1, <1>4, <2>5, <2>6, <2>7, ApartKept DEF CpReads, Goto
  <2>9. CpCopiesAll'
    <3>1. \A k : Wanted(k)' => Wanted(k)
      BY <1>1 DEF Wanted, Whole, Flag
    <3>2. \A k : (\E e \in todo' : KeyAt(src, e.key) = k) => Pending(k)'
      BY <1>1 DEF Pending
    <3> QED
      BY <1>1, <1>4, <2>1, <2>7, <3>1, <3>2 DEF CpCopiesAll, Goto
  <2>10. CpStarts'
    BY <1>4 DEF CpStarts, Goto
  <2> QED
    BY <1>2, <2>8, <2>9, <2>10 DEF CpInv
<1> QED
  BY <1>1, <1>3, <1>4

\* So does the Stat of a single file,
LEMMA CpInvStat ==
  ASSUME FileInv, CpInv, CpStat, UNCHANGED <<cmd, before, edited, broken>>
  PROVE  CpInv'
<1> DEFINE key == KeyAt(src, src.prefix)
<1>1. /\ pc = "stat" /\ cmd.op = "cp" /\ UNCHANGED <<objects, src, dst, entry, body>>
      /\ \/ /\ Goto("open") /\ key \in Keys(src.store)
            /\ todo' = {[key |-> src.prefix, size |-> objects[src.store][key].kept]}
         \/ Ends("error")
      /\ result = "none" /\ ~Whole(src)
  BY DEF Fault, Finds, CpStat, FileInv, ControlOK
<1>2. CutsAreKnown'
  BY <1>1, CutsKept DEF CpInv
<1>3. CASE Ends("error")
  BY <1>2, <1>3 DEF Ends, CpInv, CpStarts, CpReads, CpCopiesAll
<1>4. CASE /\ Goto("open") /\ key \in Keys(src.store)
           /\ todo' = {[key |-> src.prefix, size |-> objects[src.store][key].kept]}
  <2>1. Resolved(src, cmd.from) /\ Resolved(dst, cmd.to) /\ src.store \in Store
    BY <1>1, CommandIs DEF FileInv, ControlOK, Going
  <2>2. key = Named(cmd.from)
    BY <1>1, <2>1, CopyOne
  <2>3. \A k \in Keys(src.store) : Pristine(src.store, k)
    BY <1>1, <2>1 DEF CpInv, CpStarts
  <2>4. \A k \in Keys(src.store) : (Pristine(src.store, k))'
    BY <1>1, <2>3 DEF Pristine
  <2>5. (\A k \in Keys(src.store) : Pristine(src.store, k))'
    BY <1>1, <2>4 DEF Keys
  <2>6. \A e \in todo' : FromSource(e)'
    <3>1. \A e \in todo' : e.key = src.prefix /\ e.size = objects[src.store][key].kept
      BY <1>4
    <3>2. objects[src.store][key].kept = 2 \/ <<src.store, key>> \in edited
      BY <1>4, <2>3 DEF Pristine
    <3> QED
      BY <1>1, <2>2, <3>1, <3>2 DEF FromSource, At
  <2>7. ~Whole(src)' /\ (Promised' => Promised)
    BY <1>1, ApartKept DEF Whole, Flag, Promised, LosesDirectory
  <2>8. \A e, f \in todo' : e = f
    BY <1>4
  <2>9. CpReads'
    BY <1>1, <1>4, <2>5, <2>6, <2>7, <2>8 DEF CpReads, Goto
  <2>10. CpCopiesAll'
    <3>1. \A k : Wanted(k)' => k = key
      BY <1>1, <2>2, <2>7 DEF Wanted
    <3>2. Pending(key)'
      BY <1>1, <1>4 DEF Pending
    <3>3. \A k : Wanted(k)' => Pending(k)'
      BY <1>1, <1>4, <3>1 DEF Pending
    <3> QED
      BY <1>1, <1>4, <3>3 DEF CpCopiesAll, Goto
  <2>11. CpStarts'
    BY <1>4 DEF CpStarts, Goto
  <2> QED
    BY <1>2, <2>9, <2>10, <2>11 DEF CpInv
<1> QED
  BY <1>1, <1>3, <1>4

\* ... opening the next file,
LEMMA CpInvOpen ==
  ASSUME FileInv, CpInv, NEW e \in todo, CpOpen(e), UNCHANGED <<cmd, before, edited, broken>>
  PROVE  CpInv'
<1> DEFINE k == KeyAt(src, e.key)
<1>1. /\ pc = "open" /\ cmd.op = "cp" /\ UNCHANGED <<objects, src, dst>> /\ result = "none"
      /\ entry' = e /\ todo' = todo \ {e}
      /\ \/ Goto("write") /\ k \in Keys(src.store) /\ body' = objects[src.store][k]
         \/ Ends("error")
  BY CommandIs DEF Fault, Finds, CpOpen, FileInv, ControlOK
<1>2. CutsAreKnown'
  BY <1>1, CutsKept DEF CpInv
<1>3. CASE Ends("error")
  BY <1>2, <1>3 DEF Ends, CpInv, CpStarts, CpReads, CpCopiesAll
<1>4. CASE Goto("write") /\ k \in Keys(src.store) /\ body' = objects[src.store][k]
  <2>1. Whole(src)' <=> Whole(src)
    BY <1>1 DEF Whole, Flag
  <2>2. Promised' => Promised
    BY <1>1, ApartKept DEF Promised, LosesDirectory, Whole, Flag
  <2>3. ASSUME Apart
        PROVE  CpReads'
    <3>1. /\ \A f \in todo : FromSource(f)
          /\ \A j \in Keys(src.store) : At(j, Named(cmd.from)) => Pristine(src.store, j)
          /\ ~Whole(src) => \A f, g \in todo : f = g
      BY <1>1, <2>3 DEF CpInv, CpReads
    <3>2. \A f \in todo : FromSource(f)'
      BY <1>1, <3>1 DEF FromSource
    <3>3. \A j \in Keys(src.store) : At(j, Named(cmd.from)) => Pristine(src.store, j)'
      BY <1>1, <3>1 DEF Pristine
    <3>4. (\A j \in Keys(src.store) : At(j, Named(cmd.from)) => Pristine(src.store, j))'
      BY <1>1, <3>3 DEF Keys, Pristine
    <3>5. FromSource(entry)'
      BY <1>1, <3>1 DEF FromSource
    <3>6. Pristine(src.store, k)
      BY <1>4, <3>1 DEF FromSource
    <3>7. /\ body'.of = k /\ body'.kept = body'.size
          /\ body'.size = 2 \/ <<src.store, k>> \in edited
      BY <1>4, <3>6 DEF Pristine
    <3>8. ~Whole(src) => todo' = {}
      BY <1>1, <3>1
    <3> HIDE DEF k
    <3>9. k = KeyAt(src', entry'.key)
      BY <1>1 DEF k
    <3> QED
      BY <1>1, <2>1, <3>2, <3>4, <3>5, <3>7, <3>8, <3>9 DEF CpReads
  <2>4. CpCopiesAll'
    <3>1. \A j : Pending(j) => Pending(j)'
      BY <1>1, <1>4 DEF Pending, Goto
    <3>2. \A j : (Wanted(j)' => Wanted(j)) /\ (Copied(j) => Copied(j)')
      BY <1>1, <2>1 DEF Wanted, Copied, IsCopy, Belongs, Keys
    <3> QED
      BY <1>1, <1>4, <2>2, <3>1, <3>2 DEF CpInv, CpCopiesAll, Goto
  <2>5. CpStarts'
    BY <1>4 DEF CpStarts, Goto
  <2>6. CpReads'
    BY <2>3, ApartKept DEF CpReads
  <2> QED
    BY <1>2, <2>4, <2>5, <2>6 DEF CpInv
<1> QED
  BY <1>1, <1>3, <1>4

-----------------------------------------------------------------------------
(* cp: the steps that write.                                                *)

\* Where a cp writes, and that it does not write into what it still reads.
LEMMA WriteGoes ==
  ASSUME FileInv, CpInv, cmd.op = "cp", pc = "write", Apart
  PROVE  LET d == KeyAt(dst, Destination(entry.key))
             k == KeyAt(src, entry.key)
         IN  /\ todo # {} /\ dst.store = src.store => ~At(d, Named(cmd.from))
             /\ Promised => \A j \in before[cmd.from.store] :
                               Wanted(j) => (d = Belongs(j) <=> k = j)
<1> DEFINE d == KeyAt(dst, Destination(entry.key))
           k == KeyAt(src, entry.key)
           N == Named(cmd.from)
           M == Named(cmd.to)
<1>1. /\ Resolved(src, cmd.from) /\ Resolved(dst, cmd.to) /\ GoodEntry(entry) /\ FromSource(entry)
      /\ src.store = cmd.from.store /\ dst.store = cmd.to.store /\ src.store \in Store
      /\ before \in Setups
      /\ ~Whole(src) => todo = {}
  BY CommandIs DEF FileInv, ControlOK, EntriesOK, Going, CpInv, CpReads
<1>2. CASE Whole(src)
  <2>1. Listed(src, entry.key) /\ At(k, N)
    BY <1>1, <1>2 DEF GoodEntry, Lists, FromSource
  <2>2. /\ At(d, M)
        /\ \A j : Proper(j) /\ j # << >> /\ Inside(j, N) => (d = Belongs(j) <=> k = j)
    BY <1>1, <1>2, <2>1, CopyTo
  <2>3. ASSUME dst.store = src.store, At(d, N)
        PROVE  FALSE
    <3>1. IsPath(Destination(entry.key)) /\ ~BeginsWithSlash(Destination(entry.key))
      BY <1>1, DestinationIs DEF FileInv, Going
    <3>2. d \in Word
      BY <1>1, <3>1, KeyAtIs, Words
    <3>3. N \in Word /\ M \in Word
      BY <1>1, JoinIs, Words DEF Resolved
    <3>4. N = M \/ Inside(N, M) \/ Inside(M, N)
      BY <2>2, <2>3, <3>2, <3>3, Regions
    <3> QED
      BY <1>1, <2>3, <3>4 DEF Apart, Overlap
  <2>4. \A j \in before[cmd.from.store] : Wanted(j) => Proper(j) /\ j # << >> /\ Inside(j, N)
    BY <1>1, <1>2, SetupIs DEF Wanted, GoodKey, Proper
  <2> QED
    BY <2>2, <2>3, <2>4
<1>3. CASE ~Whole(src)
  <2>1. entry.key = src.prefix
    BY <1>1, <1>3 DEF GoodEntry, Lists
  <2>2. k = N /\ (~LosesDirectory => d = Belongs(N))
    BY <1>1, <1>3, <2>1, CopyOne
  <2>3. \A j : Wanted(j) => j = N
    BY <1>3 DEF Wanted
  <2> QED
    BY <1>1, <1>3, <2>2, <2>3 DEF Promised
<1> QED
  BY <1>2, <1>3

\* What it writes: the whole of the file as it was, unless its source was changed or
\* its stream broke off.
LEMMA WriteIs ==
  ASSUME FileInv, CpInv, cmd.op = "cp", pc = "write", Apart, NEW c,
         \/ c \in Stored(dst.store, body, entry.size)
         \/ c.of = body.of /\ body.of \in broken'
  PROVE  /\ c.kept < c.size => c.of \in broken' \/ <<src.store, c.of>> \in edited
         /\ LET k == KeyAt(src, entry.key)
            IN  edited = {} => c = Content(k, 2) \/ (k \in broken' /\ c.of = k)
<1> DEFINE k == KeyAt(src, entry.key)
<1>1. /\ body \in Contents /\ entry.size \in Sizes
      /\ entry.size = 2 \/ <<src.store, k>> \in edited
      /\ body.of = k /\ body.kept = body.size
      /\ body.size = 2 \/ <<src.store, k>> \in edited
  BY DEF FileInv, EntriesOK, GoodEntry, CpInv, CpReads, FromSource
<1> HIDE DEF k
<1>2. ASSUME c \in Stored(dst.store, body, entry.size)
      PROVE  /\ c.kept < c.size => <<src.store, c.of>> \in edited
             /\ edited = {} => c = Content(k, 2)
  <2>1. c = body \/ (c = Cut(body, entry.size) /\ body.kept >= entry.size)
    BY <1>2 DEF Stored
  <2>2. Cut(body, entry.size) = [of |-> body.of, size |-> body.size, kept |-> entry.size]
    BY <1>1 DEF Cut, Contents
  <2>3. body = [of |-> body.of, size |-> body.size, kept |-> body.kept]
    BY <1>1 DEF Contents
  <2>4. c.kept < c.size => <<src.store, c.of>> \in edited
    <3>1. CASE c = body
      BY <1>1, <3>1 DEF Contents, Sizes
    <3>2. CASE c = Cut(body, entry.size)
      <4>1. c.of = k /\ c.size = body.size /\ c.kept = entry.size
        BY <1>1, <2>2, <3>2
      <4> QED
        BY <1>1, <4>1
    <3> QED
      BY <2>1, <3>1, <3>2
  <2>5. edited = {} => c = Content(k, 2)
    BY <1>1, <2>1, <2>2, <2>3 DEF Content
  <2> QED
    BY <2>4, <2>5
<1> QED
  BY <1>1, <1>2 DEF k

\* No write cuts an object off for another reason, whether it fails or not.
LEMMA CutsWritten ==
  ASSUME FileInv, CpInv, CpWrite, UNCHANGED <<cmd, before, edited>>
  PROVE  CutsAreKnown'
<1> DEFINE d == KeyAt(dst, Destination(entry.key))
<1>1. /\ pc = "write" /\ cmd.op = "cp" /\ broken \subseteq broken' /\ StoresOK
      /\ dst.store \in Store /\ src.store \in Store
      /\ \/ \E c : /\ objects' = With(dst.store, d, c)
                   /\ \/ c \in Stored(dst.store, body, entry.size)
                      \/ c.of = body.of /\ body.of \in broken'
         \/ UNCHANGED objects
         \/ objects' = Without(dst.store, d)
  BY CommandIs, CpWriteIs DEF FileInv, ControlOK, Going
<1> HIDE DEF d
<1> SUFFICES ASSUME Apart, NEW t \in Store, NEW j \in DOMAIN objects'[t],
                    objects'[t][j].kept < objects'[t][j].size
             PROVE  \/ objects'[t][j].of \in broken'
                    \/ \E u \in Store : <<u, objects'[t][j].of>> \in edited
  BY ApartKept DEF CutsAreKnown, Keys
<1>2. CASE j \in Keys(t) /\ objects'[t][j] = objects[t][j]
  BY <1>1, <1>2 DEF CpInv, CutsAreKnown
<1>3. CASE UNCHANGED objects \/ objects' = Without(dst.store, d)
  <2>1. j \in Keys(t) /\ objects'[t][j] = objects[t][j]
    BY <1>1, <1>3, WithoutIs DEF Keys
  <2> QED
    BY <1>2, <2>1
<1>4. ASSUME NEW c, objects' = With(dst.store, d, c),
             \/ c \in Stored(dst.store, body, entry.size)
             \/ c.of = body.of /\ body.of \in broken'
      PROVE  \/ objects'[t][j].of \in broken'
             \/ \E u \in Store : <<u, objects'[t][j].of>> \in edited
  <2>1. /\ \A u \in Store : u # dst.store => objects'[u] = objects[u]
        /\ DOMAIN objects'[dst.store] = Keys(dst.store) \cup {d} /\ objects'[dst.store][d] = c
        /\ \A i \in Keys(dst.store) : i # d => objects'[dst.store][i] = objects[dst.store][i]
    BY <1>1, <1>4, WithIs DEF Keys
  <2>2. c.kept < c.size => c.of \in broken' \/ <<src.store, c.of>> \in edited
    BY <1>1, <1>4, WriteIs
  <2>3. CASE t = dst.store /\ j = d
    BY <1>1, <2>1, <2>2, <2>3
  <2>4. CASE ~(t = dst.store /\ j = d)
    BY <1>2, <2>1, <2>4 DEF Keys
  <2> QED
    BY <2>3, <2>4
<1> QED
  BY <1>1, <1>3, <1>4

\* Writing a copy keeps the invariant of cp: it replaces no file that is still to be
\* read, and no other file's copy.
LEMMA CpInvWrite ==
  ASSUME FileInv, CpInv, CpWrite, UNCHANGED <<cmd, before, edited>>
  PROVE  CpInv'
<1> DEFINE d == KeyAt(dst, Destination(entry.key))
           k == KeyAt(src, entry.key)
<1>1. /\ pc = "write" /\ cmd.op = "cp" /\ UNCHANGED <<src, dst, todo>> /\ result = "none"
      /\ broken \subseteq broken'
      /\ Goto("open") \/ Ends("error")
      /\ Goto("open") => \E c : /\ objects' = With(dst.store, d, c)
                                /\ \/ c \in Stored(dst.store, body, entry.size)
                                   \/ c.of = body.of /\ body.of \in broken'
      /\ StoresOK /\ dst.store \in Store /\ src.store \in Store /\ dst.store = cmd.to.store
      /\ src.store = cmd.from.store
  <2>1. pc = "write" /\ Going
    BY CpWriteIs DEF Going
  <2>2. ~(Goto("open") /\ Ends("error"))
    BY DEF Goto, Ends
  <2> QED
    BY <2>1, <2>2, CommandIs, CpWriteIs DEF FileInv, ControlOK
<1>2. CASE Ends("error")
  BY <1>2, CutsWritten DEF Ends, CpInv, CpStarts, CpReads, CpCopiesAll
<1>3. ASSUME Goto("open"), NEW c, objects' = With(dst.store, d, c),
             \/ c \in Stored(dst.store, body, entry.size)
             \/ c.of = body.of /\ body.of \in broken'
      PROVE  CpInv'
  <2> HIDE DEF d, k
  <2>1. /\ \A t \in Store : t # dst.store => objects'[t] = objects[t]
        /\ DOMAIN objects'[dst.store] = Keys(dst.store) \cup {d} /\ objects'[dst.store][d] = c
        /\ \A j \in Keys(dst.store) : j # d => objects'[dst.store][j] = objects[dst.store][j]
    BY <1>1, <1>3, WithIs DEF Keys
  <2>2. Apart =>
          /\ todo # {} /\ dst.store = src.store => ~At(d, Named(cmd.from))
          /\ Promised => \A j \in before[cmd.from.store] : Wanted(j) => (d = Belongs(j) <=> k = j)
    BY <1>1, WriteGoes DEF d, k
  <2>3. Apart /\ edited = {} => c = Content(k, 2) \/ (k \in broken' /\ c.of = k)
    BY <1>1, <1>3, WriteIs DEF k
  <2>4. Whole(src)' <=> Whole(src)
    BY <1>1 DEF Whole, Flag
  <2>5. Promised' => Promised
    BY <1>1, ApartKept DEF Promised, LosesDirectory, Whole, Flag
  <2>6. CpStarts'
    BY <1>3 DEF CpStarts, Goto
  <2>7. ASSUME Apart
        PROVE  CpReads'
    <3>1. /\ \A e \in todo : FromSource(e)
          /\ todo # {} => \A j \in Keys(src.store) : At(j, Named(cmd.from)) => Pristine(src.store, j)
          /\ ~Whole(src) => \A e, f \in todo : e = f
      BY <1>1, <2>7 DEF CpInv, CpReads
    <3>2. \A e \in todo : FromSource(e)'
      BY <1>1, <3>1 DEF FromSource
    <3>3. ASSUME todo # {}, NEW j \in DOMAIN objects'[src.store], At(j, Named(cmd.from))
          PROVE  Pristine(src.store, j)'
      <4>1. j \in Keys(src.store) /\ objects'[src.store][j] = objects[src.store][j]
        BY <1>1, <2>1, <2>2, <2>7, <3>3 DEF Keys
      <4>2. Pristine(src.store, j)
        BY <3>1, <3>3, <4>1
      <4> QED
        BY <1>1, <4>1, <4>2 DEF Pristine
    <3>4. todo # {} => (\A j \in Keys(src.store) : At(j, Named(cmd.from)) => Pristine(src.store, j))'
      BY <1>1, <3>3 DEF Keys, Pristine
    <3> QED
      BY <1>1, <1>3, <2>4, <3>1, <3>2, <3>4 DEF CpReads, Goto
  <2>8. CutsAreKnown'
    BY CutsWritten
  <2>9. CpCopiesAll'
    <3> SUFFICES ASSUME Promised, NEW j \in before[cmd.from.store], Wanted(j)'
                 PROVE  Pending(j)' \/ Copied(j)'
      BY <1>1, <1>3, <2>5 DEF CpCopiesAll, Goto
    <3>1. Wanted(j) /\ (Pending(j) \/ Copied(j)) /\ Apart /\ edited = {}
      BY <1>1, <2>4 DEF CpInv, CpCopiesAll, Promised, Wanted
    <3>2. Belongs(j)' = Belongs(j)
      BY <1>1, <2>4 DEF Belongs
    <3> DEFINE b == Belongs(j)
    <3>3. Copied(j)' <=> /\ b \in DOMAIN objects'[cmd.to.store]
                         /\ \/ objects'[cmd.to.store][b] = Content(j, 2)
                            \/ j \in broken' /\ objects'[cmd.to.store][b].of = j
      BY <1>1, <3>2 DEF Copied, IsCopy, Keys
    <3>4. Copied(j) <=> /\ b \in Keys(cmd.to.store)
                        /\ \/ objects[cmd.to.store][b] = Content(j, 2)
                           \/ j \in broken /\ objects[cmd.to.store][b].of = j
      BY DEF Copied, IsCopy
    <3>5. d = b <=> k = j
      BY <2>2, <3>1
    <3> HIDE DEF b
    <3>6. CASE k = j
      BY <1>1, <2>1, <2>3, <3>1, <3>3, <3>5, <3>6
    <3>7. CASE k # j
      <4>0. b \in Keys(cmd.to.store) => /\ b \in DOMAIN objects'[cmd.to.store]
                                        /\ objects'[cmd.to.store][b] = objects[cmd.to.store][b]
        BY <1>1, <2>1, <3>5, <3>7
      <4>1. Copied(j) => Copied(j)'
        BY <1>1, <3>3, <3>4, <4>0
      <4>2. Pending(j) => Pending(j)'
        BY <1>1, <3>7 DEF Pending, k
      <4> QED
        BY <3>1, <4>1, <4>2
    <3> QED
      BY <3>6, <3>7
  <2>10. CpReads'
    BY <2>7, ApartKept DEF CpReads
  <2> QED
    BY <2>6, <2>8, <2>9, <2>10 DEF CpInv
<1> QED
  BY <1>1, <1>2, <1>3

\* So do its first step and its last.
LEMMA CpInvBeginEnd ==
  ASSUME FileInv, CpInv, CpBegin \/ CpEnd, UNCHANGED <<cmd, before, edited, broken>>
  PROVE  CpInv'
<1>1. UNCHANGED objects /\ cmd.op = "cp"
  BY CommandIs DEF CpBegin, CpEnd, FileInv, ControlOK
<1>2. CutsAreKnown'
  BY <1>1, CutsKept DEF CpInv
<1>3. CASE CpBegin
  <2>1. pc = "begin" /\ pc' \in {"done", "list", "stat"} /\ result' \in {"none", "error"}
    BY <1>3 DEF CpBegin, Goto, Ends, FileInv, ControlOK
  <2>2. CpStarts'
    <3>1. \A s \in Store : /\ Keys(s) \subseteq Ever(s) /\ \A k \in Keys(s) : Pristine(s, k)
                           /\ edited = {} => before[s] \subseteq Keys(s)
      BY <1>1, <2>1 DEF CpInv, CpStarts
    <3>2. \A s \in Store : Keys(s)' = Keys(s) /\ Ever(s)' = Ever(s) /\ \A k : Pristine(s, k)' <=> Pristine(s, k)
      BY <1>1 DEF Keys, Ever, Pristine
    <3> QED
      BY <3>1, <3>2 DEF CpStarts
  <2> QED
    BY <1>2, <2>1, <2>2 DEF CpInv, CpReads, CpCopiesAll
<1>4. CASE CpEnd
  <2>1. pc = "open" /\ todo = {} /\ pc' = "done" /\ result' = "ok" /\ UNCHANGED <<src, dst>>
    BY <1>4 DEF CpEnd, Ends, work
  <2>2. CpStarts' /\ CpReads'
    BY <2>1 DEF CpStarts, CpReads
  <2>3. CpCopiesAll'
    <3>1. Promised' => Promised
      BY <2>1, ApartKept DEF Promised, LosesDirectory, Whole, Flag
    <3>2. \A j : (Wanted(j)' => Wanted(j)) /\ (Copied(j) => Copied(j)')
      BY <1>1, <2>1 DEF Wanted, Copied, IsCopy, Belongs, Keys, Whole, Flag
    <3>3. \A j : ~Pending(j)
      BY <2>1 DEF Pending
    <3> QED
      BY <2>1, <3>1, <3>2, <3>3 DEF CpInv, CpCopiesAll
  <2> QED
    BY <1>2, <2>2, <2>3 DEF CpInv
<1> QED
  BY <1>3, <1>4

\* Every step keeps the invariant of cp.
LEMMA CpInvNext == FileInv /\ CpInv /\ [Next]_vars => CpInv'
<1> SUFFICES ASSUME FileInv, CpInv, [Next]_vars PROVE CpInv'
  OBVIOUS
<1>1. CASE UNCHANGED vars
  <2>1. UNCHANGED <<objects, cmd, pc, src, dst, todo, entry, body, result, before, edited, broken>>
    BY <1>1 DEF vars, work
  <2>2. /\ \A s \in Store : Keys(s)' = Keys(s) /\ Ever(s)' = Ever(s)
        /\ \A s, k : Pristine(s, k)' <=> Pristine(s, k)
        /\ Apart' <=> Apart
        /\ Promised' <=> Promised
        /\ \A e : FromSource(e)' <=> FromSource(e)
        /\ Whole(src)' <=> Whole(src)
        /\ \A j : (Wanted(j)' <=> Wanted(j)) /\ (Copied(j)' <=> Copied(j)) /\ (Pending(j)' <=> Pending(j))
    BY <2>1
       DEF Keys, Ever, Pristine, Apart, Promised, NoSiblings, Beginning, OnePage,
           LosesDirectory,
                FromSource, Whole, Flag, Wanted, Copied, IsCopy, Pending, Belongs
  <2>3. CpStarts' /\ CutsAreKnown' /\ CpCopiesAll'
    BY <2>1, <2>2, CutsKept DEF CpInv, CpStarts, CpCopiesAll
  <2>4. CpReads'
    BY <2>1
       DEF CpInv, CpReads, Apart, NoSiblings, Beginning, Ever, FromSource, Pristine, Keys,
           Whole, Flag
  <2> QED
    BY <2>3, <2>4 DEF CpInv
<1>2. CASE Cp /\ UNCHANGED <<cmd, before, edited>>
  BY <1>2, CpInvBeginEnd, CpInvList, CpInvStat, CpInvOpen, CpInvWrite DEF Cp
<1>3. CASE (Rm \/ Sync) /\ UNCHANGED <<cmd, before, edited>>
  <2>1. cmd.op # "cp"
    BY <1>3, CommandIs
       DEF FileInv, ControlOK, Rm, RmBegin, RmStat, RmList, RmDelete, RmLast,
                Sync, SyncBegin, SyncListSrc, SyncListDst
  <2> QED
    BY <1>3, <2>1 DEF CpInv, CpStarts, CpReads, CutsAreKnown, CpCopiesAll, Promised, Apart
<1>4. ASSUME NEW s \in Store, NEW k \in UNION {setup[s] : setup \in Setups}, Edit(s, k),
             UNCHANGED <<cmd, before>>
      PROVE  CpInv'
  BY <1>4, CpInvEdit
<1> QED
  BY <1>1, <1>2, <1>3, <1>4 DEF Next, Finished

\* fileops.go:137-221: a cp that reports success has made a whole copy of every file in its
\* source where it belongs, and cuts off none that was not changed meanwhile or broke off
\* between two buckets, for all stores, targets, page sizes and interleavings.
THEOREM FilesAreCopied == Spec => []CpCopies
<1>1. Init => CpInv
  <2> SUFFICES ASSUME Init PROVE CpInv
    OBVIOUS
  <2>1. /\ pc = "begin" /\ result = "none" /\ edited = {}
        /\ objects = [s \in Store |-> [k \in before[s] |-> Content(k, 2)]]
    BY DEF Init
  <2>2. \A s \in Store : Keys(s) = before[s] /\ \A k \in Keys(s) : objects[s][k] = Content(k, 2)
    BY <2>1 DEF Keys
  <2>3. \A k : Content(k, 2).of = k /\ Content(k, 2).size = 2 /\ Content(k, 2).kept = 2
    BY DEF Content
  <2>4. CpStarts /\ CutsAreKnown
    BY <2>1, <2>2, <2>3 DEF CpStarts, CutsAreKnown, Pristine, Ever
  <2> QED
    BY <2>1, <2>4 DEF CpInv, CpReads, CpCopiesAll
<1>2. FileInv /\ CpInv /\ [Next]_vars => CpInv'
  BY CpInvNext
<1>3. CpInv => CpCopies
  <2> SUFFICES ASSUME CpInv, cmd.op = "cp", ~Overlap(cmd.from, cmd.to), NoSiblings(cmd.from)
               PROVE  CpCopies
    BY DEF CpCopies
  <2>1. Apart
    BY DEF Apart
  <2>2. \A s \in Store : \A k \in Keys(s) :
             objects[s][k].kept < objects[s][k].size
             => LET of == objects[s][k].of
                IN  of \in broken \/ \E t \in Store : <<t, of>> \in edited
    BY <2>1 DEF CpInv, CutsAreKnown
  <2>3. ASSUME result = "ok", edited = {}, ~LosesDirectory, OnePage(cmd.from),
               NEW k \in before[cmd.from.store],
               IF Whole(src) THEN Inside(k, Named(cmd.from)) /\ ~EndsInSlash(k)
                             ELSE k = Named(cmd.from)
        PROVE  /\ Belongs(k) \in Keys(cmd.to.store)
               /\ LET c == objects[cmd.to.store][Belongs(k)]
                  IN  c = Content(k, 2) \/ (k \in broken /\ c.of = k)
    BY <2>1, <2>3 DEF CpInv, CpCopiesAll, Promised, Wanted, Copied, IsCopy
  <2> QED
    BY <2>2, <2>3 DEF CpCopies
<1> QED
  BY <1>1, <1>2, <1>3, FileInvariant, PTL DEF Spec

-----------------------------------------------------------------------------
(* sync: the listings.                                                      *)

\* A listing of finitely many files is finite, and has one entry for a name.
LEMMA ListingSet ==
  ASSUME NEW ep, NEW t, Resolved(ep, t), ep.store \in Store, StoresOK, IsFiniteSet(Keys(ep.store))
  PROVE  IsFiniteSet(Listing(ep)) /\ \A e, f \in Listing(ep) : e.key = f.key => e = f
<1> DEFINE L == Listing(ep)
           f == [e \in L |-> KeyAt(ep, e.key)]
<1>1. \A e \in L : /\ Listed(ep, e.key) /\ KeyAt(ep, e.key) \in Keys(ep.store)
                   /\ e = [key |-> e.key, size |-> objects[ep.store][KeyAt(ep, e.key)].kept]
                   /\ KeyAt(ep, e.key) = Join(ep.root, e.key) /\ e.key \in Word
  BY ListingIs, ListedKey, Words DEF Listed
<1>2. \A d, e \in L : d.key = e.key => d = e
  BY <1>1
<1>3. \A d, e \in L : KeyAt(ep, d.key) = KeyAt(ep, e.key) => d = e
  <2> TAKE d, e \in L
  <2> HAVE KeyAt(ep, d.key) = KeyAt(ep, e.key)
  <2>1. ep.root \in Word
    BY Words DEF Resolved
  <2>2. Join(ep.root, d.key) = Join(ep.root, e.key)
    BY <1>1
  <2>3. d.key = e.key
    BY <1>1, <2>1, <2>2, JoinOrder
  <2> QED
    BY <1>2, <2>3
<1>4. f \in Injection(L, Keys(ep.store))
  <2> HIDE DEF L
  <2>1. f \in [L -> Keys(ep.store)]
    BY <1>1
  <2>2. \A d, e \in L : f[d] = f[e] => d = e
    BY <1>3
  <2> QED
    BY <2>1, <2>2 DEF Injection, IsInjective
<1>5. IsFiniteSet(L)
  BY <1>4, FS_Injection
<1> QED
  BY <1>2, <1>5

\* A listed file of the source is the source's prefix with its relative path.
LEMMA SourceKey ==
  ASSUME NEW ep, NEW t, Resolved(ep, t), NEW key, Listed(ep, key), At(KeyAt(ep, key), Named(t))
  PROVE  key = Join(Clean(ep.prefix), Relative(ep, key))
<1> DEFINE r == ep.root
           c == Clean(ep.prefix)
<1>1. /\ r \in Word /\ c \in Word /\ Proper(c) /\ Named(t) = Join(r, c)
      /\ key \in Word /\ Proper(key) /\ key # << >>
      /\ KeyAt(ep, key) = Join(r, key)
  BY ListedKey, Words DEF Resolved, Listed
<1>2. CASE KeyAt(ep, key) = Named(t)
  <2>1. key = c
    BY <1>1, <1>2, JoinOrder
  <2>2. Relative(ep, key) = << >>
    BY <1>1, <2>1, RelativeOf
  <2>3. Join(c, << >>) = c
    BY <1>1, SlashIs, JoinIs
  <2> QED
    BY <2>1, <2>2, <2>3
<1>3. CASE Inside(KeyAt(ep, key), Named(t))
  <2>1. Inside(key, c)
    BY <1>1, <1>3, JoinOrder
  <2>2. Proper(NameIn(c, key)) /\ Join(c, NameIn(c, key)) = key
    BY <1>1, <2>1, NameIs
  <2>3. Relative(ep, Join(c, NameIn(c, key))) = NameIn(c, key)
    BY <2>2, RelativeOf
  <2> QED
    BY <2>2, <2>3
<1> QED
  BY <1>2, <1>3 DEF At

\* What relative paths lead to differs as they do, and is where it belongs.
LEMMA BelowOrder ==
  ASSUME NEW ep, NEW t, Resolved(ep, t), NEW m, Proper(m)
  PROVE  /\ At(KeyAt(ep, Below(ep, m)), Named(t))
         /\ \A n : Proper(n) /\ KeyAt(ep, Below(ep, m)) = KeyAt(ep, Below(ep, n)) => m = n
         /\ \A key : Listed(ep, key) /\ KeyAt(ep, key) = KeyAt(ep, Below(ep, m)) => Relative(ep, key) = m
<1> DEFINE r == ep.root
           c == Clean(ep.prefix)
           M == Named(t)
           K(n) == KeyAt(ep, Below(ep, n))
<1>1. /\ r \in Word /\ c \in Word /\ Proper(c) /\ M = Join(r, c) /\ M \in Word /\ Proper(M)
      /\ Join(M, << >>) = M /\ << >> \in Word
  BY Words, JoinProper, JoinIs, SlashIs DEF Resolved
<1>2. ASSUME NEW n, Proper(n)
      PROVE  /\ n \in Word
             /\ n # << >> => K(n) = Join(M, n) /\ Proper(K(n)) /\ Inside(K(n), M) /\ K(n) # M
             /\ n = << >> => K(n) = M \/ (EndsInSlash(K(n)) /\ Inside(K(n), M))
  <2>1. n \in Word
    BY <1>2, Words
  <2>2. n = << >> => K(n) = M \/ (EndsInSlash(K(n)) /\ Inside(K(n), M))
    BY <1>2, BelowOf
  <2>3. n # << >> => K(n) = Join(M, n)
    BY <1>2, BelowOf
  <2>4. n # << >> => Proper(Join(M, n)) /\ Inside(Join(M, n), M) /\ Join(M, n) # M
    BY <1>1, <1>2, <2>1, JoinProper, JoinOrder
  <2> QED
    BY <2>1, <2>2, <2>3, <2>4
<1> HIDE DEF K
<1>3. At(K(m), M)
  BY <1>2 DEF At
<1>4. ASSUME NEW n, Proper(n), K(m) = K(n)
      PROVE  m = n
  <2>1. m # << >> /\ n # << >> => m = n
    BY <1>1, <1>2, <1>4, JoinOrder
  <2>2. (m = << >>) = (n = << >>)
    BY <1>2, <1>4, Words
  <2> QED
    BY <2>1, <2>2
<1>5. ASSUME NEW key, Listed(ep, key), KeyAt(ep, key) = K(m)
      PROVE  Relative(ep, key) = m
  <2>1. /\ KeyAt(ep, key) = Join(r, key) /\ Proper(KeyAt(ep, key)) /\ key \in Word /\ key # << >>
    BY <1>5, ListedKey, Words DEF Listed
  <2>2. CASE m # << >>
    <3>1. Join(r, key) = Join(M, m) /\ m \in Word
      BY <1>2, <1>5, <2>1, <2>2
    <3> HIDE DEF r, c, M
    <3>2. Join(M, m) = Join(r, Join(c, m)) /\ Join(c, m) \in Word
      <4>1. Join(c, m) \in Word
        BY <1>1, <3>1, JoinIs
      <4>2. Join(r, Join(c, m)) = Join(Join(r, c), m)
        BY <1>1, <2>2, <3>1, JoinAssoc
      <4> QED
        BY <1>1, <4>1, <4>2
    <3>3. key = Join(c, m)
      BY <1>1, <2>1, <3>1, <3>2, JoinOrder
    <3> QED
      BY <1>2, <3>3, RelativeOf DEF c
  <2>3. CASE m = << >>
    <3>1. Join(r, key) = Join(r, c)
      BY <1>1, <1>2, <1>5, <2>1, <2>3, Words
    <3>2. key = c
      BY <1>1, <2>1, <3>1, JoinOrder
    <3> QED
      BY <2>1, <2>3, <3>2, RelativeOf
  <2> QED
    BY <2>2, <2>3
<1> QED
  BY <1>3, <1>4, <1>5 DEF K

-----------------------------------------------------------------------------
(* sync: the plan.                                                          *)

\* What a sync has listed are keys there have been, each once, and it was let begin.
PlanInv ==
    /\ cmd.op # "sync" => result # "planned"
    /\ cmd.op = "sync" =>
          /\ \A s \in Store : Keys(s) \subseteq Ever(s) /\ IsFiniteSet(Keys(s))
          /\ pc \in {"list", "plan"} => ~Loops(src, dst)
          /\ pc = "plan" => /\ \A e \in todo : KeyAt(src, e.key) \in Ever(src.store)
                            /\ \A e, f \in todo : e.key = f.key => e = f
                            /\ IsFiniteSet(todo)
    /\ PlanSparesSources

\* The plan that SyncListDst makes of a listing of the destination.
Planned(listed) ==
    [tasks   |-> {Task(e) : e \in Sources},
     deletes |-> {e.key : e \in {d \in listed : LET rel == Relative(dst, d.key)
                                                IN  /\ Flag("delete") /\ ~InConflicts(rel)
                                                    /\ rel \notin {Relative(src, f.key) : f \in Sources}}}]

\* What PlanSparesSources says of a plan.
Spares(p) ==
    LET sources == {KeyAt(src, t.from) : t \in p.tasks}
        targets == {KeyAt(dst, t.to) : t \in p.tasks}
        deletes == {KeyAt(dst, k) : k \in p.deletes}
    IN  /\ \A k \in deletes : HasPrefix(k, Named(cmd.to))
        /\ targets \cap deletes = {}
        /\ NoSiblings(cmd.from) => Cardinality(targets) = Cardinality(p.tasks)
        /\ (/\ src.store = dst.store /\ src.store \in Tree
            /\ NoSiblings(cmd.from) /\ NoSiblings(cmd.to)
            /\ ~Inside(Named(cmd.from), Named(cmd.to))
            /\ Inside(Named(cmd.to), Named(cmd.from))
               => ~Dotted(Named(cmd.to), Named(cmd.from)))
           => sources \cap (targets \cup deletes) = {}

\* The plan made of the two listings is as promised.
LEMMA PlanIs ==
  ASSUME FileInv, PlanInv, cmd.op = "sync", pc = "plan", NEW listed \in Pages(dst) \cup {{}}
  PROVE  Spares(Planned(listed))
<1> DEFINE p == Planned(listed)
           N == Named(cmd.from)
           M == Named(cmd.to)
           Rel(e) == Relative(src, e.key)
           To(e) == KeyAt(dst, Below(dst, Relative(src, e.key)))
           sources == {KeyAt(src, t.from) : t \in p.tasks}
           targets == {KeyAt(dst, t.to) : t \in p.tasks}
           deletes == {KeyAt(dst, k) : k \in p.deletes}
<1>1. /\ Resolved(src, cmd.from) /\ Resolved(dst, cmd.to) /\ StoresOK
      /\ src.store = cmd.from.store /\ dst.store = cmd.to.store /\ src.store \in Store
      /\ dst.store \in Store
  BY CommandIs DEF FileInv, ControlOK, Going
<1>2. \A e \in todo : Listed(src, e.key) /\ Proper(e.key)
  BY DEF FileInv, EntriesOK, GoodEntry, Lists, Listed
<1>3. \A e \in Sources : e \in todo
  BY DEF Sources
<1>4. /\ p.tasks = {Task(e) : e \in Sources}
      /\ \A k \in p.deletes : \E d \in listed : /\ k = d.key
                                                /\ \A e \in Sources : Relative(dst, d.key) # Rel(e)
  BY DEF Planned
<1>5. \A e \in Sources : Task(e).from = e.key /\ Task(e).to = Below(dst, Rel(e))
  BY DEF Task
<1>6. /\ \A k \in sources : \E e \in Sources : k = KeyAt(src, e.key)
      /\ \A k \in targets : \E e \in Sources : k = To(e)
      /\ \A e \in Sources : To(e) \in targets
  BY <1>4, <1>5
<1>7. \A k \in deletes : \E d \in listed : /\ k = KeyAt(dst, d.key)
                                           /\ \A e \in Sources : Relative(dst, d.key) # Rel(e)
  BY <1>4
<1>8. \A d \in listed : Listed(dst, d.key) /\ KeyAt(dst, d.key) \in Ever(dst.store)
  <2> TAKE d \in listed
  <2>1. d \in Listing(dst)
    BY PagesAre
  <2>2. Listed(dst, d.key) /\ KeyAt(dst, d.key) \in Keys(dst.store)
    BY <1>1, <2>1, ListingIs
  <2> QED
    BY <1>1, <2>2 DEF PlanInv
<1>9. \A e \in Sources : Proper(Rel(e))
  BY <1>1, <1>2, <1>3, RelativeIs
<1> HIDE DEF p, Rel, sources, targets, deletes
<1>10. \A k \in deletes : HasPrefix(k, M)
  BY <1>1, <1>7, <1>8, ListedKey
<1>11. targets \cap deletes = {}
  <2> SUFFICES ASSUME NEW e \in Sources, NEW d \in listed, To(e) = KeyAt(dst, d.key),
                      Relative(dst, d.key) # Rel(e)
               PROVE  FALSE
    BY <1>6, <1>7
  <2> QED
    BY <1>1, <1>8, <1>9, BelowOrder DEF Rel
<1>12. ASSUME NoSiblings(cmd.from)
       PROVE  \A e \in todo : At(KeyAt(src, e.key), N)
  <2> TAKE e \in todo
  <2>1. HasPrefix(KeyAt(src, e.key), N)
    BY <1>1, <1>2, ListedKey
  <2>2. KeyAt(src, e.key) \in Beginning(cmd.from)
    BY <1>1, <2>1 DEF Beginning, PlanInv
  <2> QED
    BY <1>12, <2>2 DEF NoSiblings, At
<1>13. ASSUME NoSiblings(cmd.from)
       PROVE  Cardinality(targets) = Cardinality(p.tasks)
  <2>1. \A e, f \in Sources : To(e) = To(f) => e = f
    <3> TAKE e, f \in Sources
    <3> HAVE To(e) = To(f)
    <3>1. Rel(e) = Rel(f)
      BY <1>1, <1>9, BelowOrder DEF Rel
    <3>2. e.key = Join(Clean(src.prefix), Rel(e)) /\ f.key = Join(Clean(src.prefix), Rel(f))
      BY <1>1, <1>2, <1>3, <1>12, <1>13, SourceKey DEF Rel
    <3> QED
      BY <1>3, <3>1, <3>2 DEF PlanInv
  <2> DEFINE f == [t \in p.tasks |-> KeyAt(dst, t.to)]
             g == [e \in Sources |-> Task(e)]
  <2>2. \A t, u \in p.tasks : f[t] = f[u] => t = u
    <3> TAKE t, u \in p.tasks
    <3> HAVE f[t] = f[u]
    <3>1. PICK d \in Sources : t = Task(d)
      BY <1>4
    <3>2. PICK e \in Sources : u = Task(e)
      BY <1>4
    <3>3. To(d) = To(e)
      BY <1>5, <3>1, <3>2 DEF Rel
    <3>4. d = e
      BY <2>1, <3>3
    <3> QED
      BY <3>1, <3>2, <3>4
  <2>3. f \in Bijection(p.tasks, targets)
    <3>1. f \in [p.tasks -> targets] /\ \A k \in targets : \E t \in p.tasks : f[t] = k
      BY DEF targets
    <3> HIDE DEF f
    <3> QED
      BY <2>2, <3>1 DEF Bijection, Injection, IsInjective, Surjection
  <2>4. IsFiniteSet(p.tasks)
    <3>1. IsFiniteSet(Sources)
      <4>1. Sources \in SUBSET todo /\ IsFiniteSet(todo)
        BY <1>3 DEF PlanInv
      <4> QED
        BY <4>1, FS_Subset
    <3>2. g \in Surjection(Sources, p.tasks)
      BY <1>4 DEF Surjection
    <3> QED
      BY <3>1, <3>2, FS_Surjection
  <2> HIDE DEF f, g
  <2>5. ExistsBijection(p.tasks, targets)
    BY <2>3 DEF ExistsBijection
  <2> QED
    BY <2>4, <2>5, FS_Bijection
<1>14. ASSUME src.store = dst.store, src.store \in Tree, NoSiblings(cmd.from), NoSiblings(cmd.to),
              ~Inside(N, M), Inside(M, N) => ~Dotted(M, N)
       PROVE  sources \cap (targets \cup deletes) = {}
  <2>1. N # M /\ ~Inside(M, N)
    <3>1. KeyAt(src, src.prefix) = N /\ KeyAt(dst, dst.prefix) = M
      BY <1>1, <1>14, PrefixKey
    <3> QED
      BY <1>14, <3>1 DEF PlanInv, Loops
  <2>2. N \in Word /\ M \in Word
    BY <1>1, JoinIs, Words DEF Resolved
  <2>3. \A e \in Sources : At(KeyAt(src, e.key), N) /\ KeyAt(src, e.key) \in Word
    BY <1>1, <1>2, <1>3, <1>12, <1>14, ListedKey, Words
  <2>4. \A e \in Sources : At(To(e), M)
    BY <1>1, <1>9, BelowOrder DEF Rel
  <2>5. \A d \in listed : At(KeyAt(dst, d.key), M)
    <3> TAKE d \in listed
    <3>1. KeyAt(dst, d.key) \in Beginning(cmd.to)
      BY <1>1, <1>8, ListedKey DEF Beginning
    <3> QED
      BY <1>14, <3>1 DEF NoSiblings, At
  <2>6. \A k \in targets \cup deletes : At(k, M)
    BY <1>6, <1>7, <2>4, <2>5
  <2>7. ASSUME NEW k \in sources, k \in targets \cup deletes
        PROVE  FALSE
    <3>1. At(k, N) /\ At(k, M) /\ k \in Word
      BY <1>6, <2>3, <2>6, <2>7
    <3> QED
      BY <1>14, <2>1, <2>2, <3>1, Regions
  <2> QED
    BY <2>7
<1> QED
  BY <1>10, <1>11, <1>13, <1>14 DEF Spares, p, sources, targets, deletes

-----------------------------------------------------------------------------
(* sync: the steps.                                                         *)

\* While a sync is planned only another client changes what the stores hold.
LEMMA EverKept ==
  ASSUME FileInv, [Next]_vars, cmd.op = "sync", \A s \in Store : Keys(s) \subseteq Ever(s) /\ IsFiniteSet(Keys(s))
  PROVE  /\ \A s \in Store : Ever(s) \subseteq Ever(s)'
         /\ \A s \in Store : Keys(s)' \subseteq Ever(s)' /\ IsFiniteSet(Keys(s)')
<1>1. CASE UNCHANGED <<objects, before, edited>>
  <2>1. \A s \in Store : Keys(s)' = Keys(s) /\ Ever(s)' = Ever(s)
    BY <1>1 DEF Keys, Ever
  <2> QED
    BY <2>1
<1>2. ASSUME NEW s \in Store, NEW k \in UNION {setup[s] : setup \in Setups}, Edit(s, k), UNCHANGED <<cmd, before>>
      PROVE  /\ \A t \in Store : Ever(t) \subseteq Ever(t)'
             /\ \A t \in Store : Keys(t)' \subseteq Ever(t)' /\ IsFiniteSet(Keys(t)')
  <2>1. edited' = edited \cup {<<s, k>>}
    BY <1>2 DEF Edit
  <2>2. \A t \in Store : Ever(t) \subseteq Ever(t)'
    BY <1>2, <2>1 DEF Ever
  <2>3. k \in Ever(s)'
    BY <1>2, <2>1 DEF Ever
  <2>4. StoresOK
    BY DEF FileInv
  <2>5. objects' = Without(s, k) \/ \E c : objects' = With(s, k, c)
    BY <1>2 DEF Edit
  <2>6. /\ \A t \in Store : t # s => Keys(t)' = Keys(t)
        /\ Keys(s)' = Keys(s) \ {k} \/ Keys(s)' = Keys(s) \cup {k}
    BY <2>4, <2>5, WithIs, WithoutIs DEF Keys
  <2>7. IsFiniteSet(Keys(s)')
    BY <2>6, FS_AddElement, FS_RemoveElement
  <2>8. \A t \in Store : Keys(t)' \subseteq Ever(t)'
    BY <2>2, <2>3, <2>6
  <2>9. \A t \in Store : IsFiniteSet(Keys(t)')
    BY <2>6, <2>7
  <2> QED
    BY <2>2, <2>8, <2>9
<1>3. CASE (Rm \/ Cp) /\ UNCHANGED <<cmd, before, edited>>
  BY <1>3 DEF FileInv, ControlOK, Rm, RmBegin, RmStat, RmList, RmDelete, RmLast,
              Cp, CpBegin, CpList, CpStat, CpOpen, CpWrite, CpEnd
<1>4. CASE Sync /\ UNCHANGED <<cmd, before, edited>>
  <2>1. UNCHANGED objects
    BY <1>4 DEF Sync, SyncBegin, SyncListSrc, SyncListDst, Fault
  <2> QED
    BY <1>1, <1>4, <2>1
<1> QED
  BY <1>1, <1>2, <1>3, <1>4 DEF Next, Finished, vars

\* What is said of a plan stays, as long as nothing is changed.
LEMMA SameNames ==
  ASSUME UNCHANGED <<cmd, src, dst, plan, result, before, edited>>, PlanSparesSources
  PROVE  PlanSparesSources'
  BY DEF PlanSparesSources, KeyAt, NoSiblings, Beginning, Ever

\* A step changes the plan only when it makes it.
LEMMA PlanInvNext == FileInv /\ PlanInv /\ [Next]_vars => PlanInv'
<1> SUFFICES ASSUME FileInv, PlanInv, [Next]_vars PROVE PlanInv'
  OBVIOUS
<1>1. /\ cmd' = cmd
      /\ \/ UNCHANGED <<vars, before>>
         \/ (Rm \/ Cp \/ Sync) /\ UNCHANGED <<cmd, before, edited>>
         \/ /\ UNCHANGED <<pc, src, dst, todo, plan, result, before, cmd>>
            /\ pc # "done" /\ edited \subseteq edited'
  <2>1. CASE UNCHANGED vars
    BY <2>1 DEF vars
  <2>2. CASE (Rm \/ Cp \/ Sync) /\ UNCHANGED edited /\ UNCHANGED <<cmd, before>>
    BY <2>2
  <2>3. ASSUME NEW s \in Store, NEW k, Edit(s, k), UNCHANGED <<cmd, before>>
        PROVE  /\ UNCHANGED <<pc, src, dst, todo, plan, result, before, cmd>>
               /\ pc # "done" /\ edited \subseteq edited'
    BY <2>3 DEF Edit, work
  <2> QED
    BY <2>1, <2>2, <2>3 DEF Next, Finished
<1>2. CASE cmd.op # "sync"
  <2>1. result # "planned"
    BY <1>2 DEF PlanInv
  <2>2. (Rm \/ Cp \/ Sync) /\ UNCHANGED <<cmd, before, edited>> => result' # "planned"
    <3>1. ~Sync
      BY <1>2, CommandIs DEF Sync, SyncBegin, SyncListSrc, SyncListDst, FileInv, ControlOK
    <3>2. Rm => result' # "planned"
      <4>1. RmBegin => result' # "planned"
        BY <2>1 DEF RmBegin, Goto, Ends
      <4>2. \A e \in todo : RmDelete(e) => result' # "planned"
        BY <2>1 DEF RmDelete, Goto, Ends
      <4>3. RmStat \/ RmList \/ RmLast => result' # "planned"
        BY <2>1 DEF RmStat, RmList, RmLast, Goto, Ends
      <4> QED
        BY <4>1, <4>2, <4>3 DEF Rm
    <3>3. Cp => result' # "planned"
      BY <2>1 DEF Cp, CpBegin, CpList, CpStat, CpOpen, CpWrite, CpEnd, Goto, Ends
    <3> QED
      BY <3>1, <3>2, <3>3
  <2>3. result' # "planned"
    BY <1>1, <2>1, <2>2 DEF vars
  <2> QED
    BY <1>1, <1>2, <2>3 DEF PlanInv, PlanSparesSources
<1>3. CASE cmd.op = "sync"
  <2>0. /\ \A s \in Store : Keys(s) \subseteq Ever(s) /\ IsFiniteSet(Keys(s))
        /\ \A s \in Store : Ever(s) \subseteq Ever(s)'
        /\ \A s \in Store : Keys(s)' \subseteq Ever(s)' /\ IsFiniteSet(Keys(s)')
    BY <1>3, EverKept DEF PlanInv
  <2>1. CASE UNCHANGED <<vars, before>>
    <3>1. UNCHANGED <<cmd, pc, src, dst, todo, plan, result, before, edited>>
      BY <2>1 DEF vars, work
    <3>2. PlanSparesSources'
      BY <3>1, SameNames DEF PlanInv, PlanSparesSources
    <3>3. Loops(src, dst)' = Loops(src, dst) /\ \A s : Ever(s)' = Ever(s)
      BY <3>1 DEF Loops, KeyAt, Ever
    <3>4. \A e : KeyAt(src, e.key)' = KeyAt(src, e.key)
      BY <3>1 DEF KeyAt
    <3> QED
      BY <1>3, <2>0, <3>1, <3>2, <3>3, <3>4 DEF PlanInv
  <2>2. CASE Sync /\ UNCHANGED <<cmd, before, edited>>
    <3>1. CASE SyncBegin
      <4>1. PlanSparesSources'
        BY <3>1 DEF SyncBegin, PlanSparesSources, Goto, Ends, FileInv, ControlOK
      <4>2. pc' = "list" => ~Loops(src', dst')
        BY <3>1 DEF SyncBegin, Goto, Ends
      <4>3. pc' # "plan"
        BY <3>1 DEF SyncBegin, Goto, Ends
      <4> QED
        BY <1>1, <1>3, <2>0, <4>1, <4>2, <4>3 DEF PlanInv, Loops, KeyAt
    <3>2. CASE SyncListSrc
      <4>1. pc = "list" /\ UNCHANGED <<objects, src, dst>> /\ result' # "planned"
        BY <3>2 DEF SyncListSrc, Goto, Ends, Fault, FileInv, ControlOK
      <4>2. PlanSparesSources' /\ ~Loops(src, dst)'
        BY <1>3, <4>1 DEF PlanSparesSources, PlanInv, Loops, KeyAt
      <4>3. ASSUME pc' = "plan"
            PROVE  /\ \A e \in todo' : KeyAt(src, e.key) \in Ever(src.store)
                   /\ \A e, f \in todo' : e.key = f.key => e = f
                   /\ IsFiniteSet(todo')
        <5>1. todo' \in Pages(src)
          BY <3>2, <4>3 DEF SyncListSrc, Ends
        <5>2. todo' \subseteq Listing(src)
          BY <5>1, PagesAre
        <5>3. Resolved(src, cmd.from) /\ src.store \in Store /\ StoresOK
          BY <4>1, CommandIs DEF FileInv, ControlOK, Going
        <5>4. IsFiniteSet(Listing(src)) /\ \A e, f \in Listing(src) : e.key = f.key => e = f
          BY <2>0, <5>3, ListingSet
        <5>5. \A e \in todo' : KeyAt(src, e.key) \in Keys(src.store)
          BY <5>2, <5>3, ListingIs
        <5> QED
          BY <2>0, <5>2, <5>3, <5>4, <5>5, FS_Subset
      <4> QED
        BY <1>1, <1>3, <2>0, <2>2, <4>1, <4>2, <4>3 DEF PlanInv, KeyAt, Ever
    <3>3. CASE SyncListDst
      <4>1. /\ pc = "plan" /\ pc' = "done" /\ UNCHANGED <<src, dst, cmd, before, edited>>
            /\ \E listed \in Pages(dst) \cup {{}} : plan' = Planned(listed)
        BY <2>2, <3>3 DEF SyncListDst, Ends, Planned
      <4>2. Spares(plan')
        BY <1>3, <4>1, PlanIs
      <4>3. PlanSparesSources'
        BY <4>1, <4>2 DEF PlanSparesSources, Spares, KeyAt, NoSiblings, Beginning, Ever
      <4> QED
        BY <1>1, <1>3, <2>0, <4>1, <4>3 DEF PlanInv
    <3> QED
      BY <2>2, <3>1, <3>2, <3>3 DEF Sync
  <2>3. CASE /\ UNCHANGED <<pc, src, dst, todo, plan, result, before, cmd>>
             /\ pc # "done" /\ edited \subseteq edited'
    <3>1. result' # "planned"
      BY <2>3 DEF FileInv, ControlOK
    <3>2. PlanSparesSources'
      BY <3>1 DEF PlanSparesSources
    <3>3. pc = "plan" => src.store \in Store
      BY CommandIs DEF FileInv, Going
    <3> QED
      BY <1>3, <2>0, <2>3, <3>2, <3>3 DEF PlanInv, Loops, KeyAt
  <2>4. CASE (Rm \/ Cp) /\ UNCHANGED <<cmd, before, edited>>
    BY <1>3, <2>4 DEF FileInv, ControlOK, Rm, RmBegin, RmStat, RmList, RmDelete, RmLast,
              Cp, CpBegin, CpList, CpStat, CpOpen, CpWrite, CpEnd
  <2> QED
    BY <1>1, <2>1, <2>2, <2>3, <2>4
<1> QED
  BY <1>2, <1>3

\* sync.go:93-107, 133-198, 295-310: what a sync deletes begins with the name of its
\* destination, no two files go to one place, and in one tree no file of the source is
\* replaced or deleted (unless one is in the other as the guard allows), for all stores,
\* targets and page sizes.
THEOREM PlansAreSafe == Spec => []PlanSparesSources
<1>1. Init => PlanInv
  <2> SUFFICES ASSUME Init PROVE PlanInv
    OBVIOUS
  <2>1. \A s \in Store : Keys(s) = before[s]
    BY DEF Init, Keys
  <2> QED
    BY <2>1, SetupsAssumption DEF Init, PlanInv, PlanSparesSources, Ever
<1>2. FileInv /\ PlanInv /\ [Next]_vars => PlanInv'
  BY PlanInvNext
<1>3. PlanInv => PlanSparesSources
  BY DEF PlanInv
<1> QED
  BY <1>1, <1>2, <1>3, FileInvariant, PTL DEF Spec
=============================================================================
