--------------------------- MODULE S3Upload_proofs ---------------------------
(***************************************************************************)
(* Proofs about S3Upload, for any number of writers, any jobs, part sizes  *)
(* and numbers of retries, and every bound: writing to S3 implements the   *)
(* abstract ObjectStore, a write that returned nil has been there, and an  *)
(* upload is cleared unless it cannot be.                                  *)
(***************************************************************************)
EXTENDS S3Upload, NatSets_proofs

USE UploadAssumption

-----------------------------------------------------------------------------
(* The inductive invariant.                                                *)

\* The parts divide the first p units of w's stream: part i ends at e[i].
Divides(w, parts, p) ==
    \E e \in [0..Len(parts) -> 0..p] :
        /\ e[0] = 0 /\ e[Len(parts)] = p
        /\ \A i \in 1..Len(parts) :
              e[i-1] <= e[i] /\ parts[i] = Units(w, e[i-1], e[i] - e[i-1])

\* The m parts of an upload are the first p units of w's stream.
Holds(w, parts, m, p) == parts # Absent /\ Len(parts) = m /\ Divides(w, parts, p)

\* Before there is an upload nothing has been read for one.
Early(w) == pc[w] \in {"start", "stat", "buffer", "put", "create"} =>
    id[w] = NoUpload /\ pos[w] = 0 /\ completed[w] = 0

Putting(w) == pc[w] = "put" => body[w] = Sent(w) /\ Whole(w)

\* A stream that is split is longer than a part, or of unknown size.
Splitting(w) == pc[w] \in {"create", "fill", "part", "complete"} =>
    job[w].announced \notin 0..PartSize

\* The id of an upload is known before its first part is sent.
Knowing(w) == pc[w] \in {"fill", "part", "complete"} => id[w] # NoUpload

Filling(w) == pc[w] = "fill" =>
    Holds(w, uploads[Upload(w)], completed[w], pos[w]) /\ pos[w] <= job[w].len

\* The part being sent is the next one, or an earlier attempt has stored it.
PartStands(w, parts) ==
    \/ Holds(w, parts, completed[w], pos[w] - Len(body[w]))
    \/ Holds(w, parts, NextPart(w), pos[w]) /\ parts[NextPart(w)] = body[w]

Parting(w) == pc[w] = "part" =>
    LET n == Len(body[w]) IN
    /\ n > 0 /\ n <= pos[w] /\ pos[w] <= job[w].len
    /\ body[w] = Units(w, pos[w] - n, n)
    /\ n < PartSize => pos[w] = job[w].len
    /\ PartStands(w, uploads[Upload(w)])

\* The upload is ready to be completed, or an earlier attempt has completed it.
UploadStands(w, parts, seen) ==
    \/ Holds(w, parts, completed[w], pos[w])
    \/ parts = Absent /\ <<w, Sent(w)>> \in seen

Completing(w) == pc[w] = "complete" =>
    /\ job[w].ending # "error" /\ pos[w] = job[w].len
    /\ UploadStands(w, uploads[Upload(w)], shown)

Acked(w) == result[w] = "ok" => <<w, Sent(w)>> \in shown

Cleared(w) == pc[w] = "done" /\ id[w] # NoUpload /\ uploads[Upload(w)] # Absent
                  => w \in unaborted

WriterInv(w) == /\ Early(w) /\ Putting(w) /\ Splitting(w) /\ Knowing(w)
                /\ Filling(w) /\ Parting(w) /\ Completing(w) /\ Acked(w) /\ Cleared(w)

UploadInv == TypeOK /\ \A w \in Writer : WriterInv(w)

-----------------------------------------------------------------------------
(* Lemmas about streams and their parts.                                   *)

LEMMA SameSequence ==
  ASSUME NEW S, NEW s \in Seq(S), NEW t \in Seq(S), Len(s) = Len(t),
         \A i \in 1..Len(s) : s[i] = t[i]
  PROVE  s = t
OBVIOUS

LEMMA AppendShape ==
  ASSUME NEW S, NEW s \in Seq(S), NEW x \in S
  PROVE  /\ Append(s, x) \in Seq(S) /\ Len(Append(s, x)) = Len(s) + 1
         /\ Append(s, x)[Len(s) + 1] = x
OBVIOUS

LEMMA UnitsType ==
  ASSUME NEW w \in Writer, NEW from \in Nat, NEW n \in Nat
  PROVE  Units(w, from, n) \in Seq(Unit) /\ Len(Units(w, from, n)) = n
BY DEF Units, Unit

\* Two neighbouring stretches make one.
LEMMA UnitsJoin ==
  ASSUME NEW w \in Writer, NEW a \in Nat, NEW b \in Nat, a <= b
  PROVE  Units(w, 0, a) \o Units(w, a, b - a) = Units(w, 0, b)
<1>1. b - a \in Nat
  OBVIOUS
<1>2. /\ Units(w, 0, a) \in Seq(Unit) /\ Len(Units(w, 0, a)) = a
      /\ Units(w, a, b - a) \in Seq(Unit) /\ Len(Units(w, a, b - a)) = b - a
      /\ Units(w, 0, b) \in Seq(Unit) /\ Len(Units(w, 0, b)) = b
  BY <1>1, UnitsType
<1> DEFINE both == Units(w, 0, a) \o Units(w, a, b - a)
<1>3. both \in Seq(Unit) /\ Len(both) = b
  BY <1>2
<1> HIDE DEF both
<1>4. ASSUME NEW i \in 1..b
      PROVE  both[i] = <<w, i>>
  <2>1. CASE i <= a
    <3>1. both[i] = Units(w, 0, a)[i]
      BY <1>2, <2>1 DEF both
    <3> QED
      BY <2>1, <3>1 DEF Units
  <2>2. CASE i > a
    <3>1. both[i] = Units(w, a, b - a)[i - a]
      BY <1>2, <2>2 DEF both
    <3>2. i - a \in 1..(b - a) /\ a + (i - a) = i
      BY <2>2
    <3> QED
      BY <3>1, <3>2 DEF Units
  <2> QED
    BY <2>1, <2>2
<1>5. \A i \in 1..b : Units(w, 0, b)[i] = <<w, i>>
  BY DEF Units
<1>6. both = Units(w, 0, b)
  BY <1>2, <1>3, <1>4, <1>5, SameSequence
<1> QED
  BY <1>6 DEF both

\* No part divides nothing.
LEMMA DividesNothing ==
  ASSUME NEW w \in Writer
  PROVE  Divides(w, << >>, 0)
<1>1. [i \in 0..0 |-> 0] \in [0..0 -> 0..0] /\ [i \in 0..0 |-> 0][0] = 0
  OBVIOUS
<1>2. Len(<< >>) = 0 /\ 1..0 = {}
  OBVIOUS
<1> QED
  BY <1>1, <1>2 DEF Divides

\* The next part goes at the end.
LEMMA DividesOn ==
  ASSUME NEW w \in Writer, NEW parts \in Seq(Seq(Unit)), NEW p \in Nat, NEW n \in Nat,
         Divides(w, parts, p)
  PROVE  Divides(w, Append(parts, Units(w, p, n)), p + n)
<1> DEFINE m    == Len(parts)
           more == Append(parts, Units(w, p, n))
<1>1. PICK e \in [0..m -> 0..p] :
          /\ e[0] = 0 /\ e[m] = p
          /\ \A i \in 1..m : e[i-1] <= e[i] /\ parts[i] = Units(w, e[i-1], e[i] - e[i-1])
  BY DEF Divides
<1> DEFINE f == [i \in 0..(m + 1) |-> IF i <= m THEN e[i] ELSE p + n]
<1>2. m \in Nat /\ Units(w, p, n) \in Seq(Unit)
  <2>1. m \in Nat
    OBVIOUS
  <2> QED
    BY <2>1, UnitsType
<1>3. Len(more) = m + 1 /\ more[m+1] = Units(w, p, n) /\ \A i \in 1..m : more[i] = parts[i]
  BY <1>2
<1> HIDE DEF m, more
<1>4. f \in [0..(m + 1) -> 0..(p + n)] /\ f[0] = 0 /\ f[m+1] = p + n
  BY <1>1, <1>2
<1>5. ASSUME NEW i \in 1..(m + 1)
      PROVE  f[i-1] <= f[i] /\ more[i] = Units(w, f[i-1], f[i] - f[i-1])
  <2>1. CASE i <= m
    <3>1. i \in 1..m /\ f[i] = e[i] /\ f[i-1] = e[i-1]
      BY <1>2, <2>1
    <3> QED
      BY <1>1, <1>3, <3>1
  <2>2. CASE i = m + 1
    <3>1. f[i] = p + n /\ f[i-1] = p /\ more[i] = Units(w, p, n)
      BY <1>1, <1>2, <1>3, <2>2
    <3>2. (p + n) - p = n
      OBVIOUS
    <3> QED
      BY <3>1, <3>2
  <2> QED
    BY <1>2, <2>1, <2>2
<1> HIDE DEF f
<1> QED
  BY <1>3, <1>4, <1>5 DEF Divides, more

\* The parts put together again are the stream.
LEMMA FlattenParts ==
  ASSUME NEW w \in Writer, NEW parts \in Seq(Seq(Unit)), NEW p \in Nat,
         Len(parts) > 0, Divides(w, parts, p)
  PROVE  FlattenSeq(parts) = Units(w, 0, p)
<1> DEFINE m    == Len(parts)
           Flat(g) == g = [i \in 1..m |-> IF i = 1 THEN parts[i] ELSE g[i-1] \o parts[i]]
<1>1. PICK e \in [0..m -> 0..p] :
          /\ e[0] = 0 /\ e[m] = p
          /\ \A i \in 1..m : e[i-1] <= e[i] /\ parts[i] = Units(w, e[i-1], e[i] - e[i-1])
  BY DEF Divides
<1> DEFINE f == [i \in 1..m |-> Units(w, 0, e[i])]
<1>2. m \in Nat \ {0}
  OBVIOUS
<1>3. ASSUME NEW i \in 1..m
      PROVE  f[i] = IF i = 1 THEN parts[i] ELSE f[i-1] \o parts[i]
  <2>0. e[i] \in Nat /\ e[i-1] \in Nat /\ e[i-1] <= e[i]
    <3>1. i \in 0..m /\ i - 1 \in 0..m
      BY <1>2
    <3>2. ASSUME NEW j \in 0..m
          PROVE  e[j] \in Nat
      <4>1. e \in [0..m -> 0..p]
        BY <1>1
      <4>2. e[j] \in 0..p
        BY <4>1
      <4> QED
        BY <4>2
    <3>3. e[i-1] <= e[i]
      BY <1>1
    <3> QED
      BY <3>1, <3>2, <3>3
  <2>1. CASE i = 1
    BY <1>1, <1>2, <2>0, <2>1
  <2>2. CASE i # 1
    <3>1. i - 1 \in 1..m /\ f[i-1] = Units(w, 0, e[i-1])
      BY <1>2, <2>2
    <3>2. parts[i] = Units(w, e[i-1], e[i] - e[i-1])
      BY <1>1
    <3>3. Units(w, 0, e[i-1]) \o Units(w, e[i-1], e[i] - e[i-1]) = Units(w, 0, e[i])
      BY <2>0, UnitsJoin
    <3> QED
      BY <2>2, <3>1, <3>2, <3>3
  <2> QED
    BY <2>1, <2>2
<1>4. Flat(f)
  BY <1>3
<1>5. ASSUME NEW g, Flat(g)
      PROVE  g[m] = f[m]
  <2>0. \A i \in 1..m : g[i] = IF i = 1 THEN parts[i] ELSE g[i-1] \o parts[i]
    BY <1>5
  <2> HIDE DEF f, m
  <2> DEFINE S == {n \in Nat : n + 1 <= m => g[n+1] = f[n+1]}
  <2>1. 0 \in S
    BY <1>2, <1>3, <2>0
  <2>2. ASSUME NEW n \in Nat, n \in S
        PROVE  n + 1 \in S
    <3> SUFFICES ASSUME (n + 1) + 1 <= m
                 PROVE  g[(n+1)+1] = f[(n+1)+1]
      OBVIOUS
    <3>1. (n+1)+1 \in 1..m /\ (n+1)+1 # 1 /\ ((n+1)+1) - 1 = n + 1
      BY <1>2
    <3>2. g[n+1] = f[n+1]
      BY <1>2, <2>2
    <3> QED
      BY <1>3, <2>0, <3>1, <3>2
  <2> HIDE DEF S
  <2>3. Nat \subseteq S
    BY <2>1, <2>2, SetInduction
  <2>4. m - 1 \in S /\ (m - 1) + 1 = m
    BY <1>2, <2>3
  <2> QED
    BY <1>2, <2>4 DEF S
<1>6. FlattenSeq(parts) = (CHOOSE g : Flat(g))[m]
  BY <1>2 DEF FlattenSeq
<1>7. Flat(CHOOSE g : Flat(g))
  BY <1>4
<1> HIDE DEF Flat
<1>8. FlattenSeq(parts) = f[m]
  BY <1>5, <1>6, <1>7
<1> QED
  BY <1>1, <1>2, <1>8

-----------------------------------------------------------------------------
(* What a step leaves alone.                                               *)

\* A job is never changed.
LEMMA JobShape ==
  ASSUME TypeOK, NEW w \in Writer
  PROVE  /\ job[w].len \in Nat /\ job[w].announced \in Nat \cup {-1}
         /\ job[w].ending \in {"eof", "short", "error"} /\ job[w].overwrite \in BOOLEAN
BY DEF TypeOK, Job

\* What w sends is a sequence of units.
LEMMA SentType ==
  ASSUME TypeOK, NEW w \in Writer
  PROVE  Sent(w) \in Seq(Unit)
<1>1. job[w].len \in Nat /\ job[w].announced \in Nat \cup {-1}
  BY JobShape
<1>2. CASE job[w].announced \in 0..PartSize
  <2>1. Units(w, 0, job[w].announced) \in Seq(Unit)
    BY <1>2, UnitsType
  <2>2. [i \in 1..job[w].announced |-> Zero] \in Seq(Unit)
    BY <1>2 DEF Unit
  <2> QED
    BY <1>2, <2>1, <2>2 DEF Sent
<1>3. CASE job[w].announced \notin 0..PartSize
  <2>1. Units(w, 0, job[w].len) \in Seq(Unit)
    BY <1>1, UnitsType
  <2> QED
    BY <1>3, <2>1 DEF Sent
<1> QED
  BY <1>2, <1>3

\* Writer q takes no step, and nobody takes one with its uploads.
Rests(q) ==
    /\ pc'[q] = pc[q] /\ pos'[q] = pos[q] /\ body'[q] = body[q] /\ id'[q] = id[q]
    /\ completed'[q] = completed[q] /\ result'[q] = result[q]
    /\ \A t \in 0..MaxRetries : uploads'[<<q, t>>] = uploads[<<q, t>>]

\* What nobody takes back.
Lasting == job' = job /\ shown \subseteq shown' /\ unaborted \subseteq unaborted'

LEMMA RestKeeps ==
  ASSUME TypeOK, NEW q \in Writer, WriterInv(q), Rests(q), Lasting
  PROVE  WriterInv(q)'
<1>1. Sent(q)' = Sent(q) /\ Whole(q)' = Whole(q)
  BY DEF Lasting, Sent, Whole
<1>2. id[q] # NoUpload => uploads'[Upload(q)] = uploads[Upload(q)] /\ Upload(q)' = Upload(q)
  <2>1. id[q] \in 0..NoUpload
    BY DEF TypeOK
  <2>2. id[q] # NoUpload => id[q] \in 0..MaxRetries
    BY <2>1 DEF NoUpload
  <2> QED
    BY <2>2 DEF Rests, Upload
<1>3. Early(q)' /\ Putting(q)' /\ Splitting(q)' /\ Knowing(q)'
  BY <1>1 DEF WriterInv, Rests, Lasting, Early, Putting, Splitting, Knowing, NoUpload
<1>4. Filling(q)' /\ Parting(q)'
  BY <1>2 DEF WriterInv, Rests, Lasting, Knowing, Filling, Parting, PartStands, NextPart
<1>5. Completing(q)'
  BY <1>1, <1>2 DEF WriterInv, Rests, Lasting, Knowing, Completing, UploadStands
<1>6. Acked(q)' /\ Cleared(q)'
  BY <1>1, <1>2 DEF WriterInv, Rests, Lasting, Acked, Cleared, NoUpload
<1> QED
  BY <1>3, <1>4, <1>5, <1>6 DEF WriterInv

-----------------------------------------------------------------------------
(* What a request does to the bucket.                                      *)

BucketOK == /\ object \in Seq(Unit) \cup {Absent}
            /\ uploads \in [UploadId -> Seq(Seq(Unit)) \cup {Absent}]
            /\ shown \subseteq Writer \X Seq(Unit)

LocalsOK ==
    /\ pc \in [Writer -> PC] /\ tries \in [Writer -> 0..MaxRetries]
    /\ pos \in [Writer -> Nat] /\ body \in [Writer -> Seq(Unit)]
    /\ id \in [Writer -> 0..NoUpload] /\ completed \in [Writer -> Nat]
    /\ result \in [Writer -> {"none", "ok", "error", "crashed"}]
    /\ \A w \in Writer : Len(body[w]) <= PartSize

RestOK == /\ job \in [Writer -> Jobs] /\ cancelled \in [Writer -> BOOLEAN]
          /\ unaborted \subseteq Writer /\ budget \in [cancels : Nat, crashes : Nat]

LEMMA TypeParts == TypeOK <=> BucketOK /\ LocalsOK /\ RestOK
BY DEF TypeOK, BucketOK, LocalsOK, RestOK

LEMMA TypePartsNext == TypeOK' <=> BucketOK' /\ LocalsOK' /\ RestOK'
BY DEF TypeOK, BucketOK, LocalsOK, RestOK

\* The request of w takes effect, or has taken it before, or does not.
MayTakeEffect(w) == TakesEffect(w) \/ AlreadyComplete(w) \/ UNCHANGED bucket

\* A known upload is one of the bucket's.
LEMMA UploadIsKnown ==
  ASSUME TypeOK, NEW w \in Writer, id[w] # NoUpload
  PROVE  Upload(w) \in UploadId /\ id[w] \in 0..MaxRetries
<1>1. id[w] \in 0..NoUpload
  BY DEF TypeOK
<1>2. id[w] \in 0..MaxRetries
  BY <1>1 DEF NoUpload
<1> QED
  BY <1>2 DEF Upload, UploadId

\* Storing the part leaves the upload with that part and the ones before it.
LEMMA PartIsStored ==
  ASSUME TypeOK, NEW w \in Writer, WriterInv(w), pc[w] = "part",
         NEW parts, parts = WithPart(uploads[Upload(w)], NextPart(w), body[w])
  PROVE  /\ parts \in Seq(Seq(Unit))
         /\ Holds(w, parts, NextPart(w), pos[w]) /\ parts[NextPart(w)] = body[w]
<1> DEFINE old == uploads[Upload(w)]
           n   == Len(body[w])
<1>1. /\ n > 0 /\ n <= pos[w] /\ body[w] = Units(w, pos[w] - n, n)
      /\ PartStands(w, old)
  BY DEF WriterInv, Parting
<1>2. /\ completed[w] \in Nat /\ pos[w] \in Nat /\ body[w] \in Seq(Unit) /\ n \in Nat
  BY DEF TypeOK
<1>3. old # Absent
  BY <1>1 DEF PartStands, Holds
<1>4. old \in Seq(Seq(Unit))
  <2>1. Upload(w) \in UploadId
    BY UploadIsKnown DEF WriterInv, Knowing
  <2> QED
    BY <1>3, <2>1 DEF TypeOK
<1> HIDE DEF old, n
<1>5. parts = IF NextPart(w) <= Len(old) THEN [old EXCEPT ![NextPart(w)] = body[w]]
                                         ELSE Append(old, body[w])
  BY DEF WithPart, old
<1>6. CASE Holds(w, old, completed[w], pos[w] - n)
  <2>1. Len(old) = completed[w] /\ Divides(w, old, pos[w] - n)
    BY <1>6 DEF Holds
  <2>2. pos[w] - n \in Nat /\ (pos[w] - n) + n = pos[w]
    BY <1>1, <1>2
  <2>3. parts = Append(old, body[w])
    BY <1>2, <1>5, <2>1 DEF NextPart
  <2>4. Divides(w, parts, pos[w])
    BY <1>1, <1>2, <1>4, <2>1, <2>2, <2>3, DividesOn
  <2>5. parts \in Seq(Seq(Unit)) /\ Len(parts) = NextPart(w) /\ parts[NextPart(w)] = body[w]
    <3>1. body[w] \in Seq(Unit)
      BY <1>2
    <3>2. /\ Append(old, body[w]) \in Seq(Seq(Unit))
          /\ Len(Append(old, body[w])) = Len(old) + 1
          /\ Append(old, body[w])[Len(old) + 1] = body[w]
      BY <1>4, <3>1, AppendShape
    <3>3. Len(old) + 1 = NextPart(w)
      BY <2>1 DEF NextPart
    <3> QED
      BY <2>3, <3>2, <3>3
  <2> QED
    BY <2>4, <2>5, AbsentAssumption DEF Holds
<1>7. CASE Holds(w, old, NextPart(w), pos[w]) /\ old[NextPart(w)] = body[w]
  <2>1. Len(old) = NextPart(w) /\ NextPart(w) \in 1..Len(old)
    BY <1>2, <1>7 DEF Holds, NextPart
  <2>2. parts = old
    <3>1. parts = [old EXCEPT ![NextPart(w)] = body[w]]
      BY <1>4, <1>5, <2>1
    <3>2. old = [i \in 1..Len(old) |-> old[i]]
      BY <1>4
    <3> QED
      BY <1>7, <2>1, <3>1, <3>2
  <2> QED
    BY <1>4, <1>7, <2>2
<1> QED
  BY <1>1, <1>6, <1>7 DEF PartStands, n, old

\* What is completed is all of the stream.
LEMMA UploadIsWhole ==
  ASSUME TypeOK, NEW w \in Writer, WriterInv(w), pc[w] = "complete", completed[w] > 0,
         uploads[Upload(w)] # Absent
  PROVE  FlattenSeq(uploads[Upload(w)]) = Sent(w) /\ Whole(w)
<1> DEFINE parts == uploads[Upload(w)]
<1>1. /\ job[w].ending # "error" /\ pos[w] = job[w].len
      /\ Len(parts) = completed[w] /\ Divides(w, parts, pos[w])
  BY DEF WriterInv, Completing, UploadStands, Holds
<1>2. job[w].announced \notin 0..PartSize
  BY DEF WriterInv, Splitting
<1>3. parts \in Seq(Seq(Unit))
  <2>1. Upload(w) \in UploadId
    BY UploadIsKnown DEF WriterInv, Knowing
  <2> QED
    BY <2>1 DEF TypeOK
<1>4. pos[w] \in Nat
  BY DEF TypeOK
<1>5. FlattenSeq(parts) = Units(w, 0, pos[w])
  BY <1>1, <1>3, <1>4, FlattenParts
<1> QED
  BY <1>1, <1>2, <1>5 DEF Sent, Whole

\* What a request leaves in the bucket; the other writers' uploads stay.
LEMMA EffectKeeps ==
  ASSUME TypeOK, NEW w \in Writer, WriterInv(w), MayTakeEffect(w), job' = job
  PROVE  /\ BucketOK' /\ shown \subseteq shown'
         /\ \A q \in Writer \ {w}, t \in 0..MaxRetries : uploads'[<<q, t>>] = uploads[<<q, t>>]
         /\ pc[w] = "put" /\ TakesEffect(w) => <<w, Sent(w)>> \in shown'
         /\ pc[w] = "create" /\ TakesEffect(w) => uploads'[<<w, tries[w]>>] = << >>
         /\ pc[w] = "part" =>
               /\ PartStands(w, uploads'[Upload(w)])
               /\ TakesEffect(w) => Holds(w, uploads'[Upload(w)], NextPart(w), pos[w])
         /\ pc[w] = "complete" =>
               /\ UploadStands(w, uploads'[Upload(w)], shown')
               /\ TakesEffect(w) \/ AlreadyComplete(w) =>
                     uploads'[Upload(w)] = Absent /\ <<w, Sent(w)>> \in shown'
<1> DEFINE Others == \A q \in Writer \ {w}, t \in 0..MaxRetries :
                         uploads'[<<q, t>>] = uploads[<<q, t>>]
<1>0. BucketOK
  BY TypeParts
<1>1. ASSUME Becomes(w, Sent(w))
      PROVE  /\ object' \in Seq(Unit) \cup {Absent} /\ shown' \subseteq Writer \X Seq(Unit)
             /\ shown \subseteq shown' /\ <<w, Sent(w)>> \in shown'
  <2>1. object' = Sent(w) /\ shown' = shown \cup {<<w, Sent(w)>>}
    BY <1>1 DEF Becomes
  <2> QED
    BY <1>0, <2>1, SentType DEF BucketOK
<1>2. ASSUME UNCHANGED <<object, shown>>
      PROVE  /\ object' \in Seq(Unit) \cup {Absent} /\ shown' \subseteq Writer \X Seq(Unit)
             /\ shown \subseteq shown'
  BY <1>0, <1>2 DEF BucketOK
<1>3. CASE ~TakesEffect(w)
  <2>1. UNCHANGED <<object, uploads, shown>>
    BY <1>3 DEF MayTakeEffect, AlreadyComplete, bucket
  <2>2. BucketOK'
    BY <1>0, <2>1 DEF BucketOK
  <2>3. pc[w] = "part" => PartStands(w, uploads[Upload(w)])
    BY DEF WriterInv, Parting
  <2>4. pc[w] = "complete" => UploadStands(w, uploads[Upload(w)], shown)
    BY DEF WriterInv, Completing
  <2>5. AlreadyComplete(w) => uploads[Upload(w)] = Absent
    BY DEF AlreadyComplete
  <2>6. pc[w] = "complete" /\ AlreadyComplete(w) => <<w, Sent(w)>> \in shown
    BY <2>4, <2>5 DEF UploadStands, Holds
  <2> QED
    BY <1>3, <2>1, <2>2, <2>3, <2>4, <2>5, <2>6
<1>4. CASE TakesEffect(w) /\ pc[w] = "stat"
  <2>1. UNCHANGED <<object, uploads, shown>>
    BY <1>4 DEF TakesEffect, bucket
  <2>2. BucketOK'
    BY <1>0, <2>1 DEF BucketOK
  <2> QED
    BY <1>4, <2>1, <2>2
<1>5. CASE TakesEffect(w) /\ pc[w] = "put"
  <2>1. Becomes(w, body[w]) /\ UNCHANGED uploads
    BY <1>5 DEF TakesEffect
  <2>2. body[w] = Sent(w)
    BY <1>5 DEF WriterInv, Putting
  <2> QED
    BY <1>0, <1>1, <1>5, <2>1, <2>2 DEF BucketOK
<1>6. CASE TakesEffect(w) /\ pc[w] = "create"
  <2>1. uploads' = [uploads EXCEPT ![<<w, tries[w]>>] = << >>] /\ UNCHANGED <<object, shown>>
    BY <1>6 DEF TakesEffect
  <2>2. <<w, tries[w]>> \in UploadId /\ << >> \in Seq(Seq(Unit))
    BY DEF TypeOK, UploadId
  <2>3. BucketOK' /\ Others /\ uploads'[<<w, tries[w]>>] = << >>
    BY <1>0, <2>1, <2>2 DEF BucketOK, UploadId
  <2> QED
    BY <1>2, <1>6, <2>1, <2>3
<1>7. CASE TakesEffect(w) /\ pc[w] = "part"
  <2> DEFINE new == WithPart(uploads[Upload(w)], NextPart(w), body[w])
  <2>1. uploads' = [uploads EXCEPT ![Upload(w)] = new] /\ UNCHANGED <<object, shown>>
    BY <1>7 DEF TakesEffect
  <2>2. Upload(w) \in UploadId
    BY <1>7, UploadIsKnown DEF WriterInv, Knowing
  <2>3. /\ new \in Seq(Seq(Unit)) /\ Holds(w, new, NextPart(w), pos[w])
        /\ new[NextPart(w)] = body[w]
    BY <1>7, PartIsStored
  <2> HIDE DEF new
  <2>4. BucketOK' /\ Others /\ uploads'[Upload(w)] = new
    BY <1>0, <2>1, <2>2, <2>3 DEF BucketOK, UploadId, Upload
  <2> QED
    BY <1>2, <1>7, <2>1, <2>3, <2>4 DEF PartStands
<1>8. CASE TakesEffect(w) /\ pc[w] = "complete"
  <2>1. /\ Becomes(w, FlattenSeq(uploads[Upload(w)]))
        /\ uploads' = [uploads EXCEPT ![Upload(w)] = Absent]
        /\ completed[w] > 0 /\ uploads[Upload(w)] # Absent
    BY <1>8 DEF TakesEffect
  <2>2. Becomes(w, Sent(w))
    BY <1>8, <2>1, UploadIsWhole
  <2>3. Upload(w) \in UploadId
    BY <1>8, UploadIsKnown DEF WriterInv, Knowing
  <2>4. /\ uploads' \in [UploadId -> Seq(Seq(Unit)) \cup {Absent}]
        /\ Others /\ uploads'[Upload(w)] = Absent
    BY <1>0, <2>1, <2>3 DEF BucketOK, UploadId, Upload
  <2> QED
    BY <1>1, <1>8, <2>2, <2>4 DEF BucketOK, UploadStands
<1> QED
  BY <1>3, <1>4, <1>5, <1>6, <1>7, <1>8 DEF TakesEffect

-----------------------------------------------------------------------------
(* The steps of a writer.                                                  *)

\* What a step of w has to keep.
Kept(w) == /\ TypeOK' /\ Lasting
           /\ \A q \in Writer \ {w} : Rests(q)
           /\ WriterInv(w)'

\* A step that leaves the bucket alone need only be asked about its writer.
LEMMA LocalStep ==
  ASSUME TypeOK, NEW w \in Writer,
         UNCHANGED <<bucket, job>>, LocalsOK', RestOK', unaborted \subseteq unaborted',
         \A q \in Writer \ {w} :
             /\ pc'[q] = pc[q] /\ pos'[q] = pos[q] /\ body'[q] = body[q] /\ id'[q] = id[q]
             /\ completed'[q] = completed[q] /\ result'[q] = result[q],
         WriterInv(w)'
  PROVE  Kept(w)
<1>1. UNCHANGED <<object, uploads, shown, job>>
  BY DEF bucket
<1>2. TypeOK'
  BY <1>1, TypeParts, TypePartsNext DEF BucketOK
<1>3. Lasting
  BY <1>1 DEF Lasting
<1>4. \A q \in Writer \ {w} : Rests(q)
  BY <1>1 DEF Rests
<1> QED
  BY <1>2, <1>3, <1>4 DEF Kept

\* At the end of a write, or before the last step of one, little is asked.
LEMMA EndIsKept ==
  ASSUME NEW w \in Writer, pc'[w] \in {"done", "abort"},
         result'[w] = "ok" => <<w, Sent(w)'>> \in shown',
         pc'[w] = "done" => \/ id'[w] = NoUpload \/ uploads'[Upload(w)'] = Absent
                            \/ w \in unaborted'
  PROVE  WriterInv(w)'
BY DEF WriterInv, Early, Putting, Splitting, Knowing, Filling, Parting, Completing, Acked,
       Cleared, NoUpload

LEMMA StartStep ==
  ASSUME TypeOK, NEW w \in Writer, WriterInv(w), Start(w)
  PROVE  Kept(w)
<1>1. /\ pc[w] = "start" /\ pc' = [pc EXCEPT ![w] = IF job[w].overwrite THEN "buffer" ELSE "stat"]
      /\ UNCHANGED <<bucket, job, tries, pos, body, id, completed, result,
                     cancelled, unaborted, budget>>
  BY DEF Start, Goto
<1>2. LocalsOK /\ RestOK
  BY TypeParts
<1>3. LocalsOK' /\ RestOK'
  BY <1>1, <1>2 DEF LocalsOK, RestOK, PC, Requests
<1>4. pc'[w] \in {"buffer", "stat"}
  BY <1>1, <1>2 DEF LocalsOK
<1>5. Early(w)' /\ Acked(w)'
  BY <1>1 DEF WriterInv, Early, Acked, NoUpload, Sent, bucket
<1>6. WriterInv(w)'
  BY <1>4, <1>5 DEF WriterInv, Putting, Splitting, Knowing, Filling, Parting, Completing, Cleared
<1> QED
  BY <1>1, <1>2, <1>3, <1>6, LocalStep DEF LocalsOK

LEMMA BufferStep ==
  ASSUME TypeOK, NEW w \in Writer, WriterInv(w), Buffer(w)
  PROVE  Kept(w)
<1>1. /\ pc[w] = "buffer"
      /\ UNCHANGED <<bucket, job, tries, pos, id, completed, cancelled, unaborted, budget>>
  BY DEF Buffer
<1>2. LocalsOK /\ RestOK
  BY TypeParts
<1>3. id[w] = NoUpload /\ pos[w] = 0 /\ completed[w] = 0 /\ Acked(w)
  BY <1>1 DEF WriterInv, Early
<1>4. /\ job[w].len \in Nat /\ job[w].announced \in Nat \cup {-1}
  BY JobShape
<1>5. Rest(w) = job[w].len
  BY <1>3, <1>4 DEF Rest
<1>6. ASSUME NEW units \in Seq(Unit), Sends(w, units), Len(units) <= PartSize,
             units = Sent(w), Whole(w)
      PROVE  Kept(w)
  <2>1. /\ body' = [body EXCEPT ![w] = units] /\ pc' = [pc EXCEPT ![w] = "put"]
        /\ UNCHANGED result
    BY <1>6 DEF Sends, Goto
  <2>2. LocalsOK' /\ RestOK'
    BY <1>1, <1>2, <1>6, <2>1 DEF LocalsOK, RestOK, PC, Requests
  <2>3. pc'[w] = "put" /\ body'[w] = units
    BY <1>2, <2>1 DEF LocalsOK
  <2>4. Early(w)' /\ Acked(w)' /\ Putting(w)'
    BY <1>1, <1>3, <1>6, <2>1, <2>3 DEF Early, Acked, Putting, NoUpload, Sent, Whole, bucket
  <2>5. WriterInv(w)'
    BY <2>3, <2>4 DEF WriterInv, Splitting, Knowing, Filling, Parting, Completing, Cleared
  <2> QED
    BY <1>1, <1>2, <2>1, <2>2, <2>5, LocalStep DEF LocalsOK
<1>7. ASSUME Splits(w), job[w].announced \notin 0..PartSize
      PROVE  Kept(w)
  <2>1. pc' = [pc EXCEPT ![w] = "create"] /\ UNCHANGED <<body, result>>
    BY <1>7 DEF Splits, Goto
  <2>2. LocalsOK' /\ RestOK'
    BY <1>1, <1>2, <2>1 DEF LocalsOK, RestOK, PC, Requests
  <2>3. pc'[w] = "create"
    BY <1>2, <2>1 DEF LocalsOK
  <2>4. Early(w)' /\ Acked(w)' /\ Splitting(w)'
    BY <1>1, <1>3, <1>7, <2>1 DEF Early, Acked, Splitting, NoUpload, Sent, bucket
  <2>5. WriterInv(w)'
    BY <2>3, <2>4 DEF WriterInv, Putting, Knowing, Filling, Parting, Completing, Cleared
  <2> QED
    BY <1>1, <1>2, <2>1, <2>2, <2>5, LocalStep DEF LocalsOK
<1>8. ASSUME Refuses(w)
      PROVE  Kept(w)
  <2>1. /\ pc' = [pc EXCEPT ![w] = "done"] /\ result' = [result EXCEPT ![w] = "error"]
        /\ UNCHANGED body
    BY <1>8 DEF Refuses, Ends, Goto
  <2>2. LocalsOK' /\ RestOK'
    BY <1>1, <1>2, <2>1 DEF LocalsOK, RestOK, PC, Requests
  <2>3. pc'[w] = "done" /\ result'[w] = "error" /\ id'[w] = NoUpload
    BY <1>1, <1>2, <1>3, <2>1 DEF LocalsOK
  <2>4. WriterInv(w)'
    BY <2>3, EndIsKept
  <2> QED
    BY <1>1, <1>2, <2>1, <2>2, <2>4, LocalStep DEF LocalsOK
<1>9. CASE job[w].announced = -1 /\ BufferUnknown(w)
  <2>1. job[w].announced \notin 0..PartSize
    BY <1>9
  <2>2. CASE Rest(w) < PartSize /\ job[w].ending # "error" /\ Sends(w, Units(w, 0, Rest(w)))
    <3>1. Units(w, 0, Rest(w)) = Sent(w) /\ Whole(w)
      BY <1>5, <2>1, <2>2 DEF Sent, Whole
    <3>2. Units(w, 0, Rest(w)) \in Seq(Unit) /\ Len(Units(w, 0, Rest(w))) = Rest(w)
      BY <1>4, <1>5, UnitsType
    <3> QED
      BY <1>4, <1>5, <1>6, <2>2, <3>1, <3>2
  <2> QED
    BY <1>7, <1>8, <1>9, <2>1, <2>2 DEF BufferUnknown
<1>10. CASE job[w].announced \in 0..PartSize /\ BufferKnown(w)
  <2> DEFINE size == job[w].announced
  <2>1. Whole(w) /\ size \in Nat
    BY <1>10 DEF Whole
  <2>2. CASE Rest(w) >= size /\ Sends(w, Units(w, 0, size))
    <3>1. Units(w, 0, size) = Sent(w)
      BY <1>4, <1>5, <1>10, <2>2 DEF Sent
    <3>2. Units(w, 0, size) \in Seq(Unit) /\ Len(Units(w, 0, size)) = size
      BY <2>1, UnitsType
    <3> QED
      BY <1>6, <1>10, <2>1, <2>2, <3>1, <3>2
  <2>3. CASE Rest(w) = 0 /\ size > 0 /\ Sends(w, [i \in 1..size |-> Zero])
    <3>1. [i \in 1..size |-> Zero] = Sent(w)
      BY <1>4, <1>5, <1>10, <2>3 DEF Sent
    <3>2. [i \in 1..size |-> Zero] \in Seq(Unit) /\ Len([i \in 1..size |-> Zero]) = size
      BY <2>1 DEF Unit
    <3> QED
      BY <1>6, <1>10, <2>1, <2>3, <3>1, <3>2
  <2> QED
    BY <1>8, <1>10, <2>2, <2>3 DEF BufferKnown
<1>11. CASE job[w].announced > PartSize /\ Splits(w)
  BY <1>4, <1>7, <1>11
<1> QED
  BY <1>9, <1>10, <1>11 DEF Buffer

LEMMA FillStep ==
  ASSUME TypeOK, NEW w \in Writer, WriterInv(w), FillPart(w)
  PROVE  Kept(w)
<1>1. /\ pc[w] = "fill"
      /\ UNCHANGED <<bucket, job, tries, id, completed, result, cancelled, unaborted, budget>>
  BY DEF FillPart
<1>2. LocalsOK /\ RestOK
  BY TypeParts
<1>3. /\ Holds(w, uploads[Upload(w)], completed[w], pos[w]) /\ pos[w] <= job[w].len
      /\ id[w] # NoUpload /\ job[w].announced \notin 0..PartSize /\ Acked(w)
  BY <1>1 DEF WriterInv, Filling, Knowing, Splitting
<1>4. /\ job[w].len \in Nat /\ pos[w] \in Nat /\ completed[w] \in Nat
  BY <1>2, JobShape DEF LocalsOK
<1>5. uploads' = uploads /\ shown' = shown /\ Upload(w)' = Upload(w) /\ Acked(w)'
  BY <1>1, <1>3 DEF bucket, Upload, Acked, Sent
<1>6. CASE Rest(w) > 0
  <2> DEFINE n == IF Rest(w) < PartSize THEN Rest(w) ELSE PartSize
  <2>1. /\ body' = [body EXCEPT ![w] = Units(w, pos[w], n)]
        /\ pos' = [pos EXCEPT ![w] = @ + n] /\ pc' = [pc EXCEPT ![w] = "part"]
    BY <1>1, <1>6 DEF FillPart, Goto
  <2>2. /\ n \in Nat /\ 0 < n /\ n <= PartSize /\ pos[w] + n <= job[w].len
        /\ n < PartSize => pos[w] + n = job[w].len
    BY <1>4, <1>6 DEF Rest
  <2> HIDE DEF n
  <2>3. Units(w, pos[w], n) \in Seq(Unit) /\ Len(Units(w, pos[w], n)) = n
    BY <1>4, <2>2, UnitsType
  <2>4. LocalsOK' /\ RestOK'
    BY <1>1, <1>2, <1>4, <2>1, <2>2, <2>3 DEF LocalsOK, RestOK, PC, Requests
  <2>5. pc'[w] = "part" /\ body'[w] = Units(w, pos[w], n) /\ pos'[w] = pos[w] + n
    BY <1>2, <2>1 DEF LocalsOK
  <2>6. (pos[w] + n) - n = pos[w] /\ n <= pos[w] + n
    BY <1>4, <2>2
  <2>7. Parting(w)'
    BY <1>1, <1>3, <1>5, <2>2, <2>3, <2>5, <2>6 DEF Parting, PartStands
  <2>8. Splitting(w)' /\ Knowing(w)'
    BY <1>1, <1>3 DEF Splitting, Knowing, NoUpload
  <2>9. WriterInv(w)'
    BY <1>5, <2>5, <2>7, <2>8 DEF WriterInv, Early, Putting, Filling, Completing, Cleared
  <2> QED
    BY <1>1, <1>2, <2>1, <2>4, <2>9, LocalStep DEF LocalsOK
<1>7. CASE ~(Rest(w) > 0)
  <2>1. pc' = [pc EXCEPT ![w] = AfterStream(w)] /\ UNCHANGED <<body, pos>>
    BY <1>1, <1>7 DEF FillPart, Goto
  <2>2. pos[w] = job[w].len
    BY <1>3, <1>4, <1>7 DEF Rest
  <2>3. LocalsOK' /\ RestOK'
    BY <1>1, <1>2, <2>1 DEF LocalsOK, RestOK, AfterStream, PC, Requests
  <2>4. pc'[w] = AfterStream(w)
    BY <1>2, <2>1 DEF LocalsOK
  <2>5. WriterInv(w)'
    <3>1. CASE pc'[w] = "complete"
      <4>1. job[w].ending # "error"
        BY <2>4, <3>1 DEF AfterStream
      <4>2. Completing(w)' /\ Splitting(w)' /\ Knowing(w)'
        BY <1>1, <1>3, <1>5, <2>1, <2>2, <4>1
           DEF Completing, UploadStands, Splitting, Knowing, NoUpload
      <4> QED
        BY <1>5, <3>1, <4>2 DEF WriterInv, Early, Putting, Filling, Parting, Cleared
    <3>2. CASE pc'[w] = "abort"
      BY <1>5, <3>2, EndIsKept DEF Acked
    <3> QED
      BY <2>4, <3>1, <3>2 DEF AfterStream
  <2> QED
    BY <1>1, <1>2, <2>1, <2>3, <2>5, LocalStep DEF LocalsOK
<1> QED
  BY <1>6, <1>7

\* A step that does something to the bucket need only be asked about its writer
\* too, once what it does there is known.
LEMMA RequestStep ==
  ASSUME TypeOK, NEW w \in Writer, WriterInv(w), MayTakeEffect(w),
         UNCHANGED <<job, pos, body, cancelled, unaborted, budget>>, LocalsOK',
         \A q \in Writer \ {w} :
             /\ pc'[q] = pc[q] /\ id'[q] = id[q]
             /\ completed'[q] = completed[q] /\ result'[q] = result[q],
         WriterInv(w)'
  PROVE  Kept(w)
<1>1. /\ BucketOK' /\ shown \subseteq shown'
      /\ \A q \in Writer \ {w}, t \in 0..MaxRetries : uploads'[<<q, t>>] = uploads[<<q, t>>]
  BY EffectKeeps
<1>2. TypeOK'
  BY <1>1, TypeParts, TypePartsNext DEF RestOK
<1>3. \A q \in Writer \ {w} : Rests(q)
  BY <1>1 DEF Rests
<1> QED
  BY <1>1, <1>2, <1>3 DEF Kept, Lasting

\* What a writer has been told has been there stays so.
LEMMA AckLasts ==
  ASSUME TypeOK, NEW w \in Writer, WriterInv(w), MayTakeEffect(w),
         job' = job, result'[w] = "ok" => result[w] = "ok"
  PROVE  result'[w] = "ok" => <<w, Sent(w)'>> \in shown'
<1>1. shown \subseteq shown'
  BY EffectKeeps
<1> QED
  BY <1>1 DEF WriterInv, Acked, Sent

LEMMA AnsweredStep ==
  ASSUME TypeOK, NEW w \in Writer, WriterInv(w), Answered(w)
  PROVE  Kept(w)
<1>1. /\ pc[w] \in Requests /\ (TakesEffect(w) \/ AlreadyComplete(w)) /\ Proceeds(w)
      /\ UNCHANGED <<job, pos, body, cancelled, unaborted, budget>>
  BY DEF Answered, Sending
<1>2. MayTakeEffect(w) /\ LocalsOK /\ RestOK
  BY <1>1, TypeParts DEF MayTakeEffect
<1>3. /\ shown \subseteq shown'
      /\ pc[w] = "put" /\ TakesEffect(w) => <<w, Sent(w)>> \in shown'
      /\ pc[w] = "create" /\ TakesEffect(w) => uploads'[<<w, tries[w]>>] = << >>
      /\ pc[w] = "part" /\ TakesEffect(w) => Holds(w, uploads'[Upload(w)], NextPart(w), pos[w])
      /\ pc[w] = "complete" => uploads'[Upload(w)] = Absent /\ <<w, Sent(w)>> \in shown'
  BY <1>1, <1>2, EffectKeeps
<1>4. tries' = [tries EXCEPT ![w] = 0] /\ Sent(w)' = Sent(w) /\ Acked(w)
  BY <1>1 DEF Proceeds, Sent, WriterInv
<1>5. AlreadyComplete(w) => pc[w] = "complete"
  BY DEF AlreadyComplete
\* An answer that ends the call, and one that does not.
<1>6. ASSUME NEW r \in {"ok", "error"}, Ends(w, r), UNCHANGED <<id, completed>>,
             r = "ok" => <<w, Sent(w)>> \in shown',
             id[w] = NoUpload \/ uploads'[Upload(w)] = Absent
      PROVE  Kept(w)
  <2>1. pc' = [pc EXCEPT ![w] = "done"] /\ result' = [result EXCEPT ![w] = r]
    BY <1>6 DEF Ends, Goto
  <2>2. LocalsOK'
    BY <1>1, <1>2, <1>4, <1>6, <2>1 DEF LocalsOK, PC
  <2>3. pc'[w] = "done" /\ result'[w] = r /\ id'[w] = id[w] /\ Upload(w)' = Upload(w)
    BY <1>2, <1>6, <2>1 DEF LocalsOK, Upload
  <2>4. WriterInv(w)'
    BY <1>4, <1>6, <2>3, EndIsKept
  <2> QED
    BY <1>1, <1>2, <1>6, <2>1, <2>2, <2>4, RequestStep DEF LocalsOK
<1>7. CASE pc[w] = "stat"
  <2>1. id' = id /\ completed' = completed /\ AfterStat(w)
    BY <1>1, <1>7 DEF Proceeds
  <2>2. id[w] = NoUpload /\ pos[w] = 0 /\ completed[w] = 0
    BY <1>7 DEF WriterInv, Early
  <2>3. CASE Goto(w, "buffer") /\ UNCHANGED result
    <3>1. pc' = [pc EXCEPT ![w] = "buffer"] /\ UNCHANGED result
      BY <2>3 DEF Goto
    <3>2. LocalsOK'
      BY <1>1, <1>2, <1>4, <2>1, <3>1 DEF LocalsOK, PC
    <3>3. pc'[w] = "buffer"
      BY <1>2, <3>1 DEF LocalsOK
    <3>4. Early(w)' /\ Acked(w)'
      BY <1>1, <1>3, <1>4, <2>1, <2>2, <3>1 DEF Early, Acked, NoUpload
    <3>5. WriterInv(w)'
      BY <3>3, <3>4 DEF WriterInv, Putting, Splitting, Knowing, Filling, Parting, Completing,
                        Cleared
    <3> QED
      BY <1>1, <1>2, <2>1, <3>1, <3>2, <3>5, RequestStep DEF LocalsOK
  <2> QED
    BY <1>6, <2>1, <2>2, <2>3 DEF AfterStat
<1>8. CASE pc[w] = "put"
  <2>1. id' = id /\ completed' = completed /\ Ends(w, "ok")
    BY <1>1, <1>8 DEF Proceeds
  <2>2. id[w] = NoUpload
    BY <1>8 DEF WriterInv, Early
  <2> QED
    BY <1>1, <1>3, <1>5, <1>6, <1>8, <2>1, <2>2
<1>9. CASE pc[w] = "complete"
  <2>1. id' = id /\ completed' = completed /\ Ends(w, "ok")
    BY <1>1, <1>9 DEF Proceeds
  <2> QED
    BY <1>3, <1>6, <1>9, <2>1
<1>10. CASE pc[w] = "create"
  <2>1. /\ id' = [id EXCEPT ![w] = tries[w]] /\ completed' = completed
        /\ pc' = [pc EXCEPT ![w] = "fill"] /\ UNCHANGED result
    BY <1>1, <1>10 DEF Proceeds, Goto
  <2>2. tries[w] \in 0..MaxRetries /\ 0..MaxRetries \subseteq 0..NoUpload /\ NoUpload \notin 0..MaxRetries
    BY <1>2 DEF LocalsOK, NoUpload
  <2>3. LocalsOK'
    BY <1>1, <1>2, <1>4, <2>1, <2>2 DEF LocalsOK, PC
  <2>4. pc'[w] = "fill" /\ id'[w] = tries[w] /\ Upload(w)' = <<w, tries[w]>>
    BY <1>2, <2>1 DEF LocalsOK, Upload
  <2>5. uploads'[<<w, tries[w]>>] = << >>
    BY <1>1, <1>3, <1>5, <1>10
  <2>6. Holds(w, << >>, 0, 0)
    <3>1. << >> \in Seq(Seq(Unit)) /\ Len(<< >>) = 0
      OBVIOUS
    <3>2. << >> # Absent
      BY <3>1, AbsentAssumption, Zenon
    <3> QED
      BY <3>1, <3>2, DividesNothing DEF Holds
  <2>7. Filling(w)' /\ Knowing(w)' /\ Splitting(w)' /\ Acked(w)'
    <3>1. pos[w] = 0 /\ completed[w] = 0 /\ job[w].announced \notin 0..PartSize
      BY <1>10 DEF WriterInv, Early, Splitting
    <3>2. job[w].len \in Nat
      BY JobShape
    <3>3. Filling(w)'
      BY <1>1, <2>1, <2>4, <2>5, <2>6, <3>1, <3>2 DEF Filling
    <3>4. Knowing(w)' /\ Splitting(w)' /\ Acked(w)'
      BY <1>1, <1>3, <1>4, <2>1, <2>2, <2>4, <3>1 DEF Knowing, Splitting, Acked, NoUpload
    <3> QED
      BY <3>3, <3>4
  <2>8. WriterInv(w)'
    BY <2>4, <2>7 DEF WriterInv, Early, Putting, Parting, Completing, Cleared
  <2> QED
    BY <1>1, <1>2, <2>1, <2>3, <2>8, RequestStep DEF LocalsOK
<1>11. CASE pc[w] = "part"
  <2> DEFINE next == IF Len(body[w]) = PartSize THEN "fill" ELSE AfterStream(w)
  <2>1. /\ id' = id /\ completed' = [completed EXCEPT ![w] = NextPart(w)]
        /\ pc' = [pc EXCEPT ![w] = next] /\ UNCHANGED result
    BY <1>1, <1>11 DEF Proceeds, Goto
  <2>2. /\ pos[w] <= job[w].len /\ id[w] # NoUpload /\ job[w].announced \notin 0..PartSize
        /\ Len(body[w]) < PartSize => pos[w] = job[w].len
    BY <1>11 DEF WriterInv, Parting, Knowing, Splitting
  <2>3. Len(body[w]) \in Nat /\ Len(body[w]) <= PartSize /\ NextPart(w) \in Nat
    BY <1>2 DEF LocalsOK, NextPart
  <2>4. LocalsOK'
    BY <1>1, <1>2, <1>4, <2>1, <2>3 DEF LocalsOK, PC, Requests, AfterStream
  <2>5. /\ pc'[w] = next /\ id'[w] = id[w] /\ Upload(w)' = Upload(w)
        /\ completed'[w] = NextPart(w)
    BY <1>2, <2>1 DEF LocalsOK, Upload
  <2>6. Holds(w, uploads'[Upload(w)], NextPart(w), pos[w])
    BY <1>1, <1>3, <1>5, <1>11
  <2>7. Acked(w)' /\ Knowing(w)' /\ Splitting(w)'
    BY <1>1, <1>3, <1>4, <2>1, <2>2, <2>5 DEF Acked, Knowing, Splitting, NoUpload
  <2>8. CASE next = "fill"
    <3>1. Filling(w)'
      BY <1>1, <2>2, <2>5, <2>6 DEF Filling
    <3>2. WriterInv(w)'
      BY <2>5, <2>7, <2>8, <3>1 DEF WriterInv, Early, Putting, Parting, Completing, Cleared
    <3> QED
      BY <1>1, <1>2, <2>1, <2>4, <3>2, RequestStep DEF LocalsOK
  <2>9. CASE next = "complete"
    <3>1. Len(body[w]) # PartSize /\ job[w].ending # "error"
      BY <2>9 DEF AfterStream
    <3>2. pos[w] = job[w].len
      BY <2>2, <2>3, <3>1
    <3>3. Completing(w)'
      BY <1>1, <2>5, <2>6, <3>1, <3>2 DEF Completing, UploadStands
    <3>4. WriterInv(w)'
      BY <2>5, <2>7, <2>9, <3>3 DEF WriterInv, Early, Putting, Filling, Parting, Cleared
    <3> QED
      BY <1>1, <1>2, <2>1, <2>4, <3>4, RequestStep DEF LocalsOK
  <2>10. CASE next = "abort"
    <3>1. WriterInv(w)'
      BY <2>5, <2>7, <2>10, EndIsKept DEF Acked
    <3> QED
      BY <1>1, <1>2, <2>1, <2>4, <3>1, RequestStep DEF LocalsOK
  <2> QED
    BY <2>8, <2>9, <2>10 DEF AfterStream
<1> QED
  BY <1>1, <1>7, <1>8, <1>9, <1>10, <1>11 DEF Requests

\* A request that fails is sent again, or given up.
LEMMA GivesUpStep ==
  ASSUME TypeOK, NEW w \in Writer, WriterInv(w),
         pc[w] \in Requests, MayTakeEffect(w), GivesUp(w),
         UNCHANGED <<job, pos, body, id, completed, cancelled, unaborted, budget>>
  PROVE  Kept(w)
<1>1. /\ tries' = [tries EXCEPT ![w] = 0] /\ pc' = [pc EXCEPT ![w] = AfterError(w)]
      /\ result' = IF AfterError(w) = "done" THEN [result EXCEPT ![w] = "error"] ELSE result
  BY DEF GivesUp, Goto
<1>2. LocalsOK
  BY TypeParts
<1>3. CASE pc[w] = "stat"
  <2>1. AfterError(w) = "buffer"
    BY <1>3 DEF AfterError
  <2>2. LocalsOK'
    BY <1>1, <1>2, <2>1 DEF LocalsOK, PC
  <2>3. pc'[w] = "buffer" /\ result' = result
    BY <1>1, <1>2, <2>1 DEF LocalsOK
  <2>4. Early(w)'
    BY <1>3 DEF WriterInv, Early, NoUpload
  <2>5. Acked(w)'
    BY <2>3, AckLasts DEF Acked
  <2>6. WriterInv(w)'
    BY <2>3, <2>4, <2>5 DEF WriterInv, Putting, Splitting, Knowing, Filling, Parting,
                            Completing, Cleared
  <2> QED
    BY <1>1, <1>2, <2>1, <2>2, <2>6, RequestStep DEF LocalsOK
<1>4. CASE pc[w] \in {"put", "create"}
  <2>1. AfterError(w) = "done" /\ id[w] = NoUpload
    BY <1>4 DEF AfterError, WriterInv, Early
  <2>2. LocalsOK'
    BY <1>1, <1>2, <2>1 DEF LocalsOK, PC
  <2>3. pc'[w] = "done" /\ result'[w] = "error" /\ id'[w] = NoUpload
    BY <1>1, <1>2, <2>1 DEF LocalsOK
  <2>4. WriterInv(w)'
    BY <2>3, EndIsKept
  <2> QED
    BY <1>1, <1>2, <2>1, <2>2, <2>4, RequestStep DEF LocalsOK
<1>5. CASE pc[w] \in {"part", "complete"}
  <2>1. AfterError(w) = "abort"
    BY <1>5 DEF AfterError
  <2>2. LocalsOK'
    BY <1>1, <1>2, <2>1 DEF LocalsOK, PC
  <2>3. pc'[w] = "abort" /\ result' = result
    BY <1>1, <1>2, <2>1 DEF LocalsOK
  <2>4. WriterInv(w)'
    BY <2>3, AckLasts, EndIsKept
  <2> QED
    BY <1>1, <1>2, <2>1, <2>2, <2>4, RequestStep DEF LocalsOK
<1> QED
  BY <1>3, <1>4, <1>5 DEF Requests

LEMMA FailsStep ==
  ASSUME TypeOK, NEW w \in Writer, WriterInv(w), RequestFails(w)
  PROVE  Kept(w)
<1>1. /\ pc[w] \in Requests /\ MayTakeEffect(w)
      /\ UNCHANGED <<job, pos, body, id, completed, cancelled, unaborted, budget>>
  BY DEF RequestFails, Sending, MayTakeEffect
<1>2. CASE GivesUp(w)
  BY <1>1, <1>2, GivesUpStep
<1>3. CASE TriesAgain(w) /\ UNCHANGED <<pc, result>>
  <2>1. LocalsOK'
    BY <1>1, <1>3, TypeParts DEF LocalsOK, TriesAgain
  <2>2. /\ pc[w] = "part" => PartStands(w, uploads'[Upload(w)])
        /\ pc[w] = "complete" => UploadStands(w, uploads'[Upload(w)], shown')
    BY <1>1, EffectKeeps
  <2>3. Sent(w)' = Sent(w) /\ Whole(w)' = Whole(w) /\ Upload(w)' = Upload(w)
    BY <1>1 DEF Sent, Whole, Upload
  <2>4. Early(w)' /\ Putting(w)' /\ Splitting(w)' /\ Knowing(w)'
    BY <1>1, <1>3, <2>3 DEF WriterInv, Early, Putting, Splitting, Knowing, NoUpload
  <2>5. Parting(w)' /\ Completing(w)'
    BY <1>1, <1>3, <2>2, <2>3
       DEF WriterInv, Parting, Completing, PartStands, UploadStands, NextPart
  <2>6. Acked(w)'
    BY <1>1, <1>3, AckLasts DEF Acked
  <2>7. Filling(w)' /\ Cleared(w)'
    BY <1>1, <1>3 DEF Filling, Cleared, Requests
  <2>8. WriterInv(w)'
    BY <2>4, <2>5, <2>6, <2>7 DEF WriterInv
  <2> QED
    BY <1>1, <1>3, <2>1, <2>8, RequestStep
<1> QED
  BY <1>2, <1>3 DEF RequestFails

LEMMA ContextEndsStep ==
  ASSUME TypeOK, NEW w \in Writer, WriterInv(w), ContextEnds(w)
  PROVE  Kept(w)
BY GivesUpStep DEF ContextEnds, MayTakeEffect

LEMMA AbortStep ==
  ASSUME TypeOK, NEW w \in Writer, WriterInv(w), Abort(w)
  PROVE  Kept(w)
<1>1. /\ pc' = [pc EXCEPT ![w] = "done"] /\ result' = [result EXCEPT ![w] = "error"]
      /\ UNCHANGED <<object, shown, job, tries, pos, body, id, completed, cancelled, budget>>
      /\ \/ uploads' = [uploads EXCEPT ![Upload(w)] = Absent] /\ UNCHANGED unaborted
         \/ UNCHANGED uploads /\ unaborted' = unaborted \cup {w}
  BY DEF Abort, Ends, Goto
<1>2. BucketOK /\ LocalsOK /\ RestOK
  BY TypeParts
<1>3. BucketOK' /\ LocalsOK' /\ RestOK'
  BY <1>1, <1>2 DEF BucketOK, LocalsOK, RestOK, PC
<1>4. Lasting
  BY <1>1 DEF Lasting
<1>5. \A q \in Writer \ {w} : Rests(q)
  BY <1>1, <1>2 DEF Rests, LocalsOK, BucketOK, Upload, UploadId
<1>6. pc'[w] = "done" /\ result'[w] = "error" /\ id'[w] = id[w] /\ Upload(w)' = Upload(w)
  BY <1>1, <1>2 DEF LocalsOK, Upload
<1>7. id[w] = NoUpload \/ uploads'[Upload(w)] = Absent \/ w \in unaborted'
  BY <1>1, <1>2, UploadIsKnown DEF BucketOK
<1>8. WriterInv(w)'
  BY <1>6, <1>7, EndIsKept
<1> QED
  BY <1>3, <1>4, <1>5, <1>8, TypePartsNext DEF Kept

LEMMA SpendIsBounded ==
  ASSUME TypeOK, NEW what \in {"cancels", "crashes"}, Spend(what)
  PROVE  budget' \in [cancels : Nat, crashes : Nat]
BY DEF TypeOK, Spend

LEMMA CrashStep ==
  ASSUME TypeOK, NEW w \in Writer, WriterInv(w), Crash(w)
  PROVE  Kept(w)
<1>1. /\ pc' = [pc EXCEPT ![w] = "done"] /\ result' = [result EXCEPT ![w] = "crashed"]
      /\ unaborted' = unaborted \cup {w} /\ Spend("crashes")
      /\ UNCHANGED <<bucket, job, tries, pos, body, id, completed, cancelled>>
  BY DEF Crash, Ends, Goto
<1>2. LocalsOK /\ RestOK
  BY TypeParts
<1>3. LocalsOK' /\ RestOK'
  <2>1. budget' \in [cancels : Nat, crashes : Nat]
    BY <1>1, SpendIsBounded
  <2> QED
    BY <1>1, <1>2, <2>1 DEF LocalsOK, RestOK, PC
<1>4. WriterInv(w)'
  BY <1>1, <1>2, EndIsKept DEF LocalsOK
<1> QED
  BY <1>1, <1>2, <1>3, <1>4, LocalStep DEF LocalsOK

LEMMA CancelStep ==
  ASSUME TypeOK, NEW w \in Writer, WriterInv(w), Cancel(w)
  PROVE  Kept(w)
<1>1. /\ cancelled' = [cancelled EXCEPT ![w] = TRUE] /\ Spend("cancels")
      /\ UNCHANGED <<bucket, pc, tries, pos, body, id, completed, result, job, unaborted>>
  BY DEF Cancel, local
<1>2. LocalsOK /\ RestOK
  BY TypeParts
<1>3. LocalsOK' /\ RestOK'
  <2>1. budget' \in [cancels : Nat, crashes : Nat]
    BY <1>1, SpendIsBounded
  <2> QED
    BY <1>1, <1>2, <2>1 DEF LocalsOK, RestOK
<1>4. Rests(w) /\ Lasting
  BY <1>1 DEF Rests, Lasting, bucket
<1>5. WriterInv(w)'
  BY <1>4, RestKeeps
<1> QED
  BY <1>1, <1>3, <1>5, LocalStep

-----------------------------------------------------------------------------
(* The theorems.                                                           *)

LEMMA InitInv == Init => UploadInv
<1> SUFFICES ASSUME Init
             PROVE  UploadInv
  OBVIOUS
<1>1. TypeOK
  <2>1. BucketOK
    <3>1. Other \in Unit
      BY DEF Unit
    <3>2. <<Other>> \in Seq(Unit)
      BY <3>1
    <3> QED
      BY <3>2 DEF Init, BucketOK
  <2>2. LocalsOK
    <3>1. << >> \in Seq(Unit) /\ Len(<< >>) = 0
      OBVIOUS
    <3>2. 0 \in 0..MaxRetries /\ NoUpload \in 0..NoUpload
      BY DEF NoUpload
    <3>3. \A w \in Writer : Len(body[w]) <= PartSize
      BY <3>1 DEF Init
    <3> QED
      BY <3>1, <3>2, <3>3 DEF Init, LocalsOK, PC
  <2>3. RestOK
    BY DEF Init, RestOK
  <2> QED
    BY <2>1, <2>2, <2>3, TypeParts
<1>2. \A w \in Writer : WriterInv(w)
  BY DEF Init, WriterInv, Early, Putting, Splitting, Knowing, Filling, Parting, Completing,
         Acked, Cleared
<1> QED
  BY <1>1, <1>2 DEF UploadInv

\* What every step of w keeps.
LEMMA WriterStep ==
  ASSUME UploadInv, NEW w \in Writer, Write(w) \/ Cancel(w) \/ Crash(w)
  PROVE  Kept(w)
BY StartStep, BufferStep, FillStep, AnsweredStep, FailsStep, ContextEndsStep, AbortStep,
   CancelStep, CrashStep DEF UploadInv, Write

LEMMA NextInv == UploadInv /\ [Next]_vars => UploadInv'
<1> SUFFICES ASSUME UploadInv, [Next]_vars
             PROVE  UploadInv'
  OBVIOUS
<1> USE DEF UploadInv
<1>1. ASSUME NEW w \in Writer, Kept(w)
      PROVE  UploadInv'
  <2>1. \A q \in Writer \ {w} : WriterInv(q)'
    BY <1>1, RestKeeps DEF Kept
  <2> QED
    BY <1>1, <2>1 DEF Kept
<1>2. ASSUME NEW w \in Writer, Write(w) \/ Cancel(w) \/ Crash(w)
      PROVE  Kept(w)
  BY <1>2, WriterStep
<1>3. CASE UNCHANGED vars
  <2>1. UNCHANGED <<object, uploads, shown, pc, tries, pos, body, id, completed, result, job,
                    cancelled, unaborted, budget>>
    BY <1>3 DEF vars, bucket, local
  <2>2. TypeOK'
    BY <2>1 DEF TypeOK
  <2>3. \A w \in Writer : Rests(w) /\ Lasting
    BY <2>1 DEF Rests, Lasting
  <2> QED
    BY <2>2, <2>3, RestKeeps
<1> QED
  BY <1>1, <1>2, <1>3 DEF Next, Finished

\* The inductive invariant of the uploads.
THEOREM UploadInvariant == Spec => []UploadInv
<1> QED
  BY InitInv, NextInv, PTL DEF Spec

\* Every variable keeps its type: a request holds at most one part, no request is
\* tried more often than RetryConfig allows, and CompleteMultipartUpload makes an
\* object of units (uploadMultipart, ExecuteWithRetry).
THEOREM TypeCorrect == Spec => []TypeOK
<1>1. UploadInv => TypeOK
  BY DEF UploadInv
<1> QED
  BY <1>1, UploadInvariant, PTL

\* A write that returned nil has been seen as a whole (putSingleObject,
\* uploadMultipart, ExecuteWithRetry).
THEOREM AcksAreStored == Spec => []AckedIsStored
<1>1. UploadInv => AckedIsStored
  BY DEF UploadInv, WriterInv, Acked, AckedIsStored
<1> QED
  BY <1>1, UploadInvariant, PTL

\* An upload outlives its call only if the driver never learned its id, or its
\* abort had no effect, or the process died (the deferred AbortMultipartUpload).
THEOREM UploadsAreNotLeft == Spec => []UploadsAreCleared
<1>1. UploadInv => UploadsAreCleared
  <2> SUFFICES ASSUME UploadInv, NEW w \in Writer, NEW t \in 0..MaxRetries,
                      pc[w] = "done", uploads[<<w, t>>] # Absent, id[w] = t
               PROVE  w \in unaborted
    BY DEF UploadsAreCleared, UploadId
  <2>1. id[w] # NoUpload
    BY DEF NoUpload
  <2> QED
    BY <2>1 DEF UploadInv, WriterInv, Cleared, Upload
<1> QED
  BY <1>1, UploadInvariant, PTL

-----------------------------------------------------------------------------
(* The refinement.                                                         *)

\* A call that has not returned goes on, and one that has does not.
ResultInv == \A w \in Writer : pc[w] = "done" <=> result[w] # "none"

\* What ObjectStore's variables are mapped to.
Objects  == [k \in {1} |-> object]
Intents  == [w \in Writer |-> [key |-> 1, whole |-> {c \in {Sent(w)} : Whole(w)}]]
Statuses == [w \in Writer |-> Status(w)]

\* What a step of w does to what it returns.
Returns(w, r) == result' = [result EXCEPT ![w] = r]

\* The object as it was.
Quiet == object' = object /\ shown' = shown

\* The object is all that w sends.
Shows(w) == /\ object' = Sent(w) /\ shown' = shown \cup {<<w, Sent(w)>>}
            /\ Whole(w)

\* The two kinds of step a writer takes.
QuietStep(w) ==
    /\ Quiet
    /\ \/ result' = result
       \/ \E r \in {"error", "crashed"} : Returns(w, r)
       \/ Returns(w, "ok") /\ <<w, Sent(w)>> \in shown
ShowStep(w) ==
    /\ Shows(w) /\ pc[w] # "done"
    /\ result' = result \/ \E r \in {"ok", "error"} : Returns(w, r)

LEMMA EffectIs ==
  ASSUME TypeOK, NEW w \in Writer, WriterInv(w)
  PROVE  /\ TakesEffect(w) =>
               \/ Quiet /\ pc[w] \in {"stat", "create", "part"}
               \/ Shows(w) /\ pc[w] \in {"put", "complete"}
         /\ AlreadyComplete(w) => Quiet /\ pc[w] = "complete" /\ <<w, Sent(w)>> \in shown
<1>1. ASSUME pc[w] = "put", Becomes(w, body[w])
      PROVE  Shows(w)
  BY <1>1 DEF WriterInv, Putting, Becomes, Shows
<1>2. ASSUME pc[w] = "complete", completed[w] > 0, uploads[Upload(w)] # Absent,
             Becomes(w, FlattenSeq(uploads[Upload(w)]))
      PROVE  Shows(w)
  BY <1>2, UploadIsWhole DEF Becomes, Shows
<1>3. AlreadyComplete(w) => Quiet /\ pc[w] = "complete" /\ <<w, Sent(w)>> \in shown
  BY DEF AlreadyComplete, bucket, Quiet, WriterInv, Completing, UploadStands, Holds
<1> QED
  BY <1>1, <1>2, <1>3 DEF TakesEffect, bucket, Quiet

\* What a step of w shows, and what it returns.
LEMMA StepIs ==
  ASSUME TypeOK, NEW w \in Writer, WriterInv(w), Write(w) \/ Cancel(w) \/ Crash(w)
  PROVE  /\ pc[w] # "done" \/ UNCHANGED <<pc, result>>
         /\ \/ result' = result /\ (pc'[w] = "done" => pc[w] = "done")
            \/ \E r \in {"ok", "error", "crashed"} : Returns(w, r) /\ pc'[w] = "done"
         /\ QuietStep(w) \/ ShowStep(w)
<1> USE DEF Returns, Ends, Goto, QuietStep, ShowStep
<1>0. pc \in [Writer -> PC]
  BY DEF TypeOK
<1>1. CASE Start(w)
  BY <1>0, <1>1 DEF Start, bucket, Quiet
<1>2. CASE Buffer(w)
  <2>1. /\ Quiet /\ pc[w] = "buffer"
        /\ (\E units : Sends(w, units)) \/ Refuses(w) \/ Splits(w)
    BY <1>2 DEF Buffer, BufferKnown, BufferUnknown, bucket, Quiet
  <2> QED
    BY <1>0, <2>1 DEF Sends, Refuses, Splits
<1>3. CASE FillPart(w)
  <2>1. /\ Quiet /\ pc[w] = "fill" /\ result' = result
        /\ \E next \in {"part", "abort", "complete"} : pc' = [pc EXCEPT ![w] = next]
    BY <1>3 DEF FillPart, AfterStream, bucket, Quiet
  <2> QED
    BY <1>0, <2>1
<1>4. CASE Answered(w)
  <2>1. pc[w] \in Requests /\ (TakesEffect(w) \/ AlreadyComplete(w)) /\ Proceeds(w)
    BY <1>4 DEF Answered, Sending
  <2>2. CASE pc[w] \in {"put", "complete"}
    <3>1. Returns(w, "ok") /\ pc'[w] = "done"
      BY <1>0, <2>1, <2>2 DEF Proceeds
    <3> QED
      BY <2>1, <2>2, <3>1, EffectIs
  <2>3. CASE pc[w] \in {"stat", "create", "part"}
    <3>1. Quiet
      BY <2>1, <2>3, EffectIs
    <3>2. CASE pc[w] = "stat"
      BY <1>0, <2>1, <3>1, <3>2 DEF Proceeds, AfterStat
    <3>3. CASE pc[w] \in {"create", "part"}
      <4>1. /\ result' = result
            /\ \E next \in {"fill", "abort", "complete"} : pc' = [pc EXCEPT ![w] = next]
        BY <2>1, <3>3 DEF Proceeds, AfterStream
      <4> QED
        BY <1>0, <3>1, <3>3, <4>1
    <3> QED
      BY <2>3, <3>2, <3>3
  <2> QED
    BY <2>1, <2>2, <2>3 DEF Requests
<1>5. ASSUME pc[w] \in Requests, GivesUp(w)
      PROVE  /\ pc[w] # "done"
             /\ \/ result' = result /\ pc'[w] # "done"
                \/ Returns(w, "error") /\ pc'[w] = "done"
  BY <1>0, <1>5 DEF GivesUp, AfterError, Requests
<1>6. CASE RequestFails(w)
  <2>1. /\ pc[w] \in Requests /\ pc[w] # "done"
        /\ GivesUp(w) \/ UNCHANGED <<pc, result>>
        /\ TakesEffect(w) \/ UNCHANGED bucket
    BY <1>6 DEF RequestFails, Sending, Requests
  <2>2. Quiet \/ Shows(w)
    BY <2>1, EffectIs DEF bucket, Quiet
  <2> QED
    BY <1>5, <2>1, <2>2
<1>7. CASE ContextEnds(w)
  <2>1. pc[w] \in Requests /\ GivesUp(w) /\ Quiet
    BY <1>7 DEF ContextEnds, bucket, Quiet
  <2> QED
    BY <1>5, <2>1
<1>8. CASE Abort(w)
  BY <1>0, <1>8 DEF Abort, Quiet
<1>9. CASE Cancel(w)
  BY <1>9 DEF Cancel, local, bucket, Quiet
<1>10. CASE Crash(w)
  BY <1>0, <1>10 DEF Crash, bucket, Quiet
<1> QED
  BY <1>1, <1>2, <1>3, <1>4, <1>6, <1>7, <1>8, <1>9, <1>10 DEF Write

LEMMA ResultNext == UploadInv /\ ResultInv /\ [Next]_vars => ResultInv'
<1> SUFFICES ASSUME UploadInv, ResultInv, [Next]_vars
             PROVE  ResultInv'
  OBVIOUS
<1>1. ASSUME NEW w \in Writer, Write(w) \/ Cancel(w) \/ Crash(w)
      PROVE  ResultInv'
  <2>1. Kept(w)
    BY <1>1, WriterStep
  <2>2. \A q \in Writer \ {w} : pc'[q] = pc[q] /\ result'[q] = result[q]
    BY <2>1 DEF Kept, Rests
  <2>3. TypeOK /\ WriterInv(w)
    BY DEF UploadInv
  <2>4. /\ pc[w] # "done" \/ UNCHANGED <<pc, result>>
        /\ \/ result' = result /\ (pc'[w] = "done" => pc[w] = "done")
           \/ \E r \in {"ok", "error", "crashed"} : Returns(w, r) /\ pc'[w] = "done"
    BY <1>1, <2>3, StepIs
  <2>5. result \in [Writer -> {"none", "ok", "error", "crashed"}]
    BY <2>3 DEF TypeOK
  <2>6. pc'[w] = "done" <=> result'[w] # "none"
    BY <2>4, <2>5 DEF ResultInv, Returns
  <2> QED
    BY <2>2, <2>6 DEF ResultInv
<1>2. CASE UNCHANGED vars
  BY <1>2 DEF ResultInv, vars, local
<1> QED
  BY <1>1, <1>2 DEF Next, Finished

LEMMA InitRefines == Init => OS!Init
<1> SUFFICES ASSUME Init PROVE OS!Init
  OBVIOUS
<1>1. TypeOK
  BY InitInv DEF UploadInv
<1>2. Objects \in [{1} -> Seq(Unit) \cup {Absent}]
  BY <1>1 DEF TypeOK, Objects
<1>3. Intents \in [Writer -> [key : {1}, whole : SUBSET Seq(Unit)]]
  <2> SUFFICES ASSUME NEW w \in Writer
               PROVE  {c \in {Sent(w)} : Whole(w)} \subseteq Seq(Unit)
    BY DEF Intents
  <2>1. Sent(w) \in Seq(Unit)
    BY <1>1, SentType
  <2> QED
    BY <2>1
<1>4. Statuses = [w \in Writer |-> "pending"]
  <2> SUFFICES ASSUME NEW w \in Writer PROVE Status(w) = "pending"
    BY DEF Statuses
  <2> QED
    BY DEF Init, Status
<1> QED
  BY <1>2, <1>3, <1>4 DEF OS!Init, Objects, Intents, Statuses

\* One step of w is a step of its abstract writer, or none.
LEMMA WriteRefines ==
  ASSUME UploadInv, ResultInv, NEW w \in Writer, Write(w) \/ Cancel(w) \/ Crash(w)
  PROVE  \/ object' = object /\ Status(w)' = Status(w)
         \/ /\ object' = object
            /\ Status(w) = "unanswered" /\ Status(w)' = "done"
         \/ /\ object' = object
            /\ Status(w) \in {"pending", "unanswered"} /\ Status(w)' = "failed"
         \/ /\ object' = Sent(w) /\ Whole(w)
            /\ Status(w) \in {"pending", "unanswered"}
            /\ Status(w)' \in {"unanswered", "failed", "done"}
<1>1. TypeOK /\ WriterInv(w)
  BY DEF UploadInv
<1>2. Sent(w)' = Sent(w)
  <2>1. job' = job
    BY WriterStep DEF Kept, Lasting
  <2> QED
    BY <2>1 DEF Sent
<1>3. result \in [Writer -> {"none", "ok", "error", "crashed"}]
  BY <1>1 DEF TypeOK
<1>4. pc[w] # "done" <=> result[w] = "none"
  BY DEF ResultInv
<1>5. result[w] = "none" => Status(w) \in {"pending", "unanswered"}
  BY DEF Status
<1>6. pc[w] # "done" \/ UNCHANGED <<pc, result>>
  BY <1>1, StepIs
<1>7. CASE QuietStep(w)
  <2>1. object' = object /\ shown' = shown
    BY <1>7 DEF QuietStep, Quiet
  <2>2. CASE result' = result
    BY <1>2, <2>1, <2>2 DEF Status
  <2>3. CASE result' # result
    <3>1. result[w] = "none"
      BY <1>4, <1>6, <2>3
    <3>2. result'[w] \in {"error", "crashed"} \/ (result'[w] = "ok" /\ <<w, Sent(w)>> \in shown)
      BY <1>3, <1>7, <2>3 DEF QuietStep, Returns
    <3>3. result'[w] \in {"error", "crashed"} => Status(w)' = "failed"
      BY DEF Status
    <3>4. result'[w] = "ok" => Status(w)' = "done"
      BY DEF Status
    <3>5. <<w, Sent(w)>> \in shown => Status(w) = "unanswered"
      BY <3>1 DEF Status
    <3> QED
      BY <1>5, <2>1, <3>1, <3>2, <3>3, <3>4, <3>5
  <2> QED
    BY <2>2, <2>3
<1>8. CASE ShowStep(w)
  <2>1. result[w] = "none" /\ result'[w] \in {"none", "ok", "error"}
    BY <1>3, <1>4, <1>8 DEF ShowStep, Returns
  <2>2. Status(w)' \in {"unanswered", "failed", "done"}
    <3>1. <<w, Sent(w)'>> \in shown'
      BY <1>2, <1>8 DEF ShowStep, Shows
    <3> QED
      BY <2>1, <3>1 DEF Status
  <2> QED
    BY <1>5, <1>8, <2>1, <2>2 DEF ShowStep, Shows
<1> QED
  BY <1>1, <1>7, <1>8, StepIs

\* Every step is one of the abstract store, or none.
LEMMA StepRefines == UploadInv /\ ResultInv /\ [Next]_vars => [OS!Next]_(OS!vars)
<1> SUFFICES ASSUME UploadInv, ResultInv, [Next]_vars
             PROVE  [OS!Next]_(OS!vars)
  OBVIOUS
<1>1. ASSUME UNCHANGED <<Objects, Intents, Statuses>>
      PROVE  UNCHANGED OS!vars
  BY <1>1 DEF OS!vars, Objects, Intents, Statuses
<1>2. ASSUME NEW w \in Writer, Write(w) \/ Cancel(w) \/ Crash(w)
      PROVE  [OS!Next]_(OS!vars)
  <2>1. job' = job /\ \A q \in Writer \ {w} : result'[q] = result[q]
    BY <1>2, WriterStep DEF Kept, Rests, Lasting
  <2>2. Intents' = Intents
    BY <2>1 DEF Intents, Sent, Whole
  <2>3. Statuses' = [Statuses EXCEPT ![w] = Status(w)']
    <3>1. ASSUME NEW q \in Writer \ {w}
          PROVE  Status(q)' = Status(q)
      <4>1. shown' = shown \/ shown' = shown \cup {<<w, Sent(w)>>}
        <5>1. TypeOK /\ WriterInv(w)
          BY DEF UploadInv
        <5> QED
          BY <1>2, <5>1, StepIs DEF QuietStep, ShowStep, Quiet, Shows
      <4>2. <<q, Sent(q)>> \in shown' <=> <<q, Sent(q)>> \in shown
        BY <4>1
      <4>3. Sent(q)' = Sent(q) /\ result'[q] = result[q]
        BY <2>1 DEF Sent
      <4> QED
        BY <4>2, <4>3 DEF Status
    <3> QED
      BY <3>1 DEF Statuses
  <2>4. /\ Statuses[w] = Status(w) /\ Intents[w].key = 1
        /\ Whole(w) => Sent(w) \in Intents[w].whole
    BY DEF Statuses, Intents
  <2>5. ASSUME object' = object PROVE Objects' = Objects
    BY <2>5 DEF Objects
  <2>6. CASE object' = object /\ Status(w)' = Status(w)
    <3>1. Statuses' = Statuses
      BY <2>3, <2>6 DEF Statuses
    <3> QED
      BY <1>1, <2>2, <2>5, <2>6, <3>1
  <2>7. CASE /\ object' = object
             /\ Status(w) = "unanswered" /\ Status(w)' = "done"
    <3>1. OS!Learn(w)
      BY <2>2, <2>3, <2>4, <2>5, <2>7 DEF OS!Learn, OS!Moves, Objects, Intents, Statuses
    <3> QED
      BY <3>1 DEF OS!Next
  <2>8. CASE /\ object' = object
             /\ Status(w) \in {"pending", "unanswered"} /\ Status(w)' = "failed"
    <3>1. OS!Fail(w)
      BY <2>2, <2>3, <2>4, <2>5, <2>8 DEF OS!Fail, OS!Moves, Objects, Intents, Statuses
    <3> QED
      BY <3>1 DEF OS!Next
  <2>9. CASE /\ object' = Sent(w) /\ Whole(w)
             /\ Status(w) \in {"pending", "unanswered"}
             /\ Status(w)' \in {"unanswered", "failed", "done"}
    <3>1. Objects' = [Objects EXCEPT ![1] = Sent(w)]
      BY <2>9 DEF Objects
    <3>2. OS!Puts(w)
      BY <2>2, <2>4, <2>9, <3>1 DEF OS!Puts, OS!Becomes, Objects, Intents
    <3>3. CASE Status(w)' = "done"
      <4>1. OS!Put(w)
        BY <2>3, <2>4, <2>9, <3>2, <3>3 DEF OS!Put, OS!Moves, Statuses
      <4> QED
        BY <4>1 DEF OS!Next
    <3>4. CASE Status(w)' \in {"unanswered", "failed"}
      <4>1. OS!PutUnanswered(w)
        BY <2>3, <2>4, <2>9, <3>2, <3>4 DEF OS!PutUnanswered, OS!Moves, Statuses
      <4> QED
        BY <4>1 DEF OS!Next
    <3> QED
      BY <2>9, <3>3, <3>4
  <2> QED
    BY <1>2, <2>6, <2>7, <2>8, <2>9, WriteRefines
<1>3. CASE UNCHANGED vars
  <2>1. UNCHANGED <<object, shown, job, result>>
    BY <1>3 DEF vars, bucket, local
  <2> QED
    BY <1>1, <2>1 DEF Objects, Intents, Statuses, Status, Sent, Whole
<1> QED
  BY <1>2, <1>3 DEF Next, Finished

\* Writing to S3 implements the abstract store: whatever is lost and sent again,
\* whoever is cancelled or dies, and however writes overlap, the object is replaced
\* by all that one writer sends, never of a stream whose end was not reached, and a
\* call that has returned writes no more (WriteWithOptions, ExecuteWithRetry).
THEOREM ImplementsObjectStore == Spec => ObjectStoreSpec
<1>1. Init => ResultInv
  BY DEF Init, ResultInv
<1>2. Spec => [](UploadInv /\ ResultInv)
  BY <1>1, ResultNext, UploadInvariant, PTL DEF Spec
<1> QED
  BY <1>2, InitRefines, StepRefines, PTL DEF Spec, ObjectStoreSpec, OS!Spec
=============================================================================
