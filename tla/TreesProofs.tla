---------------------------- MODULE TreesProofs -----------------------------
(***************************************************************************)
(* Paths, texts of paths, and what the changes that both panels make to a  *)
(* tree keep: a tree stays grown whatever is made, removed, written or     *)
(* moved.  And the queues between their threads.                           *)
(***************************************************************************)
EXTENDS Trees, TLAPS, SequenceTheorems

-----------------------------------------------------------------------------
(* Paths, name by name.                                                    *)

\* A prefix agrees name by name.
LEMMA PrefixPoints ==
    ASSUME NEW p \in Seq(Name), NEW q \in Seq(Name)
    PROVE  IsPrefix(p, q) <=> Len(p) <= Len(q) /\ \A i \in 1..Len(p) : p[i] = q[i]
  <1>1. Len(p) \in Nat /\ Len(q) \in Nat
    OBVIOUS
  <1>2. SubSeq(p, 1, Len(p)) = p
    BY SubSeqFull
  <1>3. ASSUME Len(p) <= Len(q)
        PROVE  /\ SubSeq(q, 1, Len(p)) \in Seq(Name)
               /\ Len(SubSeq(q, 1, Len(p))) = Len(p)
               /\ \A i \in 1..Len(p) : SubSeq(q, 1, Len(p))[i] = q[i]
    BY <1>1, <1>3
  <1>4. ASSUME Len(p) <= Len(q)
        PROVE  p = SubSeq(q, 1, Len(p)) <=> \A i \in 1..Len(p) : p[i] = q[i]
    <2> DEFINE r == SubSeq(q, 1, Len(p))
    <2>1. r \in Seq(Name) /\ Len(r) = Len(p) /\ \A i \in 1..Len(p) : r[i] = q[i]
      BY <1>3, <1>4
    <2> HIDE DEF r
    <2>2. (\A i \in 1..Len(p) : p[i] = r[i]) => p = r
      BY <2>1, SeqEqual
    <2>3. p = r <=> \A i \in 1..Len(p) : p[i] = q[i]
      BY <2>1, <2>2
    <2> QED
      BY <2>3 DEF r
  <1> QED
    BY <1>2, <1>4 DEF IsPrefix

\* What is above p, as far down as Front(p).
LEMMA FrontPoints ==
    ASSUME NEW p \in Seq(Name), p # <<>>
    PROVE  /\ Front(p) \in Seq(Name)
           /\ Len(p) \in Nat \ {0} /\ Len(Front(p)) = Len(p) - 1
           /\ \A i \in 1..(Len(p) - 1) : Front(p)[i] = p[i]
  <1>1. Len(p) \in Nat \ {0}
    BY EmptySeq
  <1>2. \A i \in 1..(Len(p) - 1) : p[i] \in Name
    BY <1>1
  <1>3. /\ SubSeq(p, 1, Len(p) - 1) \in Seq(Name)
        /\ Len(SubSeq(p, 1, Len(p) - 1)) = IF 1 <= Len(p) - 1 THEN Len(p) - 1 - 1 + 1 ELSE 0
        /\ \A i \in 1..(Len(p) - 1 - 1 + 1) : SubSeq(p, 1, Len(p) - 1)[i] = p[1 + i - 1]
    BY <1>1, <1>2, SubSeqProperties
  <1> DEFINE f == SubSeq(p, 1, Len(p) - 1)
  <1>4. Len(f) = Len(p) - 1 /\ \A i \in 1..(Len(p) - 1) : f[i] = p[i]
    <2>1. Len(f) = IF 1 <= Len(p) - 1 THEN Len(p) - 1 - 1 + 1 ELSE 0
      BY <1>3
    <2>2. \A i \in 1..(Len(p) - 1 - 1 + 1) : f[i] = p[1 + i - 1]
      BY <1>3
    <2> HIDE DEF f
    <2>3. ASSUME NEW i \in 1..(Len(p) - 1)
          PROVE  f[i] = p[i]
      <3>1. i \in 1..(Len(p) - 1 - 1 + 1) /\ 1 + i - 1 = i
        BY <1>1
      <3> QED
        BY <2>2, <3>1
    <2>4. Len(f) = Len(p) - 1
      <3> DEFINE n == Len(p)
      <3>1. n \in Int /\ n >= 1
        BY <1>1
      <3>2. Len(f) = IF 1 <= n - 1 THEN n - 1 - 1 + 1 ELSE 0
        BY <2>1
      <3> HIDE DEF n
      <3>3. Len(f) = n - 1
        <4>1. CASE n = 1
          BY <4>1, <3>2
        <4>2. CASE n > 1
          <5>1. 1 <= n - 1
            BY <4>2, <3>1
          <5>2. Len(f) = n - 1 - 1 + 1
            BY <5>1, <3>2, Zenon
          <5> QED
            BY <5>2, <3>1
        <4> QED
          BY <4>1, <4>2, <3>1
      <3> QED
        BY <3>3 DEF n
    <2> QED
      BY <2>3, <2>4
  <1>5. f = Front(p) /\ f \in Seq(Name)
    BY <1>3 DEF Front
  <1> HIDE DEF f
  <1> QED
    BY <1>1, <1>4, <1>5

LEMMA FrontOfAppend ==
    ASSUME NEW p \in Seq(Name), NEW n \in Name
    PROVE  Append(p, n) # <<>> /\ Front(Append(p, n)) = p
  <1> DEFINE q == Append(p, n)
  <1>1. /\ q \in Seq(Name) /\ q # <<>> /\ Len(q) = Len(p) + 1 /\ Len(p) \in Nat
        /\ \A i \in 1..Len(p) : q[i] = p[i]
    BY AppendProperties
  <1> HIDE DEF q
  <1>2. /\ Front(q) \in Seq(Name) /\ Len(Front(q)) = Len(q) - 1
        /\ \A i \in 1..(Len(q) - 1) : Front(q)[i] = q[i]
    BY <1>1, FrontPoints
  <1>3. Len(Front(q)) = Len(p) /\ \A i \in 1..Len(p) : Front(q)[i] = p[i]
    BY <1>1, <1>2
  <1>4. Front(q) = p
    BY <1>2, <1>3, SeqEqual
  <1> QED
    BY <1>1, <1>4 DEF q

\* With every path the ones above it are there.
LEMMA PrefixIsPath ==
    ASSUME NEW p \in Path, NEW q \in Seq(Name), IsPrefix(q, p)
    PROVE  q \in Path
  <1>1. p \in Seq(Name) /\ Len(p) \in Nat /\ Len(q) \in Nat /\ Len(q) <= Len(p)
    BY PathAssumption DEF IsPrefix
  <1>2. SubSeq(p, 1, Len(q)) = SubSeq(q, 1, Len(q)) /\ SubSeq(q, 1, Len(q)) = q
    BY SubSeqFull DEF IsPrefix
  <1>3. SubSeq(p, 1, Len(q)) \in Path
    BY <1>1, PathAssumption
  <1> QED
    BY <1>2, <1>3

LEMMA FrontIsPath ==
    ASSUME NEW p \in Path, p # <<>>
    PROVE  Front(p) \in Path
  <1>1. p \in Seq(Name)
    BY PathAssumption
  <1>2. Front(p) \in Seq(Name) /\ IsPrefix(Front(p), p)
    BY <1>1, FrontPoints, PrefixPoints
  <1> QED
    BY <1>2, PrefixIsPath

\* All that is strictly above p is Front(p) or strictly above it.
LEMMA AboveFront ==
    ASSUME NEW p \in Seq(Name), NEW q \in Seq(Name), IsStrictPrefix(q, p)
    PROVE  p # <<>> /\ (q = Front(p) \/ IsStrictPrefix(q, Front(p)))
  <1>1. Len(q) \in Nat /\ Len(p) \in Nat /\ Len(q) <= Len(p) /\ q # p
    BY DEF IsStrictPrefix, IsPrefix
  <1>2. \A i \in 1..Len(q) : q[i] = p[i]
    BY PrefixPoints DEF IsStrictPrefix
  <1>3. Len(q) # Len(p)
    BY <1>1, <1>2, SeqEqual
  <1>4. p # <<>>
    BY <1>1, <1>3
  <1>5. IsPrefix(q, Front(p))
    <2>1. /\ Front(p) \in Seq(Name) /\ Len(Front(p)) = Len(p) - 1
          /\ \A i \in 1..(Len(p) - 1) : Front(p)[i] = p[i]
      BY <1>4, FrontPoints
    <2>2. Len(q) <= Len(Front(p)) /\ \A i \in 1..Len(q) : q[i] = Front(p)[i]
      BY <1>1, <1>2, <1>3, <2>1
    <2> QED
      BY <2>1, <2>2, PrefixPoints
  <1> QED
    BY <1>4, <1>5 DEF IsStrictPrefix

LEMMA PrefixTransitive ==
    ASSUME NEW p \in Seq(Name), NEW q \in Seq(Name), NEW r \in Seq(Name),
           IsPrefix(p, q), IsPrefix(q, r)
    PROVE  IsPrefix(p, r)
  <1>1. Len(p) \in Nat /\ Len(q) \in Nat /\ Len(r) \in Nat
    OBVIOUS
  <1> QED
    BY <1>1, PrefixPoints

\* Of two paths above a third, one is above the other.
LEMMA PrefixesCompare ==
    ASSUME NEW p \in Seq(Name), NEW q \in Seq(Name), NEW r \in Seq(Name),
           IsPrefix(p, r), IsPrefix(q, r)
    PROVE  IsPrefix(p, q) \/ (IsStrictPrefix(q, p))
  <1>1. Len(p) \in Nat /\ Len(q) \in Nat /\ Len(r) \in Nat
    OBVIOUS
  <1>2. CASE Len(p) <= Len(q)
    BY <1>1, <1>2, PrefixPoints
  <1>3. CASE Len(q) < Len(p)
    BY <1>1, <1>3, PrefixPoints DEF IsStrictPrefix
  <1> QED
    BY <1>1, <1>2, <1>3

\* Rebasing replaces the names of from by those of to.
LEMMA RebasedPoints ==
    ASSUME NEW p \in Seq(Name), NEW from \in Seq(Name), NEW to \in Seq(Name),
           Len(from) <= Len(p)
    PROVE  /\ Rebased(p, from, to) \in Seq(Name)
           /\ Len(Rebased(p, from, to)) = Len(to) + (Len(p) - Len(from))
           /\ \A i \in 1..(Len(to) + (Len(p) - Len(from))) :
                Rebased(p, from, to)[i] =
                  IF i <= Len(to) THEN to[i] ELSE p[i - Len(to) + Len(from)]
  <1> DEFINE rest == SubSeq(p, Len(from) + 1, Len(p))
  <1>1. Len(p) \in Nat /\ Len(from) \in Nat /\ Len(to) \in Nat
    OBVIOUS
  <1>2. /\ rest \in Seq(Name)
        /\ Len(rest) = Len(p) - Len(from)
        /\ \A i \in 1..(Len(p) - Len(from)) : rest[i] = p[i + Len(from)]
    BY <1>1
  <1> HIDE DEF rest
  <1>3. /\ to \o rest \in Seq(Name)
        /\ Len(to \o rest) = Len(to) + Len(rest)
        /\ \A i \in 1..Len(to) + Len(rest) :
             (to \o rest)[i] = IF i <= Len(to) THEN to[i] ELSE rest[i - Len(to)]
    <2>1. rest \in Seq(Name)
      BY <1>2
    <2> QED
      BY <2>1, ConcatProperties
  <1>4. Rebased(p, from, to) = to \o rest
    BY DEF Rebased, rest
  <1>5. ASSUME NEW i \in 1..(Len(to) + (Len(p) - Len(from)))
        PROVE  (to \o rest)[i] = IF i <= Len(to) THEN to[i] ELSE p[i - Len(to) + Len(from)]
    <2>1. i \in 1..Len(to) + Len(rest) /\ i \in Int
      BY <1>1, <1>2
    <2>2. (to \o rest)[i] = IF i <= Len(to) THEN to[i] ELSE rest[i - Len(to)]
      BY <1>3, <2>1
    <2>3. ~(i <= Len(to)) => i - Len(to) \in 1..(Len(p) - Len(from))
      BY <1>1, <1>2, <2>1
    <2>4. ~(i <= Len(to)) => rest[i - Len(to)] = p[i - Len(to) + Len(from)]
      BY <1>2, <2>3
    <2> QED
      BY <2>2, <2>4
  <1> QED
    BY <1>1, <1>2, <1>3, <1>4, <1>5

\* Rebasing from where it came from changes nothing, and keeps what is above.
LEMMA RebasedAbove ==
    ASSUME NEW p \in Seq(Name), NEW q \in Seq(Name),
           NEW from \in Seq(Name), NEW to \in Seq(Name),
           IsPrefix(from, q), IsStrictPrefix(q, p)
    PROVE  IsStrictPrefix(Rebased(q, from, to), Rebased(p, from, to))
  <1>1. /\ Len(p) \in Nat /\ Len(q) \in Nat /\ Len(from) \in Nat /\ Len(to) \in Nat
        /\ Len(from) <= Len(q) /\ Len(q) <= Len(p) /\ Len(from) <= Len(p)
        /\ \A i \in 1..Len(q) : q[i] = p[i]
    BY PrefixPoints DEF IsStrictPrefix
  <1>2. Len(q) # Len(p)
    BY <1>1, SeqEqual DEF IsStrictPrefix
  <1> DEFINE rp == Rebased(p, from, to)
             rq == Rebased(q, from, to)
  <1>3. /\ rp \in Seq(Name) /\ Len(rp) = Len(to) + (Len(p) - Len(from))
        /\ \A i \in 1..(Len(to) + (Len(p) - Len(from))) :
             rp[i] = IF i <= Len(to) THEN to[i] ELSE p[i - Len(to) + Len(from)]
    BY <1>1, RebasedPoints
  <1>4. /\ rq \in Seq(Name) /\ Len(rq) = Len(to) + (Len(q) - Len(from))
        /\ \A i \in 1..(Len(to) + (Len(q) - Len(from))) :
             rq[i] = IF i <= Len(to) THEN to[i] ELSE q[i - Len(to) + Len(from)]
    BY <1>1, RebasedPoints
  <1> HIDE DEF rp, rq
  <1>5. Len(rq) <= Len(rp) /\ Len(rq) # Len(rp)
    BY <1>1, <1>2, <1>3, <1>4
  <1>6. ASSUME NEW i \in 1..Len(rq)
        PROVE  rq[i] = rp[i]
    <2>0. /\ i \in 1..(Len(to) + (Len(q) - Len(from))) /\ i \in Nat
          /\ i \in 1..(Len(to) + (Len(p) - Len(from)))
      BY <1>1, <1>4
    <2>1. CASE i <= Len(to)
      BY <1>3, <1>4, <2>0, <2>1
    <2>2. CASE i > Len(to)
      <3> DEFINE j == i - Len(to) + Len(from)
      <3>1. i \in Int /\ j \in 1..Len(q) /\ ~(i <= Len(to))
        BY <1>1, <2>0, <2>2
      <3>2. q[j] = p[j]
        BY <1>1, <3>1
      <3>3. rq[i] = q[j] /\ rp[i] = p[j]
        BY <1>3, <1>4, <2>0, <3>1
      <3> QED
        BY <3>2, <3>3
    <2> QED
      BY <1>1, <2>0, <2>1, <2>2
  <1>7. IsPrefix(rq, rp)
    BY <1>3, <1>4, <1>5, <1>6, PrefixPoints
  <1> QED
    BY <1>5, <1>7 DEF IsStrictPrefix, rp, rq

LEMMA RebasedItself ==
    ASSUME NEW from \in Seq(Name), NEW to \in Seq(Name)
    PROVE  Rebased(from, from, to) = to
  <1>1. Len(from) \in Nat /\ Len(to) \in Nat /\ Len(from) <= Len(from)
    OBVIOUS
  <1> DEFINE r == Rebased(from, from, to)
  <1>2. /\ r \in Seq(Name) /\ Len(r) = Len(to) + (Len(from) - Len(from))
        /\ \A i \in 1..(Len(to) + (Len(from) - Len(from))) :
             r[i] = IF i <= Len(to) THEN to[i] ELSE from[i - Len(to) + Len(from)]
    BY <1>1, RebasedPoints
  <1> HIDE DEF r
  <1>3. Len(r) = Len(to) /\ \A i \in 1..Len(to) : r[i] = to[i]
    BY <1>1, <1>2
  <1>4. r = to
    BY <1>2, <1>3, SeqEqual
  <1> QED
    BY <1>4 DEF r

-----------------------------------------------------------------------------
(* Trees.                                                                  *)

LEMMA ContentsAreEntries ==
    ASSUME NEW t \in Tree, NEW dir \in Path
    PROVE  Contents(t, dir) \in Entries
  <1> DEFINE names == {n \in Name : Append(dir, n) \in Path /\ t[Append(dir, n)] # "none"}
  <1>1. names \in SUBSET Name
    OBVIOUS
  <1>2. \A n \in names : t[Append(dir, n)] \in {"file", "dir"}
    BY DEF Tree
  <1>3. Contents(t, dir) = [n \in names |-> t[Append(dir, n)]]
    BY DEF Contents
  <1> HIDE DEF names
  <1>4. Contents(t, dir) \in [names -> {"file", "dir"}]
    BY <1>2, <1>3
  <1> QED
    BY <1>1, <1>4 DEF Entries

\* What is no directory, or an empty one, has nothing below it.
LEMMA NothingBelow ==
    ASSUME NEW t \in Tree, Grown(t), NEW p \in Path, NEW q \in Path, IsStrictPrefix(p, q),
           t[p] # "dir" \/ Contents(t, p) = NoEntries
    PROVE  t[q] = "none"
  <1>1. CASE t[p] # "dir"
    BY <1>1 DEF Grown
  <1>2. CASE Contents(t, p) = NoEntries
    <2>1. /\ p \in Seq(Name) /\ q \in Seq(Name) /\ Len(p) \in Nat /\ Len(q) \in Nat
          /\ Len(p) <= Len(q) /\ \A i \in 1..Len(p) : p[i] = q[i]
      BY PathAssumption, PrefixPoints DEF IsStrictPrefix
    <2>2. Len(p) # Len(q)
      BY <2>1, SeqEqual DEF IsStrictPrefix
    <2> DEFINE n == q[Len(p) + 1]
               r == Append(p, n)
    <2>3. n \in Name
      BY <2>1, <2>2
    <2>4. r \in Seq(Name) /\ Len(r) = Len(p) + 1 /\ IsPrefix(r, q)
      <3>1. r \in Seq(Name) /\ Len(r) = Len(p) + 1
        BY <2>1, <2>3, AppendProperties
      <3>2. \A i \in 1..Len(r) : r[i] = q[i]
        BY <2>1, <2>2, <2>3
      <3> HIDE DEF r
      <3>3. Len(r) <= Len(q)
        BY <2>1, <2>2, <3>1
      <3> QED
        BY <2>1, <3>1, <3>2, <3>3, PrefixPoints
    <2>5. r \in Path
      BY <2>4, PrefixIsPath
    <2>6. t[r] = "none"
      <3>1. DOMAIN Contents(t, p) = {m \in Name : Append(p, m) \in Path /\ t[Append(p, m)] # "none"}
        BY DEF Contents
      <3>2. DOMAIN NoEntries = {}
        BY DEF NoEntries
      <3> QED
        BY <1>2, <2>3, <2>5, <3>1, <3>2
    <2>7. CASE r = q
      BY <2>6, <2>7
    <2>8. CASE r # q
      <3>1. IsStrictPrefix(r, q)
        BY <2>4, <2>8 DEF IsStrictPrefix
      <3> HIDE DEF r
      <3> QED
        BY <2>5, <2>6, <3>1 DEF Grown
    <2> QED
      BY <2>7, <2>8
  <1> QED
    BY <1>1, <1>2

\* What is there hangs below directories.
LEMMA AboveIsDir ==
    ASSUME NEW t \in Tree, Grown(t), NEW p \in Path, p # <<>>, t[p] # "none"
    PROVE  Front(p) \in Path /\ t[Front(p)] = "dir"
  <1>1. p \in Seq(Name) /\ Front(p) \in Path /\ Front(p) \in Seq(Name)
    BY PathAssumption, FrontIsPath
  <1>2. IsStrictPrefix(Front(p), p)
    <2>1. Len(p) \in Nat /\ Len(Front(p)) = Len(p) - 1 /\ IsPrefix(Front(p), p)
      BY <1>1, FrontPoints, PrefixPoints
    <2> QED
      BY <2>1 DEF IsStrictPrefix
  <1> QED
    BY <1>1, <1>2 DEF Grown

\* Something made or written in a directory, where there is none yet.
LEMMA GrownWith ==
    ASSUME NEW t \in Tree, Grown(t), NEW p \in Path, NEW what \in {"none", "file", "dir"},
           what = "none" \/ (p # <<>> /\ t[Front(p)] = "dir"),
           t[p] # "dir" \/ Contents(t, p) = NoEntries
    PROVE  [t EXCEPT ![p] = what] \in Tree /\ Grown([t EXCEPT ![p] = what])
  <1> DEFINE u == [t EXCEPT ![p] = what]
  <1>1. u \in Tree /\ \A q \in Path : u[q] = IF q = p THEN what ELSE t[q]
    BY DEF Tree
  <1> HIDE DEF u
  <1>2. ASSUME NEW q \in Path, NEW r \in Path, u[q] # "none", IsStrictPrefix(r, q)
        PROVE  u[r] = "dir"
    <2>1. r # q
      BY <1>2 DEF IsStrictPrefix
    <2>2. CASE q = p
      <3>1. p # <<>> /\ t[Front(p)] = "dir" /\ Front(p) \in Path
        BY <1>1, <1>2, <2>2, FrontIsPath
      <3>2. r = Front(p) \/ IsStrictPrefix(r, Front(p))
        BY <1>2, <2>2, PathAssumption, AboveFront
      <3>3. t[r] = "dir"
        BY <3>1, <3>2 DEF Grown
      <3> QED
        BY <1>1, <2>1, <2>2, <3>3
    <2>3. CASE q # p
      <3>1. t[q] # "none" /\ t[r] = "dir"
        BY <1>1, <1>2, <2>3 DEF Grown
      <3>2. r # p
        BY <1>2, <3>1, NothingBelow
      <3> QED
        BY <1>1, <3>1, <3>2
    <2> QED
      BY <2>2, <2>3
  <1> QED
    BY <1>1, <1>2 DEF Grown, u

\* A directory or file and all below it moved to where there is room for it.
LEMMA GrownMoved ==
    ASSUME NEW t \in Tree, Grown(t), NEW from \in Path, NEW to \in Path,
           to # <<>>, t[Front(to)] = "dir", ~IsPrefix(from, to),
           t[to] # "dir" \/ Contents(t, to) = NoEntries
    PROVE  Moved(t, from, to) \in Tree /\ Grown(Moved(t, from, to))
  <1> DEFINE u == Moved(t, from, to)
  <1>0. from \in Seq(Name) /\ to \in Seq(Name) /\ Front(to) \in Path /\ Path \subseteq Seq(Name)
    BY PathAssumption, FrontIsPath
  <1>1. \A p \in Path :
          u[p] = IF IsPrefix(to, p) /\ Rebased(p, to, from) \in Path THEN t[Rebased(p, to, from)]
                 ELSE IF IsPrefix(from, p) THEN "none"
                 ELSE t[p]
    BY DEF Moved
  <1>2. u \in Tree
    BY DEF Moved, Tree
  <1> HIDE DEF u
  <1>3. ASSUME NEW p \in Path, NEW q \in Path, u[p] # "none", IsStrictPrefix(q, p)
        PROVE  u[q] = "dir"
    <2>0. p \in Seq(Name) /\ q \in Seq(Name) /\ IsPrefix(q, p)
      BY <1>0, <1>3 DEF IsStrictPrefix
    <2>1. CASE IsPrefix(to, p) /\ Rebased(p, to, from) \in Path
      <3> DEFINE rp == Rebased(p, to, from)
                 rq == Rebased(q, to, from)
      <3>1. CASE IsPrefix(to, q)
        <4>1. IsStrictPrefix(rq, rp)
          BY <1>0, <1>3, <2>0, <3>1, RebasedAbove
        <4>2. Len(to) <= Len(q)
          BY <3>1 DEF IsPrefix
        <4>3. rq \in Seq(Name)
          BY <1>0, <2>0, <4>2, RebasedPoints
        <4>4. rq \in Path
          BY <2>1, <4>1, <4>3, PrefixIsPath DEF IsStrictPrefix
        <4>5. t[rp] # "none"
          BY <1>1, <1>3, <2>1
        <4>6. t[rq] = "dir"
          <5> HIDE DEF rp, rq
          <5>1. rp \in Path
            BY <2>1 DEF rp
          <5> QED
            BY <4>1, <4>4, <4>5, <5>1 DEF Grown
        <4> QED
          BY <1>1, <3>1, <4>4, <4>6
      <3>2. CASE ~IsPrefix(to, q)
        <4>1. IsStrictPrefix(q, to)
          BY <1>0, <2>0, <2>1, <3>2, PrefixesCompare DEF IsStrictPrefix
        <4>2. q = Front(to) \/ IsStrictPrefix(q, Front(to))
          BY <1>0, <2>0, <4>1, AboveFront
        <4>3. t[q] = "dir"
          BY <1>0, <4>2 DEF Grown
        <4>4. ~IsPrefix(from, q)
          BY <1>0, <2>0, <4>1, PrefixTransitive DEF IsStrictPrefix
        <4> QED
          BY <1>1, <3>2, <4>3, <4>4
      <3> QED
        BY <3>1, <3>2
    <2>2. CASE ~(IsPrefix(to, p) /\ Rebased(p, to, from) \in Path)
      <3>1. ~IsPrefix(from, p) /\ t[p] # "none"
        BY <1>1, <1>3, <2>2
      <3>2. p # to
        BY <1>0, <2>2, <2>0, RebasedItself, PrefixPoints
      <3>3. ~IsPrefix(to, p)
        BY <3>1, <3>2, NothingBelow DEF IsStrictPrefix
      <3>4. ~IsPrefix(to, q) /\ ~IsPrefix(from, q)
        BY <1>0, <2>0, <3>1, <3>3, PrefixTransitive
      <3>5. t[q] = "dir"
        BY <1>3, <3>1 DEF Grown
      <3> QED
        BY <1>1, <3>4, <3>5
    <2> QED
      BY <2>1, <2>2
  <1> QED
    BY <1>2, <1>3 DEF Grown, u

\* What is moved to where it is stays there.
LEMMA MovedNowhere ==
    ASSUME NEW t \in Tree, NEW p \in Path
    PROVE  Moved(t, p, p) = t
  <1>1. ASSUME NEW q \in Path, IsPrefix(p, q)
        PROVE  Rebased(q, p, p) = q
    <2> DEFINE r == Rebased(q, p, p)
    <2>1. /\ p \in Seq(Name) /\ q \in Seq(Name) /\ Len(p) \in Nat /\ Len(q) \in Nat
          /\ Len(p) <= Len(q) /\ \A i \in 1..Len(p) : p[i] = q[i]
      BY <1>1, PathAssumption, PrefixPoints
    <2>2. /\ r \in Seq(Name) /\ Len(r) = Len(p) + (Len(q) - Len(p))
          /\ \A i \in 1..(Len(p) + (Len(q) - Len(p))) :
               r[i] = IF i <= Len(p) THEN p[i] ELSE q[i - Len(p) + Len(p)]
      BY <2>1, RebasedPoints
    <2> HIDE DEF r
    <2>3. Len(r) = Len(q) /\ \A i \in 1..Len(q) : r[i] = q[i]
      BY <2>1, <2>2
    <2> QED
      BY <2>1, <2>2, <2>3, SeqEqual DEF r
  <1>2. \A q \in Path : Moved(t, p, p)[q] = t[q]
    BY <1>1 DEF Moved
  <1> QED
    BY <1>2 DEF Moved, Tree

-----------------------------------------------------------------------------
(* Queues.                                                                 *)

\* When the oldest is taken the newest stays, unless it is the oldest.
LEMMA TailKeepsLast ==
    ASSUME NEW S, NEW q \in Seq(S), q # <<>>
    PROVE  IF Tail(q) = <<>> THEN q[Len(q)] = q[1] ELSE Tail(q)[Len(Tail(q))] = q[Len(q)]
  <1> DEFINE n == Len(q)
             r == Tail(q)
  <1>1. n \in Nat \ {0}
    BY EmptySeq
  <1>2. /\ r \in Seq(S) /\ Len(r) = n - 1
        /\ \A i \in 1..Len(r) : r[i] = q[i + 1]
    BY HeadTailProperties
  <1>3. (r = <<>> <=> Len(r) = 0)
    BY <1>2, EmptySeq
  <1> HIDE DEF n, r
  <1>4. CASE n = 1
    BY <1>2, <1>3, <1>4 DEF n, r
  <1>5. CASE n # 1
    <2>1. n - 1 \in 1..(n - 1) /\ n - 1 # 0 /\ n - 1 + 1 = n
      BY <1>1, <1>5
    <2>2. r[n - 1] = q[n]
      BY <1>2, <2>1
    <2> QED
      BY <1>2, <1>3, <2>1, <2>2 DEF n, r
  <1> QED
    BY <1>4, <1>5

-----------------------------------------------------------------------------
(* Texts of paths, and where they lead.                                    *)

\* What a text begins with is a text.
LEMMA TextBegins ==
    ASSUME NEW x \in Text, NEW n \in 0..Len(x)
    PROVE  SubSeq(x, 1, n) \in Text /\ Leads[SubSeq(x, 1, n)] \in Path
  BY TextAssumption

LEMMA FrontIsText ==
    ASSUME NEW x \in Text, x # <<>>
    PROVE  Front(x) \in Text /\ Leads[Front(x)] \in Path
  <1>1. x \in Seq(Name \cup {"above"})
    BY TextAssumption
  <1>2. Len(x) \in Nat \ {0}
    BY <1>1, EmptySeq
  <1>3. Len(x) - 1 \in 0..Len(x)
    <2>1. PICK n \in Nat \ {0} : n = Len(x)
      BY <1>2
    <2>2. n - 1 \in 0..n
      OBVIOUS
    <2> QED
      BY <2>1, <2>2
  <1> QED
    BY <1>3, TextBegins DEF Front

\* The disk that comes through a text comes to a directory.
LEMMA ReachedIsDir ==
    ASSUME NEW t, NEW x \in Text, Reached(t, x)
    PROVE  IsDir(t, Leads[x])
  <1>1. x \in Seq(Name \cup {"above"}) /\ Len(x) \in 0..Len(x) /\ SubSeq(x, 1, Len(x)) = x
    BY TextAssumption, SubSeqFull
  <1> QED
    BY <1>1 DEF Reached

\* What the disk can name is in a directory.
LEMMA NamedInDir ==
    ASSUME NEW t, NEW x \in Text, CanName(t, x)
    PROVE  Leads[x] \in Path \ {<<>>} /\ IsDir(t, Front(Leads[x]))
  <1> DEFINE f == Front(x)
  <1>1. x # <<>> /\ Last(x) \in Name /\ f \in Text /\ Leads[f] \in Path /\ IsDir(t, Leads[f])
    BY FrontIsText, ReachedIsDir DEF CanName
  <1>2. x = Append(f, Last(x))
    <2>1. x \in Seq(Name \cup {"above"})
      BY TextAssumption
    <2> QED
      BY <1>1, <2>1, EmptySeq DEF Front, Last
  <1> HIDE DEF f
  <1>3. Leads[x] = Append(Leads[f], Last(x))
    BY <1>1, <1>2, TextAssumption
  <1>4. Leads[f] \in Seq(Name)
    BY <1>1, PathAssumption
  <1>5. Leads[x] # <<>> /\ Front(Leads[x]) = Leads[f]
    BY <1>1, <1>3, <1>4, FrontOfAppend
  <1> QED
    BY <1>1, <1>5, TextAssumption
=============================================================================
