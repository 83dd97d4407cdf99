---------------------------- MODULE SequenceLemmas ----------------------------
(* Facts about numbers and sequences that the proofs share.                 *)
EXTENDS Naturals, Sequences, Functions, WellFoundedInduction, TLAPS

(* A set of natural numbers has a smallest element.                         *)
LEMMA SmallestNat ==
  ASSUME NEW S \in SUBSET Nat, S # {}
  PROVE  \E m \in S : \A x \in S : m <= x
<1>1. PICK m \in S : \A x \in S : ~ (<<x, m>> \in OpToRel(<, Nat))
  BY WFMin, NatLessThanWellFounded
<1>2. ASSUME NEW x \in S PROVE m <= x
  <2>1. <<x, m>> \in Nat \X Nat /\ ~ (<<x, m>> \in OpToRel(<, Nat))
    BY <1>1
  <2> QED
    BY <2>1 DEF OpToRel
<1> QED
  BY <1>2

(* Appending a new element keeps a sequence free of duplicates.             *)
LEMMA AppendFresh ==
  ASSUME NEW T, NEW q \in Seq(T), IsInjective(q), NEW x \in T, x \notin Range(q)
  PROVE  /\ Append(q, x) \in Seq(T)
         /\ IsInjective(Append(q, x))
         /\ Range(Append(q, x)) = Range(q) \cup {x}
<1> SUFFICES ASSUME NEW r, r = Append(q, x)
             PROVE  r \in Seq(T) /\ IsInjective(r) /\ Range(r) = Range(q) \cup {x}
  OBVIOUS
<1>1. /\ r \in Seq(T) /\ Len(r) = Len(q) + 1
      /\ \A i \in 1 .. Len(q) : r[i] = q[i]
      /\ r[Len(q) + 1] = x
      /\ DOMAIN r = 1 .. Len(q) + 1 /\ DOMAIN q = 1 .. Len(q) /\ Len(q) \in Nat
  OBVIOUS
<1>2. IsInjective(r)
  <2> SUFFICES ASSUME NEW a \in 1 .. Len(q) + 1, NEW b \in 1 .. Len(q) + 1, r[a] = r[b]
               PROVE  a = b
    BY <1>1 DEF IsInjective
  <2>1. \A i \in 1 .. Len(q) : q[i] # x
    BY <1>1 DEF Range
  <2> QED
    BY <1>1, <2>1 DEF IsInjective
<1>3. Range(r) = Range(q) \cup {x}
  BY <1>1 DEF Range
<1> QED
  <2>1. r \in Seq(T)
    BY <1>1
  <2> QED
    BY <2>1, <1>2, <1>3
===============================================================================
