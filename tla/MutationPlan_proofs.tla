------------------------- MODULE MutationPlan_proofs -------------------------
(***************************************************************************)
(* Proofs about MutationPlan, for every list of sources, every registry    *)
(* and every sequence of mutations.  The inductive invariant ties the set  *)
(* of evidence seen in a group (one source and one mutator) to the offers  *)
(* of that group, and each candidate to the offer it was made from.        *)
(***************************************************************************)
EXTENDS MutationPlan, TLAPS

Collecting == stage = "collecting"

InGroup(k) ==
    /\ source <= Len(Order) /\ name <= Len(Registry)
    /\ offers[k].mutation.source = Order[source]
    /\ offers[k].name = Registry[name]

BaseOf(k) == IdOf(offers[k].mutation, offers[k].name, NoRange)

\* Every offer belongs to a group the run has reached.
OffersArePast ==
    \A k \in 1 .. Len(offers) : \E s \in 1 .. Len(Order), n \in 1 .. Len(Registry) :
        /\ offers[k].mutation.source = Order[s]
        /\ offers[k].name = Registry[n]
        /\ s < source \/ (s = source /\ n <= name)

\* The evidence seen is that of the offers of this group.
SeenIsExact ==
    /\ \A k \in 1 .. Len(offers) : InGroup(k) => BaseOf(k) \in seen
    /\ \A b \in seen :
          \E k \in 1 .. Len(offers) : InGroup(k) /\ BaseOf(k) = b

IsOffer(c, k) ==
    /\ c.at = k
    /\ c.mutation = offers[k].mutation
    /\ c.name = offers[k].name
    /\ c.id = UnfilteredId(k)

CandidateIsOffer ==
    \A c \in candidates : \E k \in 1 .. Len(offers) : IsOffer(c, k)

\* While candidates are collected, they are the offers nothing excludes.
CollectedAreAllowed ==
    stage \in {"collecting", "collected"} =>
        \A k \in 1 .. Len(offers) :
            Allowed(k) <=> \E c \in candidates : c.at = k

MutationsDiffer ==
    stage \in {"deduplicated", "selected"} =>
        \A c, d \in candidates : c.mutation = d.mutation => c = d

Inv ==
    /\ TypeOK
    /\ OffersArePast
    /\ Collecting => SeenIsExact
    /\ CandidateIsOffer
    /\ CollectedAreAllowed
    /\ MutationsDiffer
    /\ PlanIsExact

-----------------------------------------------------------------------------
(* The operators of the plan.                                              *)

LEMMA IdType ==
    ASSUME NEW m \in Mutation, NEW n \in Names, NEW l \in Locations
    PROVE  IdOf(m, n, l) \in Id
<1>1. m.source \in Sources
  BY DEF Mutation
<1>2. PathOf[m.source] \in Paths
  BY <1>1, PathAssumption
<1>3. ChangeOf[m] \in Changes
  BY ChangeAssumption
<1>4. QED
  BY <1>2, <1>3 DEF IdOf, Id

\* Yielding one more mutation changes nothing about the earlier offers.
LEMMA OffersKept ==
    ASSUME offers \in Seq(Offer), NEW o \in Offer, offers' = Append(offers, o),
           UNCHANGED scope
    PROVE  /\ offers' \in Seq(Offer)
           /\ Len(offers') = Len(offers) + 1
           /\ offers'[Len(offers) + 1] = o
           /\ \A k \in 1 .. Len(offers) :
                 /\ offers'[k] = offers[k]
                 /\ Repeated(k)' <=> Repeated(k)
                 /\ UnfilteredId(k)' = UnfilteredId(k)
                 /\ Allowed(k)' <=> Allowed(k)
<1>1. /\ offers' \in Seq(Offer)
      /\ Len(offers') = Len(offers) + 1
      /\ offers'[Len(offers) + 1] = o
      /\ \A k \in 1 .. Len(offers) : offers'[k] = offers[k]
  OBVIOUS
<1>2. ASSUME NEW k \in 1 .. Len(offers)
      PROVE  /\ Repeated(k)' <=> Repeated(k)
             /\ UnfilteredId(k)' = UnfilteredId(k)
             /\ Allowed(k)' <=> Allowed(k)
  <2>1. \A j \in 1 .. k : offers'[j] = offers[j]
    BY <1>1
  <2>2. Repeated(k)' <=> Repeated(k)
    BY <2>1 DEF Repeated, SameEvidence
  <2>3. UnfilteredId(k)' = UnfilteredId(k)
    BY <2>1, <2>2 DEF UnfilteredId
  <2>4. Allowed(k)' <=> Allowed(k)
    BY <2>1, <2>3 DEF Allowed, Excluded, scope
  <2>5. QED
    BY <2>2, <2>3, <2>4
<1>3. QED
  BY <1>1, <1>2

\* A candidate is determined by its place in the plan.
LEMMA CandidateAt ==
    ASSUME TypeOK, CandidateIsOffer,
           NEW c \in candidates, NEW d \in candidates, c.at = d.at
    PROVE  c = d
<1>1. c \in Candidate /\ d \in Candidate
  BY DEF TypeOK
<1>2. c.mutation = d.mutation /\ c.name = d.name /\ c.id = d.id
  BY DEF CandidateIsOffer, IsOffer
<1>3. QED
  BY <1>1, <1>2 DEF Candidate

-----------------------------------------------------------------------------
LEMMA InvInit == Init => Inv
<1> SUFFICES ASSUME Init PROVE Inv
  OBVIOUS
<1>1. Len(offers) = 0 /\ Len(Order) \in Nat /\ Len(Registry) \in Nat
  BY OrderAssumption, RegistryAssumption DEF Init, InitWith
<1>2. TypeOK
  <2>1. <<>> \in Seq(Offer)
    OBVIOUS
  <2>2. QED
    BY <1>1, <2>1, MaxOffersAssumption DEF Init, InitWith, TypeOK
<1>3. OffersArePast /\ SeenIsExact
  BY <1>1 DEF Init, InitWith, OffersArePast, SeenIsExact
<1>4. CandidateIsOffer /\ CollectedAreAllowed
  BY <1>1 DEF Init, InitWith, CandidateIsOffer, CollectedAreAllowed
<1>5. MutationsDiffer /\ PlanIsExact
  BY DEF Init, InitWith, MutationsDiffer, PlanIsExact
<1>6. QED
  BY <1>2, <1>3, <1>4, <1>5 DEF Inv

\* What Consider does, in the terms of the invariant.
LEMMA ConsiderKeeps ==
    ASSUME Inv, NEW m \in Mutation, Consider(m)
    PROVE  Inv'
<1>length. Len(offers) + 1 \in Nat
  BY DEF Inv, TypeOK
<1>place. PICK new \in Nat : new = Len(offers) + 1
  BY <1>length
<1> DEFINE n == Registry[name]
           o == [mutation |-> m, name |-> n]
           base == IdOf(m, n, NoRange)
           location == IF base \in seen THEN m.range ELSE NoRange
           c0 == [mutation |-> m, name |-> n, id |-> IdOf(m, n, location), at |-> new]
<1>1. /\ TypeOK /\ stage = "collecting" /\ stage' = "collecting"
      /\ source \in 1 .. Len(Order) /\ name \in 1 .. Len(Registry)
      /\ source' = source /\ name' = name
      /\ m.source = Order[source] /\ m.range \in Ranges
      /\ Len(offers) < MaxOffers
  BY DEF Inv, TypeOK, Consider, Mutation
<1>2. n \in Names
  BY <1>1 DEF Names
<1>3. o \in Offer /\ offers' = Append(offers, o) /\ UNCHANGED scope
  BY <1>2 DEF Offer, Consider
<1>4. offers \in Seq(Offer) /\ Len(offers) \in Nat
  BY <1>1 DEF TypeOK
<1>5. /\ offers' \in Seq(Offer)
      /\ Len(offers') = new
      /\ offers'[new] = o
      /\ \A k \in 1 .. Len(offers) :
            /\ offers'[k] = offers[k]
            /\ UnfilteredId(k)' = UnfilteredId(k)
            /\ Allowed(k)' <=> Allowed(k)
  BY <1>3, <1>4, <1>place, OffersKept
<1>6. seen' = seen \cup {base}
  BY DEF Consider
<1>7. /\ Excluded(m, n, location) => candidates' = candidates
      /\ ~Excluded(m, n, location) => candidates' = candidates \cup {c0}
  BY <1>place DEF Consider
<1>8. location \in Locations /\ base \in Id /\ IdOf(m, n, location) \in Id
  <2>1. location \in Locations /\ NoRange \in Locations
    BY <1>1 DEF Locations
  <2>2. QED
    BY <1>2, <2>1, IdType
<1>9. TypeOK'
  <2>1. c0 \in Candidate
    BY <1>2, <1>4, <1>8 DEF Candidate
  <2>2. seen' \subseteq Id /\ candidates' \subseteq Candidate
    BY <1>1, <1>6, <1>7, <1>8, <2>1 DEF TypeOK
  <2>3. Len(offers') <= MaxOffers
    BY <1>1, <1>4, <1>5, <1>place, MaxOffersAssumption
  <2>4. UNCHANGED <<selection, disabled, changed, blacklist>>
    BY DEF Consider, scope
  <2>5. QED
    BY <1>1, <1>5, <2>2, <2>3, <2>4 DEF TypeOK
<1>parts. /\ o.mutation = m /\ o.name = n
      /\ c0.at = new /\ c0.mutation = m /\ c0.name = n
      /\ c0.id = IdOf(m, n, location)
      /\ n = Registry[name]
      /\ base = IdOf(m, n, NoRange)
      /\ location = IF base \in seen THEN m.range ELSE NoRange
  OBVIOUS
<1> HIDE DEF n, o, base, location, c0
<1>places. /\ new \notin 1 .. Len(offers)
           /\ 1 .. Len(offers') = (1 .. Len(offers)) \cup {new}
           /\ new - 1 = Len(offers)
  <2>1. Len(offers) \in Nat /\ new = Len(offers) + 1
    BY <1>4, <1>place
  <2>2. Len(offers') = new
    BY <1>5
  <2>3. 1 .. new = (1 .. Len(offers)) \cup {new}
    BY <2>1
  <2>4. QED
    BY <2>1, <2>2, <2>3
<1>10. OffersArePast'
  <2>1. ASSUME NEW k \in 1 .. Len(offers)
        PROVE  \E s \in 1 .. Len(Order), r \in 1 .. Len(Registry) :
                  /\ offers'[k].mutation.source = Order[s]
                  /\ offers'[k].name = Registry[r]
                  /\ s < source' \/ (s = source' /\ r <= name')
    BY <1>1, <1>5 DEF Inv, OffersArePast
  <2>2. /\ offers'[new].mutation.source = Order[source]
        /\ offers'[new].name = Registry[name]
    BY <1>parts, <1>1, <1>5
  <2>3. \E s \in 1 .. Len(Order), r \in 1 .. Len(Registry) :
            /\ offers'[new].mutation.source = Order[s]
            /\ offers'[new].name = Registry[r]
            /\ s < source' \/ (s = source' /\ r <= name')
    BY <1>1, <2>2
  <2>4. QED
    BY <1>places, <2>1, <2>3 DEF OffersArePast
<1>11. /\ \A k \in 1 .. Len(offers) : InGroup(k)' <=> InGroup(k)
       /\ \A k \in 1 .. Len(offers) : BaseOf(k)' = BaseOf(k)
       /\ InGroup(new)'
       /\ BaseOf(new)' = base
  <2>1. ASSUME NEW k \in 1 .. Len(offers) PROVE InGroup(k)' <=> InGroup(k)
    BY <1>1, <1>5 DEF InGroup
  <2>2. ASSUME NEW k \in 1 .. Len(offers) PROVE BaseOf(k)' = BaseOf(k)
    BY <1>5 DEF BaseOf
  <2>3. InGroup(new)'
    BY <1>parts, <1>1, <1>5 DEF InGroup
  <2>4. BaseOf(new)' = base
    BY <1>parts, <1>5 DEF BaseOf
  <2>5. QED
    BY <2>1, <2>2, <2>3, <2>4
<1>12. SeenIsExact'
  <2>1. SeenIsExact
    BY <1>1 DEF Inv, Collecting
  <2>2. ASSUME NEW k \in 1 .. Len(offers'), InGroup(k)' PROVE BaseOf(k)' \in seen'
    <3>1. CASE k = new
      BY <1>6, <1>11, <3>1
    <3>2. CASE k \in 1 .. Len(offers)
      BY <1>6, <1>11, <2>1, <2>2, <3>2 DEF SeenIsExact
    <3>3. QED
      BY <1>places, <3>1, <3>2
  <2>3. ASSUME NEW b \in seen'
        PROVE  \E k \in 1 .. Len(offers') : InGroup(k)' /\ BaseOf(k)' = b
    <3>1. CASE b = base
      <4>1. new \in 1 .. Len(offers')
        BY <1>places
      <4>2. QED
        BY <1>11, <3>1, <4>1
    <3>2. CASE b \in seen
      <4>1. PICK k \in 1 .. Len(offers) : InGroup(k) /\ BaseOf(k) = b
        BY <2>1, <3>2 DEF SeenIsExact
      <4>2. InGroup(k)' /\ BaseOf(k)' = b
        BY <1>11, <4>1
      <4>3. k \in 1 .. Len(offers')
        BY <1>places, <4>1
      <4>4. QED
        BY <4>2, <4>3
    <3>3. QED
      BY <1>6, <3>1, <3>2
  <2>4. QED
    BY <2>2, <2>3 DEF SeenIsExact
<1>13. base \in seen <=> Repeated(new)'
  <2>1. SeenIsExact
    BY <1>1 DEF Inv, Collecting
  <2>2. Repeated(new)' <=> \E j \in 1 .. Len(offers) : SameEvidence(offers[j], o)
    <3>1. Repeated(new)' <=> \E j \in 1 .. Len(offers) : SameEvidence(offers'[j], offers'[new])
      BY <1>places DEF Repeated
    <3>2. QED
      BY <1>5, <3>1
  <2>3. ASSUME NEW j \in 1 .. Len(offers)
        PROVE  SameEvidence(offers[j], o) <=> (InGroup(j) /\ BaseOf(j) = base)
    <3>1. offers[j] \in Offer
      BY <1>4
    <3>2. offers[j].mutation \in Mutation
      BY <3>1 DEF Offer
    <3>3. ASSUME SameEvidence(offers[j], o) PROVE InGroup(j) /\ BaseOf(j) = base
      BY <1>parts, <1>1, <3>3 DEF SameEvidence, InGroup, BaseOf, IdOf
    <3>4. ASSUME InGroup(j), BaseOf(j) = base PROVE SameEvidence(offers[j], o)
      BY <1>parts, <1>1, <3>4 DEF SameEvidence, InGroup, BaseOf, IdOf
    <3>5. QED
      BY <3>3, <3>4
  <2>4. base \in seen <=> \E j \in 1 .. Len(offers) : InGroup(j) /\ BaseOf(j) = base
    BY <2>1 DEF SeenIsExact
  <2>5. QED
    BY <2>2, <2>3, <2>4
<1>14. /\ UnfilteredId(new)' = IdOf(m, n, location)
       /\ UnfilteredId(new)'.location = location
       /\ Allowed(new)' <=> ~Excluded(m, n, location)
  <2>1. UnfilteredId(new)' = IdOf(m, n, location)
    BY <1>parts, <1>5, <1>13 DEF UnfilteredId
  <2>2. UnfilteredId(new)'.location = location
    BY <2>1 DEF IdOf
  <2>4. Allowed(new)' <=> ~Excluded(m, n, location)
    BY <1>parts, <1>3, <1>5, <2>2 DEF Allowed, Excluded, scope
  <2>5. QED
    BY <2>1, <2>2, <2>4
<1>15. CandidateIsOffer'
  <2>1. ASSUME NEW c \in candidates
        PROVE  \E k \in 1 .. Len(offers') : IsOffer(c, k)'
    <3>1. PICK k \in 1 .. Len(offers) : IsOffer(c, k)
      BY DEF Inv, CandidateIsOffer
    <3>2. IsOffer(c, k)'
      BY <1>5, <3>1 DEF IsOffer
    <3>3. QED
      BY <1>places, <3>1, <3>2
  <2>2. ASSUME NEW c, c = c0 PROVE IsOffer(c, new)'
    BY <1>parts, <1>5, <1>14, <2>2 DEF IsOffer
  <2>3. ASSUME NEW c \in candidates' PROVE \E k \in 1 .. Len(offers') : IsOffer(c, k)'
    <3>1. c \in candidates \/ c = c0
      BY <1>7
    <3>2. new \in 1 .. Len(offers')
      BY <1>places
    <3>3. QED
      BY <2>1, <2>2, <3>1, <3>2
  <2>4. QED
    BY <2>3 DEF CandidateIsOffer
<1>16. CollectedAreAllowed'
  <2>1. \A k \in 1 .. Len(offers) : Allowed(k) <=> \E c \in candidates : c.at = k
    BY <1>1 DEF Inv, CollectedAreAllowed
  <2>2. \A c \in candidates : c.at \in 1 .. Len(offers)
    BY DEF Inv, CandidateIsOffer, IsOffer
  <2>3. c0.at = new /\ new \notin 1 .. Len(offers)
    BY <1>parts, <1>places
  <2>4. ASSUME NEW k \in 1 .. Len(offers)
        PROVE  Allowed(k)' <=> \E c \in candidates' : c.at = k
    BY <1>5, <1>7, <2>1, <2>3
  <2>5. Allowed(new)' <=> \E c \in candidates' : c.at = new
    BY <1>7, <1>14, <2>2, <2>3
  <2>6. QED
    BY <1>places, <2>4, <2>5 DEF CollectedAreAllowed
<1>17. MutationsDiffer' /\ PlanIsExact'
  BY <1>1 DEF MutationsDiffer, PlanIsExact
<1>18. QED
  BY <1>9, <1>10, <1>12, <1>15, <1>16, <1>17 DEF Inv

\* A step that yields nothing keeps what is said of the offers.
LEMMA OffersUnchanged ==
    ASSUME UNCHANGED <<offers, disabled, changed, blacklist>>
    PROVE  \A k : /\ UnfilteredId(k)' = UnfilteredId(k)
                  /\ Allowed(k)' <=> Allowed(k)
<1>1. \A k : UnfilteredId(k)' = UnfilteredId(k)
  BY DEF UnfilteredId, Repeated, SameEvidence
<1>2. QED
  BY <1>1 DEF Allowed, Excluded

LEMMA NextMutatorKeeps == Inv /\ NextMutator => Inv'
<1> SUFFICES ASSUME Inv, NextMutator PROVE Inv'
  OBVIOUS
<1>1. /\ TypeOK /\ stage = "collecting"
      /\ source \in 1 .. Len(Order) /\ name \in 1 .. Len(Registry)
      /\ name' = name + 1 /\ seen' = {}
      /\ UNCHANGED <<source, offers, candidates, stage, selection,
                     disabled, changed, blacklist>>
  BY DEF Inv, TypeOK, NextMutator, scope
<1>2. \A k : UnfilteredId(k)' = UnfilteredId(k) /\ (Allowed(k)' <=> Allowed(k))
  BY <1>1, OffersUnchanged
<1>3. TypeOK'
  BY <1>1 DEF TypeOK
<1>4. OffersArePast'
  <2>1. ASSUME NEW k \in 1 .. Len(offers)
        PROVE  \E s \in 1 .. Len(Order), n \in 1 .. Len(Registry) :
                  /\ offers[k].mutation.source = Order[s]
                  /\ offers[k].name = Registry[n]
                  /\ s < source \/ (s = source /\ n <= name + 1)
    BY <1>1 DEF Inv, OffersArePast
  <2>2. QED
    BY <1>1, <2>1 DEF OffersArePast
<1>5. SeenIsExact'
  <2>1. ASSUME NEW k \in 1 .. Len(offers), InGroup(k)' PROVE FALSE
    <3>1. /\ name + 1 <= Len(Registry)
          /\ offers[k].mutation.source = Order[source]
          /\ offers[k].name = Registry[name + 1]
      BY <1>1, <2>1 DEF InGroup
    <3>2. PICK s \in 1 .. Len(Order), n \in 1 .. Len(Registry) :
             /\ offers[k].mutation.source = Order[s]
             /\ offers[k].name = Registry[n]
             /\ s < source \/ (s = source /\ n <= name)
      BY DEF Inv, OffersArePast
    <3>3. s = source
      BY <1>1, <3>1, <3>2, UniqueAssumption
    <3>4. name + 1 \in 1 .. Len(Registry)
      BY <1>1, <3>1, RegistryAssumption
    <3>5. n = name + 1
      BY <3>1, <3>2, <3>4, UniqueAssumption
    <3>6. QED
      BY <1>1, <3>2, <3>3, <3>5
  <2>2. QED
    BY <1>1, <2>1 DEF SeenIsExact
<1>6. CandidateIsOffer'
  BY <1>1, <1>2 DEF Inv, CandidateIsOffer, IsOffer
<1>7. CollectedAreAllowed'
  BY <1>1, <1>2 DEF Inv, CollectedAreAllowed
<1>8. MutationsDiffer' /\ PlanIsExact'
  BY <1>1 DEF MutationsDiffer, PlanIsExact
<1>9. QED
  BY <1>3, <1>4, <1>5, <1>6, <1>7, <1>8 DEF Inv

LEMMA NextSourceKeeps == Inv /\ NextSource => Inv'
<1> SUFFICES ASSUME Inv, NextSource PROVE Inv'
  OBVIOUS
<1>1. /\ TypeOK /\ stage = "collecting"
      /\ source \in 1 .. Len(Order) /\ name > Len(Registry)
      /\ source' = source + 1 /\ name' = 1
      /\ UNCHANGED <<seen, offers, candidates, stage, selection,
                     disabled, changed, blacklist>>
  BY DEF Inv, TypeOK, NextSource, scope
<1>2. \A k : UnfilteredId(k)' = UnfilteredId(k) /\ (Allowed(k)' <=> Allowed(k))
  BY <1>1, OffersUnchanged
<1>3. /\ source \in Nat /\ name \in Nat
      /\ Len(Registry) \in Nat /\ Len(Order) \in Nat
  BY <1>1, OrderAssumption, RegistryAssumption DEF TypeOK
<1>4. TypeOK'
  BY <1>1, <1>3 DEF TypeOK
<1>5. OffersArePast'
  <2>1. ASSUME NEW k \in 1 .. Len(offers)
        PROVE  \E s \in 1 .. Len(Order), n \in 1 .. Len(Registry) :
                  /\ offers[k].mutation.source = Order[s]
                  /\ offers[k].name = Registry[n]
                  /\ s < source + 1
    BY <1>1, <1>3 DEF Inv, OffersArePast
  <2>2. QED
    BY <1>1, <2>1 DEF OffersArePast
<1>6. SeenIsExact'
  <2>1. ASSUME NEW k \in 1 .. Len(offers), InGroup(k)' PROVE FALSE
    <3>1. /\ source + 1 \in 1 .. Len(Order)
          /\ offers[k].mutation.source = Order[source + 1]
      BY <1>1, <1>3, <2>1 DEF InGroup
    <3>2. PICK s \in 1 .. Len(Order), n \in 1 .. Len(Registry) :
             /\ offers[k].mutation.source = Order[s]
             /\ offers[k].name = Registry[n]
             /\ s < source \/ (s = source /\ n <= name)
      BY DEF Inv, OffersArePast
    <3>3. s = source + 1
      BY <3>1, <3>2, UniqueAssumption
    <3>4. QED
      BY <1>3, <3>2, <3>3
  <2>2. seen = {}
    BY <1>1, <1>3 DEF Inv, Collecting, SeenIsExact, InGroup
  <2>3. QED
    BY <1>1, <2>1, <2>2 DEF SeenIsExact
<1>7. CandidateIsOffer'
  BY <1>1, <1>2 DEF Inv, CandidateIsOffer, IsOffer
<1>8. CollectedAreAllowed'
  BY <1>1, <1>2 DEF Inv, CollectedAreAllowed
<1>9. MutationsDiffer' /\ PlanIsExact'
  BY <1>1 DEF MutationsDiffer, PlanIsExact
<1>10. QED
  BY <1>4, <1>5, <1>6, <1>7, <1>8, <1>9 DEF Inv

LEMMA CollectedKeeps == Inv /\ Collected => Inv'
<1> SUFFICES ASSUME Inv, Collected PROVE Inv'
  OBVIOUS
<1>1. /\ TypeOK /\ stage = "collecting" /\ stage' = "collected"
      /\ UNCHANGED <<source, name, seen, offers, candidates, selection,
                     disabled, changed, blacklist>>
  BY DEF Inv, Collected, scope
<1>2. \A k : UnfilteredId(k)' = UnfilteredId(k) /\ (Allowed(k)' <=> Allowed(k))
  BY <1>1, OffersUnchanged
<1>3. TypeOK' /\ OffersArePast'
  BY <1>1 DEF Inv, TypeOK, OffersArePast
<1>4. CandidateIsOffer'
  BY <1>1, <1>2 DEF Inv, CandidateIsOffer, IsOffer
<1>5. CollectedAreAllowed'
  BY <1>1, <1>2 DEF Inv, CollectedAreAllowed
<1>6. MutationsDiffer' /\ PlanIsExact' /\ ~Collecting'
  BY <1>1 DEF MutationsDiffer, PlanIsExact, Collecting
<1>7. QED
  BY <1>3, <1>4, <1>5, <1>6 DEF Inv

LEMMA DeduplicateKeeps == Inv /\ Deduplicate => Inv'
<1> SUFFICES ASSUME Inv, Deduplicate PROVE Inv'
  OBVIOUS
<1>1. /\ TypeOK /\ stage = "collected" /\ stage' = "deduplicated"
      /\ candidates' = {c \in candidates : \A d \in candidates :
                            d.mutation = c.mutation => c.at <= d.at}
      /\ UNCHANGED <<source, name, seen, offers, selection,
                     disabled, changed, blacklist>>
  BY DEF Inv, Deduplicate, scope
<1>2. \A k : UnfilteredId(k)' = UnfilteredId(k) /\ (Allowed(k)' <=> Allowed(k))
  BY <1>1, OffersUnchanged
<1>3. candidates' \subseteq candidates
  BY <1>1
<1>4. \A c \in candidates : c.at \in Nat
  BY <1>1 DEF TypeOK, Candidate
<1>5. TypeOK' /\ OffersArePast'
  BY <1>1, <1>3 DEF Inv, TypeOK, OffersArePast
<1>6. CandidateIsOffer'
  BY <1>1, <1>2, <1>3 DEF Inv, CandidateIsOffer, IsOffer
<1>7. CollectedAreAllowed' /\ ~Collecting'
  BY <1>1 DEF CollectedAreAllowed, Collecting
<1>8. MutationsDiffer'
  <2>1. ASSUME NEW c \in candidates', NEW d \in candidates', c.mutation = d.mutation
        PROVE  c = d
    <3>1. c.at = d.at
      BY <1>1, <1>3, <1>4, <2>1
    <3>2. QED
      BY <1>1, <1>3, <3>1, CandidateAt DEF Inv
  <2>2. QED
    BY <2>1 DEF MutationsDiffer
<1>9. PlanIsExact'
  <2> DEFINE First(k) == Allowed(k) /\ \A j \in 1 .. k - 1 :
                             ~(Allowed(j) /\ offers[j].mutation = offers[k].mutation)
  <2>1. \A k \in 1 .. Len(offers) : Allowed(k) <=> \E c \in candidates : c.at = k
    BY <1>1 DEF Inv, CollectedAreAllowed
  <2>2. ASSUME NEW c \in candidates'
        PROVE  c.at \in 1 .. Len(offers) /\ First(c.at)
    <3>1. PICK k \in 1 .. Len(offers) : IsOffer(c, k)
      BY <1>3 DEF Inv, CandidateIsOffer
    <3>2. c.at = k /\ c.mutation = offers[k].mutation /\ Allowed(k)
      BY <1>3, <2>1, <3>1 DEF IsOffer
    <3>3. ASSUME NEW j \in 1 .. k - 1, Allowed(j), offers[j].mutation = offers[k].mutation
          PROVE  FALSE
      <4>1. j \in 1 .. Len(offers)
        BY <1>1 DEF TypeOK
      <4>2. PICK d \in candidates : d.at = j
        BY <2>1, <3>3, <4>1
      <4>3. d.mutation = offers[j].mutation
        BY <4>2 DEF Inv, CandidateIsOffer, IsOffer
      <4>4. c.at <= d.at
        BY <1>1, <3>2, <3>3, <4>3
      <4>5. QED
        BY <3>2, <4>2, <4>4
    <3>4. QED
      BY <3>2, <3>3
  <2>3. ASSUME NEW k \in 1 .. Len(offers), First(k)
        PROVE  \E c \in candidates' : c.at = k
    <3>1. PICK c \in candidates : c.at = k
      BY <2>1, <2>3
    <3>2. c.mutation = offers[k].mutation
      BY <3>1 DEF Inv, CandidateIsOffer, IsOffer
    <3>3. ASSUME NEW d \in candidates, d.mutation = c.mutation, ~(c.at <= d.at)
          PROVE  FALSE
      <4>1. PICK j \in 1 .. Len(offers) : IsOffer(d, j)
        BY DEF Inv, CandidateIsOffer
      <4>2. d.at = j /\ d.mutation = offers[j].mutation /\ Allowed(j)
        BY <2>1, <4>1 DEF IsOffer
      <4>3. j \in 1 .. k - 1
        BY <3>1, <3>3, <4>2
      <4>4. QED
        BY <2>3, <3>2, <3>3, <4>2, <4>3
    <3>4. c \in candidates'
      BY <1>1, <3>3
    <3>5. QED
      BY <3>1, <3>4
  <2>4. {c.at : c \in candidates'} = {k \in 1 .. Len(offers) : First(k)}
    BY <2>2, <2>3
  <2>5. QED
    BY <1>1, <1>2, <2>4 DEF PlanIsExact
<1>10. QED
  BY <1>5, <1>6, <1>7, <1>8, <1>9 DEF Inv

LEMMA SelectKeeps ==
    ASSUME Inv, NEW id \in Id, Select(id)
    PROVE  Inv'
<1>1. /\ TypeOK /\ stage = "deduplicated" /\ stage' = "selected"
      /\ candidates' \subseteq candidates
      /\ UNCHANGED <<source, name, seen, offers, disabled, changed, blacklist>>
  BY DEF Inv, Select, scope
<1>2. \A k : UnfilteredId(k)' = UnfilteredId(k) /\ (Allowed(k)' <=> Allowed(k))
  BY <1>1, OffersUnchanged
<1>3. selection' \in {"missing", "one", "ambiguous"}
  BY DEF Select
<1>4. TypeOK' /\ OffersArePast'
  BY <1>1, <1>3 DEF Inv, TypeOK, OffersArePast
<1>5. CandidateIsOffer'
  BY <1>1, <1>2 DEF Inv, CandidateIsOffer, IsOffer
<1>6. MutationsDiffer'
  BY <1>1 DEF Inv, MutationsDiffer
<1>7. CollectedAreAllowed' /\ PlanIsExact' /\ ~Collecting'
  BY <1>1 DEF CollectedAreAllowed, PlanIsExact, Collecting
<1>8. QED
  BY <1>4, <1>5, <1>6, <1>7 DEF Inv

LEMMA StutterKeeps == Inv /\ UNCHANGED vars => Inv'
<1> SUFFICES ASSUME Inv, UNCHANGED vars PROVE Inv'
  OBVIOUS
<1>1. UNCHANGED <<source, name, seen, offers, candidates, stage, selection,
                  disabled, changed, blacklist>>
  BY DEF vars
<1>2. \A k : UnfilteredId(k)' = UnfilteredId(k) /\ (Allowed(k)' <=> Allowed(k))
  BY <1>1, OffersUnchanged
<1>3. TypeOK' /\ OffersArePast'
  BY <1>1 DEF Inv, TypeOK, OffersArePast
<1>4. Collecting' => SeenIsExact'
  BY <1>1 DEF Inv, Collecting, SeenIsExact, InGroup, BaseOf
<1>5. CandidateIsOffer'
  BY <1>1, <1>2 DEF Inv, CandidateIsOffer, IsOffer
<1>6. CollectedAreAllowed'
  BY <1>1, <1>2 DEF Inv, CollectedAreAllowed
<1>7. MutationsDiffer'
  BY <1>1 DEF Inv, MutationsDiffer
<1>8. PlanIsExact'
  BY <1>1, <1>2 DEF Inv, PlanIsExact
<1>9. QED
  BY <1>3, <1>4, <1>5, <1>6, <1>7, <1>8 DEF Inv

LEMMA Invariance == Spec => []Inv
<1>1. Inv /\ [Next]_vars => Inv'
  BY ConsiderKeeps, NextMutatorKeeps, NextSourceKeeps, CollectedKeeps,
     DeduplicateKeeps, SelectKeeps, StutterKeeps DEF Next
<1>2. QED
  BY <1>1, InvInit, PTL DEF Spec

-----------------------------------------------------------------------------
LEMMA OffersName == Inv => FiltersRenameNothing
BY DEF Inv, CandidateIsOffer, IsOffer, FiltersRenameNothing

\* Of two candidates with one ID the later one would carry its range.
LEMMA IdsDiffer == PathsDiffer /\ Inv => IdNamesOneMutant
<1> SUFFICES ASSUME PathsDiffer, Inv, stage \in {"deduplicated", "selected"},
                    NEW c \in candidates, NEW d \in candidates, c.id = d.id
             PROVE  c = d
  BY DEF IdNamesOneMutant
<1>1. PICK j \in 1 .. Len(offers) : IsOffer(c, j)
  BY DEF Inv, CandidateIsOffer
<1>2. PICK k \in 1 .. Len(offers) : IsOffer(d, k)
  BY DEF Inv, CandidateIsOffer
<1>3. c.mutation \in Mutation /\ d.mutation \in Mutation
  BY DEF Inv, TypeOK, Candidate
<1>ids. /\ c.id = IdOf(c.mutation, c.name, IF Repeated(j) THEN c.mutation.range ELSE NoRange)
        /\ d.id = IdOf(d.mutation, d.name, IF Repeated(k) THEN d.mutation.range ELSE NoRange)
  BY <1>1, <1>2 DEF IsOffer, UnfilteredId
<1>fields. /\ c.id.path = PathOf[c.mutation.source]
           /\ c.id.name = c.name
           /\ c.id.change = ChangeOf[c.mutation]
           /\ c.id.location = IF Repeated(j) THEN c.mutation.range ELSE NoRange
           /\ d.id.path = PathOf[d.mutation.source]
           /\ d.id.name = d.name
           /\ d.id.change = ChangeOf[d.mutation]
           /\ d.id.location = IF Repeated(k) THEN d.mutation.range ELSE NoRange
  <2>1. PICK l : /\ l = IF Repeated(j) THEN c.mutation.range ELSE NoRange
                 /\ c.id = IdOf(c.mutation, c.name, l)
    BY <1>ids
  <2>2. PICK r : /\ r = IF Repeated(k) THEN d.mutation.range ELSE NoRange
                 /\ d.id = IdOf(d.mutation, d.name, r)
    BY <1>ids
  <2>3. /\ c.id.path = PathOf[c.mutation.source] /\ c.id.name = c.name
        /\ c.id.change = ChangeOf[c.mutation] /\ c.id.location = l
    BY <2>1 DEF IdOf
  <2>4. /\ d.id.path = PathOf[d.mutation.source] /\ d.id.name = d.name
        /\ d.id.change = ChangeOf[d.mutation] /\ d.id.location = r
    BY <2>2 DEF IdOf
  <2>5. QED
    BY <2>1, <2>2, <2>3, <2>4
<1>4. /\ PathOf[c.mutation.source] = PathOf[d.mutation.source]
      /\ c.name = d.name
      /\ ChangeOf[c.mutation] = ChangeOf[d.mutation]
      /\ c.id.location = d.id.location
  BY <1>fields
<1>5. c.mutation.source = d.mutation.source
  BY <1>3, <1>4 DEF PathsDiffer, Mutation
<1>6. SameEvidence(offers[j], offers[k]) /\ SameEvidence(offers[k], offers[j])
  BY <1>1, <1>2, <1>4, <1>5 DEF IsOffer, SameEvidence
<1>7. /\ c.id.location = IF Repeated(j) THEN c.mutation.range ELSE NoRange
      /\ d.id.location = IF Repeated(k) THEN d.mutation.range ELSE NoRange
  BY <1>fields
<1>8. c.mutation.range \in Ranges /\ d.mutation.range \in Ranges
  BY <1>3 DEF Mutation
<1>9. CASE Repeated(j)
  <2>1. c.mutation.range = d.mutation.range
    BY <1>4, <1>7, <1>8, <1>9, NoRangeAssumption
  <2>2. c.mutation.text = d.mutation.text
    BY <1>3, <1>4, <1>5, <2>1, EvidenceAssumption
  <2>3. c.mutation = d.mutation
    BY <1>3, <1>5, <2>1, <2>2 DEF Mutation
  <2>4. QED
    BY <2>3 DEF Inv, MutationsDiffer
<1>10. CASE ~Repeated(j)
  <2>1. ~Repeated(k)
    BY <1>4, <1>7, <1>8, <1>10, NoRangeAssumption
  <2>2. ~(j < k) /\ ~(k < j)
    BY <1>6, <1>10, <2>1 DEF Repeated
  <2>3. c.at = d.at
    BY <1>1, <1>2, <2>2 DEF IsOffer
  <2>4. QED
    BY <2>3, CandidateAt DEF Inv
<1>11. QED
  BY <1>9, <1>10

\* The variables of the plan keep their types.
THEOREM TypeCorrect == Spec => []TypeOK
<1>1. Inv => TypeOK
  BY DEF Inv
<1>2. QED
  BY <1>1, Invariance, PTL

\* A filter, a Git selection or a blacklist renames no other mutant.
THEOREM FiltersKeepIds == Spec => []FiltersRenameNothing
BY Invariance, OffersName, PTL

\* When the sources of a run have different names, each ID names one mutant.
THEOREM IdsAreUnique == PathsDiffer => (Spec => []IdNamesOneMutant)
<1>1. PathsDiffer /\ Inv => IdNamesOneMutant
  BY IdsDiffer
<1> SUFFICES ASSUME PathsDiffer PROVE Spec => []IdNamesOneMutant
  OBVIOUS
<1>2. Inv => IdNamesOneMutant
  BY <1>1
<1>3. QED
  BY <1>2, Invariance, PTL

\* The plan holds exactly the first offer of each mutation nothing excludes.
THEOREM PlansAreExact == Spec => []PlanIsExact
<1>1. Inv => PlanIsExact
  BY DEF Inv
<1>2. QED
  BY <1>1, Invariance, PTL
=============================================================================
