--------------------- MODULE BedtimeAndEarnedTimeProofs ---------------------
(***************************************************************************)
(* What holds of Providers for every offer a parent may make, and of       *)
(* Bedtime for every curfew, every clock and every set of warnings.        *)
(***************************************************************************)
EXTENDS Providers, Bedtime, FiniteSetTheorems, WellFoundedInduction, TLAPS


Entries == [date : Dates, minutes : Option(Nat), met : BOOLEAN]
Ledgers == [Sources -> Option(Entries)]
Extras == [date : Option(Dates), minutes : Nat]
Configs == [registry : [Sources -> Option(Offers)], earned : Ledgers, extra : Extras]

-----------------------------------------------------------------------------
(* Options, and the best of a few numbers. *)

LEMMA TheOne == ASSUME NEW x PROVE The({x}) = x
  BY DEF The

\* A finite set of integers has a greatest: of the sets without one, none is the least.
LEMMA GreatestOfFinite ==
    ASSUME NEW S, S \subseteq Int, IsFiniteSet(S), S # {}
    PROVE  Max(S) \in S /\ \A y \in S : Max(S) >= y
<1> DEFINE Bad == {T \in FiniteSubsetsOf(S) : T # {} /\ \A x \in T : \E y \in T : y > x}
<1>1. Bad = {}
  <2> SUFFICES ASSUME Bad # {} PROVE FALSE
    OBVIOUS
  <2>1. Bad \subseteq FiniteSubsetsOf(S)
    OBVIOUS
  <2>2. PICK T \in Bad : \A U \in Bad : <<U, T>> \notin StrictSubsetOrdering(S)
    BY <2>1, FS_StrictSubsetOrderingWellFounded, WFMin
  <2>3. PICK x \in T : TRUE
    OBVIOUS
  <2> DEFINE U == T \ {x}
  <2>4. U \in FiniteSubsetsOf(S) /\ <<U, T>> \in StrictSubsetOrdering(S)
    BY <2>3, FS_Subset DEF FiniteSubsetsOf, StrictSubsetOrdering
  <2>5. T \subseteq Int
    BY DEF FiniteSubsetsOf
  <2>6. U # {}
    BY <2>3, <2>5
  <2>7. PICK z \in U : \A y \in U : ~ (y > z)
    BY <2>2, <2>4, <2>6
  <2>8. PICK y \in T : y > z
    BY <2>7
  <2>9. y = x
    BY <2>7, <2>8
  <2>10. PICK w \in T : w > x
    BY <2>3
  <2>11. w \in U /\ w > z
    BY <2>5, <2>8, <2>9, <2>10, <2>7
  <2> QED BY <2>7, <2>11
<1>2. PICK x \in S : \A y \in S : ~ (y > x)
  BY <1>1 DEF FiniteSubsetsOf
<1>3. \A y \in S : x >= y
  BY <1>2
<1> QED BY <1>3 DEF Max

LEMMA LesserOfTwo ==
    ASSUME NEW a \in Nat, NEW b \in Nat
    PROVE  Min({a, b}) \in {a, b} /\ Min({a, b}) <= a /\ Min({a, b}) <= b
<1>1. \E x \in {a, b} : \A y \in {a, b} : x <= y
  <2>1. CASE a <= b BY <2>1
  <2>2. CASE b <= a BY <2>2
  <2> QED BY <2>1, <2>2
<1> QED BY <1>1 DEF Min

-----------------------------------------------------------------------------
(* What EarnedTime makes of a provider. *)

LEMMA OfferFields ==
    ASSUME NEW p \in Offers
    PROVE  /\ p.enabled \in BOOLEAN /\ p.minutes \in Nat
           /\ p.cap \in Option(Nat) /\ p.gate \in Option(Bars)
           /\ p.tiers \subseteq Rungs /\ IsFiniteSet(p.tiers)
<1>1. p \in Provider /\ IsFiniteSet(p.tiers)
      /\ (\A one, other \in p.cap : one = other) /\ (\A one, other \in p.gate : one = other)
  BY OffersAssumption
<1>2. p.cap \subseteq Nat /\ p.gate \subseteq Bars
  BY <1>1 DEF Provider
<1>3. p.cap \in Option(Nat)
  BY <1>1, <1>2 DEF Option
<1>4. p.gate \in Option(Bars)
  BY <1>1, <1>2 DEF Option
<1> QED BY <1>1, <1>3, <1>4 DEF Provider

\* The best of some rungs of a ladder is a number.
LEMMA BestRung ==
    ASSUME NEW p \in Offers, NEW T, T \subseteq p.tiers, T # {}
    PROVE  Max({t.reward : t \in T}) \in Nat
<1> DEFINE S == {t.reward : t \in T}
<1>1. IsFiniteSet(T)
  BY OfferFields, FS_Subset
<1>2. IsFiniteSet(S)
  <2> DEFINE f == [t \in T |-> t.reward]
  <2>1. f \in Surjection(T, S)
    BY DEF Surjection
  <2> HIDE DEF f, S
  <2> QED BY <1>1, <2>1, FS_Surjection
<1>3. S \subseteq Nat /\ S # {}
  BY OfferFields DEF Rungs
<1> QED BY <1>2, <1>3, GreatestOfFinite

LEMMA CeilingIsOption ==
    ASSUME NEW p \in Offers
    PROVE  CeilingMins(p) \in Option(Nat)
<1>1. CASE p.cap # {} \/ p.gate = {} \/ p.tiers = {}
  BY <1>1, OfferFields DEF CeilingMins
<1>2. CASE ~ (p.cap # {} \/ p.gate = {} \/ p.tiers = {})
  <2>1. Max({t.reward : t \in p.tiers}) \in Nat
    BY <1>2, BestRung
  <2> QED BY <1>2, <2>1 DEF CeilingMins, Option
<1> QED BY <1>1, <1>2

LEMMA RewardIsOption ==
    ASSUME NEW p \in Offers, NEW work
    PROVE  RewardFor(p, work) \in Option(Nat)
<1>1. CASE work = {}
  BY <1>1, OfferFields DEF RewardFor, Option
<1>2. CASE work # {} /\ p.tiers # {}
  <2> DEFINE T == {u \in p.tiers : MetBy({u}, work)}
             won == {t.reward : t \in T}
  <2>1. RewardFor(p, work) = IF won = {} THEN {} ELSE {Max(won)}
    BY <1>2 DEF RewardFor
  <2>2. won # {} => Max(won) \in Nat
    BY BestRung
  <2> HIDE DEF won
  <2> QED BY <2>1, <2>2 DEF Option
<1>3. CASE work # {} /\ p.tiers = {}
  <2>1. RewardFor(p, work) \in {{p.minutes}, {}}
    BY <1>3 DEF RewardFor
  <2> QED BY <2>1, OfferFields DEF Option
<1> QED BY <1>1, <1>2, <1>3

\* What is paid fits in what the ceiling has left, and without one nothing is paid twice.
LEMMA PaysWhatIsLeft ==
    ASSUME NEW ceiling \in Option(Nat), NEW spent \in Option(Option(Nat)),
           NEW reward \in Option(Nat), reward # {}
    PROVE  /\ Payable(ceiling, spent, reward) \in Option(Nat)
           /\ \A mins \in Payable(ceiling, spent, reward) :
                 IF ceiling = {} THEN spent = {}
                 ELSE \A most \in ceiling :
                        \/ spent = {} /\ mins <= most
                        \/ \E m \in Nat : spent = {{m}} /\ m + mins <= most
<1>1. PICK r \in Nat : reward = {r}
  BY DEF Option
<1>2. CASE ceiling = {}
  BY <1>2, <1>1 DEF Payable, Option
<1>3. ASSUME NEW c \in Nat, ceiling = {c}
      PROVE  /\ Payable({c}, spent, reward) \in Option(Nat)
             /\ \A mins \in Payable({c}, spent, reward) :
                   \/ spent = {} /\ mins <= c
                   \/ \E m \in Nat : spent = {{m}} /\ m + mins <= c
  <2>1. CASE spent = {}
    <3>1. Payable({c}, spent, reward) = {Min({c, r})}
      <4>1. The({c}) = c /\ The(reward) = r
        BY <1>1, TheOne
      <4> QED BY <2>1, <4>1 DEF Payable
    <3>2. Min({c, r}) \in Nat /\ Min({c, r}) <= c
      BY LesserOfTwo
    <3> QED BY <3>1, <3>2, <2>1 DEF Option
  <2>2. CASE spent = {{}}
    BY <2>2 DEF Payable, Option
  <2>3. ASSUME NEW m \in Nat, spent = {{m}}
        PROVE  /\ Payable({c}, spent, reward) \in Option(Nat)
               /\ \A mins \in Payable({c}, spent, reward) : m + mins <= c
    <3>1. The(The(spent)) = m /\ The({c}) = c /\ The(reward) = r
      BY <2>3, <1>1, TheOne
    <3>2. CASE m >= c
      <4>1. Payable({c}, spent, reward) = {}
        BY <2>3, <3>1, <3>2 DEF Payable
      <4> QED BY <4>1 DEF Option
    <3>3. CASE m < c
      <4>1. Payable({c}, spent, reward) = {Min({c - m, r})}
        <5>1. {c} # {} /\ spent # {} /\ spent # {{}} /\ ~ (m >= c)
          <6>1. {m} # {}
            OBVIOUS
          <6>2. {{m}} # {{}}
            BY <6>1
          <6> QED BY <2>3, <3>3, <6>2
        <5> QED BY <5>1, <3>1 DEF Payable
      <4>2. c - m \in Nat
        BY <3>3
      <4>3. Min({c - m, r}) \in Nat /\ Min({c - m, r}) <= c - m
        BY <4>2, LesserOfTwo
      <4> DEFINE x == Min({c - m, r})
      <4>4. x \in Nat /\ m + x <= c
        BY <4>3
      <4>5. Payable({c}, spent, reward) = {x}
        BY <4>1
      <4> HIDE DEF x
      <4> QED BY <4>4, <4>5 DEF Option
    <3> QED BY <3>2, <3>3
  <2>4. spent = {} \/ spent = {{}} \/ \E m \in Nat : spent = {{m}}
    BY DEF Option
  <2> QED BY <2>1, <2>2, <2>3, <2>4
<1>4. ceiling = {} \/ \E c \in Nat : ceiling = {c}
  BY DEF Option
<1> QED BY <1>2, <1>3, <1>4

-----------------------------------------------------------------------------
(* What EarnedTime makes of a ledger. *)

Holding(ledger) == {s \in Sources : ledger[s] # {}}

\* A ledger that holds no more sources than it may.
Bounded(ledger) == ledger \in Ledgers /\ Cardinality(Holding(ledger)) <= MaxEarned

\* An entry is of the day or it is not.
LEMMA TodayCases ==
    ASSUME NEW ledger \in Ledgers, NEW s \in Sources, NEW d
    PROVE  /\ Today(ledger[s], d) \in Option(Entries)
           /\ \A e \in Today(ledger[s], d) : e \in Entries /\ e.date = d
           /\ Today(ledger[s], d) = {} \/ \E e \in Entries : e.date = d /\ Today(ledger[s], d) = {e}
<1>1. ledger[s] \in Option(Entries)
  BY DEF Ledgers
<1>2. CASE ledger[s] = {}
  BY <1>2 DEF Today, Option
<1>3. ASSUME NEW e \in Entries, ledger[s] = {e}
      PROVE  Today(ledger[s], d) = IF e.date = d THEN {e} ELSE {}
  BY <1>3 DEF Today
<1> QED BY <1>1, <1>2, <1>3 DEF Option

LEMMA HoldingIsFinite ==
    ASSUME NEW ledger
    PROVE  IsFiniteSet(Holding(ledger)) /\ Cardinality(Holding(ledger)) \in Nat
           /\ Cardinality(Holding(ledger)) <= Cardinality(Sources) /\ Cardinality(Sources) \in Nat
  BY EarnedAssumption, FS_Subset, FS_CardinalityType DEF Holding

LEMMA PruningKeepsToday ==
    ASSUME NEW ledger, Bounded(ledger), NEW d
    PROVE  /\ Bounded(Pruned(ledger, d))
           /\ \A s \in Sources : Pruned(ledger, d)[s] = Today(ledger[s], d)
           /\ Counted(ledger, d) = Cardinality(Holding(Pruned(ledger, d)))
<1>1. \A s \in Sources : Pruned(ledger, d)[s] = Today(ledger[s], d)
  BY DEF Pruned
<1>2. Pruned(ledger, d) \in Ledgers
  BY <1>1, TodayCases DEF Pruned, Ledgers, Bounded
<1>3. Holding(Pruned(ledger, d)) \subseteq Holding(ledger)
  BY <1>1 DEF Holding, Today
<1>4. Cardinality(Holding(Pruned(ledger, d))) <= Cardinality(Holding(ledger))
  BY <1>3, HoldingIsFinite, FS_Subset
<1>5. Counted(ledger, d) = Cardinality(Holding(Pruned(ledger, d)))
  BY <1>1 DEF Counted, Holding
<1> QED BY <1>1, <1>2, <1>4, <1>5, HoldingIsFinite, EarnedAssumption DEF Bounded

\* One more source, where there is room for it or it is there already.
LEMMA OneMoreFits ==
    ASSUME NEW ledger, Bounded(ledger), NEW s \in Sources, NEW o \in Option(Entries),
           ledger[s] # {} \/ o = {} \/ Cardinality(Holding(ledger)) < MaxEarned
    PROVE  Bounded([ledger EXCEPT ![s] = o])
<1> DEFINE next == [ledger EXCEPT ![s] = o]
<1>1. next \in Ledgers /\ ledger \in Ledgers
  BY DEF Bounded, Ledgers
<1>2. \A x \in Sources : next[x] = IF x = s THEN o ELSE ledger[x]
  BY <1>1 DEF Ledgers
<1>3. CASE ledger[s] # {} \/ o = {}
  <2>1. Holding(next) \subseteq Holding(ledger)
    BY <1>2, <1>3 DEF Holding
  <2>2. Cardinality(Holding(next)) <= Cardinality(Holding(ledger))
    BY <2>1, HoldingIsFinite, FS_Subset
  <2>3. Cardinality(Holding(next)) \in Nat /\ Cardinality(Holding(ledger)) \in Nat
    BY HoldingIsFinite
  <2>4. Cardinality(Holding(ledger)) <= MaxEarned /\ MaxEarned \in Nat
    BY EarnedAssumption DEF Bounded
  <2>5. Cardinality(Holding(next)) <= MaxEarned
    <3> HIDE DEF next
    <3> QED BY <2>2, <2>3, <2>4
  <2> QED BY <1>1, <2>5 DEF Bounded
<1>4. CASE Cardinality(Holding(ledger)) < MaxEarned
  <2>1. Holding(next) \subseteq Holding(ledger) \union {s}
    BY <1>2 DEF Holding
  <2>2. IsFiniteSet(Holding(ledger) \union {s})
        /\ Cardinality(Holding(ledger) \union {s}) <= Cardinality(Holding(ledger)) + 1
    <3>1. IsFiniteSet(Holding(ledger)) /\ Cardinality(Holding(ledger)) \in Nat
      BY HoldingIsFinite
    <3> DEFINE H == Holding(ledger)
    <3> HIDE DEF H
    <3>2. IsFiniteSet(H \union {s}) /\ Cardinality(H \union {s}) <= Cardinality(H) + 1
      <4>1. IsFiniteSet(H) /\ Cardinality(H) \in Nat
        BY <3>1 DEF H
      <4> QED BY <4>1, FS_AddElement
    <3> QED BY <3>2 DEF H
  <2>3. Cardinality(Holding(next)) <= Cardinality(Holding(ledger) \union {s})
    BY <2>1, <2>2, FS_Subset
  <2>4. Cardinality(Holding(ledger) \union {s}) \in Nat
    BY <2>2, FS_CardinalityType
  <2>5. Cardinality(Holding(next)) \in Nat /\ Cardinality(Holding(ledger)) \in Nat
    BY HoldingIsFinite
  <2>6. Cardinality(Holding(next)) <= MaxEarned
    <3> HIDE DEF next
    <3> QED BY <1>4, <2>2, <2>3, <2>4, <2>5, EarnedAssumption
  <2> QED BY <1>1, <2>6 DEF Bounded
<1> QED BY <1>3, <1>4

\* What is noted of a bar that is met.
LEMMA NotingABar ==
    ASSUME NEW ledger, Bounded(ledger), NEW s \in Sources, NEW d \in Dates
    PROVE  LET noted == NoteBarMet(ledger, s, d)
               old == Today(ledger[s], d)
           IN  /\ Bounded(noted)
               /\ \A x \in Sources \ {s} : noted[x] = Today(ledger[x], d)
               /\ \A e \in noted[s] : e \in Entries /\ e.date = d /\ e.met
               /\ \A e \in old : noted[s] = {[e EXCEPT !.met = TRUE]}
               /\ old = {} => noted[s] \in {{}, {[date |-> d, minutes |-> {0}, met |-> TRUE]}}
               /\ noted[s] = {} => ~ (Counted(noted, d) < MaxEarned)
<1> DEFINE pruned == Pruned(ledger, d)
           old == Today(ledger[s], d)
           first == [date |-> d, minutes |-> {0}, met |-> TRUE]
           o == IF old # {} THEN {[e EXCEPT !.met = TRUE] : e \in old}
                ELSE IF Counted(ledger, d) < MaxEarned THEN {first} ELSE {}
<1>1. Bounded(pruned) /\ (\A x \in Sources : pruned[x] = Today(ledger[x], d))
      /\ Counted(ledger, d) = Cardinality(Holding(pruned))
  BY PruningKeepsToday
<1>2. pruned \in Ledgers /\ ledger \in Ledgers
  BY <1>1 DEF Bounded
<1>3. NoteBarMet(ledger, s, d) = [pruned EXCEPT ![s] = o]
  BY <1>1, <1>2 DEF NoteBarMet, Ledgers
<1>4. first \in Entries /\ first.date = d /\ first.met
  BY DEF Entries, Option
<1>5. \A e \in old : /\ o = {[e EXCEPT !.met = TRUE]} /\ [e EXCEPT !.met = TRUE] \in Entries
                     /\ [e EXCEPT !.met = TRUE].date = d /\ [e EXCEPT !.met = TRUE].met
  <2>1. \A e \in old : old = {e} /\ e \in Entries /\ e.date = d
    <3>1. old = {} \/ \E e \in Entries : e.date = d /\ old = {e}
      BY <1>2, TodayCases
    <3> HIDE DEF old
    <3> QED BY <3>1
  <2>2. \A e \in old : o = {[e EXCEPT !.met = TRUE]}
    <3> HIDE DEF old
    <3> QED BY <2>1
  <2> HIDE DEF o, old
  <2> QED BY <2>1, <2>2 DEF Entries
<1>6. o \in Option(Entries) /\ \A e \in o : e \in Entries /\ e.date = d /\ e.met
  <2>1. CASE old = {}
    <3>1. o \in {{}, {first}}
      BY <2>1
    <3> HIDE DEF o, first
    <3> QED BY <3>1, <1>4 DEF Option
  <2>2. CASE old # {}
    <3> PICK e \in old : TRUE
      BY <2>2
    <3>1. o = {[e EXCEPT !.met = TRUE]}
      BY <1>5
    <3> HIDE DEF o
    <3> QED BY <3>1, <1>5 DEF Option
  <2> QED BY <2>1, <2>2
<1>7. old = {} => o \in {{}, {first}}
  OBVIOUS
<1>8. pruned[s] # {} \/ o = {} \/ Cardinality(Holding(pruned)) < MaxEarned
  BY <1>1
<1>9. \A x \in Sources : [pruned EXCEPT ![s] = o][x] = IF x = s THEN o ELSE Today(ledger[x], d)
  BY <1>1, <1>2 DEF Ledgers
<1>11. ASSUME o = {} PROVE ~ (Counted([pruned EXCEPT ![s] = o], d) < MaxEarned)
  <2> DEFINE noted == [pruned EXCEPT ![s] = o]
  <2>1. old = {}
    BY <1>5, <1>11
  <2>2. ~ (Counted(ledger, d) < MaxEarned)
    BY <1>11, <2>1
  <2>3. \A x \in Sources : noted[x] = Today(ledger[x], d)
    BY <1>9, <1>11, <2>1
  <2> HIDE DEF noted, o, pruned
  <2>4. \A x \in Sources : Today(noted[x], d) # {} <=> Today(ledger[x], d) # {}
    BY <2>3 DEF Today
  <2>5. {x \in Sources : Today(noted[x], d) # {}} = {x \in Sources : Today(ledger[x], d) # {}}
    BY <2>4
  <2>6. Counted(noted, d) = Counted(ledger, d)
    BY <2>5 DEF Counted
  <2> QED BY <2>2, <2>6 DEF noted
<1> HIDE DEF pruned, o, old
<1>10. Bounded([pruned EXCEPT ![s] = o])
  BY <1>1, <1>6, <1>8, OneMoreFits
<1>12. [pruned EXCEPT ![s] = o][s] = o
  BY <1>2 DEF Ledgers
<1> QED BY <1>3, <1>5, <1>6, <1>7, <1>9, <1>10, <1>11, <1>12 DEF old

-----------------------------------------------------------------------------
(* What a report makes of a ledger. *)

Noted(p, ledger, s, d, work) == IF MetBy(p.gate, work) THEN NoteBarMet(ledger, s, d) ELSE ledger
Spent(entry, d) == {e.minutes : e \in Today(entry, d)}

LEMMA SpentIsOption ==
    ASSUME NEW ledger \in Ledgers, NEW s \in Sources, NEW d
    PROVE  /\ Spent(ledger[s], d) \in Option(Option(Nat))
           /\ Spent(ledger[s], d) = {} <=> Today(ledger[s], d) = {}
           /\ \A e \in Today(ledger[s], d) : Spent(ledger[s], d) = {e.minutes}
<1>1. Today(ledger[s], d) = {} \/ \E e \in Entries : e.date = d /\ Today(ledger[s], d) = {e}
  BY TodayCases
<1>2. CASE Today(ledger[s], d) = {}
  BY <1>2 DEF Spent, Option
<1>3. ASSUME NEW e \in Entries, Today(ledger[s], d) = {e}
      PROVE  Spent(ledger[s], d) = {e.minutes} /\ e.minutes \in Option(Nat)
  BY <1>3 DEF Spent, Entries
<1>4. ASSUME NEW e \in Entries, Today(ledger[s], d) = {e}
      PROVE  /\ Spent(ledger[s], d) \in Option(Option(Nat))
             /\ Spent(ledger[s], d) # {}
             /\ \A x \in Today(ledger[s], d) : Spent(ledger[s], d) = {x.minutes}
  BY <1>3, <1>4 DEF Option
<1> QED BY <1>1, <1>2, <1>4

\* All that noting a bar may change, of the entry of the source and of those of other days.
Notes(p, ledger, noted, s, d, work) ==
    LET old == Today(ledger[s], d)
        new == Today(noted[s], d)
    IN  /\ Bounded(noted)
        /\ \A x \in Sources \ {s} : Today(noted[x], d) = Today(ledger[x], d)
        /\ \A x \in Sources : \A e \in noted[x] : e.date = d \/ e \in ledger[x]
        /\ \A e \in old : \E n \in Entries : new = {n} /\ n.minutes = e.minutes /\ (e.met => n.met)
        /\ old = {} => \A n \in new : n.minutes = {0}
        /\ MetBy(p.gate, work) => \A n \in new : n.met
        /\ MetBy(p.gate, work) /\ new = {} => ~ (Counted(noted, d) < MaxEarned)
        /\ ~ MetBy(p.gate, work) => noted = ledger

LEMMA NotedLedger ==
    ASSUME NEW ledger, Bounded(ledger), NEW s \in Sources, NEW d \in Dates, NEW p, NEW work
    PROVE  Notes(p, ledger, Noted(p, ledger, s, d, work), s, d, work)
<1> DEFINE noted == Noted(p, ledger, s, d, work)
           old == Today(ledger[s], d)
           new == Today(noted[s], d)
<1>0. ledger \in Ledgers
  BY DEF Bounded
<1>1. CASE ~ MetBy(p.gate, work)
  <2>1. noted = ledger
    BY <1>1 DEF Noted
  <2>2. old = {} \/ \E e \in Entries : e.date = d /\ old = {e}
    BY <1>0, TodayCases
  <2>3. \A e \in old : \E n \in Entries : old = {n} /\ n.minutes = e.minutes /\ (e.met => n.met)
    <3> HIDE DEF old
    <3> QED BY <2>2
  <2>4. new = old
    BY <2>1
  <2> HIDE DEF noted, old, new
  <2>5. /\ \A x \in Sources \ {s} : Today(noted[x], d) = Today(ledger[x], d)
        /\ \A x \in Sources : \A e \in noted[x] : e.date = d \/ e \in ledger[x]
    BY <2>1
  <2>6. /\ \A e \in old : \E n \in Entries : new = {n} /\ n.minutes = e.minutes /\ (e.met => n.met)
        /\ old = {} => \A n \in new : n.minutes = {0}
    BY <2>3, <2>4
  <2> QED BY <1>1, <2>1, <2>5, <2>6 DEF Notes, noted, old, new
<1>2. CASE MetBy(p.gate, work)
  <2> DEFINE first == [date |-> d, minutes |-> {0}, met |-> TRUE]
  <2>1. noted = NoteBarMet(ledger, s, d)
    BY <1>2 DEF Noted
  <2> HIDE DEF noted
  <2>2. /\ Bounded(noted)
        /\ \A x \in Sources \ {s} : noted[x] = Today(ledger[x], d)
        /\ \A e \in noted[s] : e \in Entries /\ e.date = d /\ e.met
        /\ \A e \in old : noted[s] = {[e EXCEPT !.met = TRUE]}
        /\ old = {} => noted[s] \in {{}, {first}}
        /\ noted[s] = {} => ~ (Counted(noted, d) < MaxEarned)
    BY <2>1, NotingABar
  <2>3. \A x \in Sources \ {s} : Today(noted[x], d) = Today(ledger[x], d)
    BY <2>2 DEF Today
  <2>4. \A x \in Sources : \A e \in noted[x] : e.date = d \/ e \in ledger[x]
    BY <2>2 DEF Today
  <2>5. new = noted[s]
    BY <2>2 DEF Today
  <2>6. \A e \in old : \E n \in Entries : new = {n} /\ n.minutes = e.minutes /\ (e.met => n.met)
    <3> TAKE e \in old
    <3> DEFINE n == [e EXCEPT !.met = TRUE]
    <3>1. e \in Entries
      BY <1>0, TodayCases
    <3>2. n \in Entries /\ n.minutes = e.minutes /\ n.met
      BY <3>1 DEF Entries
    <3>3. new = {n}
      BY <2>2, <2>5
    <3> HIDE DEF n, new
    <3> QED BY <3>2, <3>3
  <2>7. old = {} => \A n \in new : n.minutes = {0}
    BY <2>2, <2>5
  <2>8. \A n \in new : n.met
    BY <2>2, <2>5
  <2>9. new = {} => ~ (Counted(noted, d) < MaxEarned)
    BY <2>2, <2>5
  <2> QED BY <1>2, <2>2, <2>3, <2>4, <2>6, <2>7, <2>8, <2>9 DEF Notes, noted
<1> QED BY <1>1, <1>2

\* That p is what s is set to, and that it is on.
On(cfg, s, p) == cfg.registry[s] = {p} /\ p.enabled

\* A report changes nothing but the note of a bar, or it pays what is payable.
LEMMA EarnCases ==
    ASSUME NEW cfg \in Configs, NEW s \in Sources, NEW d \in Dates, NEW work,
           NEW p \in Offers, On(cfg, s, p)
    PROVE  LET v == Earn(cfg, s, d, work)
               noted == Noted(p, cfg.earned, s, d, work)
               spent == Spent(cfg.earned[s], d)
               reward == RewardFor(p, work)
               payable == Payable(CeilingMins(p), spent, reward)
               met == \E e \in Today(noted[s], d) : e.met
           IN  \/ /\ v.earned = noted /\ v.extra = cfg.extra /\ v.minutes = 0
                  /\ v.outcome = "error" => spent = {} /\ Counted(noted, d) >= MaxEarned
               \/ \E mins \in Nat :
                     /\ reward # {} /\ payable = {mins} /\ v.minutes = mins /\ v.outcome = "granted"
                     /\ v.earned = [Pruned(noted, d) EXCEPT ![s] = {Entry(p, d, spent, mins, met)}]
                     /\ v.extra = Pool(p, cfg.extra, d, mins)
                     /\ spent # {} \/ ~ (Counted(noted, d) >= MaxEarned)
<1> DEFINE v == Earn(cfg, s, d, work)
           noted == Noted(p, cfg.earned, s, d, work)
           spent == Spent(cfg.earned[s], d)
           reward == RewardFor(p, work)
           payable == Payable(CeilingMins(p), spent, reward)
           met == \E e \in Today(noted[s], d) : e.met
           refused(outcome) == Verdict(noted, cfg.extra, outcome, 0)
<1>1. The(cfg.registry[s]) = p /\ ~ (\A q \in cfg.registry[s] : ~ q.enabled)
  BY TheOne DEF On
<1>2. v = IF reward = {} THEN refused("below_threshold")
          ELSE IF payable = {} THEN refused("paid_already")
          ELSE IF spent = {} /\ Counted(noted, d) >= MaxEarned THEN refused("error")
          ELSE Verdict([Pruned(noted, d) EXCEPT ![s] = {Entry(p, d, spent, The(payable), met)}],
                       Pool(p, cfg.extra, d, The(payable)), "granted", The(payable))
  BY <1>1 DEF Earn, Noted, Spent
<1>3. reward \in Option(Nat)
  BY RewardIsOption
<1>4. reward # {} => payable \in Option(Nat)
  BY <1>3, PaysWhatIsLeft, CeilingIsOption, SpentIsOption DEF Configs
<1>5. reward # {} /\ payable # {} => \E mins \in Nat : payable = {mins} /\ The(payable) = mins
  <2> HIDE DEF payable, reward
  <2> QED BY <1>4, TheOne DEF Option
<1> HIDE DEF v, noted, spent, reward, payable, met
<1>6. CASE reward # {} /\ payable # {} /\ ~ (spent = {} /\ Counted(noted, d) >= MaxEarned)
  <2>1. PICK mins \in Nat : payable = {mins} /\ The(payable) = mins
    BY <1>5, <1>6
  <2>2. v = Verdict([Pruned(noted, d) EXCEPT ![s] = {Entry(p, d, spent, mins, met)}],
                    Pool(p, cfg.extra, d, mins), "granted", mins)
    BY <1>2, <1>6, <2>1
  <2>3. /\ reward # {} /\ payable = {mins} /\ v.minutes = mins /\ v.outcome = "granted"
        /\ v.earned = [Pruned(noted, d) EXCEPT ![s] = {Entry(p, d, spent, mins, met)}]
        /\ v.extra = Pool(p, cfg.extra, d, mins)
        /\ spent # {} \/ ~ (Counted(noted, d) >= MaxEarned)
    <3> DEFINE ledger == [Pruned(noted, d) EXCEPT ![s] = {Entry(p, d, spent, mins, met)}]
               pool == Pool(p, cfg.extra, d, mins)
    <3>1. v = Verdict(ledger, pool, "granted", mins)
      BY <2>2
    <3> HIDE DEF ledger, pool
    <3>2. v.earned = ledger /\ v.extra = pool /\ v.minutes = mins /\ v.outcome = "granted"
      BY <3>1 DEF Verdict
    <3> QED BY <1>6, <2>1, <3>2 DEF ledger, pool
  <2>4. \E most \in Nat : most = mins
    OBVIOUS
  <2> QED BY <2>3, <2>4 DEF v, noted, spent, reward, payable, met
<1>7. CASE ~ (reward # {} /\ payable # {} /\ ~ (spent = {} /\ Counted(noted, d) >= MaxEarned))
  <2>1. \/ v = refused("below_threshold") \/ v = refused("paid_already")
        \/ v = refused("error") /\ spent = {} /\ Counted(noted, d) >= MaxEarned
    BY <1>2, <1>7
  <2>2. /\ v.earned = noted /\ v.extra = cfg.extra /\ v.minutes = 0
        /\ v.outcome = "error" => spent = {} /\ Counted(noted, d) >= MaxEarned
    BY <2>1 DEF Verdict
  <2> QED BY <2>2 DEF v, noted, spent
<1> QED BY <1>6, <1>7

\* That k minutes are what the entry of the day says was paid, as far as it says so.
Pays(entry, d, k) == /\ Today(entry, d) = {} => k = 0
                     /\ \A e \in Today(entry, d) : \A m \in e.minutes : k = m

\* The ledger a report leaves, and what it pays.
Follows(p, ledger, v, s, d) ==
    LET old == Today(ledger[s], d)
        new == Today(v.earned[s], d)
    IN  /\ Bounded(v.earned) /\ v.minutes \in Nat
        /\ \A x \in Sources \ {s} : Today(v.earned[x], d) = Today(ledger[x], d)
        /\ \A x \in Sources : \A e \in v.earned[x] : e.date = d \/ e \in ledger[x]
        /\ \A k \in Nat : Pays(ledger[s], d, k) =>
              /\ Pays(v.earned[s], d, k + v.minutes)
              /\ v.minutes > 0 => IF CeilingMins(p) = {} THEN k = 0
                                  ELSE \A most \in CeilingMins(p) : k + v.minutes <= most
        /\ v.minutes > 0 => new # {} /\ \A e \in old : e.minutes # {}
        /\ v.minutes > 0 /\ CeilingMins(p) = {} => old = {}

LEMMA EarnedLedger ==
    ASSUME NEW cfg \in Configs, Bounded(cfg.earned), NEW s \in Sources, NEW d \in Dates, NEW work,
           NEW p \in Offers, On(cfg, s, p)
    PROVE  Follows(p, cfg.earned, Earn(cfg, s, d, work), s, d)
<1> DEFINE v == Earn(cfg, s, d, work)
           ledger == cfg.earned
           noted == Noted(p, ledger, s, d, work)
           spent == Spent(ledger[s], d)
           reward == RewardFor(p, work)
           payable == Payable(CeilingMins(p), spent, reward)
           met == \E e \in Today(noted[s], d) : e.met
           old == Today(ledger[s], d)
           new == Today(v.earned[s], d)
           Goal == /\ Bounded(v.earned) /\ v.minutes \in Nat
                   /\ \A x \in Sources \ {s} : Today(v.earned[x], d) = Today(ledger[x], d)
                   /\ \A x \in Sources : \A e \in v.earned[x] : e.date = d \/ e \in ledger[x]
                   /\ \A k \in Nat : Pays(ledger[s], d, k) =>
                         /\ Pays(v.earned[s], d, k + v.minutes)
                         /\ v.minutes > 0 => IF CeilingMins(p) = {} THEN k = 0
                                             ELSE \A most \in CeilingMins(p) : k + v.minutes <= most
                   /\ v.minutes > 0 => new # {} /\ \A e \in old : e.minutes # {}
                   /\ v.minutes > 0 /\ CeilingMins(p) = {} => old = {}
<1> SUFFICES Goal
  BY DEF Follows
<1>0. Bounded(ledger) /\ ledger \in Ledgers
  BY DEF Configs
<1> HIDE DEF ledger
<1>1. /\ Bounded(noted)
      /\ \A x \in Sources \ {s} : Today(noted[x], d) = Today(ledger[x], d)
      /\ \A x \in Sources : \A e \in noted[x] : e.date = d \/ e \in ledger[x]
      /\ \A e \in old : \E n \in Entries : Today(noted[s], d) = {n} /\ n.minutes = e.minutes
                                           /\ (e.met => n.met)
      /\ old = {} => \A n \in Today(noted[s], d) : n.minutes = {0}
  <2>1. Notes(p, ledger, noted, s, d, work)
    BY <1>0, NotedLedger
  <2> HIDE DEF noted
  <2> QED BY <2>1 DEF Notes
<1>2. /\ spent \in Option(Option(Nat)) /\ (spent = {} <=> old = {})
      /\ \A e \in old : spent = {e.minutes}
  BY <1>0, SpentIsOption
<1>3. old = {} \/ \E e \in Entries : old = {e}
  <2>1. \/ Today(ledger[s], d) = {}
        \/ \E e \in Entries : e.date = d /\ Today(ledger[s], d) = {e}
    BY <1>0, TodayCases
  <2> HIDE DEF old
  <2> QED BY <2>1 DEF old
<1>4. CASE v.earned = noted /\ v.minutes = 0
  <2>1. \A k \in Nat : Pays(ledger[s], d, k) => Pays(noted[s], d, k + 0)
    <3> SUFFICES ASSUME NEW k \in Nat, Pays(ledger[s], d, k) PROVE Pays(noted[s], d, k)
      OBVIOUS
    <3>1. old = {} => k = 0
      BY DEF Pays
    <3>2. \A e \in old : \A m \in e.minutes : k = m
      BY DEF Pays
    <3>3. CASE old = {}
      <4>1. \A n \in Today(noted[s], d) : \A m \in n.minutes : k = m
        BY <1>1, <3>1, <3>3
      <4> QED BY <3>1, <3>3, <4>1 DEF Pays
    <3>4. ASSUME NEW e \in old PROVE Pays(noted[s], d, k)
      <4>1. PICK n \in Entries : Today(noted[s], d) = {n} /\ n.minutes = e.minutes
        BY <1>1, <3>4
      <4> QED BY <3>2, <3>4, <4>1 DEF Pays
    <3> QED BY <3>3, <3>4
  <2> HIDE DEF v, noted, ledger, old, new
  <2> QED BY <1>1, <1>4, <2>1
<1>5. ASSUME NEW mins \in Nat,
             reward # {}, payable = {mins}, v.minutes = mins,
             v.earned = [Pruned(noted, d) EXCEPT ![s] = {Entry(p, d, spent, mins, met)}],
             spent # {} \/ ~ (Counted(noted, d) >= MaxEarned)
      PROVE  Goal
  <2> DEFINE entry == Entry(p, d, spent, mins, met)
             pruned == Pruned(noted, d)
             before == IF spent \in {{}, {{}}} THEN 0 ELSE The(The(spent))
  <2>1. IF CeilingMins(p) = {} THEN spent = {}
        ELSE \A most \in CeilingMins(p) :
                \/ spent = {} /\ mins <= most
                \/ \E m \in Nat : spent = {{m}} /\ m + mins <= most
    <3>1. reward \in Option(Nat) /\ CeilingMins(p) \in Option(Nat)
      BY RewardIsOption, CeilingIsOption
    <3>2. \A mins1 \in payable :
             IF CeilingMins(p) = {} THEN spent = {}
             ELSE \A most \in CeilingMins(p) :
                     \/ spent = {} /\ mins1 <= most
                     \/ \E m \in Nat : spent = {{m}} /\ m + mins1 <= most
      <4>1. spent \in Option(Option(Nat)) /\ reward # {}
        BY <1>2, <1>5
      <4> HIDE DEF spent, reward
      <4> QED BY <3>1, <4>1, PaysWhatIsLeft
    <3> HIDE DEF payable, spent
    <3> QED BY <1>5, <3>2
  <2>2. spent = {} \/ \E m \in Nat : spent = {{m}}
    BY <2>1
  <2>3. before \in Nat /\ (spent = {} => before = 0) /\ \A m \in Nat : spent = {{m}} => before = m
    <3> HIDE DEF spent
    <3>1. CASE spent = {}
      BY <3>1
    <3>2. ASSUME NEW m \in Nat, spent = {{m}}
          PROVE  before = m
      <4>1. {m} # {} /\ {{m}} # {}
        OBVIOUS
      <4>2. {{m}} # {{}}
        BY <4>1
      <4>3. before = The(The(spent))
        BY <3>2, <4>1, <4>2
      <4> QED BY <3>2, <4>3, TheOne
    <3>3. CASE spent = {}
      <4>1. \A m \in Nat : {{m}} # {}
        OBVIOUS
      <4> QED BY <3>3, <4>1
    <3> QED BY <2>2, <3>1, <3>2, <3>3
  <2>4. entry.date = d /\ entry.met = met /\ entry.minutes \in {{}, {mins + before}}
    BY DEF Entry
  <2>5. entry \in Entries
    <3>1. mins + before \in Nat
      BY <2>3
    <3>2. met \in BOOLEAN
      OBVIOUS
    <3> DEFINE sum == mins + before
    <3> HIDE DEF before, spent, met, sum
    <3>3. {sum} \in Option(Nat) /\ {} \in Option(Nat)
      BY <3>1 DEF Option, sum
    <3>4. entry = [date |-> d, met |-> met,
                   minutes |-> IF CeilingMins(p) = {} /\ p.gate = {} THEN {} ELSE {sum}]
      BY DEF Entry, before, sum
    <3> QED BY <3>2, <3>3, <3>4 DEF Entries
  <2>6. Bounded(pruned) /\ (\A x \in Sources : pruned[x] = Today(noted[x], d))
        /\ Counted(noted, d) = Cardinality(Holding(pruned))
    BY <1>1, PruningKeepsToday
  <2>7. pruned[s] # {} \/ Cardinality(Holding(pruned)) < MaxEarned
    <3>1. CASE spent # {}
      <4>1. PICK e \in old : TRUE
        BY <1>2, <3>1
      <4>2. pruned[s] # {}
        BY <1>1, <2>6
      <4> QED BY <4>2
    <3>2. CASE ~ (Counted(noted, d) >= MaxEarned)
      <4>1. Cardinality(Holding(pruned)) \in Nat /\ MaxEarned \in Nat
        BY HoldingIsFinite, EarnedAssumption
      <4> QED BY <2>6, <3>2, <4>1
    <3> QED BY <1>5, <3>1, <3>2
  <2>8. {entry} \in Option(Entries)
    BY <2>5 DEF Option
  <2>9. pruned \in Ledgers
    BY <2>6 DEF Bounded
  <2> HIDE DEF entry, pruned
  <2>10. v.earned = [pruned EXCEPT ![s] = {entry}]
    BY <1>5 DEF entry, pruned
  <2>11. Bounded(v.earned)
    <3>1. Bounded([pruned EXCEPT ![s] = {entry}])
      BY <2>6, <2>7, <2>8, OneMoreFits
    <3> QED BY <2>10, <3>1
  <2>12. \A x \in Sources : v.earned[x] = IF x = s THEN {entry} ELSE Today(noted[x], d)
    BY <2>6, <2>9, <2>10 DEF Ledgers
  <2> HIDE DEF v, noted
  <2>13. \A x \in Sources \ {s} : Today(v.earned[x], d) = Today(ledger[x], d)
    <3>1. \A x \in Sources \ {s} : Today(v.earned[x], d) = Today(noted[x], d)
      BY <2>12 DEF Today
    <3> QED BY <1>1, <3>1
  <2>14. \A x \in Sources : \A e \in v.earned[x] : e.date = d \/ e \in ledger[x]
    BY <2>4, <2>12 DEF Today
  <2>15. new = {entry}
    BY <2>4, <2>12 DEF Today
  <2>16. \A k \in Nat : Pays(ledger[s], d, k) => k = before
    <3> SUFFICES ASSUME NEW k \in Nat, Pays(ledger[s], d, k) PROVE k = before
      OBVIOUS
    <3>1. CASE spent = {}
      BY <1>2, <2>3, <3>1 DEF Pays
    <3>2. ASSUME NEW m \in Nat, spent = {{m}} PROVE k = before
      <4>1. PICK e \in old : e.minutes = {m}
        <5>1. old # {}
          <6>1. {{m}} # {}
            OBVIOUS
          <6> QED BY <1>2, <3>2, <6>1
        <5>2. PICK e \in old : TRUE
          BY <5>1
        <5>3. {e.minutes} = {{m}}
          BY <1>2, <3>2
        <5> QED BY <5>3
      <4> QED BY <2>3, <3>2, <4>1 DEF Pays
    <3> QED BY <2>2, <3>1, <3>2
  <2>17. \A k \in Nat : k = before => Pays(v.earned[s], d, k + mins)
    <3>1. \A m \in entry.minutes : m = mins + before
      BY <2>4
    <3> HIDE DEF before
    <3>2. \A k \in Nat : k = before => k + mins = mins + before
      OBVIOUS
    <3> QED BY <2>15, <3>1, <3>2 DEF Pays
  <2>18. mins > 0 => IF CeilingMins(p) = {} THEN before = 0
                     ELSE \A most \in CeilingMins(p) : before + mins <= most
    <3>1. CeilingMins(p) \subseteq Nat
      BY CeilingIsOption DEF Option
    <3> HIDE DEF before, spent
    <3> QED BY <2>1, <2>3, <3>1
  <2>19. \A e \in old : e.minutes # {}
    <3> TAKE e \in old
    <3>1. spent = {e.minutes}
      BY <1>2
    <3>2. PICK m \in Nat : spent = {{m}}
      BY <2>2, <3>1
    <3> QED BY <3>1, <3>2
  <2>20. CeilingMins(p) = {} => old = {}
    BY <1>2, <2>1
  <2>21. \A k \in Nat : Pays(ledger[s], d, k) =>
            /\ Pays(v.earned[s], d, k + v.minutes)
            /\ v.minutes > 0 => IF CeilingMins(p) = {} THEN k = 0
                                ELSE \A most \in CeilingMins(p) : k + v.minutes <= most
    <3>1. v.minutes = mins
      BY <1>5
    <3> HIDE DEF before, ledger, v
    <3> QED BY <2>16, <2>17, <2>18, <3>1
  <2>22. v.minutes \in Nat /\ new # {}
    BY <1>5, <2>15
  <2> HIDE DEF new, old, ledger
  <2> QED BY <2>11, <2>13, <2>14, <2>19, <2>20, <2>21, <2>22
<1>6. \/ v.earned = noted /\ v.minutes = 0
      \/ \E mins \in Nat :
            /\ reward # {} /\ payable = {mins} /\ v.minutes = mins
            /\ v.earned = [Pruned(noted, d) EXCEPT ![s] = {Entry(p, d, spent, mins, met)}]
            /\ spent # {} \/ ~ (Counted(noted, d) >= MaxEarned)
  <2>1. \/ /\ v.earned = noted /\ v.extra = cfg.extra /\ v.minutes = 0
           /\ v.outcome = "error" => spent = {} /\ Counted(noted, d) >= MaxEarned
        \/ \E mins \in Nat :
              /\ reward # {} /\ payable = {mins} /\ v.minutes = mins /\ v.outcome = "granted"
              /\ v.earned = [Pruned(noted, d) EXCEPT ![s] = {Entry(p, d, spent, mins, met)}]
              /\ v.extra = Pool(p, cfg.extra, d, mins)
              /\ spent # {} \/ ~ (Counted(noted, d) >= MaxEarned)
    BY EarnCases DEF ledger
  <2> HIDE DEF v, noted, spent, reward, payable, met
  <2> QED BY <2>1
<1> HIDE DEF v, noted, spent, reward, payable, met, Goal
<1> QED BY <1>4, <1>5, <1>6

\* What a report makes of whether the bar is met.
Meets(p, ledger, v, s, d, work) ==
    LET old == Today(ledger[s], d)
        new == Today(v.earned[s], d)
    IN  /\ (\E e \in old : e.met) => \E n \in new : n.met
        /\ MetBy(p.gate, work) => \A n \in new : n.met
        /\ \A n \in new : n.met => MetBy(p.gate, work) \/ \E e \in old : e.met
        /\ old # {} => new # {}

LEMMA EarnedMet ==
    ASSUME NEW cfg \in Configs, Bounded(cfg.earned), NEW s \in Sources, NEW d \in Dates, NEW work,
           NEW p \in Offers, On(cfg, s, p)
    PROVE  Meets(p, cfg.earned, Earn(cfg, s, d, work), s, d, work)
<1> DEFINE v == Earn(cfg, s, d, work)
           ledger == cfg.earned
           noted == Noted(p, ledger, s, d, work)
           old == Today(ledger[s], d)
           marked == Today(noted[s], d)
           met == \E e \in marked : e.met
<1>1. Bounded(ledger) /\ ledger \in Ledgers
  BY DEF Configs
<1> HIDE DEF ledger
<1>3. Notes(p, ledger, noted, s, d, work)
  BY <1>1, NotedLedger
<1> HIDE DEF noted
<1>4. /\ (\E e \in old : e.met) => \E n \in marked : n.met
      /\ MetBy(p.gate, work) => \A n \in marked : n.met
      /\ \A n \in marked : n.met => MetBy(p.gate, work) \/ \E e \in old : e.met
      /\ old # {} => marked # {}
  <2>1. \A e \in old : \E n \in Entries : marked = {n} /\ (e.met => n.met)
    BY <1>3 DEF Notes
  <2>2. ~ MetBy(p.gate, work) => marked = old
    BY <1>3 DEF Notes
  <2>3. MetBy(p.gate, work) => \A n \in marked : n.met
    BY <1>3 DEF Notes
  <2> HIDE DEF old, marked
  <2> QED BY <2>1, <2>2, <2>3
<1>5. \/ v.earned = noted
      \/ \E mins \in Nat :
            /\ v.earned = [Pruned(noted, d) EXCEPT ![s] = {Entry(p, d, Spent(ledger[s], d), mins, met)}]
            /\ Spent(ledger[s], d) # {} \/ ~ (Counted(noted, d) >= MaxEarned)
  <2> DEFINE reward == RewardFor(p, work)
             payable == Payable(CeilingMins(p), Spent(ledger[s], d), reward)
  <2>1. \/ /\ v.earned = noted /\ v.extra = cfg.extra /\ v.minutes = 0
           /\ v.outcome = "error" => Spent(ledger[s], d) = {} /\ Counted(noted, d) >= MaxEarned
        \/ \E mins \in Nat :
              /\ reward # {} /\ payable = {mins} /\ v.minutes = mins /\ v.outcome = "granted"
              /\ v.earned = [Pruned(noted, d) EXCEPT
                               ![s] = {Entry(p, d, Spent(ledger[s], d), mins, met)}]
              /\ v.extra = Pool(p, cfg.extra, d, mins)
              /\ Spent(ledger[s], d) # {} \/ ~ (Counted(noted, d) >= MaxEarned)
    BY EarnCases DEF ledger, noted
  <2> HIDE DEF v, noted, reward, payable, met
  <2> QED BY <2>1
<1>6. CASE v.earned = noted
  BY <1>4, <1>6 DEF Meets, ledger
<1>7. ASSUME NEW mins \in Nat,
             v.earned = [Pruned(noted, d) EXCEPT ![s] = {Entry(p, d, Spent(ledger[s], d), mins, met)}],
             Spent(ledger[s], d) # {} \/ ~ (Counted(noted, d) >= MaxEarned)
      PROVE  Meets(p, ledger, v, s, d, work)
  <2> DEFINE entry == Entry(p, d, Spent(ledger[s], d), mins, met)
             new == Today(v.earned[s], d)
  <2>1. entry.date = d /\ entry.met = met
    BY DEF Entry
  <2> HIDE DEF entry, met
  <2>2. v.earned[s] = {entry}
    BY <1>7 DEF Pruned, entry
  <2>3. new = {entry}
    BY <2>1, <2>2 DEF Today
  <2>4. /\ (\E e \in old : e.met) => met
        /\ met => MetBy(p.gate, work) \/ \E e \in old : e.met
    BY <1>4 DEF met
  <2>7. ASSUME MetBy(p.gate, work) PROVE marked # {}
    <3>1. CASE Spent(ledger[s], d) # {}
      <4>1. old # {}
        BY <1>1, <3>1, SpentIsOption
      <4> QED BY <1>4, <4>1
    <3>2. CASE ~ (Counted(noted, d) >= MaxEarned)
      <4>1. Counted(noted, d) < MaxEarned
        <5>1. Counted(noted, d) \in Nat /\ MaxEarned \in Nat
          BY EarnedAssumption, FS_Subset, FS_CardinalityType DEF Counted
        <5> QED BY <3>2, <5>1
      <4> QED BY <1>3, <2>7, <4>1 DEF Notes
    <3> QED BY <1>7, <3>1, <3>2
  <2>5. MetBy(p.gate, work) => met
    BY <1>4, <2>7 DEF met
  <2> HIDE DEF v, old, new
  <2>6. /\ (\E e \in old : e.met) => \E n \in new : n.met
        /\ MetBy(p.gate, work) => \A n \in new : n.met
        /\ \A n \in new : n.met => MetBy(p.gate, work) \/ \E e \in old : e.met
        /\ old # {} => new # {}
    BY <2>1, <2>3, <2>4, <2>5
  <2> QED BY <2>6 DEF Meets, old, new
<1> QED BY <1>5, <1>6, <1>7 DEF ledger

\* One source too many is one more than there are places.
LEMMA EarnErrors ==
    ASSUME NEW cfg \in Configs, NEW s \in Sources, NEW d \in Dates, NEW work,
           NEW p \in Offers, On(cfg, s, p), Earn(cfg, s, d, work).outcome = "error"
    PROVE  ~ (Cardinality(Sources) < MaxEarned) /\ Earn(cfg, s, d, work).minutes = 0
<1> DEFINE v == Earn(cfg, s, d, work)
           noted == Noted(p, cfg.earned, s, d, work)
<1>1. \/ v.outcome = "error" /\ Counted(noted, d) >= MaxEarned /\ v.minutes = 0
      \/ v.outcome = "granted"
  BY EarnCases
<1>2. Counted(noted, d) >= MaxEarned /\ v.minutes = 0
  <2>1. "granted" # "error"
    OBVIOUS
  <2> HIDE DEF noted
  <2> QED BY <1>1, <2>1
<1>3. Counted(noted, d) \in Nat /\ Cardinality(Sources) \in Nat /\ Counted(noted, d) <= Cardinality(Sources)
  <2>1. IsFiniteSet(Sources)
    BY EarnedAssumption
  <2> HIDE DEF noted
  <2> QED BY <2>1, FS_Subset, FS_CardinalityType DEF Counted
<1> HIDE DEF noted
<1> QED BY <1>2, <1>3, EarnedAssumption

LEMMA EarnedExtra ==
    ASSUME NEW cfg \in Configs, NEW s \in Sources, NEW d \in Dates, NEW work,
           NEW p \in Offers, On(cfg, s, p)
    PROVE  Earn(cfg, s, d, work).extra \in Extras
<1> DEFINE v == Earn(cfg, s, d, work)
<1>1. v.extra = cfg.extra \/ \E mins \in Nat : v.extra = Pool(p, cfg.extra, d, mins)
  <2> DEFINE noted == Noted(p, cfg.earned, s, d, work)
             spent == Spent(cfg.earned[s], d)
             reward == RewardFor(p, work)
             payable == Payable(CeilingMins(p), spent, reward)
             met == \E e \in Today(noted[s], d) : e.met
  <2>1. \/ /\ v.earned = noted /\ v.extra = cfg.extra /\ v.minutes = 0
           /\ v.outcome = "error" => spent = {} /\ Counted(noted, d) >= MaxEarned
        \/ \E mins \in Nat :
              /\ reward # {} /\ payable = {mins} /\ v.minutes = mins /\ v.outcome = "granted"
              /\ v.earned = [Pruned(noted, d) EXCEPT ![s] = {Entry(p, d, spent, mins, met)}]
              /\ v.extra = Pool(p, cfg.extra, d, mins)
              /\ spent # {} \/ ~ (Counted(noted, d) >= MaxEarned)
    BY EarnCases
  <2> HIDE DEF v, noted, spent, reward, payable, met
  <2> QED BY <2>1
<1>2. cfg.extra \in Extras
  BY DEF Configs
<1>3. ForDay(cfg.extra, d) \in Nat
  BY <1>2 DEF ForDay, Extras
<1>4. {d} \in Option(Dates)
  BY DEF Option
<1>5. \A mins \in Nat : Add(cfg.extra, d, mins) \in Extras
  BY <1>3, <1>4 DEF Add, Extras
<1>6. \A mins \in Nat : Pool(p, cfg.extra, d, mins) \in Extras
  BY <1>2, <1>5 DEF Pool
<1> HIDE DEF v
<1>7. ASSUME v.extra = cfg.extra PROVE v.extra \in Extras
  BY <1>2, <1>7
<1>8. ASSUME NEW mins \in Nat, v.extra = Pool(p, cfg.extra, d, mins)
      PROVE  v.extra \in Extras
  BY <1>6, <1>8
<1>9. v.extra \in Extras
  BY <1>1, <1>7, <1>8
<1> QED BY <1>9 DEF v

-----------------------------------------------------------------------------
(* Types. *)

Installed(reg) == Cardinality({s \in Sources : reg[s] # {}}) <= MaxInstalled

Typed == /\ TypeOK /\ Bounded(earned)
         /\ stored \in Configs /\ Bounded(stored.earned) /\ Installed(stored.registry)

LEMMA CfgTyped ==
    ASSUME Typed
    PROVE  Cfg \in Configs /\ Bounded(Cfg.earned) /\ Cfg.registry = registry /\ Cfg.extra = extra
           /\ Cfg.earned = earned /\ earned \in Ledgers /\ stored.earned \in Ledgers
           /\ stored.registry \in [Sources -> Option(Offers)] /\ stored.extra \in Extras
  BY DEF Typed, TypeOK, Cfg, Configs, Extras, Bounded

\* The half of TypeOK that is about the ledger is that it is bounded.
LEMMA BoundedIsTyped ==
    ASSUME NEW ledger, Bounded(ledger)
    PROVE  /\ \A s \in Sources : \A e \in ledger[s] :
                 e.date \in Dates /\ e.minutes \subseteq Nat /\ e.met \in BOOLEAN
           /\ Cardinality({s \in Sources : ledger[s] # {}}) <= MaxEarned
<1>1. \A s \in Sources : \A e \in ledger[s] : e \in Entries
  BY DEF Bounded, Ledgers, Option
<1>2. \A e \in Entries : e.date \in Dates /\ e.minutes \subseteq Nat /\ e.met \in BOOLEAN
  BY DEF Entries, Option
<1> QED BY <1>1, <1>2 DEF Bounded, Holding

\* What is judged is a report about a source that is on.
LEMMA JudgedIsOn ==
    ASSUME Typed, NEW r \in Reporters, NEW j \in report[r]
    PROVE  /\ j \in Judged
           /\ j.source \in Sources /\ j.day \in Dates /\ j.done \in Option(Reports)
           /\ Enabled(j.source) => \E p \in Offers : On(Cfg, j.source, p)
           /\ \A p \in Offers : On(Cfg, j.source, p) => registry[j.source] = {p}
<1>1. report[r] \in Option(Judged)
  BY DEF Typed, TypeOK
<1>2. j \in Judged
  BY <1>1 DEF Option
<1>3. j.source \in Sources /\ j.day \in Dates /\ j.done \in Option(Reports)
  BY <1>2 DEF Judged
<1>4. registry[j.source] \in Option(Offers)
  BY <1>3 DEF Typed, TypeOK
<1>5. registry[j.source] = {} \/ \E p \in Offers : registry[j.source] = {p}
  BY <1>4 DEF Option
<1>6. Cfg.registry = registry
  BY DEF Cfg
<1>7. Enabled(j.source) => \E p \in Offers : On(Cfg, j.source, p)
  BY <1>5, <1>6 DEF Enabled, On
<1> QED BY <1>2, <1>3, <1>6, <1>7 DEF On

\* What a judged report leaves.
LEMMA JudgedTyped ==
    ASSUME Typed, NEW r \in Reporters, NEW j \in report[r], Enabled(j.source)
    PROVE  LET v == Earn(Cfg, j.source, j.day, j.done)
           IN  Bounded(v.earned) /\ v.extra \in Extras /\ v.minutes \in Nat
               /\ [registry |-> registry, earned |-> v.earned, extra |-> v.extra] \in Configs
<1> DEFINE v == Earn(Cfg, j.source, j.day, j.done)
<1>1. PICK p \in Offers : On(Cfg, j.source, p)
  BY JudgedIsOn
<1>2. j.source \in Sources /\ j.day \in Dates /\ Cfg \in Configs /\ Bounded(Cfg.earned)
  BY JudgedIsOn, CfgTyped
<1>3. Follows(p, Cfg.earned, v, j.source, j.day)
  BY <1>1, <1>2, EarnedLedger
<1>4. v.extra \in Extras
  BY <1>1, <1>2, EarnedExtra
<1> HIDE DEF v
<1>5. Bounded(v.earned) /\ v.minutes \in Nat
  BY <1>3 DEF Follows
<1>6. registry \in [Sources -> Option(Offers)] /\ v.earned \in Ledgers
  BY <1>5 DEF Typed, TypeOK, Bounded
<1> QED BY <1>4, <1>5, <1>6 DEF v, Configs

\* A step that leaves the ledgers and the pool alone, and the registry or what is stored.
LEMMA TypedStep ==
    ASSUME Typed, Next
    PROVE  Typed'
<1>0. /\ today \in Dates /\ registry \in [Sources -> Option(Offers)] /\ Installed(registry)
      /\ extra \in Extras /\ report \in [Reporters -> Option(Judged)] /\ due \subseteq Sources
      /\ paid \in [Sources \X Dates -> Nat] /\ proven \subseteq Sources \X Dates
      /\ opened \in [Sources \X Dates -> Nat]
      /\ Bounded(earned) /\ stored \in Configs /\ Bounded(stored.earned) /\ Installed(stored.registry)
  BY DEF Typed, TypeOK, Extras, Installed
<1> DEFINE Conf == /\ registry' \in [Sources -> Option(Offers)] /\ Installed(registry')
                   /\ extra' \in Extras /\ Bounded(earned')
                   /\ stored' \in Configs /\ Bounded(stored'.earned) /\ Installed(stored'.registry)
           Rest == /\ today' \in Dates /\ report' \in [Reporters -> Option(Judged)]
                   /\ due' \subseteq Sources
           Past == /\ paid' \in [Sources \X Dates -> Nat] /\ proven' \subseteq Sources \X Dates
                   /\ opened' \in [Sources \X Dates -> Nat]
<1>1. ASSUME Conf, Rest, Past PROVE Typed'
  <2>1. /\ \A s \in Sources : \A e \in earned'[s] :
              e.date \in Dates /\ e.minutes \subseteq Nat /\ e.met \in BOOLEAN
        /\ Cardinality({s \in Sources : earned'[s] # {}}) <= MaxEarned
    BY <1>1, BoundedIsTyped
  <2>2. TypeOK'
    BY <1>1, <2>1 DEF TypeOK, Extras, Installed
  <2> QED BY <1>1, <2>2 DEF Typed, Installed
<1>2. UNCHANGED configVars => Conf
  BY <1>0 DEF configVars
<1>3. UNCHANGED pastVars => Past
  BY <1>0 DEF pastVars
<1>4. ASSUME NEW c \in Reporters, NEW j \in Judged,
             report' = [report EXCEPT ![c] = {j}]
      PROVE  report' \in [Reporters -> Option(Judged)]
  <2>1. {j} \in Option(Judged)
    BY DEF Option
  <2> QED BY <1>0, <1>4, <2>1
<1>5. ASSUME NEW c \in Reporters,
             report' = [report EXCEPT ![c] = {}]
      PROVE  report' \in [Reporters -> Option(Judged)]
  <2>1. {} \in Option(Judged)
    BY DEF Option
  <2> QED BY <1>0, <1>5, <2>1
<1>6. ASSUME NEW c \in Pushers, NEW s \in Sources, NEW done \in Option(Reports), Push(c, s, done)
      PROVE  Typed'
  <2>1. [source |-> s, done |-> done, day |-> today] \in Judged
    BY <1>0 DEF Judged
  <2>2. report' \in [Reporters -> Option(Judged)]
    BY <1>4, <1>6, <2>1 DEF Push, Reporters
  <2>3. Rest
    BY <1>0, <1>6, <2>2 DEF Push
  <2> HIDE DEF Rest, Conf, Past
  <2> QED BY <1>1, <1>2, <1>3, <1>6, <2>3 DEF Push
<1>7. ASSUME SchedulerTicks PROVE Typed'
  <2>1. Rest
    BY <1>0, <1>7 DEF SchedulerTicks
  <2> HIDE DEF Rest, Conf, Past
  <2> QED BY <1>1, <1>2, <1>3, <1>7, <2>1 DEF SchedulerTicks
<1>8. ASSUME NEW s \in Sources, ProbeFails(s) PROVE Typed'
  <2>1. Rest
    BY <1>0, <1>8 DEF ProbeFails
  <2> HIDE DEF Rest, Conf, Past
  <2> QED BY <1>1, <1>2, <1>3, <1>8, <2>1 DEF ProbeFails
<1>9. ASSUME NEW s \in Sources, NEW done \in Reports, ProbeAnswers(s, done) PROVE Typed'
  <2>1. {done} \in Option(Reports)
    BY DEF Option
  <2>2. [source |-> s, done |-> {done}, day |-> today] \in Judged
    BY <1>0, <2>1 DEF Judged
  <2>3. Probe \in Reporters
    BY DEF Reporters
  <2>4. report' \in [Reporters -> Option(Judged)]
    BY <1>4, <1>9, <2>2, <2>3 DEF ProbeAnswers
  <2>5. Rest
    BY <1>0, <1>9, <2>4 DEF ProbeAnswers
  <2> HIDE DEF Rest, Conf, Past
  <2> QED BY <1>1, <1>2, <1>3, <1>9, <2>5 DEF ProbeAnswers
<1>10. ASSUME NEW s \in Sources, Deletes(s) PROVE Typed'
  <2>1. registry' \in [Sources -> Option(Offers)] /\ Installed(registry')
    <3>1. {} \in Option(Offers)
      BY DEF Option
    <3>2. {x \in Sources : registry'[x] # {}} \subseteq {x \in Sources : registry[x] # {}}
      BY <1>0, <1>10 DEF Deletes
    <3>3. Installed(registry')
      <4> DEFINE H == {x \in Sources : registry[x] # {}}
                 After == {x \in Sources : registry'[x] # {}}
      <4>1. IsFiniteSet(H) /\ IsFiniteSet(After) /\ Cardinality(H) \in Nat /\ Cardinality(After) \in Nat
        BY EarnedAssumption, FS_Subset, FS_CardinalityType
      <4>2. Cardinality(After) <= Cardinality(H)
        <5> HIDE DEF H, After
        <5> QED BY <3>2, <4>1, FS_Subset DEF H, After
      <4>3. Cardinality(H) <= MaxInstalled
        BY <1>0 DEF Installed
      <4>4. Cardinality(After) <= MaxInstalled
        <5> HIDE DEF H, After
        <5> QED BY <4>1, <4>2, <4>3, EarnedAssumption
      <4> QED BY <4>4 DEF Installed
    <3> QED BY <1>0, <1>10, <3>1, <3>3 DEF Deletes
  <2>2. /\ Rest /\ UNCHANGED pastVars /\ UNCHANGED <<earned, extra>>
        /\ stored' = [Cfg EXCEPT !.registry = registry']
    BY <1>0, <1>10 DEF Deletes
  <2>3. Conf
    <3>1. stored' = [registry |-> registry', earned |-> earned, extra |-> extra]
      BY <2>2 DEF Cfg
    <3>2. earned \in Ledgers
      BY <1>0 DEF Bounded
    <3>3. stored' \in Configs
      BY <1>0, <2>1, <3>1, <3>2 DEF Configs
    <3>4. stored'.earned = earned /\ stored'.registry = registry'
      BY <3>1
    <3> QED BY <1>0, <2>1, <2>2, <3>3, <3>4
  <2> HIDE DEF Rest, Conf, Past
  <2> QED BY <1>1, <1>3, <2>2, <2>3
<1>11. ASSUME NEW s \in Sources, NEW p \in Offers, Configures(s, p) PROVE Typed'
  <2>1. registry' \in [Sources -> Option(Offers)] /\ Installed(registry')
    <3>1. {p} \in Option(Offers)
      BY DEF Option
    <3>2. \A x \in Sources : registry'[x] = IF x = s THEN {p} ELSE registry[x]
      BY <1>0, <1>11 DEF Configures
    <3>3. Installed(registry')
      <4> DEFINE H == {x \in Sources : registry[x] # {}}
                 After == {x \in Sources : registry'[x] # {}}
      <4>1. IsFiniteSet(H) /\ IsFiniteSet(After) /\ Cardinality(H) \in Nat /\ Cardinality(After) \in Nat
        BY EarnedAssumption, FS_Subset, FS_CardinalityType
      <4>2. CASE registry[s] # {}
        <5>1. After \subseteq H
          BY <3>2, <4>2
        <5>2. Cardinality(After) <= Cardinality(H)
          <6> HIDE DEF H, After
          <6> QED BY <4>1, <5>1, FS_Subset
        <5> QED BY <1>0, <4>1, <5>2, EarnedAssumption DEF Installed
      <4>3. CASE Cardinality(H) < MaxInstalled
        <5>1. After \subseteq H \union {s}
          BY <3>2
        <5>2. Cardinality(After) <= MaxInstalled
          <6> HIDE DEF H, After
          <6>1. IsFiniteSet(H \union {s}) /\ Cardinality(H \union {s}) <= Cardinality(H) + 1
            <7>1. IsFiniteSet(H) /\ Cardinality(H) \in Nat
              BY <4>1
            <7>2. IsFiniteSet(H \union {s})
              BY <7>1, FS_AddElement
            <7>3. Cardinality(H \union {s}) = IF s \in H THEN Cardinality(H) ELSE Cardinality(H) + 1
              BY <7>1, FS_AddElement
            <7> QED BY <7>1, <7>2, <7>3
          <6>2. Cardinality(After) <= Cardinality(H \union {s}) /\ Cardinality(H \union {s}) \in Nat
            BY <5>1, <6>1, FS_Subset, FS_CardinalityType
          <6> QED BY <4>1, <4>3, <6>1, <6>2, EarnedAssumption
        <5> QED BY <5>2 DEF Installed
      <4> QED BY <1>11, <4>2, <4>3 DEF Configures
    <3> QED BY <1>0, <1>11, <3>1, <3>3 DEF Configures
  <2>2. /\ Rest /\ UNCHANGED pastVars /\ UNCHANGED <<earned, extra>>
        /\ stored' = [Cfg EXCEPT !.registry = registry']
    BY <1>0, <1>11 DEF Configures
  <2>3. Conf
    <3>1. stored' = [registry |-> registry', earned |-> earned, extra |-> extra]
      BY <2>2 DEF Cfg
    <3>2. earned \in Ledgers
      BY <1>0 DEF Bounded
    <3>3. stored' \in Configs
      BY <1>0, <2>1, <3>1, <3>2 DEF Configs
    <3>4. stored'.earned = earned /\ stored'.registry = registry'
      BY <3>1
    <3> QED BY <1>0, <2>1, <2>2, <3>3, <3>4
  <2> HIDE DEF Rest, Conf, Past
  <2> QED BY <1>1, <1>3, <2>2, <2>3
<1>12. ASSUME NEW r \in Reporters, Judges(r) PROVE Typed'
  <2>1. Ends(r)
    BY <1>12 DEF Judges, Rejected, Accepted, Unsaved
  <2>2. report' \in [Reporters -> Option(Judged)]
    BY <1>5, <2>1 DEF Ends
  <2>3. Rest
    BY <1>0, <2>1, <2>2 DEF Ends
  <2>4. CASE Rejected(r)
    <3>1. Bounded(earned')
      <4>1. PICK j \in report[r] :
               IF Enabled(j.source)
               THEN LET v == Earn(Cfg, j.source, j.day, j.done)
                    IN  v.outcome = "error" /\ earned' = v.earned
               ELSE UNCHANGED earned
        BY <2>4 DEF Rejected
      <4>2. CASE Enabled(j.source)
        BY <4>1, <4>2, JudgedTyped
      <4>3. CASE ~ Enabled(j.source)
        BY <1>0, <4>1, <4>3
      <4> QED BY <4>2, <4>3
    <3>2. Conf /\ UNCHANGED pastVars
      BY <1>0, <2>1, <2>4, <3>1 DEF Rejected, Ends
    <3> HIDE DEF Rest, Conf, Past
    <3> QED BY <1>1, <1>3, <2>3, <3>2
  <2>5. CASE Unsaved(r)
    <3>1. Conf /\ UNCHANGED pastVars
      BY <1>0, <2>1, <2>5 DEF Unsaved, Ends
    <3> HIDE DEF Rest, Conf, Past
    <3> QED BY <1>1, <1>3, <2>3, <3>1
  <2>6. CASE Accepted(r)
    <3> DEFINE Outcome(j) == Earn(Cfg, j.source, j.day, j.done)
               After(j) == [registry |-> registry, earned |-> Outcome(j).earned, extra |-> Outcome(j).extra]
               Gained(j) == IF Opens(Cfg, After(j), j.source, j.day) THEN 1 ELSE 0
    <3>1. PICK j \in report[r] :
             /\ Enabled(j.source)
             /\ earned' = Outcome(j).earned /\ extra' = Outcome(j).extra
             /\ stored' = IF After(j) = Cfg THEN stored ELSE After(j)
             /\ paid' = [paid EXCEPT ![<<j.source, j.day>>] = @ + Outcome(j).minutes]
             /\ proven' = proven \union
                    {x \in {<<j.source, j.day>>} : \E p \in registry[j.source] :
                        MetBy(p.gate, j.done) /\ Today(Outcome(j).earned[j.source], j.day) # {}}
             /\ opened' = [opened EXCEPT ![<<j.source, j.day>>] = @ + Gained(j)]
      BY <2>6 DEF Accepted
    <3>2. /\ Bounded(Outcome(j).earned) /\ Outcome(j).extra \in Extras /\ Outcome(j).minutes \in Nat
          /\ After(j) \in Configs
      BY <3>1, JudgedTyped
    <3>3. <<j.source, j.day>> \in Sources \X Dates
      BY JudgedIsOn
    <3>4. Gained(j) \in Nat
      OBVIOUS
    <3>5. After(j).earned = Outcome(j).earned /\ After(j).registry = registry
      OBVIOUS
    <3> HIDE DEF Outcome, After, Gained
    <3>6. Conf
      BY <1>0, <2>1, <3>1, <3>2, <3>5 DEF Ends
    <3>7. Past
      <4>1. paid' \in [Sources \X Dates -> Nat]
        BY <1>0, <3>1, <3>2, <3>3
      <4>2. opened' \in [Sources \X Dates -> Nat]
        BY <1>0, <3>1, <3>3, <3>4
      <4>3. proven' \subseteq Sources \X Dates
        BY <1>0, <3>1, <3>3
      <4> QED BY <4>1, <4>2, <4>3
    <3> HIDE DEF Rest, Conf, Past
    <3> QED BY <1>1, <2>3, <3>6, <3>7
  <2> QED BY <1>12, <2>4, <2>5, <2>6 DEF Judges
<1>13. ASSUME Midnight PROVE Typed'
  <2>1. Rest
    BY <1>0, <1>13 DEF Midnight
  <2>2. Past
    BY <1>0, <1>13 DEF Midnight, Forgets, pastVars
  <2> HIDE DEF Rest, Conf, Past
  <2> QED BY <1>1, <1>2, <1>13, <2>1, <2>2 DEF Midnight
<1>14. ASSUME Restart PROVE Typed'
  <2>1. {} \in Option(Judged)
    BY DEF Option
  <2>2. Rest
    BY <1>0, <1>14, <2>1 DEF Restart
  <2>3. Conf
    BY <1>0, <1>14, CfgTyped DEF Restart
  <2> HIDE DEF Rest, Conf, Past
  <2> QED BY <1>1, <1>3, <1>14, <2>2, <2>3 DEF Restart
<1> QED BY <1>6, <1>7, <1>8, <1>9, <1>10, <1>11, <1>12, <1>13, <1>14 DEF Next

LEMMA TypedStart == Init => Typed
<1> SUFFICES ASSUME Init PROVE Typed
  OBVIOUS
<1> DEFINE none == [s \in Sources |-> {}]
<1>1. none \in Ledgers /\ none \in [Sources -> Option(Offers)]
  BY DEF Ledgers, Option
<1>2. {s \in Sources : none[s] # {}} = {}
  OBVIOUS
<1>3. Cardinality({}) = 0
  BY FS_EmptySet
<1>4. Bounded(none) /\ Installed(none)
  <2>1. 0 <= MaxEarned /\ 0 <= MaxInstalled
    BY EarnedAssumption
  <2>2. Cardinality(Holding(none)) = 0 /\ Cardinality({s \in Sources : none[s] # {}}) = 0
    BY <1>2, <1>3 DEF Holding
  <2> HIDE DEF none
  <2> QED BY <1>1, <2>1, <2>2 DEF Bounded, Installed
<1>5. NoGrant \in Extras
  BY DEF NoGrant, Extras, Option
<1>6. registry = none /\ earned = none /\ extra = NoGrant /\ stored = Cfg
  BY DEF Init
<1> HIDE DEF none
<1>7. stored = [registry |-> none, earned |-> none, extra |-> NoGrant]
  BY <1>6 DEF Cfg
<1>8. stored \in Configs
  BY <1>1, <1>5, <1>7 DEF Configs
<1>9. stored.earned = none /\ stored.registry = none
  BY <1>7
<1>10. /\ \A s \in Sources : \A e \in earned[s] :
            e.date \in Dates /\ e.minutes \subseteq Nat /\ e.met \in BOOLEAN
       /\ Cardinality({s \in Sources : earned[s] # {}}) <= MaxEarned
  BY <1>4, <1>6, BoundedIsTyped
<1>11. today \in Dates /\ due \subseteq Sources /\ proven \subseteq Sources \X Dates
       /\ report \in [Reporters -> Option(Judged)]
       /\ paid \in [Sources \X Dates -> Nat] /\ opened \in [Sources \X Dates -> Nat]
  BY CalendarAssumption DEF Init, Option
<1>12. TypeOK
  BY <1>1, <1>4, <1>5, <1>6, <1>10, <1>11 DEF TypeOK, Extras, Installed
<1> QED BY <1>4, <1>6, <1>8, <1>9, <1>12 DEF Typed

(* Whatever the parent offers, however many report and whatever day it      *)
(* becomes, no source beyond the places there are is in the ledger, and what *)
(* the scheduler, the pushes and the file hold stays well formed.            *)
THEOREM TypeCorrect == Spec => [](TypeOK /\ Typed)
<1>1. Init => Typed
  BY TypedStart
<1>2. Typed /\ [Next]_vars => Typed'
  <2> SUFFICES ASSUME Typed, [Next]_vars PROVE Typed'
    OBVIOUS
  <2>1. CASE Next
    BY <2>1, TypedStep
  <2>2. CASE UNCHANGED vars
    BY <2>2 DEF Typed, TypeOK, vars, configVars, pastVars, Bounded, Installed
  <2> QED BY <2>1, <2>2
<1>3. Typed => TypeOK
  BY DEF Typed
<1> QED BY <1>1, <1>2, <1>3, PTL DEF Spec

-----------------------------------------------------------------------------
(* The day, when nothing that is still to be judged is of another day. *)

ReportsAreOfToday == \A r \in Reporters : \A j \in report[r] : j.day = today

\* Nothing is entered ahead of time.
NothingAhead(ledger) == \A s \in Sources : \A e \in ledger[s] : e.date <= today

\* The ledger says what was paid.
PaidSoFar(ledger) == \A s \in Sources : Pays(ledger[s], today, paid[<<s, today>>])

DayInvariant == /\ Typed /\ ReportsAreOfToday
                /\ NothingAhead(earned) /\ NothingAhead(stored.earned)
                /\ PaidSoFar(earned) /\ PaidSoFar(stored.earned)

\* What a judged report of today makes of the day.
LEMMA JudgedToday ==
    ASSUME DayInvariant, NEW r \in Reporters, NEW j \in report[r], NEW p \in Offers, On(Cfg, j.source, p)
    PROVE  LET v == Earn(Cfg, j.source, today, j.done)
           IN  /\ j.day = today /\ j.source \in Sources /\ today \in Dates
               /\ Bounded(v.earned) /\ v.minutes \in Nat
               /\ NothingAhead(v.earned)
               /\ \A s \in Sources \ {j.source} : Pays(v.earned[s], today, paid[<<s, today>>])
               /\ Pays(v.earned[j.source], today, paid[<<j.source, today>>] + v.minutes)
               /\ v.minutes > 0 => IF CeilingMins(p) = {} THEN paid[<<j.source, today>>] = 0
                                   ELSE \A most \in CeilingMins(p) :
                                           paid[<<j.source, today>>] + v.minutes <= most
               /\ v.earned = earned => v.minutes = 0
<1> DEFINE v == Earn(Cfg, j.source, today, j.done)
           s == j.source
           k == paid[<<s, today>>]
<1>1. j.day = today /\ s \in Sources /\ today \in Dates /\ Cfg \in Configs /\ Bounded(Cfg.earned)
      /\ Cfg.earned = earned /\ Typed
  BY JudgedIsOn, CfgTyped DEF DayInvariant, ReportsAreOfToday
<1>2. Follows(p, earned, v, s, today)
  BY <1>1, EarnedLedger
<1>3. k \in Nat
  BY <1>1 DEF Typed, TypeOK
<1>4. Pays(earned[s], today, k)
  BY <1>1 DEF DayInvariant, PaidSoFar
<1> HIDE DEF v, s
<1>5. /\ Bounded(v.earned) /\ v.minutes \in Nat
      /\ \A x \in Sources \ {s} : Today(v.earned[x], today) = Today(earned[x], today)
      /\ \A x \in Sources : \A e \in v.earned[x] : e.date = today \/ e \in earned[x]
      /\ Pays(v.earned[s], today, k + v.minutes)
      /\ v.minutes > 0 => IF CeilingMins(p) = {} THEN k = 0
                          ELSE \A most \in CeilingMins(p) : k + v.minutes <= most
  <2> HIDE DEF k
  <2> QED BY <1>2, <1>3, <1>4 DEF Follows, k
<1>6. NothingAhead(v.earned)
  <2>1. NothingAhead(earned) /\ today <= today
    BY <1>1, CalendarAssumption DEF DayInvariant
  <2> QED BY <1>5, <2>1 DEF NothingAhead
<1>7. \A x \in Sources \ {s} : Pays(v.earned[x], today, paid[<<x, today>>])
  <2>1. \A x \in Sources \ {s} : Pays(earned[x], today, paid[<<x, today>>])
    BY DEF DayInvariant, PaidSoFar
  <2> QED BY <1>5, <2>1 DEF Pays
<1>8. ASSUME v.earned = earned PROVE v.minutes = 0
  <2> SUFFICES ASSUME v.minutes > 0 PROVE FALSE
    BY <1>5
  <2> DEFINE old == Today(earned[s], today)
  <2>1. Today(v.earned[s], today) # {} /\ \A e \in old : e.minutes # {}
    BY <1>2 DEF Follows
  <2>2. PICK e \in old : e.minutes # {}
    BY <1>8, <2>1
  <2>3. PICK m \in e.minutes : TRUE
    BY <2>2
  <2>4. k = m
    BY <1>4, <2>3 DEF Pays
  <2>5. k + v.minutes = m
    BY <1>5, <1>8, <2>3 DEF Pays
  <2> HIDE DEF k
  <2> QED BY <1>3, <1>5, <2>4, <2>5 DEF k
<1> QED BY <1>1, <1>5, <1>6, <1>7, <1>8 DEF v, s

LEMMA DayStep ==
    ASSUME ~ Straddles, DayInvariant, Next
    PROVE  DayInvariant'
<1>1. Typed'
  BY TypedStep DEF DayInvariant
<1>2. today \in Nat /\ paid \in [Sources \X Dates -> Nat] /\ report \in [Reporters -> Option(Judged)]
      /\ today \in Dates
  BY CalendarAssumption DEF DayInvariant, Typed, TypeOK
<1>3. NothingAhead(earned) /\ NothingAhead(stored.earned)
      /\ PaidSoFar(earned) /\ PaidSoFar(stored.earned) /\ ReportsAreOfToday
  BY DEF DayInvariant
<1> DEFINE Kept == /\ NothingAhead(earned)' /\ NothingAhead(stored.earned)'
                   /\ PaidSoFar(earned)' /\ PaidSoFar(stored.earned)'
<1>4. ASSUME UNCHANGED <<today, earned, paid>>, stored'.earned \in {stored.earned, earned}
      PROVE  Kept
  BY <1>3, <1>4 DEF NothingAhead, PaidSoFar, Pays
<1>5. ASSUME NEW c \in Reporters, NEW j \in Judged, j.day = today, UNCHANGED today,
             report' = [report EXCEPT ![c] = {j}]
      PROVE  ReportsAreOfToday'
  BY <1>2, <1>3, <1>5 DEF ReportsAreOfToday
<1>6. ASSUME NEW c \in Pushers, NEW s \in Sources, NEW done \in Option(Reports), Push(c, s, done)
      PROVE  DayInvariant'
  <2> DEFINE j == [source |-> s, done |-> done, day |-> today]
  <2>1. j \in Judged /\ j.day = today
    BY <1>2 DEF Judged
  <2>2. c \in Reporters /\ UNCHANGED today /\ report' = [report EXCEPT ![c] = {j}]
    BY <1>6 DEF Push, Reporters
  <2> HIDE DEF j
  <2>3. ReportsAreOfToday'
    BY <1>5, <2>1, <2>2
  <2>4. Kept
    BY <1>4, <1>6 DEF Push, configVars, pastVars
  <2> QED BY <1>1, <2>3, <2>4 DEF DayInvariant
<1>7. ASSUME SchedulerTicks \/ (\E s \in Sources : ProbeFails(s))
      PROVE  DayInvariant'
  <2>1. UNCHANGED <<today, configVars, report, pastVars>>
    BY <1>7 DEF SchedulerTicks, ProbeFails
  <2>2. ReportsAreOfToday'
    BY <1>3, <2>1 DEF ReportsAreOfToday
  <2>3. Kept
    BY <1>4, <2>1 DEF configVars, pastVars
  <2> QED BY <1>1, <2>2, <2>3 DEF DayInvariant
<1>8. ASSUME NEW s \in Sources, NEW done \in Reports, ProbeAnswers(s, done)
      PROVE  DayInvariant'
  <2> DEFINE j == [source |-> s, done |-> {done}, day |-> today]
  <2>1. j \in Judged /\ j.day = today
    BY <1>2 DEF Judged, Option
  <2>2. Probe \in Reporters /\ UNCHANGED today /\ report' = [report EXCEPT ![Probe] = {j}]
    BY <1>8 DEF ProbeAnswers, Reporters
  <2> HIDE DEF j
  <2>3. ReportsAreOfToday'
    BY <1>5, <2>1, <2>2
  <2>4. Kept
    BY <1>4, <1>8 DEF ProbeAnswers, configVars, pastVars
  <2> QED BY <1>1, <2>3, <2>4 DEF DayInvariant
<1>9. ASSUME NEW s \in Sources, Deletes(s) \/ \E p \in Offers : Configures(s, p)
      PROVE  DayInvariant'
  <2>1. /\ UNCHANGED <<today, earned, extra, report, pastVars>>
        /\ stored' = [Cfg EXCEPT !.registry = registry']
    BY <1>9 DEF Deletes, Configures
  <2>2. stored'.earned = earned
    BY <2>1 DEF Cfg
  <2>3. ReportsAreOfToday'
    BY <1>3, <2>1 DEF ReportsAreOfToday
  <2>4. Kept
    BY <1>4, <2>1, <2>2 DEF pastVars
  <2> QED BY <1>1, <2>3, <2>4 DEF DayInvariant
<1>10. ASSUME NEW r \in Reporters, Ends(r)
       PROVE  ReportsAreOfToday' /\ UNCHANGED today
  BY <1>2, <1>3, <1>10 DEF Ends, ReportsAreOfToday
<1>11. ASSUME NEW r \in Reporters, Rejected(r)
       PROVE  DayInvariant'
  <2>1. PICK j \in report[r] :
           IF Enabled(j.source)
           THEN LET v == Earn(Cfg, j.source, j.day, j.done)
                IN  v.outcome = "error" /\ earned' = v.earned
           ELSE UNCHANGED earned
    BY <1>11 DEF Rejected
  <2>2. Ends(r) /\ UNCHANGED <<stored, pastVars>>
    BY <1>11 DEF Rejected
  <2>3. CASE ~ Enabled(j.source)
    <3>1. Kept
      BY <1>4, <1>10, <2>1, <2>2, <2>3 DEF pastVars
    <3> QED BY <1>1, <1>10, <2>2, <3>1 DEF DayInvariant
  <2>4. CASE Enabled(j.source)
    <3> DEFINE v == Earn(Cfg, j.source, today, j.done)
    <3>1. PICK p \in Offers : On(Cfg, j.source, p)
      BY <2>4, JudgedIsOn DEF DayInvariant
    <3>2. /\ j.day = today /\ j.source \in Sources
          /\ NothingAhead(v.earned)
          /\ \A s \in Sources \ {j.source} : Pays(v.earned[s], today, paid[<<s, today>>])
          /\ Pays(v.earned[j.source], today, paid[<<j.source, today>>] + v.minutes)
      BY <3>1, JudgedToday
    <3>3. v.outcome = "error" /\ earned' = v.earned
      BY <2>1, <2>4, <3>2
    <3>4. v.minutes = 0
      BY <1>2, <3>1, <3>2, <3>3, EarnErrors, CfgTyped DEF DayInvariant
    <3> HIDE DEF v
    <3>5. \A s \in Sources : Pays(v.earned[s], today, paid[<<s, today>>])
      <4>1. paid[<<j.source, today>>] + v.minutes = paid[<<j.source, today>>]
        BY <1>2, <3>2, <3>4
      <4> QED BY <3>2, <4>1
    <3>6. UNCHANGED <<today, paid, stored>>
      BY <1>10, <2>2 DEF pastVars
    <3>7. NothingAhead(earned)' /\ PaidSoFar(earned)'
      BY <3>2, <3>3, <3>5, <3>6 DEF NothingAhead, PaidSoFar
    <3>8. NothingAhead(stored.earned)' /\ PaidSoFar(stored.earned)'
      BY <1>3, <3>6 DEF NothingAhead, PaidSoFar
    <3> QED BY <1>1, <1>10, <2>2, <3>7, <3>8 DEF DayInvariant
  <2> QED BY <2>3, <2>4
<1>12. ASSUME NEW r \in Reporters, Unsaved(r)
       PROVE  DayInvariant'
  <2>1. Ends(r) /\ UNCHANGED <<earned, stored, pastVars>>
    BY <1>12 DEF Unsaved
  <2>2. Kept
    BY <1>4, <1>10, <2>1 DEF pastVars
  <2> QED BY <1>1, <1>10, <2>1, <2>2 DEF DayInvariant
<1>13. ASSUME NEW r \in Reporters, Accepted(r)
       PROVE  DayInvariant'
  <2> DEFINE Outcome(j) == Earn(Cfg, j.source, j.day, j.done)
             After(j) == [registry |-> registry, earned |-> Outcome(j).earned, extra |-> Outcome(j).extra]
  <2>1. PICK j \in report[r] :
           /\ Enabled(j.source)
           /\ earned' = Outcome(j).earned
           /\ stored' = IF After(j) = Cfg THEN stored ELSE After(j)
           /\ paid' = [paid EXCEPT ![<<j.source, j.day>>] = @ + Outcome(j).minutes]
    BY <1>13 DEF Accepted
  <2>2. Ends(r)
    BY <1>13 DEF Accepted
  <2>3. PICK p \in Offers : On(Cfg, j.source, p)
    BY <2>1, JudgedIsOn DEF DayInvariant
  <2> DEFINE v == Earn(Cfg, j.source, today, j.done)
  <2>4. /\ j.day = today /\ j.source \in Sources
        /\ NothingAhead(v.earned) /\ v.minutes \in Nat
        /\ \A s \in Sources \ {j.source} : Pays(v.earned[s], today, paid[<<s, today>>])
        /\ Pays(v.earned[j.source], today, paid[<<j.source, today>>] + v.minutes)
        /\ v.earned = earned => v.minutes = 0
    BY <2>3, JudgedToday
  <2>5. After(j) = Cfg => v.earned = earned
    <3>1. After(j).earned = v.earned /\ Cfg.earned = earned
      BY <2>4 DEF Cfg
    <3> HIDE DEF After, v
    <3> QED BY <3>1
  <2>6. After(j).earned = v.earned
    BY <2>4
  <2>7. /\ earned' = v.earned
        /\ stored' = IF After(j) = Cfg THEN stored ELSE After(j)
        /\ paid' = [paid EXCEPT ![<<j.source, today>>] = @ + v.minutes]
    BY <2>1, <2>4
  <2> HIDE DEF Outcome, After, v
  <2>8. UNCHANGED today
    BY <1>10, <2>2
  <2>9. \A s \in Sources : Pays(v.earned[s], today, paid'[<<s, today>>])
    <3>1. paid'[<<j.source, today>>] = paid[<<j.source, today>>] + v.minutes
      BY <1>2, <2>4, <2>7
    <3>2. \A s \in Sources \ {j.source} : paid'[<<s, today>>] = paid[<<s, today>>]
      <4> TAKE s \in Sources \ {j.source}
      <4>1. <<s, today>> # <<j.source, today>> /\ <<s, today>> \in Sources \X Dates
        BY <1>2
      <4> QED BY <1>2, <2>7, <4>1
    <3> QED BY <2>4, <3>1, <3>2
  <2>10. NothingAhead(earned)' /\ PaidSoFar(earned)'
    BY <2>4, <2>7, <2>8, <2>9 DEF NothingAhead, PaidSoFar
  <2>11. NothingAhead(stored.earned)' /\ PaidSoFar(stored.earned)'
    <3>1. CASE After(j) # Cfg
      <4>1. stored'.earned = v.earned
        BY <2>6, <2>7, <3>1
      <4> QED BY <2>4, <2>8, <2>9, <4>1 DEF NothingAhead, PaidSoFar
    <3>2. CASE After(j) = Cfg
      <4>1. v.minutes = 0 /\ stored' = stored
        BY <2>4, <2>5, <2>7, <3>2
      <4>2. paid' = paid
        <5>1. \A x \in Sources \X Dates : paid'[x] = paid[x]
          BY <1>2, <2>7, <4>1
        <5> QED BY <1>2, <2>7, <5>1
      <4> QED BY <1>3, <2>8, <4>1, <4>2 DEF NothingAhead, PaidSoFar
    <3> QED BY <3>1, <3>2
  <2> QED BY <1>1, <1>10, <2>2, <2>10, <2>11 DEF DayInvariant
<1>14. ASSUME Midnight PROVE DayInvariant'
  <2>1. /\ today' = today + 1 /\ UNCHANGED <<configVars, report>>
        /\ \A r \in Reporters : report[r] = {}
        /\ Forgets /\ today' \in Dates
    BY <1>14 DEF Midnight
  <2>2. ReportsAreOfToday'
    BY <2>1 DEF ReportsAreOfToday
  <2>3. ASSUME NEW ledger, NothingAhead(ledger), ledger \in Ledgers
        PROVE  /\ \A s \in Sources : \A e \in ledger[s] : e.date <= today + 1
               /\ \A s \in Sources : Pays(ledger[s], today + 1, 0)
    <3>1. \A s \in Sources : \A e \in ledger[s] : e.date <= today /\ e.date \in Nat
      <4>1. \A s \in Sources : \A e \in ledger[s] : e \in Entries
        BY <2>3 DEF Ledgers, Option
      <4>2. \A e \in Entries : e.date \in Nat
        BY CalendarAssumption DEF Entries
      <4> QED BY <2>3, <4>1, <4>2 DEF NothingAhead
    <3>2. \A s \in Sources : \A e \in ledger[s] : e.date <= today + 1 /\ e.date # today + 1
      BY <1>2, <3>1
    <3>3. \A s \in Sources : Today(ledger[s], today + 1) = {}
      BY <3>2 DEF Today
    <3> QED BY <3>2, <3>3 DEF Pays
  <2>4. earned \in Ledgers /\ stored.earned \in Ledgers
    BY CfgTyped DEF DayInvariant
  <2>5. \A s \in Sources : paid'[<<s, today'>>] = 0
    BY <2>1 DEF Forgets
  <2>6. earned' = earned /\ stored' = stored
    BY <2>1 DEF configVars
  <2>7. Kept
    BY <1>3, <2>1, <2>3, <2>4, <2>5, <2>6 DEF NothingAhead, PaidSoFar
  <2> QED BY <1>1, <2>2, <2>7 DEF DayInvariant
<1>15. ASSUME Restart PROVE DayInvariant'
  <2>1. /\ earned' = stored.earned /\ UNCHANGED <<today, stored, pastVars>>
        /\ report' = [r \in Reporters |-> {}]
    BY <1>15 DEF Restart
  <2>2. ReportsAreOfToday'
    BY <2>1 DEF ReportsAreOfToday
  <2>3. Kept
    BY <1>3, <2>1 DEF pastVars, NothingAhead, PaidSoFar
  <2> QED BY <1>1, <2>2, <2>3 DEF DayInvariant
<1> QED BY <1>6, <1>7, <1>8, <1>9, <1>11, <1>12, <1>13, <1>14, <1>15 DEF Next, Judges

LEMMA DayStart == Init => DayInvariant
<1> SUFFICES ASSUME Init PROVE DayInvariant
  OBVIOUS
<1>1. earned = [s \in Sources |-> {}] /\ stored.earned = earned
  BY DEF Init, Cfg
<1>2. NothingAhead(earned) /\ NothingAhead(stored.earned) /\ ReportsAreOfToday
  BY <1>1 DEF Init, NothingAhead, ReportsAreOfToday
<1>3. \A s \in Sources : paid[<<s, today>>] = 0
  BY CalendarAssumption DEF Init
<1>4. PaidSoFar(earned) /\ PaidSoFar(stored.earned)
  BY <1>1, <1>3 DEF PaidSoFar, Pays, Today
<1> QED BY <1>2, <1>4, TypedStart DEF DayInvariant

LEMMA DayPreserved == ASSUME ~ Straddles PROVE DayInvariant /\ [Next]_vars => DayInvariant'
<1> SUFFICES ASSUME DayInvariant, [Next]_vars PROVE DayInvariant'
  OBVIOUS
<1>1. CASE Next
  BY <1>1, DayStep
<1>2. CASE UNCHANGED vars
  <2>1. Typed'
    BY <1>2 DEF DayInvariant, Typed, TypeOK, vars, configVars, pastVars, Bounded, Installed
  <2>2. UNCHANGED <<today, earned, stored, paid, report>>
    BY <1>2 DEF vars, configVars, pastVars
  <2> QED BY <2>1, <2>2 DEF DayInvariant, NothingAhead, PaidSoFar, ReportsAreOfToday
<1> QED BY <1>1, <1>2

\* A step that pays, pays within the ceiling.
LEMMA StepPays ==
    ASSUME ~ Straddles, DayInvariant, [Next]_vars, NEW s \in Sources, NEW d \in Dates,
           paid'[<<s, d>>] > paid[<<s, d>>], NEW p \in registry[s]
    PROVE  IF CeilingMins(p) = {} THEN paid[<<s, d>>] = 0
           ELSE paid'[<<s, d>>] <= The(CeilingMins(p))
<1>1. paid \in [Sources \X Dates -> Nat] /\ registry[s] \in Option(Offers)
  BY DEF DayInvariant, Typed, TypeOK
<1>2. <<s, d>> \in Sources \X Dates /\ paid[<<s, d>>] \in Nat
  BY <1>1
<1>3. ~ UNCHANGED paid
  BY <1>2
<1>4. ~ Forgets
  <2> SUFFICES ASSUME Forgets PROVE FALSE
    OBVIOUS
  <2>1. paid'[<<s, d>>] = 0
    BY <1>2 DEF Forgets
  <2> QED BY <1>2, <2>1
<1>5. PICK r \in Reporters : Accepted(r)
  <2>1. Next
    BY <1>3 DEF vars, pastVars
  <2>2. UNCHANGED pastVars => UNCHANGED paid
    BY DEF pastVars
  <2>3. \/ \E r \in Reporters : Judges(r)
        \/ Midnight
    BY <1>3, <2>1, <2>2 DEF Next, Push, SchedulerTicks, ProbeFails, Deletes, ProbeAnswers,
                            Configures, Restart
  <2>4. ~ Midnight
    BY <1>3, <1>4, <2>2 DEF Midnight
  <2> QED BY <1>3, <2>2, <2>3, <2>4 DEF Judges, Rejected, Unsaved
<1>6. PICK j \in report[r] :
         /\ Enabled(j.source)
         /\ paid' = [paid EXCEPT ![<<j.source, j.day>>] =
                        @ + Earn(Cfg, j.source, j.day, j.done).minutes]
  BY <1>5 DEF Accepted
<1>7. PICK q \in Offers : On(Cfg, j.source, q)
  BY <1>6, JudgedIsOn DEF DayInvariant
<1> DEFINE v == Earn(Cfg, j.source, today, j.done)
           k == paid[<<s, d>>]
<1>8. /\ j.day = today /\ j.source \in Sources /\ v.minutes \in Nat
      /\ v.minutes > 0 => IF CeilingMins(q) = {} THEN paid[<<j.source, today>>] = 0
                          ELSE \A most \in CeilingMins(q) :
                                  paid[<<j.source, today>>] + v.minutes <= most
  BY <1>7, JudgedToday
<1>9. paid' = [paid EXCEPT ![<<j.source, today>>] = @ + v.minutes]
  BY <1>6, <1>8
<1> HIDE DEF v
<1>10. <<s, d>> = <<j.source, today>> /\ paid'[<<s, d>>] = paid[<<s, d>>] + v.minutes
  BY <1>1, <1>2, <1>9
<1>11. v.minutes > 0
  BY <1>2, <1>8, <1>10
<1>12. p = q
  <2>1. registry[j.source] = {q}
    BY <1>7, JudgedIsOn DEF DayInvariant
  <2> QED BY <1>10, <2>1
<1>13. CASE CeilingMins(q) = {}
  BY <1>8, <1>10, <1>11, <1>12, <1>13
<1>14. CASE CeilingMins(q) # {}
  <2>1. PICK c \in Nat : CeilingMins(q) = {c}
    BY <1>14, CeilingIsOption DEF Option
  <2>2. The(CeilingMins(q)) = c
    BY <2>1, TheOne
  <2> QED BY <1>8, <1>10, <1>11, <1>12, <1>14, <2>1, <2>2
<1> QED BY <1>13, <1>14

(* However often a source is reported, by whichever road, and whatever the   *)
(* parent changes, removes or reinstalls in between, a grant fits under the  *)
(* ceiling then in force, and without one it is the only one of its day:     *)
(* what a day is judged on lives in the ledger of the day alone, which a     *)
(* restart reads back.  A report that is judged on the other side of         *)
(* midnight is outside.  (config.rs earn; delete_provider.)                  *)
THEOREM PaidIsWithinCeiling == ASSUME ~ Straddles PROVE Spec => PaidWithinCeiling
<1> DEFINE Pays1 == \A s \in Sources, d \in Dates : paid'[<<s, d>>] > paid[<<s, d>>] =>
                        \A p \in registry[s] :
                            LET ceiling == CeilingMins(p)
                            IN  IF ceiling = {} THEN paid[<<s, d>>] = 0
                                ELSE paid'[<<s, d>>] <= The(ceiling)
<1>1. DayInvariant /\ [Next]_vars => [Pays1]_vars
  BY StepPays
<1>2. DayInvariant /\ [Next]_vars => DayInvariant'
  BY DayPreserved
<1> QED BY <1>1, <1>2, DayStart, PTL DEF Spec, PaidWithinCeiling

-----------------------------------------------------------------------------
(* The gate. *)

\* Of a restart nothing is lost: the last place is never taken by the note of a bar alone.
PlacesLeft == Restarts => Cardinality(Sources) < MaxEarned

MetSoFar(ledger) ==
    \A s \in Sources : <<s, today>> \in proven => \E e \in Today(ledger[s], today) : e.met

OpenedOnce ==
    \A s \in Sources, d \in Dates :
        opened[<<s, d>>] <= 1 /\ (opened[<<s, d>>] = 1 => <<s, d>> \in proven)

GateInvariant == DayInvariant /\ MetSoFar(earned) /\ OpenedOnce /\ (Restarts => stored = Cfg)

LEMMA JudgedGate ==
    ASSUME DayInvariant, NEW r \in Reporters, NEW j \in report[r], NEW p \in Offers, On(Cfg, j.source, p)
    PROVE  LET v == Earn(Cfg, j.source, today, j.done)
           IN  /\ j.day = today /\ j.source \in Sources /\ today \in Dates
               /\ registry[j.source] = {p}
               /\ \A x \in Sources \ {j.source} : Today(v.earned[x], today) = Today(earned[x], today)
               /\ Meets(p, earned, v, j.source, today, j.done)
               /\ v.outcome = "error" => ~ Restarts \/ ~ PlacesLeft
<1> DEFINE v == Earn(Cfg, j.source, today, j.done)
<1>1. j.day = today /\ j.source \in Sources /\ today \in Dates /\ Cfg \in Configs /\ Bounded(Cfg.earned)
      /\ Cfg.earned = earned
  BY JudgedIsOn, CfgTyped DEF DayInvariant, ReportsAreOfToday
<1>2. Follows(p, earned, v, j.source, today)
  BY <1>1, EarnedLedger
<1>3. Meets(p, earned, v, j.source, today, j.done)
  BY <1>1, EarnedMet
<1>4. v.outcome = "error" => ~ (Cardinality(Sources) < MaxEarned)
  BY <1>1, EarnErrors
<1>5. registry[j.source] = {p}
  BY JudgedIsOn DEF DayInvariant
<1> HIDE DEF v
<1>6. \A x \in Sources \ {j.source} : Today(v.earned[x], today) = Today(earned[x], today)
  BY <1>2 DEF Follows
<1> QED BY <1>1, <1>3, <1>4, <1>5, <1>6 DEF v, PlacesLeft

\* A judged report shuts no gate again.
LEMMA StaysMet ==
    ASSUME GateInvariant, NEW r \in Reporters, NEW j \in report[r], NEW p \in Offers, On(Cfg, j.source, p)
    PROVE  MetSoFar(Earn(Cfg, j.source, today, j.done).earned)
<1> DEFINE v == Earn(Cfg, j.source, today, j.done)
<1>1. /\ \A x \in Sources \ {j.source} : Today(v.earned[x], today) = Today(earned[x], today)
      /\ Meets(p, earned, v, j.source, today, j.done)
  BY JudgedGate DEF GateInvariant
<1>2. MetSoFar(earned)
  BY DEF GateInvariant
<1> HIDE DEF v
<1>3. MetSoFar(v.earned)
  BY <1>1, <1>2 DEF Meets, MetSoFar
<1> QED BY <1>3 DEF v

LEMMA GateStep ==
    ASSUME ~ Straddles, PlacesLeft, GateInvariant, Next
    PROVE  GateInvariant'
<1>1. DayInvariant /\ DayInvariant'
  BY DayStep DEF GateInvariant
<1>2. MetSoFar(earned) /\ OpenedOnce /\ (Restarts => stored = Cfg)
  BY DEF GateInvariant
<1>3. today \in Nat /\ today \in Dates /\ opened \in [Sources \X Dates -> Nat]
      /\ proven \subseteq Sources \X Dates
  BY <1>1, CalendarAssumption DEF DayInvariant, Typed, TypeOK
<1>4. ASSUME UNCHANGED <<today, earned, proven, opened>>
      PROVE  MetSoFar(earned)' /\ OpenedOnce'
  BY <1>2, <1>4 DEF MetSoFar, OpenedOnce
<1>5. UNCHANGED configVars => (Restarts => stored' = Cfg')
  BY <1>2 DEF configVars, Cfg
<1>6. ASSUME SchedulerTicks \/ (\E c \in Pushers, s \in Sources, done \in Option(Reports) : Push(c, s, done))
             \/ (\E s \in Sources : ProbeFails(s) \/ \E done \in Reports : ProbeAnswers(s, done))
      PROVE  GateInvariant'
  <2>1. UNCHANGED <<today, configVars, pastVars>>
    BY <1>6 DEF SchedulerTicks, Push, ProbeFails, ProbeAnswers
  <2>2. MetSoFar(earned)' /\ OpenedOnce'
    BY <1>4, <2>1 DEF configVars, pastVars
  <2> QED BY <1>1, <1>5, <2>1, <2>2 DEF GateInvariant
<1>7. ASSUME NEW s \in Sources, Deletes(s) \/ \E p \in Offers : Configures(s, p)
      PROVE  GateInvariant'
  <2>1. /\ UNCHANGED <<today, earned, extra, report, pastVars>>
        /\ stored' = [Cfg EXCEPT !.registry = registry']
    BY <1>7 DEF Deletes, Configures
  <2>2. stored' = Cfg'
    BY <2>1 DEF Cfg
  <2>3. MetSoFar(earned)' /\ OpenedOnce'
    BY <1>4, <2>1 DEF pastVars
  <2> QED BY <1>1, <2>2, <2>3 DEF GateInvariant
<1>8. ASSUME NEW r \in Reporters, Rejected(r)
      PROVE  GateInvariant'
  <2>1. PICK j \in report[r] :
           IF Enabled(j.source)
           THEN LET v == Earn(Cfg, j.source, j.day, j.done)
                IN  v.outcome = "error" /\ earned' = v.earned
           ELSE UNCHANGED earned
    BY <1>8 DEF Rejected
  <2>2. UNCHANGED <<today, registry, extra, stored, pastVars>>
    BY <1>8 DEF Rejected, Ends
  <2>3. CASE ~ Enabled(j.source)
    <3>1. MetSoFar(earned)' /\ OpenedOnce'
      BY <1>4, <2>1, <2>2, <2>3 DEF pastVars
    <3>2. Restarts => stored' = Cfg'
      BY <1>5, <2>1, <2>2, <2>3 DEF configVars
    <3> QED BY <1>1, <3>1, <3>2 DEF GateInvariant
  <2>4. CASE Enabled(j.source)
    <3> DEFINE v == Earn(Cfg, j.source, today, j.done)
    <3>1. PICK p \in Offers : On(Cfg, j.source, p)
      BY <1>1, <2>4, JudgedIsOn DEF DayInvariant
    <3>2. j.day = today /\ (v.outcome = "error" => ~ Restarts \/ ~ PlacesLeft)
      BY <1>1, <3>1, JudgedGate
    <3>3. v.outcome = "error" /\ earned' = v.earned
      BY <2>1, <2>4, <3>2
    <3>4. MetSoFar(v.earned)
      BY <3>1, StaysMet
    <3>5. ~ Restarts
      BY <3>2, <3>3
    <3> HIDE DEF v
    <3>6. UNCHANGED <<today, proven, opened>>
      BY <2>2 DEF pastVars
    <3>7. MetSoFar(earned)' /\ OpenedOnce'
      BY <1>2, <3>3, <3>4, <3>6 DEF MetSoFar, OpenedOnce
    <3> QED BY <1>1, <3>5, <3>7 DEF GateInvariant
  <2> QED BY <2>3, <2>4
<1>9. ASSUME NEW r \in Reporters, Unsaved(r)
      PROVE  GateInvariant'
  <2>1. UNCHANGED <<today, configVars, pastVars>>
    BY <1>9 DEF Unsaved, Ends, configVars
  <2>2. MetSoFar(earned)' /\ OpenedOnce'
    BY <1>4, <2>1 DEF configVars, pastVars
  <2> QED BY <1>1, <1>5, <2>1, <2>2 DEF GateInvariant
<1>10. ASSUME NEW r \in Reporters, Accepted(r)
       PROVE  GateInvariant'
  <2> DEFINE Outcome(j) == Earn(Cfg, j.source, j.day, j.done)
             After(j) == [registry |-> registry, earned |-> Outcome(j).earned, extra |-> Outcome(j).extra]
             Gained(j) == IF Opens(Cfg, After(j), j.source, j.day) THEN 1 ELSE 0
             First(j) == {x \in {<<j.source, j.day>>} : \E p \in registry[j.source] :
                             MetBy(p.gate, j.done) /\ Today(Outcome(j).earned[j.source], j.day) # {}}
  <2>1. PICK j \in report[r] :
           /\ Enabled(j.source)
           /\ earned' = Outcome(j).earned /\ extra' = Outcome(j).extra
           /\ stored' = IF After(j) = Cfg THEN stored ELSE After(j)
           /\ proven' = proven \union First(j)
           /\ opened' = [opened EXCEPT ![<<j.source, j.day>>] = @ + Gained(j)]
    BY <1>10 DEF Accepted
  <2>2. UNCHANGED <<today, registry>>
    BY <1>10 DEF Accepted, Ends
  <2>3. PICK p \in Offers : On(Cfg, j.source, p)
    BY <1>1, <2>1, JudgedIsOn DEF DayInvariant
  <2> DEFINE v == Earn(Cfg, j.source, today, j.done)
             s == j.source
             new == Today(v.earned[s], today)
             old == Today(earned[s], today)
  <2>4. /\ j.day = today /\ s \in Sources
        /\ registry[s] = {p}
        /\ \A x \in Sources \ {s} : Today(v.earned[x], today) = Today(earned[x], today)
        /\ Meets(p, earned, v, s, today, j.done)
    BY <1>1, <2>3, JudgedGate
  <2>5. MetSoFar(v.earned)
    BY <2>3, StaysMet
  <2>6. Outcome(j) = v
    BY <2>4
  <2>7. First(j) = IF MetBy(p.gate, j.done) /\ new # {} THEN {<<s, today>>} ELSE {}
    BY <2>4, <2>6
  <2>8. Restarts => stored' = Cfg'
    <3>1. Cfg' = After(j)
      BY <2>1, <2>2 DEF Cfg
    <3> HIDE DEF After
    <3> QED BY <1>2, <2>1, <3>1
  <2>9. /\ Gained(j) \in {0, 1}
        /\ Gained(j) = 1 => p.gate # {} /\ (\E e \in new : e.met) /\ ~ \E e \in old : e.met
    <3>1. Cfg.registry = registry /\ Cfg.earned = earned
          /\ After(j).registry = registry /\ After(j).earned = v.earned
      BY <2>6 DEF Cfg
    <3>2. Opens(Cfg, After(j), s, today) =>
             p.gate # {} /\ (\E e \in new : e.met) /\ ~ \E e \in old : e.met
      <4> HIDE DEF After, v
      <4> QED BY <2>4, <3>1 DEF Opens, Lifted
    <3>3. Gained(j) = IF Opens(Cfg, After(j), s, today) THEN 1 ELSE 0
      BY <2>4
    <3> HIDE DEF Gained, After, v, new, old
    <3> QED BY <3>2, <3>3
  <2> HIDE DEF Outcome, After, Gained, First, v
  <2>10. MetSoFar(earned)'
    <3>1. \A x \in Sources : <<x, today>> \in proven' => \E e \in Today(v.earned[x], today) : e.met
      <4> TAKE x \in Sources
      <4>1. CASE <<x, today>> \in proven
        BY <2>5, <4>1 DEF MetSoFar
      <4>2. CASE <<x, today>> \in First(j)
        <5>1. x = s /\ MetBy(p.gate, j.done) /\ new # {}
          BY <2>7, <4>2
        <5>2. \A n \in new : n.met
          BY <2>4, <5>1 DEF Meets
        <5> QED BY <5>1, <5>2
      <4> QED BY <2>1, <4>1, <4>2
    <3> QED BY <2>1, <2>2, <2>6, <3>1 DEF MetSoFar
  <2>11. OpenedOnce'
    <3> SUFFICES ASSUME NEW x \in Sources, NEW d \in Dates
                 PROVE  opened'[<<x, d>>] <= 1 /\ (opened'[<<x, d>>] = 1 => <<x, d>> \in proven')
      BY DEF OpenedOnce
    <3>1. opened[<<x, d>>] <= 1 /\ (opened[<<x, d>>] = 1 => <<x, d>> \in proven)
          /\ opened[<<x, d>>] \in Nat
      BY <1>2, <1>3 DEF OpenedOnce
    <3>2. CASE <<x, d>> # <<s, today>> \/ Gained(j) = 0
      <4>1. opened'[<<x, d>>] = opened[<<x, d>>]
        BY <1>3, <2>1, <2>4, <3>1, <3>2
      <4> QED BY <2>1, <3>1, <4>1
    <3>3. CASE <<x, d>> = <<s, today>> /\ Gained(j) = 1
      <4>1. opened'[<<x, d>>] = opened[<<x, d>>] + 1
        BY <1>3, <2>1, <2>4, <3>1, <3>3
      <4>2. <<s, today>> \notin proven
        BY <1>2, <2>4, <2>9, <3>3 DEF MetSoFar
      <4>3. opened[<<x, d>>] = 0
        BY <3>1, <3>3, <4>2
      <4>4. <<s, today>> \in proven'
        <5>1. new # {} /\ MetBy(p.gate, j.done)
          BY <2>4, <2>9, <3>3 DEF Meets
        <5> QED BY <2>1, <2>7, <5>1
      <4> QED BY <3>3, <4>1, <4>3, <4>4
    <3> QED BY <2>9, <3>2, <3>3
  <2> QED BY <1>1, <2>8, <2>10, <2>11 DEF GateInvariant
<1>11. ASSUME Midnight PROVE GateInvariant'
  <2>1. Forgets /\ UNCHANGED <<configVars, report>> /\ today' \in Dates
    BY <1>11, <1>1 DEF Midnight
  <2>2. MetSoFar(earned)'
    BY <2>1 DEF Forgets, MetSoFar
  <2>3. OpenedOnce'
    BY <2>1 DEF Forgets, OpenedOnce
  <2> QED BY <1>1, <1>5, <2>1, <2>2, <2>3 DEF GateInvariant
<1>12. ASSUME Restart PROVE GateInvariant'
  <2>1. /\ Restarts /\ registry' = stored.registry /\ earned' = stored.earned /\ extra' = stored.extra
        /\ UNCHANGED <<today, stored, pastVars>>
    BY <1>12 DEF Restart
  <2>2. UNCHANGED configVars
    BY <1>2, <2>1 DEF configVars, Cfg
  <2>3. MetSoFar(earned)' /\ OpenedOnce'
    BY <1>4, <2>1, <2>2 DEF configVars, pastVars
  <2> QED BY <1>1, <1>5, <2>2, <2>3 DEF GateInvariant
<1> QED BY <1>6, <1>7, <1>8, <1>9, <1>10, <1>11, <1>12 DEF Next, Judges

(* Once the bar is met the gate stays open for the day, and the opening is   *)
(* told once, for every registry and every order of pushes, probes,          *)
(* settings, failed saves and restarts.  The hypothesis about restarts is    *)
(* needed: the note of a bar that takes the last place of the ledger is      *)
(* turned away with the grant it came with, and kept in memory alone.        *)
(* (config.rs earn; Judgement.)                                              *)
THEOREM GateOpensAndStays == ASSUME ~ Straddles, PlacesLeft PROVE Spec => []GateOpensOnce
<1>1. Init => GateInvariant
  <2> SUFFICES ASSUME Init PROVE GateInvariant
    OBVIOUS
  <2>1. MetSoFar(earned) /\ OpenedOnce
    BY DEF Init, MetSoFar, OpenedOnce
  <2> QED BY <2>1, DayStart DEF GateInvariant, Init
<1>2. GateInvariant /\ [Next]_vars => GateInvariant'
  <2> SUFFICES ASSUME GateInvariant, [Next]_vars PROVE GateInvariant'
    OBVIOUS
  <2>1. CASE Next
    BY <2>1, GateStep
  <2>2. CASE UNCHANGED vars
    <3>1. DayInvariant'
      BY <2>2, DayPreserved DEF GateInvariant
    <3> QED BY <2>2, <3>1 DEF GateInvariant, MetSoFar, OpenedOnce, Cfg, vars, configVars, pastVars
  <2> QED BY <2>1, <2>2
<1>3. GateInvariant => GateOpensOnce
  BY DEF GateInvariant, MetSoFar, OpenedOnce, GateOpensOnce
<1> QED BY <1>1, <1>2, <1>3, PTL DEF Spec

-----------------------------------------------------------------------------
(* What the scheduler no longer asks. *)

LEMMA NothingLeft ==
    ASSUME NEW p \in Offers, NEW ledger \in Ledgers, NEW s \in Sources, NEW d, NEW reward,
           p.gate = {}, ExhaustedFor(p, d, ledger[s])
    PROVE  Payable(CeilingMins(p), Spent(ledger[s], d), reward) = {}
<1> DEFINE spent == Spent(ledger[s], d)
           ceiling == CeilingMins(p)
<1>1. PICK e \in Today(ledger[s], d) :
         ceiling = {} \/ e.minutes = {} \/ The(e.minutes) >= The(ceiling)
  BY DEF ExhaustedFor
<1>2. spent = {e.minutes}
  BY SpentIsOption
<1>3. The(spent) = e.minutes
  BY <1>2, TheOne
<1> HIDE DEF spent, ceiling
<1>4. spent # {} /\ (e.minutes = {} => spent = {{}})
  BY <1>2
<1>5. Payable(ceiling, spent, reward) = {}
  BY <1>1, <1>3, <1>4 DEF Payable
<1> QED BY <1>5 DEF spent, ceiling

LEMMA SettledPool ==
    ASSUME NEW cfg \in Configs, NEW s \in Sources, NEW d \in Dates, NEW work,
           NEW p \in Offers, On(cfg, s, p), ExhaustedFor(p, d, cfg.earned[s])
    PROVE  Earn(cfg, s, d, work).extra = cfg.extra
<1> DEFINE v == Earn(cfg, s, d, work)
           noted == Noted(p, cfg.earned, s, d, work)
           spent == Spent(cfg.earned[s], d)
           reward == RewardFor(p, work)
           payable == Payable(CeilingMins(p), spent, reward)
           met == \E e \in Today(noted[s], d) : e.met
<1>1. \/ /\ v.earned = noted /\ v.extra = cfg.extra /\ v.minutes = 0
         /\ v.outcome = "error" => spent = {} /\ Counted(noted, d) >= MaxEarned
      \/ \E mins \in Nat :
            /\ reward # {} /\ payable = {mins} /\ v.minutes = mins /\ v.outcome = "granted"
            /\ v.earned = [Pruned(noted, d) EXCEPT ![s] = {Entry(p, d, spent, mins, met)}]
            /\ v.extra = Pool(p, cfg.extra, d, mins)
            /\ spent # {} \/ ~ (Counted(noted, d) >= MaxEarned)
  BY EarnCases
<1>2. p.gate = {} => payable = {}
  BY NothingLeft DEF Configs
<1> HIDE DEF v, noted, spent, reward, payable, met
<1>3. v.extra = cfg.extra \/ \E mins \in Nat : payable = {mins} /\ v.extra = Pool(p, cfg.extra, d, mins)
  BY <1>1
<1>4. ASSUME NEW mins \in Nat, payable = {mins}, v.extra = Pool(p, cfg.extra, d, mins)
      PROVE  v.extra = cfg.extra
  <2>1. p.gate # {}
    BY <1>2, <1>4
  <2> QED BY <1>4, <2>1 DEF Pool
<1>5. v.extra = cfg.extra
  BY <1>3, <1>4
<1> QED BY <1>5 DEF v

\* What the gates that still hold are made of.
Lid(cfg, s, d) ==
    The(The(cfg.registry[s]).gate).allowance
    + LET given == UNION {e.minutes : e \in Today(cfg.earned[s], d)} IN IF given = {} THEN 0 ELSE The(given)
Shut(cfg, d) == {s \in Sources : /\ \E p \in cfg.registry[s] : p.enabled /\ p.gate # {}
                                 /\ ~ Lifted(cfg, s, d)}

LEMMA GateCapIs ==
    ASSUME NEW cfg, NEW d
    PROVE  GateCap(cfg, d, {}) =
               IF Shut(cfg, d) = {} THEN {} ELSE {Min({Lid(cfg, s, d) : s \in Shut(cfg, d)})}
<1>1. Sources \ {} = Sources
  OBVIOUS
<1> QED BY <1>1 DEF GateCap, Lid, Shut

LEMMA SettledGates ==
    ASSUME NEW cfg, NEW other, NEW s \in Sources, NEW d,
           other.registry = cfg.registry,
           \A x \in Sources \ {s} : Today(other.earned[x], d) = Today(cfg.earned[x], d),
           s \notin Shut(cfg, d), s \notin Shut(other, d)
    PROVE  GateCap(other, d, {}) = GateCap(cfg, d, {})
<1>1. \A x \in Sources \ {s} : Lifted(other, x, d) <=> Lifted(cfg, x, d)
  BY DEF Lifted
<1>2. Shut(other, d) = Shut(cfg, d)
  <2>1. \A x \in Sources \ {s} : x \in Shut(other, d) <=> x \in Shut(cfg, d)
    BY <1>1 DEF Shut
  <2>2. Shut(other, d) \subseteq Sources /\ Shut(cfg, d) \subseteq Sources
    BY DEF Shut
  <2> QED BY <2>1, <2>2
<1>3. \A x \in Shut(cfg, d) : Lid(other, x, d) = Lid(cfg, x, d)
  <2>1. \A x \in Shut(cfg, d) : x \in Sources \ {s}
    BY DEF Shut
  <2> QED BY <2>1 DEF Lid
<1>4. {Lid(other, x, d) : x \in Shut(other, d)} = {Lid(cfg, x, d) : x \in Shut(cfg, d)}
  BY <1>2, <1>3
<1> QED BY <1>2, <1>4, GateCapIs

(* What the scheduler stops asking about for the day is settled: no report   *)
(* could add to the pool or lift a gate that still holds.  It rests on what  *)
(* a judged report may do to a ledger, and on types alone, so it holds on    *)
(* either side of midnight and after any restart.  (config.rs exhausted_for.) *)
THEOREM ExhaustedStaysSettled == Spec => []ExhaustedIsSettled
<1>1. Typed => ExhaustedIsSettled
  <2> SUFFICES ASSUME Typed, NEW s \in Sources, NEW done \in Reports, NEW p \in registry[s],
                      Enabled(s), ExhaustedFor(p, today, earned[s])
               PROVE  LET v == Earn(Cfg, s, today, {done})
                          after == [registry |-> registry, earned |-> v.earned, extra |-> v.extra]
                      IN  /\ v.extra = extra
                          /\ GateCap(after, today, {}) = GateCap(Cfg, today, {})
    BY DEF ExhaustedIsSettled
  <2> DEFINE v == Earn(Cfg, s, today, {done})
             after == [registry |-> registry, earned |-> v.earned, extra |-> v.extra]
  <2>1. /\ Cfg \in Configs /\ Bounded(Cfg.earned) /\ today \in Dates
        /\ Cfg.registry = registry /\ Cfg.extra = extra /\ Cfg.earned = earned
    BY CfgTyped DEF Typed, TypeOK
  <2>2. registry[s] = {p} /\ p \in Offers /\ p.enabled
    <3>1. registry[s] \in Option(Offers)
      BY DEF Typed, TypeOK
    <3>2. registry[s] = {p} /\ p \in Offers
      BY <3>1 DEF Option
    <3> QED BY <3>2 DEF Enabled
  <2>3. On(Cfg, s, p)
    BY <2>1, <2>2 DEF On
  <2>4. v.extra = extra
    BY <2>1, <2>2, <2>3, SettledPool
  <2>5. Follows(p, earned, v, s, today) /\ Meets(p, earned, v, s, today, {done})
    BY <2>1, <2>2, <2>3, EarnedLedger, EarnedMet
  <2>6. after.registry = registry /\ after.earned = v.earned
    OBVIOUS
  <2> HIDE DEF v, after
  <2>7. \A x \in Sources \ {s} : Today(after.earned[x], today) = Today(Cfg.earned[x], today)
    BY <2>1, <2>5, <2>6 DEF Follows
  <2>8. s \notin Shut(Cfg, today) /\ s \notin Shut(after, today)
    <3>1. CASE p.gate = {}
      BY <2>1, <2>2, <2>6, <3>1 DEF Shut
    <3>2. CASE p.gate # {}
      <4>1. \E e \in Today(earned[s], today) : e.met
        BY <3>2 DEF ExhaustedFor
      <4>2. \E e \in Today(v.earned[s], today) : e.met
        BY <2>5, <4>1 DEF Meets
      <4>3. Lifted(Cfg, s, today) /\ Lifted(after, s, today)
        BY <2>1, <2>2, <2>6, <3>2, <4>1, <4>2 DEF Lifted
      <4> QED BY <4>3 DEF Shut
    <3> QED BY <3>1, <3>2
  <2>9. GateCap(after, today, {}) = GateCap(Cfg, today, {})
    BY <2>1, <2>6, <2>7, <2>8, SettledGates
  <2> QED BY <2>4, <2>9 DEF v, after
<1> QED BY <1>1, TypeCorrect, PTL

-----------------------------------------------------------------------------
(* Bedtime.  Counting in days. *)

LEMMA QuotientAndRest ==
    ASSUME NEW n \in Nat \ {0}, NEW a \in Nat
    PROVE  /\ a \div n \in Nat /\ a % n \in 0 .. n - 1
           /\ a = n * (a \div n) + (a % n)
  OBVIOUS

LEMMA OneQuotient ==
    ASSUME NEW n \in Nat \ {0}, NEW p \in Nat, NEW q \in Nat, NEW r \in 0 .. n - 1, NEW s \in 0 .. n - 1,
           n * p + r = n * q + s
    PROVE  p = q /\ r = s
<1>1. ASSUME NEW x \in Nat, NEW y \in Nat, x < y PROVE n * x + n <= n * y
  <2>1. PICK d \in Nat : y = x + 1 + d
    <3>1. y - x - 1 \in Nat /\ y = x + 1 + (y - x - 1)
      BY <1>1
    <3> QED BY <3>1
  <2>2. n * y = n * x + n + n * d
    BY <2>1
  <2>3. n * d \in Nat /\ n * x \in Nat
    OBVIOUS
  <2> QED BY <2>2, <2>3
<1>2. n * p \in Nat /\ n * q \in Nat
  OBVIOUS
<1>3. ~ (p < q)
  BY <1>1, <1>2
<1>4. ~ (q < p)
  BY <1>1, <1>2
<1> QED BY <1>2, <1>3, <1>4

LEMMA RestOf ==
    ASSUME NEW n \in Nat \ {0}, NEW p \in Nat, NEW r \in 0 .. n - 1
    PROVE  (n * p + r) % n = r /\ (n * p + r) \div n = p
<1> DEFINE a == n * p + r
<1>1. a \in Nat
  <2>1. n * p \in Nat
    OBVIOUS
  <2> QED BY <2>1
<1>2. a \div n \in Nat /\ a % n \in 0 .. n - 1 /\ n * p + r = n * (a \div n) + (a % n)
  BY <1>1, QuotientAndRest
<1> HIDE DEF a
<1>3. p = a \div n /\ r = a % n
  BY <1>2, OneQuotient
<1> QED BY <1>3 DEF a

-----------------------------------------------------------------------------
(* The days of a week. *)

Times == 0 .. DayLength - 1
Weekdays == 0 .. WeekLength - 1

LEMMA WithinWeek ==
    ASSUME NEW day \in Weekdays, NEW time \in Times
    PROVE  /\ day * DayLength + time \in 0 .. WeekLength * DayLength - 1
           /\ WeekLength * DayLength \in Nat \ {0}
<1> USE ClockAssumption
<1>1. PICK rest \in Nat : WeekLength = day + 1 + rest
  <2>1. WeekLength - day - 1 \in Nat /\ WeekLength = day + 1 + (WeekLength - day - 1)
    BY DEF Weekdays
  <2> QED BY <2>1
<1>2. day \in Nat
  BY DEF Weekdays
<1>3. WeekLength * DayLength = day * DayLength + DayLength + rest * DayLength
  BY <1>1, <1>2
<1>4. day * DayLength \in Nat /\ rest * DayLength \in Nat
  BY <1>1, <1>2
<1> QED BY <1>3, <1>4 DEF Times

LEMMA InstantOfWeek ==
    ASSUME NEW t \in Nat
    PROVE  /\ TimeOf(t) \in Times /\ DayOf(t) \in Weekdays
           /\ t % (WeekLength * DayLength) = DayOf(t) * DayLength + TimeOf(t)
<1> USE ClockAssumption
<1> DEFINE q == t \div DayLength
           p == q \div WeekLength
<1>1. q \in Nat /\ TimeOf(t) \in Times /\ t = DayLength * q + TimeOf(t)
  BY QuotientAndRest DEF TimeOf, Times
<1>2. p \in Nat /\ DayOf(t) \in Weekdays /\ q = WeekLength * p + DayOf(t)
  BY <1>1, QuotientAndRest DEF DayOf, Weekdays
<1> HIDE DEF q, p
<1>3. TimeOf(t) \in Nat /\ DayOf(t) \in Nat
  BY <1>1, <1>2 DEF Times, Weekdays
<1>4. t = (WeekLength * DayLength) * p + (DayOf(t) * DayLength + TimeOf(t))
  BY <1>1, <1>2, <1>3
<1> DEFINE week == WeekLength * DayLength
           r == DayOf(t) * DayLength + TimeOf(t)
<1>5. week \in Nat \ {0} /\ r \in 0 .. week - 1 /\ t = week * p + r
  BY <1>1, <1>2, <1>4, WithinWeek
<1>6. (t % week) = r
  <2> HIDE DEF week, r
  <2> QED BY <1>2, <1>5, RestOf
<1> QED BY <1>1, <1>2, <1>6

LEMMA YesterdayIs ==
    ASSUME NEW day \in Weekdays
    PROVE  Yesterday(day) = IF day = 0 THEN WeekLength - 1 ELSE day - 1
<1> USE ClockAssumption DEF Weekdays
<1>1. CASE day = 0
  BY <1>1, RestOf DEF Yesterday
<1>2. CASE day # 0
  <2>1. day + WeekLength - 1 = WeekLength * 1 + (day - 1) /\ day - 1 \in 0 .. WeekLength - 1
    BY <1>2
  <2>2. (WeekLength * 1 + (day - 1)) % WeekLength = day - 1
    BY <2>1, RestOf
  <2> QED BY <1>2, <2>1, <2>2 DEF Yesterday
<1> QED BY <1>1, <1>2

\* An instant counted from a midnight, less than two days on, is on that day or on the next.
LEMMA SameInstant ==
    ASSUME NEW day \in Weekdays, NEW time \in Times, NEW d \in Weekdays,
           NEW x \in 0 .. 2 * DayLength - 1
    PROVE  (d * DayLength + x) % (WeekLength * DayLength) = day * DayLength + time <=>
              \/ x < DayLength /\ d = day /\ x = time
              \/ x >= DayLength /\ d = Yesterday(day) /\ x = DayLength + time
<1> USE ClockAssumption
<1> DEFINE week == WeekLength * DayLength
<1>0. week \in Nat \ {0} /\ day * DayLength + time \in 0 .. week - 1
  BY WithinWeek
<1>00. /\ \A n \in Weekdays : n \in Nat /\ n * DayLength = DayLength * n
       /\ \A n \in Times : n \in Nat
  BY DEF Weekdays, Times
<1>1. ASSUME NEW e \in Weekdays, NEW z \in Times
      PROVE  e * DayLength + z = day * DayLength + time <=> e = day /\ z = time
  <2>1. e \in Nat /\ day \in Nat /\ z \in 0 .. DayLength - 1 /\ time \in 0 .. DayLength - 1
    BY DEF Times, Weekdays
  <2>2. e * DayLength + z = DayLength * e + z /\ day * DayLength + time = DayLength * day + time
    BY <2>1
  <2>3. DayLength * e + z = DayLength * day + time => e = day /\ z = time
    BY <2>1, OneQuotient
  <2> QED BY <2>2, <2>3
<1>2. CASE x < DayLength
  <2>1. x \in Times
    BY <1>2 DEF Times
  <2>2. d * DayLength + x \in 0 .. week - 1
    BY <2>1, WithinWeek
  <2>3. (week * 0 + (d * DayLength + x)) % week = d * DayLength + x
    BY <1>0, <2>2, RestOf
  <2>4. week * 0 + (d * DayLength + x) = d * DayLength + x
    BY <1>0, <2>2
  <2> QED BY <1>1, <1>2, <2>1, <2>3, <2>4
<1>3. CASE x >= DayLength
  <2> DEFINE z == x - DayLength
  <2>1. z \in Times /\ x = DayLength + z
    BY <1>3 DEF Times
  <2> HIDE DEF z
  <2>2. CASE d # WeekLength - 1
    <3>1. d + 1 \in Weekdays /\ d \in Nat
      BY <2>2 DEF Weekdays
    <3>2. (d + 1) * DayLength + z \in 0 .. week - 1
      BY <2>1, <3>1, WithinWeek
    <3>3. d * DayLength + x = (d + 1) * DayLength + z
      BY <2>1, <3>1, <1>00
    <3>4. (week * 0 + ((d + 1) * DayLength + z)) % week = (d + 1) * DayLength + z
      BY <1>0, <3>2, RestOf
    <3>5. week * 0 + ((d + 1) * DayLength + z) = (d + 1) * DayLength + z
      BY <1>0, <3>2
    <3>6. d + 1 = day <=> d = Yesterday(day)
      BY <2>2, <3>1, YesterdayIs DEF Weekdays
    <3>7. (d * DayLength + x) % week = day * DayLength + time <=> d + 1 = day /\ z = time
      BY <1>1, <2>1, <3>1, <3>3, <3>4, <3>5
    <3>8. z = time <=> x = DayLength + time
      BY <2>1 DEF Times
    <3> QED BY <1>3, <3>6, <3>7, <3>8
  <2>3. CASE d = WeekLength - 1
    <3>1. 0 \in Weekdays /\ 0 * DayLength = 0
      BY DEF Weekdays
    <3>2. z \in 0 .. week - 1
      BY <2>1, <3>1, WithinWeek DEF Times
    <3>3. d * DayLength + x = week * 1 + z
      BY <2>1, <2>3, <1>00
    <3>4. (week * 1 + z) % week = z
      BY <1>0, <3>2, RestOf
    <3>5. 0 = day <=> d = Yesterday(day)
      BY <2>3, YesterdayIs DEF Weekdays
    <3>6. z = 0 * DayLength + z
      BY <3>1, <2>1, <1>00
    <3>7. (d * DayLength + x) % week = day * DayLength + time <=> 0 = day /\ z = time
      BY <1>1, <2>1, <3>1, <3>3, <3>4, <3>6
    <3>8. z = time <=> x = DayLength + time
      BY <2>1 DEF Times
    <3> QED BY <1>3, <3>5, <3>7, <3>8
  <2> QED BY <2>2, <2>3
<1> QED BY <1>2, <1>3

-----------------------------------------------------------------------------
(* A window is active in its nights, and only then. *)

Opened(start, end, days, day, time) ==
    \/ start < end /\ IsWithin(time, start, end) /\ Includes(days, day)
    \/ start > end /\ \/ start <= time /\ Includes(days, day)
                      \/ time < end /\ Includes(days, Yesterday(day))

Covers(start, end, days, n) ==
    \E d \in Weekdays :
        /\ Includes(days, d)
        /\ \E k \in 0 .. Duration(start, end) - 1 :
              n = (d * DayLength + start + k) % (WeekLength * DayLength)

LEMMA OpenedCovers ==
    ASSUME NEW start \in Times, NEW end \in Times, NEW days, NEW day \in Weekdays, NEW time \in Times
    PROVE  Covers(start, end, days, day * DayLength + time) <=> Opened(start, end, days, day, time)
<1> USE ClockAssumption
<1> DEFINE length == Duration(start, end)
<1>1. /\ start \in Nat /\ end \in Nat /\ time \in Nat /\ start < DayLength /\ end < DayLength
      /\ time < DayLength /\ length \in 0 .. DayLength
  BY DEF Times, Duration
<1>2. ASSUME NEW d \in Weekdays, NEW k \in 0 .. length - 1
      PROVE  day * DayLength + time = (d * DayLength + start + k) % (WeekLength * DayLength) <=>
                \/ start + k < DayLength /\ d = day /\ start + k = time
                \/ start + k >= DayLength /\ d = Yesterday(day) /\ start + k = DayLength + time
  <2>1. start + k \in 0 .. 2 * DayLength - 1
    BY <1>1
  <2>2. d \in Nat /\ d * DayLength \in Nat
    BY DEF Weekdays
  <2>3. d * DayLength + start + k = d * DayLength + (start + k)
    BY <1>1, <2>2
  <2> QED BY <2>1, <2>3, SameInstant
<1>3. ASSUME Covers(start, end, days, day * DayLength + time)
      PROVE  Opened(start, end, days, day, time)
  <2>1. PICK d \in Weekdays, k \in 0 .. length - 1 :
            /\ Includes(days, d)
            /\ day * DayLength + time = (d * DayLength + start + k) % (WeekLength * DayLength)
    BY <1>3 DEF Covers
  <2>2. CASE d = day /\ start + k = time
    <3>1. start < end => time < end /\ start <= time
      BY <1>1, <2>2 DEF Duration
    <3>2. start # end /\ start <= time
      BY <1>1, <2>2 DEF Duration
    <3> QED BY <1>1, <2>1, <2>2, <3>1, <3>2 DEF Opened, IsWithin
  <2>3. CASE d = Yesterday(day) /\ start + k = DayLength + time
    <3>1. start > end /\ time < end
      BY <1>1, <2>3 DEF Duration
    <3> QED BY <2>1, <2>3, <3>1 DEF Opened
  <2> QED BY <1>2, <2>1, <2>2, <2>3
<1>4. ASSUME Opened(start, end, days, day, time)
      PROVE  Covers(start, end, days, day * DayLength + time)
  <2>1. CASE Includes(days, day) /\ start <= time /\ (start < end => time < end) /\ start # end
    <3>1. time - start \in 0 .. length - 1 /\ start + (time - start) = time
      BY <1>1, <2>1 DEF Duration
    <3>2. day * DayLength + time
             = (day * DayLength + start + (time - start)) % (WeekLength * DayLength)
      BY <1>1, <1>2, <3>1
    <3> QED BY <2>1, <3>1, <3>2 DEF Covers
  <2>2. CASE Includes(days, Yesterday(day)) /\ start > end /\ time < end
    <3> DEFINE k == DayLength - start + time
    <3>1. k \in 0 .. length - 1 /\ start + k = DayLength + time
      BY <1>1, <2>2 DEF Duration
    <3>2. Yesterday(day) \in Weekdays
      BY YesterdayIs DEF Weekdays
    <3> HIDE DEF k
    <3>3. day * DayLength + time = (Yesterday(day) * DayLength + start + k) % (WeekLength * DayLength)
      BY <1>1, <1>2, <3>1, <3>2
    <3> QED BY <2>2, <3>1, <3>2, <3>3 DEF Covers
  <2>3. \/ Includes(days, day) /\ start <= time /\ (start < end => time < end) /\ start # end
        \/ Includes(days, Yesterday(day)) /\ start > end /\ time < end
    BY <1>1, <1>4 DEF Opened, IsWithin
  <2> QED BY <2>1, <2>2, <2>3
<1> QED BY <1>3, <1>4

LEMMA WindowIsItsNights ==
    ASSUME NEW w, w.start \in Hours, w.end \in Hours, NEW t \in Nat
    PROVE  t % (WeekLength * DayLength) \in NightOf(w) <=> WindowActive(w, TimeOf(t), DayOf(t))
<1> DEFINE n == DayOf(t) * DayLength + TimeOf(t)
<1>1. /\ t % (WeekLength * DayLength) = n /\ n \in 0 .. WeekLength * DayLength - 1
      /\ TimeOf(t) \in Times /\ DayOf(t) \in Weekdays
  BY InstantOfWeek, WithinWeek
<1>2. n \in NightOf(w) <=> \E start \in w.start, end \in w.end : Covers(start, end, w.days, n)
  <2> HIDE DEF n
  <2> QED BY <1>1 DEF NightOf, Covers, Weekdays
<1>3. \A start \in w.start, end \in w.end :
         Covers(start, end, w.days, n) <=> Opened(start, end, w.days, DayOf(t), TimeOf(t))
  <2> TAKE start \in w.start, end \in w.end
  <2>1. start \in Times /\ end \in Times
    BY DEF Hours, Times
  <2> QED BY <1>1, <2>1, OpenedCovers
<1>4. WindowActive(w, TimeOf(t), DayOf(t)) <=>
         \E start \in w.start, end \in w.end : Opened(start, end, w.days, DayOf(t), TimeOf(t))
  BY DEF WindowActive, Opened
<1> HIDE DEF n
<1> QED BY <1>1, <1>2, <1>3, <1>4

LEMMA ActiveIsNight ==
    ASSUME NEW c \in Curfews, NEW until, NEW t \in Nat
    PROVE  IsActiveAt(c, until, t) <=> IsNight(c, until, t)
<1>1. /\ c.enabled \in BOOLEAN /\ c.start \in Hours /\ c.end \in Hours
      /\ \A w \in c.windows : w.start \in Hours /\ w.end \in Hours
  BY CurfewsAssumption DEF Curfew
<1>2. NightsOf[c] = Nights(c)
  BY DEF NightsOf
<1> DEFINE n == t % (WeekLength * DayLength)
<1>3. CASE ~ c.enabled
  BY <1>2, <1>3 DEF IsActiveAt, IsNight, Nights
<1>4. CASE c.enabled /\ c.windows # {}
  <2>1. \A w \in c.windows : n \in NightOf(w) <=> WindowActive(w, TimeOf(t), DayOf(t))
    BY <1>1, WindowIsItsNights
  <2>2. n \in NightsOf[c] <=> AnyWindowActive(c.windows, TimeOf(t), DayOf(t))
    BY <1>2, <1>4, <2>1 DEF Nights, AnyWindowActive
  <2> QED BY <1>4, <2>2 DEF IsActiveAt, IsNight
<1>5. CASE c.enabled /\ c.windows = {}
  <2> DEFINE w == [start |-> c.start, end |-> c.end, days |-> {}]
  <2>1. n \in NightOf(w) <=> WindowActive(w, TimeOf(t), DayOf(t))
    BY <1>1, WindowIsItsNights
  <2>2. WindowActive(w, TimeOf(t), DayOf(t)) <=>
           \E start \in c.start, end \in c.end : IsWithin(TimeOf(t), start, end)
    <3>1. \A day : Includes({}, day)
      BY DEF Includes
    <3>2. w.start = c.start /\ w.end = c.end /\ w.days = {}
      OBVIOUS
    <3>3. \A start \in c.start, end \in c.end : start \in Nat /\ end \in Nat
      BY <1>1 DEF Hours
    <3>4. TimeOf(t) \in Nat
      BY InstantOfWeek DEF Times
    <3> HIDE DEF w
    <3> QED BY <3>1, <3>2, <3>3, <3>4 DEF WindowActive, IsWithin
  <2>3. Nights(c) = NightOf(w)
    BY <1>5 DEF Nights
  <2> HIDE DEF w
  <2> QED BY <1>2, <1>5, <2>1, <2>2, <2>3 DEF IsActiveAt, IsNight
<1> QED BY <1>1, <1>3, <1>4, <1>5

-----------------------------------------------------------------------------
(* Probing minute by minute. *)

LEMMA SmallestOf ==
    ASSUME NEW S, S \subseteq Nat, S # {}
    PROVE  \E m \in S : \A n \in S : m <= n
<1> DEFINE Less == OpToRel(<, Nat)
<1>1. IsWellFoundedOn(Less, Nat)
  BY NatLessThanWellFounded
<1>2. \A x \in Nat, y \in Nat : x < y => <<x, y>> \in Less
  BY DEF OpToRel
<1> HIDE DEF Less
<1>3. PICK m \in S : \A n \in S : <<n, m>> \notin Less
  BY <1>1, WFMin
<1>4. ASSUME NEW n \in S PROVE m <= n
  <2>1. m \in Nat /\ n \in Nat /\ ~ (n < m)
    BY <1>2, <1>3
  <2> QED BY <2>1
<1> QED BY <1>4

\* Active after m minutes, and after no fewer.
FirstAt(c, until, t, m) ==
    /\ IsActiveAt(c, until, t + m * Minute)
    /\ \A n \in 1 .. m - 1 : ~ IsActiveAt(c, until, t + n * Minute)

LEMMA ProbesFindTheFirst ==
    ASSUME NEW c, NEW until, NEW t \in Nat, NEW minutes \in Nat
    PROVE  \/ /\ FirstActive(c, until, t, minutes) = {}
              /\ \A m \in 1 .. minutes : ~ IsActiveAt(c, until, t + m * Minute)
           \/ \E m \in 1 .. minutes : FirstActive(c, until, t, minutes) = {m} /\ FirstAt(c, until, t, m)
<1> DEFINE found == {m \in 1 .. minutes : IsActiveAt(c, until, t + m * Minute)}
<1>1. FirstActive(c, until, t, minutes) = {m \in found : \A n \in found : m <= n}
  BY DEF FirstActive
<1>2. CASE found = {}
  BY <1>1, <1>2
<1>3. CASE found # {}
  <2>0. found \subseteq Nat
    OBVIOUS
  <2>1. PICK m \in found : \A n \in found : m <= n
    <3> HIDE DEF found
    <3> QED BY <1>3, <2>0, SmallestOf
  <2>2. FirstActive(c, until, t, minutes) = {m}
    BY <1>1, <2>1
  <2>3. m \in 1 .. minutes /\ FirstAt(c, until, t, m)
    BY <2>1 DEF FirstAt
  <2> QED BY <2>2, <2>3
<1> QED BY <1>2, <1>3

-----------------------------------------------------------------------------
(* What every step keeps of the curfew and of what the parent was told. *)

Awaited ==
    /\ now \in Nat /\ curfew \in Curfews /\ extraUntil \subseteq Nat
    /\ promised # {} => extraUntil = promised

LEMMA AwaitedStart == BedtimeInit => Awaited
  BY DEF BedtimeInit, Awaited

LEMMA AwaitedStep == Awaited /\ [BedtimeNext]_bedtimeVars => Awaited'
<1> SUFFICES ASSUME Awaited, [BedtimeNext]_bedtimeVars PROVE Awaited'
  OBVIOUS
<1> USE DEF Awaited
<1>1. Lookahead \in Nat
  BY WarningsAssumption, ThresholdsAssumption DEF Lookahead
<1>2. CASE Tick
  BY <1>2 DEF Tick
<1>3. CASE SetsCurfew
  BY <1>3 DEF SetsCurfew
<1>4. CASE Extends
  <2>1. PICK minutes \in Extensions :
            extraUntil' = {u + minutes * Minute :
                u \in IF {u \in extraUntil : u > now} = {} THEN {now} ELSE {u \in extraUntil : u > now}}
    BY <1>4 DEF Extends
  <2>2. minutes * Minute \in Nat
    BY WarningsAssumption DEF Minute
  <2>3. extraUntil' \subseteq Nat
    BY <2>1, <2>2
  <2> QED BY <1>4, <2>3 DEF Extends
<1>5. CASE Undoes
  <2>1. \A u \in extraUntil : Shortened(u) \in Nat
    BY <1>1 DEF Shortened, Minute
  <2> QED BY <1>5, <2>1 DEF Undoes
<1>6. CASE Pass
  BY <1>6 DEF Pass, bedtimePast
<1>7. CASE Sleeps
  <2>1. \A x \in now + 2 .. Horizon : x \in Nat
    BY HorizonAssumption
  <2> QED BY <1>7, <2>1 DEF Sleeps
<1>8. CASE GoesOff
  BY <1>8 DEF GoesOff
<1>9. CASE Boots
  BY <1>9 DEF Boots
<1>10. CASE UNCHANGED bedtimeVars
  BY <1>10 DEF bedtimeVars, bedtimePast
<1> QED BY <1>2, <1>3, <1>4, <1>5, <1>6, <1>7, <1>8, <1>9, <1>10 DEF BedtimeNext

\* The curfew is what a parent may set, and the extension is what the parent was last told.
THEOREM ExtensionIsRemembered == BedtimeSpec => []Awaited
  BY AwaitedStart, AwaitedStep, PTL DEF BedtimeSpec

-----------------------------------------------------------------------------
(* The loop, the countdown and the note on a grant go by the nights the     *)
(* parent named, for every curfew and every length of day and week.         *)
THEOREM ReadersAlwaysAgree == BedtimeSpec => []ReadersAgree
<1>1. Awaited => ReadersAgree
  <2> SUFFICES ASSUME Awaited PROVE ReadersAgree
    OBVIOUS
  <2> USE DEF Awaited
  <2>1. \A t \in Nat : IsActiveAt(curfew, extraUntil, t) <=> IsNight(curfew, extraUntil, t)
    BY ActiveIsNight
  <2>2. ASSUME NEW most \in Extensions \union {Lookahead}
        PROVE  LET told == CutsGrantShortIn(curfew, extraUntil, now, most)
                   nights == {k \in 0 .. most * Minute : IsNight(curfew, extraUntil, now + k)}
               IN  /\ \A m \in told : m * Minute \in nights
                   /\ \A k \in nights : k + 1 \in nights => \E m \in told : m * Minute <= k + 1
    <3> DEFINE told == CutsGrantShortIn(curfew, extraUntil, now, most)
               nights == {k \in 0 .. most * Minute : IsNight(curfew, extraUntil, now + k)}
    <3>1. most \in Nat
      BY WarningsAssumption, ThresholdsAssumption DEF Lookahead
    <3>2. CASE IsActiveAt(curfew, extraUntil, now)
      <4>1. told = {0}
        BY <3>2 DEF CutsGrantShortIn
      <4>2. 0 * Minute = 0 /\ 0 \in nights
        BY <2>1, <3>1, <3>2 DEF Minute
      <4> QED BY <3>1, <4>1, <4>2 DEF Minute
    <3>3. CASE ~ IsActiveAt(curfew, extraUntil, now)
      <4>1. told = FirstActive(curfew, extraUntil, now, most)
        BY <3>3 DEF CutsGrantShortIn
      <4>2. \A m \in told : m \in 1 .. most /\ FirstAt(curfew, extraUntil, now, m)
        BY <3>1, <4>1, ProbesFindTheFirst
      <4>3. \A m \in told : m * Minute \in nights
        <5> TAKE m \in told
        <5>1. m \in 1 .. most /\ IsActiveAt(curfew, extraUntil, now + m * Minute)
          BY <4>2 DEF FirstAt
        <5> QED BY <2>1, <3>1, <5>1 DEF Minute
      <4>4. ASSUME NEW k \in nights, k + 1 \in nights PROVE \E m \in told : m * Minute <= k + 1
        <5>1. PICK m \in Nat : m * Minute \in {k, k + 1}
          <6>1. k \in Nat
            BY <3>1 DEF Minute
          <6>2. k \div 2 \in Nat /\ (k \div 2) * 2 <= k /\ k <= (k \div 2) * 2 + 1
            BY <6>1
          <6>3. (k \div 2) * 2 = k \/ (k \div 2 + 1) * 2 = k + 1
            BY <6>1, <6>2
          <6>4. k \div 2 + 1 \in Nat
            BY <6>2
          <6> QED BY <6>2, <6>3, <6>4 DEF Minute
        <5>2. m <= most /\ IsActiveAt(curfew, extraUntil, now + m * Minute)
          BY <2>1, <3>1, <4>4, <5>1 DEF Minute
        <5>3. m # 0
          BY <3>3, <5>2 DEF Minute
        <5>4. PICK n \in told : FirstAt(curfew, extraUntil, now, n)
          BY <3>1, <4>1, <5>2, <5>3, ProbesFindTheFirst
        <5>5. n \in 1 .. most /\ n <= m
          BY <3>1, <4>2, <5>2, <5>3, <5>4 DEF FirstAt
        <5> QED BY <3>1, <5>1, <5>5 DEF Minute
      <4> QED BY <4>3, <4>4
    <3> QED BY <3>2, <3>3
  <2> QED BY <2>1, <2>2 DEF ReadersAgree
<1> QED BY <1>1, ExtensionIsRemembered, PTL

(* Until the instant the parent was last told, nobody is ordered off by the  *)
(* curfew.                                                                   *)
THEOREM ExtensionIsAlwaysKept == BedtimeSpec => ExtensionIsKept
<1>1. Awaited /\ [BedtimeNext]_bedtimeVars =>
          [Tick /\ action' = "Shutdown" => \A until \in promised : until <= now]_bedtimeVars
  <2> SUFFICES ASSUME Awaited, Tick, action' = "Shutdown", NEW until \in promised PROVE until <= now
    OBVIOUS
  <2>1. IsActiveAt(curfew, extraUntil, now)
    BY DEF Tick, Decided
  <2> QED BY <2>1 DEF Awaited, IsActiveAt
<1> QED BY <1>1, ExtensionIsRemembered, PTL DEF BedtimeSpec, ExtensionIsKept

-----------------------------------------------------------------------------
(* Types. *)

LEMMA LookaheadIs == Lookahead \in WarnAt /\ Lookahead \in Nat \ {0} /\ \A t \in WarnAt : t <= Lookahead
  BY WarningsAssumption, ThresholdsAssumption DEF Lookahead

\* What the countdown is fed with on a tick that finds no night.
LEMMA SeenIs ==
    ASSUME NEW c, NEW until, NEW t \in Nat, ~ IsActiveAt(c, until, t)
    PROVE  \E r \in 1 .. Lookahead + 1 :
              /\ Remaining(MinsUntilActive(c, until, t)) = {r}
              /\ \A m \in 1 .. r - 1 : ~ IsActiveAt(c, until, t + m * Minute)
              /\ r <= Lookahead => IsActiveAt(c, until, t + r * Minute)
<1> DEFINE first == FirstActive(c, until, t, Lookahead)
<1>1. MinsUntilActive(c, until, t) = first
  BY DEF MinsUntilActive
<1>2. CASE first = {}
  <2>1. Remaining(first) = {Lookahead + 1}
    BY <1>2 DEF Remaining
  <2>2. \A m \in 1 .. Lookahead : ~ IsActiveAt(c, until, t + m * Minute)
    <3>1. \/ \A m \in 1 .. Lookahead : ~ IsActiveAt(c, until, t + m * Minute)
          \/ \E m \in 1 .. Lookahead : first = {m}
      BY LookaheadIs, ProbesFindTheFirst
    <3> HIDE DEF first
    <3> QED BY <1>2, <3>1
  <2> HIDE DEF first
  <2> QED BY <1>1, <2>1, <2>2, LookaheadIs
<1>3. CASE first # {}
  <2>1. PICK r \in 1 .. Lookahead : first = {r} /\ FirstAt(c, until, t, r)
    BY <1>3, LookaheadIs, ProbesFindTheFirst
  <2>2. Remaining(first) = {r}
    BY <2>1 DEF Remaining
  <2>3. r \in 1 .. Lookahead + 1
    BY LookaheadIs
  <2> HIDE DEF first
  <2> QED BY <1>1, <2>1, <2>2, <2>3 DEF FirstAt
<1> QED BY <1>2, <1>3

LEMMA BedtimeTypeStart == BedtimeInit => BedtimeTypeOK
<1> SUFFICES ASSUME BedtimeInit PROVE BedtimeTypeOK
  OBVIOUS
<1>1. heard \in [WarnAt -> Option(0 .. Horizon)]
  BY DEF BedtimeInit, Untold, Option
<1>2. countdown \in Option(0 .. Lookahead + 1)
  BY DEF BedtimeInit, Unprimed, Option
<1>3. {awake, woken, looked, pending} \subseteq BOOLEAN
  BY DEF BedtimeInit
<1>4. now \in 0 .. Horizon /\ edits \in 0 .. MaxEdits /\ extends \in 0 .. MaxExtends
  BY HorizonAssumption DEF BedtimeInit
<1> QED BY <1>1, <1>2, <1>3, <1>4 DEF BedtimeInit, BedtimeTypeOK

LEMMA TickTyped == ASSUME BedtimeTypeOK, Tick PROVE BedtimeTypeOK'
<1> USE DEF BedtimeTypeOK
<1> DEFINE active == IsActiveAt(curfew, extraUntil, now)
           seen == IF ~curfew.enabled \/ active THEN {}
                   ELSE Remaining(MinsUntilActive(curfew, extraUntil, now))
           said == UNION {Observed(countdown, r) : r \in seen}
           near == {t \in WarnAt : Within(t, extraUntil)}
<1>1. seen \in Option(0 .. Lookahead + 1)
  <2>1. now \in Nat
    BY HorizonAssumption
  <2>2. CASE ~curfew.enabled \/ active
    BY <2>2 DEF Option
  <2>3. CASE ~ (~curfew.enabled \/ active)
    <3>1. PICK r \in 1 .. Lookahead + 1 : seen = {r}
      BY <2>1, <2>3, SeenIs
    <3> QED BY <3>1, LookaheadIs DEF Option
  <2> QED BY <2>2, <2>3
<1>2. /\ woken' = FALSE /\ looked' = TRUE /\ action' = Decided(active)
      /\ pending' \in IF action' = "Shutdown" THEN BOOLEAN ELSE {active}
      /\ countdown' = IF action' = "Abort" THEN Unprimed ELSE seen
      /\ heard' = [t \in WarnAt |->
                       IF active \/ t \notin near THEN {}
                       ELSE IF heard[t] = {} /\ action' = "None" /\ t \in said THEN {now}
                       ELSE heard[t]]
      /\ owed' = IF active \/ action' = "Abort" THEN {}
                 ELSE IF curfew.enabled THEN owed \union (WarnAt \ near)
                 ELSE owed
      /\ UNCHANGED <<now, curfew, extraUntil, awake, edits, extends, promised>>
  BY DEF Tick
<1>3. near \subseteq WarnAt /\ active \in BOOLEAN
  BY DEF IsActiveAt
<1> HIDE DEF seen, said, near, active
<1>4. countdown' \in Option(0 .. Lookahead + 1)
  BY <1>1, <1>2 DEF Option, Unprimed
<1>5. heard' \in [WarnAt -> Option(0 .. Horizon)]
  <2>1. \A t \in WarnAt : {} \in Option(0 .. Horizon) /\ {now} \in Option(0 .. Horizon)
    BY DEF Option
  <2> QED BY <1>2, <2>1
<1>6. action' \in {"None", "Shutdown", "Standing", "Abort"}
  BY <1>2 DEF Decided
<1>7. {awake', woken', looked', pending'} \subseteq BOOLEAN
  BY <1>2, <1>3
<1>8. owed' \subseteq WarnAt
  BY <1>2, <1>3
<1> QED BY <1>2, <1>4, <1>5, <1>6, <1>7, <1>8

LEMMA BedtimeTypeStep == BedtimeTypeOK /\ [BedtimeNext]_bedtimeVars => BedtimeTypeOK'
<1> SUFFICES ASSUME BedtimeTypeOK, [BedtimeNext]_bedtimeVars PROVE BedtimeTypeOK'
  OBVIOUS
<1> USE DEF BedtimeTypeOK
<1>1. Untold \in [WarnAt -> Option(0 .. Horizon)]
  BY DEF Untold, Option
<1>2. CASE Tick
  BY <1>2, TickTyped
<1>3. CASE SetsCurfew
  BY <1>1, <1>3, HorizonAssumption DEF SetsCurfew, Wakes, Disturbs
<1>4. CASE Extends
  <2>1. now \in Nat
    BY HorizonAssumption
  <2>2. PICK minutes \in Extensions :
            extraUntil' = {u + minutes * Minute :
                u \in IF {u \in extraUntil : u > now} = {} THEN {now} ELSE {u \in extraUntil : u > now}}
    BY <1>4 DEF Extends
  <2>3. minutes * Minute \in Nat
    BY WarningsAssumption DEF Minute
  <2> DEFINE base == IF {u \in extraUntil : u > now} = {} THEN {now} ELSE {u \in extraUntil : u > now}
  <2>5. base \subseteq Nat
    BY <2>1
  <2>4. extraUntil' \subseteq Nat
    <3> HIDE DEF base
    <3> QED BY <2>2, <2>3, <2>5
  <2> QED BY <1>4, <2>4, HorizonAssumption DEF Extends, Wakes
<1>5. CASE Undoes
  <2>1. now \in Nat
    BY HorizonAssumption
  <2>2. \A u \in extraUntil : Shortened(u) \in Nat
    BY <2>1, LookaheadIs DEF Shortened, Minute
  <2> QED BY <1>5, <2>2 DEF Undoes, Wakes
<1>6. CASE Pass
  <2>1. now' \in 0 .. Horizon
    BY <1>6, HorizonAssumption DEF Pass
  <2> QED BY <1>6, <2>1 DEF Pass, bedtimePast
<1>7. CASE Sleeps
  <2>1. \A x \in now + 2 .. Horizon : x \in 0 .. Horizon
    BY HorizonAssumption
  <2> QED BY <1>1, <1>7, <2>1 DEF Sleeps, Disturbs
<1>8. CASE GoesOff
  BY <1>1, <1>8 DEF GoesOff, Disturbs, Unprimed, Option
<1>9. CASE Boots
  BY <1>1, <1>9 DEF Boots, Disturbs
<1>10. CASE UNCHANGED bedtimeVars
  BY <1>10 DEF bedtimeVars, bedtimePast, loopVars
<1> QED BY <1>2, <1>3, <1>4, <1>5, <1>6, <1>7, <1>8, <1>9, <1>10 DEF BedtimeNext

(* The clock, the curfew, the countdown and the history of warnings have     *)
(* their types.                                                              *)
THEOREM BedtimeTypeCorrect == BedtimeSpec => []BedtimeTypeOK
  BY BedtimeTypeStart, BedtimeTypeStep, PTL DEF BedtimeSpec

-----------------------------------------------------------------------------
(* Of every threshold the loop saw bedtime beyond, either the child has been *)
(* told early enough for any night of a minute that is to come, or the       *)
(* countdown is still beyond it and no night comes before it can be told.    *)

Night(k) == IsNight(curfew, extraUntil, now + k)

Told(t) ==
    \E told \in heard[t] : \A k \in Nat : Night(k) /\ Night(k + 1) => told + 2 * t <= now + k + 1

Ahead(t) ==
    /\ \E c \in countdown : c > t
    /\ \A k \in Nat : Night(k) => k >= 2 * t /\ (looked /\ ~ woken => k > 2 * t)

Announced ==
    /\ \A t \in WarnAt : \A told \in heard[t] : told <= now
    /\ owed # {} => awake /\ curfew.enabled
    /\ \A t \in owed : Told(t) \/ Ahead(t)

LEMMA AnnouncedStart == BedtimeInit => Announced
  BY DEF BedtimeInit, Announced, Untold

\* What a tick makes of one threshold that is owed after it.
LEMMA TickAnnounces ==
    ASSUME BedtimeTypeOK, Announced, Tick, NEW t \in owed' PROVE Told(t)' \/ Ahead(t)'
<1> USE DEF BedtimeTypeOK
<1> DEFINE active == IsActiveAt(curfew, extraUntil, now)
           seen == IF ~curfew.enabled \/ active THEN {}
                   ELSE Remaining(MinsUntilActive(curfew, extraUntil, now))
           said == UNION {Observed(countdown, r) : r \in seen}
           near == {u \in WarnAt : Within(u, extraUntil)}
<1>1. /\ woken' = FALSE /\ looked' = TRUE /\ action' = Decided(active)
      /\ countdown' = IF action' = "Abort" THEN Unprimed ELSE seen
      /\ heard' = [u \in WarnAt |->
                       IF active \/ u \notin near THEN {}
                       ELSE IF heard[u] = {} /\ action' = "None" /\ u \in said THEN {now}
                       ELSE heard[u]]
      /\ owed' = IF active \/ action' = "Abort" THEN {}
                 ELSE IF curfew.enabled THEN owed \union (WarnAt \ near)
                 ELSE owed
      /\ UNCHANGED <<now, curfew, extraUntil>>
      /\ woken \/ ~ looked
  BY DEF Tick
<1>2. /\ now \in Nat /\ t \in WarnAt /\ t \in Nat \ {0} /\ t <= Lookahead
      /\ \A k : Night(k)' <=> Night(k)
  <2>1. now \in Nat /\ t \in WarnAt
    BY <1>1, HorizonAssumption
  <2>2. t \in Nat \ {0} /\ t <= Lookahead
    BY <2>1, LookaheadIs, ThresholdsAssumption
  <2>3. \A k : Night(k)' <=> Night(k)
    BY <1>1 DEF Night, IsNight
  <2> QED BY <2>1, <2>2, <2>3
<1>3. ~ active /\ action' = "None" /\ curfew.enabled
  BY <1>1 DEF Decided, Announced
<1>4. t \in near <=> \E k \in 0 .. 2 * t : Night(k)
  BY <1>2 DEF Within, Night, Minute
<1>5. \A k \in Nat : IsActiveAt(curfew, extraUntil, now + k) <=> Night(k)
  BY <1>2, ActiveIsNight DEF Night
<1>6. PICK r \in 1 .. Lookahead + 1 :
          /\ seen = {r}
          /\ \A m \in 1 .. r - 1 : ~ IsActiveAt(curfew, extraUntil, now + m * Minute)
          /\ r <= Lookahead => IsActiveAt(curfew, extraUntil, now + r * Minute)
  BY <1>2, <1>3, SeenIs
<1>7. countdown' = {r}
  BY <1>1, <1>3, <1>6
<1>8. said = Observed(countdown, r)
  BY <1>6
<1> HIDE DEF active, seen, said, near
<1>9. CASE t \notin near
  <2>1. r > t
    <3>1. SUFFICES ASSUME r <= t PROVE FALSE
      BY <1>2, LookaheadIs
    <3>2. IsActiveAt(curfew, extraUntil, now + r * Minute) /\ r * Minute \in 0 .. 2 * t
      BY <1>2, <1>6, <3>1, LookaheadIs DEF Minute
    <3> QED BY <1>4, <1>5, <1>9, <3>2
  <2>2. \A k \in Nat : Night(k) => k > 2 * t
    BY <1>2, <1>4, <1>9
  <2>3. \A k \in Nat : Night(k)' => k >= 2 * t /\ k > 2 * t
    BY <1>2, <2>2
  <2> QED BY <1>7, <2>1, <2>3 DEF Ahead
<1>10. CASE t \in near
  <2>1. t \in owed
    BY <1>1, <1>3, <1>10
  <2>2. heard'[t] = IF heard[t] = {} /\ t \in said THEN {now} ELSE heard[t]
    BY <1>1, <1>2, <1>3, <1>10
  <2>3. CASE Told(t)
    <3>1. PICK told \in heard[t] :
              \A k \in Nat : Night(k) /\ Night(k + 1) => told + 2 * t <= now + k + 1
      BY <2>3 DEF Told
    <3>2. heard'[t] = heard[t] /\ now' = now
      BY <1>1, <2>2, <3>1
    <3>3. \A k \in Nat : Night(k)' /\ Night(k + 1)' => told + 2 * t <= now' + k + 1
      BY <1>2, <3>1, <3>2
    <3> QED BY <3>1, <3>2, <3>3 DEF Told
  <2>4. CASE Ahead(t)
    <3>1. PICK c \in countdown : c > t
      BY <2>4 DEF Ahead
    <3>2. c \in Nat /\ countdown = {c}
      BY <3>1, LookaheadIs DEF Option
    <3>3. \A k \in Nat : Night(k) => k >= 2 * t
      BY <2>4 DEF Ahead
    <3>4. Night(t * Minute)
      <4>1. PICK k \in 0 .. 2 * t : Night(k)
        BY <1>4, <1>10
      <4>2. k = t * Minute
        BY <1>2, <3>3, <4>1 DEF Minute
      <4> QED BY <4>1, <4>2
    <3>5. r = t
      <4>1. ~ (t < r)
        <5>1. SUFFICES ASSUME t < r PROVE FALSE
          OBVIOUS
        <5>2. t \in 1 .. r - 1 /\ t * Minute \in Nat
          BY <1>2, <5>1, LookaheadIs DEF Minute
        <5> QED BY <1>5, <1>6, <3>4, <5>2
      <4>2. ~ (r < t)
        <5>1. SUFFICES ASSUME r < t PROVE FALSE
          OBVIOUS
        <5>2. r <= Lookahead /\ r * Minute \in Nat /\ r * Minute < 2 * t
          BY <1>2, <5>1, LookaheadIs DEF Minute
        <5> QED BY <1>2, <1>5, <1>6, <3>3, <5>2
      <4> QED BY <1>2, <4>1, <4>2, LookaheadIs
    <3>6. t \in said
      <4>1. t \in Crossed(countdown, r) /\ \A u \in Crossed(countdown, r) : t <= u
        BY <1>2, <3>1, <3>2, <3>5 DEF Crossed
      <4> QED BY <1>8, <4>1 DEF Observed
    <3>7. PICK told \in heard'[t] : told <= now
      <4>1. CASE heard[t] = {}
        BY <1>2, <2>2, <3>6, <4>1
      <4>2. CASE heard[t] # {}
        BY <1>2, <2>2, <4>2 DEF Announced
      <4> QED BY <4>1, <4>2
    <3>8. told \in Nat
      <4>1. heard[t] \subseteq 0 .. Horizon
        BY <1>2 DEF Option
      <4> QED BY <1>2, <2>2, <3>7, <4>1, HorizonAssumption
    <3>9. \A k \in Nat : Night(k)' /\ Night(k + 1)' => told + 2 * t <= now' + k + 1
      BY <1>1, <1>2, <3>3, <3>7, <3>8
    <3> QED BY <3>7, <3>9 DEF Told
  <2> QED BY <2>1, <2>3, <2>4 DEF Announced
<1> QED BY <1>9, <1>10

\* A night that an extension ends earlier than before, or that is looked at half a minute later.
LEMMA LaterNights ==
    ASSUME BedtimeTypeOK, Announced, NEW t \in owed, heard' = heard, countdown' = countdown,
           \A k \in Nat : Night(k)' => Night(now' - now + k) \/ k >= 2 * t,
           ~ (looked' /\ ~ woken'),
           now' = now \/ (now' = now + 1 /\ looked /\ ~ woken)
    PROVE  Told(t)' \/ Ahead(t)'
<1> USE DEF BedtimeTypeOK
<1>1. now \in Nat /\ t \in WarnAt /\ t \in Nat /\ now' \in {now, now + 1}
  <2>1. now \in Nat /\ t \in WarnAt
    BY HorizonAssumption
  <2>2. t \in Nat
    BY <2>1, ThresholdsAssumption
  <2> QED BY <2>1, <2>2
<1>2. CASE Told(t)
  <2>1. PICK told \in heard[t] : \A k \in Nat : Night(k) /\ Night(k + 1) => told + 2 * t <= now + k + 1
    BY <1>2 DEF Told
  <2>2. told \in Nat /\ told <= now
    <3>1. heard[t] \subseteq 0 .. Horizon
      BY <1>1 DEF Option
    <3> QED BY <1>1, <3>1, HorizonAssumption DEF Announced
  <2>3. ASSUME NEW k \in Nat, Night(k)', Night(k + 1)' PROVE told + 2 * t <= now' + k + 1
    <3>0. k + 1 \in Nat /\ now' \in Nat /\ told <= now' /\ 2 * t \in Nat
      BY <1>1, <2>2
    <3>1. CASE k + 1 >= 2 * t
      BY <2>2, <3>0, <3>1
    <3>2. CASE k + 1 < 2 * t
      <4> DEFINE d == now' - now
                 j == d + k
      <4>0. now \in Nat /\ d \in Nat /\ now' = now + d
        <5>1. CASE now' = now BY <1>1, <5>1
        <5>2. CASE now' = now + 1 BY <1>1, <5>2
        <5> QED BY <1>1, <5>1, <5>2
      <4>1. j \in Nat /\ d + (k + 1) = j + 1 /\ k + 1 \in Nat /\ now + j = now' + k
        <5> HIDE DEF d
        <5> QED BY <4>0
      <4>2. ~ (k >= 2 * t) /\ ~ (k + 1 >= 2 * t)
        BY <1>1, <3>2
      <4>3. Night(j) /\ Night(now' - now + (k + 1))
        BY <2>3, <4>1, <4>2
      <4>4. Night(j + 1)
        BY <4>1, <4>3
      <4>5. told + 2 * t <= now + j + 1
        <5> HIDE DEF j
        <5> QED BY <2>1, <4>1, <4>3, <4>4
      <4> QED BY <1>1, <2>2, <4>1, <4>5
    <3> QED BY <1>1, <3>1, <3>2
  <2> QED BY <2>1, <2>3 DEF Told
<1>3. CASE Ahead(t)
  <2>1. \E c \in countdown' : c > t
    BY <1>3 DEF Ahead
  <2>2. ASSUME NEW k \in Nat, Night(k)' PROVE k >= 2 * t /\ (looked' /\ ~ woken' => k > 2 * t)
    <3>1. CASE k >= 2 * t
      BY <3>1
    <3>2. CASE Night(now' - now + k)
      <4> DEFINE j == now' - now + k
      <4>1. j \in Nat /\ (now' = now => j = k) /\ (now' = now + 1 => j = k + 1)
        BY <1>1
      <4>2. j >= 2 * t /\ (looked /\ ~ woken => j > 2 * t)
        BY <1>3, <3>2, <4>1 DEF Ahead
      <4> HIDE DEF j
      <4>3. CASE now' = now
        BY <4>1, <4>2, <4>3
      <4>4. CASE now' = now + 1 /\ looked /\ ~ woken
        BY <1>1, <4>1, <4>2, <4>4
      <4> QED BY <4>3, <4>4
    <3> QED BY <2>2, <3>1, <3>2
  <2> QED BY <2>1, <2>2 DEF Ahead
<1> QED BY <1>2, <1>3 DEF Announced

LEMMA AnnouncedStep == BedtimeTypeOK /\ Announced /\ [BedtimeNext]_bedtimeVars => Announced'
<1> SUFFICES ASSUME BedtimeTypeOK, Announced, [BedtimeNext]_bedtimeVars PROVE Announced'
  OBVIOUS
<1> USE DEF BedtimeTypeOK
<1>1. now \in Nat
  BY HorizonAssumption
<1>2. /\ \A t \in owed : t \in WarnAt /\ t \in Nat /\ 2 * t <= 2 * Lookahead
      /\ \A t \in WarnAt : \A told \in heard[t] : told <= now
      /\ owed # {} => awake /\ curfew.enabled
  <2>1. \A t \in owed : t \in WarnAt /\ t \in Nat /\ t <= Lookahead
    BY LookaheadIs, ThresholdsAssumption
  <2> QED BY <2>1, LookaheadIs DEF Announced
<1>3. heard' = Untold /\ owed' = {} => Announced'
  BY DEF Announced, Untold
<1>4. CASE Tick
  <2>1. \A t \in owed' : Told(t)' \/ Ahead(t)'
    BY <1>4, TickAnnounces
  <2>2. /\ awake /\ awake' = awake /\ curfew' = curfew /\ now' = now
        /\ owed' # {} => owed # {} \/ curfew.enabled
        /\ \A t \in WarnAt : heard'[t] \in {{}, {now}, heard[t]}
    BY <1>4 DEF Tick
  <2>3. \A t \in WarnAt : \A told \in heard'[t] : told <= now'
    BY <1>1, <1>2, <2>2
  <2>4. owed' # {} => awake' /\ curfew'.enabled
    BY <1>2, <2>2
  <2> QED BY <2>1, <2>3, <2>4 DEF Announced
<1>5. CASE SetsCurfew
  BY <1>3, <1>5 DEF SetsCurfew, Disturbs
<1>6. CASE Extends
  <2>1. PICK minutes \in Extensions :
            extraUntil' = {u + minutes * Minute :
                u \in IF {u \in extraUntil : u > now} = {} THEN {now} ELSE {u \in extraUntil : u > now}}
    BY <1>6 DEF Extends
  <2>2. /\ UNCHANGED <<now, curfew, awake, looked, countdown, owed, heard>>
        /\ woken' = awake
    BY <1>6 DEF Extends, Wakes
  <2>3. ASSUME NEW k \in Nat, Night(k)' PROVE Night(k)
    <3>1. minutes * Minute \in Nat
      BY WarningsAssumption DEF Minute
    <3>2. \A u \in extraUntil' : u <= now + k
      BY <2>2, <2>3 DEF Night, IsNight
    <3>3. ASSUME NEW u \in extraUntil PROVE u <= now + k
      <4>1. CASE u <= now
        BY <1>1, <4>1
      <4>2. CASE u > now
        <5>1. u + minutes * Minute \in extraUntil'
          BY <2>1, <4>2
        <5> QED BY <1>1, <3>1, <3>2, <5>1
      <4>3. u \in Nat
        OBVIOUS
      <4>4. u <= now \/ u > now
        BY <1>1, <4>3
      <4> QED BY <4>1, <4>2, <4>4
    <3> QED BY <2>2, <2>3, <3>3 DEF Night, IsNight
  <2>4. ASSUME NEW t \in owed PROVE Told(t)' \/ Ahead(t)'
    <3>1. woken' = TRUE
      BY <1>2, <2>2, <2>4
    <3>2. \A k \in Nat : now' - now + k = k
      BY <1>1, <2>2
    <3> QED BY <1>1, <2>2, <2>3, <3>1, <3>2, LaterNights
  <2> QED BY <1>2, <2>2, <2>4 DEF Announced
<1>7. CASE Undoes
  <2>1. PICK until \in extraUntil : until > now /\ extraUntil' = {Shortened(until)}
    BY <1>7 DEF Undoes
  <2>2. /\ UNCHANGED <<now, curfew, awake, looked, countdown, owed, heard>>
        /\ woken' = awake
    BY <1>7 DEF Undoes, Wakes
  <2>3. ASSUME NEW k \in Nat, Night(k)' PROVE Night(k) \/ k >= 2 * Lookahead
    <3>1. Shortened(until) <= now + k
      BY <2>1, <2>2, <2>3 DEF Night, IsNight
    <3>2. CASE until < now + Lookahead * Minute
      <4>1. extraUntil = {until}
        BY <2>1
      <4> QED BY <2>1, <2>2, <2>3, <3>1, <3>2 DEF Night, IsNight, Shortened
    <3>3. CASE ~ (until < now + Lookahead * Minute)
      BY <1>1, <3>1, <3>3, LookaheadIs DEF Shortened, Minute
    <3> QED BY <3>2, <3>3
  <2>4. ASSUME NEW t \in owed PROVE Told(t)' \/ Ahead(t)'
    <3>1. woken' = TRUE
      BY <1>2, <2>2, <2>4
    <3>2. \A k \in Nat : now' - now + k = k
      BY <1>1, <2>2
    <3>3. \A k \in Nat : Night(k)' => Night(k) \/ k >= 2 * t
      BY <1>2, <2>3, LookaheadIs
    <3> QED BY <1>1, <2>2, <3>1, <3>2, <3>3, LaterNights
  <2> QED BY <1>2, <2>2, <2>4 DEF Announced
<1>8. CASE Pass
  <2>1. /\ now' = now + 1 /\ looked' = FALSE /\ (awake => looked /\ ~ woken)
        /\ UNCHANGED <<curfew, extraUntil, awake, woken, countdown, heard, owed>>
    BY <1>8 DEF Pass, bedtimePast
  <2>2. ASSUME NEW k \in Nat, Night(k)' PROVE Night(now' - now + k)
    <3>1. now' + k = now + (now' - now + k)
      BY <1>1, <2>1
    <3> QED BY <2>1, <2>2, <3>1 DEF Night, IsNight
  <2>3. ASSUME NEW t \in owed PROVE Told(t)' \/ Ahead(t)'
    <3>1. looked /\ ~ woken
      BY <1>2, <2>1, <2>3
    <3>2. now' \in Nat /\ now <= now'
      BY <1>1, <2>1
    <3> QED BY <2>1, <2>2, <3>1, <3>2, LaterNights
  <2>4. \A t \in WarnAt : \A told \in heard'[t] : told <= now'
    <3> TAKE t \in WarnAt
    <3> TAKE told \in heard'[t]
    <3>1. heard[t] \subseteq 0 .. Horizon
      BY DEF Option
    <3> QED BY <1>1, <1>2, <2>1, <3>1, HorizonAssumption
  <2> QED BY <1>2, <2>1, <2>3, <2>4 DEF Announced
<1>9. CASE Sleeps
  BY <1>3, <1>9 DEF Sleeps, Disturbs
<1>10. CASE GoesOff
  BY <1>3, <1>10 DEF GoesOff, Disturbs
<1>11. CASE Boots
  BY <1>3, <1>11 DEF Boots, Disturbs
<1>12. CASE UNCHANGED bedtimeVars
  BY <1>12 DEF bedtimeVars, bedtimePast, loopVars, Announced, Told, Ahead, Night, IsNight
<1> QED BY <1>4, <1>5, <1>6, <1>7, <1>8, <1>9, <1>10, <1>11, <1>12 DEF BedtimeNext

(* Nobody is ordered off who was not warned, for every curfew, whatever was  *)
(* extended and taken back meanwhile.                                        *)
THEOREM BedtimeIsAlwaysAnnounced == BedtimeSpec => BedtimeIsAnnounced
<1> DEFINE warned == \A t \in owed : \E told \in heard[t] : told + Minute * t <= now + 1
           next == [Tick /\ action' = "Shutdown" /\ IsNight(curfew, extraUntil, now + 1) => warned]_bedtimeVars
<1>1. BedtimeTypeOK /\ Announced /\ [BedtimeNext]_bedtimeVars => next
  <2> SUFFICES ASSUME BedtimeTypeOK, Announced, Tick, action' = "Shutdown",
                      IsNight(curfew, extraUntil, now + 1), NEW t \in owed
               PROVE  \E told \in heard[t] : told + Minute * t <= now + 1
    OBVIOUS
  <2> USE DEF BedtimeTypeOK
  <2>1. now \in Nat /\ t \in Nat \ {0} /\ now + 0 = now /\ now + 0 + 1 = now + 1
    BY HorizonAssumption, ThresholdsAssumption
  <2>2. IsActiveAt(curfew, extraUntil, now)
    BY DEF Tick, Decided
  <2>3. Night(0) /\ Night(0 + 1)
    <3>1. IsNight(curfew, extraUntil, now)
      BY <2>1, <2>2, ActiveIsNight
    <3> QED BY <2>1, <3>1 DEF Night
  <2>4. ~ Ahead(t)
    <3>1. ~ (0 >= 2 * t)
      BY <2>1
    <3> QED BY <2>3, <3>1 DEF Ahead
  <2>5. PICK told \in heard[t] : told + 2 * t <= now + 0 + 1
    BY <2>3, <2>4 DEF Announced, Told
  <2> QED BY <2>1, <2>5 DEF Minute
<1>2. BedtimeSpec => []Announced
  BY AnnouncedStart, AnnouncedStep, BedtimeTypeCorrect, PTL DEF BedtimeSpec
<1> QED BY <1>1, <1>2, BedtimeTypeCorrect, PTL DEF BedtimeSpec, BedtimeIsAnnounced

=============================================================================
