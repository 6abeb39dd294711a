---------------------------- MODULE CommonProofs ----------------------------
(***************************************************************************)
(* Lemmas that the proofs of several components need: that what the        *)
(* library chooses by its order is there, induction on the number of       *)
(* iterations of a loop, and what the dynamic configuration keeps whatever *)
(* sky_set_option() and the responses change.                              *)
(***************************************************************************)
EXTENDS Config, FiniteSetsExt, WellFoundedInduction, TLAPS

(***************************************************************************)
(* The least and the greatest.                                             *)
(***************************************************************************)

\* The first index of a search is one of those searched for.
LEMMA LeastNatural ==
    ASSUME NEW S \in SUBSET Nat, S # {}
    PROVE  Min(S) \in S /\ \A x \in S : Min(S) <= x
<1> DEFINE below == {ss \in Nat \X Nat : ss[1] < ss[2]}
<1>1. OpToRel(<, Nat) = below
  BY DEF OpToRel
<1>2. PICK x \in S : \A y \in S : <<y, x>> \notin below
  <2> HIDE DEF below
  <2>1. IsWellFoundedOn(below, Nat)
    BY <1>1, NatLessThanWellFounded
  <2> QED
    BY <2>1, WFMin
<1>3. ASSUME NEW y \in S
      PROVE  x <= y
  <2>1. <<y, x>> \notin below
    BY <1>2
  <2> QED
    BY <2>1
<1> QED
  BY <1>3 DEF Min

LEMMA LesserOfTwo ==
    ASSUME NEW a \in Nat, NEW b \in Nat
    PROVE  Min({a, b}) = IF a <= b THEN a ELSE b
<1> DEFINE both == {a, b}
<1>1. both \in SUBSET Nat /\ both # {} /\ a \in both /\ b \in both /\ \A x \in both : x = a \/ x = b
  OBVIOUS
<1> HIDE DEF both
<1>2. Min(both) \in both /\ \A x \in both : Min(both) <= x
  BY <1>1, LeastNatural
<1> DEFINE m == Min(both)
<1>3. (m = a \/ m = b) /\ m <= a /\ m <= b
  BY <1>1, <1>2
<1> HIDE DEF m
<1>4. m = IF a <= b THEN a ELSE b
  BY <1>3
<1> QED
  BY <1>4 DEF both, m

\* So is the last one.
LEMMA GreatestNatural ==
    ASSUME NEW n \in Nat, NEW S \in SUBSET (0 .. n), S # {}
    PROVE  Max(S) \in S /\ \A x \in S : Max(S) >= x
<1> DEFINE mirror == {n - x : x \in S}
<1>1. mirror \in SUBSET Nat
  <2>1. \A x \in S : n - x \in Nat
    OBVIOUS
  <2> QED
    BY <2>1
<1>2. mirror # {}
  <2>1. PICK x \in S : TRUE
    OBVIOUS
  <2>2. n - x \in mirror
    OBVIOUS
  <2> QED
    BY <2>2
<1>3. PICK x \in S : Min(mirror) = n - x
  <2> HIDE DEF mirror
  <2>1. Min(mirror) \in mirror
    BY <1>1, <1>2, LeastNatural
  <2> QED
    BY <2>1 DEF mirror
<1>4. ASSUME NEW y \in S
      PROVE  x >= y
  <2>1. n - y \in mirror
    OBVIOUS
  <2>2. Min(mirror) <= n - y
    <3> HIDE DEF mirror
    <3> QED
      BY <1>1, <1>2, <2>1, LeastNatural
  <2> QED
    BY <2>2, <1>3
<1> QED
  BY <1>4 DEF Max

\* What holds of 0, and of the next number whenever it holds of one, holds of
\* every natural number: Bad is the set of those it does not hold of.
LEMMA NoLeastNoBad ==
    ASSUME NEW Bad \in SUBSET Nat, 0 \notin Bad,
           \A k \in Nat : k \notin Bad => k + 1 \notin Bad
    PROVE  Bad = {}
<1> SUFFICES ASSUME Bad # {}
             PROVE  FALSE
  OBVIOUS
<1> DEFINE k == Min(Bad)
<1>1. k \in Bad /\ \A x \in Bad : k <= x
  BY LeastNatural
<1> HIDE DEF k
<1>2. k \in Nat /\ k # 0
  BY <1>1
<1>3. k - 1 \in Nat /\ k - 1 \notin Bad /\ (k - 1) + 1 = k
  BY <1>1, <1>2
<1> QED
  BY <1>1, <1>3

Total(R, T) == \A x, y \in T : <<x, y>> \in R \/ <<y, x>> \in R

Transitive(R, T) == \A x, y, z \in T : <<x, y>> \in R /\ <<y, z>> \in R => <<x, z>> \in R

\* A relation R that is total and transitive on finitely many indices has a
\* greatest one.
LEMMA GreatestByRelation ==
    ASSUME NEW R, NEW n \in Nat, NEW T \in SUBSET (1 .. n), T # {},
           Total(R, T), Transitive(R, T)
    PROVE  \E k \in T : \A j \in T : <<j, k>> \in R
<1> DEFINE Has(S) == \E k \in S : \A j \in S : <<j, k>> \in R
           Bad == {m \in Nat : \E S \in SUBSET (T \cap (1 .. m)) : S # {} /\ ~Has(S)}
<1>1. 0 \notin Bad
  <2>1. T \cap (1 .. 0) = {}
    OBVIOUS
  <2>2. \A S \in SUBSET (T \cap (1 .. 0)) : S = {}
    BY <2>1
  <2> QED
    BY <2>2
<1>2. ASSUME NEW m \in Nat, m \notin Bad
      PROVE  m + 1 \notin Bad
  <2> SUFFICES ASSUME NEW S \in SUBSET (T \cap (1 .. m + 1)), S # {}
               PROVE  Has(S)
    OBVIOUS
  <2> DEFINE rest == S \ {m + 1}
  <2>1. rest \in SUBSET (T \cap (1 .. m))
    OBVIOUS
  <2>2. CASE m + 1 \notin S
    <3>1. rest = S
      BY <2>2
    <3> QED
      BY <2>1, <3>1, <1>2
  <2>3. CASE rest = {}
    <3>1. S = {m + 1} /\ m + 1 \in T
      BY <2>3
    <3> QED
      BY <3>1 DEF Total
  <2>4. CASE m + 1 \in S /\ rest # {}
    <3>1. PICK k \in rest : \A j \in rest : <<j, k>> \in R
      BY <2>1, <2>4, <1>2
    <3>2. CASE <<m + 1, k>> \in R
      <4>1. \A j \in S : <<j, k>> \in R
        BY <3>1, <3>2
      <4> QED
        BY <4>1, <3>1
    <3>3. CASE <<m + 1, k>> \notin R
      <4>1. <<k, m + 1>> \in R /\ <<m + 1, m + 1>> \in R
        BY <3>3, <3>1, <2>4 DEF Total
      <4>2. \A j \in S : <<j, m + 1>> \in R
        BY <3>1, <4>1, <2>4 DEF Transitive
      <4> QED
        BY <4>2, <2>4
    <3> QED
      BY <3>2, <3>3
  <2> QED
    BY <2>2, <2>3, <2>4
<1>3. Bad = {}
  <2>1. Bad \in SUBSET Nat
    OBVIOUS
  <2> HIDE DEF Bad
  <2> QED
    BY <2>1, <1>1, <1>2, NoLeastNoBad
<1>4. T \in SUBSET (T \cap (1 .. n))
  OBVIOUS
<1> QED
  BY <1>3, <1>4

(***************************************************************************)
(* The configuration.                                                      *)
(***************************************************************************)

ConfigRecord == [OptionName -> 0 .. UintMod - 1]

LEMMA BuiltTyped == Built \in ConfigRecord
BY ConfigAssumption DEF Built, OptionName, ConfigRecord

LEMMA DefaultsTyped ==
    ASSUME NEW c \in ConfigRecord
    PROVE  ConfigDefaults(c) \in ConfigRecord
BY ConfigAssumption DEF ConfigDefaults, ConfigRecord

LEMMA ReconfiguredTyped ==
    ASSUME NEW c \in ConfigRecord, NEW d \in Reconfigured(c)
    PROVE  d \in ConfigRecord
<1>1. ASSUME NEW o \in Option, d = SetOption(c, o[1], o[2])
      PROVE  d \in ConfigRecord
  <2>1. o[2] % UintMod \in 0 .. UintMod - 1
    BY ConfigAssumption
  <2> QED
    BY <1>1, <2>1 DEF SetOption, ConfigRecord
<1>2. ASSUME NEW o \in Override, d = ApplyConfigOverrides(c, o)
      PROVE  d \in ConfigRecord
  <2>1. ConfigDefaults(c) \in ConfigRecord
    BY DefaultsTyped
  <2>2. \A name \in DOMAIN o : o[name] \in 0 .. UintMod - 1
    BY ConfigAssumption
  <2> QED
    BY <1>2, <2>1, <2>2 DEF ApplyConfigOverrides, ConfigRecord
<1> QED
  BY <1>1, <1>2 DEF Reconfigured

(***************************************************************************)
(* The limits on beacons.  The code accepts limits that do not fit each    *)
(* other: a total below the limit for APs, or a negative limit for APs,    *)
(* which becomes a large one.  Only the total has a range.                 *)
(***************************************************************************)

TotalInRange(c) == c["total_beacons"] \in 1 .. TOTAL_BEACONS

LEMMA LimitNames ==
    /\ {"total_beacons", "max_ap_beacons"} \subseteq OptionName
    /\ Built["total_beacons"] = TOTAL_BEACONS /\ Built["max_ap_beacons"] = MAX_AP_BEACONS
    /\ TOTAL_BEACONS \in 1 .. UintMod - 1 /\ MAX_AP_BEACONS \in 1 .. TOTAL_BEACONS
    /\ UintMod \in Nat \ {0}
<1>1. {"total_beacons", "max_ap_beacons"} \subseteq OptionName
  BY DEF OptionName, Built
<1>2. Built["total_beacons"] = TOTAL_BEACONS /\ Built["max_ap_beacons"] = MAX_AP_BEACONS
  BY DEF Built
<1> QED
  BY <1>1, <1>2, ConfigAssumption, LimitAssumption

LEMMA BuiltInRange == TotalInRange(Built)
BY LimitNames DEF TotalInRange

LEMMA DefaultsInRange ==
    ASSUME NEW c, TotalInRange(c)
    PROVE  TotalInRange(ConfigDefaults(c))
BY LimitNames DEF TotalInRange, ConfigDefaults

LEMMA ReconfiguredInRange ==
    ASSUME NEW c \in ConfigRecord, TotalInRange(c), NEW d \in Reconfigured(c)
    PROVE  TotalInRange(d)
<1>1. ASSUME NEW o \in Option, d = SetOption(c, o[1], o[2])
      PROVE  TotalInRange(d)
  <2> DEFINE name == o[1]
             value == o[2]
  <2>1. name \in OptionName /\ value \in Int
    BY ConfigAssumption
  <2>2. CASE ~OptionAccepted(name, value)
    BY <2>2, <1>1 DEF SetOption
  <2>3. CASE OptionAccepted(name, value)
    <3>1. d = [c EXCEPT ![name] = value % UintMod]
      BY <2>3, <1>1 DEF SetOption
    <3>2. CASE name = "total_beacons"
      <4>1. value <= TOTAL_BEACONS /\ value >= MinTotal
        BY <2>3, <3>2 DEF OptionAccepted, OptionMax
      <4>2. value \in 1 .. TOTAL_BEACONS
        BY <2>1, <4>1, ConfigAssumption, LimitNames
      <4>3. value % UintMod = value
        BY <4>2, LimitNames
      <4> QED
        BY <3>1, <3>2, <4>2, <4>3, LimitNames DEF TotalInRange, ConfigRecord
    <3>3. CASE name # "total_beacons"
      BY <3>1, <3>3, LimitNames DEF TotalInRange, ConfigRecord
    <3> QED
      BY <3>2, <3>3
  <2> QED
    BY <2>2, <2>3
<1>2. ASSUME NEW o \in Override, d = ApplyConfigOverrides(c, o)
      PROVE  TotalInRange(d)
  <2>1. TotalInRange(ConfigDefaults(c))
    BY DefaultsInRange
  <2>2. \/ d["total_beacons"] = ConfigDefaults(c)["total_beacons"]
        \/ /\ d["total_beacons"] = o["total_beacons"] /\ "total_beacons" \in DOMAIN o
           /\ 1 < o["total_beacons"] /\ o["total_beacons"] < TOTAL_BEACONS
    BY <1>2, LimitNames DEF ApplyConfigOverrides, OverrideInRange
  <2>3. "total_beacons" \in DOMAIN o => o["total_beacons"] \in Nat
    BY ConfigAssumption
  <2> QED
    BY <2>1, <2>2, <2>3, LimitNames DEF TotalInRange
<1> QED
  BY <1>1, <1>2 DEF Reconfigured
=============================================================================
